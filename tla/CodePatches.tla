---------------------------- MODULE CodePatches ----------------------------
(***************************************************************************)
(* The code change tools: executeCodeApplyPatch and                        *)
(* executeCodeRollbackPatch of src/src/util/code_mutation_tools.js.        *)
(*                                                                         *)
(* A patch is a dry run, which notes in a ledger what it would change, and *)
(* a later apply, which looks the dry run up, edits the file with          *)
(* edit_file_patch, checks the syntax of what is there then and notes that *)
(* it is committed, or writes the backup back.  A rollback looks up a      *)
(* committed patch and writes its backup back.  The ledger is a file of    *)
(* lines; one line that is cut off makes every reading of it fail.         *)
(*                                                                         *)
(* The edit of a patch is an operation of FileMutations; the other tools   *)
(* run beside.  A dry run is applied once at most, with the same anchor    *)
(* and content.  The two readings of a dry run are one step.  Lines about  *)
(* what was refused are left out.  Apply_AnyVersion is a deliberately      *)
(* wrong variant of Apply.                                                 *)
(***************************************************************************)
EXTENDS FileMutations

ASSUME PatchAssumption == \A z \in DOMAIN Scenarios : Scenarios[z].patches \subseteq Paths

VARIABLES
    patch,     \* where the patch or the rollback of every operation is
    ledger,    \* what the ledger says of the patch of every operation
    torn       \* whether a line of it is cut off

patchVars == <<vars, patch, ledger, torn>>

\* back: whether the file went away and came back before the patch was renamed.
NoPatch == [step |-> "none", path |-> Nobody, source |-> Absent, saved |-> Absent,
            back |-> FALSE, of |-> Nobody]
NoLine == [status |-> "none", path |-> Nobody, source |-> Absent, backup |-> Absent,
           back |-> FALSE]

PatchSteps == {"none", "announce", "ready", "refer", "edit", "inside", "validate", "commit",
               "before", "restore", "refill", "note", "done"}

PatchTypeOK ==
    /\ TypeOK
    /\ \A o \in Ops :
          /\ patch[o].step \in PatchSteps
          /\ patch[o].step = "inside" <=> InFlight(o) /\ Kind(o) = "patch"
          /\ patch[o].step \notin {"none", "done"} => patch[o].path \in Setting.patches
          /\ ledger[o].status \in {"none", "ready", "committed", "undone"}
    /\ torn \in BOOLEAN

PatchInit ==
    /\ Init
    /\ patch = [o \in Ops |-> NoPatch]
    /\ ledger = [o \in Ops |-> NoLine]
    /\ torn = FALSE

-----------------------------------------------------------------------------

In(o, step) == patch[o].step = step
There(o) == file[patch[o].path]
Patching(o) == patch[o].step \notin {"none", "ready", "done"}

Turn(o, step) == patch' = [patch EXCEPT ![o].step = step]
Done(o) == patch' = [patch EXCEPT ![o] = [NoPatch EXCEPT !.step = "done"]]

\* The operation serves a patch or a rollback.
Taken(o) ==
    /\ At(o, "idle") /\ Cardinality({x \in Ops : op[x].step # "idle"}) < Setting.most
    /\ op' = [op EXCEPT ![o] = Ended]

OnlyPatch == UNCHANGED <<stage, file, backups, trash, ledger, torn>>
OnlyLedger == UNCHANGED <<stage, file, backups, trash, op, torn>>

\* The dry run of a patch: the version that it would change.
Propose(o) ==
    /\ Taken(o)
    /\ \E p \in Setting.patches :
          IF file[p] = Absent THEN Done(o)
          ELSE patch' = [patch EXCEPT ![o].path = p, ![o].source = file[p],
                                      ![o].step = "announce"]
    /\ OnlyPatch

\* It is noted, and the client has its number.
Announce(o) ==
    /\ In(o, "announce")
    /\ ledger' = [ledger EXCEPT ![o] = [NoLine EXCEPT !.status = "ready",
                                                      !.path = patch[o].path,
                                                      !.source = patch[o].source]]
    /\ Turn(o, "ready")
    /\ OnlyLedger

Apply_AnyVersion(o) ==
    /\ In(o, "ready")
    /\ IF There(o) = Absent THEN Done(o)
       ELSE patch' = [patch EXCEPT ![o].source = There(o), ![o].step = "refer"]
    /\ OnlyPatch /\ UNCHANGED op

\* The apply begins with a dry run of its own, of the same version.
Apply(o) ==
    /\ In(o, "ready")
    /\ IF There(o) = ledger[o].source THEN Turn(o, "refer") ELSE Done(o)
    /\ OnlyPatch /\ UNCHANGED op

\* It reads the ledger.
Refer(o) ==
    /\ In(o, "refer")
    /\ IF torn THEN Done(o) ELSE Turn(o, "edit")
    /\ OnlyPatch /\ UNCHANGED op

\* edit_file_patch finds the version it expects; what follows is as for every edit.
Edit(o) ==
    /\ In(o, "edit")
    /\ IF There(o) # patch[o].source THEN Done(o) /\ UNCHANGED op
       ELSE /\ Turn(o, "inside")
            /\ LET r == [NoRequest EXCEPT !.kind = "patch", !.path = patch[o].path,
                                          !.from = "inline"]
               IN  op' = [op EXCEPT ![o] = [Requested(r) EXCEPT !.base = There(o),
                                                                !.step = "preview"]]
    /\ OnlyPatch

\* A step of FileMutations.  A patch keeps the name of its backup and goes on when its
\* file is renamed.
Carry(o) ==
    IF ~In(o, "inside") \/ op'[o] = op[o] THEN patch[o]
    ELSE IF At(o, "backup") THEN
        IF op'[o].step = "ended" THEN [NoPatch EXCEPT !.step = "done"]
        ELSE [patch[o] EXCEPT !.saved = Here(o)]
    ELSE IF At(o, "rename") /\ file' # file
    THEN [patch[o] EXCEPT !.step = "validate", !.back = since[o] = "back"]
    ELSE IF op'[o].step = "ended" THEN [NoPatch EXCEPT !.step = "done"]
    ELSE patch[o]

\* syntaxCheck reads what is at the path now, and may refuse it.
Validate(o) ==
    /\ In(o, "validate")
    /\ IF There(o) = Absent THEN Done(o)
       ELSE \/ Turn(o, "commit")
            \/ Turn(o, IF patch[o].saved = Absent THEN "note" ELSE "restore")
    /\ OnlyPatch /\ UNCHANGED op

Commit(o) ==
    /\ In(o, "commit")
    /\ ledger' = [ledger EXCEPT ![o].status = "committed", ![o].backup = patch[o].saved,
                                ![o].back = patch[o].back]
    /\ Done(o)
    /\ OnlyLedger

-----------------------------------------------------------------------------

\* executeCodeRollbackPatch finds in the ledger that the patch is committed, has a
\* backup and is not rolled back yet.
Rollback(o) ==
    /\ Taken(o)
    /\ \E x \in {x \in Ops : ledger[x].status \in {"committed", "undone"}} :
          LET line == ledger[x] IN
          IF torn \/ line.status = "undone" \/ line.backup = Absent THEN Done(o)
          ELSE patch' = [patch EXCEPT ![o] = [NoPatch EXCEPT !.step = "before", !.of = x,
                                                             !.path = line.path,
                                                             !.saved = line.backup]]
    /\ OnlyPatch

\* The file is read before it is overwritten.
Before(o) ==
    /\ In(o, "before")
    /\ IF There(o) = Absent THEN Done(o) ELSE Turn(o, "restore")
    /\ OnlyPatch /\ UNCHANGED op

\* restoreBackupToTarget writes into the file itself, whatever is there.  Two that
\* write at once may mix their contents.
Restore(o) ==
    /\ In(o, "restore")
    /\ \E c \in {Torn(o)} \cup (IF IsTorn(There(o)) THEN {Torn("several")} ELSE {}) :
          file' = [file EXCEPT ![patch[o].path] = c]
    /\ Turn(o, "refill")
    /\ UNCHANGED <<stage, backups, trash, op, ledger, torn>>

Refill(o) ==
    /\ In(o, "refill")
    /\ Complete(o, patch[o].saved)
    /\ Turn(o, "note")
    /\ UNCHANGED <<stage, backups, op, ledger, torn>>

\* The ledger says what was rolled back.
NoteUndone(o) ==
    /\ In(o, "note")
    /\ ledger' = IF patch[o].of = Nobody THEN ledger
                 ELSE [ledger EXCEPT ![patch[o].of].status = "undone"]
    /\ Done(o)
    /\ OnlyLedger

-----------------------------------------------------------------------------

PatchWork(o) ==
    \/ Propose(o) \/ Announce(o) \/ Apply(o) \/ Refer(o) \/ Edit(o)
    \/ Validate(o) \/ Commit(o)
    \/ Rollback(o) \/ Before(o) \/ Restore(o) \/ Refill(o) \/ NoteUndone(o)

\* A line of the ledger that is being written when a call throws or the process stops
\* may be cut off.
Appending == {"announce", "commit", "note"}
Tear(writers) ==
    \/ UNCHANGED torn
    \/ (\E o \in writers : patch[o].step \in Appending) /\ torn' = TRUE

PatchFail(o) ==
    /\ Patching(o) /\ ~In(o, "inside") /\ faults < Setting.faults
    /\ faults' = faults + 1
    /\ Done(o) /\ Tear({o})
    /\ UNCHANGED <<stage, file, backups, trash, op, ledger, crashes>>

Stopped == [o \in Ops |-> IF Patching(o) THEN [NoPatch EXCEPT !.step = "done"] ELSE patch[o]]

PatchCrash ==
    /\ crashes < Setting.crashes
    /\ (\E o \in Ops : Patching(o)) /\ \A o \in Ops : ~InFlight(o)
    /\ crashes' = crashes + 1
    /\ patch' = Stopped /\ Tear(Ops)
    /\ OnlyOp /\ UNCHANGED <<op, ledger, faults>>

PatchNext ==
    \/ /\ Next
       /\ IF crashes' # crashes THEN patch' = Stopped /\ Tear(Ops)
          ELSE patch' = [o \in Ops |-> Carry(o)] /\ UNCHANGED torn
       /\ UNCHANGED ledger
    \/ /\ \/ \E o \in Ops : PatchWork(o) /\ UNCHANGED bounds
          \/ \E o \in Ops : PatchFail(o)
          \/ PatchCrash
       /\ since' = [o \in Ops |-> Follow(o)]
       /\ UNCHANGED scenario

PatchSpec == PatchInit /\ [][PatchNext]_patchVars

-----------------------------------------------------------------------------
(* Properties                                                              *)

\* The line of the ledger that a patch or a rollback serves.
Line(o) == ledger[IF patch[o].of = Nobody THEN o ELSE patch[o].of]

\* Previews are kept: a transform publishes what its preview promised, a patch changes no
\* other version than its dry run showed, and what is written back for it, because its
\* syntax is wrong or a client rolls it back, is that version, unless the file changed
\* and changed back.
PreviewsAreKept ==
    [][/\ AsPreviewed
       /\ \A o \in Ops : file' # file =>
             /\ At(o, "rename") /\ op'[o] # op[o] /\ In(o, "inside")
                   => op[o].base = ledger[o].source
             /\ In(o, "refill") /\ patch'[o] # patch[o]
                   => patch[o].saved = Line(o).source \/ patch[o].back \/ Line(o).back]_patchVars
=============================================================================
