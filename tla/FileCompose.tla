---------------------------- MODULE FileCompose ----------------------------
(***************************************************************************)
(* Splitting a file into several and merging several into one:             *)
(* src/src/util/file_compose.js.                                           *)
(*                                                                         *)
(* A call compiles what it is to do, compares that with the receipt of an  *)
(* earlier preview, and then waits for its turn: operations run one at a   *)
(* time.  An operation keeps a journal in SQLite, prepares every output as *)
(* a temporary file, checks sources and destinations, and then replaces    *)
(* the destinations one by one, a backup of each first.  When a step fails *)
(* the operation is rolled back; when the process stops, the next          *)
(* operation to get its turn rolls back what was left pending.             *)
(*                                                                         *)
(* Each action runs to the next await that touches a file, so that other   *)
(* calls, an editor and a crash come in between.  A content stands for its *)
(* bytes and their hash.  An output is a function of the contents it is    *)
(* made from (Make); every edit writes something new.  The sources of one  *)
(* output are read in one step, in compile and in prepare: it is their     *)
(* inspection, one source at a time, that both are compared with.          *)
(*                                                                         *)
(* A definition with a suffix, such as Check_Skipped, is a deliberately    *)
(* wrong variant of the definition after it.                               *)
(***************************************************************************)
EXTENDS Naturals, Sequences, FiniteSets

CONSTANTS
    Calls,       \* commits of a split or a merge
    Reads,       \* the source files of each call, a sequence
    Writes,      \* its destination files, a sequence
    MaxEdits,    \* bound: what others write to these files
    MaxFaults,   \* bound: file system calls that throw
    MaxCrashes   \* bound: times the process stops and starts again

ASSUME ComposeBounds == MaxEdits \in Nat /\ MaxFaults \in Nat /\ MaxCrashes \in Nat

VARIABLES
    file,    \* the content of every file
    temp,    \* temporary files: temp[c][k] is the k-th output of c, or Absent
    plan,    \* what a call asked for and compiled
    pc,      \* new, asked (it has previewed and compiles), queued, and how it ended
    queue,   \* calls in the order of runExclusive; the first one runs
    row,     \* the journal: status and targets of each operation
    work,    \* where the running call is: step, op, k; failed; seen
    edits, faults, crashes

bounds == <<edits, faults, crashes>>
vars == <<file, temp, plan, pc, queue, row, work, bounds>>

Files == UNION {{Reads[c][i] : i \in DOMAIN Reads[c]} \cup
                {Writes[c][k] : k \in DOMAIN Writes[c]} : c \in Calls}

\* A split refuses two parts with one destination; a merge has only one.
ASSUME ComposePaths ==
    /\ "none" \notin Calls
    /\ Reads \in [Calls -> Seq(Files)] /\ Writes \in [Calls -> Seq(Files)]
    /\ \A c \in Calls : \A j, k \in DOMAIN Writes[c] :
          Writes[c][j] = Writes[c][k] => j = k

Absent == <<"absent">>
Edited(n) == <<"edit", n>>
Make(c, k, contents) == <<"made", c, k, contents>>
IsEdit(x) == x[1] = "edit"

Targets(c) == DOMAIN Writes[c]
At(c) == [i \in DOMAIN Reads[c] |-> file[Reads[c][i]]]     \* the sources now
Results(c, contents) == [k \in Targets(c) |-> Make(c, k, contents)]
Priors(c) == [k \in Targets(c) |-> file[Writes[c][k]]]

\* What a call holds: the sources it inspected, its outputs, what they replace.
Compiled(contents, results, priors) ==
    [source |-> contents, result |-> results, prior |-> priors]

NoRow == [status |-> "none", target |-> <<>>]
Idle == [step |-> "idle", op |-> "none", k |-> 0, failed |-> FALSE, seen |-> 0]

Steps == {"idle", "recover", "write", "written", "sources", "verify", "backup", "check",
          "rename", "mark", "judge", "restore", "put", "sweep", "unmark"}
Statuses == {"none", "preparing", "prepared", "committing", "committed",
             "rolled_back", "recovery_failed"}
Settled == {"committed", "rolled_back", "recovery_failed"}
States == {"pending", "prepared", "committed", "rolled_back"}
TypeOK ==
    /\ pc \in [Calls -> {"new", "asked", "queued", "committed", "refused", "gone"}]
    /\ \A c \in Calls :
        /\ row[c].status \in Statuses
        /\ row[c].status # "none" => DOMAIN row[c].target = Targets(c)
        /\ \A k \in DOMAIN row[c].target : row[c].target[k].state \in States
    /\ work.step \in Steps /\ work.op \in Calls \cup {"none"}
    /\ (work.step = "idle") = (queue = <<>>)
    /\ edits \in 0..MaxEdits /\ faults \in 0..MaxFaults /\ crashes \in 0..MaxCrashes

Nothing == Compiled(<<>>, <<>>, <<>>)

Init ==
    /\ file \in [Files -> {Absent, Edited(0)}]
    /\ temp = [c \in Calls |-> [k \in Targets(c) |-> Absent]]
    /\ plan = [c \in Calls |-> [asked |-> Nothing, found |-> Nothing]]
    /\ pc = [c \in Calls |-> "new"]
    /\ queue = <<>>
    /\ row = [c \in Calls |-> NoRow]
    /\ work = Idle
    /\ edits = 0 /\ faults = 0 /\ crashes = 0

-----------------------------------------------------------------------------
(* Compiling, which does not wait for a turn                               *)

Preview(c) ==
    /\ pc[c] = "new" /\ Writes[c] # <<>>
    /\ \A i \in DOMAIN Reads[c] : file[Reads[c][i]] # Absent
    /\ plan' = [plan EXCEPT ![c].asked = Compiled(At(c), Results(c, At(c)), Priors(c))]
    /\ pc' = [pc EXCEPT ![c] = "asked"]
    /\ UNCHANGED <<file, temp, queue, row, work, bounds>>

Refuse(c) ==
    /\ pc' = [pc EXCEPT ![c] = "refused"]
    /\ plan' = [plan EXCEPT ![c] = [asked |-> Nothing, found |-> Nothing]]

Inspect(c) ==
    LET i == Len(plan[c].found.source) + 1
    IN  /\ pc[c] = "asked" /\ i <= Len(Reads[c])
        /\ IF file[Reads[c][i]] = plan[c].asked.source[i]    \* expected_sha256
           THEN /\ plan' = [plan EXCEPT ![c].found.source = Append(@, file[Reads[c][i]])]
                /\ pc' = pc
           ELSE Refuse(c)
        /\ UNCHANGED <<file, temp, queue, row, work, bounds>>

Measure(c) ==
    LET found == plan[c].found
        k == Len(found.result) + 1
    IN  /\ pc[c] = "asked" /\ Len(found.source) = Len(Reads[c]) /\ k <= Len(Writes[c])
        /\ plan' = [plan EXCEPT ![c].found.result = Append(@, Make(c, k, At(c))),
                                ![c].found.prior = Append(@, file[Writes[c][k]])]
        /\ UNCHANGED <<file, temp, pc, queue, row, work, bounds>>

Turn == [step |-> "recover", op |-> "none", k |-> 0, failed |-> FALSE, seen |-> 0]

\* runExclusive
Enqueue(c) ==
    /\ pc' = [pc EXCEPT ![c] = "queued"]
    /\ queue' = Append(queue, c)
    /\ work' = IF queue = <<>> THEN Turn ELSE work

Submit(c) ==
    /\ pc[c] = "asked" /\ Len(plan[c].found.result) = Len(Writes[c])
    /\ IF plan[c].found = plan[c].asked                      \* the receipt
       THEN Enqueue(c) /\ plan' = plan
       ELSE Refuse(c) /\ UNCHANGED <<queue, work>>
    /\ UNCHANGED <<file, temp, row, bounds>>

\* recover(), which compiles nothing
CallRecover(c) ==
    /\ pc[c] = "new" /\ Writes[c] = <<>>
    /\ Enqueue(c)
    /\ UNCHANGED <<file, temp, plan, row, bounds>>

-----------------------------------------------------------------------------
(* Executing                                                               *)

Runner == Head(queue)

Answer_StaysBusy(outcome) ==
    /\ pc' = [pc EXCEPT ![Runner] = outcome]
    /\ queue' = Tail(queue)
    /\ work' = Turn

Answer(outcome) ==
    /\ pc' = [pc EXCEPT ![Runner] = outcome]
    /\ queue' = Tail(queue)
    /\ work' = IF Tail(queue) = <<>> THEN Idle ELSE Turn

Goto(step, op, k) == [work EXCEPT !.step = step, !.op = op, !.k = k, !.seen = 0]
Step(step) == Goto(step, work.op, work.k)
Looked(w) == [w EXCEPT !.seen = edits]         \* and read the destination

Undo(op) == [Goto("judge", op, Len(Writes[op])) EXCEPT !.failed = FALSE]

Pending == {c \in Calls : row[c].status \in Statuses \ (Settled \cup {"none"})}

Fresh(c) == [status |-> "preparing",
             target |-> [k \in Targets(c) |->
                 [state |-> "pending", temp |-> FALSE, backup |-> Absent]]]

\* recoverPending, one operation at a time, and then the insert.
RecoverFirst ==
    /\ work.step = "recover" /\ Pending # {}
    /\ \E op \in Pending : work' = Undo(op)
    /\ UNCHANGED <<file, temp, plan, pc, queue, row, bounds>>

Begin_AtOnce ==
    /\ work.step = "recover"
    /\ IF Writes[Runner] = <<>>
       THEN Answer("committed") /\ row' = row
       ELSE /\ row' = [row EXCEPT ![Runner] = Fresh(Runner)]
            /\ work' = Goto("write", Runner, 1)
            /\ UNCHANGED <<pc, queue>>
    /\ UNCHANGED <<file, temp, plan, bounds>>

Begin ==
    /\ work.step = "recover" /\ Pending = {}
    /\ IF Writes[Runner] = <<>>                               \* recover() ends here
       THEN Answer("committed") /\ row' = row
       ELSE /\ row' = [row EXCEPT ![Runner] = Fresh(Runner)]
            /\ work' = Goto("write", Runner, 1)
            /\ UNCHANGED <<pc, queue>>
    /\ UNCHANGED <<file, temp, plan, bounds>>

Own == plan[work.op].found
Dest == Writes[work.op][work.k]
Target == row[work.op].target[work.k]
Last == work.k = Len(Writes[work.op])

SetTarget(state, hasTemp, backup) ==
    [row EXCEPT ![work.op].target[work.k] =
        [state |-> state, temp |-> hasTemp, backup |-> backup]]

\* prepareTarget: the output is written and hashed ...
Write ==
    /\ work.step = "write"
    /\ temp' = [temp EXCEPT ![work.op][work.k] = Make(work.op, work.k, At(work.op))]
    /\ work' = Step("written")
    /\ UNCHANGED <<file, plan, pc, queue, row, bounds>>

\* ... and recorded if it is what was compiled, removed if not.
Prepare ==
    /\ work.step = "written"
    /\ IF temp[work.op][work.k] = Own.result[work.k]
       THEN /\ row' = [SetTarget("prepared", TRUE, Absent)
                       EXCEPT ![work.op].status = IF Last THEN "prepared" ELSE @]
            /\ work' = IF Last THEN Goto("sources", work.op, 1)
                       ELSE Goto("write", work.op, work.k + 1)
            /\ temp' = temp
       ELSE /\ temp' = [temp EXCEPT ![work.op][work.k] = Absent]
            /\ work' = Undo(work.op)
            /\ row' = row
    /\ UNCHANGED <<file, plan, pc, queue, bounds>>

\* The sources, here numbered by work.k, are what they were when inspected.
CheckSource ==
    /\ work.step = "sources"
    /\ work' = IF file[Reads[work.op][work.k]] # Own.source[work.k] THEN Undo(work.op)
               ELSE IF work.k < Len(Reads[work.op])
               THEN Goto("sources", work.op, work.k + 1)
               ELSE Goto("verify", work.op, 1)
    /\ UNCHANGED <<file, temp, plan, pc, queue, row, bounds>>

Unchanged(k) == file[Writes[work.op][k]] = Own.prior[k]

Verify ==
    /\ work.step = "verify"
    /\ IF ~Unchanged(work.k) THEN work' = Undo(work.op) /\ row' = row
       ELSE IF Last
       THEN /\ row' = [row EXCEPT ![work.op].status = "committing"]
            /\ work' = Goto("backup", work.op, 1)
       ELSE work' = Goto("verify", work.op, work.k + 1) /\ row' = row
    /\ UNCHANGED <<file, temp, plan, pc, queue, bounds>>

Backup ==
    /\ work.step = "backup"
    /\ row' = SetTarget("prepared", TRUE, file[Dest])
    /\ work' = Step("check")
    /\ UNCHANGED <<file, temp, plan, pc, queue, bounds>>

Check_Skipped ==
    /\ work.step = "check"
    /\ work' = Looked(Step("rename"))
    /\ UNCHANGED <<file, temp, plan, pc, queue, row, bounds>>

Check ==
    /\ work.step = "check"
    /\ work' = Looked(IF Unchanged(work.k) THEN Step("rename")
                      ELSE Undo(work.op))
    /\ UNCHANGED <<file, temp, plan, pc, queue, row, bounds>>

Rename ==
    /\ work.step = "rename"
    /\ file' = [file EXCEPT ![Dest] = temp[work.op][work.k]]
    /\ temp' = [temp EXCEPT ![work.op][work.k] = Absent]
    /\ work' = Step("mark")
    /\ UNCHANGED <<plan, pc, queue, row, bounds>>

Mark ==
    /\ work.step = "mark"
    /\ row' = [SetTarget("committed", FALSE, Target.backup)
               EXCEPT ![work.op].status = IF Last THEN "committed" ELSE @]
    /\ IF Last THEN Answer("committed")
       ELSE work' = Goto("backup", work.op, work.k + 1) /\ UNCHANGED <<pc, queue>>
    /\ UNCHANGED <<file, temp, plan, bounds>>

-----------------------------------------------------------------------------
(* rollbackOperation: the targets in reverse                               *)

\* To the target before, or to the end of the operation.
Onward(r, failed) ==
    IF work.k > 1
    THEN /\ row' = r
         /\ work' = [Goto("judge", work.op, work.k - 1) EXCEPT !.failed = failed]
         /\ UNCHANGED <<pc, queue>>
    ELSE /\ row' = [r EXCEPT ![work.op].status =
                        IF failed THEN "recovery_failed" ELSE "rolled_back"]
         /\ IF failed \/ work.op = Runner THEN Answer("refused")
            ELSE work' = Turn /\ UNCHANGED <<pc, queue>>

\* Was the target replaced?  A crash may have come before it was recorded.
Replaced_Recorded == Target.state = "committed"

Replaced ==
    \/ Target.state = "committed"
    \/ /\ file[Dest] = Own.result[work.k]
       /\ Own.prior[work.k] # Absent => Target.backup # Absent

Judge ==
    /\ work.step = "judge"
    /\ work' = Step(IF Replaced THEN "restore" ELSE "sweep")
    /\ UNCHANGED <<file, temp, plan, pc, queue, row, bounds>>

\* restoreBackup looks at the destination again before it writes.
RestoreStep_NotRestored ==
    IF file[Dest] \in {Absent, Own.result[work.k]} THEN "put" ELSE "conflict"

RestoreStep ==
    IF Own.prior[work.k] # Absent /\ file[Dest] = Own.prior[work.k] THEN "sweep"
    ELSE IF /\ file[Dest] \in {Absent, Own.result[work.k]}
            /\ Own.prior[work.k] # Absent => Target.backup # Absent
    THEN "put" ELSE "conflict"

Restore ==
    /\ work.step = "restore"
    /\ IF RestoreStep = "conflict" THEN Onward(row, TRUE)
       ELSE /\ work' = Looked(Step(RestoreStep))
            /\ UNCHANGED <<pc, queue, row>>
    /\ UNCHANGED <<file, temp, plan, bounds>>

Put ==
    /\ work.step = "put"
    /\ file' = [file EXCEPT ![Dest] = IF Own.prior[work.k] = Absent THEN Absent
                                      ELSE Target.backup]
    /\ work' = Step("sweep")
    /\ UNCHANGED <<temp, plan, pc, queue, row, bounds>>

Sweep ==
    /\ work.step = "sweep"
    /\ temp' = IF Target.temp THEN [temp EXCEPT ![work.op][work.k] = Absent] ELSE temp
    /\ work' = Step("unmark")
    /\ UNCHANGED <<file, plan, pc, queue, row, bounds>>

Unmark ==
    /\ work.step = "unmark"
    /\ Onward(SetTarget("rolled_back", FALSE, Target.backup), work.failed)
    /\ UNCHANGED <<file, temp, plan, bounds>>

-----------------------------------------------------------------------------
(* The surroundings                                                        *)

\* A file system call throws: the operation is rolled back, and a rollback
\* goes on with the next target and remembers the failure.
Fault ==
    /\ faults < MaxFaults
    /\ faults' = faults + 1
    /\ \/ /\ work.step \in {"write", "written", "sources", "verify",
                           "backup", "check", "rename"}
          /\ work' = Undo(work.op)
          /\ temp' = IF work.step \in {"write", "written"}
                     THEN [temp EXCEPT ![work.op][work.k] = Absent] ELSE temp
          /\ UNCHANGED <<pc, queue, row>>
       \/ /\ work.step \in {"judge", "restore", "put", "sweep"}
          /\ Onward(row, TRUE)
          /\ temp' = temp
    /\ UNCHANGED <<file, plan, edits, crashes>>

\* The process stops and starts again: the journal and the files stay.
Crash ==
    /\ crashes < MaxCrashes
    /\ crashes' = crashes + 1
    /\ pc' = [c \in Calls |-> IF pc[c] \in {"asked", "queued"} THEN "gone" ELSE pc[c]]
    /\ queue' = <<>>
    /\ work' = Idle
    /\ UNCHANGED <<file, temp, plan, row, edits, faults>>

\* Someone else writes one of the files.
Edit(f) ==
    /\ edits < MaxEdits
    /\ edits' = edits + 1
    /\ file' = [file EXCEPT ![f] = Edited(edits + 1)]
    /\ UNCHANGED <<temp, plan, pc, queue, row, work, faults, crashes>>

\* Nobody is served or waiting.  Every other step uses up a part of a call or of
\* a bound, so that where nothing else can happen this is the only good reason.
Rest ==
    /\ queue = <<>> /\ \A c \in Calls : pc[c] # "asked"
    /\ UNCHANGED vars

Work ==
    \/ RecoverFirst \/ Begin \/ Write \/ Prepare \/ CheckSource \/ Verify
    \/ Backup \/ Check \/ Rename \/ Mark
    \/ Judge \/ Restore \/ Put \/ Sweep \/ Unmark

Next ==
    \/ Work \/ Fault \/ Crash \/ Rest
    \/ \E c \in Calls : Preview(c) \/ Inspect(c) \/ Measure(c) \/ Submit(c)
                       \/ CallRecover(c)
    \/ \E f \in Files : Edit(f)

Spec == Init /\ [][Next]_vars

-----------------------------------------------------------------------------
(* Properties                                                              *)

Becomes(c, status) == row[c].status # status /\ row'[c].status = status

\* An operation is done as a whole or not at all.  Committed, every destination
\* holds an output made from the sources as they were previewed, all of the same
\* moment; rolled back, every destination is as it was before; or it holds what
\* someone else wrote since.  That is so too when the process stopped between a
\* rename and its record, or during the rollback.  An operation that had replaced
\* nothing yet leaves what it finds, which may be the output of another one.
AllOrNothing ==
    [][\A c \in Calls : \A k \in Targets(c) :
          LET now == file'[Writes[c][k]] IN
          /\ Becomes(c, "committed") => now = Make(c, k, plan[c].asked.source) \/ IsEdit(now)
          /\ Becomes(c, "rolled_back") =>
                \/ now = plan[c].found.prior[k] \/ IsEdit(now)
                \/ row[c].status # "committing" /\ now # plan[c].found.result[k]]_vars

\* The server overwrites or removes nothing but its own output, or what it has
\* in a backup, except what came after it last looked at the destination.
NothingLost ==
    [][\A f \in Files :
        file'[f] # file[f] /\ edits' = edits =>
            \/ file[f] \in {Absent, Own.result[work.k], Target.backup}
            \/ IsEdit(file[f]) /\ file[f][2] > work.seen]_vars

\* Rolling back fails only when a disk failed or a destination was written by
\* someone else: a rollback cut off by a crash can always be done again.
RollbackRepeats ==
    [][\A c \in Calls : Becomes(c, "recovery_failed") /\ faults' = 0 =>
        \E k \in Targets(c) : IsEdit(file[Writes[c][k]])
                              /\ file[Writes[c][k]] # plan[c].found.prior[k]]_vars

\* At most one operation of the journal is neither committed nor rolled back nor
\* given up: none begins before those that a crash cut off are settled.
OnePending == Cardinality(Pending) <= 1

=============================================================================
