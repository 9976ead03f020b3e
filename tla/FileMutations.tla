--------------------------- MODULE FileMutations ---------------------------
(***************************************************************************)
(* The tools that change files: src/src/util/workspace_mutation.js,        *)
(* atomicReplaceFile of file_transaction.js and file_transform_engine.js,  *)
(* which takes content from sealed stages.                                 *)
(*                                                                         *)
(* No lock orders these operations: any number of them run at once on the  *)
(* same path.  Each action runs to the next await that touches a file, so  *)
(* that other operations, stages that go away and a crash come in between. *)
(* write_file replaces a file by a text; append_file, edit_file_patch and  *)
(* a transform copy parts of the old file around new content, which may be *)
(* streamed from a stage chunk by chunk.  All of them write a temporary    *)
(* file first and rename it.  delete_path moves into the trash and notes   *)
(* where from, restore_path moves back, move_path and copy_path act on the *)
(* path itself.                                                            *)
(*                                                                         *)
(* A content stands for its bytes and their hash, and each operation makes *)
(* a new one.  One reading of a whole file is one step.  Names of backups  *)
(* and of trash entries do not collide.                                    *)
(*                                                                         *)
(* A definition with a suffix, such as Verify_Skipped, is a deliberately   *)
(* wrong variant of the definition after it.                               *)
(***************************************************************************)
EXTENDS ContentStages

CONSTANTS
    Ops,         \* operations; each serves one request
    Paths,       \* the files
    Scenarios    \* for each name: the requests made, the stages used, the files there
                 \* and deleted before, and bounds: on operations, on calls that throw,
                 \* on restarts

ASSUME MutationAssumption ==
    \A z \in DOMAIN Scenarios :
        /\ Scenarios[z].stages \subseteq Stages /\ Scenarios[z].present \subseteq Paths
        /\ Scenarios[z].deleted \subseteq Paths
        /\ {Scenarios[z].most, Scenarios[z].faults, Scenarios[z].crashes} \subseteq Nat

VARIABLES
    scenario,
    file,       \* the content of every path
    backups,    \* the contents saved by createBackupIfExists
    trash,      \* the entry made by each delete, and one from before
    op,         \* what each operation serves and where it is
    since,      \* whether the file that an operation read is still there
    faults, crashes

bounds == <<faults, crashes>>
vars == <<stage, scenario, file, backups, trash, op, since, bounds>>

Setting == Scenarios[scenario]

Absent == <<"absent">>
Text(o) == <<"text", o>>
Torn(o) == <<"torn", o>>
Inline(o) == <<"inline", o>>
Chunk(n) == <<"chunk", n>>
Mixture(head, body, tail) == <<"mixture", head, body, tail>>
IsTorn(c) == c[1] = "torn"

NoTemp == [head |-> Absent, body |-> <<>>, tail |-> Absent]
NoEntry == [content |-> Absent, from |-> Nobody]
Slots == Ops \cup {"earlier"}

\* path: what is written to, or as noted in the trash; from: a path, the content in the
\* call, any stage or any entry of the trash.
Tools == {"write", "append", "transform", "delete", "restore", "move", "copy"}
Requests == [kind : Tools, path : Paths \cup {"noted"},
             from : Paths \cup {"inline", "stage", "trash", "none"},
             client : Owners, overwrite : BOOLEAN]

ASSUME RequestAssumption ==
    \A z \in DOMAIN Scenarios :
        /\ Scenarios[z].requests \subseteq Requests
        /\ \A r \in Scenarios[z].requests :
              /\ r.path = "noted" => r.kind = "restore"
              /\ r.from = "stage" => r.kind = "transform"

\* An entry of the trash is no path and none of the other sources.
ASSUME NamesDiffer ==
    /\ "earlier" \notin Ops
    /\ Slots \cap (Paths \cup {"inline", "stage", "trash", "none", Nobody}) = {}

NoRequest == [kind |-> "none", path |-> Nobody, from |-> Nobody, client |-> Nobody,
              overwrite |-> FALSE]
Requested(r) == [request |-> r, step |-> "idle", path |-> r.path, from |-> r.from,
                 base |-> Absent, sent |-> <<>>, temp |-> NoTemp]
Idle == Requested(NoRequest)
Ended == [Idle EXCEPT !.step = "ended"]

Steps == {"idle", "look", "preview", "compile", "head", "body", "tail", "backup", "verify",
          "check", "rename", "away", "note", "undo", "remove", "put", "tidy", "move",
          "clear", "open", "fill", "ended"}

TypeOK ==
    /\ StagesTypeOK
    /\ scenario \in DOMAIN Scenarios
    /\ \A o \in Ops : /\ op[o].step \in Steps
                      /\ op[o].step \in {"idle", "ended"} => op[o].temp = NoTemp
                      /\ since[o] \in {"steady", "away", "back", "late"}
    /\ DOMAIN file = Paths /\ DOMAIN trash = Slots /\ Absent \notin backups
    /\ faults \in 0..Setting.faults /\ crashes \in 0..Setting.crashes

Init ==
    /\ StagesInit
    /\ scenario \in DOMAIN Scenarios
    /\ file = [p \in Paths |-> IF p \in Setting.present THEN <<"start", p>> ELSE Absent]
    /\ backups = {}
    /\ \E p \in Setting.deleted :
          trash = [i \in Slots |-> IF i = "earlier"
                                   THEN [content |-> <<"deleted">>, from |-> p]
                                   ELSE NoEntry]
    /\ op = [o \in Ops |-> Idle]
    /\ since = [o \in Ops |-> "steady"]
    /\ faults = 0 /\ crashes = 0

-----------------------------------------------------------------------------

Kind(o) == op[o].request.kind
Client(o) == op[o].request.client
At(o, step) == op[o].step = step
Here(o) == file[op[o].path]
InFlight(o) == op[o].step \notin {"idle", "ended"}
Replacing == {"write", "append", "transform", "patch"}

Goto(o, step) == op' = [op EXCEPT ![o].step = step]

End_KeepsTemp(o) == op' = [op EXCEPT ![o].step = "ended"]

\* The operation is over, well or not: a temporary file that was not renamed is removed.
End(o) == op' = [op EXCEPT ![o] = Ended]

OnlyOp == UNCHANGED <<stage, file, backups, trash>>

First == [write |-> "look", append |-> "look", transform |-> "look", delete |-> "away",
          restore |-> "look", move |-> "look", copy |-> "backup"]

\* The call begins; a transform may name any stage, a restore any entry of the trash.
Begin(o) ==
    /\ At(o, "idle") /\ Cardinality({x \in Ops : op[x].step # "idle"}) < Setting.most
    /\ \E r \in Setting.requests :
       \E f \in CASE r.from = "stage" -> Setting.stages
                  [] r.kind = "restore" -> {i \in Slots : trash[i].content # Absent}
                  [] OTHER -> {r.from} :
          op' = [op EXCEPT ![o] = [Requested(r) EXCEPT !.from = f, !.step = First[r.kind]]]
    /\ OnlyOp

-----------------------------------------------------------------------------
(* write_file, append_file, edit_file_patch and the transform              *)

\* writeFile: what is there, or that nothing is.
LookToWrite(o) ==
    /\ At(o, "look") /\ Kind(o) = "write"
    /\ op' = [op EXCEPT ![o].base = Here(o), ![o].step = "backup"]
    /\ OnlyOp

\* The file that a client or the tool itself has read; append_file writes a file
\* that does not exist.
LookToChange(o) ==
    /\ At(o, "look") /\ Kind(o) \in {"append", "transform"}
    /\ \/ /\ Here(o) # Absent
          /\ op' = [op EXCEPT ![o].base = Here(o), ![o].step = "preview"]
       \/ /\ Here(o) = Absent /\ Kind(o) = "append"
          /\ op' = [op EXCEPT ![o].request.kind = "write"]
       \/ /\ Here(o) = Absent /\ Kind(o) = "transform"
          /\ End(o)
    /\ OnlyOp

FromStage(o) == op[o].from \in Stages
Ready(o) == FromStage(o) => IsSealed(Client(o), op[o].from)
Available(o) ==
    IF FromStage(o)
    THEN LET chunks == stage[op[o].from].chunks IN [k \in DOMAIN chunks |-> Chunk(chunks[k])]
    ELSE <<Inline(o)>>

\* Asking a stage for its status deletes what has expired.
Asks(o) == stage' = IF FromStage(o) THEN Pruned ELSE stage

\* prepareFileTransform: the receipt stands for the file and the content.
Preview(o) ==
    /\ At(o, "preview")
    /\ IF Here(o) = op[o].base /\ Ready(o)
       THEN op' = [op EXCEPT ![o].sent = Available(o), ![o].step = "compile"]
       ELSE End(o)
    /\ Asks(o) /\ UNCHANGED <<file, backups, trash>>

\* commitFileTransform compiles again and compares the receipts.
Compile(o) ==
    /\ At(o, "compile")
    /\ IF Here(o) = op[o].base /\ Ready(o) /\ Available(o) = op[o].sent
       THEN Goto(o, "head") ELSE End(o)
    /\ Asks(o) /\ UNCHANGED <<file, backups, trash>>

\* copyRange: what is before the new content is read from the file as it is now.
CopyHead(o) ==
    /\ At(o, "head")
    /\ IF Here(o) = Absent THEN End(o)
       ELSE op' = [op EXCEPT ![o].temp.head = Here(o), ![o].step = "body"]
    /\ OnlyOp

\* The next chunk of the content.  Opening a stage requires that it is sealed; a
\* stage that goes away while it is read just ends.
CopyBody(o) ==
    /\ At(o, "body")
    /\ LET read == op[o].temp.body
           all == IF FromStage(o) /\ ~Ready(o) THEN <<>> ELSE Available(o)
           body == IF Len(read) < Len(all) THEN Append(read, all[Len(read) + 1]) ELSE read
           next == IF Kind(o) = "append" THEN "backup" ELSE "tail"
       IN  IF read = <<>> /\ ~Ready(o) THEN End(o) /\ Asks(o)
           ELSE /\ op' = [op EXCEPT ![o].temp.body = body,
                                    ![o].step = IF Len(body) < Len(all) THEN "body" ELSE next]
                /\ IF read = <<>> THEN Asks(o) ELSE stage' = stage
    /\ UNCHANGED <<file, backups, trash>>

\* What is after the new content, from the file as it is now.
CopyTail(o) ==
    /\ At(o, "tail")
    /\ IF Here(o) = Absent THEN End(o)
       ELSE op' = [op EXCEPT ![o].temp.tail = Here(o), ![o].step = "backup"]
    /\ OnlyOp

AfterBackup(o) ==
    IF Kind(o) \in Replacing THEN "verify" ELSE IF Kind(o) = "restore" THEN "remove" ELSE "clear"

\* createBackupIfExists, also of a restore that overwrites and of a copy.  A file
\* that disappears after it was found makes it fail.
Backup(o) ==
    /\ At(o, "backup")
    /\ \/ /\ op' = [op EXCEPT ![o].base = IF Kind(o) \in Replacing THEN @ ELSE Here(o),
                              ![o].step = AfterBackup(o)]
          /\ backups' = backups \cup ({Here(o)} \ {Absent})
       \/ Here(o) = Absent /\ End(o) /\ UNCHANGED backups
    /\ UNCHANGED <<stage, file, trash>>

AfterVerify(o) == IF FromStage(o) THEN "check" ELSE "rename"

Verify_Skipped(o) ==
    /\ At(o, "verify")
    /\ Goto(o, AfterVerify(o))
    /\ OnlyOp

\* verifyBeforeRename: the file is what it was.
Verify(o) ==
    /\ At(o, "verify")
    /\ IF Here(o) = op[o].base THEN Goto(o, AfterVerify(o)) ELSE End(o)
    /\ OnlyOp

\* verifyChecks: and so is the stage.
Check(o) ==
    /\ At(o, "check")
    /\ IF Ready(o) /\ Available(o) = op[o].sent THEN Goto(o, "rename") ELSE End(o)
    /\ Asks(o) /\ UNCHANGED <<file, backups, trash>>

Built(o) == IF Kind(o) = "write" THEN Text(o)
            ELSE Mixture(op[o].temp.head, op[o].temp.body, op[o].temp.tail)

\* The temporary file takes the place of whatever is there.
Rename(o) ==
    /\ At(o, "rename")
    /\ file' = [file EXCEPT ![op[o].path] = Built(o)]
    /\ End(o)
    /\ UNCHANGED <<stage, backups, trash>>

-----------------------------------------------------------------------------
(* delete_path and restore_path                                            *)

Away(o) ==
    /\ At(o, "away")
    /\ IF Here(o) = Absent
       THEN End(o) /\ UNCHANGED <<file, trash>>
       ELSE /\ trash' = [trash EXCEPT ![o].content = Here(o)]
            /\ file' = [file EXCEPT ![op[o].path] = Absent]
            /\ Goto(o, "note")
    /\ UNCHANGED <<stage, backups>>

\* The metadata that a restore without a destination needs.
Note(o) ==
    /\ At(o, "note")
    /\ trash' = [trash EXCEPT ![o].from = op[o].path]
    /\ End(o)
    /\ UNCHANGED <<stage, file, backups>>

\* The metadata cannot be written: the entry goes back, over what is there now.
Undo(o) ==
    /\ At(o, "undo")
    /\ End(o)
    /\ IF trash[o].content = Absent THEN UNCHANGED <<file, trash>>
       ELSE /\ file' = [file EXCEPT ![op[o].path] = trash[o].content]
            /\ trash' = [trash EXCEPT ![o] = NoEntry]
    /\ UNCHANGED <<stage, backups>>

\* Where to, and whether something is there.
LookToRestore(o) ==
    /\ At(o, "look") /\ Kind(o) = "restore"
    /\ LET slot == op[o].from
           path == IF op[o].path = "noted" THEN trash[slot].from ELSE op[o].path
       IN  IF path = Nobody THEN End(o)
           ELSE IF file[path] = Absent
           THEN op' = [op EXCEPT ![o].path = path, ![o].step = "put"]
           ELSE IF op[o].request.overwrite
           THEN op' = [op EXCEPT ![o].path = path, ![o].step = "backup"]
           ELSE End(o)
    /\ OnlyOp

Remove(o) ==
    /\ At(o, "remove")
    /\ file' = [file EXCEPT ![op[o].path] = Absent]
    /\ Goto(o, "put")
    /\ UNCHANGED <<stage, backups, trash>>

\* The entry takes its place, over what came there in between.
Put(o) ==
    /\ At(o, "put")
    /\ LET slot == op[o].from IN
       IF trash[slot].content = Absent
       THEN End(o) /\ UNCHANGED <<file, trash>>
       ELSE /\ file' = [file EXCEPT ![op[o].path] = trash[slot].content]
            /\ trash' = [trash EXCEPT ![slot].content = Absent]
            /\ Goto(o, "tidy")
    /\ UNCHANGED <<stage, backups>>

Tidy(o) ==
    /\ At(o, "tidy")
    /\ trash' = [trash EXCEPT ![op[o].from].from = Nobody]
    /\ End(o)
    /\ UNCHANGED <<stage, file, backups>>

-----------------------------------------------------------------------------
(* move_path and copy_path                                                 *)

LookToMove(o) ==
    /\ At(o, "look") /\ Kind(o) = "move"
    /\ IF Here(o) = Absent THEN Goto(o, "move") ELSE End(o)
    /\ OnlyOp

Move(o) ==
    /\ At(o, "move")
    /\ file' = IF file[op[o].from] = Absent THEN file
               ELSE [file EXCEPT ![op[o].from] = Absent, ![op[o].path] = file[op[o].from]]
    /\ End(o)
    /\ UNCHANGED <<stage, backups, trash>>

\* fs.cp with force removes the destination before it copies.
Clear(o) ==
    /\ At(o, "clear")
    /\ IF file[op[o].from] = Absent
       THEN End(o) /\ UNCHANGED file
       ELSE file' = [file EXCEPT ![op[o].path] = Absent] /\ Goto(o, "open")
    /\ UNCHANGED <<stage, backups, trash>>

\* From here on the destination is there and is not complete.
Open(o) ==
    /\ At(o, "open")
    /\ IF file[op[o].from] = Absent
       THEN End(o) /\ UNCHANGED file
       ELSE /\ op' = [op EXCEPT ![o].temp.head = file[op[o].from], ![o].step = "fill"]
            /\ file' = [file EXCEPT ![op[o].path] = Torn(o)]
    /\ UNCHANGED <<stage, backups, trash>>

\* What is written into an open file is complete, wherever it has been moved to.
Complete(o, content) ==
    LET Filled(c) == IF c = Torn(o) THEN content ELSE c IN
    /\ file' = [p \in Paths |-> Filled(file[p])]
    /\ trash' = [i \in Slots |-> [trash[i] EXCEPT !.content = Filled(@)]]

Fill(o) ==
    /\ At(o, "fill")
    /\ Complete(o, op[o].temp.head)
    /\ End(o)
    /\ UNCHANGED <<stage, backups>>

-----------------------------------------------------------------------------

\* A call of the file system or of the store throws.
Fail(o) ==
    /\ InFlight(o) /\ faults < Setting.faults
    /\ faults' = faults + 1
    /\ IF At(o, "note") THEN Goto(o, "undo") ELSE End(o)
    /\ OnlyOp /\ UNCHANGED crashes

\* The process stops and starts again.  A receipt outlives it: its client may
\* still commit.
Crash ==
    /\ crashes < Setting.crashes
    /\ \E o \in Ops : InFlight(o)
    /\ crashes' = crashes + 1
    /\ op' = [o \in Ops |-> IF InFlight(o) /\ ~(At(o, "compile") /\ Kind(o) = "transform")
                            THEN Ended ELSE op[o]]
    /\ OnlyOp /\ UNCHANGED faults

\* No operation is in flight.  Those that are end, so that where nothing else can
\* happen this is the only good reason.
Rest ==
    /\ \A o \in Ops : ~InFlight(o)
    /\ UNCHANGED <<stage, file, backups, trash, op, bounds>>

Work(o) ==
    \/ Begin(o) \/ LookToWrite(o) \/ LookToChange(o) \/ Preview(o) \/ Compile(o)
    \/ CopyHead(o) \/ CopyBody(o) \/ CopyTail(o) \/ Backup(o) \/ Verify(o) \/ Check(o) \/ Rename(o)
    \/ Away(o) \/ Note(o) \/ Undo(o)
    \/ LookToRestore(o) \/ Remove(o) \/ Put(o) \/ Tidy(o)
    \/ LookToMove(o) \/ Move(o) \/ Clear(o) \/ Open(o) \/ Fill(o)

\* Whether the file that an operation is to replace is what it read, left it before
\* it was verified, came back, or left it after.
Follow(o) ==
    LET now == op'[o] IN
    IF now.request.kind \notin Replacing \/ now.step \in {"look", "ended"} THEN "steady"
    ELSE IF file'[now.path] = now.base
    THEN IF since[o] = "steady" THEN "steady" ELSE "back"
    ELSE IF since[o] # "steady" THEN since[o]
    ELSE IF op[o].step \in {"check", "rename"} THEN "late" ELSE "away"

Next ==
    /\ \/ \E o \in Ops : Work(o) /\ UNCHANGED bounds
       \/ \E o \in Ops : Fail(o)
       \/ Crash
       \/ /\ (\E s \in Setting.stages : StageStep(s)) \/ (Prune /\ stage' # stage)
          /\ UNCHANGED <<file, backups, trash, op, bounds>>
       \/ Rest
    /\ since' = [o \in Ops |-> Follow(o)]
    /\ UNCHANGED scenario

Spec == Init /\ [][Next]_vars

-----------------------------------------------------------------------------
(* Properties                                                              *)

\* Every content that is still somewhere, in a file, a backup or the trash.
Somewhere ==
    {c \in {file[p] : p \in Paths} \cup backups \cup {trash[i].content : i \in Slots} :
        c # Absent /\ ~IsTorn(c)}

\* What an operation that does not verify has looked at or takes with it.
Seen(o) == {op[o].base} \cup (IF At(o, "away") THEN {Here(o)} ELSE {})
           \cup (IF At(o, "move") THEN {file[op[o].from]} ELSE {})
           \cup (IF op[o].from \in Slots THEN {trash[op[o].from].content} ELSE {})
           \cup (IF At(o, "undo") THEN {trash[o].content} ELSE {})

\* Nothing is lost: what an operation overwrites, moves or removes is in a backup, in
\* the trash or in a file afterwards, whichever operations run at once, fail or are
\* cut off.  That holds for what was there when it last looked: what came after
\* that, and what went away and came back, it cannot tell.
OverwrittenIsKept ==
    [][\A o \in Ops : op'[o] # op[o] =>
          \A c \in Somewhere \ Somewhere' :
             IF Kind(o) \in Replacing
             THEN since[o] = "back" \/ (since[o] = "late" /\ c # op[o].base)
             ELSE c \notin Seen(o)]_vars

\* What a step that publishes a transform publishes is what its preview promised: all
\* the content that was sealed then, between parts of the file that was read then, and
\* of no other version, unless the file changed and changed back.
AsPreviewed ==
    \A o \in Ops :
       At(o, "rename") /\ file' # file /\ op'[o] # op[o] /\ Kind(o) # "write" =>
          \/ since[o] = "back"
          \/ LET t == op[o].temp IN
             /\ t.head = op[o].base /\ t.body = op[o].sent
             /\ t.tail = IF Kind(o) = "append" THEN Absent ELSE op[o].base
=============================================================================
