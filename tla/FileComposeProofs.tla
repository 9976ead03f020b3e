------------------------- MODULE FileComposeProofs -------------------------
(***************************************************************************)
(* Proofs about FileCompose, for any calls, files, edits, faults and       *)
(* crashes.                                                                *)
(*                                                                         *)
(* ComposeInv says at each step of an operation how far it is: what each   *)
(* of its destinations holds, what the journal says of it, and what was    *)
(* seen when it was last looked at.  A crash forgets the step and keeps    *)
(* what files and journal hold (TargetInv), from which the rollback has to *)
(* find its way.                                                           *)
(***************************************************************************)
EXTENDS FileCompose, FiniteSetTheorems, TLAPS

-----------------------------------------------------------------------------
(* The invariant                                                           *)

\* Of an operation and one of its targets: what was there, what is to be there, what
\* is there now, and the entry of the journal.
Prior(c, k) == plan[c].found.prior[k]
Result(c, k) == plan[c].found.result[k]
Current(c, k) == file[Writes[c][k]]
Entry(c, k) == row[c].target[k]

Started(c) == row[c].status # "none"
Serious(c) == pc[c] = "asked" \/ (pc[c] = "queued" /\ Writes[c] # <<>>) \/ Started(c)
Made(x, c) == x[1] = "made" /\ x[2] = c
Busy == work.step \notin {"idle", "recover"}
Undoing == work.step \in {"judge", "restore", "put", "sweep", "unmark"}

Works == [step : Steps, op : Calls \cup {"none"}, k : Nat, failed : BOOLEAN, seen : Nat]

\* What the variables are.
Shapes ==
    /\ DOMAIN file = Files
    /\ DOMAIN temp = Calls /\ \A c \in Calls : DOMAIN temp[c] = Targets(c)
    /\ DOMAIN plan = Calls /\ \A c \in Calls : DOMAIN plan[c] = {"asked", "found"}
    /\ pc \in [Calls -> {"new", "asked", "queued", "committed", "refused", "gone"}]
    /\ queue \in Seq(Calls)
    /\ DOMAIN row = Calls
    /\ \A c \in Calls :
          /\ DOMAIN row[c] = {"status", "target"}
          /\ row[c].status \in Statuses
          /\ DOMAIN row[c].target = IF Started(c) THEN Targets(c) ELSE {}
          /\ \A k \in DOMAIN row[c].target : row[c].target[k].state \in States
          /\ Started(c) => Writes[c] # <<>>
    /\ work \in Works /\ work.seen <= edits
    /\ edits \in 0..MaxEdits /\ faults \in 0..MaxFaults /\ crashes \in 0..MaxCrashes

\* A content that somebody wrote is known to have been written.
Known(x) ==
    /\ IsEdit(x) => x[2] \in 0..edits
    /\ \A c \in Calls : Made(x, c) => Started(c)

\* An operation that is asked for or more has compiled its outputs from its sources,
\* and what they replace is not its own output; it goes on only with what it asked for.
PlanInv ==
    /\ \A f \in Files : Known(file[f])
    /\ \A c \in Calls : Serious(c) =>
          /\ plan[c].asked.result = Results(c, plan[c].asked.source)
          /\ \A k \in Targets(c) :
                Known(plan[c].asked.prior[k]) /\ ~Made(plan[c].asked.prior[k], c)
    /\ \A c \in Calls : Serious(c) /\ pc[c] # "asked" => plan[c].found = plan[c].asked

\* Calls wait for one turn each, and none has begun but the one that works.
QueueInv ==
    /\ \A i \in DOMAIN queue : pc[queue[i]] = "queued"
    /\ \A i, j \in DOMAIN queue : queue[i] = queue[j] => i = j
    /\ \A i \in DOMAIN queue :
          Started(queue[i]) => i = 1 /\ Busy /\ work.op = queue[1]
    /\ \A c \in Calls : pc[c] \in {"new", "asked"} => ~Started(c)
    /\ work.step = "idle" <=> queue = <<>>

\* One operation is pending at most, and it is the one that somebody works at.
JournalInv ==
    /\ \A c, d \in Pending : c = d
    /\ Busy => /\ work.op \in Pending
               /\ work.step # "sources" => work.k \in Targets(work.op)
    /\ work.step \in {"write", "written"} => row[work.op].status = "preparing"
    /\ work.step \in {"sources", "verify"} => row[work.op].status = "prepared"
    /\ work.step \in {"backup", "check", "rename", "mark", "restore", "put"} =>
          row[work.op].status = "committing"
    /\ ~Undoing => ~work.failed

\* A target that is not replaced holds what it held before, or what someone else wrote;
\* one that is, and can be restored, holds the output.
Held(c, k) == Current(c, k) = Prior(c, k) \/ IsEdit(Current(c, k))
Ours(c, k) == Current(c, k) = Result(c, k) /\ Entry(c, k).backup = Prior(c, k)

TargetInv ==
    \A c \in Pending : \A k \in Targets(c) :
        IF row[c].status = "committing"
        THEN /\ Held(c, k) \/ Ours(c, k)
             /\ Entry(c, k).state = "committed" => Entry(c, k).backup = Prior(c, k)
        ELSE /\ Entry(c, k).backup = Absent /\ Entry(c, k).state # "committed"
             /\ ~Made(Current(c, k), c)

\* The outputs that are prepared, and those that are in place.
Prepared(c, k) == temp[c][k] = Result(c, k)
Done(c, k) == Current(c, k) = Result(c, k) \/ IsEdit(Current(c, k))

\* Undone, as far as there was something to undo.
Undone(c, k) == Held(c, k) \/ row[c].status # "committing"

\* Someone else wrote this destination.
Foreign(c, k) == IsEdit(Current(c, k)) /\ Current(c, k) # Prior(c, k)

\* Since it was looked at, a destination changed only by someone else's hand.
Since(x) == IsEdit(x) /\ x[2] > work.seen

\* How far the running operation is, forward.
ForwardInv ==
    LET c == work.op  k == work.k  now == Current(c, k) IN
    /\ work.step \in {"write", "written"} => \A j \in Targets(c) : j < k => Prepared(c, j)
    /\ work.step \in {"sources", "verify"} => \A j \in Targets(c) : Prepared(c, j)
    /\ work.step \in {"backup", "check", "rename"} =>
          \A j \in Targets(c) : j >= k => Prepared(c, j)
    /\ work.step = "mark" => \A j \in Targets(c) : j > k => Prepared(c, j)
    /\ work.step = "verify" => \A j \in Targets(c) : j < k => Held(c, j)
    /\ work.step \in {"backup", "check"} => \A j \in Targets(c) : j >= k => Held(c, j)
    /\ work.step \in {"rename", "mark"} => \A j \in Targets(c) : j > k => Held(c, j)
    /\ work.step \in {"backup", "check", "rename", "mark"} =>
          \A j \in Targets(c) : j < k => Done(c, j)
    /\ work.step = "check" => now = Entry(c, k).backup \/ Foreign(c, k)
    /\ work.step = "rename" =>
          Entry(c, k).backup = Prior(c, k) /\ (now = Prior(c, k) \/ Since(now))
    /\ work.step = "mark" => Entry(c, k).backup = Prior(c, k) /\ Done(c, k)

\* And backward.
BackwardInv ==
    LET c == work.op  k == work.k  now == Current(c, k) IN
    /\ Undoing /\ ~work.failed => \A j \in Targets(c) : j > k => Undone(c, j)
    /\ Undoing /\ work.failed /\ faults = 0 => \E j \in Targets(c) : j > k /\ Foreign(c, j)
    /\ work.step = "put" => /\ Prior(c, k) = Absent \/ Entry(c, k).backup = Prior(c, k)
                            /\ now \in {Absent, Result(c, k)} \/ Since(now)
    /\ work.step \in {"sweep", "unmark"} => Undone(c, k)

ComposeInv ==
    Shapes /\ PlanInv /\ QueueInv /\ JournalInv /\ TargetInv /\ ForwardInv /\ BackwardInv

-----------------------------------------------------------------------------
(* Contents                                                                *)

\* Absence, edits and outputs are told apart, and so are the outputs of two calls.
LEMMA Kinds ==
    ASSUME NEW c, NEW d, NEW k, NEW x, NEW n
    PROVE  /\ ~IsEdit(Absent) /\ ~Made(Absent, d)
           /\ IsEdit(Edited(n)) /\ Edited(n)[2] = n /\ ~Made(Edited(n), d)
           /\ ~IsEdit(Make(c, k, x)) /\ (Made(Make(c, k, x), d) <=> c = d)
<1>1. Absent[1] = "absent"
  BY DEF Absent
<1>2. Edited(n)[1] = "edit" /\ Edited(n)[2] = n
  BY DEF Edited
<1>3. Make(c, k, x)[1] = "made" /\ Make(c, k, x)[2] = c
  BY DEF Make
<1> QED BY <1>1, <1>2, <1>3 DEF IsEdit, Made

\* The path of a target is a file of its own.
LEMMA Paths ==
    ASSUME NEW c \in Calls
    PROVE  /\ Writes[c] \in Seq(Files) /\ Len(Writes[c]) \in Nat
           /\ Targets(c) = 1..Len(Writes[c])
           /\ \A k \in Targets(c) : Writes[c][k] \in Files
           /\ \A j, k \in Targets(c) : Writes[c][j] = Writes[c][k] => j = k
           /\ Writes[c] # <<>> => Len(Writes[c]) \in Targets(c) /\ 1 \in Targets(c)
<1>1. Writes[c] \in Seq(Files)
  BY ComposePaths
<1>2. \A j, k \in Targets(c) : Writes[c][j] = Writes[c][k] => j = k
  BY ComposePaths DEF Targets
<1>3. Targets(c) = 1..Len(Writes[c]) /\ Len(Writes[c]) \in Nat
  BY <1>1 DEF Targets
<1>4. \A k \in 1..Len(Writes[c]) : Writes[c][k] \in Files
  BY <1>1
<1>5. Writes[c] # <<>> => Len(Writes[c]) >= 1
  BY <1>1
<1> QED BY <1>1, <1>2, <1>3, <1>4, <1>5

\* An operation that began makes its own outputs, in the place of other contents.
LEMMA Outputs ==
    ASSUME PlanInv, QueueInv, NEW c \in Calls, Started(c), NEW k \in Targets(c),
           Shapes
    PROVE  /\ Result(c, k) = Make(c, k, plan[c].asked.source)
           /\ Made(Result(c, k), c) /\ ~IsEdit(Result(c, k)) /\ Result(c, k) # Absent
           /\ ~Made(Prior(c, k), c) /\ Known(Prior(c, k)) /\ Prior(c, k) # Result(c, k)
<1>1. Serious(c) /\ pc[c] # "asked"
  BY DEF Serious, QueueInv
<1>2. /\ plan[c].found = plan[c].asked
      /\ plan[c].asked.result = Results(c, plan[c].asked.source)
      /\ Known(plan[c].asked.prior[k]) /\ ~Made(plan[c].asked.prior[k], c)
  BY <1>1 DEF PlanInv
<1>3. Results(c, plan[c].asked.source)[k] = Make(c, k, plan[c].asked.source)
  BY DEF Results
<1>4. Result(c, k) = Make(c, k, plan[c].asked.source)
  BY <1>2, <1>3 DEF Result
<1>5. Known(Prior(c, k)) /\ ~Made(Prior(c, k), c)
  BY <1>2 DEF Prior
<1>6. Made(Result(c, k), c) /\ ~IsEdit(Result(c, k)) /\ Result(c, k) # Absent
  BY <1>4, Kinds
<1> QED BY <1>4, <1>5, <1>6

-----------------------------------------------------------------------------
(* Moves of the work, the queue and the journal                            *)

LEMMA TurnType == Turn \in Works /\ Idle \in Works
BY DEF Turn, Idle, Works, Steps

LEMMA GotoEffect ==
    ASSUME Shapes, NEW step \in Steps, NEW op \in Calls, NEW k \in Nat,
           NEW w, w = Goto(step, op, k)
    PROVE  /\ w \in Works
           /\ w.step = step /\ w.op = op /\ w.k = k /\ w.failed = work.failed /\ w.seen = 0
<1>1. work \in Works
  BY DEF Shapes
<1> QED BY <1>1 DEF Goto, Works

LEMMA UndoEffect ==
    ASSUME Shapes, NEW op \in Calls, NEW w, w = Undo(op)
    PROVE  /\ w \in Works
           /\ w.step = "judge" /\ w.op = op /\ w.k = Len(Writes[op])
           /\ w.failed = FALSE /\ w.seen = 0
<1>1. Len(Writes[op]) \in Nat
  BY Paths
<1> DEFINE v == Goto("judge", op, Len(Writes[op]))
<1>2. v \in Works /\ v.step = "judge" /\ v.op = op /\ v.k = Len(Writes[op]) /\ v.seen = 0
  BY <1>1, GotoEffect DEF Steps
<1>3. w = [v EXCEPT !.failed = FALSE]
  BY DEF Undo
<1> HIDE DEF v
<1> QED BY <1>2, <1>3 DEF Works

LEMMA LookedEffect ==
    ASSUME Shapes, NEW v \in Works, NEW w, w = Looked(v)
    PROVE  /\ w \in Works /\ w.step = v.step /\ w.op = v.op /\ w.k = v.k
           /\ w.failed = v.failed /\ w.seen = edits
<1>1. edits \in Nat
  BY ComposeBounds DEF Shapes, ComposeBounds
<1> QED BY <1>1 DEF Looked, Works

\* A new entry for a target of an operation, and nothing else.
LEMMA SetTargetEffect ==
    ASSUME Shapes, work.op \in Calls, Started(work.op), work.k \in Targets(work.op),
           NEW state, NEW hasTemp, NEW backup, NEW r, r = SetTarget(state, hasTemp, backup)
    PROVE  /\ DOMAIN r = Calls /\ \A c \in Calls : c # work.op => r[c] = row[c]
           /\ DOMAIN r[work.op] = {"status", "target"}
           /\ r[work.op].status = row[work.op].status
           /\ DOMAIN r[work.op].target = Targets(work.op)
           /\ \A j \in Targets(work.op) :
                 j # work.k => r[work.op].target[j] = row[work.op].target[j]
           /\ r[work.op].target[work.k].state = state
           /\ r[work.op].target[work.k].backup = backup
<1> DEFINE e == [state |-> state, temp |-> hasTemp, backup |-> backup]
           t == [row[work.op].target EXCEPT ![work.k] = e]
           o == [row[work.op] EXCEPT !.target = t]
<1>1. r = [row EXCEPT ![work.op] = o]
  BY DEF SetTarget
<1>2. e.state = state /\ e.backup = backup
  OBVIOUS
<1>3. DOMAIN row = Calls /\ DOMAIN row[work.op] = {"status", "target"}
      /\ DOMAIN row[work.op].target = Targets(work.op)
  BY DEF Shapes
<1> HIDE DEF e
<1>4. /\ DOMAIN t = Targets(work.op) /\ t[work.k] = e
      /\ \A j \in Targets(work.op) : j # work.k => t[j] = row[work.op].target[j]
  BY <1>3
<1> HIDE DEF t
<1>5. DOMAIN o = {"status", "target"} /\ o.status = row[work.op].status /\ o.target = t
  BY <1>3
<1> HIDE DEF o
<1>6. DOMAIN r = Calls /\ r[work.op] = o /\ \A c \in Calls : c # work.op => r[c] = row[c]
  BY <1>1, <1>3
<1> QED BY <1>2, <1>4, <1>5, <1>6

\* A new status of an operation.
LEMMA SetStatusEffect ==
    ASSUME NEW r, NEW op \in Calls, NEW status, DOMAIN r = Calls,
           DOMAIN r[op] = {"status", "target"},
           NEW s, s = [r EXCEPT ![op].status = status]
    PROVE  /\ DOMAIN s = Calls /\ \A c \in Calls : c # op => s[c] = r[c]
           /\ DOMAIN s[op] = {"status", "target"}
           /\ s[op].status = status /\ s[op].target = r[op].target
<1> DEFINE o == [r[op] EXCEPT !.status = status]
<1>1. s = [r EXCEPT ![op] = o]
  OBVIOUS
<1>2. DOMAIN o = {"status", "target"} /\ o.status = status /\ o.target = r[op].target
  OBVIOUS
<1> HIDE DEF o
<1> QED BY <1>1, <1>2

-----------------------------------------------------------------------------
(* Compiling                                                               *)

Position == JournalInv /\ TargetInv /\ ForwardInv /\ BackwardInv

\* Where files, journal and bounds stay, so does what is known about the operations.
LEMMA DeskKeeps ==
    ASSUME ComposeInv, UNCHANGED <<file, temp, row, bounds>>,
           \A c \in Calls : Started(c) => plan'[c] = plan[c],
           work' = work \/ (work.step = "idle" /\ work' = Turn)
    PROVE  Position'
<1>1. Pending' = Pending
  BY DEF Pending
<1>2. \A c \in Pending : c \in Calls /\ plan'[c] = plan[c]
  BY DEF Pending, Started
<1>3. JournalInv'
  BY <1>1 DEF ComposeInv, JournalInv, Turn, Busy, Undoing
<1>4. TargetInv'
  BY <1>1, <1>2 DEF ComposeInv, TargetInv, Held, Ours, Entry, Current, Prior, Result
<1>5. CASE work' = Turn
  BY <1>3, <1>4, <1>5 DEF Turn, ForwardInv, BackwardInv, Undoing, Position
<1>6. CASE work' = work
  <2>1. CASE Busy
    <3>1. work.op \in Pending
      BY <2>1 DEF ComposeInv, JournalInv
    <3> DEFINE c == work.op
    <3>2. /\ \A k : Prior(c, k)' = Prior(c, k) /\ Result(c, k)' = Result(c, k)
          /\ \A k : Current(c, k)' = Current(c, k) /\ Entry(c, k)' = Entry(c, k)
          /\ c' = c /\ row'[c] = row[c] /\ temp' = temp
      BY <1>2, <1>6, <3>1 DEF Prior, Result, Current, Entry
    <3> HIDE DEF c
    <3>3. /\ \A k : Held(c, k)' = Held(c, k) /\ Done(c, k)' = Done(c, k)
          /\ \A k : Prepared(c, k)' = Prepared(c, k) /\ Undone(c, k)' = Undone(c, k)
          /\ \A k : Foreign(c, k)' = Foreign(c, k)
      BY <3>2 DEF Held, Done, Prepared, Undone, Foreign
    <3>4. \A x : Since(x)' = Since(x)
      BY <1>6 DEF Since
    <3>5. ForwardInv'
      BY <1>6, <3>2, <3>3, <3>4 DEF ComposeInv, ForwardInv, c
    <3>6. BackwardInv'
      BY <1>6, <3>2, <3>3, <3>4 DEF ComposeInv, BackwardInv, Undoing, c, bounds
    <3> QED BY <1>3, <1>4, <3>5, <3>6 DEF Position
  <2>2. CASE ~Busy
    <3>1. ForwardInv' /\ BackwardInv'
      BY <1>6, <2>2 DEF ForwardInv, BackwardInv, Undoing, Busy
    <3> QED BY <1>3, <1>4, <3>1 DEF Position
  <2> QED BY <2>1, <2>2
<1> QED BY <1>5, <1>6

\* A call gets its place in the queue, behind those that have one.
LEMMA EnqueueKeeps ==
    ASSUME ComposeInv, NEW c \in Calls, pc[c] \in {"new", "asked"}, Enqueue(c), row' = row
    PROVE  /\ QueueInv'
           /\ pc' \in [Calls -> {"new", "asked", "queued", "committed", "refused", "gone"}]
           /\ queue' \in Seq(Calls) /\ work' \in Works
           /\ work' = work \/ (work.step = "idle" /\ work' = Turn)
<1>1. queue \in Seq(Calls) /\ Len(queue) \in Nat /\ DOMAIN queue = 1..Len(queue)
  BY DEF ComposeInv, Shapes
<1>2. /\ queue' = Append(queue, c) /\ queue' \in Seq(Calls)
      /\ DOMAIN queue' = 1..(Len(queue) + 1) /\ queue'[Len(queue) + 1] = c
      /\ \A i \in 1..Len(queue) : queue'[i] = queue[i]
  BY <1>1 DEF Enqueue
<1>3. pc' \in [Calls -> {"new", "asked", "queued", "committed", "refused", "gone"}]
      /\ \A d \in Calls : pc'[d] = IF d = c THEN "queued" ELSE pc[d]
  BY DEF ComposeInv, Shapes, Enqueue
<1>4. work' = work \/ (work.step = "idle" /\ work' = Turn)
  BY DEF Enqueue, ComposeInv, QueueInv
<1>5. work' \in Works
  BY <1>4, TurnType DEF ComposeInv, Shapes
<1>6. \A i \in 1..Len(queue) : queue[i] \in Calls /\ queue[i] # c
  BY <1>1 DEF ComposeInv, QueueInv
<1>7. ~Started(c) /\ \A d \in Calls : Started(d)' = Started(d)
  BY DEF Started, ComposeInv, QueueInv
<1>8. ASSUME NEW i \in DOMAIN queue' PROVE pc'[queue'[i]] = "queued"
  <2>1. CASE i = Len(queue) + 1
    BY <1>2, <1>3, <2>1
  <2>2. CASE i \in 1..Len(queue)
    BY <1>1, <1>2, <1>3, <1>6, <2>2 DEF ComposeInv, QueueInv
  <2> QED BY <1>1, <1>2, <1>8, <2>1, <2>2
<1>9. ASSUME NEW i \in DOMAIN queue', NEW j \in DOMAIN queue', queue'[i] = queue'[j]
      PROVE  i = j
  <2>1. CASE i \in 1..Len(queue) /\ j \in 1..Len(queue)
    BY <1>1, <1>2, <1>9, <2>1 DEF ComposeInv, QueueInv
  <2>2. CASE i = Len(queue) + 1 \/ j = Len(queue) + 1
    BY <1>1, <1>2, <1>6, <1>9, <2>2
  <2> QED BY <1>1, <1>2, <1>9, <2>1, <2>2
<1>10. ASSUME NEW i \in DOMAIN queue', Started(queue[i])'
       PROVE  i = 1 /\ Busy' /\ work'.op = queue'[1]
  <2>1. i \in 1..Len(queue) /\ Started(queue[i]) /\ queue'[i] = queue[i]
    <3>0. row'[queue'[i]].status # "none" /\ row' = row
      BY <1>10 DEF Started
    <3>1. i # Len(queue) + 1
      BY <1>2, <1>7, <3>0 DEF Started
    <3>2. i \in 1..Len(queue)
      BY <1>1, <1>2, <1>10, <3>1
    <3> QED BY <1>2, <3>0, <3>2 DEF Started
  <2>2. i = 1 /\ Busy /\ work.op = queue[1]
    BY <1>1, <2>1 DEF ComposeInv, QueueInv
  <2>3. work' = work
    BY <1>4, <2>2 DEF Busy
  <2> QED BY <2>1, <2>2, <2>3 DEF Busy
<1>11. \A d \in Calls : pc'[d] \in {"new", "asked"} => ~Started(d)'
  BY <1>3, <1>7 DEF ComposeInv, QueueInv
<1>12. work'.step = "idle" <=> queue' = <<>>
  <2>1. queue' # <<>>
    BY <1>1, <1>2
  <2>2. work'.step # "idle"
    BY <1>1 DEF Enqueue, Turn, ComposeInv, QueueInv
  <2> QED BY <2>1, <2>2
<1> QED BY <1>2, <1>3, <1>4, <1>5, <1>8, <1>9, <1>10, <1>11, <1>12 DEF QueueInv

\* The types of what compiling leaves alone.
LEMMA DeskShapes ==
    ASSUME ComposeInv, UNCHANGED <<file, temp, row, bounds>>,
           DOMAIN plan' = Calls, \A c \in Calls : DOMAIN plan'[c] = {"asked", "found"},
           pc' \in [Calls -> {"new", "asked", "queued", "committed", "refused", "gone"}],
           queue' \in Seq(Calls), work' \in Works,
           work' = work \/ (work.step = "idle" /\ work' = Turn)
    PROVE  Shapes'
<1>1. work'.seen <= edits'
  BY ComposeBounds DEF ComposeInv, Shapes, Turn, bounds, ComposeBounds
<1>2. \A c \in Calls : Started(c)' = Started(c)
  BY DEF Started
<1> QED BY <1>1, <1>2 DEF ComposeInv, Shapes, bounds

\* What was serious stays what it was, while the plan of one that is not may change.
LEMMA PlanKept ==
    ASSUME ComposeInv, UNCHANGED plan, edits' \in Nat, edits <= edits',
           \A f \in Files : Known(file[f])',
           \A c \in Calls : Started(c) => Started(c)',
           \A c \in Calls : Serious(c)' => Serious(c) /\ (pc'[c] # "asked" => pc[c] # "asked")
    PROVE  PlanInv'
<1>1. edits \in Nat
  BY ComposeBounds DEF ComposeInv, Shapes, ComposeBounds
<1>2. ASSUME NEW x, Known(x) PROVE Known(x)'
  BY <1>1, <1>2 DEF Known
<1> QED BY <1>2 DEF ComposeInv, PlanInv, Results, Make, Made

LEMMA PreviewKeeps == ASSUME ComposeInv, NEW c \in Calls, Preview(c) PROVE ComposeInv'
<1> DEFINE asked == Compiled(At(c), Results(c, At(c)), Priors(c))
<1>1. pc[c] = "new" /\ ~Started(c) /\ UNCHANGED <<file, temp, queue, row, work, bounds>>
  BY DEF Preview, ComposeInv, QueueInv
<1>2. plan' = [plan EXCEPT ![c].asked = asked] /\ pc' = [pc EXCEPT ![c] = "asked"]
  BY DEF Preview
<1>3. /\ asked.source = At(c) /\ asked.result = Results(c, At(c))
      /\ \A k \in Targets(c) : asked.prior[k] = file[Writes[c][k]]
  BY DEF Compiled, Priors
<1> HIDE DEF asked
<1>4. /\ DOMAIN plan' = Calls /\ \A d \in Calls : DOMAIN plan'[d] = {"asked", "found"}
      /\ plan'[c].asked = asked /\ \A d \in Calls : d # c => plan'[d] = plan[d]
  BY <1>2 DEF ComposeInv, Shapes
<1>5. /\ pc' \in [Calls -> {"new", "asked", "queued", "committed", "refused", "gone"}]
      /\ \A d \in Calls : pc'[d] = IF d = c THEN "asked" ELSE pc[d]
  BY <1>2 DEF ComposeInv, Shapes
<1>6. \A d \in Calls : Started(d)' <=> Started(d)
  BY <1>1 DEF Started
<1>7. Shapes'
  BY <1>1, <1>4, <1>5, DeskShapes DEF ComposeInv, Shapes
<1>8. Position'
  BY <1>1, <1>4, DeskKeeps
<1>9. QueueInv'
  <2>1. \A i \in DOMAIN queue : queue[i] \in Calls /\ queue[i] # c
    BY <1>1 DEF ComposeInv, QueueInv, Shapes
  <2>2. \A i \in DOMAIN queue : Started(queue[i])' <=> Started(queue[i])
    BY <1>1 DEF Started
  <2>3. Busy' <=> Busy
    BY <1>1 DEF Busy
  <2> QED BY <1>1, <1>5, <1>6, <2>1, <2>2, <2>3 DEF ComposeInv, QueueInv
<1>10. PlanInv'
  <2>1. ASSUME NEW x, Known(x) PROVE Known(x)'
    BY <1>1, <2>1 DEF Known, Started, bounds
  <2>2. \A f \in Files : Known(file[f])'
    BY <1>1, <2>1 DEF ComposeInv, PlanInv
  <2>3. ASSUME NEW k \in Targets(c)
        PROVE  Known(plan[c].asked.prior[k])' /\ ~Made(plan'[c].asked.prior[k], c)
    <3>1. Writes[c][k] \in Files /\ plan'[c].asked.prior[k] = file[Writes[c][k]]
      BY <1>3, <1>4, Paths
    <3>2. Known(file[Writes[c][k]]) /\ ~Made(file[Writes[c][k]], c)
      BY <1>1, <3>1 DEF ComposeInv, PlanInv, Known
    <3>3. file'[Writes[c][k]] = file[Writes[c][k]]
      BY <1>1
    <3>4. Known(file[Writes[c][k]])'
      BY <2>2, <3>1
    <3> QED BY <3>1, <3>2, <3>3, <3>4 DEF Known
  <2>4. ASSUME NEW d \in Calls, Serious(d)', d # c
        PROVE  Serious(d) /\ pc'[d] = pc[d] /\ plan'[d] = plan[d]
    BY <1>4, <1>5, <1>6, <2>4 DEF Serious
  <2>5. ASSUME NEW d \in Calls, Serious(d)'
        PROVE  /\ plan'[d].asked.result = Results(d, plan'[d].asked.source)
               /\ \A k \in Targets(d) :
                     Known(plan[d].asked.prior[k])' /\ ~Made(plan'[d].asked.prior[k], d)
    <3>1. CASE d = c
      BY <1>3, <1>4, <2>3, <3>1
    <3>2. CASE d # c
      BY <2>1, <2>4, <2>5, <3>2 DEF ComposeInv, PlanInv, Known
    <3> QED BY <3>1, <3>2
  <2>6. ASSUME NEW d \in Calls, Serious(d)', pc'[d] # "asked"
        PROVE  plan'[d].found = plan'[d].asked
    BY <1>5, <2>4, <2>6 DEF ComposeInv, PlanInv
  <2> QED BY <2>2, <2>5, <2>6 DEF PlanInv, Results, Make, Made
<1> QED BY <1>7, <1>8, <1>9, <1>10 DEF ComposeInv, Position

\* A call that is refused before it has its turn is done.
LEMMA RefuseKeeps ==
    ASSUME ComposeInv, NEW c \in Calls, pc[c] = "asked", Refuse(c),
           UNCHANGED <<file, temp, queue, row, work, bounds>>
    PROVE  ComposeInv'
<1>1. ~Started(c)
  BY DEF ComposeInv, QueueInv
<1>2. /\ DOMAIN plan' = Calls /\ \A d \in Calls : DOMAIN plan'[d] = {"asked", "found"}
      /\ \A d \in Calls : d # c => plan'[d] = plan[d]
  BY DEF ComposeInv, Shapes, Refuse
<1>3. /\ pc' \in [Calls -> {"new", "asked", "queued", "committed", "refused", "gone"}]
      /\ \A d \in Calls : pc'[d] = IF d = c THEN "refused" ELSE pc[d]
  BY DEF ComposeInv, Shapes, Refuse
<1>4. \A d \in Calls : Started(d)' <=> Started(d)
  BY DEF Started
<1>5. Shapes'
  BY <1>2, <1>3, DeskShapes DEF ComposeInv, Shapes
<1>6. Position'
  BY <1>1, <1>2, DeskKeeps
<1>7. QueueInv'
  <2>1. \A i \in DOMAIN queue : queue[i] \in Calls /\ queue[i] # c
    BY DEF ComposeInv, QueueInv, Shapes
  <2>2. \A i \in DOMAIN queue : Started(queue[i])' <=> Started(queue[i])
    BY DEF Started
  <2>3. Busy' <=> Busy
    BY DEF Busy
  <2> QED BY <1>3, <1>4, <2>1, <2>2, <2>3 DEF ComposeInv, QueueInv
<1>8. PlanInv'
  <2>1. ASSUME NEW x, Known(x) PROVE Known(x)'
    BY <2>1 DEF Known, Started, bounds
  <2>2. ASSUME NEW d \in Calls, Serious(d)'
        PROVE  Serious(d) /\ pc'[d] = pc[d] /\ plan'[d] = plan[d]
    BY <1>1, <1>2, <1>3, <1>4, <2>2 DEF Serious
  <2> QED BY <2>1, <2>2 DEF ComposeInv, PlanInv, Results, Make, Made
<1> QED BY <1>5, <1>6, <1>7, <1>8 DEF ComposeInv, Position

\* Compiling once more leaves what was asked for.
LEMMA FindKeeps ==
    ASSUME ComposeInv, NEW c \in Calls, pc[c] = "asked", pc' = pc,
           UNCHANGED <<file, temp, queue, row, work, bounds>>,
           DOMAIN plan' = Calls, DOMAIN plan'[c] = {"asked", "found"},
           plan'[c].asked = plan[c].asked, \A d \in Calls : d # c => plan'[d] = plan[d]
    PROVE  ComposeInv'
<1>1. ~Started(c)
  BY DEF ComposeInv, QueueInv
<1>2. \A d \in Calls : Started(d)' <=> Started(d)
  BY DEF Started
<1>3. Shapes'
  BY DeskShapes DEF ComposeInv, Shapes
<1>4. Position'
  BY <1>1, DeskKeeps
<1>5. QueueInv'
  BY DEF ComposeInv, QueueInv, Started, Busy
<1>6. PlanInv'
  <2>1. ASSUME NEW x, Known(x) PROVE Known(x)'
    BY <2>1 DEF Known, Started, bounds
  <2>2. \A d \in Calls : Serious(d)' <=> Serious(d)
    BY <1>2 DEF Serious
  <2>3. \A d \in Calls : plan'[d].asked = plan[d].asked
    OBVIOUS
  <2>4. \A d \in Calls : pc'[d] # "asked" => plan'[d] = plan[d]
    OBVIOUS
  <2> QED BY <2>1, <2>2, <2>3, <2>4 DEF ComposeInv, PlanInv, Results, Make, Made
<1> QED BY <1>3, <1>4, <1>5, <1>6 DEF ComposeInv, Position

LEMMA InspectKeeps == ASSUME ComposeInv, NEW c \in Calls, Inspect(c) PROVE ComposeInv'
<1>1. pc[c] = "asked" /\ UNCHANGED <<file, temp, queue, row, work, bounds>>
  BY DEF Inspect
<1>2. CASE Refuse(c)
  BY <1>1, <1>2, RefuseKeeps
<1>3. ASSUME NEW x, plan' = [plan EXCEPT ![c].found.source = x], pc' = pc
      PROVE  ComposeInv'
  <2>1. /\ DOMAIN plan' = Calls /\ DOMAIN plan'[c] = {"asked", "found"}
        /\ plan'[c].asked = plan[c].asked /\ \A d \in Calls : d # c => plan'[d] = plan[d]
    BY <1>3 DEF ComposeInv, Shapes
  <2> QED BY <1>1, <1>3, <2>1, FindKeeps
<1> QED BY <1>2, <1>3 DEF Inspect

LEMMA MeasureKeeps == ASSUME ComposeInv, NEW c \in Calls, Measure(c) PROVE ComposeInv'
<1>1. pc[c] = "asked" /\ UNCHANGED <<file, temp, pc, queue, row, work, bounds>>
  BY SMTT(30) DEF Measure
<1>2. PICK x, y : plan' = [plan EXCEPT ![c].found.result = x, ![c].found.prior = y]
  BY DEF Measure
<1>3. /\ DOMAIN plan' = Calls /\ DOMAIN plan'[c] = {"asked", "found"}
      /\ plan'[c].asked = plan[c].asked /\ \A d \in Calls : d # c => plan'[d] = plan[d]
  BY <1>2 DEF ComposeInv, Shapes
<1> QED BY <1>1, <1>3, FindKeeps

\* The receipt of the preview is that of what was compiled now; or nothing is written.
LEMMA QueuedKeeps ==
    ASSUME ComposeInv, NEW c \in Calls, pc[c] \in {"new", "asked"}, Enqueue(c),
           UNCHANGED <<file, temp, plan, row, bounds>>,
           Writes[c] # <<>> => pc[c] = "asked" /\ plan[c].found = plan[c].asked
    PROVE  ComposeInv'
<1>1. /\ QueueInv'
      /\ pc' \in [Calls -> {"new", "asked", "queued", "committed", "refused", "gone"}]
      /\ queue' \in Seq(Calls) /\ work' \in Works
      /\ work' = work \/ (work.step = "idle" /\ work' = Turn)
  BY EnqueueKeeps
<1>2. Shapes'
  BY <1>1, DeskShapes DEF ComposeInv, Shapes
<1>3. Position'
  BY <1>1, DeskKeeps
<1>4. \A d \in Calls : Started(d)' <=> Started(d)
  BY DEF Started
<1>5. \A d \in Calls : pc'[d] = IF d = c THEN "queued" ELSE pc[d]
  BY DEF Enqueue, ComposeInv, Shapes
<1>6. ~Started(c)
  BY DEF ComposeInv, QueueInv
<1>7. ASSUME NEW x, Known(x) PROVE Known(x)'
  BY <1>7 DEF Known, Started, bounds
<1>8. ASSUME NEW d \in Calls, Serious(d)'
      PROVE  Serious(d) /\ (pc'[d] # "asked" => plan[d].found = plan[d].asked)
  <2>1. CASE d = c
    BY <1>4, <1>5, <1>6, <1>8, <2>1 DEF Serious
  <2>2. CASE d # c
    BY <1>4, <1>5, <1>8, <2>2 DEF Serious, ComposeInv, PlanInv
  <2> QED BY <2>1, <2>2
<1>9. PlanInv'
  BY <1>7, <1>8 DEF ComposeInv, PlanInv, Results, Make, Made
<1> QED BY <1>1, <1>2, <1>3, <1>9 DEF ComposeInv, Position

LEMMA SubmitKeeps == ASSUME ComposeInv, NEW c \in Calls, Submit(c) PROVE ComposeInv'
<1>1. CASE plan[c].found = plan[c].asked
  BY <1>1, QueuedKeeps DEF Submit
<1>2. CASE plan[c].found # plan[c].asked
  BY <1>2, RefuseKeeps DEF Submit
<1> QED BY <1>1, <1>2

LEMMA CallRecoverKeeps == ASSUME ComposeInv, NEW c \in Calls, CallRecover(c) PROVE ComposeInv'
BY QueuedKeeps DEF CallRecover

-----------------------------------------------------------------------------
(* The surroundings                                                        *)

LEMMA TargetsKept ==
    ASSUME TargetInv, UNCHANGED <<file, plan, row>>
    PROVE  TargetInv' /\ Pending' = Pending
BY DEF TargetInv, Pending, Held, Ours, Entry, Current, Prior, Result, Made

\* What someone writes is new: nobody has measured it, or seen it.
LEMMA EditEffect ==
    ASSUME ComposeInv, NEW f \in Files, Edit(f)
    PROVE  /\ edits \in Nat /\ edits' = edits + 1
           /\ \A x : Known(x) => Known(x)' /\ x # Edited(edits + 1)
           /\ \A g \in Files :
                 file'[g] = file[g] \/ (file'[g] = Edited(edits + 1) /\ Known(file[g])')
<1>1. edits \in Nat /\ edits' = edits + 1 /\ row' = row
  BY ComposeBounds DEF ComposeInv, Shapes, Edit, ComposeBounds
<1>2. ASSUME NEW x, Known(x) PROVE Known(x)' /\ x # Edited(edits + 1)
  <2>1. Known(x)'
    BY <1>1, <1>2 DEF Known, Started
  <2>2. x # Edited(edits + 1)
    BY <1>1, <1>2, Kinds DEF Known
  <2> QED BY <2>1, <2>2
<1>3. ASSUME NEW g \in Files
      PROVE  file'[g] = file[g] \/ (file'[g] = Edited(edits + 1) /\ Known(file[g])')
  <2>1. file'[g] = IF g = f THEN Edited(edits + 1) ELSE file[g]
    BY DEF Edit, ComposeInv, Shapes
  <2>2. CASE g = f
    <3>1. file'[g] = Edited(edits + 1)
      BY <2>1, <2>2
    <3>2. Known(file[g])'
      <4>1. \A c \in Calls : ~Made(file'[g], c)
        BY <3>1, Kinds
      <4>2. file'[g][2] = edits + 1
        BY <3>1, Kinds
      <4> QED BY <1>1, <4>1, <4>2 DEF Known
    <3> QED BY <3>1, <3>2
  <2>3. CASE g # f
    BY <2>1, <2>3
  <2> QED BY <2>2, <2>3
<1> QED BY <1>1, <1>2, <1>3

LEMMA EditKeeps == ASSUME ComposeInv, NEW f \in Files, Edit(f) PROVE ComposeInv'
<1> DEFINE new == Edited(edits + 1)
<1>1. /\ edits \in Nat /\ edits' = edits + 1
      /\ \A x : Known(x) => Known(x)' /\ x # new
      /\ \A g \in Files : file'[g] = file[g] \/ (file'[g] = new /\ Known(file[g])')
  BY EditEffect
<1>2. UNCHANGED <<temp, plan, pc, queue, row, work, faults, crashes>> /\ DOMAIN file' = Files
      /\ edits < MaxEdits
  BY DEF Edit, ComposeInv, Shapes
<1>3. IsEdit(new) /\ \A c : ~Made(new, c)
  BY Kinds
<1>4. new[2] = edits + 1
  BY Kinds
<1> HIDE DEF new
<1>5. \A c \in Calls : (Started(c)' <=> Started(c)) /\ (Serious(c)' <=> Serious(c))
  BY <1>2 DEF Started, Serious
<1>6. Shapes'
  <2>1. work.seen \in Nat /\ edits' \in 0..MaxEdits
    BY <1>1, <1>2, ComposeBounds DEF ComposeInv, Shapes, Works, ComposeBounds
  <2>2. work'.seen <= edits'
    BY <1>1, <1>2, <2>1 DEF ComposeInv, Shapes
  <2> QED BY <1>2, <1>5, <2>1, <2>2 DEF ComposeInv, Shapes
<1>7. PlanInv'
  <2>1. ASSUME NEW g \in Files PROVE Known(file[g])'
    <3>1. Known(file[g])
      BY DEF ComposeInv, PlanInv
    <3>2. CASE file'[g] = file[g]
      BY <1>1, <3>1, <3>2 DEF Known
    <3> QED BY <1>1, <3>2
  <2>2. edits' \in Nat /\ edits <= edits'
    BY <1>1
  <2> QED BY <1>2, <1>5, <2>1, <2>2, PlanKept
<1>8. QueueInv' /\ Pending' = Pending
  BY <1>2 DEF ComposeInv, QueueInv, Started, Busy, Pending
<1>9. JournalInv'
  BY <1>2, <1>8 DEF ComposeInv, JournalInv, Busy, Undoing
<1>10. ASSUME NEW c \in Calls, NEW k \in Targets(c), Started(c)
       PROVE  /\ Current(c, k)' = Current(c, k) \/ Current(c, k)' = new
              /\ Prior(c, k) # new /\ Prior(c, k)' = Prior(c, k)
              /\ Result(c, k)' = Result(c, k) /\ Entry(c, k)' = Entry(c, k)
  <2>1. Writes[c][k] \in Files
    BY Paths
  <2>2. Known(Prior(c, k))
    BY <1>10, Outputs DEF ComposeInv
  <2> QED BY <1>1, <1>2, <2>1, <2>2 DEF Current, Prior, Result, Entry
<1>11. ASSUME NEW c \in Calls, NEW k \in Targets(c), Started(c)
       PROVE  /\ Held(c, k) => Held(c, k)'
              /\ Ours(c, k) => Ours(c, k)' \/ Held(c, k)'
              /\ Done(c, k) => Done(c, k)'
              /\ Undone(c, k) => Undone(c, k)'
              /\ Foreign(c, k) => Foreign(c, k)'
              /\ Current(c, k)' = Current(c, k) \/ Foreign(c, k)'
  BY <1>2, <1>3, <1>10, <1>11 DEF Held, Ours, Done, Undone, Foreign
<1>12. TargetInv'
  <2>1. ASSUME NEW c \in Pending, NEW k \in Targets(c)
        PROVE  IF row'[c].status = "committing"
               THEN /\ Held(c, k)' \/ Ours(c, k)'
                    /\ Entry(c, k)'.state = "committed" => Entry(c, k)'.backup = Prior(c, k)'
               ELSE /\ Entry(c, k)'.backup = Absent /\ Entry(c, k)'.state # "committed"
                    /\ ~Made(Current(c, k), c)'
    <3>1. c \in Calls /\ Started(c)
      BY DEF Pending, Started
    <3>2. CASE row[c].status = "committing"
      BY <1>2, <1>10, <1>11, <3>1, <3>2 DEF ComposeInv, TargetInv
    <3>3. CASE row[c].status # "committing"
      <4>1. ~Made(Current(c, k), c)'
        BY <1>3, <1>10, <3>1, <3>3 DEF ComposeInv, TargetInv, Made
      <4> QED BY <1>2, <1>10, <3>1, <3>3, <4>1 DEF ComposeInv, TargetInv
    <3> QED BY <3>2, <3>3
  <2> QED BY <1>8, <2>1 DEF TargetInv
<1>13. CASE Busy
  <2>1. PICK c \in Calls, k \in Nat : c = work.op /\ k = work.k
    BY <1>13 DEF ComposeInv, JournalInv, Pending, Shapes, Works
  <2>2. Started(c) /\ (work.step # "sources" => k \in Targets(c))
    BY <1>13, <2>1 DEF ComposeInv, JournalInv, Pending, Started
  <2>3. \A j \in Targets(c) : Prepared(c, j)' <=> Prepared(c, j)
    BY <1>2, <1>10, <2>2 DEF Prepared
  <2>4. \A x : Since(x)' <=> Since(x)
    BY <1>2 DEF Since
  <2>5. Since(new)
    <3>1. work.seen \in Nat /\ work.seen <= edits
      BY DEF ComposeInv, Shapes, Works
    <3>2. edits + 1 > work.seen
      BY <1>1, <3>1
    <3> QED BY <1>3, <1>4, <3>2 DEF Since
  <2>6. ASSUME k \in Targets(c)
        PROVE  /\ Since(Current(c, k)) => Since(Current(c, k))'
               /\ Current(c, k)' = Current(c, k) \/ Since(Current(c, k))'
    <3>1. Since(Current(c, k))' <=> (IsEdit(Current(c, k)') /\ Current(c, k)'[2] > work.seen)
      BY <1>2 DEF Since, IsEdit
    <3>2. Current(c, k)' = Current(c, k) \/ Current(c, k)' = new
      BY <1>10, <2>2, <2>6
    <3> QED BY <2>5, <3>1, <3>2 DEF Since
  <2>7. ForwardInv'
    BY <1>2, <1>10, <1>11, <2>1, <2>2, <2>3, <2>6 DEF ComposeInv, ForwardInv
  <2>8. BackwardInv'
    BY <1>2, <1>10, <1>11, <2>1, <2>2, <2>6 DEF ComposeInv, BackwardInv, Undoing
  <2> QED BY <1>6, <1>7, <1>8, <1>9, <1>12, <2>7, <2>8 DEF ComposeInv
<1>14. CASE ~Busy
  <2>1. ForwardInv' /\ BackwardInv'
    BY <1>2, <1>14 DEF ForwardInv, BackwardInv, Undoing, Busy
  <2> QED BY <1>6, <1>7, <1>8, <1>9, <1>12, <2>1 DEF ComposeInv
<1> QED BY <1>13, <1>14

\* The process stops: what files and journal hold is kept.
LEMMA CrashKeeps == ASSUME ComposeInv, Crash PROVE ComposeInv'
<1>1. /\ UNCHANGED <<file, temp, plan, row, edits, faults>>
      /\ queue' = <<>> /\ work' = Idle /\ crashes' \in 0..MaxCrashes
  BY ComposeBounds DEF Crash, ComposeInv, Shapes, ComposeBounds
<1>2. /\ pc' \in [Calls -> {"new", "asked", "queued", "committed", "refused", "gone"}]
      /\ \A c \in Calls : pc'[c] = IF pc[c] \in {"asked", "queued"} THEN "gone" ELSE pc[c]
  BY DEF Crash, ComposeInv, Shapes
<1>3. \A c \in Calls : Started(c)' <=> Started(c)
  BY <1>1 DEF Started
<1>4. edits \in Nat
  BY ComposeBounds DEF ComposeInv, Shapes, ComposeBounds
<1>5. work' \in Works /\ work'.seen = 0 /\ work'.step = "idle" /\ work'.failed = FALSE
  BY <1>1, TurnType DEF Idle
<1>6. Shapes'
  <2>1. queue' \in Seq(Calls)
    BY <1>1
  <2>2. work'.seen <= edits'
    BY <1>1, <1>4, <1>5
  <2> QED BY <1>1, <1>2, <1>3, <1>5, <2>1, <2>2 DEF ComposeInv, Shapes
<1>7. PlanInv'
  <2>1. \A f \in Files : Known(file[f])'
    BY <1>1, <1>3 DEF ComposeInv, PlanInv, Known
  <2>2. \A c \in Calls : Serious(c)' => Serious(c) /\ (pc'[c] # "asked" => pc[c] # "asked")
    BY <1>2, <1>3 DEF Serious, ComposeInv, QueueInv
  <2>3. edits' \in Nat /\ edits <= edits'
    BY <1>1, <1>4
  <2> QED BY <1>1, <1>3, <2>1, <2>2, <2>3, PlanKept
<1>8. QueueInv'
  BY <1>1, <1>2, <1>3, <1>5 DEF ComposeInv, QueueInv
<1>9. TargetInv' /\ Pending' = Pending
  BY <1>1, TargetsKept DEF ComposeInv
<1>10. JournalInv' /\ ForwardInv' /\ BackwardInv'
  BY <1>5, <1>9 DEF ComposeInv, JournalInv, ForwardInv, BackwardInv, Busy, Undoing
<1> QED BY <1>6, <1>7, <1>8, <1>9, <1>10 DEF ComposeInv

LEMMA StutterKeeps == ASSUME ComposeInv, UNCHANGED vars PROVE ComposeInv'
<1>1. UNCHANGED <<file, temp, plan, pc, queue, row, work, bounds>>
  BY DEF vars
<1>2. Position'
  BY <1>1, DeskKeeps
<1>3. Shapes'
  BY SMTT(30), <1>1, DeskShapes DEF ComposeInv, Shapes
<1>4. QueueInv'
  BY <1>1 DEF ComposeInv, QueueInv, Started, Busy
<1>5. PlanInv'
  BY <1>1 DEF ComposeInv, PlanInv, Known, Serious, Started, Results, Make, Made, bounds
<1> QED BY <1>2, <1>3, <1>4, <1>5 DEF ComposeInv, Position

-----------------------------------------------------------------------------
(* Moves of an operation                                                   *)

\* What an operation leaves as it is in the journal.
JournalMoves ==
    /\ DOMAIN row' = Calls
    /\ \A c \in Calls : c # work.op => row'[c] = row[c]
    /\ DOMAIN row'[work.op] = {"status", "target"}
    /\ row'[work.op].status \in Statuses \ {"none"}
    /\ DOMAIN row'[work.op].target = Targets(work.op)
    /\ \A k \in Targets(work.op) : row'[work.op].target[k].state \in States

LEMMA JournalStays ==
    ASSUME ComposeInv, Busy, row' = row
    PROVE  JournalMoves
<1>1. work.op \in Calls /\ Started(work.op)
  BY DEF ComposeInv, JournalInv, Pending, Started
<1> QED BY <1>1 DEF JournalMoves, ComposeInv, Shapes, Started

LEMMA MovesStart ==
    ASSUME ComposeInv, Busy, JournalMoves
    PROVE  \A c \in Calls : Started(c)' <=> Started(c)
<1>1. work.op \in Calls /\ Started(work.op)
  BY DEF ComposeInv, JournalInv, Pending, Started
<1> QED BY <1>1 DEF JournalMoves, Started

\* The shape of the step: files, temporary files, journal.
StepShaped ==
    /\ UNCHANGED <<plan, edits, crashes>> /\ faults' \in 0..MaxFaults
    /\ DOMAIN file' = Files /\ \A f \in Files : Known(file[f])'
    /\ DOMAIN temp' = Calls /\ \A c \in Calls : DOMAIN temp'[c] = Targets(c)
    /\ JournalMoves

LEMMA KnownKept ==
    ASSUME ComposeInv, Busy, JournalMoves, edits' = edits, NEW x, Known(x)
    PROVE  Known(x)'
BY MovesStart DEF Known

\* An operation goes on.
LEMMA GoesOn ==
    ASSUME ComposeInv, Busy, StepShaped, UNCHANGED <<pc, queue>>,
           work' \in Works, work'.op = work.op, work'.seen <= edits, Busy'
    PROVE  Shapes' /\ PlanInv' /\ QueueInv'
<1>1. \A c \in Calls : Started(c)' <=> Started(c)
  BY MovesStart DEF StepShaped
<1>2. work.op \in Calls /\ Started(work.op)
  BY DEF ComposeInv, JournalInv, Pending, Started
<1>3. Shapes'
  <2>1. ASSUME NEW c \in Calls
        PROVE  /\ DOMAIN row'[c] = {"status", "target"} /\ row'[c].status \in Statuses
               /\ DOMAIN row'[c].target = IF Started(c)' THEN Targets(c) ELSE {}
               /\ \A k \in DOMAIN row'[c].target : row'[c].target[k].state \in States
               /\ Started(c)' => Writes[c] # <<>>
    <3>1. CASE c = work.op
      BY <1>1, <1>2, <3>1 DEF StepShaped, JournalMoves, ComposeInv, Shapes
    <3>2. CASE c # work.op
      BY <1>1, <3>2 DEF StepShaped, JournalMoves, ComposeInv, Shapes
    <3> QED BY <3>1, <3>2
  <2>2. DOMAIN row' = Calls
    BY DEF StepShaped, JournalMoves
  <2> QED BY <2>1, <2>2 DEF StepShaped, ComposeInv, Shapes
<1>4. PlanInv'
  <2>1. edits' \in Nat /\ edits <= edits'
    BY ComposeBounds DEF StepShaped, ComposeInv, Shapes, ComposeBounds
  <2>2. \A c \in Calls : Serious(c)' => Serious(c) /\ (pc'[c] # "asked" => pc[c] # "asked")
    BY <1>1 DEF Serious
  <2> QED BY <1>1, <2>1, <2>2, PlanKept DEF StepShaped
<1>5. QueueInv'
  <2>1. \A i \in DOMAIN queue : queue[i] \in Calls
    BY DEF ComposeInv, Shapes
  <2>2. \A i \in DOMAIN queue : Started(queue[i])' <=> Started(queue[i])
    BY <1>1, <2>1 DEF Started
  <2>3. work.step # "idle" /\ work'.step # "idle"
    BY DEF Busy
  <2> QED BY <1>1, <2>2, <2>3 DEF ComposeInv, QueueInv
<1> QED BY <1>3, <1>4, <1>5

\* A call has its answer, and the next one its turn.
LEMMA AnswerKeeps ==
    ASSUME ComposeInv, work.step # "idle", NEW outcome \in {"committed", "refused"},
           Answer(outcome), \A c \in Calls : Started(c)' <=> Started(c)
    PROVE  /\ QueueInv'
           /\ pc' \in [Calls -> {"new", "asked", "queued", "committed", "refused", "gone"}]
           /\ queue' \in Seq(Calls) /\ work' \in {Idle, Turn}
           /\ \A c \in Calls : pc'[c] # pc[c] => pc[c] = "queued" /\ pc'[c] = outcome
<1>1. /\ queue \in Seq(Calls) /\ Len(queue) \in Nat /\ DOMAIN queue = 1..Len(queue)
      /\ queue # <<>> /\ Len(queue) >= 1
  BY DEF ComposeInv, Shapes, QueueInv
<1>2. /\ queue' = Tail(queue) /\ queue' \in Seq(Calls) /\ Len(queue') = Len(queue) - 1
      /\ DOMAIN queue' = 1..(Len(queue) - 1)
      /\ \A i \in 1..(Len(queue) - 1) : queue'[i] = queue[i + 1] /\ i + 1 \in 1..Len(queue)
  BY <1>1 DEF Answer
<1>3. Runner = queue[1] /\ Runner \in Calls /\ pc[Runner] = "queued"
  BY <1>1 DEF Runner, ComposeInv, QueueInv
<1>4. /\ \A c \in Calls : pc'[c] = IF c = Runner THEN outcome ELSE pc[c]
      /\ pc' \in [Calls -> {"new", "asked", "queued", "committed", "refused", "gone"}]
  BY <1>3 DEF Answer, ComposeInv, Shapes
<1>5. \A i \in 1..(Len(queue) - 1) : queue[i + 1] # Runner /\ queue[i + 1] \in Calls
                                    /\ ~Started(queue[i + 1])
  <2>1. \A i \in 1..(Len(queue) - 1) : i + 1 \in DOMAIN queue /\ i + 1 # 1 /\ 1 \in DOMAIN queue
    BY <1>1
  <2> QED BY <1>1, <1>3, <2>1 DEF ComposeInv, QueueInv
<1>6. work' \in {Idle, Turn} /\ (work'.step = "idle" <=> queue' = <<>>)
  BY <1>2 DEF Answer, Idle, Turn
<1>7. \A i \in DOMAIN queue' : pc'[queue'[i]] = "queued"
  <2>1. \A i \in 1..(Len(queue) - 1) : pc[queue[i + 1]] = "queued"
    BY <1>1, <1>2 DEF ComposeInv, QueueInv
  <2> QED BY <1>2, <1>4, <1>5, <2>1
<1>8. \A i, j \in DOMAIN queue' : queue'[i] = queue'[j] => i = j
  <2>1. ASSUME NEW i \in 1..(Len(queue) - 1), NEW j \in 1..(Len(queue) - 1),
               queue'[i] = queue'[j]
        PROVE  i = j
    <3>1. queue[i + 1] = queue[j + 1] /\ i + 1 \in DOMAIN queue /\ j + 1 \in DOMAIN queue
      BY <1>1, <1>2, <2>1
    <3>2. i + 1 = j + 1
      BY <3>1 DEF ComposeInv, QueueInv
    <3> QED BY <1>1, <3>2
  <2> QED BY <1>2, <2>1
<1>9. \A i \in DOMAIN queue' : ~Started(queue[i])'
  <2>1. \A i \in DOMAIN queue' : row'[queue'[i]].status = "none"
    BY <1>2, <1>5 DEF Started
  <2> QED BY <2>1 DEF Started
<1>10. \A c \in Calls : pc'[c] \in {"new", "asked"} => ~Started(c)'
  BY <1>4 DEF ComposeInv, QueueInv
<1> QED BY <1>2, <1>3, <1>4, <1>6, <1>7, <1>8, <1>9, <1>10 DEF QueueInv

\* An operation ends.
LEMMA Ends ==
    ASSUME ComposeInv, Busy, StepShaped, NEW outcome \in {"committed", "refused"},
           Answer(outcome)
    PROVE  Shapes' /\ PlanInv' /\ QueueInv' /\ work' \in {Idle, Turn}
<1>1. \A c \in Calls : Started(c)' <=> Started(c)
  BY MovesStart DEF StepShaped
<1>2. work.op \in Calls /\ Started(work.op) /\ work.step # "idle"
  BY DEF ComposeInv, JournalInv, Pending, Started, Busy
<1>3. /\ QueueInv'
      /\ pc' \in [Calls -> {"new", "asked", "queued", "committed", "refused", "gone"}]
      /\ queue' \in Seq(Calls) /\ work' \in {Idle, Turn}
      /\ \A c \in Calls : pc'[c] # pc[c] => pc[c] = "queued" /\ pc'[c] = outcome
  BY <1>1, <1>2, AnswerKeeps
<1>4. edits \in Nat
  BY ComposeBounds DEF ComposeInv, Shapes, ComposeBounds
<1>5. Shapes'
  <2>1. ASSUME NEW c \in Calls
        PROVE  /\ DOMAIN row'[c] = {"status", "target"} /\ row'[c].status \in Statuses
               /\ DOMAIN row'[c].target = IF Started(c)' THEN Targets(c) ELSE {}
               /\ \A k \in DOMAIN row'[c].target : row'[c].target[k].state \in States
               /\ Started(c)' => Writes[c] # <<>>
    <3>1. CASE c = work.op
      BY <1>1, <1>2, <3>1 DEF StepShaped, JournalMoves, ComposeInv, Shapes
    <3>2. CASE c # work.op
      BY <1>1, <3>2 DEF StepShaped, JournalMoves, ComposeInv, Shapes
    <3> QED BY <3>1, <3>2
  <2>2. DOMAIN row' = Calls
    BY DEF StepShaped, JournalMoves
  <2>3. work' \in Works /\ work'.seen <= edits'
    <3>1. edits' = edits
      BY DEF StepShaped
    <3>2. Idle.seen = 0 /\ Turn.seen = 0
      BY DEF Idle, Turn
    <3>3. work' \in Works /\ work'.seen = 0
      BY <1>3, <3>2, TurnType
    <3> QED BY <1>4, <3>1, <3>3
  <2> QED BY <1>3, <2>1, <2>2, <2>3 DEF StepShaped, ComposeInv, Shapes
<1>6. PlanInv'
  <2>1. edits' \in Nat /\ edits <= edits'
    BY <1>4 DEF StepShaped
  <2>2. \A c \in Calls : Serious(c)' => Serious(c) /\ (pc'[c] # "asked" => pc[c] # "asked")
    BY <1>1, <1>3 DEF Serious
  <2> QED BY <1>1, <2>1, <2>2, PlanKept DEF StepShaped
<1> QED BY <1>3, <1>5, <1>6

\* Where nobody is served, only the journal's targets matter.
LEMMA Away ==
    ASSUME work' \in {Idle, Turn}, \A c, d \in Pending' : c = d, TargetInv'
    PROVE  Position'
<1>1. work'.step \in {"idle", "recover"} /\ work'.failed = FALSE
  BY DEF Idle, Turn
<1> QED BY <1>1 DEF Position, JournalInv, ForwardInv, BackwardInv, Busy, Undoing

\* A step that only looks, or prepares.
LEMMA Looks ==
    ASSUME ComposeInv, Busy, UNCHANGED <<file, plan, pc, queue, row, edits, crashes>>,
           faults' \in 0..MaxFaults,
           DOMAIN temp' = Calls, \A c \in Calls : DOMAIN temp'[c] = Targets(c),
           work' \in Works, work'.op = work.op, work'.seen <= edits, Busy'
    PROVE  /\ Shapes' /\ PlanInv' /\ QueueInv' /\ TargetInv' /\ Pending' = Pending
<1>1. TargetInv' /\ Pending' = Pending
  BY TargetsKept DEF ComposeInv
<1>2. JournalMoves
  BY JournalStays
<1>3. \A f \in Files : Known(file[f])'
  BY <1>2, KnownKept DEF ComposeInv, PlanInv
<1>4. StepShaped
  BY <1>2, <1>3 DEF StepShaped, ComposeInv, Shapes
<1> QED BY <1>1, <1>4, GoesOn

\* Where operation, target and content are the same, so is what is said of them.
LEMMA SameWords ==
    ASSUME UNCHANGED <<file, plan, row>>, NEW c, NEW k
    PROVE  /\ Prior(c, k)' = Prior(c, k) /\ Result(c, k)' = Result(c, k)
           /\ Current(c, k)' = Current(c, k) /\ Entry(c, k)' = Entry(c, k)
           /\ Held(c, k)' <=> Held(c, k)
           /\ Done(c, k)' <=> Done(c, k)
           /\ Undone(c, k)' <=> Undone(c, k)
           /\ Foreign(c, k)' <=> Foreign(c, k)
BY DEF Prior, Result, Current, Entry, Held, Done, Undone, Foreign

\* A step fails, or the destination is not what it was: the operation is undone.
LEMMA UndoKeeps ==
    ASSUME ComposeInv, Busy, UNCHANGED <<file, plan, pc, queue, row, edits, crashes>>,
           faults' \in 0..MaxFaults,
           DOMAIN temp' = Calls, \A c \in Calls : DOMAIN temp'[c] = Targets(c),
           work' = Undo(work.op)
    PROVE  ComposeInv'
<1>1. PICK c \in Calls : c = work.op /\ c \in Pending
  BY DEF ComposeInv, JournalInv, Pending
<1>2. /\ work' \in Works /\ work'.step = "judge" /\ work'.op = c
      /\ work'.k = Len(Writes[c]) /\ work'.failed = FALSE /\ work'.seen = 0
  BY <1>1, UndoEffect DEF ComposeInv
<1>3. edits \in Nat
  BY ComposeBounds DEF ComposeInv, Shapes, ComposeBounds
<1>4. Busy' /\ work'.seen <= edits
  BY <1>2, <1>3 DEF Busy
<1>5. Shapes' /\ PlanInv' /\ QueueInv' /\ TargetInv' /\ Pending' = Pending
  BY <1>1, <1>2, <1>4, Looks
<1>6. Len(Writes[c]) \in Targets(c) /\ \A j \in Targets(c) : ~(j > Len(Writes[c]))
  <2>1. Writes[c] # <<>>
    BY <1>1 DEF ComposeInv, Shapes, Pending, Started
  <2> QED BY <2>1, Paths
<1>7. JournalInv'
  BY <1>1, <1>2, <1>5, <1>6 DEF ComposeInv, JournalInv, Undoing
<1>8. ForwardInv' /\ BackwardInv'
  BY <1>2, <1>6 DEF ForwardInv, BackwardInv, Undoing
<1> QED BY <1>5, <1>7, <1>8 DEF ComposeInv

-----------------------------------------------------------------------------
(* Forward                                                                 *)

\* The operation that is worked at, and how far it is.
LEMMA Working ==
    ASSUME ComposeInv, Busy
    PROVE  /\ work.op \in Calls /\ work.op \in Pending /\ Started(work.op)
           /\ work.k \in Nat /\ work \in Works /\ edits \in Nat
           /\ Targets(work.op) = 1..Len(Writes[work.op])
           /\ Len(Writes[work.op]) \in Targets(work.op)
           /\ 1 \in Targets(work.op)
           /\ work.step # "sources" => work.k \in Targets(work.op)
<1>1. work.op \in Pending /\ work.op \in Calls /\ Started(work.op)
  BY DEF ComposeInv, JournalInv, Pending, Started
<1>2. work \in Works /\ work.k \in Nat /\ edits \in Nat
  BY ComposeBounds DEF ComposeInv, Shapes, Works, ComposeBounds
<1>3. Writes[work.op] # <<>>
  BY <1>1 DEF ComposeInv, Shapes
<1> QED BY <1>1, <1>2, <1>3, Paths DEF ComposeInv, JournalInv

\* What a crash left pending is undone before anything else.
LEMMA RecoverFirstKeeps == ASSUME ComposeInv, RecoverFirst PROVE ComposeInv'
<1>1. PICK c \in Pending : work' = Undo(c)
  BY DEF RecoverFirst
<1>2. /\ work.step = "recover" /\ c \in Calls /\ Started(c)
      /\ UNCHANGED <<file, temp, plan, pc, queue, row, bounds>>
  BY DEF RecoverFirst, Pending, Started
<1>3. /\ work' \in Works /\ work'.step = "judge" /\ work'.op = c
      /\ work'.k = Len(Writes[c]) /\ work'.failed = FALSE /\ work'.seen = 0
  BY <1>1, <1>2, UndoEffect DEF ComposeInv
<1>4. edits \in Nat
  BY ComposeBounds DEF ComposeInv, Shapes, ComposeBounds
<1>5. Len(Writes[c]) \in Targets(c) /\ \A j \in Targets(c) : ~(j > Len(Writes[c]))
  <2>1. Writes[c] # <<>>
    BY <1>2 DEF ComposeInv, Shapes
  <2> QED BY <1>2, <2>1, Paths
<1>6. TargetInv' /\ Pending' = Pending
  BY <1>2, TargetsKept DEF ComposeInv
<1>7. \A d \in Calls : (Started(d)' <=> Started(d)) /\ (Serious(d)' <=> Serious(d))
  BY <1>2 DEF Started, Serious
<1>8. Shapes'
  BY <1>2, <1>3, <1>4, <1>7 DEF ComposeInv, Shapes, bounds
<1>9. PlanInv'
  BY <1>2, <1>7 DEF ComposeInv, PlanInv, Known, Results, Make, Made, bounds
<1>10. QueueInv'
  <2>1. \A i \in DOMAIN queue : queue[i] \in Calls /\ ~Started(queue[i])
    BY <1>2 DEF ComposeInv, QueueInv, Shapes, Busy
  <2>2. \A i \in DOMAIN queue : ~Started(queue[i])'
    BY <1>2, <2>1 DEF Started
  <2> QED BY <1>2, <1>3, <1>7, <2>2 DEF ComposeInv, QueueInv
<1>11. JournalInv'
  BY <1>2, <1>3, <1>5, <1>6 DEF ComposeInv, JournalInv, Undoing
<1>12. ForwardInv' /\ BackwardInv'
  BY <1>3, <1>5 DEF ForwardInv, BackwardInv, Undoing
<1> QED BY <1>6, <1>8, <1>9, <1>10, <1>11, <1>12 DEF ComposeInv

LEMMA WriteKeeps == ASSUME ComposeInv, Write PROVE ComposeInv'
<1>0. work.step = "write" /\ Busy
  BY DEF Write, Busy
<1>1. PICK c \in Calls, k \in Nat : c = work.op /\ k = work.k
  BY <1>0, Working
<1>2. /\ c \in Pending /\ k \in Targets(c) /\ edits \in Nat
      /\ row[c].status = "preparing" /\ ~work.failed
  BY <1>0, <1>1, Working DEF ComposeInv, JournalInv, Undoing
<1>3. /\ UNCHANGED <<file, plan, pc, queue, row, bounds>>
      /\ temp' = [temp EXCEPT ![c][k] = Make(c, k, At(c))] /\ work' = Goto("written", c, k)
  BY <1>1 DEF Write, Step
<1>4. /\ work' \in Works /\ work'.step = "written" /\ work'.op = c /\ work'.k = k
      /\ work'.failed = FALSE /\ work'.seen = 0
  BY <1>1, <1>2, <1>3, GotoEffect DEF ComposeInv, Steps, Shapes, Works
<1>5. /\ DOMAIN temp' = Calls /\ \A d \in Calls : DOMAIN temp'[d] = Targets(d)
      /\ \A j \in Targets(c) : j # k => temp'[c][j] = temp[c][j]
  BY <1>3 DEF ComposeInv, Shapes
<1>6. Shapes' /\ PlanInv' /\ QueueInv' /\ TargetInv' /\ Pending' = Pending
  <2>1. Busy' /\ work'.seen <= edits
    BY <1>2, <1>4 DEF Busy
  <2> QED BY <1>0, <1>1, <1>3, <1>4, <1>5, <2>1, Looks DEF bounds, ComposeInv, Shapes
<1>7. JournalInv'
  BY <1>2, <1>3, <1>4, <1>6 DEF ComposeInv, JournalInv, Undoing
<1>8. ForwardInv'
  <2>1. \A j \in Targets(c) : j < k => Prepared(c, j)
    BY <1>0, <1>1 DEF ComposeInv, ForwardInv
  <2>2. \A j \in Targets(c) : j < k => Prepared(c, j)'
    BY <1>3, <1>5, <2>1 DEF Prepared, Result
  <2> QED BY <1>4, <2>2 DEF ForwardInv
<1>9. BackwardInv'
  BY <1>4 DEF BackwardInv, Undoing
<1> QED BY <1>6, <1>7, <1>8, <1>9 DEF ComposeInv

LEMMA CheckSourceKeeps == ASSUME ComposeInv, CheckSource PROVE ComposeInv'
<1>0. work.step = "sources" /\ Busy
  BY DEF CheckSource, Busy
<1>1. PICK c \in Calls, k \in Nat : c = work.op /\ k = work.k
  BY <1>0, Working
<1>2. /\ c \in Pending /\ edits \in Nat /\ 1 \in Targets(c)
      /\ row[c].status = "prepared" /\ ~work.failed
  BY <1>0, <1>1, Working DEF ComposeInv, JournalInv, Undoing
<1>3. UNCHANGED <<file, temp, plan, pc, queue, row, bounds>>
  BY DEF CheckSource
<1>4. CASE work' = Undo(c)
  BY <1>0, <1>1, <1>3, <1>4, UndoKeeps DEF bounds, ComposeInv, Shapes
<1>5. CASE work' = Goto("sources", c, k + 1) \/ work' = Goto("verify", c, 1)
  <2>1. /\ work' \in Works /\ work'.step \in {"sources", "verify"} /\ work'.op = c
        /\ work'.step = "verify" => work'.k = 1
        /\ work'.failed = FALSE /\ work'.seen = 0
    <3>1. work.failed = FALSE
      BY <1>2 DEF ComposeInv, Shapes, Works
    <3>2. CASE work' = Goto("sources", c, k + 1)
      BY <3>1, <3>2, GotoEffect DEF ComposeInv, Steps
    <3>3. CASE work' = Goto("verify", c, 1)
      BY <3>1, <3>3, GotoEffect DEF ComposeInv, Steps
    <3> QED BY <1>5, <3>2, <3>3
  <2>2. Shapes' /\ PlanInv' /\ QueueInv' /\ TargetInv' /\ Pending' = Pending
    <3>1. Busy' /\ work'.seen <= edits
      BY <1>2, <2>1 DEF Busy
    <3> QED BY <1>0, <1>1, <1>3, <2>1, <3>1, Looks DEF bounds, ComposeInv, Shapes
  <2>3. JournalInv'
    BY <1>2, <1>3, <2>1, <2>2 DEF ComposeInv, JournalInv, Undoing
  <2>4. ForwardInv'
    <3>1. \A j \in Targets(c) : Prepared(c, j)
      BY <1>0, <1>1 DEF ComposeInv, ForwardInv
    <3>2. \A j \in Targets(c) : Prepared(c, j)'
      BY <1>3, <3>1 DEF Prepared, Result
    <3>3. \A j \in Targets(c) : ~(j < 1)
      BY Paths
    <3> QED BY <2>1, <3>2, <3>3 DEF ForwardInv
  <2>5. BackwardInv'
    BY <2>1 DEF BackwardInv, Undoing
  <2> QED BY <2>2, <2>3, <2>4, <2>5 DEF ComposeInv
<1> QED BY <1>1, <1>4, <1>5 DEF CheckSource

LEMMA CheckKeeps == ASSUME ComposeInv, Check PROVE ComposeInv'
<1>0. work.step = "check" /\ Busy
  BY DEF Check, Busy
<1>1. PICK c \in Calls, k \in Nat : c = work.op /\ k = work.k
  BY <1>0, Working
<1>2. /\ c \in Pending /\ edits \in Nat /\ k \in Targets(c)
      /\ row[c].status = "committing" /\ ~work.failed
  BY <1>0, <1>1, Working DEF ComposeInv, JournalInv, Undoing
<1>3. UNCHANGED <<file, temp, plan, pc, queue, row, bounds>>
  BY DEF Check
<1>4. CASE ~Unchanged(k)
  <2> DEFINE v == Undo(c)
  <2>1. /\ v \in Works /\ v.step = "judge" /\ v.op = c /\ v.k = Len(Writes[c])
        /\ v.failed = FALSE
    BY UndoEffect DEF ComposeInv
  <2>2. work' = Looked(v)
    BY <1>1, <1>4 DEF Check
  <2> HIDE DEF v
  <2>3. /\ work' \in Works /\ work'.step = "judge" /\ work'.op = c /\ work'.k = Len(Writes[c])
        /\ work'.failed = FALSE /\ work'.seen = edits
    BY <2>1, <2>2, LookedEffect DEF ComposeInv
  <2>4. Shapes' /\ PlanInv' /\ QueueInv' /\ TargetInv' /\ Pending' = Pending
    <3>1. Busy' /\ work'.seen <= edits
      BY <1>2, <2>3 DEF Busy
    <3> QED BY <1>0, <1>1, <1>3, <2>3, <3>1, Looks DEF bounds, ComposeInv, Shapes
  <2>5. Len(Writes[c]) \in Targets(c) /\ \A j \in Targets(c) : ~(j > Len(Writes[c]))
    BY <1>0, <1>1, Working, Paths
  <2>6. JournalInv'
    BY <1>2, <2>3, <2>4, <2>5 DEF ComposeInv, JournalInv, Undoing
  <2>7. ForwardInv' /\ BackwardInv'
    BY <2>3, <2>5 DEF ForwardInv, BackwardInv, Undoing
  <2> QED BY <2>4, <2>6, <2>7 DEF ComposeInv
<1>5. CASE Unchanged(k)
  <2> DEFINE v == Goto("rename", c, k)
  <2>1. v \in Works /\ v.step = "rename" /\ v.op = c /\ v.k = k /\ v.failed = work.failed
    BY GotoEffect DEF ComposeInv, Steps
  <2>2. work' = Looked(v)
    BY <1>1, <1>5 DEF Check, Step
  <2> HIDE DEF v
  <2>3. /\ work' \in Works /\ work'.step = "rename" /\ work'.op = c /\ work'.k = k
        /\ work'.failed = FALSE /\ work'.seen = edits
    BY <1>1, <1>2, <2>1, <2>2, LookedEffect DEF ComposeInv, Shapes, Works
  <2>4. Shapes' /\ PlanInv' /\ QueueInv' /\ TargetInv' /\ Pending' = Pending
    <3>1. Busy' /\ work'.seen <= edits
      BY <1>2, <2>3 DEF Busy
    <3> QED BY <1>0, <1>1, <1>3, <2>3, <3>1, Looks DEF bounds, ComposeInv, Shapes
  <2>5. JournalInv'
    BY <1>2, <1>3, <2>3, <2>4 DEF ComposeInv, JournalInv, Undoing
  <2>6. Current(c, k) = Prior(c, k) /\ Entry(c, k).backup = Prior(c, k)
    <3>1. Current(c, k) = Entry(c, k).backup \/ Foreign(c, k)
      BY <1>0, <1>1 DEF ComposeInv, ForwardInv
    <3>2. Current(c, k) = Prior(c, k)
      BY <1>1, <1>5 DEF Unchanged, Own, Current, Prior
    <3> QED BY <3>1, <3>2 DEF Foreign
  <2>7. /\ \A j \in Targets(c) : j >= k => Prepared(c, j) /\ Held(c, j)
        /\ \A j \in Targets(c) : j < k => Done(c, j)
    BY <1>0, <1>1 DEF ComposeInv, ForwardInv
  <2>8. /\ \A j \in Targets(c) : Prepared(c, j) => Prepared(c, j)'
        /\ \A j \in Targets(c) : Held(c, j) => Held(c, j)'
        /\ \A j \in Targets(c) : Done(c, j) => Done(c, j)'
        /\ Current(c, k)' = Prior(c, k)' /\ Entry(c, k)'.backup = Prior(c, k)'
    BY <1>3, <2>6, SameWords DEF Prepared
  <2>9. ForwardInv'
    <3>1. \A j \in Targets(c) : j > k => j >= k
      BY Paths
    <3> QED BY <2>3, <2>7, <2>8, <3>1 DEF ForwardInv
  <2>10. BackwardInv'
    BY <2>3 DEF BackwardInv, Undoing
  <2> QED BY <2>4, <2>5, <2>9, <2>10 DEF ComposeInv
<1> QED BY <1>4, <1>5

-----------------------------------------------------------------------------
(* Forward, with the journal or the files changed                          *)

\* Only the operation that is worked at can be pending after a step of it.
LEMMA MovesPending ==
    ASSUME ComposeInv, Busy, JournalMoves
    PROVE  Pending' = IF row'[work.op].status \in Settled THEN {} ELSE {work.op}
<1>1. work.op \in Pending /\ work.op \in Calls /\ \A d \in Pending : d = work.op
  BY Working DEF ComposeInv, JournalInv
<1>2. \A d \in Calls : d # work.op => row'[d] = row[d] /\ d \notin Pending
  BY <1>1 DEF JournalMoves
<1>3. row'[work.op].status \in Statuses \ {"none"}
  BY DEF JournalMoves
<1> QED BY <1>1, <1>2, <1>3 DEF Pending

\* It is enough to know its targets, then.
LEMMA MovesTargets ==
    ASSUME ComposeInv, Busy, JournalMoves, NEW c \in Calls, c = work.op,
           \A k \in Targets(c) :
              IF row'[c].status = "committing"
              THEN /\ Held(c, k)' \/ Ours(c, k)'
                   /\ Entry(c, k)'.state = "committed" => Entry(c, k)'.backup = Prior(c, k)'
              ELSE row'[c].status \in Settled
                   \/ (/\ Entry(c, k)'.backup = Absent /\ Entry(c, k)'.state # "committed"
                       /\ ~Made(Current(c, k), c)')
    PROVE  TargetInv' /\ \A d, e \in Pending' : d = e
<1>1. \A d \in Pending' : d = c /\ row'[c].status \notin Settled
  BY MovesPending
<1> QED BY <1>1 DEF TargetInv

\* A new entry, and perhaps a new status, of the operation that is worked at.
LEMMA RowMoves ==
    ASSUME ComposeInv, Busy, NEW c \in Calls, c = work.op,
           NEW k \in Targets(c), k = work.k, NEW state \in States, NEW hasTemp, NEW backup,
           NEW r, r = SetTarget(state, hasTemp, backup),
           NEW s \in Statuses \ {"none"},
           row' = [r EXCEPT ![c].status = s] \/ (row' = r /\ s = row[c].status)
    PROVE  /\ JournalMoves /\ row'[c].status = s
           /\ \A j \in Targets(c) : j # k => Entry(c, j)' = Entry(c, j)
           /\ Entry(c, k)'.state = state /\ Entry(c, k)'.backup = backup
<1>1. Started(work.op)
  BY Working
<1>2. /\ DOMAIN r = Calls /\ \A d \in Calls : d # c => r[d] = row[d]
      /\ DOMAIN r[c] = {"status", "target"} /\ r[c].status = row[c].status
      /\ DOMAIN r[c].target = Targets(c)
      /\ \A j \in Targets(c) : j # k => r[c].target[j] = row[c].target[j]
      /\ r[c].target[k].state = state /\ r[c].target[k].backup = backup
  BY <1>1, SetTargetEffect DEF ComposeInv
<1>3. /\ DOMAIN row' = Calls /\ \A d \in Calls : d # c => row'[d] = r[d]
      /\ DOMAIN row'[c] = {"status", "target"} /\ row'[c].status = s
      /\ row'[c].target = r[c].target
  <2>1. CASE row' = [r EXCEPT ![c].status = s]
    BY <1>2, <2>1, SetStatusEffect
  <2>2. CASE row' = r /\ s = row[c].status
    BY <1>2, <2>2
  <2> QED BY <2>1, <2>2
<1>4. \A j \in Targets(c) : row'[c].target[j].state \in States
  BY <1>1, <1>2, <1>3 DEF ComposeInv, Shapes
<1>5. JournalMoves
  BY <1>2, <1>3, <1>4 DEF JournalMoves
<1>6. \A j \in Targets(c) : Entry(c, j)' = r[c].target[j] /\ Entry(c, j) = row[c].target[j]
  BY <1>3 DEF Entry
<1> QED BY <1>2, <1>3, <1>5, <1>6

\* An operation begins when nothing is pending.
LEMMA BeginKeeps == ASSUME ComposeInv, Begin PROVE ComposeInv'
<1>1. /\ work.step = "recover" /\ Pending = {} /\ ~Busy
      /\ UNCHANGED <<file, temp, plan, bounds>>
  BY DEF Begin, Busy
<1>2. edits \in Nat
  BY ComposeBounds DEF ComposeInv, Shapes, ComposeBounds
<1>3. PICK c \in Calls : c = Runner /\ 1 \in DOMAIN queue /\ c = queue[1] /\ pc[c] = "queued"
  <2>1. queue \in Seq(Calls) /\ queue # <<>>
    BY <1>1 DEF ComposeInv, Shapes, QueueInv
  <2>2. 1 \in DOMAIN queue /\ Runner = queue[1] /\ Runner \in Calls
    BY <2>1 DEF Runner
  <2> QED BY <2>2 DEF ComposeInv, QueueInv
<1>4. CASE Writes[c] = <<>>
  <2>1. Answer("committed") /\ row' = row
    BY <1>3, <1>4 DEF Begin
  <2>2. \A d \in Calls : Started(d)' <=> Started(d)
    BY <2>1 DEF Started
  <2>3. /\ QueueInv'
        /\ pc' \in [Calls -> {"new", "asked", "queued", "committed", "refused", "gone"}]
        /\ queue' \in Seq(Calls) /\ work' \in {Idle, Turn}
        /\ \A d \in Calls : pc'[d] # pc[d] => pc[d] = "queued" /\ pc'[d] = "committed"
    BY <1>1, <2>1, <2>2, AnswerKeeps
  <2>4. work' \in Works /\ work'.seen <= edits'
    <3>1. Idle.seen = 0 /\ Turn.seen = 0
      BY DEF Idle, Turn
    <3>2. work' \in Works /\ work'.seen = 0
      BY <2>3, <3>1, TurnType
    <3> QED BY <1>1, <1>2, <3>2 DEF bounds
  <2>5. Shapes'
    BY <1>1, <2>1, <2>2, <2>3, <2>4 DEF ComposeInv, Shapes, bounds
  <2>6. PlanInv'
    <3>1. \A f \in Files : Known(file[f])'
      BY <1>1, <2>2 DEF ComposeInv, PlanInv, Known, bounds
    <3>2. \A d \in Calls : Serious(d)' => Serious(d) /\ (pc'[d] # "asked" => pc[d] # "asked")
      BY <2>2, <2>3 DEF Serious
    <3>3. edits' \in Nat /\ edits <= edits'
      BY <1>1, <1>2 DEF bounds
    <3> QED BY <1>1, <2>2, <3>1, <3>2, <3>3, PlanKept
  <2>7. Pending' = {} /\ TargetInv'
    BY <1>1, <2>1 DEF Pending, TargetInv
  <2>8. Position'
    BY <2>3, <2>7, Away
  <2> QED BY <2>3, <2>5, <2>6, <2>8 DEF ComposeInv, Position
<1>5. CASE Writes[c] # <<>>
  <2>1. /\ row' = [row EXCEPT ![c] = Fresh(c)] /\ work' = Goto("write", c, 1)
        /\ UNCHANGED <<pc, queue>>
    BY <1>3, <1>5 DEF Begin
  <2>2. /\ work' \in Works /\ work'.step = "write" /\ work'.op = c /\ work'.k = 1
        /\ work'.failed = FALSE /\ work'.seen = 0
    <3>1. work.failed = FALSE
      BY <1>1 DEF ComposeInv, Shapes, Works, JournalInv, Undoing
    <3> QED BY <2>1, <3>1, GotoEffect DEF ComposeInv, Steps
  <2>3. /\ Fresh(c).status = "preparing" /\ DOMAIN Fresh(c) = {"status", "target"}
        /\ DOMAIN Fresh(c).target = Targets(c)
        /\ \A k \in Targets(c) : /\ Fresh(c).target[k].state = "pending"
                                 /\ Fresh(c).target[k].backup = Absent
    BY DEF Fresh
  <2>4. DOMAIN row' = Calls /\ row'[c] = Fresh(c) /\ \A d \in Calls : d # c => row'[d] = row[d]
    BY <2>1 DEF ComposeInv, Shapes
  <2>5. \A i \in DOMAIN queue : queue[i] \in Calls /\ ~Started(queue[i])
    BY <1>1 DEF ComposeInv, QueueInv, Shapes
  <2>6. ~Started(c) /\ Serious(c)
    BY <1>3, <1>5, <2>5 DEF Serious
  <2>7. /\ Started(c)' /\ \A d \in Calls : d # c => (Started(d)' <=> Started(d))
        /\ \A d \in Calls : Serious(d)' <=> Serious(d)
    <3>1. Started(c)' /\ \A d \in Calls : d # c => (Started(d)' <=> Started(d))
      BY <2>3, <2>4 DEF Started
    <3> QED BY <2>1, <2>6, <3>1 DEF Serious
  <2>8. 1 \in Targets(c) /\ \A j \in Targets(c) : ~(j < 1)
    BY <1>5, Paths
  <2>9. Shapes'
    <3>1. \A d \in Calls :
             /\ DOMAIN row'[d] = {"status", "target"}
             /\ row'[d].status \in Statuses
             /\ DOMAIN row'[d].target = IF Started(d)' THEN Targets(d) ELSE {}
             /\ \A k \in DOMAIN row'[d].target : row'[d].target[k].state \in States
             /\ Started(d)' => Writes[d] # <<>>
      <4>1. ASSUME NEW d \in Calls, d # c
            PROVE  /\ DOMAIN row'[d] = {"status", "target"}
                   /\ row'[d].status \in Statuses
                   /\ DOMAIN row'[d].target = IF Started(d)' THEN Targets(d) ELSE {}
                   /\ \A k \in DOMAIN row'[d].target : row'[d].target[k].state \in States
                   /\ Started(d)' => Writes[d] # <<>>
        BY <2>4, <2>7, <4>1 DEF ComposeInv, Shapes
      <4>2. "preparing" \in Statuses /\ "pending" \in States
        BY DEF Statuses, States
      <4> QED BY <1>5, <2>3, <2>4, <2>7, <4>1, <4>2
    <3>2. work'.seen <= edits'
      BY <1>1, <1>2, <2>2 DEF bounds
    <3> QED BY <1>1, <2>1, <2>2, <2>4, <3>1, <3>2 DEF ComposeInv, Shapes, bounds
  <2>10. PlanInv'
    <3>1. \A f \in Files : Known(file[f])'
      BY <1>1, <2>7 DEF ComposeInv, PlanInv, Known, bounds
    <3>2. \A d \in Calls : Serious(d)' => Serious(d) /\ (pc'[d] # "asked" => pc[d] # "asked")
      BY <2>1, <2>7
    <3>3. edits' \in Nat /\ edits <= edits'
      BY <1>1, <1>2 DEF bounds
    <3> QED BY <1>1, <2>7, <3>1, <3>2, <3>3, PlanKept
  <2>11. QueueInv'
    <3>1. ASSUME NEW i \in DOMAIN queue, Started(queue[i])'
          PROVE  i = 1 /\ Busy' /\ work'.op = queue'[1]
      <4>1. row'[queue[i]].status # "none"
        BY <2>1, <3>1 DEF Started
      <4>2. queue[i] = c
        BY <2>4, <2>5, <4>1 DEF Started
      <4>3. i = 1
        BY <1>3, <4>2 DEF ComposeInv, QueueInv
      <4> QED BY <1>3, <2>1, <2>2, <4>3 DEF Busy
    <3>2. \A d \in Calls : pc'[d] \in {"new", "asked"} => ~Started(d)'
      BY <1>3, <2>1, <2>7 DEF ComposeInv, QueueInv
    <3>3. work'.step # "idle" /\ queue' # <<>>
      BY <1>1, <2>1, <2>2 DEF ComposeInv, QueueInv
    <3> QED BY <2>1, <3>1, <3>2, <3>3 DEF ComposeInv, QueueInv
  <2>12. Pending' = {c}
    <3>1. \A d \in Calls : d # c => row'[d].status \notin Statuses \ (Settled \cup {"none"})
      BY <1>1, <2>4 DEF Pending
    <3>2. row'[c].status \in Statuses \ (Settled \cup {"none"})
      BY <2>3, <2>4 DEF Statuses, Settled
    <3> QED BY <3>1, <3>2 DEF Pending
  <2>13. TargetInv'
    <3>1. ASSUME NEW k \in Targets(c)
          PROVE  /\ Entry(c, k)'.backup = Absent /\ Entry(c, k)'.state # "committed"
                 /\ ~Made(Current(c, k), c)'
      <4>1. Entry(c, k)' = Fresh(c).target[k]
        BY <2>4 DEF Entry
      <4>2. Writes[c][k] \in Files
        BY Paths
      <4>3. ~Made(Current(c, k), c)
        BY <2>6, <4>2 DEF Current, ComposeInv, PlanInv, Known
      <4>4. ~Made(Current(c, k), c)'
        BY <1>1, <4>3 DEF Made, Current
      <4> QED BY <2>3, <4>1, <4>4
    <3>2. row'[c].status # "committing"
      BY <2>3, <2>4
    <3> QED BY <2>12, <3>1, <3>2 DEF TargetInv
  <2>14. JournalInv'
    BY <2>2, <2>3, <2>4, <2>8, <2>12 DEF JournalInv, Undoing
  <2>15. ForwardInv' /\ BackwardInv'
    BY <2>2, <2>8 DEF ForwardInv, BackwardInv, Undoing
  <2> QED BY <2>9, <2>10, <2>11, <2>13, <2>14, <2>15 DEF ComposeInv
<1> QED BY <1>4, <1>5

\* The last moves before the destinations are replaced.
LEMMA PrepareKeeps == ASSUME ComposeInv, Prepare PROVE ComposeInv'
<1>0. work.step = "written" /\ Busy
  BY DEF Prepare, Busy
<1>1. PICK c \in Calls, k \in Nat : c = work.op /\ k = work.k
  BY <1>0, Working
<1>2. /\ c \in Pending /\ k \in Targets(c) /\ edits \in Nat /\ 1 \in Targets(c)
      /\ Targets(c) = 1..Len(Writes[c])
      /\ row[c].status = "preparing" /\ ~work.failed
  BY <1>0, <1>1, Working DEF ComposeInv, JournalInv, Undoing
<1>3. UNCHANGED <<file, plan, pc, queue, bounds>>
  BY DEF Prepare
<1>4. CASE temp[c][k] # Result(c, k)
  <2>1. /\ temp' = [temp EXCEPT ![c][k] = Absent] /\ work' = Undo(c) /\ row' = row
    BY <1>1, <1>4 DEF Prepare, Own, Result
  <2>2. DOMAIN temp' = Calls /\ \A d \in Calls : DOMAIN temp'[d] = Targets(d)
    BY <2>1 DEF ComposeInv, Shapes
  <2> QED BY <1>0, <1>1, <1>3, <2>1, <2>2, UndoKeeps DEF bounds, ComposeInv, Shapes
<1>5. CASE temp[c][k] = Result(c, k)
  <2>t. PICK hasTemp : hasTemp = TRUE
    OBVIOUS
  <2>0. PICK r, s : /\ r = SetTarget("prepared", hasTemp, Absent)
                    /\ s = IF Last THEN "prepared" ELSE "preparing"
    OBVIOUS
  <2>1. /\ row' = [r EXCEPT ![c].status = IF Last THEN "prepared" ELSE @] /\ temp' = temp
        /\ work' = IF Last THEN Goto("sources", c, 1) ELSE Goto("write", c, k + 1)
    BY <1>1, <1>5, <2>t, <2>0 DEF Prepare, Own, Result, SetTarget
  <2>2. r[c].status = "preparing"
    <3>1. Shapes /\ work.op \in Calls /\ Started(work.op) /\ work.k \in Targets(work.op)
      BY <1>0, <1>1, <1>2, Working DEF ComposeInv
    <3>2. r[work.op].status = row[work.op].status
      BY <2>0, <3>1, SetTargetEffect
    <3> QED BY <1>1, <1>2, <3>2
  <2>3. row' = [r EXCEPT ![c].status = s] /\ s \in {"prepared", "preparing"}
    BY <2>0, <2>1, <2>2
  <2>4. /\ JournalMoves /\ row'[c].status = s
        /\ \A j \in Targets(c) : j # k => Entry(c, j)' = Entry(c, j)
        /\ Entry(c, k)'.state = "prepared" /\ Entry(c, k)'.backup = Absent
    <3>1. "prepared" \in States /\ s \in Statuses \ {"none"}
      BY <2>3 DEF States, Statuses
    <3> QED BY <1>0, <1>1, <1>2, <2>0, <2>3, <3>1, RowMoves
  <2>5. /\ work' \in Works /\ work'.op = c /\ work'.failed = FALSE /\ work'.seen = 0
        /\ IF Last THEN work'.step = "sources" /\ s = "prepared"
           ELSE work'.step = "write" /\ work'.k = k + 1 /\ s = "preparing"
    <3>1. work.failed = FALSE
      BY <1>2 DEF ComposeInv, Shapes, Works
    <3> QED BY <2>0, <2>1, <3>1, GotoEffect DEF ComposeInv, Steps
  <2>6. Last <=> k = Len(Writes[c])
    BY <1>1 DEF Last
  <2>7. Shapes' /\ PlanInv' /\ QueueInv'
    <3>1. Busy' /\ work'.seen <= edits
      BY <1>2, <2>5 DEF Busy
    <3>2. \A f \in Files : Known(file[f])'
      BY <1>0, <1>3, <2>4, KnownKept DEF bounds, ComposeInv, PlanInv
    <3>3. StepShaped
      BY <1>3, <2>1, <2>4, <3>2 DEF StepShaped, ComposeInv, Shapes, bounds
    <3> QED BY <1>0, <1>1, <1>3, <2>5, <3>1, <3>3, GoesOn
  <2>8. TargetInv' /\ Pending' = {c}
    <3>1. ASSUME NEW j \in Targets(c)
          PROVE  /\ Entry(c, j)'.backup = Absent /\ Entry(c, j)'.state # "committed"
                 /\ ~Made(Current(c, j), c)'
      <4>1. /\ Entry(c, j).backup = Absent /\ Entry(c, j).state # "committed"
            /\ ~Made(Current(c, j), c)
        BY <1>2 DEF ComposeInv, TargetInv
      <4>2. ~Made(Current(c, j), c)'
        BY <1>3, <4>1 DEF Made, Current
      <4> QED BY <2>4, <4>1, <4>2
    <3>2. row'[c].status \notin Settled /\ row'[c].status # "committing"
      BY <2>3, <2>4 DEF Settled
    <3>3. TargetInv'
      BY <1>0, <1>1, <2>4, <3>1, <3>2, MovesTargets
    <3> QED BY <1>0, <1>1, <2>4, <3>2, <3>3, MovesPending
  <2>9. JournalInv'
    <3>1. ~Last => k + 1 \in Targets(c)
      BY <1>2, <2>6, Paths
    <3> QED BY <2>4, <2>5, <2>8, <3>1 DEF JournalInv, Undoing
  <2>10. ForwardInv' /\ BackwardInv'
    <3>1. \A j \in Targets(c) : j < k => Prepared(c, j)
      BY <1>0, <1>1 DEF ComposeInv, ForwardInv
    <3>2. \A j \in Targets(c) : j < k + 1 => Prepared(c, j)
      <4>1. \A j \in Targets(c) : j < k + 1 => j < k \/ j = k
        BY <1>2
      <4> QED BY <1>5, <3>1, <4>1 DEF Prepared
    <3>3. \A j \in Targets(c) : j < k + 1 => Prepared(c, j)'
      BY <1>3, <2>1, <3>2 DEF Prepared, Result
    <3>4. Last => \A j \in Targets(c) : j < k + 1
      BY <1>2, <2>6
    <3> QED BY <2>5, <3>3, <3>4 DEF ForwardInv, BackwardInv, Undoing
  <2> QED BY <2>7, <2>8, <2>9, <2>10 DEF ComposeInv
<1> QED BY <1>4, <1>5

LEMMA VerifyKeeps == ASSUME ComposeInv, Verify PROVE ComposeInv'
<1>0. work.step = "verify" /\ Busy
  BY DEF Verify, Busy
<1>1. PICK c \in Calls, k \in Nat : c = work.op /\ k = work.k
  BY <1>0, Working
<1>2. /\ c \in Pending /\ k \in Targets(c) /\ edits \in Nat /\ 1 \in Targets(c)
      /\ Targets(c) = 1..Len(Writes[c]) /\ Len(Writes[c]) \in Nat
      /\ row[c].status = "prepared" /\ ~work.failed
  BY <1>0, <1>1, Working, Paths DEF ComposeInv, JournalInv, Undoing
<1>3. UNCHANGED <<file, temp, plan, pc, queue, bounds>>
  BY DEF Verify
<1>4. CASE ~Unchanged(k)
  <2>1. work' = Undo(c) /\ row' = row
    BY <1>1, <1>4 DEF Verify
  <2> QED BY <1>0, <1>1, <1>3, <2>1, UndoKeeps DEF bounds, ComposeInv, Shapes
<1>5. CASE Unchanged(k)
  <2>1. /\ \A j \in Targets(c) : Prepared(c, j)
        /\ \A j \in Targets(c) : j < k + 1 => Held(c, j)
    <3>1. \A j \in Targets(c) : Prepared(c, j) /\ (j < k => Held(c, j))
      BY <1>0, <1>1 DEF ComposeInv, ForwardInv
    <3>2. Held(c, k)
      BY <1>1, <1>5 DEF Unchanged, Own, Held, Current, Prior
    <3>3. \A j \in Targets(c) : j < k + 1 => j < k \/ j = k
      BY <1>2
    <3> QED BY <3>1, <3>2, <3>3
  <2>2. /\ \A j \in Targets(c) : Prepared(c, j)'
        /\ \A j \in Targets(c) : j < k + 1 => Held(c, j)'
    BY <1>3, <2>1 DEF Prepared, Result, Held, Current, Prior
  <2>3. work.failed = FALSE
    BY <1>2 DEF ComposeInv, Shapes, Works
  <2>4. CASE ~Last
    <3>1. work' = Goto("verify", c, k + 1) /\ row' = row
      BY <1>1, <1>5, <2>4 DEF Verify
    <3>2. /\ work' \in Works /\ work'.step = "verify" /\ work'.op = c /\ work'.k = k + 1
          /\ work'.failed = FALSE /\ work'.seen = 0
      BY <2>3, <3>1, GotoEffect DEF ComposeInv, Steps
    <3>3. Shapes' /\ PlanInv' /\ QueueInv' /\ TargetInv' /\ Pending' = Pending
      <4>1. Busy' /\ work'.seen <= edits
        BY <1>2, <3>2 DEF Busy
      <4> QED BY <1>0, <1>1, <1>3, <3>1, <3>2, <4>1, Looks DEF bounds, ComposeInv, Shapes
    <3>4. JournalInv'
      <4>1. k + 1 \in Targets(c)
        BY <1>1, <1>2, <2>4 DEF Last
      <4> QED BY <1>2, <3>1, <3>2, <3>3, <4>1 DEF ComposeInv, JournalInv, Undoing
    <3>5. ForwardInv' /\ BackwardInv'
      BY <2>2, <3>2 DEF ForwardInv, BackwardInv, Undoing
    <3> QED BY <3>3, <3>4, <3>5 DEF ComposeInv
  <2>5. CASE Last
    <3>1. row' = [row EXCEPT ![c].status = "committing"] /\ work' = Goto("backup", c, 1)
      BY <1>1, <1>5, <2>5 DEF Verify
    <3>2. /\ work' \in Works /\ work'.step = "backup" /\ work'.op = c /\ work'.k = 1
          /\ work'.failed = FALSE /\ work'.seen = 0
      BY <2>3, <3>1, GotoEffect DEF ComposeInv, Steps
    <3>3. /\ JournalMoves /\ row'[c].status = "committing"
          /\ \A j \in Targets(c) : Entry(c, j)' = Entry(c, j)
      <4>1. Started(c) /\ DOMAIN row = Calls /\ DOMAIN row[c] = {"status", "target"}
        BY <1>0, <1>1, Working DEF ComposeInv, Shapes
      <4>2. /\ DOMAIN row' = Calls /\ \A d \in Calls : d # c => row'[d] = row[d]
            /\ DOMAIN row'[c] = {"status", "target"}
            /\ row'[c].status = "committing" /\ row'[c].target = row[c].target
        BY <3>1, <4>1, SetStatusEffect
      <4>3. /\ DOMAIN row[c].target = Targets(c)
            /\ \A j \in Targets(c) : row[c].target[j].state \in States
        BY <4>1 DEF ComposeInv, Shapes
      <4>4. "committing" \in Statuses \ {"none"}
        BY DEF Statuses
      <4>5. JournalMoves
        BY <1>1, <4>2, <4>3, <4>4 DEF JournalMoves
      <4> QED BY <4>2, <4>5 DEF Entry
    <3>4. Shapes' /\ PlanInv' /\ QueueInv'
      <4>1. Busy' /\ work'.seen <= edits
        BY <1>2, <3>2 DEF Busy
      <4>2. \A f \in Files : Known(file[f])'
        BY <1>0, <1>3, <3>3, KnownKept DEF bounds, ComposeInv, PlanInv
      <4>3. StepShaped
        BY <1>3, <3>3, <4>2 DEF StepShaped, ComposeInv, Shapes, bounds
      <4> QED BY <1>0, <1>1, <1>3, <3>1, <3>2, <4>1, <4>3, GoesOn
    <3>5. \A j \in Targets(c) : Held(c, j)'
      <4>1. \A j \in Targets(c) : j < k + 1
        BY <1>1, <1>2, <2>5 DEF Last
      <4> QED BY <2>2, <4>1
    <3>6. TargetInv' /\ Pending' = {c}
      <4>1. \A j \in Targets(c) : Entry(c, j)'.state # "committed"
        BY <1>2, <3>3 DEF ComposeInv, TargetInv
      <4>2. row'[c].status \notin Settled
        BY <3>3 DEF Settled
      <4>3. TargetInv'
        BY <1>0, <1>1, <3>3, <3>5, <4>1, MovesTargets
      <4> QED BY <1>0, <1>1, <3>3, <4>2, <4>3, MovesPending
    <3>7. JournalInv'
      BY <1>2, <3>2, <3>3, <3>6 DEF JournalInv, Undoing
    <3>8. ForwardInv' /\ BackwardInv'
      <4>1. \A j \in Targets(c) : ~(j < 1)
        BY <1>2
      <4> QED BY <2>2, <3>2, <3>5, <4>1 DEF ForwardInv, BackwardInv, Undoing
    <3> QED BY <3>4, <3>6, <3>7, <3>8 DEF ComposeInv
  <2> QED BY <2>4, <2>5
<1> QED BY <1>4, <1>5

\* The destination is backed up: what it holds now, which may not be what was compiled.
LEMMA BackupKeeps == ASSUME ComposeInv, Backup PROVE ComposeInv'
<1>0. work.step = "backup" /\ Busy
  BY DEF Backup, Busy
<1>1. PICK c \in Calls, k \in Nat : c = work.op /\ k = work.k
  BY <1>0, Working
<1>2. /\ c \in Pending /\ k \in Targets(c) /\ edits \in Nat
      /\ row[c].status = "committing" /\ ~work.failed
  BY <1>0, <1>1, Working DEF ComposeInv, JournalInv, Undoing
<1>3. UNCHANGED <<file, temp, plan, pc, queue, bounds>>
  BY DEF Backup
<1>4. PICK hasTemp : hasTemp = TRUE
  OBVIOUS
<1>5. PICK r, now : r = SetTarget("prepared", hasTemp, now) /\ now = Current(c, k)
  OBVIOUS
<1>6. row' = r /\ work' = Goto("check", c, k)
  BY <1>1, <1>4, <1>5 DEF Backup, Step, Dest, Current
<1>7. /\ JournalMoves /\ row'[c].status = "committing"
      /\ \A j \in Targets(c) : j # k => Entry(c, j)' = Entry(c, j)
      /\ Entry(c, k)'.state = "prepared" /\ Entry(c, k)'.backup = now
  <2>1. "prepared" \in States /\ "committing" \in Statuses \ {"none"}
    BY DEF States, Statuses
  <2> QED BY <1>0, <1>1, <1>2, <1>5, <1>6, <2>1, RowMoves
<1>8. /\ work' \in Works /\ work'.step = "check" /\ work'.op = c /\ work'.k = k
      /\ work'.failed = FALSE /\ work'.seen = 0
  <2>1. work.failed = FALSE
    BY <1>2 DEF ComposeInv, Shapes, Works
  <2> QED BY <1>6, <2>1, GotoEffect DEF ComposeInv, Steps
<1>9. Shapes' /\ PlanInv' /\ QueueInv'
  <2>1. Busy' /\ work'.seen <= edits
    BY <1>2, <1>8 DEF Busy
  <2>2. \A f \in Files : Known(file[f])'
    BY <1>0, <1>3, <1>7, KnownKept DEF bounds, ComposeInv, PlanInv
  <2>3. StepShaped
    BY <1>3, <1>7, <2>2 DEF StepShaped, ComposeInv, Shapes, bounds
  <2> QED BY <1>0, <1>1, <1>3, <1>8, <2>1, <2>3, GoesOn
<1>10. /\ \A j \in Targets(c) : j >= k => Prepared(c, j) /\ Held(c, j)
       /\ \A j \in Targets(c) : j < k => Done(c, j)
  BY <1>0, <1>1 DEF ComposeInv, ForwardInv
<1>11. /\ \A j \in Targets(c) : Prepared(c, j)' <=> Prepared(c, j)
       /\ \A j \in Targets(c) : (Held(c, j)' <=> Held(c, j)) /\ (Done(c, j)' <=> Done(c, j))
       /\ Current(c, k)' = Current(c, k)
  BY <1>3 DEF Prepared, Held, Done, Result, Current, Prior
<1>12. TargetInv' /\ Pending' = {c}
  <2>1. ASSUME NEW j \in Targets(c)
        PROVE  /\ Held(c, j)' \/ Ours(c, j)'
               /\ Entry(c, j)'.state = "committed" => Entry(c, j)'.backup = Prior(c, j)'
    <3>1. CASE j = k
      <4>1. k >= k
        BY <1>1
      <4> QED BY <1>7, <1>10, <1>11, <3>1, <4>1
    <3>2. CASE j # k
      <4>1. /\ Held(c, j) \/ Ours(c, j)
            /\ Entry(c, j).state = "committed" => Entry(c, j).backup = Prior(c, j)
        BY <1>2 DEF ComposeInv, TargetInv
      <4>2. Ours(c, j)' <=> Ours(c, j)
        BY <1>3, <1>7, <3>2 DEF Ours, Current, Result, Prior
      <4>3. Prior(c, j)' = Prior(c, j)
        BY <1>3 DEF Prior
      <4> QED BY <1>7, <1>11, <3>2, <4>1, <4>2, <4>3
    <3> QED BY <3>1, <3>2
  <2>2. row'[c].status \notin Settled
    BY <1>7 DEF Settled
  <2>3. TargetInv'
    BY <1>0, <1>1, <1>7, <2>1, MovesTargets
  <2> QED BY <1>0, <1>1, <1>7, <2>2, <2>3, MovesPending
<1>13. JournalInv'
  BY <1>2, <1>7, <1>8, <1>12 DEF JournalInv, Undoing
<1>14. ForwardInv' /\ BackwardInv'
  <2>1. Current(c, k)' = Entry(c, k)'.backup
    BY <1>5, <1>7, <1>11
  <2> QED BY <1>8, <1>10, <1>11, <2>1 DEF ForwardInv, BackwardInv, Undoing
<1> QED BY <1>9, <1>12, <1>13, <1>14 DEF ComposeInv

\* The output takes the place of what is backed up.
LEMMA RenameKeeps == ASSUME ComposeInv, Rename PROVE ComposeInv'
<1>0. work.step = "rename" /\ Busy
  BY DEF Rename, Busy
<1>1. PICK c \in Calls, k \in Nat : c = work.op /\ k = work.k
  BY <1>0, Working
<1>2. /\ c \in Pending /\ k \in Targets(c) /\ edits \in Nat /\ Started(c)
      /\ row[c].status = "committing" /\ ~work.failed
  BY <1>0, <1>1, Working DEF ComposeInv, JournalInv, Undoing
<1>3. UNCHANGED <<plan, pc, queue, row, bounds>> /\ JournalMoves
  BY <1>0, JournalStays DEF Rename
<1>4. /\ \A j \in Targets(c) : j >= k => Prepared(c, j)
      /\ \A j \in Targets(c) : j > k => Held(c, j)
      /\ \A j \in Targets(c) : j < k => Done(c, j)
      /\ Entry(c, k).backup = Prior(c, k)
  BY <1>0, <1>1 DEF ComposeInv, ForwardInv
<1>5. Prepared(c, k)
  <2>1. k >= k
    BY <1>1
  <2> QED BY <1>2, <1>4, <2>1
<1>6. /\ file' = [file EXCEPT ![Writes[c][k]] = Result(c, k)]
      /\ temp' = [temp EXCEPT ![c][k] = Absent] /\ work' = Goto("mark", c, k)
  BY <1>1, <1>5 DEF Rename, Dest, Step, Prepared
<1>7. /\ DOMAIN temp' = Calls /\ \A d \in Calls : DOMAIN temp'[d] = Targets(d)
      /\ \A j \in Targets(c) : j # k => temp'[c][j] = temp[c][j]
  BY <1>6 DEF ComposeInv, Shapes
<1>8. /\ DOMAIN file' = Files /\ Writes[c][k] \in Files /\ file'[Writes[c][k]] = Result(c, k)
      /\ \A f \in Files : f # Writes[c][k] => file'[f] = file[f]
  BY <1>2, <1>6, Paths DEF ComposeInv, Shapes
<1>9. /\ work' \in Works /\ work'.step = "mark" /\ work'.op = c /\ work'.k = k
      /\ work'.failed = FALSE /\ work'.seen = 0
  <2>1. work.failed = FALSE
    BY <1>2 DEF ComposeInv, Shapes, Works
  <2> QED BY <1>6, <2>1, GotoEffect DEF ComposeInv, Steps
<1>10. /\ Current(c, k)' = Result(c, k)
       /\ \A j \in Targets(c) : j # k => Current(c, j)' = Current(c, j)
       /\ \A j : Prior(c, j)' = Prior(c, j) /\ Result(c, j)' = Result(c, j)
       /\ \A j : Entry(c, j)' = Entry(c, j)
  <2>1. \A j \in Targets(c) : j # k => Writes[c][j] \in Files /\ Writes[c][j] # Writes[c][k]
    BY <1>2, Paths
  <2> QED BY <1>3, <1>8, <2>1 DEF Current, Prior, Result, Entry
<1>11. Shapes' /\ PlanInv' /\ QueueInv'
  <2>1. Busy' /\ work'.seen <= edits
    BY <1>2, <1>9 DEF Busy
  <2>2. Known(Result(c, k))
    <3>1. Result(c, k) = Make(c, k, plan[c].asked.source)
      BY <1>2, Outputs DEF ComposeInv
    <3> QED BY <1>2, <3>1, Kinds DEF Known
  <2>3. \A f \in Files : Known(file[f])'
    <3>1. ASSUME NEW x, Known(x) PROVE Known(x)'
      BY <1>0, <1>3, <3>1, KnownKept DEF bounds
    <3>2. ASSUME NEW f \in Files PROVE \E x : Known(x) /\ file'[f] = x
      BY <1>8, <2>2 DEF ComposeInv, PlanInv
    <3>3. ASSUME NEW f \in Files PROVE Known(file[f])'
      <4>1. PICK x : Known(x) /\ file'[f] = x
        BY <3>2
      <4>2. Known(x)'
        BY <3>1, <4>1
      <4> QED BY <4>1, <4>2 DEF Known
    <3> QED BY <3>3
  <2>4. StepShaped
    BY <1>3, <1>7, <1>8, <2>3 DEF StepShaped, ComposeInv, Shapes, bounds
  <2> QED BY <1>0, <1>1, <1>3, <1>9, <2>1, <2>4, GoesOn
<1>12. /\ \A j \in Targets(c) : j > k => Prepared(c, j)' /\ Held(c, j)'
       /\ \A j \in Targets(c) : j < k => Done(c, j)'
       /\ Done(c, k)' /\ Entry(c, k)'.backup = Prior(c, k)'
  <2>1. \A j \in Targets(c) : j > k => j # k /\ j >= k
    BY <1>2, Paths
  <2>2. \A j \in Targets(c) : j < k => j # k
    BY <1>2, Paths
  <2>3. \A j \in Targets(c) : j > k => Prepared(c, j)'
    BY <1>4, <1>7, <1>10, <2>1 DEF Prepared
  <2>4. \A j \in Targets(c) : j > k => Held(c, j)'
    BY <1>4, <1>10, <2>1 DEF Held
  <2>5. \A j \in Targets(c) : j < k => Done(c, j)'
    BY <1>4, <1>10, <2>2 DEF Done
  <2>6. Done(c, k)' /\ Entry(c, k)'.backup = Prior(c, k)'
    BY <1>4, <1>10 DEF Done
  <2> QED BY <2>3, <2>4, <2>5, <2>6
<1>13. TargetInv' /\ Pending' = {c}
  <2>1. ASSUME NEW j \in Targets(c)
        PROVE  /\ Held(c, j)' \/ Ours(c, j)'
               /\ Entry(c, j)'.state = "committed" => Entry(c, j)'.backup = Prior(c, j)'
    <3>1. /\ Held(c, j) \/ Ours(c, j)
          /\ Entry(c, j).state = "committed" => Entry(c, j).backup = Prior(c, j)
      BY <1>2 DEF ComposeInv, TargetInv
    <3>2. CASE j = k
      BY <1>4, <1>10, <3>1, <3>2 DEF Ours
    <3>3. CASE j # k
      BY <1>10, <3>1, <3>3 DEF Ours, Held
    <3> QED BY <3>2, <3>3
  <2>2. row'[c].status \notin Settled /\ row'[c].status = "committing"
    BY <1>2, <1>3 DEF Settled
  <2>3. TargetInv'
    BY <1>0, <1>1, <1>3, <2>1, <2>2, MovesTargets
  <2> QED BY <1>0, <1>1, <1>3, <2>2, <2>3, MovesPending
<1>14. JournalInv'
  BY <1>2, <1>3, <1>9, <1>13 DEF JournalInv, Undoing
<1>15. ForwardInv' /\ BackwardInv'
  BY <1>9, <1>12 DEF ForwardInv, BackwardInv, Undoing
<1> QED BY <1>11, <1>13, <1>14, <1>15 DEF ComposeInv

\* The replacement is recorded; the last one settles the operation.
LEMMA MarkKeeps == ASSUME ComposeInv, Mark PROVE ComposeInv'
<1>0. work.step = "mark" /\ Busy
  BY DEF Mark, Busy
<1>1. PICK c \in Calls, k \in Nat : c = work.op /\ k = work.k
  BY <1>0, Working
<1>2. /\ c \in Pending /\ k \in Targets(c) /\ edits \in Nat /\ Started(c)
      /\ Targets(c) = 1..Len(Writes[c])
      /\ row[c].status = "committing" /\ ~work.failed
  BY <1>0, <1>1, Working DEF ComposeInv, JournalInv, Undoing
<1>3. UNCHANGED <<file, temp, plan, bounds>>
  BY DEF Mark
<1>4. /\ \A j \in Targets(c) : j > k => Prepared(c, j) /\ Held(c, j)
      /\ \A j \in Targets(c) : j < k => Done(c, j)
      /\ Done(c, k) /\ Entry(c, k).backup = Prior(c, k)
  BY <1>0, <1>1 DEF ComposeInv, ForwardInv
<1>5. PICK hasTemp : hasTemp = FALSE
  OBVIOUS
<1>6. PICK r, s : /\ r = SetTarget("committed", hasTemp, Entry(c, k).backup)
                  /\ s = IF Last THEN "committed" ELSE "committing"
  OBVIOUS
<1>7. row' = [r EXCEPT ![c].status = s]
  <2>1. row' = [r EXCEPT ![c].status = IF Last THEN "committed" ELSE @]
    BY <1>1, <1>5, <1>6 DEF Mark, SetTarget, Target, Entry
  <2>2. r[c].status = "committing"
    BY <1>0, <1>1, <1>2, <1>6, Working, SetTargetEffect DEF ComposeInv
  <2> QED BY <1>6, <2>1, <2>2
<1>8. /\ JournalMoves /\ row'[c].status = s
      /\ \A j \in Targets(c) : j # k => Entry(c, j)' = Entry(c, j)
      /\ Entry(c, k)'.backup = Prior(c, k)
  <2>1. "committed" \in States /\ s \in Statuses \ {"none"}
    BY <1>6 DEF States, Statuses
  <2>2. /\ JournalMoves /\ row'[c].status = s
        /\ \A j \in Targets(c) : j # k => Entry(c, j)' = Entry(c, j)
        /\ Entry(c, k)'.backup = Entry(c, k).backup
    BY <1>0, <1>1, <1>2, <1>6, <1>7, <2>1, RowMoves
  <2> QED BY <1>4, <2>2
<1>9. StepShaped
  <2>1. \A f \in Files : Known(file[f])'
    BY <1>0, <1>3, <1>8, KnownKept DEF bounds, ComposeInv, PlanInv
  <2> QED BY <1>3, <1>8, <2>1 DEF StepShaped, ComposeInv, Shapes, bounds
<1>10. TargetInv' /\ \A d, e \in Pending' : d = e
  <2>1. ASSUME NEW j \in Targets(c)
        PROVE  /\ Held(c, j)' \/ Ours(c, j)'
               /\ Entry(c, j)'.state = "committed" => Entry(c, j)'.backup = Prior(c, j)'
    <3>1. /\ Held(c, j) \/ Ours(c, j)
          /\ Entry(c, j).state = "committed" => Entry(c, j).backup = Prior(c, j)
      BY <1>2 DEF ComposeInv, TargetInv
    <3>2. /\ Prior(c, j)' = Prior(c, j) /\ Result(c, j)' = Result(c, j)
          /\ Current(c, j)' = Current(c, j) /\ (Held(c, j)' <=> Held(c, j))
      BY <1>3 DEF Prior, Result, Current, Held
    <3>3. Entry(c, j)'.backup = Entry(c, j).backup
      BY <1>4, <1>8
    <3>4. Ours(c, j)' <=> Ours(c, j)
      BY <3>2, <3>3 DEF Ours
    <3>5. Entry(c, j)'.state = "committed" => Entry(c, j)'.backup = Prior(c, j)'
      BY <1>4, <1>8, <3>1, <3>2
    <3> QED BY <3>1, <3>2, <3>4, <3>5
  <2>2. row'[c].status = "committing" \/ row'[c].status \in Settled
    BY <1>6, <1>8 DEF Settled
  <2> QED BY <1>0, <1>1, <1>8, <2>1, <2>2, MovesTargets
<1>11. CASE Last
  <2>1. Answer("committed")
    BY <1>11 DEF Mark
  <2>2. Shapes' /\ PlanInv' /\ QueueInv' /\ work' \in {Idle, Turn}
    BY <1>0, <1>9, <2>1, Ends
  <2> QED BY <1>10, <2>2, Away DEF ComposeInv, Position
<1>12. CASE ~Last
  <2>1. work' = Goto("backup", c, k + 1) /\ UNCHANGED <<pc, queue>> /\ s = "committing"
    BY <1>1, <1>6, <1>12 DEF Mark
  <2>2. /\ work' \in Works /\ work'.step = "backup" /\ work'.op = c /\ work'.k = k + 1
        /\ work'.failed = FALSE /\ work'.seen = 0
    <3>1. work.failed = FALSE
      BY <1>2 DEF ComposeInv, Shapes, Works
    <3> QED BY <2>1, <3>1, GotoEffect DEF ComposeInv, Steps
  <2>3. Shapes' /\ PlanInv' /\ QueueInv'
    <3>1. Busy' /\ work'.seen <= edits
      BY <1>2, <2>2 DEF Busy
    <3> QED BY <1>0, <1>1, <1>9, <2>1, <2>2, <3>1, GoesOn
  <2>4. Pending' = {c}
    <3>1. row'[c].status \notin Settled
      BY <1>8, <2>1 DEF Settled
    <3> QED BY <1>0, <1>1, <1>8, <3>1, MovesPending
  <2>5. JournalInv'
    <3>1. k + 1 \in Targets(c)
      BY <1>1, <1>2, <1>12, Paths DEF Last
    <3> QED BY <1>8, <2>1, <2>2, <2>4, <3>1 DEF JournalInv, Undoing
  <2>6. /\ \A j \in Targets(c) : j >= k + 1 => Prepared(c, j)' /\ Held(c, j)'
        /\ \A j \in Targets(c) : j < k + 1 => Done(c, j)'
    <3>1. \A j \in Targets(c) : (j >= k + 1 => j > k) /\ (j < k + 1 => j < k \/ j = k)
      BY <1>2
    <3>2. /\ \A j \in Targets(c) : j >= k + 1 => Prepared(c, j) /\ Held(c, j)
          /\ \A j \in Targets(c) : j < k + 1 => Done(c, j)
      BY <1>4, <3>1
    <3> QED BY <1>3, <3>2 DEF Prepared, Held, Done, Result, Current, Prior
  <2>7. ForwardInv' /\ BackwardInv'
    BY <2>2, <2>6 DEF ForwardInv, BackwardInv, Undoing
  <2> QED BY <1>10, <2>3, <2>5, <2>7 DEF ComposeInv
<1> QED BY <1>11, <1>12

-----------------------------------------------------------------------------
(* Backward                                                                *)

\* Undoing another operation than the one that has its turn ends with that turn.
LEMMA Returns ==
    ASSUME ComposeInv, Busy, StepShaped, UNCHANGED <<pc, queue>>, work' = Turn,
           work.op # Runner
    PROVE  Shapes' /\ PlanInv' /\ QueueInv'
<1>1. \A c \in Calls : Started(c)' <=> Started(c)
  BY MovesStart DEF StepShaped
<1>2. work.op \in Calls /\ Started(work.op) /\ work.step # "idle"
  BY DEF ComposeInv, JournalInv, Pending, Started, Busy
<1>3. edits \in Nat
  BY ComposeBounds DEF ComposeInv, Shapes, ComposeBounds
<1>4. work' \in Works /\ work'.seen = 0 /\ work'.step = "recover"
  BY TurnType DEF Turn
<1>5. Shapes'
  <2>1. ASSUME NEW c \in Calls
        PROVE  /\ DOMAIN row'[c] = {"status", "target"} /\ row'[c].status \in Statuses
               /\ DOMAIN row'[c].target = IF Started(c)' THEN Targets(c) ELSE {}
               /\ \A k \in DOMAIN row'[c].target : row'[c].target[k].state \in States
               /\ Started(c)' => Writes[c] # <<>>
    <3>1. CASE c = work.op
      BY <1>1, <1>2, <3>1 DEF StepShaped, JournalMoves, ComposeInv, Shapes
    <3>2. CASE c # work.op
      BY <1>1, <3>2 DEF StepShaped, JournalMoves, ComposeInv, Shapes
    <3> QED BY <3>1, <3>2
  <2>2. DOMAIN row' = Calls
    BY DEF StepShaped, JournalMoves
  <2>3. work'.seen <= edits'
    BY <1>3, <1>4 DEF StepShaped
  <2> QED BY <1>4, <2>1, <2>2, <2>3 DEF StepShaped, ComposeInv, Shapes
<1>6. PlanInv'
  <2>1. edits' \in Nat /\ edits <= edits'
    BY <1>3 DEF StepShaped
  <2>2. \A c \in Calls : Serious(c)' => Serious(c) /\ (pc'[c] # "asked" => pc[c] # "asked")
    BY <1>1 DEF Serious
  <2> QED BY <1>1, <2>1, <2>2, PlanKept DEF StepShaped
<1>7. QueueInv'
  <2>1. queue \in Seq(Calls) /\ queue # <<>>
    BY <1>2 DEF ComposeInv, Shapes, QueueInv
  <2>2. Runner = queue[1] /\ \A i \in DOMAIN queue : queue[i] \in Calls
    BY <2>1 DEF Runner
  <2>3. \A i \in DOMAIN queue : ~Started(queue[i])
    BY <2>2 DEF ComposeInv, QueueInv
  <2>4. \A i \in DOMAIN queue : ~Started(queue[i])'
    BY <1>1, <2>2, <2>3 DEF Started
  <2> QED BY <1>1, <1>4, <2>1, <2>4 DEF ComposeInv, QueueInv
<1> QED BY <1>5, <1>6, <1>7

\* A journal that differs in what the operation's targets are said to be, but in no backup.
Alike(r, c) ==
    /\ DOMAIN r = Calls /\ \A d \in Calls : d # c => r[d] = row[d]
    /\ DOMAIN r[c] = {"status", "target"} /\ r[c].status = row[c].status
    /\ DOMAIN r[c].target = Targets(c)
    /\ \A j \in Targets(c) :
          /\ r[c].target[j].state \in States /\ r[c].target[j].backup = Entry(c, j).backup
          /\ r[c].target[j].state = "committed" => Entry(c, j).state = "committed"

\* To the target before, or to the end of the rollback.
LEMMA OnwardKeeps ==
    ASSUME ComposeInv, Busy, Undoing, NEW c \in Calls, NEW k \in Nat,
           c = work.op, k = work.k, NEW r, Alike(r, c), NEW failed \in BOOLEAN,
           Onward(r, failed), UNCHANGED <<file, temp, plan, edits, crashes>>,
           faults' \in 0..MaxFaults,
           ~failed => ~work.failed /\ Undone(c, k),
           failed /\ faults' = 0 =>
              Foreign(c, k) \/ \E j \in Targets(c) : j > k /\ Foreign(c, j)
    PROVE  ComposeInv'
<1>1. /\ c \in Pending /\ k \in Targets(c) /\ edits \in Nat
      /\ Targets(c) = 1..Len(Writes[c]) /\ Len(Writes[c]) \in Nat
      /\ work.step \notin {"idle", "recover", "sources"}
  BY Working, Paths, ComposeBounds DEF ComposeInv, JournalInv, Undoing, Shapes, ComposeBounds
<1>2. \A j \in Targets(c) :
         /\ Prior(c, j)' = Prior(c, j) /\ Result(c, j)' = Result(c, j)
         /\ Current(c, j)' = Current(c, j)
         /\ (Held(c, j)' <=> Held(c, j)) /\ (Foreign(c, j)' <=> Foreign(c, j))
  BY DEF Prior, Result, Current, Held, Foreign
<1>3. ASSUME NEW s \in Statuses \ {"none"}, row'[c].status = s,
             s = row[c].status \/ s \in Settled, row'[c].target = r[c].target,
             DOMAIN row' = Calls, \A d \in Calls : d # c => row'[d] = row[d],
             DOMAIN row'[c] = {"status", "target"}
      PROVE  JournalMoves /\ StepShaped /\ TargetInv' /\ \A d, e \in Pending' : d = e
  <2>1. /\ \A j \in Targets(c) : Entry(c, j)' = r[c].target[j]
        /\ DOMAIN row'[c].target = Targets(c)
    BY <1>3 DEF Entry, Alike
  <2>2. JournalMoves
    BY <1>3, <2>1 DEF JournalMoves, Alike
  <2>3. \A f \in Files : Known(file[f])'
    BY <2>2, KnownKept DEF ComposeInv, PlanInv
  <2>4. StepShaped
    BY <2>2, <2>3 DEF StepShaped, ComposeInv, Shapes
  <2>5. ASSUME NEW j \in Targets(c), row'[c].status = "committing"
        PROVE  /\ Held(c, j)' \/ Ours(c, j)'
               /\ Entry(c, j)'.state = "committed" => Entry(c, j)'.backup = Prior(c, j)'
    <3>1. row[c].status = "committing"
      BY <1>3, <2>5 DEF Settled
    <3>2. /\ Held(c, j) \/ Ours(c, j)
          /\ Entry(c, j).state = "committed" => Entry(c, j).backup = Prior(c, j)
      BY <1>1, <3>1 DEF ComposeInv, TargetInv
    <3>3. /\ Entry(c, j)'.backup = Entry(c, j).backup
          /\ Entry(c, j)'.state = "committed" => Entry(c, j).state = "committed"
      BY <2>1 DEF Alike
    <3> QED BY <1>2, <3>2, <3>3 DEF Ours
  <2>6. ASSUME NEW j \in Targets(c), row'[c].status # "committing",
               row'[c].status \notin Settled
        PROVE  /\ Entry(c, j)'.backup = Absent /\ Entry(c, j)'.state # "committed"
               /\ ~Made(Current(c, j), c)'
    <3>1. row[c].status # "committing"
      BY <1>3, <2>6
    <3>2. /\ Entry(c, j).backup = Absent /\ Entry(c, j).state # "committed"
          /\ ~Made(Current(c, j), c)
      BY <1>1, <3>1 DEF ComposeInv, TargetInv
    <3>3. /\ Entry(c, j)'.backup = Entry(c, j).backup
          /\ Entry(c, j)'.state = "committed" => Entry(c, j).state = "committed"
      BY <2>1 DEF Alike
    <3>4. ~Made(Current(c, j), c)'
      BY <3>2 DEF Made, Current
    <3> QED BY <3>2, <3>3, <3>4
  <2>7. TargetInv' /\ \A d, e \in Pending' : d = e
    BY <2>2, <2>5, <2>6, MovesTargets
  <2> QED BY <2>2, <2>4, <2>7
<1>4. row[c].status \in Statuses \ {"none"} /\ row[c].status \notin Settled
  BY <1>1 DEF Pending
<1>5. CASE k > 1
  <2> DEFINE v == Goto("judge", c, k - 1)
  <2>1. row' = r /\ work' = [v EXCEPT !.failed = failed] /\ UNCHANGED <<pc, queue>>
    BY <1>5 DEF Onward
  <2>2. k - 1 \in Nat /\ k - 1 \in Targets(c)
    BY <1>1, <1>5
  <2>3. v \in Works /\ v.step = "judge" /\ v.op = c /\ v.k = k - 1 /\ v.seen = 0
    BY SMTT(30), <2>2, GotoEffect DEF ComposeInv, Steps
  <2> HIDE DEF v
  <2>4. /\ work' \in Works /\ work'.step = "judge" /\ work'.op = c /\ work'.k = k - 1
        /\ work'.seen = 0 /\ work'.failed = failed
    BY <2>1, <2>3 DEF Works
  <2>5. row'[c].status = row[c].status /\ row'[c].target = r[c].target
        /\ DOMAIN row' = Calls /\ (\A d \in Calls : d # c => row'[d] = row[d])
        /\ DOMAIN row'[c] = {"status", "target"}
    BY <2>1 DEF Alike
  <2>6. JournalMoves /\ StepShaped /\ TargetInv'
    BY <1>3, <1>4, <2>5
  <2>7. Shapes' /\ PlanInv' /\ QueueInv'
    <3>1. Busy' /\ work'.seen <= edits
      BY <1>1, <2>4 DEF Busy
    <3> QED BY <2>1, <2>4, <2>6, <3>1, GoesOn
  <2>8. Pending' = {c}
    BY <1>4, <2>5, <2>6, MovesPending
  <2>9. JournalInv'
    BY <2>2, <2>4, <2>8 DEF JournalInv, Undoing
  <2>10. BackwardInv'
    <3>1. \A j \in Targets(c) : Undone(c, j)' <=> Undone(c, j)
      BY <1>2, <2>5 DEF Undone
    <3>2. \A j \in Targets(c) : (j > k - 1 <=> j > k \/ j = k)
      BY <1>1
    <3>3. ~failed => \A j \in Targets(c) : j > k - 1 => Undone(c, j)'
      BY <3>1, <3>2 DEF ComposeInv, BackwardInv
    <3>4. failed /\ faults' = 0 => \E j \in Targets(c) : j > k - 1 /\ Foreign(c, j)'
      BY <1>1, <1>2, <3>2
    <3> QED BY <2>4, <3>3, <3>4 DEF BackwardInv
  <2>11. ForwardInv'
    BY <2>4 DEF ForwardInv
  <2> QED BY <2>6, <2>7, <2>9, <2>10, <2>11 DEF ComposeInv
<1>6. CASE ~(k > 1)
  <2>1. PICK s : s = IF failed THEN "recovery_failed" ELSE "rolled_back"
    OBVIOUS
  <2>2. row' = [r EXCEPT ![c].status = s]
    BY <1>6, <2>1 DEF Onward
  <2>3. /\ row'[c].status = s /\ row'[c].target = r[c].target
        /\ DOMAIN row' = Calls /\ (\A d \in Calls : d # c => row'[d] = row[d])
        /\ DOMAIN row'[c] = {"status", "target"}
    <3>1. /\ DOMAIN r = Calls /\ DOMAIN r[c] = {"status", "target"}
          /\ \A d \in Calls : d # c => r[d] = row[d]
      BY DEF Alike
    <3> QED BY <2>2, <3>1, SetStatusEffect
  <2>4. s \in Statuses \ {"none"} /\ s \in Settled
    BY <2>1 DEF Statuses, Settled
  <2>5. StepShaped /\ TargetInv' /\ \A d, e \in Pending' : d = e
    BY <1>3, <2>3, <2>4
  <2>6. CASE failed \/ c = Runner
    <3>1. Answer("refused")
      BY <1>6, <2>6 DEF Onward
    <3>2. Shapes' /\ PlanInv' /\ QueueInv' /\ work' \in {Idle, Turn}
      BY <2>5, <3>1, Ends
    <3> QED BY <2>5, <3>2, Away DEF ComposeInv, Position
  <2>7. CASE ~(failed \/ c = Runner)
    <3>1. work' = Turn /\ UNCHANGED <<pc, queue>>
      BY <1>6, <2>7 DEF Onward
    <3>2. Shapes' /\ PlanInv' /\ QueueInv'
      BY <2>5, <2>7, <3>1, Returns
    <3> QED BY <2>5, <3>1, <3>2, Away DEF ComposeInv, Position
  <2> QED BY <2>6, <2>7
<1> QED BY <1>5, <1>6

\* A step of the rollback that changes no destination and nothing in the journal.
LEMMA UndoingGoesOn ==
    ASSUME ComposeInv, Busy, Undoing, UNCHANGED <<file, plan, pc, queue, row, bounds>>,
           NEW c \in Calls, NEW k \in Nat, c = work.op, k = work.k,
           DOMAIN temp' = Calls, \A d \in Calls : DOMAIN temp'[d] = Targets(d),
           work' \in Works, work'.op = c, work'.k = k, work'.failed = work.failed,
           work'.seen <= edits, work'.step \in {"restore", "put", "sweep", "unmark"},
           work'.step \in {"restore", "put"} => row[c].status = "committing",
           work'.step \in {"sweep", "unmark"} => Undone(c, k),
           work'.step = "put" =>
              /\ Prior(c, k) = Absent \/ Entry(c, k).backup = Prior(c, k)
              /\ Current(c, k) \in {Absent, Result(c, k)}
    PROVE  ComposeInv'
<1>1. c \in Pending /\ k \in Targets(c)
  BY Working DEF Undoing
<1>2. Shapes' /\ PlanInv' /\ QueueInv' /\ TargetInv' /\ Pending' = Pending
  <2>1. Busy'
    BY DEF Busy
  <2> QED BY <2>1, Looks DEF bounds, ComposeInv, Shapes
<1>3. JournalInv'
  BY <1>1, <1>2 DEF ComposeInv, JournalInv, Undoing
<1>4. \A j \in Targets(c) :
         /\ Prior(c, j)' = Prior(c, j) /\ Result(c, j)' = Result(c, j)
         /\ Current(c, j)' = Current(c, j) /\ Entry(c, j)' = Entry(c, j)
         /\ (Undone(c, j)' <=> Undone(c, j)) /\ (Foreign(c, j)' <=> Foreign(c, j))
  BY SameWords
<1>5. BackwardInv'
  <2>1. ~work'.failed => \A j \in Targets(c) : j > k => Undone(c, j)'
    BY <1>4 DEF ComposeInv, BackwardInv
  <2>2. work'.failed /\ faults' = 0 => \E j \in Targets(c) : j > k /\ Foreign(c, j)'
    BY <1>4 DEF ComposeInv, BackwardInv, bounds
  <2> QED BY <1>1, <1>4, <2>1, <2>2 DEF BackwardInv
<1>6. ForwardInv'
  BY DEF ForwardInv
<1> QED BY <1>2, <1>3, <1>5, <1>6 DEF ComposeInv

LEMMA JudgeKeeps == ASSUME ComposeInv, Judge PROVE ComposeInv'
<1>0. work.step = "judge" /\ Busy /\ Undoing
  BY DEF Judge, Busy, Undoing
<1>1. PICK c \in Calls, k \in Nat : c = work.op /\ k = work.k
  BY <1>0, Working
<1>2. c \in Pending /\ k \in Targets(c) /\ edits \in Nat /\ Started(c)
  BY <1>0, <1>1, Working
<1>3. UNCHANGED <<file, temp, plan, pc, queue, row, bounds>>
  BY DEF Judge
<1>4. Made(Result(c, k), c)
  BY <1>2, Outputs DEF ComposeInv
<1>5. Replaced <=> \/ Entry(c, k).state = "committed"
                   \/ /\ Current(c, k) = Result(c, k)
                      /\ Prior(c, k) # Absent => Entry(c, k).backup # Absent
  BY <1>1 DEF Replaced, Target, Dest, Own, Entry, Current, Result, Prior
<1>6. Replaced => row[c].status = "committing"
  BY <1>2, <1>4, <1>5 DEF ComposeInv, TargetInv
<1>7. ~Replaced => Undone(c, k)
  <2>1. ASSUME ~Replaced, row[c].status = "committing" PROVE Held(c, k)
    <3>1. Held(c, k) \/ Ours(c, k)
      BY <1>2, <2>1 DEF ComposeInv, TargetInv
    <3> QED BY <1>5, <2>1, <3>1 DEF Ours
  <2> QED BY <2>1 DEF Undone
<1>8. PICK step \in {"restore", "sweep"} :
         /\ work' = Goto(step, c, k) /\ (step = "restore" <=> Replaced)
  BY <1>1 DEF Judge, Step
<1>9. /\ work' \in Works /\ work'.step = step /\ work'.op = c /\ work'.k = k
      /\ work'.failed = work.failed /\ work'.seen = 0
  BY <1>8, GotoEffect DEF ComposeInv, Steps
<1>10. work'.seen <= edits
  BY <1>2, <1>9
<1>11. DOMAIN temp' = Calls /\ \A d \in Calls : DOMAIN temp'[d] = Targets(d)
  BY <1>3 DEF ComposeInv, Shapes
<1> QED BY <1>0, <1>1, <1>3, <1>6, <1>7, <1>8, <1>9, <1>10, <1>11, UndoingGoesOn

LEMMA SweepKeeps == ASSUME ComposeInv, Sweep PROVE ComposeInv'
<1>0. work.step = "sweep" /\ Busy /\ Undoing
  BY DEF Sweep, Busy, Undoing
<1>1. PICK c \in Calls, k \in Nat : c = work.op /\ k = work.k
  BY <1>0, Working
<1>2. c \in Pending /\ k \in Targets(c) /\ edits \in Nat
  BY <1>0, <1>1, Working
<1>3. UNCHANGED <<file, plan, pc, queue, row, bounds>> /\ work' = Goto("unmark", c, k)
  BY <1>1 DEF Sweep, Step
<1>4. DOMAIN temp' = Calls /\ \A d \in Calls : DOMAIN temp'[d] = Targets(d)
  <2>1. temp' = [temp EXCEPT ![c][k] = Absent] \/ temp' = temp
    BY <1>1 DEF Sweep
  <2> QED BY <2>1 DEF ComposeInv, Shapes
<1>5. /\ work' \in Works /\ work'.step = "unmark" /\ work'.op = c /\ work'.k = k
      /\ work'.failed = work.failed /\ work'.seen = 0
  BY <1>3, GotoEffect DEF ComposeInv, Steps
<1>6. work'.seen <= edits
  BY <1>2, <1>5
<1>7. Undone(c, k)
  BY <1>0, <1>1 DEF ComposeInv, BackwardInv
<1> QED BY <1>0, <1>1, <1>3, <1>4, <1>5, <1>6, <1>7, UndoingGoesOn

\* What the rollback cannot restore was written by someone else.
LEMMA ConflictIsForeign ==
    ASSUME ComposeInv, Restore, NEW c \in Calls, NEW k \in Nat, c = work.op, k = work.k
    PROVE  /\ RestoreStep = IF Prior(c, k) # Absent /\ Current(c, k) = Prior(c, k) THEN "sweep"
                            ELSE IF /\ Current(c, k) \in {Absent, Result(c, k)}
                                    /\ Prior(c, k) # Absent => Entry(c, k).backup # Absent
                            THEN "put" ELSE "conflict"
           /\ RestoreStep = "conflict" => Foreign(c, k)
           /\ RestoreStep = "put" => Prior(c, k) = Absent \/ Entry(c, k).backup = Prior(c, k)
<1>0. work.step = "restore" /\ Busy
  BY DEF Restore, Busy
<1>1. /\ c \in Pending /\ k \in Targets(c) /\ Started(c) /\ row[c].status = "committing"
  BY <1>0, Working DEF ComposeInv, JournalInv
<1>2. /\ ~IsEdit(Result(c, k)) /\ Result(c, k) # Absent /\ Prior(c, k) # Result(c, k)
      /\ ~IsEdit(Absent)
  BY <1>1, Outputs, Kinds DEF ComposeInv
<1>3. Held(c, k) \/ Ours(c, k)
  BY <1>1 DEF ComposeInv, TargetInv
<1>4. RestoreStep = IF Prior(c, k) # Absent /\ Current(c, k) = Prior(c, k) THEN "sweep"
                    ELSE IF /\ Current(c, k) \in {Absent, Result(c, k)}
                            /\ Prior(c, k) # Absent => Entry(c, k).backup # Absent
                    THEN "put" ELSE "conflict"
  BY DEF RestoreStep, Dest, Own, Target, Entry, Current, Result, Prior
<1>5. RestoreStep = "conflict" => Foreign(c, k)
  BY <1>2, <1>3, <1>4 DEF Held, Ours, Foreign
<1>6. RestoreStep = "put" => Prior(c, k) = Absent \/ Entry(c, k).backup = Prior(c, k)
  BY <1>2, <1>3, <1>4 DEF Held, Ours
<1> QED BY <1>4, <1>5, <1>6

LEMMA RestoreKeeps == ASSUME ComposeInv, Restore PROVE ComposeInv'
<1>0. work.step = "restore" /\ Busy /\ Undoing
  BY DEF Restore, Busy, Undoing
<1>1. PICK c \in Calls, k \in Nat : c = work.op /\ k = work.k
  BY <1>0, Working
<1>2. /\ c \in Pending /\ k \in Targets(c) /\ edits \in Nat /\ Started(c)
      /\ row[c].status = "committing"
  BY <1>0, <1>1, Working DEF ComposeInv, JournalInv
<1>3. UNCHANGED <<file, temp, plan, bounds>>
  BY DEF Restore
<1>6. /\ RestoreStep = IF Prior(c, k) # Absent /\ Current(c, k) = Prior(c, k) THEN "sweep"
                       ELSE IF /\ Current(c, k) \in {Absent, Result(c, k)}
                               /\ Prior(c, k) # Absent => Entry(c, k).backup # Absent
                       THEN "put" ELSE "conflict"
      /\ RestoreStep = "conflict" => Foreign(c, k)
      /\ RestoreStep = "put" => Prior(c, k) = Absent \/ Entry(c, k).backup = Prior(c, k)
  BY <1>1, ConflictIsForeign
<1>7. CASE RestoreStep = "conflict"
  <2>1. Foreign(c, k)
    BY <1>6, <1>7
  <2>2. Onward(row, TRUE)
    BY <1>7 DEF Restore
  <2>3. Alike(row, c)
    BY <1>2 DEF Alike, Entry, ComposeInv, Shapes
  <2>4. PICK failed \in BOOLEAN : failed = TRUE
    OBVIOUS
  <2>5. Onward(row, failed)
    BY <2>2, <2>4 DEF Onward
  <2>6. faults' \in 0..MaxFaults
    BY <1>3 DEF bounds, ComposeInv, Shapes
  <2> QED BY <1>0, <1>1, <1>3, <2>1, <2>3, <2>4, <2>5, <2>6, OnwardKeeps DEF bounds
<1>8. CASE RestoreStep # "conflict"
  <2>1. PICK step \in {"sweep", "put"} : step = RestoreStep
    BY <1>6, <1>8
  <2> DEFINE v == Goto(step, c, k)
  <2>2. work' = Looked(v) /\ UNCHANGED <<pc, queue, row>>
    BY <1>1, <1>8, <2>1 DEF Restore, Step
  <2>3. v \in Works /\ v.step = step /\ v.op = c /\ v.k = k /\ v.failed = work.failed
    BY GotoEffect DEF ComposeInv, Steps
  <2> HIDE DEF v
  <2>4. /\ work' \in Works /\ work'.step = step /\ work'.op = c /\ work'.k = k
        /\ work'.failed = work.failed /\ work'.seen = edits
    BY <2>2, <2>3, LookedEffect DEF ComposeInv
  <2>5. work'.seen <= edits
    BY <1>2, <2>4
  <2>6. step = "sweep" => Undone(c, k)
    BY <1>6, <2>1 DEF Undone, Held
  <2>7. step = "put" => /\ Prior(c, k) = Absent \/ Entry(c, k).backup = Prior(c, k)
                        /\ Current(c, k) \in {Absent, Result(c, k)}
    BY <1>6, <2>1
  <2>8. DOMAIN temp' = Calls /\ \A d \in Calls : DOMAIN temp'[d] = Targets(d)
    BY <1>3 DEF ComposeInv, Shapes
  <2> QED BY <1>0, <1>1, <1>2, <1>3, <2>2, <2>4, <2>5, <2>6, <2>7, <2>8, UndoingGoesOn
<1> QED BY <1>7, <1>8

\* What was there before is put back.
LEMMA PutKeeps == ASSUME ComposeInv, Put PROVE ComposeInv'
<1>0. work.step = "put" /\ Busy /\ Undoing
  BY DEF Put, Busy, Undoing
<1>1. PICK c \in Calls, k \in Nat : c = work.op /\ k = work.k
  BY <1>0, Working
<1>2. /\ c \in Pending /\ k \in Targets(c) /\ edits \in Nat /\ Started(c)
      /\ row[c].status = "committing"
  BY <1>0, <1>1, Working DEF ComposeInv, JournalInv
<1>3. UNCHANGED <<temp, plan, pc, queue, row, bounds>> /\ JournalMoves
  BY <1>0, JournalStays DEF Put
<1>4. Prior(c, k) = Absent \/ Entry(c, k).backup = Prior(c, k)
  BY SMTT(30), <1>0, <1>1 DEF ComposeInv, BackwardInv
<1>5. file' = [file EXCEPT ![Writes[c][k]] = Prior(c, k)] /\ work' = Goto("sweep", c, k)
  BY <1>1, <1>4 DEF Put, Dest, Step, Own, Target, Entry, Prior
<1>6. /\ DOMAIN file' = Files /\ Writes[c][k] \in Files /\ file'[Writes[c][k]] = Prior(c, k)
      /\ \A f \in Files : f # Writes[c][k] => file'[f] = file[f]
  BY <1>2, <1>5, Paths DEF ComposeInv, Shapes
<1>7. /\ work' \in Works /\ work'.step = "sweep" /\ work'.op = c /\ work'.k = k
      /\ work'.failed = work.failed /\ work'.seen = 0
  BY <1>5, GotoEffect DEF ComposeInv, Steps
<1>8. /\ Current(c, k)' = Prior(c, k)
      /\ \A j \in Targets(c) : j # k => Current(c, j)' = Current(c, j)
      /\ \A j : Prior(c, j)' = Prior(c, j) /\ Result(c, j)' = Result(c, j)
      /\ \A j : Entry(c, j)' = Entry(c, j)
  <2>1. \A j \in Targets(c) : j # k => Writes[c][j] \in Files /\ Writes[c][j] # Writes[c][k]
    BY <1>2, Paths
  <2> QED BY <1>3, <1>6, <2>1 DEF Current, Prior, Result, Entry
<1>9. Shapes' /\ PlanInv' /\ QueueInv'
  <2>1. Busy' /\ work'.seen <= edits
    BY <1>2, <1>7 DEF Busy
  <2>2. Known(Prior(c, k))
    BY <1>2, Outputs DEF ComposeInv
  <2>3. ASSUME NEW f \in Files PROVE Known(file[f])'
    <3>1. PICK x : Known(x) /\ file'[f] = x
      BY <1>6, <2>2 DEF ComposeInv, PlanInv
    <3>2. Known(x)'
      BY <1>0, <1>3, <3>1, KnownKept DEF bounds
    <3> QED BY <3>1, <3>2 DEF Known
  <2>4. StepShaped
    BY <1>3, <1>6, <2>3 DEF StepShaped, ComposeInv, Shapes, bounds
  <2> QED BY <1>0, <1>1, <1>3, <1>7, <2>1, <2>4, GoesOn
<1>10. Held(c, k)' /\ \A j \in Targets(c) : j # k => (Held(c, j)' <=> Held(c, j))
                                                    /\ (Foreign(c, j)' <=> Foreign(c, j))
  BY <1>8 DEF Held, Foreign
<1>11. TargetInv' /\ Pending' = {c}
  <2>1. ASSUME NEW j \in Targets(c)
        PROVE  /\ Held(c, j)' \/ Ours(c, j)'
               /\ Entry(c, j)'.state = "committed" => Entry(c, j)'.backup = Prior(c, j)'
    <3>1. /\ Held(c, j) \/ Ours(c, j)
          /\ Entry(c, j).state = "committed" => Entry(c, j).backup = Prior(c, j)
      BY <1>2 DEF ComposeInv, TargetInv
    <3>2. CASE j = k
      BY <1>8, <1>10, <3>1, <3>2
    <3>3. CASE j # k
      BY <1>8, <1>10, <3>1, <3>3 DEF Ours
    <3> QED BY <3>2, <3>3
  <2>2. row'[c].status \notin Settled /\ row'[c].status = "committing"
    BY <1>2, <1>3 DEF Settled
  <2>3. TargetInv'
    BY <1>0, <1>1, <1>3, <2>1, <2>2, MovesTargets
  <2> QED BY <1>0, <1>1, <1>3, <2>2, <2>3, MovesPending
<1>12. JournalInv'
  BY <1>2, <1>7, <1>11 DEF JournalInv, Undoing
<1>13. BackwardInv'
  <2>1. \A j \in Targets(c) : j > k => j # k
    BY <1>2, Paths
  <2>2. ~work'.failed => \A j \in Targets(c) : j > k => Undone(c, j)'
    <3>1. ~work.failed => \A j \in Targets(c) : j > k => Undone(c, j)
      BY <1>0, <1>1 DEF ComposeInv, BackwardInv
    <3> QED BY <1>3, <1>7, <1>10, <2>1, <3>1 DEF Undone
  <2>3. work'.failed /\ faults' = 0 => \E j \in Targets(c) : j > k /\ Foreign(c, j)'
    <3>1. work.failed /\ faults = 0 => \E j \in Targets(c) : j > k /\ Foreign(c, j)
      BY <1>0, <1>1 DEF ComposeInv, BackwardInv
    <3> QED BY <1>3, <1>7, <1>10, <2>1, <3>1 DEF bounds
  <2>4. Undone(c, k)'
    BY <1>10 DEF Undone
  <2> QED BY <1>7, <2>2, <2>3, <2>4 DEF BackwardInv
<1>14. ForwardInv'
  <2>1. work'.step = "sweep"
    BY Zenon, <1>7
  <2> QED BY <2>1 DEF ForwardInv
<1> QED BY <1>9, <1>11, <1>12, <1>13, <1>14 DEF ComposeInv

LEMMA UnmarkAlike ==
    ASSUME ComposeInv, Unmark, NEW hasTemp,
           NEW r, r = SetTarget("rolled_back", hasTemp, Entry(work.op, work.k).backup)
    PROVE  Alike(r, work.op)
<1>1. PICK c \in Calls, k \in Nat : c = work.op /\ k = work.k
  BY Working DEF Unmark, Busy
<1>2. k \in Targets(c) /\ Started(c)
  BY <1>1, Working DEF Unmark, Busy
<1>3. /\ DOMAIN r = Calls /\ \A d \in Calls : d # c => r[d] = row[d]
      /\ DOMAIN r[c] = {"status", "target"} /\ r[c].status = row[c].status
      /\ DOMAIN r[c].target = Targets(c)
      /\ \A j \in Targets(c) : j # k => r[c].target[j] = row[c].target[j]
      /\ r[c].target[k].state = "rolled_back"
      /\ r[c].target[k].backup = Entry(c, k).backup
  BY <1>1, <1>2, SetTargetEffect DEF ComposeInv
<1>4. \A j \in Targets(c) : row[c].target[j].state \in States
  BY <1>2 DEF ComposeInv, Shapes
<1>5. "rolled_back" \in States
  BY DEF States
<1> QED BY Zenon, <1>1, <1>3, <1>4, <1>5 DEF Alike, Entry

LEMMA UnmarkKeeps == ASSUME ComposeInv, Unmark PROVE ComposeInv'
<1>0. work.step = "unmark" /\ Busy /\ Undoing
  BY DEF Unmark, Busy, Undoing
<1>1. PICK c \in Calls, k \in Nat : c = work.op /\ k = work.k
  BY <1>0, Working
<1>2. /\ c \in Pending /\ k \in Targets(c) /\ Started(c)
      /\ UNCHANGED <<file, temp, plan, bounds>>
  BY <1>0, <1>1, Working DEF Unmark
<1>3. PICK hasTemp : hasTemp = FALSE
  OBVIOUS
<1>4. PICK r : r = SetTarget("rolled_back", hasTemp, Entry(c, k).backup)
  OBVIOUS
<1>5. PICK failed \in BOOLEAN : failed = work.failed
  BY DEF ComposeInv, Shapes, Works
<1>6. Onward(r, failed)
  BY <1>1, <1>3, <1>4, <1>5 DEF Unmark, Onward, SetTarget, Target, Entry
<1>7. Alike(r, c)
  BY <1>1, <1>4, UnmarkAlike
<1>8. Undone(c, k)
  BY <1>0, <1>1 DEF ComposeInv, BackwardInv
<1>9. failed /\ faults' = 0 => \E j \in Targets(c) : j > k /\ Foreign(c, j)
  BY <1>0, <1>1, <1>2, <1>5 DEF ComposeInv, BackwardInv, bounds
<1>10. faults' \in 0..MaxFaults
  BY <1>2 DEF bounds, ComposeInv, Shapes
<1> QED BY <1>0, <1>1, <1>2, <1>5, <1>6, <1>7, <1>8, <1>9, <1>10, OnwardKeeps DEF bounds

\* A disk that fails once sends the operation back, or on to the target before.
LEMMA FaultKeeps == ASSUME ComposeInv, Fault PROVE ComposeInv'
<1>1. /\ UNCHANGED <<file, plan, edits, crashes>>
      /\ faults' \in 0..MaxFaults /\ faults' # 0
  BY ComposeBounds DEF Fault, ComposeInv, Shapes, ComposeBounds
<1>2. CASE work.step \in {"write", "written", "sources", "verify", "backup", "check", "rename"}
  <2>1. Busy /\ work' = Undo(work.op) /\ UNCHANGED <<pc, queue, row>>
    BY <1>2 DEF Fault, Busy
  <2>2. DOMAIN temp' = Calls /\ \A d \in Calls : DOMAIN temp'[d] = Targets(d)
    <3>1. temp' = [temp EXCEPT ![work.op][work.k] = Absent] \/ temp' = temp
      BY <1>2 DEF Fault
    <3> QED BY <3>1 DEF ComposeInv, Shapes
  <2> QED BY <1>1, <2>1, <2>2, UndoKeeps
<1>3. CASE work.step \in {"judge", "restore", "put", "sweep"}
  <2>1. Busy /\ Undoing /\ Onward(row, TRUE) /\ temp' = temp
    BY <1>3 DEF Fault, Busy, Undoing
  <2>2. PICK c \in Calls, k \in Nat : c = work.op /\ k = work.k /\ Started(c)
    BY <2>1, Working
  <2>3. Alike(row, c)
    BY <2>2 DEF Alike, Entry, ComposeInv, Shapes
  <2>4. PICK failed \in BOOLEAN : failed = TRUE
    OBVIOUS
  <2>5. Onward(row, failed)
    BY <2>1, <2>4 DEF Onward
  <2> QED BY <1>1, <2>1, <2>2, <2>3, <2>4, <2>5, OnwardKeeps
<1> QED BY <1>2, <1>3 DEF Fault

-----------------------------------------------------------------------------
(* The invariant holds                                                     *)

LEMMA InitCompose == ASSUME Init PROVE ComposeInv
<1>1. /\ DOMAIN file = Files /\ \A f \in Files : file[f] \in {Absent, Edited(0)}
      /\ temp = [c \in Calls |-> [k \in Targets(c) |-> Absent]]
      /\ plan = [c \in Calls |-> [asked |-> Nothing, found |-> Nothing]]
      /\ pc = [c \in Calls |-> "new"] /\ queue = <<>>
      /\ row = [c \in Calls |-> NoRow] /\ work = Idle
      /\ edits = 0 /\ faults = 0 /\ crashes = 0
  BY DEF Init
<1>2. NoRow.status = "none" /\ NoRow.target = <<>> /\ DOMAIN NoRow = {"status", "target"}
  BY DEF NoRow
<1>3. \A c \in Calls : row[c] = NoRow /\ ~Started(c) /\ pc[c] = "new" /\ ~Serious(c)
  BY <1>1, <1>2 DEF Started, Serious
<1>4. work \in Works /\ work.step = "idle" /\ work.seen = 0 /\ work.failed = FALSE
  BY <1>1, TurnType DEF Idle
<1>5. Shapes
  <2>1. edits \in 0..MaxEdits /\ faults \in 0..MaxFaults /\ crashes \in 0..MaxCrashes
    BY <1>1, ComposeBounds DEF ComposeBounds
  <2>2. \A c \in Calls :
          /\ DOMAIN row[c] = {"status", "target"}
          /\ row[c].status \in Statuses
          /\ DOMAIN row[c].target = IF Started(c) THEN Targets(c) ELSE {}
          /\ \A k \in DOMAIN row[c].target : row[c].target[k].state \in States
          /\ Started(c) => Writes[c] # <<>>
    <3>1. DOMAIN NoRow.target = {} /\ NoRow.status \in Statuses
      BY <1>2 DEF Statuses
    <3> QED BY <1>2, <1>3, <3>1
  <2>3. queue \in Seq(Calls)
    BY <1>1
  <2>4. work.seen <= edits
    BY <1>1, <1>4
  <2> QED BY <1>1, <1>4, <2>1, <2>2, <2>3, <2>4 DEF Shapes
<1>6. PlanInv
  <2>1. ASSUME NEW f \in Files PROVE Known(file[f])
    <3>1. CASE file[f] = Absent
      BY <3>1, Kinds DEF Known
    <3>2. CASE file[f] = Edited(0)
      <4>1. IsEdit(file[f]) /\ file[f][2] = 0 /\ \A c \in Calls : ~Made(file[f], c)
        BY <3>2, Kinds
      <4> QED BY <1>1, <4>1 DEF Known
    <3> QED BY <1>1, <3>1, <3>2
  <2> QED BY <1>3, <2>1 DEF PlanInv
<1>7. QueueInv
  BY <1>1, <1>3, <1>4 DEF QueueInv
<1>8. Pending = {}
  BY <1>3 DEF Pending, Started
<1>9. JournalInv /\ TargetInv /\ ForwardInv /\ BackwardInv
  BY <1>4, <1>8 DEF JournalInv, TargetInv, ForwardInv, BackwardInv, Busy, Undoing
<1> QED BY <1>5, <1>6, <1>7, <1>9 DEF ComposeInv

LEMMA WorkKeeps == ASSUME ComposeInv, Work PROVE ComposeInv'
<1>1. CASE RecoverFirst \/ Begin \/ Write \/ Prepare \/ CheckSource \/ Verify
  BY <1>1, RecoverFirstKeeps, BeginKeeps, WriteKeeps, PrepareKeeps, CheckSourceKeeps,
     VerifyKeeps
<1>2. CASE Backup \/ Check \/ Rename \/ Mark
  BY <1>2, BackupKeeps, CheckKeeps, RenameKeeps, MarkKeeps
<1>3. CASE Judge \/ Restore \/ Put \/ Sweep \/ Unmark
  BY <1>3, JudgeKeeps, RestoreKeeps, PutKeeps, SweepKeeps, UnmarkKeeps
<1> QED BY <1>1, <1>2, <1>3 DEF Work

LEMMA StepKeeps == ASSUME ComposeInv, [Next]_vars PROVE ComposeInv'
<1>1. CASE Work
  BY <1>1, WorkKeeps
<1>2. CASE Fault
  BY <1>2, FaultKeeps
<1>3. CASE Crash
  BY <1>3, CrashKeeps
<1>4. CASE Rest
  BY <1>4, StutterKeeps DEF Rest
<1>5. ASSUME NEW c \in Calls, Preview(c) \/ Inspect(c) \/ Measure(c) \/ Submit(c)
                              \/ CallRecover(c)
      PROVE  ComposeInv'
  BY <1>5, PreviewKeeps, InspectKeeps, MeasureKeeps, SubmitKeeps, CallRecoverKeeps
<1>6. ASSUME NEW f \in Files, Edit(f) PROVE ComposeInv'
  BY <1>6, EditKeeps
<1>7. CASE UNCHANGED vars
  BY <1>7, StutterKeeps
<1> QED BY <1>1, <1>2, <1>3, <1>4, <1>5, <1>6, <1>7 DEF Next

LEMMA ComposeAlways == Spec => []ComposeInv
<1>1. Init => ComposeInv
  BY InitCompose
<1>2. ComposeInv /\ [Next]_vars => ComposeInv'
  BY StepKeeps
<1> QED BY <1>1, <1>2, PTL DEF Spec

-----------------------------------------------------------------------------
(* Theorems                                                                *)

\* Journal, queue and work are of the shape that the code gives them: a target has an
\* entry in the journal, in a known state, and nobody is at work without a call.
THEOREM ComposeTyped == Spec => []TypeOK
<1>1. ComposeInv => TypeOK
  <2>1. ASSUME ComposeInv PROVE TypeOK
    <3>1. \A c \in Calls :
            /\ row[c].status \in Statuses
            /\ row[c].status # "none" => DOMAIN row[c].target = Targets(c)
            /\ \A k \in DOMAIN row[c].target : row[c].target[k].state \in States
      BY <2>1 DEF ComposeInv, Shapes, Started
    <3>2. work.step \in Steps /\ work.op \in Calls \cup {"none"}
      BY <2>1 DEF ComposeInv, Shapes, Works
    <3>3. (work.step = "idle") = (queue = <<>>)
      BY <2>1 DEF ComposeInv, QueueInv
    <3> QED BY <2>1, <3>1, <3>2, <3>3 DEF ComposeInv, Shapes, TypeOK
  <2> QED BY <2>1
<1> QED BY <1>1, ComposeAlways, PTL

\* runExclusive with recoverPending first: an operation is inserted into the journal
\* when every other one is settled, also those that a stop of the process cut off.
THEOREM OneAtATime == Spec => []OnePending
<1>1. ComposeInv => OnePending
  <2>1. ASSUME ComposeInv PROVE OnePending
    <3>1. CASE Pending = {}
      BY <3>1, FS_EmptySet DEF OnePending
    <3>2. CASE Pending # {}
      <4>1. PICK c : Pending = {c}
        BY <2>1, <3>2 DEF ComposeInv, JournalInv
      <4>2. Cardinality(Pending) = 1
        BY <4>1, FS_Singleton
      <4> QED BY <4>2 DEF OnePending
    <3> QED BY <3>1, <3>2
  <2> QED BY <2>1
<1> QED BY <1>1, ComposeAlways, PTL

\* Only two steps write a destination.
LEMMA WhoWrites ==
    ASSUME ComposeInv, [Next]_vars, NEW f \in Files, file'[f] # file[f], edits' = edits
    PROVE  (Rename \/ Put) /\ Busy /\ f = Dest
<1>1. ~(\E g \in Files : Edit(g))
  BY ComposeBounds DEF Edit, ComposeInv, Shapes, ComposeBounds
<1>2. file' # file
  BY Zenon
<1>3. Rename \/ Put
  BY <1>1, <1>2, ZenonT(40) DEF Next, Work, vars, RecoverFirst, Begin, Write, Prepare,
     CheckSource, Verify, Backup, Check, Mark, Judge, Restore, Sweep, Unmark, Fault, Crash, Rest,
     Preview, Inspect, Measure, Submit, CallRecover
<1>4. Busy
  BY <1>3 DEF Rename, Put, Busy
<1>5. \E x : file' = [file EXCEPT ![Dest] = x]
  BY <1>3 DEF Rename, Put
<1>6. f = Dest
  BY <1>5 DEF ComposeInv, Shapes
<1> QED BY <1>3, <1>4, <1>6

\* restoreBackup and the rename that replaces a destination: what they write over is the
\* output, what is in the backup, or what was written after the last look at it.
THEOREM OverwritesItsOwn == Spec => NothingLost
<1> DEFINE Lost == \A f \in Files :
                      file'[f] # file[f] /\ edits' = edits =>
                          \/ file[f] \in {Absent, Own.result[work.k], Target.backup}
                          \/ IsEdit(file[f]) /\ file[f][2] > work.seen
<1>1. ASSUME ComposeInv, [Next]_vars PROVE Lost
  <2>1. ASSUME NEW f \in Files, file'[f] # file[f], edits' = edits
        PROVE  \/ file[f] \in {Absent, Own.result[work.k], Target.backup}
               \/ IsEdit(file[f]) /\ file[f][2] > work.seen
    <3>1. (Rename \/ Put) /\ Busy /\ f = Dest
      BY <1>1, <2>1, WhoWrites
    <3>2. PICK c \in Calls, k \in Nat : c = work.op /\ k = work.k
      BY <1>1, <3>1, Working
    <3>3. /\ file[f] = Current(c, k) /\ Own.result[work.k] = Result(c, k)
          /\ Target.backup = Entry(c, k).backup
      BY <3>1, <3>2 DEF Dest, Own, Target, Current, Result, Entry
    <3>4. CASE Rename
      <4>1. Current(c, k) = Entry(c, k).backup \/ Since(Current(c, k))
        BY <1>1, <3>2, <3>4 DEF ComposeInv, ForwardInv, Rename
      <4> QED BY <3>3, <4>1 DEF Since
    <3>5. CASE Put
      <4>1. Current(c, k) \in {Absent, Result(c, k)} \/ Since(Current(c, k))
        BY <1>1, <3>2, <3>5 DEF ComposeInv, BackwardInv, Put
      <4> QED BY <3>3, <4>1 DEF Since
    <3> QED BY <3>1, <3>4, <3>5
  <2> QED BY <2>1
<1> HIDE DEF Lost
<1>2. ComposeInv /\ [Next]_vars => [Lost]_vars
  BY <1>1
<1>3. NothingLost <=> [][Lost]_vars
  BY DEF NothingLost, Lost
<1> QED BY <1>2, <1>3, ComposeAlways, PTL DEF Spec

\* A new status of the operation that is worked at touches no other status.
LEMMA OneStatus ==
    ASSUME work.op \in Calls, NEW r, DOMAIN r = Calls, DOMAIN r[work.op] = {"status", "target"},
           \A d \in Calls : r[d].status = row[d].status,
           NEW s, row' = r \/ row' = [r EXCEPT ![work.op].status = s],
           NEW c \in Calls, row'[c].status # row[c].status
    PROVE  c = work.op /\ row'[c].status = s
<1>1. row' = [r EXCEPT ![work.op].status = s]
  OBVIOUS
<1>2. row'[work.op].status = s /\ \A d \in Calls : d # work.op => row'[d] = r[d]
  BY <1>1, SetStatusEffect
<1> QED BY <1>2

LEMMA EntryKeepsStatus ==
    ASSUME ComposeInv, Busy, work.step # "sources", NEW state, NEW hasTemp, NEW backup,
           NEW r, r = SetTarget(state, hasTemp, backup)
    PROVE  /\ work.op \in Calls /\ DOMAIN r = Calls /\ DOMAIN r[work.op] = {"status", "target"}
           /\ \A d \in Calls : r[d].status = row[d].status
<1>1. work.op \in Calls /\ Started(work.op) /\ work.k \in Targets(work.op)
  BY Working
<1>2. /\ DOMAIN r = Calls /\ \A d \in Calls : d # work.op => r[d] = row[d]
      /\ DOMAIN r[work.op] = {"status", "target"}
      /\ r[work.op].status = row[work.op].status
  BY <1>1, SetTargetEffect DEF ComposeInv
<1> QED BY <1>1, <1>2

\* A status is settled by the last record of a commit, or at the end of a rollback.
Settling(c) ==
    /\ Busy /\ c = work.op /\ UNCHANGED <<file, plan>>
    /\ \/ Mark /\ Last /\ row'[c].status = "committed"
       \/ \E r : \E failed \in BOOLEAN :
             /\ Undoing /\ ~(work.k > 1) /\ Onward(r, failed)
             /\ row'[c].status = IF failed THEN "recovery_failed" ELSE "rolled_back"
             /\ \/ Restore /\ RestoreStep = "conflict" /\ failed
                \/ Unmark /\ failed = work.failed
                \/ Fault /\ failed

LEMMA WhoSettles ==
    ASSUME ComposeInv, [Next]_vars, NEW c \in Calls,
           row'[c].status # row[c].status, row'[c].status \in Settled
    PROVE  Settling(c)
<1>1. row' # row
  BY Zenon
<1>2. Begin \/ Prepare \/ Verify \/ Backup \/ Mark \/ Restore \/ Unmark \/ Fault
  BY <1>1, ZenonT(40) DEF Next, Work, vars, RecoverFirst, Write, CheckSource, Rename,
     Check, Judge, Put, Sweep, Crash, Rest, Edit,
     Preview, Inspect, Measure, Submit, CallRecover
<1>3. ~Begin
  <2>1. ASSUME Begin PROVE FALSE
    <3>1. row' = [row EXCEPT ![Runner] = Fresh(Runner)]
      BY <1>1, <2>1 DEF Begin
    <3>2. row'[c] = Fresh(Runner)
      BY <3>1 DEF ComposeInv, Shapes
    <3> QED BY <3>2 DEF Fresh, Settled
  <2> QED BY <2>1
<1>4. ~Prepare
  <2>1. ASSUME Prepare PROVE FALSE
    <3>1. PICK hasTemp : hasTemp = TRUE
      OBVIOUS
    <3>2. PICK r, s : /\ r = SetTarget("prepared", hasTemp, Absent)
                      /\ s = IF Last THEN "prepared" ELSE "preparing"
      OBVIOUS
    <3>3. Busy /\ work.step = "written"
      BY <2>1 DEF Prepare, Busy
    <3>4. row' = [r EXCEPT ![work.op].status = IF Last THEN "prepared" ELSE @]
      BY <1>1, <2>1, <3>1, <3>2 DEF Prepare, SetTarget
    <3>5. /\ work.op \in Calls /\ DOMAIN r = Calls /\ DOMAIN r[work.op] = {"status", "target"}
          /\ \A d \in Calls : r[d].status = row[d].status
      BY <3>2, <3>3, EntryKeepsStatus
    <3>6. row' = [r EXCEPT ![work.op].status = s]
      <4>1. row[work.op].status = "preparing"
        BY <3>3 DEF ComposeInv, JournalInv
      <4> QED BY <3>2, <3>4, <3>5, <4>1
    <3>7. row'[c].status = s
      BY <3>5, <3>6, OneStatus
    <3> QED BY <3>2, <3>7 DEF Settled
  <2> QED BY <2>1
<1>5. ~Verify
  <2>1. ASSUME Verify PROVE FALSE
    <3>1. Busy /\ work.step = "verify" /\ row' = [row EXCEPT ![work.op].status = "committing"]
      BY <1>1, <2>1 DEF Verify, Busy
    <3>2. PICK s : s = "committing"
      OBVIOUS
    <3>3. /\ work.op \in Calls /\ DOMAIN row = Calls /\ DOMAIN row[work.op] = {"status", "target"}
          /\ row' = [row EXCEPT ![work.op].status = s]
      BY <3>1, <3>2, Working DEF ComposeInv, Shapes
    <3>4. row'[c].status = s
      BY <3>3, OneStatus
    <3> QED BY <3>2, <3>4 DEF Settled
  <2> QED BY <2>1
<1>6. ~Backup
  <2>1. ASSUME Backup PROVE FALSE
    <3>1. PICK hasTemp, now : hasTemp = TRUE /\ now = file[Dest]
      OBVIOUS
    <3>2. PICK r : r = SetTarget("prepared", hasTemp, now)
      OBVIOUS
    <3>3. row' = r
      BY <2>1, <3>1, <3>2 DEF Backup
    <3>4. Busy /\ work.step = "backup"
      BY <2>1 DEF Backup, Busy
    <3>5. \A d \in Calls : r[d].status = row[d].status
      BY <3>2, <3>4, EntryKeepsStatus
    <3> QED BY <3>3, <3>5
  <2> QED BY <2>1
<1>7. CASE Mark
  <2>1. PICK hasTemp : hasTemp = FALSE
    OBVIOUS
  <2>2. PICK r, s : /\ r = SetTarget("committed", hasTemp, Target.backup)
                    /\ s = IF Last THEN "committed" ELSE "committing"
    OBVIOUS
  <2>3. Busy /\ work.step = "mark" /\ UNCHANGED <<file, plan>>
    BY <1>7 DEF Mark, Busy
  <2>4. row' = [r EXCEPT ![work.op].status = IF Last THEN "committed" ELSE @]
    BY <1>7, <2>1, <2>2 DEF Mark, SetTarget
  <2>5. /\ work.op \in Calls /\ DOMAIN r = Calls /\ DOMAIN r[work.op] = {"status", "target"}
        /\ \A d \in Calls : r[d].status = row[d].status
    BY <2>2, <2>3, EntryKeepsStatus
  <2>6. row' = [r EXCEPT ![work.op].status = s]
    <3>1. row[work.op].status = "committing"
      BY <2>3 DEF ComposeInv, JournalInv
    <3> QED BY <2>2, <2>4, <2>5, <3>1
  <2>7. c = work.op /\ row'[c].status = s
    BY <2>5, <2>6, OneStatus
  <2> QED BY <1>7, <2>2, <2>3, <2>7 DEF Settled, Settling
<1>8. ASSUME NEW r, Alike(r, work.op), NEW failed \in BOOLEAN, Onward(r, failed), Undoing, Busy
      PROVE  /\ c = work.op /\ ~(work.k > 1)
             /\ row'[c].status = IF failed THEN "recovery_failed" ELSE "rolled_back"
  <2>1. \A d \in Calls : r[d].status = row[d].status
    BY <1>8 DEF Alike
  <2>2. ~(work.k > 1)
    BY <1>8, <2>1 DEF Onward
  <2>3. PICK s : s = IF failed THEN "recovery_failed" ELSE "rolled_back"
    OBVIOUS
  <2>4. row' = [r EXCEPT ![work.op].status = s]
    BY <1>8, <2>2, <2>3 DEF Onward
  <2>5. row'[work.op].status = s /\ \A d \in Calls : d # work.op => row'[d] = r[d]
    BY <1>8, <2>4, Working, SetStatusEffect DEF Alike
  <2>6. c = work.op
    BY <2>1, <2>5
  <2> QED BY <2>2, <2>3, <2>5, <2>6
<1>9. ASSUME Busy PROVE Alike(row, work.op)
  BY <1>9, Working DEF Alike, Entry, ComposeInv, Shapes
<1>10. PICK yes \in BOOLEAN : yes = TRUE
  OBVIOUS
<1>11. CASE Restore
  <2>1. Busy /\ Undoing /\ RestoreStep = "conflict" /\ Onward(row, TRUE)
        /\ UNCHANGED <<file, plan>>
    BY <1>1, <1>11 DEF Restore, Busy, Undoing
  <2>2. Onward(row, yes)
    BY <1>10, <2>1 DEF Onward
  <2>3. /\ c = work.op /\ ~(work.k > 1)
        /\ row'[c].status = IF yes THEN "recovery_failed" ELSE "rolled_back"
    BY <1>8, <1>9, <2>1, <2>2
  <2> QED BY <1>10, <1>11, <2>1, <2>2, <2>3 DEF Settling
<1>12. CASE Fault
  <2>1. work.step \in {"judge", "restore", "put", "sweep"} /\ Onward(row, TRUE)
        /\ UNCHANGED <<file, plan>>
    BY <1>1, <1>12 DEF Fault
  <2>2. Busy /\ Undoing
    BY <2>1 DEF Busy, Undoing
  <2>3. Onward(row, yes)
    BY <1>10, <2>1 DEF Onward
  <2>4. /\ c = work.op /\ ~(work.k > 1)
        /\ row'[c].status = IF yes THEN "recovery_failed" ELSE "rolled_back"
    BY <1>8, <1>9, <2>2, <2>3
  <2> QED BY <1>10, <1>12, <2>1, <2>2, <2>3, <2>4 DEF Settling
<1>13. CASE Unmark
  <2>1. Busy /\ Undoing /\ UNCHANGED <<file, plan>>
    BY <1>13 DEF Unmark, Busy, Undoing
  <2>2. PICK hasTemp : hasTemp = FALSE
    OBVIOUS
  <2>3. PICK r : r = SetTarget("rolled_back", hasTemp, Entry(work.op, work.k).backup)
    OBVIOUS
  <2>4. PICK failed \in BOOLEAN : failed = work.failed
    BY DEF ComposeInv, Shapes, Works
  <2>5. Onward(r, failed)
    BY <1>13, <2>2, <2>3, <2>4 DEF Unmark, Onward, SetTarget, Target, Entry
  <2>6. Alike(r, work.op)
    BY <1>13, <2>3, UnmarkAlike
  <2>7. /\ c = work.op /\ ~(work.k > 1)
        /\ row'[c].status = IF failed THEN "recovery_failed" ELSE "rolled_back"
    BY <1>8, <2>1, <2>5, <2>6
  <2> QED BY <1>13, <2>1, <2>4, <2>5, <2>7 DEF Settling
<1> QED BY <1>2, <1>3, <1>4, <1>5, <1>6, <1>7, <1>11, <1>12, <1>13

\* file_compose.js: commit and rollbackOperation.  What settles an operation leaves its
\* destinations as a whole: committed, each holds its output; rolled back, what it held.
THEOREM WholeOrNot == Spec => AllOrNothing
<1> DEFINE Whole ==
        \A c \in Calls : \A k \in Targets(c) :
          LET now == file'[Writes[c][k]] IN
          /\ Becomes(c, "committed") => now = Make(c, k, plan[c].asked.source) \/ IsEdit(now)
          /\ Becomes(c, "rolled_back") =>
                \/ now = plan[c].found.prior[k] \/ IsEdit(now)
                \/ row[c].status # "committing" /\ now # plan[c].found.result[k]
<1>1. ASSUME ComposeInv, [Next]_vars PROVE Whole
  <2>1. ASSUME NEW c \in Calls, NEW k \in Targets(c), Becomes(c, "committed")
        PROVE  file'[Writes[c][k]] = Make(c, k, plan[c].asked.source)
               \/ IsEdit(file'[Writes[c][k]])
    <3>1. row'[c].status = "committed" /\ row'[c].status # row[c].status
      BY <2>1 DEF Becomes
    <3>2. Settling(c)
      BY <1>1, <3>1, WhoSettles DEF Settled
    <3>3. Busy /\ c = work.op /\ UNCHANGED <<file, plan>> /\ Mark /\ Last
      BY <3>1, <3>2 DEF Settling
    <3>4. /\ work.step = "mark" /\ Started(c) /\ work.k = Len(Writes[c])
          /\ Targets(c) = 1..Len(Writes[c]) /\ Len(Writes[c]) \in Nat
      BY <1>1, <3>3, Working, Paths DEF Mark, Last
    <3>5. \A j \in Targets(c) : j < work.k \/ j = work.k
      BY <3>4
    <3>6. Done(c, k)
      BY <1>1, <3>3, <3>4, <3>5 DEF ComposeInv, ForwardInv
    <3>7. Result(c, k) = Make(c, k, plan[c].asked.source)
      BY <1>1, <3>4, Outputs DEF ComposeInv
    <3> QED BY <3>3, <3>6, <3>7 DEF Done, Current
  <2>2. ASSUME NEW c \in Calls, NEW k \in Targets(c), Becomes(c, "rolled_back")
        PROVE  \/ file'[Writes[c][k]] = plan[c].found.prior[k] \/ IsEdit(file'[Writes[c][k]])
               \/ row[c].status # "committing"
                  /\ file'[Writes[c][k]] # plan[c].found.result[k]
    <3>1. row'[c].status = "rolled_back" /\ row'[c].status # row[c].status
      BY <2>2 DEF Becomes
    <3>2. Settling(c)
      BY <1>1, <3>1, WhoSettles DEF Settled
    <3>3. /\ Busy /\ c = work.op /\ UNCHANGED <<file, plan>>
          /\ Unmark /\ ~work.failed /\ ~(work.k > 1)
      BY <3>1, <3>2 DEF Settling
    <3>4. /\ work.step = "unmark" /\ Undoing /\ Started(c) /\ c \in Pending
          /\ work.k \in Targets(c) /\ Targets(c) = 1..Len(Writes[c]) /\ Len(Writes[c]) \in Nat
      BY <1>1, <3>3, Working, Paths DEF Unmark, Undoing
    <3>5. \A j \in Targets(c) : j > work.k \/ j = work.k
      BY <3>3, <3>4
    <3>6. Undone(c, k)
      BY <1>1, <3>3, <3>4, <3>5 DEF ComposeInv, BackwardInv
    <3>7. CASE Held(c, k)
      BY <3>3, <3>7 DEF Held, Current, Prior
    <3>8. CASE row[c].status # "committing"
      <4>1. ~Made(Current(c, k), c)
        BY <1>1, <3>4, <3>8 DEF ComposeInv, TargetInv
      <4>2. Made(Result(c, k), c)
        BY <1>1, <3>4, Outputs DEF ComposeInv
      <4> QED BY <3>3, <3>8, <4>1, <4>2 DEF Current, Result
    <3> QED BY <3>6, <3>7, <3>8 DEF Undone
  <2> QED BY <2>1, <2>2
<1> HIDE DEF Whole
<1>2. ComposeInv /\ [Next]_vars => [Whole]_vars
  BY <1>1
<1>3. AllOrNothing <=> [][Whole]_vars
  BY DEF AllOrNothing, Whole
<1> QED BY <1>2, <1>3, ComposeAlways, PTL DEF Spec

\* rollbackOperation and recoverPending: cut off by a crash at any step, the rollback can
\* be done again, and fails only where a destination was written by someone else.
THEOREM UndoneAgain == Spec => RollbackRepeats
<1> DEFINE Again ==
        \A c \in Calls : Becomes(c, "recovery_failed") /\ faults' = 0 =>
            \E k \in Targets(c) : IsEdit(file[Writes[c][k]])
                                  /\ file[Writes[c][k]] # plan[c].found.prior[k]
<1>1. ASSUME ComposeInv, [Next]_vars PROVE Again
  <2>1. ASSUME NEW c \in Calls, Becomes(c, "recovery_failed"), faults' = 0
        PROVE  \E k \in Targets(c) : Foreign(c, k)
    <3>1. row'[c].status = "recovery_failed" /\ row'[c].status # row[c].status
      BY <2>1 DEF Becomes
    <3>2. Settling(c)
      BY <1>1, <3>1, WhoSettles DEF Settled
    <3>3. ~Fault
      <4>1. faults \in Nat
        BY <1>1, ComposeBounds DEF ComposeInv, Shapes, ComposeBounds
      <4>2. Fault => faults' = faults + 1
        BY DEF Fault
      <4> QED BY <2>1, <4>1, <4>2
    <3>4. /\ Busy /\ c = work.op
          /\ (Restore /\ RestoreStep = "conflict") \/ (Unmark /\ work.failed)
      BY <3>1, <3>2, <3>3 DEF Settling
    <3>5. PICK k \in Nat : k = work.k
      BY <1>1, <3>4, Working
    <3>6. CASE Restore /\ RestoreStep = "conflict"
      <4>1. k \in Targets(c)
        BY <1>1, <3>4, <3>5, <3>6, Working DEF Restore
      <4>2. Foreign(c, k)
        BY <1>1, <3>4, <3>5, <3>6, ConflictIsForeign
      <4> QED BY <4>1, <4>2
    <3>7. CASE Unmark /\ work.failed
      <4>1. Undoing /\ faults = 0
        BY <2>1, <3>7 DEF Unmark, Undoing, bounds
      <4> QED BY <1>1, <3>4, <3>7, <4>1 DEF ComposeInv, BackwardInv
    <3> QED BY <3>4, <3>6, <3>7
  <2> QED BY <2>1 DEF Foreign, Current, Prior
<1> HIDE DEF Again
<1>2. ComposeInv /\ [Next]_vars => [Again]_vars
  BY <1>1
<1>3. RollbackRepeats <=> [][Again]_vars
  BY DEF RollbackRepeats, Again
<1> QED BY <1>2, <1>3, ComposeAlways, PTL DEF Spec

=============================================================================
