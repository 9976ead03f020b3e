------------------------- MODULE ProcessJobsProofs -------------------------
(***************************************************************************)
(* Theorems about ProcessJobs, for every number of instances, jobs and     *)
(* keys and every setting of the limits.  The first part is about the      *)
(* record: types, the ledger that the jobs' rows keep, idempotency keys,   *)
(* recovery by lease.  The second part is about what an instance has in    *)
(* memory: what it launches, that its jobs, its queue and its children     *)
(* agree with their rows, that it uses its slots, what it leaves behind.   *)
(***************************************************************************)
EXTENDS ProcessJobs, FiniteSetTheorems, SequenceTheorems, TLAPS

\* Facts about the sequences the model keeps: what pruning, splicing and
\* queueing leave is a sequence of the same elements.
LEMMA AppendType ==
    ASSUME NEW S, NEW q \in Seq(S), NEW e \in S
    PROVE  Append(q, e) \in Seq(S)
  BY AppendProperties

LEMMA SubSeqType ==
    ASSUME NEW S, NEW q \in Seq(S), NEW n \in 0..Len(q)
    PROVE  SubSeq(q, n + 1, Len(q)) \in Seq(S) /\ ToSet(SubSeq(q, 1, n)) \subseteq S
  <1>1. SubSeq(q, n + 1, Len(q)) \in Seq(S)
    BY SubSeqProperties, LenProperties, SMT
  <1>2. SubSeq(q, 1, n) \in Seq(S)
    BY SubSeqProperties, LenProperties, SMT
  <1>. QED BY <1>1, <1>2 DEF ToSet

LEMMA RemoveAtType ==
    ASSUME NEW S, NEW q \in Seq(S), NEW n \in 1..Len(q)
    PROVE  RemoveAt(q, n) \in Seq(S)
  <1>1. Len(q) \in Nat /\ \A m \in 1..Len(q) : q[m] \in S
    BY LenProperties
  <1>2. SubSeq(q, 1, n - 1) \in Seq(S)
    BY <1>1, SubSeqProperties, SMT
  <1>3. SubSeq(q, n + 1, Len(q)) \in Seq(S)
    BY <1>1, SubSeqProperties, SMT
  <1>. QED BY <1>2, <1>3, ConcatProperties DEF RemoveAt

LEMMA WithoutType ==
    ASSUME NEW S, NEW q \in Seq(S), NEW j
    PROVE  Without(q, j) \in Seq(S)
  <1>1. CASE \E n \in DOMAIN q : q[n] = j
    <2>1. (CHOOSE n \in DOMAIN q : q[n] = j) \in 1..Len(q)
      BY <1>1, LenProperties
    <2>. QED BY <1>1, <2>1, RemoveAtType DEF Without
  <1>2. CASE ~ \E n \in DOMAIN q : q[n] = j
    BY <1>2 DEF Without
  <1>. QED BY <1>1, <1>2

-----------------------------------------------------------------------------
(* Types                                                                   *)

LEMMA StageNames ==
    \A stage \in {"idle", "prune", "lookup", "verify", "corrupt", "insert", "pump",
                  "spawn", "drop", "cancel", "foreign", "shutdown",
                  "refresh", "scan", "reconcile"} : stage \in Stages
  BY DEF Stages

LEMMA CallerNames ==
    /\ "idle" \in Callers /\ "lookup" \in Callers /\ "insert" \in Callers
    /\ "cancel" \in Callers /\ "pump" \in Callers
    /\ \A next \in Callers : next \in Stages /\ next # "spawn"
  BY SMTT(40) DEF Stages, Callers

LEMMA IdleType ==
    /\ Idle \in Frames
    /\ \A stage \in {"corrupt", "pump", "refresh", "scan", "shutdown"} :
          /\ [Idle EXCEPT !.at = stage] \in Frames
          /\ \A b \in BOOLEAN : [Idle EXCEPT !.at = stage, !.fatal = b] \in Frames
          /\ \A D \in SUBSET Jobs : [Idle EXCEPT !.at = stage, !.todo = D] \in Frames
  BY ZenonT(60), StageNames, CallerNames DEF Idle, Frames, Fields, OnJob

LEMMA FrameFields ==
    ASSUME TypeOK, NEW i \in Instances
    PROVE  /\ pc[i] \in Frames /\ pc[i] \in Fields
           /\ pc[i].at \in Stages /\ pc[i].next \in Callers
           /\ pc[i].job \in Jobs \cup {None} /\ pc[i].key \in Keys \cup {None}
           /\ pc[i].todo \in SUBSET Jobs /\ pc[i].fatal \in BOOLEAN
           /\ pc[i].at \in OnJob \/ pc[i].next \in OnJob => pc[i].job \in Jobs
           /\ pc[i].at = "lookup" \/ pc[i].next = "lookup" => pc[i].key \in Keys
           /\ pc[i].at # "prune" => pc[i].next = "idle"
  BY DEF TypeOK, Frames, Fields

\* What prune() is called with: where to go on, for which key or job.
LEMMA PruningType ==
    ASSUME TypeOK, NEW i \in Instances
    PROVE  /\ Pruning(i, "idle") \in Frames
           /\ [Pruning(i, "insert") EXCEPT !.key = None] \in Frames
           /\ \A k \in Keys : /\ [Pruning(i, "insert") EXCEPT !.key = k] \in Frames
                              /\ [Pruning(i, "lookup") EXCEPT !.key = k] \in Frames
           /\ \A j \in Jobs : [Pruning(i, "cancel") EXCEPT !.job = j] \in Frames
           /\ [Pruning(i, "pump") EXCEPT !.job = None] \in Frames
           /\ [Pruning(i, "pump") EXCEPT !.fatal = TRUE] \in Frames
           /\ \A j \in Jobs, D \in SUBSET Jobs :
                [Pruning(i, "cancel") EXCEPT !.job = j, !.todo = D] \in Frames
  BY ZenonT(60), FrameFields, StageNames, CallerNames DEF Pruning, Frames, Fields, OnJob

LEMMA GotoType ==
    ASSUME TypeOK, NEW i \in Instances, NEW f \in Frames, Goto(i, f)
    PROVE  pc' \in [Instances -> Frames]
  BY DEF TypeOK, Goto

\* A step that only moves the handler on.
LEMMA SilentType ==
    ASSUME TypeOK, pc' \in [Instances -> Frames],
           UNCHANGED <<database, leases, phase, memory, children>>
    PROVE  TypeOK'
  BY DEF leases, TypeOK, database, memory, children

LEMMA EndRowType ==
    ASSUME TypeOK, NEW j \in Jobs, NEW s \in Terminal, EndRow(j, s)
    PROVE  status' \in [Jobs -> Statuses] /\ ended' \in Seq(Jobs)
  <1>1. ended' \in Seq(Jobs)
    BY AppendType DEF TypeOK, EndRow
  <1>. QED BY <1>1 DEF TypeOK, EndRow, Statuses

LEMMA ReturnType ==
    ASSUME TypeOK, NEW i \in Instances, Return(i)
    PROVE  pc' \in [Instances -> Frames]
  BY IdleType, FrameFields, GotoType DEF Return

LEMMA DieType ==
    ASSUME TypeOK, NEW i \in Instances, NEW how \in Dead, Die(i, how)
    PROVE  TypeOK'
  <1>1. queue' \in [Instances -> Seq(Jobs)]
    BY SMTT(40) DEF TypeOK, Die
  <1>2. pc' \in [Instances -> Frames]
    BY IdleType DEF TypeOK, Die, Goto
  <1>3. phase' \in [Instances -> {"down"} \cup Live \cup Dead]
    BY DEF TypeOK, Die
  <1>. QED BY <1>1, <1>2, <1>3 DEF leases, TypeOK, Die, database

LEMMA FinishType ==
    ASSUME TypeOK, NEW j \in Jobs, NEW s \in Terminal,
           FinishRow(j, s) \/ FinishThrows(j)
    PROVE  /\ status' \in [Jobs -> Statuses]
           /\ ended' \in Seq(Jobs)
           /\ UNCHANGED <<started, keyOf, mapping>>
  BY EndRowType DEF TypeOK, FinishRow, FinishThrows, database

LEMMA PruneType ==
    ASSUME TypeOK, NEW i \in Instances, NEW n \in 0..Len(ended), PruneOldest(i, n)
    PROVE  /\ status' \in [Jobs -> Statuses]
           /\ ended' \in Seq(Jobs)
           /\ mapping' \in [Keys -> Jobs \cup {None}]
           /\ held' \in SUBSET Jobs
  BY SubSeqType DEF TypeOK, PruneOldest, Statuses

\* Type correctness of one step of one instance, action by action.
LEMMA TypeStep ==
    ASSUME TypeOK, NEW i \in Instances,
           Request(i) \/ HandlerStep(i) \/ ChildEvent(i) \/ Lifecycle(i)
    PROVE  TypeOK'
  <1>1. ASSUME NEW k \in Keys \cup {None}, Start(i, k) PROVE TypeOK'
    BY <1>1, ModelValues, PruningType, GotoType, SilentType DEF Start
  <1>2. CASE Read(i)
    BY <1>2, PruningType, GotoType, SilentType DEF Read
  <1>3. ASSUME NEW j \in Jobs, Cancel(i, j) PROVE TypeOK'
    BY <1>3, PruningType, GotoType, SilentType DEF Cancel
  <1>4. CASE Prune(i)
    <2>1. CASE StoreMayFail /\ Throw(i)
      BY <2>1, ReturnType, DieType, SilentType DEF Throw, Dead
    <2>2. ASSUME NEW n \in 0..Len(ended), PruneOldest(i, n),
                 IF pc[i].next = "idle" THEN Return(i)
                 ELSE Goto(i, [pc[i] EXCEPT !.at = pc[i].next, !.next = "idle"]),
                 UNCHANGED <<leases, phase, home, mem, queue, children>>
          PROVE  TypeOK'
      <3>1. [pc[i] EXCEPT !.at = pc[i].next, !.next = "idle"] \in Frames
        BY StageNames, CallerNames, FrameFields DEF Frames, Fields, OnJob
      <3>2. pc' \in [Instances -> Frames]
        BY <2>2, <3>1, ReturnType, GotoType
      <3>. QED BY <2>2, <3>2, PruneType DEF leases, TypeOK, PruneOldest, children
    <2>. QED BY <1>4, <2>1, <2>2 DEF Prune
  <1>5. CASE Lookup(i)
    <2>. DEFINE known == mapping[pc[i].key]
    <2>1. known \in Jobs \cup {None}
      BY <1>5, FrameFields DEF Lookup, At, TypeOK
    <2>2. /\ [pc[i] EXCEPT !.at = "insert"] \in Frames
          /\ known # None => [pc[i] EXCEPT !.at = "verify", !.job = known] \in Frames
      BY <1>5, <2>1, StageNames, CallerNames, FrameFields DEF Lookup, At, Frames, Fields, OnJob
    <2>. QED BY <1>5, <2>2, GotoType, SilentType DEF Lookup
  <1>6. CASE Verify(i)
    BY <1>6, IdleType, GotoType, SilentType DEF Verify
  <1>7. CASE ReportCorrupt(i)
    BY <1>7, ReturnType, SilentType DEF ReportCorrupt
  <1>8. CASE Create(i)
    <2>1. ASSUME NEW j \in Jobs, Insert(i, j), UNCHANGED <<leases, phase, children>>
          PROVE  TypeOK'
      <3>1. pc' \in [Instances -> Frames]
        BY <2>1, IdleType, GotoType DEF Insert
      <3>2. queue' \in [Instances -> Seq(Jobs)]
        BY <2>1, AppendType DEF TypeOK, Insert
      <3>3. mapping' \in [Keys -> Jobs \cup {None}]
        BY <2>1 DEF TypeOK, Insert
      <3>. QED BY SMTT(40), <2>1, <3>1, <3>2, <3>3, FrameFields
               DEF leases, TypeOK, Insert, children, Statuses, Active
    <2>2. ASSUME Refused(i), UNCHANGED <<leases, phase, children>>
          PROVE  TypeOK'
      BY <2>2, IdleType, GotoType, SilentType DEF Refused
    <2>. QED BY <1>8, <2>1, <2>2 DEF Create
  <1>9. CASE Pump(i)
    <2>1. CASE PumpStops(i)
      BY <1>9, <2>1, ReturnType, SilentType DEF Pump
    <2>2. CASE ~PumpStops(i)
      <3>. DEFINE j == Head(queue[i])
      <3>1. j \in Jobs /\ Tail(queue[i]) \in Seq(Jobs)
        BY <2>2, HeadTailProperties DEF TypeOK, PumpStops
      <3>2. queue' \in [Instances -> Seq(Jobs)]
        BY <1>9, <2>2, <3>1 DEF Pump, TypeOK
      <3>3. /\ [pc[i] EXCEPT !.at = "spawn", !.job = j] \in Frames
            /\ [pc[i] EXCEPT !.at = "drop", !.job = j] \in Frames
        BY <1>9, <3>1, StageNames, CallerNames, FrameFields DEF Pump, At, Frames, Fields, OnJob
      <3>4. CASE MarkRunning(i, j)
        <4>1. pc' \in [Instances -> Frames]
          BY <3>3, <3>4, GotoType DEF MarkRunning
        <4>. QED BY <1>9, <2>2, <3>1, <3>2, <3>4, <4>1
                 DEF leases, Pump, MarkRunning, TypeOK, Statuses, Active, children
      <3>5. CASE LaunchFails(i, j)
        <4>1. pc' \in [Instances -> Frames]
          BY <3>3, <3>5, GotoType DEF LaunchFails
        <4>. QED BY <1>9, <2>2, <3>1, <3>2, <3>5, <4>1
                 DEF leases, Pump, LaunchFails, TypeOK, children
      <3>6. CASE UNCHANGED <<status, started, mem, pc>>
        BY <1>9, <2>2, <3>2, <3>6 DEF leases, Pump, TypeOK, children
      <3>. QED BY <1>9, <2>2, <3>4, <3>5, <3>6 DEF Pump
    <2>. QED BY <2>1, <2>2
  <1>10. CASE Spawn(i)
    <2>1. pc[i].job \in Jobs
      BY <1>10, FrameFields DEF Spawn, At, OnJob
    <2>2. [pc[i] EXCEPT !.at = "pump", !.job = None] \in Frames
      BY <1>10, StageNames, CallerNames, FrameFields DEF Spawn, At, Frames, Fields, OnJob
    <2>3. pc' \in [Instances -> Frames]
      BY <1>10, <2>2, GotoType DEF Spawn
    <2>. QED BY <1>10, <2>1, <2>3 DEF leases, Spawn, TypeOK, database, memory, Results
  <1>11. CASE Drop(i)
    <2>1. pc[i].job \in Jobs
      BY <1>11, FrameFields DEF Drop, At, OnJob
    <2>2. pc' \in [Instances -> Frames]
      BY <1>11, PruningType, GotoType DEF Drop
    <2>3. "spawn_error" \in Terminal
      BY DEF Terminal, Results
    <2>. QED BY <1>11, <2>1, <2>2, <2>3, FinishType DEF leases, Drop, TypeOK, memory, children
  <1>12. CASE CancelJob(i)
    <2>. DEFINE j == pc[i].job
    <2>1. j \in Jobs /\ UNCHANGED <<leases, phase>>
      BY <1>12, FrameFields DEF CancelJob, At, OnJob
    <2>2. CASE CancelQueued(i, j)
      <3>1. pc' \in [Instances -> Frames]
        BY <2>2, PruningType, ReturnType, GotoType DEF CancelQueued
      <3>2. queue' \in [Instances -> Seq(Jobs)]
        BY <2>2, WithoutType DEF CancelQueued, TypeOK
      <3>3. "cancelled" \in Terminal
        BY DEF Terminal, Results
      <3>4. /\ status' \in [Jobs -> Statuses] /\ ended' \in Seq(Jobs)
            /\ UNCHANGED <<started, keyOf, mapping>>
        BY <2>1, <2>2, <3>3, FinishType DEF CancelQueued
      <3>. QED BY <2>1, <2>2, <3>1, <3>2, <3>4 DEF leases, CancelQueued, TypeOK, children
    <2>3. CASE CancelRunning(i, j)
      <3>1. pc' \in [Instances -> Frames]
        BY <2>3, ReturnType DEF CancelRunning
      <3>. QED BY <2>1, <2>3, <3>1 DEF leases, CancelRunning, TypeOK, database, memory
    <2>4. CASE CancelElse(i, j)
      <3>1. [pc[i] EXCEPT !.at = "foreign"] \in Frames
        BY <1>12, <2>1, StageNames, CallerNames, FrameFields
           DEF CancelJob, At, Frames, Fields, OnJob
      <3>. QED BY <2>1, <2>4, <3>1, ReturnType, GotoType, SilentType DEF CancelElse
    <2>. QED BY <1>12, <2>2, <2>3, <2>4 DEF CancelJob
  <1>13. CASE CancelForeign(i)
    <2>1. pc[i].job \in Jobs
      BY <1>13, FrameFields DEF CancelForeign, At, OnJob
    <2>2. pc' \in [Instances -> Frames]
      BY <1>13, PruningType, ReturnType, GotoType DEF CancelForeign
    <2>3. "cancelled" \in Terminal
      BY DEF Terminal, Results
    <2>4. /\ status' \in [Jobs -> Statuses] /\ ended' \in Seq(Jobs)
          /\ UNCHANGED <<started, keyOf, mapping>>
      BY <1>13, <2>1, <2>3, FinishType DEF CancelForeign
    <2>. QED BY <1>13, <2>2, <2>4 DEF leases, CancelForeign, TypeOK, memory, children
  <1>14. CASE Refresh(i)
    <2>1. CASE StoreMayFail /\ Throw(i)
      BY <2>1, ReturnType, DieType, SilentType DEF Throw, Dead
    <2>2. CASE ~(StoreMayFail /\ Throw(i))
      <3>1. [pc[i] EXCEPT !.at = "scan"] \in Frames
        BY <1>14, StageNames, CallerNames, FrameFields DEF Refresh, At, Frames, Fields, OnJob
      <3>2. pc' \in [Instances -> Frames]
        BY <1>14, <2>2, <3>1, GotoType DEF Refresh
      <3>3. newer' \in [Instances -> SUBSET Instances]
        <4>1. newer' = [o \in Instances |->
                 IF o = i THEN {}
                 ELSE IF RenewalRaces /\ pc[o].at \in {"scan", "reconcile"}
                      THEN newer[o] \cup {i} ELSE newer[o]]
          BY <1>14, <2>2 DEF Refresh
        <4>2. \A o \in Instances : newer[o] \cup {i} \subseteq Instances
          BY DEF TypeOK
        <4>. QED BY <4>1, <4>2 DEF TypeOK
      <3>. QED BY <1>14, <2>2, <3>2, <3>3 DEF Refresh, TypeOK, database, memory, children
    <2>. QED BY <2>1, <2>2
  <1>15. CASE Scan(i)
    <2>. DEFINE D == {j \in Jobs : status[j] \in Active /\ home[j] # i}
    <2>1. [pc[i] EXCEPT !.at = "reconcile", !.todo = D] \in Frames
      BY ZenonT(60), <1>15, StageNames, CallerNames, FrameFields DEF Scan, At, Frames, Fields, OnJob
    <2>. QED BY <1>15, <2>1, GotoType, SilentType DEF Scan
  <1>16. CASE Reconcile(i)
    <2>1. CASE pc[i].todo = {}
      <3>1. \/ Goto(i, Idle) /\ UNCHANGED <<database, leases, phase, memory, children>>
            \/ FALSE
        BY <1>16, <2>1 DEF Reconcile
      <3>. QED BY <3>1, IdleType, GotoType, SilentType
    <2>2. ASSUME NEW j \in pc[i].todo,
                 \/ EndRow(j, "interrupted")
                 \/ UNCHANGED <<status, ended>>,
                 Goto(i, [pc[i] EXCEPT !.todo = @ \ {j}]),
                 UNCHANGED <<started, keyOf, mapping, leases, phase, memory, children>>
          PROVE  TypeOK'
      <3>1. [pc[i] EXCEPT !.todo = @ \ {j}] \in Frames
        BY FrameFields DEF Frames, Fields, OnJob
      <3>2. pc' \in [Instances -> Frames]
        BY <2>2, <3>1, GotoType
      <3>3. j \in Jobs /\ "interrupted" \in Terminal
        BY FrameFields DEF Terminal
      <3>4. status' \in [Jobs -> Statuses] /\ ended' \in Seq(Jobs)
        BY SMTT(40), <2>2, <3>3, EndRowType DEF TypeOK
      <3>. QED BY <2>2, <3>2, <3>4 DEF leases, TypeOK, memory, children
    <2>. QED BY <1>16, <2>1, <2>2 DEF Reconcile
  <1>17. CASE ReconcileFails(i)
    BY ZenonT(60), <1>17, IdleType, GotoType, SilentType, DieType DEF ReconcileFails, Dead
  <1>18. CASE ShutdownNext(i)
    <2>1. ASSUME NEW j \in pc[i].todo
          PROVE  [Pruning(i, "cancel") EXCEPT !.job = j, !.todo = @ \ {j}] \in Frames
      BY StageNames, CallerNames, FrameFields DEF Pruning, Frames, Fields, OnJob
    <2>. QED BY <1>18, <2>1, IdleType, GotoType, SilentType DEF ShutdownNext
  <1>19. CASE ChildEvent(i)
    <2>1. PICK j \in Jobs : TimeoutFires(i, j) \/ ChildCloses(i, j) \/ Deliver(i, j)
      BY <1>19 DEF ChildEvent
    <2>2. CASE TimeoutFires(i, j)
      BY <2>2 DEF leases, TimeoutFires, TypeOK, database, memory
    <2>3. CASE ChildCloses(i, j)
      BY <2>3 DEF leases, ChildCloses, TypeOK, database, memory, Results
    <2>4. CASE Deliver(i, j)
      <3>1. pc' \in [Instances -> Frames]
        BY <2>4, PruningType, GotoType DEF Deliver
      <3>2. verdict[j] \in Terminal
        BY <2>4 DEF Deliver, TypeOK, Terminal
      <3>3. /\ status' \in [Jobs -> Statuses] /\ ended' \in Seq(Jobs)
            /\ UNCHANGED <<started, keyOf, mapping>>
        BY <2>4, <3>2, FinishType DEF Deliver
      <3>. QED BY <2>4, <3>1, <3>3 DEF leases, Deliver, TypeOK
    <2>. QED BY <2>1, <2>2, <2>3, <2>4
  <1>20. CASE Lifecycle(i)
    <2>1. CASE Boot(i)
      <3>1. pc' \in [Instances -> Frames]
        BY <2>1, IdleType, GotoType DEF Boot
      <3>. QED BY <2>1, <3>1 DEF leases, Boot, TypeOK, Live, database, memory, children
    <2>2. CASE Heartbeat(i)
      BY <2>2, IdleType, GotoType, SilentType DEF Heartbeat
    <2>3. CASE LeaseLapses(i)
      BY <2>3 DEF LeaseLapses, TypeOK, database, memory, children
    <2>4. CASE Shutdown(i)
      <3>. DEFINE D == {j \in held : home[j] = i /\ mem[j] \in Active}
      <3>1. D \in SUBSET Jobs
        BY DEF TypeOK
      <3>2. pc' \in [Instances -> Frames]
        BY <2>4, <3>1, IdleType, GotoType DEF Shutdown
      <3>. QED BY <2>4, <3>2 DEF leases, Shutdown, TypeOK, Live, database, memory, children
    <2>5. CASE Exit(i) \/ Crash(i)
      BY <2>5, DieType DEF Exit, Crash, Dead
    <2>. QED BY <1>20, <2>1, <2>2, <2>3, <2>4, <2>5 DEF Lifecycle
  <1>. QED BY <1>1, <1>2, <1>3, <1>4, <1>5, <1>6, <1>7, <1>8, <1>9, <1>10, <1>11,
              <1>12, <1>13, <1>14, <1>15, <1>16, <1>17, <1>18, <1>19, <1>20
           DEF Request, HandlerStep

\* The initial state: an empty database and no server started.
LEMMA InitType == ASSUME Init PROVE TypeOK
  <1>1. <<>> \in Seq(Jobs)
    BY EmptySeq
  <1>2. ended \in Seq(Jobs) /\ queue \in [Instances -> Seq(Jobs)]
    BY <1>1 DEF Init
  <1>3. status \in [Jobs -> Statuses]
    BY SMTT(40) DEF Init, Statuses
  <1>4. pc \in [Instances -> Frames]
    BY IdleType DEF Init
  <1>. QED BY <1>1, <1>2, <1>3, <1>4 DEF Init, TypeOK

\* Every variable always has its type, and a handler never gets to a step
\* without the job or the key that step works on.
THEOREM TypeCorrect == Spec => []TypeOK
  <1>1. Init => TypeOK
    BY InitType
  <1>2. TypeOK /\ [Next]_vars => TypeOK'
    <2>1. ASSUME TypeOK, NEW j \in Jobs, ChildDies(j) PROVE TypeOK'
      BY <2>1 DEF leases, ChildDies, TypeOK, database, memory
    <2>2. ASSUME TypeOK, UNCHANGED vars PROVE TypeOK'
      BY <2>2 DEF leases, vars, TypeOK, database, memory, children
    <2>. QED BY <2>1, <2>2, TypeStep DEF Next
  <1>. QED BY <1>1, <1>2, PTL DEF Spec

-----------------------------------------------------------------------------
(* The ledger that the rows keep                                           *)

\* A job that was ever running left the queue for good, and only such a job is
\* running in memory or has a process.
Recorded ==
    \A j \in Jobs :
        /\ j \in started => status[j] \notin {"unborn", "queued"}
        /\ mem[j] = "running" => j \in started
        /\ proc[j] # "none" => j \in started

\* The job a handler is about to spawn is its instance's own and has no process.
AboutToSpawn ==
    \A i \in Instances : pc[i].at = "spawn" =>
        /\ mem[pc[i].job] = "running"
        /\ home[pc[i].job] = i
        /\ proc[pc[i].job] = "none"

\* An instance queues only jobs it created.
OwnQueue ==
    \A i \in Instances :
        queue[i] \in Seq({j \in Jobs : home[j] = i /\ status[j] # "unborn"})

\* What prune() may delete: terminal rows, each listed once.
EndedRows ==
    /\ ended \in Seq({j \in Jobs : status[j] \in Terminal})
    /\ \A m, n \in 1..Len(ended) : ended[m] = ended[n] => m = n

LedgerInv == TypeOK /\ Recorded /\ AboutToSpawn /\ OwnQueue /\ EndedRows

-----------------------------------------------------------------------------
(* The ledger steps the model takes                                        *)

\* The kinds of rows differ.
LEMMA StatusKinds ==
    /\ Active \cap Terminal = {}
    /\ {"unborn", "pruned"} \cap (Active \cup Terminal) = {}
    /\ {"cancelled", "spawn_error", "interrupted"} \subseteq Terminal
  BY DEF Active, Terminal, Results

\* EndRow is the ledger's End, and a row it ends joins the ones prune() sees.
LEMMA EndRowLedger ==
    ASSUME TypeOK, EndedRows, NEW j \in Jobs, NEW s \in Terminal,
           status[j] \in Active,
           status[j] = "queued" => s \in {"cancelled", "interrupted", "spawn_error"},
           EndRow(j, s), UNCHANGED <<started, proc>>
    PROVE  EndedRows' /\ Ledger!Next
  <1>. DEFINE T == {k \in Jobs : status[k] \in Terminal}
  <1>1. ended \in Seq(T) /\ j \notin T
    BY StatusKinds DEF EndedRows
  <1>2. status' \in [Jobs -> Statuses] /\ status' = [status EXCEPT ![j] = s]
    BY EndRowType DEF EndRow
  <1>3. T \cup {j} = T'
    BY <1>2 DEF TypeOK
  <1>4. ended \in Seq(T \cup {j}) /\ ended' = Append(ended, j)
    BY <1>1, SeqMonotonic DEF EndRow
  <1>5. /\ ended' \in Seq(T') /\ Len(ended) \in Nat /\ Len(ended') = Len(ended) + 1
        /\ \A m \in 1..Len(ended) : ended'[m] = ended[m] /\ ended[m] \in T
        /\ ended'[Len(ended) + 1] = j
    BY <1>1, <1>3, <1>4, AppendProperties, LenProperties
  <1>6. \A m, n \in 1..Len(ended') : ended'[m] = ended'[n] => m = n
    BY <1>1, <1>5, SMT DEF EndedRows
  <1>7. EndedRows'
    BY <1>5, <1>6 DEF EndedRows
  <1>8. Ledger!End(j, s)
    BY <1>2 DEF Ledger!End, Ledger!EndsFromQueue, Ledger!Terminal, Ledger!Results,
                Active, Terminal, Results, launched
  <1>9. s \in Ledger!Terminal
    BY DEF Ledger!Terminal, Ledger!Results, Terminal, Results
  <1>. QED BY <1>7, <1>8, <1>9 DEF Ledger!Next

\* prune() is the ledger's Prune, and what it leaves is still in order.
LEMMA PruneLedger ==
    ASSUME TypeOK, EndedRows, NEW i \in Instances, NEW n \in 0..Len(ended),
           PruneOldest(i, n), UNCHANGED proc
    PROVE  /\ EndedRows'
           /\ Ledger!Next \/ UNCHANGED Ledger!ledgerVars
           /\ \A j \in Jobs : status'[j] # status[j] =>
                 status[j] \in Terminal /\ status'[j] = "pruned"
  <1>. DEFINE T == {j \in Jobs : status[j] \in Terminal}
              D == ToSet(SubSeq(ended, 1, n))
              rest == SubSeq(ended, n + 1, Len(ended))
  <1>1. ended \in Seq(T) /\ Len(ended) \in Nat /\ \A m \in 1..Len(ended) : ended[m] \in T
    BY LenProperties DEF EndedRows
  <1>2. /\ SubSeq(ended, 1, n) \in Seq(T) /\ Len(SubSeq(ended, 1, n)) = n
        /\ \A m \in 1..n : SubSeq(ended, 1, n)[m] = ended[m]
    BY <1>1, SubSeqProperties, SMT
  <1>3. D = {ended[m] : m \in 1..n} /\ D \subseteq T
    <2>1. DOMAIN SubSeq(ended, 1, n) = 1..n
      BY <1>2, LenProperties
    <2>2. D = {SubSeq(ended, 1, n)[m] : m \in 1..n}
      BY <2>1 DEF ToSet
    <2>3. \A m \in 1..n : ended[m] \in T
      BY <1>1, SMT
    <2>. QED BY <1>2, <2>2, <2>3
  <1>4. /\ rest \in Seq(T) /\ Len(rest) = Len(ended) - n
        /\ \A m \in 1..(Len(ended) - n) : rest[m] = ended[n + m]
    BY <1>1, SubSeqProperties, SMT
  <1>5. /\ ended' = rest
        /\ status' = [j \in Jobs |-> IF j \in D THEN "pruned" ELSE status[j]]
    BY DEF PruneOldest
  <1>6. \A m \in 1..Len(rest) : rest[m] \in T' 
    <2>. SUFFICES ASSUME NEW m \in 1..Len(rest) PROVE rest[m] \in T'
      OBVIOUS
    <2>1. rest[m] = ended[n + m] /\ n + m \in 1..Len(ended) /\ n + m \notin 1..n
      BY <1>1, <1>4, SMT
    <2>2. rest[m] \in T /\ rest[m] \notin D
      BY <1>1, <1>3, <2>1, SMT DEF EndedRows
    <2>. QED BY <1>5, <2>2
  <1>7. rest \in Seq(T')
    <2>1. Len(rest) \in Nat /\ rest \in [1..Len(rest) -> T]
      BY <1>4, LenProperties
    <2>2. rest \in [1..Len(rest) -> T']
      BY <1>6, <2>1
    <2>. QED BY <2>1, <2>2, SeqDef
  <1>8. \A m, k \in 1..Len(rest) : rest[m] = rest[k] => m = k
    <2>. SUFFICES ASSUME NEW m \in 1..Len(rest), NEW k \in 1..Len(rest), rest[m] = rest[k]
                  PROVE  m = k
      OBVIOUS
    <2>1. ended[n + m] = ended[n + k] /\ n + m \in 1..Len(ended) /\ n + k \in 1..Len(ended)
      BY <1>1, <1>4, SMT
    <2>2. n + m = n + k
      BY <2>1 DEF EndedRows
    <2>. QED BY <1>1, <1>4, <2>2, SMT
  <1>9. EndedRows'
    BY <1>5, <1>7, <1>8 DEF EndedRows
  <1>10. Ledger!Next \/ UNCHANGED Ledger!ledgerVars
    <2>1. CASE D = {}
      <3>1. status' = status
        BY <1>5, <2>1 DEF TypeOK
      <3>. QED BY <3>1 DEF PruneOldest, Ledger!ledgerVars, launched
    <2>2. CASE D # {}
      <3>1. Ledger!Prune(D)
        BY <1>3, <1>5, <2>2 DEF PruneOldest, Ledger!Prune, Ledger!Terminal,
              Ledger!Results, Terminal, Results, launched
      <3>2. D \in SUBSET Jobs
        BY <1>3
      <3>. QED BY <3>1, <3>2 DEF Ledger!Next
    <2>. QED BY <2>1, <2>2
  <1>11. \A j \in Jobs : status'[j] # status[j] =>
            status[j] \in Terminal /\ status'[j] = "pruned"
    BY <1>3, <1>5
  <1>. QED BY <1>9, <1>10, <1>11

-----------------------------------------------------------------------------
(* The invariant                                                           *)

\* A step that starts no job and spawns none preserves the invariant when it
\* ends rows only, takes queues and memory only down, and leaves the handlers
\* that are about to spawn alone.
LEMMA Preserved ==
    ASSUME LedgerInv, TypeOK', EndedRows', home' = home, started' = started,
           \A k \in Jobs : /\ status'[k] # status[k] => status'[k] \in Terminal \cup {"pruned"}
                           /\ mem'[k] = "running" => mem[k] = "running"
                           /\ proc'[k] # "none" => proc[k] # "none",
           \A o \in Instances :
              queue'[o] \in Seq({k \in Jobs : home[k] = o /\ status[k] # "unborn"}),
           \A o \in Instances : pc'[o].at = "spawn" =>
              /\ pc'[o] = pc[o]
              /\ mem'[pc[o].job] = mem[pc[o].job] /\ proc'[pc[o].job] = proc[pc[o].job]
    PROVE  LedgerInv'
  <1>1. \A k \in Jobs : status'[k] \in {"unborn", "queued"} => status'[k] = status[k]
    BY StatusKinds DEF Active
  <1>2. Recorded'
    BY <1>1 DEF LedgerInv, Recorded
  <1>3. AboutToSpawn'
    BY DEF LedgerInv, AboutToSpawn
  <1>4. OwnQueue'
    <2>. SUFFICES ASSUME NEW o \in Instances
                  PROVE  queue'[o] \in Seq({k \in Jobs : home'[k] = o /\ status'[k] # "unborn"})
      BY DEF OwnQueue
    <2>. DEFINE Q == {k \in Jobs : home[k] = o /\ status[k] # "unborn"}
    <2>1. Q \subseteq {k \in Jobs : home'[k] = o /\ status'[k] # "unborn"}
      BY <1>1
    <2>. QED BY <2>1, SeqMonotonic
  <1>. QED BY <1>2, <1>3, <1>4 DEF LedgerInv

\* The same for a step that leaves the rows and the jobs alone.
LEMMA Quiet ==
    ASSUME LedgerInv, TypeOK',
           UNCHANGED <<status, started, ended, home, mem, queue, proc>>,
           \A o \in Instances : pc'[o].at = "spawn" => pc'[o] = pc[o]
    PROVE  LedgerInv' /\ UNCHANGED Ledger!ledgerVars
  <1>1. EndedRows'
    BY DEF LedgerInv, EndedRows
  <1>2. LedgerInv'
    BY <1>1, Preserved DEF LedgerInv, OwnQueue
  <1>. QED BY <1>2 DEF Ledger!ledgerVars, launched

\* Where a handler may be sent without being about to spawn.
LEMMA NotSpawning ==
    ASSUME TypeOK, NEW i \in Instances, NEW f,
           pc' = [pc EXCEPT ![i] = f], f.at # "spawn"
    PROVE  \A o \in Instances : pc'[o].at = "spawn" => o # i /\ pc'[o] = pc[o]
  BY DEF TypeOK

LEMMA ReturnNotSpawning ==
    ASSUME TypeOK, NEW i \in Instances, Return(i)
    PROVE  \A o \in Instances : pc'[o].at = "spawn" => o # i /\ pc'[o] = pc[o]
  BY NotSpawning DEF Return, Goto, Idle

LEMMA PruningNotSpawning ==
    ASSUME TypeOK, NEW i \in Instances, NEW f, Goto(i, f), f.at = "prune"
    PROVE  \A o \in Instances : pc'[o].at = "spawn" => o # i /\ pc'[o] = pc[o]
  BY NotSpawning DEF Goto

\* The end of a process takes its queue and memory along, nothing else.
LEMMA DieLedger ==
    ASSUME LedgerInv, TypeOK', NEW i \in Instances, NEW how, Die(i, how)
    PROVE  LedgerInv' /\ UNCHANGED Ledger!ledgerVars
  <1>1. UNCHANGED <<status, started, ended, home, proc>>
    BY DEF Die, database
  <1>2. EndedRows'
    BY <1>1 DEF LedgerInv, EndedRows
  <1>3. \A o \in Instances : pc'[o].at = "spawn" => o # i /\ pc'[o] = pc[o]
    <2>1. pc' = [pc EXCEPT ![i] = Idle] /\ Idle.at # "spawn"
      BY DEF Die, Goto, Idle
    <2>. QED BY <2>1, NotSpawning DEF LedgerInv
  <1>4. \A o \in Instances : pc'[o].at = "spawn" => mem'[pc[o].job] = mem[pc[o].job]
    <2>. SUFFICES ASSUME NEW o \in Instances, pc'[o].at = "spawn"
                  PROVE  mem'[pc[o].job] = mem[pc[o].job]
      OBVIOUS
    <2>1. o # i /\ pc[o].at = "spawn"
      BY <1>3
    <2>2. pc[o].job \in Jobs /\ home[pc[o].job] = o
      BY <2>1, FrameFields DEF LedgerInv, AboutToSpawn, OnJob
    <2>. QED BY <2>1, <2>2 DEF Die
  <1>5. \A k \in Jobs : mem'[k] = "running" => mem[k] = "running"
    BY DEF Die
  <1>6. \A o \in Instances :
           queue'[o] \in Seq({k \in Jobs : home[k] = o /\ status[k] # "unborn"})
    <2>1. \A o \in Instances : queue'[o] = queue[o] \/ queue'[o] = <<>>
      BY DEF LedgerInv, TypeOK, Die
    <2>. QED BY <2>1, EmptySeq DEF LedgerInv, OwnQueue
  <1>7. LedgerInv'
    BY <1>1, <1>2, <1>3, <1>4, <1>5, <1>6, Preserved
  <1>. QED BY <1>1, <1>7 DEF Ledger!ledgerVars, launched

\* store.finish of a job in a step that takes it out of memory, or leaves
\* memory alone.
LEMMA FinishLedger ==
    ASSUME LedgerInv, TypeOK', NEW j \in Jobs, NEW s \in Terminal,
           FinishRow(j, s) \/ FinishThrows(j), UNCHANGED <<home, proc>>,
           status[j] = "queued" => s \in {"cancelled", "interrupted", "spawn_error"},
           \A k \in Jobs : mem'[k] = "running" => mem[k] = "running",
           \A o \in Instances :
              queue'[o] \in Seq({k \in Jobs : home[k] = o /\ status[k] # "unborn"}),
           \A o \in Instances : pc'[o].at = "spawn" =>
              pc'[o] = pc[o] /\ mem'[pc[o].job] = mem[pc[o].job]
    PROVE  LedgerInv' /\ (Ledger!Next \/ UNCHANGED Ledger!ledgerVars)
  <1>1. CASE status[j] \in Active /\ EndRow(j, s) /\ started' = started
    <2>1. EndedRows' /\ Ledger!Next
      BY <1>1, EndRowLedger DEF LedgerInv
    <2>2. \A k \in Jobs : status'[k] # status[k] => status'[k] \in Terminal \cup {"pruned"}
      BY <1>1 DEF LedgerInv, TypeOK, EndRow
    <2>. QED BY <1>1, <2>1, <2>2, Preserved
  <1>2. CASE UNCHANGED <<status, ended, started>>
    <2>1. EndedRows'
      BY <1>2 DEF LedgerInv, EndedRows
    <2>2. LedgerInv'
      BY <1>2, <2>1, Preserved
    <2>. QED BY <1>2, <2>2 DEF Ledger!ledgerVars, launched
  <1>. QED BY <1>1, <1>2 DEF FinishRow, FinishThrows, database

\* The queue a job was taken out of, or had its head taken off, is still the
\* instance's own.
LEMMA OwnQueueType ==
    ASSUME LedgerInv, NEW i \in Instances, NEW q,
           q \in Seq({k \in Jobs : home[k] = i /\ status[k] # "unborn"}),
           queue' = [queue EXCEPT ![i] = q] \/ queue' = queue
    PROVE  \A o \in Instances :
              queue'[o] \in Seq({k \in Jobs : home[k] = o /\ status[k] # "unborn"})
  <1>1. queue \in [Instances -> Seq(Jobs)]
    BY DEF LedgerInv, TypeOK
  <1>2. \A o \in Instances : queue'[o] = queue[o] \/ (o = i /\ queue'[o] = q)
    BY <1>1
  <1>. QED BY <1>2 DEF LedgerInv, OwnQueue

\* A job is not about to be spawned by another instance than its own.
LEMMA SpawnIsHome ==
    ASSUME LedgerInv, NEW o \in Instances, pc[o].at = "spawn"
    PROVE  /\ pc[o].job \in Jobs /\ home[pc[o].job] = o
           /\ mem[pc[o].job] = "running" /\ proc[pc[o].job] = "none"
           /\ pc[o].job \in started
  BY FrameFields DEF LedgerInv, AboutToSpawn, Recorded, OnJob

LEMMA InsertLedger ==
    ASSUME LedgerInv, TypeOK', NEW i \in Instances, NEW j \in Jobs, Insert(i, j),
           UNCHANGED <<leases, phase, children>>
    PROVE  LedgerInv' /\ Ledger!Next
  <1>1. /\ status[j] = "unborn" /\ status' = [status EXCEPT ![j] = "queued"]
        /\ mem' = [mem EXCEPT ![j] = "queued"] /\ home' = [home EXCEPT ![j] = i]
        /\ UNCHANGED <<started, ended, proc>>
    BY DEF Insert, children
  <1>2. j \notin started
    BY <1>1 DEF LedgerInv, Recorded
  <1>3. Recorded'
    BY <1>1, <1>2 DEF LedgerInv, Recorded, TypeOK
  <1>4. AboutToSpawn'
    <2>. SUFFICES ASSUME NEW o \in Instances, pc'[o].at = "spawn"
                  PROVE  mem'[pc'[o].job] = "running" /\ home'[pc'[o].job] = o
                         /\ proc'[pc'[o].job] = "none"
      BY DEF AboutToSpawn
    <2>1. pc'[o] = pc[o]
      BY NotSpawning DEF Insert, Goto, Idle, LedgerInv
    <2>2. pc[o].job # j
      BY <1>2, <2>1, SpawnIsHome
    <2>. QED BY <1>1, <2>1, <2>2, SpawnIsHome DEF LedgerInv, TypeOK
  <1>5. OwnQueue'
    <2>. SUFFICES ASSUME NEW o \in Instances
                  PROVE  queue'[o] \in Seq({k \in Jobs : home'[k] = o /\ status'[k] # "unborn"})
      BY DEF OwnQueue
    <2>. DEFINE Q == {k \in Jobs : home[k] = o /\ status[k] # "unborn"}
                R == {k \in Jobs : home'[k] = o /\ status'[k] # "unborn"}
    <2>1. Q \subseteq R /\ (o = i => j \in R)
      BY <1>1 DEF LedgerInv, TypeOK
    <2>2. queue[o] \in Seq(R)
      BY <2>1, SeqMonotonic DEF LedgerInv, OwnQueue
    <2>3. queue'[o] = IF o = i THEN Append(queue[o], j) ELSE queue[o]
      BY DEF Insert, LedgerInv, TypeOK
    <2>. QED BY <2>1, <2>2, <2>3, AppendProperties
  <1>6. EndedRows'
    <2>1. {k \in Jobs : status[k] \in Terminal} \subseteq {k \in Jobs : status'[k] \in Terminal}
      BY <1>1, StatusKinds DEF LedgerInv, TypeOK
    <2>2. ended' \in Seq({k \in Jobs : status'[k] \in Terminal})
      BY <1>1, <2>1, SeqMonotonic DEF LedgerInv, EndedRows
    <2>. QED BY <1>1, <2>2 DEF LedgerInv, EndedRows
  <1>7. Ledger!Submit(j)
    BY <1>1 DEF Ledger!Submit, launched
  <1>. QED BY <1>3, <1>4, <1>5, <1>6, <1>7 DEF LedgerInv, Ledger!Next

LEMMA PumpLedger ==
    ASSUME LedgerInv, TypeOK', NEW i \in Instances, Pump(i)
    PROVE  LedgerInv' /\ (Ledger!Next \/ UNCHANGED Ledger!ledgerVars)
  <1>1. CASE PumpStops(i)
    <2>1. Return(i) /\ UNCHANGED <<database, memory, children>>
      BY <1>1 DEF Pump
    <2>. QED BY <2>1, ReturnNotSpawning, Quiet DEF LedgerInv, database, memory, children
  <1>2. CASE ~PumpStops(i)
    <2>. DEFINE j == Head(queue[i])
                Q == {k \in Jobs : home[k] = i /\ status[k] # "unborn"}
    <2>1. j \in Q /\ Tail(queue[i]) \in Seq(Q)
      BY <1>2, HeadTailProperties DEF LedgerInv, OwnQueue, PumpStops
    <2>2. /\ queue' = [queue EXCEPT ![i] = Tail(queue[i])]
          /\ UNCHANGED <<home, ended, proc>>
      BY <1>2 DEF Pump, children
    <2>3. \A o \in Instances :
             queue'[o] \in Seq({k \in Jobs : home[k] = o /\ status[k] # "unborn"})
      BY <2>1, <2>2, OwnQueueType
    <2>4. CASE mem[j] = "queued" /\ MarkRunning(i, j)
      <3>1. /\ status[j] = "queued" /\ status' = [status EXCEPT ![j] = "running"]
            /\ mem' = [mem EXCEPT ![j] = "running"] /\ started' = started \cup {j}
            /\ pc' = [pc EXCEPT ![i] = [pc[i] EXCEPT !.at = "spawn", !.job = j]]
        BY <2>4 DEF MarkRunning, Goto
      <3>2. proc[j] = "none"
        BY <2>1, <3>1 DEF LedgerInv, Recorded
      <3>3. Recorded'
        BY <2>1, <2>2, <3>1 DEF LedgerInv, Recorded, TypeOK
      <3>4. pc'[i].job = j /\ \A o \in Instances \ {i} : pc'[o] = pc[o]
        BY <3>1, FrameFields DEF LedgerInv, TypeOK, Fields
      <3>5. \A o \in Instances \ {i} : pc[o].at = "spawn" => pc[o].job # j
        BY <2>1, SpawnIsHome
      <3>6. AboutToSpawn'
        BY <2>1, <2>2, <3>1, <3>2, <3>4, <3>5, SpawnIsHome DEF LedgerInv, TypeOK, AboutToSpawn
      <3>7. OwnQueue'
        <4>. SUFFICES ASSUME NEW o \in Instances
                      PROVE queue'[o] \in Seq({k \in Jobs : home'[k] = o /\ status'[k] # "unborn"})
          BY DEF OwnQueue
        <4>1. {k \in Jobs : home[k] = o /\ status[k] # "unborn"}
                \subseteq {k \in Jobs : home'[k] = o /\ status'[k] # "unborn"}
          BY <2>2, <3>1 DEF LedgerInv, TypeOK
        <4>. QED BY <2>3, <4>1, SeqMonotonic
      <3>8. EndedRows'
        <4>1. {k \in Jobs : status[k] \in Terminal} \subseteq {k \in Jobs : status'[k] \in Terminal}
          BY <3>1, StatusKinds DEF LedgerInv, TypeOK, Active
        <4>2. ended' \in Seq({k \in Jobs : status'[k] \in Terminal})
          BY <2>2, <4>1, SeqMonotonic DEF LedgerInv, EndedRows
        <4>. QED BY <2>2, <4>2 DEF LedgerInv, EndedRows
      <3>9. Ledger!Begin(j)
        BY <2>2, <3>1 DEF Ledger!Begin, launched
      <3>. QED BY <2>1, <3>3, <3>6, <3>7, <3>8, <3>9 DEF LedgerInv, Ledger!Next
    <2>5. CASE mem[j] = "queued" /\ LaunchFails(i, j)
      <3>1. /\ UNCHANGED <<status, started>> /\ mem' = [mem EXCEPT ![j] = "done"]
            /\ pc' = [pc EXCEPT ![i] = [pc[i] EXCEPT !.at = "drop", !.job = j]]
        BY <2>5 DEF LaunchFails, Goto
      <3>2. [pc[i] EXCEPT !.at = "drop", !.job = j].at # "spawn"
        BY FrameFields DEF LedgerInv, Fields
      <3>3. \A o \in Instances : pc'[o].at = "spawn" => o # i /\ pc'[o] = pc[o]
        BY <3>1, <3>2, NotSpawning DEF LedgerInv
      <3>4. \A o \in Instances : pc'[o].at = "spawn" => mem'[pc[o].job] = mem[pc[o].job]
        BY <2>1, <3>1, <3>3, SpawnIsHome DEF LedgerInv, TypeOK
      <3>5. \A k \in Jobs : mem'[k] = "running" => mem[k] = "running"
        BY <2>1, <3>1 DEF LedgerInv, TypeOK
      <3>6. EndedRows'
        BY <2>2, <3>1 DEF LedgerInv, EndedRows
      <3>7. LedgerInv'
        BY <2>2, <2>3, <3>1, <3>3, <3>4, <3>5, <3>6, Preserved
      <3>. QED BY <2>2, <3>1, <3>7 DEF Ledger!ledgerVars, launched
    <2>6. CASE UNCHANGED <<status, started, mem, pc>>
      <3>1. EndedRows'
        BY <2>2, <2>6 DEF LedgerInv, EndedRows
      <3>2. LedgerInv'
        BY <2>2, <2>3, <2>6, <3>1, Preserved
      <3>. QED BY <2>2, <2>6, <3>2 DEF Ledger!ledgerVars, launched
    <2>. QED BY <1>2, <2>4, <2>5, <2>6 DEF Pump
  <1>. QED BY <1>1, <1>2

LEMMA SpawnLedger ==
    ASSUME LedgerInv, TypeOK', NEW i \in Instances, Spawn(i)
    PROVE  LedgerInv' /\ (Ledger!Next \/ UNCHANGED Ledger!ledgerVars)
  <1>. DEFINE j == pc[i].job
  <1>1. /\ j \in Jobs /\ home[j] = i /\ mem[j] = "running" /\ proc[j] = "none" /\ j \in started
    BY SpawnIsHome DEF Spawn, At
  <1>2. /\ UNCHANGED <<status, started, ended, home, mem, queue>>
        /\ pc' = [pc EXCEPT ![i] = [pc[i] EXCEPT !.at = "pump", !.job = None]]
        /\ proc' = [proc EXCEPT ![j] = "alive"] \/ proc' = proc
    BY DEF Spawn, database, memory, Goto
  <1>3. [pc[i] EXCEPT !.at = "pump", !.job = None].at # "spawn"
    BY FrameFields DEF LedgerInv, Fields
  <1>4. \A o \in Instances : pc'[o].at = "spawn" => o # i /\ pc'[o] = pc[o]
    BY <1>2, <1>3, NotSpawning DEF LedgerInv
  <1>5. \A o \in Instances : pc'[o].at = "spawn" => pc[o].job # j
    BY <1>1, <1>4, SpawnIsHome
  <1>6. Recorded'
    BY <1>1, <1>2 DEF LedgerInv, Recorded, TypeOK
  <1>7. AboutToSpawn'
    BY <1>2, <1>4, <1>5, SpawnIsHome DEF LedgerInv, TypeOK, AboutToSpawn
  <1>8. OwnQueue' /\ EndedRows'
    BY <1>2 DEF LedgerInv, OwnQueue, EndedRows
  <1>9. CASE proc' = [proc EXCEPT ![j] = "alive"]
    <2>1. launched' = launched \cup {j} /\ j \notin launched
      BY <1>1, <1>9 DEF launched, LedgerInv, TypeOK
    <2>2. Ledger!Launch(j)
      BY <1>1, <1>2, <2>1 DEF Ledger!Launch
    <2>. QED BY <1>1, <1>6, <1>7, <1>8, <2>2 DEF LedgerInv, Ledger!Next
  <1>10. CASE proc' = proc
    BY <1>2, <1>6, <1>7, <1>8, <1>10 DEF LedgerInv, Ledger!ledgerVars, launched
  <1>. QED BY <1>2, <1>9, <1>10

\* Moving a handler on, or ending it, with nothing else the ledger sees.
LEMMA QuietMove ==
    ASSUME LedgerInv, TypeOK', NEW i \in Instances, UNCHANGED <<database, memory, proc>>,
           Return(i) \/ \E f \in Frames : f.at # "spawn" /\ Goto(i, f)
    PROVE  LedgerInv' /\ UNCHANGED Ledger!ledgerVars
  <1>1. \A o \in Instances : pc'[o].at = "spawn" => pc'[o] = pc[o]
    <2>1. CASE Return(i)
      BY <2>1, ReturnNotSpawning DEF LedgerInv
    <2>2. ASSUME NEW f \in Frames, f.at # "spawn", Goto(i, f)
          PROVE  \A o \in Instances : pc'[o].at = "spawn" => pc'[o] = pc[o]
      BY <2>2, NotSpawning DEF LedgerInv, Goto
    <2>. QED BY <2>1, <2>2
  <1>. QED BY <1>1, Quiet DEF database, memory

LEMMA RequestLedger ==
    ASSUME LedgerInv, TypeOK', NEW i \in Instances, Request(i)
    PROVE  LedgerInv' /\ UNCHANGED Ledger!ledgerVars
  <1>1. UNCHANGED <<database, memory, proc>>
    BY DEF Request, Start, Read, Cancel, children
  <1>2. \A o \in Instances : pc'[o].at = "spawn" => pc'[o] = pc[o]
    <2>1. \/ \E next \in Callers, k \in Keys \cup {None} :
                Goto(i, [Pruning(i, next) EXCEPT !.key = k])
          \/ Goto(i, Pruning(i, "idle"))
          \/ \E j \in Jobs : Goto(i, [Pruning(i, "cancel") EXCEPT !.job = j])
      BY CallerNames DEF Request, Start, Read, Cancel
    <2>2. ASSUME NEW next \in Callers, NEW k \in Keys \cup {None}
          PROVE  [Pruning(i, next) EXCEPT !.key = k].at = "prune"
      BY FrameFields DEF LedgerInv, Pruning, Fields
    <2>3. Pruning(i, "idle").at = "prune"
      BY FrameFields DEF LedgerInv, Pruning, Fields
    <2>4. ASSUME NEW j \in Jobs
          PROVE  [Pruning(i, "cancel") EXCEPT !.job = j].at = "prune"
      BY FrameFields DEF LedgerInv, Pruning, Fields
    <2>. QED BY <2>1, <2>2, <2>3, <2>4, PruningNotSpawning DEF LedgerInv
  <1>. QED BY <1>1, <1>2, Quiet DEF database, memory

LEMMA ThrowLedger ==
    ASSUME LedgerInv, TypeOK', NEW i \in Instances, Throw(i)
    PROVE  LedgerInv' /\ UNCHANGED Ledger!ledgerVars
  BY QuietMove, DieLedger DEF Throw, children

LEMMA PruneStepLedger ==
    ASSUME LedgerInv, TypeOK', NEW i \in Instances, Prune(i)
    PROVE  LedgerInv' /\ (Ledger!Next \/ UNCHANGED Ledger!ledgerVars)
  <1>1. CASE Throw(i)
    BY <1>1, ThrowLedger
  <1>2. ASSUME NEW n \in 0..Len(ended), PruneOldest(i, n),
               IF pc[i].next = "idle" THEN Return(i)
               ELSE Goto(i, [pc[i] EXCEPT !.at = pc[i].next, !.next = "idle"]),
               UNCHANGED <<leases, phase, home, mem, queue, children>>
        PROVE  LedgerInv' /\ (Ledger!Next \/ UNCHANGED Ledger!ledgerVars)
    <2>1. /\ EndedRows' /\ (Ledger!Next \/ UNCHANGED Ledger!ledgerVars)
          /\ \A j \in Jobs : status'[j] # status[j] => status'[j] \in Terminal \cup {"pruned"}
      BY <1>2, PruneLedger DEF LedgerInv, children
    <2>2. [pc[i] EXCEPT !.at = pc[i].next, !.next = "idle"].at # "spawn"
      BY FrameFields, CallerNames DEF LedgerInv, Fields
    <2>3. \A o \in Instances : pc'[o].at = "spawn" => pc'[o] = pc[o]
      BY <1>2, <2>2, ReturnNotSpawning, NotSpawning DEF LedgerInv, Goto
    <2>4. UNCHANGED <<home, started, mem, proc, queue>>
      BY <1>2 DEF PruneOldest, children
    <2>5. LedgerInv'
      BY <2>1, <2>3, <2>4, Preserved DEF LedgerInv, OwnQueue
    <2>. QED BY <2>1, <2>5
  <1>. QED BY <1>1, <1>2 DEF Prune

LEMMA CancelLedger ==
    ASSUME LedgerInv, TypeOK', NEW i \in Instances, CancelJob(i)
    PROVE  LedgerInv' /\ (Ledger!Next \/ UNCHANGED Ledger!ledgerVars)
  <1>. DEFINE j == pc[i].job
  <1>1. j \in Jobs
    BY FrameFields DEF CancelJob, At, OnJob, LedgerInv
  <1>2. CASE CancelQueued(i, j)
    <2>1. /\ mem' = [mem EXCEPT ![j] = "done"] /\ mem[j] = "queued"
          /\ queue' = [queue EXCEPT ![i] = Without(queue[i], j)]
          /\ UNCHANGED <<home, proc>>
          /\ FinishRow(j, "cancelled") \/ FinishThrows(j)
      BY <1>2 DEF CancelQueued, children
    <2>2. Without(queue[i], j) \in Seq({k \in Jobs : home[k] = i /\ status[k] # "unborn"})
      BY WithoutType DEF LedgerInv, OwnQueue
    <2>3. [Pruning(i, "pump") EXCEPT !.job = None].at = "prune"
      BY FrameFields DEF LedgerInv, Pruning, Fields
    <2>4. \A o \in Instances : pc'[o].at = "spawn" => o # i /\ pc'[o] = pc[o]
      BY <1>2, <2>3, PruningNotSpawning, ReturnNotSpawning DEF CancelQueued, LedgerInv
    <2>5. \A o \in Instances : pc'[o].at = "spawn" => mem'[pc[o].job] = mem[pc[o].job]
      BY <2>1, <2>4, SpawnIsHome DEF LedgerInv, TypeOK
    <2>6. \A k \in Jobs : mem'[k] = "running" => mem[k] = "running"
      BY <1>1, <2>1 DEF LedgerInv, TypeOK
    <2>7. \A o \in Instances :
             queue'[o] \in Seq({k \in Jobs : home[k] = o /\ status[k] # "unborn"})
      BY <2>1, <2>2, OwnQueueType
    <2>. QED BY <1>1, <2>1, <2>4, <2>5, <2>6, <2>7, StatusKinds, FinishLedger
  <1>3. CASE CancelRunning(i, j)
    BY <1>3, QuietMove DEF CancelRunning
  <1>4. CASE CancelElse(i, j)
    <2>1. [pc[i] EXCEPT !.at = "foreign"] \in Frames
      BY <1>1, StageNames, FrameFields DEF CancelJob, At, Frames, Fields, OnJob, LedgerInv
    <2>2. [pc[i] EXCEPT !.at = "foreign"].at # "spawn"
      BY FrameFields DEF LedgerInv, Fields
    <2>. QED BY <1>4, <2>1, <2>2, QuietMove DEF CancelElse, children
  <1>. QED BY <1>2, <1>3, <1>4 DEF CancelJob

\* Drop and CancelForeign: a finish that touches neither memory nor queues.
LEMMA FinishOnlyLedger ==
    ASSUME LedgerInv, TypeOK', NEW i \in Instances, Drop(i) \/ CancelForeign(i)
    PROVE  LedgerInv' /\ (Ledger!Next \/ UNCHANGED Ledger!ledgerVars)
  <1>. DEFINE j == pc[i].job
  <1>1. j \in Jobs
    BY FrameFields DEF Drop, CancelForeign, At, OnJob, LedgerInv
  <1>2. [Pruning(i, "pump") EXCEPT !.job = None].at = "prune"
    BY FrameFields DEF LedgerInv, Pruning, Fields
  <1>3. \A o \in Instances : pc'[o].at = "spawn" => o # i /\ pc'[o] = pc[o]
    BY <1>2, PruningNotSpawning, ReturnNotSpawning DEF Drop, CancelForeign, LedgerInv
  <1>4. /\ UNCHANGED <<home, proc, mem, queue>>
        /\ \E s \in {"cancelled", "spawn_error"} : FinishRow(j, s) \/ FinishThrows(j)
    BY DEF Drop, CancelForeign, memory, children
  <1>5. \A o \in Instances :
           queue'[o] \in Seq({k \in Jobs : home[k] = o /\ status[k] # "unborn"})
    BY <1>4 DEF LedgerInv, OwnQueue
  <1>. QED BY <1>1, <1>3, <1>4, <1>5, StatusKinds, FinishLedger

LEMMA ChildLedger ==
    ASSUME LedgerInv, TypeOK', NEW i \in Instances, ChildEvent(i)
    PROVE  LedgerInv' /\ (Ledger!Next \/ UNCHANGED Ledger!ledgerVars)
  <1>1. PICK j \in Jobs : TimeoutFires(i, j) \/ ChildCloses(i, j) \/ Deliver(i, j)
    BY DEF ChildEvent
  <1>2. CASE TimeoutFires(i, j) \/ ChildCloses(i, j)
    BY <1>2, Quiet DEF TimeoutFires, ChildCloses, database, memory
  <1>3. CASE Deliver(i, j)
    <2>1. /\ mem[j] = "running" /\ verdict[j] \in Terminal /\ home[j] = i
          /\ mem' = [mem EXCEPT ![j] = "done"] /\ UNCHANGED <<home, queue, proc>>
          /\ FinishRow(j, verdict[j]) \/ FinishThrows(j)
      BY <1>3 DEF Deliver, LedgerInv, TypeOK, Terminal
    <2>2. status[j] # "queued"
      BY <2>1 DEF LedgerInv, Recorded
    <2>3. [Pruning(i, "pump") EXCEPT !.fatal = TRUE].at = "prune"
      BY FrameFields DEF LedgerInv, Pruning, Fields
    <2>4. \A o \in Instances : pc'[o].at = "spawn" => o # i /\ pc'[o] = pc[o]
      BY <1>3, <2>3, PruningNotSpawning DEF Deliver, LedgerInv
    <2>5. \A o \in Instances : pc'[o].at = "spawn" => mem'[pc[o].job] = mem[pc[o].job]
      BY <2>1, <2>4, SpawnIsHome DEF LedgerInv, TypeOK
    <2>6. \A k \in Jobs : mem'[k] = "running" => mem[k] = "running"
      BY <2>1 DEF LedgerInv, TypeOK
    <2>7. \A o \in Instances :
             queue'[o] \in Seq({k \in Jobs : home[k] = o /\ status[k] # "unborn"})
      BY <2>1 DEF LedgerInv, OwnQueue
    <2>. QED BY <2>1, <2>2, <2>4, <2>5, <2>6, <2>7, FinishLedger
  <1>. QED BY <1>1, <1>2, <1>3

LEMMA LookupLedger ==
    ASSUME LedgerInv, TypeOK', NEW i \in Instances,
           Lookup(i) \/ Verify(i) \/ ReportCorrupt(i)
    PROVE  LedgerInv' /\ UNCHANGED Ledger!ledgerVars
  <1>1. UNCHANGED <<database, memory, proc>>
    BY DEF Lookup, Verify, ReportCorrupt, children
  <1>2. CASE Lookup(i)
    <2>1. /\ [pc[i] EXCEPT !.at = "insert"].at # "spawn"
          /\ \A j \in Jobs : [pc[i] EXCEPT !.at = "verify", !.job = j].at # "spawn"
      BY FrameFields DEF LedgerInv, Fields
    <2>2. pc[i].key \in Keys
      BY <1>2, FrameFields DEF Lookup, At, LedgerInv
    <2>3. \A o \in Instances : pc'[o].at = "spawn" => pc'[o] = pc[o]
      BY SMTT(40), <1>2, <2>1, <2>2, NotSpawning DEF Lookup, Goto, LedgerInv, TypeOK
    <2>. QED BY <1>1, <2>3, Quiet DEF database, memory
  <1>3. CASE Verify(i)
    <2>1. [Idle EXCEPT !.at = "corrupt"].at # "spawn" /\ Idle.at # "spawn"
      BY DEF Idle
    <2>. QED BY <1>1, <1>3, <2>1, IdleType, QuietMove DEF Verify
  <1>4. CASE ReportCorrupt(i)
    BY <1>1, <1>4, QuietMove DEF ReportCorrupt
  <1>. QED BY <1>2, <1>3, <1>4

LEMMA CreateLedger ==
    ASSUME LedgerInv, TypeOK', NEW i \in Instances, Create(i)
    PROVE  LedgerInv' /\ (Ledger!Next \/ UNCHANGED Ledger!ledgerVars)
  <1>1. Idle.at # "spawn"
    BY SMTT(40) DEF Idle
  <1>2. CASE Refused(i)
    BY <1>1, <1>2, IdleType, QuietMove DEF Create, Refused, children
  <1>. QED BY <1>2, InsertLedger DEF Create

\* The heartbeat's handler: the lease, the scan and the recovery.
LEMMA RecoveryLedger ==
    ASSUME LedgerInv, TypeOK', NEW i \in Instances,
           Refresh(i) \/ Scan(i) \/ Reconcile(i) \/ ReconcileFails(i)
    PROVE  LedgerInv' /\ (Ledger!Next \/ UNCHANGED Ledger!ledgerVars)
  <1>1. Idle.at # "spawn"
    BY DEF Idle
  <1>2. CASE Refresh(i)
    <2>1. [pc[i] EXCEPT !.at = "scan"].at # "spawn"
      BY FrameFields DEF LedgerInv, Fields
    <2>2. CASE Goto(i, [pc[i] EXCEPT !.at = "scan"]) /\ UNCHANGED <<database, memory, children>>
      <3>1. \A o \in Instances : pc'[o].at = "spawn" => pc'[o] = pc[o]
        BY <2>1, <2>2, NotSpawning DEF Goto, LedgerInv
      <3>. QED BY <2>2, <3>1, Quiet DEF database, memory, children
    <2>. QED BY <1>2, <2>2, ThrowLedger DEF Refresh
  <1>3. CASE Scan(i)
    <2>. DEFINE f == [pc[i] EXCEPT !.at = "reconcile",
                        !.todo = {j \in Jobs : status[j] \in Active /\ home[j] # i}]
    <2>1. f.at # "spawn" /\ Goto(i, f)
      BY SMTT(40), <1>3, FrameFields DEF Scan, LedgerInv, Fields
    <2>2. \A o \in Instances : pc'[o].at = "spawn" => pc'[o] = pc[o]
      BY <2>1, NotSpawning DEF Goto, LedgerInv
    <2>. QED BY <1>3, <2>2, Quiet DEF Scan, database, memory, children
  <1>4. CASE Reconcile(i)
    <2>1. CASE Goto(i, Idle) /\ UNCHANGED <<database, memory, children>>
      BY <1>1, <2>1, IdleType, QuietMove DEF children
    <2>2. ASSUME NEW j \in pc[i].todo,
                 \/ status[j] \in Active /\ EndRow(j, "interrupted")
                 \/ UNCHANGED <<status, ended>>,
                 Goto(i, [pc[i] EXCEPT !.todo = @ \ {j}]),
                 UNCHANGED <<started, memory, children>>
          PROVE  LedgerInv' /\ (Ledger!Next \/ UNCHANGED Ledger!ledgerVars)
      <3>1. j \in Jobs /\ pc[i].at # "spawn"
        BY <1>4, FrameFields DEF Reconcile, At, LedgerInv
      <3>2. [pc[i] EXCEPT !.todo = @ \ {j}].at # "spawn"
        BY <3>1, FrameFields DEF LedgerInv, Fields
      <3>3. \A o \in Instances : pc'[o].at = "spawn" => pc'[o] = pc[o]
        BY <2>2, <3>2, NotSpawning DEF Goto, LedgerInv
      <3>4. UNCHANGED <<started, home, mem, queue, proc>>
        BY <2>2 DEF memory, children
      <3>5. CASE UNCHANGED <<status, ended>>
        BY <3>3, <3>4, <3>5, Quiet
      <3>6. CASE status[j] \in Active /\ EndRow(j, "interrupted")
        <4>1. EndedRows' /\ Ledger!Next
          BY <3>1, <3>4, <3>6, StatusKinds, EndRowLedger DEF LedgerInv
        <4>2. \A k \in Jobs : status'[k] # status[k] => status'[k] \in Terminal \cup {"pruned"}
          BY <3>6, StatusKinds DEF LedgerInv, TypeOK, EndRow
        <4>3. LedgerInv'
          BY SMTT(40), <3>3, <3>4, <4>1, <4>2, Preserved DEF LedgerInv, OwnQueue
        <4>. QED BY <4>1, <4>3
      <3>. QED BY <2>2, <3>5, <3>6
    <2>. QED BY <1>4, <2>1, <2>2 DEF Reconcile
  <1>5. CASE ReconcileFails(i)
    BY <1>1, <1>5, IdleType, QuietMove, DieLedger DEF ReconcileFails, children
  <1>. QED BY <1>2, <1>3, <1>4, <1>5

LEMMA LifecycleLedger ==
    ASSUME LedgerInv, TypeOK', NEW i \in Instances, Lifecycle(i) \/ ShutdownNext(i)
    PROVE  LedgerInv' /\ UNCHANGED Ledger!ledgerVars
  <1>1. CASE Exit(i) \/ Crash(i)
    BY <1>1, DieLedger DEF Exit, Crash
  <1>2. CASE LeaseLapses(i)
    BY <1>2, Quiet DEF LeaseLapses, database, memory, children
  <1>3. CASE Boot(i) \/ Heartbeat(i) \/ Shutdown(i)
    <2>1. /\ UNCHANGED <<database, memory, children>>
          /\ \E f : Goto(i, f) /\ f.at # "spawn"
      <3>1. CASE Boot(i)
        <4>. DEFINE f == [Idle EXCEPT !.at = "refresh", !.fatal = TRUE]
        <4>1. f.at # "spawn" /\ Goto(i, f)
          BY <3>1 DEF Boot, Idle
        <4>. QED BY <3>1, <4>1 DEF Boot
      <3>2. CASE Heartbeat(i)
        <4>. DEFINE f == [Idle EXCEPT !.at = "refresh"]
        <4>1. f.at # "spawn" /\ Goto(i, f)
          BY <3>2 DEF Heartbeat, Idle
        <4>. QED BY <3>2, <4>1 DEF Heartbeat
      <3>3. CASE Shutdown(i)
        <4>. DEFINE f == [Idle EXCEPT !.at = "shutdown",
                            !.todo = {j \in held : home[j] = i /\ mem[j] \in Active}]
        <4>1. f.at # "spawn" /\ Goto(i, f)
          BY <3>3 DEF Shutdown, Idle
        <4>. QED BY <3>3, <4>1 DEF Shutdown
      <3>. QED BY <1>3, <3>1, <3>2, <3>3
    <2>2. \A o \in Instances : pc'[o].at = "spawn" => pc'[o] = pc[o]
      BY <2>1, NotSpawning DEF Goto, LedgerInv
    <2>. QED BY <2>1, <2>2, Quiet DEF database, memory, children
  <1>4. CASE ShutdownNext(i)
    <2>1. ASSUME NEW j \in pc[i].todo
          PROVE  [Pruning(i, "cancel") EXCEPT !.job = j, !.todo = @ \ {j}].at = "prune"
      BY FrameFields DEF LedgerInv, Pruning, Fields
    <2>2. Idle.at # "spawn"
      BY DEF Idle
    <2>3. \A o \in Instances : pc'[o].at = "spawn" => pc'[o] = pc[o]
      BY <1>4, <2>1, <2>2, NotSpawning DEF ShutdownNext, Goto, LedgerInv
    <2>. QED BY <1>4, <2>3, Quiet DEF ShutdownNext, database, memory, children
  <1>. QED BY <1>1, <1>2, <1>3, <1>4 DEF Lifecycle

\* Every step keeps the invariant and is a step of the ledger or none.
LEMMA LedgerStep ==
    ASSUME LedgerInv, [Next]_vars
    PROVE  LedgerInv' /\ (Ledger!Next \/ UNCHANGED Ledger!ledgerVars)
  <1>1. CASE UNCHANGED vars
    <2>1. TypeOK'
      BY <1>1 DEF leases, LedgerInv, TypeOK, vars, database, memory, children
    <2>. QED BY <1>1, <2>1, Quiet DEF vars, database, memory, children
  <1>2. ASSUME NEW i \in Instances,
               Request(i) \/ HandlerStep(i) \/ ChildEvent(i) \/ Lifecycle(i)
        PROVE  LedgerInv' /\ (Ledger!Next \/ UNCHANGED Ledger!ledgerVars)
    <2>1. TypeOK'
      BY <1>2, TypeStep DEF LedgerInv
    <2>. QED BY <1>2, <2>1, RequestLedger, PruneStepLedger, LookupLedger, CreateLedger,
                PumpLedger, SpawnLedger, FinishOnlyLedger, CancelLedger, RecoveryLedger,
                LifecycleLedger, ChildLedger DEF HandlerStep
  <1>3. ASSUME NEW j \in Jobs, ChildDies(j)
        PROVE  LedgerInv' /\ UNCHANGED Ledger!ledgerVars
    <2>1. /\ UNCHANGED <<database, memory, pc>>
          /\ proc[j] = "alive" /\ proc' = [proc EXCEPT ![j] = "dead"]
      BY <1>3 DEF ChildDies
    <2>2. TypeOK'
      BY <1>3 DEF leases, ChildDies, LedgerInv, TypeOK, database, memory
    <2>3. \A o \in Instances : pc[o].at = "spawn" => pc[o].job \in Jobs \ {j}
      BY <2>1, SpawnIsHome
    <2>4. EndedRows' /\ OwnQueue'
      BY <2>1 DEF LedgerInv, EndedRows, OwnQueue, database, memory
    <2>5. LedgerInv'
      BY <2>1, <2>2, <2>3, <2>4, Preserved DEF LedgerInv, OwnQueue, TypeOK, database, memory
    <2>6. launched' = launched
      BY <2>1 DEF launched, LedgerInv, TypeOK
    <2>. QED BY <2>1, <2>5, <2>6 DEF Ledger!ledgerVars, database
  <1>. QED BY <1>1, <1>2, <1>3 DEF Next

\* Nothing is recorded, queued or running at first.
LEMMA LedgerInit == ASSUME Init PROVE LedgerInv /\ Ledger!Init
  <1>1. TypeOK
    BY InitType
  <1>2. <<>> \in Seq({j \in Jobs : status[j] \in Terminal}) /\ Len(<<>>) = 0
    BY EmptySeq
  <1>3. EndedRows
    BY <1>2 DEF Init, EndedRows
  <1>4. OwnQueue
    BY EmptySeq DEF Init, OwnQueue
  <1>5. Recorded /\ AboutToSpawn
    BY DEF Init, Recorded, AboutToSpawn, Idle
  <1>. QED BY <1>1, <1>3, <1>4, <1>5 DEF LedgerInv, Init, Ledger!Init, launched

\* Through crashes, lapsed leases, failing transactions, overlapping instances
\* and cancellations that race a launch, a job's record only ever takes the
\* ledger's transitions, its status is final once terminal, and a process is
\* created for it at most once and only after the record said "running".
THEOREM LedgerImplemented == Spec => ImplementsLedger
  <1>1. Init => LedgerInv /\ Ledger!Init
    BY LedgerInit
  <1>2. LedgerInv /\ [Next]_vars => LedgerInv' /\ [Ledger!Next]_Ledger!ledgerVars
    BY LedgerStep
  <1>. QED BY <1>1, <1>2, PTL DEF Spec, ImplementsLedger, Ledger!Spec

-----------------------------------------------------------------------------
(* Idempotency keys                                                        *)

\* OneJobPerKey, with what makes it inductive: a job has no key before its row
\* is inserted.
KeyInv ==
    /\ TypeOK
    /\ OneJobPerKey
    /\ \A j \in Jobs : status[j] = "unborn" => keyOf[j] = None

\* Rows may change status, but none appears or goes.
SameRows ==
    \A j \in Jobs : \/ status'[j] = status[j]
                    \/ /\ status[j] \notin {"unborn", "pruned"}
                       /\ status'[j] \notin {"unborn", "pruned"}

LEMMA KeysKept ==
    ASSUME KeyInv, TypeOK', UNCHANGED <<keyOf, mapping>>, SameRows
    PROVE  KeyInv'
  BY DEF KeyInv, OneJobPerKey, TypeOK, SameRows

LEMMA SameDatabase ==
    ASSUME KeyInv, TypeOK', UNCHANGED database
    PROVE  KeyInv'
  BY KeysKept DEF database, SameRows

LEMMA EndRowKeys ==
    ASSUME TypeOK, NEW j \in Jobs, NEW s \in Terminal, status[j] \in Active, EndRow(j, s)
    PROVE  SameRows
  BY DEF TypeOK, EndRow, SameRows, Active, Terminal, Results

LEMMA FinishKeys ==
    ASSUME KeyInv, TypeOK', NEW j \in Jobs, NEW s \in Terminal,
           FinishRow(j, s) \/ FinishThrows(j)
    PROVE  KeyInv'
  <1>1. CASE FinishRow(j, s)
    BY <1>1, EndRowKeys, KeysKept DEF KeyInv, FinishRow, SameRows
  <1>. QED BY <1>1, SameDatabase DEF FinishThrows

LEMMA PruneKeys ==
    ASSUME KeyInv, TypeOK', NEW i \in Instances, NEW n \in 0..Len(ended), PruneOldest(i, n)
    PROVE  KeyInv'
  <1>. DEFINE D == ToSet(SubSeq(ended, 1, n))
  <1>1. /\ status' = [j \in Jobs |-> IF j \in D THEN "pruned" ELSE status[j]]
        /\ mapping' = [k \in Keys |-> IF mapping[k] \in D THEN None ELSE mapping[k]]
        /\ keyOf' = keyOf
    BY DEF PruneOldest
  <1>. QED BY <1>1 DEF KeyInv, OneJobPerKey, TypeOK

LEMMA InsertKeys ==
    ASSUME KeyInv, TypeOK', NEW i \in Instances, NEW j \in Jobs, Insert(i, j)
    PROVE  KeyInv'
  <1>1. /\ status[j] = "unborn" /\ keyOf[j] = None
        /\ status' = [status EXCEPT ![j] = "queued"]
        /\ keyOf' = [keyOf EXCEPT ![j] = pc[i].key]
        /\ pc[i].key \in Keys \cup {None}
    BY FrameFields DEF KeyInv, Insert
  <1>2. CASE pc[i].key = None
    BY <1>1, <1>2 DEF KeyInv, OneJobPerKey, TypeOK, Insert
  <1>3. CASE pc[i].key # None
    <2>1. pc[i].key \in Keys /\ mapping[pc[i].key] = None
      BY <1>1, <1>3 DEF Insert, KeyTaken
    <2>2. mapping' = [mapping EXCEPT ![pc[i].key] = j]
      BY <1>3 DEF Insert
    <2>3. \A k \in Jobs : keyOf[k] = pc[i].key => status[k] = "pruned"
      BY <1>3, <2>1, ModelValues DEF KeyInv, OneJobPerKey, TypeOK, ModelValues
    <2>4. ASSUME NEW k \in Keys, mapping'[k] # None
          PROVE  keyOf'[mapping'[k]] = k /\ status'[mapping'[k]] \notin {"unborn", "pruned"}
      <3>1. CASE k = pc[i].key
        BY <1>1, <2>2, <3>1 DEF KeyInv, TypeOK
      <3>2. CASE k # pc[i].key
        <4>1. mapping'[k] = mapping[k] /\ mapping[k] \in Jobs
          BY <2>2, <2>4, <3>2 DEF KeyInv, TypeOK
        <4>2. mapping[k] # j
          BY <1>1, <2>4, <4>1 DEF KeyInv, OneJobPerKey
        <4>. QED BY <1>1, <2>4, <4>1, <4>2 DEF KeyInv, OneJobPerKey, TypeOK
      <3>. QED BY <3>1, <3>2
    <2>5. ASSUME NEW k \in Jobs, keyOf'[k] # None, status'[k] # "pruned"
          PROVE  mapping'[keyOf'[k]] = k
      <3>1. CASE k = j
        BY <1>1, <2>1, <2>2, <3>1 DEF KeyInv, TypeOK
      <3>2. CASE k # j
        BY <1>1, <2>1, <2>2, <2>3, <2>5, <3>2 DEF KeyInv, OneJobPerKey, TypeOK
      <3>. QED BY <3>1, <3>2
    <2>6. \A k \in Jobs : status'[k] = "unborn" => keyOf'[k] = None
      BY <1>1 DEF KeyInv, TypeOK
    <2>. QED BY <2>4, <2>5, <2>6 DEF KeyInv, OneJobPerKey
  <1>. QED BY <1>2, <1>3

\* The steps that write to the database; all the others leave it alone.
LEMMA WriterKeys ==
    ASSUME KeyInv, TypeOK', NEW i \in Instances,
           \/ Prune(i) \/ Create(i) \/ Pump(i) \/ Drop(i) \/ CancelJob(i)
           \/ CancelForeign(i) \/ Reconcile(i) \/ \E j \in Jobs : Deliver(i, j)
    PROVE  KeyInv'
  <1>1. CASE Prune(i)
    <2>1. CASE Throw(i)
      BY <2>1, SameDatabase DEF Throw, Die
    <2>. QED BY <1>1, <2>1, PruneKeys DEF Prune
  <1>2. CASE Create(i)
    BY <1>2, InsertKeys, SameDatabase DEF Create, Refused
  <1>3. CASE Pump(i)
    <2>1. UNCHANGED <<keyOf, mapping>>
      BY <1>3 DEF Pump, database
    <2>2. SameRows
      BY <1>3 DEF Pump, MarkRunning, LaunchFails, database, SameRows, KeyInv, TypeOK
    <2>. QED BY <2>1, <2>2, KeysKept
  <1>4. CASE Drop(i) \/ CancelForeign(i) \/ CancelJob(i)
    <2>1. pc[i].job \in Jobs
      BY <1>4, FrameFields DEF KeyInv, Drop, CancelForeign, CancelJob, At, OnJob
    <2>2. "spawn_error" \in Terminal /\ "cancelled" \in Terminal
      BY DEF Terminal, Results
    <2>3. CASE Drop(i)
      BY <2>1, <2>2, <2>3, FinishKeys DEF Drop
    <2>4. CASE CancelForeign(i)
      BY <2>1, <2>2, <2>4, FinishKeys DEF CancelForeign
    <2>5. CASE CancelJob(i)
      <3>1. CASE CancelQueued(i, pc[i].job)
        BY <2>1, <2>2, <3>1, FinishKeys DEF CancelQueued
      <3>. QED BY <2>5, <3>1, SameDatabase DEF CancelJob, CancelRunning, CancelElse
    <2>. QED BY <1>4, <2>3, <2>4, <2>5
  <1>5. CASE Reconcile(i)
    <2>1. CASE UNCHANGED database
      BY <2>1, SameDatabase
    <2>2. ASSUME NEW j \in pc[i].todo, UNCHANGED <<keyOf, mapping>>,
                 \/ status[j] \in Active /\ EndRow(j, "interrupted")
                 \/ UNCHANGED <<status, ended>>
          PROVE  KeyInv'
      <3>1. j \in Jobs /\ "interrupted" \in Terminal
        BY FrameFields DEF KeyInv, Terminal
      <3>. QED BY <2>2, <3>1, EndRowKeys, KeysKept DEF KeyInv, SameRows
    <2>. QED BY <1>5, <2>1, <2>2 DEF Reconcile
  <1>6. CASE \E j \in Jobs : Deliver(i, j)
    <2>1. PICK j \in Jobs : Deliver(i, j)
      BY <1>6
    <2>2. verdict[j] \in Terminal
      BY <2>1 DEF Deliver, KeyInv, TypeOK, Terminal
    <2>. QED BY <2>1, <2>2, FinishKeys DEF Deliver
  <1>. QED BY <1>1, <1>2, <1>3, <1>4, <1>5, <1>6

\* However many servers share the file and whatever fails, an idempotency key
\* stands for at most one recorded job, and for the one it was given to.
THEOREM KeysStayUnique == Spec => []OneJobPerKey
  <1>1. Init => KeyInv
    BY InitType DEF Init, KeyInv, OneJobPerKey
  <1>2. KeyInv /\ [Next]_vars => KeyInv'
    <2>. SUFFICES ASSUME KeyInv, [Next]_vars PROVE KeyInv'
      OBVIOUS
    <2>1. ASSUME NEW j \in Jobs, ChildDies(j) PROVE KeyInv'
      <3>1. TypeOK'
        BY <2>1 DEF leases, ChildDies, KeyInv, TypeOK, database, memory
      <3>. QED BY <2>1, <3>1, SameDatabase DEF ChildDies
    <2>2. CASE UNCHANGED vars
      <3>1. TypeOK'
        BY <2>2 DEF leases, vars, KeyInv, TypeOK, database, memory, children
      <3>. QED BY <2>2, <3>1, SameDatabase DEF vars
    <2>3. ASSUME NEW i \in Instances,
                 Request(i) \/ HandlerStep(i) \/ ChildEvent(i) \/ Lifecycle(i)
          PROVE  KeyInv'
      <3>1. TypeOK'
        BY <2>3, TypeStep DEF KeyInv
      <3>2. CASE Request(i)
        BY <3>1, <3>2, SameDatabase DEF Request, Start, Read, Cancel
      <3>3. CASE Lifecycle(i)
        BY <3>1, <3>3, SameDatabase
           DEF Lifecycle, Boot, Heartbeat, LeaseLapses, Shutdown, Exit, Crash, Die
      <3>4. CASE ChildEvent(i)
        BY <3>1, <3>4, SameDatabase, WriterKeys DEF ChildEvent, TimeoutFires, ChildCloses
      <3>5. CASE HandlerStep(i)
        BY <3>1, <3>5, SameDatabase, WriterKeys
           DEF HandlerStep, Lookup, Verify, ReportCorrupt, Spawn, Refresh, Scan,
               ReconcileFails, ShutdownNext, Throw, Die
      <3>. QED BY <2>3, <3>2, <3>3, <3>4, <3>5
    <2>. QED BY <2>1, <2>2, <2>3 DEF Next
  <1>3. KeyInv => OneJobPerKey
    BY DEF KeyInv
  <1>. QED BY <1>1, <1>2, <1>3, PTL DEF Spec

-----------------------------------------------------------------------------
(* Recovery and leases                                                     *)

\* NoFalseOrphan, with what makes it inductive: a live instance without a
\* fresh lease is still starting, at its first refresh, and has no job yet.
LeaseInv ==
    /\ TypeOK
    /\ NoFalseOrphan
    /\ \A j \in Jobs : status[j] \in Active \cup {"interrupted"} => home[j] \in Instances
    /\ \A j \in Jobs : home[j] \in Instances => phase[home[j]] # "down"
    /\ \A i \in Instances : phase[i] \in Live /\ ~fresh[i] =>
          /\ pc[i].at = "refresh" /\ pc[i].fatal
          /\ \A j \in Jobs : home[j] # i
    /\ \A i \in Instances : newer[i] = {}

\* Nobody is newly interrupted, and no row is inserted.
NoInterrupt ==
    \A j \in Jobs : /\ status'[j] = "interrupted" => status[j] = "interrupted"
                    /\ status'[j] \in Active => status[j] \in Active

\* A step of an instance that holds its lease, if it interrupts nobody.
LEMMA LeaseKept ==
    ASSUME LeaseInv, TypeOK', NEW i \in Instances, fresh[i], UNCHANGED <<leases, phase, home>>,
           \A o \in Instances \ {i} : pc'[o] = pc[o], NoInterrupt
    PROVE  LeaseInv'
  <1>1. /\ NoFalseOrphan'
        /\ \A j \in Jobs : status'[j] \in Active \cup {"interrupted"} => home'[j] \in Instances
        /\ \A j \in Jobs : home'[j] \in Instances => phase'[home'[j]] # "down"
    BY DEF LeaseInv, NoFalseOrphan, NoInterrupt
  <1>2. ASSUME NEW o \in Instances, phase'[o] \in Live, ~fresh'[o]
        PROVE  pc'[o].at = "refresh" /\ pc'[o].fatal /\ \A j \in Jobs : home'[j] # o
    BY <1>2 DEF leases, LeaseInv
  <1>. QED BY <1>1, <1>2 DEF leases, LeaseInv

LEMMA GotoElsewhere ==
    ASSUME TypeOK, NEW i \in Instances, NEW f, Goto(i, f)
    PROVE  \A o \in Instances \ {i} : pc'[o] = pc[o]
  BY DEF TypeOK, Goto

LEMMA HoldsLease ==
    ASSUME LeaseInv, NEW i \in Instances, NEW stage, At(i, stage), stage # "refresh"
    PROVE  fresh[i]
  BY DEF LeaseInv, At, TypeOK

LEMMA DieLease ==
    ASSUME LeaseInv, TypeOK', NEW i \in Instances, phase[i] \in Live,
           NEW how \in Dead, Die(i, how)
    PROVE  LeaseInv'
  <1>1. UNCHANGED <<status, home, leases>> /\ phase' = [phase EXCEPT ![i] = how]
    BY DEF Die, database
  <1>2. \A o \in Instances \ {i} : pc'[o] = pc[o]
    BY DEF Die, Goto, LeaseInv, TypeOK
  <1>. QED BY <1>1, <1>2 DEF leases, LeaseInv, NoFalseOrphan, TypeOK, Live, Dead

LEMMA FinishLease ==
    ASSUME TypeOK, NEW j \in Jobs, NEW s \in Results, FinishRow(j, s) \/ FinishThrows(j)
    PROVE  NoInterrupt
  BY DEF FinishRow, FinishThrows, EndRow, NoInterrupt, TypeOK, database, Active, Results

\* The steps of an instance, except those that insert a job or can throw and
\* those that renew a lease or read one.
PlainStep(i) ==
    \/ Request(i) \/ ChildEvent(i) \/ Heartbeat(i) \/ ShutdownNext(i)
    \/ Lookup(i) \/ Verify(i) \/ ReportCorrupt(i) \/ (Refused(i) /\ Create(i))
    \/ Pump(i) \/ Spawn(i) \/ Drop(i) \/ CancelJob(i) \/ CancelForeign(i) \/ Scan(i)

LEMMA HandlerLease ==
    ASSUME LeaseInv, TypeOK', NEW i \in Instances, PlainStep(i)
    PROVE  LeaseInv'
  <1>1. fresh[i]
    BY ZenonT(60), HoldsLease
       DEF PlainStep, Request, Start, Read, Cancel, ChildEvent, TimeoutFires, ChildCloses,
       Deliver, Heartbeat, ShutdownNext, Lookup, Verify, ReportCorrupt, Create, Pump,
       Spawn, Drop, CancelJob, CancelForeign, Scan
  <1>2. UNCHANGED <<leases, phase, home>>
    BY ZenonT(30)
       DEF PlainStep, Request, Start, Read, Cancel, ChildEvent, TimeoutFires, ChildCloses,
       Deliver, Heartbeat, ShutdownNext, Lookup, Verify, ReportCorrupt, Create, Refused, Pump,
       Spawn, Drop, CancelJob, CancelQueued, CancelRunning, CancelElse, CancelForeign, Scan,
       memory
  <1>3. \A o \in Instances \ {i} : pc'[o] = pc[o]
    <2>1. CASE UNCHANGED pc
      BY <2>1
    <2>2. TypeOK
      BY SMTT(30) DEF LeaseInv
    <2>3. CASE Request(i) \/ ChildEvent(i) \/ Heartbeat(i) \/ ShutdownNext(i)
      BY <2>1, <2>2, <2>3, GotoElsewhere
         DEF Request, Start, Read, Cancel, ChildEvent, TimeoutFires, ChildCloses, Deliver,
             Heartbeat, ShutdownNext
    <2>4. CASE \/ Lookup(i) \/ Verify(i) \/ ReportCorrupt(i) \/ Refused(i)
               \/ Spawn(i) \/ Drop(i) \/ CancelForeign(i) \/ Scan(i)
      BY <2>2, <2>4, GotoElsewhere
         DEF Lookup, Verify, ReportCorrupt, Refused, Spawn, Drop, CancelForeign, Scan, Return
    <2>5. CASE Pump(i) \/ CancelJob(i)
      BY SMTT(30), <2>1, <2>2, <2>5, GotoElsewhere
         DEF Pump, MarkRunning, LaunchFails, CancelJob, CancelQueued, CancelRunning,
             CancelElse, Return
    <2>. QED BY <2>3, <2>4, <2>5 DEF PlainStep
  <1>4. NoInterrupt
    <2>1. CASE UNCHANGED status
      BY <2>1 DEF NoInterrupt
    <2>2. ASSUME NEW j \in Jobs, MarkRunning(i, j)
          PROVE  NoInterrupt
      BY <2>2 DEF MarkRunning, NoInterrupt, LeaseInv, TypeOK, Active
    <2>3. CASE Pump(i)
      BY <2>1, <2>2, <2>3 DEF Pump, LaunchFails, database, LeaseInv, TypeOK
    <2>4. CASE Drop(i) \/ CancelForeign(i) \/ CancelJob(i)
      <3>1. pc[i].job \in Jobs
        BY <2>4, FrameFields DEF LeaseInv, Drop, CancelForeign, CancelJob, At, OnJob
      <3>. QED BY <2>1, <2>4, <3>1, FinishLease
              DEF LeaseInv, Drop, CancelForeign, CancelJob, CancelQueued, CancelRunning,
                  CancelElse, database, Results
    <2>5. CASE ChildEvent(i)
      <3>1. ASSUME NEW j \in Jobs, Deliver(i, j)
            PROVE  NoInterrupt
        BY <3>1, FinishLease DEF Deliver, LeaseInv, TypeOK
      <3>. QED BY <2>1, <2>5, <3>1 DEF ChildEvent, TimeoutFires, ChildCloses, database
    <2>. QED BY <2>1, <2>3, <2>4, <2>5
            DEF PlainStep, Request, Start, Read, Cancel, Heartbeat, ShutdownNext, Lookup, Verify,
                ReportCorrupt, Refused, Spawn, Scan, database
  <1>. QED BY SMTT(40), <1>1, <1>2, <1>3, <1>4, LeaseKept

LEMMA ThrowLease ==
    ASSUME LeaseInv, TypeOK', NEW i \in Instances, phase[i] \in Live, Throw(i),
           fresh[i] \/ pc[i].fatal
    PROVE  LeaseInv'
  <1>1. CASE Die(i, "killed")
    BY <1>1, DieLease DEF Dead
  <1>2. CASE fresh[i] /\ Return(i) /\ UNCHANGED <<database, leases, phase, memory>>
    <2>1. \A o \in Instances \ {i} : pc'[o] = pc[o]
      BY <1>2 DEF Return, Goto, LeaseInv, TypeOK
    <2>. QED BY <1>2, <2>1, LeaseKept DEF NoInterrupt, database, memory
  <1>. QED BY <1>1, <1>2 DEF Throw

\* Pruning, creating and the lease refresh.
LEMMA PruneLease ==
    ASSUME LeaseInv, TypeOK', NEW i \in Instances, Prune(i)
    PROVE  LeaseInv'
  <1>1. fresh[i] /\ phase[i] \in Live
    BY HoldsLease DEF Prune, At
  <1>2. CASE Throw(i)
    BY <1>1, <1>2, ThrowLease
  <1>3. CASE ~Throw(i)
    <2>1. UNCHANGED <<leases, phase, home>>
      BY <1>3 DEF Prune
    <2>2. \A o \in Instances \ {i} : pc'[o] = pc[o]
      BY <1>3 DEF Prune, Return, Goto, LeaseInv, TypeOK
    <2>3. PICK n \in 0..Len(ended) : PruneOldest(i, n)
      BY <1>3 DEF Prune
    <2>4. NoInterrupt
      <3>1. \A j \in Jobs : status'[j] = status[j] \/ status'[j] = "pruned"
        BY <2>3 DEF PruneOldest, LeaseInv, TypeOK
      <3>. QED BY <3>1 DEF NoInterrupt, Active
    <2>. QED BY <1>1, <2>1, <2>2, <2>4, LeaseKept
  <1>. QED BY <1>2, <1>3

LEMMA InsertLease ==
    ASSUME LeaseInv, TypeOK', NEW i \in Instances, NEW j \in Jobs, At(i, "insert"),
           Insert(i, j), UNCHANGED <<leases, phase>>
    PROVE  LeaseInv'
  <1>1. fresh[i] /\ phase[i] \in Live
    BY HoldsLease DEF At
  <1>2. /\ status' = [status EXCEPT ![j] = "queued"] /\ home' = [home EXCEPT ![j] = i]
        /\ status[j] = "unborn"
        /\ \A o \in Instances \ {i} : pc'[o] = pc[o]
    BY GotoElsewhere DEF Insert, LeaseInv
  <1>3. \A k \in Jobs \ {j} : status'[k] = status[k] /\ home'[k] = home[k]
    BY <1>2 DEF LeaseInv, TypeOK
  <1>4. status'[j] = "queued" /\ home'[j] = i
    BY <1>2 DEF LeaseInv, TypeOK
  <1>5. /\ NoFalseOrphan'
        /\ \A k \in Jobs : status'[k] \in Active \cup {"interrupted"} => home'[k] \in Instances
    BY <1>3, <1>4 DEF LeaseInv, NoFalseOrphan
  <1>6. \A k \in Jobs : home'[k] \in Instances => phase'[home'[k]] # "down"
    BY <1>1, <1>3, <1>4 DEF LeaseInv, Live
  <1>7. ASSUME NEW o \in Instances, phase'[o] \in Live, ~fresh'[o]
        PROVE  pc'[o].at = "refresh" /\ pc'[o].fatal /\ \A k \in Jobs : home'[k] # o
    BY <1>1, <1>2, <1>3, <1>4, <1>7 DEF leases, LeaseInv
  <1>. QED BY <1>5, <1>6, <1>7 DEF leases, LeaseInv

LEMMA RefreshLease ==
    ASSUME ~RenewalRaces, LeaseInv, TypeOK', NEW i \in Instances, Refresh(i)
    PROVE  LeaseInv'
  <1>1. phase[i] \in Live /\ (fresh[i] \/ pc[i].fatal)
    BY DEF Refresh, At, LeaseInv
  <1>2. CASE Throw(i)
    BY <1>1, <1>2, ThrowLease
  <1>3. CASE ~Throw(i)
    <2>1. /\ fresh' = [fresh EXCEPT ![i] = TRUE] /\ UNCHANGED <<status, phase, home>>
          /\ \A o \in Instances \ {i} : pc'[o] = pc[o]
      BY <1>3 DEF Refresh, Goto, LeaseInv, TypeOK, database, memory
    <2>2. newer' = [o \in Instances |->
                     IF o = i THEN {}
                     ELSE IF RenewalRaces /\ pc[o].at \in {"scan", "reconcile"}
                          THEN newer[o] \cup {i} ELSE newer[o]]
      BY <1>3 DEF Refresh
    <2>3. ASSUME NEW o \in Instances
          PROVE  newer'[o] = {}
      BY <2>2, <2>3 DEF LeaseInv
    <2>. QED BY <2>1, <2>3 DEF LeaseInv, NoFalseOrphan, TypeOK
  <1>. QED BY <1>2, <1>3

\* The one step that interrupts: only a job whose instance has ended.
LEMMA ReconcileLease ==
    ASSUME LeaseInv, TypeOK', NEW i \in Instances, Reconcile(i) \/ ReconcileFails(i)
    PROVE  LeaseInv'
  <1>1. fresh[i] /\ phase[i] \in Live
    BY HoldsLease DEF Reconcile, ReconcileFails, At
  <1>2. ASSUME UNCHANGED <<status, leases, phase, home>>, NEW f, Goto(i, f)
        PROVE  LeaseInv'
    <2>1. \A o \in Instances \ {i} : pc'[o] = pc[o]
      BY <1>2 DEF Goto, LeaseInv, TypeOK
    <2>. QED BY <1>1, <1>2, <2>1, LeaseKept DEF NoInterrupt
  <1>3. ASSUME NEW j \in Jobs, FALSE \in LeaseAnswers(i, home[j]), status[j] \in Active,
               EndRow(j, "interrupted"), UNCHANGED <<leases, phase, home>>, NEW f, Goto(i, f)
        PROVE  LeaseInv'
    <2>1. home[j] \in Instances /\ phase[home[j]] # "down"
      BY <1>3 DEF LeaseInv, Active
    <2>2. phase[home[j]] \in Dead
      BY <1>3, <2>1 DEF LeaseAnswers, LeaseInv, TypeOK, Live
    <2>3. \A o \in Instances \ {i} : pc'[o] = pc[o]
      BY <1>3 DEF Goto, LeaseInv, TypeOK
    <2>4. \A k \in Jobs \ {j} : status'[k] = status[k]
      BY <1>3 DEF EndRow, LeaseInv, TypeOK
    <2>5. /\ NoFalseOrphan'
          /\ \A k \in Jobs : status'[k] \in Active \cup {"interrupted"} => home'[k] \in Instances
      BY <1>3, <2>1, <2>2, <2>4 DEF LeaseInv, NoFalseOrphan
    <2>6. ASSUME NEW o \in Instances, phase'[o] \in Live, ~fresh'[o]
          PROVE  pc'[o].at = "refresh" /\ pc'[o].fatal /\ \A k \in Jobs : home'[k] # o
      BY <1>1, <1>3, <2>3, <2>6 DEF leases, LeaseInv
    <2>. QED BY <1>3, <2>5, <2>6 DEF leases, LeaseInv
  <1>4. CASE Reconcile(i)
    <2>1. pc[i].todo \subseteq Jobs
      BY FrameFields DEF LeaseInv
    <2>. QED BY <1>2, <1>3, <1>4, <2>1 DEF Reconcile, database, memory, LeaseAnswers
  <1>5. CASE ReconcileFails(i)
    BY <1>1, <1>2, <1>5, DieLease DEF ReconcileFails, database, memory, Dead
  <1>. QED BY <1>4, <1>5

LEMMA LifecycleLease ==
    ASSUME ~LeaseMayLapse, LeaseInv, TypeOK', NEW i \in Instances, Lifecycle(i)
    PROVE  LeaseInv'
  <1>1. CASE Boot(i)
    <2>1. /\ phase[i] = "down" /\ phase' = [phase EXCEPT ![i] = "up"]
          /\ pc' = [pc EXCEPT ![i] = [Idle EXCEPT !.at = "refresh", !.fatal = TRUE]]
          /\ UNCHANGED <<status, leases, home>>
      BY <1>1 DEF Boot, Goto, database, memory
    <2>2. pc'[i].at = "refresh" /\ pc'[i].fatal
      BY <2>1 DEF LeaseInv, TypeOK, Idle
    <2>. QED BY <2>1, <2>2 DEF leases, LeaseInv, NoFalseOrphan, TypeOK, Live, Dead
  <1>2. CASE Heartbeat(i)
    BY <1>2, HandlerLease DEF PlainStep
  <1>3. CASE LeaseLapses(i)
    <2>1. phase[i] \in Dead /\ fresh' = [fresh EXCEPT ![i] = FALSE]
          /\ UNCHANGED <<status, newer, phase, home, pc>>
      BY <1>3 DEF LeaseLapses, database, memory
    <2>. QED BY <2>1 DEF leases, LeaseInv, NoFalseOrphan, TypeOK, Live, Dead
  <1>4. CASE Shutdown(i)
    <2>1. /\ phase[i] = "up" /\ phase' = [phase EXCEPT ![i] = "stopping"] /\ fresh[i]
          /\ UNCHANGED <<status, leases, home>>
      BY <1>4, HoldsLease DEF Shutdown, database, memory
    <2>2. \A o \in Instances \ {i} : pc'[o] = pc[o]
      BY <1>4 DEF Shutdown, Goto, LeaseInv, TypeOK
    <2>. QED BY <2>1, <2>2 DEF leases, LeaseInv, NoFalseOrphan, TypeOK, Live, Dead
  <1>5. CASE Exit(i) \/ Crash(i)
    BY <1>5, DieLease DEF Exit, Crash, Live, Dead
  <1>. QED BY <1>1, <1>2, <1>3, <1>4, <1>5 DEF Lifecycle

\* Every step keeps the leases in order.
LEMMA LeaseStep ==
    ASSUME ~LeaseMayLapse, ~RenewalRaces, LeaseInv, [Next]_vars
    PROVE  LeaseInv'
  <1>1. ASSUME NEW j \in Jobs, ChildDies(j) PROVE LeaseInv'
    <2>1. TypeOK'
      BY <1>1 DEF leases, ChildDies, LeaseInv, TypeOK, database, memory
    <2>. QED BY <1>1, <2>1 DEF leases, ChildDies, LeaseInv, NoFalseOrphan, database, memory
  <1>2. CASE UNCHANGED vars
    <2>1. TypeOK'
      BY <1>2 DEF leases, vars, LeaseInv, TypeOK, database, memory, children
    <2>. QED BY <1>2, <2>1 DEF leases, vars, LeaseInv, NoFalseOrphan, database, memory
  <1>3. ASSUME NEW i \in Instances,
               Request(i) \/ HandlerStep(i) \/ ChildEvent(i) \/ Lifecycle(i)
        PROVE  LeaseInv'
    <2>1. TypeOK'
      BY <1>3, TypeStep DEF LeaseInv
    <2>2. CASE Create(i)
      <3>1. CASE Refused(i)
        BY <2>1, <2>2, <3>1, HandlerLease DEF PlainStep
      <3>. QED BY <2>1, <2>2, <3>1, InsertLease DEF Create
    <2>3. CASE HandlerStep(i)
      <3>1. CASE Prune(i)
        BY <2>1, <3>1, PruneLease
      <3>2. CASE Refresh(i)
        BY <2>1, <3>2, RefreshLease
      <3>3. CASE Reconcile(i) \/ ReconcileFails(i)
        BY <2>1, <3>3, ReconcileLease
      <3>4. CASE \/ ShutdownNext(i) \/ Lookup(i) \/ Verify(i) \/ ReportCorrupt(i)
                 \/ Pump(i) \/ Spawn(i) \/ Drop(i) \/ CancelJob(i)
                 \/ CancelForeign(i) \/ Scan(i)
        <4>1. PlainStep(i)
          BY <3>4 DEF PlainStep
        <4>. QED BY <2>1, <4>1, HandlerLease
      <3>. QED BY <2>2, <2>3, <3>1, <3>2, <3>3, <3>4 DEF HandlerStep
    <2>4. CASE Request(i) \/ ChildEvent(i)
      BY <2>1, <2>4, HandlerLease DEF PlainStep
    <2>. QED BY <1>3, <2>1, <2>3, <2>4, LifecycleLease
  <1>. QED BY <1>1, <1>2, <1>3 DEF Next

LEMMA LeaseInit == ASSUME Init PROVE LeaseInv
  BY InitType, ModelValues DEF Init, LeaseInv, NoFalseOrphan, ModelValues, Live, Active

\* As long as a live server keeps its heartbeat, and no renewal overtakes a
\* scan, no other server ever declares a job of it interrupted: not while it
\* starts, not while it shuts down, and not after a process id was reused.
THEOREM NoFalseOrphans ==
    ASSUME ~LeaseMayLapse, ~RenewalRaces PROVE Spec => []NoFalseOrphan
  <1>1. Init => LeaseInv
    BY LeaseInit
  <1>2. LeaseInv /\ [Next]_vars => LeaseInv'
    BY LeaseStep
  <1>3. LeaseInv => NoFalseOrphan
    BY DEF LeaseInv
  <1>. QED BY <1>1, <1>2, <1>3, PTL DEF Spec

-----------------------------------------------------------------------------
(* What one instance's step does to the others                             *)

Moves(i) == Request(i) \/ HandlerStep(i) \/ ChildEvent(i) \/ Lifecycle(i)

\* A step of an instance is a step of its own handler and its own queue.
LEMMA OthersStay ==
    ASSUME TypeOK, NEW i \in Instances, Moves(i)
    PROVE  \A o \in Instances \ {i} :
              pc'[o] = pc[o] /\ phase'[o] = phase[o] /\ queue'[o] = queue[o]
  <1>1. ASSUME NEW how, Die(i, how)
        PROVE  \A o \in Instances \ {i} :
                  pc'[o] = pc[o] /\ phase'[o] = phase[o] /\ queue'[o] = queue[o]
    BY <1>1 DEF Die, Goto, TypeOK
  <1>2. CASE Request(i)
    BY <1>2, GotoElsewhere DEF Request, Start, Read, Cancel, memory
  <1>3. CASE ChildEvent(i)
    BY <1>3, GotoElsewhere DEF ChildEvent, TimeoutFires, ChildCloses, Deliver, memory
  <1>4. CASE Lifecycle(i)
    <2>1. CASE Exit(i) \/ Crash(i)
      BY <1>1, <2>1 DEF Exit, Crash
    <2>2. CASE LeaseLapses(i)
      BY <2>2 DEF LeaseLapses, memory
    <2>3. CASE Boot(i) \/ Heartbeat(i) \/ Shutdown(i)
      <3>1. \A o \in Instances \ {i} : phase'[o] = phase[o] /\ queue' = queue
        BY <2>3 DEF Boot, Heartbeat, Shutdown, TypeOK, memory
      <3>2. \E f : Goto(i, f)
        BY SMTT(30), <2>3 DEF Boot, Heartbeat, Shutdown
      <3>. QED BY <3>1, <3>2, GotoElsewhere
    <2>. QED BY <1>4, <2>1, <2>2, <2>3 DEF Lifecycle
  <1>5. CASE \/ Lookup(i) \/ Verify(i) \/ ReportCorrupt(i) \/ Spawn(i) \/ Drop(i)
             \/ CancelForeign(i) \/ Scan(i) \/ Reconcile(i) \/ ShutdownNext(i)
    BY <1>5, GotoElsewhere
       DEF Lookup, Verify, ReportCorrupt, Spawn, Drop, CancelForeign, Scan, Reconcile,
           ShutdownNext, Return, memory
  <1>6. CASE Create(i)
    <2>1. CASE Refused(i)
      BY <1>6, <2>1, GotoElsewhere DEF Create, Refused, memory
    <2>2. ASSUME NEW j \in Jobs, Insert(i, j)
          PROVE  \A o \in Instances \ {i} : pc'[o] = pc[o] /\ queue'[o] = queue[o]
      BY <2>2, GotoElsewhere DEF Insert, TypeOK
    <2>. QED BY <1>6, <2>1, <2>2 DEF Create
  <1>7. CASE Pump(i)
    <2>1. \A o \in Instances \ {i} : queue'[o] = queue[o] /\ phase' = phase
      BY <1>7 DEF Pump, memory, TypeOK
    <2>2. pc' = pc \/ \E f : Goto(i, f)
      BY <1>7 DEF Pump, MarkRunning, LaunchFails, Return
    <2>. QED BY <2>1, <2>2, GotoElsewhere
  <1>8. CASE CancelJob(i)
    <2>1. \A o \in Instances \ {i} : queue'[o] = queue[o] /\ phase' = phase
      BY <1>8 DEF CancelJob, CancelQueued, CancelRunning, CancelElse, memory, TypeOK
    <2>2. \E f : Goto(i, f)
      BY <1>8 DEF CancelJob, CancelQueued, CancelRunning, CancelElse, Return
    <2>. QED BY <2>1, <2>2, GotoElsewhere
  <1>9. CASE Prune(i) \/ Refresh(i) \/ ReconcileFails(i)
    <2>1. CASE Die(i, "killed")
      BY <1>1, <2>1
    <2>2. CASE ~Die(i, "killed")
      <3>1. \E f : Goto(i, f)
        BY <1>9, <2>2 DEF Prune, Refresh, ReconcileFails, Throw, Return
      <3>2. UNCHANGED <<phase, queue>>
        BY <1>9, <2>2 DEF Prune, Refresh, ReconcileFails, Throw, memory
      <3>. QED BY <3>1, <3>2, GotoElsewhere
    <2>. QED BY <2>1, <2>2
  <1>. QED BY <1>2, <1>3, <1>4, <1>5, <1>6, <1>7, <1>8, <1>9 DEF Moves, HandlerStep

-----------------------------------------------------------------------------
(* No launch while stopping                                                *)

\* A handler is about to spawn only in an instance that is not shutting down.
LaunchInv ==
    /\ LedgerInv
    /\ \A i \in Instances : pc[i].at = "spawn" => phase[i] = "up"

\* Where a handler goes next, and what it still has to do after that.
Lands(i, stage, next, D) ==
    pc'[i].at = stage /\ pc'[i].next = next /\ pc'[i].todo = D

LEMMA GotoIs == ASSUME TypeOK, NEW i \in Instances, NEW f, Goto(i, f) PROVE pc'[i] = f
  BY DEF TypeOK, Goto

LEMMA IdleIs ==
    /\ Idle.at = "idle" /\ Idle.next = "idle" /\ Idle.todo = {}
    /\ \A stage \in Stages :
          /\ [Idle EXCEPT !.at = stage].at = stage
          /\ [Idle EXCEPT !.at = stage].next = "idle"
          /\ [Idle EXCEPT !.at = stage].todo = {}
          /\ [Idle EXCEPT !.at = stage, !.fatal = TRUE].at = stage
          /\ [Idle EXCEPT !.at = stage, !.fatal = TRUE].next = "idle"
          /\ [Idle EXCEPT !.at = stage, !.fatal = TRUE].todo = {}
          /\ \A D \in SUBSET Jobs :
                /\ [Idle EXCEPT !.at = stage, !.todo = D].at = stage
                /\ [Idle EXCEPT !.at = stage, !.todo = D].next = "idle"
                /\ [Idle EXCEPT !.at = stage, !.todo = D].todo = D
  BY DEF Idle

LEMMA ReturnLands ==
    ASSUME TypeOK, NEW i \in Instances, Return(i)
    PROVE  Lands(i, IF pc[i].todo = {} THEN "idle" ELSE "shutdown", "idle", pc[i].todo)
  <1>1. pc[i].todo \in SUBSET Jobs /\ "shutdown" \in Stages
    BY FrameFields, StageNames
  <1>2. CASE pc[i].todo = {}
    <2>1. pc'[i] = Idle
      BY <1>2, GotoIs DEF Return
    <2>. QED BY <1>2, <2>1, IdleIs DEF Lands
  <1>3. CASE pc[i].todo # {}
    <2>1. pc'[i] = [Idle EXCEPT !.at = "shutdown", !.todo = pc[i].todo]
      BY <1>3, GotoIs DEF Return
    <2>. QED BY <1>1, <1>3, <2>1, IdleIs DEF Lands
  <1>. QED BY <1>2, <1>3

LEMMA PruningIs ==
    ASSUME TypeOK, NEW i \in Instances
    PROVE  \A next \in Callers :
             /\ Pruning(i, next).at = "prune" /\ Pruning(i, next).next = next
             /\ Pruning(i, next).todo = pc[i].todo
             /\ [Pruning(i, next) EXCEPT !.fatal = TRUE].at = "prune"
             /\ [Pruning(i, next) EXCEPT !.fatal = TRUE].next = next
             /\ [Pruning(i, next) EXCEPT !.fatal = TRUE].todo = pc[i].todo
             /\ \A k \in Keys \cup {None} :
                   /\ [Pruning(i, next) EXCEPT !.key = k].at = "prune"
                   /\ [Pruning(i, next) EXCEPT !.key = k].next = next
                   /\ [Pruning(i, next) EXCEPT !.key = k].todo = pc[i].todo
             /\ \A j \in Jobs \cup {None} :
                   /\ [Pruning(i, next) EXCEPT !.job = j].at = "prune"
                   /\ [Pruning(i, next) EXCEPT !.job = j].next = next
                   /\ [Pruning(i, next) EXCEPT !.job = j].job = j
                   /\ [Pruning(i, next) EXCEPT !.job = j].todo = pc[i].todo
                   /\ \A D \in SUBSET Jobs :
                         /\ [Pruning(i, next) EXCEPT !.job = j, !.todo = D].at = "prune"
                         /\ [Pruning(i, next) EXCEPT !.job = j, !.todo = D].next = next
                         /\ [Pruning(i, next) EXCEPT !.job = j, !.todo = D].job = j
                         /\ [Pruning(i, next) EXCEPT !.job = j, !.todo = D].todo = D
  BY FrameFields DEF Pruning, Fields

LEMMA OnwardIs ==
    ASSUME TypeOK, NEW i \in Instances
    PROVE  \A stage \in Stages :
             /\ [pc[i] EXCEPT !.at = stage].at = stage
             /\ [pc[i] EXCEPT !.at = stage].next = pc[i].next
             /\ [pc[i] EXCEPT !.at = stage].todo = pc[i].todo
             /\ [pc[i] EXCEPT !.at = stage, !.next = "idle"].at = stage
             /\ [pc[i] EXCEPT !.at = stage, !.next = "idle"].next = "idle"
             /\ [pc[i] EXCEPT !.at = stage, !.next = "idle"].job = pc[i].job
             /\ [pc[i] EXCEPT !.at = stage, !.next = "idle"].todo = pc[i].todo
             /\ \A j \in Jobs \cup {None} :
                   /\ [pc[i] EXCEPT !.at = stage, !.job = j].at = stage
                   /\ [pc[i] EXCEPT !.at = stage, !.job = j].next = pc[i].next
                   /\ [pc[i] EXCEPT !.at = stage, !.job = j].job = j
                   /\ [pc[i] EXCEPT !.at = stage, !.job = j].todo = pc[i].todo
  BY FrameFields DEF Fields

LEMMA OnwardTodoIs ==
    ASSUME TypeOK, NEW i \in Instances, NEW stage \in Stages, NEW D \in SUBSET Jobs
    PROVE  /\ [pc[i] EXCEPT !.at = stage, !.todo = D].at = stage
           /\ [pc[i] EXCEPT !.at = stage, !.todo = D].next = pc[i].next
           /\ [pc[i] EXCEPT !.at = stage, !.todo = D].todo = D
           /\ [pc[i] EXCEPT !.todo = D].at = pc[i].at
           /\ [pc[i] EXCEPT !.todo = D].next = pc[i].next
           /\ [pc[i] EXCEPT !.todo = D].todo = D
  BY FrameFields DEF Fields

LEMMA DieLands ==
    ASSUME TypeOK, NEW i \in Instances, NEW how, Die(i, how)
    PROVE  Lands(i, "idle", "idle", {})
  <1>1. pc'[i] = Idle
    BY GotoIs DEF Die
  <1>. QED BY <1>1, IdleIs DEF Lands

\* Requests of clients begin with prune().
LEMMA StartLands ==
    ASSUME TypeOK, NEW i \in Instances, NEW k \in Keys \cup {None}, Start(i, k)
    PROVE  Lands(i, "prune", "insert", pc[i].todo) \/ Lands(i, "prune", "lookup", pc[i].todo)
  <1>1. CASE k = None
    <2>1. pc'[i] = [Pruning(i, "insert") EXCEPT !.key = k]
      BY <1>1, GotoIs DEF Start
    <2>. QED BY <2>1, PruningIs, CallerNames DEF Lands
  <1>2. CASE k # None
    <2>1. pc'[i] = [Pruning(i, "lookup") EXCEPT !.key = k]
      BY <1>2, GotoIs DEF Start
    <2>. QED BY <2>1, PruningIs, CallerNames DEF Lands
  <1>. QED BY <1>1, <1>2

LEMMA ReadLands ==
    ASSUME TypeOK, NEW i \in Instances, Read(i)
    PROVE  Lands(i, "prune", "idle", pc[i].todo)
  <1>1. pc'[i] = Pruning(i, "idle")
    BY GotoIs DEF Read
  <1>. QED BY <1>1, PruningIs, CallerNames DEF Lands

LEMMA CancelLands ==
    ASSUME TypeOK, NEW i \in Instances, NEW j \in Jobs, Cancel(i, j)
    PROVE  Lands(i, "prune", "cancel", pc[i].todo) /\ pc'[i].job = j
  <1>1. pc'[i] = [Pruning(i, "cancel") EXCEPT !.job = j]
    BY GotoIs DEF Cancel
  <1>. QED BY <1>1, PruningIs, CallerNames DEF Lands

LEMMA PruneLands ==
    ASSUME TypeOK, NEW i \in Instances, pc[i].next # "idle",
           Goto(i, [pc[i] EXCEPT !.at = pc[i].next, !.next = "idle"])
    PROVE  Lands(i, pc[i].next, "idle", pc[i].todo) /\ pc'[i].job = pc[i].job
  <1>1. pc'[i] = [pc[i] EXCEPT !.at = pc[i].next, !.next = "idle"]
    BY GotoIs
  <1>2. pc[i].next \in Stages
    BY FrameFields, CallerNames
  <1>. QED BY <1>1, <1>2, OnwardIs DEF Lands

LEMMA LookupLands ==
    ASSUME TypeOK, NEW i \in Instances, Lookup(i)
    PROVE  Lands(i, "insert", "idle", pc[i].todo) \/ Lands(i, "verify", "idle", pc[i].todo)
  <1>. DEFINE known == mapping[pc[i].key]
  <1>1. known \in Jobs \cup {None} /\ pc[i].next = "idle"
    BY FrameFields DEF Lookup, At, TypeOK
  <1>2. CASE known = None
    <2>1. pc'[i] = [pc[i] EXCEPT !.at = "insert"]
      BY <1>2, GotoIs DEF Lookup
    <2>. QED BY <1>1, <2>1, OnwardIs, StageNames DEF Lands
  <1>3. CASE known # None
    <2>1. pc'[i] = [pc[i] EXCEPT !.at = "verify", !.job = known]
      BY <1>3, GotoIs DEF Lookup
    <2>. QED BY <1>1, <2>1, OnwardIs, StageNames DEF Lands
  <1>. QED BY <1>2, <1>3

LEMMA VerifyLands ==
    ASSUME TypeOK, NEW i \in Instances, Verify(i)
    PROVE  Lands(i, "idle", "idle", {}) \/ Lands(i, "corrupt", "idle", {})
  <1>1. pc'[i] = [Idle EXCEPT !.at = "corrupt"] \/ pc'[i] = Idle
    BY GotoIs DEF Verify
  <1>2. CASE pc'[i] = [Idle EXCEPT !.at = "corrupt"]
    BY <1>2, IdleIs, StageNames DEF Lands
  <1>3. CASE pc'[i] = Idle
    BY <1>3, IdleIs DEF Lands
  <1>. QED BY <1>1, <1>2, <1>3

LEMMA CreateLands ==
    ASSUME TypeOK, NEW i \in Instances
    PROVE  /\ Refused(i) => Lands(i, "idle", "idle", {})
           /\ \A j \in Jobs : Insert(i, j) => Lands(i, "pump", "idle", {})
  <1>1. ASSUME Refused(i) PROVE Lands(i, "idle", "idle", {})
    <2>1. pc'[i] = Idle
      BY <1>1, GotoIs DEF Refused
    <2>. QED BY <2>1, IdleIs DEF Lands
  <1>2. ASSUME NEW j \in Jobs, Insert(i, j) PROVE Lands(i, "pump", "idle", {})
    <2>1. pc'[i] = [Idle EXCEPT !.at = "pump"]
      BY <1>2, GotoIs DEF Insert
    <2>. QED BY <2>1, IdleIs, StageNames DEF Lands
  <1>. QED BY <1>1, <1>2

LEMMA LaunchLands ==
    ASSUME TypeOK, NEW i \in Instances, pc[i].at = "pump", NEW j \in Jobs
    PROVE  /\ MarkRunning(i, j) => Lands(i, "spawn", "idle", pc[i].todo) /\ pc'[i].job = j
           /\ LaunchFails(i, j) => Lands(i, "drop", "idle", pc[i].todo)
  <1>1. pc[i].next = "idle"
    BY FrameFields
  <1>2. ASSUME MarkRunning(i, j)
        PROVE  Lands(i, "spawn", "idle", pc[i].todo) /\ pc'[i].job = j
    <2>1. pc'[i] = [pc[i] EXCEPT !.at = "spawn", !.job = j]
      BY <1>2, GotoIs DEF MarkRunning
    <2>. QED BY <1>1, <2>1, OnwardIs, StageNames DEF Lands
  <1>3. ASSUME LaunchFails(i, j) PROVE Lands(i, "drop", "idle", pc[i].todo)
    <2>1. pc'[i] = [pc[i] EXCEPT !.at = "drop", !.job = j]
      BY <1>3, GotoIs DEF LaunchFails
    <2>. QED BY <1>1, <2>1, OnwardIs, StageNames DEF Lands
  <1>. QED BY <1>2, <1>3

LEMMA SpawnLands ==
    ASSUME TypeOK, NEW i \in Instances, Spawn(i)
    PROVE  Lands(i, "pump", "idle", pc[i].todo)
  <1>1. pc'[i] = [pc[i] EXCEPT !.at = "pump", !.job = None] /\ pc[i].next = "idle"
    BY GotoIs, FrameFields DEF Spawn, At
  <1>. QED BY <1>1, OnwardIs, StageNames DEF Lands

\* A finished job's handler goes on to prune() and pump().
LEMMA ToPumpLands ==
    ASSUME TypeOK, NEW i \in Instances,
           \/ Goto(i, [Pruning(i, "pump") EXCEPT !.job = None])
           \/ Goto(i, [Pruning(i, "pump") EXCEPT !.fatal = TRUE])
    PROVE  Lands(i, "prune", "pump", pc[i].todo)
  <1>1. \/ pc'[i] = [Pruning(i, "pump") EXCEPT !.job = None]
        \/ pc'[i] = [Pruning(i, "pump") EXCEPT !.fatal = TRUE]
    BY GotoIs
  <1>2. CASE pc'[i] = [Pruning(i, "pump") EXCEPT !.job = None]
    BY <1>2, PruningIs, CallerNames DEF Lands
  <1>3. CASE pc'[i] = [Pruning(i, "pump") EXCEPT !.fatal = TRUE]
    BY <1>3, PruningIs, CallerNames DEF Lands
  <1>. QED BY <1>1, <1>2, <1>3

LEMMA ToForeignLands ==
    ASSUME TypeOK, NEW i \in Instances, pc[i].at = "cancel",
           Goto(i, [pc[i] EXCEPT !.at = "foreign"])
    PROVE  Lands(i, "foreign", "idle", pc[i].todo)
  <1>1. pc'[i] = [pc[i] EXCEPT !.at = "foreign"] /\ pc[i].next = "idle"
    BY GotoIs, FrameFields
  <1>. QED BY <1>1, OnwardIs, StageNames DEF Lands

LEMMA BeatLands ==
    ASSUME TypeOK, NEW i \in Instances, Boot(i) \/ Heartbeat(i)
    PROVE  Lands(i, "refresh", "idle", {})
  <1>1. CASE Boot(i)
    <2>1. pc'[i] = [Idle EXCEPT !.at = "refresh", !.fatal = TRUE]
      BY <1>1, GotoIs DEF Boot
    <2>. QED BY <2>1, IdleIs, StageNames DEF Lands
  <1>2. CASE Heartbeat(i)
    <2>1. pc'[i] = [Idle EXCEPT !.at = "refresh"]
      BY <1>2, GotoIs DEF Heartbeat
    <2>. QED BY <2>1, IdleIs, StageNames DEF Lands
  <1>. QED BY <1>1, <1>2

LEMMA RefreshLands ==
    ASSUME TypeOK, NEW i \in Instances, pc[i].at = "refresh",
           Goto(i, [pc[i] EXCEPT !.at = "scan"])
    PROVE  Lands(i, "scan", "idle", pc[i].todo)
  <1>1. pc'[i] = [pc[i] EXCEPT !.at = "scan"] /\ pc[i].next = "idle"
    BY GotoIs, FrameFields
  <1>. QED BY <1>1, OnwardIs, StageNames DEF Lands

LEMMA ScanLands ==
    ASSUME TypeOK, NEW i \in Instances, Scan(i)
    PROVE  Lands(i, "reconcile", "idle", {j \in Jobs : status[j] \in Active /\ home[j] # i})
  <1>. DEFINE D == {j \in Jobs : status[j] \in Active /\ home[j] # i}
  <1>1. pc'[i] = [pc[i] EXCEPT !.at = "reconcile", !.todo = D] /\ pc[i].next = "idle"
    BY GotoIs, FrameFields DEF Scan, At
  <1>. QED BY <1>1, OnwardTodoIs, StageNames DEF Lands

LEMMA ReconcileLands ==
    ASSUME TypeOK, NEW i \in Instances, Reconcile(i)
    PROVE  \/ Lands(i, "idle", "idle", {})
           \/ \E D \in SUBSET pc[i].todo : Lands(i, "reconcile", "idle", D)
  <1>1. pc[i].at = "reconcile" /\ pc[i].next = "idle"
    BY FrameFields DEF Reconcile, At
  <1>2. \/ pc'[i] = Idle
        \/ \E j \in pc[i].todo : pc'[i] = [pc[i] EXCEPT !.todo = @ \ {j}]
    BY GotoIs DEF Reconcile
  <1>3. CASE pc'[i] = Idle
    BY <1>3, IdleIs DEF Lands
  <1>4. ASSUME NEW j \in pc[i].todo, pc'[i] = [pc[i] EXCEPT !.todo = @ \ {j}]
        PROVE  Lands(i, "reconcile", "idle", pc[i].todo \ {j})
    <2>1. pc[i].todo \ {j} \in SUBSET Jobs
      BY FrameFields
    <2>. QED BY <1>1, <1>4, <2>1, OnwardTodoIs, StageNames DEF Lands
  <1>. QED BY <1>2, <1>3, <1>4

LEMMA ShutdownLands ==
    ASSUME TypeOK, NEW i \in Instances, Shutdown(i)
    PROVE  Lands(i, "shutdown", "idle", {j \in held : home[j] = i /\ mem[j] \in Active})
  <1>. DEFINE D == {j \in held : home[j] = i /\ mem[j] \in Active}
  <1>1. pc'[i] = [Idle EXCEPT !.at = "shutdown", !.todo = D] /\ D \in SUBSET Jobs
    BY GotoIs DEF Shutdown, TypeOK
  <1>. QED BY <1>1, IdleIs, StageNames DEF Lands

LEMMA ShutdownNextLands ==
    ASSUME TypeOK, NEW i \in Instances, ShutdownNext(i)
    PROVE  \/ pc[i].todo = {} /\ Lands(i, "idle", "idle", {})
           \/ \E j \in pc[i].todo :
                 Lands(i, "prune", "cancel", pc[i].todo \ {j}) /\ pc'[i].job = j
  <1>1. CASE pc[i].todo = {}
    <2>1. pc'[i] = Idle
      BY <1>1, GotoIs DEF ShutdownNext
    <2>. QED BY <1>1, <2>1, IdleIs DEF Lands
  <1>2. CASE pc[i].todo # {}
    <2>1. PICK j \in pc[i].todo :
             pc'[i] = [Pruning(i, "cancel") EXCEPT !.job = j, !.todo = @ \ {j}]
      BY <1>2, GotoIs DEF ShutdownNext
    <2>2. j \in Jobs /\ pc[i].todo \ {j} \in SUBSET Jobs
      BY FrameFields
    <2>3. Pruning(i, "cancel").todo = pc[i].todo
      BY PruningIs, CallerNames
    <2>4. pc'[i] = [Pruning(i, "cancel") EXCEPT !.job = j, !.todo = pc[i].todo \ {j}]
      BY <2>1, <2>3
    <2>5. Lands(i, "prune", "cancel", pc[i].todo \ {j}) /\ pc'[i].job = j
      BY <2>2, <2>4, PruningIs, CallerNames DEF Lands
    <2>. QED BY <2>5
  <1>. QED BY <1>1, <1>2

\* A handler gets to the spawn from pump() only, and shutdown() begins between
\* two handlers.
LEMMA SpawnAhead ==
    ASSUME TypeOK, NEW i \in Instances, Moves(i), pc'[i].at = "spawn"
    PROVE  \/ Pump(i) /\ ~PumpStops(i)
           \/ pc'[i] = pc[i] /\ phase'[i] = phase[i]
  <1>1. pc[i].next \in Callers \ {"spawn"}
    BY FrameFields, CallerNames
  <1>2. ~Return(i) /\ \A how : ~Die(i, how)
    BY ReturnLands, DieLands DEF Lands
  <1>3. ~Request(i)
    BY StartLands, ReadLands, CancelLands DEF Request, Lands
  <1>4. CASE ChildEvent(i)
    <2>1. ASSUME NEW j \in Jobs PROVE ~Deliver(i, j)
      BY ToPumpLands DEF Deliver, Lands
    <2>. QED BY <1>4, <2>1 DEF ChildEvent, TimeoutFires, ChildCloses
  <1>5. CASE Lifecycle(i)
    BY <1>2, <1>5, BeatLands, ShutdownLands DEF Lifecycle, LeaseLapses, Exit, Crash, Lands
  <1>6. CASE HandlerStep(i)
    <2>1. ~Prune(i)
      BY <1>1, <1>2, PruneLands DEF Prune, Throw, Lands
    <2>2. ~Refresh(i) /\ ~ReconcileFails(i)
      <3>1. ~Goto(i, Idle)
        BY GotoIs, IdleIs
      <3>. QED BY <1>2, <3>1, RefreshLands DEF Refresh, ReconcileFails, Throw, Lands, At
    <2>3. ~Lookup(i) /\ ~Verify(i) /\ ~ReportCorrupt(i) /\ ~Spawn(i) /\ ~Scan(i)
      BY <1>2, LookupLands, VerifyLands, SpawnLands, ScanLands DEF ReportCorrupt, Lands
    <2>4. ~Create(i)
      BY CreateLands DEF Create, Lands
    <2>5. ~Drop(i) /\ ~CancelForeign(i)
      BY <1>2, ToPumpLands DEF Drop, CancelForeign, Lands
    <2>6. ~CancelJob(i)
      BY <1>2, ToPumpLands, ToForeignLands
         DEF CancelJob, CancelQueued, CancelRunning, CancelElse, Lands, At
    <2>7. ~ShutdownNext(i) /\ ~Reconcile(i)
      BY ShutdownNextLands, ReconcileLands DEF Lands
    <2>8. CASE Pump(i)
      BY <1>2, <2>8 DEF Pump
    <2>. QED BY <1>6, <2>1, <2>2, <2>3, <2>4, <2>5, <2>6, <2>7, <2>8 DEF HandlerStep
  <1>. QED BY <1>3, <1>4, <1>5, <1>6 DEF Moves

LEMMA LaunchStep ==
    ASSUME LaunchInv, [Next]_vars
    PROVE  LaunchInv'
  <1>1. LedgerInv' /\ TypeOK
    BY LedgerStep DEF LaunchInv, LedgerInv
  <1>2. CASE UNCHANGED <<pc, phase>>
    BY <1>1, <1>2 DEF LaunchInv
  <1>3. ASSUME NEW i \in Instances, Moves(i)
        PROVE  LaunchInv'
    <2>1. ASSUME NEW o \in Instances, pc'[o].at = "spawn" PROVE phase'[o] = "up"
      <3>1. CASE o # i
        BY <1>1, <1>3, <2>1, <3>1, OthersStay DEF LaunchInv
      <3>2. CASE o = i /\ Pump(i) /\ ~PumpStops(i)
        BY <3>2 DEF Pump, PumpStops, At, Live
      <3>. QED BY <1>1, <1>3, <2>1, <3>1, <3>2, SpawnAhead DEF LaunchInv
    <2>. QED BY <1>1, <2>1 DEF LaunchInv
  <1>. QED BY <1>2, <1>3 DEF Next, ChildDies, vars, Moves

\* From the moment shutdown() has begun no child is created by that instance,
\* whatever handlers it still has to run, whatever fails and however many
\* servers share the store.
THEOREM StoppingLaunchesNothing == Spec => NoLaunchWhileStopping
  <1>. DEFINE OnlyUp == \A j \in Jobs : proc[j] = "none" /\ proc'[j] = "alive" =>
                           phase[home[j]] = "up"
  <1>1. Init => LaunchInv
    BY LedgerInit, IdleIs DEF Init, LaunchInv
  <1>2. LaunchInv /\ [Next]_vars => LaunchInv'
    BY LaunchStep
  <1>3. LaunchInv /\ [Next]_vars => [OnlyUp]_vars
    <2>. SUFFICES ASSUME LaunchInv, Next, NEW j \in Jobs, proc[j] = "none", proc'[j] = "alive"
                  PROVE  phase[home[j]] = "up"
      OBVIOUS
    <2>1. PICK i \in Instances : Spawn(i) /\ j = pc[i].job
      <3>1. TypeOK /\ proc' # proc
        BY DEF LaunchInv, LedgerInv
      <3>2. ASSUME NEW k \in Jobs PROVE ~ChildDies(k)
        BY <3>1 DEF ChildDies, TypeOK
      <3>3. PICK i \in Instances : Moves(i)
        BY <3>2 DEF Next, Moves
      <3>4. ~Request(i)
        BY <3>1 DEF Request, Start, Read, Cancel, children
      <3>5. ~ChildEvent(i)
        BY <3>1 DEF ChildEvent, TimeoutFires, ChildCloses, Deliver
      <3>6. \A how : ~Die(i, how)
        BY <3>1 DEF Die
      <3>7. ~Lifecycle(i)
        BY SMTT(40), <3>1, <3>6
           DEF Lifecycle, Boot, Heartbeat, LeaseLapses, Shutdown, Exit, Crash, children
      <3>8. Spawn(i)
        BY ZenonT(30), <3>1, <3>3, <3>4, <3>5, <3>6, <3>7
           DEF Moves, HandlerStep, Prune, Lookup, Verify, ReportCorrupt, Create, Pump, Drop,
               CancelJob, CancelQueued, CancelRunning, CancelElse, CancelForeign, Refresh, Scan,
               Reconcile, ReconcileFails, ShutdownNext, Throw, children
      <3>9. j = pc[i].job
        BY <3>1, <3>8, FrameFields DEF Spawn, At, OnJob, TypeOK
      <3>. QED BY <3>8, <3>9
    <2>2. home[j] = i /\ phase[i] = "up"
      BY <2>1, SpawnIsHome DEF LaunchInv, Spawn, At
    <2>. QED BY <2>2
  <1>. QED BY <1>1, <1>2, <1>3, PTL DEF Spec, NoLaunchWhileStopping

-----------------------------------------------------------------------------
(* Memory, record, slots and queue of one instance                         *)

Own(i) == {j \in Jobs : home[j] = i}

\* What a handler is about to do concerns the instance's own jobs; a launch
\* that fails and a cancellation without the job object do not happen.
HandlerOf(i) ==
    /\ pc[i].at \notin {"drop", "foreign"}
    /\ pc[i].at \in {"idle", "refresh", "scan"} => pc[i].todo = {}
    /\ pc[i].at = "cancel" \/ pc[i].next = "cancel" => home[pc[i].job] = i
    /\ pc[i].at # "reconcile" => pc[i].todo \subseteq Own(i)
    /\ pc[i].at = "reconcile" => pc[i].todo \cap Own(i) = {}
    /\ \/ pc[i].at \in {"lookup", "verify", "corrupt", "insert"}
       \/ pc[i].next \in {"lookup", "insert"}
       => phase[i] = "up"

\* The job objects of a live instance and the rows agree.
MemoryOf(i) ==
    \A j \in Own(i) :
        /\ phase[i] \in Live <=> mem[j] # "absent"
        /\ mem[j] \in Active => status[j] = mem[j] /\ j \in held
        /\ mem[j] = "done" => status[j] \notin Active

\* A running job has a child, an error to deliver or its launch before it, and
\* no child outlives its job while the instance does.
ChildrenOf(i) ==
    \A j \in Own(i) :
        /\ mem[j] = "running" =>
              \/ proc[j] # "none"
              \/ verdict[j] # None
              \/ pc[i].at = "spawn" /\ pc[i].job = j
        /\ verdict[j] # None =>
              /\ mem[j] = "running" /\ proc[j] # "alive"
              /\ pc[i].at = "spawn" => pc[i].job # j
        /\ proc[j] = "alive" /\ phase[i] \in Live => mem[j] = "running"

\* The queue holds every queued job once.
QueueOf(i) ==
    /\ \A m, n \in 1..Len(queue[i]) : queue[i][m] = queue[i][n] => m = n
    /\ \A j \in Jobs :
          Contains(queue[i], j) <=> home[j] = i /\ mem[j] = "queued"

Pumping(i) == pc[i].at \in {"pump", "spawn"} \/ pc[i].next = "pump"

\* The queue is over its limit only between start() and its pump(), and jobs
\* wait beside a free slot only while a pump() is under way.
SlotsOf(i) ==
    /\ IsFiniteSet(Running(i)) /\ Cardinality(Running(i)) <= MaxConcurrent
    /\ Len(queue[i]) > MaxQueued =>
          /\ Len(queue[i]) = MaxQueued + 1 /\ phase[i] = "up" /\ pc[i].at = "pump"
          /\ Cardinality(Running(i)) < MaxConcurrent
    /\ phase[i] = "up" /\ queue[i] # <<>> /\ Cardinality(Running(i)) < MaxConcurrent =>
          Pumping(i)

Pending(i, j) ==
    \/ j \in pc[i].todo
    \/ pc[i].job = j /\ (pc[i].at = "cancel" \/ pc[i].next = "cancel")

\* Once shutdown() has begun every job is about to be cancelled, or will end.
CancelledOf(i) ==
    phase[i] = "stopping" => \A j \in Own(i) : mem[j] \in Active =>
        \/ Pending(i, j)
        \/ mem[j] = "running" /\ ("cancel" \in doom[j] \/ verdict[j] # None)

ExitOf(i) ==
    phase[i] = "exited" => \A j \in Own(i) : proc[j] # "alive" /\ status[j] \notin Active

InstanceInv(i) ==
    /\ HandlerOf(i) /\ MemoryOf(i) /\ ChildrenOf(i) /\ QueueOf(i) /\ SlotsOf(i)
    /\ CancelledOf(i) /\ ExitOf(i)

RecordInv ==
    /\ \A i \in Instances : InstanceInv(i)
    /\ \A j \in Jobs : status[j] = "unborn" => home[j] = None /\ verdict[j] = None

-----------------------------------------------------------------------------
(* What leaves an instance's jobs alone                                    *)

\* The jobs of i stay as they are in its memory: their rows change only if they
\* have ended there, and their children at most die.
JobsKept(i) ==
    /\ \A j \in Jobs : home'[j] = i <=> home[j] = i
    /\ \A j \in Own(i) :
          /\ mem'[j] = mem[j] /\ verdict'[j] = verdict[j]
          /\ "cancel" \in doom[j] => "cancel" \in doom'[j]
          /\ proc'[j] # proc[j] => proc[j] = "alive" /\ proc'[j] = "dead"
          /\ j \in held /\ mem[j] \in Active => j \in held'
          /\ status'[j] # status[j] => status'[j] \notin Active /\ mem[j] \notin Active
    /\ phase'[i] = phase[i] /\ queue'[i] = queue[i]

LEMMA KeptParts ==
    ASSUME TypeOK, TypeOK', NEW i \in Instances, InstanceInv(i), JobsKept(i)
    PROVE  MemoryOf(i)' /\ QueueOf(i)' /\ ExitOf(i)' /\ Running(i)' = Running(i)
  <1>1. Own(i)' = Own(i)
    BY DEF JobsKept, Own
  <1>2. MemoryOf(i)'
    BY <1>1 DEF InstanceInv, MemoryOf, JobsKept
  <1>3. QueueOf(i)'
    <2>1. \A j \in Jobs :
             (home[j] = i /\ mem[j] = "queued") <=> (home'[j] = i /\ mem'[j] = "queued")
      BY DEF JobsKept, Own
    <2>. QED BY <2>1 DEF InstanceInv, QueueOf, JobsKept, Contains
  <1>4. ExitOf(i)'
    BY <1>1 DEF InstanceInv, ExitOf, JobsKept
  <1>5. Running(i)' = Running(i)
    <2>1. \A j \in Own(i) : mem[j] = "running" => j \in held
      BY DEF InstanceInv, MemoryOf, Active
    <2>2. \A j \in Own(i) : mem'[j] = "running" => mem[j] = "running" /\ j \in held /\ j \in held'
      BY <2>1 DEF JobsKept, Active
    <2>3. held \subseteq Jobs /\ held' \subseteq Jobs
      BY DEF TypeOK
    <2>. QED BY <2>1, <2>2, <2>3 DEF Running, JobsKept, Own
  <1>. QED BY <1>2, <1>3, <1>4, <1>5

\* Nothing of i moves at all.
LEMMA KeptStill ==
    ASSUME TypeOK, TypeOK', NEW i \in Instances, InstanceInv(i), JobsKept(i), pc'[i] = pc[i]
    PROVE  InstanceInv(i)'
  <1>1. Own(i)' = Own(i)
    BY DEF JobsKept, Own
  <1>2. HandlerOf(i)'
    <2>1. pc[i].at = "cancel" \/ pc[i].next = "cancel" => pc[i].job \in Jobs
      BY FrameFields DEF OnJob
    <2>. QED BY <1>1, <2>1 DEF InstanceInv, HandlerOf, JobsKept
  <1>3. ChildrenOf(i)'
    BY <1>1 DEF InstanceInv, ChildrenOf, JobsKept
  <1>4. MemoryOf(i)' /\ QueueOf(i)' /\ ExitOf(i)' /\ Running(i)' = Running(i)
    BY KeptParts
  <1>5. SlotsOf(i)'
    BY <1>4 DEF InstanceInv, SlotsOf, JobsKept, Pumping
  <1>6. CancelledOf(i)'
    BY <1>1 DEF InstanceInv, CancelledOf, JobsKept, Pending
  <1>. QED BY <1>2, <1>3, <1>4, <1>5, <1>6 DEF InstanceInv

\* Only the handler of i moves on.
LEMMA KeptMoved ==
    ASSUME TypeOK, TypeOK', NEW i \in Instances, InstanceInv(i), JobsKept(i),
           pc[i].at \notin {"pump", "spawn"}, pc'[i].at # "spawn",
           pc[i].next = "pump" => Pumping(i)', HandlerOf(i)', CancelledOf(i)'
    PROVE  InstanceInv(i)'
  <1>1. Own(i)' = Own(i)
    BY DEF JobsKept, Own
  <1>2. ChildrenOf(i)'
    BY <1>1 DEF InstanceInv, ChildrenOf, JobsKept
  <1>3. MemoryOf(i)' /\ QueueOf(i)' /\ ExitOf(i)' /\ Running(i)' = Running(i)
    BY KeptParts
  <1>4. SlotsOf(i)'
    BY <1>3 DEF InstanceInv, SlotsOf, JobsKept, Pumping
  <1>. QED BY <1>2, <1>3, <1>4 DEF InstanceInv

\* ... and it forgets no job it is still to cancel.
LEMMA KeptCalm ==
    ASSUME TypeOK, TypeOK', NEW i \in Instances, InstanceInv(i), JobsKept(i),
           pc[i].at \notin {"pump", "spawn"}, pc'[i].at # "spawn",
           pc[i].next = "pump" => Pumping(i)', HandlerOf(i)',
           \A j \in Own(i) : phase[i] = "stopping" /\ mem[j] \in Active /\ Pending(i, j)
                             => Pending(i, j)'
    PROVE  InstanceInv(i)'
  <1>1. Own(i)' = Own(i)
    BY DEF JobsKept, Own
  <1>2. CancelledOf(i)'
    BY <1>1 DEF InstanceInv, CancelledOf, JobsKept
  <1>. QED BY <1>2, KeptMoved

\* A step of one instance leaves the jobs of the others alone: it prunes only
\* ended rows and interrupts only jobs of instances that have died.
LEMMA OwnOnly ==
    ASSUME TypeOK, NEW i \in Instances, Moves(i), home' = home,
           \A j \in Jobs \ Own(i) :
              /\ mem'[j] = mem[j] /\ verdict'[j] = verdict[j] /\ doom'[j] = doom[j]
              /\ proc'[j] = proc[j] /\ status'[j] = status[j] /\ (j \in held => j \in held')
    PROVE  \A o \in Instances \ {i} : JobsKept(o)
  BY OthersStay DEF JobsKept, Own

LEMMA FinishOwn ==
    ASSUME TypeOK, NEW j \in Jobs, NEW s, FinishRow(j, s) \/ FinishThrows(j)
    PROVE  \A k \in Jobs \ {j} : status'[k] = status[k]
  BY DEF TypeOK, FinishRow, FinishThrows, EndRow, database

LEMMA OthersPruned ==
    ASSUME TypeOK, EndedRows, RecordInv, NEW i \in Instances, Moves(i),
           NEW n \in 0..Len(ended), PruneOldest(i, n), UNCHANGED <<home, mem, children>>
    PROVE  \A o \in Instances \ {i} : JobsKept(o)
  <1>1. \A j \in Jobs : status'[j] # status[j] => status[j] \in Terminal /\ status'[j] = "pruned"
    BY PruneLedger DEF children
  <1>2. \A j \in held : home[j] # i => j \in held'
    BY DEF PruneOldest
  <1>3. ASSUME NEW o \in Instances, NEW j \in Own(o), status'[j] # status[j]
        PROVE  status'[j] \notin Active /\ mem[j] \notin Active
    BY <1>1, <1>3, StatusKinds DEF RecordInv, InstanceInv, MemoryOf, Own
  <1>. QED BY <1>2, <1>3, OthersStay DEF JobsKept, children, Own

LEMMA OthersRecovered ==
    ASSUME TypeOK, TypeOK', RecordInv, NoFalseOrphan', NEW i \in Instances, Moves(i), Reconcile(i)
    PROVE  \A o \in Instances : JobsKept(o)
  <1>1. UNCHANGED <<home, mem, held, queue, phase, children>>
    BY DEF Reconcile, memory
  <1>2. ASSUME NEW o \in Instances, NEW j \in Own(o), status'[j] # status[j]
        PROVE  status'[j] \notin Active /\ mem[j] \notin Active
    <2>1. \E k \in pc[i].todo : status' = [status EXCEPT ![k] = "interrupted"]
      BY <1>2 DEF Reconcile, EndRow, database
    <2>2. status'[j] = "interrupted"
      BY <1>2, <2>1 DEF TypeOK, Own
    <2>3. phase[o] \in Dead
      BY <1>1, <2>2 DEF NoFalseOrphan, Own
    <2>4. mem[j] = "absent"
      BY <2>3 DEF RecordInv, InstanceInv, MemoryOf, Live, Dead
    <2>. QED BY <2>2, <2>4 DEF Active
  <1>. QED BY <1>1, <1>2 DEF JobsKept, children, Own

LEMMA OthersJobs ==
    ASSUME ~StoreMayFail, LedgerInv, RecordInv, TypeOK', NoFalseOrphan',
           NEW i \in Instances, Moves(i)
    PROVE  \A o \in Instances \ {i} : JobsKept(o)
  <1>. DEFINE Goal == \A o \in Instances \ {i} : JobsKept(o)
  <1>0. TypeOK /\ EndedRows
    BY DEF LedgerInv
  <1>1. ASSUME UNCHANGED <<status, memory, children>> PROVE Goal
    BY <1>0, <1>1, OwnOnly DEF memory, children
  <1>2. ASSUME NEW how, Die(i, how) PROVE Goal
    <2>1. UNCHANGED <<status, home, proc>>
      BY <1>2 DEF Die, database
    <2>2. \A j \in Jobs \ Own(i) : mem'[j] = mem[j] /\ verdict'[j] = verdict[j]
                                   /\ doom'[j] = doom[j] /\ (j \in held => j \in held')
      BY <1>2 DEF Die, Own
    <2>. QED BY <1>0, <2>1, <2>2, OwnOnly
  <1>3. CASE Request(i)
    BY <1>1, <1>3 DEF Request, Start, Read, Cancel, database
  <1>4. CASE ChildEvent(i)
    <2>1. PICK j \in Jobs : TimeoutFires(i, j) \/ ChildCloses(i, j) \/ Deliver(i, j)
      BY <1>4 DEF ChildEvent
    <2>2. j \in Own(i)
      BY <2>1 DEF TimeoutFires, ChildCloses, Deliver, Own
    <2>3. UNCHANGED <<home, held, proc>>
      BY <2>1 DEF TimeoutFires, ChildCloses, Deliver, memory
    <2>4. \A k \in Jobs \ {j} : verdict'[k] = verdict[k] /\ doom'[k] = doom[k] /\ mem'[k] = mem[k]
      BY <1>0, <2>1 DEF TimeoutFires, ChildCloses, Deliver, TypeOK, memory
    <2>5. \A k \in Jobs \ {j} : status'[k] = status[k]
      BY <1>0, <2>1, FinishOwn DEF TimeoutFires, ChildCloses, Deliver, database
    <2>. QED BY <1>0, <2>2, <2>3, <2>4, <2>5, OwnOnly
  <1>5. CASE Lifecycle(i)
    BY <1>1, <1>2, <1>5
       DEF Lifecycle, Boot, Heartbeat, LeaseLapses, Shutdown, Exit, Crash, database
  <1>6. CASE HandlerStep(i)
    <2>1. CASE Prune(i)
      BY <1>0, <2>1, OthersPruned DEF Prune
    <2>2. CASE \/ Lookup(i) \/ Verify(i) \/ ReportCorrupt(i) \/ Refresh(i) \/ Scan(i)
               \/ ReconcileFails(i) \/ ShutdownNext(i)
      BY <1>1, <2>2
         DEF Lookup, Verify, ReportCorrupt, Refresh, Scan, ReconcileFails, ShutdownNext, database
    <2>3. CASE Create(i)
      <3>1. CASE Refused(i)
        BY <1>1, <2>3, <3>1 DEF Create, Refused, database
      <3>2. ASSUME NEW j \in Jobs, Insert(i, j), UNCHANGED children PROVE Goal
        <4>1. status[j] = "unborn" /\ home[j] = None
          BY <3>2 DEF Insert, RecordInv
        <4>2. home' = [home EXCEPT ![j] = i] /\ held \subseteq held'
          BY <3>2 DEF Insert
        <4>3. \A k \in Jobs \ {j} : home'[k] = home[k] /\ mem'[k] = mem[k] /\ status'[k] = status[k]
          BY <1>0, <3>2 DEF Insert, TypeOK
        <4>4. home'[j] = i /\ \A o \in Instances : home[j] # o
          BY <1>0, <4>1, <4>2, ModelValues DEF TypeOK, ModelValues
        <4>. QED BY <3>2, <4>2, <4>3, <4>4, <1>0, OthersStay DEF JobsKept, Own, children
      <3>. QED BY <2>3, <3>1, <3>2 DEF Create
    <2>4. CASE Pump(i)
      <3>1. CASE PumpStops(i)
        BY <1>1, <2>4, <3>1 DEF Pump, database
      <3>2. CASE ~PumpStops(i)
        <4>. DEFINE j == Head(queue[i])
        <4>1. j \in Own(i) /\ j \in Jobs
          <5>1. queue[i] \in Seq({k \in Jobs : home[k] = i /\ status[k] # "unborn"})
                /\ queue[i] # <<>>
            BY <3>2 DEF LedgerInv, OwnQueue, PumpStops
          <5>. QED BY <5>1, HeadTailProperties DEF Own
        <4>2. UNCHANGED <<home, held, children>>
          BY <2>4, <3>2 DEF Pump
        <4>3. \A k \in Jobs \ {j} : mem'[k] = mem[k] /\ status'[k] = status[k]
          BY <1>0, <2>4, <3>2 DEF Pump, MarkRunning, LaunchFails, TypeOK
        <4>. QED BY <1>0, <4>1, <4>2, <4>3, OwnOnly DEF children
      <3>. QED BY <3>1, <3>2
    <2>5. CASE Spawn(i)
      <3>1. pc[i].job \in Own(i)
        BY <2>5, SpawnIsHome DEF Spawn, At, Own
      <3>2. UNCHANGED <<status, home, mem, held, doom>>
        BY <2>5 DEF Spawn, database, memory
      <3>3. \A k \in Jobs \ {pc[i].job} : proc'[k] = proc[k] /\ verdict'[k] = verdict[k]
        BY <1>0, <2>5 DEF Spawn, TypeOK
      <3>. QED BY <1>0, <3>1, <3>2, <3>3, OwnOnly
    <2>6. ~Drop(i) /\ ~CancelForeign(i)
      BY DEF RecordInv, InstanceInv, HandlerOf, Drop, CancelForeign, At
    <2>7. CASE CancelJob(i)
      <3>. DEFINE j == pc[i].job
      <3>1. j \in Jobs /\ j \in Own(i)
        BY <1>0, <2>7, FrameFields DEF CancelJob, At, OnJob, RecordInv, InstanceInv, HandlerOf, Own
      <3>2. UNCHANGED <<home, held, verdict, proc>>
        BY <2>7 DEF CancelJob, CancelQueued, CancelRunning, CancelElse, memory, children
      <3>3. \A k \in Jobs \ {j} : mem'[k] = mem[k] /\ doom'[k] = doom[k]
        BY <1>0, <2>7 DEF CancelJob, CancelQueued, CancelRunning, CancelElse, memory, children,
                          TypeOK
      <3>4. \A k \in Jobs \ {j} : status'[k] = status[k]
        BY <1>0, <2>7, <3>1, FinishOwn
           DEF CancelJob, CancelQueued, CancelRunning, CancelElse, database
      <3>. QED BY <1>0, <3>1, <3>2, <3>3, <3>4, OwnOnly
    <2>8. CASE Reconcile(i)
      BY <1>0, <2>8, OthersRecovered
    <2>. QED BY <1>6, <2>1, <2>2, <2>3, <2>4, <2>5, <2>6, <2>7, <2>8 DEF HandlerStep
  <1>. QED BY <1>3, <1>4, <1>5, <1>6 DEF Moves

-----------------------------------------------------------------------------
(* The steps that only move their handler on                               *)

\* What every lemma about a step of i starts from.
Before(i) == LedgerInv /\ RecordInv /\ TypeOK'

LEMMA BeforeParts ==
    ASSUME NEW i \in Instances, Before(i)
    PROVE  /\ TypeOK /\ TypeOK' /\ LedgerInv /\ RecordInv
           /\ InstanceInv(i) /\ HandlerOf(i) /\ MemoryOf(i) /\ ChildrenOf(i) /\ QueueOf(i)
           /\ SlotsOf(i) /\ CancelledOf(i) /\ ExitOf(i)
  BY DEF Before, LedgerInv, RecordInv, InstanceInv

\* A step that changes neither rows nor memory keeps the jobs of every instance
\* of which it does not change the phase.
LEMMA NothingMoved ==
    ASSUME NEW o, UNCHANGED <<status, memory, children>>, phase'[o] = phase[o]
    PROVE  JobsKept(o)
  BY DEF JobsKept, memory, children

\* The course a handler may take, seen from where it lands.
LEMMA Course ==
    ASSUME NEW i \in Instances, NEW stage, NEW next, NEW D, Lands(i, stage, next, D),
           home' = home, phase'[i] = phase[i], stage \notin {"drop", "foreign"},
           stage \in {"idle", "refresh", "scan"} => D = {},
           stage = "cancel" \/ next = "cancel" => home[pc'[i].job] = i,
           stage # "reconcile" => D \subseteq Own(i),
           stage = "reconcile" => D \cap Own(i) = {},
           \/ stage \in {"lookup", "verify", "corrupt", "insert"}
           \/ next \in {"lookup", "insert"}
           => phase[i] = "up"
    PROVE  HandlerOf(i)'
  <1>1. Own(i)' = Own(i)
    BY DEF Own
  <1>. QED BY <1>1 DEF HandlerOf, Lands

LEMMA RequestRecord ==
    ASSUME ~CrossCancel, NEW i \in Instances, Before(i), Request(i)
    PROVE  InstanceInv(i)'
  <1>0. /\ TypeOK /\ TypeOK' /\ InstanceInv(i) /\ HandlerOf(i)
    BY BeforeParts
  <1>1. /\ pc[i].at = "idle" /\ pc[i].next = "idle" /\ pc[i].todo = {}
        /\ JobsKept(i) /\ home' = home /\ phase'[i] = phase[i]
    BY <1>0, FrameFields, NothingMoved
       DEF Request, Start, Read, Cancel, At, HandlerOf, database, memory
  <1>2. \A j \in Own(i) : ~Pending(i, j)
    BY <1>1 DEF Pending
  <1>3. ASSUME NEW k \in Keys \cup {None}, Start(i, k)
        PROVE  HandlerOf(i)' /\ pc'[i].at = "prune"
    <2>1. phase[i] = "up"
      BY <1>3 DEF Start
    <2>2. CASE Lands(i, "prune", "insert", {})
      BY <1>1, <2>1, <2>2, Course DEF Lands
    <2>3. CASE Lands(i, "prune", "lookup", {})
      BY <1>1, <2>1, <2>3, Course DEF Lands
    <2>. QED BY <1>0, <1>1, <1>3, <2>2, <2>3, StartLands
  <1>4. CASE Read(i)
    <2>1. Lands(i, "prune", "idle", {})
      BY <1>0, <1>1, <1>4, ReadLands
    <2>2. HandlerOf(i)' /\ pc'[i].at = "prune"
      BY <1>1, <2>1, Course DEF Lands
    <2>. QED BY <1>0, <1>1, <1>2, <2>2, KeptCalm
  <1>5. ASSUME NEW j \in Jobs, Cancel(i, j)
        PROVE  HandlerOf(i)' /\ pc'[i].at = "prune"
    <2>1. Lands(i, "prune", "cancel", {}) /\ pc'[i].job = j /\ home[j] = i
      BY <1>0, <1>1, <1>5, CancelLands DEF Cancel
    <2>. QED BY <1>1, <2>1, Course DEF Lands
  <1>. QED BY <1>0, <1>1, <1>2, <1>3, <1>4, <1>5, KeptCalm DEF Request

LEMMA PruneRecord ==
    ASSUME ~StoreMayFail, NEW i \in Instances, Before(i), Prune(i)
    PROVE  InstanceInv(i)'
  <1>0. /\ TypeOK /\ TypeOK' /\ EndedRows /\ InstanceInv(i) /\ HandlerOf(i) /\ MemoryOf(i)
    BY BeforeParts DEF LedgerInv
  <1>1. PICK n \in 0..Len(ended) : PruneOldest(i, n)
    BY DEF Prune
  <1>2. /\ pc[i].at = "prune" /\ phase[i] \in Live
        /\ IF pc[i].next = "idle" THEN Return(i)
           ELSE Goto(i, [pc[i] EXCEPT !.at = pc[i].next, !.next = "idle"])
        /\ UNCHANGED <<phase, home, mem, queue, children>>
    BY DEF Prune, At
  <1>3. \A j \in Jobs : status'[j] # status[j] => status[j] \in Terminal /\ status'[j] = "pruned"
    BY <1>0, <1>1, <1>2, PruneLedger DEF children
  <1>4. \A j \in Own(i) : mem[j] \in Active => status[j] \in Active /\ j \in held
    BY <1>0 DEF MemoryOf
  <1>5. \A j \in Own(i) : j \in held /\ mem[j] \in Active => j \in held'
    <2>1. \A j \in held : j \notin held' => status'[j] = "pruned"
      BY <1>0, <1>1 DEF PruneOldest, TypeOK
    <2>2. \A j \in Own(i) : mem[j] \in Active => status'[j] = status[j]
      BY <1>3, <1>4, StatusKinds DEF Own
    <2>. QED BY <1>4, <2>1, <2>2 DEF Active
  <1>6. JobsKept(i)
    BY <1>2, <1>3, <1>4, <1>5, StatusKinds DEF JobsKept, Own, children
  <1>7. pc[i].todo \subseteq Own(i)
    BY <1>0, <1>2 DEF HandlerOf
  <1>8. CASE pc[i].next = "idle"
    <2>1. Lands(i, IF pc[i].todo = {} THEN "idle" ELSE "shutdown", "idle", pc[i].todo)
      BY <1>0, <1>2, <1>8, ReturnLands
    <2>2. HandlerOf(i)' /\ pc'[i].at # "spawn"
      BY <1>2, <1>7, <2>1, Course DEF Lands
    <2>3. \A j \in Own(i) : Pending(i, j) => Pending(i, j)'
      BY <1>2, <1>8, <2>1 DEF Pending, Lands
    <2>. QED BY <1>0, <1>2, <1>6, <1>8, <2>2, <2>3, KeptCalm
  <1>9. CASE pc[i].next # "idle"
    <2>1. Lands(i, pc[i].next, "idle", pc[i].todo) /\ pc'[i].job = pc[i].job
      BY <1>0, <1>2, <1>9, PruneLands
    <2>2. pc[i].next \in {"lookup", "insert", "cancel", "pump"}
      BY <1>0, <1>9, FrameFields DEF Callers
    <2>3. /\ pc[i].next = "cancel" => home[pc[i].job] = i
          /\ pc[i].next \in {"lookup", "insert"} => phase[i] = "up"
      BY <1>0 DEF HandlerOf
    <2>4. HandlerOf(i)' /\ pc'[i].at = pc[i].next
      BY <1>2, <1>7, <2>1, <2>2, <2>3, Course DEF Lands
    <2>5. \A j \in Own(i) : Pending(i, j) => Pending(i, j)'
      BY <1>2, <2>1 DEF Pending, Lands
    <2>6. pc[i].next = "pump" => Pumping(i)'
      BY <2>4 DEF Pumping
    <2>. QED BY <1>0, <1>2, <1>6, <2>2, <2>4, <2>5, <2>6, KeptCalm
  <1>. QED BY <1>8, <1>9

\* The rest of start(), up to the insertion.
LEMMA LookupRecord ==
    ASSUME NEW i \in Instances, Before(i),
           Lookup(i) \/ Verify(i) \/ ReportCorrupt(i) \/ (Create(i) /\ Refused(i))
    PROVE  InstanceInv(i)'
  <1>0. /\ TypeOK /\ TypeOK' /\ InstanceInv(i) /\ HandlerOf(i)
    BY BeforeParts
  <1>1. /\ pc[i].at \in {"lookup", "verify", "corrupt", "insert"} /\ pc[i].next = "idle"
        /\ JobsKept(i) /\ home' = home /\ phase'[i] = phase[i]
    <2>1. pc[i].at \in {"lookup", "verify", "corrupt", "insert"}
      BY DEF Lookup, Verify, ReportCorrupt, Create, At
    <2>2. UNCHANGED <<status, memory, children, phase>>
      BY DEF Lookup, Verify, ReportCorrupt, Create, Refused, database
    <2>. QED BY <1>0, <2>1, <2>2, FrameFields, NothingMoved DEF memory
  <1>2. phase[i] = "up" /\ pc[i].todo \subseteq Own(i)
    BY <1>0, <1>1 DEF HandlerOf
  <1>3. ASSUME NEW stage \in {"idle", "verify", "corrupt", "insert", "shutdown"},
               NEW D \in SUBSET Own(i), stage = "idle" => D = {}, Lands(i, stage, "idle", D)
        PROVE  InstanceInv(i)'
    <2>1. HandlerOf(i)' /\ pc'[i].at # "spawn"
      BY <1>1, <1>2, <1>3, Course DEF Lands
    <2>. QED BY <1>0, <1>1, <1>2, <2>1, KeptCalm
  <1>4. CASE Lookup(i)
    BY <1>0, <1>2, <1>3, <1>4, LookupLands
  <1>5. CASE Verify(i)
    BY <1>0, <1>3, <1>5, VerifyLands
  <1>6. CASE ReportCorrupt(i)
    <2>1. Lands(i, IF pc[i].todo = {} THEN "idle" ELSE "shutdown", "idle", pc[i].todo)
      BY <1>0, <1>6, ReturnLands DEF ReportCorrupt
    <2>. QED BY <1>2, <1>3, <2>1
  <1>7. CASE Refused(i)
    BY <1>0, <1>3, <1>7, CreateLands
  <1>. QED BY <1>4, <1>5, <1>6, <1>7

\* The heartbeat's handler and the recovery of the jobs of others.
LEMMA RecoveryRecord ==
    ASSUME ~StoreMayFail, NEW i \in Instances, Before(i), NoFalseOrphan', Moves(i),
           Heartbeat(i) \/ Refresh(i) \/ Scan(i) \/ Reconcile(i)
    PROVE  InstanceInv(i)'
  <1>0. /\ TypeOK /\ TypeOK' /\ InstanceInv(i) /\ HandlerOf(i) /\ RecordInv
    BY BeforeParts
  <1>1. /\ pc[i].at \in {"idle", "refresh", "scan", "reconcile"} /\ pc[i].next = "idle"
        /\ home' = home /\ phase'[i] = phase[i] /\ (~Reconcile(i) => JobsKept(i))
    <2>1. pc[i].at \in {"idle", "refresh", "scan", "reconcile"}
      BY DEF Heartbeat, Refresh, Scan, Reconcile, At
    <2>2. UNCHANGED <<memory, children, phase>>
      BY DEF Heartbeat, Refresh, Scan, Reconcile
    <2>3. ~Reconcile(i) => status' = status
      BY DEF Heartbeat, Refresh, Scan, database
    <2>. QED BY <1>0, <2>1, <2>2, <2>3, FrameFields, NothingMoved DEF memory
  <1>2. \A j \in Own(i) : ~Pending(i, j)
    BY <1>0, <1>1 DEF HandlerOf, Pending
  <1>3. ASSUME NEW stage \in {"idle", "refresh", "scan", "reconcile"},
               NEW D, stage # "reconcile" => D = {}, stage = "reconcile" => D \cap Own(i) = {},
               Lands(i, stage, "idle", D), JobsKept(i)
        PROVE  InstanceInv(i)'
    <2>1. HandlerOf(i)' /\ pc'[i].at # "spawn"
      BY <1>1, <1>3, Course DEF Lands
    <2>. QED BY <1>0, <1>1, <1>2, <1>3, <2>1, KeptCalm
  <1>4. CASE Heartbeat(i)
    <2>1. ~Reconcile(i)
      BY <1>4 DEF Heartbeat, Reconcile, At
    <2>. QED BY <1>0, <1>1, <1>3, <1>4, <2>1, BeatLands
  <1>5. CASE Refresh(i)
    <2>1. pc[i].at = "refresh" /\ pc[i].todo = {} /\ ~Reconcile(i)
      BY <1>0, <1>5 DEF Refresh, Reconcile, At, HandlerOf
    <2>2. Lands(i, "scan", "idle", {})
      BY <1>0, <1>5, <2>1, RefreshLands DEF Refresh
    <2>. QED BY <1>1, <1>3, <2>1, <2>2
  <1>6. CASE Scan(i)
    <2>. DEFINE D == {j \in Jobs : status[j] \in Active /\ home[j] # i}
    <2>1. Lands(i, "reconcile", "idle", D) /\ D \cap Own(i) = {} /\ ~Reconcile(i)
      BY <1>0, <1>6, ScanLands DEF Own, Scan, Reconcile, At
    <2>. QED BY <1>1, <1>3, <2>1
  <1>7. CASE Reconcile(i)
    <2>1. JobsKept(i)
      BY <1>0, <1>7, OthersRecovered
    <2>2. \/ Lands(i, "idle", "idle", {})
          \/ \E D \in SUBSET pc[i].todo : Lands(i, "reconcile", "idle", D)
      BY <1>0, <1>7, ReconcileLands
    <2>3. pc[i].todo \cap Own(i) = {}
      BY <1>0, <1>7 DEF HandlerOf, Reconcile, At
    <2>. QED BY <1>3, <2>1, <2>2, <2>3
  <1>. QED BY <1>4, <1>5, <1>6, <1>7

LEMMA ShutdownNextRecord ==
    ASSUME NEW i \in Instances, Before(i), ShutdownNext(i)
    PROVE  InstanceInv(i)'
  <1>0. /\ TypeOK /\ TypeOK' /\ InstanceInv(i) /\ HandlerOf(i)
    BY BeforeParts
  <1>1. /\ pc[i].at = "shutdown" /\ pc[i].next = "idle" /\ pc[i].todo \subseteq Own(i)
        /\ JobsKept(i) /\ home' = home /\ phase'[i] = phase[i]
    BY <1>0, FrameFields, NothingMoved DEF ShutdownNext, At, HandlerOf, database, memory
  <1>2. CASE pc[i].todo = {} /\ Lands(i, "idle", "idle", {})
    <2>1. HandlerOf(i)' /\ pc'[i].at = "idle"
      BY <1>1, <1>2, Course DEF Lands
    <2>2. \A j \in Own(i) : ~Pending(i, j)
      BY <1>1, <1>2 DEF Pending
    <2>. QED BY <1>0, <1>1, <2>1, <2>2, KeptCalm
  <1>3. ASSUME NEW j \in pc[i].todo,
               Lands(i, "prune", "cancel", pc[i].todo \ {j}), pc'[i].job = j
        PROVE  InstanceInv(i)'
    <2>1. home[j] = i
      BY <1>1 DEF Own
    <2>2. HandlerOf(i)' /\ pc'[i].at = "prune"
      BY <1>1, <1>3, <2>1, Course DEF Lands
    <2>3. \A k \in Own(i) : Pending(i, k) => Pending(i, k)'
      BY <1>1, <1>3 DEF Pending, Lands
    <2>. QED BY <1>0, <1>1, <2>2, <2>3, KeptCalm
  <1>. QED BY <1>0, <1>2, <1>3, ShutdownNextLands

-----------------------------------------------------------------------------
(* The steps that start, launch, cancel and end jobs                       *)

LEMMA SlotNumbers ==
    ASSUME NEW i \in Instances, Before(i)
    PROVE  /\ IsFiniteSet(Running(i)) /\ Cardinality(Running(i)) \in Nat
           /\ Len(queue[i]) \in Nat /\ MaxConcurrent \in Nat \ {0} /\ MaxQueued \in Nat
           /\ queue[i] \in Seq(Jobs)
  <1>1. IsFiniteSet(Running(i)) /\ queue[i] \in Seq(Jobs)
    BY BeforeParts DEF SlotsOf, TypeOK
  <1>. QED BY <1>1, FS_CardinalityType, LenProperties, Limits DEF Limits

LEMMA InsertRecord ==
    ASSUME NEW i \in Instances, Before(i), At(i, "insert"), NEW j \in Jobs, Insert(i, j),
           UNCHANGED <<leases, phase, children>>
    PROVE  InstanceInv(i)'
  <1>0. /\ TypeOK /\ TypeOK' /\ LedgerInv /\ RecordInv /\ HandlerOf(i) /\ MemoryOf(i)
        /\ ChildrenOf(i) /\ QueueOf(i) /\ SlotsOf(i)
    BY BeforeParts
  <1>1. /\ home[j] = None /\ home[j] # i /\ verdict[j] = None /\ proc[j] = "none"
    BY <1>0, ModelValues DEF Insert, RecordInv, LedgerInv, Recorded, ModelValues, TypeOK
  <1>2. /\ pc[i].at = "insert" /\ phase[i] = "up" /\ phase' = phase
        /\ Lands(i, "pump", "idle", {})
    BY <1>0, CreateLands DEF At, HandlerOf
  <1>3. /\ home'[j] = i /\ mem'[j] = "queued" /\ status'[j] = "queued"
        /\ held' = held \cup {j} /\ UNCHANGED <<proc, verdict, doom>>
        /\ \A k \in Jobs \ {j} : home'[k] = home[k] /\ mem'[k] = mem[k] /\ status'[k] = status[k]
        /\ queue'[i] = Append(queue[i], j)
    BY <1>0 DEF Insert, TypeOK, children
  <1>4. Own(i)' = Own(i) \cup {j} /\ j \notin Own(i)
    BY <1>1, <1>3 DEF Own
  <1>5. HandlerOf(i)'
    BY <1>2 DEF HandlerOf, Lands
  <1>6. MemoryOf(i)'
    <2>1. \A k \in Own(i) : k \in Jobs \ {j}
      BY <1>4 DEF Own
    <2>. QED BY <1>0, <1>2, <1>3, <1>4, <2>1 DEF MemoryOf, Live, Active
  <1>7. ChildrenOf(i)'
    <2>1. \A k \in Own(i) : k \in Jobs \ {j}
      BY <1>4 DEF Own
    <2>. QED BY <1>0, <1>1, <1>2, <1>3, <1>4, <2>1 DEF ChildrenOf, Lands
  <1>8. /\ queue[i] \in Seq(Jobs) /\ Len(queue[i]) \in Nat
        /\ Cardinality(Running(i)) \in Nat /\ MaxConcurrent \in Nat /\ MaxQueued \in Nat
    BY SlotNumbers
  <1>9. /\ Len(queue'[i]) = Len(queue[i]) + 1 /\ queue'[i][Len(queue[i]) + 1] = j
        /\ \A n \in 1..Len(queue[i]) : queue'[i][n] = queue[i][n]
    BY <1>3, <1>8, AppendProperties
  <1>10. QueueOf(i)'
    <2>1. \A n \in 1..Len(queue[i]) : queue[i][n] # j
      BY <1>0, <1>1 DEF QueueOf, Contains
    <2>2. \A m, n \in 1..Len(queue'[i]) : queue'[i][m] = queue'[i][n] => m = n
      <3>. SUFFICES ASSUME NEW m \in 1..(Len(queue[i]) + 1), NEW n \in 1..(Len(queue[i]) + 1),
                           queue'[i][m] = queue'[i][n]
                    PROVE  m = n
        BY <1>9
      <3>1. /\ m \in 1..Len(queue[i]) \/ m = Len(queue[i]) + 1
            /\ n \in 1..Len(queue[i]) \/ n = Len(queue[i]) + 1
        BY <1>8, SMT
      <3>. QED BY <1>0, <1>9, <2>1, <3>1 DEF QueueOf
    <2>3. ASSUME NEW k \in Jobs
          PROVE  Contains(queue'[i], k) <=> Contains(queue[i], k) \/ k = j
      <3>1. \A n \in 1..Len(queue'[i]) : n \in 1..Len(queue[i]) \/ n = Len(queue[i]) + 1
        BY <1>8, <1>9, SMT
      <3>2. Len(queue[i]) + 1 \in 1..Len(queue'[i])
            /\ \A n \in 1..Len(queue[i]) : n \in 1..Len(queue'[i])
        BY <1>8, <1>9, SMT
      <3>. QED BY <1>9, <3>1, <3>2 DEF Contains
    <2>. QED BY <1>0, <1>1, <1>3, <2>2, <2>3 DEF QueueOf
  <1>11. Running(i)' = Running(i)
    BY <1>0, <1>1, <1>3 DEF Running, TypeOK
  <1>12. SlotsOf(i)'
    <2>1. Len(queue[i]) <= MaxQueued
      BY <1>0, <1>2, <1>8 DEF SlotsOf
    <2>2. Len(queue'[i]) > MaxQueued =>
             Len(queue'[i]) = MaxQueued + 1 /\ Cardinality(Running(i)) < MaxConcurrent
      <3>1. ~QueueIsFull(i)
        BY DEF Insert
      <3>. QED BY <1>8, <1>9, <2>1, <3>1, SMT DEF QueueIsFull
    <2>. QED BY <1>0, <1>2, <1>11, <2>2 DEF SlotsOf, Pumping, Lands
  <1>13. CancelledOf(i)' /\ ExitOf(i)'
    BY <1>2 DEF CancelledOf, ExitOf
  <1>. QED BY <1>5, <1>6, <1>7, <1>10, <1>12, <1>13 DEF InstanceInv

\* pump() finds no work or no slot.
LEMMA PumpStopsRecord ==
    ASSUME NEW i \in Instances, Before(i), Pump(i), PumpStops(i)
    PROVE  InstanceInv(i)'
  <1>0. /\ TypeOK /\ TypeOK' /\ InstanceInv(i) /\ HandlerOf(i) /\ ChildrenOf(i) /\ SlotsOf(i)
        /\ CancelledOf(i)
    BY BeforeParts
  <1>1. /\ pc[i].at = "pump" /\ pc[i].next = "idle" /\ Return(i) /\ JobsKept(i)
        /\ home' = home /\ phase' = phase /\ UNCHANGED <<queue, mem, children>>
    BY <1>0, FrameFields, NothingMoved DEF Pump, At, database, memory
  <1>2. Lands(i, IF pc[i].todo = {} THEN "idle" ELSE "shutdown", "idle", pc[i].todo)
    BY <1>0, <1>1, ReturnLands
  <1>3. HandlerOf(i)'
    <2>1. pc[i].todo \subseteq Own(i)
      BY <1>0, <1>1 DEF HandlerOf
    <2>. QED BY <1>1, <1>2, <2>1, Course
  <1>4. MemoryOf(i)' /\ QueueOf(i)' /\ ExitOf(i)' /\ Running(i)' = Running(i)
    BY <1>0, <1>1, KeptParts
  <1>5. Own(i)' = Own(i)
    BY <1>1 DEF Own
  <1>6. ChildrenOf(i)'
    BY <1>0, <1>1, <1>2, <1>5 DEF ChildrenOf, Lands, children
  <1>7. SlotsOf(i)'
    <2>1. ~(Len(queue[i]) > MaxQueued)
      <3>1. \/ phase[i] = "stopping" \/ Len(queue[i]) = 0
            \/ ~(Cardinality(Running(i)) < MaxConcurrent)
        BY SlotNumbers DEF PumpStops
      <3>. QED BY <1>0, <3>1, SlotNumbers DEF SlotsOf
    <2>2. phase[i] = "up" /\ queue[i] # <<>> => ~(Cardinality(Running(i)) < MaxConcurrent)
      BY SlotNumbers DEF PumpStops
    <2>. QED BY <1>0, <1>1, <1>4, <2>1, <2>2 DEF SlotsOf
  <1>8. CancelledOf(i)'
    BY <1>0, <1>1, <1>2, <1>5 DEF CancelledOf, Pending, Lands, children
  <1>. QED BY <1>3, <1>4, <1>6, <1>7, <1>8 DEF InstanceInv

\* pump() takes the first waiting job: it is this instance's, and its row says so.
LEMMA PumpTakesRecord ==
    ASSUME ~StoreMayFail, NEW i \in Instances, Before(i), Pump(i), ~PumpStops(i)
    PROVE  InstanceInv(i)'
  <1>. DEFINE j == Head(queue[i])
  <1>0. /\ TypeOK /\ TypeOK' /\ HandlerOf(i) /\ MemoryOf(i)
        /\ ChildrenOf(i) /\ QueueOf(i) /\ SlotsOf(i)
    BY BeforeParts
  <1>1. /\ pc[i].at = "pump" /\ pc[i].next = "idle" /\ phase[i] \in Live
        /\ phase[i] = "up" /\ UNCHANGED <<phase, home, held, children>>
    BY <1>0, FrameFields DEF Pump, PumpStops, At, Live
  <1>2. /\ queue[i] \in Seq(Jobs) /\ queue[i] # <<>> /\ Len(queue[i]) \in Nat
        /\ Cardinality(Running(i)) \in Nat /\ MaxConcurrent \in Nat /\ MaxQueued \in Nat
        /\ IsFiniteSet(Running(i)) /\ ~(Cardinality(Running(i)) >= MaxConcurrent)
    BY SlotNumbers DEF PumpStops
  <1>3. /\ j \in Jobs /\ queue[i][1] = j /\ Len(queue[i]) >= 1
        /\ Tail(queue[i]) \in Seq(Jobs) /\ Len(Tail(queue[i])) = Len(queue[i]) - 1
        /\ \A n \in 1..(Len(queue[i]) - 1) : Tail(queue[i])[n] = queue[i][n + 1]
    <2>1. j \in Jobs /\ Tail(queue[i]) \in Seq(Jobs) /\ Len(Tail(queue[i])) = Len(queue[i]) - 1
      BY <1>2, HeadTailProperties
    <2>2. Len(queue[i]) >= 1
      BY <1>2, EmptySeq, SMT
    <2>. QED BY <1>2, <2>1, <2>2, SMT
  <1>4. home[j] = i /\ mem[j] = "queued"
    <2>1. Contains(queue[i], j)
      BY <1>2, <1>3, SMT DEF Contains
    <2>. QED BY <1>0, <1>3, <2>1 DEF QueueOf
  <1>5. status[j] = "queued" /\ j \in held
    BY <1>0, <1>3, <1>4 DEF MemoryOf, Own, Active
  <1>6. /\ MarkRunning(i, j) /\ queue' = [queue EXCEPT ![i] = Tail(queue[i])]
    BY <1>4, <1>5 DEF Pump, LaunchFails
  <1>7. /\ mem'[j] = "running" /\ status'[j] = "running" /\ queue'[i] = Tail(queue[i])
        /\ \A k \in Jobs \ {j} : mem'[k] = mem[k] /\ status'[k] = status[k]
    BY <1>0, <1>3, <1>6 DEF MarkRunning, TypeOK
  <1>8. Lands(i, "spawn", "idle", pc[i].todo) /\ pc'[i].job = j
    BY <1>0, <1>1, <1>3, <1>6, LaunchLands
  <1>9. Own(i)' = Own(i)
    BY <1>1 DEF Own
  <1>10. HandlerOf(i)'
    <2>1. pc[i].todo \subseteq Own(i)
      BY <1>0, <1>1 DEF HandlerOf
    <2>. QED BY <1>1, <1>8, <2>1, Course
  <1>11. MemoryOf(i)'
    BY <1>0, <1>1, <1>5, <1>7, <1>9 DEF MemoryOf, Own, Active
  <1>12. ChildrenOf(i)'
    BY <1>0, <1>1, <1>3, <1>4, <1>7, <1>8, <1>9 DEF ChildrenOf, Own, Lands, children
  <1>13. QueueOf(i)'
    <2>1. \A m, n \in 1..Len(queue'[i]) : queue'[i][m] = queue'[i][n] => m = n
      <3>. SUFFICES ASSUME NEW m \in 1..(Len(queue[i]) - 1), NEW n \in 1..(Len(queue[i]) - 1),
                           queue[i][m + 1] = queue[i][n + 1]
                    PROVE  m = n
        BY <1>2, <1>3, <1>7
      <3>1. m + 1 \in 1..Len(queue[i]) /\ n + 1 \in 1..Len(queue[i])
        BY <1>2, SMT
      <3>2. m + 1 = n + 1
        BY <1>0, <3>1 DEF QueueOf
      <3>. QED BY <1>2, <3>2, SMT
    <2>2. ASSUME NEW k \in Jobs
          PROVE  Contains(queue'[i], k) <=> Contains(queue[i], k) /\ k # j
      <3>1. ASSUME NEW n \in 1..Len(queue'[i])
            PROVE  n + 1 \in 1..Len(queue[i]) /\ queue'[i][n] = queue[i][n + 1] /\ n + 1 # 1
        BY <1>2, <1>3, <1>7, SMT
      <3>2. \A n \in 1..Len(queue[i]) : n # 1 => queue[i][n] # j
        <4>1. 1 \in 1..Len(queue[i])
          BY <1>2, <1>3, SMT
        <4>. QED BY <1>0, <1>3, <4>1 DEF QueueOf
      <3>3. ASSUME NEW n \in 1..Len(queue[i]), n # 1
            PROVE  n - 1 \in 1..Len(queue'[i]) /\ queue'[i][n - 1] = queue[i][n]
        <4>1. n - 1 \in 1..(Len(queue[i]) - 1) /\ (n - 1) + 1 = n
          BY <1>2, <3>3, SMT
        <4>. QED BY <1>3, <1>7, <4>1
      <3>4. Contains(queue'[i], k) => Contains(queue[i], k) /\ k # j
        <4>. SUFFICES ASSUME NEW n \in 1..Len(queue'[i]), queue'[i][n] = k
                      PROVE  Contains(queue[i], k) /\ k # j
          BY DEF Contains
        <4>1. n + 1 \in 1..Len(queue[i]) /\ queue[i][n + 1] = k /\ n + 1 # 1
          BY <3>1
        <4>. QED BY <3>2, <4>1 DEF Contains
      <3>5. Contains(queue[i], k) /\ k # j => Contains(queue'[i], k)
        <4>. SUFFICES ASSUME NEW n \in 1..Len(queue[i]), queue[i][n] = k, k # j
                      PROVE  Contains(queue'[i], k)
          BY DEF Contains
        <4>1. n # 1
          BY <1>3
        <4>. QED BY <3>3, <4>1 DEF Contains
      <3>. QED BY <3>4, <3>5
    <2>. QED BY <1>0, <1>1, <1>7, <2>1, <2>2 DEF QueueOf
  <1>14. Running(i)' = Running(i) \cup {j}
    BY <1>1, <1>3, <1>4, <1>5, <1>7, <1>0 DEF Running, TypeOK
  <1>15. SlotsOf(i)'
    <2>1. j \notin Running(i)
      BY <1>4 DEF Running
    <2>2. /\ IsFiniteSet(Running(i)')
          /\ Cardinality(Running(i)') = Cardinality(Running(i)) + 1
      <3>1. /\ IsFiniteSet(Running(i) \cup {j})
            /\ Cardinality(Running(i) \cup {j}) = Cardinality(Running(i)) + 1
        <4>. HIDE DEF j
        <4>. QED BY <1>2, <2>1, FS_AddElement
      <3>. QED BY <1>14, <3>1
    <2>3. Cardinality(Running(i)') <= MaxConcurrent
      BY <1>2, <2>2, SMT
    <2>4. ~(Len(queue'[i]) > MaxQueued)
      <3>1. Len(queue[i]) <= MaxQueued + 1
        BY <1>0, <1>2, SMT DEF SlotsOf
      <3>. QED BY <1>2, <1>3, <1>7, <3>1, SMT
    <2>. QED BY <1>8, <2>2, <2>3, <2>4 DEF SlotsOf, Pumping, Lands
  <1>16. CancelledOf(i)' /\ ExitOf(i)'
    BY <1>1 DEF CancelledOf, ExitOf
  <1>. QED BY <1>10, <1>11, <1>12, <1>13, <1>15, <1>16 DEF InstanceInv

LEMMA SpawnRecord ==
    ASSUME NEW i \in Instances, Before(i), Spawn(i)
    PROVE  InstanceInv(i)'
  <1>. DEFINE j == pc[i].job
  <1>0. /\ TypeOK /\ TypeOK' /\ LedgerInv /\ HandlerOf(i) /\ MemoryOf(i)
        /\ ChildrenOf(i) /\ QueueOf(i) /\ SlotsOf(i) /\ CancelledOf(i)
    BY BeforeParts
  <1>1. /\ pc[i].at = "spawn" /\ pc[i].next = "idle" /\ phase[i] \in Live
        /\ UNCHANGED <<status, home, mem, held, queue, phase, doom>>
    BY <1>0, FrameFields DEF Spawn, At, database, memory
  <1>2. j \in Jobs /\ home[j] = i /\ mem[j] = "running" /\ proc[j] = "none"
    BY <1>0, <1>1, SpawnIsHome
  <1>3. verdict[j] = None
    BY <1>0, <1>1, <1>2 DEF ChildrenOf, Own
  <1>4. Lands(i, "pump", "idle", pc[i].todo)
    BY <1>0, SpawnLands
  <1>5. /\ \A k \in Jobs \ {j} : proc'[k] = proc[k] /\ verdict'[k] = verdict[k]
        /\ \/ proc'[j] = "alive" /\ verdict'[j] = None
           \/ proc'[j] = "none" /\ verdict'[j] = "spawn_error"
    BY <1>0, <1>2, <1>3 DEF Spawn, TypeOK
  <1>6. Own(i)' = Own(i) /\ Running(i)' = Running(i)
    BY <1>1 DEF Own, Running
  <1>7. HandlerOf(i)'
    <2>1. pc[i].todo \subseteq Own(i)
      BY <1>0, <1>1 DEF HandlerOf
    <2>. QED BY <1>1, <1>4, <2>1, Course
  <1>8. MemoryOf(i)' /\ QueueOf(i)'
    BY <1>0, <1>1, <1>6 DEF MemoryOf, QueueOf
  <1>9. ChildrenOf(i)'
    <2>1. "spawn_error" # None
      BY NoVerdict DEF NoVerdict, Results
    <2>2. ASSUME NEW k \in Own(i), k # j
          PROVE  /\ mem[k] = "running" => proc'[k] # "none" \/ verdict'[k] # None
                 /\ verdict'[k] # None => mem[k] = "running" /\ proc'[k] # "alive"
                 /\ proc'[k] = "alive" => mem[k] = "running"
      BY <1>0, <1>1, <1>5, <2>2 DEF ChildrenOf, Own
    <2>. QED BY <1>1, <1>2, <1>4, <1>5, <1>6, <2>1, <2>2 DEF ChildrenOf, Lands
  <1>10. SlotsOf(i)'
    BY <1>0, <1>1, <1>4, <1>6 DEF SlotsOf, Pumping, Lands
  <1>11. CancelledOf(i)'
    <2>1. \A k \in Own(i) : Pending(i, k) => Pending(i, k)'
      BY <1>1, <1>4 DEF Pending, Lands
    <2>2. \A k \in Own(i) : verdict[k] # None => verdict'[k] # None
      BY <1>3, <1>5 DEF Own
    <2>. QED BY <1>0, <1>1, <1>6, <2>1, <2>2 DEF CancelledOf
  <1>12. ExitOf(i)'
    BY <1>1 DEF ExitOf, Live
  <1>. QED BY <1>7, <1>8, <1>9, <1>10, <1>11, <1>12 DEF InstanceInv

\* queue.splice takes out the one element.
LEMMA WithoutOne ==
    ASSUME NEW q \in Seq(Jobs), NEW j, NEW p \in 1..Len(q), q[p] = j,
           \A m, n \in 1..Len(q) : q[m] = q[n] => m = n
    PROVE  /\ Without(q, j) \in Seq(Jobs) /\ Len(Without(q, j)) = Len(q) - 1
           /\ \A n \in 1..(Len(q) - 1) :
                 Without(q, j)[n] = IF n < p THEN q[n] ELSE q[n + 1]
  <1>1. Len(q) \in Nat /\ DOMAIN q = 1..Len(q) /\ p \in Nat /\ 1 <= p /\ p <= Len(q)
    BY LenProperties
  <1>2. (CHOOSE n \in DOMAIN q : q[n] = j) = p
    BY <1>1
  <1>3. Without(q, j) = SubSeq(q, 1, p - 1) \o SubSeq(q, p + 1, Len(q))
    BY <1>1, <1>2 DEF Without, RemoveAt
  <1>. DEFINE front == SubSeq(q, 1, p - 1)
              back == SubSeq(q, p + 1, Len(q))
  <1>4. /\ front \in Seq(Jobs) /\ Len(front) = p - 1
        /\ \A n \in 1..(p - 1) : front[n] = q[n]
    BY <1>1, SubSeqProperties, SMT
  <1>5. /\ back \in Seq(Jobs) /\ Len(back) = Len(q) - p
        /\ \A n \in 1..(Len(q) - p) : back[n] = q[p + n]
    <2>1. \A n \in (p + 1)..Len(q) : q[n] \in Jobs
      BY <1>1, ElementOfSeq, SMT
    <2>2. /\ back \in Seq(Jobs)
          /\ Len(back) = IF p + 1 <= Len(q) THEN Len(q) - (p + 1) + 1 ELSE 0
          /\ \A n \in 1..(Len(q) - (p + 1) + 1) : back[n] = q[(p + 1) + n - 1]
      BY <1>1, <2>1, SubSeqProperties
    <2>3. Len(back) = Len(q) - p
      <3>1. CASE p + 1 <= Len(q)
        <4>1. Len(back) = Len(q) - (p + 1) + 1
          BY <2>2, <3>1
        <4>2. Len(q) - (p + 1) + 1 = Len(q) - p
          BY <1>1, SMT
        <4>. QED BY ZenonT(30), <4>1, <4>2
      <3>2. CASE ~(p + 1 <= Len(q))
        <4>1. Len(back) = 0
          BY SMTT(40), <2>2, <3>2
        <4>2. Len(q) - p = 0
          <5>1. \A a, b \in Nat : a <= b /\ ~(a + 1 <= b) => b - a = 0
            BY SMT
          <5>. QED BY ZenonT(30), <1>1, <3>2, <5>1
        <4>. QED BY <4>1, <4>2
      <3>. QED BY SMTT(40), <3>1, <3>2
    <2>4. ASSUME NEW n \in 1..(Len(q) - p) PROVE back[n] = q[p + n]
      <3>1. n \in 1..(Len(q) - (p + 1) + 1) /\ (p + 1) + n - 1 = p + n
        BY <1>1, SMT
      <3>2. back[n] = q[(p + 1) + n - 1]
        BY <2>2, <3>1
      <3>. QED BY <3>1, <3>2
    <2>. QED BY <2>2, <2>3, <2>4
  <1>. HIDE DEF front, back
  <1>6. /\ front \o back \in Seq(Jobs) /\ Len(front \o back) = Len(front) + Len(back)
        /\ \A n \in 1..(Len(front) + Len(back)) :
              (front \o back)[n] = IF n <= Len(front) THEN front[n] ELSE back[n - Len(front)]
    <2>1. front \in Seq(Jobs) /\ back \in Seq(Jobs)
      BY <1>4, <1>5
    <2>. QED BY ONLY <2>1, ConcatProperties, Zenon
  <1>7. ASSUME NEW n \in 1..(Len(q) - 1)
        PROVE  (front \o back)[n] = IF n < p THEN q[n] ELSE q[n + 1]
    <2>1. n \in 1..(Len(front) + Len(back))
      BY <1>1, <1>4, <1>5, SMT
    <2>2. CASE n < p
      <3>1. n <= Len(front) /\ n \in 1..(p - 1)
        BY <1>1, <1>4, <2>2, SMT
      <3>. QED BY <1>4, <1>6, <2>1, <2>2, <3>1
    <2>3. CASE ~(n < p)
      <3>1. /\ ~(n <= Len(front)) /\ n - Len(front) \in 1..(Len(q) - p)
            /\ p + (n - Len(front)) = n + 1
        BY <1>1, <1>4, <2>3, SMT
      <3>. QED BY <1>5, <1>6, <2>1, <2>3, <3>1
    <2>. QED BY <2>2, <2>3
  <1>8. Len(front \o back) = Len(q) - 1
    BY <1>1, <1>4, <1>5, <1>6, SMT
  <1>. QED BY <1>3, <1>6, <1>7, <1>8 DEF front, back

LEMMA WithoutMembers ==
    ASSUME NEW q \in Seq(Jobs), NEW j, Contains(q, j),
           \A m, n \in 1..Len(q) : q[m] = q[n] => m = n
    PROVE  /\ Without(q, j) \in Seq(Jobs) /\ Len(Without(q, j)) = Len(q) - 1
           /\ \A m, n \in 1..Len(Without(q, j)) :
                 Without(q, j)[m] = Without(q, j)[n] => m = n
           /\ \A k : Contains(Without(q, j), k) <=> Contains(q, k) /\ k # j
  <1>1. PICK p \in 1..Len(q) : q[p] = j
    BY DEF Contains
  <1>. DEFINE r == Without(q, j)
              skip(n) == IF n < p THEN n ELSE n + 1
  <1>2. /\ r \in Seq(Jobs) /\ Len(r) = Len(q) - 1
        /\ \A n \in 1..(Len(q) - 1) : r[n] = IF n < p THEN q[n] ELSE q[n + 1]
    BY SMTT(40), <1>1, WithoutOne
  <1>3. Len(q) \in Nat /\ p \in Nat
    BY LenProperties
  <1>. HIDE DEF r
  <1>4. ASSUME NEW n \in 1..(Len(q) - 1)
        PROVE  skip(n) \in 1..Len(q) /\ skip(n) # p /\ r[n] = q[skip(n)]
    BY <1>2, <1>3, SMT
  <1>5. ASSUME NEW m \in 1..Len(r), NEW n \in 1..Len(r), r[m] = r[n]
        PROVE  m = n
    <2>1. skip(m) = skip(n)
      BY <1>2, <1>4, <1>5
    <2>. QED BY <1>2, <1>3, <2>1, SMT
  <1>6. ASSUME NEW k, Contains(r, k) PROVE Contains(q, k) /\ k # j
    <2>1. PICK n \in 1..(Len(q) - 1) : r[n] = k
      BY <1>2, <1>6 DEF Contains
    <2>2. skip(n) \in 1..Len(q) /\ skip(n) # p /\ q[skip(n)] = k
      BY <1>4, <2>1
    <2>. QED BY <1>1, <2>2 DEF Contains
  <1>7. ASSUME NEW k, Contains(q, k), k # j PROVE Contains(r, k)
    <2>1. PICK m \in 1..Len(q) : q[m] = k
      BY <1>7 DEF Contains
    <2>2. \E n \in 1..(Len(q) - 1) : skip(n) = m
      <3>1. m # p
        BY <1>1, <1>7, <2>1
      <3>2. CASE m < p
        BY <1>3, <3>2, SMT
      <3>3. CASE m > p
        <4>1. m - 1 \in 1..(Len(q) - 1) /\ skip(m - 1) = m
          BY <1>3, <3>3, SMT
        <4>. QED BY <4>1
      <3>. QED BY <1>3, <3>1, <3>2, <3>3, SMT
    <2>. QED BY <1>2, <1>4, <2>1, <2>2 DEF Contains
  <1>. QED BY <1>2, <1>5, <1>6, <1>7 DEF r

\* store.finish of a row that is active: it is ended, and cannot fail here.
LEMMA FinishActive ==
    ASSUME ~StoreMayFail, TypeOK, NEW j \in Jobs, NEW s, status[j] \in Active
    PROVE  /\ FinishRow(j, s) => status'[j] = s /\ \A k \in Jobs \ {j} : status'[k] = status[k]
           /\ ~FinishThrows(j)
  BY DEF TypeOK, FinishRow, FinishThrows, EndRow, Active

LEMMA CancelRecord ==
    ASSUME ~StoreMayFail, NEW i \in Instances, Before(i), CancelJob(i)
    PROVE  InstanceInv(i)'
  <1>. DEFINE j == pc[i].job
  <1>0. /\ TypeOK /\ TypeOK' /\ InstanceInv(i) /\ HandlerOf(i) /\ MemoryOf(i)
        /\ ChildrenOf(i) /\ QueueOf(i) /\ SlotsOf(i) /\ CancelledOf(i)
    BY BeforeParts
  <1>1. /\ pc[i].at = "cancel" /\ pc[i].next = "idle" /\ phase[i] \in Live
        /\ j \in Jobs /\ home[j] = i /\ pc[i].todo \subseteq Own(i)
        /\ UNCHANGED <<home, phase>>
    BY <1>0, FrameFields
       DEF CancelJob, CancelQueued, CancelRunning, CancelElse, At, OnJob, HandlerOf, memory
  <1>2. Own(i)' = Own(i)
    BY <1>1 DEF Own
  <1>3. ASSUME NEW k \in Own(i), k # j, Pending(i, k), pc'[i].todo = pc[i].todo
        PROVE  Pending(i, k)'
    BY <1>3 DEF Pending
  <1>4. CASE CancelQueued(i, j)
    <2>1. /\ mem[j] = "queued" /\ j \in held /\ queue'[i] = Without(queue[i], j)
          /\ mem'[j] = "done" /\ \A k \in Jobs \ {j} : mem'[k] = mem[k]
          /\ UNCHANGED <<held, children>>
      BY <1>0, <1>1, <1>4 DEF CancelQueued, TypeOK
    <2>2. status[j] = "queued"
      BY <1>0, <1>1, <2>1 DEF MemoryOf, Own, Active
    <2>3. /\ FinishRow(j, "cancelled") /\ Goto(i, [Pruning(i, "pump") EXCEPT !.job = None])
          /\ status'[j] = "cancelled" /\ \A k \in Jobs \ {j} : status'[k] = status[k]
      BY SMTT(30), <1>0, <1>1, <1>4, <2>2, FinishActive DEF CancelQueued, Active
    <2>4. Lands(i, "prune", "pump", pc[i].todo)
      BY <1>0, <2>3, ToPumpLands
    <2>5. HandlerOf(i)'
      BY <1>1, <2>4, Course
    <2>6. MemoryOf(i)'
      BY <1>0, <1>1, <1>2, <2>1, <2>3 DEF MemoryOf, Own, Active
    <2>7. ChildrenOf(i)'
      BY <1>0, <1>1, <1>2, <2>1, <2>4 DEF ChildrenOf, Own, Lands, children
    <2>8. /\ queue'[i] \in Seq(Jobs) /\ Len(queue'[i]) = Len(queue[i]) - 1
          /\ \A m, n \in 1..Len(queue'[i]) : queue'[i][m] = queue'[i][n] => m = n
          /\ \A k : Contains(queue'[i], k) <=> Contains(queue[i], k) /\ k # j
      <3>1. Contains(queue[i], j) /\ queue[i] \in Seq(Jobs)
        BY <1>0, <1>1, <2>1 DEF QueueOf, TypeOK
      <3>2. \A m, n \in 1..Len(queue[i]) : queue[i][m] = queue[i][n] => m = n
        BY <1>0 DEF QueueOf
      <3>. QED BY SMTT(40), <2>1, <3>1, <3>2, WithoutMembers
    <2>9. QueueOf(i)'
      BY <1>0, <1>1, <2>1, <2>8 DEF QueueOf
    <2>10. Running(i)' = Running(i)
      BY <1>0, <1>1, <2>1 DEF Running, TypeOK
    <2>11. SlotsOf(i)'
      <3>1. ~(Len(queue[i]) > MaxQueued)
        BY <1>0, <1>1 DEF SlotsOf
      <3>2. ~(Len(queue'[i]) > MaxQueued)
        BY <2>8, <3>1, SlotNumbers
      <3>. QED BY <1>0, <2>4, <2>10, <3>2 DEF SlotsOf, Pumping, Lands
    <2>12. CancelledOf(i)'
      BY <1>0, <1>1, <1>2, <1>3, <2>1, <2>4 DEF CancelledOf, Own, Lands, children, Active
    <2>13. ExitOf(i)'
      BY <1>1 DEF ExitOf, Live
    <2>. QED BY <2>5, <2>6, <2>7, <2>9, <2>11, <2>12, <2>13 DEF InstanceInv
  <1>5. ASSUME Return(i), JobsKept(i), CancelledOf(i)' PROVE InstanceInv(i)'
    <2>1. Lands(i, IF pc[i].todo = {} THEN "idle" ELSE "shutdown", "idle", pc[i].todo)
      BY <1>0, <1>5, ReturnLands
    <2>2. HandlerOf(i)' /\ pc'[i].at # "spawn"
      BY <1>1, <2>1, Course DEF Lands
    <2>. QED BY <1>0, <1>1, <1>5, <2>2, KeptMoved
  <1>6. Return(i) => pc'[i].todo = pc[i].todo
    BY <1>0, ReturnLands DEF Lands
  <1>7. CASE CancelRunning(i, j)
    <2>1. /\ mem[j] = "running" /\ Return(i)
          /\ UNCHANGED <<status, mem, held, queue, proc, verdict>>
      BY <1>7 DEF CancelRunning, database, memory
    <2>2. /\ \A k \in Jobs : "cancel" \in doom[k] => "cancel" \in doom'[k]
          /\ verdict[j] = None => "cancel" \in doom'[j]
      <3>1. CASE verdict[j] = None
        <4>1. doom' = [doom EXCEPT ![j] = doom[j] \cup {"cancel"}]
          BY <1>7, <3>1 DEF CancelRunning
        <4>. QED BY <1>0, <1>1, <4>1 DEF TypeOK
      <3>2. CASE verdict[j] # None
        BY <1>7, <3>2 DEF CancelRunning
      <3>. QED BY <3>1, <3>2
    <2>3. JobsKept(i)
      BY <1>1, <2>1, <2>2 DEF JobsKept, Own
    <2>4. CancelledOf(i)'
      BY <1>0, <1>1, <1>2, <1>3, <1>6, <2>1, <2>2 DEF CancelledOf, Own
    <2>. QED BY <1>5, <2>1, <2>3, <2>4
  <1>8. CASE CancelElse(i, j)
    <2>1. mem[j] \notin Active /\ status[j] # "queued"
      <3>1. mem[j] \notin Active
        BY <1>0, <1>1, <1>8 DEF CancelElse, MemoryOf, Own, Active
      <3>2. mem[j] = "done"
        BY <1>0, <1>1, <3>1 DEF MemoryOf, Own, TypeOK, Active
      <3>. QED BY <1>0, <1>1, <3>1, <3>2 DEF MemoryOf, Own, Active
    <2>2. Return(i) /\ UNCHANGED <<status, memory, children>>
      BY <1>8, <2>1 DEF CancelElse, database
    <2>3. JobsKept(i)
      BY <1>1, <2>2, NothingMoved
    <2>4. CancelledOf(i)'
      BY <1>0, <1>1, <1>2, <1>3, <1>6, <2>1, <2>2
         DEF CancelledOf, Own, memory, children
    <2>. QED BY <1>5, <2>2, <2>3, <2>4
  <1>. QED BY <1>4, <1>7, <1>8 DEF CancelJob

\* Timer, close event and the delivery of a result.
LEMMA CloseRecord ==
    ASSUME NEW i \in Instances, Before(i), NEW j \in Jobs, ChildCloses(i, j)
    PROVE  InstanceInv(i)'
  <1>0. /\ TypeOK /\ TypeOK' /\ HandlerOf(i) /\ MemoryOf(i)
        /\ ChildrenOf(i) /\ QueueOf(i) /\ SlotsOf(i) /\ CancelledOf(i) /\ ExitOf(i)
    BY BeforeParts
  <1>1. /\ pc[i].at = "idle" /\ home[j] = i /\ proc[j] = "dead" /\ mem[j] = "running"
        /\ UNCHANGED <<status, home, mem, held, queue, phase, pc, proc, doom>>
        /\ \A k \in Jobs \ {j} : verdict'[k] = verdict[k]
    BY <1>0 DEF ChildCloses, At, database, memory, TypeOK
  <1>2. Own(i)' = Own(i) /\ Running(i)' = Running(i)
    BY <1>1 DEF Own, Running
  <1>3. HandlerOf(i)' /\ MemoryOf(i)' /\ QueueOf(i)' /\ SlotsOf(i)' /\ ExitOf(i)'
    BY <1>0, <1>1, <1>2 DEF HandlerOf, MemoryOf, QueueOf, SlotsOf, Pumping, ExitOf
  <1>4. ChildrenOf(i)'
    BY <1>0, <1>1, <1>2 DEF ChildrenOf, Own
  <1>5. \A k \in Own(i) : verdict[k] # None => verdict'[k] # None
    BY <1>1 DEF Own, ChildCloses
  <1>6. CancelledOf(i)'
    BY <1>0, <1>1, <1>2, <1>5 DEF CancelledOf, Pending
  <1>. QED BY <1>3, <1>4, <1>6 DEF InstanceInv

LEMMA DeliverRecord ==
    ASSUME ~StoreMayFail, NEW i \in Instances, Before(i), NEW j \in Jobs, Deliver(i, j)
    PROVE  InstanceInv(i)'
  <1>0. /\ TypeOK /\ TypeOK' /\ HandlerOf(i) /\ MemoryOf(i)
        /\ ChildrenOf(i) /\ QueueOf(i) /\ SlotsOf(i) /\ CancelledOf(i)
    BY BeforeParts
  <1>1. /\ pc[i].at = "idle" /\ pc[i].next = "idle" /\ pc[i].todo = {} /\ phase[i] \in Live
        /\ home[j] = i /\ mem[j] = "running" /\ verdict[j] # None
        /\ UNCHANGED <<home, held, queue, phase, proc>>
    BY <1>0, FrameFields DEF Deliver, At, HandlerOf
  <1>2. status[j] = "running" /\ j \in held /\ proc[j] # "alive" /\ verdict[j] \in Results
    BY <1>0, <1>1 DEF MemoryOf, ChildrenOf, Own, Active, TypeOK
  <1>3. status'[j] = verdict[j] /\ \A k \in Jobs \ {j} : status'[k] = status[k]
    <2>1. status[j] \in Active
      BY <1>2 DEF Active
    <2>. QED BY <1>0, <2>1, FinishActive DEF Deliver
  <1>4. /\ mem'[j] = "done" /\ verdict'[j] = None
        /\ \A k \in Jobs \ {j} :
              mem'[k] = mem[k] /\ verdict'[k] = verdict[k] /\ doom'[k] = doom[k]
    BY <1>0 DEF Deliver, TypeOK
  <1>5. Lands(i, "prune", "pump", {})
    BY <1>0, <1>1, ToPumpLands DEF Deliver
  <1>6. Own(i)' = Own(i)
    BY <1>1 DEF Own
  <1>7. HandlerOf(i)'
    BY <1>1, <1>5, Course
  <1>8. MemoryOf(i)'
    <2>1. status'[j] \notin Active
      BY <1>2, <1>3 DEF Results, Active
    <2>. QED BY <1>0, <1>1, <1>3, <1>4, <1>6, <2>1 DEF MemoryOf, Own, Active
  <1>9. ChildrenOf(i)'
    BY <1>0, <1>1, <1>2, <1>4, <1>5, <1>6 DEF ChildrenOf, Own, Lands
  <1>10. QueueOf(i)'
    BY <1>0, <1>1, <1>4 DEF QueueOf, Contains
  <1>11. Running(i)' = Running(i) \ {j}
    BY <1>0, <1>1, <1>4 DEF Running, TypeOK
  <1>12. SlotsOf(i)'
    <2>1. j \in Running(i)
      BY <1>1, <1>2 DEF Running
    <2>2. /\ IsFiniteSet(Running(i)')
          /\ Cardinality(Running(i)') = Cardinality(Running(i)) - 1
      BY <1>0, <1>11, <2>1, FS_RemoveElement DEF SlotsOf
    <2>3. Cardinality(Running(i)') <= MaxConcurrent
      BY <1>0, <2>2, SlotNumbers, SMT DEF SlotsOf
    <2>. QED BY <1>0, <1>1, <1>5, <2>2, <2>3 DEF SlotsOf, Pumping, Lands
  <1>13. CancelledOf(i)'
    <2>1. \A k \in Own(i) : ~Pending(i, k)
      BY <1>1 DEF Pending
    <2>. QED BY <1>0, <1>1, <1>4, <1>6, <2>1 DEF CancelledOf, Own, Active
  <1>14. ExitOf(i)'
    BY <1>1 DEF ExitOf, Live
  <1>. QED BY <1>7, <1>8, <1>9, <1>10, <1>12, <1>13, <1>14 DEF InstanceInv

LEMMA ChildRecord ==
    ASSUME ~StoreMayFail, NEW i \in Instances, Before(i), ChildEvent(i)
    PROVE  InstanceInv(i)'
  <1>1. ASSUME NEW j \in Jobs, TimeoutFires(i, j) PROVE InstanceInv(i)'
    <2>0. TypeOK /\ TypeOK' /\ InstanceInv(i)
      BY BeforeParts
    <2>1. pc' = pc /\ JobsKept(i)
      BY <1>1, <2>0 DEF TimeoutFires, JobsKept, Own, database, memory, TypeOK
    <2>. QED BY <2>0, <2>1, KeptStill
  <1>. QED BY <1>1, CloseRecord, DeliverRecord DEF ChildEvent

-----------------------------------------------------------------------------
(* Start, shutdown and end of an instance                                  *)

LEMMA BootRecord ==
    ASSUME LeaseInv, NEW i \in Instances, Before(i), Boot(i)
    PROVE  InstanceInv(i)'
  <1>0. TypeOK /\ TypeOK' /\ QueueOf(i) /\ SlotsOf(i)
    BY BeforeParts
  <1>1. /\ phase[i] = "down" /\ phase'[i] = "up" /\ Lands(i, "refresh", "idle", {})
        /\ UNCHANGED <<status, home, mem, held, queue, proc, verdict, doom>>
    BY <1>0, BeatLands DEF Boot, TypeOK, database, memory, children
  <1>2. Own(i) = {} /\ Own(i)' = {}
    BY <1>1 DEF LeaseInv, Own
  <1>3. HandlerOf(i)'
    BY <1>1 DEF HandlerOf, Lands
  <1>4. MemoryOf(i)' /\ ChildrenOf(i)' /\ CancelledOf(i)' /\ ExitOf(i)'
    BY <1>2 DEF MemoryOf, ChildrenOf, CancelledOf, ExitOf
  <1>5. QueueOf(i)'
    BY <1>0, <1>1 DEF QueueOf, Contains
  <1>6. queue[i] = <<>>
    <2>1. \A n \in 1..Len(queue[i]) : queue[i][n] \in Jobs /\ Contains(queue[i], queue[i][n])
      BY <1>0, ElementOfSeq DEF TypeOK, Contains
    <2>2. \A n \in 1..Len(queue[i]) : FALSE
      BY <1>0, <1>2, <2>1 DEF QueueOf, Own
    <2>3. queue[i] \in Seq(Jobs)
      BY <1>0 DEF TypeOK
    <2>4. queue[i] # <<>> => Len(queue[i]) \in Nat \ {0}
      BY <2>3, EmptySeq
    <2>5. \A n \in Nat \ {0} : 1 \in 1..n
      BY SMT
    <2>. QED BY <2>2, <2>4, <2>5
  <1>7. SlotsOf(i)'
    <2>1. Running(i)' = Running(i)
      BY <1>1 DEF Running
    <2>2. ~(Len(queue[i]) > MaxQueued)
      BY <1>0, <1>1 DEF SlotsOf
    <2>. QED BY <1>0, <1>1, <1>6, <2>1, <2>2 DEF SlotsOf
  <1>. QED BY <1>3, <1>4, <1>5, <1>7 DEF InstanceInv

LEMMA ShutdownRecord ==
    ASSUME NEW i \in Instances, Before(i), Shutdown(i)
    PROVE  InstanceInv(i)'
  <1>. DEFINE D == {j \in held : home[j] = i /\ mem[j] \in Active}
  <1>0. /\ TypeOK /\ TypeOK' /\ MemoryOf(i) /\ ChildrenOf(i) /\ QueueOf(i) /\ SlotsOf(i)
    BY BeforeParts
  <1>1. /\ phase[i] = "up" /\ phase'[i] = "stopping" /\ pc[i].at = "idle"
        /\ UNCHANGED <<status, home, mem, held, queue, proc, verdict, doom>>
    BY <1>0 DEF Shutdown, At, TypeOK, database, memory, children
  <1>2. Lands(i, "shutdown", "idle", D)
    BY <1>0, ShutdownLands
  <1>3. Own(i)' = Own(i) /\ Running(i)' = Running(i)
    BY <1>1 DEF Own, Running
  <1>4. D \subseteq Own(i) /\ \A j \in Own(i) : mem[j] \in Active => j \in D
    BY <1>0 DEF Own, MemoryOf, TypeOK
  <1>5. HandlerOf(i)'
    BY <1>2, <1>3, <1>4 DEF HandlerOf, Lands
  <1>6. MemoryOf(i)' /\ QueueOf(i)'
    BY <1>0, <1>1, <1>3 DEF MemoryOf, QueueOf, Live
  <1>7. ChildrenOf(i)'
    BY <1>0, <1>1, <1>2, <1>3 DEF ChildrenOf, Lands, Live
  <1>8. SlotsOf(i)'
    BY <1>0, <1>1, <1>3 DEF SlotsOf
  <1>9. CancelledOf(i)'
    BY <1>1, <1>2, <1>3, <1>4 DEF CancelledOf, Pending, Lands
  <1>10. ExitOf(i)'
    BY <1>1 DEF ExitOf
  <1>. QED BY <1>5, <1>6, <1>7, <1>8, <1>9, <1>10 DEF InstanceInv

LEMMA DieRecord ==
    ASSUME NEW i \in Instances, Before(i), NEW how \in Dead, Die(i, how),
           how = "exited" => \A j \in Own(i) : proc[j] # "alive" /\ status[j] \notin Active
    PROVE  InstanceInv(i)'
  <1>0. TypeOK /\ TypeOK'
    BY BeforeParts
  <1>1. /\ phase'[i] = how /\ UNCHANGED <<status, home, proc>> /\ queue'[i] = <<>>
        /\ \A j \in Own(i) : mem'[j] = "absent" /\ verdict'[j] = None /\ j \notin held'
    BY <1>0 DEF Die, TypeOK, Own, database
  <1>2. Lands(i, "idle", "idle", {})
    BY <1>0, DieLands
  <1>3. Own(i)' = Own(i)
    BY <1>1 DEF Own
  <1>4. HandlerOf(i)'
    BY <1>2 DEF HandlerOf, Lands
  <1>5. MemoryOf(i)' /\ ChildrenOf(i)' /\ CancelledOf(i)'
    BY <1>1, <1>3 DEF MemoryOf, ChildrenOf, CancelledOf, Live, Dead, Active
  <1>6. Len(queue'[i]) = 0
    BY <1>1, EmptySeq
  <1>7. QueueOf(i)'
    <2>1. \A n \in 1..Len(queue'[i]) : FALSE
      BY <1>6, SMT
    <2>2. \A j \in Jobs : home'[j] = i => mem'[j] # "queued"
      BY <1>1 DEF Own
    <2>. QED BY <2>1, <2>2 DEF QueueOf, Contains
  <1>8. SlotsOf(i)'
    <2>1. Running(i)' = {}
      BY <1>0, <1>1 DEF Running, Own, TypeOK
    <2>2. ~(0 > MaxQueued) /\ 0 <= MaxConcurrent
      BY SlotNumbers, SMT
    <2>. QED BY <1>1, <1>6, <2>1, <2>2, FS_EmptySet DEF SlotsOf
  <1>9. ExitOf(i)'
    BY <1>1, <1>3 DEF ExitOf
  <1>. QED BY <1>4, <1>5, <1>7, <1>8, <1>9 DEF InstanceInv

\* An exit waits for the cancellations, so nothing is left.
LEMMA ExitRecord ==
    ASSUME NEW i \in Instances, Before(i), Exit(i)
    PROVE  InstanceInv(i)'
  <1>0. /\ TypeOK /\ HandlerOf(i) /\ MemoryOf(i) /\ ChildrenOf(i) /\ CancelledOf(i)
    BY BeforeParts
  <1>1. /\ phase[i] = "stopping" /\ phase[i] \in Live /\ pc[i].at = "idle"
        /\ pc[i].next = "idle" /\ pc[i].todo = {} /\ Die(i, "exited")
    BY <1>0, FrameFields DEF Exit, At, HandlerOf
  <1>2. ASSUME NEW j \in Own(i)
        PROVE  proc[j] # "alive" /\ status[j] \notin Active
    <2>1. ~Pending(i, j)
      BY <1>1 DEF Pending
    <2>2. mem[j] = "running" => verdict[j] = None /\ "cancel" \notin doom[j]
      BY DEF Exit, Own
    <2>3. mem[j] \notin Active
      BY <1>0, <1>1, <2>1, <2>2 DEF CancelledOf
    <2>4. mem[j] = "done"
      BY <1>0, <1>1, <2>3 DEF MemoryOf, TypeOK, Own, Active
    <2>. QED BY <1>0, <1>1, <2>4 DEF MemoryOf, ChildrenOf
  <1>. QED BY <1>1, <1>2, DieRecord DEF Dead

LEMMA LapseRecord ==
    ASSUME NEW i \in Instances, Before(i), LeaseLapses(i)
    PROVE  InstanceInv(i)'
  <1>1. pc' = pc /\ JobsKept(i)
    BY NothingMoved DEF LeaseLapses, database
  <1>. QED BY <1>1, BeforeParts, KeptStill

LEMMA OwnRecord ==
    ASSUME ~StoreMayFail, ~CrossCancel, LeaseInv, NoFalseOrphan',
           NEW i \in Instances, Before(i), Moves(i)
    PROVE  InstanceInv(i)'
  <1>1. CASE Request(i)
    BY <1>1, RequestRecord
  <1>2. CASE ChildEvent(i)
    BY <1>2, ChildRecord
  <1>3. CASE Lifecycle(i)
    <2>1. CASE Crash(i)
      BY <2>1, DieRecord DEF Crash, Dead
    <2>. QED BY <1>3, <2>1, BootRecord, RecoveryRecord, LapseRecord, ShutdownRecord, ExitRecord
             DEF Lifecycle
  <1>4. CASE HandlerStep(i)
    <2>1. ~Drop(i) /\ ~CancelForeign(i) /\ ~ReconcileFails(i)
      BY BeforeParts DEF HandlerOf, Drop, CancelForeign, ReconcileFails, At
    <2>2. CASE Create(i)
      BY <2>2, InsertRecord, LookupRecord DEF Create
    <2>3. CASE Pump(i)
      BY <2>3, PumpStopsRecord, PumpTakesRecord
    <2>. QED BY <1>4, <2>1, <2>2, <2>3, PruneRecord, LookupRecord, SpawnRecord, CancelRecord,
                RecoveryRecord, ShutdownNextRecord DEF HandlerStep
  <1>. QED BY <1>1, <1>2, <1>3, <1>4 DEF Moves

-----------------------------------------------------------------------------
(* Every step, and what follows                                            *)

\* A job without a row has no instance and no result.
LEMMA UnusedRows ==
    ASSUME TypeOK, RecordInv, LedgerInv, NEW i \in Instances, Moves(i),
           NEW j \in Jobs, status[j] = "unborn", status'[j] = "unborn"
    PROVE  home'[j] = None /\ verdict'[j] = None
  <1>. DEFINE Unused == home'[j] = None /\ verdict'[j] = None
  <1>0. home[j] = None /\ verdict[j] = None /\ home[j] # i
    BY ModelValues DEF RecordInv, ModelValues
  <1>1. ASSUME UNCHANGED <<home, verdict>> PROVE Unused
    BY <1>0, <1>1
  <1>2. ASSUME NEW how, Die(i, how) PROVE Unused
    BY <1>0, <1>2 DEF Die
  <1>3. CASE Request(i)
    BY <1>1, <1>3 DEF Request, Start, Read, Cancel, memory, children
  <1>4. CASE ChildEvent(i)
    BY <1>0, <1>4 DEF ChildEvent, TimeoutFires, ChildCloses, Deliver, memory, TypeOK
  <1>5. CASE Lifecycle(i)
    BY <1>1, <1>2, <1>5
       DEF Lifecycle, Boot, Heartbeat, LeaseLapses, Shutdown, Exit, Crash, memory, children
  <1>6. CASE HandlerStep(i)
    <2>1. CASE Prune(i)
      BY <1>1, <1>2, <2>1 DEF Prune, Throw, memory, children
    <2>2. CASE Create(i)
      <3>1. ASSUME NEW k \in Jobs, Insert(i, k) PROVE k # j /\ home' = [home EXCEPT ![k] = i]
        BY <3>1 DEF Insert, TypeOK
      <3>. QED BY <1>0, <1>1, <2>2, <3>1 DEF Create, Refused, memory, children, TypeOK
    <2>3. CASE Pump(i)
      BY <1>1, <2>3 DEF Pump, memory, children
    <2>4. CASE Spawn(i)
      <3>1. home[pc[i].job] = i
        BY <2>4, SpawnIsHome DEF Spawn, At
      <3>2. pc[i].job # j /\ home' = home
        BY <1>0, <2>4, <3>1 DEF Spawn, memory
      <3>. QED BY <1>0, <2>4, <3>2 DEF Spawn, TypeOK
    <2>5. CASE CancelJob(i)
      BY <1>1, <2>5 DEF CancelJob, CancelQueued, CancelRunning, CancelElse, memory, children
    <2>6. CASE Refresh(i) \/ ReconcileFails(i)
      BY SMTT(30), <1>1, <1>2, <2>6 DEF Refresh, ReconcileFails, Throw, memory, children
    <2>7. CASE \/ Lookup(i) \/ Verify(i) \/ ReportCorrupt(i) \/ Drop(i) \/ CancelForeign(i)
               \/ Scan(i) \/ Reconcile(i) \/ ShutdownNext(i)
      BY <1>1, <2>7
         DEF Lookup, Verify, ReportCorrupt, Drop, CancelForeign, Scan, Reconcile, ShutdownNext,
             memory, children
    <2>. QED BY <1>6, <2>1, <2>2, <2>3, <2>4, <2>5, <2>6, <2>7 DEF HandlerStep
  <1>. QED BY <1>3, <1>4, <1>5, <1>6 DEF Moves

LEMMA RecordStep ==
    ASSUME ~StoreMayFail, ~CrossCancel, LedgerInv, LeaseInv, RecordInv,
           TypeOK', NoFalseOrphan', [Next]_vars
    PROVE  RecordInv'
  <1>0. TypeOK
    BY DEF LedgerInv
  <1>1. ASSUME \A i \in Instances : JobsKept(i) /\ pc'[i] = pc[i],
               UNCHANGED <<status, home, verdict>>
        PROVE  RecordInv'
    <2>1. \A i \in Instances : InstanceInv(i)'
      BY <1>0, <1>1, KeptStill DEF RecordInv
    <2>. QED BY <1>1, <2>1 DEF RecordInv
  <1>2. CASE UNCHANGED vars
    <2>1. \A i \in Instances : JobsKept(i) /\ pc'[i] = pc[i]
      BY <1>2, NothingMoved DEF vars, database
    <2>. QED BY <1>1, <1>2, <2>1 DEF vars, database, memory, children
  <1>3. ASSUME NEW j \in Jobs, ChildDies(j) PROVE RecordInv'
    <2>1. \A i \in Instances : JobsKept(i) /\ pc'[i] = pc[i]
      BY <1>0, <1>3 DEF ChildDies, JobsKept, Own, TypeOK, database, memory
    <2>. QED BY <1>1, <1>3, <2>1 DEF ChildDies, database, memory
  <1>4. ASSUME NEW i \in Instances, Moves(i) PROVE RecordInv'
    <2>1. ASSUME NEW o \in Instances \ {i} PROVE InstanceInv(o)'
      <3>1. JobsKept(o) /\ pc'[o] = pc[o]
        BY <1>0, <1>4, OthersJobs, OthersStay
      <3>. QED BY <1>0, <3>1, KeptStill DEF RecordInv
    <2>2. InstanceInv(i)'
      BY <1>4, OwnRecord DEF Before
    <2>3. ASSUME NEW j \in Jobs, status'[j] = "unborn"
          PROVE  home'[j] = None /\ verdict'[j] = None
      <3>1. Ledger!Next \/ UNCHANGED Ledger!ledgerVars
        BY LedgerStep
      <3>2. status[j] = "unborn"
        BY <1>0, <2>3, <3>1, StatusKinds
           DEF Ledger!Next, Ledger!Submit, Ledger!Begin, Ledger!Launch, Ledger!End,
               Ledger!Prune, Ledger!ledgerVars, Ledger!Terminal, Ledger!Results, TypeOK
      <3>. QED BY <1>0, <1>4, <2>3, <3>2, UnusedRows
    <2>. QED BY <2>1, <2>2, <2>3 DEF RecordInv
  <1>. QED BY <1>2, <1>3, <1>4 DEF Next, Moves

LEMMA RecordInit == ASSUME Init PROVE RecordInv
  <1>1. \A i \in Instances : Own(i) = {} /\ Running(i) = {} /\ queue[i] = <<>> /\ pc[i] = Idle
    BY ModelValues DEF Init, Own, Running, ModelValues
  <1>2. Len(<<>>) = 0
    BY EmptySeq
  <1>3. ASSUME NEW i \in Instances PROVE InstanceInv(i)
    <2>1. HandlerOf(i)
      BY <1>1, IdleIs DEF HandlerOf
    <2>2. MemoryOf(i) /\ ChildrenOf(i) /\ CancelledOf(i) /\ ExitOf(i)
      BY <1>1 DEF MemoryOf, ChildrenOf, CancelledOf, ExitOf
    <2>3. QueueOf(i)
      <3>1. \A n \in 1..Len(queue[i]) : FALSE
        BY <1>1, <1>2, SMT
      <3>2. \A j \in Jobs : home[j] # i
        BY ModelValues DEF Init, ModelValues
      <3>. QED BY <3>1, <3>2 DEF QueueOf, Contains
    <2>4. SlotsOf(i)
      <3>1. ~(0 > MaxQueued) /\ 0 <= MaxConcurrent
        BY Limits, SMT DEF Limits
      <3>. QED BY <1>1, <1>2, <3>1, FS_EmptySet DEF SlotsOf
    <2>. QED BY <2>1, <2>2, <2>3, <2>4 DEF InstanceInv
  <1>. QED BY <1>3 DEF RecordInv, Init

\* What the three theorems that follow rest on.
JobsInv == LedgerInv /\ LeaseInv /\ RecordInv

LEMMA JobsAlways ==
    ASSUME ~LeaseMayLapse, ~RenewalRaces, ~StoreMayFail, ~CrossCancel
    PROVE  Spec => []JobsInv
  <1>1. Init => JobsInv
    BY LedgerInit, LeaseInit, RecordInit DEF JobsInv
  <1>2. JobsInv /\ [Next]_vars => JobsInv'
    <2>. SUFFICES ASSUME JobsInv, [Next]_vars PROVE JobsInv'
      OBVIOUS
    <2>1. LedgerInv' /\ LeaseInv'
      BY LedgerStep, LeaseStep DEF JobsInv
    <2>2. RecordInv'
      BY <2>1, RecordStep DEF JobsInv, LeaseInv
    <2>. QED BY <2>1, <2>2 DEF JobsInv
  <1>. QED BY <1>1, <1>2, PTL DEF Spec

\* With a store that works, leases that are kept and clients that cancel where
\* they started: between two handlers of an instance its Map, its queue and the
\* rows of its jobs say the same, whatever the other instances do.
THEOREM MemoryAndRecordAgree ==
    ASSUME ~LeaseMayLapse, ~RenewalRaces, ~StoreMayFail, ~CrossCancel
    PROVE  Spec => []MemoryAgreesWithRecord
  <1>1. JobsInv => MemoryAgreesWithRecord
    <2>. SUFFICES ASSUME JobsInv, NEW j \in Jobs, home[j] \in Instances, At(home[j], "idle")
                  PROVE  /\ mem[j] \in Active => status[j] = mem[j] /\ j \in held
                         /\ mem[j] = "done" => status[j] \notin Active
                         /\ mem[j] = "queued" <=> Contains(queue[home[j]], j)
                         /\ mem[j] = "running" => proc[j] # "none" \/ verdict[j] # None
      BY DEF MemoryAgreesWithRecord
    <2>1. InstanceInv(home[j]) /\ j \in Own(home[j]) /\ pc[home[j]].at = "idle"
      BY DEF JobsInv, RecordInv, Own, At
    <2>. QED BY <2>1 DEF InstanceInv, MemoryOf, QueueOf, ChildrenOf
  <1>. QED BY <1>1, JobsAlways, PTL

\* Under the same conditions no instance runs more children than configured,
\* none keeps more jobs waiting than configured, and none leaves a job waiting
\* beside a free slot.
THEOREM QueueAndSlots ==
    ASSUME ~LeaseMayLapse, ~RenewalRaces, ~StoreMayFail, ~CrossCancel
    PROVE  Spec => []QueueDiscipline
  <1>1. JobsInv => QueueDiscipline
    <2>. SUFFICES ASSUME JobsInv, NEW i \in Instances, phase[i] \in Live
                  PROVE  /\ Cardinality({j \in Jobs : home[j] = i /\ proc[j] = "alive"})
                               <= MaxConcurrent
                         /\ At(i, "idle") => Len(queue[i]) <= MaxQueued
                         /\ phase[i] = "up" /\ At(i, "idle") /\ queue[i] # <<>> =>
                               Cardinality(Running(i)) >= MaxConcurrent
      BY DEF QueueDiscipline
    <2>. DEFINE alive == {j \in Jobs : home[j] = i /\ proc[j] = "alive"}
    <2>0. TypeOK /\ MemoryOf(i) /\ ChildrenOf(i) /\ SlotsOf(i)
      BY DEF JobsInv, LedgerInv, RecordInv, InstanceInv
    <2>1. /\ IsFiniteSet(Running(i)) /\ Cardinality(Running(i)) \in Nat
          /\ Cardinality(Running(i)) <= MaxConcurrent
          /\ Len(queue[i]) \in Nat /\ MaxConcurrent \in Nat /\ MaxQueued \in Nat
      BY <2>0, FS_CardinalityType, LenProperties, Limits DEF SlotsOf, TypeOK, Limits
    <2>2. alive \subseteq Running(i)
      BY <2>0 DEF MemoryOf, ChildrenOf, Running, Own, Active
    <2>3. Cardinality(alive) <= MaxConcurrent
      <3>1. Cardinality(alive) <= Cardinality(Running(i)) /\ Cardinality(alive) \in Nat
        <4>. HIDE DEF alive
        <4>. QED BY <2>1, <2>2, FS_Subset, FS_CardinalityType
      <3>. HIDE DEF alive
      <3>. QED BY <2>1, <3>1, SMT
    <2>4. At(i, "idle") => pc[i].at = "idle" /\ pc[i].next = "idle"
      BY <2>0, FrameFields DEF At
    <2>5. At(i, "idle") => ~(Len(queue[i]) > MaxQueued)
      BY <2>0, <2>4 DEF SlotsOf
    <2>6. phase[i] = "up" /\ At(i, "idle") /\ queue[i] # <<>> =>
             ~(Cardinality(Running(i)) < MaxConcurrent)
      BY <2>0, <2>4 DEF SlotsOf, Pumping
    <2>. QED BY <2>1, <2>3, <2>5, <2>6, SMT
  <1>. QED BY <1>1, JobsAlways, PTL

\* Under the same conditions a controlled exit leaves no child running and no
\* active row behind.
THEOREM CleanExits ==
    ASSUME ~LeaseMayLapse, ~RenewalRaces, ~StoreMayFail, ~CrossCancel
    PROVE  Spec => []CleanExitLeavesNothing
  <1>1. JobsInv => CleanExitLeavesNothing
    BY DEF JobsInv, RecordInv, InstanceInv, ExitOf, Own, CleanExitLeavesNothing
  <1>. QED BY <1>1, JobsAlways, PTL
=============================================================================
