---------------------------- MODULE ProcessJobs ----------------------------
(***************************************************************************)
(* Process jobs of LocalNodeMCP: src/src/util/process_job_manager.js over  *)
(* src/src/util/process_job_store.js, as several server instances see it   *)
(* that share one SQLite file.                                             *)
(*                                                                         *)
(* An instance is one Node process.  Its handlers are synchronous, so no   *)
(* handler of the same instance runs inside another (pc[i] must be "idle"  *)
(* before one starts), but every SQLite transaction is a step of its own   *)
(* and the other instances, the operating system and a crash may come      *)
(* between two of them.                                                    *)
(*                                                                         *)
(* A definition with a suffix, such as PumpStops_IgnoresShutdown, is a      *)
(* deliberately wrong variant of the definition after it.  No action uses  *)
(* it: it is put in place of the right one to see a property fail.         *)
(***************************************************************************)
EXTENDS Naturals, Sequences, SequencesExt, FiniteSets

CONSTANTS
    Instances,      \* server starts: a restarted server is a new instance
    Jobs,           \* job identifiers (randomUUID, never reused)
    Keys,           \* (owner, hashed idempotency key) pairs
    None,
    MaxConcurrent,  \* config.maxConcurrent
    MaxQueued,      \* config.maxQueued
    MaxRetained,    \* config.maxRetained
    Overlap,        \* an instance may start while another one is serving
    LeaseMayLapse,  \* a live instance may miss its heartbeats for a whole TTL
    RenewalRaces,   \* a lease may be renewed while another instance scans
    StoreMayFail,   \* a transaction may throw (locked, disk full, I/O error)
    CrossCancel     \* clients may cancel through an instance without the job

ASSUME ModelValues == None \notin Jobs \cup Keys \cup Instances
ASSUME Limits ==
    /\ MaxConcurrent \in Nat \ {0}
    /\ MaxQueued \in Nat
    /\ MaxRetained \in Nat \ {0}
ASSUME Switches ==
    {Overlap, LeaseMayLapse, RenewalRaces, StoreMayFail, CrossCancel} \subseteq BOOLEAN

VARIABLES
    \* the database
    status,    \* status column of process_jobs; "unborn", "pruned": no row
    started,   \* jobs whose started_at_ms was ever set
    ended,     \* rows with a terminal status, in the order of finished_at_ms
    keyOf,     \* the key a job was created under, or None
    mapping,   \* process_job_idempotency: the job a key stands for, or None
    fresh,     \* process_job_instances has a row of i younger than the TTL
    newer,     \* whose lease was renewed since i read the clock to scan
    \* the instances
    phase,     \* down, up, stopping (shuttingDown), exited, killed
    home,      \* the instance that created the job
    mem,       \* status of the job object in its instance's memory
    held,      \* jobs still in their instance's jobs Map
    queue,     \* the instance's queue array
    pc,        \* where the handler that is running in i has got to
    \* the operating system
    proc,      \* the child process: none, alive, dead
    doom,      \* what asked for its termination: timedOut, cancelReason
    verdict    \* the result its completion promise carries, or None

database == <<status, started, ended, keyOf, mapping>>
leases == <<fresh, newer>>
memory == <<home, mem, held, queue>>
children == <<proc, doom, verdict>>
vars == <<database, leases, phase, memory, pc, children>>

Active == {"queued", "running"}
Results == {"exited", "timeout", "spawn_error", "cancelled"}

\* A missing verdict is not taken for a result.
ASSUME NoVerdict == None \notin Results

Terminal == Results \cup {"interrupted"}
Statuses == Active \cup Terminal \cup {"unborn", "pruned"}

Live == {"up", "stopping"}
Dead == {"exited", "killed"}

Stages == {"idle", "prune", "lookup", "verify", "corrupt", "insert", "pump",
           "spawn", "drop", "cancel", "foreign", "shutdown",
           "refresh", "scan", "reconcile"}

\* at: the next step; next: where prune() returns to; job, key: its arguments;
\* todo: rows still to reconcile, or jobs still to cancel at shutdown;
\* fatal: an exception now reaches no catch and ends the process.
Idle == [at |-> "idle", next |-> "idle", job |-> None, key |-> None,
         todo |-> {}, fatal |-> FALSE]

\* What runs after prune() in one of its callers.
Callers == {"idle", "lookup", "insert", "cancel", "pump"}

Fields == [at : Stages, next : Callers, job : Jobs \cup {None},
           key : Keys \cup {None}, todo : SUBSET Jobs, fatal : BOOLEAN]

\* A step on a job knows which, a lookup has a key, and only prune() has a next.
OnJob == {"verify", "spawn", "drop", "cancel", "foreign"}
Frames == {f \in Fields :
             /\ f.at \in OnJob \/ f.next \in OnJob => f.job \in Jobs
             /\ f.at = "lookup" \/ f.next = "lookup" => f.key \in Keys
             /\ f.at # "prune" => f.next = "idle"}

TypeOK ==
    /\ status \in [Jobs -> Statuses]
    /\ started \in SUBSET Jobs
    /\ ended \in Seq(Jobs)
    /\ keyOf \in [Jobs -> Keys \cup {None}]
    /\ mapping \in [Keys -> Jobs \cup {None}]
    /\ fresh \in [Instances -> BOOLEAN]
    /\ newer \in [Instances -> SUBSET Instances]
    /\ phase \in [Instances -> {"down"} \cup Live \cup Dead]
    /\ home \in [Jobs -> Instances \cup {None}]
    /\ mem \in [Jobs -> {"absent", "queued", "running", "done"}]
    /\ held \in SUBSET Jobs
    /\ queue \in [Instances -> Seq(Jobs)]
    /\ pc \in [Instances -> Frames]
    /\ proc \in [Jobs -> {"none", "alive", "dead"}]
    /\ doom \in [Jobs -> SUBSET {"timeout", "cancel"}]
    /\ verdict \in [Jobs -> Results \cup {None}]

Init ==
    /\ status = [j \in Jobs |-> "unborn"]
    /\ started = {}
    /\ ended = <<>>
    /\ keyOf = [j \in Jobs |-> None]
    /\ mapping = [k \in Keys |-> None]
    /\ fresh = [i \in Instances |-> FALSE]
    /\ newer = [i \in Instances |-> {}]
    /\ phase = [i \in Instances |-> "down"]
    /\ home = [j \in Jobs |-> None]
    /\ mem = [j \in Jobs |-> "absent"]
    /\ held = {}
    /\ queue = [i \in Instances |-> <<>>]
    /\ pc = [i \in Instances |-> Idle]
    /\ proc = [j \in Jobs |-> "none"]
    /\ doom = [j \in Jobs |-> {}]
    /\ verdict = [j \in Jobs |-> None]

-----------------------------------------------------------------------------
(* Helpers                                                                 *)

At(i, stage) == phase[i] \in Live /\ pc[i].at = stage

Goto(i, frame) == pc' = [pc EXCEPT ![i] = frame]

\* The handler is over; a shutdown goes on to the next job it must cancel.
Return(i) ==
    Goto(i, IF pc[i].todo = {} THEN Idle
            ELSE [Idle EXCEPT !.at = "shutdown", !.todo = pc[i].todo])

\* prune(), then the step named next, in the same handler.
Pruning(i, next) == [pc[i] EXCEPT !.at = "prune", !.next = next]

Running(i) == {j \in held : home[j] = i /\ mem[j] = "running"}

\* Some other instance keeps serving: the bound on crashes and restarts.
SomeoneStays(i) == \E o \in Instances \ {i} : phase[o] \in {"down", "up"}

\* UPDATE process_jobs SET status=s in a transaction that saw an active row.
EndRow(j, s) ==
    /\ status' = [status EXCEPT ![j] = s]
    /\ ended' = Append(ended, j)

FinishRow_NoRecheck(j, s) ==
    /\ status[j] # "pruned"
    /\ EndRow(j, s)
    /\ UNCHANGED <<started, keyOf, mapping>>

\* store.finish: a row that is already terminal stays as it is; a row that is
\* gone makes it throw (FinishThrows).
FinishRow(j, s) ==
    /\ status[j] # "pruned"
    /\ IF status[j] \in Active THEN EndRow(j, s) ELSE UNCHANGED <<status, ended>>
    /\ UNCHANGED <<started, keyOf, mapping>>

FinishThrows(j) ==
    /\ status[j] = "pruned" \/ StoreMayFail
    /\ UNCHANGED database

\* The process ends: its memory is gone, its children and its rows stay.
Die(i, how) ==
    /\ phase' = [phase EXCEPT ![i] = how]
    /\ mem' = [j \in Jobs |-> IF home[j] = i THEN "absent" ELSE mem[j]]
    /\ held' = {j \in held : home[j] # i}
    /\ queue' = [queue EXCEPT ![i] = <<>>]
    /\ verdict' = [j \in Jobs |-> IF home[j] = i THEN None ELSE verdict[j]]
    /\ doom' = [j \in Jobs |-> IF home[j] = i THEN {} ELSE doom[j]]
    /\ Goto(i, Idle)
    /\ UNCHANGED <<database, leases, home, proc>>

\* A transaction throws and nothing in this handler catches it: the request
\* fails, but a promise callback takes the whole process down.
Throw(i) ==
    \/ /\ ~pc[i].fatal
       /\ Return(i)
       /\ UNCHANGED <<database, leases, phase, memory, children>>
    \/ /\ pc[i].fatal
       /\ SomeoneStays(i)
       /\ Die(i, "killed")

-----------------------------------------------------------------------------
(* Requests of clients                                                     *)

\* start(): refused while shutting down; prune() first, then, with a key, the
\* idempotency lookup.
Start(i, k) ==
    /\ phase[i] = "up" /\ At(i, "idle")
    /\ Goto(i, [Pruning(i, IF k = None THEN "insert" ELSE "lookup") EXCEPT !.key = k])
    /\ UNCHANGED <<database, leases, phase, memory, children>>

\* status(), list(), output(), snapshot(): the state they change is prune()'s.
Read(i) ==
    /\ At(i, "idle")
    /\ Goto(i, Pruning(i, "idle"))
    /\ UNCHANGED <<database, leases, phase, memory, children>>

\* cancel() of a job the client has the id of; getJob() prunes first.
Cancel(i, j) ==
    /\ At(i, "idle")
    /\ status[j] # "unborn"
    /\ home[j] = i \/ CrossCancel
    /\ Goto(i, [Pruning(i, "cancel") EXCEPT !.job = j])
    /\ UNCHANGED <<database, leases, phase, memory, children>>

-----------------------------------------------------------------------------
(* Steps of a handler                                                      *)

\* store.prune: terminal rows past the retention time or the retention limit
\* go, oldest first, and their idempotency mapping with them (ON DELETE
\* CASCADE); the manager forgets the ones it held, whatever their state.
PruneOldest(i, n) ==
    LET D == ToSet(SubSeq(ended, 1, n)) IN
    /\ ended' = SubSeq(ended, n + 1, Len(ended))
    /\ status' = [j \in Jobs |-> IF j \in D THEN "pruned" ELSE status[j]]
    /\ mapping' = [k \in Keys |-> IF mapping[k] \in D THEN None ELSE mapping[k]]
    /\ held' = {j \in held : ~(j \in D /\ home[j] = i)}
    /\ UNCHANGED <<started, keyOf>>

Prune(i) ==
    /\ At(i, "prune")
    /\ \/ /\ \E n \in 0..Len(ended) :
               /\ Len(ended) - n <= MaxRetained
               /\ PruneOldest(i, n)
          /\ IF pc[i].next = "idle" THEN Return(i)
             ELSE Goto(i, [pc[i] EXCEPT !.at = pc[i].next, !.next = "idle"])
          /\ UNCHANGED <<leases, phase, home, mem, queue, children>>
       \/ StoreMayFail /\ Throw(i)

\* lookupIdempotent, first query: the mapping.  A key that is known with other
\* arguments throws process_idempotency_conflict, which changes nothing either.
Lookup(i) ==
    /\ At(i, "lookup")
    /\ LET known == mapping[pc[i].key] IN
       Goto(i, IF known = None THEN [pc[i] EXCEPT !.at = "insert"]
               ELSE [pc[i] EXCEPT !.at = "verify", !.job = known])
    /\ UNCHANGED <<database, leases, phase, memory, children>>

\* lookupIdempotent, second query: the job the mapping named, reused; a job
\* that is not there is taken for a corrupt store.
Verify(i) ==
    /\ At(i, "verify")
    /\ Goto(i, IF status[pc[i].job] = "pruned" THEN [Idle EXCEPT !.at = "corrupt"]
               ELSE Idle)
    /\ UNCHANGED <<database, leases, phase, memory, children>>

\* The request ends with process_job_store_corrupt.
ReportCorrupt(i) ==
    /\ At(i, "corrupt")
    /\ Return(i)
    /\ UNCHANGED <<database, leases, phase, memory, children>>

QueueIsFull(i) ==
    Cardinality(Running(i)) >= MaxConcurrent /\ Len(queue[i]) >= MaxQueued

KeyTaken_NotLookedUpAgain(i) == FALSE

KeyTaken(i) == pc[i].key # None /\ mapping[pc[i].key] # None

\* The admission check, then create or createIdempotent (which looks the key up
\* again in its transaction), jobs.set and queue.push.
Insert(i, j) ==
    /\ ~QueueIsFull(i) /\ ~KeyTaken(i)
    /\ status[j] = "unborn"
    /\ status' = [status EXCEPT ![j] = "queued"]
    /\ keyOf' = [keyOf EXCEPT ![j] = pc[i].key]
    /\ mapping' = IF pc[i].key = None THEN mapping
                  ELSE [mapping EXCEPT ![pc[i].key] = j]
    /\ home' = [home EXCEPT ![j] = i]
    /\ mem' = [mem EXCEPT ![j] = "queued"]
    /\ held' = held \cup {j}
    /\ queue' = [queue EXCEPT ![i] = Append(queue[i], j)]
    /\ Goto(i, [Idle EXCEPT !.at = "pump"])
    /\ UNCHANGED <<started, ended>>

\* process_job_queue_full, the key's job found in the transaction, or a
\* transaction that throws.
Refused(i) ==
    /\ \/ QueueIsFull(i)
       \/ KeyTaken(i)
       \/ StoreMayFail
       \/ \A j \in Jobs : status[j] # "unborn"    \* the bound on submissions
    /\ Goto(i, Idle)
    /\ UNCHANGED <<database, memory>>

Create(i) ==
    /\ At(i, "insert")
    /\ (\E j \in Jobs : Insert(i, j)) \/ Refused(i)
    /\ UNCHANGED <<leases, phase, children>>

PumpStops_IgnoresShutdown(i) ==
    queue[i] = <<>> \/ Cardinality(Running(i)) >= MaxConcurrent

PumpStops(i) ==
    \/ phase[i] = "stopping"
    \/ queue[i] = <<>>
    \/ Cardinality(Running(i)) >= MaxConcurrent

\* launch(): the job object and, in one transaction, its row are running.
MarkRunning(i, j) ==
    /\ status[j] = "queued"
    /\ mem' = [mem EXCEPT ![j] = "running"]
    /\ status' = [status EXCEPT ![j] = "running"]
    /\ started' = started \cup {j}
    /\ Goto(i, [pc[i] EXCEPT !.at = "spawn", !.job = j])

LaunchFails_Ignored(i, j) ==
    /\ status[j] # "queued" \/ StoreMayFail
    /\ mem' = [mem EXCEPT ![j] = "running"]
    /\ Goto(i, [pc[i] EXCEPT !.at = "spawn", !.job = j])
    /\ UNCHANGED <<status, started>>

\* markRunning throws, because the row is no longer queued or the store fails:
\* finishJob("spawn_error") follows.
LaunchFails(i, j) ==
    /\ status[j] # "queued" \/ StoreMayFail
    /\ mem' = [mem EXCEPT ![j] = "done"]
    /\ Goto(i, [pc[i] EXCEPT !.at = "drop", !.job = j])
    /\ UNCHANGED <<status, started>>

\* One turn of pump()'s loop.  A job that left the Map or is not queued any
\* more is skipped.
Pump(i) ==
    /\ At(i, "pump")
    /\ IF PumpStops(i) THEN Return(i) /\ UNCHANGED <<database, memory>>
       ELSE LET j == Head(queue[i]) IN
            /\ queue' = [queue EXCEPT ![i] = Tail(queue[i])]
            /\ IF j \in held /\ mem[j] = "queued"
               THEN MarkRunning(i, j) \/ LaunchFails(i, j)
               ELSE UNCHANGED <<status, started, mem, pc>>
            /\ UNCHANGED <<home, held, ended, keyOf, mapping>>
    /\ UNCHANGED <<leases, phase, children>>

Spawn_UnknownStatus(i) ==
    /\ At(i, "spawn")
    /\ verdict' = [verdict EXCEPT ![pc[i].job] = "failed"]
    /\ Goto(i, [pc[i] EXCEPT !.at = "pump", !.job = None])
    /\ UNCHANGED <<database, leases, phase, memory, doom, proc>>

\* startExecution: a child process, or an error that its completion promise
\* will deliver as spawn_error.
Spawn(i) ==
    /\ At(i, "spawn")
    /\ LET j == pc[i].job IN
       \/ /\ proc' = [proc EXCEPT ![j] = "alive"]
          /\ UNCHANGED verdict
       \/ /\ verdict' = [verdict EXCEPT ![j] = "spawn_error"]
          /\ UNCHANGED proc
    /\ Goto(i, [pc[i] EXCEPT !.at = "pump", !.job = None])
    /\ UNCHANGED <<database, leases, phase, memory, doom>>

\* finishJob(job, spawn_error) of a launch that failed; a store.finish that
\* throws is caught and only audited.
Drop(i) ==
    /\ At(i, "drop")
    /\ FinishRow(pc[i].job, "spawn_error") \/ FinishThrows(pc[i].job)
    /\ Goto(i, [Pruning(i, "pump") EXCEPT !.job = None])
    /\ UNCHANGED <<leases, phase, memory, children>>

\* queue.indexOf and queue.splice.
Without(q, j) ==
    IF \E n \in DOMAIN q : q[n] = j
    THEN RemoveAt(q, CHOOSE n \in DOMAIN q : q[n] = j)
    ELSE q

CancelQueued_InMemoryOnly(i, j) ==
    /\ j \in held /\ home[j] = i /\ mem[j] = "queued"
    /\ mem' = [mem EXCEPT ![j] = "done"]
    /\ queue' = [queue EXCEPT ![i] = Without(queue[i], j)]
    /\ Goto(i, [Pruning(i, "pump") EXCEPT !.job = None])
    /\ UNCHANGED <<database, home, held, children>>

\* cancel() once getJob has pruned.  A queued job of this instance leaves the
\* queue and its row is finished in the same breath; if that throws, the request
\* fails with the job cancelled in memory only.  A running one is asked to
\* terminate and finishes when its child has.  Without a job object the row
\* decides: a queued row is finished next (CancelForeign), for a running one the
\* handle is null and the request fails.
CancelQueued(i, j) ==
    /\ j \in held /\ home[j] = i /\ mem[j] = "queued"
    /\ mem' = [mem EXCEPT ![j] = "done"]
    /\ queue' = [queue EXCEPT ![i] = Without(queue[i], j)]
    /\ \/ FinishRow(j, "cancelled") /\ Goto(i, [Pruning(i, "pump") EXCEPT !.job = None])
       \/ FinishThrows(j) /\ Return(i)
    /\ UNCHANGED <<home, held, children>>

CancelRunning(i, j) ==
    /\ j \in held /\ home[j] = i /\ mem[j] = "running"
    /\ doom' = IF verdict[j] = None THEN [doom EXCEPT ![j] = @ \cup {"cancel"}] ELSE doom
    /\ Return(i)
    /\ UNCHANGED <<database, memory, proc, verdict>>

CancelElse(i, j) ==
    /\ ~(j \in held /\ home[j] = i /\ mem[j] \in {"queued", "running"})
    /\ IF status[j] = "queued" /\ ~(j \in held /\ home[j] = i)
       THEN Goto(i, [pc[i] EXCEPT !.at = "foreign"]) ELSE Return(i)
    /\ UNCHANGED <<database, memory, children>>

CancelJob(i) ==
    /\ At(i, "cancel")
    /\ LET j == pc[i].job IN
       CancelQueued(i, j) \/ CancelRunning(i, j) \/ CancelElse(i, j)
    /\ UNCHANGED <<leases, phase>>

\* store.finish(cancelled) for a row that was queued when it was read.
CancelForeign(i) ==
    /\ At(i, "foreign")
    /\ LET j == pc[i].job IN
       \/ FinishRow(j, "cancelled") /\ Goto(i, [Pruning(i, "pump") EXCEPT !.job = None])
       \/ FinishThrows(j) /\ Return(i)
    /\ UNCHANGED <<leases, phase, memory, children>>

-----------------------------------------------------------------------------
(* Child processes                                                         *)

\* The timer of a started child: set timedOut, kill the process tree.
TimeoutFires(i, j) ==
    /\ At(i, "idle") /\ home[j] = i
    /\ proc[j] # "none" /\ verdict[j] = None /\ mem[j] = "running"
    /\ "timeout" \notin doom[j]
    /\ doom' = [doom EXCEPT ![j] = @ \cup {"timeout"}]
    /\ UNCHANGED <<database, leases, phase, memory, pc, proc, verdict>>

\* The operating system's part: the child exits by itself or is killed.
ChildDies(j) ==
    /\ proc[j] = "alive"
    /\ proc' = [proc EXCEPT ![j] = "dead"]
    /\ UNCHANGED <<database, leases, phase, memory, pc, doom, verdict>>

\* The child's close event: the first reason in this order is the verdict.
ChildCloses(i, j) ==
    /\ At(i, "idle") /\ home[j] = i
    /\ proc[j] = "dead" /\ verdict[j] = None /\ mem[j] = "running"
    /\ verdict' = [verdict EXCEPT ![j] =
           IF "timeout" \in doom[j] THEN "timeout"
           ELSE IF "cancel" \in doom[j] THEN "cancelled" ELSE "exited"]
    /\ UNCHANGED <<database, leases, phase, memory, pc, proc, doom>>

Deliver_NoPump(i, j) ==
    /\ At(i, "idle") /\ home[j] = i
    /\ mem[j] = "running" /\ verdict[j] # None
    /\ mem' = [mem EXCEPT ![j] = "done"]
    /\ FinishRow(j, verdict[j]) \/ FinishThrows(j)
    /\ verdict' = [verdict EXCEPT ![j] = None]
    /\ doom' = [doom EXCEPT ![j] = {}]
    /\ Goto(i, [Pruning(i, "idle") EXCEPT !.fatal = TRUE])
    /\ UNCHANGED <<leases, phase, home, held, queue, proc>>

\* handle.completion resolves and finishJob runs: job object, row, then prune()
\* and pump().  The awaiting cancel() finds the job terminal and does nothing.
Deliver(i, j) ==
    /\ At(i, "idle") /\ home[j] = i
    /\ mem[j] = "running" /\ verdict[j] # None
    /\ mem' = [mem EXCEPT ![j] = "done"]
    /\ FinishRow(j, verdict[j]) \/ FinishThrows(j)
    /\ verdict' = [verdict EXCEPT ![j] = None]
    /\ doom' = [doom EXCEPT ![j] = {}]
    /\ Goto(i, [Pruning(i, "pump") EXCEPT !.fatal = TRUE])
    /\ UNCHANGED <<leases, phase, home, held, queue, proc>>

-----------------------------------------------------------------------------
(* Instances: start, lease, recovery, shutdown, crash                      *)

Boot_LeaseAtFirstHeartbeat(i) ==
    /\ phase[i] = "down"
    /\ Overlap \/ \A o \in Instances : phase[o] \notin Live
    /\ phase' = [phase EXCEPT ![i] = "up"]
    /\ Goto(i, [Idle EXCEPT !.at = "scan", !.fatal = TRUE])
    /\ UNCHANGED <<database, leases, memory, children>>

\* createProcessJobManager: first lease refresh, then the first reconciliation;
\* an exception in either ends the start.
Boot(i) ==
    /\ phase[i] = "down"
    /\ Overlap \/ \A o \in Instances : phase[o] \notin Live
    /\ phase' = [phase EXCEPT ![i] = "up"]
    /\ Goto(i, [Idle EXCEPT !.at = "refresh", !.fatal = TRUE])
    /\ UNCHANGED <<database, leases, memory, children>>

\* The heartbeat timer: maintainInstanceLease, which catches what is thrown.
Heartbeat(i) ==
    /\ At(i, "idle")
    /\ Goto(i, [Idle EXCEPT !.at = "refresh"])
    /\ UNCHANGED <<database, leases, phase, memory, children>>

\* refreshInstanceLease.  The instances that are reconciling read the clock
\* before this renewal.
Refresh(i) ==
    /\ At(i, "refresh")
    /\ \/ /\ fresh' = [fresh EXCEPT ![i] = TRUE]
          /\ newer' = [o \in Instances |->
                 IF o = i THEN {}
                 ELSE IF RenewalRaces /\ pc[o].at \in {"scan", "reconcile"}
                      THEN newer[o] \cup {i} ELSE newer[o]]
          /\ Goto(i, [pc[i] EXCEPT !.at = "scan"])
          /\ UNCHANGED <<database, phase, memory, children>>
       \/ StoreMayFail /\ Throw(i)

\* store.reconcileOrphans: the active rows of other instances ...
Scan(i) ==
    /\ At(i, "scan")
    /\ Goto(i, [pc[i] EXCEPT !.at = "reconcile",
                    !.todo = {j \in Jobs : status[j] \in Active /\ home[j] # i}])
    /\ UNCHANGED <<database, leases, phase, memory, children>>

LeaseAnswers_PidOnly(i, h) == IF phase[h] \in Dead THEN BOOLEAN ELSE {TRUE}

\* ... hasLiveInstanceLease.  The process id of a dead instance may belong to
\* another process by now, so a fresh lease alone does not decide.  A lease
\* renewed after the clock was read has a negative age, unless within the same
\* millisecond, and counts as dead too.
LeaseAnswers(i, h) ==
    IF ~fresh[h] THEN {FALSE}
    ELSE IF phase[h] \in Dead \/ h \in newer[i] THEN BOOLEAN ELSE {TRUE}

\* ... each rechecked in a transaction of its own and interrupted.
Reconcile(i) ==
    /\ At(i, "reconcile")
    /\ UNCHANGED memory
    /\ \/ /\ pc[i].todo = {}
          /\ Goto(i, Idle)
          /\ UNCHANGED <<database, leases, phase, children>>
       \/ \E j \in pc[i].todo : \E alive \in LeaseAnswers(i, home[j]) :
             /\ IF status[j] \in Active /\ ~alive
                THEN EndRow(j, "interrupted") ELSE UNCHANGED <<status, ended>>
             /\ Goto(i, [pc[i] EXCEPT !.todo = @ \ {j}])
             /\ UNCHANGED <<started, keyOf, mapping, leases, phase, children>>

ReconcileFails(i) ==
    /\ At(i, "reconcile") /\ StoreMayFail /\ pc[i].todo # {}
    /\ \/ /\ ~pc[i].fatal
          /\ Goto(i, Idle)
          /\ UNCHANGED <<database, leases, phase, memory, children>>
       \/ /\ pc[i].fatal /\ SomeoneStays(i)
          /\ Die(i, "killed")

\* The lease of a dead instance runs out; that of a live one only if its event
\* loop was blocked for the whole TTL, or the clock was set.
LeaseLapses(i) ==
    /\ fresh[i]
    /\ phase[i] \in Dead \/ LeaseMayLapse
    /\ fresh' = [fresh EXCEPT ![i] = FALSE]
    /\ UNCHANGED <<database, newer, phase, memory, pc, children>>

\* shutdown(): no start and no launch from here on; every job in the Map that
\* has not ended is cancelled, one after another.
Shutdown(i) ==
    /\ phase[i] = "up" /\ At(i, "idle")
    /\ SomeoneStays(i)
    /\ phase' = [phase EXCEPT ![i] = "stopping"]
    /\ Goto(i, [Idle EXCEPT !.at = "shutdown",
                    !.todo = {j \in held : home[j] = i /\ mem[j] \in Active}])
    /\ UNCHANGED <<database, leases, memory, children>>

ShutdownNext(i) ==
    /\ At(i, "shutdown")
    /\ IF pc[i].todo = {} THEN Goto(i, Idle)
       ELSE \E j \in pc[i].todo :
              Goto(i, [Pruning(i, "cancel") EXCEPT !.job = j, !.todo = @ \ {j}])
    /\ UNCHANGED <<database, leases, phase, memory, children>>

Exit_WithoutWaiting(i) ==
    /\ phase[i] = "stopping" /\ At(i, "idle")
    /\ Die(i, "exited")

\* Every cancel() of the shutdown has settled: the process ends.  Nothing calls
\* close(), so the lease stays behind.
Exit(i) ==
    /\ phase[i] = "stopping" /\ At(i, "idle")
    /\ \A j \in Jobs : home[j] = i /\ mem[j] = "running" =>
                      verdict[j] = None /\ "cancel" \notin doom[j]
    /\ Die(i, "exited")

\* A crash at any point, or shutdownGraceMs over before the jobs have settled.
Crash(i) ==
    /\ phase[i] = "stopping" \/ (phase[i] = "up" /\ SomeoneStays(i))
    /\ Die(i, "killed")

-----------------------------------------------------------------------------

Request(i) ==
    \/ \E k \in Keys \cup {None} : Start(i, k)
    \/ Read(i)
    \/ \E j \in Jobs : Cancel(i, j)

HandlerStep(i) ==
    \/ Prune(i) \/ Lookup(i) \/ Verify(i) \/ ReportCorrupt(i) \/ Create(i)
    \/ Pump(i) \/ Spawn(i) \/ Drop(i) \/ CancelJob(i) \/ CancelForeign(i)
    \/ Refresh(i) \/ Scan(i) \/ Reconcile(i) \/ ReconcileFails(i)
    \/ ShutdownNext(i)

ChildEvent(i) ==
    \E j \in Jobs : TimeoutFires(i, j) \/ ChildCloses(i, j) \/ Deliver(i, j)

Lifecycle(i) ==
    Boot(i) \/ Heartbeat(i) \/ LeaseLapses(i) \/ Shutdown(i) \/ Exit(i) \/ Crash(i)

Next ==
    \/ \E i \in Instances : Request(i) \/ HandlerStep(i) \/ ChildEvent(i) \/ Lifecycle(i)
    \/ \E j \in Jobs : ChildDies(j)

Spec == Init /\ [][Next]_vars

\* A server that is down is started and a handler that has begun runs on; the
\* lease of a dead instance runs out; callbacks and the heartbeat that are due
\* get their turn on the event loop (SF: requests may come in between); a child
\* that was killed dies.  No request, crash, lapse or early exit is assumed.
Unattended(i) ==
    Boot(i) \/ HandlerStep(i) \/ (phase[i] \in Dead /\ LeaseLapses(i))

Fairness ==
    /\ \A i \in Instances :
          WF_vars(Unattended(i)) /\ SF_vars(ChildEvent(i)) /\ SF_vars(Heartbeat(i))
    /\ WF_vars(\E j \in Jobs : doom[j] # {} /\ ChildDies(j))

FairSpec == Spec /\ Fairness

-----------------------------------------------------------------------------
(* Properties                                                              *)

\* The durable record is a ledger: legal transitions only, one terminal status,
\* one process per job and none for a job that ended in the queue, through
\* every crash, lapse and failed transaction (store.finish and
\* reconcileOrphans recheck the row, markRunning refuses one not queued).
launched == {j \in Jobs : proc[j] # "none"}
Ledger == INSTANCE JobLedger
ImplementsLedger == Ledger!Spec

\* An idempotency key stands for at most one job that is still recorded, and
\* that job is the one it maps to (createIdempotent, prune's cascade).
OneJobPerKey ==
    /\ \A k \in Keys : mapping[k] # None =>
          keyOf[mapping[k]] = k /\ status[mapping[k]] \notin {"unborn", "pruned"}
    /\ \A j \in Jobs : keyOf[j] # None /\ status[j] # "pruned" => mapping[keyOf[j]] = j

\* Recovery interrupts only jobs whose instance has ended: it allows "a genuinely
\* overlapping live instance to keep managing its own job"
\* (process_job_pid_reuse_recovery.md:17; reconcileOrphans,
\* hasLiveInstanceLease).  It needs live instances that keep their heartbeat,
\* and no renewal that overtakes a scan.
NoFalseOrphan ==
    \A j \in Jobs : status[j] = "interrupted" => phase[home[j]] \in Dead

\* Between two handlers of a live instance its memory and the records of the
\* jobs it holds agree: nothing is lost between the Map, the queue and SQLite.
MemoryAgreesWithRecord ==
    \A j \in Jobs : home[j] \in Instances /\ At(home[j], "idle") =>
        /\ mem[j] \in Active => status[j] = mem[j] /\ j \in held
        /\ mem[j] = "done" => status[j] \notin Active
        /\ mem[j] = "queued" <=> Contains(queue[home[j]], j)
        /\ mem[j] = "running" => proc[j] # "none" \/ verdict[j] # None

\* Slots and queue are used as configured: no more children run than allowed, no
\* job is queued beyond the limit, and between two handlers none waits while a slot
\* is free: every way a job can end reaches pump() (runningCount, start).
QueueDiscipline ==
    \A i \in Instances : phase[i] \in Live =>
        /\ Cardinality({j \in Jobs : home[j] = i /\ proc[j] = "alive"}) <= MaxConcurrent
        /\ At(i, "idle") => Len(queue[i]) <= MaxQueued
        /\ phase[i] = "up" /\ At(i, "idle") /\ queue[i] # <<>> =>
              Cardinality(Running(i)) >= MaxConcurrent

\* Once shutdown() has begun no child is created by that instance.
NoLaunchWhileStopping ==
    [][\A j \in Jobs : proc[j] = "none" /\ proc'[j] = "alive" =>
          phase[home[j]] = "up"]_vars

\* A controlled exit whose cancellations settled leaves no child running and no
\* active row of its own behind ("cancels active jobs before exit").
CleanExitLeavesNothing ==
    \A j \in Jobs : home[j] \in Instances /\ phase[home[j]] = "exited" =>
        proc[j] # "alive" /\ status[j] \notin Active

\* Whatever instances come and go, every job reaches a terminal status: by its
\* own end, its timeout, a cancellation or the recovery of another instance.
EveryJobEnds ==
    \A j \in Jobs : status[j] \in Active ~> status[j] \notin Active
=============================================================================
