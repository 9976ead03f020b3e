----------------------------- MODULE JobLedger -----------------------------
(***************************************************************************)
(* What the process runner promises of a job, whatever the server          *)
(* instances behind it do: a job is recorded before it runs, its process   *)
(* is created at most once and only after the record says "running", its   *)
(* record takes one terminal status and keeps it until retention deletes   *)
(* it, and a job that ended in the queue never runs.                       *)
(*                                                                         *)
(* ProcessJobs implements this specification (ProcessJobs!ImplementsLedger)*)
(***************************************************************************)
CONSTANT Jobs

VARIABLES
    status,    \* status[j]: what the durable record of j says
    started,   \* the jobs whose record has said "running"
    launched   \* the jobs an operating-system process was created for

ledgerVars == <<status, started, launched>>

Active == {"queued", "running"}

\* How a process can end; "exited" stands for both "ok" and "nonzero_exit".
Results == {"exited", "timeout", "spawn_error", "cancelled"}

Terminal == Results \cup {"interrupted"}

\* "unborn" and "pruned": no row of process_jobs holds the job.
Statuses == Active \cup Terminal \cup {"unborn", "pruned"}

\* A job that leaves the queue without running has no exit status to report.
EndsFromQueue == {"cancelled", "interrupted", "spawn_error"}

Init ==
    /\ status = [j \in Jobs |-> "unborn"]
    /\ started = {}
    /\ launched = {}

Submit(j) ==
    /\ status[j] = "unborn"
    /\ status' = [status EXCEPT ![j] = "queued"]
    /\ UNCHANGED <<started, launched>>

Begin(j) ==
    /\ status[j] = "queued"
    /\ status' = [status EXCEPT ![j] = "running"]
    /\ started' = started \cup {j}
    /\ UNCHANGED launched

\* The record may already be terminal here: another instance can declare the
\* job interrupted between the two steps of a launch.
Launch(j) ==
    /\ j \in started \ launched
    /\ launched' = launched \cup {j}
    /\ UNCHANGED <<status, started>>

End(j, s) ==
    /\ \/ status[j] = "running" /\ s \in Terminal
       \/ status[j] = "queued" /\ s \in EndsFromQueue
    /\ status' = [status EXCEPT ![j] = s]
    /\ UNCHANGED <<started, launched>>

Prune(D) ==
    /\ D # {}
    /\ \A j \in D : status[j] \in Terminal
    /\ status' = [j \in Jobs |-> IF j \in D THEN "pruned" ELSE status[j]]
    /\ UNCHANGED <<started, launched>>

Next ==
    \/ \E j \in Jobs : Submit(j) \/ Begin(j) \/ Launch(j)
    \/ \E j \in Jobs, s \in Terminal : End(j, s)
    \/ \E D \in SUBSET Jobs : Prune(D)

Spec == Init /\ [][Next]_ledgerVars
=============================================================================
