------------------------------ MODULE ChildRun ------------------------------
(***************************************************************************)
(* What one run of a child process promises to the job that waits for it:  *)
(* the operating system creates a process or does not, somebody may ask    *)
(* for its end, it ends, and only then is there a verdict, which names the *)
(* strongest reason given before.  The one exception is a child that the   *)
(* system refuses to kill: it is given up alive.  ProcessJobs builds on    *)
(* the other steps; ProcessExecution implements all of them.               *)
(***************************************************************************)
CONSTANT None

VARIABLES proc,     \* none, alive, dead
          asked,    \* who asked for the end: "timeout", "cancel"
          tried,    \* it was asked for, also because output was not stored
          verdict   \* None, exited, timeout, cancelled, spawn_error

runVars == <<proc, asked, tried, verdict>>

Init == proc = "none" /\ asked = {} /\ tried = FALSE /\ verdict = None

Start ==
    /\ proc = "none" /\ verdict = None
    /\ proc' = "alive"
    /\ UNCHANGED <<asked, tried, verdict>>

\* The executable is not there, or the system refuses to run it.
StartFails ==
    /\ proc = "none" /\ verdict = None
    /\ verdict' = "spawn_error"
    /\ UNCHANGED <<proc, asked, tried>>

Ask ==
    /\ verdict = None
    /\ tried' = TRUE
    /\ \E reasons \in SUBSET {"timeout", "cancel"} : asked' = asked \cup reasons
    /\ UNCHANGED <<proc, verdict>>

End ==
    /\ proc = "alive"
    /\ proc' = "dead"
    /\ UNCHANGED <<asked, tried, verdict>>

Decide ==
    /\ proc = "dead" /\ verdict = None
    /\ verdict' = IF "timeout" \in asked THEN "timeout"
                  ELSE IF "cancel" \in asked THEN "cancelled" ELSE "exited"
    /\ UNCHANGED <<proc, asked, tried>>

GiveUp ==
    /\ proc = "alive" /\ tried /\ verdict = None
    /\ verdict' = "spawn_error"
    /\ UNCHANGED <<proc, asked, tried>>

Next == Start \/ StartFails \/ Ask \/ End \/ Decide \/ GiveUp

Spec == Init /\ [][Next]_runVars
=============================================================================
