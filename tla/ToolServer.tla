----------------------------- MODULE ToolServer -----------------------------
(***************************************************************************)
(* The tool calls of a server and its restarts, on one clock.  A restart   *)
(* and a crash empty what the calls keep in memory; the entries of the     *)
(* restart limiter are in a file and stay.  Calls are served until the     *)
(* process ends, also while it shuts down.                                 *)
(***************************************************************************)
EXTENDS ToolCalls, RestartControl

CONSTANTS
    MaxTime,     \* bound: the clock stops there
    MaxEvents    \* bound: two for each handle, three for each trigger and crash

ASSUME TimeAssumption == MaxTime \in Nat /\ MaxEvents \in Nat

vars == <<now, callVars, restartVars>>

Init == now = 0 /\ CallsInit /\ RestartInit

TypeOK == CallsTypeOK /\ RestartTypeOK

\* The bound on what happens in a behaviour.
Bounded == 2 * Len(issued') + 3 * (triggers' + crashes') <= MaxEvents

Calls == CallsNext /\ UNCHANGED <<now, restartVars>> /\ Bounded

Restarts == RestartStep /\ UNCHANGED <<now, callVars>> /\ Bounded

\* The server process ends and the supervisor or the keeper starts the next one.
Ends == (Exit \/ Crash) /\ Forget /\ UNCHANGED now /\ Bounded

Tick ==
    /\ now < MaxTime
    /\ now' = now + 1
    /\ Aged /\ Settled
    /\ UNCHANGED <<handling, entries, since, trigger, closing, file, torn, triggers, crashes>>

Next == Calls \/ Restarts \/ Ends \/ Tick

Spec == Init /\ [][Next]_vars

-----------------------------------------------------------------------------
(* Properties                                                              *)

\* Both limiters are exact.  No client has a tool admitted more often than the limit in
\* any window of time, whatever entries checkAndRecord drops, and a refused caller who
\* waits as long as it was told is admitted, and not sooner.  In no window are more
\* restarts granted than their limit allows, over crashes, a trigger that cannot be
\* deleted and a file that was cut in half.
LimitsExact ==
    /\ \A k \in Keys :
          LET again == RetryAt(entries[k], Window) IN
          /\ Len(passed[k]) <= Limit
          /\ ~Fitting(k) => /\ FitsAt(entries[k], Limit, Window, again)
                            /\ ~FitsAt(entries[k], Limit, Window, again - 1)
    /\ Len(granted) <= RestartMax
=============================================================================
