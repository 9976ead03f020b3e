--------------------------- MODULE RestartControl ---------------------------
(***************************************************************************)
(* Controlled restarts: src/src/runtime/restart_controller.js, its limiter *)
(* over src/src/runtime/rate_limit_state.js (a JSON file) and what starts  *)
(* the server again, src/scripts/server.ps1 and localnode-keeper.ps1.      *)
(*                                                                         *)
(* The server looks for a trigger file, deletes it, asks the limiter and   *)
(* ends with a code that its supervisor answers with a new start; after    *)
(* any other end the keeper starts it again.  The trigger asks for one     *)
(* code: each code has entries of its own.  A file that is not JSON is     *)
(* left alone, one that names another code is only deleted.                *)
(***************************************************************************)
EXTENDS SlidingWindow

CONSTANTS
    RestartMax,     \* restarts in a window
    RestartWindow,  \* the length of the window
    MaxTriggers,    \* bound: trigger files written
    MaxCrashes      \* bound: ends of the server that nobody asked for

ASSUME RestartAssumption ==
    /\ RestartMax \in Nat \ {0} /\ RestartWindow \in Nat \ {0}
    /\ MaxTriggers \in Nat /\ MaxCrashes \in Nat

VARIABLES
    trigger,   \* none, written, stuck (it cannot be deleted)
    closing,   \* no, scheduled, closing (beforeExit runs), closed
    file,      \* the entries in the file of the limiter
    torn,      \* the file is not JSON any more
    granted,   \* the times of the restarts granted in the last window
    triggers,  \* how many trigger files were written
    crashes

restartVars == <<trigger, closing, file, torn, granted, triggers, crashes>>

RestartTypeOK ==
    /\ trigger \in {"none", "written", "stuck"}
    /\ closing \in {"no", "scheduled", "closing", "closed"}
    /\ file \in Seq(Nat) /\ torn \in BOOLEAN /\ granted \in Seq(Nat)
    /\ triggers \in 0..MaxTriggers /\ crashes \in 0..MaxCrashes

RestartInit ==
    /\ trigger = "none" /\ closing = "no"
    /\ file = <<>> /\ torn = FALSE /\ granted = <<>>
    /\ triggers = 0 /\ crashes = 0

\* Someone asks for a restart; the file may be held by another program.
Trigger ==
    /\ trigger = "none" /\ triggers < MaxTriggers
    /\ trigger' \in {"written", "stuck"}
    /\ triggers' = triggers + 1
    /\ UNCHANGED <<closing, file, torn, granted, crashes>>

LetGo ==
    /\ trigger = "stuck"
    /\ trigger' = "written"
    /\ UNCHANGED <<closing, file, torn, granted, triggers, crashes>>

Remaining == IF trigger = "stuck" THEN "stuck" ELSE "none"

\* Half a file is an error for the limiter, which refuses.
Grants_TornIsEmpty == Fits(file, RestartMax, RestartWindow)

Grants == ~torn /\ Fits(file, RestartMax, RestartWindow)

Tear == torn' = TRUE /\ file' = <<>>

\* poll(): the trigger is consumed whatever becomes of the request.
Poll ==
    /\ trigger # "none"
    /\ trigger' = Remaining
    /\ closing = "no" /\ Grants
    /\ file' = Recorded(file, RestartWindow)
    /\ torn' = FALSE
    /\ granted' = Append(granted, now)
    /\ closing' = "scheduled"
    /\ UNCHANGED <<triggers, crashes>>

\* A restart is scheduled already, or the limiter refuses.
PollRefused ==
    /\ trigger # "none"
    /\ trigger' = Remaining
    /\ closing # "no" \/ ~Grants
    /\ UNCHANGED <<closing, file, torn, granted, triggers, crashes>>

\* The entries cannot be written, which refuses the restart.  Where the rename
\* failed and the copy over the file fails too, half a file may be left.
PollUnwritten ==
    /\ trigger # "none"
    /\ trigger' = Remaining
    /\ closing = "no" /\ Grants
    /\ Tear \/ UNCHANGED <<file, torn>>
    /\ UNCHANGED <<closing, granted, triggers, crashes>>

\* exitAfterShutdown(), after the delay: beforeExit starts.
Close ==
    /\ closing = "scheduled"
    /\ closing' = "closing"
    /\ UNCHANGED <<trigger, file, torn, granted, triggers, crashes>>

\* beforeExit ends or fails.
Closed ==
    /\ closing = "closing"
    /\ closing' = "closed"
    /\ UNCHANGED <<trigger, file, torn, granted, triggers, crashes>>

\* The process ends when beforeExit has, or when the grace period is over.
Exit ==
    /\ closing \in {"closing", "closed"}
    /\ closing' = "no"
    /\ UNCHANGED <<trigger, file, torn, granted, triggers, crashes>>

\* A crash, also one in the middle of writing the entries.
Crash ==
    /\ crashes < MaxCrashes
    /\ crashes' = crashes + 1
    /\ closing' = "no"
    /\ \/ UNCHANGED <<file, torn>>
       \/ trigger # "none" /\ closing = "no" /\ Grants /\ Tear
    /\ UNCHANGED <<trigger, granted, triggers>>

\* What has left the window is of no more interest.
Settled == granted' = LiveAt(granted, RestartWindow, now')

RestartStep == Trigger \/ LetGo \/ Poll \/ PollRefused \/ PollUnwritten \/ Close \/ Closed

=============================================================================
