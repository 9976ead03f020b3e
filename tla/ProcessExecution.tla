-------------------------- MODULE ProcessExecution --------------------------
(***************************************************************************)
(* One execution: src/src/util/process_execution.js.  The actions are the  *)
(* tasks of the event loop (stream data, the timer, cancel(), the error    *)
(* and close events, a settled promise) and the steps of the operating     *)
(* system between them.  Text is counted in characters.                    *)
(*                                                                         *)
(* On Windows a termination is a taskkill that runs for a while and finds  *)
(* the tree only through a child that is alive; on POSIX it is a signal to *)
(* the process group, sent at once, which is one of the orders allowed     *)
(* here.                                                                   *)
(***************************************************************************)
EXTENDS Naturals, Sequences, FiniteSets

CONSTANTS
    None,
    OutputLimit,   \* outputLimit, for both streams together
    ReadChars,     \* config.outputReadChars
    MaxWritten,    \* bound: characters a child writes to one stream
    MaxKills,      \* bound: terminations requested
    Platforms,     \* the platforms: windows, posix
    KillMayFail,   \* taskkill may fail, and child.kill() take its place
    KillMayError,  \* both may be refused (EPERM), which makes the child emit "error"
    StoreMayFail   \* onOutput (store.appendOutput) may throw

ASSUME ExecutionLimits ==
    /\ OutputLimit \in Nat /\ MaxWritten \in Nat /\ MaxKills \in Nat
    /\ ReadChars \in Nat \ {0}
ASSUME ExecutionSwitches ==
    /\ Platforms \subseteq {"windows", "posix"}
    /\ {KillMayFail, KillMayError, StoreMayFail} \subseteq BOOLEAN
ASSUME NoneDiffers == None \notin {"store", "kill"}

VARIABLES
    root,      \* the child: none, failed (no process), alive, dead
    others,    \* its descendants: none, alive, holding (our pipes), dead
    exit,      \* how the child ended: zero, nonzero, or None
    closed,    \* the close event was emitted
    platform,  \* where the server runs
    status, terminal, timedOut, cancelReason,
    failure,   \* terminationError: None, store, kill
    error,     \* the error finish() was called with, as a flag
    kills,     \* one entry per requestTermination, the last is treeTermination
    awaited,   \* the termination finish() waits for, 0 for none
    written,   \* per stream: characters received
    pending,   \* per stream: the decoder holds an incomplete character
    out,       \* the text kept and the truncation flags
    reader,    \* per stream: next offset and eof, as the last read returned
    result     \* what completion resolved to, or None

process == <<root, others, exit, closed, platform>>
reasons == <<timedOut, cancelReason>>
ending == <<status, terminal, error, awaited>>
text == <<written, pending, out>>
vars == <<process, reasons, ending, failure, kills, text, reader, result>>

Streams == {"stdout", "stderr"}
Settled == {"true", "false"}

TypeOK ==
    /\ root \in {"none", "failed", "alive", "dead"}
    /\ others \in {"none", "alive", "holding", "dead"}
    /\ platform \in Platforms
    /\ exit \in {None, "zero", "nonzero"}
    /\ {closed, terminal, timedOut, cancelReason, error} \subseteq BOOLEAN
    /\ status \in {"running", "ok", "nonzero_exit", "timeout", "cancelled", "spawn_error"}
    /\ failure \in {None, "store", "kill"}
    /\ kills \in Seq({"running", "landed"} \cup Settled)
    /\ awaited \in 0..Len(kills)
    /\ written \in [Streams -> Nat]
    /\ pending \in [Streams -> BOOLEAN]
    /\ out \in [kept : [Streams -> Nat], truncated : [Streams -> BOOLEAN]]
    /\ reader \in [offset : [Streams -> Nat], eof : [Streams -> BOOLEAN]]
    /\ result \in [status : {status}, error : BOOLEAN] \cup {None}

Init ==
    /\ root = "none" /\ others = "none" /\ exit = None /\ closed = FALSE
    /\ platform \in Platforms
    /\ status = "running" /\ terminal = FALSE /\ error = FALSE /\ awaited = 0
    /\ timedOut = FALSE /\ cancelReason = FALSE
    /\ failure = None /\ kills = <<>> /\ result = None
    /\ written = [s \in Streams |-> 0]
    /\ pending = [s \in Streams |-> FALSE]
    /\ out = [kept |-> [s \in Streams |-> 0], truncated |-> [s \in Streams |-> FALSE]]
    /\ reader = [offset |-> [s \in Streams |-> 0], eof |-> [s \in Streams |-> FALSE]]

-----------------------------------------------------------------------------

Least(m, n) == IF m < n THEN m ELSE n

Accept_PerStream(o, s, n) ==
    LET taken == Least(n, OutputLimit - o.kept[s]) IN
    [kept |-> [o.kept EXCEPT ![s] = @ + taken],
     truncated |-> [o.truncated EXCEPT ![s] = @ \/ taken < n]]

\* appendOutput: what is left of the common budget, and a flag when some of
\* the text had to go.
Accept(o, s, n) ==
    LET taken == Least(n, OutputLimit - (o.kept["stdout"] + o.kept["stderr"])) IN
    [kept |-> [o.kept EXCEPT ![s] = @ + taken],
     truncated |-> [o.truncated EXCEPT ![s] = @ \/ taken < n]]

\* decoder.end(): an incomplete character becomes a replacement character.
Flushed(o, s) == IF pending[s] THEN Accept(o, s, 1) ELSE o

requestTermination ==
    IF terminal \/ root = "none" THEN UNCHANGED kills
    ELSE /\ Len(kills) < MaxKills
         /\ kills' = Append(kills, "running")

Finish_NotAwaiting(st, err) ==
    IF terminal THEN UNCHANGED <<ending, pending, out>>
    ELSE /\ terminal' = TRUE /\ status' = st /\ error' = err
         /\ awaited' = 0
         /\ out' = Flushed(Flushed(out, "stdout"), "stderr")
         /\ pending' = [s \in Streams |-> FALSE]

\* finish(): the first call wins; it flushes the decoders and waits for the
\* termination that was requested last.
Finish(st, err) ==
    IF terminal THEN UNCHANGED <<ending, pending, out>>
    ELSE /\ terminal' = TRUE /\ status' = st /\ error' = err
         /\ awaited' = Len(kills)
         /\ out' = Flushed(Flushed(out, "stdout"), "stderr")
         /\ pending' = [s \in Streams |-> FALSE]

Fail(kind) == failure' = IF failure = None THEN kind ELSE failure

\* finish() flushes text to onOutput, which may throw; a termination requested
\* then comes too late to be one.
FlushFails ==
    \/ UNCHANGED failure
    \/ StoreMayFail /\ ~terminal /\ TRUE \in {pending[s] : s \in Streams} /\ Fail("store")

-----------------------------------------------------------------------------
(* Tasks of the event loop                                                 *)

\* startProcessExecution: a process, a process that cannot be created (the
\* error event follows), or an exception.
Start ==
    /\ root = "none" /\ ~terminal
    /\ \/ /\ root' = "alive"
          /\ others' \in {"none", "alive", "holding"}
          /\ UNCHANGED <<ending, pending, out>>
       \/ root' = "failed" /\ UNCHANGED <<others, ending, pending, out>>
       \/ Finish("spawn_error", TRUE) /\ UNCHANGED <<root, others>>
    /\ UNCHANGED <<exit, closed, platform, reasons, failure, kills, written, reader, result>>

\* A data event of n characters; its last bytes may be half a character, which
\* the decoder keeps for the next event.
Data(s, n) ==
    /\ root \in {"alive", "dead"} /\ ~closed
    /\ written[s] + n <= MaxWritten
    /\ \E half \in BOOLEAN :
         LET decoded == n + (IF pending[s] THEN 1 ELSE 0) - (IF half THEN 1 ELSE 0) IN
         /\ written' = [written EXCEPT ![s] = @ + n]
         /\ pending' = [pending EXCEPT ![s] = half]
         /\ IF decoded = 0 THEN UNCHANGED <<out, failure, kills>>
            ELSE /\ out' = Accept(out, s, decoded)
                 /\ \/ UNCHANGED <<failure, kills>>
                    \/ StoreMayFail /\ Fail("store") /\ requestTermination
    /\ UNCHANGED <<process, reasons, ending, reader, result>>

TimeoutFires_FinishesAtOnce ==
    /\ root \in {"failed", "alive", "dead"} /\ ~terminal /\ ~timedOut
    /\ timedOut' = TRUE
    /\ requestTermination
    /\ Finish("timeout", FALSE)
    /\ UNCHANGED <<process, cancelReason, failure, written, reader, result>>

\* The timer, once: set timedOut and ask for the end of the tree.
TimeoutFires ==
    /\ root \in {"failed", "alive", "dead"} /\ ~terminal /\ ~timedOut
    /\ timedOut' = TRUE
    /\ requestTermination
    /\ UNCHANGED <<process, cancelReason, ending, failure, text, reader, result>>

\* cancel(): a second one asks again.
Cancel ==
    /\ root # "none" /\ ~terminal
    /\ cancelReason' = TRUE
    /\ requestTermination
    /\ UNCHANGED <<process, timedOut, ending, failure, text, reader, result>>

Closes_ReasonAsStatus ==
    /\ root = "dead" /\ others # "holding" /\ ~closed
    /\ closed' = TRUE
    /\ Finish(IF timedOut THEN "timeout"
              ELSE IF cancelReason THEN "client_requested"
              ELSE IF exit = "zero" THEN "ok" ELSE "nonzero_exit", FALSE)
    /\ FlushFails
    /\ UNCHANGED <<root, others, exit, platform, reasons, kills, written, reader, result>>

\* The close event: the child has ended and nobody holds its pipes.
Closes ==
    /\ root = "dead" /\ others # "holding" /\ ~closed
    /\ closed' = TRUE
    /\ Finish(IF timedOut THEN "timeout"
              ELSE IF cancelReason THEN "cancelled"
              ELSE IF exit = "zero" THEN "ok" ELSE "nonzero_exit", FALSE)
    /\ FlushFails
    /\ UNCHANGED <<root, others, exit, platform, reasons, kills, written, reader, result>>

\* The error event of a process that could not be created.
SpawnErrors ==
    /\ root = "failed" /\ ~terminal
    /\ Finish("spawn_error", TRUE)
    /\ UNCHANGED <<process, reasons, failure, kills, written, reader, result>>

Waiting_UntilKilled == awaited # 0 /\ kills[awaited] # "true"

Waiting == awaited # 0 /\ kills[awaited] \notin Settled

\* The awaited termination has settled and completion resolves.
Resolve ==
    /\ terminal /\ result = None /\ ~Waiting
    /\ result' = [status |-> status, error |-> error \/ failure # None]
    /\ UNCHANGED <<process, reasons, ending, failure, kills, text, reader>>

Read_EofWhileRunning(n) ==
    LET Taken(s, room) == Least(room, out.kept[s] - reader.offset[s])
        first == Taken("stdout", n)
        next == [stdout |-> reader.offset["stdout"] + first,
                 stderr |-> reader.offset["stderr"] + Taken("stderr", n - first)] IN
    /\ reader' = [offset |-> next, eof |-> [s \in Streams |-> next[s] >= out.kept[s]]]
    /\ UNCHANGED <<process, reasons, ending, failure, kills, text, result>>

\* readOutput() from the offsets the last call returned, stdout before stderr.
Read(n) ==
    LET Taken(s, room) == Least(room, out.kept[s] - reader.offset[s])
        first == Taken("stdout", n)
        next == [stdout |-> reader.offset["stdout"] + first,
                 stderr |-> reader.offset["stderr"] + Taken("stderr", n - first)] IN
    /\ reader' = [offset |-> next,
                  eof |-> [s \in Streams |-> terminal /\ next[s] >= out.kept[s]]]
    /\ UNCHANGED <<process, reasons, ending, failure, kills, text, result>>

-----------------------------------------------------------------------------
(* The operating system and forceTerminateProcessTree                      *)

Exits ==
    /\ root = "alive"
    /\ root' = "dead" /\ exit' \in {"zero", "nonzero"}
    /\ UNCHANGED <<others, closed, platform, reasons, ending, failure, kills, text, reader, result>>

OthersExit ==
    /\ others \in {"alive", "holding"}
    /\ others' = "dead"
    /\ UNCHANGED <<root, exit, closed, platform, reasons, ending, failure, kills, text, reader,
                   result>>

Killed == /\ root' = "dead"
          /\ exit' = IF root = "alive" THEN "nonzero" ELSE exit

\* taskkill names the child; a process group outlives its leader.
TreeFound ==
    root = "alive" \/ (platform = "posix" /\ root = "dead" /\ others \in {"alive", "holding"})

\* taskkill /T /F, or SIGKILL to the group, takes the whole tree ...
TreeKilled(k) ==
    /\ kills[k] = "running" /\ TreeFound
    /\ kills' = [kills EXCEPT ![k] = "landed"]
    /\ Killed
    /\ others' = IF others = "none" THEN "none" ELSE "dead"
    /\ UNCHANGED <<closed, platform, reasons, ending, failure, text, reader, result>>

\* ... and its own close event settles the promise.
KillerCloses(k) ==
    /\ kills[k] = "landed"
    /\ kills' = [kills EXCEPT ![k] = "true"]
    /\ UNCHANGED <<process, reasons, ending, failure, text, reader, result>>

\* It failed, did not find the child any more, or took five seconds: only the
\* direct child is killed; false when there is none.
FallsBack(k) ==
    /\ kills[k] = "running"
    /\ ~TreeFound \/ (KillMayFail /\ platform = "windows")
    /\ IF root = "alive"
       THEN /\ kills' = [kills EXCEPT ![k] = "true"]
            /\ Killed
            /\ UNCHANGED failure
       ELSE /\ kills' = [kills EXCEPT ![k] = "false"]
            /\ Fail("kill")
            /\ UNCHANGED <<root, exit>>
    /\ UNCHANGED <<others, closed, platform, reasons, ending, text, reader, result>>

\* child.kill() is refused: it returns false, and the error event finishes the
\* execution although the child lives.
KillErrors(k) ==
    /\ kills[k] = "running" /\ root = "alive" /\ KillMayError
    /\ kills' = [kills EXCEPT ![k] = "false"]
    /\ Fail("kill")
    /\ Finish("spawn_error", TRUE)
    /\ UNCHANGED <<process, reasons, written, reader, result>>

-----------------------------------------------------------------------------

Termination == \E k \in DOMAIN kills :
    TreeKilled(k) \/ KillerCloses(k) \/ FallsBack(k) \/ KillErrors(k)

Next ==
    \/ Start \/ TimeoutFires \/ Cancel \/ Closes \/ SpawnErrors \/ Resolve
    \/ \E s \in Streams, n \in 1..2 : Data(s, n)
    \/ \E n \in 1..ReadChars : Read(n)
    \/ Exits \/ OthersExit \/ Termination

Spec == Init /\ [][Next]_vars

\* The call is made, events that are due are handled, taskkill comes to an end
\* (five seconds at most) and the timer fires.  Nothing makes the child exit.
Fairness ==
    /\ WF_vars(Start) /\ WF_vars(TimeoutFires) /\ WF_vars(Closes)
    /\ WF_vars(SpawnErrors) /\ WF_vars(Resolve) /\ WF_vars(Termination)

FairSpec == Spec /\ Fairness

-----------------------------------------------------------------------------
(* Properties                                                              *)

\* The execution is one run of a child as the job manager sees it: no verdict
\* before the child has ended, unless a kill was refused, and the right one (finish,
\* the close handler).
Run == INSTANCE ChildRun WITH
    proc <- IF root \in {"alive", "dead"} THEN root ELSE "none",
    tried <- kills # <<>>,
    asked <- {r \in {"timeout", "cancel"} : IF r = "timeout" THEN timedOut ELSE cancelReason},
    verdict <- IF ~terminal THEN None
               ELSE IF status \in {"ok", "nonzero_exit"} THEN "exited" ELSE status
ImplementsChildRun == Run!Spec

\* What was received is kept, still in the decoder, or flagged as truncated,
\* and the two streams share one budget (appendOutput).
OutputAccounted ==
    /\ out.kept["stdout"] + out.kept["stderr"] <= OutputLimit
    /\ \A s \in Streams :
          out.truncated[s] <=> written[s] > out.kept[s] + (IF pending[s] THEN 1 ELSE 0)

\* A reader that was told both streams are at their end has all of the text,
\* for good (readOutput's eof, and finish() flushing before it); only a child that
\* could not be killed may go on writing.
EofIsFinal ==
    [][(\A s \in Streams : reader.eof[s]) /\ status # "spawn_error" =>
          UNCHANGED out.kept]_vars

\* completion waits for the termination requested last, and carries an error if that
\* failed or output could not be stored, also when it ended normally otherwise
\* (finish, terminationError is read last).
FailuresAreReported ==
    result # None =>
        /\ kills # <<>> => kills[Len(kills)] \in Settled
        /\ ~result.error => failure # "store" /\ (kills # <<>> => kills[Len(kills)] = "true")

\* Where a termination reaches the process group every execution completes: by
\* itself, or because the timer's one request is enough.
Completes == platform = "posix" ~> result # None
=============================================================================
