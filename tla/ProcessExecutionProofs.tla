----------------------- MODULE ProcessExecutionProofs -----------------------
(***************************************************************************)
(* Proofs about ProcessExecution, for any limits, platforms and failures,  *)
(* in the order in which they rest on each other:                          *)
(*                                                                         *)
(*   TextInv  what was received, kept, held back by the decoder and read   *)
(*   TypeOK   the types, some of which rest on TextInv                     *)
(*   EndInv   who may still change what after the execution has ended      *)
(*                                                                         *)
(* From these follow OutputAccounted, FailuresAreReported, EofIsFinal and  *)
(* the refinement of ChildRun, which needs the types only.                 *)
(***************************************************************************)
EXTENDS ProcessExecution, TLAPS

-----------------------------------------------------------------------------
(* The text                                                                *)

Outs == [kept : [Streams -> Nat], truncated : [Streams -> BOOLEAN]]
Total(o) == o.kept["stdout"] + o.kept["stderr"]
Held(s) == IF pending[s] THEN 1 ELSE 0

\* A stream is complete so far, or flagged.
Accounted(s) ==
    /\ out.kept[s] + Held(s) <= written[s]
    /\ out.truncated[s] <=> written[s] > out.kept[s] + Held(s)

TextInv ==
    /\ written \in [Streams -> Nat] /\ pending \in [Streams -> BOOLEAN]
    /\ out \in Outs /\ Total(out) <= OutputLimit
    /\ \A s \in Streams : Accounted(s)

\* A reader never is ahead of the text.
ReaderInv ==
    /\ reader \in [offset : [Streams -> Nat], eof : [Streams -> BOOLEAN]]
    /\ \A s \in Streams : reader.offset[s] <= out.kept[s]

\* a is o with n more characters of s: all of them are kept, or as much as is left and
\* then a flag says so.
Extends(a, o, s, n) ==
    /\ a \in Outs /\ Total(a) <= OutputLimit
    /\ a.kept[s] \in o.kept[s]..(o.kept[s] + n)
    /\ a.truncated[s] <=> o.truncated[s] \/ a.kept[s] < o.kept[s] + n
    /\ \A t \in Streams \ {s} : a.kept[t] = o.kept[t] /\ a.truncated[t] = o.truncated[t]

LEMMA AcceptEffect ==
    ASSUME NEW o \in Outs, Total(o) <= OutputLimit, NEW s \in Streams, NEW n \in Nat
    PROVE  Extends(Accept(o, s, n), o, s, n)
<1> DEFINE taken == Least(n, OutputLimit - Total(o))
           kept == [o.kept EXCEPT ![s] = @ + taken]
           truncated == [o.truncated EXCEPT ![s] = @ \/ taken < n]
<1>1. Accept(o, s, n) = [kept |-> kept, truncated |-> truncated]
  BY DEF Accept, Total
<1>2. o.kept \in [Streams -> Nat] /\ o.truncated \in [Streams -> BOOLEAN]
  BY DEF Outs
<1>3. o.kept["stdout"] \in Nat /\ o.kept["stderr"] \in Nat /\ OutputLimit \in Nat
  BY <1>2, ExecutionLimits DEF Streams
<1>4. taken \in 0..n /\ Total(o) + taken <= OutputLimit
  BY <1>3 DEF Least, Total
<1> HIDE DEF taken
<1>5. kept \in [Streams -> Nat] /\ truncated \in [Streams -> BOOLEAN]
  BY <1>2, <1>4
<1>6. /\ kept[s] = o.kept[s] + taken
      /\ truncated[s] <=> o.truncated[s] \/ taken < n
      /\ \A t \in Streams \ {s} : kept[t] = o.kept[t] /\ truncated[t] = o.truncated[t]
  BY <1>2
<1>7. kept["stdout"] + kept["stderr"] <= OutputLimit
  BY <1>3, <1>4, <1>6 DEF Total, Streams
<1> HIDE DEF kept, truncated
<1>8. o.kept[s] \in Nat
  BY <1>2
<1> QED BY <1>1, <1>4, <1>5, <1>6, <1>7, <1>8 DEF Extends, Outs, Total

\* A step that accepts text of one stream, with what the decoder holds back before and
\* after, keeps the streams accounted.
LEMMA AcceptKeeps ==
    ASSUME TextInv, NEW s \in Streams, NEW n \in Nat, NEW half \in BOOLEAN,
           NEW decoded \in Nat,
           decoded = n + Held(s) - (IF half THEN 1 ELSE 0),
           written' = [written EXCEPT ![s] = @ + n],
           pending' = [pending EXCEPT ![s] = half],
           out' = Accept(out, s, decoded)
    PROVE  TextInv' /\ \A t \in Streams : out'.kept[t] >= out.kept[t]
<1>1. Extends(out', out, s, decoded)
  BY AcceptEffect DEF TextInv
<1>2. written' \in [Streams -> Nat] /\ pending' \in [Streams -> BOOLEAN]
  BY DEF TextInv
<1>3. /\ written'[s] = written[s] + n /\ pending'[s] = half
      /\ \A t \in Streams \ {s} : written'[t] = written[t] /\ pending'[t] = pending[t]
  BY DEF TextInv
<1>4. \A t \in Streams : out.kept[t] \in Nat /\ written[t] \in Nat
  BY DEF TextInv, Outs
<1>5. ASSUME NEW t \in Streams \ {s} PROVE Accounted(t)'
  <2>1. /\ out'.kept[t] = out.kept[t] /\ out'.truncated[t] = out.truncated[t]
        /\ written'[t] = written[t] /\ pending'[t] = pending[t]
    BY <1>1, <1>3 DEF Extends
  <2>2. Accounted(t)
    BY DEF TextInv
  <2> QED BY <2>1, <2>2 DEF Accounted, Held
<1>6. Accounted(s)
  BY DEF TextInv
<1>7. Accounted(s)'
  <2>1. /\ out.kept[s] + Held(s) <= written[s]
        /\ out.truncated[s] <=> written[s] > out.kept[s] + Held(s)
    BY <1>6 DEF Accounted
  <2>2. Held(s) \in 0..1 /\ Held(s)' = IF half THEN 1 ELSE 0
    BY <1>3 DEF Held
  <2>3. /\ out'.kept[s] + Held(s)' <= written'[s]
        /\ written'[s] > out'.kept[s] + Held(s)' <=>
              written[s] > out.kept[s] + Held(s) \/ out'.kept[s] < out.kept[s] + decoded
    <3> DEFINE now == Held(s)'
    <3>1. now \in 0..1 /\ decoded = n + Held(s) - now
      BY <2>2
    <3> HIDE DEF now
    <3> QED BY <1>1, <1>3, <1>4, <2>1, <2>2, <3>1 DEF now, Extends
  <2> QED BY <1>1, <2>1, <2>3 DEF Accounted, Extends
<1> QED BY <1>1, <1>2, <1>4, <1>5, <1>7 DEF TextInv, Extends

\* What the decoder held back is flushed.
LEMMA FlushEffect ==
    ASSUME NEW o \in Outs, Total(o) <= OutputLimit, NEW s \in Streams,
           pending \in [Streams -> BOOLEAN]
    PROVE  Extends(Flushed(o, s), o, s, Held(s))
<1>1. CASE pending[s]
  BY <1>1, AcceptEffect DEF Flushed, Held
<1>2. CASE ~pending[s]
  <2>1. Flushed(o, s) = o /\ Held(s) = 0
    BY <1>2 DEF Flushed, Held
  <2>2. o.kept[s] \in Nat
    BY DEF Outs
  <2> QED BY <2>1, <2>2 DEF Extends
<1> QED BY <1>1, <1>2

\* finish() flushes both streams and holds nothing back after it.
LEMMA FinishKeeps ==
    ASSUME TextInv, NEW st, NEW err, Finish(st, err), UNCHANGED written
    PROVE  /\ TextInv' /\ \A t \in Streams : out'.kept[t] >= out.kept[t]
           /\ terminal => out' = out
<1>1. CASE terminal
  <2>1. UNCHANGED <<written, pending, out>>
    BY <1>1 DEF Finish
  <2>2. \A t \in Streams : out.kept[t] \in Nat
    BY DEF TextInv, Outs
  <2> QED BY <2>1, <2>2 DEF TextInv, Accounted, Held
<1>2. CASE ~terminal
  <2> DEFINE one == Flushed(out, "stdout")
             two == Flushed(one, "stderr")
  <2>1. out' = two /\ pending' = [s \in Streams |-> FALSE]
    BY <1>2 DEF Finish
  <2>2. Extends(one, out, "stdout", Held("stdout"))
    BY FlushEffect DEF TextInv, Streams
  <2>3. Extends(two, one, "stderr", Held("stderr"))
    BY <2>2, FlushEffect DEF TextInv, Streams, Extends
  <2> HIDE DEF one, two
  <2>4. ASSUME NEW s \in Streams
        PROVE  /\ two.kept[s] \in out.kept[s]..(out.kept[s] + Held(s))
               /\ two.truncated[s] <=>
                     out.truncated[s] \/ two.kept[s] < out.kept[s] + Held(s)
    BY <2>2, <2>3 DEF Extends, Streams
  <2>5. ASSUME NEW s \in Streams PROVE Accounted(s)' /\ two.kept[s] >= out.kept[s]
    <3>1. Accounted(s) /\ out.kept[s] \in Nat /\ written[s] \in Nat
      BY DEF TextInv, Outs
    <3>2. Held(s) \in 0..1 /\ Held(s)' = 0
      BY <2>1 DEF Held
    <3> QED BY <2>1, <2>4, <3>1, <3>2 DEF Accounted
  <2> QED BY <1>2, <2>1, <2>3, <2>5 DEF TextInv, Extends
<1> QED BY <1>1, <1>2

\* readOutput() moves a reader forward, never beyond the text, and tells the end of a
\* stream only of an execution that has ended.
LEMMA ReadKeeps ==
    ASSUME TextInv, ReaderInv, NEW n \in Nat, Read(n)
    PROVE  ReaderInv' /\ \A s \in Streams : reader'.eof[s] => terminal
<1> DEFINE Taken(s, room) == Least(room, out.kept[s] - reader.offset[s])
           first == Taken("stdout", n)
           second == Taken("stderr", n - first)
           next == [stdout |-> reader.offset["stdout"] + first,
                    stderr |-> reader.offset["stderr"] + second]
           eof == [s \in Streams |-> terminal /\ next[s] >= out.kept[s]]
<1>1. reader' = [offset |-> next, eof |-> eof] /\ out' = out
  BY DEF Read, text
<1>2. \A s \in Streams : /\ out.kept[s] \in Nat /\ reader.offset[s] \in Nat
                         /\ reader.offset[s] <= out.kept[s]
  BY DEF TextInv, ReaderInv, Outs
<1>3. first \in 0..n /\ reader.offset["stdout"] + first <= out.kept["stdout"]
  BY <1>2 DEF Least, Streams
<1>4. second \in Nat /\ reader.offset["stderr"] + second <= out.kept["stderr"]
  <2> DEFINE room == n - first
  <2>1. room \in Nat
    BY <1>3
  <2> HIDE DEF room
  <2>2. second = Least(room, out.kept["stderr"] - reader.offset["stderr"])
    BY DEF room
  <2> QED BY <1>2, <2>1, <2>2 DEF Least, Streams
<1> HIDE DEF first, second
<1>5. /\ next \in [Streams -> Nat]
      /\ \A s \in Streams : next[s] <= out.kept[s]
  <2>1. reader.offset["stdout"] + first \in Nat /\ reader.offset["stderr"] + second \in Nat
    BY <1>2, <1>3, <1>4 DEF Streams
  <2>2. next["stdout"] <= out.kept["stdout"] /\ next["stderr"] <= out.kept["stderr"]
    BY <1>3, <1>4
  <2>3. next \in [Streams -> Nat]
    BY <2>1 DEF Streams
  <2> QED BY <2>2, <2>3 DEF Streams
<1> HIDE DEF next
<1>6. eof \in [Streams -> BOOLEAN] /\ \A s \in Streams : eof[s] => terminal
  <2>1. \A s \in Streams : (terminal /\ next[s] >= out.kept[s]) \in BOOLEAN
    OBVIOUS
  <2> QED BY <2>1
<1> HIDE DEF eof
<1> QED BY <1>1, <1>5, <1>6 DEF ReaderInv

\* Of everything else only data and finish() touch the text, and they only add to it.
LEMMA TextSteps ==
    ASSUME TextInv, ReaderInv, [Next]_vars
    PROVE  TextInv' /\ ReaderInv'
<1> DEFINE Goal == TextInv' /\ ReaderInv'
<1>1. ASSUME TextInv', UNCHANGED reader, \A s \in Streams : out'.kept[s] >= out.kept[s]
      PROVE  Goal
  <2>1. \A s \in Streams : out'.kept[s] \in Nat /\ out.kept[s] \in Nat /\ reader.offset[s] \in Nat
    BY <1>1 DEF TextInv, Outs, ReaderInv
  <2> QED BY <1>1, <2>1 DEF ReaderInv
<1>2. ASSUME UNCHANGED <<text, reader>> PROVE Goal
  <2>1. UNCHANGED <<written, pending, out, reader>>
    BY <1>2 DEF text
  <2> QED BY <2>1 DEF TextInv, ReaderInv, Accounted, Held
<1> HIDE DEF Goal
<1>3. ASSUME NEW st, NEW err, Finish(st, err), UNCHANGED <<written, reader>> PROVE Goal
  BY <1>1, <1>3, FinishKeeps
<1>4. ASSUME Start PROVE Goal
  <2>1. CASE UNCHANGED <<ending, pending, out>>
    BY <1>2, <1>4, <2>1 DEF Start, text
  <2>2. CASE Finish("spawn_error", TRUE)
    BY <1>3, <1>4, <2>2 DEF Start
  <2> QED BY <1>4, <2>1, <2>2 DEF Start
<1>5. ASSUME Closes PROVE Goal
  <2>1. \E st, err : Finish(st, err)
    BY <1>5 DEF Closes
  <2> QED BY <1>3, <1>5, <2>1 DEF Closes
<1>6. ASSUME SpawnErrors PROVE Goal
  BY <1>3, <1>6 DEF SpawnErrors
<1>7. ASSUME NEW s \in Streams, NEW n \in 1..2, Data(s, n) PROVE Goal
  <2>1. PICK half \in BOOLEAN :
           LET decoded == n + (IF pending[s] THEN 1 ELSE 0) - (IF half THEN 1 ELSE 0) IN
           /\ written' = [written EXCEPT ![s] = @ + n]
           /\ pending' = [pending EXCEPT ![s] = half]
           /\ IF decoded = 0 THEN UNCHANGED out ELSE out' = Accept(out, s, decoded)
    BY <1>7 DEF Data
  <2> DEFINE decoded == n + Held(s) - (IF half THEN 1 ELSE 0)
  <2>2. Held(s) \in 0..1 /\ decoded \in Nat
    BY DEF Held
  <2>3. IF decoded = 0 THEN UNCHANGED out ELSE out' = Accept(out, s, decoded)
    BY <2>1 DEF Held
  <2>4. decoded = n + Held(s) - (IF half THEN 1 ELSE 0) /\ n \in Nat
    OBVIOUS
  <2>5. UNCHANGED reader
    BY <1>7 DEF Data
  <2> HIDE DEF decoded
  <2>6. CASE decoded # 0
    BY <1>1, <2>1, <2>2, <2>3, <2>4, <2>5, <2>6, AcceptKeeps
  <2>7. CASE decoded = 0
    <3>1. n = 1 /\ half /\ ~pending[s]
      BY <2>2, <2>4, <2>7 DEF Held
    <3>2. /\ written'[s] = written[s] + 1 /\ pending'[s]
          /\ \A t \in Streams \ {s} : written'[t] = written[t] /\ pending'[t] = pending[t]
          /\ written' \in [Streams -> Nat] /\ pending' \in [Streams -> BOOLEAN]
      BY <2>1, <3>1 DEF TextInv
    <3>3. out' = out /\ \A t \in Streams : out.kept[t] \in Nat /\ written[t] \in Nat
      BY <2>3, <2>7 DEF TextInv, Outs
    <3>4. ASSUME NEW t \in Streams \ {s} PROVE Accounted(t)'
      BY <3>2, <3>3 DEF TextInv, Accounted, Held
    <3>5. Accounted(s)
      BY DEF TextInv
    <3>6. Held(s) = 0 /\ Held(s)' = 1
      BY <3>1, <3>2 DEF Held
    <3>7. Accounted(s)'
      BY <3>2, <3>3, <3>5, <3>6 DEF Accounted
    <3>8. TextInv'
      BY <3>2, <3>3, <3>4, <3>7 DEF TextInv
    <3> QED BY <1>1, <2>5, <3>3, <3>8
  <2> QED BY <2>6, <2>7
<1>8. ASSUME NEW n \in 1..ReadChars, Read(n) PROVE Goal
  <2>1. UNCHANGED <<written, pending, out>> /\ n \in Nat
    BY <1>8, ExecutionLimits DEF Read, text
  <2>2. TextInv'
    BY <2>1 DEF TextInv, Accounted, Held
  <2> QED BY <1>8, <2>1, <2>2, ReadKeeps DEF Goal
<1>9. ASSUME NEW k \in DOMAIN kills, KillErrors(k) PROVE Goal
  BY <1>3, <1>9 DEF KillErrors
<1>10. ASSUME NEW k \in DOMAIN kills, TreeKilled(k) \/ KillerCloses(k) \/ FallsBack(k) PROVE Goal
  BY <1>2, <1>10 DEF TreeKilled, KillerCloses, FallsBack
<1>11. ASSUME TimeoutFires \/ Cancel \/ Resolve \/ Exits \/ OthersExit \/ UNCHANGED vars
       PROVE  Goal
  BY <1>2, <1>11 DEF TimeoutFires, Cancel, Resolve, Exits, OthersExit, vars
<1> QED BY <1>4, <1>5, <1>6, <1>7, <1>8, <1>9, <1>10, <1>11 DEF Next, Termination, Goal

-----------------------------------------------------------------------------
(* The terminations                                                        *)

KillStates == {"running", "landed"} \cup Settled

ControlTypes ==
    /\ root \in {"none", "failed", "alive", "dead"}
    /\ others \in {"none", "alive", "holding", "dead"}
    /\ platform \in Platforms
    /\ exit \in {None, "zero", "nonzero"}
    /\ {closed, terminal, timedOut, cancelReason, error} \subseteq BOOLEAN
    /\ status \in {"running", "ok", "nonzero_exit", "timeout", "cancelled", "spawn_error"}
    /\ failure \in {None, "store", "kill"}
    /\ kills \in Seq(KillStates)

\* A request adds a termination, but not to an execution that has ended.
LEMMA RequestEffect ==
    ASSUME kills \in Seq(KillStates), requestTermination
    PROVE  /\ kills' \in Seq(KillStates)
           /\ \A k \in DOMAIN kills : k \in DOMAIN kills' /\ kills'[k] = kills[k]
           /\ \A k \in DOMAIN kills' \ DOMAIN kills : kills'[k] = "running"
           /\ kills # <<>> => kills' # <<>>
           /\ kills' # kills => kills' # <<>> /\ ~terminal
           /\ ~terminal /\ root # "none" => kills' # <<>>
<1>1. CASE terminal \/ root = "none"
  <2>1. kills' = kills
    BY <1>1 DEF requestTermination
  <2> QED BY <1>1, <2>1
<1>2. CASE ~(terminal \/ root = "none")
  <2>1. kills' = Append(kills, "running")
    BY <1>2 DEF requestTermination
  <2>2. "running" \in KillStates
    BY DEF KillStates
  <2>3. /\ kills' \in Seq(KillStates) /\ Len(kills') = Len(kills) + 1
        /\ \A k \in 1..Len(kills) : kills'[k] = kills[k]
        /\ kills'[Len(kills) + 1] = "running"
    BY <2>1, <2>2
  <2>4. DOMAIN kills = 1..Len(kills) /\ DOMAIN kills' = 1..Len(kills') /\ Len(kills) \in Nat
    BY <2>3
  <2> QED BY <1>2, <2>3, <2>4
<1> QED BY <1>1, <1>2

\* One termination changes.
LEMMA OneKillMoves ==
    ASSUME kills \in Seq(KillStates), NEW k \in DOMAIN kills, NEW v \in KillStates,
           kills' = [kills EXCEPT ![k] = v]
    PROVE  /\ kills' \in Seq(KillStates) /\ Len(kills') = Len(kills)
           /\ DOMAIN kills' = DOMAIN kills
           /\ kills # <<>> /\ kills' # <<>>
           /\ kills'[k] = v /\ \A j \in DOMAIN kills \ {k} : kills'[j] = kills[j]
<1>1. Len(kills) \in Nat /\ DOMAIN kills = 1..Len(kills)
  OBVIOUS
<1> QED BY <1>1

-----------------------------------------------------------------------------
(* Types                                                                   *)

LEMMA ControlSteps ==
    ASSUME ControlTypes, [Next]_vars
    PROVE  ControlTypes'
<1> USE DEF ControlTypes
<1>1. ASSUME Start PROVE ControlTypes'
  BY <1>1 DEF Start, ending, Finish, reasons
<1>2. ASSUME NEW s \in Streams, NEW n \in 1..2, Data(s, n) PROVE ControlTypes'
  <2>1. UNCHANGED <<process, reasons, ending>>
    BY <1>2 DEF Data
  <2>2. \/ UNCHANGED <<failure, kills>>
        \/ Fail("store") /\ requestTermination
    BY <1>2 DEF Data
  <2>3. kills' \in Seq(KillStates)
    BY <2>2, RequestEffect
  <2>4. failure' \in {None, "store", "kill"}
    BY <2>2 DEF Fail
  <2> QED BY <2>1, <2>3, <2>4 DEF process, reasons, ending
<1>3. ASSUME TimeoutFires \/ Cancel PROVE ControlTypes'
  <2>1. kills' \in Seq(KillStates)
    BY <1>3, RequestEffect DEF TimeoutFires, Cancel
  <2> QED BY <1>3, <2>1 DEF TimeoutFires, Cancel, process, ending
<1>4. ASSUME Closes PROVE ControlTypes'
  <2>1. status' \in {"running", "ok", "nonzero_exit", "timeout", "cancelled", "spawn_error"}
    BY <1>4 DEF Closes, Finish, ending
  <2>2. {closed', terminal', timedOut', cancelReason', error'} \subseteq BOOLEAN
    BY <1>4 DEF Closes, Finish, ending, reasons
  <2>3. failure' \in {None, "store", "kill"}
    BY <1>4 DEF Closes, FlushFails, Fail
  <2>4. UNCHANGED <<root, others, exit, platform, kills>>
    BY <1>4 DEF Closes
  <2> QED BY <2>1, <2>2, <2>3, <2>4
<1>5. ASSUME SpawnErrors PROVE ControlTypes'
  BY <1>5 DEF SpawnErrors, Finish, ending, reasons, process
<1>6. ASSUME Resolve \/ (\E n \in 1..ReadChars : Read(n)) \/ UNCHANGED vars PROVE ControlTypes'
  <2>1. UNCHANGED <<process, reasons, ending, failure, kills>>
    BY <1>6 DEF Resolve, Read, vars
  <2> QED BY <2>1 DEF process, reasons, ending
<1>7. ASSUME Exits \/ OthersExit PROVE ControlTypes'
  BY <1>7 DEF Exits, OthersExit, reasons, ending
<1>8. ASSUME NEW k \in DOMAIN kills,
             TreeKilled(k) \/ KillerCloses(k) \/ FallsBack(k) \/ KillErrors(k)
      PROVE  ControlTypes'
  <2>1. PICK v \in KillStates : kills' = [kills EXCEPT ![k] = v]
    BY <1>8 DEF TreeKilled, KillerCloses, FallsBack, KillErrors, KillStates, Settled
  <2>2. kills' \in Seq(KillStates)
    BY <2>1, OneKillMoves
  <2>3. CASE TreeKilled(k)
    BY <2>2, <2>3 DEF TreeKilled, Killed, reasons, ending
  <2>4. CASE KillerCloses(k)
    BY <2>2, <2>4 DEF KillerCloses, process, reasons, ending
  <2>5. CASE FallsBack(k)
    BY <2>2, <2>5 DEF FallsBack, Killed, Fail, reasons, ending
  <2>6. CASE KillErrors(k)
    BY <2>2, <2>6 DEF KillErrors, Fail, Finish, process, reasons, ending
  <2> QED BY <1>8, <2>3, <2>4, <2>5, <2>6
<1> QED BY <1>1, <1>2, <1>3, <1>4, <1>5, <1>6, <1>7, <1>8 DEF Next, Termination

-----------------------------------------------------------------------------
(* After the end                                                           *)

\* A process of an execution that has ended still writes only if it could not be killed.
LateText ==
    terminal /\ ~closed /\ root \in {"alive", "dead"} =>
        status = "spawn_error" /\ failure # None

\* What completion resolved to, with the termination it waited for.
ResultTrue ==
    result # None =>
        /\ terminal /\ result \in [status : {status}, error : BOOLEAN]
        /\ kills # <<>> => kills[Len(kills)] \in Settled
        /\ ~result.error => failure # "store" /\ (kills # <<>> => kills[Len(kills)] = "true")

\* An execution that has ended awaits its last termination, and a termination that
\* failed was noted.
EndInv ==
    /\ awaited = IF terminal THEN Len(kills) ELSE 0
    /\ \A k \in DOMAIN kills : kills[k] = "false" => failure # None
    /\ \A s \in Streams : reader.eof[s] => terminal
    /\ LateText /\ ResultTrue

LEMMA EndStays ==
    ASSUME EndInv, UNCHANGED <<ending, failure, kills, result, reader, closed>>,
           root' = root \/ root \in {"alive", "dead"} \/ ~terminal
    PROVE  EndInv'
BY DEF EndInv, LateText, ResultTrue, ending

\* A step before the end, which may ask for a termination.
LEMMA BeforeEnd ==
    ASSUME ControlTypes, EndInv, ~terminal, requestTermination,
           UNCHANGED <<ending, reader, result>>, failure # None => failure' # None
    PROVE  EndInv'
<1>1. /\ \A k \in DOMAIN kills : k \in DOMAIN kills' /\ kills'[k] = kills[k]
      /\ \A k \in DOMAIN kills' \ DOMAIN kills : kills'[k] = "running"
  BY RequestEffect DEF ControlTypes
<1>2. \A k \in DOMAIN kills' : kills'[k] = "false" => failure' # None
  BY <1>1 DEF EndInv
<1>3. UNCHANGED <<terminal, awaited>>
  BY DEF ending
<1> QED BY <1>2, <1>3 DEF EndInv, LateText, ResultTrue

\* finish() on a process that is closed or was never there.
LEMMA FinishEnds ==
    ASSUME EndInv, NEW st, NEW err, Finish(st, err), UNCHANGED <<root, kills, result, reader>>,
           closed \/ ~terminal => closed' \/ root \notin {"alive", "dead"},
           terminal => UNCHANGED failure,
           failure # None => failure' # None
    PROVE  EndInv'
<1>1. CASE terminal
  <2>1. UNCHANGED <<terminal, status, awaited, failure>>
    BY <1>1 DEF Finish, ending
  <2> QED BY <1>1, <2>1 DEF EndInv, LateText, ResultTrue
<1>2. CASE ~terminal
  <2>1. terminal' /\ awaited' = Len(kills)
    BY <1>2 DEF Finish
  <2>2. result = None
    BY <1>2 DEF EndInv, ResultTrue
  <2> QED BY <1>2, <2>1, <2>2 DEF EndInv, LateText, ResultTrue
<1> QED BY <1>1, <1>2

\* A termination goes on; the one a result waited for has settled before.
LEMMA KillEnds ==
    ASSUME ControlTypes, EndInv, NEW k \in DOMAIN kills, kills[k] \in {"running", "landed"},
           NEW v \in KillStates, kills' = [kills EXCEPT ![k] = v],
           v = "false" => failure' # None,
           failure' \in {failure, "kill"}, failure # None => failure' # None,
           UNCHANGED <<terminal, status, awaited, closed, reader, result>>,
           root' = root \/ root \in {"alive", "dead"}
    PROVE  EndInv'
<1>1. /\ Len(kills') = Len(kills) /\ DOMAIN kills' = DOMAIN kills
      /\ kills # <<>> /\ kills' # <<>>
      /\ kills'[k] = v /\ \A j \in DOMAIN kills \ {k} : kills'[j] = kills[j]
  BY OneKillMoves DEF ControlTypes
<1>2. \A j \in DOMAIN kills' : kills'[j] = "false" => failure' # None
  BY <1>1 DEF EndInv
<1>3. LateText'
  BY DEF EndInv, LateText
<1>4. ResultTrue'
  <2> SUFFICES ASSUME result # None PROVE ResultTrue'
    BY DEF ResultTrue
  <2>1. Len(kills) \in DOMAIN kills /\ kills[Len(kills)] \in Settled
    BY <1>1 DEF EndInv, ResultTrue, ControlTypes
  <2>2. k # Len(kills)
    BY <2>1 DEF Settled
  <2>3. kills'[Len(kills')] = kills[Len(kills)]
    BY <1>1, <2>1, <2>2
  <2>4. failure # "store" => failure' # "store"
    OBVIOUS
  <2> QED BY <1>1, <2>3, <2>4 DEF EndInv, ResultTrue
<1> QED BY <1>1, <1>2, <1>3, <1>4 DEF EndInv

LEMMA EndSteps ==
    ASSUME ControlTypes, TextInv, ReaderInv, EndInv, [Next]_vars
    PROVE  EndInv'
<1>1. ASSUME Start PROVE EndInv'
  <2>1. CASE UNCHANGED ending
    BY <1>1, <2>1, EndStays DEF Start
  <2>2. CASE Finish("spawn_error", TRUE) /\ UNCHANGED root
    BY <1>1, <2>2, FinishEnds DEF Start
  <2> QED BY <1>1, <2>1, <2>2 DEF Start, ending
<1>2. ASSUME NEW s \in Streams, NEW n \in 1..2, Data(s, n) PROVE EndInv'
  <2>1. UNCHANGED <<root, closed, ending, reader, result>>
    BY <1>2 DEF Data, process
  <2>2. CASE UNCHANGED <<failure, kills>>
    BY <2>1, <2>2, EndStays
  <2>3. CASE terminal /\ Fail("store") /\ requestTermination
    <3>1. failure # None
      BY <1>2, <2>3 DEF Data, EndInv, LateText
    <3> QED BY <2>1, <2>3, <3>1, EndStays DEF Fail, requestTermination
  <2>4. CASE ~terminal /\ Fail("store") /\ requestTermination
    BY <2>1, <2>4, BeforeEnd DEF Fail
  <2> QED BY <1>2, <2>2, <2>3, <2>4 DEF Data
<1>3. ASSUME TimeoutFires \/ Cancel PROVE EndInv'
  BY <1>3, BeforeEnd DEF TimeoutFires, Cancel
<1>4. ASSUME Closes PROVE EndInv'
  <2>1. PICK st, err : Finish(st, err)
    BY <1>4 DEF Closes
  <2>2. terminal => UNCHANGED failure
    BY <1>4 DEF Closes, FlushFails
  <2>3. failure # None => failure' # None
    BY <1>4 DEF Closes, FlushFails, Fail
  <2>4. closed' /\ UNCHANGED <<root, kills, result, reader>>
    BY <1>4 DEF Closes
  <2> QED BY <2>1, <2>2, <2>3, <2>4, FinishEnds
<1>5. ASSUME SpawnErrors PROVE EndInv'
  BY <1>5, FinishEnds DEF SpawnErrors, process
<1>6. ASSUME Resolve PROVE EndInv'
  <2>1. /\ terminal /\ ~Waiting /\ UNCHANGED <<ending, failure, kills, reader, closed, root>>
        /\ result' = [status |-> status, error |-> error \/ failure # None]
    BY <1>6 DEF Resolve, process
  <2>2. result' \in [status : {status}, error : BOOLEAN]
    BY <2>1
  <2>3. ~result'.error => failure = None
    BY <2>1
  <2>4. ASSUME kills # <<>>
        PROVE  /\ kills[Len(kills)] \in Settled
               /\ failure = None => kills[Len(kills)] = "true"
    <3>1. awaited = Len(kills) /\ awaited # 0 /\ Len(kills) \in DOMAIN kills
      BY <2>1, <2>4 DEF EndInv, ControlTypes
    <3>2. kills[Len(kills)] \in Settled
      BY <2>1, <3>1 DEF Waiting
    <3> QED BY <3>1, <3>2 DEF EndInv, Settled
  <2>5. ResultTrue'
    BY <2>1, <2>2, <2>3, <2>4, NoneDiffers DEF ResultTrue, ending
  <2> QED BY <2>1, <2>5 DEF EndInv, LateText, ending
<1>7. ASSUME NEW n \in 1..ReadChars, Read(n) PROVE EndInv'
  <2>1. \A s \in Streams : reader'.eof[s] => terminal
    BY <1>7, ReadKeeps, ExecutionLimits
  <2>2. UNCHANGED <<root, closed, ending, failure, kills, result>>
    BY <1>7 DEF Read, process
  <2> QED BY <2>1, <2>2 DEF EndInv, LateText, ResultTrue, ending
<1>8. ASSUME Exits \/ OthersExit \/ UNCHANGED vars PROVE EndInv'
  BY <1>8, EndStays DEF Exits, OthersExit, vars, process
<1>9. ASSUME NEW k \in DOMAIN kills, TreeKilled(k) \/ KillerCloses(k) \/ FallsBack(k)
      PROVE  EndInv'
  <2>1. UNCHANGED <<ending, closed, reader, result>>
    BY <1>9 DEF TreeKilled, KillerCloses, FallsBack, process
  <2>2. /\ kills[k] \in {"running", "landed"}
        /\ failure' \in {failure, "kill"} /\ (failure # None => failure' # None)
        /\ root' = root \/ root \in {"alive", "dead"}
    BY <1>9 DEF TreeKilled, KillerCloses, FallsBack, Fail, TreeFound, process
  <2>3. PICK v \in KillStates : /\ kills' = [kills EXCEPT ![k] = v]
                                /\ v = "false" => failure' # None
    BY <1>9, NoneDiffers DEF TreeKilled, KillerCloses, FallsBack, Fail, KillStates, Settled
  <2> QED BY <2>1, <2>2, <2>3, KillEnds DEF ending
<1>10. ASSUME NEW k \in DOMAIN kills, KillErrors(k) PROVE EndInv'
  <2>1. /\ kills[k] = "running" /\ kills' = [kills EXCEPT ![k] = "false"]
        /\ Fail("kill") /\ Finish("spawn_error", TRUE)
        /\ UNCHANGED <<root, closed, reader, result>>
    BY <1>10 DEF KillErrors, process
  <2>2. failure' # None /\ failure' \in {failure, "kill"} /\ "false" \in KillStates
    BY <2>1, NoneDiffers DEF Fail, KillStates, Settled
  <2>3. CASE terminal
    <3>1. UNCHANGED <<terminal, status, awaited>>
      BY <2>1, <2>3 DEF Finish, ending
    <3> QED BY <2>1, <2>2, <3>1, KillEnds
  <2>4. CASE ~terminal
    <3>1. terminal' /\ status' = "spawn_error" /\ awaited' = Len(kills)
      BY <2>1, <2>4 DEF Finish
    <3>2. result' = None
      BY <2>1, <2>4 DEF EndInv, ResultTrue
    <3>3. Len(kills') = Len(kills)
      BY <2>1, <2>2, OneKillMoves DEF ControlTypes
    <3> QED BY <2>1, <2>2, <3>1, <3>2, <3>3 DEF EndInv, LateText, ResultTrue
  <2> QED BY <2>3, <2>4
<1> QED BY <1>1, <1>2, <1>3, <1>4, <1>5, <1>6, <1>7, <1>8, <1>9, <1>10 DEF Next, Termination

-----------------------------------------------------------------------------
(* The invariant and the properties that follow from it                    *)

ExecutionInv == ControlTypes /\ TextInv /\ ReaderInv /\ EndInv

LEMMA InvInductive == Spec => []ExecutionInv
<1>1. Init => ExecutionInv
  <2> SUFFICES ASSUME Init PROVE ExecutionInv
    OBVIOUS
  <2>1. ControlTypes
    <3>1. kills = <<>> /\ <<>> \in Seq(KillStates)
      BY DEF Init
    <3> QED BY <3>1 DEF Init, ControlTypes
  <2>2. TextInv
    <3>1. out \in Outs /\ Total(out) = 0 /\ OutputLimit \in Nat
      BY ExecutionLimits DEF Init, Outs, Total, Streams
    <3>2. \A s \in Streams : /\ written[s] = 0 /\ ~pending[s]
                             /\ out.kept[s] = 0 /\ ~out.truncated[s]
      BY DEF Init
    <3>3. written \in [Streams -> Nat] /\ pending \in [Streams -> BOOLEAN]
      BY DEF Init
    <3> QED BY <3>1, <3>2, <3>3 DEF TextInv, Accounted, Held
  <2>3. ReaderInv
    BY DEF Init, ReaderInv
  <2>4. EndInv
    BY DEF Init, EndInv, LateText, ResultTrue
  <2> QED BY <2>1, <2>2, <2>3, <2>4 DEF ExecutionInv
<1>2. ExecutionInv /\ [Next]_vars => ExecutionInv'
  BY ControlSteps, TextSteps, EndSteps DEF ExecutionInv
<1> QED BY <1>1, <1>2, PTL DEF Spec

\* Every variable keeps its type, whatever fails and whatever the limits are.
THEOREM TypeCorrect == Spec => []TypeOK
<1>1. ExecutionInv => TypeOK
  <2> SUFFICES ASSUME ExecutionInv PROVE TypeOK
    OBVIOUS
  <2>1. awaited \in 0..Len(kills)
    BY DEF ExecutionInv, EndInv, ControlTypes
  <2>2. result \in [status : {status}, error : BOOLEAN] \cup {None}
    BY DEF ExecutionInv, EndInv, ResultTrue
  <2> QED BY <2>1, <2>2
        DEF ExecutionInv, ControlTypes, TextInv, ReaderInv, TypeOK, KillStates, Outs
<1> QED BY <1>1, InvInductive, PTL

\* All text received is kept, still in the decoder or flagged as truncated, and the
\* streams share one budget (appendOutput).
THEOREM OutputIsAccounted == Spec => []OutputAccounted
<1>1. ExecutionInv => OutputAccounted
  BY DEF ExecutionInv, TextInv, OutputAccounted, Total, Accounted, Held
<1> QED BY <1>1, InvInductive, PTL

\* completion waits for the last termination and carries every failure (finish reads
\* terminationError last).
THEOREM FailuresReported == Spec => []FailuresAreReported
<1>1. ExecutionInv => FailuresAreReported
  BY DEF ExecutionInv, EndInv, ResultTrue, FailuresAreReported
<1> QED BY <1>1, InvInductive, PTL

\* After a reader was told that both streams are at their end nothing is added to them,
\* unless the child could not be killed (readOutput).
THEOREM EndOfTextIsFinal == Spec => EofIsFinal
<1> DEFINE Told == (\A s \in Streams : reader.eof[s]) /\ status # "spawn_error"
<1>1. ASSUME ExecutionInv, [Next]_vars, Told PROVE UNCHANGED out.kept
  <2>1. terminal
    BY <1>1 DEF ExecutionInv, EndInv, Streams
  <2>2. ~(~closed /\ root \in {"alive", "dead"})
    BY <1>1, <2>1 DEF ExecutionInv, EndInv, LateText
  <2>3. \A s \in Streams, n \in 1..2 : ~Data(s, n)
    BY <2>2 DEF Data
  <2>4. \A st, err : Finish(st, err) => UNCHANGED out
    BY <2>1 DEF Finish
  <2>5. CASE Start \/ Closes \/ SpawnErrors
    BY <2>1, <2>4, <2>5 DEF Start, Closes, SpawnErrors
  <2>6. CASE \/ TimeoutFires \/ Cancel \/ Resolve \/ Exits \/ OthersExit \/ UNCHANGED vars
             \/ \E n \in 1..ReadChars : Read(n)
    BY <2>6 DEF TimeoutFires, Cancel, Resolve, Read, Exits, OthersExit, vars, text
  <2>7. ASSUME NEW k \in DOMAIN kills,
               TreeKilled(k) \/ KillerCloses(k) \/ FallsBack(k) \/ KillErrors(k)
        PROVE  UNCHANGED out.kept
    BY <2>4, <2>7 DEF TreeKilled, KillerCloses, FallsBack, KillErrors, text
  <2> QED BY <1>1, <2>3, <2>5, <2>6, <2>7 DEF Next, Termination
<1>2. ExecutionInv /\ [Next]_vars => [Told => UNCHANGED out.kept]_vars
  BY <1>1
<1> QED BY <1>2, InvInductive, PTL DEF Spec, EofIsFinal

-----------------------------------------------------------------------------
(* The refinement                                                          *)

\* A step that neither starts nor ends the child, asks for nothing and decides nothing.
LEMMA RunStutters ==
    ASSUME UNCHANGED <<terminal, status, timedOut, cancelReason>>,
           root' = root \/ {root, root'} \subseteq {"none", "failed"},
           kills' # <<>> <=> kills # <<>>
    PROVE  UNCHANGED Run!runVars
BY DEF Run!runVars

LEMMA RunInit == Init => Run!Init
BY DEF Init, Run!Init

LEMMA RunSteps ==
    ASSUME ControlTypes, [Next]_vars
    PROVE  [Run!Next]_Run!runVars
<1> DEFINE Goal == [Run!Next]_Run!runVars
<1>1. ASSUME UNCHANGED <<ending, reasons>>,
             root' = root \/ {root, root'} \subseteq {"none", "failed"},
             kills' # <<>> <=> kills # <<>>
      PROVE  Goal
  BY <1>1, RunStutters DEF ending, reasons
<1> HIDE DEF Goal
<1>2. ASSUME Start PROVE Goal
  <2>1. CASE root' = "alive" /\ UNCHANGED ending
    <3>1. Run!Start
      BY <1>2, <2>1 DEF Start, Run!Start, ending, reasons
    <3> QED BY <3>1 DEF Goal, Run!Next
  <2>2. CASE root' = "failed" /\ UNCHANGED ending
    BY <1>1, <1>2, <2>2 DEF Start
  <2>3. CASE Finish("spawn_error", TRUE) /\ UNCHANGED root
    <3>1. Run!StartFails
      BY <1>2, <2>3 DEF Start, Finish, Run!StartFails, reasons
    <3> QED BY <3>1 DEF Goal, Run!Next
  <2> QED BY <1>2, <2>1, <2>2, <2>3 DEF Start
<1>3. ASSUME NEW s \in Streams, NEW n \in 1..2, Data(s, n) PROVE Goal
  <2>1. UNCHANGED <<root, ending, reasons>> /\ root \in {"alive", "dead"}
    BY <1>3 DEF Data, process
  <2>2. CASE UNCHANGED kills
    BY <1>1, <2>1, <2>2
  <2>3. CASE requestTermination /\ ~UNCHANGED kills
    <3>1. ~terminal /\ kills' # <<>>
      BY <2>3, RequestEffect DEF ControlTypes
    <3>2. Run!Ask
      BY <2>1, <3>1 DEF Run!Ask, ending, reasons
    <3> QED BY <3>2 DEF Goal, Run!Next
  <2> QED BY <1>3, <2>2, <2>3 DEF Data
<1>4. ASSUME TimeoutFires \/ Cancel PROVE Goal
  <2>1. ~terminal /\ root # "none" /\ requestTermination /\ UNCHANGED <<root, ending>>
    BY <1>4 DEF TimeoutFires, Cancel, process
  <2>2. kills' # <<>>
    BY <2>1, RequestEffect DEF ControlTypes
  <2>3. CASE TimeoutFires
    <3>1. timedOut' = TRUE /\ cancelReason' = cancelReason
      BY <2>3 DEF TimeoutFires
    <3>2. Run!Ask
      BY <2>1, <2>2, <3>1 DEF Run!Ask, ending
    <3> QED BY <3>2 DEF Goal, Run!Next
  <2>4. CASE Cancel
    <3>1. cancelReason' = TRUE /\ timedOut' = timedOut
      BY <2>4 DEF Cancel
    <3>2. Run!Ask
      BY <2>1, <2>2, <3>1 DEF Run!Ask, ending
    <3> QED BY <3>2 DEF Goal, Run!Next
  <2> QED BY <1>4, <2>3, <2>4
<1>5. ASSUME Closes PROVE Goal
  <2>1. CASE terminal
    BY <1>1, <1>5, <2>1 DEF Closes, Finish
  <2>2. CASE ~terminal
    <3>1. /\ root = "dead" /\ terminal' = TRUE /\ UNCHANGED <<root, reasons, kills>>
          /\ status' = IF timedOut THEN "timeout"
                       ELSE IF cancelReason THEN "cancelled"
                       ELSE IF exit = "zero" THEN "ok" ELSE "nonzero_exit"
      BY <1>5, <2>2 DEF Closes, Finish
    <3>2. Run!Decide
      BY <2>2, <3>1 DEF Run!Decide, reasons
    <3> QED BY <3>2 DEF Goal, Run!Next
  <2> QED BY <2>1, <2>2
<1>6. ASSUME SpawnErrors PROVE Goal
  <2>1. Run!StartFails
    BY <1>6 DEF SpawnErrors, Finish, Run!StartFails, process, reasons
  <2> QED BY <2>1 DEF Goal, Run!Next
<1>7. ASSUME Exits PROVE Goal
  <2>1. Run!End
    BY <1>7 DEF Exits, Run!End, ending, reasons
  <2> QED BY <2>1 DEF Goal, Run!Next
<1>8. ASSUME \/ Resolve \/ OthersExit \/ UNCHANGED vars
             \/ \E n \in 1..ReadChars : Read(n)
      PROVE  Goal
  BY <1>1, <1>8 DEF Resolve, Read, OthersExit, vars, process
<1>9. ASSUME NEW k \in DOMAIN kills,
             TreeKilled(k) \/ KillerCloses(k) \/ FallsBack(k) \/ KillErrors(k)
      PROVE  Goal
  <2>1. PICK v \in KillStates : kills' = [kills EXCEPT ![k] = v]
    BY <1>9 DEF TreeKilled, KillerCloses, FallsBack, KillErrors, KillStates, Settled
  <2>2. kills # <<>> /\ kills' # <<>>
    BY <2>1, OneKillMoves DEF ControlTypes
  <2>3. UNCHANGED reasons
    BY <1>9 DEF TreeKilled, KillerCloses, FallsBack, KillErrors
  <2>4. CASE root' = root /\ UNCHANGED ending
    BY <1>1, <2>2, <2>3, <2>4
  <2>5. CASE root = "alive" /\ root' = "dead" /\ UNCHANGED ending
    <3>1. Run!End
      BY <2>2, <2>3, <2>5 DEF Run!End, ending, reasons
    <3> QED BY <3>1 DEF Goal, Run!Next
  <2>6. CASE root = "alive" /\ root' = root /\ ~terminal /\ Finish("spawn_error", TRUE)
    <3>1. Run!GiveUp
      BY <2>2, <2>3, <2>6 DEF Finish, Run!GiveUp, reasons
    <3> QED BY <3>1 DEF Goal, Run!Next
  <2>7. \/ root' = root /\ UNCHANGED ending
        \/ root = "alive" /\ root' = "dead" /\ UNCHANGED ending
        \/ root = "alive" /\ root' = root /\ ~terminal /\ Finish("spawn_error", TRUE)
    <3>1. CASE TreeKilled(k)
      BY <3>1 DEF TreeKilled, TreeFound, Killed
    <3>2. CASE KillerCloses(k)
      BY <3>2 DEF KillerCloses, process
    <3>3. CASE FallsBack(k)
      BY <3>3 DEF FallsBack, Killed
    <3>4. CASE KillErrors(k)
      BY <3>4 DEF KillErrors, Finish, process
    <3> QED BY <1>9, <3>1, <3>2, <3>3, <3>4
  <2> QED BY <2>4, <2>5, <2>6, <2>7
<1> QED BY <1>2, <1>3, <1>4, <1>5, <1>6, <1>7, <1>8, <1>9 DEF Next, Termination, Goal

\* An execution is one run of a child as its job sees it: no verdict before the child has
\* ended, unless a kill was refused, and the right one (finish, the close handler).
THEOREM RunImplemented == Spec => ImplementsChildRun
<1>1. ExecutionInv /\ [Next]_vars => [Run!Next]_Run!runVars
  BY RunSteps DEF ExecutionInv
<1> QED BY <1>1, RunInit, InvInductive, PTL DEF Spec, ImplementsChildRun, Run!Spec

=============================================================================
