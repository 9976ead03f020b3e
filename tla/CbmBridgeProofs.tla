-------------------------- MODULE CbmBridgeProofs --------------------------
(***************************************************************************)
(* Proofs about CbmBridge, for any clients, capacity and faults.           *)
(*                                                                         *)
(* AcceptedRuns: only a call that waited for a slot may run an executable  *)
(* that was not accepted.  The invariant says that the cache is right      *)
(* about the executable that is there and that nothing is replaced while   *)
(* a client with a granted slot has not gone on.                           *)
(*                                                                         *)
(* BridgeLeaksNothing: counter, queue and flag agree with the calls.  The  *)
(* invariant adds that nobody is queued twice, that only heavy calls wait  *)
(* and that the set of holders is finite, though the clients need not be.  *)
(*                                                                         *)
(* AdrKept: an indexing that succeeds without a warning leaves an ADR.     *)
(* The invariant follows the one indexing from its snapshot to its last    *)
(* call; a process that outlived its call is of one that failed.           *)
(***************************************************************************)
EXTENDS CbmBridge, SequenceTheorems, FiniteSetTheorems, TLAPS

-----------------------------------------------------------------------------
(* Only accepted executables                                               *)

Stages == {"idle", "next", "waiting", "granted", "resumed", "running", "answered"}

\* What was probed is an executable that was there, and what is cached of the one that
\* is there now is true.
CacheTrue ==
    /\ replaced \in Nat /\ binary.id = replaced
    /\ cached.id \in Nat /\ cached.id <= replaced
    /\ Probed /\ cached.available => binary.good

\* A slot that was free is used before anything else can happen.
GrantedGood == \A c \in Clients : stage[c] = "granted" => binary.good

AcceptInv == CacheTrue /\ GrantedGood /\ stage \in [Clients -> Stages]

\* Giving a slot back changes the stage of the client, and of the first that waits.
LEMMA ReleaseStages ==
    ASSUME stage \in [Clients -> Stages], NEW c \in Clients, NEW new \in Stages,
           Release(c, new)
    PROVE  /\ stage' \in [Clients -> Stages]
           /\ stage'[c] \in {new, "resumed"}
           /\ \A d \in Clients \ {c} : stage'[d] \in {stage[d], "resumed"}
<1>1. CASE queue = <<>>
  BY <1>1 DEF Release, Stages
<1>2. CASE queue # <<>>
  <2>1. stage' = [stage EXCEPT ![c] = new, ![Head(queue)] = "resumed"]
    BY <1>2 DEF Release
  <2> QED BY <2>1 DEF Stages
<1> QED BY <1>1, <1>2

LEMMA AnswerStages ==
    ASSUME stage \in [Clients -> Stages], NEW c \in Clients, NEW how, NEW held,
           Answer(c, how, held)
    PROVE  /\ stage' \in [Clients -> Stages]
           /\ stage'[c] \in {"answered", "resumed"}
           /\ \A d \in Clients \ {c} : stage'[d] \in {stage[d], "resumed"}
<1>1. CASE Heavy(at[c])
  BY <1>1, ReleaseStages DEF Answer, Stages
<1>2. CASE ~Heavy(at[c])
  BY <1>2 DEF Answer, Stages
<1> QED BY <1>1, <1>2

\* The call of c that is launched runs now or has its answer; a client that waited may
\* go on.
LEMMA LaunchStages ==
    ASSUME stage \in [Clients -> Stages], NEW c \in Clients, Launch(c)
    PROVE  /\ stage' \in [Clients -> Stages]
           /\ stage'[c] # "granted"
           /\ \A d \in Clients \ {c} : stage'[d] \in {stage[d], "resumed"}
<1>1. CASE stage' = [stage EXCEPT ![c] = "running"]
  BY <1>1 DEF Stages
<1>2. CASE \E how, held : Answer(c, how, held)
  BY <1>2, AnswerStages
<1> QED BY <1>1, <1>2 DEF Launch

\* A step on client c that leaves the executable and the cache alone.
LEMMA OneClientMoves ==
    ASSUME AcceptInv, UNCHANGED <<binary, cached, replaced>>, NEW c \in Clients,
           stage' \in [Clients -> Stages],
           stage'[c] = "granted" => binary.good,
           stage'[c] = "running" => stage[c] \in {"running", "resumed"} \/ binary.good,
           \A d \in Clients \ {c} : stage'[d] \in {stage[d], "resumed"}
    PROVE  AcceptInv' /\ \A d \in Clients : AcceptedStep(d)
BY DEF AcceptInv, CacheTrue, GrantedGood, Probed, AcceptedStep

LEMMA AcceptSteps ==
    ASSUME AcceptInv, [Next]_vars
    PROVE  AcceptInv' /\ \A d \in Clients : AcceptedStep(d)
<1> DEFINE Goal == AcceptInv' /\ \A d \in Clients : AcceptedStep(d)
<1>0. stage \in [Clients -> Stages]
  BY DEF AcceptInv
<1>1. ASSUME stage' = stage, CacheTrue', binary'.good = binary.good \/ ~Micro PROVE Goal
  <2>1. \A c \in Clients : stage[c] = "granted" => Micro
    BY DEF Micro
  <2> QED BY <1>1, <2>1 DEF AcceptInv, GrantedGood, AcceptedStep
<1>2. ASSUME stage' = stage, UNCHANGED <<binary, cached, replaced>> PROVE Goal
  <2>1. CacheTrue'
    BY <1>2 DEF AcceptInv, CacheTrue, Probed
  <2> QED BY <1>1, <1>2, <2>1
<1> HIDE DEF Goal
<1>3. ASSUME NEW c \in Clients, Probe(c) PROVE Goal
  <2>1. UNCHANGED <<binary, replaced, stage>>
    BY <1>3 DEF Probe
  <2>2. CacheTrue'
    BY <1>3 DEF Probe, CacheTrue, Probed, AcceptInv
  <2> QED BY <1>1, <2>1, <2>2
<1>4. ASSUME NEW c \in Clients, Enter(c) PROVE Goal
  <2>1. UNCHANGED <<binary, cached, replaced>> /\ Probed
    BY <1>4 DEF Enter
  <2>2. CASE Refuse(c, "unavailable") \/ Refuse(c, "mutation_busy")
    <3>1. stage' = [stage EXCEPT ![c] = "answered"]
      BY <2>2 DEF Refuse
    <3>2. stage' \in [Clients -> Stages] /\ stage'[c] = "answered"
      BY <1>0, <3>1 DEF Stages
    <3>3. \A d \in Clients \ {c} : stage'[d] = stage[d]
      BY <1>0, <3>1
    <3> QED BY <2>1, <3>2, <3>3, OneClientMoves DEF Goal
  <2>3. CASE cached.available /\ Acquire(c)
    <3>1. PICK new \in {"granted", "waiting"} : stage' = [stage EXCEPT ![c] = new]
      BY <2>3 DEF Acquire
    <3>2. stage' \in [Clients -> Stages] /\ stage'[c] = new
      BY <1>0, <3>1 DEF Stages
    <3>3. \A d \in Clients \ {c} : stage'[d] = stage[d]
      BY <1>0, <3>1
    <3>4. binary.good
      BY <2>1, <2>3 DEF AcceptInv, CacheTrue
    <3> QED BY <2>1, <3>2, <3>3, <3>4, OneClientMoves DEF Goal
  <2>4. CASE cached.available /\ Launch(c)
    BY <1>0, <2>1, <2>4, OneClientMoves, LaunchStages DEF Goal, AcceptInv, CacheTrue
  <2> QED BY <1>4, <2>2, <2>3, <2>4 DEF Enter
<1>5. ASSUME NEW c \in Clients, Resume(c) PROVE Goal
  <2>1. UNCHANGED <<binary, cached, replaced>> /\ Launch(c)
    BY <1>5 DEF Resume
  <2>2. stage[c] = "resumed" \/ binary.good
    BY <1>5 DEF Resume, AcceptInv, GrantedGood
  <2> QED BY <1>0, <2>1, <2>2, OneClientMoves, LaunchStages DEF Goal
<1>6. ASSUME NEW c \in Clients, SlotTimeout(c) PROVE Goal
  <2>1. stage' = [stage EXCEPT ![c] = "answered"] /\ UNCHANGED <<binary, cached, replaced>>
    BY <1>6 DEF SlotTimeout, Refuse
  <2>2. stage' \in [Clients -> Stages] /\ stage'[c] = "answered"
    BY <1>0, <2>1 DEF Stages
  <2>3. \A d \in Clients \ {c} : stage'[d] = stage[d]
    BY <1>0, <2>1
  <2> QED BY <2>1, <2>2, <2>3, OneClientMoves DEF Goal
<1>7. ASSUME NEW c \in Clients, PipeFails(c) \/ Closes(c) PROVE Goal
  <2>1. UNCHANGED <<binary, cached, replaced>>
    BY <1>7 DEF PipeFails, Closes
  <2>2. \E how, held : Answer(c, how, held)
    BY <1>7 DEF PipeFails, Closes
  <2> QED BY <1>0, <2>1, <2>2, OneClientMoves, AnswerStages DEF Goal
<1>8. ASSUME NEW c \in Clients, Proceed(c) PROVE Goal
  <2>1. UNCHANGED <<binary, cached, replaced>>
    BY <1>8 DEF Proceed
  <2>2. PICK new \in {"idle", "next"} : stage' = [stage EXCEPT ![c] = new]
    BY <1>8 DEF Proceed, Goes
  <2>3. stage' \in [Clients -> Stages] /\ stage'[c] = new
    BY <1>0, <2>2 DEF Stages
  <2>4. \A d \in Clients \ {c} : stage'[d] = stage[d]
    BY <1>0, <2>2
  <2> QED BY <2>1, <2>3, <2>4, OneClientMoves DEF Goal
<1>9. ASSUME NEW c \in Clients, TimerFires(c) \/ OutputExceeds(c) \/ Exits(c) PROVE Goal
  BY <1>2, <1>9 DEF TimerFires, OutputExceeds, Exits
<1>10. ASSUME StrayExits \/ Rest \/ UNCHANGED vars PROVE Goal
  BY <1>2, <1>10 DEF StrayExits, Rest, vars
<1>11. ASSUME Replace PROVE Goal
  <2>1. replaced' = replaced + 1 /\ cached' = cached /\ binary'.id = replaced + 1
    <3>1. \A b \in [id : {replaced + 1}, good : BOOLEAN] : b.id = replaced + 1
      OBVIOUS
    <3> QED BY <1>11, <3>1 DEF Replace
  <2>2. replaced \in Nat /\ cached.id \in Nat /\ cached.id <= replaced
    BY DEF AcceptInv, CacheTrue
  <2>3. replaced' \in Nat /\ cached'.id <= replaced' /\ cached'.id # binary'.id
    BY <2>1, <2>2
  <2>4. CacheTrue'
    BY <2>1, <2>2, <2>3 DEF CacheTrue, Probed
  <2> QED BY <1>1, <1>11, <2>4 DEF Replace
<1> QED BY <1>3, <1>4, <1>5, <1>6, <1>7, <1>8, <1>9, <1>10, <1>11 DEF Next, Goal

\* An executable that was not probed and accepted is only run by a call that had to
\* wait for a slot after it asked (callCbmTool probes before it waits).
THEOREM AcceptedRuns == Spec => AcceptedUnlessWaited
<1>1. Init => AcceptInv
  <2> SUFFICES ASSUME Init PROVE AcceptInv
    OBVIOUS
  <2>1. stage \in [Clients -> Stages] /\ \A c \in Clients : stage[c] = "idle"
    BY DEF Init, Stages
  <2>2. binary.id = 0 /\ cached.id = 0 /\ replaced = 0 /\ ~cached.known
    BY DEF Init
  <2> QED BY <2>1, <2>2 DEF AcceptInv, CacheTrue, GrantedGood, Probed
<1>2. AcceptInv /\ [Next]_vars => AcceptInv'
  BY AcceptSteps
<1>3. AcceptInv /\ [Next]_vars => [\A c \in Clients : AcceptedStep(c)]_vars
  BY AcceptSteps
<1> QED BY <1>1, <1>2, <1>3, PTL DEF Spec, AcceptedUnlessWaited

-----------------------------------------------------------------------------
(* Types                                                                   *)

Native == {"manage_adr", "index_repository"}
Children == [state : {"none", "alive", "signalled", "ended"},
             late : BOOLEAN, long : BOOLEAN, code : {"ok", "bad"}]
CallsOf(c) == IF c \in Indexers THEN {"list", "get", "index", "verify", "restore"}
              ELSE IF c \in Editors THEN {"update"} ELSE {"search"}

ProbeTypes ==
    /\ binary \in [id : 0..MaxReplaced, good : BOOLEAN]
    /\ cached \in [id : 0..MaxReplaced, known : BOOLEAN, available : BOOLEAN]
    /\ replaced \in 0..MaxReplaced /\ faults \in 0..MaxFaults

\* A client makes the calls of its own kind, and has ended when it is idle again.
CallTypes ==
    /\ flag \in {None} \cup Native
    /\ stage \in [Clients -> Stages]
    /\ outcome \in [Clients -> Outcomes]
    /\ child \in [Clients -> Children]
    /\ at \in [Clients -> Calls \cup Ends]
    /\ \A c \in Clients : at[c] \in CallsOf(c) \cup (IF stage[c] = "idle" THEN Ends ELSE {})
    /\ \A s \in strays : s \in Clients \X Calls /\ s[2] \in CallsOf(s[1])

StoreTypes ==
    /\ adr \in Contents
    /\ got \in [Clients -> [now : Contents, snapshot : Contents]]

LEMMA CallsOfAreCalls == \A c : CallsOf(c) \subseteq Calls /\ CallsOf(c) \cap Ends = {}
BY DEF CallsOf, Calls, Ends

LEMMA ProbeSteps ==
    ASSUME ProbeTypes, [Next]_vars
    PROVE  ProbeTypes'
<1>1. Fails \/ Works => faults' \in 0..MaxFaults
  BY BridgeBounds DEF ProbeTypes, Fails, Works
<1>2. ASSUME UNCHANGED <<binary, cached, replaced>>, faults' \in 0..MaxFaults PROVE ProbeTypes'
  BY <1>2 DEF ProbeTypes
<1>3. ASSUME NEW c \in Clients, Probe(c) PROVE ProbeTypes'
  <2>1. binary.id \in 0..MaxReplaced /\ binary.good \in BOOLEAN
    BY DEF ProbeTypes
  <2>2. PICK told \in BOOLEAN :
           cached' = [id |-> binary.id, known |-> TRUE, available |-> told]
    BY <1>3, <2>1 DEF Probe
  <2> QED BY <1>1, <1>3, <2>1, <2>2 DEF Probe, ProbeTypes
<1>4. ASSUME NEW c \in Clients, Launch(c) PROVE faults' \in 0..MaxFaults
  BY <1>1, <1>4 DEF Launch
<1>5. ASSUME NEW c \in Clients, Enter(c) \/ Resume(c) PROVE ProbeTypes'
  BY <1>1, <1>2, <1>4, <1>5 DEF Enter, Resume, Acquire
<1>6. ASSUME NEW c \in Clients,
             OutputExceeds(c) \/ PipeFails(c) \/ Exits(c)
      PROVE  ProbeTypes'
  BY <1>1, <1>2, <1>6 DEF OutputExceeds, PipeFails, Exits
<1>7. ASSUME NEW c \in Clients,
             SlotTimeout(c) \/ TimerFires(c) \/ Closes(c) \/ Proceed(c)
      PROVE  ProbeTypes'
  <2>1. UNCHANGED <<binary, cached, replaced, faults>>
    BY <1>7 DEF SlotTimeout, TimerFires, Closes, Proceed
  <2> QED BY <2>1 DEF ProbeTypes
<1>8. ASSUME StrayExits \/ Rest \/ UNCHANGED vars PROVE ProbeTypes'
  <2>1. UNCHANGED <<binary, cached, replaced, faults>>
    BY <1>8 DEF StrayExits, Rest, vars
  <2> QED BY <2>1 DEF ProbeTypes
<1>9. ASSUME Replace PROVE ProbeTypes'
  <2>1. replaced' \in 0..MaxReplaced /\ replaced + 1 \in 0..MaxReplaced
    BY <1>9, BridgeBounds DEF Replace, ProbeTypes
  <2>2. [id : {replaced + 1}, good : BOOLEAN] \subseteq [id : 0..MaxReplaced, good : BOOLEAN]
    BY <2>1
  <2> QED BY <1>9, <2>1, <2>2 DEF Replace, ProbeTypes
<1> QED BY <1>3, <1>5, <1>6, <1>7, <1>8, <1>9 DEF Next

-----------------------------------------------------------------------------
(* The queue                                                               *)

\* The queue names the clients that wait, each once.
QueueInv ==
    /\ queue \in Seq(Clients)
    /\ \A i, j \in DOMAIN queue : queue[i] = queue[j] => i = j
    /\ \A c \in Clients : stage[c] = "waiting" <=> \E i \in DOMAIN queue : queue[i] = c

\* A step of client c, which may hand a slot to one that waits.
Only(c, new) ==
    /\ stage' \in [Clients -> Stages] /\ stage'[c] = new
    /\ \A d \in Clients \ {c} :
          stage'[d] = stage[d] \/ (stage[d] = "waiting" /\ stage'[d] = "resumed")

LEMMA OnlyOne ==
    ASSUME stage \in [Clients -> Stages], NEW c \in Clients, NEW new \in Stages,
           stage' = [stage EXCEPT ![c] = new]
    PROVE  Only(c, new) /\ \A d \in Clients \ {c} : stage'[d] = stage[d]
BY DEF Only

LEMMA QueueStays ==
    ASSUME QueueInv, UNCHANGED queue, stage \in [Clients -> Stages], NEW c \in Clients,
           NEW new \in Stages \ {"waiting"}, stage[c] # "waiting",
           stage' = [stage EXCEPT ![c] = new]
    PROVE  QueueInv'
<1>1. \A d \in Clients : stage'[d] = IF d = c THEN new ELSE stage[d]
  OBVIOUS
<1>2. \A d \in Clients : stage'[d] = "waiting" <=> stage[d] = "waiting"
  BY <1>1
<1> QED BY <1>2 DEF QueueInv

\* The first that waits leaves the queue and goes on.
LEMMA ReleaseEffect ==
    ASSUME QueueInv, stage \in [Clients -> Stages], NEW c \in Clients, stage[c] # "waiting",
           NEW new \in Stages \ {"waiting"}, Release(c, new)
    PROVE  Only(c, new) /\ QueueInv'
<1>1. CASE queue = <<>>
  <2>1. stage' = [stage EXCEPT ![c] = new] /\ queue' = queue
    BY <1>1 DEF Release
  <2> QED BY <2>1, OnlyOne, QueueStays
<1>2. CASE queue # <<>>
  <2> DEFINE h == Head(queue)
  <2>1. /\ stage' = [stage EXCEPT ![c] = new, ![h] = "resumed"]
        /\ queue' = Tail(queue)
    BY <1>2 DEF Release
  <2>2. queue \in Seq(Clients) /\ Len(queue) \in Nat \ {0} /\ DOMAIN queue = 1..Len(queue)
    BY <1>2 DEF QueueInv
  <2>3. h = queue[1] /\ 1 \in DOMAIN queue
    BY <2>2
  <2>4. h \in Clients /\ stage[h] = "waiting" /\ h # c
    BY <2>2, <2>3 DEF QueueInv
  <2> HIDE DEF h
  <2>5. \A d \in Clients :
           stage'[d] = IF d = h THEN "resumed" ELSE IF d = c THEN new ELSE stage[d]
    BY <2>1, <2>4
  <2>6. stage' \in [Clients -> Stages]
    BY <2>1, <2>4 DEF Stages
  <2>7. Only(c, new)
    BY <2>4, <2>5, <2>6 DEF Only
  <2>8. /\ queue' \in Seq(Clients) /\ DOMAIN queue' = 1..(Len(queue) - 1)
        /\ \A i \in DOMAIN queue' : queue'[i] = queue[i + 1] /\ i + 1 \in DOMAIN queue
    BY <2>1, <2>2
  <2>9. \A i, j \in DOMAIN queue' : queue'[i] = queue'[j] => i = j
    <3> SUFFICES ASSUME NEW i \in DOMAIN queue', NEW j \in DOMAIN queue',
                        queue'[i] = queue'[j]
                 PROVE  i = j
      OBVIOUS
    <3>1. i + 1 = j + 1
      BY <2>8 DEF QueueInv
    <3>2. i \in Nat /\ j \in Nat
      BY <2>8
    <3> QED BY <3>1, <3>2
  <2>10. ASSUME NEW d \in Clients
         PROVE  stage'[d] = "waiting" <=> \E i \in DOMAIN queue' : queue'[i] = d
    <3>1. CASE stage'[d] = "waiting"
      <4>1. stage[d] = "waiting" /\ d # h
        BY <2>5, <3>1
      <4>2. PICK i \in DOMAIN queue : queue[i] = d
        BY <4>1 DEF QueueInv
      <4>3. i # 1
        BY <2>3, <4>1, <4>2
      <4>4. i - 1 \in DOMAIN queue' /\ (i - 1) + 1 = i
        BY <2>2, <2>8, <4>3
      <4>5. queue'[i - 1] = d
        BY <2>8, <4>2, <4>4
      <4> QED BY <3>1, <4>4, <4>5
    <3>2. ASSUME NEW i \in DOMAIN queue', queue'[i] = d PROVE stage'[d] = "waiting"
      <4>1. queue[i + 1] = d /\ i + 1 \in DOMAIN queue /\ i + 1 # 1
        BY <2>8, <3>2
      <4>2. d # h /\ stage[d] = "waiting"
        BY <2>3, <4>1 DEF QueueInv
      <4> QED BY <2>5, <4>2
    <3> QED BY <3>1, <3>2
  <2>11. QueueInv'
    BY <2>8, <2>9, <2>10 DEF QueueInv
  <2> QED BY <2>7, <2>11
<1> QED BY <1>1, <1>2

LEMMA AnswerEffect ==
    ASSUME QueueInv, stage \in [Clients -> Stages], NEW c \in Clients, stage[c] # "waiting",
           NEW how, NEW held, Answer(c, how, held)
    PROVE  Only(c, "answered") /\ QueueInv'
<1>1. CASE Heavy(at[c])
  BY <1>1, ReleaseEffect DEF Answer, Stages
<1>2. CASE ~Heavy(at[c])
  <2>1. stage' = [stage EXCEPT ![c] = "answered"] /\ queue' = queue
    BY <1>2 DEF Answer
  <2>2. "answered" \in Stages \ {"waiting"}
    BY DEF Stages
  <2> QED BY <2>1, <2>2, OnlyOne, QueueStays
<1> QED BY <1>1, <1>2

\* The call of c is launched, or fails at once and gives back its slot.
LEMMA LaunchEffect ==
    ASSUME QueueInv, stage \in [Clients -> Stages], NEW c \in Clients, stage[c] # "waiting",
           Launch(c)
    PROVE  QueueInv' /\ \E new \in {"running", "answered"} : Only(c, new)
<1>1. CASE UNCHANGED queue /\ stage' = [stage EXCEPT ![c] = "running"]
  <2>1. "running" \in Stages \ {"waiting"}
    BY DEF Stages
  <2> QED BY <1>1, <2>1, OnlyOne, QueueStays
<1>2. CASE \E how, held : Answer(c, how, held)
  BY <1>2, AnswerEffect
<1> QED BY <1>1, <1>2 DEF Launch

\* A client at the end of the queue.
LEMMA AppendQueue ==
    ASSUME QueueInv, stage \in [Clients -> Stages], NEW c \in Clients, stage[c] # "waiting",
           queue' = Append(queue, c), stage' = [stage EXCEPT ![c] = "waiting"]
    PROVE  QueueInv'
<1>1. /\ queue' \in Seq(Clients) /\ Len(queue') = Len(queue) + 1
      /\ \A i \in 1..Len(queue) : queue'[i] = queue[i]
      /\ queue'[Len(queue) + 1] = c
  BY DEF QueueInv
<1>2. /\ DOMAIN queue = 1..Len(queue) /\ DOMAIN queue' = 1..(Len(queue) + 1)
      /\ Len(queue) \in Nat
  BY <1>1 DEF QueueInv
<1>3. \A i \in DOMAIN queue : queue[i] # c
  BY DEF QueueInv
<1>4. \A i, j \in DOMAIN queue' : queue'[i] = queue'[j] => i = j
  <2> SUFFICES ASSUME NEW i \in DOMAIN queue', NEW j \in DOMAIN queue', queue'[i] = queue'[j]
               PROVE  i = j
    OBVIOUS
  <2>1. CASE i \in DOMAIN queue /\ j \in DOMAIN queue
    BY <1>1, <1>2, <2>1 DEF QueueInv
  <2>2. CASE i = Len(queue) + 1 \/ j = Len(queue) + 1
    BY <1>1, <1>2, <1>3, <2>2
  <2> QED BY <1>2, <2>1, <2>2
<1>5. \A d \in Clients : stage'[d] = IF d = c THEN "waiting" ELSE stage[d]
  OBVIOUS
<1>6. ASSUME NEW d \in Clients
      PROVE  stage'[d] = "waiting" <=> \E i \in DOMAIN queue' : queue'[i] = d
  <2>1. CASE d = c
    BY <1>1, <1>2, <1>5, <2>1
  <2>2. CASE d # c
    <3>1. (\E i \in DOMAIN queue' : queue'[i] = d) <=> \E i \in DOMAIN queue : queue[i] = d
      BY <1>1, <1>2, <2>2
    <3> QED BY <1>5, <2>2, <3>1 DEF QueueInv
  <2> QED BY <2>1, <2>2
<1> QED BY <1>1, <1>4, <1>6 DEF QueueInv

\* A sequence without its i-th element.
Without(q, i) == SubSeq(q, 1, i - 1) \o SubSeq(q, i + 1, Len(q))

LEMMA WithoutEffect ==
    ASSUME NEW S, NEW q \in Seq(S), NEW i \in 1..Len(q)
    PROVE  /\ Without(q, i) \in Seq(S) /\ Len(Without(q, i)) = Len(q) - 1
           /\ \A j \in 1..(Len(q) - 1) :
                 Without(q, i)[j] = IF j < i THEN q[j] ELSE q[j + 1]
<1> DEFINE before == SubSeq(q, 1, i - 1)
           after == SubSeq(q, i + 1, Len(q))
           both == before \o after
<1>1. Len(q) \in Nat /\ i \in Int /\ i >= 1 /\ i <= Len(q) /\ \A j \in 1..Len(q) : q[j] \in S
  OBVIOUS
<1>2. /\ before \in Seq(S) /\ Len(before) = IF 1 <= i - 1 THEN i - 1 - 1 + 1 ELSE 0
      /\ \A j \in 1..(i - 1 - 1 + 1) : before[j] = q[1 + j - 1]
  <2>1. \A j \in 1..(i - 1) : q[j] \in S
    BY <1>1
  <2> HIDE DEF before
  <2> QED BY <1>1, <2>1, SubSeqProperties DEF before
<1>3. /\ after \in Seq(S) /\ Len(after) = IF i + 1 <= Len(q) THEN Len(q) - (i + 1) + 1 ELSE 0
      /\ \A j \in 1..(Len(q) - (i + 1) + 1) : after[j] = q[i + 1 + j - 1]
  <2>1. \A j \in (i + 1)..Len(q) : q[j] \in S
    BY <1>1
  <2> HIDE DEF after
  <2> QED BY <1>1, <2>1, SubSeqProperties DEF after
<1> HIDE DEF before, after
<1>4. Len(before) = i - 1 /\ Len(after) = Len(q) - i
  BY <1>1, <1>2, <1>3
<1>5. /\ both \in Seq(S) /\ Len(both) = Len(q) - 1
      /\ \A j \in 1..(Len(q) - 1) : both[j] = IF j <= i - 1 THEN before[j] ELSE after[j - (i - 1)]
  <2>1. /\ both \in Seq(S) /\ Len(both) = Len(before) + Len(after)
        /\ \A j \in 1..(Len(before) + Len(after)) :
              both[j] = IF j <= Len(before) THEN before[j] ELSE after[j - Len(before)]
    BY <1>2, <1>3, ConcatProperties
  <2>2. Len(before) + Len(after) = Len(q) - 1
    BY <1>1, <1>4
  <2> HIDE DEF both
  <2> QED BY <1>4, <2>1, <2>2
<1>6. Without(q, i) = both
  BY DEF Without, before, after
<1> HIDE DEF both
<1>7. ASSUME NEW j \in 1..(Len(q) - 1) PROVE both[j] = IF j < i THEN q[j] ELSE q[j + 1]
  <2>1. CASE j < i
    <3>1. j \in 1..(i - 1 - 1 + 1) /\ 1 + j - 1 = j /\ j <= i - 1
      BY <1>1, <2>1
    <3>2. before[j] = q[j]
      BY <1>2, <3>1
    <3> QED BY <1>5, <2>1, <3>1, <3>2
  <2>2. CASE ~(j < i)
    <3>1. j - (i - 1) \in 1..(Len(q) - (i + 1) + 1) /\ i + 1 + (j - (i - 1)) - 1 = j + 1
      BY <1>1, <2>2
    <3>2. after[j - (i - 1)] = q[j + 1]
      BY <1>3, <3>1
    <3> QED BY <1>1, <1>5, <2>2, <3>2
  <2> QED BY <2>1, <2>2
<1> QED BY <1>5, <1>6, <1>7

\* A client that gave up is taken out of the queue, wherever it stands.
LEMMA LeaveQueue ==
    ASSUME QueueInv, stage \in [Clients -> Stages], NEW c \in Clients,
           NEW i \in DOMAIN queue, queue[i] = c,
           queue' = Without(queue, i),
           stage' = [stage EXCEPT ![c] = "answered"]
    PROVE  QueueInv' /\ queue # <<>>
<1>1. DOMAIN queue = 1..Len(queue) /\ Len(queue) \in Nat /\ queue \in Seq(Clients)
  BY SMTT(40) DEF QueueInv
<1>2. /\ queue' \in Seq(Clients) /\ Len(queue') = Len(queue) - 1
      /\ \A j \in 1..(Len(queue) - 1) : queue'[j] = IF j < i THEN queue[j] ELSE queue[j + 1]
  BY ZenonT(30), <1>1, WithoutEffect
<1>3. DOMAIN queue' = 1..(Len(queue) - 1)
  BY <1>2
<1> DEFINE from == [j \in 1..(Len(queue) - 1) |-> IF j < i THEN j ELSE j + 1]
<1>4. \A j \in 1..(Len(queue) - 1) : from[j] = IF j < i THEN j ELSE j + 1
  OBVIOUS
<1> HIDE DEF from
<1>5. ASSUME NEW j \in DOMAIN queue'
      PROVE  queue'[j] = queue[from[j]] /\ from[j] \in DOMAIN queue \ {i}
  BY <1>1, <1>2, <1>3, <1>4
<1>6. ASSUME NEW j \in DOMAIN queue \ {i} PROVE \E k \in DOMAIN queue' : from[k] = j
  <2>1. CASE j < i
    <3>1. j \in DOMAIN queue' /\ from[j] = j
      BY <1>1, <1>3, <1>4, <2>1
    <3> QED BY <3>1
  <2>2. CASE j > i
    <3>1. j - 1 \in DOMAIN queue' /\ from[j - 1] = j
      BY <1>1, <1>3, <1>4, <2>2
    <3> QED BY <3>1
  <2> QED BY <1>1, <2>1, <2>2
<1>7. ASSUME NEW j \in DOMAIN queue', NEW k \in DOMAIN queue', queue'[j] = queue'[k]
      PROVE  j = k
  <2>1. from[j] = from[k]
    BY <1>5, <1>7 DEF QueueInv
  <2> QED BY <1>1, <1>3, <1>4, <2>1
<1>8. \A d \in Clients : stage'[d] = IF d = c THEN "answered" ELSE stage[d]
  OBVIOUS
<1>9. ASSUME NEW d \in Clients
      PROVE  stage'[d] = "waiting" <=> \E j \in DOMAIN queue' : queue'[j] = d
  <2>1. CASE d = c
    <3>1. \A j \in DOMAIN queue' : queue'[j] # c
      BY <1>5 DEF QueueInv
    <3> QED BY <1>8, <2>1, <3>1
  <2>2. CASE d # c
    <3>1. (\E j \in DOMAIN queue' : queue'[j] = d) <=> \E j \in DOMAIN queue : queue[j] = d
      BY <1>5, <1>6, <2>2
    <3> QED BY <1>8, <2>2, <3>1 DEF QueueInv
  <2> QED BY <2>1, <2>2
<1> QED BY <1>1, <1>2, <1>7, <1>9 DEF QueueInv

-----------------------------------------------------------------------------
(* Slots and the mutation flag                                             *)

\* Only a heavy read waits for a slot or is given one.
HeavyWaits ==
    \A c \in Clients : stage[c] \in {"waiting", "granted", "resumed"} => Heavy(at[c])

\* A slot is counted for every holder, and nobody waits while one is free.
SlotCount ==
    /\ IsFiniteSet(Holders) /\ active = Cardinality(Holders) /\ active <= Capacity
    /\ queue # <<>> => active = Capacity

BridgeInv == CallTypes /\ QueueInv /\ HeavyWaits /\ SlotCount /\ FlagHeld

\* What a step of client c leaves true of the other clients.
LEMMA OthersKept ==
    ASSUME CallTypes, HeavyWaits, NEW c \in Clients, NEW new \in Stages, Only(c, new),
           \A d \in Clients \ {c} : at'[d] = at[d]
    PROVE  \A d \in Clients \ {c} :
              /\ at'[d] \in CallsOf(d) \cup (IF stage'[d] = "idle" THEN Ends ELSE {})
              /\ stage'[d] \in {"waiting", "granted", "resumed"} => Heavy(at'[d])
              /\ stage[d] = "running" => stage'[d] = "running"
BY DEF CallTypes, HeavyWaits, Only

LEMMA CallTypesMove ==
    ASSUME CallTypes, HeavyWaits, NEW c \in Clients, NEW new \in Stages, Only(c, new),
           UNCHANGED at, at[c] \in CallsOf(c),
           new \in {"waiting", "granted", "resumed"} => Heavy(at[c]),
           flag' \in {None} \cup Native, outcome' \in [Clients -> Outcomes],
           child' \in [Clients -> Children],
           \A s \in strays' : s \in Clients \X Calls /\ s[2] \in CallsOf(s[1])
    PROVE  CallTypes' /\ HeavyWaits'
<1>1. \A d \in Clients \ {c} :
         /\ at[d] \in CallsOf(d) \cup (IF stage'[d] = "idle" THEN Ends ELSE {})
         /\ stage'[d] \in {"waiting", "granted", "resumed"} => Heavy(at[d])
  BY OthersKept
<1>2. CallTypes'
  BY <1>1 DEF CallTypes, Only
<1>3. HeavyWaits'
  BY <1>1 DEF HeavyWaits, Only
<1> QED BY <1>2, <1>3

\* The slots of a step that takes and gives none.
LEMMA SlotsKept ==
    ASSUME SlotCount, UNCHANGED active, queue' # <<>> => queue # <<>>,
           \A d \in Clients :
              (stage'[d] \in {"granted", "resumed", "running"} /\ Heavy(at'[d])) <=>
              (stage[d] \in {"granted", "resumed", "running"} /\ Heavy(at[d]))
    PROVE  SlotCount'
<1>1. Holders' = Holders
  BY DEF Holders
<1> QED BY <1>1 DEF SlotCount

\* A slot that is given back is free, or the first that waits has it.
LEMMA SlotReleased ==
    ASSUME QueueInv, HeavyWaits, SlotCount, stage \in [Clients -> Stages],
           NEW c \in Holders, Release(c, "answered"), UNCHANGED at
    PROVE  SlotCount'
<1>1. c \in Clients /\ stage[c] \in {"granted", "resumed", "running"}
  BY DEF Holders
<1>2. active \in Nat /\ Capacity \in Nat
  BY FS_CardinalityType, BridgeBounds DEF SlotCount
<1>3. CASE queue = <<>>
  <2>1. active' = active - 1 /\ queue' = <<>> /\ stage' = [stage EXCEPT ![c] = "answered"]
    BY <1>3 DEF Release
  <2>2. Holders' = Holders \ {c}
    BY <1>1, <2>1 DEF Holders
  <2>3. IsFiniteSet(Holders') /\ Cardinality(Holders') = Cardinality(Holders) - 1
    BY <2>2, FS_RemoveElement DEF SlotCount
  <2> QED BY <1>2, <2>1, <2>3 DEF SlotCount
<1>4. CASE queue # <<>>
  <2> DEFINE h == Head(queue)
  <2>1. /\ stage' = [stage EXCEPT ![c] = "answered", ![h] = "resumed"] /\ active' = active
    BY <1>4 DEF Release
  <2>2. h = queue[1] /\ 1 \in DOMAIN queue
    BY <1>4 DEF QueueInv
  <2>3. h \in Clients /\ stage[h] = "waiting" /\ h # c /\ Heavy(at[h])
    BY <1>1, <2>2 DEF QueueInv, HeavyWaits
  <2> HIDE DEF h
  <2>4. \A d \in Clients :
           stage'[d] = IF d = h THEN "resumed" ELSE IF d = c THEN "answered" ELSE stage[d]
    BY <1>1, <2>1, <2>3
  <2>5. Holders' = (Holders \ {c}) \cup {h} /\ h \notin Holders \ {c}
    BY <2>3, <2>4 DEF Holders
  <2>6. IsFiniteSet(Holders \ {c}) /\ Cardinality(Holders \ {c}) = Cardinality(Holders) - 1
    BY FS_RemoveElement DEF SlotCount
  <2>7. IsFiniteSet(Holders') /\ Cardinality(Holders') = (Cardinality(Holders) - 1) + 1
    BY <2>5, <2>6, FS_AddElement
  <2>8. active' = Cardinality(Holders') /\ active' = Capacity
    BY <1>2, <1>4, <2>1, <2>7 DEF SlotCount
  <2> QED BY <1>2, <2>7, <2>8 DEF SlotCount
<1> QED BY <1>3, <1>4

\* The flag of a step that sets none, of a client that runs nothing.
LEMMA FlagKept ==
    ASSUME CallTypes, FlagHeld, NEW c \in Clients, stage[c] # "running",
           flag' \in {flag, None},
           \A d \in Clients \ {c} :
              at'[d] = at[d] /\ (stage[d] = "running" => stage'[d] = "running")
    PROVE  FlagHeld'
<1>1. ASSUME flag' # None PROVE \E d \in Clients : /\ at'[d] \in Calls /\ stage'[d] = "running"
                                                   /\ NativeName[at'[d]] = flag'
  <2>1. flag' = flag
    BY <1>1
  <2>2. PICK d \in Clients : at[d] \in Calls /\ stage[d] = "running" /\ NativeName[at[d]] = flag
    BY <1>1, <2>1 DEF FlagHeld
  <2> QED BY <2>1, <2>2
<1> QED BY <1>1 DEF FlagHeld

\* However a call ends, its slot is given back and its flag taken down.
LEMMA AnswerKeeps ==
    ASSUME BridgeInv, NEW c \in Clients, stage[c] # "waiting", at[c] \in CallsOf(c),
           Heavy(at[c]) => c \in Holders,
           NEW how \in Outcomes, NEW held, Answer(c, how, held), UNCHANGED at,
           child' \in [Clients -> Children],
           \A s \in strays' : s \in Clients \X Calls /\ s[2] \in CallsOf(s[1]),
           \/ stage[c] = "running" /\ held = flag
           \/ stage[c] # "running" /\ held = IF Mutation(at[c]) THEN NativeName[at[c]] ELSE flag
    PROVE  BridgeInv'
<1>1. stage \in [Clients -> Stages] /\ at[c] \in Calls /\ "answered" \in Stages
  BY CallsOfAreCalls DEF BridgeInv, CallTypes, Stages
<1>2. Only(c, "answered") /\ QueueInv'
  BY <1>1, AnswerEffect DEF BridgeInv
<1>3. flag' \in {flag, None}
  BY DEF Answer
<1>4. outcome' \in [Clients -> Outcomes]
  BY DEF Answer, BridgeInv, CallTypes
<1>5. CallTypes' /\ HeavyWaits'
  BY <1>1, <1>2, <1>3, <1>4, CallTypesMove DEF BridgeInv, CallTypes
<1>6. SlotCount'
  <2>1. CASE Heavy(at[c])
    BY <1>1, <2>1, SlotReleased DEF Answer, BridgeInv
  <2>2. CASE ~Heavy(at[c])
    <3>1. stage' = [stage EXCEPT ![c] = "answered"] /\ UNCHANGED <<active, queue>>
      BY <2>2 DEF Answer
    <3>2. \A d \in Clients \ {c} : stage'[d] = stage[d]
      BY <1>1, <3>1
    <3> QED BY <1>2, <2>2, <3>1, <3>2, SlotsKept DEF BridgeInv, Only
  <2> QED BY <2>1, <2>2
<1>7. \A d \in Clients \ {c} : stage[d] = "running" => stage'[d] = "running"
  BY <1>2 DEF Only
<1>8. FlagHeld'
  <2>1. CASE stage[c] # "running"
    BY <1>3, <1>7, <2>1, FlagKept DEF BridgeInv
  <2>2. CASE stage[c] = "running" /\ flag' # None
    <3>1. flag' = flag /\ ~(Mutation(at[c]) /\ flag = NativeName[at[c]]) /\ flag \in Native
      BY <2>2 DEF Answer, BridgeInv, CallTypes
    <3>2. NativeName[at[c]] # flag
      BY <3>1 DEF Mutation, Native
    <3>3. PICK d \in Clients :
             at[d] \in Calls /\ stage[d] = "running" /\ NativeName[at[d]] = flag
      BY <2>2, <3>1 DEF BridgeInv, FlagHeld
    <3>4. d # c
      BY <3>2, <3>3
    <3> QED BY <1>7, <3>1, <3>3, <3>4 DEF FlagHeld
  <2>3. CASE flag' = None
    BY <2>3 DEF FlagHeld
  <2> QED BY <2>1, <2>2, <2>3
<1> QED BY <1>2, <1>5, <1>6, <1>8 DEF BridgeInv

\* A call that is launched holds the flag of its mutation and the slot it was given.
LEMMA LaunchKeeps ==
    ASSUME BridgeInv, NEW c \in Clients, stage[c] \in {"idle", "next", "granted", "resumed"},
           at[c] \in CallsOf(c), Heavy(at[c]) => c \in Holders,
           Launch(c), UNCHANGED <<at, strays>>
    PROVE  BridgeInv'
<1> DEFINE held == IF Mutation(at[c]) THEN NativeName[at[c]] ELSE flag
<1>1. /\ stage \in [Clients -> Stages] /\ at[c] \in Calls /\ "running" \in Stages
      /\ child \in [Clients -> Children]
      /\ \A s \in strays' : s \in Clients \X Calls /\ s[2] \in CallsOf(s[1])
  BY CallsOfAreCalls DEF BridgeInv, CallTypes, Stages
<1>2. CASE Answer(c, "spawn_error", held) /\ child' = child
  <2>1. "spawn_error" \in Outcomes
    BY DEF Outcomes
  <2> QED BY <1>1, <1>2, <2>1, AnswerKeeps
<1>3. CASE /\ child' = [child EXCEPT ![c] = [NoChild EXCEPT !.state = "alive"]]
           /\ flag' = held
           /\ stage' = [stage EXCEPT ![c] = "running"]
           /\ UNCHANGED <<active, queue, outcome>>
  <2>1. Only(c, "running") /\ \A d \in Clients \ {c} : stage'[d] = stage[d]
    BY <1>1, <1>3, OnlyOne
  <2>2. flag' \in {None} \cup Native /\ (Mutation(at[c]) => flag' = NativeName[at[c]])
    BY <1>3 DEF BridgeInv, CallTypes, Mutation, Native
  <2>3. child' \in [Clients -> Children] /\ outcome' \in [Clients -> Outcomes]
    <3>1. [NoChild EXCEPT !.state = "alive"] \in Children
      BY DEF NoChild, Children
    <3> QED BY <1>1, <1>3, <3>1 DEF BridgeInv, CallTypes
  <2>4. CallTypes' /\ HeavyWaits'
    BY <1>1, <2>1, <2>2, <2>3, CallTypesMove DEF BridgeInv
  <2>5. QueueInv'
    BY <1>1, <1>3, QueueStays DEF BridgeInv
  <2>6. SlotCount'
    BY <1>1, <1>3, <2>1, SlotsKept DEF BridgeInv, Holders, Only
  <2>7. FlagHeld'
    <3>1. CASE Mutation(at[c])
      BY <1>1, <2>1, <2>2, <3>1 DEF FlagHeld, Only
    <3>2. CASE ~Mutation(at[c])
      BY <1>3, <2>1, <3>2, FlagKept DEF BridgeInv, Only
    <3> QED BY <3>1, <3>2
  <2> QED BY <2>4, <2>5, <2>6, <2>7 DEF BridgeInv
<1> QED BY <1>2, <1>3 DEF Launch

\* A client takes a slot or queues up.
LEMMA AcquireKeeps ==
    ASSUME BridgeInv, NEW c \in Clients, stage[c] \in {"idle", "next"},
           at[c] \in CallsOf(c), Heavy(at[c]), Acquire(c), UNCHANGED <<at, strays>>
    PROVE  BridgeInv'
<1>1. /\ stage \in [Clients -> Stages] /\ "granted" \in Stages /\ "waiting" \in Stages
      /\ active \in Nat /\ Capacity \in Nat
      /\ \A s \in strays' : s \in Clients \X Calls /\ s[2] \in CallsOf(s[1])
  BY FS_CardinalityType, BridgeBounds DEF BridgeInv, CallTypes, SlotCount, Stages
<1>2. UNCHANGED <<flag, outcome, child>>
  BY DEF Acquire
<1>3. CASE active < Capacity
  <2>1. active' = active + 1 /\ queue' = queue /\ stage' = [stage EXCEPT ![c] = "granted"]
    BY <1>3 DEF Acquire
  <2>2. Only(c, "granted") /\ \A d \in Clients \ {c} : stage'[d] = stage[d]
    BY <1>1, <2>1, OnlyOne
  <2>3. CallTypes' /\ HeavyWaits'
    BY <1>1, <1>2, <2>2, CallTypesMove DEF BridgeInv, CallTypes
  <2>4. QueueInv'
    BY <1>1, <2>1, QueueStays DEF BridgeInv
  <2>5. Holders' = Holders \cup {c} /\ c \notin Holders
    BY <2>2 DEF Holders, Only
  <2>6. IsFiniteSet(Holders') /\ Cardinality(Holders') = Cardinality(Holders) + 1
    BY <2>5, FS_AddElement DEF BridgeInv, SlotCount
  <2>7. SlotCount'
    BY <1>1, <1>3, <2>1, <2>6 DEF BridgeInv, SlotCount
  <2>8. FlagHeld'
    BY <1>2, <2>2, FlagKept DEF BridgeInv
  <2> QED BY <2>3, <2>4, <2>7, <2>8 DEF BridgeInv
<1>4. CASE ~(active < Capacity)
  <2>1. active' = active /\ queue' = Append(queue, c) /\ stage' = [stage EXCEPT ![c] = "waiting"]
    BY <1>4 DEF Acquire
  <2>2. Only(c, "waiting") /\ \A d \in Clients \ {c} : stage'[d] = stage[d]
    BY <1>1, <2>1, OnlyOne
  <2>3. CallTypes' /\ HeavyWaits'
    BY <1>1, <1>2, <2>2, CallTypesMove DEF BridgeInv, CallTypes
  <2>4. QueueInv'
    BY <1>1, <2>1, AppendQueue DEF BridgeInv
  <2>5. Holders' = Holders
    BY <2>2 DEF Holders, Only
  <2>6. SlotCount'
    BY <1>1, <1>4, <2>1, <2>5 DEF BridgeInv, SlotCount
  <2>7. FlagHeld'
    BY <1>2, <2>2, FlagKept DEF BridgeInv
  <2> QED BY <2>3, <2>4, <2>6, <2>7 DEF BridgeInv
<1> QED BY <1>3, <1>4

LEMMA RefuseKeeps ==
    ASSUME BridgeInv, NEW c \in Clients, stage[c] \notin {"granted", "resumed", "running"},
           at[c] \in CallsOf(c), NEW how \in Outcomes, Refuse(c, how),
           UNCHANGED <<flag, active, at, child, strays>>,
           QueueInv', queue' # <<>> => queue # <<>>
    PROVE  BridgeInv'
<1>1. /\ stage \in [Clients -> Stages] /\ "answered" \in Stages
      /\ \A s \in strays' : s \in Clients \X Calls /\ s[2] \in CallsOf(s[1])
  BY DEF BridgeInv, CallTypes, Stages
<1>2. stage' = [stage EXCEPT ![c] = "answered"] /\ outcome' = [outcome EXCEPT ![c] = how]
  BY DEF Refuse
<1>3. Only(c, "answered") /\ \A d \in Clients \ {c} : stage'[d] = stage[d]
  BY <1>1, <1>2, OnlyOne
<1>4. outcome' \in [Clients -> Outcomes]
  BY <1>2 DEF BridgeInv, CallTypes
<1>5. CallTypes' /\ HeavyWaits'
  BY <1>1, <1>3, <1>4, CallTypesMove DEF BridgeInv, CallTypes
<1>6. SlotCount'
  BY <1>3, SlotsKept DEF BridgeInv, Only
<1>7. FlagHeld'
  BY <1>3, FlagKept DEF BridgeInv
<1> QED BY <1>5, <1>6, <1>7 DEF BridgeInv

\* A client goes on to its next call, or has ended.
LEMMA ProceedKeeps ==
    ASSUME BridgeInv, NEW c \in Clients, Proceed(c)
    PROVE  BridgeInv'
<1>1. /\ stage \in [Clients -> Stages] /\ stage[c] = "answered" /\ at[c] \in CallsOf(c)
      /\ UNCHANGED <<flag, active, queue, child, strays>>
  BY DEF BridgeInv, CallTypes, Proceed, bridge
<1> DEFINE to == Following(c)
           new == IF to \in Ends THEN "idle" ELSE "next"
<1>2. to \in CallsOf(c) \cup Ends
  BY <1>1 DEF Following, CallsOf, Ends
<1>3. at' = [at EXCEPT ![c] = to] /\ stage' = [stage EXCEPT ![c] = new]
  BY DEF Proceed, Goes
<1> HIDE DEF to
<1>4. new \in {"idle", "next"} /\ new \in Stages \ {"waiting"}
  BY DEF Stages
<1>5. to \in CallsOf(c) \cup (IF new = "idle" THEN Ends ELSE {})
  BY <1>2
<1> HIDE DEF new
<1>6. Only(c, new) /\ \A d \in Clients \ {c} : stage'[d] = stage[d]
  BY <1>1, <1>3, <1>4, OnlyOne
<1>7. /\ at' \in [Clients -> Calls \cup Ends]
      /\ at'[c] = to /\ \A d \in Clients \ {c} : at'[d] = at[d]
  BY <1>2, <1>3, CallsOfAreCalls DEF BridgeInv, CallTypes
<1>8. outcome' \in [Clients -> Outcomes]
  <2>1. outcome' = [outcome EXCEPT ![c] = None] /\ None \in Outcomes
    BY DEF Proceed, Outcomes
  <2> QED BY <2>1 DEF BridgeInv, CallTypes
<1>9. CallTypes'
  <2>1. \A d \in Clients : at'[d] \in CallsOf(d) \cup (IF stage'[d] = "idle" THEN Ends ELSE {})
    BY <1>5, <1>6, <1>7 DEF BridgeInv, CallTypes, Only
  <2> QED BY <1>1, <1>6, <1>7, <1>8, <2>1 DEF BridgeInv, CallTypes, Only
<1>10. HeavyWaits'
  BY <1>4, <1>6, <1>7 DEF BridgeInv, HeavyWaits, Only
<1>11. QueueInv'
  BY <1>1, <1>3, <1>4, QueueStays DEF BridgeInv
<1>12. SlotCount'
  BY <1>1, <1>4, <1>6, <1>7, SlotsKept DEF BridgeInv, Only
<1>13. FlagHeld'
  BY <1>1, <1>6, <1>7, FlagKept DEF BridgeInv
<1> QED BY <1>9, <1>10, <1>11, <1>12, <1>13 DEF BridgeInv

\* A step of a process, or of nobody.
LEMMA QuietKeeps ==
    ASSUME BridgeInv, UNCHANGED <<bridge, at, stage, outcome>>,
           child' \in [Clients -> Children], strays' \subseteq strays
    PROVE  BridgeInv'
<1>1. UNCHANGED <<flag, active, queue, at, stage, outcome>>
  BY DEF bridge
<1>2. CallTypes'
  BY <1>1 DEF BridgeInv, CallTypes
<1>3. QueueInv' /\ HeavyWaits' /\ FlagHeld'
  BY <1>1 DEF BridgeInv, QueueInv, HeavyWaits, FlagHeld
<1>4. SlotCount'
  BY <1>1, SlotsKept DEF BridgeInv
<1> QED BY <1>2, <1>3, <1>4 DEF BridgeInv

LEMMA BridgeSteps ==
    ASSUME BridgeInv, [Next]_vars
    PROVE  BridgeInv'
<1>1. /\ stage \in [Clients -> Stages] /\ child \in [Clients -> Children]
      /\ \A c \in Clients : stage[c] # "idle" => at[c] \in CallsOf(c)
      /\ \A s \in strays : s \in Clients \X Calls /\ s[2] \in CallsOf(s[1])
  BY DEF BridgeInv, CallTypes
<1>2. ASSUME NEW c \in Clients, Probe(c) PROVE BridgeInv'
  BY <1>1, <1>2, QuietKeeps DEF Probe
<1>3. ASSUME NEW c \in Clients, Enter(c) PROVE BridgeInv'
  <2>1. /\ stage[c] \in {"idle", "next"} /\ at[c] \in CallsOf(c)
        /\ UNCHANGED <<at, strays>>
    BY <1>1, <1>3 DEF Enter, Enters, FirstCall, CallsOf
  <2>2. ASSUME NEW how \in Outcomes, Refuse(c, how), UNCHANGED <<bridge, child>>
        PROVE  BridgeInv'
    <3>1. "answered" \in Stages \ {"waiting"}
      BY DEF Stages
    <3>2. QueueInv'
      BY <1>1, <2>1, <2>2, <3>1, QueueStays DEF Refuse, bridge, BridgeInv
    <3> QED BY <2>1, <2>2, <3>2, RefuseKeeps DEF bridge
  <2>3. CASE /\ Refuse(c, "unavailable") \/ Refuse(c, "mutation_busy")
             /\ UNCHANGED <<bridge, child>>
    BY <2>2, <2>3 DEF Outcomes
  <2>4. CASE Heavy(at[c]) /\ Acquire(c)
    BY <2>1, <2>4, AcquireKeeps
  <2>5. CASE ~Heavy(at[c]) /\ Launch(c)
    BY <2>1, <2>5, LaunchKeeps
  <2> QED BY <1>3, <2>3, <2>4, <2>5 DEF Enter
<1>4. ASSUME NEW c \in Clients, Resume(c) PROVE BridgeInv'
  <2>1. c \in Holders
    BY <1>4 DEF Resume, Holders, BridgeInv, HeavyWaits
  <2>2. stage[c] \in {"granted", "resumed"} /\ Launch(c) /\ UNCHANGED <<at, strays>>
    BY <1>4 DEF Resume
  <2> QED BY <1>1, <2>1, <2>2, LaunchKeeps
<1>5. ASSUME NEW c \in Clients, SlotTimeout(c) PROVE BridgeInv'
  <2>1. PICK i \in DOMAIN queue : queue[i] = c /\ queue' = Without(queue, i)
    BY <1>5 DEF SlotTimeout, Without
  <2>2. /\ stage[c] = "waiting" /\ Refuse(c, "queue_timeout")
        /\ UNCHANGED <<flag, active, at, child, strays>>
    BY <1>5 DEF SlotTimeout
  <2>3. QueueInv' /\ queue # <<>>
    BY <1>1, <2>1, <2>2, LeaveQueue DEF Refuse, BridgeInv
  <2>4. "queue_timeout" \in Outcomes
    BY DEF Outcomes
  <2> QED BY <1>1, <2>2, <2>3, <2>4, RefuseKeeps
<1>6. ASSUME NEW c \in Clients, TimerFires(c) \/ OutputExceeds(c) \/ Exits(c) PROVE BridgeInv'
  <2>1. UNCHANGED <<bridge, at, stage, outcome, strays>>
    BY <1>6 DEF TimerFires, OutputExceeds, Exits
  <2>2. child[c] \in Children /\ Signalled(c) \in {"none", "alive", "signalled", "ended"}
    BY <1>1 DEF Signalled, Children
  <2>3. child' \in [Clients -> Children]
    <3>1. CASE TimerFires(c)
      BY <1>1, <2>2, <3>1 DEF TimerFires, Children
    <3>2. CASE OutputExceeds(c)
      BY <1>1, <2>2, <3>2 DEF OutputExceeds, Children
    <3>3. CASE Exits(c)
      <4>1. PICK code \in {"ok", "bad"} :
               child' = [child EXCEPT ![c].state = "ended", ![c].code = code]
        BY <3>3 DEF Exits
      <4> QED BY <1>1, <2>2, <4>1 DEF Children
    <3> QED BY <1>6, <3>1, <3>2, <3>3
  <2> QED BY <2>1, <2>3, QuietKeeps
<1>7. ASSUME NEW c \in Clients, PipeFails(c) \/ Closes(c) PROVE BridgeInv'
  <2>1. /\ stage[c] = "running" /\ child' = [child EXCEPT ![c] = NoChild] /\ UNCHANGED at
        /\ Heavy(at[c]) => c \in Holders
    BY <1>7 DEF PipeFails, Closes, Running, Holders
  <2>2. child' \in [Clients -> Children]
    <3>1. NoChild \in Children
      BY DEF NoChild, Children
    <3> QED BY <1>1, <2>1, <3>1
  <2>3. \A s \in strays' : s \in Clients \X Calls /\ s[2] \in CallsOf(s[1])
    <3>1. strays' \subseteq strays \cup {<<c, at[c]>>}
      BY <1>7 DEF PipeFails, Closes
    <3>2. at[c] \in CallsOf(c) /\ at[c] \in Calls
      BY <1>1, <2>1, CallsOfAreCalls
    <3> QED BY <1>1, <3>1, <3>2
  <2>4. PICK how \in Outcomes : Answer(c, how, flag)
    BY <1>7 DEF PipeFails, Closes, Status, Outcomes
  <2> QED BY <1>1, <2>1, <2>2, <2>3, <2>4, AnswerKeeps
<1>8. ASSUME NEW c \in Clients, Proceed(c) PROVE BridgeInv'
  BY <1>8, ProceedKeeps
<1>9. ASSUME StrayExits \/ Replace \/ Rest \/ UNCHANGED vars PROVE BridgeInv'
  <2>1. UNCHANGED <<bridge, at, stage, outcome, child>> /\ strays' \subseteq strays
    BY <1>9 DEF StrayExits, Replace, Rest, vars
  <2> QED BY <1>1, <2>1, QuietKeeps
<1> QED BY <1>2, <1>3, <1>4, <1>5, <1>6, <1>7, <1>8, <1>9 DEF Next

LEMMA BridgeHolds == Spec => []BridgeInv
<1>1. Init => BridgeInv
  <2> SUFFICES ASSUME Init PROVE BridgeInv
    OBVIOUS
  <2>1. CallTypes
    <3>1. \A c \in Clients : at[c] = FirstCall(c) /\ FirstCall(c) \in CallsOf(c)
      BY DEF Init, FirstCall, CallsOf
    <3>2. stage \in [Clients -> Stages] /\ outcome \in [Clients -> Outcomes]
      BY DEF Init, Stages, Outcomes
    <3>3. child \in [Clients -> Children]
      BY DEF Init, NoChild, Children
    <3>4. at \in [Clients -> Calls \cup Ends]
      BY DEF Init, FirstCall, Calls
    <3> QED BY <3>1, <3>2, <3>3, <3>4 DEF Init, CallTypes
  <2>2. \A c \in Clients : stage[c] = "idle"
    BY DEF Init
  <2>3. QueueInv
    <3>1. queue = <<>> /\ queue \in Seq(Clients) /\ DOMAIN queue = {}
      BY DEF Init
    <3> QED BY <2>2, <3>1 DEF QueueInv
  <2>4. Holders = {}
    BY <2>2 DEF Holders
  <2>5. SlotCount
    BY <2>4, FS_EmptySet, BridgeBounds DEF Init, SlotCount
  <2> QED BY <2>1, <2>2, <2>3, <2>5 DEF Init, BridgeInv, HeavyWaits, FlagHeld
<1>2. BridgeInv /\ [Next]_vars => BridgeInv'
  BY BridgeSteps
<1> QED BY <1>1, <1>2, PTL DEF Spec

\* Slots and queue agree with the calls, and the mutation flag never outlives the calls
\* that set it, however a call ends (callCbmTool's finally block).
THEOREM BridgeLeaksNothing == Spec => []NothingLeaks
<1>1. BridgeInv => NothingLeaks
  <2> SUFFICES ASSUME BridgeInv PROVE NothingLeaks
    OBVIOUS
  <2>1. {queue[i] : i \in DOMAIN queue} = {c \in Clients : stage[c] = "waiting"}
    <3>1. \A i \in DOMAIN queue : queue[i] \in Clients
      BY DEF BridgeInv, QueueInv
    <3> QED BY <3>1 DEF BridgeInv, QueueInv
  <2> QED BY <2>1 DEF BridgeInv, SlotCount, NothingLeaks, SlotsAccounted
<1> QED BY <1>1, BridgeHolds, PTL

-----------------------------------------------------------------------------
(* The store of the program                                                *)

LEMMA StoredTyped ==
    ASSUME StoreTypes, NEW c \in Clients, NEW call \in CallsOf(c)
    PROVE  Stored(c, call) \subseteq Contents
<1>1. call = "update" => c \in Editors
  BY DEF CallsOf
<1>2. adr \in Contents /\ None \in Contents /\ got[c].snapshot \in Contents
  BY DEF StoreTypes, Contents
<1> QED BY <1>1, <1>2 DEF Stored, Contents

LEMMA StoreSteps ==
    ASSUME BridgeInv, StoreTypes, [Next]_vars
    PROVE  StoreTypes'
<1>1. ASSUME UNCHANGED store PROVE StoreTypes'
  BY <1>1 DEF StoreTypes, store
<1>2. ASSUME NEW c \in Clients,
             \/ Probe(c) \/ Enter(c) \/ Resume(c) \/ SlotTimeout(c) \/ TimerFires(c)
             \/ OutputExceeds(c) \/ PipeFails(c) \/ Closes(c)
      PROVE  StoreTypes'
  BY <1>1, <1>2
     DEF Probe, Enter, Resume, SlotTimeout, TimerFires, OutputExceeds, PipeFails, Closes
<1>3. ASSUME NEW c \in Clients, Exits(c) PROVE StoreTypes'
  <2>1. at[c] \in CallsOf(c)
    BY <1>3 DEF Exits, Running, BridgeInv, CallTypes
  <2>2. adr' \in Stored(c, at[c]) \cup {adr}
    BY <1>3 DEF Exits
  <2>3. adr' \in Contents
    BY <2>1, <2>2, StoredTyped DEF StoreTypes
  <2>4. got' \in {got, [got EXCEPT ![c].now = adr]}
    BY <1>3 DEF Exits
  <2> QED BY <2>3, <2>4 DEF StoreTypes
<1>4. ASSUME NEW c \in Clients, Proceed(c) PROVE StoreTypes'
  <2>1. adr' = adr /\ got' \in {got, [got EXCEPT ![c].snapshot = got[c].now]}
    BY <1>4 DEF Proceed
  <2> QED BY <2>1 DEF StoreTypes
<1>5. ASSUME StrayExits PROVE StoreTypes'
  <2>1. PICK s \in strays : adr' \in Stored(s[1], s[2]) \cup {adr}
    BY <1>5 DEF StrayExits
  <2>2. s[1] \in Clients /\ s[2] \in CallsOf(s[1])
    BY DEF BridgeInv, CallTypes
  <2>3. adr' \in Contents
    BY <2>1, <2>2, StoredTyped DEF StoreTypes
  <2> QED BY <1>5, <2>3 DEF StrayExits, StoreTypes
<1>6. ASSUME Replace \/ Rest \/ UNCHANGED vars PROVE StoreTypes'
  BY <1>1, <1>6 DEF Replace, Rest, vars
<1> QED BY <1>2, <1>3, <1>4, <1>5, <1>6 DEF Next

TypedInv == ProbeTypes /\ BridgeInv /\ StoreTypes

LEMMA TypedHolds == Spec => []TypedInv
<1>1. Init => ProbeTypes /\ StoreTypes
  BY BridgeBounds DEF Init, ProbeTypes, StoreTypes, Contents
<1>2. ProbeTypes /\ [Next]_vars => ProbeTypes'
  BY ProbeSteps
<1>3. BridgeInv /\ StoreTypes /\ [Next]_vars => StoreTypes'
  BY StoreSteps
<1> QED BY <1>1, <1>2, <1>3, BridgeHolds, PTL DEF Spec, TypedInv

\* Every variable keeps its type; the active reads never exceed the capacity.
THEOREM TypeCorrect == Spec => []TypeOK
<1>1. TypedInv => TypeOK
  <2> SUFFICES ASSUME TypedInv PROVE TypeOK
    OBVIOUS
  <2>1. active \in 0..Capacity
    BY FS_CardinalityType, BridgeBounds DEF TypedInv, BridgeInv, SlotCount
  <2>2. queue \in Seq(Clients)
    BY DEF TypedInv, BridgeInv, QueueInv
  <2>3. at \in [Clients -> Calls \cup Ends]
    BY DEF TypedInv, BridgeInv, CallTypes
  <2>4. strays \in SUBSET (Clients \X Calls)
    BY DEF TypedInv, BridgeInv, CallTypes
  <2>5. /\ flag \in {None, "manage_adr", "index_repository"}
        /\ stage \in [Clients -> Stages] /\ outcome \in [Clients -> Outcomes]
        /\ child \in [Clients -> Children]
    BY DEF TypedInv, BridgeInv, CallTypes, Native
  <2> QED BY <2>1, <2>2, <2>3, <2>4, <2>5
        DEF TypedInv, ProbeTypes, StoreTypes, TypeOK, Stages, Children
<1> QED BY <1>1, TypedHolds, PTL

-----------------------------------------------------------------------------
(* The ADR                                                                 *)

\* The call of c succeeded, or is about to.
Finished(c) ==
    \/ stage[c] = "running" /\ child[c].state = "ended" /\ child[c].code = "ok"
    \/ stage[c] = "answered" /\ outcome[c] = "ok"

\* Nothing is verified or restored without a snapshot.
SnapshotTaken ==
    \A c \in Clients : at[c] \in {"verify", "restore", "warned"} => got[c].snapshot # None

\* The call of a stray process failed.
StraysFailed ==
    \A c \in Clients : \A call \in {"index", "restore"} :
        <<c, call>> \in strays =>
            \/ at[c] = IF call = "index" THEN "failed" ELSE "warned"
            \/ at[c] = call /\ stage[c] = "answered" /\ outcome[c] # "ok"

\* What the one indexing saw or wrote last is still there.
AdrThere(c) ==
    Finished(c) /\ (at[c] = "restore" \/ (at[c] = "verify" /\ got[c].now # None)) => adr # None

AdrInv ==
    /\ SnapshotTaken /\ StraysFailed
    /\ \A c \in Indexers : Indexers = {c} => AdrThere(c)

\* A client that the step is not about may at most be given a slot.
Unmoved(c) ==
    /\ UNCHANGED <<at[c], got[c], outcome[c], child[c]>>
    /\ stage'[c] = stage[c] \/ (stage[c] = "waiting" /\ stage'[c] = "resumed")

ClientStep(d) ==
    \/ Probe(d) \/ Enter(d) \/ Resume(d) \/ SlotTimeout(d) \/ TimerFires(d)
    \/ OutputExceeds(d) \/ PipeFails(d) \/ Closes(d) \/ Exits(d) \/ Proceed(d)

LEMMA LaunchOwn ==
    ASSUME BridgeInv, NEW c \in Clients, stage[c] # "waiting", Launch(c)
    PROVE  /\ ~Finished(c)'
           /\ \A d \in Clients \ {c} : /\ UNCHANGED <<outcome[d], child[d]>>
                                       /\ \/ stage'[d] = stage[d]
                                          \/ stage[d] = "waiting" /\ stage'[d] = "resumed"
<1>1. /\ stage \in [Clients -> Stages] /\ child \in [Clients -> Children]
      /\ outcome \in [Clients -> Outcomes]
  BY DEF BridgeInv, CallTypes
<1>2. PICK new \in {"running", "answered"} : Only(c, new)
  BY <1>1, LaunchEffect DEF BridgeInv
<1>3. CASE /\ child' = [child EXCEPT ![c] = [NoChild EXCEPT !.state = "alive"]]
           /\ stage' = [stage EXCEPT ![c] = "running"]
           /\ UNCHANGED outcome
  <2>1. child'[c].state = "alive" /\ stage'[c] = "running"
    BY <1>1, <1>3 DEF NoChild
  <2>2. \A d \in Clients \ {c} : UNCHANGED <<outcome[d], child[d]>>
    BY <1>1, <1>3
  <2> QED BY <1>2, <2>1, <2>2 DEF Only, Finished
<1>4. ASSUME NEW held, Answer(c, "spawn_error", held), UNCHANGED child
      PROVE  /\ ~Finished(c)'
             /\ \A d \in Clients \ {c} : UNCHANGED <<outcome[d], child[d]>>
  <2>1. Only(c, "answered") /\ outcome' = [outcome EXCEPT ![c] = "spawn_error"]
    BY <1>1, <1>4, AnswerEffect DEF Answer, BridgeInv
  <2> QED BY <1>1, <1>4, <2>1 DEF Only, Finished
<1>5. \/ /\ child' = [child EXCEPT ![c] = [NoChild EXCEPT !.state = "alive"]]
         /\ stage' = [stage EXCEPT ![c] = "running"]
         /\ UNCHANGED outcome
      \/ \E held : Answer(c, "spawn_error", held) /\ UNCHANGED child
  BY DEF Launch
<1> QED BY <1>2, <1>3, <1>4, <1>5 DEF Only

\* An answer: of the call of c, which succeeded only if its process did.
LEMMA AnswerOwn ==
    ASSUME BridgeInv, NEW c \in Clients, stage[c] = "running", NEW how, NEW held,
           Answer(c, how, held), child' = [child EXCEPT ![c] = NoChild],
           how = "ok" => Finished(c)
    PROVE  /\ stage'[c] = "answered" /\ outcome'[c] = how
           /\ Finished(c)' => Finished(c)
           /\ \A d \in Clients \ {c} : /\ UNCHANGED <<outcome[d], child[d]>>
                                       /\ \/ stage'[d] = stage[d]
                                          \/ stage[d] = "waiting" /\ stage'[d] = "resumed"
<1>1. /\ stage \in [Clients -> Stages] /\ child \in [Clients -> Children]
      /\ outcome \in [Clients -> Outcomes]
  BY DEF BridgeInv, CallTypes
<1>2. Only(c, "answered") /\ outcome' = [outcome EXCEPT ![c] = how]
  BY <1>1, AnswerEffect DEF Answer, BridgeInv
<1> QED BY <1>1, <1>2 DEF Only, Finished

\* What a step of c leaves of the others, and what it may make of its own call.
LEMMA ClientSteps ==
    ASSUME BridgeInv, StoreTypes, NEW c \in Clients, ClientStep(c)
    PROVE  /\ \A d \in Clients \ {c} : Unmoved(d)
           /\ ~Proceed(c) => at'[c] = at[c] /\ stage[c] # "answered"
           /\ ~Proceed(c) /\ ~Exits(c) =>
                 got'[c] = got[c] /\ adr' = adr /\ (Finished(c)' => Finished(c))
           /\ ~PipeFails(c) => strays' = strays
<1> DEFINE Goal ==
      /\ \A d \in Clients \ {c} : Unmoved(d)
      /\ ~Proceed(c) => at'[c] = at[c] /\ stage[c] # "answered"
      /\ ~Proceed(c) /\ ~Exits(c) =>
            got'[c] = got[c] /\ adr' = adr /\ (Finished(c)' => Finished(c))
      /\ ~PipeFails(c) => strays' = strays
<1>0. /\ stage \in [Clients -> Stages] /\ child \in [Clients -> Children]
      /\ outcome \in [Clients -> Outcomes] /\ at \in [Clients -> Calls \cup Ends]
      /\ got \in [Clients -> [now : Contents, snapshot : Contents]]
  BY DEF BridgeInv, CallTypes, StoreTypes
<1>1. ASSUME UNCHANGED <<at, store, strays>>, stage[c] # "answered",
             Finished(c)' => Finished(c),
             \A d \in Clients \ {c} : /\ UNCHANGED <<outcome[d], child[d]>>
                                      /\ \/ stage'[d] = stage[d]
                                         \/ stage[d] = "waiting" /\ stage'[d] = "resumed"
      PROVE  Goal
  BY <1>1 DEF Unmoved, store
<1> HIDE DEF Goal
<1>2. ASSUME Probe(c) PROVE Goal
  BY <1>1, <1>2 DEF Probe, Enters, Finished
<1>3. ASSUME Enter(c) PROVE Goal
  <2>1. stage[c] \in {"idle", "next"} /\ UNCHANGED <<at, store, strays>>
    BY <1>3 DEF Enter, Enters
  <2>2. CASE (Refuse(c, "unavailable") \/ Refuse(c, "mutation_busy")) /\ UNCHANGED child
    <3>1. PICK how \in {"unavailable", "mutation_busy"} : Refuse(c, how)
      BY <2>2
    <3>2. stage'[c] = "answered" /\ outcome'[c] # "ok"
      BY <1>0, <3>1 DEF Refuse
    <3>3. \A d \in Clients \ {c} : UNCHANGED <<outcome[d], child[d], stage[d]>>
      BY <1>0, <2>2, <3>1 DEF Refuse
    <3> QED BY <1>1, <2>1, <3>2, <3>3 DEF Finished
  <2>3. CASE Acquire(c)
    <3>1. PICK new \in {"granted", "waiting"} : stage' = [stage EXCEPT ![c] = new]
      BY <2>3 DEF Acquire
    <3>2. UNCHANGED <<outcome, child>>
      BY <2>3 DEF Acquire
    <3> QED BY <1>0, <1>1, <2>1, <3>1, <3>2 DEF Finished
  <2>4. CASE Launch(c)
    BY <1>1, <2>1, <2>4, LaunchOwn
  <2> QED BY <1>3, <2>2, <2>3, <2>4 DEF Enter
<1>4. ASSUME Resume(c) PROVE Goal
  BY <1>1, <1>4, LaunchOwn DEF Resume
<1>5. ASSUME SlotTimeout(c) PROVE Goal
  <2>1. /\ stage' = [stage EXCEPT ![c] = "answered"] /\ stage[c] = "waiting"
        /\ outcome' = [outcome EXCEPT ![c] = "queue_timeout"]
        /\ UNCHANGED <<at, store, strays, child>>
    BY <1>5 DEF SlotTimeout, Refuse
  <2> QED BY <1>0, <1>1, <2>1 DEF Finished
<1>6. ASSUME TimerFires(c) \/ OutputExceeds(c) PROVE Goal
  <2>1. stage[c] = "running" /\ UNCHANGED <<at, store, strays, stage, outcome>>
    BY <1>6 DEF TimerFires, OutputExceeds, Running
  <2>2. \A d \in Clients \ {c} : child'[d] = child[d]
    BY <1>0, <1>6 DEF TimerFires, OutputExceeds
  <2>3. child'[c].state = Signalled(c) /\ child'[c].code = child[c].code
    BY <1>0, <1>6 DEF TimerFires, OutputExceeds, Children
  <2>4. Finished(c)' => Finished(c)
    BY <2>1, <2>3 DEF Finished, Signalled
  <2> QED BY <1>1, <2>1, <2>2, <2>4
<1>7. ASSUME Closes(c) PROVE Goal
  <2>1. /\ stage[c] = "running" /\ UNCHANGED <<at, store, strays>>
        /\ Answer(c, Status(c), flag) /\ child' = [child EXCEPT ![c] = NoChild]
    BY <1>7 DEF Closes, Running
  <2>2. Status(c) = "ok" => Finished(c)
    BY <1>7, <2>1 DEF Closes, Status, Finished
  <2> QED BY <1>1, <2>1, <2>2, AnswerOwn
<1>8. ASSUME PipeFails(c) PROVE Goal
  <2>1. /\ stage[c] = "running" /\ UNCHANGED <<at, store>>
        /\ Answer(c, "spawn_error", flag) /\ child' = [child EXCEPT ![c] = NoChild]
    BY <1>8 DEF PipeFails, Running
  <2> QED BY <1>8, <2>1, AnswerOwn DEF Goal, Unmoved, store
<1>9. ASSUME Exits(c) PROVE Goal
  <2>1. stage[c] = "running" /\ UNCHANGED <<at, strays, stage, outcome>>
    BY <1>9 DEF Exits, Running
  <2>2. \A d \in Clients \ {c} : child'[d] = child[d] /\ got'[d] = got[d]
    BY <1>0, <1>9 DEF Exits
  <2> QED BY <1>9, <2>1, <2>2 DEF Goal, Unmoved
<1>10. ASSUME Proceed(c) PROVE Goal
  <2>1. \A d \in Clients \ {c} : at'[d] = at[d] /\ stage'[d] = stage[d]
    BY <1>0, <1>10 DEF Proceed, Goes
  <2>2. \A d \in Clients \ {c} : outcome'[d] = outcome[d] /\ got'[d] = got[d]
    BY <1>0, <1>10 DEF Proceed
  <2> QED BY <1>10, <2>1, <2>2 DEF Proceed, Goal, Unmoved
<1> QED BY <1>2, <1>3, <1>4, <1>5, <1>6, <1>7, <1>8, <1>9, <1>10 DEF ClientStep, Goal

\* The parts of the invariant that a step of c, other than Proceed, keeps.
LEMMA StraysMove ==
    ASSUME BridgeInv, StoreTypes, AdrInv, NEW c \in Clients, ClientStep(c), ~Proceed(c)
    PROVE  SnapshotTaken' /\ StraysFailed'
<1>1. /\ \A d \in Clients \ {c} : Unmoved(d)
      /\ at'[c] = at[c] /\ stage[c] # "answered"
      /\ ~PipeFails(c) => strays' = strays
  BY ClientSteps
<1>2. got'[c].snapshot = got[c].snapshot
  <2>1. CASE Exits(c)
    BY <2>1 DEF Exits, StoreTypes
  <2>2. CASE ~Exits(c)
    BY <2>2, ClientSteps
  <2> QED BY <2>1, <2>2
<1>3. SnapshotTaken'
  BY <1>1, <1>2 DEF AdrInv, SnapshotTaken, Unmoved
<1>4. ASSUME NEW d \in Clients, NEW call \in {"index", "restore"}, <<d, call>> \in strays
      PROVE  \/ at'[d] = IF call = "index" THEN "failed" ELSE "warned"
             \/ at'[d] = call /\ stage'[d] = "answered" /\ outcome'[d] # "ok"
  <2>1. \/ at[d] = IF call = "index" THEN "failed" ELSE "warned"
        \/ at[d] = call /\ stage[d] = "answered" /\ outcome[d] # "ok"
    BY <1>4 DEF AdrInv, StraysFailed
  <2>2. CASE d = c
    BY <1>1, <2>1, <2>2
  <2>3. CASE d # c
    BY <1>1, <2>1, <2>3 DEF Unmoved
  <2> QED BY <2>2, <2>3
<1>5. StraysFailed'
  <2>1. CASE strays' \subseteq strays
    BY <1>4, <2>1 DEF StraysFailed
  <2>2. CASE PipeFails(c)
    <3>1. strays' \subseteq strays \cup {<<c, at[c]>>} /\ stage[c] = "running"
      BY <2>2 DEF PipeFails, Running
    <3>2. Answer(c, "spawn_error", flag) /\ child' = [child EXCEPT ![c] = NoChild]
      BY <2>2 DEF PipeFails
    <3>3. stage'[c] = "answered" /\ outcome'[c] # "ok"
      <4>1. stage'[c] = "answered" /\ outcome'[c] = "spawn_error"
        <5> HIDE DEF AdrInv
        <5> QED BY <3>1, <3>2, AnswerOwn
      <4> QED BY <4>1
    <3>4. ASSUME NEW d \in Clients, NEW call \in {"index", "restore"}, <<d, call>> \in strays',
                 <<d, call>> \notin strays
          PROVE  at'[d] = call /\ stage'[d] = "answered" /\ outcome'[d] # "ok"
      <4>1. d = c /\ call = at[c]
        BY <3>1, <3>4
      <4> QED BY <1>1, <3>3, <4>1
    <3> QED BY <1>4, <3>4 DEF StraysFailed
  <2> QED BY <1>1, <2>1, <2>2
<1> QED BY <1>3, <1>5

\* A process takes away an ADR only when it indexes.
LEMMA AdrLost ==
    ASSUME NEW c \in Clients, NEW call \in CallsOf(c), call # "index",
           call = "restore" => got[c].snapshot # None, adr # None
    PROVE  None \notin Stored(c, call)
<1>1. call = "update" => c \in Editors
  BY DEF CallsOf
<1> QED BY <1>1, NamesDiffer DEF Stored, None

LEMMA AdrThereMoves ==
    ASSUME BridgeInv, StoreTypes, AdrInv, NEW c \in Clients, ClientStep(c),
           NEW d \in Indexers, Indexers = {d}
    PROVE  AdrThere(d)'
<1>1. d \in Clients /\ AdrThere(d)
  BY DEF Clients, AdrInv
<1>2. \A e \in Clients \ {c} : Unmoved(e)
  BY ClientSteps
<1>3. CASE d # c
  <2>1. Unmoved(d) /\ (Finished(d)' => Finished(d))
    BY <1>1, <1>2, <1>3 DEF Unmoved, Finished
  <2>2. CASE ~Exits(c)
    <3>1. adr' = adr
      <4>1. CASE Proceed(c)
        BY <4>1 DEF Proceed
      <4>2. CASE ~Proceed(c)
        BY <2>2, <4>2, ClientSteps
      <4> QED BY <4>1, <4>2
    <3> QED BY <1>1, <2>1, <3>1 DEF AdrThere, Unmoved
  <2>3. CASE Exits(c) /\ adr # None
    <3>1. at[c] \in CallsOf(c) /\ c \notin Indexers
      BY <1>3, <2>3 DEF Exits, Running, BridgeInv, CallTypes
    <3>2. at[c] \in {"update", "search"}
      BY <3>1 DEF CallsOf
    <3>3. None \notin Stored(c, at[c])
      BY <2>3, <3>1, <3>2, AdrLost
    <3>4. adr' \in Stored(c, at[c]) \cup {adr}
      BY <2>3 DEF Exits
    <3> QED BY <2>3, <3>3, <3>4 DEF AdrThere
  <2>4. CASE Exits(c) /\ adr = None
    <3>1. ~(Finished(d) /\ (at[d] = "restore" \/ (at[d] = "verify" /\ got[d].now # None)))
      BY <1>1, <2>4 DEF AdrThere
    <3> QED BY <2>1, <3>1 DEF AdrThere, Unmoved
  <2> QED BY <2>2, <2>3, <2>4
<1>4. CASE d = c /\ Proceed(c)
  <2>1. stage'[c] \in {"idle", "next"}
    BY <1>4 DEF Proceed, Goes, BridgeInv, CallTypes
  <2> QED BY <1>4, <2>1 DEF AdrThere, Finished
<1>5. CASE d = c /\ ~Proceed(c) /\ ~Exits(c)
  BY <1>1, <1>5, ClientSteps DEF AdrThere
<1>6. CASE d = c /\ Exits(c)
  <2>1. PICK code \in {"ok", "bad"} :
           /\ child' = [child EXCEPT ![c].state = "ended", ![c].code = code]
           /\ adr' \in Stored(c, at[c]) \cup (IF code = "bad" THEN {adr} ELSE {})
    BY <1>6 DEF Exits
  <2>2. stage' = stage /\ stage[c] = "running" /\ at' = at
    BY <1>6 DEF Exits, Running
  <2>3. child'[c].code = code
    BY <2>1 DEF BridgeInv, CallTypes, Children
  <2>4. Finished(c)' => code = "ok"
    BY <2>2, <2>3 DEF Finished
  <2>5. CASE at[c] = "verify"
    <3>1. adr' = adr /\ got' = [got EXCEPT ![c].now = adr]
      BY <1>6, <2>1, <2>5 DEF Exits, Stored
    <3>2. got'[c].now = adr
      BY <3>1 DEF StoreTypes
    <3> QED BY <1>6, <2>2, <2>5, <3>1, <3>2 DEF AdrThere
  <2>6. CASE at[c] = "restore"
    <3>1. got[c].snapshot # None
      BY <2>6 DEF AdrInv, SnapshotTaken
    <3>2. code = "ok" => adr' = got[c].snapshot
      BY <2>1, <2>6 DEF Stored
    <3> QED BY <1>6, <2>4, <3>1, <3>2 DEF AdrThere
  <2>7. CASE at[c] \notin {"verify", "restore"}
    BY <1>6, <2>2, <2>7 DEF AdrThere
  <2> QED BY <2>5, <2>6, <2>7
<1> QED BY <1>3, <1>4, <1>5, <1>6

LEMMA AdrSteps ==
    ASSUME BridgeInv, StoreTypes, AdrInv, [Next]_vars
    PROVE  AdrInv'
<1>1. ASSUME NEW c \in Clients, Proceed(c) PROVE AdrInv'
  <2>1. /\ at' = [at EXCEPT ![c] = Following(c)] /\ strays' = strays
        /\ stage[c] = "answered" /\ at[c] \in Calls
        /\ got' = IF at[c] = "get" /\ Ok(c) THEN [got EXCEPT ![c].snapshot = got[c].now] ELSE got
    BY <1>1, CallsOfAreCalls DEF Proceed, Goes, BridgeInv, CallTypes
  <2>2. \A d \in Clients \ {c} : Unmoved(d)
    BY <1>1, ClientSteps DEF ClientStep
  <2>3. at'[c] = Following(c)
    BY <2>1 DEF BridgeInv, CallTypes
  <2>4. at'[c] \in {"verify", "restore", "warned"} => got'[c].snapshot # None
    <3>1. CASE at[c] = "index"
      BY <2>1, <2>3, <3>1 DEF Following
    <3>2. CASE at[c] \in {"verify", "restore"}
      BY <2>1, <3>2 DEF AdrInv, SnapshotTaken
    <3>3. CASE at[c] \in {"list", "get", "update", "search"}
      BY <2>3, <3>3 DEF Following
    <3> QED BY <2>1, <3>1, <3>2, <3>3 DEF Calls
  <2>5. SnapshotTaken'
    BY <2>2, <2>4 DEF AdrInv, SnapshotTaken, Unmoved
  <2>6. ASSUME NEW d \in Clients, NEW call \in {"index", "restore"}, <<d, call>> \in strays'
        PROVE  \/ at'[d] = IF call = "index" THEN "failed" ELSE "warned"
               \/ at'[d] = call /\ stage'[d] = "answered" /\ outcome'[d] # "ok"
    <3>1. \/ at[d] = IF call = "index" THEN "failed" ELSE "warned"
          \/ at[d] = call /\ stage[d] = "answered" /\ outcome[d] # "ok"
      BY <2>1, <2>6 DEF AdrInv, StraysFailed
    <3>2. CASE d # c
      BY <2>2, <3>1, <3>2 DEF Unmoved
    <3>3. CASE d = c
      <4>1. at[c] = call /\ ~Ok(c)
        BY <2>1, <3>1, <3>3 DEF Ok, Calls
      <4> QED BY <2>3, <3>3, <4>1 DEF Following
    <3> QED BY <3>2, <3>3
  <2>7. StraysFailed'
    BY <2>6 DEF StraysFailed
  <2>8. \A d \in Indexers : Indexers = {d} => AdrThere(d)'
    BY <1>1, AdrThereMoves DEF ClientStep
  <2> QED BY <2>5, <2>7, <2>8 DEF AdrInv
<1>2. ASSUME NEW c \in Clients, ClientStep(c), ~Proceed(c) PROVE AdrInv'
  BY <1>2, StraysMove, AdrThereMoves DEF AdrInv
<1>3. ASSUME UNCHANGED <<at, stage, outcome, child, got>>, strays' \subseteq strays,
             \A c \in Indexers : Indexers = {c} => AdrThere(c)'
      PROVE  AdrInv'
  BY <1>3 DEF AdrInv, SnapshotTaken, StraysFailed
<1>4. ASSUME StrayExits PROVE AdrInv'
  <2>1. PICK s \in strays : adr' \in Stored(s[1], s[2]) \cup {adr}
    BY <1>4 DEF StrayExits
  <2>2. /\ UNCHANGED <<at, stage, outcome, child, got>> /\ strays' \subseteq strays
        /\ s \in Clients \X Calls /\ s[1] \in Clients /\ s[2] \in CallsOf(s[1])
    BY <1>4 DEF StrayExits, BridgeInv, CallTypes
  <2>3. ASSUME NEW c \in Indexers, Indexers = {c} PROVE AdrThere(c)'
    <3>1. CASE at[c] \notin {"verify", "restore"}
      BY <2>2, <3>1 DEF AdrThere
    <3>2. CASE at[c] \in {"verify", "restore"}
      <4>1. s = <<s[1], s[2]>>
        BY <2>2
      <4>2. s[2] # "index"
        <5>1. ASSUME s[2] = "index" PROVE FALSE
          <6>1. s[1] = c
            BY <2>2, <2>3, <5>1 DEF CallsOf
          <6> QED BY <2>1, <2>2, <3>2, <4>1, <5>1, <6>1 DEF AdrInv, StraysFailed
        <5> QED BY <5>1
      <4>3. s[2] = "restore" => got[s[1]].snapshot # None
        BY ZenonT(60), <2>1, <2>2, <4>1 DEF AdrInv, StraysFailed, SnapshotTaken
      <4>4. adr # None => adr' # None
        BY <2>1, <2>2, <4>2, <4>3, AdrLost
      <4>5. AdrThere(c)
        BY <2>3 DEF AdrInv
      <4> QED BY <2>2, <4>4, <4>5 DEF AdrThere, Finished
    <3> QED BY <3>1, <3>2
  <2> QED BY <1>3, <2>2, <2>3
<1>5. ASSUME Replace \/ Rest \/ UNCHANGED vars PROVE AdrInv'
  <2>1. UNCHANGED <<at, stage, outcome, child, got, adr, strays>>
    BY <1>5 DEF Replace, Rest, vars, store
  <2> QED BY <1>3, <2>1 DEF AdrInv, AdrThere, Finished
<1> QED BY <1>1, <1>2, <1>4, <1>5 DEF Next, ClientStep

LEMMA AdrHolds == Spec => [](TypedInv /\ AdrInv)
<1>1. Init => AdrInv
  BY DEF Init, AdrInv, SnapshotTaken, StraysFailed, AdrThere, Finished, Clients, FirstCall
<1>2. TypedInv /\ AdrInv /\ [Next]_vars => AdrInv'
  BY AdrSteps DEF TypedInv
<1> QED BY <1>1, <1>2, TypedHolds, PTL DEF Spec

\* cbm_index_repository does not lose an ADR in silence, whatever fails on the way and
\* whoever else writes, as long as nobody else indexes.
THEOREM AdrKept == Spec => AdrPreserved
<1>1. ASSUME TypedInv, AdrInv, [Next]_vars PROVE \A c \in Indexers : PreservedStep(c)
  <2> SUFFICES ASSUME NEW c \in Indexers, at[c] # "done", at'[c] = "done", Indexers = {c}
               PROVE  adr' # None
    BY DEF PreservedStep
  <2>1. BridgeInv /\ StoreTypes /\ c \in Clients /\ AdrThere(c)
    BY <1>1 DEF TypedInv, AdrInv, Clients
  <2>2. Proceed(c)
    <3>1. \A d \in Clients : ClientStep(d) => d = c /\ Proceed(c)
      BY <2>1, ClientSteps DEF Unmoved
    <3>2. ~(StrayExits \/ Replace \/ Rest \/ UNCHANGED vars)
      BY DEF StrayExits, Replace, Rest, vars
    <3> QED BY <1>1, <3>1, <3>2 DEF Next, ClientStep
  <2>3. adr' = adr /\ stage[c] = "answered" /\ Following(c) = "done" /\ at[c] \in CallsOf(c)
    BY <2>1, <2>2 DEF Proceed, Goes, BridgeInv, CallTypes
  <2>4. /\ at[c] \in {"verify", "restore"} /\ Ok(c)
        /\ at[c] = "verify" => got[c].now = got[c].snapshot
    BY <2>3 DEF Following, CallsOf
  <2>5. at[c] = "verify" => got[c].now # None
    BY <1>1, <2>1, <2>4 DEF AdrInv, SnapshotTaken
  <2> QED BY <2>1, <2>3, <2>4, <2>5 DEF AdrThere, Finished, Ok
<1>2. TypedInv /\ AdrInv /\ [Next]_vars => [\A c \in Indexers : PreservedStep(c)]_vars
  BY <1>1
<1> QED BY <1>2, AdrHolds, PTL DEF Spec, AdrPreserved

=============================================================================
