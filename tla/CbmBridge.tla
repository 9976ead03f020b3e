----------------------------- MODULE CbmBridge -----------------------------
(***************************************************************************)
(* The bridge to the codebase-memory command line program:                 *)
(* src/src/integrations/codebase_memory/cbm_cli_bridge.js, and the tool    *)
(* cbm_index_repository of cbm_tools.js, which makes several calls of it.  *)
(*                                                                         *)
(* A call checks the cached probe of the executable, is refused while      *)
(* another mutation is active, waits for one of a few slots if its tool is *)
(* a heavy read, and runs one child process.  cbm_index_repository lists   *)
(* the projects, takes a snapshot of the project's ADR, indexes, looks     *)
(* whether the ADR is still there and writes the snapshot back if not.     *)
(*                                                                         *)
(* Node runs all microtasks before the next event: while a client has just *)
(* got its slot or its answer (Micro), only such a client goes on.         *)
(*                                                                         *)
(* A definition with a suffix, such as Release_Frees, is a deliberately    *)
(* wrong variant of the definition after it.                               *)
(***************************************************************************)
EXTENDS Naturals, Sequences, FiniteSets

CONSTANTS
    Indexers,       \* clients that call cbm_index_repository
    Editors,        \* clients that call cbm_manage_adr to write the ADR
    Readers,        \* clients that call cbm_search_graph
    Capacity,       \* HEAVY_READ_CAPACITY
    MaxReplaced,    \* bound: times the executable is replaced
    MaxFaults       \* bound: probes, spawns and pipes that fail, children that fail or hang

ASSUME BridgeBounds == Capacity \in Nat \ {0} /\ MaxReplaced \in Nat /\ MaxFaults \in Nat
ASSUME Disjoint == /\ Indexers \cap Editors = {} /\ Indexers \cap Readers = {}
                   /\ Editors \cap Readers = {}
ASSUME NamesDiffer == "none" \notin Indexers \cup Editors \cup Readers

Clients == Indexers \cup Editors \cup Readers

VARIABLES
    binary,    \* the executable: which one, and whether it is a compatible one
    cached,    \* cachedAvailability: of which executable, and available
    flag,      \* activeMutationTool
    active,    \* activeHeavyReads
    queue,     \* heavyReadQueue
    at,        \* what a client is about to call, calls, or has called
    stage,     \* idle, next, waiting, granted, resumed (it waited), running, answered
    outcome,   \* how its last call ended
    child,     \* its process: none, alive, signalled, ended; and why signalled
    strays,    \* processes that outlived their call
    adr,       \* the ADR in the store of the program, which outlives its processes
    got,       \* what a client read of it: in the call, and as its snapshot
    replaced, faults

bridge == <<flag, active, queue>>
store == <<adr, got>>
vars == <<binary, cached, bridge, at, stage, outcome, child, strays, store, replaced, faults>>

None == "none"
Old == "old"                      \* the ADR there is at first
Contents == {None, Old} \cup Editors
Calls == {"list", "get", "index", "verify", "restore", "update", "search"}
NativeName ==
    [list |-> "list_projects", get |-> "manage_adr", index |-> "index_repository",
     verify |-> "manage_adr", restore |-> "manage_adr", update |-> "manage_adr",
     search |-> "search_graph"]
Heavy(call) == NativeName[call] \in {"manage_adr", "search_graph"}
Mutation(call) == NativeName[call] \in {"manage_adr", "index_repository"}

Ends == {"done", "unchecked", "warned", "failed"}
Outcomes == {None, "ok", "rejected", "timeout", "output_limit", "spawn_error",
             "unavailable", "mutation_busy", "queue_timeout"}
NoChild == [state |-> "none", late |-> FALSE, long |-> FALSE, code |-> "ok"]

TypeOK ==
    /\ binary \in [id : 0..MaxReplaced, good : BOOLEAN]
    /\ cached \in [id : 0..MaxReplaced, known : BOOLEAN, available : BOOLEAN]
    /\ flag \in {None, "manage_adr", "index_repository"}
    /\ active \in 0..Capacity
    /\ queue \in Seq(Clients)
    /\ at \in [Clients -> Calls \cup Ends]
    /\ stage \in [Clients -> {"idle", "next", "waiting", "granted", "resumed",
                            "running", "answered"}]
    /\ outcome \in [Clients -> Outcomes]
    /\ child \in [Clients -> [state : {"none", "alive", "signalled", "ended"},
                              late : BOOLEAN, long : BOOLEAN, code : {"ok", "bad"}]]
    /\ strays \in SUBSET (Clients \X Calls)
    /\ adr \in Contents
    /\ got \in [Clients -> [now : Contents, snapshot : Contents]]
    /\ replaced \in 0..MaxReplaced /\ faults \in 0..MaxFaults

FirstCall(c) ==
    IF c \in Indexers THEN "list" ELSE IF c \in Editors THEN "update" ELSE "search"

Init ==
    /\ binary = [id |-> 0, good |-> TRUE]
    /\ cached = [id |-> 0, known |-> FALSE, available |-> FALSE]
    /\ flag = None /\ active = 0 /\ queue = <<>>
    /\ at = [c \in Clients |-> FirstCall(c)]
    /\ stage = [c \in Clients |-> "idle"]
    /\ outcome = [c \in Clients |-> None]
    /\ child = [c \in Clients |-> NoChild]
    /\ strays = {}
    /\ adr = Old
    /\ got = [c \in Clients |-> [now |-> None, snapshot |-> None]]
    /\ replaced = 0 /\ faults = 0

Fails == faults < MaxFaults /\ faults' = faults + 1
Works == faults' = faults

-----------------------------------------------------------------------------
(* Slots and the mutation flag                                             *)

Micro == \E c \in Clients : stage[c] \in {"next", "granted", "resumed", "answered"}

\* releaseHeavyReadSlot: the slot goes to the first that waits.
Release_Frees(c, new) ==
    /\ active' = active - 1
    /\ queue' = queue
    /\ stage' = [stage EXCEPT ![c] = new]

Release(c, new) ==
    IF queue = <<>>
    THEN /\ active' = active - 1
         /\ queue' = queue
         /\ stage' = [stage EXCEPT ![c] = new]
    ELSE /\ active' = active
         /\ queue' = Tail(queue)
         /\ stage' = [stage EXCEPT ![c] = new, ![Head(queue)] = "resumed"]

\* The finally block of callCbmTool; held is activeMutationTool before it.
Answer(c, how, held) ==
    /\ outcome' = [outcome EXCEPT ![c] = how]
    /\ flag' = IF Mutation(at[c]) /\ held = NativeName[at[c]] THEN None ELSE held
    /\ IF Heavy(at[c]) THEN Release(c, "answered")
       ELSE stage' = [stage EXCEPT ![c] = "answered"] /\ UNCHANGED <<active, queue>>

\* An error result that comes before the try block.
Refuse(c, how) ==
    /\ outcome' = [outcome EXCEPT ![c] = how]
    /\ stage' = [stage EXCEPT ![c] = "answered"]

\* activeMutationTool is set, whatever it was, and the process started.
Launch(c) ==
    LET held == IF Mutation(at[c]) THEN NativeName[at[c]] ELSE flag
    IN  \/ /\ Works
           /\ child' = [child EXCEPT ![c] = [NoChild EXCEPT !.state = "alive"]]
           /\ flag' = held
           /\ stage' = [stage EXCEPT ![c] = "running"]
           /\ UNCHANGED <<active, queue, outcome>>
        \/ /\ Fails
           /\ Answer(c, "spawn_error", held)
           /\ child' = child

-----------------------------------------------------------------------------
(* callCbmTool                                                             *)

Enters(c) ==
    \/ stage[c] = "next"
    \/ stage[c] = "idle" /\ at[c] = FirstCall(c) /\ ~Micro

Probed_Once == cached.known
Probed == cached.known /\ cached.id = binary.id

\* probeCbmAvailability, when there is no answer for this executable.  A probe
\* that fails for another reason is remembered as well.
Probe(c) ==
    /\ Enters(c) /\ ~Probed
    /\ \/ Works /\ cached' = [id |-> binary.id, known |-> TRUE, available |-> binary.good]
       \/ Fails /\ cached' = [id |-> binary.id, known |-> TRUE, available |-> FALSE]
    /\ UNCHANGED <<binary, bridge, at, stage, outcome, child, strays, store, replaced>>

Busy(c) == Mutation(at[c]) /\ flag # None

\* acquireHeavyReadSlot
Acquire_OneMore(c) ==
    /\ IF active <= Capacity
       THEN /\ active' = active + 1
            /\ queue' = queue
            /\ stage' = [stage EXCEPT ![c] = "granted"]
       ELSE /\ active' = active
            /\ queue' = Append(queue, c)
            /\ stage' = [stage EXCEPT ![c] = "waiting"]
    /\ UNCHANGED <<flag, outcome, child>> /\ Works

Acquire(c) ==
    /\ IF active < Capacity
       THEN /\ active' = active + 1
            /\ queue' = queue
            /\ stage' = [stage EXCEPT ![c] = "granted"]
       ELSE /\ active' = active
            /\ queue' = Append(queue, c)
            /\ stage' = [stage EXCEPT ![c] = "waiting"]
    /\ UNCHANGED <<flag, outcome, child>> /\ Works

Enter(c) ==
    /\ Enters(c) /\ Probed
    /\ \/ /\ ~cached.available
          /\ Refuse(c, "unavailable")
          /\ UNCHANGED <<bridge, child>> /\ Works
       \/ /\ cached.available /\ Busy(c)
          /\ Refuse(c, "mutation_busy")
          /\ UNCHANGED <<bridge, child>> /\ Works
       \/ /\ cached.available /\ ~Busy(c)
          /\ IF Heavy(at[c]) THEN Acquire(c) ELSE Launch(c)
    /\ UNCHANGED <<binary, cached, at, strays, store, replaced>>

Resume(c) ==
    /\ stage[c] \in {"granted", "resumed"}
    /\ Launch(c)
    /\ UNCHANGED <<binary, cached, at, strays, store, replaced>>

SlotTimeout(c) ==
    /\ stage[c] = "waiting" /\ ~Micro
    /\ \E i \in DOMAIN queue :
          queue[i] = c /\ queue' = SubSeq(queue, 1, i - 1) \o SubSeq(queue, i + 1, Len(queue))
    /\ Refuse(c, "queue_timeout")
    /\ UNCHANGED <<binary, cached, flag, active, at, child, strays, store, replaced, faults>>

-----------------------------------------------------------------------------
(* runCbmProcess                                                           *)

Running(c) == stage[c] = "running" /\ ~Micro

Signalled(c) == IF child[c].state = "alive" THEN "signalled" ELSE child[c].state

TimerFires_KillsNothing(c) ==
    /\ Running(c) /\ ~child[c].late
    /\ child' = [child EXCEPT ![c].late = TRUE]
    /\ UNCHANGED <<binary, cached, bridge, at, stage, outcome, strays, store, replaced, faults>>

TimerFires(c) ==
    /\ Running(c) /\ ~child[c].late
    /\ child' = [child EXCEPT ![c].late = TRUE, ![c].state = Signalled(c)]
    /\ UNCHANGED <<binary, cached, bridge, at, stage, outcome, strays, store, replaced, faults>>

OutputExceeds(c) ==
    /\ Running(c) /\ ~child[c].long
    /\ Fails
    /\ child' = [child EXCEPT ![c].long = TRUE, ![c].state = Signalled(c)]
    /\ UNCHANGED <<binary, cached, bridge, at, stage, outcome, strays, store, replaced>>

\* The error event of stdin: the call ends, the process only by the signal.
PipeFails(c) ==
    /\ Running(c)
    /\ Fails
    /\ Answer(c, "spawn_error", flag)
    /\ child' = [child EXCEPT ![c] = NoChild]
    /\ strays' = IF child[c].state = "ended" THEN strays ELSE strays \cup {<<c, at[c]>>}
    /\ UNCHANGED <<binary, cached, at, store, replaced>>

Status(c) ==
    IF child[c].late THEN "timeout"
    ELSE IF child[c].long THEN "output_limit"
    ELSE IF child[c].code = "ok" THEN "ok" ELSE "rejected"

Closes(c) ==
    /\ Running(c) /\ child[c].state = "ended"
    /\ Answer(c, Status(c), flag)
    /\ child' = [child EXCEPT ![c] = NoChild]
    /\ UNCHANGED <<binary, cached, at, strays, store, replaced, faults>>

-----------------------------------------------------------------------------
(* The program and its store                                               *)

\* What a process of this call may have made of the ADR; indexing may lose it.
Stored(c, call) ==
    CASE call = "update" -> {c}
      [] call = "restore" -> {got[c].snapshot}
      [] call = "index" -> {adr, None}
      [] OTHER -> {adr}

\* A process ends; one that fails may have done its work or not.  One that is
\* not told to may go on for ever.
Exits(c) ==
    /\ Running(c) /\ child[c].state \in {"alive", "signalled"}
    /\ \E code \in {"ok", "bad"} :
        /\ child' = [child EXCEPT ![c].state = "ended", ![c].code = code]
        /\ IF code = "bad" /\ child[c].state = "alive" THEN Fails ELSE Works
        /\ adr' \in Stored(c, at[c]) \cup (IF code = "bad" THEN {adr} ELSE {})
    /\ got' = IF at[c] \in {"get", "verify"} THEN [got EXCEPT ![c].now = adr] ELSE got
    /\ UNCHANGED <<binary, cached, bridge, at, stage, outcome, strays, replaced>>

StrayExits ==
    /\ ~Micro
    /\ \E s \in strays : /\ strays' = strays \ {s}
                         /\ adr' \in Stored(s[1], s[2]) \cup {adr}
    /\ UNCHANGED <<binary, cached, bridge, at, stage, outcome, child, got, replaced, faults>>

Replace ==
    /\ replaced < MaxReplaced /\ ~Micro
    /\ replaced' = replaced + 1
    /\ binary' \in [id : {replaced + 1}, good : BOOLEAN]
    /\ UNCHANGED <<cached, bridge, at, stage, outcome, child, strays, store, faults>>

-----------------------------------------------------------------------------
(* cbm_index_repository                                                    *)

Goes(c, to) ==
    /\ at' = [at EXCEPT ![c] = to]
    /\ stage' = [stage EXCEPT ![c] = IF to \in Ends THEN "idle" ELSE "next"]

Ok(c) == outcome[c] = "ok"

\* What follows an answer.
Following_NoRestore(c) ==
    CASE at[c] = "list" -> IF Ok(c) THEN "get" ELSE "index"
      [] at[c] = "get" -> IF Ok(c) THEN "index" ELSE "failed"
      [] at[c] = "index" /\ ~Ok(c) -> "failed"
      [] at[c] = "index" /\ Ok(c) ->
            IF got[c].snapshot = None THEN "unchecked" ELSE "verify"
      [] at[c] = "verify" -> IF Ok(c) /\ got[c].now = None THEN "restore" ELSE "done"
      [] at[c] = "restore" -> IF Ok(c) THEN "done" ELSE "warned"
      [] OTHER -> IF Ok(c) THEN "done" ELSE "failed"

Following(c) ==
    CASE at[c] = "list" -> IF Ok(c) THEN "get" ELSE "index"
      [] at[c] = "get" -> IF Ok(c) THEN "index" ELSE "failed"
      [] at[c] = "index" /\ ~Ok(c) -> "failed"
      [] at[c] = "index" /\ Ok(c) ->
            IF got[c].snapshot = None THEN "unchecked" ELSE "verify"
      [] at[c] = "verify" ->
            IF Ok(c) /\ got[c].now = got[c].snapshot THEN "done" ELSE "restore"
      [] at[c] = "restore" -> IF Ok(c) THEN "done" ELSE "warned"
      [] OTHER -> IF Ok(c) THEN "done" ELSE "failed"

Proceed(c) ==
    /\ stage[c] = "answered"
    /\ Goes(c, Following(c))
    /\ got' = IF at[c] = "get" /\ Ok(c) THEN [got EXCEPT ![c].snapshot = got[c].now] ELSE got
    /\ outcome' = [outcome EXCEPT ![c] = None]
    /\ UNCHANGED <<binary, cached, bridge, child, strays, adr, replaced, faults>>

\* Every client has its answer.
Rest ==
    /\ \A c \in Clients : at[c] \in Ends
    /\ UNCHANGED vars

Next ==
    \/ \E c \in Clients :
        \/ Probe(c) \/ Enter(c) \/ Resume(c) \/ SlotTimeout(c) \/ TimerFires(c)
        \/ OutputExceeds(c) \/ PipeFails(c) \/ Closes(c) \/ Exits(c) \/ Proceed(c)
    \/ StrayExits \/ Replace \/ Rest

Spec == Init /\ [][Next]_vars

\* The event loop runs its microtasks and its timers; a signalled process ends
\* (SIGKILL follows SIGTERM after half a second) and is closed.
Fairness ==
    \A c \in Clients :
        /\ WF_vars(Probe(c) \/ Enter(c) \/ Resume(c) \/ Proceed(c))
        /\ WF_vars(TimerFires(c))
        /\ WF_vars(Exits(c) /\ child[c].state = "signalled")
        /\ WF_vars(Closes(c))
FairSpec == Spec /\ Fairness

-----------------------------------------------------------------------------
(* Properties                                                              *)

Holders ==
    {c \in Clients : stage[c] \in {"granted", "resumed", "running"} /\ Heavy(at[c])}

\* Every slot has a holder, every place in the queue someone who waits, and nobody
\* waits while a slot is free.
SlotsAccounted ==
    /\ active = Cardinality(Holders)
    /\ {queue[i] : i \in DOMAIN queue} = {c \in Clients : stage[c] = "waiting"}
    /\ queue # <<>> => active = Capacity

FlagHeld ==
    flag # None =>
        \E c \in Clients : at[c] \in Calls /\ stage[c] = "running" /\ NativeName[at[c]] = flag

\* Nothing is lost or held for ever: slots and queue agree with the calls, and the
\* mutation flag never outlives the calls that set it, however a call ends.
NothingLeaks == SlotsAccounted /\ FlagHeld

\* An executable that was not probed and accepted is only run by a call that
\* had to wait for a slot after it asked.
AcceptedStep(c) ==
    stage[c] # "running" /\ stage'[c] = "running" /\ ~binary.good => stage[c] = "resumed"

AcceptedUnlessWaited == [][\A c \in Clients : AcceptedStep(c)]_vars

\* cbm_index_repository does not lose an ADR in silence: when it took a snapshot
\* and succeeds without a warning, the store has an ADR, whatever failed on the
\* way and whoever else wrote meanwhile (but for another indexing).
PreservedStep(c) == at[c] # "done" /\ at'[c] = "done" => adr' # None \/ Indexers # {c}

AdrPreserved == [][\A c \in Indexers : PreservedStep(c)]_vars

\* Every call ends with an answer: a slot, a child that hangs or a signal that
\* has to be repeated never keep a client for ever.
CallsEnd == \A c \in Clients : stage[c] # "idle" ~> at[c] \in Ends

\* At most one mutation runs at a time, as the tool's description says.
OneMutation ==
    Cardinality({c \in Clients : stage[c] = "running" /\ Mutation(at[c])}) <= 1
=============================================================================
