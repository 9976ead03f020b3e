--------------------------- MODULE ContentStages ---------------------------
(***************************************************************************)
(* Content uploaded in chunks before a file is changed with it:            *)
(* src/src/util/content_stage_manager.js over content_stage_store.js.      *)
(*                                                                         *)
(* A client creates a stage, appends chunks under consecutive sequence     *)
(* numbers, seals it and later releases it; what is not used for the       *)
(* retention time expires and is deleted by whoever comes next.  Every     *)
(* operation is one SQLite transaction, so that a crash changes nothing.   *)
(* A client sends its n-th chunk under the number n, perhaps several times *)
(* and in any order; a chunk counts one unit against the byte limits.  The *)
(* values a client expects when it seals can only refuse its call.         *)
(***************************************************************************)
EXTENDS Naturals, Sequences, FiniteSets

CONSTANTS
    Owners,        \* the clients
    Stages,        \* the stages they may create
    StageLimit,    \* maxStageBytes
    OwnerLimit,    \* maxOwnerBytes
    OwnerStages    \* maxOwnerStages

Nobody == "nobody"

ASSUME StageAssumption ==
    /\ Nobody \notin Owners
    /\ StageLimit \in Nat \ {0} /\ OwnerStages \in Nat \ {0}
    /\ OwnerLimit \in Nat /\ OwnerLimit >= StageLimit

VARIABLE stage    \* state, owner and chunks of every stage; due: its time is over

Unborn == [state |-> "unborn", owner |-> Nobody, chunks |-> <<>>, due |-> FALSE]
Gone == [Unborn EXCEPT !.state = "gone"]

StagesTypeOK ==
    stage \in [Stages -> [state : {"unborn", "open", "sealed", "gone"},
                          owner : Owners \cup {Nobody},
                          chunks : Seq(Nat), due : BOOLEAN]]

StagesInit == stage = [s \in Stages |-> Unborn]

\* What is left when the expired stages are deleted: every operation but release
\* begins with that.
Pruned == [s \in Stages |-> IF stage[s].due THEN Gone ELSE stage[s]]

OwnedBy(o, stages) == {s \in Stages : stages[s].owner = o}
Held(o, stages) == UNION {{s} \X DOMAIN stages[s].chunks : s \in OwnedBy(o, stages)}
BytesOf(o, stages) == Cardinality(Held(o, stages))
IsOpen(o, s) == Pruned[s].owner = o /\ Pruned[s].state = "open"
IsSealed(o, s) == Pruned[s].owner = o /\ Pruned[s].state = "sealed"

Create(o, s) ==
    /\ stage[s] = Unborn
    /\ Cardinality(OwnedBy(o, Pruned)) < OwnerStages
    /\ BytesOf(o, Pruned) < OwnerLimit
    /\ stage' = [Pruned EXCEPT ![s] = [Unborn EXCEPT !.state = "open", !.owner = o]]

Add_AnySequence(o, s, n) ==
    /\ IsOpen(o, s)
    /\ Len(Pruned[s].chunks) < StageLimit
    /\ BytesOf(o, Pruned) < OwnerLimit
    /\ stage' = [Pruned EXCEPT ![s].chunks = Append(@, n)]

\* append(): the chunk with the next number, which renews the stage's time.
Add(o, s, n) ==
    /\ IsOpen(o, s)
    /\ n = Len(Pruned[s].chunks)
    /\ Len(Pruned[s].chunks) < StageLimit
    /\ BytesOf(o, Pruned) < OwnerLimit
    /\ stage' = [Pruned EXCEPT ![s].chunks = Append(@, n)]

\* From here on the chunks do not change.
Seal(o, s) ==
    /\ IsOpen(o, s)
    /\ stage' = [Pruned EXCEPT ![s].state = "sealed"]

\* The only operation that finds a stage whose time is over.
Release(o, s) ==
    /\ stage[s].owner = o
    /\ stage' = [stage EXCEPT ![s] = Gone]

\* The retention time of a stage runs out.
Expire(s) ==
    /\ stage[s].state \in {"open", "sealed"} /\ ~stage[s].due
    /\ stage' = [stage EXCEPT ![s].due = TRUE]

\* status(), and a call that is refused.
Prune == stage' = Pruned

StageStep(s) ==
    \/ \E o \in Owners : \/ Create(o, s) \/ Seal(o, s) \/ Release(o, s)
                         \/ \E n \in 0..StageLimit : Add(o, s, n)
    \/ Expire(s)

-----------------------------------------------------------------------------
(* Properties                                                              *)

\* A stage holds what its client sent: every chunk once and in order, whatever is
\* sent twice or overtakes another call; and no client holds more than its quota,
\* however its stages expire and come back to life in between.
StageAsSent ==
    /\ \A s \in Stages : \A k \in DOMAIN stage[s].chunks : stage[s].chunks[k] = k - 1
    /\ \A o \in Owners : /\ BytesOf(o, stage) <= OwnerLimit
                         /\ Cardinality(OwnedBy(o, stage)) <= OwnerStages
=============================================================================
