-------------------------- MODULE CodePatchesProofs --------------------------
EXTENDS CodePatches, FiniteSetTheorems, SequenceTheorems, TLAPS

-----------------------------------------------------------------------------
(* The stages                                                              *)

StageStates == {"unborn", "open", "sealed", "gone"}
StageRecords == [state : StageStates, owner : Owners \cup {Nobody}, chunks : Seq(Nat),
                 due : BOOLEAN]

\* A stage that nobody has yet, or no more, holds nothing; what a client has is within
\* its quota.
Sound(g, s) ==
    /\ g[s].state \in {"unborn", "gone"} <=> g[s].owner = Nobody
    /\ g[s].owner = Nobody => g[s].chunks = <<>>
    /\ \A k \in 1..Len(g[s].chunks) : g[s].chunks[k] = k - 1

Within(o, g) ==
    /\ IsFiniteSet(OwnedBy(o, g)) /\ Cardinality(OwnedBy(o, g)) <= OwnerStages
    /\ IsFiniteSet(Held(o, g)) /\ Cardinality(Held(o, g)) <= OwnerLimit

StagesSound(g) ==
    /\ g \in [Stages -> StageRecords]
    /\ \A s \in Stages : Sound(g, s)
    /\ \A o \in Owners : Within(o, g)

StagesInv == StagesSound(stage)

-----------------------------------------------------------------------------
(* The operations                                                          *)

OpFields == {"request", "step", "path", "from", "base", "sent", "temp"}
TempFields == {"head", "body", "tail"}

\* Where an operation of each kind can be.
Stations ==
    [none |-> {"idle", "ended"},
     write |-> {"look", "backup", "verify", "check", "rename"},
     append |-> {"look", "preview", "compile", "head", "body", "backup", "verify", "check",
                 "rename"},
     transform |-> {"look", "preview", "compile", "head", "body", "tail", "backup", "verify",
                    "check", "rename"},
     patch |-> {"preview", "compile", "head", "body", "tail", "backup", "verify", "check",
                "rename"},
     delete |-> {"away", "note", "undo"},
     restore |-> {"look", "backup", "remove", "put", "tidy"},
     move |-> {"look", "move"},
     copy |-> {"backup", "clear", "open", "fill"}]

\* The record of an operation, and what its request says as long as it matters.
OpShaped(o) ==
    /\ DOMAIN op[o] = OpFields /\ DOMAIN op[o].request = DOMAIN NoRequest
    /\ DOMAIN op[o].temp = TempFields
    /\ Kind(o) \in DOMAIN Stations /\ op[o].step \in Stations[Kind(o)]
    /\ Kind(o) = "none" => op[o].temp = NoTemp
    /\ Kind(o) \in {"delete", "move"} => op[o].path \in Paths /\ op[o].base = Absent
    /\ Kind(o) \in {"delete", "move", "copy"} => op[o].from \notin Slots
    /\ Kind(o) = "restore" => /\ op[o].from \in Slots
                              /\ op[o].path \in Paths \/ op[o].step = "look"
                              /\ op[o].path \in Paths \cup {"noted"}
                              /\ op[o].step = "look" => op[o].base = Absent

\* An operation that has not moved a file into the trash has no entry there.
NoEntryYet(o) ==
    op[o].step \in {"idle", "away"} => trash[o].content = Absent

\* An operation that is replacing what it has read.
Underway(o) == Kind(o) \in Replacing /\ op[o].step # "look"

\* The file an operation replaces has been what it read ever since, so far as the
\* operation can tell.
Unmoved(o) == since[o] \in {"steady", "late"}

\* What since says.
SinceTrue(o) ==
    /\ since[o] \in {"steady", "away", "back", "late"}
    /\ ~Underway(o) => since[o] = "steady"
    /\ Underway(o) /\ since[o] = "steady" => Here(o) = op[o].base
    /\ since[o] = "away" => Here(o) # op[o].base /\ op[o].step \notin {"check", "rename"}
    /\ since[o] = "late" => op[o].step \in {"check", "rename"}

\* What an operation has seen at the path it writes to is in a backup.
BackedUp(o) ==
    \/ op[o].step \in {"remove", "put", "clear", "open"}
    \/ op[o].step \in {"verify", "check", "rename"} /\ Unmoved(o)
    => op[o].base \in backups \cup {Absent}

Previewed(o) == Kind(o) \in {"append", "transform", "patch"}
PastHead == {"body", "tail", "backup", "verify", "check", "rename"}
PastBody == {"tail", "backup", "verify", "check", "rename"}
PastTail == {"backup", "verify", "check", "rename"}

\* The parts that an operation has copied are those of the version it has read.
PartsTrue(o) ==
    Previewed(o) /\ Unmoved(o) =>
        /\ op[o].step \in PastHead => op[o].temp.head = op[o].base
        /\ Kind(o) # "append" /\ op[o].step \in PastTail => op[o].temp.tail = op[o].base

\* The pieces of what an operation writes.
Pieces(o) == {Inline(o)} \cup {Chunk(n) : n \in Nat}

\* What it has copied of its content is the beginning of what was sent.
Begun(o) ==
    LET body == op[o].temp.body IN
    /\ body \in Seq(Pieces(o)) /\ Len(body) <= Len(op[o].sent)
    /\ \A k \in 1..Len(body) : body[k] = op[o].sent[k]
    /\ op[o].step \in PastBody => body = op[o].sent

\* The content that was sent is the one that there is, as long as there is one; and what
\* has been copied is of it.
BodyTrue(o) ==
    Previewed(o) =>
        /\ Kind(o) = "append" => op[o].temp.tail = Absent
        /\ op[o].step \in {"look", "preview", "compile", "head"} => op[o].temp.body = <<>>
        /\ op[o].step \in {"compile", "head"} \cup PastHead =>
              /\ FromStage(o) => stage[op[o].from].state \in {"sealed", "gone"}
              /\ Ready(o) => Available(o) = op[o].sent /\ Begun(o)
        /\ op[o].step = "rename" => op[o].temp.body = op[o].sent

OpInv(o) ==
    /\ OpShaped(o) /\ NoEntryYet(o)
    /\ SinceTrue(o) /\ BackedUp(o)
    /\ PartsTrue(o) /\ BodyTrue(o)

\* The files and the entries of the trash.
FilesInv ==
    /\ DOMAIN file = Paths /\ DOMAIN trash = Slots /\ Absent \notin backups
    /\ \A i \in Slots : /\ DOMAIN trash[i] = {"content", "from"}
                        /\ trash[i].from \in Paths \cup {Nobody}

BoundsInv ==
    /\ scenario \in DOMAIN Scenarios
    /\ faults \in 0..Setting.faults /\ crashes \in 0..Setting.crashes

\* The part of the invariant that FileMutations is about.
OpsInv ==
    /\ StagesInv /\ FilesInv /\ BoundsInv
    /\ DOMAIN op = Ops /\ DOMAIN since = Ops
    /\ \A o \in Ops : OpInv(o)

-----------------------------------------------------------------------------
(* The patches                                                             *)

PatchFields == {"step", "path", "source", "saved", "back", "of"}
LineFields == {"status", "path", "source", "backup", "back"}

Noted == {"ready", "refer", "edit", "inside", "validate", "commit"}

\* A patch and its line of the ledger are about one version of one file, and what is
\* saved for it is that version, unless the file went away and came back; a rollback
\* holds what the line of a committed patch says.
PatchTrue(o) ==
    /\ DOMAIN patch[o] = PatchFields /\ DOMAIN ledger[o] = LineFields
    /\ patch[o].step \in PatchSteps
    /\ patch[o].step = "inside" <=> Kind(o) = "patch"
    /\ patch[o].step \notin {"none", "inside"} => op[o].step = "ended"
    /\ patch[o].step = "none" => patch[o] = NoPatch
    /\ patch[o].step \notin {"none", "done"} => patch[o].path \in Setting.patches
    /\ patch[o].of # Nobody =>
          /\ patch[o].step \in {"before", "restore", "refill", "note"}
          /\ patch[o].of \in Ops /\ ledger[patch[o].of].status \in {"committed", "undone"}
          /\ patch[o].saved = ledger[patch[o].of].backup
    /\ patch[o].of = Nobody =>
          /\ patch[o].step \in Noted \cup {"restore", "refill"} =>
                ledger[o].status = "ready" /\ ledger[o].source = patch[o].source
          /\ patch[o].step \in Noted =>
                ledger[o].path = patch[o].path
          /\ patch[o].step \in {"validate", "commit", "restore", "refill"} =>
                patch[o].saved = patch[o].source \/ patch[o].back = TRUE
          /\ patch[o].step # "before"
    /\ patch[o].step = "inside" =>
          /\ op[o].base = patch[o].source /\ op[o].path = patch[o].path
          /\ op[o].step \in {"verify", "check", "rename"} /\ Unmoved(o) =>
                patch[o].saved = op[o].base
    /\ ledger[o].status \in {"none", "ready", "committed", "undone"}
    /\ ledger[o].status \in {"committed", "undone"} =>
          /\ patch[o].step = "done" /\ ledger[o].path \in Setting.patches
          /\ ledger[o].backup = ledger[o].source \/ ledger[o].back = TRUE

\* Patches and lines.
PatchesInv ==
    /\ DOMAIN patch = Ops /\ DOMAIN ledger = Ops /\ \A o \in Ops : PatchTrue(o)

\* The inductive invariant.
PatchInv == OpsInv /\ PatchesInv /\ torn \in BOOLEAN

-----------------------------------------------------------------------------
(* What the operations on stages keep                                      *)

\* A part of a small set is small, also with one element more where there was room.
LEMMA SmallAgain ==
    ASSUME NEW S, NEW T, NEW n \in Nat, IsFiniteSet(S), Cardinality(S) <= n, T \subseteq S
    PROVE  IsFiniteSet(T) /\ Cardinality(T) <= n
<1>1. IsFiniteSet(T) /\ Cardinality(T) <= Cardinality(S)
  BY FS_Subset
<1>2. Cardinality(S) \in Nat /\ Cardinality(T) \in Nat
  BY <1>1, FS_CardinalityType
<1> QED BY <1>1, <1>2

LEMMA OneMore ==
    ASSUME NEW S, NEW e, NEW T, NEW n \in Nat, IsFiniteSet(S), Cardinality(S) < n,
           T \subseteq S \cup {e}
    PROVE  IsFiniteSet(T) /\ Cardinality(T) <= n
<1>1. /\ IsFiniteSet(S \cup {e})
      /\ Cardinality(S \cup {e}) = IF e \in S THEN Cardinality(S) ELSE Cardinality(S) + 1
  BY FS_AddElement
<1>2. Cardinality(S) \in Nat
  BY FS_CardinalityType
<1>3. Cardinality(S \cup {e}) <= n
  BY <1>1, <1>2
<1> QED BY <1>1, <1>3, SmallAgain

LEMMA LimitsAreNumbers == OwnerStages \in Nat /\ OwnerLimit \in Nat
BY StageAssumption DEF StageAssumption

\* A stage that goes away, or whose owner and chunks stay, gives nobody more.
LEMMA StageGivesNoMore ==
    ASSUME NEW g, StagesSound(g), NEW h, h \in [Stages -> StageRecords],
           \A s \in Stages :
              /\ Sound(h, s)
              /\ \/ h[s].owner = Nobody
                 \/ h[s].owner = g[s].owner /\ h[s].chunks = g[s].chunks
    PROVE  StagesSound(h)
<1>1. ASSUME NEW o \in Owners PROVE Within(o, h)
  <2>1. o # Nobody
    BY StageAssumption DEF StageAssumption
  <2>2. \A s \in OwnedBy(o, h) : s \in OwnedBy(o, g) /\ h[s].chunks = g[s].chunks
    BY <2>1 DEF OwnedBy
  <2>3. Held(o, h) \subseteq Held(o, g)
    BY <2>2 DEF Held
  <2>4. Within(o, g) /\ OwnedBy(o, h) \subseteq OwnedBy(o, g)
    BY <2>2 DEF StagesSound
  <2> QED BY <2>3, <2>4, SmallAgain, LimitsAreNumbers DEF Within
<1> QED BY <1>1 DEF StagesSound

LEMMA UnbornIs ==
    /\ Unborn \in StageRecords /\ Gone \in StageRecords
    /\ Unborn.state = "unborn" /\ Unborn.owner = Nobody /\ Unborn.chunks = <<>>
    /\ Gone.state = "gone" /\ Gone.owner = Nobody /\ Gone.chunks = <<>> /\ Unborn.due = FALSE
<1>1. <<>> \in Seq(Nat)
  BY EmptySeq
<1>2. /\ Unborn.state = "unborn" /\ Unborn.owner = Nobody /\ Unborn.chunks = <<>>
      /\ Unborn.due = FALSE
  BY DEF Unborn
<1>3. Unborn \in StageRecords
  BY <1>1 DEF Unborn, StageRecords, StageStates
<1>4. Gone \in StageRecords
  BY <1>3 DEF Gone, StageRecords, StageStates
<1>5. Gone.state = "gone" /\ Gone.owner = Nobody /\ Gone.chunks = <<>>
  BY <1>2, <1>3 DEF Gone, StageRecords
<1> QED BY <1>2, <1>3, <1>4, <1>5

LEMMA PrunedSound ==
    ASSUME StagesInv
    PROVE  /\ StagesSound(Pruned)
           /\ \A s \in Stages : Pruned[s] = IF stage[s].due THEN Gone ELSE stage[s]
<1>1. /\ stage \in [Stages -> StageRecords] /\ \A s \in Stages : Sound(stage, s)
      /\ StagesSound(stage)
  BY DEF StagesInv, StagesSound
<1>2. \A s \in Stages : Pruned[s] = IF stage[s].due THEN Gone ELSE stage[s]
  BY DEF Pruned
<1>3. Pruned \in [Stages -> StageRecords]
  BY <1>1, UnbornIs DEF Pruned
<1>4. \A s \in Stages : Pruned[s] = stage[s] \/ Pruned[s] = Gone
  BY <1>2
<1>5. ASSUME NEW s \in Stages
      PROVE  /\ Sound(Pruned, s)
             /\ \/ Pruned[s].owner = Nobody
                \/ Pruned[s].owner = stage[s].owner /\ Pruned[s].chunks = stage[s].chunks
  <2>1. CASE Pruned[s] = stage[s]
    BY <1>1, <2>1 DEF Sound
  <2>2. CASE Pruned[s] = Gone
    BY <2>2, UnbornIs DEF Sound
  <2> QED BY <1>4, <2>1, <2>2
<1> QED BY <1>1, <1>2, <1>3, <1>5, StageGivesNoMore

\* A change of one stage is one of that stage only.
LEMMA OneStage ==
    ASSUME NEW g, g \in [Stages -> StageRecords], NEW s \in Stages, NEW r \in StageRecords,
           NEW h, h = [g EXCEPT ![s] = r]
    PROVE  /\ h \in [Stages -> StageRecords] /\ h[s] = r
           /\ \A x \in Stages : x # s => h[x] = g[x]
OBVIOUS

LEMMA CreateSound ==
    ASSUME StagesInv, NEW o \in Owners, NEW s \in Stages, Create(o, s)
    PROVE  StagesInv'
<1> DEFINE g == Pruned
           r == [Unborn EXCEPT !.state = "open", !.owner = o]
<1>1. StagesSound(g)
  BY PrunedSound
<1>2. Cardinality(OwnedBy(o, g)) < OwnerStages /\ stage' = [g EXCEPT ![s] = r]
  BY DEF Create
<1>3. g[s] = Unborn
  BY PrunedSound, UnbornIs DEF Create
<1>4. r \in StageRecords /\ r.owner = o /\ r.state = "open" /\ r.chunks = <<>>
  <2>1. Unborn \in StageRecords /\ Unborn.chunks = <<>>
    BY UnbornIs
  <2> QED BY <2>1 DEF StageRecords, StageStates
<1> HIDE DEF g, r
<1>5. /\ stage' \in [Stages -> StageRecords] /\ stage'[s] = r
      /\ \A x \in Stages : x # s => stage'[x] = g[x]
  BY <1>1, <1>2, <1>4, OneStage DEF StagesSound
<1>6. o # Nobody
  BY StageAssumption DEF StageAssumption
<1>7. ASSUME NEW x \in Stages PROVE Sound(stage', x)
  <2>1. CASE x = s
    <3>1. Len(<<>>) = 0
      BY EmptySeq
    <3> QED BY <1>4, <1>5, <1>6, <2>1, <3>1 DEF Sound
  <2>2. CASE x # s
    BY <1>1, <1>5, <2>2 DEF StagesSound, Sound
  <2> QED BY <2>1, <2>2
<1>8. ASSUME NEW c \in Owners PROVE Within(c, stage')
  <2>1. DOMAIN <<>> = {}
    OBVIOUS
  <2>2. Held(c, stage') \subseteq Held(c, g)
    BY <1>4, <1>5, <2>1 DEF Held, OwnedBy
  <2>3. Within(c, g)
    BY <1>1 DEF StagesSound
  <2>4. CASE c = o
    <3>1. OwnedBy(c, stage') \subseteq OwnedBy(c, g) \cup {s}
      BY <1>5 DEF OwnedBy
    <3>2. IsFiniteSet(Held(c, stage')) /\ Cardinality(Held(c, stage')) <= OwnerLimit
      BY <2>2, <2>3, SmallAgain, LimitsAreNumbers DEF Within
    <3>3. IsFiniteSet(OwnedBy(c, stage')) /\ Cardinality(OwnedBy(c, stage')) <= OwnerStages
      BY <1>2, <2>3, <2>4, <3>1, OneMore, LimitsAreNumbers DEF Within
    <3> QED BY <3>2, <3>3 DEF Within
  <2>5. CASE c # o
    <3>1. OwnedBy(c, stage') \subseteq OwnedBy(c, g)
      BY <1>4, <1>5, <2>5 DEF OwnedBy
    <3> QED BY <2>2, <2>3, <3>1, SmallAgain, LimitsAreNumbers DEF Within
  <2> QED BY <2>4, <2>5
<1> QED BY <1>5, <1>7, <1>8 DEF StagesInv, StagesSound

LEMMA AddSound ==
    ASSUME StagesInv, NEW o \in Owners, NEW s \in Stages, NEW n \in 0..StageLimit, Add(o, s, n)
    PROVE  StagesInv'
<1> DEFINE g == Pruned
           r == [g[s] EXCEPT !.chunks = Append(@, n)]
           old == g[s].chunks
<1>1. StagesSound(g)
  BY PrunedSound
<1>2. /\ g[s].owner = o /\ g[s].state = "open" /\ n = Len(old)
      /\ Cardinality(Held(o, g)) < OwnerLimit /\ stage' = [g EXCEPT ![s] = r]
  BY DEF Add, IsOpen, BytesOf
<1> HIDE DEF g
<1>3. g[s] \in StageRecords /\ Sound(g, s) /\ g \in [Stages -> StageRecords]
  BY <1>1 DEF StagesSound
<1>4. n \in Nat /\ old \in Seq(Nat) /\ DOMAIN old = 1..n
  BY <1>2, <1>3 DEF StageRecords
<1>5. /\ r \in StageRecords /\ r.owner = o /\ r.state = "open" /\ r.chunks = Append(old, n)
  <2>1. Append(old, n) \in Seq(Nat)
    BY <1>4, AppendProperties
  <2> QED BY <1>2, <1>3, <2>1 DEF StageRecords
<1>6. /\ Len(r.chunks) = n + 1 /\ DOMAIN r.chunks = 1..(n + 1)
      /\ \A k \in 1..n : r.chunks[k] = old[k]
      /\ r.chunks[n + 1] = n
  <2>1. /\ Append(old, n) \in Seq(Nat) /\ Len(Append(old, n)) = Len(old) + 1
        /\ \A k \in 1..Len(old) : Append(old, n)[k] = old[k]
        /\ Append(old, n)[Len(old) + 1] = n
    BY <1>4, AppendProperties
  <2> QED BY <1>2, <1>5, <2>1
<1> HIDE DEF r
<1>7. /\ stage' \in [Stages -> StageRecords] /\ stage'[s] = r
      /\ \A x \in Stages : x # s => stage'[x] = g[x]
  BY <1>2, <1>3, <1>5, OneStage
<1>8. o # Nobody
  BY StageAssumption DEF StageAssumption
<1>9. ASSUME NEW x \in Stages PROVE Sound(stage', x)
  <2>1. CASE x = s
    <3>1. \A k \in 1..n : old[k] = k - 1
      BY <1>2, <1>3 DEF Sound
    <3>2. \A k \in 1..(n + 1) : r.chunks[k] = k - 1
      <4> TAKE k \in 1..(n + 1)
      <4>1. CASE k = n + 1
        BY <1>4, <1>6, <4>1
      <4>2. CASE k \in 1..n
        BY <1>6, <3>1, <4>2
      <4> QED BY <1>4, <4>1, <4>2
    <3> QED BY <1>5, <1>6, <1>7, <1>8, <2>1, <3>2 DEF Sound
  <2>2. CASE x # s
    BY <1>1, <1>7, <2>2 DEF StagesSound, Sound
  <2> QED BY <2>1, <2>2
<1>10. ASSUME NEW c \in Owners PROVE Within(c, stage')
  <2>1. OwnedBy(c, stage') \subseteq OwnedBy(c, g)
    BY <1>2, <1>5, <1>7 DEF OwnedBy
  <2>2. Within(c, g)
    BY <1>1 DEF StagesSound
  <2>3. CASE c = o
    <3>1. Held(c, stage') \subseteq Held(c, g) \cup {<<s, n + 1>>}
      <4> SUFFICES ASSUME NEW y \in Held(c, stage')
                   PROVE  y \in Held(c, g) \cup {<<s, n + 1>>}
        OBVIOUS
      <4>1. PICK x \in OwnedBy(c, stage') : y \in {x} \X DOMAIN stage'[x].chunks
        BY DEF Held
      <4>2. x \in OwnedBy(c, g) /\ x \in Stages
        BY <2>1 DEF OwnedBy
      <4>3. CASE x # s
        BY <1>7, <4>1, <4>2, <4>3 DEF Held
      <4>4. CASE x = s
        <5>1. PICK k \in 1..(n + 1) : y = <<s, k>>
          BY <1>6, <1>7, <4>1, <4>4
        <5>2. k \in 1..n \/ k = n + 1
          BY <1>4
        <5>3. CASE k \in 1..n
          BY <1>4, <4>2, <4>4, <5>1, <5>3 DEF Held
        <5> QED BY <5>1, <5>2, <5>3
      <4> QED BY <4>3, <4>4
    <3>2. IsFiniteSet(OwnedBy(c, stage')) /\ Cardinality(OwnedBy(c, stage')) <= OwnerStages
      BY <2>1, <2>2, SmallAgain, LimitsAreNumbers DEF Within
    <3>3. IsFiniteSet(Held(c, stage')) /\ Cardinality(Held(c, stage')) <= OwnerLimit
      <4>1. /\ IsFiniteSet(Held(c, g)) /\ Cardinality(Held(c, g)) < OwnerLimit
            /\ OwnerLimit \in Nat
        BY <1>2, <2>2, <2>3, LimitsAreNumbers DEF Within
      <4> QED BY <3>1, <4>1, OneMore
    <3> QED BY <3>2, <3>3 DEF Within
  <2>4. CASE c # o
    <3>1. \A x \in OwnedBy(c, stage') : x # s
      BY <1>5, <1>7, <2>4 DEF OwnedBy
    <3>2. Held(c, stage') \subseteq Held(c, g)
      BY <1>7, <2>1, <3>1 DEF Held, OwnedBy
    <3> QED BY <2>1, <2>2, <3>2, SmallAgain, LimitsAreNumbers DEF Within
  <2> QED BY <2>3, <2>4
<1> QED BY <1>7, <1>9, <1>10 DEF StagesInv, StagesSound

LEMMA SealSound ==
    ASSUME StagesInv, NEW o \in Owners, NEW s \in Stages, Seal(o, s)
    PROVE  StagesInv'
<1> DEFINE g == Pruned
           r == [g[s] EXCEPT !.state = "sealed"]
<1>1. StagesSound(g)
  BY PrunedSound
<1>2. g[s].owner = o /\ g[s].state = "open" /\ stage' = [g EXCEPT ![s] = r]
  BY DEF Seal, IsOpen
<1> HIDE DEF g
<1>3. g[s] \in StageRecords /\ Sound(g, s) /\ g \in [Stages -> StageRecords]
  BY <1>1 DEF StagesSound
<1>4. r \in StageRecords /\ r.owner = o /\ r.state = "sealed" /\ r.chunks = g[s].chunks
  BY <1>2, <1>3 DEF StageRecords, StageStates
<1> HIDE DEF r
<1>5. /\ stage' \in [Stages -> StageRecords] /\ stage'[s] = r
      /\ \A x \in Stages : x # s => stage'[x] = g[x]
  BY <1>2, <1>3, <1>4, OneStage
<1>6. ASSUME NEW x \in Stages
      PROVE  Sound(stage', x) /\ stage'[x].owner = g[x].owner /\ stage'[x].chunks = g[x].chunks
  <2>1. CASE x = s
    BY <1>2, <1>3, <1>4, <1>5, <2>1 DEF Sound
  <2>2. CASE x # s
    BY <1>1, <1>5, <2>2 DEF StagesSound, Sound
  <2> QED BY <2>1, <2>2
<1>7. StagesSound(stage')
  BY <1>1, <1>5, <1>6, StageGivesNoMore
<1> QED BY <1>7 DEF StagesInv

LEMMA ReleaseSound ==
    ASSUME StagesInv, NEW o \in Owners, NEW s \in Stages, Release(o, s)
    PROVE  StagesInv'
<1>1. StagesSound(stage) /\ stage \in [Stages -> StageRecords]
  BY DEF StagesInv, StagesSound
<1>2. /\ stage' \in [Stages -> StageRecords] /\ stage'[s] = Gone
      /\ \A x \in Stages : x # s => stage'[x] = stage[x]
  BY <1>1, UnbornIs, OneStage DEF Release
<1>3. ASSUME NEW x \in Stages
      PROVE  /\ Sound(stage', x)
             /\ \/ stage'[x].owner = Nobody
                \/ stage'[x].owner = stage[x].owner /\ stage'[x].chunks = stage[x].chunks
  <2>1. CASE x = s
    BY <1>2, <2>1, UnbornIs DEF Sound
  <2>2. CASE x # s
    BY <1>1, <1>2, <2>2 DEF StagesSound, Sound
  <2> QED BY <2>1, <2>2
<1>4. StagesSound(stage')
  BY <1>1, <1>2, <1>3, StageGivesNoMore
<1> QED BY <1>4 DEF StagesInv

LEMMA ExpireSound ==
    ASSUME StagesInv, NEW s \in Stages, Expire(s)
    PROVE  StagesInv'
<1> DEFINE r == [stage[s] EXCEPT !.due = TRUE]
<1>1. StagesSound(stage) /\ stage \in [Stages -> StageRecords]
  BY DEF StagesInv, StagesSound
<1>2. /\ r \in StageRecords /\ r.owner = stage[s].owner /\ r.state = stage[s].state
      /\ r.chunks = stage[s].chunks
  BY <1>1 DEF StageRecords
<1>3. stage' = [stage EXCEPT ![s] = r]
  BY DEF Expire
<1> HIDE DEF r
<1>4. /\ stage' \in [Stages -> StageRecords] /\ stage'[s] = r
      /\ \A x \in Stages : x # s => stage'[x] = stage[x]
  BY <1>1, <1>2, <1>3, OneStage
<1>5. ASSUME NEW x \in Stages
      PROVE  /\ Sound(stage', x)
             /\ stage'[x].owner = stage[x].owner /\ stage'[x].chunks = stage[x].chunks
  <2>1. Sound(stage, x)
    BY <1>1 DEF StagesSound
  <2>2. stage'[x].state = stage[x].state /\ stage'[x].owner = stage[x].owner
        /\ stage'[x].chunks = stage[x].chunks
    BY <1>2, <1>4
  <2> QED BY <2>1, <2>2 DEF Sound
<1>6. StagesSound(stage')
  BY <1>1, <1>4, <1>5, StageGivesNoMore
<1> QED BY <1>6 DEF StagesInv

\* A stage that is sealed stays as it is until it is gone for good.
Moved(g, h) ==
    \A s \in Stages :
       /\ g[s].state = "gone" => h[s].state = "gone"
       /\ g[s].state = "sealed" =>
             \/ h[s].state = "gone"
             \/ /\ h[s].state = "sealed" /\ h[s].owner = g[s].owner
                /\ h[s].chunks = g[s].chunks
                /\ g[s].due => h[s].due

StagesMove == StagesInv' /\ Moved(stage, stage')

LEMMA PruneMoves ==
    ASSUME StagesInv, Prune \/ UNCHANGED stage
    PROVE  StagesMove
<1>1. StagesInv'
  BY PrunedSound DEF StagesInv, Prune
<1>2. Moved(stage, stage')
  BY PrunedSound, UnbornIs DEF Moved, Prune
<1> QED BY <1>1, <1>2 DEF StagesMove

LEMMA StageStepMoves ==
    ASSUME StagesInv, NEW s \in Stages, StageStep(s)
    PROVE  StagesMove
<1>1. stage \in [Stages -> StageRecords] /\ Pruned \in [Stages -> StageRecords]
  BY PrunedSound DEF StagesInv, StagesSound
<1>2. \A x \in Stages : Pruned[x] = IF stage[x].due THEN Gone ELSE stage[x]
  BY PrunedSound
<1>3. Gone.state = "gone" /\ Unborn.state = "unborn"
  BY UnbornIs
<1>4. ASSUME NEW r, stage' = [Pruned EXCEPT ![s] = r], stage[s].state \notin {"sealed", "gone"}
      PROVE  Moved(stage, stage')
  <2> SUFFICES ASSUME NEW x \in Stages, x # s
               PROVE  stage'[x] = Pruned[x]
    BY <1>2, <1>3, <1>4 DEF Moved
  <2> QED BY <1>1, <1>4
<1>5. CASE \E o \in Owners : Create(o, s)
  <2>1. PICK o \in Owners : Create(o, s)
    BY <1>5
  <2>2. StagesInv'
    BY <2>1, CreateSound
  <2> QED BY <1>3, <1>4, <2>1, <2>2 DEF Create, StagesMove
<1>6. CASE \E o \in Owners : Seal(o, s)
  <2>1. PICK o \in Owners : Seal(o, s)
    BY <1>6
  <2>2. StagesInv'
    BY <2>1, SealSound
  <2>3. stage[s].state = "open"
    BY <1>2, <1>3, <2>1 DEF Seal, IsOpen
  <2>4. stage' = [Pruned EXCEPT ![s] = [Pruned[s] EXCEPT !.state = "sealed"]]
    BY <2>1 DEF Seal
  <2> QED BY <1>4, <2>2, <2>3, <2>4 DEF StagesMove
<1>7. CASE \E o \in Owners : \E n \in 0..StageLimit : Add(o, s, n)
  <2>1. PICK o \in Owners, n \in 0..StageLimit : Add(o, s, n)
    BY <1>7
  <2>2. StagesInv'
    BY <2>1, AddSound
  <2>3. stage[s].state = "open"
    BY <1>2, <1>3, <2>1 DEF Add, IsOpen
  <2>4. stage' = [Pruned EXCEPT ![s] = [Pruned[s] EXCEPT !.chunks = Append(@, n)]]
    BY <2>1 DEF Add
  <2> QED BY <1>4, <2>2, <2>3, <2>4 DEF StagesMove
<1>8. CASE \E o \in Owners : Release(o, s)
  <2>1. PICK o \in Owners : Release(o, s)
    BY <1>8
  <2>2. StagesInv'
    BY <2>1, ReleaseSound
  <2>3. \A x \in Stages : stage'[x] = stage[x] \/ stage'[x] = Gone
    BY <1>1, <2>1 DEF Release
  <2> QED BY <1>3, <2>2, <2>3 DEF StagesMove, Moved
<1>9. CASE Expire(s)
  <2>1. StagesInv'
    BY <1>9, ExpireSound
  <2>2. ASSUME NEW x \in Stages
        PROVE  /\ stage'[x].state = stage[x].state /\ stage'[x].owner = stage[x].owner
               /\ stage'[x].chunks = stage[x].chunks /\ (stage[x].due => stage'[x].due)
    BY <1>1, <1>9 DEF Expire, StageRecords
  <2> QED BY <2>1, <2>2 DEF StagesMove, Moved
<1> QED BY <1>5, <1>6, <1>7, <1>8, <1>9 DEF StageStep

-----------------------------------------------------------------------------
(* What the other operations, the stages and the files do to an operation  *)

\* What may be read of a stage.
LEMMA SealedIs ==
    ASSUME StagesInv, NEW c, NEW s \in Stages
    PROVE  IsSealed(c, s) <=>
               ~stage[s].due /\ stage[s].owner = c /\ stage[s].state = "sealed"
BY PrunedSound, UnbornIs DEF IsSealed

\* What an operation can read of its stage it could read before, and it is the same.
LEMMA ReadyBefore ==
    ASSUME StagesInv, StagesMove, NEW o \in Ops,
           op'[o].from = op[o].from, op'[o].request.client = op[o].request.client,
           FromStage(o) => stage[op[o].from].state \in {"sealed", "gone"}
    PROVE  /\ FromStage(o)' => stage'[op'[o].from].state \in {"sealed", "gone"}
           /\ Ready(o)' => Ready(o) /\ Available(o)' = Available(o)
<1>1. CASE ~FromStage(o)
  BY <1>1 DEF FromStage, Ready, Available, Inline
<1>2. CASE FromStage(o)
  <2> DEFINE s == op[o].from
             c == Client(o)
  <2>1. s \in Stages /\ FromStage(o)' /\ Client(o)' = c
    BY <1>2 DEF FromStage, Client
  <2>2. stage'[s].state \in {"sealed", "gone"}
    BY <1>2, <2>1 DEF StagesMove, Moved
  <2>3. ASSUME Ready(o)'
        PROVE  Ready(o) /\ stage'[s].chunks = stage[s].chunks
    <3>3. Pruned'[s] = IF stage'[s].due THEN Gone ELSE stage'[s]
      BY <2>1 DEF Pruned
    <3>4. ~stage'[s].due /\ stage'[s].owner = c /\ stage'[s].state = "sealed"
      BY <2>1, <2>3, <3>3, UnbornIs DEF Ready, IsSealed, Client
    <3>5. /\ stage[s].state = "sealed" /\ ~stage[s].due /\ stage[s].owner = c
          /\ stage'[s].chunks = stage[s].chunks
      BY <1>2, <2>1, <3>4 DEF StagesMove, Moved
    <3>6. IsSealed(c, s)
      BY <2>1, <3>5, SealedIs
    <3> QED BY <3>5, <3>6 DEF Ready
  <2>4. Ready(o)' => Available(o)' = Available(o)
    BY <1>2, <2>1, <2>3 DEF Available
  <2> QED BY <2>1, <2>2, <2>3, <2>4
<1> QED BY <1>1, <1>2

\* What since says of an operation that goes on with the version it has read.
LEMMA GoingOn ==
    ASSUME NEW o \in Ops, SinceTrue(o), Underway(o), since'[o] = Follow(o),
           op'[o].request.kind = Kind(o), op'[o].path = op[o].path, op'[o].base = op[o].base,
           op'[o].step \notin {"look", "ended"},
           op[o].step \in {"check", "rename"} => op'[o].step \in {"check", "rename"},
           op'[o].step \in {"check", "rename"} =>
               op[o].step \in {"check", "rename"} \/ file'[op[o].path] = op[o].base
    PROVE  SinceTrue(o)' /\ (Unmoved(o)' => Unmoved(o))
<1>1. Kind(o)' = Kind(o) /\ Kind(o) \in Replacing /\ Underway(o)' /\ Here(o)' = file'[op[o].path]
  BY DEF Kind, Underway, Here
<1>2. Follow(o) = IF file'[op[o].path] = op[o].base
                  THEN IF since[o] = "steady" THEN "steady" ELSE "back"
                  ELSE IF since[o] # "steady" THEN since[o]
                  ELSE IF op[o].step \in {"check", "rename"} THEN "late" ELSE "away"
  BY <1>1 DEF Follow
<1>3. SinceTrue(o)'
  BY <1>1, <1>2 DEF SinceTrue
<1>4. Unmoved(o)' => Unmoved(o)
  BY <1>2 DEF Unmoved
<1> QED BY <1>3, <1>4

\* What it says of one that begins with what is there.
LEMMA StartingOut ==
    ASSUME NEW o \in Ops, since[o] = "steady", since'[o] = Follow(o),
           op'[o].base = file'[op'[o].path]
    PROVE  SinceTrue(o)' /\ since'[o] = "steady"
<1>1. since'[o] = "steady"
  BY DEF Follow
<1>2. Here(o)' = op'[o].base
  BY DEF Here
<1> QED BY <1>1, <1>2 DEF SinceTrue

\* And of one that replaces nothing.
LEMMA NotUnderway ==
    ASSUME NEW o \in Ops, since'[o] = Follow(o),
           op'[o].request.kind \notin Replacing \/ op'[o].step \in {"look", "ended"}
    PROVE  since'[o] = "steady" /\ (op'[o].step # "ended" => SinceTrue(o)')
<1>1. since'[o] = "steady"
  BY DEF Follow
<1>2. op'[o].step # "ended" => ~Underway(o)'
  BY DEF Underway, Kind
<1> QED BY <1>1, <1>2 DEF SinceTrue

\* And of one that does nothing itself.
LEMMA SinceStays ==
    ASSUME NEW o \in Ops, OpInv(o), op'[o] = op[o], since'[o] = Follow(o)
    PROVE  SinceTrue(o)' /\ (Unmoved(o)' => Unmoved(o))
<1>1. Kind(o)' = Kind(o) /\ Underway(o)' = Underway(o)
  BY DEF Kind, Underway
<1>2. CASE Underway(o)
  <2>1. op[o].step # "ended" /\ op[o].step # "look"
    BY <1>2 DEF OpInv, OpShaped, Stations, Underway, Replacing
  <2> QED BY <1>2, <2>1, GoingOn DEF OpInv, Kind
<1>3. CASE ~Underway(o)
  <2>1. since[o] = "steady"
    BY <1>3 DEF OpInv, SinceTrue
  <2>2. since'[o] = "steady"
    BY <1>3, NotUnderway DEF Underway, Kind
  <2> QED BY <1>1, <1>3, <2>1, <2>2 DEF SinceTrue, Unmoved
<1> QED BY <1>2, <1>3

\* An operation stays sound when it does nothing itself.
LEMMA OthersKeep ==
    ASSUME OpsInv, StagesMove, NEW o \in Ops, op'[o] = op[o], since'[o] = Follow(o),
           backups \subseteq backups',
           trash[o].content = Absent => trash'[o].content = Absent
    PROVE  OpInv(o)'
<1>1. OpInv(o)
  BY DEF OpsInv
<1>2. OpShaped(o)' /\ Kind(o)' = Kind(o) /\ Underway(o)' = Underway(o)
  BY <1>1 DEF OpInv, OpShaped, Kind, Underway
<1>3. NoEntryYet(o)'
  BY <1>1 DEF OpInv, NoEntryYet
<1>4. SinceTrue(o)' /\ (Unmoved(o)' => Unmoved(o))
  BY <1>1, SinceStays
<1>5. BackedUp(o)'
  BY <1>1, <1>4 DEF OpInv, BackedUp
<1>6. PartsTrue(o)'
  BY <1>1, <1>2, <1>4 DEF OpInv, PartsTrue, Previewed
<1>7. BodyTrue(o)'
  <2>1. /\ FromStage(o)' = FromStage(o) /\ Previewed(o)' = Previewed(o)
        /\ Inline(o)' = Inline(o) /\ Pieces(o)' = Pieces(o) /\ Begun(o)' = Begun(o)
    BY <1>2 DEF FromStage, Previewed, Inline, Pieces, Begun
  <2>2. CASE op[o].step \in {"compile", "head"} \cup PastHead /\ Previewed(o)
    <3>1. FromStage(o) => stage[op[o].from].state \in {"sealed", "gone"}
      BY <1>1, <2>2 DEF OpInv, BodyTrue
    <3>2. /\ FromStage(o)' => stage'[op'[o].from].state \in {"sealed", "gone"}
          /\ Ready(o)' => Ready(o) /\ Available(o)' = Available(o)
      BY <3>1, ReadyBefore DEF OpsInv
    <3> QED BY <1>1, <1>2, <2>1, <2>2, <3>2 DEF OpInv, BodyTrue
  <2>3. CASE ~(op[o].step \in {"compile", "head"} \cup PastHead /\ Previewed(o))
    BY <1>1, <1>2, <2>1, <2>3 DEF OpInv, BodyTrue
  <2> QED BY <2>2, <2>3
<1> QED BY <1>2, <1>3, <1>4, <1>5, <1>6, <1>7 DEF OpInv

-----------------------------------------------------------------------------
(* The operations that replace a file                                      *)

\* What an action of one operation leaves to the others.
Onward(o) ==
    /\ DOMAIN op' = Ops /\ \A x \in Ops : x # o => op'[x] = op[x]
    /\ backups \subseteq backups'
    /\ \A x \in Ops : x # o => (trash[x].content = Absent => trash'[x].content = Absent)

LEMMA OneOp ==
    ASSUME DOMAIN op = Ops, NEW o \in Ops, NEW r, op' = [op EXCEPT ![o] = r],
           backups \subseteq backups', trash' = trash
    PROVE  Onward(o) /\ op'[o] = r
BY DEF Onward

LEMMA FilesStay ==
    ASSUME FilesInv, Absent \notin backups', UNCHANGED <<file, trash>>
    PROVE  FilesInv'
BY DEF FilesInv

LEMMA EndedIs ==
    /\ DOMAIN Ended = OpFields /\ DOMAIN Ended.request = DOMAIN NoRequest
    /\ Ended.temp = NoTemp /\ DOMAIN NoTemp = TempFields
    /\ Ended.request.kind = "none" /\ Ended.step = "ended"
    /\ NoTemp.head = Absent /\ NoTemp.body = <<>> /\ NoTemp.tail = Absent
<1>1. DOMAIN NoTemp = TempFields
  BY DEF NoTemp, TempFields
<1>2. DOMAIN Idle = OpFields /\ Idle.request = NoRequest /\ Idle.temp = NoTemp
  BY DEF Idle, Requested, OpFields
<1>3. /\ DOMAIN Ended = OpFields /\ Ended.request = NoRequest /\ Ended.temp = NoTemp
      /\ Ended.step = "ended"
  BY <1>2 DEF Ended, OpFields
<1>4. NoRequest.kind = "none"
  BY DEF NoRequest
<1>5. NoTemp.head = Absent /\ NoTemp.body = <<>> /\ NoTemp.tail = Absent
  BY DEF NoTemp
<1> QED BY <1>1, <1>3, <1>4, <1>5

\* An operation that is over is sound.
LEMMA OverKeeps ==
    ASSUME NEW o \in Ops, op'[o] = Ended, since'[o] = Follow(o)
    PROVE  OpInv(o)'
<1>1. Kind(o)' = "none" /\ op'[o].step = "ended"
  BY EndedIs DEF Kind
<1>2. OpShaped(o)'
  BY <1>1, EndedIs DEF OpShaped, Stations
<1>3. NoEntryYet(o)' /\ BackedUp(o)'
  BY <1>1 DEF NoEntryYet, BackedUp
<1>4. since'[o] = "steady" /\ ~Underway(o)'
  BY <1>1, NotUnderway DEF Underway, Replacing, Kind
<1>5. SinceTrue(o)'
  BY <1>4 DEF SinceTrue
<1>6. ~Previewed(o)'
  BY <1>1 DEF Previewed
<1>7. PartsTrue(o)' /\ BodyTrue(o)'
  BY <1>6 DEF PartsTrue, BodyTrue
<1> QED BY <1>2, <1>3, <1>5, <1>7 DEF OpInv

\* The rest of what an operation keeps as long as it goes on.
LEMMA StepOn ==
    ASSUME NEW o \in Ops, OpInv(o), Underway(o), since'[o] = Follow(o),
           DOMAIN op'[o] = OpFields, DOMAIN op'[o].temp = TempFields,
           op'[o].request = op[o].request,
           op'[o].path = op[o].path, op'[o].base = op[o].base,
           op'[o].step \in Stations[Kind(o)], op'[o].step # "look",
           op[o].step \in {"check", "rename"} => op'[o].step \in {"check", "rename"},
           op'[o].step \in {"check", "rename"} =>
               op[o].step \in {"check", "rename"} \/ file'[op[o].path] = op[o].base
    PROVE  /\ OpShaped(o)' /\ NoEntryYet(o)' /\ SinceTrue(o)'
           /\ Unmoved(o)' => Unmoved(o)
           /\ Kind(o)' = Kind(o) /\ Previewed(o)' = Previewed(o)
<1>1. Kind(o)' = Kind(o) /\ Kind(o) \in Replacing
  BY DEF Kind, Underway
<1>2. op'[o].step \notin {"ended", "idle", "away"}
  BY <1>1 DEF Stations, Replacing
<1>3. OpShaped(o)'
  BY <1>1 DEF OpInv, OpShaped, Replacing
<1>4. NoEntryYet(o)'
  BY <1>2 DEF NoEntryYet
<1>5. SinceTrue(o)' /\ (Unmoved(o)' => Unmoved(o))
  BY <1>2, GoingOn DEF OpInv, Kind
<1>6. Previewed(o)' = Previewed(o)
  BY <1>1 DEF Previewed
<1> QED BY <1>1, <1>3, <1>4, <1>5, <1>6

LEMMA AvailableIs ==
    ASSUME StagesInv, NEW o \in Ops
    PROVE  Available(o) \in Seq(Pieces(o))
<1>1. CASE FromStage(o)
  <2> DEFINE chunks == stage[op[o].from].chunks
  <2>1. chunks \in Seq(Nat)
    BY <1>1 DEF StagesInv, StagesSound, StageRecords, FromStage
  <2>2. Available(o) = [k \in DOMAIN chunks |-> Chunk(chunks[k])]
    BY <1>1 DEF Available
  <2> HIDE DEF chunks
  <2>3. DOMAIN chunks = 1..Len(chunks) /\ Len(chunks) \in Nat
    BY <2>1
  <2>4. \A k \in DOMAIN chunks : Chunk(chunks[k]) \in Pieces(o)
    BY <2>1, <2>3 DEF Pieces
  <2>5. Available(o) \in [1..Len(chunks) -> Pieces(o)]
    BY <2>2, <2>3, <2>4
  <2> QED BY <2>3, <2>5, SeqDef
<1>2. CASE ~FromStage(o)
  <2>1. Available(o) = <<Inline(o)>> /\ Inline(o) \in Pieces(o)
    BY <1>2 DEF Available, Pieces
  <2> QED BY <2>1
<1> QED BY <1>1, <1>2

\* What an action of one operation must keep.
Keeps(o) == OpInv(o)' /\ Onward(o) /\ FilesInv'

LEMMA EndKeeps ==
    ASSUME OpsInv, NEW o \in Ops, End(o), since'[o] = Follow(o), UNCHANGED <<backups, trash>>,
           DOMAIN file' = Paths
    PROVE  Keeps(o)
<1>1. Onward(o) /\ op'[o] = Ended
  BY OneOp DEF OpsInv, End
<1>2. FilesInv'
  BY DEF OpsInv, FilesInv
<1> QED BY <1>1, <1>2, OverKeeps DEF Keeps

LEMMA BodyKept ==
    ASSUME OpsInv, StagesMove, NEW o \in Ops, Previewed(o),
           op[o].step \in {"compile", "head"} \cup PastHead,
           op'[o].request = op[o].request, op'[o].from = op[o].from,
           op'[o].sent = op[o].sent, op'[o].temp.body = op[o].temp.body,
           Kind(o) = "append" => op'[o].temp.tail = op[o].temp.tail,
           op'[o].step \in {"head"} \cup PastHead,
           op'[o].step = "head" => op[o].step = "compile",
           op'[o].step \in PastBody => op[o].step \in PastBody,
           op'[o].step = "rename" => op[o].temp.body = op[o].sent
    PROVE  BodyTrue(o)'
<1>1. BodyTrue(o)
  BY DEF OpsInv, OpInv
<1>2. /\ Kind(o)' = Kind(o) /\ FromStage(o)' = FromStage(o) /\ Pieces(o)' = Pieces(o)
      /\ Client(o)' = Client(o)
  BY DEF Kind, FromStage, Pieces, Inline, Client
<1>3. FromStage(o) => stage[op[o].from].state \in {"sealed", "gone"}
  BY <1>1 DEF BodyTrue
<1>4. /\ FromStage(o)' => stage'[op'[o].from].state \in {"sealed", "gone"}
      /\ Ready(o)' => Ready(o) /\ Available(o)' = Available(o)
  BY <1>3, ReadyBefore DEF OpsInv
<1>5. Begun(o) => Begun(o)'
  BY <1>2 DEF Begun
<1>6. Ready(o)' => Available(o)' = op'[o].sent /\ Begun(o)'
  BY <1>1, <1>4, <1>5 DEF BodyTrue
<1>7. op'[o].step = "head" => op'[o].temp.body = <<>>
  BY <1>1 DEF BodyTrue
<1>8. Kind(o) = "append" => op'[o].temp.tail = Absent
  BY <1>1 DEF BodyTrue
<1>9. op'[o].step \notin {"look", "preview", "compile"}
  BY DEF PastHead
<1> QED BY <1>2, <1>4, <1>6, <1>7, <1>8, <1>9 DEF BodyTrue

LEMMA LookToWriteKeeps ==
    ASSUME OpsInv, StagesMove, NEW o \in Ops, LookToWrite(o), since'[o] = Follow(o)
    PROVE  Keeps(o)
<1>1. OpInv(o) /\ DOMAIN op = Ops /\ FilesInv
  BY DEF OpsInv
<1>2. DOMAIN op[o] = OpFields
  BY <1>1 DEF OpInv, OpShaped
<1>3. /\ op'[o].base = Here(o) /\ op'[o].step = "backup" /\ DOMAIN op'[o] = OpFields
      /\ op'[o].request = op[o].request /\ op'[o].path = op[o].path
      /\ op'[o].temp = op[o].temp
  BY <1>1, <1>2 DEF LookToWrite, OpFields
<1>4. Onward(o) /\ FilesInv'
  BY <1>1, FilesStay DEF LookToWrite, OnlyOp, Onward, FilesInv
<1>5. Kind(o)' = "write" /\ file' = file
  BY <1>3 DEF LookToWrite, OnlyOp, Kind
<1>6. OpShaped(o)'
  BY <1>1, <1>3, <1>5 DEF OpInv, OpShaped, Stations
<1>7. SinceTrue(o)'
  <2>1. since[o] = "steady"
    BY <1>1 DEF OpInv, SinceTrue, Underway, LookToWrite, At
  <2> QED BY <1>3, <1>5, <2>1, StartingOut DEF Here
<1>8. NoEntryYet(o)' /\ BackedUp(o)'
  BY <1>3 DEF NoEntryYet, BackedUp
<1>9. PartsTrue(o)' /\ BodyTrue(o)'
  BY <1>5 DEF PartsTrue, BodyTrue, Previewed
<1> QED BY <1>4, <1>6, <1>7, <1>8, <1>9 DEF Keeps, OpInv

LEMMA LookToChangeKeeps ==
    ASSUME OpsInv, StagesMove, NEW o \in Ops, LookToChange(o), since'[o] = Follow(o)
    PROVE  Keeps(o)
<1>1. OpInv(o) /\ DOMAIN op = Ops /\ FilesInv
  BY DEF OpsInv
<1>2. /\ DOMAIN op[o] = OpFields /\ DOMAIN op[o].temp = TempFields
      /\ DOMAIN op[o].request = DOMAIN NoRequest
  BY <1>1 DEF OpInv, OpShaped
<1>3. /\ op[o].step = "look" /\ Kind(o) \in {"append", "transform"}
      /\ file' = file /\ backups' = backups /\ trash' = trash
  BY DEF LookToChange, OnlyOp, At
<1>4. since[o] = "steady"
  BY <1>1, <1>3 DEF OpInv, SinceTrue, Underway
<1>5. FilesInv'
  BY <1>1, <1>3, FilesStay DEF FilesInv
<1>6. CASE op' = [op EXCEPT ![o].base = Here(o), ![o].step = "preview"]
  <2>1. /\ op'[o].base = Here(o) /\ op'[o].step = "preview" /\ DOMAIN op'[o] = OpFields
        /\ op'[o].request = op[o].request /\ op'[o].path = op[o].path
        /\ op'[o].temp = op[o].temp
    BY <1>1, <1>2, <1>6 DEF OpFields
  <2>2. Onward(o)
    BY <1>1, <1>3, <1>6 DEF Onward
  <2>3. Kind(o)' = Kind(o)
    BY <2>1 DEF Kind
  <2>4. OpShaped(o)'
    BY <1>2, <1>3, <2>1, <2>3 DEF OpShaped, Stations
  <2>5. SinceTrue(o)'
    BY <1>3, <1>4, <2>1, StartingOut DEF Here
  <2>6. NoEntryYet(o)' /\ BackedUp(o)' /\ PartsTrue(o)'
    BY <2>1 DEF NoEntryYet, BackedUp, PartsTrue, PastHead, PastTail
  <2>7. BodyTrue(o)'
    <3>1. op[o].temp.body = <<>> /\ (Kind(o) = "append" => op[o].temp.tail = Absent)
      BY <1>1, <1>3 DEF OpInv, BodyTrue, Previewed
    <3> QED BY <2>1, <2>3, <3>1 DEF BodyTrue, PastHead
  <2> QED BY <1>5, <2>2, <2>4, <2>5, <2>6, <2>7 DEF Keeps, OpInv
<1>7. CASE op' = [op EXCEPT ![o].request.kind = "write"]
  <2>1. /\ op'[o].step = "look" /\ DOMAIN op'[o] = OpFields
        /\ op'[o].request.kind = "write" /\ DOMAIN op'[o].request = DOMAIN NoRequest
        /\ op'[o].temp = op[o].temp
    BY <1>1, <1>2, <1>3, <1>7 DEF OpFields, NoRequest
  <2>2. Onward(o)
    BY <1>1, <1>3, <1>7 DEF Onward
  <2>3. Kind(o)' = "write"
    BY <2>1 DEF Kind
  <2>4. OpShaped(o)'
    BY <1>2, <2>1, <2>3 DEF OpShaped, Stations
  <2>5. SinceTrue(o)'
    BY <2>1, NotUnderway
  <2>6. NoEntryYet(o)' /\ BackedUp(o)'
    BY <2>1 DEF NoEntryYet, BackedUp
  <2>7. PartsTrue(o)' /\ BodyTrue(o)'
    BY <2>3 DEF PartsTrue, BodyTrue, Previewed
  <2> QED BY <1>5, <2>2, <2>4, <2>5, <2>6, <2>7 DEF Keeps, OpInv
<1>8. CASE End(o)
  BY <1>1, <1>3, <1>8, EndKeeps DEF FilesInv
<1> QED BY <1>6, <1>7, <1>8 DEF LookToChange

\* What an operation is at each place.
LEMMA KindAt ==
    ASSUME NEW o \in Ops, OpInv(o)
    PROVE  /\ op[o].step \in {"preview", "compile", "head", "body", "tail"} => Previewed(o)
           /\ Previewed(o) \/ Kind(o) = "write" => Kind(o) \in Replacing
           /\ op[o].step = "tail" => Kind(o) # "append"
           /\ op[o].step \in {"verify", "check", "rename"} => Kind(o) \in Replacing
           /\ op[o].step = "backup" => Kind(o) \in Replacing \cup {"restore", "copy"}
           /\ op[o].step \in {"away", "note", "undo"} => Kind(o) = "delete"
           /\ op[o].step \in {"remove", "put", "tidy"} => Kind(o) = "restore"
           /\ op[o].step = "move" => Kind(o) = "move"
           /\ op[o].step \in {"clear", "open", "fill"} => Kind(o) = "copy"
           /\ op[o].step \in {"idle", "ended"} => Kind(o) = "none"
           /\ Kind(o) \in Replacing =>
                 Kind(o) = "write" \/ Previewed(o)
BY DEF OpInv, OpShaped, Stations, Previewed, Replacing

\* An operation that replaces a file goes one step on with it: only its place and what
\* it has copied change.
Step(o, step) ==
    /\ op'[o].step = step /\ DOMAIN op'[o] = OpFields /\ DOMAIN op'[o].temp = TempFields
    /\ op'[o].request = op[o].request
    /\ op'[o].path = op[o].path /\ op'[o].base = op[o].base /\ op'[o].from = op[o].from

LEMMA GotoStep ==
    ASSUME OpsInv, NEW o \in Ops, NEW step, Goto(o, step), backups \subseteq backups',
           UNCHANGED trash
    PROVE  /\ Step(o, step) /\ Onward(o)
           /\ op'[o].sent = op[o].sent /\ op'[o].temp = op[o].temp
<1>1. /\ DOMAIN op = Ops /\ DOMAIN op[o] = OpFields /\ DOMAIN op[o].temp = TempFields
  BY DEF OpsInv, OpInv, OpShaped
<1>2. op' = [op EXCEPT ![o].step = step]
  BY DEF Goto
<1>3. Onward(o)
  BY <1>1, <1>2 DEF Onward
<1>4. op'[o] = [op[o] EXCEPT !.step = step]
  BY <1>1, <1>2
<1> QED BY <1>1, <1>3, <1>4 DEF Step, OpFields

LEMMA PreviewKeeps ==
    ASSUME OpsInv, StagesMove, NEW o \in Ops, Preview(o), since'[o] = Follow(o)
    PROVE  Keeps(o)
<1>1. OpInv(o) /\ DOMAIN op = Ops /\ FilesInv
  BY DEF OpsInv
<1>2. /\ op[o].step = "preview" /\ file' = file /\ backups' = backups /\ trash' = trash
  BY DEF Preview, At
<1>3. FilesInv'
  BY <1>1, <1>2, FilesStay DEF FilesInv
<1>4. CASE End(o)
  BY <1>1, <1>2, <1>4, EndKeeps DEF FilesInv
<1>5. CASE Ready(o) /\ op' = [op EXCEPT ![o].sent = Available(o), ![o].step = "compile"]
  <2>1. DOMAIN op[o] = OpFields /\ DOMAIN op[o].temp = TempFields
    BY <1>1 DEF OpInv, OpShaped
  <2>2. /\ Step(o, "compile")
        /\ op'[o].sent = Available(o) /\ op'[o].temp = op[o].temp
    BY <1>1, <1>5, <2>1 DEF Step, OpFields
  <2>3. Onward(o)
    BY <1>1, <1>2, <1>5 DEF Onward
  <2>4. Previewed(o) /\ Underway(o) /\ "compile" \in Stations[Kind(o)]
    BY <1>1, <1>2, KindAt DEF Underway, Stations, Previewed
  <2>5. /\ OpShaped(o)' /\ NoEntryYet(o)' /\ SinceTrue(o)'
        /\ Kind(o)' = Kind(o)
    BY <1>1, <1>2, <2>2, <2>4, StepOn DEF Step
  <2>6. BackedUp(o)' /\ PartsTrue(o)'
    BY <2>2 DEF Step, BackedUp, PartsTrue, PastHead, PastTail
  <2>7. op[o].temp.body = <<>> /\ (Kind(o) = "append" => op[o].temp.tail = Absent)
    BY <1>1, <1>2, <2>4 DEF OpInv, BodyTrue
  <2>8. FromStage(o) => stage[op[o].from].state \in {"sealed", "gone"}
    BY <1>5, SealedIs DEF Ready, FromStage, OpsInv
  <2>9. /\ FromStage(o)' => stage'[op'[o].from].state \in {"sealed", "gone"}
        /\ Ready(o)' => Available(o)' = op'[o].sent
    BY <2>2, <2>8, ReadyBefore DEF OpsInv, Step
  <2>10. Begun(o)'
    <3>1. Available(o) \in Seq(Pieces(o))
      BY AvailableIs DEF OpsInv
    <3>2. <<>> \in Seq(Pieces(o)') /\ Len(<<>>) = 0 /\ Len(Available(o)) \in Nat
      BY <3>1, EmptySeq
    <3>3. op'[o].temp.body = <<>> /\ op'[o].step = "compile" /\ Len(op'[o].sent) \in Nat
      BY <2>2, <2>7, <3>2 DEF Step
    <3> QED BY <3>2, <3>3 DEF Begun, PastBody
  <2>11. BodyTrue(o)'
    BY <2>2, <2>5, <2>7, <2>9, <2>10 DEF BodyTrue, Step
  <2> QED BY <1>3, <2>3, <2>5, <2>6, <2>11 DEF Keeps, OpInv
<1> QED BY <1>4, <1>5 DEF Preview

LEMMA CompileKeeps ==
    ASSUME OpsInv, StagesMove, NEW o \in Ops, Compile(o), since'[o] = Follow(o)
    PROVE  Keeps(o)
<1>1. OpInv(o) /\ DOMAIN op = Ops /\ FilesInv
  BY DEF OpsInv
<1>2. op[o].step = "compile" /\ file' = file /\ backups' = backups /\ trash' = trash
  BY DEF Compile, At
<1>3. FilesInv'
  BY <1>1, <1>2, FilesStay DEF FilesInv
<1>4. CASE End(o)
  BY <1>1, <1>2, <1>4, EndKeeps DEF FilesInv
<1>5. CASE Goto(o, "head")
  <2>1. /\ Step(o, "head") /\ Onward(o)
        /\ op'[o].sent = op[o].sent /\ op'[o].temp = op[o].temp
    BY <1>2, <1>5, GotoStep
  <2>2. Previewed(o) /\ Underway(o) /\ "head" \in Stations[Kind(o)]
    BY <1>1, <1>2, KindAt DEF Underway, Stations, Previewed
  <2>3. OpShaped(o)' /\ NoEntryYet(o)' /\ SinceTrue(o)'
    BY <1>1, <1>2, <2>1, <2>2, StepOn DEF Step
  <2>4. BackedUp(o)' /\ PartsTrue(o)'
    BY <2>1 DEF Step, BackedUp, PartsTrue, PastHead, PastTail
  <2>5. BodyTrue(o)'
    BY <1>2, <2>1, <2>2, BodyKept DEF Step, PastHead, PastBody
  <2> QED BY <1>3, <2>1, <2>3, <2>4, <2>5 DEF Keeps, OpInv
<1> QED BY <1>4, <1>5 DEF Compile

LEMMA CopyHeadKeeps ==
    ASSUME OpsInv, StagesMove, NEW o \in Ops, CopyHead(o), since'[o] = Follow(o)
    PROVE  Keeps(o)
<1>1. OpInv(o) /\ DOMAIN op = Ops /\ FilesInv
  BY DEF OpsInv
<1>2. op[o].step = "head" /\ file' = file /\ backups' = backups /\ trash' = trash
  BY DEF CopyHead, OnlyOp, At
<1>3. FilesInv'
  BY <1>1, <1>2, FilesStay DEF FilesInv
<1>4. CASE End(o)
  BY <1>1, <1>2, <1>4, EndKeeps DEF FilesInv
<1>5. CASE op' = [op EXCEPT ![o].temp.head = Here(o), ![o].step = "body"]
  <2>1. DOMAIN op[o] = OpFields /\ DOMAIN op[o].temp = TempFields
    BY <1>1 DEF OpInv, OpShaped
  <2>2. op'[o] = [op[o] EXCEPT !.temp.head = Here(o), !.step = "body"]
    BY <1>1, <1>5
  <2>3. /\ Step(o, "body") /\ op'[o].sent = op[o].sent /\ op'[o].temp.head = Here(o)
        /\ op'[o].temp.body = op[o].temp.body /\ op'[o].temp.tail = op[o].temp.tail
    BY <2>1, <2>2 DEF Step, OpFields, TempFields
  <2>4. Onward(o)
    BY <1>1, <1>2, <1>5 DEF Onward
  <2>5. Previewed(o) /\ Underway(o) /\ "body" \in Stations[Kind(o)]
    BY <1>1, <1>2, KindAt DEF Underway, Stations, Previewed
  <2>6. /\ OpShaped(o)' /\ NoEntryYet(o)' /\ SinceTrue(o)'
        /\ Unmoved(o)' => Unmoved(o)
    BY <1>1, <1>2, <2>3, <2>5, StepOn DEF Step
  <2>7. BackedUp(o)'
    BY <2>3 DEF Step, BackedUp
  <2>8. Unmoved(o) => Here(o) = op[o].base
    BY <1>1, <1>2, <2>5 DEF OpInv, SinceTrue, Unmoved
  <2>9. PartsTrue(o)'
    BY <2>3, <2>6, <2>8 DEF Step, PartsTrue, PastTail
  <2>10. BodyTrue(o)'
    BY <1>2, <2>3, <2>5, BodyKept DEF Step, PastHead, PastBody
  <2> QED BY <1>3, <2>4, <2>6, <2>7, <2>9, <2>10 DEF Keeps, OpInv
<1> QED BY <1>4, <1>5 DEF CopyHead

LEMMA CopyTailKeeps ==
    ASSUME OpsInv, StagesMove, NEW o \in Ops, CopyTail(o), since'[o] = Follow(o)
    PROVE  Keeps(o)
<1>1. OpInv(o) /\ DOMAIN op = Ops /\ FilesInv
  BY DEF OpsInv
<1>2. op[o].step = "tail" /\ file' = file /\ backups' = backups /\ trash' = trash
  BY DEF CopyTail, OnlyOp, At
<1>3. FilesInv'
  BY <1>1, <1>2, FilesStay DEF FilesInv
<1>4. CASE End(o)
  BY <1>1, <1>2, <1>4, EndKeeps DEF FilesInv
<1>5. CASE op' = [op EXCEPT ![o].temp.tail = Here(o), ![o].step = "backup"]
  <2>1. DOMAIN op[o] = OpFields /\ DOMAIN op[o].temp = TempFields
    BY <1>1 DEF OpInv, OpShaped
  <2>2. op'[o] = [op[o] EXCEPT !.temp.tail = Here(o), !.step = "backup"]
    BY <1>1, <1>5
  <2>3. /\ Step(o, "backup") /\ op'[o].sent = op[o].sent /\ op'[o].temp.tail = Here(o)
        /\ op'[o].temp.body = op[o].temp.body /\ op'[o].temp.head = op[o].temp.head
    BY <2>1, <2>2 DEF Step, OpFields, TempFields
  <2>4. Onward(o)
    BY <1>1, <1>2, <1>5 DEF Onward
  <2>5. /\ Previewed(o) /\ Underway(o) /\ Kind(o) # "append"
        /\ "backup" \in Stations[Kind(o)]
    BY <1>1, <1>2, KindAt DEF Underway, Stations, Previewed
  <2>6. /\ OpShaped(o)' /\ NoEntryYet(o)' /\ SinceTrue(o)'
        /\ Unmoved(o)' => Unmoved(o)
    BY <1>1, <1>2, <2>3, <2>5, StepOn DEF Step
  <2>7. BackedUp(o)'
    BY <2>3 DEF Step, BackedUp
  <2>8. Unmoved(o) => Here(o) = op[o].base /\ op[o].temp.head = op[o].base
    BY <1>1, <1>2, <2>5 DEF OpInv, SinceTrue, Unmoved, PartsTrue, PastHead
  <2>9. PartsTrue(o)'
    BY <2>3, <2>6, <2>8 DEF Step, PartsTrue
  <2>10. BodyTrue(o)'
    BY <1>2, <2>3, <2>5, BodyKept DEF Step, PastHead, PastBody
  <2> QED BY <1>3, <2>4, <2>6, <2>7, <2>9, <2>10 DEF Keeps, OpInv
<1> QED BY <1>4, <1>5 DEF CopyTail

\* The beginning of a sequence, and the element after it, are again one.
LEMMA LongerBeginning ==
    ASSUME NEW S, NEW read \in Seq(S), NEW all \in Seq(S), Len(read) <= Len(all),
           \A k \in 1..Len(read) : read[k] = all[k],
           NEW body,
           body = IF Len(read) < Len(all) THEN Append(read, all[Len(read) + 1]) ELSE read
    PROVE  /\ body \in Seq(S) /\ Len(body) <= Len(all)
           /\ \A k \in 1..Len(body) : body[k] = all[k]
           /\ ~(Len(body) < Len(all)) => body = all
<1>1. Len(read) \in Nat /\ Len(all) \in Nat
  OBVIOUS
<1>2. /\ body \in Seq(S) /\ Len(body) <= Len(all)
      /\ \A k \in 1..Len(body) : body[k] = all[k]
  <2>1. CASE Len(read) < Len(all)
    <3> DEFINE n == Len(read)
               e == all[n + 1]
    <3>1. n + 1 \in 1..Len(all) /\ e \in S
      BY <1>1, <2>1
    <3>2. /\ Append(read, e) \in Seq(S) /\ Len(Append(read, e)) = n + 1
          /\ \A k \in 1..n : Append(read, e)[k] = read[k]
          /\ Append(read, e)[n + 1] = e
      BY <3>1, AppendProperties
    <3>3. body = Append(read, e)
      BY <2>1
    <3>4. \A k \in 1..(n + 1) : k \in 1..n \/ k = n + 1
      BY <1>1
    <3>5. \A k \in 1..(n + 1) : body[k] = all[k]
      BY <3>2, <3>3, <3>4
    <3>6. n + 1 <= Len(all)
      BY <1>1, <2>1
    <3> QED BY <3>2, <3>3, <3>5, <3>6
  <2>2. CASE ~(Len(read) < Len(all))
    BY <2>2
  <2> QED BY <2>1, <2>2
<1>3. ASSUME ~(Len(body) < Len(all)) PROVE body = all
  <2>1. Len(body) \in Nat /\ Len(body) = Len(all)
    BY <1>1, <1>2, <1>3
  <2> QED BY <1>2, <2>1, SeqEqual
<1> QED BY <1>2, <1>3

LEMMA CopyBodyKeeps ==
    ASSUME OpsInv, StagesMove, NEW o \in Ops, CopyBody(o), since'[o] = Follow(o)
    PROVE  Keeps(o)
<1>1. OpInv(o) /\ DOMAIN op = Ops /\ FilesInv
  BY DEF OpsInv
<1>2. op[o].step = "body" /\ file' = file /\ backups' = backups /\ trash' = trash
  BY DEF CopyBody, At
<1>3. FilesInv'
  BY <1>1, <1>2, FilesStay DEF FilesInv
<1>4. CASE End(o)
  BY <1>1, <1>2, <1>4, EndKeeps DEF FilesInv
<1>5. CASE ~(op[o].temp.body = <<>> /\ ~Ready(o))
  <2> DEFINE read == op[o].temp.body
             all == IF FromStage(o) /\ ~Ready(o) THEN <<>> ELSE Available(o)
             body == IF Len(read) < Len(all) THEN Append(read, all[Len(read) + 1]) ELSE read
             next == IF Kind(o) = "append" THEN "backup" ELSE "tail"
             step == IF Len(body) < Len(all) THEN "body" ELSE next
  <2>1. DOMAIN op[o] = OpFields /\ DOMAIN op[o].temp = TempFields
    BY <1>1 DEF OpInv, OpShaped
  <2>2. op' = [op EXCEPT ![o].temp.body = body, ![o].step = step]
    BY <1>5 DEF CopyBody
  <2>3. /\ step \in {"body", "backup", "tail"}
        /\ step = "backup" => Kind(o) = "append"
        /\ step = "tail" => Kind(o) # "append"
    OBVIOUS
  <2>4. Ready(o) => all = Available(o) /\ (step # "body" => ~(Len(body) < Len(all)))
    OBVIOUS
  <2>5. Ready(o) /\ BodyTrue(o) /\ Previewed(o) =>
            read \in Seq(Pieces(o)) /\ Len(read) <= Len(all) /\ Available(o) = op[o].sent
            /\ \A k \in 1..Len(read) : read[k] = all[k]
    BY <1>2, <2>4 DEF BodyTrue, Begun, PastHead
  <2>6. ASSUME Ready(o), BodyTrue(o), Previewed(o)
        PROVE  /\ body \in Seq(Pieces(o)) /\ Len(body) <= Len(op[o].sent)
               /\ \A k \in 1..Len(body) : body[k] = op[o].sent[k]
               /\ step # "body" => body = op[o].sent
    <3>1. all = op[o].sent /\ all \in Seq(Pieces(o))
      BY <2>4, <2>5, <2>6, AvailableIs DEF OpsInv
    <3>2. /\ body \in Seq(Pieces(o)) /\ Len(body) <= Len(all)
          /\ \A k \in 1..Len(body) : body[k] = all[k]
          /\ ~(Len(body) < Len(all)) => body = all
      <4>1. /\ read \in Seq(Pieces(o)) /\ Len(read) <= Len(all)
            /\ \A k \in 1..Len(read) : read[k] = all[k]
        BY <2>5, <2>6
      <4>2. body = IF Len(read) < Len(all) THEN Append(read, all[Len(read) + 1]) ELSE read
        OBVIOUS
      <4>3. all \in Seq(Pieces(o))
        BY <3>1
      <4> HIDE DEF read, all, body
      <4> QED BY <4>1, <4>2, <4>3, LongerBeginning
    <3> HIDE DEF all, body, step
    <3> QED BY <2>4, <2>6, <3>1, <3>2
  <2> HIDE DEF read, all, body, next, step
  <2>7. op'[o] = [op[o] EXCEPT !.temp.body = body, !.step = step]
    BY <1>1, <2>2
  <2>8. /\ Step(o, step) /\ op'[o].sent = op[o].sent /\ op'[o].temp.body = body
        /\ op'[o].temp.head = op[o].temp.head /\ op'[o].temp.tail = op[o].temp.tail
    BY <2>1, <2>7 DEF Step, OpFields, TempFields
  <2>9. Onward(o)
    BY <1>1, <1>2, <2>2 DEF Onward
  <2>10. Previewed(o) /\ Underway(o) /\ step \in Stations[Kind(o)]
    BY <1>1, <1>2, <2>3, KindAt DEF Underway, Stations, Previewed
  <2>11. /\ OpShaped(o)' /\ NoEntryYet(o)' /\ SinceTrue(o)'
         /\ Unmoved(o)' => Unmoved(o)
         /\ Kind(o)' = Kind(o)
    BY <1>1, <1>2, <2>3, <2>8, <2>10, StepOn DEF Step
  <2>12. BackedUp(o)'
    BY <2>3, <2>8 DEF Step, BackedUp
  <2>13. PartsTrue(o)'
    <3>1. Unmoved(o) => op[o].temp.head = op[o].base
      BY <1>1, <1>2, <2>10 DEF OpInv, PartsTrue, PastHead
    <3> QED BY <2>3, <2>8, <2>11, <3>1 DEF Step, PartsTrue, PastTail
  <2>14. BodyTrue(o)'
    <3>1. BodyTrue(o) /\ (FromStage(o) => stage[op[o].from].state \in {"sealed", "gone"})
      BY <1>1, <1>2, <2>10 DEF OpInv, BodyTrue, PastHead
    <3>2. /\ FromStage(o)' => stage'[op'[o].from].state \in {"sealed", "gone"}
          /\ Ready(o)' => Ready(o) /\ Available(o)' = Available(o)
      BY <2>8, <3>1, ReadyBefore DEF OpsInv, Step
    <3>3. Pieces(o)' = Pieces(o)
      BY DEF Pieces, Inline
    <3>4. ASSUME Ready(o)' PROVE Available(o)' = op'[o].sent /\ Begun(o)'
      <4>1. Ready(o) /\ Available(o)' = op'[o].sent
        BY <2>5, <2>8, <2>10, <3>1, <3>2, <3>4
      <4>2. /\ body \in Seq(Pieces(o)) /\ Len(body) <= Len(op[o].sent)
            /\ \A k \in 1..Len(body) : body[k] = op[o].sent[k]
            /\ step # "body" => body = op[o].sent
        BY <2>6, <2>10, <3>1, <4>1
      <4> QED BY <2>8, <3>3, <4>1, <4>2 DEF Begun, PastBody, Step
    <3>5. Kind(o) = "append" => op'[o].temp.tail = Absent
      BY <2>8, <2>10, <3>1 DEF BodyTrue
    <3>6. op'[o].step \notin {"look", "preview", "compile", "head", "rename"}
      BY <2>3, <2>8 DEF Step
    <3> QED BY <2>11, <3>2, <3>4, <3>5, <3>6 DEF BodyTrue
  <2> QED BY <1>3, <2>9, <2>11, <2>12, <2>13, <2>14 DEF Keeps, OpInv
<1> QED BY <1>4, <1>5 DEF CopyBody

LEMMA BackupKeeps ==
    ASSUME OpsInv, StagesMove, NEW o \in Ops, Backup(o), since'[o] = Follow(o)
    PROVE  Keeps(o)
<1>1. OpInv(o) /\ DOMAIN op = Ops /\ FilesInv
  BY DEF OpsInv
<1>2. op[o].step = "backup" /\ file' = file /\ trash' = trash
  BY DEF Backup, At
<1>3. CASE End(o) /\ UNCHANGED backups
  BY <1>1, <1>2, <1>3, EndKeeps DEF FilesInv
<1>4. CASE /\ op' = [op EXCEPT ![o].base = IF Kind(o) \in Replacing THEN @ ELSE Here(o),
                               ![o].step = AfterBackup(o)]
           /\ backups' = backups \cup ({Here(o)} \ {Absent})
  <2>1. DOMAIN op[o] = OpFields /\ DOMAIN op[o].temp = TempFields
    BY <1>1 DEF OpInv, OpShaped
  <2>2. op'[o] = [op[o] EXCEPT !.base = IF Kind(o) \in Replacing THEN @ ELSE Here(o),
                               !.step = AfterBackup(o)]
    BY <1>1, <1>4
  <2>3. /\ op'[o].base = IF Kind(o) \in Replacing THEN op[o].base ELSE Here(o)
        /\ op'[o].step = AfterBackup(o) /\ DOMAIN op'[o] = OpFields
        /\ op'[o].request = op[o].request /\ op'[o].path = op[o].path
        /\ op'[o].from = op[o].from /\ op'[o].sent = op[o].sent /\ op'[o].temp = op[o].temp
    BY <2>1, <2>2 DEF OpFields
  <2>4. Onward(o) /\ FilesInv'
    BY <1>1, <1>2, <1>4, FilesStay DEF Onward, FilesInv
  <2>5. Here(o) \in backups' \cup {Absent} /\ Kind(o)' = Kind(o)
    BY <1>4, <2>3 DEF Kind
  <2>6. CASE Kind(o) \in Replacing
    <3>1. AfterBackup(o) = "verify" /\ Underway(o) /\ "verify" \in Stations[Kind(o)]
      BY <1>2, <2>6 DEF AfterBackup, Underway, Stations, Replacing
    <3>2. Step(o, "verify")
      BY <2>1, <2>3, <2>6, <3>1 DEF Step
    <3>3. /\ OpShaped(o)' /\ NoEntryYet(o)' /\ SinceTrue(o)'
          /\ Unmoved(o)' => Unmoved(o)
          /\ Previewed(o)' = Previewed(o)
      BY <1>1, <1>2, <3>1, <3>2, StepOn DEF Step
    <3>4. Unmoved(o) => Here(o) = op[o].base
      BY <1>1, <1>2, <3>1 DEF OpInv, SinceTrue, Unmoved
    <3>5. BackedUp(o)'
      BY <2>5, <3>2, <3>3, <3>4 DEF BackedUp, Step
    <3>6. PartsTrue(o)'
      BY <1>1, <1>2, <2>3, <2>5, <3>2, <3>3 DEF OpInv, PartsTrue, PastHead, PastTail, Step
    <3>7. BodyTrue(o)'
      <4>1. CASE Previewed(o)
        BY <1>2, <2>3, <3>2, <4>1, BodyKept DEF Step, PastHead, PastBody
      <4>2. CASE ~Previewed(o)
        BY <3>3, <4>2 DEF BodyTrue
      <4> QED BY <4>1, <4>2
    <3> QED BY <2>4, <3>3, <3>5, <3>6, <3>7 DEF Keeps, OpInv
  <2>7. CASE Kind(o) \notin Replacing
    <3>1. /\ Kind(o) \in {"restore", "copy"}
          /\ op'[o].step = IF Kind(o) = "restore" THEN "remove" ELSE "clear"
          /\ op'[o].base = Here(o)
      BY <1>1, <1>2, <2>3, <2>7, KindAt DEF AfterBackup
    <3>2. OpShaped(o)'
      BY <1>1, <1>2, <2>3, <2>5, <3>1 DEF OpInv, OpShaped, Stations
    <3>3. NoEntryYet(o)'
      BY <3>1 DEF NoEntryYet
    <3>4. SinceTrue(o)'
      BY <2>3, <2>7, <3>1, NotUnderway DEF Kind
    <3>5. BackedUp(o)'
      BY <2>5, <3>1 DEF BackedUp
    <3>6. PartsTrue(o)' /\ BodyTrue(o)'
      BY <2>5, <3>1 DEF PartsTrue, BodyTrue, Previewed
    <3> QED BY <2>4, <3>2, <3>3, <3>4, <3>5, <3>6 DEF Keeps, OpInv
  <2> QED BY <2>6, <2>7
<1> QED BY <1>3, <1>4 DEF Backup

LEMMA VerifyKeeps ==
    ASSUME OpsInv, StagesMove, NEW o \in Ops, Verify(o), since'[o] = Follow(o)
    PROVE  Keeps(o)
<1>1. OpInv(o) /\ DOMAIN op = Ops /\ FilesInv
  BY DEF OpsInv
<1>2. /\ op[o].step = "verify" /\ file' = file /\ backups' = backups /\ trash' = trash
  BY DEF Verify, OnlyOp, At
<1>3. FilesInv'
  BY <1>1, <1>2, FilesStay DEF FilesInv
<1>4. CASE End(o)
  BY <1>1, <1>2, <1>4, EndKeeps DEF FilesInv
<1>5. CASE Here(o) = op[o].base /\ Goto(o, AfterVerify(o))
  <2>1. /\ Step(o, AfterVerify(o)) /\ Onward(o)
        /\ op'[o].sent = op[o].sent /\ op'[o].temp = op[o].temp
    BY <1>2, <1>5, GotoStep
  <2>2. /\ AfterVerify(o) \in {"check", "rename"} /\ Underway(o)
        /\ AfterVerify(o) = "rename" => ~FromStage(o)
    BY <1>1, <1>2, KindAt DEF Underway, AfterVerify
  <2>3. CASE AfterVerify(o) \in Stations[Kind(o)]
    <3>1. /\ OpShaped(o)' /\ NoEntryYet(o)' /\ SinceTrue(o)'
          /\ Unmoved(o)' => Unmoved(o)
          /\ Kind(o)' = Kind(o) /\ Previewed(o)' = Previewed(o)
      BY <1>1, <1>2, <1>5, <2>1, <2>2, <2>3, StepOn DEF Step, Here
    <3>2. BackedUp(o)'
      BY <1>1, <1>2, <2>1, <2>2, <3>1 DEF OpInv, BackedUp, Step
    <3>3. PartsTrue(o)'
      BY <1>1, <1>2, <2>1, <2>2, <3>1 DEF OpInv, PartsTrue, PastHead, PastTail, Step
    <3>4. BodyTrue(o)'
      <4>1. CASE Previewed(o)
        <5>1. ~FromStage(o) => op[o].temp.body = op[o].sent
          BY <1>1, <1>2, <4>1 DEF OpInv, BodyTrue, Ready, Begun, PastHead, PastBody
        <5> QED BY <1>2, <2>1, <2>2, <4>1, <5>1, BodyKept DEF Step, PastHead, PastBody
      <4>2. CASE ~Previewed(o)
        BY <3>1, <4>2 DEF BodyTrue
      <4> QED BY <4>1, <4>2
    <3> QED BY <1>3, <2>1, <3>1, <3>2, <3>3, <3>4 DEF Keeps, OpInv
  <2> QED BY <2>2, <2>3, <1>1, <1>2, KindAt DEF Stations, Replacing
<1> QED BY <1>4, <1>5 DEF Verify

LEMMA CheckKeeps ==
    ASSUME OpsInv, StagesMove, NEW o \in Ops, Check(o), since'[o] = Follow(o)
    PROVE  Keeps(o)
<1>1. OpInv(o) /\ DOMAIN op = Ops /\ FilesInv
  BY DEF OpsInv
<1>2. op[o].step = "check" /\ file' = file /\ backups' = backups /\ trash' = trash
  BY DEF Check, At
<1>3. FilesInv'
  BY <1>1, <1>2, FilesStay DEF FilesInv
<1>4. CASE End(o)
  BY <1>1, <1>2, <1>4, EndKeeps DEF FilesInv
<1>5. CASE Ready(o) /\ Goto(o, "rename")
  <2>1. /\ Step(o, "rename") /\ Onward(o)
        /\ op'[o].sent = op[o].sent /\ op'[o].temp = op[o].temp
    BY <1>2, <1>5, GotoStep
  <2>2. Underway(o) /\ "rename" \in Stations[Kind(o)]
    BY <1>1, <1>2, KindAt DEF Underway, Stations, Replacing
  <2>3. /\ OpShaped(o)' /\ NoEntryYet(o)' /\ SinceTrue(o)'
        /\ Unmoved(o)' => Unmoved(o)
        /\ Kind(o)' = Kind(o) /\ Previewed(o)' = Previewed(o)
    BY <1>1, <1>2, <2>1, <2>2, StepOn DEF Step
  <2>4. BackedUp(o)'
    BY <1>1, <1>2, <2>1, <2>3 DEF OpInv, BackedUp, Step
  <2>5. PartsTrue(o)'
    BY <1>1, <1>2, <2>1, <2>3 DEF OpInv, PartsTrue, PastHead, PastTail, Step
  <2>6. BodyTrue(o)'
    <3>1. CASE Previewed(o)
      <4>1. op[o].temp.body = op[o].sent
        BY <1>1, <1>2, <1>5, <3>1 DEF OpInv, BodyTrue, Begun, PastHead, PastBody
      <4> QED BY <1>2, <2>1, <3>1, <4>1, BodyKept DEF Step, PastHead, PastBody
    <3>2. CASE ~Previewed(o)
      BY <2>3, <3>2 DEF BodyTrue
    <3> QED BY <3>1, <3>2
  <2> QED BY <1>3, <2>1, <2>3, <2>4, <2>5, <2>6 DEF Keeps, OpInv
<1> QED BY <1>4, <1>5 DEF Check

LEMMA RenameKeeps ==
    ASSUME OpsInv, NEW o \in Ops, Rename(o), since'[o] = Follow(o)
    PROVE  Keeps(o)
<1>1. DOMAIN file' = Paths
  BY DEF OpsInv, FilesInv, Rename
<1> QED BY <1>1, EndKeeps DEF Rename

-----------------------------------------------------------------------------
(* The other operations                                                    *)

\* What an operation that replaces nothing needs.
LEMMA OtherStep ==
    ASSUME NEW o \in Ops, since'[o] = Follow(o), op'[o].request.kind \notin Replacing,
           OpShaped(o)', NoEntryYet(o)', BackedUp(o)'
    PROVE  OpInv(o)'
<1>1. Kind(o)' \notin Replacing /\ ~Previewed(o)'
  BY DEF Kind, Previewed, Replacing
<1>2. SinceTrue(o)'
  BY <1>1, NotUnderway DEF SinceTrue, Underway, Kind
<1>3. PartsTrue(o)' /\ BodyTrue(o)'
  BY <1>1 DEF PartsTrue, BodyTrue
<1> QED BY <1>2, <1>3 DEF OpInv

LEMMA AwayKeeps ==
    ASSUME OpsInv, NEW o \in Ops, Away(o), since'[o] = Follow(o)
    PROVE  Keeps(o)
<1>1. OpInv(o) /\ DOMAIN op = Ops /\ FilesInv
  BY DEF OpsInv
<1>2. op[o].step = "away" /\ backups' = backups /\ Kind(o) = "delete"
  BY <1>1, KindAt DEF Away, At
<1>3. CASE End(o) /\ UNCHANGED <<file, trash>>
  BY <1>1, <1>2, <1>3, EndKeeps DEF FilesInv
<1>4. CASE /\ trash' = [trash EXCEPT ![o].content = Here(o)]
           /\ file' = [file EXCEPT ![op[o].path] = Absent]
           /\ Goto(o, "note")
  <2>1. /\ DOMAIN op[o] = OpFields
        /\ op' = [op EXCEPT ![o].step = "note"]
    BY <1>1, <1>4 DEF OpInv, OpShaped, Goto
  <2>2. op'[o] = [op[o] EXCEPT !.step = "note"] /\ DOMAIN op' = Ops
        /\ \A x \in Ops : x # o => op'[x] = op[x]
    BY <1>1, <2>1
  <2>3. /\ op'[o].step = "note" /\ DOMAIN op'[o] = OpFields
        /\ op'[o].request = op[o].request /\ op'[o].path = op[o].path
        /\ op'[o].from = op[o].from /\ op'[o].base = op[o].base /\ op'[o].temp = op[o].temp
    BY <2>1, <2>2 DEF OpFields
  <2>4. o \in Slots /\ \A x \in Ops : x # o => trash'[x] = trash[x]
    BY <1>1, <1>4 DEF FilesInv, Slots
  <2>5. Onward(o)
    BY <1>2, <2>2, <2>4 DEF Onward
  <2>6. FilesInv'
    <3>1. DOMAIN file' = Paths /\ DOMAIN trash' = Slots
      BY <1>1, <1>4 DEF FilesInv
    <3>2. ASSUME NEW i \in Slots
          PROVE  DOMAIN trash'[i] = DOMAIN trash[i] /\ trash'[i].from = trash[i].from
      BY <1>1, <1>4 DEF FilesInv
    <3> QED BY <1>1, <1>2, <3>1, <3>2 DEF FilesInv
  <2>7. Kind(o)' = "delete"
    BY <1>2, <2>3 DEF Kind
  <2>8. OpShaped(o)'
    BY <1>1, <1>2, <2>3, <2>7 DEF OpInv, OpShaped, Stations
  <2>9. NoEntryYet(o)' /\ BackedUp(o)'
    BY <2>3 DEF NoEntryYet, BackedUp
  <2>10. op'[o].request.kind \notin Replacing
    BY <2>7 DEF Kind, Replacing
  <2> QED BY <2>5, <2>6, <2>8, <2>9, <2>10, OtherStep DEF Keeps
<1> QED BY <1>3, <1>4 DEF Away

\* The entries of the trash, where one loses or gains where it came from.
LEMMA EntryNoted ==
    ASSUME FilesInv, NEW i \in Slots, NEW p \in Paths \cup {Nobody},
           trash' = [trash EXCEPT ![i].from = p], UNCHANGED <<file, backups>>
    PROVE  FilesInv' /\ \A j \in Slots : trash'[j].content = trash[j].content
<1>1. DOMAIN trash' = Slots
  BY DEF FilesInv
<1>2. ASSUME NEW j \in Slots
      PROVE  /\ DOMAIN trash'[j] = {"content", "from"} /\ trash'[j].content = trash[j].content
             /\ trash'[j].from \in Paths \cup {Nobody}
  BY DEF FilesInv
<1> QED BY <1>1, <1>2 DEF FilesInv

LEMMA NoteKeeps ==
    ASSUME OpsInv, NEW o \in Ops, Note(o), since'[o] = Follow(o)
    PROVE  Keeps(o)
<1>1. OpInv(o) /\ DOMAIN op = Ops /\ FilesInv
  BY DEF OpsInv
<1>2. /\ op[o].step = "note" /\ file' = file /\ backups' = backups /\ Kind(o) = "delete"
      /\ trash' = [trash EXCEPT ![o].from = op[o].path]
      /\ op' = [op EXCEPT ![o] = Ended]
  BY <1>1, KindAt DEF Note, At, End
<1>3. op[o].path \in Paths \cup {Nobody} /\ o \in Slots
  BY <1>1, <1>2 DEF OpInv, OpShaped, Slots
<1>4. FilesInv' /\ \A j \in Slots : trash'[j].content = trash[j].content
  BY <1>1, <1>2, <1>3, EntryNoted
<1>5. Onward(o) /\ op'[o] = Ended
  BY <1>1, <1>2, <1>4 DEF Onward, Slots
<1> QED BY <1>4, <1>5, OverKeeps DEF Keeps

LEMMA UndoKeeps ==
    ASSUME OpsInv, NEW o \in Ops, Undo(o), since'[o] = Follow(o)
    PROVE  Keeps(o)
<1>1. OpInv(o) /\ DOMAIN op = Ops /\ FilesInv
  BY DEF OpsInv
<1>2. backups' = backups /\ op' = [op EXCEPT ![o] = Ended] /\ o \in Slots
  BY DEF Undo, End, Slots
<1>3. \A x \in Slots : x # o => trash'[x] = trash[x]
  BY <1>1 DEF Undo, FilesInv
<1>4. Onward(o) /\ op'[o] = Ended
  BY <1>1, <1>2, <1>3 DEF Onward, Slots
<1>5. FilesInv'
  <2>1. DOMAIN file' = Paths /\ DOMAIN trash' = Slots
    BY <1>1 DEF FilesInv, Undo
  <2>2. DOMAIN NoEntry = {"content", "from"} /\ NoEntry.from = Nobody
    BY DEF NoEntry
  <2>3. trash'[o] = trash[o] \/ trash'[o] = NoEntry
    BY <1>1, <1>2 DEF Undo, FilesInv
  <2>4. ASSUME NEW i \in Slots
        PROVE  /\ DOMAIN trash'[i] = {"content", "from"}
               /\ trash'[i].from \in Paths \cup {Nobody}
    BY <1>1, <1>3, <2>2, <2>3 DEF FilesInv
  <2> QED BY <1>1, <1>2, <2>1, <2>4 DEF FilesInv
<1> QED BY <1>4, <1>5, OverKeeps DEF Keeps

LEMMA LookToRestoreKeeps ==
    ASSUME OpsInv, NEW o \in Ops, LookToRestore(o), since'[o] = Follow(o)
    PROVE  Keeps(o)
<1>1. OpInv(o) /\ DOMAIN op = Ops /\ FilesInv
  BY DEF OpsInv
<1>2. /\ op[o].step = "look" /\ Kind(o) = "restore"
      /\ file' = file /\ backups' = backups /\ trash' = trash
  BY DEF LookToRestore, At, OnlyOp
<1>3. FilesInv'
  BY <1>1, <1>2, FilesStay DEF FilesInv
<1>4. CASE End(o)
  BY <1>1, <1>2, <1>4, EndKeeps DEF FilesInv
<1>5. ASSUME NEW path \in Paths, NEW step \in {"put", "backup"},
             op' = [op EXCEPT ![o].path = path, ![o].step = step]
      PROVE  Keeps(o)
  <2>1. DOMAIN op[o] = OpFields
    BY <1>1 DEF OpInv, OpShaped
  <2>2. op'[o] = [op[o] EXCEPT !.path = path, !.step = step]
    BY <1>1, <1>5
  <2>3. /\ op'[o].step = step /\ op'[o].path = path /\ DOMAIN op'[o] = OpFields
        /\ op'[o].request = op[o].request /\ op'[o].from = op[o].from
        /\ op'[o].base = op[o].base /\ op'[o].temp = op[o].temp
    BY <2>1, <2>2 DEF OpFields
  <2>4. Onward(o)
    BY <1>1, <1>2, <1>5 DEF Onward
  <2>5. Kind(o)' = "restore"
    BY <1>2, <2>3 DEF Kind
  <2>6. OpShaped(o)'
    BY <1>1, <1>2, <2>3, <2>5 DEF OpInv, OpShaped, Stations
  <2>7. NoEntryYet(o)'
    BY <2>3 DEF NoEntryYet
  <2>8. op[o].base = Absent
    BY <1>1, <1>2 DEF OpInv, OpShaped
  <2>9. BackedUp(o)'
    BY <2>3, <2>8 DEF BackedUp
  <2>10. op'[o].request.kind \notin Replacing
    BY <2>5 DEF Kind, Replacing
  <2> QED BY <1>3, <2>4, <2>6, <2>7, <2>9, <2>10, OtherStep DEF Keeps
<1>6. PICK path : path = IF op[o].path = "noted" THEN trash[op[o].from].from ELSE op[o].path
  OBVIOUS
<1>7. path = Nobody \/ path \in Paths
  BY <1>1, <1>2, <1>6 DEF OpInv, OpShaped, FilesInv
<1>8. \/ End(o)
      \/ path # Nobody /\ op' = [op EXCEPT ![o].path = path, ![o].step = "put"]
      \/ path # Nobody /\ op' = [op EXCEPT ![o].path = path, ![o].step = "backup"]
  BY <1>6 DEF LookToRestore
<1> QED BY <1>4, <1>5, <1>7, <1>8

\* Such an operation goes one step on.
LEMMA OtherGoes ==
    ASSUME OpsInv, NEW o \in Ops, NEW step, Goto(o, step), since'[o] = Follow(o),
           Kind(o) \notin Replacing \cup {"none"}, op[o].step \notin {"idle", "look"},
           step \in Stations[Kind(o)], step \notin {"idle", "away", "look"},
           UNCHANGED backups,
           \A x \in Ops : x # o => (trash[x].content = Absent => trash'[x].content = Absent),
           step \in {"remove", "put", "clear", "open"} => op[o].base \in backups \cup {Absent}
    PROVE  OpInv(o)' /\ Onward(o)
<1>1. OpInv(o) /\ DOMAIN op = Ops /\ DOMAIN op[o] = OpFields
  BY DEF OpsInv, OpInv, OpShaped
<1>2. op' = [op EXCEPT ![o].step = step]
  BY DEF Goto
<1>3. op'[o] = [op[o] EXCEPT !.step = step]
  BY <1>1, <1>2
<1>4. /\ op'[o].step = step /\ op'[o].path = op[o].path /\ DOMAIN op'[o] = OpFields
      /\ op'[o].request = op[o].request /\ op'[o].from = op[o].from
      /\ op'[o].base = op[o].base /\ op'[o].temp = op[o].temp
  BY <1>1, <1>3 DEF OpFields
<1>5. Onward(o)
  BY <1>1, <1>2 DEF Onward
<1>6. Kind(o)' = Kind(o)
  BY <1>4 DEF Kind
<1>7. OpShaped(o)'
  BY <1>1, <1>4, <1>6 DEF OpInv, OpShaped
<1>8. step \notin {"verify", "check", "rename"}
  BY <1>1 DEF OpInv, OpShaped, Stations, Replacing
<1>9. NoEntryYet(o)' /\ BackedUp(o)'
  BY <1>4, <1>8 DEF NoEntryYet, BackedUp
<1>10. op'[o].request.kind \notin Replacing
  BY <1>6 DEF Kind
<1> QED BY <1>5, <1>7, <1>9, <1>10, OtherStep

LEMMA RemoveKeeps ==
    ASSUME OpsInv, NEW o \in Ops, Remove(o), since'[o] = Follow(o)
    PROVE  Keeps(o)
<1>1. OpInv(o) /\ FilesInv /\ op[o].step = "remove" /\ Kind(o) = "restore"
  BY KindAt DEF OpsInv, Remove, At
<1>2. op[o].base \in backups \cup {Absent}
  BY <1>1 DEF OpInv, BackedUp
<1>3. OpInv(o)' /\ Onward(o)
  BY <1>1, <1>2, OtherGoes DEF Remove, Replacing, Stations
<1>4. FilesInv'
  BY <1>1 DEF Remove, FilesInv
<1> QED BY <1>3, <1>4 DEF Keeps

LEMMA PutKeeps ==
    ASSUME OpsInv, NEW o \in Ops, Put(o), since'[o] = Follow(o)
    PROVE  Keeps(o)
<1>1. OpInv(o) /\ FilesInv /\ op[o].step = "put" /\ Kind(o) = "restore"
  BY KindAt DEF OpsInv, Put, At
<1>2. UNCHANGED backups
  BY DEF Put
<1>3. CASE End(o) /\ UNCHANGED <<file, trash>>
  BY <1>1, <1>2, <1>3, EndKeeps DEF FilesInv
<1>4. CASE /\ file' = [file EXCEPT ![op[o].path] = trash[op[o].from].content]
           /\ trash' = [trash EXCEPT ![op[o].from].content = Absent]
           /\ Goto(o, "tidy")
  <2>1. op[o].from \in Slots
    BY <1>1 DEF OpInv, OpShaped
  <2>2. ASSUME NEW i \in Slots
        PROVE  /\ DOMAIN trash'[i] = {"content", "from"} /\ trash'[i].from = trash[i].from
               /\ trash[i].content = Absent => trash'[i].content = Absent
    BY <1>1, <1>4, <2>1 DEF FilesInv
  <2>3. OpInv(o)' /\ Onward(o)
    BY <1>1, <1>2, <1>4, <2>2, OtherGoes DEF Replacing, Stations, Slots
  <2>4. DOMAIN file' = Paths /\ DOMAIN trash' = Slots
    BY <1>1, <1>4 DEF FilesInv
  <2>5. FilesInv'
    BY <1>1, <1>2, <2>2, <2>4 DEF FilesInv
  <2> QED BY <2>3, <2>5 DEF Keeps
<1> QED BY <1>3, <1>4 DEF Put

LEMMA TidyKeeps ==
    ASSUME OpsInv, NEW o \in Ops, Tidy(o), since'[o] = Follow(o)
    PROVE  Keeps(o)
<1>1. /\ OpInv(o) /\ FilesInv /\ op[o].step = "tidy" /\ Kind(o) = "restore"
      /\ DOMAIN op = Ops
  BY KindAt DEF OpsInv, Tidy, At
<1>2. op[o].from \in Slots
  BY <1>1 DEF OpInv, OpShaped
<1>3. FilesInv' /\ \A j \in Slots : trash'[j].content = trash[j].content
  BY <1>1, <1>2, EntryNoted DEF Tidy
<1>4. Onward(o) /\ op'[o] = Ended
  BY <1>1, <1>3 DEF Onward, Slots, Tidy, End
<1> QED BY <1>3, <1>4, OverKeeps DEF Keeps

LEMMA LookToMoveKeeps ==
    ASSUME OpsInv, NEW o \in Ops, LookToMove(o), since'[o] = Follow(o)
    PROVE  Keeps(o)
<1>1. /\ OpInv(o) /\ FilesInv /\ op[o].step = "look" /\ Kind(o) = "move"
      /\ file' = file /\ backups' = backups /\ trash' = trash
  BY DEF OpsInv, LookToMove, At, OnlyOp
<1>2. CASE End(o)
  BY <1>1, <1>2, EndKeeps DEF FilesInv
<1>3. CASE Goto(o, "move")
  <2>1. DOMAIN op = Ops /\ DOMAIN op[o] = OpFields
    BY <1>1 DEF OpsInv, OpInv, OpShaped
  <2>2. /\ op'[o] = [op[o] EXCEPT !.step = "move"] /\ DOMAIN op' = Ops
        /\ \A x \in Ops : x # o => op'[x] = op[x]
    BY <1>3, <2>1 DEF Goto
  <2>3. /\ op'[o].step = "move" /\ op'[o].path = op[o].path /\ DOMAIN op'[o] = OpFields
        /\ op'[o].request = op[o].request /\ op'[o].from = op[o].from
        /\ op'[o].base = op[o].base /\ op'[o].temp = op[o].temp
    BY <2>1, <2>2 DEF OpFields
  <2>4. Kind(o)' = "move"
    BY <1>1, <2>3 DEF Kind
  <2>5. OpShaped(o)'
    BY <1>1, <2>3, <2>4 DEF OpInv, OpShaped, Stations
  <2>6. NoEntryYet(o)' /\ BackedUp(o)'
    BY <2>3 DEF NoEntryYet, BackedUp
  <2>7. op'[o].request.kind \notin Replacing
    BY <2>4 DEF Kind, Replacing
  <2>8. Onward(o) /\ FilesInv'
    BY <1>1, <2>2, FilesStay DEF Onward, FilesInv
  <2> QED BY <2>5, <2>6, <2>7, <2>8, OtherStep DEF Keeps
<1> QED BY <1>2, <1>3 DEF LookToMove

LEMMA MoveKeeps ==
    ASSUME OpsInv, NEW o \in Ops, Move(o), since'[o] = Follow(o)
    PROVE  Keeps(o)
<1>1. DOMAIN file' = Paths
  BY DEF OpsInv, FilesInv, Move
<1> QED BY <1>1, EndKeeps DEF Move

LEMMA ClearKeeps ==
    ASSUME OpsInv, NEW o \in Ops, Clear(o), since'[o] = Follow(o)
    PROVE  Keeps(o)
<1>1. /\ OpInv(o) /\ FilesInv /\ op[o].step = "clear" /\ Kind(o) = "copy"
      /\ UNCHANGED <<backups, trash>>
  BY KindAt DEF OpsInv, Clear, At
<1>2. CASE End(o) /\ UNCHANGED file
  BY <1>1, <1>2, EndKeeps DEF FilesInv
<1>3. CASE file' = [file EXCEPT ![op[o].path] = Absent] /\ Goto(o, "open")
  <2>1. op[o].base \in backups \cup {Absent}
    BY <1>1 DEF OpInv, BackedUp
  <2>2. OpInv(o)' /\ Onward(o)
    BY <1>1, <1>3, <2>1, OtherGoes DEF Replacing, Stations
  <2>3. FilesInv'
    BY <1>1, <1>3 DEF FilesInv
  <2> QED BY <2>2, <2>3 DEF Keeps
<1> QED BY <1>2, <1>3 DEF Clear

LEMMA OpenKeeps ==
    ASSUME OpsInv, NEW o \in Ops, Open(o), since'[o] = Follow(o)
    PROVE  Keeps(o)
<1>1. /\ OpInv(o) /\ FilesInv /\ op[o].step = "open" /\ Kind(o) = "copy"
      /\ UNCHANGED <<backups, trash>>
  BY KindAt DEF OpsInv, Open, At
<1>2. CASE End(o) /\ UNCHANGED file
  BY <1>1, <1>2, EndKeeps DEF FilesInv
<1>3. CASE /\ op' = [op EXCEPT ![o].temp.head = file[op[o].from], ![o].step = "fill"]
           /\ file' = [file EXCEPT ![op[o].path] = Torn(o)]
  <2>1. DOMAIN op = Ops /\ DOMAIN op[o] = OpFields /\ DOMAIN op[o].temp = TempFields
    BY <1>1 DEF OpsInv, OpInv, OpShaped
  <2>2. /\ op'[o] = [op[o] EXCEPT !.temp.head = file[op[o].from], !.step = "fill"]
        /\ DOMAIN op' = Ops /\ \A x \in Ops : x # o => op'[x] = op[x]
    BY <1>3, <2>1
  <2>3. /\ op'[o].step = "fill" /\ op'[o].path = op[o].path /\ DOMAIN op'[o] = OpFields
        /\ op'[o].request = op[o].request /\ op'[o].from = op[o].from
        /\ DOMAIN op'[o].temp = TempFields
    BY <2>1, <2>2 DEF OpFields, TempFields
  <2>4. Kind(o)' = "copy"
    BY <1>1, <2>3 DEF Kind
  <2>5. OpShaped(o)'
    BY <1>1, <2>3, <2>4 DEF OpInv, OpShaped, Stations
  <2>6. NoEntryYet(o)' /\ BackedUp(o)'
    BY <2>3 DEF NoEntryYet, BackedUp
  <2>7. op'[o].request.kind \notin Replacing
    BY <2>4 DEF Kind, Replacing
  <2>8. Onward(o)
    BY <1>1, <2>2 DEF Onward
  <2>9. FilesInv'
    BY <1>1, <1>3 DEF FilesInv
  <2> QED BY <2>5, <2>6, <2>7, <2>8, <2>9, OtherStep DEF Keeps
<1> QED BY <1>2, <1>3 DEF Open

\* What is written into an open file changes nothing else.
LEMMA CompleteFiles ==
    ASSUME FilesInv, NEW x, NEW content, Complete(x, content), UNCHANGED backups
    PROVE  /\ FilesInv'
           /\ \A i \in Slots : trash[i].content = Absent => trash'[i].content = Absent
<1>1. Absent # Torn(x)
  BY DEF Absent, Torn
<1>2. /\ DOMAIN file' = Paths /\ DOMAIN trash' = Slots
      /\ \A i \in Slots : trash'[i] = [trash[i] EXCEPT !.content = IF @ = Torn(x) THEN content
                                                                   ELSE @]
  BY DEF Complete
<1>3. ASSUME NEW i \in Slots
      PROVE  /\ DOMAIN trash'[i] = {"content", "from"} /\ trash'[i].from = trash[i].from
             /\ trash[i].content = Absent => trash'[i].content = Absent
  BY <1>1, <1>2 DEF FilesInv
<1> QED BY <1>2, <1>3 DEF FilesInv

LEMMA FillKeeps ==
    ASSUME OpsInv, NEW o \in Ops, Fill(o), since'[o] = Follow(o)
    PROVE  Keeps(o)
<1>1. FilesInv /\ DOMAIN op = Ops
  BY DEF OpsInv
<1>2. FilesInv' /\ \A i \in Slots : trash[i].content = Absent => trash'[i].content = Absent
  BY <1>1, CompleteFiles DEF Fill
<1>3. Onward(o) /\ op'[o] = Ended
  BY <1>1, <1>2 DEF Onward, Slots, Fill, End
<1> QED BY <1>2, <1>3, OverKeeps DEF Keeps

\* What a client may ask for.
LEMMA RequestedIs ==
    ASSUME OpsInv, NEW r \in Setting.requests
    PROVE  /\ r \in Requests /\ (r.path = "noted" => r.kind = "restore")
           /\ r.from = "stage" => r.kind = "transform"
BY RequestAssumption DEF RequestAssumption, OpsInv, BoundsInv, Setting

LEMMA BeginKeeps ==
    ASSUME OpsInv, NEW o \in Ops, Begin(o), since'[o] = Follow(o)
    PROVE  Keeps(o)
<1>1. /\ OpInv(o) /\ FilesInv /\ op[o].step = "idle" /\ DOMAIN op = Ops
      /\ file' = file /\ backups' = backups /\ trash' = trash
  BY DEF OpsInv, Begin, At, OnlyOp
<1>2. PICK r \in Setting.requests :
          \E f \in CASE r.from = "stage" -> Setting.stages
                     [] r.kind = "restore" -> {i \in Slots : trash[i].content # Absent}
                     [] OTHER -> {r.from} :
             op' = [op EXCEPT ![o] = [Requested(r) EXCEPT !.from = f, !.step = First[r.kind]]]
  BY DEF Begin
<1>3. /\ r.kind \in Tools /\ r.path \in Paths \cup {"noted"}
      /\ r.from \in Paths \cup {"inline", "stage", "trash", "none"}
      /\ DOMAIN r = DOMAIN NoRequest
      /\ r.path = "noted" => r.kind = "restore"
      /\ r.from = "stage" => r.kind = "transform"
  BY RequestedIs DEF Requests, NoRequest
<1>4. PICK f : /\ op' = [op EXCEPT ![o] = [Requested(r) EXCEPT !.from = f,
                                                               !.step = First[r.kind]]]
               /\ r.kind = "restore" => f \in Slots
               /\ r.kind \notin {"restore", "transform"} => f = r.from
  <2>1. CASE r.from = "stage"
    BY <1>2, <1>3, <2>1
  <2>2. CASE r.from # "stage" /\ r.kind = "restore"
    BY <1>2, <2>2
  <2>3. CASE r.from # "stage" /\ r.kind # "restore"
    BY <1>2, <2>3
  <2> QED BY <2>1, <2>2, <2>3
<1>5. /\ DOMAIN op' = Ops /\ \A x \in Ops : x # o => op'[x] = op[x]
      /\ op'[o] = [Requested(r) EXCEPT !.from = f, !.step = First[r.kind]]
  BY <1>1, <1>4
<1>6. /\ op'[o].request = r /\ op'[o].step = First[r.kind] /\ op'[o].path = r.path
      /\ op'[o].from = f /\ op'[o].base = Absent /\ op'[o].temp = NoTemp
      /\ DOMAIN op'[o] = OpFields
  BY <1>5 DEF Requested, OpFields
<1>7. Onward(o) /\ FilesInv'
  BY <1>1, <1>5, FilesStay DEF Onward, FilesInv
<1>8. Kind(o)' = r.kind
  BY <1>6 DEF Kind
<1>9. /\ First[r.kind] \in Stations[r.kind] /\ First[r.kind] \in {"look", "away", "backup"}
      /\ r.kind \in Replacing => First[r.kind] = "look"
      /\ r.kind \in {"append", "transform", "patch"} => First[r.kind] = "look"
      /\ r.kind \in DOMAIN Stations /\ r.kind # "none"
      /\ r.kind = "restore" => First[r.kind] = "look"
  BY <1>3 DEF Tools, First, Stations, Replacing
<1>10. r.kind \in {"delete", "move", "copy"} => f \notin Slots
  BY <1>3, <1>4, NamesDiffer DEF NamesDiffer
<1>11. OpShaped(o)'
  BY <1>3, <1>4, <1>6, <1>8, <1>9, <1>10, EndedIs DEF OpShaped
<1>12. NoEntryYet(o)'
  BY <1>1 DEF OpInv, NoEntryYet
<1>13. BackedUp(o)'
  BY <1>6, <1>9 DEF BackedUp
<1>14. SinceTrue(o)'
  <2>1. op'[o].request.kind \notin Replacing \/ op'[o].step \in {"look", "ended"}
    BY <1>6, <1>9
  <2>2. op'[o].step # "ended"
    BY <1>6, <1>9
  <2> QED BY <2>1, <2>2, NotUnderway
<1>15. Previewed(o)' => op'[o].step = "look" /\ op'[o].temp = NoTemp
  BY <1>6, <1>8, <1>9 DEF Previewed
<1>16. PartsTrue(o)' /\ BodyTrue(o)'
  BY <1>15, EndedIs DEF PartsTrue, BodyTrue, PastHead, PastTail
<1> QED BY <1>7, <1>11, <1>12, <1>13, <1>14, <1>16 DEF Keeps, OpInv

LEMMA FailKeeps ==
    ASSUME OpsInv, NEW o \in Ops, Fail(o), since'[o] = Follow(o)
    PROVE  Keeps(o)
<1>1. /\ OpInv(o) /\ FilesInv
      /\ file' = file /\ backups' = backups /\ trash' = trash
  BY DEF OpsInv, Fail, OnlyOp
<1>2. CASE End(o)
  BY <1>1, <1>2, EndKeeps DEF FilesInv
<1>3. CASE op[o].step = "note" /\ Goto(o, "undo")
  <2>1. Kind(o) = "delete"
    BY <1>1, <1>3, KindAt
  <2>2. OpInv(o)' /\ Onward(o)
    BY <1>1, <1>3, <2>1, OtherGoes DEF Stations, Replacing
  <2>3. FilesInv'
    BY <1>1 DEF FilesInv
  <2> QED BY <2>2, <2>3 DEF Keeps
<1> QED BY <1>2, <1>3 DEF Fail, At

\* Every action of an operation keeps what it has to.
LEMMA WorkKeeps ==
    ASSUME OpsInv, StagesMove, NEW o \in Ops, Work(o), since'[o] = Follow(o)
    PROVE  Keeps(o)
BY BeginKeeps, LookToWriteKeeps, LookToChangeKeeps, PreviewKeeps, CompileKeeps, CopyHeadKeeps,
   CopyBodyKeeps, CopyTailKeeps, BackupKeeps, VerifyKeeps, CheckKeeps, RenameKeeps,
   AwayKeeps, NoteKeeps, UndoKeeps, LookToRestoreKeeps, RemoveKeeps, PutKeeps, TidyKeeps,
   LookToMoveKeeps, MoveKeeps, ClearKeeps, OpenKeeps, FillKeeps DEF Work

LEMMA AsksMoves ==
    ASSUME StagesInv, NEW o \in Ops, Asks(o)
    PROVE  StagesMove
BY PruneMoves DEF Asks, Prune

LEMMA WorkStages ==
    ASSUME StagesInv, NEW o \in Ops, Work(o)
    PROVE  StagesMove
<1>1. CASE Preview(o) \/ Compile(o) \/ CopyBody(o) \/ Check(o)
  <2>1. Asks(o) \/ UNCHANGED stage
    BY <1>1 DEF Preview, Compile, CopyBody, Check
  <2> QED BY <2>1, AsksMoves, PruneMoves
<1>2. CASE ~(Preview(o) \/ Compile(o) \/ CopyBody(o) \/ Check(o))
  <2>1. UNCHANGED stage
    BY Zenon, <1>2
       DEF Work, Begin, LookToWrite, LookToChange, CopyHead, CopyTail, Backup, Verify,
           Rename, Away, Note, Undo, LookToRestore, Remove, Put, Tidy, LookToMove, Move,
           Clear, Open, Fill, OnlyOp
  <2> QED BY <2>1, PruneMoves
<1> QED BY <1>1, <1>2

\* Where one operation has done its part, all are sound.
LEMMA AllKeep ==
    ASSUME OpsInv, StagesMove, NEW o \in Ops, Keeps(o), since' = [x \in Ops |-> Follow(x)],
           BoundsInv'
    PROVE  OpsInv'
<1>1. ASSUME NEW x \in Ops PROVE OpInv(x)'
  <2>1. CASE x = o
    BY <2>1 DEF Keeps
  <2>2. CASE x # o
    <3>1. since'[x] = Follow(x)
      OBVIOUS
    <3> QED BY <2>2, <3>1, OthersKeep DEF Keeps, Onward
  <2> QED BY <2>1, <2>2
<1> QED BY <1>1 DEF OpsInv, Keeps, Onward, StagesMove

\* And where none has done anything.
LEMMA NoneMoves ==
    ASSUME OpsInv, StagesMove, UNCHANGED <<op, backups>>, FilesInv', BoundsInv',
           \A x \in Ops : trash[x].content = Absent => trash'[x].content = Absent,
           since' = [x \in Ops |-> Follow(x)]
    PROVE  OpsInv'
<1>1. ASSUME NEW x \in Ops PROVE OpInv(x)'
  BY OthersKeep
<1> QED BY <1>1 DEF OpsInv, StagesMove

LEMMA CrashKeeps ==
    ASSUME OpsInv, Crash, since' = [x \in Ops |-> Follow(x)], scenario' = scenario
    PROVE  OpsInv'
<1>1. StagesMove /\ UNCHANGED <<file, backups, trash>>
  BY PruneMoves DEF OpsInv, Crash, OnlyOp
<1>2. BoundsInv'
  <2>1. Setting' = Setting /\ crashes \in Nat /\ Setting.crashes \in Nat
    BY MutationAssumption DEF MutationAssumption, OpsInv, BoundsInv, Setting
  <2> QED BY <2>1 DEF OpsInv, BoundsInv, Crash
<1>3. FilesInv'
  BY <1>1 DEF OpsInv, FilesInv
<1>4. ASSUME NEW x \in Ops PROVE OpInv(x)'
  <2>1. since'[x] = Follow(x) /\ (op'[x] = Ended \/ op'[x] = op[x])
    BY DEF Crash
  <2> QED BY <1>1, <2>1, OverKeeps, OthersKeep
<1>5. DOMAIN op' = Ops
  BY DEF Crash
<1> QED BY <1>1, <1>2, <1>3, <1>4, <1>5 DEF OpsInv, StagesMove

LEMMA NextKeeps ==
    ASSUME OpsInv, Next
    PROVE  OpsInv'
<1>1. since' = [x \in Ops |-> Follow(x)] /\ scenario' = scenario
  BY DEF Next
<1>2. Setting' = Setting /\ Setting.faults \in Nat /\ Setting.stages \subseteq Stages
  BY <1>1, MutationAssumption DEF MutationAssumption, OpsInv, BoundsInv, Setting
<1>3. UNCHANGED bounds => BoundsInv'
  BY <1>1, <1>2 DEF OpsInv, BoundsInv, bounds
<1>4. CASE \E o \in Ops : Work(o) /\ UNCHANGED bounds
  <2>1. PICK o \in Ops : Work(o) /\ UNCHANGED bounds
    BY <1>4
  <2>2. StagesMove /\ since'[o] = Follow(o)
    BY <1>1, <2>1, WorkStages DEF OpsInv
  <2> QED BY <1>1, <1>3, <2>1, <2>2, WorkKeeps, AllKeep
<1>5. CASE \E o \in Ops : Fail(o)
  <2>1. PICK o \in Ops : Fail(o)
    BY <1>5
  <2>2. StagesMove /\ since'[o] = Follow(o)
    BY <1>1, <2>1, PruneMoves DEF OpsInv, Fail, OnlyOp
  <2>3. BoundsInv'
    BY <1>1, <1>2, <2>1 DEF OpsInv, BoundsInv, Fail
  <2> QED BY <1>1, <2>1, <2>2, <2>3, FailKeeps, AllKeep
<1>6. CASE Crash
  BY <1>1, <1>6, CrashKeeps
<1>7. CASE /\ (\E s \in Setting.stages : StageStep(s)) \/ (Prune /\ stage' # stage)
           /\ UNCHANGED <<file, backups, trash, op, bounds>>
  <2>1. StagesMove
    BY <1>2, <1>7, StageStepMoves, PruneMoves DEF OpsInv
  <2>2. FilesInv'
    BY <1>7 DEF OpsInv, FilesInv
  <2> QED BY <1>1, <1>3, <1>7, <2>1, <2>2, NoneMoves
<1>8. CASE Rest
  <2>1. StagesMove
    BY <1>8, PruneMoves DEF OpsInv, Rest
  <2>2. FilesInv'
    BY <1>8 DEF OpsInv, FilesInv, Rest
  <2> QED BY <1>1, <1>3, <1>8, <2>1, <2>2, NoneMoves DEF Rest
<1> QED BY <1>4, <1>5, <1>6, <1>7, <1>8 DEF Next

-----------------------------------------------------------------------------
(* The patches                                                             *)

\* What a line of the ledger says once its patch is committed it says for good.
Lasting ==
    /\ DOMAIN ledger' = Ops
    /\ \A x \in Ops :
          ledger[x].status \in {"committed", "undone"} =>
             /\ ledger'[x].status \in {"committed", "undone"}
             /\ ledger'[x].path = ledger[x].path /\ ledger'[x].source = ledger[x].source
             /\ ledger'[x].backup = ledger[x].backup /\ ledger'[x].back = ledger[x].back

LEMMA LedgerStays ==
    ASSUME DOMAIN ledger = Ops, UNCHANGED ledger
    PROVE  Lasting
BY DEF Lasting

\* A patch that is left alone, while lines of the ledger are marked as undone.
LEMMA PatchStays ==
    ASSUME NEW x \in Ops, PatchTrue(x), Setting' = Setting, patch'[x] = patch[x],
           Kind(x)' = "patch" <=> Kind(x) = "patch",
           patch[x].step \notin {"none", "inside"} => op'[x].step = "ended",
           patch[x].step = "inside" => op'[x] = op[x] /\ (Unmoved(x)' => Unmoved(x)),
           Lasting, DOMAIN ledger'[x] = LineFields,
           ledger[x].status \notin {"committed", "undone"} => ledger'[x] = ledger[x]
    PROVE  PatchTrue(x)'
<1>1. patch[x].of # Nobody =>
          /\ ledger'[patch[x].of].status \in {"committed", "undone"}
          /\ ledger'[patch[x].of].backup = ledger[patch[x].of].backup
  BY DEF PatchTrue, Lasting
<1>2. CASE ledger'[x] = ledger[x]
  BY <1>1, <1>2 DEF PatchTrue, Noted
<1>3. CASE ledger[x].status \in {"committed", "undone"}
  <2>1. /\ ledger'[x].status \in {"committed", "undone"}
        /\ ledger'[x].path = ledger[x].path /\ ledger'[x].source = ledger[x].source
        /\ ledger'[x].backup = ledger[x].backup /\ ledger'[x].back = ledger[x].back
    BY <1>3 DEF Lasting
  <2>2. patch[x].step = "done"
    BY <1>3 DEF PatchTrue
  <2> QED BY <1>1, <1>3, <2>1, <2>2 DEF PatchTrue, Noted
<1> QED BY <1>2, <1>3

LEMMA DoneIs ==
    LET done == [NoPatch EXCEPT !.step = "done"] IN
    /\ DOMAIN done = PatchFields /\ done.step = "done" /\ done.of = Nobody
    /\ DOMAIN NoPatch = PatchFields /\ NoPatch.step = "none" /\ NoPatch.of = Nobody
<1>1. DOMAIN NoPatch = PatchFields /\ NoPatch.step = "none" /\ NoPatch.of = Nobody
  BY DEF NoPatch, PatchFields
<1> QED BY <1>1 DEF PatchFields

\* A patch that is over.
LEMMA PatchOver ==
    ASSUME NEW x \in Ops, PatchTrue(x), Setting' = Setting,
           patch'[x] = [NoPatch EXCEPT !.step = "done"],
           op'[x].step = "ended", Kind(x)' # "patch", ledger'[x] = ledger[x]
    PROVE  PatchTrue(x)'
BY DoneIs DEF PatchTrue, PatchSteps, Noted

\* How the edit of a patch goes on.
LEMMA EditGoesOn ==
    ASSUME OpsInv, NEW o \in Ops, Work(o), Kind(o) = "patch", since'[o] = Follow(o)
    PROVE  \/ op'[o] = Ended
           \/ /\ Kind(o)' = "patch"
              /\ op'[o].base = op[o].base /\ op'[o].path = op[o].path
              /\ Unmoved(o)' => Unmoved(o)
              /\ op'[o].step # "ended"
              /\ op'[o].step = "verify" => op[o].step = "backup"
              /\ op'[o].step \in {"check", "rename"} => op[o].step \in {"verify", "check"}
<1>1. /\ OpInv(o) /\ DOMAIN op = Ops /\ DOMAIN op[o] = OpFields
      /\ DOMAIN op[o].temp = TempFields
  BY DEF OpsInv, OpInv, OpShaped
<1>2. /\ op[o].step \in {"preview", "compile", "head", "body", "tail", "backup", "verify",
                         "check", "rename"}
      /\ Underway(o)
  BY <1>1 DEF OpInv, OpShaped, Stations, Underway, Replacing
<1>3. ASSUME NEW step, Step(o, step), step \notin {"look", "ended"},
             op[o].step \in {"check", "rename"} => step \in {"check", "rename"},
             step \in {"check", "rename"} =>
                op[o].step \in {"check", "rename"} \/ file'[op[o].path] = op[o].base,
             step = "verify" => op[o].step = "backup",
             step \in {"check", "rename"} => op[o].step \in {"verify", "check"}
      PROVE  /\ Kind(o)' = "patch"
             /\ op'[o].base = op[o].base /\ op'[o].path = op[o].path
             /\ Unmoved(o)' => Unmoved(o)
             /\ op'[o].step # "ended"
             /\ op'[o].step = "verify" => op[o].step = "backup"
             /\ op'[o].step \in {"check", "rename"} => op[o].step \in {"verify", "check"}
  BY <1>1, <1>2, <1>3, GoingOn DEF OpInv, Step, Kind
<1>4. ASSUME NEW step, Goto(o, step) PROVE Step(o, step)
  BY <1>1, <1>4 DEF Goto, Step, OpFields
<1>5. CASE Preview(o)
  <2>1. op'[o] = Ended \/ Step(o, "compile")
    BY <1>1, <1>5 DEF Preview, End, Step, OpFields
  <2> QED BY <1>2, <1>3, <1>5, <2>1 DEF Preview, At
<1>6. CASE Compile(o)
  <2>1. op'[o] = Ended \/ Step(o, "head")
    BY <1>1, <1>4, <1>6 DEF Compile, End
  <2> QED BY <1>2, <1>3, <1>6, <2>1 DEF Compile, At
<1>7. CASE CopyHead(o)
  <2>1. op'[o] = Ended \/ Step(o, "body")
    BY <1>1, <1>7 DEF CopyHead, End, Step, OpFields, TempFields
  <2> QED BY <1>2, <1>3, <1>7, <2>1 DEF CopyHead, At
<1>8. CASE CopyBody(o)
  <2>1. op'[o] = Ended \/ Step(o, "body") \/ Step(o, "tail") \/ Step(o, "backup")
    BY <1>1, <1>8 DEF CopyBody, End, Step, OpFields, TempFields
  <2> QED BY <1>2, <1>3, <1>8, <2>1 DEF CopyBody, At
<1>9. CASE CopyTail(o)
  <2>1. op'[o] = Ended \/ Step(o, "backup")
    BY <1>1, <1>9 DEF CopyTail, End, Step, OpFields, TempFields
  <2> QED BY <1>2, <1>3, <1>9, <2>1 DEF CopyTail, At
<1>10. CASE Backup(o)
  <2>1. op'[o] = Ended \/ Step(o, "verify")
    BY <1>1, <1>10 DEF Backup, End, Step, OpFields, AfterBackup, Replacing
  <2> QED BY <1>2, <1>3, <1>10, <2>1 DEF Backup, At
<1>11. CASE Verify(o)
  <2>1. \/ op'[o] = Ended
        \/ /\ Here(o) = op[o].base /\ file' = file
           /\ Step(o, "check") \/ Step(o, "rename")
    BY <1>1, <1>4, <1>11 DEF Verify, OnlyOp, End, AfterVerify
  <2> QED BY <1>2, <1>3, <1>11, <2>1 DEF Verify, At, Here
<1>12. CASE Check(o)
  <2>1. op'[o] = Ended \/ Step(o, "rename")
    BY <1>1, <1>4, <1>12 DEF Check, End
  <2> QED BY <1>2, <1>3, <1>12, <2>1 DEF Check, At
<1>13. CASE Rename(o)
  BY <1>1, <1>13 DEF Rename, End
<1> QED BY ZenonT(30), <1>2, <1>5, <1>6, <1>7, <1>8, <1>9, <1>10, <1>11, <1>12, <1>13
        DEF Work, Begin, LookToWrite, LookToChange, Away, Note, Undo, LookToRestore, Remove,
            Put, Tidy, LookToMove, Move, Clear, Open, Fill, At

\* No other operation becomes the edit of a patch, and one that is over stays so.
LEMMA NoNewEdit ==
    ASSUME OpsInv, NEW o \in Ops, Work(o), Kind(o) # "patch"
    PROVE  Kind(o)' # "patch" /\ op[o].step # "ended"
<1>1. /\ OpInv(o) /\ DOMAIN op = Ops /\ DOMAIN op[o] = OpFields
      /\ DOMAIN op[o].temp = TempFields /\ DOMAIN op[o].request = DOMAIN NoRequest
  BY DEF OpsInv, OpInv, OpShaped
<1>2. End(o) => Kind(o)' # "patch"
  BY <1>1, EndedIs DEF End, Kind
<1>3. ASSUME NEW step, Goto(o, step) PROVE Kind(o)' # "patch"
  BY <1>1, <1>3 DEF Goto, Kind, OpFields
<1>4. CASE Begin(o)
  <2>1. PICK r \in Setting.requests : op'[o].request = r
    BY <1>1, <1>4 DEF Begin, Requested
  <2>2. r.kind \in Tools
    BY RequestedIs DEF Requests
  <2> QED BY <1>4, <2>1, <2>2 DEF Tools, Kind, Begin, At
<1>5. CASE LookToWrite(o) \/ LookToChange(o) \/ Preview(o) \/ CopyHead(o) \/ CopyTail(o)
  BY <1>1, <1>2, <1>5 DEF LookToWrite, LookToChange, Preview, CopyHead, CopyTail, Kind, OpFields,
     At, NoRequest
<1>6. CASE CopyBody(o)
  BY <1>1, <1>2, <1>6 DEF CopyBody, Kind, OpFields, At
<1>7. CASE Backup(o) \/ LookToRestore(o) \/ Open(o)
  BY <1>1, <1>2, <1>7 DEF Backup, LookToRestore, Open, Kind, OpFields, At
<1>8. CASE Compile(o) \/ Verify(o) \/ Check(o) \/ Away(o) \/ Remove(o) \/ Put(o)
           \/ LookToMove(o) \/ Clear(o)
  BY <1>2, <1>3, <1>8 DEF Compile, Verify, Check, Away, Remove, Put, LookToMove, Clear, At
<1>9. CASE Rename(o) \/ Note(o) \/ Undo(o) \/ Tidy(o) \/ Move(o) \/ Fill(o)
  BY <1>2, <1>9 DEF Rename, Note, Undo, Tidy, Move, Fill, At
<1> QED BY <1>4, <1>5, <1>6, <1>7, <1>8, <1>9 DEF Work

\* The edit of a patch takes its patch with it.
LEMMA CarryKeeps ==
    ASSUME OpsInv, PatchesInv, NEW o \in Ops, patch'[o] = Carry(o), ledger' = ledger,
           Setting' = Setting, In(o, "inside"), op'[o] # op[o], since'[o] = Follow(o),
           Work(o) \/ (End(o) /\ UNCHANGED file)
    PROVE  PatchTrue(o)'
<1>1. OpInv(o) /\ PatchTrue(o) /\ Kind(o) = "patch" /\ patch[o].step = "inside" /\ DOMAIN op = Ops
  BY DEF OpsInv, PatchesInv, PatchTrue, In
<1>2. Underway(o) /\ op[o].step \notin {"look", "ended"}
  BY <1>1 DEF OpInv, OpShaped, Stations, Underway, Replacing
<1>3. /\ patch[o].path \in Setting.patches /\ ledger[o].status \notin {"committed", "undone"}
      /\ patch[o].source = op[o].base /\ patch[o].path = op[o].path
      /\ DOMAIN patch[o] = PatchFields /\ DOMAIN ledger[o] = LineFields
      /\ patch[o].of = Nobody /\ ledger[o].status = "ready"
      /\ ledger[o].source = patch[o].source /\ ledger[o].path = patch[o].path
  BY <1>1 DEF PatchTrue, Noted
<1>4. \/ op'[o] = Ended
      \/ /\ Kind(o)' = "patch"
         /\ op'[o].base = op[o].base /\ op'[o].path = op[o].path
         /\ Unmoved(o)' => Unmoved(o)
         /\ op'[o].step # "ended"
         /\ op'[o].step = "verify" => op[o].step = "backup"
         /\ op'[o].step \in {"check", "rename"} => op[o].step \in {"verify", "check"}
  BY <1>1, EditGoesOn DEF End
<1>5. CASE op'[o] = Ended
  <2>1. op'[o].step = "ended" /\ Kind(o)' = "none"
    BY <1>5, EndedIs DEF Kind
  <2>2. CASE op[o].step = "rename" /\ file' # file
    <3>1. patch'[o] = [patch[o] EXCEPT !.step = "validate", !.back = since[o] = "back"]
      BY <1>1, <2>2 DEF Carry, In, At
    <3>2. /\ DOMAIN patch'[o] = PatchFields /\ patch'[o].step = "validate"
          /\ patch'[o].path = patch[o].path /\ patch'[o].source = patch[o].source
          /\ patch'[o].saved = patch[o].saved /\ patch'[o].of = Nobody
          /\ patch'[o].back = (since[o] = "back")
      BY <1>3, <3>1 DEF PatchFields
    <3>3. patch'[o].saved = patch'[o].source \/ patch'[o].back = TRUE
      <4>1. CASE Unmoved(o)
        BY <1>1, <1>3, <2>2, <3>2, <4>1 DEF PatchTrue
      <4>2. CASE ~Unmoved(o)
        <5>1. since[o] = "back"
          BY <1>1, <2>2, <4>2 DEF OpInv, SinceTrue, Unmoved
        <5> QED BY <3>2, <5>1
      <4> QED BY <4>1, <4>2
    <3> QED BY <1>3, <2>1, <3>2, <3>3 DEF PatchTrue, PatchSteps, Noted
  <2>3. CASE ~(op[o].step = "rename" /\ file' # file)
    <3>1. patch'[o] = [NoPatch EXCEPT !.step = "done"]
      BY <1>1, <2>1, <2>3 DEF Carry, In, At
    <3> QED BY <1>1, <2>1, <3>1, PatchOver
  <2> QED BY <2>2, <2>3
<1>6. CASE op'[o] # Ended
  <2>1. /\ Kind(o)' = "patch" /\ op'[o].base = op[o].base /\ op'[o].path = op[o].path
        /\ Unmoved(o)' => Unmoved(o)
        /\ op'[o].step # "ended"
        /\ op'[o].step = "verify" => op[o].step = "backup"
        /\ op'[o].step \in {"check", "rename"} => op[o].step \in {"verify", "check"}
    BY <1>4, <1>6
  <2>2. CASE op[o].step = "backup"
    <3>1. patch'[o] = [patch[o] EXCEPT !.saved = Here(o)]
      BY <1>1, <2>1, <2>2 DEF Carry, In, At
    <3>2. /\ DOMAIN patch'[o] = PatchFields /\ patch'[o].step = "inside"
          /\ patch'[o].path = patch[o].path /\ patch'[o].source = patch[o].source
          /\ patch'[o].saved = Here(o) /\ patch'[o].of = Nobody
      BY <1>1, <1>3, <3>1 DEF PatchFields
    <3>3. Unmoved(o)' => Here(o) = op[o].base
      BY <1>1, <1>2, <2>1, <2>2 DEF OpInv, SinceTrue, Unmoved
    <3> QED BY <1>3, <2>1, <3>2, <3>3 DEF PatchTrue, PatchSteps, Noted
  <2>3. CASE op[o].step # "backup"
    <3>1. ~(op[o].step = "rename" /\ Work(o))
      BY ZenonT(30), <1>1, <1>2, <1>6, KindAt
         DEF Work, Begin, LookToWrite, LookToChange, Preview, Compile, CopyHead, CopyBody,
             CopyTail, Backup, Verify, Check, Rename, Away, Note, Undo, LookToRestore, Remove,
             Put, Tidy, LookToMove, Move, Clear, Open, Fill, At, End
    <3>2. patch'[o] = patch[o]
      BY <1>1, <1>6, <2>1, <2>3, <3>1 DEF Carry, In, At, End
    <3>3. /\ op'[o].step \in {"verify", "check", "rename"} /\ Unmoved(o)' =>
                op[o].step \in {"verify", "check", "rename"} /\ Unmoved(o)
      BY <2>1, <2>3
    <3> QED BY <1>1, <1>3, <2>1, <3>2, <3>3 DEF PatchTrue, PatchSteps, Noted
  <2> QED BY <2>2, <2>3
<1> QED BY <1>5, <1>6

\* An operation that is cut off is over, and so is its patch.
LEMMA StoppedKeeps ==
    ASSUME OpsInv, PatchesInv, NEW x \in Ops, patch' = Stopped, ledger' = ledger,
           Setting' = Setting,
           Crash \/ (op' = op /\ \A o \in Ops : ~InFlight(o))
    PROVE  PatchTrue(x)'
<1>1. OpInv(x) /\ PatchTrue(x) /\ DOMAIN ledger = Ops /\ DOMAIN ledger[x] = LineFields
  BY DEF OpsInv, PatchesInv, PatchTrue
<1>2. patch'[x] = IF Patching(x) THEN [NoPatch EXCEPT !.step = "done"] ELSE patch[x]
  BY DEF Stopped
<1>3. /\ op'[x] = Ended \/ op'[x] = op[x]
      /\ ~InFlight(x) => op'[x] = op[x]
      /\ InFlight(x) /\ Kind(x) = "patch" => op'[x] = Ended
  BY DEF Crash
<1>4. Kind(x) # "patch" => Kind(x)' # "patch"
  BY <1>3, EndedIs DEF Kind
<1>5. Kind(x) = "patch" => InFlight(x) /\ patch[x].step = "inside"
  BY <1>1 DEF OpInv, OpShaped, Stations, InFlight, PatchTrue
<1>6. patch[x].step \notin {"none", "inside"} => op[x].step = "ended" /\ op'[x] = op[x]
  BY <1>1, <1>3 DEF PatchTrue, InFlight
<1>7. CASE Patching(x)
  <2>1. op'[x].step = "ended" /\ Kind(x)' # "patch"
    <3>1. CASE patch[x].step = "inside"
      BY <1>1, <1>3, <1>5, <3>1, EndedIs DEF PatchTrue, Kind
    <3>2. CASE patch[x].step # "inside"
      BY <1>1, <1>4, <1>6, <1>7, <3>2 DEF Patching, PatchTrue
    <3> QED BY <3>1, <3>2
  <2> QED BY <1>1, <1>2, <1>7, <2>1, PatchOver
<1>8. CASE ~Patching(x)
  <2>1. patch[x].step \in {"none", "ready", "done"} /\ patch'[x] = patch[x] /\ Kind(x) # "patch"
    BY <1>1, <1>2, <1>8 DEF Patching, PatchTrue
  <2>2. Lasting
    BY <1>1, LedgerStays
  <2>3. patch[x].step # "inside"
    BY <2>1
  <2> QED BY <1>1, <1>4, <1>6, <2>1, <2>2, <2>3, PatchStays
<1> QED BY <1>7, <1>8

LEMMA NextPatches ==
    ASSUME OpsInv, PatchesInv, Next, ledger' = ledger,
           patch' = IF crashes' # crashes THEN Stopped ELSE [o \in Ops |-> Carry(o)]
    PROVE  PatchesInv'
<1>1. DOMAIN patch' = Ops /\ DOMAIN ledger' = Ops
  BY DEF PatchesInv, Stopped
<1>2. Setting' = Setting
  BY DEF Next, Setting
<1>3. crashes \in Nat
  BY MutationAssumption DEF MutationAssumption, OpsInv, BoundsInv, Setting
<1>4. CASE crashes' # crashes
  <2>1. Crash
    BY <1>4 DEF Next, bounds, Fail, Rest
  <2> QED BY <1>1, <1>2, <1>4, <2>1, StoppedKeeps DEF PatchesInv
<1>5. CASE crashes' = crashes
  <2> SUFFICES ASSUME NEW x \in Ops PROVE PatchTrue(x)'
    BY <1>1 DEF PatchesInv
  <2>1. patch'[x] = Carry(x) /\ since'[x] = Follow(x)
    BY <1>5 DEF Next
  <2>2. /\ OpInv(x) /\ PatchTrue(x) /\ DOMAIN ledger[x] = LineFields /\ Lasting
    BY LedgerStays DEF OpsInv, PatchesInv, PatchTrue
  <2>3. CASE op'[x] = op[x]
    <3>1. Unmoved(x)' => Unmoved(x)
      BY <2>1, <2>2, <2>3, SinceStays
    <3>2. patch'[x] = patch[x] /\ Kind(x)' = Kind(x)
      BY <2>1, <2>3 DEF Carry, Kind
    <3>3. patch[x].step \notin {"none", "inside"} => op'[x].step = "ended"
      BY <2>2, <2>3 DEF PatchTrue
    <3> QED BY <1>2, <2>2, <2>3, <3>1, <3>2, <3>3, PatchStays
  <2>4. CASE op'[x] # op[x]
    <3>1. Work(x) \/ Fail(x)
      <4>1. CASE \E o \in Ops : Work(o)
        <5>1. PICK o \in Ops : Work(o)
          BY <4>1
        <5>2. Onward(o)
          BY <5>1, WorkStages, WorkKeeps DEF Keeps, OpsInv, Next
        <5> QED BY <2>4, <5>1, <5>2 DEF Onward
      <4>2. CASE \E o \in Ops : Fail(o)
        <5>1. PICK o \in Ops : Fail(o)
          BY <4>2
        <5>2. Onward(o)
          BY <5>1, FailKeeps DEF Keeps, Next
        <5> QED BY <2>4, <5>1, <5>2 DEF Onward
      <4>3. ~Crash
        BY <1>3, <1>5 DEF Crash
      <4> QED BY <2>4, <4>1, <4>2, <4>3 DEF Next, Rest
    <3>2. CASE In(x, "inside")
      <4>1. Work(x) \/ (End(x) /\ UNCHANGED file)
        <5>1. Kind(x) = "patch"
          BY <2>2, <3>2 DEF PatchTrue, In
        <5> QED BY <2>2, <3>1, <5>1, KindAt DEF Fail, At, OnlyOp
      <4> QED BY <1>2, <2>1, <2>4, <3>2, <4>1, CarryKeeps
    <3>3. CASE ~In(x, "inside")
      <4>1. Kind(x) # "patch"
        BY <2>2, <3>3 DEF PatchTrue, In
      <4>2. Kind(x)' # "patch" /\ op[x].step # "ended"
        <5>1. CASE Work(x)
          BY <4>1, <5>1, NoNewEdit
        <5>2. CASE Fail(x)
          <6>1. DOMAIN op = Ops /\ DOMAIN op[x] = OpFields
            BY <2>2 DEF OpsInv, OpInv, OpShaped
          <6>2. Kind(x)' = Kind(x) \/ Kind(x)' = "none"
            BY <5>2, <6>1, EndedIs DEF Fail, Goto, End, Kind, OpFields
          <6> QED BY <4>1, <5>2, <6>2 DEF Fail, InFlight
        <5> QED BY <3>1, <5>1, <5>2
      <4>3. patch[x].step = "none"
        BY <2>2, <3>3, <4>2 DEF PatchTrue, In
      <4>4. patch'[x] = patch[x]
        BY <2>1, <3>3 DEF Carry
      <4> QED BY <1>2, <2>2, <4>1, <4>2, <4>3, <4>4, PatchStays
    <3> QED BY <3>2, <3>3
  <2> QED BY <2>3, <2>4
<1> QED BY <1>4, <1>5

\* One patch has done its part.
LEMMA PatchAlone ==
    ASSUME OpsInv, PatchesInv, NEW o \in Ops, Setting' = Setting,
           since' = [x \in Ops |-> Follow(x)],
           DOMAIN patch' = Ops, \A x \in Ops : x # o => patch'[x] = patch[x] /\ op'[x] = op[x],
           Lasting, \A x \in Ops : x # o => DOMAIN ledger'[x] = LineFields,
           \A x \in Ops : x # o /\ ledger[x].status \notin {"committed", "undone"}
                             => ledger'[x] = ledger[x],
           PatchTrue(o)'
    PROVE  PatchesInv'
<1>1. ASSUME NEW x \in Ops PROVE PatchTrue(x)'
  <2>1. CASE x # o
    <3>1. /\ PatchTrue(x) /\ OpInv(x) /\ op'[x] = op[x] /\ since'[x] = Follow(x)
          /\ patch'[x] = patch[x]
      BY <2>1 DEF OpsInv, PatchesInv
    <3>2. Unmoved(x)' => Unmoved(x)
      BY <3>1, SinceStays
    <3>3. Kind(x)' = Kind(x) /\ (patch[x].step \notin {"none", "inside"} => op'[x].step = "ended")
      BY <3>1 DEF Kind, PatchTrue
    <3>4. /\ DOMAIN ledger'[x] = LineFields
          /\ ledger[x].status \notin {"committed", "undone"} => ledger'[x] = ledger[x]
      BY <2>1
    <3> QED BY <3>1, <3>2, <3>3, <3>4, PatchStays
  <2> QED BY <2>1
<1> QED BY <1>1 DEF PatchesInv, Lasting

\* Nobody serves an operation itself.
LEMMA NobodyServes == Nobody \notin Ops
BY NamesDiffer DEF NamesDiffer, Slots

\* An operation that has not begun has no patch.
LEMMA NoPatchYet ==
    ASSUME OpsInv, PatchesInv, NEW o \in Ops, At(o, "idle")
    PROVE  patch[o].step = "none" /\ patch[o] = NoPatch
BY KindAt DEF OpsInv, PatchesInv, PatchTrue, At

\* The patch of an operation that is over goes one step on, or is over itself.
LEMMA PatchTurns ==
    ASSUME OpsInv, PatchesInv, NEW o \in Ops, patch[o].step \notin {"none", "inside"},
           op' = op, NEW step, Turn(o, step)
    PROVE  /\ PatchTrue(o) /\ op'[o].step = "ended" /\ Kind(o)' # "patch"
           /\ DOMAIN patch' = Ops /\ \A x \in Ops : x # o => patch'[x] = patch[x]
           /\ DOMAIN patch'[o] = PatchFields /\ patch'[o].step = step
           /\ patch'[o].path = patch[o].path /\ patch'[o].source = patch[o].source
           /\ patch'[o].saved = patch[o].saved /\ patch'[o].back = patch[o].back
           /\ patch'[o].of = patch[o].of
<1>1. PatchTrue(o) /\ DOMAIN patch = Ops
  BY DEF PatchesInv
<1>2. DOMAIN patch[o] = PatchFields /\ patch' = [patch EXCEPT ![o].step = step]
  BY <1>1 DEF PatchTrue, Turn
<1>3. patch'[o] = [patch[o] EXCEPT !.step = step]
  BY <1>1, <1>2
<1>4. op'[o].step = "ended" /\ Kind(o)' # "patch"
  BY <1>1 DEF PatchTrue, Kind
<1> QED BY <1>1, <1>2, <1>3, <1>4 DEF PatchFields

LEMMA PatchDone ==
    ASSUME OpsInv, PatchesInv, NEW o \in Ops, Done(o), op'[o].step = "ended", Kind(o)' # "patch",
           ledger'[o] = ledger[o], Setting' = Setting
    PROVE  /\ PatchTrue(o)'
           /\ DOMAIN patch' = Ops /\ \A x \in Ops : x # o => patch'[x] = patch[x]
<1>1. PatchTrue(o) /\ DOMAIN patch = Ops
  BY DEF PatchesInv
<1>2. patch'[o] = [NoPatch EXCEPT !.step = "done"]
  BY <1>1 DEF Done
<1>3. DOMAIN patch' = Ops /\ \A x \in Ops : x # o => patch'[x] = patch[x]
  BY <1>1 DEF Done
<1> QED BY <1>1, <1>2, <1>3, PatchOver

\* What an action of one patch must keep.
PatchKeeps(o) ==
    /\ PatchTrue(o)'
    /\ DOMAIN patch' = Ops /\ \A x \in Ops : x # o => patch'[x] = patch[x]

\* A patch whose operation is over, and that is over now.
LEMMA DoneKeeps ==
    ASSUME OpsInv, PatchesInv, NEW o \in Ops, patch[o].step \notin {"none", "inside"},
           op' = op, ledger' = ledger, Setting' = Setting, Done(o)
    PROVE  PatchKeeps(o)
<1>1. op'[o].step = "ended" /\ Kind(o)' # "patch"
  BY DEF PatchesInv, PatchTrue, Kind
<1> QED BY <1>1, PatchDone DEF PatchKeeps

\* The same of an operation that begins and is over at once.
LEMMA TakenKeeps ==
    ASSUME OpsInv, PatchesInv, NEW o \in Ops, Taken(o), UNCHANGED <<file, backups, trash>>,
           since'[o] = Follow(o)
    PROVE  /\ Keeps(o) /\ patch[o] = NoPatch /\ patch[o].step = "none"
           /\ op'[o].step = "ended" /\ Kind(o)' # "patch"
<1>1. Keeps(o)
  BY EndKeeps DEF Taken, End, OpsInv, FilesInv
<1>2. op'[o] = Ended
  BY DEF Taken, OpsInv
<1>3. patch[o] = NoPatch /\ patch[o].step = "none"
  BY NoPatchYet DEF Taken
<1> QED BY <1>1, <1>2, <1>3, EndedIs DEF Kind

LEMMA ProposeKeeps ==
    ASSUME OpsInv, PatchesInv, NEW o \in Ops, Propose(o), since'[o] = Follow(o),
           Setting' = Setting
    PROVE  Keeps(o) /\ PatchKeeps(o)
<1>1. /\ Keeps(o) /\ patch[o] = NoPatch /\ patch[o].step = "none"
      /\ op'[o].step = "ended" /\ Kind(o)' # "patch"
  BY TakenKeeps DEF Propose, OnlyPatch
<1>2. PatchTrue(o) /\ DOMAIN patch = Ops /\ ledger' = ledger
  BY DEF PatchesInv, Propose, OnlyPatch
<1>3. CASE Done(o)
  BY <1>1, <1>2, <1>3, PatchDone DEF PatchKeeps
<1>4. ASSUME NEW p \in Setting.patches,
             patch' = [patch EXCEPT ![o].path = p, ![o].source = file[p],
                                    ![o].step = "announce"]
      PROVE  PatchKeeps(o)
  <2>1. DOMAIN patch' = Ops /\ \A x \in Ops : x # o => patch'[x] = patch[x]
    BY <1>2, <1>4
  <2>2. patch'[o] = [patch[o] EXCEPT !.path = p, !.source = file[p], !.step = "announce"]
    BY <1>2, <1>4
  <2>3. /\ DOMAIN patch'[o] = PatchFields /\ patch'[o].path = p /\ patch'[o].of = Nobody
        /\ patch'[o].step = "announce"
    BY <1>1, <1>2, <2>2, DoneIs DEF PatchFields
  <2>4. PatchTrue(o)'
    BY <1>1, <1>2, <2>3 DEF PatchTrue, PatchSteps, Noted
  <2> QED BY <2>1, <2>4 DEF PatchKeeps
<1> QED BY <1>1, <1>3, <1>4 DEF Propose

LEMMA AnnounceKeeps ==
    ASSUME OpsInv, PatchesInv, NEW o \in Ops, Announce(o), Setting' = Setting
    PROVE  PatchKeeps(o)
<1>1. /\ patch[o].step = "announce" /\ op' = op /\ DOMAIN ledger = Ops
      /\ Turn(o, "ready")
      /\ ledger' = [ledger EXCEPT ![o] = [NoLine EXCEPT !.status = "ready",
                                                        !.path = patch[o].path,
                                                        !.source = patch[o].source]]
  BY DEF Announce, In, OnlyLedger, PatchesInv
<1>2. /\ PatchTrue(o) /\ op'[o].step = "ended" /\ Kind(o)' # "patch"
      /\ DOMAIN patch' = Ops /\ \A x \in Ops : x # o => patch'[x] = patch[x]
      /\ DOMAIN patch'[o] = PatchFields /\ patch'[o].step = "ready"
      /\ patch'[o].path = patch[o].path /\ patch'[o].source = patch[o].source
      /\ patch'[o].saved = patch[o].saved /\ patch'[o].back = patch[o].back
      /\ patch'[o].of = patch[o].of
  BY <1>1, PatchTurns
<1>3. DOMAIN NoLine = LineFields
  BY DEF NoLine, LineFields
<1>4. ledger'[o] = [NoLine EXCEPT !.status = "ready", !.path = patch[o].path,
                                  !.source = patch[o].source]
  BY <1>1
<1>5. /\ DOMAIN ledger'[o] = LineFields /\ ledger'[o].status = "ready"
      /\ ledger'[o].path = patch[o].path /\ ledger'[o].source = patch[o].source
  BY <1>3, <1>4 DEF LineFields
<1>6. patch[o].of = Nobody /\ patch[o].path \in Setting.patches
  BY <1>1, <1>2 DEF PatchTrue
<1>7. PatchTrue(o)'
  BY <1>2, <1>5, <1>6 DEF PatchTrue, PatchSteps, Noted
<1> QED BY <1>2, <1>7 DEF PatchKeeps

\* Where the next place is one that asks for nothing more.
LEMMA TurnKeeps ==
    ASSUME OpsInv, PatchesInv, NEW o \in Ops, patch[o].step \notin {"none", "inside", "done"},
           op' = op, ledger' = ledger, Setting' = Setting, NEW step, Turn(o, step),
           step \in PatchSteps \ {"none", "announce", "inside", "before", "done"},
           step \in Noted => patch[o].of = Nobody /\ patch[o].step \in Noted,
           step \in {"restore", "refill"} /\ patch[o].of = Nobody =>
               patch[o].step \in {"validate", "restore", "refill"},
           step \in {"validate", "commit"} => patch[o].step \in {"validate", "commit"}
    PROVE  PatchKeeps(o)
<1>1. /\ PatchTrue(o) /\ op'[o].step = "ended" /\ Kind(o)' # "patch"
      /\ DOMAIN patch' = Ops /\ \A x \in Ops : x # o => patch'[x] = patch[x]
      /\ DOMAIN patch'[o] = PatchFields /\ patch'[o].step = step
      /\ patch'[o].path = patch[o].path /\ patch'[o].source = patch[o].source
      /\ patch'[o].saved = patch[o].saved /\ patch'[o].back = patch[o].back
      /\ patch'[o].of = patch[o].of
  BY PatchTurns
<1>2. ledger[o].status \notin {"committed", "undone"}
  BY <1>1 DEF PatchTrue
<1>3. /\ patch'[o].of # Nobody => step \in {"restore", "refill", "note"}
      /\ patch'[o].step = "inside" <=> Kind(o)' = "patch"
  BY <1>1 DEF Noted, PatchSteps
<1>4. ASSUME patch[o].of = Nobody
      PROVE  /\ step \in Noted \cup {"restore", "refill"} =>
                   ledger[o].status = "ready" /\ ledger[o].source = patch[o].source
             /\ step \in Noted => ledger[o].path = patch[o].path
             /\ step \in {"validate", "commit", "restore", "refill"} =>
                   patch[o].saved = patch[o].source \/ patch[o].back = TRUE
  BY <1>1, <1>4 DEF PatchTrue, Noted
<1>5. patch[o].of # Nobody =>
          /\ patch[o].of \in Ops /\ ledger[patch[o].of].status \in {"committed", "undone"}
          /\ patch[o].saved = ledger[patch[o].of].backup
  BY <1>1 DEF PatchTrue
<1>6. /\ DOMAIN ledger[o] = LineFields /\ patch[o].path \in Setting.patches
      /\ ledger[o].status \in {"none", "ready", "committed", "undone"}
  BY <1>1 DEF PatchTrue
<1>7. PatchTrue(o)'
  BY <1>1, <1>2, <1>3, <1>4, <1>5, <1>6 DEF PatchTrue
<1> QED BY <1>1, <1>7 DEF PatchKeeps

LEMMA ServesItself ==
    ASSUME PatchesInv, NEW o \in Ops, patch[o].step \in Noted
    PROVE  patch[o].of = Nobody
BY DEF PatchesInv, PatchTrue, Noted

LEMMA ApplyKeeps ==
    ASSUME OpsInv, PatchesInv, NEW o \in Ops, Apply(o) \/ Refer(o) \/ Validate(o) \/ Before(o),
           Setting' = Setting
    PROVE  PatchKeeps(o)
<1>1. op' = op /\ ledger' = ledger
  BY DEF Apply, Refer, Validate, Before, OnlyPatch
<1>2. patch[o].step \in {"ready", "refer", "validate", "before"}
  BY DEF Apply, Refer, Validate, Before, In
<1>3. CASE Done(o)
  BY <1>1, <1>2, <1>3, DoneKeeps
<1>4. CASE Apply(o) /\ Turn(o, "refer")
  BY <1>1, <1>4, ServesItself, TurnKeeps DEF Apply, In, Noted, PatchSteps
<1>5. CASE Refer(o) /\ Turn(o, "edit")
  BY <1>1, <1>5, ServesItself, TurnKeeps DEF Refer, In, Noted, PatchSteps
<1>6. CASE Validate(o) /\ Turn(o, "commit")
  BY <1>1, <1>6, ServesItself, TurnKeeps DEF Validate, In, Noted, PatchSteps
<1>7. CASE Validate(o) /\ Turn(o, "note")
  BY <1>1, <1>7, TurnKeeps DEF Validate, In, Noted, PatchSteps
<1>8. CASE Validate(o) /\ Turn(o, "restore")
  BY <1>1, <1>8, TurnKeeps DEF Validate, In, Noted, PatchSteps
<1>9. CASE Before(o) /\ Turn(o, "restore")
  <2>1. patch[o].of # Nobody
    BY <1>9 DEF Before, In, PatchesInv, PatchTrue
  <2> QED BY <1>1, <1>9, <2>1, TurnKeeps DEF Before, In, Noted, PatchSteps
<1> QED BY <1>3, <1>4, <1>5, <1>6, <1>7, <1>8, <1>9 DEF Apply, Refer, Validate, Before

LEMMA RestoreKeeps ==
    ASSUME OpsInv, PatchesInv, NEW o \in Ops, Restore(o), Setting' = Setting
    PROVE  PatchKeeps(o)
BY TurnKeeps DEF Restore, In, Noted, PatchSteps

LEMMA RefillKeeps ==
    ASSUME OpsInv, PatchesInv, NEW o \in Ops, Refill(o), Setting' = Setting
    PROVE  PatchKeeps(o)
BY TurnKeeps DEF Refill, In, Noted, PatchSteps

LEMMA CommitKeeps ==
    ASSUME OpsInv, PatchesInv, NEW o \in Ops, Commit(o), Setting' = Setting
    PROVE  PatchKeeps(o)
<1>1. /\ patch[o].step = "commit" /\ op' = op /\ DOMAIN ledger = Ops /\ DOMAIN patch = Ops
      /\ PatchTrue(o) /\ patch'[o] = [NoPatch EXCEPT !.step = "done"]
      /\ ledger' = [ledger EXCEPT ![o].status = "committed", ![o].backup = patch[o].saved,
                                  ![o].back = patch[o].back]
      /\ DOMAIN patch' = Ops /\ \A x \in Ops : x # o => patch'[x] = patch[x]
  BY DEF Commit, In, OnlyLedger, PatchesInv, Done
<1>2. /\ patch[o].of = Nobody /\ ledger[o].source = patch[o].source
      /\ ledger[o].path = patch[o].path /\ patch[o].path \in Setting.patches
      /\ patch[o].saved = patch[o].source \/ patch[o].back = TRUE
      /\ DOMAIN ledger[o] = LineFields /\ op[o].step = "ended" /\ Kind(o) # "patch"
  BY <1>1 DEF PatchTrue, Noted
<1>3. ledger'[o] = [ledger[o] EXCEPT !.status = "committed", !.backup = patch[o].saved,
                                     !.back = patch[o].back]
  BY <1>1
<1>4. /\ DOMAIN ledger'[o] = LineFields /\ ledger'[o].status = "committed"
      /\ ledger'[o].path = ledger[o].path /\ ledger'[o].source = ledger[o].source
      /\ ledger'[o].backup = patch[o].saved /\ ledger'[o].back = patch[o].back
  BY <1>2, <1>3 DEF LineFields
<1>5. Kind(o)' # "patch" /\ op'[o].step = "ended"
  BY <1>1, <1>2 DEF Kind
<1>6. PatchTrue(o)'
  BY <1>1, <1>2, <1>4, <1>5, DoneIs DEF PatchTrue, PatchSteps, Noted
<1> QED BY <1>1, <1>6 DEF PatchKeeps

LEMMA NoteUndoneKeeps ==
    ASSUME OpsInv, PatchesInv, NEW o \in Ops, NoteUndone(o), Setting' = Setting
    PROVE  /\ PatchKeeps(o) /\ Lasting
           /\ \A x \in Ops : DOMAIN ledger'[x] = LineFields
           /\ \A x \in Ops : ledger[x].status \notin {"committed", "undone"}
                                => ledger'[x] = ledger[x]
<1>1. /\ patch[o].step = "note" /\ op' = op /\ DOMAIN ledger = Ops /\ DOMAIN patch = Ops
      /\ PatchTrue(o) /\ Done(o)
  BY DEF NoteUndone, In, OnlyLedger, PatchesInv
<1>2. \A x \in Ops : DOMAIN ledger[x] = LineFields
  BY DEF PatchesInv, PatchTrue
<1>3. /\ Lasting /\ ledger'[o] = ledger[o]
      /\ \A x \in Ops : DOMAIN ledger'[x] = LineFields
      /\ \A x \in Ops : ledger[x].status \notin {"committed", "undone"}
                           => ledger'[x] = ledger[x]
  <2>1. CASE patch[o].of = Nobody
    BY <1>1, <1>2, <2>1, LedgerStays DEF NoteUndone
  <2>2. CASE patch[o].of # Nobody
    <3> DEFINE y == patch[o].of
    <3>1. /\ y \in Ops /\ ledger[y].status \in {"committed", "undone"}
          /\ ledger' = [ledger EXCEPT ![y].status = "undone"]
      BY <1>1, <2>2 DEF PatchTrue, NoteUndone
    <3>2. y # o
      BY <1>1, <3>1 DEF PatchTrue
    <3>3. DOMAIN ledger' = Ops /\ \A x \in Ops : x # y => ledger'[x] = ledger[x]
      BY <1>1, <3>1
    <3>4. ledger'[y] = [ledger[y] EXCEPT !.status = "undone"]
      BY <1>1, <3>1
    <3>5. /\ DOMAIN ledger'[y] = LineFields /\ ledger'[y].status = "undone"
          /\ ledger'[y].path = ledger[y].path /\ ledger'[y].source = ledger[y].source
          /\ ledger'[y].backup = ledger[y].backup /\ ledger'[y].back = ledger[y].back
      BY <1>2, <3>1, <3>4 DEF LineFields
    <3> HIDE DEF y
    <3> QED BY <1>2, <3>1, <3>2, <3>3, <3>5 DEF Lasting
  <2> QED BY <2>1, <2>2
<1>4. op'[o].step = "ended" /\ Kind(o)' # "patch"
  BY <1>1 DEF PatchTrue, Kind
<1>5. PatchKeeps(o)
  BY <1>1, <1>3, <1>4, PatchDone DEF PatchKeeps
<1> QED BY <1>3, <1>5

LEMMA RollbackKeeps ==
    ASSUME OpsInv, PatchesInv, NEW o \in Ops, Rollback(o), since'[o] = Follow(o),
           Setting' = Setting
    PROVE  Keeps(o) /\ PatchKeeps(o)
<1>1. /\ Keeps(o) /\ patch[o] = NoPatch /\ patch[o].step = "none"
      /\ op'[o].step = "ended" /\ Kind(o)' # "patch"
  BY TakenKeeps DEF Rollback, OnlyPatch
<1>2. PatchTrue(o) /\ DOMAIN patch = Ops /\ ledger' = ledger
  BY DEF PatchesInv, Rollback, OnlyPatch
<1>3. CASE Done(o)
  BY <1>1, <1>2, <1>3, PatchDone DEF PatchKeeps
<1>4. ASSUME NEW x \in Ops, ledger[x].status \in {"committed", "undone"},
             patch' = [patch EXCEPT ![o] = [NoPatch EXCEPT !.step = "before", !.of = x,
                                                           !.path = ledger[x].path,
                                                           !.saved = ledger[x].backup]]
      PROVE  PatchKeeps(o)
  <2>1. DOMAIN patch' = Ops /\ \A y \in Ops : y # o => patch'[y] = patch[y]
    BY <1>2, <1>4
  <2>2. patch'[o] = [NoPatch EXCEPT !.step = "before", !.of = x, !.path = ledger[x].path,
                                    !.saved = ledger[x].backup]
    BY <1>2, <1>4
  <2>3. /\ DOMAIN patch'[o] = PatchFields /\ patch'[o].path = ledger[x].path
        /\ patch'[o].of = x /\ patch'[o].step = "before" /\ patch'[o].saved = ledger[x].backup
    BY <2>2, DoneIs DEF PatchFields
  <2>4. x # Nobody /\ ledger[x].path \in Setting.patches
    BY <1>4, NobodyServes DEF PatchesInv, PatchTrue
  <2>5. PatchTrue(o)'
    BY <1>1, <1>2, <1>4, <2>3, <2>4 DEF PatchTrue, PatchSteps, Noted
  <2> QED BY <2>1, <2>5 DEF PatchKeeps
<1> QED BY <1>1, <1>3, <1>4 DEF Rollback

\* The edit of a patch begins with the version that its dry run has shown.
LEMMA EditKeeps ==
    ASSUME OpsInv, PatchesInv, NEW o \in Ops, Edit(o), since'[o] = Follow(o),
           Setting' = Setting, There(o) = patch[o].source
    PROVE  Keeps(o) /\ PatchKeeps(o)
<1>1. /\ patch[o].step = "edit" /\ OpInv(o) /\ PatchTrue(o) /\ FilesInv
      /\ DOMAIN op = Ops /\ DOMAIN patch = Ops
      /\ file' = file /\ backups' = backups /\ trash' = trash /\ ledger' = ledger
      /\ Turn(o, "inside")
  BY DEF Edit, In, OnlyPatch, OpsInv, PatchesInv
<1> DEFINE r == [NoRequest EXCEPT !.kind = "patch", !.path = patch[o].path, !.from = "inline"]
<1>2. op' = [op EXCEPT ![o] = [Requested(r) EXCEPT !.base = There(o), !.step = "preview"]]
  BY DEF Edit
<1>3. r.kind = "patch" /\ r.path = patch[o].path /\ DOMAIN r = DOMAIN NoRequest
  BY DEF NoRequest
<1> HIDE DEF r
<1>4. /\ op'[o] = [Requested(r) EXCEPT !.base = There(o), !.step = "preview"]
      /\ DOMAIN op' = Ops /\ \A x \in Ops : x # o => op'[x] = op[x]
  BY <1>1, <1>2
<1>5. /\ op'[o].request = r /\ op'[o].step = "preview" /\ op'[o].path = patch[o].path
      /\ op'[o].base = There(o) /\ op'[o].temp = NoTemp /\ DOMAIN op'[o] = OpFields
  BY <1>3, <1>4 DEF Requested, OpFields
<1>6. Onward(o) /\ FilesInv'
  BY <1>1, <1>4, FilesStay DEF Onward, FilesInv
<1>7. Kind(o)' = "patch"
  BY <1>3, <1>5 DEF Kind
<1>8. OpShaped(o)'
  BY <1>3, <1>5, <1>7, EndedIs DEF OpShaped, Stations
<1>9. SinceTrue(o)'
  <2>1. since[o] = "steady"
    BY <1>1, KindAt DEF OpInv, SinceTrue, Underway, PatchTrue, Replacing
  <2>2. op'[o].base = file'[op'[o].path]
    BY <1>1, <1>5 DEF There
  <2> QED BY <2>1, <2>2, StartingOut
<1>10. NoEntryYet(o)' /\ BackedUp(o)' /\ PartsTrue(o)'
  BY <1>5 DEF NoEntryYet, BackedUp, PartsTrue, PastHead, PastTail
<1>11. BodyTrue(o)'
  BY <1>5, <1>7, EndedIs DEF BodyTrue, PastHead
<1>12. /\ DOMAIN patch' = Ops /\ \A x \in Ops : x # o => patch'[x] = patch[x]
       /\ patch'[o] = [patch[o] EXCEPT !.step = "inside"]
  BY <1>1 DEF Turn
<1>13. /\ patch[o].of = Nobody /\ ledger[o].status = "ready"
       /\ ledger[o].source = patch[o].source /\ ledger[o].path = patch[o].path
       /\ patch[o].path \in Setting.patches /\ DOMAIN patch[o] = PatchFields
       /\ DOMAIN ledger[o] = LineFields
  BY <1>1 DEF PatchTrue, Noted
<1>14. /\ DOMAIN patch'[o] = PatchFields /\ patch'[o].step = "inside"
       /\ patch'[o].path = patch[o].path /\ patch'[o].source = patch[o].source
       /\ patch'[o].of = Nobody
  BY <1>12, <1>13 DEF PatchFields
<1>15. PatchTrue(o)'
  BY <1>1, <1>5, <1>7, <1>13, <1>14 DEF PatchTrue, PatchSteps, Noted
<1> QED BY <1>6, <1>8, <1>9, <1>10, <1>11, <1>12, <1>15 DEF Keeps, OpInv, PatchKeeps

LEMMA PatchWorkKeeps ==
    ASSUME OpsInv, PatchesInv, NEW o \in Ops, PatchWork(o), UNCHANGED bounds,
           since' = [x \in Ops |-> Follow(x)], scenario' = scenario
    PROVE  OpsInv' /\ PatchesInv'
<1>1. Setting' = Setting /\ BoundsInv' /\ since'[o] = Follow(o)
  BY DEF Setting, OpsInv, BoundsInv, bounds
<1>2. StagesMove
  <2>1. UNCHANGED stage
    BY Zenon
       DEF PatchWork, Propose, Announce, Apply, Refer, Edit, Validate, Commit, Rollback, Before,
           Restore, Refill, NoteUndone, OnlyPatch, OnlyLedger
  <2> QED BY <2>1, PruneMoves DEF OpsInv
<1>3. ASSUME ledger' = ledger, PatchKeeps(o), \A x \in Ops : x # o => op'[x] = op[x]
      PROVE  PatchesInv'
  <2>1. Lasting /\ \A x \in Ops : DOMAIN ledger'[x] = LineFields
    BY <1>3, LedgerStays DEF PatchesInv, PatchTrue
  <2> QED BY <1>1, <1>3, <2>1, PatchAlone DEF PatchKeeps
<1>4. ASSUME UNCHANGED <<op, file, backups, trash>> PROVE OpsInv'
  <2>1. FilesInv'
    BY <1>4 DEF OpsInv, FilesInv
  <2> QED BY <1>1, <1>2, <1>4, <2>1, NoneMoves
<1>5. CASE Propose(o) \/ Rollback(o)
  <2>1. Keeps(o) /\ PatchKeeps(o) /\ ledger' = ledger
    BY Zenon, <1>1, <1>5, ProposeKeeps, RollbackKeeps DEF Propose, Rollback, OnlyPatch
  <2>2. OpsInv'
    BY <1>1, <1>2, <2>1, AllKeep
  <2> QED BY <1>3, <2>1, <2>2 DEF Keeps, Onward
<1>6. CASE Announce(o)
  <2>1. PatchKeeps(o) /\ OpsInv'
    BY <1>1, <1>4, <1>6, AnnounceKeeps DEF Announce, OnlyLedger
  <2>2. /\ DOMAIN ledger' = Ops /\ \A x \in Ops : x # o => ledger'[x] = ledger[x]
        /\ ledger[o].status \notin {"committed", "undone"}
    BY <1>6 DEF Announce, In, PatchesInv, PatchTrue
  <2>3. Lasting /\ \A x \in Ops : x # o => DOMAIN ledger'[x] = LineFields
    BY <2>2 DEF Lasting, PatchesInv, PatchTrue
  <2>4. op' = op
    BY <1>6 DEF Announce, OnlyLedger
  <2> QED BY <1>1, <2>1, <2>2, <2>3, <2>4, PatchAlone DEF PatchKeeps
<1>7. CASE Apply(o) \/ Refer(o) \/ Validate(o) \/ Before(o)
  <2>1. UNCHANGED <<op, file, backups, trash, ledger>>
    BY <1>7 DEF Apply, Refer, Validate, Before, OnlyPatch
  <2>2. PatchKeeps(o)
    BY <1>1, <1>7, ApplyKeeps
  <2> QED BY <1>3, <1>4, <2>1, <2>2
<1>8. CASE Edit(o)
  <2>1. CASE There(o) = patch[o].source
    <3>1. Keeps(o) /\ PatchKeeps(o) /\ ledger' = ledger
      BY <1>1, <1>8, <2>1, EditKeeps DEF Edit, OnlyPatch
    <3>2. OpsInv'
      BY <1>1, <1>2, <3>1, AllKeep
    <3> QED BY <1>3, <3>1, <3>2 DEF Keeps, Onward
  <2>2. CASE There(o) # patch[o].source
    <3>1. /\ UNCHANGED <<op, file, backups, trash, ledger>> /\ Done(o)
          /\ patch[o].step = "edit"
      BY <1>8, <2>2 DEF Edit, OnlyPatch, In
    <3>2. PatchKeeps(o)
      BY <1>1, <3>1, DoneKeeps
    <3> QED BY <1>3, <1>4, <3>1, <3>2
  <2> QED BY <2>1, <2>2
<1>9. CASE Commit(o)
  <2>1. PatchKeeps(o) /\ OpsInv'
    BY <1>1, <1>4, <1>9, CommitKeeps DEF Commit, OnlyLedger
  <2>2. /\ DOMAIN ledger' = Ops /\ \A x \in Ops : x # o => ledger'[x] = ledger[x]
        /\ ledger[o].status \notin {"committed", "undone"}
    BY <1>9 DEF Commit, In, PatchesInv, PatchTrue
  <2>3. Lasting /\ \A x \in Ops : x # o => DOMAIN ledger'[x] = LineFields
    BY <2>2 DEF Lasting, PatchesInv, PatchTrue
  <2>4. op' = op
    BY <1>9 DEF Commit, OnlyLedger
  <2> QED BY <1>1, <2>1, <2>2, <2>3, <2>4, PatchAlone DEF PatchKeeps
<1>10. CASE Restore(o)
  <2>1. /\ UNCHANGED <<op, backups, trash, ledger>>
        /\ DOMAIN file' = DOMAIN file
    BY <1>10 DEF Restore
  <2>2. FilesInv'
    BY <2>1 DEF OpsInv, FilesInv
  <2>3. PatchKeeps(o) /\ OpsInv'
    BY <1>1, <1>2, <1>10, <2>1, <2>2, RestoreKeeps, NoneMoves
  <2> QED BY <1>3, <2>1, <2>3
<1>11. CASE Refill(o)
  <2>1. UNCHANGED <<op, backups, ledger>> /\ Complete(o, patch[o].saved)
    BY <1>11 DEF Refill
  <2>2. /\ FilesInv'
        /\ \A i \in Slots : trash[i].content = Absent => trash'[i].content = Absent
    BY <2>1, CompleteFiles DEF OpsInv
  <2>3. \A x \in Ops : trash[x].content = Absent => trash'[x].content = Absent
    BY <2>2 DEF Slots
  <2>4. PatchKeeps(o) /\ OpsInv'
    BY <1>1, <1>2, <1>11, <2>1, <2>2, <2>3, RefillKeeps, NoneMoves
  <2> QED BY <1>3, <2>1, <2>4
<1>12. CASE NoteUndone(o)
  <2>1. /\ PatchKeeps(o) /\ Lasting
        /\ \A x \in Ops : DOMAIN ledger'[x] = LineFields
        /\ \A x \in Ops : ledger[x].status \notin {"committed", "undone"}
                             => ledger'[x] = ledger[x]
    BY <1>1, <1>12, NoteUndoneKeeps
  <2>2. UNCHANGED <<op, file, backups, trash>>
    BY <1>12 DEF NoteUndone, OnlyLedger
  <2> QED BY <1>1, <1>4, <2>1, <2>2, PatchAlone DEF PatchKeeps
<1> QED BY <1>5, <1>6, <1>7, <1>8, <1>9, <1>10, <1>11, <1>12 DEF PatchWork

LEMMA PatchFailKeeps ==
    ASSUME OpsInv, PatchesInv, NEW o \in Ops, PatchFail(o),
           since' = [x \in Ops |-> Follow(x)], scenario' = scenario
    PROVE  OpsInv' /\ PatchesInv'
<1>1. /\ UNCHANGED <<stage, file, backups, trash, op, ledger>> /\ Done(o)
      /\ patch[o].step \notin {"none", "inside"} /\ Setting' = Setting
  BY DEF PatchFail, Patching, In, Setting
<1>2. StagesMove
  BY <1>1, PruneMoves DEF OpsInv
<1>3. BoundsInv'
  <2>1. Setting.faults \in Nat
    BY MutationAssumption DEF MutationAssumption, OpsInv, BoundsInv, Setting
  <2> QED BY <1>1, <2>1 DEF OpsInv, BoundsInv, PatchFail
<1>4. FilesInv'
  BY <1>1 DEF OpsInv, FilesInv
<1>5. OpsInv'
  BY <1>1, <1>2, <1>3, <1>4, NoneMoves
<1>6. PatchKeeps(o)
  BY <1>1, DoneKeeps
<1>7. Lasting /\ \A x \in Ops : DOMAIN ledger'[x] = LineFields
  BY <1>1, LedgerStays DEF PatchesInv, PatchTrue
<1>8. PatchesInv'
  BY <1>1, <1>6, <1>7, PatchAlone DEF PatchKeeps
<1> QED BY <1>5, <1>8

LEMMA PatchCrashKeeps ==
    ASSUME OpsInv, PatchesInv, PatchCrash,
           since' = [x \in Ops |-> Follow(x)], scenario' = scenario
    PROVE  OpsInv' /\ PatchesInv'
<1>1. UNCHANGED <<stage, file, backups, trash, op, ledger>> /\ Setting' = Setting
  BY DEF PatchCrash, OnlyOp, Setting
<1>2. StagesMove
  BY <1>1, PruneMoves DEF OpsInv
<1>3. BoundsInv'
  <2>1. Setting.crashes \in Nat
    BY MutationAssumption DEF MutationAssumption, OpsInv, BoundsInv, Setting
  <2> QED BY <1>1, <2>1 DEF OpsInv, BoundsInv, PatchCrash
<1>4. FilesInv'
  BY <1>1 DEF OpsInv, FilesInv
<1>5. OpsInv'
  BY <1>1, <1>2, <1>3, <1>4, NoneMoves
<1>6. \A x \in Ops : PatchTrue(x)'
  BY <1>1, StoppedKeeps DEF PatchCrash
<1>7. PatchesInv'
  BY <1>1, <1>6 DEF PatchesInv, PatchCrash, Stopped
<1> QED BY <1>5, <1>7

\* The invariant is inductive.
LEMMA PatchInvNext ==
    ASSUME PatchInv, [PatchNext]_patchVars
    PROVE  PatchInv'
<1>1. CASE UNCHANGED patchVars
  <2>1. OpsInv'
    <3>1. StagesInv' /\ FilesInv' /\ BoundsInv' /\ DOMAIN op' = Ops /\ DOMAIN since' = Ops
      BY <1>1 DEF PatchInv, OpsInv, StagesInv, FilesInv, BoundsInv, Setting, patchVars, vars,
                  bounds
    <3>2. ASSUME NEW o \in Ops PROVE OpInv(o)'
      <4>1. OpInv(o) /\ UNCHANGED <<stage, file, backups, trash, op, since>>
        BY <1>1 DEF PatchInv, OpsInv, patchVars, vars
      <4>2. OpShaped(o)' /\ NoEntryYet(o)' /\ SinceTrue(o)' /\ BackedUp(o)' /\ PartsTrue(o)'
        BY <4>1 DEF OpInv, OpShaped, NoEntryYet, SinceTrue, BackedUp, PartsTrue, Kind, Underway,
                    Unmoved, Here, Previewed
      <4>3. BodyTrue(o)'
        BY <4>1 DEF OpInv, BodyTrue, Begun, Pieces, Inline, FromStage, Ready, Available,
                    IsSealed, Pruned, Client, Kind, Previewed
      <4> QED BY <4>2, <4>3 DEF OpInv
    <3> QED BY <3>1, <3>2 DEF OpsInv
  <2>2. PatchesInv'
    BY <1>1 DEF PatchInv, PatchesInv, PatchTrue, Setting, Kind, Unmoved, patchVars, vars
  <2>3. torn' \in BOOLEAN
    BY <1>1 DEF PatchInv, patchVars
  <2> QED BY <2>1, <2>2, <2>3 DEF PatchInv
<1>2. CASE PatchNext
  <2>1. torn' \in BOOLEAN
    <3>1. torn \in BOOLEAN /\ (torn' = torn \/ torn' = TRUE)
      BY ZenonT(30), <1>2
         DEF PatchInv, PatchNext, PatchWork, PatchFail, PatchCrash, Tear, Propose, Announce,
             Apply, Refer, Edit, Validate, Commit, Rollback, Before, Restore, Refill,
             NoteUndone, OnlyPatch, OnlyLedger
    <3> QED BY Zenon, <3>1
  <2>2. OpsInv' /\ PatchesInv'
    <3>1. OpsInv /\ PatchesInv
      BY DEF PatchInv
    <3>2. CASE /\ Next
               /\ IF crashes' # crashes THEN patch' = Stopped /\ Tear(Ops)
                  ELSE patch' = [o \in Ops |-> Carry(o)] /\ UNCHANGED torn
               /\ UNCHANGED ledger
      <4>1. patch' = IF crashes' # crashes THEN Stopped ELSE [o \in Ops |-> Carry(o)]
        BY <3>2
      <4> QED BY <3>1, <3>2, <4>1, NextKeeps, NextPatches
    <3>3. CASE /\ \/ \E o \in Ops : PatchWork(o) /\ UNCHANGED bounds
                  \/ \E o \in Ops : PatchFail(o)
                  \/ PatchCrash
               /\ since' = [o \in Ops |-> Follow(o)]
               /\ UNCHANGED scenario
      BY <3>1, <3>3, PatchWorkKeeps, PatchFailKeeps, PatchCrashKeeps
    <3> QED BY <1>2, <3>2, <3>3 DEF PatchNext
  <2> QED BY <2>1, <2>2 DEF PatchInv
<1> QED BY <1>1, <1>2

LEMMA PatchInvInit ==
    ASSUME PatchInit
    PROVE  PatchInv
<1>1. /\ stage = [s \in Stages |-> Unborn] /\ op = [o \in Ops |-> Idle] /\ backups = {}
      /\ since = [o \in Ops |-> "steady"] /\ DOMAIN file = Paths
      /\ patch = [o \in Ops |-> NoPatch] /\ ledger = [o \in Ops |-> NoLine] /\ torn = FALSE
      /\ scenario \in DOMAIN Scenarios /\ faults = 0 /\ crashes = 0
  BY DEF PatchInit, Init, StagesInit
<1>2. PICK p \in Setting.deleted :
          trash = [i \in Slots |-> IF i = "earlier" THEN [content |-> <<"deleted">>, from |-> p]
                                   ELSE NoEntry]
  BY DEF PatchInit, Init
<1>3. p \in Paths /\ {Setting.faults, Setting.crashes} \subseteq Nat
  BY <1>1, MutationAssumption DEF MutationAssumption, Setting
<1>4. BoundsInv
  BY <1>1, <1>3 DEF BoundsInv
<1>5. FilesInv
  <2>1. NoEntry.from = Nobody /\ DOMAIN NoEntry = {"content", "from"}
    BY DEF NoEntry
  <2> QED BY <1>1, <1>2, <1>3, <2>1 DEF FilesInv
<1>6. StagesInv
  <2>1. stage \in [Stages -> StageRecords] /\ \A s \in Stages : stage[s] = Unborn
    BY <1>1, UnbornIs
  <2>2. \A s \in Stages : Sound(stage, s)
    <3>1. Len(<<>>) = 0
      BY EmptySeq
    <3> QED BY <2>1, <3>1, UnbornIs DEF Sound
  <2>3. ASSUME NEW o \in Owners PROVE Within(o, stage)
    <3>1. o # Nobody
      BY StageAssumption DEF StageAssumption
    <3>2. OwnedBy(o, stage) = {}
      BY <2>1, <3>1, UnbornIs DEF OwnedBy
    <3>3. Held(o, stage) = {}
      BY <3>2 DEF Held
    <3>4. IsFiniteSet({}) /\ Cardinality({}) = 0
      BY FS_EmptySet
    <3>5. 0 <= OwnerStages /\ 0 <= OwnerLimit
      BY LimitsAreNumbers
    <3> QED BY <3>2, <3>3, <3>4, <3>5 DEF Within
  <2> QED BY <2>1, <2>2, <2>3 DEF StagesInv, StagesSound
<1>7. ASSUME NEW o \in Ops PROVE OpInv(o)
  <2>1. op[o] = Idle /\ since[o] = "steady"
    BY <1>1
  <2>2. /\ DOMAIN Idle = OpFields /\ Idle.request = NoRequest /\ Idle.temp = NoTemp
        /\ Idle.step = "idle" /\ NoRequest.kind = "none"
    BY DEF Idle, Requested, OpFields, NoRequest
  <2>3. Kind(o) = "none" /\ op[o].step = "idle" /\ ~Underway(o) /\ ~Previewed(o)
    BY <2>1, <2>2 DEF Kind, Underway, Replacing, Previewed
  <2>4. OpShaped(o)
    BY <2>1, <2>2, <2>3, EndedIs DEF OpShaped, Stations
  <2>5. NoEntryYet(o)
    <3>1. o \in Slots /\ o # "earlier"
      BY NamesDiffer DEF NamesDiffer, Slots
    <3> QED BY <1>2, <3>1 DEF NoEntryYet, NoEntry
  <2>6. SinceTrue(o) /\ BackedUp(o) /\ PartsTrue(o) /\ BodyTrue(o)
    BY <2>1, <2>3 DEF SinceTrue, BackedUp, PartsTrue, BodyTrue
  <2> QED BY <2>4, <2>5, <2>6 DEF OpInv
<1>8. ASSUME NEW o \in Ops PROVE PatchTrue(o)
  <2>1. Kind(o) = "none"
    BY <1>1 DEF Kind, Idle, Requested, NoRequest
  <2>2. NoLine.status = "none" /\ DOMAIN NoLine = LineFields
    BY DEF NoLine, LineFields
  <2>3. patch[o] = NoPatch /\ ledger[o] = NoLine
    BY <1>1
  <2> QED BY <2>1, <2>2, <2>3, DoneIs DEF PatchTrue, PatchSteps, Noted
<1>9. torn \in BOOLEAN
  BY <1>1
<1>10. OpsInv
  BY <1>1, <1>4, <1>5, <1>6, <1>7 DEF OpsInv
<1>11. PatchesInv
  BY <1>1, <1>8 DEF PatchesInv
<1> QED BY <1>9, <1>10, <1>11 DEF PatchInv

\* PatchInv holds always.
THEOREM PatchInvAlways == PatchSpec => []PatchInv
<1>1. PatchInit => PatchInv
  BY PatchInvInit
<1>2. PatchInv /\ [PatchNext]_patchVars => PatchInv'
  BY PatchInvNext
<1> QED BY <1>1, <1>2, PTL DEF PatchSpec

-----------------------------------------------------------------------------
(* What is lost                                                            *)

\* A content that a step takes away was somewhere and is nowhere.
LEMMA LostIs ==
    ASSUME NEW c, c \in Somewhere, c \notin Somewhere'
    PROVE  /\ c # Absent /\ ~IsTorn(c) /\ c \notin backups'
           /\ \A p \in Paths : file'[p] # c
           /\ \A i \in Slots : trash'[i].content # c
           /\ \/ \E p \in Paths : file[p] = c
              \/ c \in backups
              \/ \E i \in Slots : trash[i].content = c
<1>1. c # Absent /\ ~IsTorn(c)
  BY DEF Somewhere
<1>2. Absent' = Absent /\ IsTorn(c)' = IsTorn(c)
  BY DEF Absent, IsTorn
<1> QED BY <1>1, <1>2 DEF Somewhere

\* A step that overwrites one file takes away no more than its content.
LEMMA OneFileLost ==
    ASSUME NEW c, c \in Somewhere, c \notin Somewhere', NEW q, NEW v,
           file' = [file EXCEPT ![q] = v], backups \subseteq backups',
           \A i \in Slots : trash'[i].content = trash[i].content
    PROVE  c = file[q] /\ c # v
<1>1. /\ c \notin backups' /\ \A p \in Paths : file'[p] # c
      /\ \A i \in Slots : trash'[i].content # c
      /\ (\E p \in Paths : file[p] = c) \/ c \in backups \/ \E i \in Slots : trash[i].content = c
  BY LostIs
<1>2. PICK p \in Paths : file[p] = c
  BY <1>1
<1> QED BY <1>1, <1>2

\* What an operation of the kinds that look without verifying takes away is nothing that
\* it has seen.
Unseen(o, c) == Kind(o) \notin Replacing /\ c \notin Seen(o)

LEMMA RenameLoses ==
    ASSUME OpsInv, NEW o \in Ops, Rename(o), NEW c, c \in Somewhere, c \notin Somewhere'
    PROVE  /\ Kind(o) \in Replacing
           /\ since[o] = "back" \/ (since[o] = "late" /\ c # op[o].base)
<1>1. OpInv(o) /\ op[o].step = "rename" /\ Kind(o) \in Replacing
  BY KindAt DEF OpsInv, Rename, At
<1>2. c = Here(o) /\ c # Absent /\ c \notin backups
  <2>1. /\ file' = [file EXCEPT ![op[o].path] = Built(o)] /\ backups' = backups
        /\ trash' = trash
    BY DEF Rename
  <2>2. c = file[op[o].path]
    BY <2>1, OneFileLost
  <2> QED BY <2>1, <2>2, LostIs DEF Here
<1>3. since[o] \in {"steady", "back", "late"} /\ (since[o] = "steady" => Here(o) = op[o].base)
  BY <1>1 DEF OpInv, SinceTrue, Underway
<1>4. since[o] # "back" => op[o].base \in backups \cup {Absent}
  BY <1>1, <1>3 DEF OpInv, BackedUp, Unmoved
<1> QED BY <1>1, <1>2, <1>3, <1>4

LEMMA AwayLoses ==
    ASSUME OpsInv, NEW o \in Ops, Away(o), NEW c, c \in Somewhere, c \notin Somewhere'
    PROVE  FALSE
<1>1. OpInv(o) /\ op[o].step = "away" /\ FilesInv /\ o \in Slots
  BY DEF OpsInv, Away, At, Slots
<1>2. /\ c # Absent /\ c \notin backups' /\ backups' = backups
      /\ \A p \in Paths : file'[p] # c
      /\ \A i \in Slots : trash'[i].content # c
      /\ (\E p \in Paths : file[p] = c) \/ c \in backups \/ \E i \in Slots : trash[i].content = c
  BY LostIs DEF Away
<1>3. /\ file' = [file EXCEPT ![op[o].path] = Absent]
      /\ trash' = [trash EXCEPT ![o].content = Here(o)]
  BY <1>2 DEF Away
<1>4. trash'[o].content = Here(o) /\ \A i \in Slots : i # o => trash'[i] = trash[i]
  BY <1>1, <1>3 DEF FilesInv
<1>5. trash[o].content = Absent
  BY <1>1 DEF OpInv, NoEntryYet
<1>6. \A i \in Slots : trash[i].content # c
  BY <1>2, <1>4, <1>5
<1>7. PICK p \in Paths : file[p] = c /\ p = op[o].path
  BY <1>1, <1>2, <1>3, <1>6 DEF FilesInv
<1> QED BY <1>1, <1>2, <1>4, <1>7 DEF Here

\* A delete and a move have read nothing; and what they, or a copy, are about is no
\* entry of the trash.
LEMMA SeenIs ==
    ASSUME OpsInv, NEW o \in Ops
    PROVE  /\ Kind(o) = "delete" /\ op[o].step = "undo" =>
                 Seen(o) = {Absent, trash[o].content} /\ op[o].path \in Paths
           /\ Kind(o) = "move" /\ op[o].step = "move" =>
                 Seen(o) = {Absent, file[op[o].from]} /\ op[o].path \in Paths
           /\ Kind(o) = "copy" /\ op[o].step \in {"clear", "open"} => Seen(o) = {op[o].base}
           /\ Kind(o) = "restore" /\ op[o].step \in {"remove", "put"} =>
                 /\ Seen(o) = {op[o].base, trash[op[o].from].content}
                 /\ op[o].from \in Slots /\ op[o].path \in Paths
           /\ op[o].step \in {"remove", "put", "clear", "open"} =>
                 op[o].base \in backups \cup {Absent}
<1>1. OpShaped(o) /\ BackedUp(o)
  BY DEF OpsInv, OpInv
<1>2. op[o].step \in {"remove", "put", "clear", "open"} => op[o].base \in backups \cup {Absent}
  BY <1>1 DEF BackedUp
<1>3. Kind(o) = "delete" /\ op[o].step = "undo" =>
          Seen(o) = {Absent, trash[o].content} /\ op[o].path \in Paths
  BY <1>1 DEF OpShaped, Seen, At
<1>4. Kind(o) = "move" /\ op[o].step = "move" =>
          Seen(o) = {Absent, file[op[o].from]} /\ op[o].path \in Paths
  BY <1>1 DEF OpShaped, Seen, At
<1>5. Kind(o) = "copy" /\ op[o].step \in {"clear", "open"} => Seen(o) = {op[o].base}
  BY <1>1 DEF OpShaped, Seen, At
<1>6. Kind(o) = "restore" /\ op[o].step \in {"remove", "put"} =>
          /\ Seen(o) = {op[o].base, trash[op[o].from].content}
          /\ op[o].from \in Slots /\ op[o].path \in Paths
  BY <1>1 DEF OpShaped, Seen, At
<1> QED BY <1>2, <1>3, <1>4, <1>5, <1>6

LEMMA UndoLoses ==
    ASSUME OpsInv, NEW o \in Ops, Undo(o), NEW c, c \in Somewhere, c \notin Somewhere'
    PROVE  Unseen(o, c)
<1>1. /\ OpInv(o) /\ FilesInv /\ Kind(o) = "delete" /\ op[o].step = "undo"
  BY KindAt DEF OpsInv, Undo, At
<1>2. c # Absent /\ \A p \in Paths : file'[p] # c
  BY LostIs
<1>3. Seen(o) = {Absent, trash[o].content} /\ op[o].path \in Paths
  BY <1>1, SeenIs
<1>4. CASE trash[o].content = Absent
  BY <1>1, <1>2, <1>3, <1>4 DEF Unseen, Replacing
<1>5. CASE trash[o].content # Absent
  <2>1. file' = [file EXCEPT ![op[o].path] = trash[o].content]
    BY <1>5 DEF Undo
  <2>2. file'[op[o].path] = trash[o].content
    BY <1>1, <1>3, <2>1 DEF FilesInv
  <2> QED BY <1>1, <1>2, <1>3, <2>2 DEF Unseen, Replacing
<1> QED BY <1>4, <1>5

LEMMA RemoveLoses ==
    ASSUME OpsInv, NEW o \in Ops, Remove(o), NEW c, c \in Somewhere, c \notin Somewhere'
    PROVE  Unseen(o, c)
<1>1. OpInv(o) /\ Kind(o) = "restore" /\ op[o].step = "remove" /\ trash' = trash
      /\ backups' = backups
  BY KindAt DEF OpsInv, Remove, At
<1>2. c # Absent /\ c \notin backups /\ \A i \in Slots : trash[i].content # c
  BY <1>1, LostIs
<1> QED BY <1>1, <1>2, SeenIs DEF Unseen, Replacing

LEMMA PutLoses ==
    ASSUME OpsInv, NEW o \in Ops, Put(o), NEW c, c \in Somewhere, c \notin Somewhere'
    PROVE  Unseen(o, c)
<1>1. /\ OpInv(o) /\ FilesInv /\ Kind(o) = "restore" /\ op[o].step = "put"
      /\ backups' = backups
  BY KindAt DEF OpsInv, Put, At
<1>2. c # Absent /\ c \notin backups /\ \A p \in Paths : file'[p] # c
  BY <1>1, LostIs
<1>3. /\ Seen(o) = {op[o].base, trash[op[o].from].content} /\ op[o].path \in Paths
      /\ op[o].base \in backups \cup {Absent}
  BY <1>1, SeenIs
<1>4. CASE trash[op[o].from].content = Absent
  BY <1>1, <1>2, <1>3, <1>4 DEF Unseen, Replacing
<1>5. CASE trash[op[o].from].content # Absent
  <2>1. file' = [file EXCEPT ![op[o].path] = trash[op[o].from].content]
    BY <1>5 DEF Put
  <2>2. file'[op[o].path] = trash[op[o].from].content
    BY <1>1, <1>3, <2>1 DEF FilesInv
  <2> QED BY <1>1, <1>2, <1>3, <2>2 DEF Unseen, Replacing
<1> QED BY <1>4, <1>5

LEMMA MoveLoses ==
    ASSUME OpsInv, NEW o \in Ops, Move(o), NEW c, c \in Somewhere, c \notin Somewhere'
    PROVE  Unseen(o, c)
<1>1. OpInv(o) /\ FilesInv /\ Kind(o) = "move" /\ op[o].step = "move"
  BY KindAt DEF OpsInv, Move, At
<1>2. c # Absent /\ \A p \in Paths : file'[p] # c
  BY LostIs
<1>3. Seen(o) = {Absent, file[op[o].from]} /\ op[o].path \in Paths
  BY <1>1, SeenIs
<1>4. CASE file[op[o].from] = Absent
  BY <1>1, <1>2, <1>3, <1>4 DEF Unseen, Replacing
<1>5. CASE file[op[o].from] # Absent
  <2>1. file'[op[o].path] = file[op[o].from]
    BY <1>1, <1>3, <1>5 DEF Move, FilesInv
  <2> QED BY <1>1, <1>2, <1>3, <2>1 DEF Unseen, Replacing
<1> QED BY <1>4, <1>5

LEMMA CopyLoses ==
    ASSUME OpsInv, NEW o \in Ops, Clear(o) \/ Open(o), NEW c, c \in Somewhere,
           c \notin Somewhere'
    PROVE  Unseen(o, c)
<1>1. /\ OpInv(o) /\ Kind(o) = "copy" /\ op[o].step \in {"clear", "open"}
      /\ backups' = backups
  BY KindAt DEF OpsInv, Clear, Open, At
<1>2. c # Absent /\ c \notin backups
  BY <1>1, LostIs
<1> QED BY <1>1, <1>2, SeenIs DEF Unseen, Replacing

LEMMA FillLoses ==
    ASSUME OpsInv, NEW o \in Ops, Fill(o), NEW c, c \in Somewhere, c \notin Somewhere'
    PROVE  FALSE
<1>1. /\ ~IsTorn(c) /\ c \notin backups' /\ backups' = backups
      /\ \A p \in Paths : file'[p] # c
      /\ \A i \in Slots : trash'[i].content # c
      /\ (\E p \in Paths : file[p] = c) \/ c \in backups \/ \E i \in Slots : trash[i].content = c
  BY LostIs DEF Fill
<1>2. c # Torn(o)
  BY <1>1 DEF IsTorn, Torn
<1>3. \A p \in Paths : file[p] # Torn(o) => file'[p] = file[p]
  BY DEF Fill, Complete
<1>4. ASSUME NEW i \in Slots, trash[i].content # Torn(o)
      PROVE  trash'[i].content = trash[i].content
  <2>1. /\ DOMAIN trash[i] = {"content", "from"}
        /\ trash'[i] = [trash[i] EXCEPT !.content = IF @ = Torn(o) THEN op[o].temp.head ELSE @]
    BY DEF Fill, Complete, OpsInv, FilesInv
  <2> QED BY <1>4, <2>1
<1> QED BY <1>1, <1>2, <1>3, <1>4

\* No other action takes anything away.
LEMMA NothingLost ==
    ASSUME OpsInv, backups \subseteq backups', UNCHANGED file,
           \A i \in Slots : trash'[i].content = trash[i].content
    PROVE  Somewhere \subseteq Somewhere'
<1> SUFFICES ASSUME NEW c, c \in Somewhere, c \notin Somewhere'
             PROVE  FALSE
  OBVIOUS
<1> QED BY LostIs

LEMMA WorkLoses ==
    ASSUME OpsInv, NEW o \in Ops, Work(o), NEW c, c \in Somewhere, c \notin Somewhere'
    PROVE  IF Kind(o) \in Replacing
           THEN since[o] = "back" \/ (since[o] = "late" /\ c # op[o].base)
           ELSE c \notin Seen(o)
<1>1. CASE Rename(o)
  BY <1>1, RenameLoses
<1>2. CASE Away(o)
  BY <1>2, AwayLoses
<1>3. CASE Undo(o) \/ Remove(o) \/ Put(o) \/ Move(o) \/ Clear(o) \/ Open(o)
  BY <1>3, UndoLoses, RemoveLoses, PutLoses, MoveLoses, CopyLoses DEF Unseen
<1>4. CASE Fill(o)
  BY <1>4, FillLoses
<1>5. CASE Note(o) \/ Tidy(o)
  <2>1. FilesInv /\ backups' = backups /\ file' = file
    BY <1>5 DEF Note, Tidy, OpsInv
  <2>2. \A i \in Slots : trash'[i].content = trash[i].content
    BY <1>5, <2>1 DEF Note, Tidy, FilesInv
  <2> QED BY <2>1, <2>2, NothingLost
<1>6. CASE ~(Rename(o) \/ Away(o) \/ Undo(o) \/ Remove(o) \/ Put(o) \/ Move(o) \/ Clear(o)
             \/ Open(o) \/ Fill(o) \/ Note(o) \/ Tidy(o))
  <2>1. backups \subseteq backups' /\ UNCHANGED <<file, trash>>
    BY Zenon, <1>6
       DEF Work, Begin, LookToWrite, LookToChange, Preview, Compile, CopyHead, CopyBody,
           CopyTail, Backup, Verify, Check, LookToRestore, LookToMove, OnlyOp
  <2> QED BY <2>1, NothingLost
<1> QED BY <1>1, <1>2, <1>3, <1>4, <1>5, <1>6

-----------------------------------------------------------------------------
(* Theorems                                                                *)

\* Every variable has its type, every operation and every patch is where it can be.
THEOREM PatchTypesHold == PatchSpec => []PatchTypeOK
<1>1. ASSUME PatchInv PROVE PatchTypeOK
  <2>1. OpsInv /\ PatchesInv /\ torn \in BOOLEAN
    BY <1>1 DEF PatchInv
  <2>2. StagesTypeOK
    BY <2>1 DEF OpsInv, StagesInv, StagesSound, StagesTypeOK, StageRecords, StageStates
  <2>3. ASSUME NEW o \in Ops
        PROVE  /\ op[o].step \in Steps
               /\ op[o].step \in {"idle", "ended"} => op[o].temp = NoTemp
               /\ since[o] \in {"steady", "away", "back", "late"}
               /\ Kind(o) = "patch" => InFlight(o)
    <3>1. OpShaped(o) /\ SinceTrue(o)
      BY <2>1 DEF OpsInv, OpInv
    <3>2. op[o].step \in Steps /\ (op[o].step \in {"idle", "ended"} => Kind(o) = "none")
      BY <3>1 DEF OpShaped, Stations, Steps
    <3>3. Kind(o) = "patch" => InFlight(o)
      BY <3>1 DEF OpShaped, Stations, InFlight
    <3> QED BY <3>1, <3>2, <3>3 DEF OpShaped, SinceTrue
  <2>4. TypeOK
    BY <2>1, <2>2, <2>3 DEF TypeOK, OpsInv, FilesInv, BoundsInv
  <2>5. ASSUME NEW o \in Ops
        PROVE  /\ patch[o].step \in PatchSteps
               /\ patch[o].step = "inside" <=> InFlight(o) /\ Kind(o) = "patch"
               /\ patch[o].step \notin {"none", "done"} => patch[o].path \in Setting.patches
               /\ ledger[o].status \in {"none", "ready", "committed", "undone"}
    BY <2>1, <2>3 DEF PatchesInv, PatchTrue
  <2> QED BY <2>1, <2>4, <2>5 DEF PatchTypeOK
<1> QED BY <1>1, PatchInvAlways, PTL

\* A stage holds what its client sent, and no client has more than its quota: whatever is
\* sent twice, overtaken or expires in between.
THEOREM StagesHoldWhatWasSent == PatchSpec => []StageAsSent
<1>1. ASSUME PatchInv PROVE StageAsSent
  <2>1. StagesInv
    BY <1>1 DEF PatchInv, OpsInv
  <2>2. ASSUME NEW s \in Stages, NEW k \in DOMAIN stage[s].chunks
        PROVE  stage[s].chunks[k] = k - 1
    <3>1. stage[s].chunks \in Seq(Nat) /\ Sound(stage, s)
      BY <2>1 DEF StagesInv, StagesSound, StageRecords
    <3>2. k \in 1..Len(stage[s].chunks)
      BY <3>1
    <3> QED BY <3>1, <3>2 DEF Sound
  <2>3. \A o \in Owners : BytesOf(o, stage) <= OwnerLimit
                          /\ Cardinality(OwnedBy(o, stage)) <= OwnerStages
    BY <2>1 DEF StagesInv, StagesSound, Within, BytesOf
  <2> QED BY <2>2, <2>3 DEF StageAsSent
<1> QED BY <1>1, PatchInvAlways, PTL

\* Nothing is lost: what an operation overwrites, moves or removes, and had seen, is in a
\* backup, in the trash or in a file afterwards.
THEOREM NothingSeenIsLost == PatchSpec => OverwrittenIsKept
<1> DEFINE A == \A o \in Ops : op'[o] # op[o] =>
                   \A c \in Somewhere \ Somewhere' :
                      IF Kind(o) \in Replacing
                      THEN since[o] = "back" \/ (since[o] = "late" /\ c # op[o].base)
                      ELSE c \notin Seen(o)
<1>1. ASSUME PatchInv, [PatchNext]_patchVars PROVE A
  <2> SUFFICES ASSUME NEW o \in Ops, op'[o] # op[o],
                      NEW c \in Somewhere, c \notin Somewhere'
               PROVE  IF Kind(o) \in Replacing
                      THEN since[o] = "back" \/ (since[o] = "late" /\ c # op[o].base)
                      ELSE c \notin Seen(o)
    OBVIOUS
  <2>1. OpsInv
    BY <1>1 DEF PatchInv
  <2>2. ~UNCHANGED <<file, backups, trash>>
    BY <2>1, NothingLost
  <2>3. Work(o)
    <3>1. op' # op /\ PatchNext
      BY <1>1 DEF patchVars, vars
    <3>2. CASE Next
      <4>1. PICK x \in Ops : Work(x)
        BY <2>2, <3>1, <3>2 DEF Next, Fail, Crash, Rest, OnlyOp
      <4>2. Onward(x)
        BY <2>1, <3>2, <4>1, WorkStages, WorkKeeps DEF Keeps, OpsInv, Next
      <4> QED BY <4>1, <4>2 DEF Onward
    <3>3. CASE \E x \in Ops : PatchWork(x)
      BY ZenonT(30), <2>2, <3>1, <3>3
         DEF PatchWork, Propose, Announce, Apply, Refer, Edit, Validate, Commit, Rollback,
             Before, Restore, Refill, NoteUndone, OnlyPatch, OnlyLedger
    <3> QED BY <3>1, <3>2, <3>3 DEF PatchNext, PatchFail, PatchCrash
  <2> QED BY <2>1, <2>3, WorkLoses
<1> HIDE DEF A
<1>2. PatchInv /\ [PatchNext]_patchVars => [A]_vars
  BY <1>1
<1>3. OverwrittenIsKept <=> [][A]_vars
  BY DEF OverwrittenIsKept, A
<1> QED BY <1>2, <1>3, PatchInvAlways, PTL DEF PatchSpec

\* Previews are kept: what is published is what the preview promised, and what a patch
\* writes back is the version that its dry run has shown.
THEOREM WhatIsPublishedWasPreviewed == PatchSpec => PreviewsAreKept
<1> DEFINE A == /\ AsPreviewed
                /\ \A o \in Ops : file' # file =>
                      /\ At(o, "rename") /\ op'[o] # op[o] /\ In(o, "inside")
                            => op[o].base = ledger[o].source
                      /\ In(o, "refill") /\ patch'[o] # patch[o]
                            => patch[o].saved = Line(o).source \/ patch[o].back \/ Line(o).back
<1>1. ASSUME PatchInv PROVE A
  <2>1. OpsInv /\ PatchesInv
    BY <1>1 DEF PatchInv
  <2>2. AsPreviewed
    <3> SUFFICES ASSUME NEW o \in Ops, op[o].step = "rename", Kind(o) # "write",
                        since[o] # "back"
                 PROVE  /\ op[o].temp.head = op[o].base /\ op[o].temp.body = op[o].sent
                        /\ op[o].temp.tail = IF Kind(o) = "append" THEN Absent
                                             ELSE op[o].base
      BY DEF AsPreviewed, At
    <3>1. OpInv(o)
      BY <2>1 DEF OpsInv
    <3>2. Previewed(o) /\ Unmoved(o)
      BY <3>1, KindAt DEF OpInv, SinceTrue, Unmoved
    <3>3. /\ op[o].temp.head = op[o].base
          /\ Kind(o) # "append" => op[o].temp.tail = op[o].base
      BY <3>1, <3>2 DEF OpInv, PartsTrue, PastHead, PastTail
    <3>4. /\ op[o].temp.body = op[o].sent
          /\ Kind(o) = "append" => op[o].temp.tail = Absent
      BY <3>1, <3>2 DEF OpInv, BodyTrue
    <3> QED BY <3>3, <3>4
  <2>3. ASSUME NEW o \in Ops, In(o, "inside") PROVE op[o].base = ledger[o].source
    BY <2>1, <2>3 DEF PatchesInv, PatchTrue, In, Noted
  <2>4. ASSUME NEW o \in Ops, In(o, "refill")
        PROVE  patch[o].saved = Line(o).source \/ patch[o].back \/ Line(o).back
    <3>1. PatchTrue(o)
      BY <2>1 DEF PatchesInv
    <3>2. CASE patch[o].of = Nobody
      BY <2>4, <3>1, <3>2 DEF PatchTrue, In, Line, Noted
    <3>3. CASE patch[o].of # Nobody
      <4> DEFINE y == patch[o].of
      <4>1. /\ y \in Ops /\ ledger[y].status \in {"committed", "undone"}
            /\ patch[o].saved = ledger[y].backup /\ Line(o) = ledger[y]
        BY <3>1, <3>3 DEF PatchTrue, Line
      <4>2. ledger[y].backup = ledger[y].source \/ ledger[y].back = TRUE
        BY <2>1, <4>1 DEF PatchesInv, PatchTrue
      <4> QED BY <4>1, <4>2
    <3> QED BY <3>2, <3>3
  <2> QED BY <2>2, <2>3, <2>4
<1> HIDE DEF A
<1>2. PatchInv => [A]_patchVars
  BY <1>1
<1>3. PreviewsAreKept <=> [][A]_patchVars
  BY DEF PreviewsAreKept, A
<1> QED BY <1>2, <1>3, PatchInvAlways, PTL
=============================================================================
