-------------------------- MODULE AuthServerProofs --------------------------
(***************************************************************************)
(* Proofs about AuthServer, for any number of instances, requests, issues  *)
(* and clients, any limit of the registry and every failure it knows.      *)
(*                                                                         *)
(* What TokenGrantsProofs shows of the grants alone (HandedSurvives,       *)
(* GrantKeepsRefresh and, with one server at a time, EndedStaysEnded,      *)
(* ClientCanGoOn and MemoryMatchesDisk) holds with the clients around      *)
(* them; a prune at start counts as a revocation.                          *)
(*                                                                         *)
(* ClientsSurvive: that prune never meets the tokens of a client that      *)
(* registered, and no client is dropped in the middle of an authorization. *)
(* The invariant follows the owner of every record, stored or in memory,   *)
(* to a row of the table.                                                  *)
(***************************************************************************)
EXTENDS AuthServer, TokenGrantsProofs

-----------------------------------------------------------------------------
(* Types and handed tokens                                                 *)

\* The steps of the grants are those of TokenGrants.
LEMMA GrantStepsAreSteps ==
    ASSUME UNCHANGED scenario, NEW i \in Instances, GrantStep(i)
    PROVE  Next
BY DEF GrantStep, Next

\* A registration changes nothing of the grants, but its save may throw.
LEMMA RegisterIsQuiet ==
    ASSUME TypeOK, NEW i \in Instances, NEW c \in Clients, Register(i, c), UNCHANGED scenario
    PROVE  TypeOK' /\ UNCHANGED <<disk, mem, at, requests, issues, expired, answers>>
<1>1. Logged'
  BY ThrowIsLogged DEF Register, Logged, TypeOK
<1>2. UNCHANGED <<disk, mem, at, requests, issues, expired, answers>>
  BY DEF Register
<1> QED BY <1>1, <1>2 DEF TypeOK, Logged, requests, issues, answers

\* A prune at start deletes records of grants that it revokes.
LEMMA PruneEffect ==
    ASSUME TypeOK, NEW i \in Instances, StartupPrune(i), UNCHANGED scenario
    PROVE  /\ TypeOK'
           /\ disk'.access \subseteq disk.access /\ disk'.refresh \subseteq disk.refresh
           /\ \A t \in Tokens : disk'.used[t] \in {0, disk.used[t]}
           /\ \A t \in disk.access : t \in disk'.access \/ grant[t] \in revoked'
           /\ \A t \in disk.refresh : t \in disk'.refresh \/ grant[t] \in revoked'
           /\ revoked \subseteq revoked'
           /\ \A g \in revoked' : \/ g \in revoked
                                  \/ \E t \in Tokens : g = grant[t] /\ HasRecord(disk, t)
           /\ UNCHANGED <<mem, at, requests, issues, expired, handed, ended, failures>>
<1> DEFINE orphans == {t \in Tokens : HasRecord(disk, t) /\ client[grant[t]] \notin Registered}
           grants == {grant[t] : t \in orphans}
<1>1. /\ disk' = [access |-> disk.access \ orphans, refresh |-> disk.refresh \ orphans,
                  used |-> [t \in Tokens |-> IF t \in orphans THEN 0 ELSE disk.used[t]]]
      /\ revoked' = revoked \cup grants
      /\ UNCHANGED <<mem, at, requests, issues, expired, handed, ended, failures>>
  BY DEF StartupPrune
<1>2. /\ grants \subseteq Numbers /\ \A t \in orphans : grant[t] \in grants
      /\ \A g \in grants : \E t \in Tokens : g = grant[t] /\ HasRecord(disk, t)
  BY DEF TypeOK
<1> HIDE DEF orphans, grants
<1>3. disk' \in Stored
  BY <1>1, TokenNumbers DEF Stored, TypeOK
<1>4. TypeOK'
  BY <1>1, <1>2, <1>3 DEF TypeOK, requests, issues
<1>5. /\ disk'.access = disk.access \ orphans /\ disk'.refresh = disk.refresh \ orphans
      /\ \A t \in Tokens : disk'.used[t] \in {0, disk.used[t]}
  BY <1>1
<1> HIDE DEF HasRecord
<1> QED BY <1>1, <1>2, <1>4, <1>5

LEMMA AuthTypes == TypeOK /\ [AuthNext]_<<vars, registry>> => TypeOK'
<1> SUFFICES ASSUME TypeOK, [AuthNext]_<<vars, registry>> PROVE TypeOK'
  OBVIOUS
<1>1. CASE Next \/ UNCHANGED vars
  BY <1>1, StepTypes
<1>2. ASSUME UNCHANGED scenario, NEW i \in Instances, GrantStep(i) PROVE TypeOK'
  BY <1>1, <1>2, GrantStepsAreSteps
<1>3. ASSUME UNCHANGED scenario, NEW i \in Instances, NEW c \in Clients, Register(i, c)
      PROVE  TypeOK'
  BY <1>3, RegisterIsQuiet
<1>4. ASSUME UNCHANGED scenario, NEW i \in Instances, StartupPrune(i) PROVE TypeOK'
  BY <1>4, PruneEffect
<1>5. CASE UNCHANGED scenario /\ Expire
  BY <1>1, <1>5 DEF Next
<1>6. CASE UNCHANGED scenario /\ ((\E c \in Clients : Age(c)) \/ DayPasses)
  BY <1>1, <1>6 DEF Age, DayPasses, vars
<1>7. CASE UNCHANGED <<vars, registry>>
  BY <1>1, <1>7
<1> QED BY <1>2, <1>3, <1>4, <1>5, <1>6, <1>7 DEF AuthNext

LEMMA AuthSurvival ==
    TypeOK /\ TypeOK' /\ SurvivalInv /\ [AuthNext]_<<vars, registry>> => SurvivalInv'
<1> SUFFICES ASSUME TypeOK, TypeOK', SurvivalInv, [AuthNext]_<<vars, registry>>
             PROVE  SurvivalInv'
  OBVIOUS
<1>1. CASE Next \/ UNCHANGED vars
  BY <1>1, StepKeeps
<1>2. ASSUME UNCHANGED scenario, NEW i \in Instances, GrantStep(i) PROVE SurvivalInv'
  BY <1>1, <1>2, GrantStepsAreSteps
<1>3. ASSUME UNCHANGED scenario, NEW i \in Instances, NEW c \in Clients, Register(i, c)
      PROVE  SurvivalInv'
  <2>1. UNCHANGED <<disk, mem, issued, grant, expired, handed, revoked>>
    BY <1>3, RegisterIsQuiet DEF issues, answers
  <2> QED BY <2>1 DEF SurvivalInv, OnlyIssued, Referenced, Kept
<1>4. ASSUME UNCHANGED scenario, NEW i \in Instances, StartupPrune(i) PROVE SurvivalInv'
  <2>1. /\ disk'.access \subseteq disk.access
        /\ \A t \in Tokens : disk'.used[t] \in {0, disk.used[t]}
        /\ \A t \in disk.access : t \in disk'.access \/ grant[t] \in revoked'
        /\ revoked \subseteq revoked'
        /\ UNCHANGED <<mem, issued, grant, expired, handed>>
    BY <1>4, PruneEffect DEF issues
  <2>2. \A t \in Tokens : t # 0
    BY DEF Tokens
  <2>3. \A t \in Tokens : Referenced(t)' => Referenced(t)
    BY <2>1, <2>2 DEF Referenced
  <2>4. OnlyIssued'
    BY <2>1, <2>3 DEF SurvivalInv, OnlyIssued
  <2>5. \A t \in Tokens : Referenced(t)' => Kept(t)'
    BY <2>1, <2>3 DEF SurvivalInv, Kept
  <2> QED BY <2>4, <2>5 DEF SurvivalInv
<1>5. CASE UNCHANGED scenario /\ Expire
  BY <1>1, <1>5 DEF Next
<1>6. CASE UNCHANGED scenario /\ ((\E c \in Clients : Age(c)) \/ DayPasses)
  BY <1>1, <1>6 DEF Age, DayPasses, vars
<1>7. CASE UNCHANGED <<vars, registry>>
  BY <1>1, <1>7
<1> QED BY <1>2, <1>3, <1>4, <1>5, <1>6, <1>7 DEF AuthNext

LEMMA AuthLineage ==
    TypeOK /\ TypeOK' /\ SurvivalInv /\ LineageInv /\ [AuthNext]_<<vars, registry>> => LineageInv'
<1> SUFFICES ASSUME TypeOK, TypeOK', SurvivalInv, LineageInv, [AuthNext]_<<vars, registry>>
             PROVE  LineageInv'
  OBVIOUS
<1>1. CASE Next \/ UNCHANGED vars
  BY <1>1, LineageStep
<1>2. ASSUME UNCHANGED scenario, NEW i \in Instances, GrantStep(i) PROVE LineageInv'
  BY <1>1, <1>2, GrantStepsAreSteps
<1>3. ASSUME UNCHANGED scenario, NEW i \in Instances, NEW c \in Clients, Register(i, c)
      PROVE  LineageInv'
  <2>1. UNCHANGED <<disk, mem, issued, grant, expired, handed, revoked, ended>>
    BY <1>3, RegisterIsQuiet DEF issues, answers
  <2> QED BY <2>1 DEF LineageInv, IssuedFirst, Withdrawals, Carried, Lineage, OneEach, Live, Over,
              Referenced
<1>4. ASSUME UNCHANGED scenario, NEW i \in Instances, StartupPrune(i) PROVE LineageInv'
  <2>1. /\ disk'.refresh \subseteq disk.refresh
        /\ \A t \in Tokens : disk'.used[t] \in {0, disk.used[t]}
        /\ \A t \in disk.refresh : t \in disk'.refresh \/ grant[t] \in revoked'
        /\ revoked \subseteq revoked'
        /\ \A g \in revoked' : \/ g \in revoked
                               \/ \E t \in Tokens : g = grant[t] /\ HasRecord(disk, t)
        /\ UNCHANGED <<mem, issues, expired, handed, ended>>
    BY <1>4, PruneEffect
  <2>2. \A t \in Tokens : t # 0 /\ t \in Nat
    BY DEF Tokens
  <2>3. \A t \in Tokens : Referenced(t)' => Referenced(t)
    BY <2>1, <2>2 DEF Referenced
  <2>4. Over \subseteq Over'
    BY <2>1 DEF Over
  <2>5. Over' \subseteq 1..issued
    <3>1. \A t \in Tokens : HasRecord(disk, t) => t <= issued
      <4>1. issued \in Nat /\ disk.used \in [Tokens -> Numbers]
        BY DEF TypeOK, Numbers, Stored
      <4>2. disk.access \subseteq 1..issued /\ disk.refresh \subseteq 1..issued
        BY DEF SurvivalInv, OnlyIssued, LineageInv, IssuedFirst
      <4>3. \A t \in Tokens : disk.used[t] # 0 => t < disk.used[t] /\ disk.used[t] <= issued
        BY DEF LineageInv, Lineage, IssuedFirst
      <4>4. \A t \in Tokens : disk.used[t] \in Nat
        BY <4>1 DEF Numbers
      <4> QED BY <2>2, <4>1, <4>2, <4>3, <4>4 DEF HasRecord
    <3>2. \A t \in Tokens : t <= issued => grant[t] \in 1..issued
      BY DEF LineageInv, IssuedFirst
    <3>3. revoked \cup ended \subseteq 1..issued
      BY DEF LineageInv, IssuedFirst, Over
    <3>4. \A g \in revoked' \cup ended' : g \in 1..issued
      BY <2>1, <3>1, <3>2, <3>3
    <3> QED BY <3>4 DEF Over
  <2>6. expired'.refresh >= expired.refresh
    BY <2>1 DEF TypeOK, Numbers
  <2>7. \A t \in disk.refresh : \/ t \in disk'.refresh \/ ~(t > expired'.refresh)
                                \/ grant[t] \in Over'
    BY <2>1 DEF Over
  <2> QED BY <1>4, <2>1, <2>3, <2>4, <2>5, <2>6, <2>7, QuietCarries
<1>5. CASE UNCHANGED scenario /\ Expire
  BY <1>1, <1>5 DEF Next
<1>6. CASE UNCHANGED scenario /\ ((\E c \in Clients : Age(c)) \/ DayPasses)
  BY <1>1, <1>6 DEF Age, DayPasses, vars
<1>7. CASE UNCHANGED <<vars, registry>>
  BY <1>1, <1>7
<1> QED BY <1>2, <1>3, <1>4, <1>5, <1>6, <1>7 DEF AuthNext

\* Every reachable state has the types of TypeOK, whichever clients come and go.
THEOREM AuthTypesHold == AuthSpec => []TypeOK
<1>1. AuthInit => TypeOK
  BY InitTypes DEF AuthInit
<1> QED BY <1>1, AuthTypes, PTL DEF AuthSpec

\* A token that a client was answered with stays stored until it expires or its grant
\* is revoked, by the client or by a prune at start.
THEOREM TokensSurvive == AuthSpec => []HandedSurvives
<1>1. TypeOK /\ SurvivalInv => HandedSurvives
  BY DEF SurvivalInv, Referenced, Kept, HandedSurvives, TypeOK
<1>2. AuthInit => SurvivalInv
  BY SurvivalInit DEF AuthInit
<1> QED BY <1>1, <1>2, AuthTypesHold, AuthSurvival, PTL DEF AuthSpec

\* A grant that a client holds a token of has exactly one refresh token in the store
\* until it expires, ends or is revoked, by the client or by a prune at start.
THEOREM RefreshTokensKept == AuthSpec => []GrantKeepsRefresh
<1>1. AuthInit => SurvivalInv /\ LineageInv
  BY SurvivalInit, LineageInit DEF AuthInit
<1> QED BY <1>1, LineageSuffices, AuthTypesHold, AuthSurvival, AuthLineage, PTL DEF AuthSpec

\* With one server at a time a prune at start finds no server, and ends what it deletes.
LEMMA PruneStaysAlone ==
    ASSUME TypeOK, TypeOK', AloneInv, ~scenario.overlap, UNCHANGED scenario,
           NEW i \in Instances, StartupPrune(i)
    PROVE  AloneInv'
<1> DEFINE orphans == {t \in Tokens : HasRecord(disk, t) /\ client[grant[t]] \notin Registered}
           grants == {grant[t] : t \in orphans}
<1>1. /\ disk' = [access |-> disk.access \ orphans, refresh |-> disk.refresh \ orphans,
                  used |-> [t \in Tokens |-> IF t \in orphans THEN 0 ELSE disk.used[t]]]
      /\ revoked' = revoked \cup grants
      /\ UNCHANGED <<mem, at, issued, grant, expired, handed, ended>>
      /\ \A j \in Instances : at[j] = "down"
  BY DEF StartupPrune, issues
<1>2. ASSUME NEW t \in Tokens, grant[t] \in grants PROVE Held(disk, t) => t \in orphans
  BY <1>2 DEF HasRecord, Held
<1>3. \A t \in orphans : grant[t] \in grants
  OBVIOUS
<1> HIDE DEF orphans, grants
<1>4. /\ \A j \in Instances : mem[j] = Empty
      /\ Settled(disk) /\ Exchangeable
  BY <1>1 DEF AloneInv
<1>5. ASSUME NEW t \in Tokens
      PROVE  /\ t \in orphans => ~Held(disk', t)
             /\ Held(disk', t) => Held(disk, t)
             /\ t \notin orphans => /\ t \in disk'.refresh <=> t \in disk.refresh
                                   /\ disk'.used[t] = disk.used[t]
             /\ t \in disk'.refresh => t \in disk.refresh
             /\ disk'.used[t] \in {0, disk.used[t]}
  BY <1>1 DEF Held
<1>6. Settled(disk)'
  BY <1>1, <1>2, <1>4, <1>5 DEF Settled
<1>7. \A j \in Instances : Settled(mem[j])'
  BY <1>1, <1>4, EmptyIsEmpty DEF Settled, Held
<1>8. \A t \in Tokens : Referenced(t)' => Referenced(t)
  <2>1. \A t \in Tokens : t # 0
    BY DEF Tokens
  <2> QED BY <1>1, <1>5, <2>1 DEF Referenced
<1>9. Exchangeable'
  <2> SUFFICES ASSUME NEW t \in Tokens, Referenced(t), t > expired.refresh,
                      grant[t] \notin revoked' \cup ended
               PROVE  t \in disk'.refresh \/ disk'.used[t] # 0
    BY <1>1, <1>8 DEF Exchangeable, Live, Over
  <2>1. t \notin orphans /\ grant[t] \notin revoked \cup ended
    BY <1>1, <1>3
  <2>2. t \in disk.refresh \/ disk.used[t] # 0
    BY <1>4, <2>1 DEF Exchangeable, Live, Over
  <2> QED BY <1>5, <2>1, <2>2
<1> QED BY <1>1, <1>4, <1>6, <1>7, <1>9 DEF AloneInv, OneServer

LEMMA AuthAlone ==
    TypeOK /\ TypeOK' /\ SurvivalInv /\ SurvivalInv' /\ LineageInv /\ LineageInv' /\ AloneInv
        /\ [AuthNext]_<<vars, registry>> => AloneInv'
<1> SUFFICES ASSUME TypeOK, TypeOK', SurvivalInv, SurvivalInv', LineageInv, LineageInv',
                    AloneInv, [AuthNext]_<<vars, registry>>
             PROVE  AloneInv'
  OBVIOUS
<1>1. CASE Next \/ UNCHANGED vars
  BY <1>1, AloneStep
<1>2. ASSUME UNCHANGED scenario, NEW i \in Instances, GrantStep(i) PROVE AloneInv'
  BY <1>1, <1>2, GrantStepsAreSteps
<1>3. ASSUME UNCHANGED scenario, NEW i \in Instances, NEW c \in Clients, Register(i, c)
      PROVE  AloneInv'
  BY <1>3, RegisterIsQuiet, AnyoneStaysAlone
<1>4. ASSUME UNCHANGED scenario, NEW i \in Instances, StartupPrune(i) PROVE AloneInv'
  BY <1>4, PruneStaysAlone DEF AloneInv
<1>5. CASE UNCHANGED scenario /\ Expire
  BY <1>1, <1>5 DEF Next
<1>6. CASE UNCHANGED scenario /\ ((\E c \in Clients : Age(c)) \/ DayPasses)
  BY <1>1, <1>6 DEF Age, DayPasses, vars
<1>7. CASE UNCHANGED <<vars, registry>>
  BY <1>1, <1>7
<1> QED BY <1>2, <1>3, <1>4, <1>5, <1>6, <1>7 DEF AuthNext

LEMMA AuthAloneHolds == AuthSpec => []AloneInv
<1>1. AuthInit => SurvivalInv /\ LineageInv /\ AloneInv
  BY SurvivalInit, LineageInit, AloneInit DEF AuthInit
<1> QED BY <1>1, AuthTypesHold, AuthSurvival, AuthLineage, AuthAlone, PTL DEF AuthSpec

\* One server at a time: what a revocation, a reuse or a prune at start ended comes back
\* in no restart, no save that fails and no merge.
THEOREM EndedForGood == AuthSpec => []EndedStaysEnded
BY AuthAloneHolds, AloneSuffices, AuthTypesHold, PTL

\* One server at a time: a client whose answer was lost can still exchange its token or
\* have the answer again, unless a prune at start took its grant.
THEOREM ClientsNotStranded == AuthSpec => []ClientCanGoOn
BY AuthAloneHolds, AloneSuffices, AuthTypesHold, PTL

\* One server at a time, whose load succeeds: its Maps are the store's, up to what has
\* expired.
THEOREM MapsMatchTables == AuthSpec => []MemoryMatchesDisk
BY AuthAloneHolds, AloneSuffices, AuthTypesHold, PTL

-----------------------------------------------------------------------------
(* Records and what the handlers do to them                                *)

\* The token t has a record, stored or in the memory of an instance.
Recorded(t) == HasRecord(disk, t) \/ \E i \in Instances : HasRecord(mem[i], t)

\* Of the Maps m: all records are of m0, or of t or n.
Within(m, m0, t, n) == \A u \in Tokens : HasRecord(m, u) => HasRecord(m0, u) \/ u = t \/ u = n

LEMMA HelperRecords ==
    ASSUME NEW m \in Maps, NEW t \in Tokens, NEW n \in Tokens, NEW T, NEW u \in Tokens
    PROVE  /\ HasRecord(PutAccess(m, t), u) => HasRecord(m, u) \/ u = t
           /\ HasRecord(PutRefresh(m, t), u) => HasRecord(m, u) \/ u = t
           /\ HasRecord(PutUsed(m, t, n), u) => HasRecord(m, u) \/ u = t
           /\ HasRecord(DropAccess(m, T), u) => HasRecord(m, u)
           /\ HasRecord(DropRefresh(m, T), u) => HasRecord(m, u)
           /\ HasRecord(DropUsed(m, T), u) => HasRecord(m, u)
BY DEF HasRecord, PutAccess, PutRefresh, PutUsed, DropAccess, DropRefresh, DropUsed, Maps,
       Deleted

LEMMA IssueRecords ==
    ASSUME NEW m \in Maps, NEW n \in Tokens, NEW u \in Tokens, HasRecord(Issue(m, n), u)
    PROVE  HasRecord(m, u) \/ u = n
BY HelperRecords, PutAccessEffect DEF Issue

LEMMA WithdrawnRecords ==
    ASSUME NEW m \in Maps, NEW n \in Tokens, NEW u \in Tokens, HasRecord(Withdrawn(m, n), u)
    PROVE  HasRecord(m, u)
BY HelperRecords, DropAccessEffect DEF Withdrawn

LEMMA RotatedRecords ==
    ASSUME NEW m \in Maps, NEW t \in Tokens, NEW n \in Tokens
    PROVE  Within(Rotated(m, t, n), m, t, n)
<1> DEFINE d == DropRefresh(m, {t})
           p == PutUsed(d, t, n)
<1>1. d \in Maps /\ \A u \in Tokens : HasRecord(d, u) => HasRecord(m, u)
  BY DropRefreshEffect, HelperRecords
<1>2. Rotated(m, t, n) = Issue(p, n)
  BY DEF Rotated
<1> HIDE DEF d
<1>3. p \in Maps /\ \A u \in Tokens : HasRecord(p, u) => HasRecord(d, u) \/ u = t
  BY <1>1, PutUsedEffect, HelperRecords
<1> HIDE DEF p
<1> QED BY <1>1, <1>2, <1>3, IssueRecords DEF Within

LEMMA UndoneRecords ==
    ASSUME NEW m \in Maps, NEW t \in Tokens, NEW n \in Tokens
    PROVE  Within(RotationUndone(m, t, n), m, t, n)
<1> DEFINE w == Withdrawn(m, n)
           d == DropUsed(w, {t})
<1>1. w \in Maps /\ \A u \in Tokens : HasRecord(w, u) => HasRecord(m, u)
  BY WithdrawnEffect, WithdrawnRecords
<1>2. RotationUndone(m, t, n) = PutRefresh(d, t)
  BY DEF RotationUndone, Withdrawn
<1> HIDE DEF w
<1>3. d \in Maps /\ \A u \in Tokens : HasRecord(d, u) => HasRecord(w, u)
  BY <1>1, DropUsedEffect, HelperRecords
<1> HIDE DEF d
<1> QED BY <1>1, <1>2, <1>3, HelperRecords DEF Within

LEMMA CleanedRecords ==
    ASSUME TypeOK, NEW i \in Instances, NEW u \in Tokens, HasRecord(Cleaned(i), u)
    PROVE  HasRecord(mem[i], u)
<1> DEFINE a == DropAccess(mem[i], 1..expired.access)
           r == DropRefresh(a, 1..expired.refresh)
<1>1. mem[i] \in Maps
  BY DEF TypeOK
<1>2. a \in Maps /\ (HasRecord(a, u) => HasRecord(mem[i], u))
  BY <1>1, DropAccessEffect, HelperRecords
<1>3. Cleaned(i) = DropUsed(r, 1..expired.refresh)
  BY DEF Cleaned
<1> HIDE DEF a
<1>4. r \in Maps /\ (HasRecord(r, u) => HasRecord(a, u))
  BY <1>2, DropRefreshEffect, HelperRecords
<1> HIDE DEF r
<1> QED BY <1>2, <1>3, <1>4, HelperRecords

LEMMA DropRecords ==
    ASSUME NEW m \in Maps, NEW T, NEW u \in Tokens, HasRecord(Drop(m, T), u)
    PROVE  HasRecord(m, u)
<1> DEFINE a == DropAccess(m, T)
           d == DropRefresh(a, T)
<1>1. a \in Maps /\ (HasRecord(a, u) => HasRecord(m, u))
  BY DropAccessEffect, HelperRecords
<1>2. Drop(m, T) = DropUsed(d, T)
  BY DEF Drop
<1> HIDE DEF a
<1>3. d \in Maps /\ (HasRecord(d, u) => HasRecord(a, u))
  BY <1>1, DropRefreshEffect, HelperRecords
<1> HIDE DEF d
<1> QED BY <1>1, <1>2, <1>3, HelperRecords

\* A save leaves no records but those that were there and those of m.
LEMMA SaveRecords ==
    ASSUME TypeOK, NEW i \in Instances, NEW m \in Maps, NEW grants,
           Saves(i, m, grants) \/ SaveFails(i, m), NEW u \in Tokens
    PROVE  /\ Recorded(u)' => Recorded(u) \/ HasRecord(m, u)
           /\ \A j \in Instances : j # i => mem'[j] = mem[j]
<1>1. CASE Saves(i, m, grants)
  <2>1. HasRecord(Merged(m, grants), u) => HasRecord(disk, u) \/ HasRecord(m, u)
    BY TokenNumbers DEF Merged, Unexpired, Stored, Maps, Deleted, HasRecord, TypeOK
  <2>2. HasRecord(mem'[i], u) => HasRecord(m, u)
    BY <1>1 DEF Saves, HasRecord, Maps, TypeOK
  <2>3. \A j \in Instances : j # i => mem'[j] = mem[j]
    BY <1>1 DEF Saves, TypeOK
  <2> QED BY <1>1, <2>1, <2>2, <2>3 DEF Saves, Recorded
<1>2. CASE SaveFails(i, m)
  <2>1. disk' = disk /\ mem'[i] = m /\ \A j \in Instances : j # i => mem'[j] = mem[j]
    BY <1>2 DEF SaveFails, TypeOK
  <2> QED BY <2>1 DEF Recorded
<1> QED BY <1>1, <1>2

-----------------------------------------------------------------------------
(* Clients, their requests and their records                               *)

RegistryTypes ==
    /\ known \in [Instances -> SUBSET Clients]
    /\ row = [c \in Clients |-> row[c]]
    /\ by = [r \in Requests |-> by[r]]
    /\ client = [g \in Tokens |-> client[g]]

\* A process that does not run knows no client and has no record.
DownIsEmpty ==
    \A i \in Instances :
        at[i] = "down" => known[i] = {} /\ \A t \in Tokens : ~HasRecord(mem[i], t)

\* A request is in the memory of one running instance, which knows its client.
Served ==
    \A r \in Requests : server[r] = {} \/ \E i \in Instances : server[r] = {i} /\ at[i] # "down"
Attended ==
    \A r \in Requests, i \in Instances :
        server[r] = {i} /\ by[r] \in Clients => by[r] \in known[i]

\* Tokens and grants are numbered as they are issued.
Numbered ==
    /\ \A t \in Tokens : Recorded(t) => t <= issued
    /\ \A t \in Tokens : t <= issued => grant[t] \in 1..issued
    /\ swept \subseteq 1..issued

KnownHaveRows == \A i \in Instances : known[i] \subseteq Registered
OwnersHaveRows ==
    \A t \in Tokens : Recorded(t) /\ client[grant[t]] \in Clients => client[grant[t]] \in Registered
NeverSwept == \A g \in swept : client[g] \notin Clients

RegistryInv ==
    /\ RegistryTypes /\ DownIsEmpty /\ Served /\ Attended /\ Numbered
    /\ ~scenario.overlap => OneServer /\ KnownHaveRows /\ OwnersHaveRows /\ NeverSwept

LEMMA RegistryInit == AuthInit => RegistryInv
BY IssueBounds
   DEF AuthInit, Init, RegistryInv, RegistryTypes, DownIsEmpty, Served, Attended, Numbered,
       OneServer, KnownHaveRows, OwnersHaveRows, NeverSwept, Recorded, HasRecord, Empty,
       Nothing, Tokens, IssueBounds

\* A step of the grants adds a record for no token but the one it issues.
LEMMA StepRecords ==
    ASSUME TypeOK, TypeOK', RegistryInv, NEW i \in Instances, GrantStep(i)
    PROVE  /\ \A u \in Tokens : Recorded(u)' =>
                 Recorded(u) \/ (u = issued' /\ issued' = issued + 1)
           /\ \A j \in Instances : j # i => mem'[j] = mem[j] /\ at'[j] = at[j]
           /\ at'[i] = "down" => \A u \in Tokens : ~HasRecord(mem'[i], u)
<1> DEFINE Goal == /\ \A u \in Tokens : Recorded(u)' =>
                         Recorded(u) \/ (u = issued' /\ issued' = issued + 1)
                   /\ \A j \in Instances : j # i => mem'[j] = mem[j] /\ at'[j] = at[j]
                   /\ at'[i] = "down" => \A u \in Tokens : ~HasRecord(mem'[i], u)
<1>m. mem[i] \in Maps
  BY DEF TypeOK
<1>1. CASE UNCHANGED <<disk, mem>> /\ at' = [at EXCEPT ![i] = "idle"]
  BY <1>1 DEF Recorded, TypeOK
<1>2. CASE Boot(i)
  <2>1. CASE UNCHANGED <<disk, mem>>
    BY <1>1, <1>2, <2>1 DEF Boot
  <2>2. CASE /\ disk' = Unexpired(disk)
             /\ mem' = [mem EXCEPT ![i] = [access |-> disk'.access, refresh |-> disk'.refresh,
                                           used |-> disk'.used, gone |-> Nothing]]
    <3>1. \A u \in Tokens : HasRecord(disk', u) => HasRecord(disk, u)
      BY <2>2 DEF HasRecord, Unexpired, Stored, TypeOK
    <3>2. \A u \in Tokens : HasRecord(mem'[i], u) => HasRecord(disk', u)
      BY <2>2 DEF HasRecord, TypeOK
    <3>3. at' = [at EXCEPT ![i] = "idle"] /\ \A j \in Instances : j # i => mem'[j] = mem[j]
      BY <1>2, <2>2 DEF Boot, TypeOK
    <3> QED BY <3>1, <3>2, <3>3 DEF Recorded, TypeOK
  <2> QED BY <1>2, <2>1, <2>2 DEF Boot
<1>3. CASE Stop(i)
  <2>1. \A u \in Tokens : ~HasRecord(mem'[i], u)
    BY <1>3 DEF Stop, HasRecord, Empty, TypeOK
  <2> QED BY <1>3, <2>1 DEF Stop, Recorded, TypeOK
<1>4. CASE Cleanup(i)
  <2>1. Cleaned(i) \in Maps /\ \A u \in Tokens : HasRecord(Cleaned(i), u) => HasRecord(mem[i], u)
    BY CleanedEffect, CleanedRecords
  <2>2. \/ UNCHANGED <<disk, mem>>
        \/ Saves(i, Cleaned(i), grant) \/ SaveFails(i, Cleaned(i))
    BY <1>4 DEF Cleanup, Cleaned
  <2>3. at' = [at EXCEPT ![i] = "cleaned"]
    BY <1>4 DEF Cleanup
  <2>4. CASE UNCHANGED <<disk, mem>>
    BY <2>3, <2>4 DEF Recorded, TypeOK
  <2>5. CASE Saves(i, Cleaned(i), grant) \/ SaveFails(i, Cleaned(i))
    <3>1. \A u \in Tokens : Recorded(u)' => Recorded(u) \/ HasRecord(Cleaned(i), u)
      BY <2>1, <2>5, SaveRecords
    <3>2. \A j \in Instances : j # i => mem'[j] = mem[j]
      BY <2>5 DEF Saves, SaveFails, TypeOK
    <3> QED BY <2>1, <2>3, <3>1, <3>2 DEF Recorded, TypeOK
  <2> QED BY <2>2, <2>4, <2>5
<1>5. ASSUME NEW r \in Requests, ExchangeCode(i, r) PROVE Goal
  <2> DEFINE n == issued'
             m == Issue(mem[i], n)
             w == Withdrawn(m, n)
  <2>1. n \in Tokens /\ n = issued + 1
    BY <1>5, ScenarioTypes, IssueBounds
       DEF ExchangeCode, ScenarioTypes, Scenario, IssueBounds, Tokens, Numbers, TypeOK
  <2>2. m \in Maps /\ \A u \in Tokens : HasRecord(m, u) => HasRecord(mem[i], u) \/ u = n
    BY <1>m, <2>1, IssueEffect, IssueRecords
  <2>3. Saves(i, m, grant') \/ SaveFails(i, w)
    BY <1>5 DEF ExchangeCode, Withdrawn
  <2> HIDE DEF m
  <2>4. w \in Maps /\ \A u \in Tokens : HasRecord(w, u) => HasRecord(m, u)
    BY <2>1, <2>2, WithdrawnEffect, WithdrawnRecords
  <2> HIDE DEF w
  <2>5. \A u \in Tokens : Recorded(u)' => Recorded(u) \/ HasRecord(m, u) \/ HasRecord(w, u)
    BY <2>2, <2>3, <2>4, SaveRecords
  <2>6. \A j \in Instances : j # i => mem'[j] = mem[j]
    BY <2>3 DEF Saves, SaveFails, TypeOK
  <2>7. at' = [at EXCEPT ![i] = "idle"]
    BY <1>5 DEF ExchangeCode, Answers
  <2> QED BY <2>1, <2>2, <2>4, <2>5, <2>6, <2>7 DEF Recorded, TypeOK
<1>6. ASSUME NEW t \in Tokens, Refresh(i, t) PROVE Goal
  <2> DEFINE n == issued'
             m == Rotated(mem[i], t, n)
             w == RotationUndone(m, t, n)
  <2>1. n \in Tokens /\ n = issued + 1 /\ HasRecord(mem[i], t)
    BY <1>6, ScenarioTypes, IssueBounds
       DEF Refresh, HasRecord, ScenarioTypes, Scenario, IssueBounds, Tokens, Numbers, TypeOK
  <2>2. m \in Maps /\ Within(m, mem[i], t, n)
    BY <1>m, <2>1, RotatedEffect, RotatedRecords
  <2>3. Saves(i, m, grant') \/ SaveFails(i, w)
    BY <1>6 DEF Refresh
  <2> HIDE DEF m
  <2>4. w \in Maps /\ Within(w, m, t, n)
    BY <2>1, <2>2, RotationUndoneEffect, UndoneRecords
  <2> HIDE DEF w
  <2>5. \A u \in Tokens : Recorded(u)' => Recorded(u) \/ HasRecord(m, u) \/ HasRecord(w, u)
    BY <2>2, <2>3, <2>4, SaveRecords
  <2>6. \A j \in Instances : j # i => mem'[j] = mem[j]
    BY <2>3 DEF Saves, SaveFails, TypeOK
  <2>7. at' = [at EXCEPT ![i] = "idle"]
    BY <1>6 DEF Refresh, Answers
  <2> QED BY <2>1, <2>2, <2>4, <2>5, <2>6, <2>7 DEF Recorded, Within, TypeOK
<1>7. ASSUME NEW t \in Tokens, Reuse(i, t) PROVE Goal
  <2> DEFINE m == DropRefresh(mem[i], mem[i].refresh \cap OfGrant(grant[t]))
  <2>1. m \in Maps /\ \A u \in Tokens : HasRecord(m, u) => HasRecord(mem[i], u)
    BY <1>m, DropRefreshEffect, HelperRecords
  <2>2. UNCHANGED <<disk, mem>> \/ Saves(i, m, grant) \/ SaveFails(i, mem[i])
    BY <1>7 DEF Reuse
  <2>3. at' = [at EXCEPT ![i] = "idle"]
    BY <1>7 DEF Reuse, Answers
  <2> HIDE DEF m
  <2>4. CASE Saves(i, m, grant) \/ SaveFails(i, mem[i])
    <3>1. \A u \in Tokens : Recorded(u)' => Recorded(u) \/ HasRecord(m, u) \/ HasRecord(mem[i], u)
      BY <1>m, <2>1, <2>4, SaveRecords
    <3>2. \A j \in Instances : j # i => mem'[j] = mem[j]
      BY <2>4 DEF Saves, SaveFails, TypeOK
    <3> QED BY <2>1, <2>3, <3>1, <3>2 DEF Recorded, TypeOK
  <2> QED BY <1>1, <2>2, <2>3, <2>4
<1>8. ASSUME NEW t \in Tokens, Revoke(i, t) PROVE Goal
  <2> DEFINE m == Drop(mem[i], OfGrant(grant[t]))
  <2>1. m \in Maps /\ \A u \in Tokens : HasRecord(m, u) => HasRecord(mem[i], u)
    BY <1>m, DropEffect, GrantTokens, DropRecords
  <2>2. Saves(i, m, grant) \/ SaveFails(i, mem[i])
    BY <1>8 DEF Revoke
  <2>3. at' = at /\ at[i] = "idle"
    BY <1>8 DEF Revoke
  <2> HIDE DEF m
  <2>4. \A u \in Tokens : Recorded(u)' => Recorded(u) \/ HasRecord(m, u) \/ HasRecord(mem[i], u)
    BY <1>m, <2>1, <2>2, SaveRecords
  <2>5. \A j \in Instances : j # i => mem'[j] = mem[j]
    BY <2>2 DEF Saves, SaveFails, TypeOK
  <2> QED BY <2>1, <2>3, <2>4, <2>5 DEF Recorded, TypeOK
<1>9. ASSUME NEW r \in Requests, Authorize(i, r) \/ CompleteLogin(i, r) PROVE Goal
  BY <1>1, <1>9 DEF Authorize, CompleteLogin, Answers
<1>10. ASSUME NEW t \in Tokens, Replay(i, t) PROVE Goal
  BY <1>1, <1>10 DEF Replay, Answers
<1>11. CASE Decline(i)
  BY <1>1, <1>11 DEF Decline, Answers
<1> HIDE DEF Goal
<1>12. Goal
  BY <1>2, <1>3, <1>4, <1>5, <1>6, <1>7, <1>8, <1>9, <1>10, <1>11 DEF GrantStep, Goal
<1> QED BY <1>12 DEF Goal

\* What a step of the grants does to the numbers, the grants and their clients.
LEMMA StepNumbers ==
    ASSUME TypeOK, TypeOK', RegistryInv, NEW i \in Instances, GrantStep(i)
    PROVE  /\ issued' \in {issued, issued + 1}
           /\ \A t \in Tokens : t <= issued => grant'[t] = grant[t] /\ client'[t] = client[t]
           /\ client' = [g \in Tokens |-> client'[g]]
           /\ issued' # issued =>
                 \/ /\ grant'[issued'] = issued'
                    /\ client'[issued'] \in Clients => client'[issued'] \in known[i]
                 \/ \E t \in Tokens : Recorded(t) /\ grant'[issued'] = grant[t] /\ client' = client
<1>n. issued \in Nat /\ \A t \in Tokens : t \in Nat
  BY DEF TypeOK, Numbers, Tokens
<1>1. CASE UNCHANGED <<issues, client>>
  BY <1>1 DEF issues, RegistryInv, RegistryTypes
<1>2. ASSUME NEW r \in Requests, ExchangeCode(i, r), client' = [client EXCEPT ![issued'] = by[r]]
      PROVE  /\ issued' = issued + 1
             /\ \A t \in Tokens : t <= issued => grant'[t] = grant[t] /\ client'[t] = client[t]
             /\ client' = [g \in Tokens |-> client'[g]]
             /\ grant'[issued'] = issued'
             /\ client'[issued'] \in Clients => client'[issued'] \in known[i]
  <2>1. issued' = issued + 1 /\ issued' \in Tokens /\ server[r] = {i}
    BY <1>2, ScenarioTypes, IssueBounds
       DEF ExchangeCode, ScenarioTypes, Scenario, IssueBounds, Tokens, Numbers, TypeOK
  <2>2. grant' = [grant EXCEPT ![issued'] = issued']
    BY <1>2 DEF ExchangeCode
  <2>3. client'[issued'] = by[r] /\ client' = [g \in Tokens |-> client'[g]]
    BY <1>2, <2>1 DEF RegistryInv, RegistryTypes
  <2>4. by[r] \in Clients => by[r] \in known[i]
    BY <2>1 DEF RegistryInv, Attended
  <2>5. \A t \in Tokens : t <= issued => t # issued'
    BY <2>1, <1>n
  <2>6. \A t \in Tokens : t # issued' => client'[t] = client[t] /\ grant'[t] = grant[t]
    BY <1>2, <2>2 DEF RegistryInv, RegistryTypes, TypeOK
  <2>7. grant'[issued'] = issued'
    BY <2>1, <2>2 DEF TypeOK
  <2> QED BY <2>1, <2>3, <2>4, <2>5, <2>6, <2>7
<1>3. ASSUME NEW t \in Tokens, Refresh(i, t), UNCHANGED client
      PROVE  /\ issued' = issued + 1
             /\ \A u \in Tokens : u <= issued => grant'[u] = grant[u] /\ client'[u] = client[u]
             /\ client' = [g \in Tokens |-> client'[g]]
             /\ Recorded(t) /\ grant'[issued'] = grant[t]
  <2>1. issued' = issued + 1 /\ issued' \in Tokens /\ HasRecord(mem[i], t)
    BY <1>3, ScenarioTypes, IssueBounds
       DEF Refresh, HasRecord, ScenarioTypes, Scenario, IssueBounds, Tokens, Numbers, TypeOK
  <2>2. grant' = [grant EXCEPT ![issued'] = grant[t]]
    BY <1>3 DEF Refresh
  <2>3. \A u \in Tokens : u <= issued => u # issued'
    BY <2>1, <1>n
  <2> QED BY <1>3, <2>1, <2>2, <2>3 DEF Recorded, RegistryInv, RegistryTypes, TypeOK
<1>4. \/ UNCHANGED <<issues, client>>
      \/ \E r \in Requests : ExchangeCode(i, r) /\ client' = [client EXCEPT ![issued'] = by[r]]
      \/ \E t \in Tokens : Refresh(i, t) /\ UNCHANGED client
  BY DEF GrantStep, Boot, Stop, Authorize, CompleteLogin, Cleanup, Decline, Replay, Reuse,
         Revoke
<1> QED BY <1>1, <1>2, <1>3, <1>4

LEMMA StepOwners ==
    ASSUME TypeOK, TypeOK', RegistryInv, NEW i \in Instances, GrantStep(i),
           UNCHANGED <<scenario, row, swept>>
    PROVE  /\ Numbered'
           /\ ~scenario.overlap => OwnersHaveRows' /\ NeverSwept'
<1>1. issued \in Nat /\ issued' \in Nat /\ \A t \in Tokens : t \in Nat
  BY DEF TypeOK, Numbers, Tokens
<1>2. /\ \A u \in Tokens : Recorded(u)' => Recorded(u) \/ (u = issued' /\ issued' # issued)
      /\ \A u \in Tokens : Recorded(u) => u <= issued
      /\ \A u \in Tokens : u <= issued => grant[u] \in 1..issued
  BY <1>1, StepRecords DEF RegistryInv, Numbered
<1>3. /\ issued' \in {issued, issued + 1}
      /\ \A t \in Tokens : t <= issued => grant'[t] = grant[t] /\ client'[t] = client[t]
      /\ issued' # issued =>
            \/ /\ grant'[issued'] = issued'
               /\ client'[issued'] \in Clients => client'[issued'] \in known[i]
            \/ \E t \in Tokens : Recorded(t) /\ grant'[issued'] = grant[t] /\ client' = client
  BY StepNumbers
<1>4. issued <= MaxIssues /\ 1..issued \subseteq Tokens
  BY <1>1, IssueBounds DEF IssueBounds, TypeOK, Numbers, Tokens
<1>5. Numbered'
  <2>1. 1..issued \subseteq 1..issued'
    BY <1>1, <1>3
  <2>2. \A t \in Tokens : Recorded(t)' => t <= issued'
    BY <1>1, <1>2, <1>3
  <2>3. ASSUME NEW t \in Tokens, t <= issued' PROVE grant'[t] \in 1..issued'
    <3>1. CASE t <= issued
      BY <1>2, <1>3, <2>1, <3>1
    <3>2. CASE t = issued' /\ issued' # issued
      <4>1. \A u \in Tokens : Recorded(u) => grant[u] \in 1..issued
        BY <1>2
      <4>2. issued' \in 1..issued'
        BY <1>1, <2>3, <3>2 DEF Tokens
      <4> QED BY <1>3, <2>1, <3>2, <4>1, <4>2
    <3> QED BY <1>1, <1>3, <2>3, <3>1, <3>2
  <2>4. swept' \subseteq 1..issued'
    BY <2>1 DEF RegistryInv, Numbered
  <2> QED BY <2>2, <2>3, <2>4 DEF Numbered
<1>6. Registered' = Registered
  BY DEF Registered
<1>7. ASSUME ~scenario.overlap PROVE OwnersHaveRows'
  <2>1. /\ known[i] \subseteq Registered
        /\ \A t \in Tokens : Recorded(t) /\ client[grant[t]] \in Clients =>
                                client[grant[t]] \in Registered
    BY <1>7 DEF RegistryInv, KnownHaveRows, OwnersHaveRows
  <2>2. \A t \in Tokens : Recorded(t) => /\ grant'[t] = grant[t]
                                         /\ client'[grant[t]] = client[grant[t]]
    <3>1. \A t \in Tokens : Recorded(t) => /\ t <= issued /\ grant[t] \in Tokens
                                           /\ grant[t] <= issued
      BY <1>1, <1>2, <1>4
    <3> QED BY <1>3, <3>1
  <2>3. ASSUME NEW u \in Tokens, Recorded(u)', client'[grant'[u]] \in Clients
        PROVE  client'[grant'[u]] \in Registered
    <3>1. CASE Recorded(u)
      BY <2>1, <2>2, <2>3, <3>1
    <3>2. CASE u = issued' /\ issued' # issued
      BY <1>3, <2>1, <2>2, <2>3, <3>2
    <3> QED BY <1>2, <2>3, <3>1, <3>2
  <2> QED BY <1>6, <2>3 DEF OwnersHaveRows
<1>8. ASSUME ~scenario.overlap PROVE NeverSwept'
  <2>1. \A g \in swept : g \in Tokens /\ g <= issued /\ client[g] \notin Clients
    BY <1>1, <1>4, <1>8 DEF RegistryInv, Numbered, NeverSwept
  <2> QED BY <1>3, <2>1 DEF NeverSwept
<1> QED BY <1>5, <1>7, <1>8

LEMMA StepServers ==
    ASSUME TypeOK, TypeOK', RegistryInv, NEW i \in Instances, GrantStep(i),
           UNCHANGED <<scenario, row>>
    PROVE  /\ DownIsEmpty' /\ Served' /\ Attended'
           /\ known' \in [Instances -> SUBSET Clients]
           /\ by' = [r \in Requests |-> by'[r]]
           /\ ~scenario.overlap => OneServer' /\ KnownHaveRows'
<1> USE DEF RegistryTypes
<1>1. /\ \A j \in Instances : j # i => mem'[j] = mem[j] /\ at'[j] = at[j]
      /\ at'[i] = "down" => \A u \in Tokens : ~HasRecord(mem'[i], u)
  BY StepRecords
<1>2. Registered' = Registered /\ Registered \subseteq Clients
  BY DEF Registered
<1>3. /\ known' \in [Instances -> SUBSET Clients]
      /\ \A j \in Instances : j # i => known'[j] = known[j]
      /\ known'[i] \subseteq known[i] \cup Registered
      /\ at'[i] = "down" => known'[i] = {}
      /\ at[i] # "down" /\ at'[i] # "down" => known'[i] = known[i]
      /\ at[i] = "down" \/ at'[i] = "down" \/ known' = known
      /\ at[i] = "down" => Boot(i)
      /\ at'[i] = "down" => Stop(i)
  <2>1. CASE Boot(i)
    <3>1. at[i] = "down" /\ at'[i] = "idle"
      BY <2>1 DEF Boot, TypeOK
    <3>2. \/ known' = known
          \/ known' = [known EXCEPT ![i] = Registered]
          \/ known' = [known EXCEPT ![i] = {}]
      BY DEF GrantStep
    <3> QED BY <1>2, <2>1, <3>1, <3>2 DEF RegistryInv
  <2>2. CASE Stop(i)
    <3>1. at[i] # "down" /\ at'[i] = "down"
      BY <2>2 DEF Stop, TypeOK
    <3>2. ~(Boot(i) \/ Cleanup(i) \/ Decline(i))
      BY <3>1 DEF Boot, Cleanup, Decline, Answers, TypeOK
    <3>3. \A q \in Requests :
             ~(Authorize(i, q) \/ CompleteLogin(i, q) \/ ExchangeCode(i, q))
      BY <3>1 DEF Authorize, CompleteLogin, ExchangeCode, Answers, TypeOK
    <3>4. \A t \in Tokens : ~(Refresh(i, t) \/ Replay(i, t) \/ Reuse(i, t) \/ Revoke(i, t))
      BY <3>1 DEF Refresh, Replay, Reuse, Revoke, Answers, TypeOK
    <3>5. known' = [known EXCEPT ![i] = {}]
      BY <3>2, <3>3, <3>4 DEF GrantStep
    <3> QED BY <2>2, <3>1, <3>5 DEF RegistryInv
  <2>3. CASE ~Boot(i) /\ ~Stop(i)
    <3>1. UNCHANGED known
      BY <2>3 DEF GrantStep
    <3>2. at[i] \in {"idle", "cleaned"} /\ at'[i] \in {"idle", "cleaned"}
      BY <2>3 DEF GrantStep, Cleanup, Decline, Authorize, CompleteLogin, ExchangeCode,
         Refresh, Replay, Reuse, Revoke, Answers, TypeOK
    <3> QED BY <3>1, <3>2 DEF RegistryInv
  <2> QED BY <2>1, <2>2, <2>3
<1>4. DownIsEmpty'
  BY <1>1, <1>3 DEF DownIsEmpty, RegistryInv
<1>5. \A r \in Requests :
         \/ server'[r] = {}
         \/ server'[r] = server[r] /\ by'[r] = by[r] /\ (Stop(i) => server[r] # {i})
         \/ /\ server'[r] = {i} /\ at[i] # "down" /\ ~Stop(i)
            /\ by'[r] \in Clients => by'[r] \in known[i]
  <2>1. \A c : c \in Registry.documents => c \notin Clients
    BY RegistryAssumption DEF RegistryAssumption, Registry, TypeOK
  <2>2. ASSUME NEW q \in Requests, Authorize(i, q), NEW c \in known[i] \cup Registry.documents,
               by' = [by EXCEPT ![q] = c], NEW r \in Requests
        PROVE  \/ server'[r] = server[r] /\ by'[r] = by[r]
               \/ server'[r] = {i} /\ (by'[r] \in Clients => by'[r] \in known[i])
    BY <2>1, <2>2 DEF Authorize, RegistryInv, TypeOK
  <2>3. ASSUME NEW q \in Requests, Authorize(i, q) PROVE at[i] # "down" /\ at'[i] # "down"
    BY <2>3 DEF Authorize, Answers, TypeOK
  <2>4. CASE Stop(i) /\ Forgotten
    <3>1. /\ \A r \in Requests : server'[r] = server[r] \ {i}
          /\ \A r \in Requests : server'[r] # {} => by'[r] = by[r]
      BY <2>4 DEF Stop, Forgotten
    <3>2. \A r \in Requests : server[r] = {} \/ \E j \in Instances : server[r] = {j}
      BY DEF RegistryInv, Served
    <3> QED BY <3>1, <3>2
  <2>5. ASSUME Forgotten, \A r \in Requests : server'[r] \in {{}, server[r]}, ~Stop(i),
               NEW r \in Requests
        PROVE  server'[r] = {} \/ (server'[r] = server[r] /\ by'[r] = by[r])
    BY <2>5 DEF Forgotten
  <2>6. ASSUME Cleanup(i) \/ Decline(i) \/ \E q \in Requests : ExchangeCode(i, q)
        PROVE  (\A r \in Requests : server'[r] \in {{}, server[r]}) /\ ~Stop(i)
    BY <2>6 DEF Cleanup, Decline, ExchangeCode, Stop, Answers, requests, TypeOK
  <2>7. ASSUME UNCHANGED by, \/ Boot(i)
                             \/ \E q \in Requests : CompleteLogin(i, q)
                             \/ \E t \in Tokens : Refresh(i, t) \/ Replay(i, t) \/ Reuse(i, t)
                                                  \/ Revoke(i, t)
        PROVE  server' = server /\ by' = by /\ ~Stop(i)
    BY <2>7 DEF Boot, CompleteLogin, Refresh, Replay, Reuse, Revoke, Stop, Answers, requests,
       TypeOK
  <2> DEFINE Goal == \A r \in Requests :
         \/ server'[r] = {}
         \/ server'[r] = server[r] /\ by'[r] = by[r] /\ (Stop(i) => server[r] # {i})
         \/ /\ server'[r] = {i} /\ at[i] # "down" /\ ~Stop(i)
            /\ by'[r] \in Clients => by'[r] \in known[i]
  <2>8. ASSUME NEW q \in Requests, Authorize(i, q), NEW c \in known[i] \cup Registry.documents,
               by' = [by EXCEPT ![q] = c]
        PROVE  Goal
    <3>1. ~Stop(i)
      BY <2>3, <2>8 DEF Stop, TypeOK
    <3> QED BY <2>2, <2>3, <2>8, <3>1
  <2>9. ASSUME Forgotten, Cleanup(i) \/ Decline(i) \/ \E q \in Requests : ExchangeCode(i, q)
        PROVE  Goal
    BY <2>5, <2>6, <2>9
  <2>10. ASSUME Stop(i) /\ Forgotten PROVE Goal
    BY <2>4, <2>10
  <2>11. ASSUME UNCHANGED by, \/ Boot(i)
                              \/ \E q \in Requests : CompleteLogin(i, q)
                              \/ \E t \in Tokens : Refresh(i, t) \/ Replay(i, t) \/ Reuse(i, t)
                                                   \/ Revoke(i, t)
         PROVE  Goal
    BY <2>7, <2>11
  <2> HIDE DEF Goal
  <2>12. Goal
    <3>1. \/ Stop(i) /\ Forgotten
          \/ \E q \in Requests : /\ Authorize(i, q)
                                 /\ \E c \in known[i] \cup Registry.documents :
                                       by' = [by EXCEPT ![q] = c]
          \/ Forgotten /\ (Cleanup(i) \/ Decline(i) \/ \E q \in Requests : ExchangeCode(i, q))
          \/ /\ UNCHANGED by
             /\ \/ Boot(i)
                \/ \E q \in Requests : CompleteLogin(i, q)
                \/ \E t \in Tokens : Refresh(i, t) \/ Replay(i, t) \/ Reuse(i, t) \/ Revoke(i, t)
      BY DEF GrantStep
    <3>2. CASE \E q \in Requests : /\ Authorize(i, q)
                                   /\ \E c \in known[i] \cup Registry.documents :
                                         by' = [by EXCEPT ![q] = c]
      BY <2>8, <3>2
    <3>3. CASE Forgotten /\ (Cleanup(i) \/ Decline(i) \/ \E q \in Requests : ExchangeCode(i, q))
      BY <2>9, <3>3
    <3>4. CASE /\ UNCHANGED by
               /\ \/ Boot(i)
                  \/ \E q \in Requests : CompleteLogin(i, q)
                  \/ \E t \in Tokens : Refresh(i, t) \/ Replay(i, t) \/ Reuse(i, t) \/ Revoke(i, t)
      BY <2>11, <3>4
    <3> QED BY <2>10, <3>1, <3>2, <3>3, <3>4
  <2> QED BY <2>12 DEF Goal
<1>6. ASSUME NEW r \in Requests, NEW j \in Instances, server[r] = {j} PROVE at[j] # "down"
  BY <1>6 DEF RegistryInv, Served
<1>7. Served'
  <2> SUFFICES ASSUME NEW r \in Requests, server'[r] # {}
               PROVE  \E j \in Instances : server'[r] = {j} /\ at'[j] # "down"
    BY DEF Served
  <2>1. CASE server'[r] = server[r] /\ (Stop(i) => server[r] # {i})
    <3>1. PICK j \in Instances : server[r] = {j} /\ at[j] # "down"
      BY <2>1 DEF RegistryInv, Served
    <3> QED BY <1>1, <1>3, <2>1, <3>1
  <2>2. CASE server'[r] = {i} /\ at[i] # "down" /\ ~Stop(i)
    BY <1>3, <2>2
  <2> QED BY <1>5, <2>1, <2>2
<1>8. Attended'
  <2> SUFFICES ASSUME NEW r \in Requests, NEW j \in Instances, server'[r] = {j},
                      by'[r] \in Clients
               PROVE  by'[r] \in known'[j]
    BY DEF Attended
  <2>1. CASE server'[r] = server[r] /\ by'[r] = by[r] /\ (Stop(i) => server[r] # {i})
    <3>1. at[j] # "down" /\ by[r] \in known[j]
      BY <1>6, <2>1 DEF RegistryInv, Attended
    <3>2. known'[j] = known[j]
      BY <1>3, <2>1, <3>1
    <3> QED BY <2>1, <3>1, <3>2
  <2>2. CASE /\ server'[r] = {i} /\ at[i] # "down" /\ ~Stop(i)
             /\ by'[r] \in Clients => by'[r] \in known[i]
    BY <1>3, <2>2
  <2> QED BY <1>5, <2>1, <2>2
<1>9. by' = [r \in Requests |-> by'[r]]
  BY DEF GrantStep, Forgotten, RegistryInv
<1>10. ASSUME ~scenario.overlap PROVE OneServer' /\ KnownHaveRows'
  <2>1. at[i] = "down" => \A o \in Instances : at[o] = "down"
    BY <1>3, <1>10 DEF Boot
  <2>2. OneServer'
    BY <1>1, <1>10, <2>1 DEF OneServer, RegistryInv
  <2>3. KnownHaveRows'
    BY <1>2, <1>3, <1>10 DEF KnownHaveRows, RegistryInv
  <2> QED BY <2>2, <2>3
<1> QED BY <1>3, <1>4, <1>7, <1>8, <1>9, <1>10

LEMMA GrantStepKeeps ==
    ASSUME TypeOK, TypeOK', RegistryInv, NEW i \in Instances, GrantStep(i),
           UNCHANGED <<scenario, row, old, dayOver, swept>>
    PROVE  RegistryInv'
<1>1. client' = [g \in Tokens |-> client'[g]]
  BY StepNumbers
<1>2. row' = [c \in Clients |-> row'[c]]
  BY DEF RegistryInv, RegistryTypes
<1> QED BY <1>1, <1>2, StepOwners, StepServers DEF RegistryInv, RegistryTypes

\* A registration drops no client that is in use here.
LEMMA RegisterKeeps ==
    ASSUME TypeOK, TypeOK', RegistryInv, NEW i \in Instances, NEW c \in Clients,
           Register(i, c), UNCHANGED scenario
    PROVE  RegistryInv'
<1> DEFINE kept == known[i] \ (old \ InUse(i))
<1>1. /\ UNCHANGED <<disk, mem, at, server, issued, grant, by, client, swept>>
      /\ at[i] = "idle"
      /\ \/ /\ known' = [known EXCEPT ![i] = kept \cup {c}]
            /\ row' = [k \in Clients |-> IF k \in known'[i] THEN "fresh" ELSE row[k]]
         \/ UNCHANGED <<known, row>>
  BY DEF Register, requests, issues
<1>2. /\ kept \subseteq Clients /\ kept \subseteq known[i]
      /\ \A r \in Requests : server[r] = {i} /\ by[r] \in known[i] => by[r] \in kept
  BY DEF InUse, RegistryInv, RegistryTypes
<1> HIDE DEF kept
<1>3. RegistryTypes'
  BY <1>1, <1>2 DEF RegistryInv, RegistryTypes
<1>4. Registered \subseteq Registered' /\ known'[i] \subseteq Registered' \cup known[i]
  BY <1>1, <1>2, <1>3 DEF Registered, RegistryInv, RegistryTypes
<1>5. /\ \A j \in Instances : j # i => known'[j] = known[j]
      /\ \A r \in Requests : server[r] = {i} /\ by[r] \in known[i] => by[r] \in known'[i]
  BY <1>1, <1>2 DEF RegistryInv, RegistryTypes
<1>6. DownIsEmpty' /\ Served' /\ Numbered'
  BY <1>1, <1>5 DEF DownIsEmpty, Served, Numbered, Recorded, RegistryInv
<1>7. Attended'
  BY <1>1, <1>5 DEF Attended, RegistryInv
<1>8. ASSUME ~scenario.overlap
      PROVE  OneServer' /\ KnownHaveRows' /\ OwnersHaveRows' /\ NeverSwept'
  BY <1>1, <1>4, <1>5, <1>8
     DEF OneServer, KnownHaveRows, OwnersHaveRows, NeverSwept, Recorded, RegistryInv
<1> QED BY <1>3, <1>6, <1>7, <1>8 DEF RegistryInv

\* With one server at a time the orphans of a prune belong to no client that
\* registered, and the rows it deletes belong to clients without a record.
LEMMA PruneKeeps ==
    ASSUME TypeOK, TypeOK', RegistryInv, NEW i \in Instances, StartupPrune(i),
           UNCHANGED scenario
    PROVE  RegistryInv'
<1> DEFINE orphans == {t \in Tokens : HasRecord(disk, t) /\ client[grant[t]] \notin Registered}
           grants == {grant[t] : t \in orphans}
<1>1. /\ disk' = [access |-> disk.access \ orphans, refresh |-> disk.refresh \ orphans,
                  used |-> [t \in Tokens |-> IF t \in orphans THEN 0 ELSE disk.used[t]]]
      /\ swept' = swept \cup grants
      /\ row' = [c \in Clients |-> IF row[c] = "due" /\ c \notin Owners(disk')
                                   THEN "gone" ELSE row[c]]
      /\ UNCHANGED <<mem, at, server, issued, grant, known, by, client>>
      /\ scenario.overlap \/ \A o \in Instances : at[o] = "down"
  BY DEF StartupPrune, requests, issues
<1>2. \A g \in grants : \E t \in Tokens : g = grant[t] /\ Recorded(t)
                                          /\ client[grant[t]] \notin Registered
  BY DEF Recorded
<1> HIDE DEF orphans, grants
<1>3. \A t \in Tokens : HasRecord(disk', t) => HasRecord(disk, t)
  BY <1>1 DEF HasRecord
<1>4. \A t \in Tokens : Recorded(t)' => Recorded(t)
  BY <1>1, <1>3 DEF Recorded
<1>5. RegistryTypes'
  BY <1>1 DEF RegistryInv, RegistryTypes
<1>6. DownIsEmpty' /\ Served' /\ Attended'
  BY <1>1 DEF DownIsEmpty, Served, Attended, RegistryInv
<1>7. Numbered'
  BY <1>1, <1>2, <1>4 DEF Numbered, RegistryInv
<1>8. ASSUME ~scenario.overlap
      PROVE  OneServer' /\ KnownHaveRows' /\ OwnersHaveRows' /\ NeverSwept'
  <2>1. \A o \in Instances : known[o] = {} /\ \A t \in Tokens : ~HasRecord(mem[o], t)
    BY <1>1, <1>8 DEF RegistryInv, DownIsEmpty
  <2>2. \A c \in Registered : c \in Owners(disk') => c \in Registered'
    BY <1>1 DEF Registered
  <2>3. ASSUME NEW t \in Tokens, Recorded(t)', client[grant[t]] \in Clients
        PROVE  client[grant[t]] \in Registered'
    <3>1. HasRecord(disk', t) /\ Recorded(t)
      BY <1>1, <1>4, <2>1, <2>3 DEF Recorded
    <3>2. client[grant[t]] \in Registered
      BY <1>8, <2>3, <3>1 DEF RegistryInv, OwnersHaveRows
    <3>3. client[grant[t]] \in Owners(disk')
      BY <1>1, <3>1 DEF Owners
    <3> QED BY <2>2, <3>2, <3>3
  <2>4. \A g \in grants : client[g] \notin Clients
    BY <1>2, <1>8 DEF RegistryInv, OwnersHaveRows
  <2> QED BY <1>1, <1>8, <2>1, <2>3, <2>4
          DEF OneServer, KnownHaveRows, OwnersHaveRows, NeverSwept, RegistryInv
<1> QED BY <1>5, <1>6, <1>7, <1>8 DEF RegistryInv

LEMMA RegistryStep ==
    TypeOK /\ TypeOK' /\ RegistryInv /\ [AuthNext]_<<vars, registry>> => RegistryInv'
<1> SUFFICES ASSUME TypeOK, TypeOK', RegistryInv, [AuthNext]_<<vars, registry>>
             PROVE  RegistryInv'
  OBVIOUS
<1>1. CASE /\ UNCHANGED <<scenario, disk, mem, at, server, issued, grant>>
           /\ UNCHANGED <<known, by, client, swept>>
           /\ row' = [c \in Clients |-> row'[c]]
           /\ Registered' = Registered
  BY <1>1 DEF RegistryInv, RegistryTypes, DownIsEmpty, Served, Attended, Numbered, OneServer,
              KnownHaveRows, OwnersHaveRows, NeverSwept, Recorded
<1>2. ASSUME UNCHANGED scenario, NEW i \in Instances, NEW c \in Clients, Register(i, c)
      PROVE  RegistryInv'
  BY <1>2, RegisterKeeps
<1>3. ASSUME UNCHANGED scenario, NEW i \in Instances, StartupPrune(i) PROVE RegistryInv'
  BY <1>3, PruneKeeps
<1>4. ASSUME NEW i \in Instances, GrantStep(i), UNCHANGED <<scenario, row, old, dayOver, swept>>
      PROVE  RegistryInv'
  BY <1>4, GrantStepKeeps
<1>5. CASE UNCHANGED <<vars, registry>>
  BY <1>1, <1>5 DEF vars, registry, requests, issues, Registered, RegistryInv, RegistryTypes
<1>6. CASE UNCHANGED scenario /\ Expire /\ UNCHANGED registry
  BY <1>1, <1>6 DEF Expire, registry, requests, issues, Registered, RegistryInv, RegistryTypes
<1>7. CASE UNCHANGED scenario /\ DayPasses
  BY <1>1, <1>7 DEF DayPasses, requests, issues, Registered, RegistryInv, RegistryTypes
<1>8. ASSUME UNCHANGED scenario, NEW c \in Clients, Age(c) PROVE RegistryInv'
  <2>1. row' = row \/ (row[c] = "fresh" /\ row' = [row EXCEPT ![c] = "due"])
    BY <1>8 DEF Age
  <2>2. row' = [k \in Clients |-> row'[k]] /\ Registered' = Registered
    BY <2>1 DEF Registered, RegistryInv, RegistryTypes
  <2> QED BY <1>1, <1>8, <2>2 DEF Age, requests, issues
<1> QED BY <1>2, <1>3, <1>4, <1>5, <1>6, <1>7, <1>8 DEF AuthNext

\* A registered client is known while an authorization of it is under way and, with
\* one server at a time, has a row for as long as it has a token, so that no prune at
\* start takes its tokens.
THEOREM ClientsSurvive == AuthSpec => []ClientsOutliveTokens
<1>1. TypeOK /\ RegistryInv => ClientsOutliveTokens
  <2> SUFFICES ASSUME TypeOK, RegistryInv PROVE ClientsOutliveTokens
    OBVIOUS
  <2>1. \A r \in Requests, i \in Instances :
           server[r] = {i} /\ by[r] \in Clients => by[r] \in known[i]
    BY DEF RegistryInv, Attended
  <2>2. ASSUME ~scenario.overlap
        PROVE  /\ Owners(disk) \cap Clients \subseteq Registered
               /\ \A g \in swept : client[g] \notin Clients
    BY <2>2 DEF RegistryInv, OwnersHaveRows, NeverSwept, Owners, Recorded
  <2> QED BY <2>1, <2>2 DEF ClientsOutliveTokens
<1> QED BY <1>1, RegistryInit, AuthTypesHold, RegistryStep, PTL DEF AuthSpec
=============================================================================
