------------------------- MODULE TokenGrantsProofs -------------------------
(***************************************************************************)
(* Proofs about TokenGrants, for any number of instances, requests and     *)
(* issues, with every failure the module knows.                            *)
(*                                                                         *)
(* TypeCorrect: the type invariant.                                        *)
(*                                                                         *)
(* HandedTokensSurvive: a token a client was answered with stays stored.   *)
(* The invariant speaks of every token that may still be handed, as the    *)
(* stored answer of a rotation, and of what the instances remember as      *)
(* deleted, which the next save takes out of the store.                    *)
(*                                                                         *)
(* GrantsKeepRefresh: a grant that goes on has one refresh token in the    *)
(* store.  The invariant orders the tokens of a grant by their exchanges:  *)
(* the stored one is no older than any that a client may hold, whatever    *)
(* the other instances still believe, so the merge keeps it.               *)
(*                                                                         *)
(* EndedGrantsStayEnded, ClientsCanGoOn, MapsMatchStore: with one server   *)
(* at a time.  Of each token that has not expired it knows what is stored, *)
(* or nothing at all of its grant, where it could not load the store.      *)
(***************************************************************************)
EXTENDS TokenGrants, WellFoundedInduction, TLAPS

-----------------------------------------------------------------------------
(* What the helpers do to the records of an instance                       *)

LEMMA TokenNumbers == Tokens \subseteq Numbers /\ 0 \in Numbers /\ Numbers = 0..MaxIssues
BY IssueBounds DEF IssueBounds, Tokens, Numbers

LEMMA NothingIsDeleted == Nothing \in Deleted /\ Empty \in Maps
BY TokenNumbers DEF Nothing, Empty, Deleted, Maps

\* setAccessTokenRecord.
LEMMA PutAccessEffect ==
    ASSUME NEW m \in Maps, NEW t \in Tokens
    PROVE  /\ PutAccess(m, t) \in Maps
           /\ PutAccess(m, t).access = m.access \cup {t}
           /\ PutAccess(m, t).gone.access = m.gone.access \ {t}
           /\ PutAccess(m, t).used = m.used
BY DEF PutAccess, Maps, Deleted

\* setRefreshTokenRecord.
LEMMA PutRefreshEffect ==
    ASSUME NEW m \in Maps, NEW t \in Tokens
    PROVE  /\ PutRefresh(m, t) \in Maps
           /\ PutRefresh(m, t).access = m.access
           /\ PutRefresh(m, t).gone.access = m.gone.access
           /\ PutRefresh(m, t).used = m.used
BY DEF PutRefresh, Maps, Deleted

\* setUsedRefreshTokenRecord.
LEMMA PutUsedEffect ==
    ASSUME NEW m \in Maps, NEW t \in Tokens, NEW n \in Tokens
    PROVE  /\ PutUsed(m, t, n) \in Maps
           /\ PutUsed(m, t, n).access = m.access
           /\ PutUsed(m, t, n).gone.access = m.gone.access
           /\ \A u \in Tokens : PutUsed(m, t, n).used[u] \in {m.used[u], n}
           /\ \A u \in Tokens : u # t => PutUsed(m, t, n).used[u] = m.used[u]
BY TokenNumbers DEF PutUsed, Maps, Deleted

\* deleteAccessTokenRecord.
LEMMA DropAccessEffect ==
    ASSUME NEW m \in Maps, NEW T
    PROVE  /\ DropAccess(m, T) \in Maps
           /\ DropAccess(m, T).access = m.access \ T
           /\ DropAccess(m, T).gone.access = m.gone.access \cup (T \cap m.access)
           /\ DropAccess(m, T).used = m.used
BY DEF DropAccess, Maps, Deleted

\* deleteRefreshTokenRecord.
LEMMA DropRefreshEffect ==
    ASSUME NEW m \in Maps, NEW T
    PROVE  /\ DropRefresh(m, T) \in Maps
           /\ DropRefresh(m, T).access = m.access
           /\ DropRefresh(m, T).gone.access = m.gone.access
           /\ DropRefresh(m, T).used = m.used
BY DEF DropRefresh, Maps, Deleted

\* deleteUsedRefreshTokenRecord.
LEMMA DropUsedEffect ==
    ASSUME NEW m \in Maps, NEW T \in SUBSET Tokens
    PROVE  /\ DropUsed(m, T) \in Maps
           /\ DropUsed(m, T).access = m.access
           /\ DropUsed(m, T).gone.access = m.gone.access
           /\ \A u \in Tokens : DropUsed(m, T).used[u] = IF u \in T THEN 0 ELSE m.used[u]
BY TokenNumbers DEF DropUsed, Maps, Deleted

\* The store after a merge: the union of the access tokens, and no answer of a
\* rotation that was not there before, stored or in memory.
LEMMA MergedEffect ==
    ASSUME NEW m \in Maps, NEW grants, disk \in Stored
    PROVE  /\ Merged(m, grants) \in Stored
           /\ Merged(m, grants).access =
                 ({t \in disk.access : t > expired.access} \ m.gone.access) \cup m.access
           /\ \A u \in Tokens : Merged(m, grants).used[u] \in {0, m.used[u], disk.used[u]}
BY TokenNumbers DEF Merged, Unexpired, Stored, Maps, Deleted

\* Deleting what has expired before a read.
LEMMA UnexpiredEffect ==
    ASSUME disk \in Stored
    PROVE  /\ Unexpired(disk) \in Stored
           /\ Unexpired(disk).access = {t \in disk.access : t > expired.access}
           /\ \A u \in Tokens : Unexpired(disk).used[u] \in {0, disk.used[u]}
BY TokenNumbers DEF Unexpired, Stored

-----------------------------------------------------------------------------
(* Types                                                                   *)

Logged == failures \in 0..MaxFailures

LEMMA ThrowIsLogged == TypeOK /\ StoreThrows => Logged'
<1>1. TypeOK => scenario.failures \in 0..MaxFailures
  BY ScenarioTypes DEF ScenarioTypes, Scenario, TypeOK
<1> QED BY <1>1, IssueBounds DEF TypeOK, StoreThrows, Logged, IssueBounds

\* A save of Maps of the right type, and a save that throws.
LEMMA SaveTypes ==
    ASSUME TypeOK, NEW i \in Instances, NEW m \in Maps, NEW grants,
           Saves(i, m, grants) \/ SaveFails(i, m)
    PROVE  disk' \in Stored /\ mem' \in [Instances -> Maps] /\ Logged'
<1> USE DEF TypeOK
<1>1. CASE Saves(i, m, grants)
  <2>1. disk' \in Stored /\ Logged'
    BY <1>1, MergedEffect DEF Saves, Logged
  <2>2. [m EXCEPT !.gone = Nothing] \in Maps
    BY NothingIsDeleted DEF Maps
  <2> QED BY <1>1, <2>1, <2>2 DEF Saves
<1>2. CASE SaveFails(i, m)
  BY <1>2, ThrowIsLogged DEF SaveFails
<1> QED BY <1>1, <1>2

\* The Maps that the handlers save, or leave behind when that fails.
LEMMA IssueEffect ==
    ASSUME NEW m \in Maps, NEW n \in Tokens
    PROVE  /\ Issue(m, n) \in Maps
           /\ Issue(m, n).access = m.access \cup {n}
           /\ Issue(m, n).gone.access = m.gone.access \ {n}
           /\ Issue(m, n).used = m.used
BY PutAccessEffect, PutRefreshEffect DEF Issue

Withdrawn(m, n) == DropRefresh(DropAccess(m, {n}), {n})

LEMMA WithdrawnEffect ==
    ASSUME NEW m \in Maps, NEW n \in Tokens
    PROVE  /\ Withdrawn(m, n) \in Maps
           /\ Withdrawn(m, n).access = m.access \ {n}
           /\ Withdrawn(m, n).gone.access = m.gone.access \cup ({n} \cap m.access)
           /\ Withdrawn(m, n).used = m.used
BY DropAccessEffect, DropRefreshEffect DEF Withdrawn

LEMMA RotatedEffect ==
    ASSUME NEW m \in Maps, NEW t \in Tokens, NEW n \in Tokens
    PROVE  /\ Rotated(m, t, n) \in Maps
           /\ Rotated(m, t, n).access = m.access \cup {n}
           /\ Rotated(m, t, n).gone.access = m.gone.access \ {n}
           /\ \A u \in Tokens : Rotated(m, t, n).used[u] \in {m.used[u], n}
           /\ \A u \in Tokens : u # t => Rotated(m, t, n).used[u] = m.used[u]
<1> DEFINE d == DropRefresh(m, {t})
           p == PutUsed(d, t, n)
<1>1. d \in Maps /\ d.access = m.access /\ d.gone.access = m.gone.access /\ d.used = m.used
  BY DropRefreshEffect
<1>2. Rotated(m, t, n) = Issue(p, n)
  BY DEF Rotated
<1> HIDE DEF d
<1>3. /\ p \in Maps /\ p.access = d.access /\ p.gone.access = d.gone.access
      /\ \A u \in Tokens : p.used[u] \in {d.used[u], n}
      /\ \A u \in Tokens : u # t => p.used[u] = d.used[u]
  BY ZenonT(40), <1>1, PutUsedEffect
<1> HIDE DEF p
<1>4. /\ Issue(p, n) \in Maps /\ Issue(p, n).access = p.access \cup {n}
      /\ Issue(p, n).gone.access = p.gone.access \ {n} /\ Issue(p, n).used = p.used
  BY <1>3, IssueEffect
<1> QED BY <1>1, <1>2, <1>3, <1>4

LEMMA RotationUndoneEffect ==
    ASSUME NEW m \in Maps, NEW t \in Tokens, NEW n \in Tokens
    PROVE  /\ RotationUndone(m, t, n) \in Maps
           /\ RotationUndone(m, t, n).access = m.access \ {n}
           /\ RotationUndone(m, t, n).gone.access = m.gone.access \cup ({n} \cap m.access)
           /\ \A u \in Tokens :
                 RotationUndone(m, t, n).used[u] = IF u = t THEN 0 ELSE m.used[u]
<1> DEFINE w == Withdrawn(m, n)
           d == DropUsed(w, {t})
<1>1. /\ w \in Maps /\ w.access = m.access \ {n} /\ w.used = m.used
      /\ w.gone.access = m.gone.access \cup ({n} \cap m.access)
  BY WithdrawnEffect
<1>2. RotationUndone(m, t, n) = PutRefresh(d, t)
  BY DEF RotationUndone, Withdrawn
<1> HIDE DEF w
<1>3. /\ d \in Maps /\ d.access = w.access /\ d.gone.access = w.gone.access
      /\ \A u \in Tokens : d.used[u] = IF u \in {t} THEN 0 ELSE w.used[u]
  BY <1>1, DropUsedEffect
<1> HIDE DEF d
<1>4. /\ PutRefresh(d, t) \in Maps /\ PutRefresh(d, t).access = d.access
      /\ PutRefresh(d, t).gone.access = d.gone.access /\ PutRefresh(d, t).used = d.used
  BY <1>3, PutRefreshEffect
<1> QED BY <1>1, <1>2, <1>3, <1>4

LEMMA DropEffect ==
    ASSUME NEW m \in Maps, NEW T \in SUBSET Tokens
    PROVE  /\ Drop(m, T) \in Maps
           /\ Drop(m, T).access = m.access \ T
           /\ Drop(m, T).gone.access = m.gone.access \cup (T \cap m.access)
           /\ \A u \in Tokens : Drop(m, T).used[u] \in {0, m.used[u]}
<1> DEFINE a == DropAccess(m, T)
           d == DropRefresh(a, T)
<1>1. /\ a \in Maps /\ a.access = m.access \ T /\ a.used = m.used
      /\ a.gone.access = m.gone.access \cup (T \cap m.access)
  BY DropAccessEffect
<1>2. Drop(m, T) = DropUsed(d, T)
  BY DEF Drop
<1> HIDE DEF a
<1>3. d \in Maps /\ d.access = a.access /\ d.gone.access = a.gone.access /\ d.used = a.used
  BY <1>1, DropRefreshEffect
<1> HIDE DEF d
<1>4. /\ DropUsed(d, T) \in Maps /\ DropUsed(d, T).access = d.access
      /\ DropUsed(d, T).gone.access = d.gone.access
      /\ \A u \in Tokens : DropUsed(d, T).used[u] = IF u \in T THEN 0 ELSE d.used[u]
  BY <1>3, DropUsedEffect
<1> QED BY <1>1, <1>2, <1>3, <1>4

LEMMA GrantTokens == \A g : OfGrant(g) \in SUBSET Tokens
BY DEF OfGrant

\* cleanup() deletes what has expired.
Cleaned(i) ==
    DropUsed(DropRefresh(DropAccess(mem[i], 1..expired.access),
                         1..expired.refresh), 1..expired.refresh)

LEMMA CleanedEffect ==
    ASSUME TypeOK, NEW i \in Instances
    PROVE  /\ Cleaned(i) \in Maps
           /\ Cleaned(i).access = mem[i].access \ 1..expired.access
           /\ Cleaned(i).gone.access =
                 mem[i].gone.access \cup (1..expired.access \cap mem[i].access)
           /\ \A u \in Tokens : Cleaned(i).used[u] \in {0, mem[i].used[u]}
<1>1. mem[i] \in Maps /\ 1..expired.refresh \in SUBSET Tokens
  BY IssueBounds, TokenNumbers DEF TypeOK, Tokens, IssueBounds
<1> DEFINE a == DropAccess(mem[i], 1..expired.access)
           r == DropRefresh(a, 1..expired.refresh)
<1>2. /\ a \in Maps /\ a.access = mem[i].access \ 1..expired.access
      /\ a.gone.access = mem[i].gone.access \cup (1..expired.access \cap mem[i].access)
      /\ a.used = mem[i].used
  BY <1>1, DropAccessEffect
<1>3. r \in Maps /\ r.access = a.access /\ r.gone.access = a.gone.access /\ r.used = a.used
  BY <1>2, DropRefreshEffect
<1>4. /\ Cleaned(i) \in Maps /\ Cleaned(i).access = r.access
      /\ Cleaned(i).gone.access = r.gone.access
      /\ \A u \in Tokens : Cleaned(i).used[u] = IF u \in 1..expired.refresh THEN 0 ELSE r.used[u]
  <2>1. Cleaned(i) = DropUsed(r, 1..expired.refresh)
    BY DEF Cleaned
  <2> DEFINE over == 1..expired.refresh
  <2>2. over \in SUBSET Tokens /\ r \in Maps
    BY <1>1, <1>3
  <2> HIDE DEF r, over
  <2>3. /\ DropUsed(r, over) \in Maps /\ DropUsed(r, over).access = r.access
        /\ DropUsed(r, over).gone.access = r.gone.access
        /\ \A u \in Tokens : DropUsed(r, over).used[u] = IF u \in over THEN 0 ELSE r.used[u]
    BY <2>2, DropUsedEffect
  <2> QED BY <2>1, <2>3 DEF over
<1> HIDE DEF r, a
<1> QED BY <1>2, <1>3, <1>4

LEMMA InitTypes == Init => TypeOK
BY NothingIsDeleted, TokenNumbers, IssueBounds
   DEF Init, TypeOK, Stored, Empty, Nothing, IssueBounds, Tokens

LEMMA StepTypes == TypeOK /\ [Next]_vars => TypeOK'
<1> SUFFICES ASSUME TypeOK, [Next]_vars PROVE TypeOK'
  OBVIOUS
<1> USE DEF TypeOK, requests, issues, answers, Logged
<1>0. IssueBounds /\ Tokens = 1..MaxIssues /\ Numbers = 0..MaxIssues /\ Tokens \subseteq Numbers
  BY IssueBounds DEF IssueBounds, Tokens, Numbers
<1>a. scenario' \in Scenarios
  BY DEF Next, vars
<1>b. scenario.issues \in 0..MaxIssues
  BY ScenarioTypes DEF ScenarioTypes, Scenario
<1> USE <1>a
<1>1. ASSUME NEW i \in Instances, Cleanup(i) PROVE TypeOK'
  <2>1. disk' \in Stored /\ mem' \in [Instances -> Maps] /\ Logged'
    <3>1. CASE UNCHANGED <<disk, mem, failures>>
      BY <3>1
    <3>2. CASE Saves(i, Cleaned(i), grant) \/ SaveFails(i, Cleaned(i))
      BY <3>2, CleanedEffect, SaveTypes
    <3> QED BY <1>1, <3>1, <3>2 DEF Cleanup, Cleaned
  <2> QED BY <1>1, <2>1 DEF Cleanup
<1>2. ASSUME NEW i \in Instances, NEW r \in Requests, ExchangeCode(i, r) PROVE TypeOK'
  <2>1. issued' \in Tokens /\ issued' \in Numbers
    BY <1>2, <1>0, <1>b DEF ExchangeCode, IssueBounds
  <2> DEFINE m == Issue(mem[i], issued')
             undone == Withdrawn(m, issued')
  <2>2. m \in Maps /\ undone \in Maps
    BY <2>1, IssueEffect, WithdrawnEffect
  <2> HIDE DEF m, undone
  <2>3. Saves(i, m, grant') \/ SaveFails(i, undone)
    BY <1>2 DEF ExchangeCode, Withdrawn, m, undone
  <2>4. disk' \in Stored /\ mem' \in [Instances -> Maps] /\ Logged'
    BY <2>2, <2>3, SaveTypes
  <2>5. handed' \in SUBSET Tokens /\ revoked' = revoked /\ ended' = ended
    BY <1>2, <2>1 DEF ExchangeCode, Hands
  <2> QED BY <1>2, <2>1, <2>4, <2>5 DEF ExchangeCode, Answers
<1>3. ASSUME NEW i \in Instances, NEW t \in Tokens, Refresh(i, t) PROVE TypeOK'
  <2>1. issued' \in Tokens /\ issued' \in Numbers
    BY <1>3, <1>0, <1>b DEF Refresh, IssueBounds
  <2> DEFINE m == Rotated(mem[i], t, issued')
             undone == RotationUndone(m, t, issued')
  <2>2. m \in Maps /\ undone \in Maps
    BY <2>1, RotatedEffect, RotationUndoneEffect
  <2> HIDE DEF m, undone
  <2>3. Saves(i, m, grant') \/ SaveFails(i, undone)
    BY <1>3 DEF Refresh, m, undone
  <2>4. disk' \in Stored /\ mem' \in [Instances -> Maps] /\ Logged'
    BY <2>2, <2>3, SaveTypes
  <2>5. handed' \in SUBSET Tokens /\ revoked' = revoked /\ ended' = ended
    BY <1>3, <2>1 DEF Refresh, Hands
  <2>6. grant' \in [Tokens -> Numbers]
    BY <1>3, <2>1 DEF Refresh
  <2> QED BY <1>3, <2>1, <2>4, <2>5, <2>6 DEF Refresh, Answers
<1>4. ASSUME NEW i \in Instances, NEW t \in Tokens, Replay(i, t) PROVE TypeOK'
  <2>1. mem[i].used[t] \in Tokens
    BY <1>4, <1>0 DEF Replay, Maps
  <2> QED BY <1>4, <2>1 DEF Replay, Hands, Answers
<1>5. ASSUME NEW i \in Instances, NEW t \in Tokens, Reuse(i, t) PROVE TypeOK'
  <2> DEFINE m == DropRefresh(mem[i], mem[i].refresh \cap OfGrant(grant[t]))
  <2>1. mem[i] \in Maps /\ m \in Maps
    BY DropRefreshEffect
  <2>2. \/ UNCHANGED <<disk, mem, failures>>
        \/ Saves(i, m, grant) \/ SaveFails(i, mem[i])
    BY <1>5 DEF Reuse
  <2> HIDE DEF m
  <2>3. disk' \in Stored /\ mem' \in [Instances -> Maps] /\ Logged'
    BY <2>1, <2>2, SaveTypes
  <2>4. ended' \in SUBSET Numbers /\ handed' = handed /\ revoked' = revoked
    BY <1>5 DEF Reuse
  <2> QED BY <1>5, <2>3, <2>4 DEF Reuse, Answers
<1>6. ASSUME NEW i \in Instances, NEW t \in Tokens, Revoke(i, t) PROVE TypeOK'
  <2> DEFINE m == Drop(mem[i], OfGrant(grant[t]))
  <2>1. mem[i] \in Maps /\ m \in Maps
    BY DropEffect, GrantTokens
  <2>2. Saves(i, m, grant) \/ SaveFails(i, mem[i])
    BY <1>6 DEF Revoke
  <2> HIDE DEF m
  <2>3. disk' \in Stored /\ mem' \in [Instances -> Maps] /\ Logged'
    BY <2>1, <2>2, SaveTypes
  <2>4. revoked' \in SUBSET Numbers /\ handed' = handed /\ ended' = ended
    BY <1>6 DEF Revoke
  <2> QED BY <1>6, <2>3, <2>4 DEF Revoke
<1>7. ASSUME NEW i \in Instances, Boot(i) PROVE TypeOK'
  <2>1. CASE scenario.load /\ StoreThrows /\ UNCHANGED <<disk, mem>>
    <3>1. Logged'
      BY <2>1, ThrowIsLogged
    <3> QED BY <1>7, <2>1, <3>1 DEF Boot
  <2>2. CASE /\ disk' = Unexpired(disk)
             /\ mem' = [mem EXCEPT ![i] = [access |-> disk'.access, refresh |-> disk'.refresh,
                                           used |-> disk'.used, gone |-> Nothing]]
             /\ UNCHANGED failures
    <3>1. disk' \in Stored
      BY <2>2, UnexpiredEffect
    <3>2. mem' \in [Instances -> Maps]
      BY <2>2, <3>1, NothingIsDeleted DEF Maps, Stored
    <3> QED BY <1>7, <2>2, <3>1, <3>2 DEF Boot
  <2> QED BY <1>7, <2>1, <2>2 DEF Boot
<1>8. ASSUME NEW i \in Instances, Stop(i) PROVE TypeOK'
  BY <1>8, NothingIsDeleted DEF Stop
<1>9. ASSUME NEW i \in Instances, Decline(i) PROVE TypeOK'
  BY <1>9 DEF Decline, Answers
<1>10. ASSUME NEW i \in Instances, NEW r \in Requests,
              Authorize(i, r) \/ CompleteLogin(i, r) PROVE TypeOK'
  BY <1>10 DEF Authorize, CompleteLogin, Answers
<1>11. CASE Expire
  <2>1. expired' \in [access : Numbers, refresh : Numbers]
    BY <1>11, <1>0 DEF Expire, IssueBounds
  <2> QED BY <1>11, <2>1 DEF Expire
<1>12. CASE UNCHANGED vars
  BY <1>12 DEF vars
<1> QED
  BY <1>1, <1>2, <1>3, <1>4, <1>5, <1>6, <1>7, <1>8, <1>9, <1>10, <1>11, <1>12 DEF Next

\* Every reachable state has the types of TypeOK.
THEOREM TypeCorrect == Spec => []TypeOK
BY InitTypes, StepTypes, PTL DEF Spec

-----------------------------------------------------------------------------
(* Tokens that a client holds                                              *)

\* A client was answered with t, or may be: it is the answer of a rotation.
Referenced(t) ==
    \/ t \in handed
    \/ \E u \in Tokens : disk.used[u] = t
    \/ \E i \in Instances, u \in Tokens : mem[i].used[u] = t

\* While t is valid it is stored, and no instance is about to delete it.
Kept(t) ==
    t > expired.access /\ grant[t] \notin revoked =>
        t \in disk.access /\ \A i \in Instances : t \notin mem[i].gone.access

\* Nothing is known of a token that has not been issued.
OnlyIssued ==
    /\ \A t \in Tokens : Referenced(t) => t <= issued
    /\ disk.access \subseteq 1..issued
    /\ \A i \in Instances : mem[i].access \cup mem[i].gone.access \subseteq 1..issued

SurvivalInv == OnlyIssued /\ \A t \in Tokens : Referenced(t) => Kept(t)

\* What an instance's Maps must be like when it saves them or, throwing, is left
\* with them: they forget no token that may be handed and is still valid.
Faithful(m) ==
    /\ m.access \cup m.gone.access \subseteq 1..issued'
    /\ \A u \in Tokens : m.used[u] \in Tokens =>
          Referenced(m.used[u]) \/ (m.used[u] > issued /\ m.used[u] \in m.access)
    /\ \A t \in Tokens :
          Referenced(t) /\ t > expired.access /\ grant[t] \notin revoked' =>
              t \notin m.gone.access

\* What a request may do to the issues and the answers.
FairAnswer ==
    /\ issued' \in Numbers /\ issued <= issued'
    /\ \A t \in Tokens : t <= issued => grant'[t] = grant[t]
    /\ expired' = expired
    /\ revoked \subseteq revoked'

LEMMA SaveKeeps ==
    ASSUME TypeOK, TypeOK', SurvivalInv, NEW i \in Instances, NEW m \in Maps, NEW grants,
           Saves(i, m, grants), Faithful(m), FairAnswer,
           \A t \in handed' : t \in handed \/ (t > issued /\ t \in m.access)
                                          \/ \E u \in Tokens : m.used[u] = t
    PROVE  SurvivalInv'
<1> DEFINE Fresh(t) == t > issued /\ t \in m.access
<1>1. /\ disk'.access = ({t \in disk.access : t > expired.access} \ m.gone.access) \cup m.access
      /\ \A u \in Tokens : disk'.used[u] \in {0, m.used[u], disk.used[u]}
  BY MergedEffect DEF Saves, TypeOK
<1>2. /\ mem'[i].access = m.access /\ mem'[i].gone.access = {} /\ mem'[i].used = m.used
      /\ \A j \in Instances : j # i => mem'[j] = mem[j]
  BY DEF Saves, TypeOK, Maps, Nothing
<1>3. issued \in Nat /\ issued' \in Nat /\ \A t \in Tokens : t \in Nat /\ t # 0
  BY TokenNumbers, IssueBounds DEF TypeOK, FairAnswer, IssueBounds, Tokens
<1>4. ASSUME NEW t \in Tokens, Referenced(t)' PROVE Referenced(t) \/ Fresh(t)
  <2>1. CASE \E u \in Tokens : m.used[u] = t
    BY <2>1 DEF Faithful
  <2>2. CASE t \in handed'
    BY <2>1, <2>2 DEF Referenced
  <2>3. CASE \E u \in Tokens : disk'.used[u] = t
    BY <2>1, <2>3, <1>1, <1>3 DEF Referenced
  <2>4. CASE \E j \in Instances, u \in Tokens : mem'[j].used[u] = t
    BY <2>1, <2>4, <1>2 DEF Referenced
  <2> QED BY <1>4, <2>2, <2>3, <2>4 DEF Referenced
<1>5. ASSUME NEW t \in Tokens, Referenced(t)' PROVE t <= issued' /\ Kept(t)'
  <2>1. CASE Referenced(t)
    <3>1. t <= issued /\ grant'[t] = grant[t] /\ t <= issued'
      BY <2>1, <1>3 DEF SurvivalInv, OnlyIssued, FairAnswer
    <3>2. ASSUME t > expired.access, grant[t] \notin revoked'
          PROVE  t \in disk'.access /\ \A j \in Instances : t \notin mem'[j].gone.access
      <4>1. t \in disk.access /\ \A j \in Instances : t \notin mem[j].gone.access
        BY <2>1, <3>2 DEF SurvivalInv, Kept, FairAnswer
      <4>2. t \notin m.gone.access
        BY <2>1, <3>2 DEF Faithful
      <4> QED BY <3>2, <4>1, <4>2, <1>1, <1>2
    <3> QED BY <3>1, <3>2 DEF Kept, FairAnswer
  <2>2. CASE Fresh(t)
    <3>1. t \in disk'.access /\ t <= issued'
      BY <2>2, <1>1 DEF Faithful
    <3>2. \A j \in Instances : t \notin mem'[j].gone.access
      BY <2>2, <1>2, <1>3 DEF SurvivalInv, OnlyIssued
    <3> QED BY <3>1, <3>2 DEF Kept
  <2> QED BY <1>4, <1>5, <2>1, <2>2
<1>6. 1..issued \subseteq 1..issued'
  BY <1>3 DEF FairAnswer
<1>7. OnlyIssued'
  <2>1. disk'.access \subseteq 1..issued'
    BY <1>1, <1>6 DEF SurvivalInv, OnlyIssued, Faithful
  <2>2. \A j \in Instances : mem'[j].access \cup mem'[j].gone.access \subseteq 1..issued'
    BY <1>2, <1>6 DEF SurvivalInv, OnlyIssued, Faithful
  <2> QED BY <1>5, <2>1, <2>2 DEF OnlyIssued
<1> QED BY <1>5, <1>7 DEF SurvivalInv

LEMMA FailureKeeps ==
    ASSUME TypeOK, TypeOK', SurvivalInv, NEW i \in Instances, NEW m \in Maps,
           SaveFails(i, m), Faithful(m), FairAnswer, handed' = handed,
           \A u \in Tokens : m.used[u] \in Tokens => Referenced(m.used[u])
    PROVE  SurvivalInv'
<1>1. disk' = disk /\ mem'[i] = m /\ \A j \in Instances : j # i => mem'[j] = mem[j]
  BY DEF SaveFails, TypeOK
<1>2. issued \in Nat /\ issued' \in Nat /\ \A t \in Tokens : t \in Nat
  BY TokenNumbers, IssueBounds DEF TypeOK, FairAnswer, IssueBounds, Tokens
<1>3. ASSUME NEW t \in Tokens, Referenced(t)' PROVE Referenced(t)
  BY <1>1, <1>3 DEF Referenced
<1>4. ASSUME NEW t \in Tokens, Referenced(t)' PROVE t <= issued' /\ Kept(t)'
  <2>1. t <= issued /\ grant'[t] = grant[t] /\ t <= issued' /\ Kept(t)
    BY <1>2, <1>3, <1>4 DEF SurvivalInv, OnlyIssued, FairAnswer
  <2>2. ASSUME t > expired.access, grant[t] \notin revoked' PROVE t \notin m.gone.access
    BY <1>3, <1>4, <2>2 DEF Faithful
  <2> QED BY <1>1, <2>1, <2>2 DEF Kept, FairAnswer
<1>5. 1..issued \subseteq 1..issued'
  BY <1>2 DEF FairAnswer
<1>6. OnlyIssued'
  BY <1>1, <1>4, <1>5 DEF SurvivalInv, OnlyIssued, Faithful
<1> QED BY <1>4, <1>6 DEF SurvivalInv

LEMMA SurvivalInit == Init => SurvivalInv
BY IssueBounds, TokenNumbers
   DEF Init, SurvivalInv, OnlyIssued, Referenced, Kept, Empty, Nothing, IssueBounds, Tokens

\* Maps whose records are those of an instance, or fewer, are faithful when what
\* they remember as deleted is over or its grant is being revoked.
LEMMA FewerRecordsFaithful ==
    ASSUME TypeOK, TypeOK', SurvivalInv, NEW i \in Instances, NEW m \in Maps, FairAnswer,
           m.access \subseteq mem[i].access,
           m.gone.access \subseteq mem[i].gone.access \cup mem[i].access,
           \A u \in Tokens : m.used[u] \in {0, mem[i].used[u]},
           \A t \in Tokens : t > expired.access /\ grant[t] \notin revoked' =>
                                (t \in m.gone.access => t \in mem[i].gone.access)
    PROVE  Faithful(m) /\ \A u \in Tokens : m.used[u] \in Tokens => Referenced(m.used[u])
<1>1. issued \in Nat /\ issued' \in Nat /\ 0 \notin Tokens
  BY TokenNumbers, IssueBounds DEF TypeOK, FairAnswer, IssueBounds, Tokens
<1>2. \A u \in Tokens : m.used[u] \in Tokens => Referenced(m.used[u])
  BY <1>1 DEF Referenced
<1>3. m.access \cup m.gone.access \subseteq 1..issued'
  <2>1. m.access \cup m.gone.access \subseteq 1..issued
    BY DEF SurvivalInv, OnlyIssued
  <2> QED BY <1>1, <2>1 DEF FairAnswer
<1>4. \A t \in Tokens : Referenced(t) /\ t > expired.access /\ grant[t] \notin revoked' =>
                           t \notin m.gone.access
  BY DEF SurvivalInv, Kept, FairAnswer
<1> QED BY <1>2, <1>3, <1>4 DEF Faithful

\* Nothing changes but the time, what instances remember, or what is read.
LEMMA QuietKeeps ==
    ASSUME TypeOK, SurvivalInv, disk' = disk, issued' = issued, grant' = grant,
           revoked' = revoked, expired'.access >= expired.access,
           \A t \in Tokens : Referenced(t)' => Referenced(t),
           \A i \in Instances : /\ mem'[i].access \subseteq mem[i].access
                                /\ mem'[i].gone.access \subseteq mem[i].gone.access,
           expired.access \in Nat, expired'.access \in Nat
    PROVE  SurvivalInv'
<1>1. OnlyIssued'
  BY DEF SurvivalInv, OnlyIssued
<1>2. ASSUME NEW t \in Tokens, Referenced(t)' PROVE Kept(t)'
  <2>1. Kept(t) /\ t \in Nat
    BY <1>2 DEF SurvivalInv, Tokens
  <2> QED BY <2>1 DEF Kept
<1> QED BY <1>1, <1>2 DEF SurvivalInv

\* cleanup(): what it deletes has expired.
LEMMA CleanupKeeps ==
    ASSUME TypeOK, TypeOK', SurvivalInv, NEW i \in Instances, Cleanup(i)
    PROVE  SurvivalInv'
<1> DEFINE m == Cleaned(i)
<1>1. FairAnswer /\ handed' = handed /\ grant' = grant
  BY TokenNumbers DEF Cleanup, FairAnswer, TypeOK, issues, answers, Numbers
<1>2. /\ m \in Maps /\ m.access = mem[i].access \ 1..expired.access
      /\ m.gone.access = mem[i].gone.access \cup (1..expired.access \cap mem[i].access)
      /\ \A u \in Tokens : m.used[u] \in {0, mem[i].used[u]}
  BY CleanedEffect
<1>3. UNCHANGED <<disk, mem>> \/ Saves(i, m, grant) \/ SaveFails(i, m)
  BY DEF Cleanup, Cleaned
<1> HIDE DEF m
<1>4. Faithful(m) /\ \A u \in Tokens : m.used[u] \in Tokens => Referenced(m.used[u])
  <2>1. expired.access \in Nat /\ \A t \in Tokens : t \in Nat
    BY DEF TypeOK, Numbers, Tokens
  <2>2. \A t \in Tokens : t > expired.access => t \notin 1..expired.access
    BY <2>1
  <2> QED BY <1>1, <1>2, <2>2, FewerRecordsFaithful
<1>5. CASE UNCHANGED <<disk, mem>>
  BY <1>1, <1>5 DEF Cleanup, SurvivalInv, OnlyIssued, Referenced, Kept, issues, answers
<1>6. CASE Saves(i, m, grant)
  BY <1>1, <1>2, <1>4, <1>6, SaveKeeps
<1>7. CASE SaveFails(i, m)
  BY <1>1, <1>2, <1>4, <1>7, FailureKeeps
<1> QED BY <1>3, <1>5, <1>6, <1>7

\* issue(): its number is new, so no answer can name it before it is stored.
LEMMA IssueKeeps ==
    ASSUME TypeOK, TypeOK', SurvivalInv, NEW i \in Instances, NEW r \in Requests,
           ExchangeCode(i, r)
    PROVE  SurvivalInv'
<1> DEFINE n == issued'
           m == Issue(mem[i], n)
           w == Withdrawn(m, n)
<1>1. n = issued + 1 /\ n \in Tokens /\ issued \in Nat /\ mem[i] \in Maps
  BY IssueBounds, TokenNumbers DEF ExchangeCode, TypeOK, IssueBounds, Tokens
<1>2. FairAnswer /\ revoked' = revoked
  <2>1. grant \in [Tokens -> Numbers] /\ grant' = [grant EXCEPT ![n] = n]
    BY DEF ExchangeCode, TypeOK
  <2>2. \A t \in Tokens : t <= issued => grant'[t] = grant[t]
    BY <1>1, <2>1
  <2> QED BY <1>1, <2>2, TokenNumbers DEF ExchangeCode, FairAnswer, Hands, answers
<1>3. /\ m \in Maps /\ m.access = mem[i].access \cup {n} /\ m.used = mem[i].used
      /\ m.gone.access = mem[i].gone.access \ {n}
  BY <1>1, IssueEffect
<1>4. \/ Saves(i, m, grant') /\ handed' \in {handed, handed \cup {n}}
      \/ SaveFails(i, w) /\ handed' = handed
  BY DEF ExchangeCode, Hands, Withdrawn, answers
<1> HIDE DEF m
<1>5. /\ w \in Maps /\ w.access = m.access \ {n} /\ w.used = m.used
      /\ w.gone.access = m.gone.access \cup ({n} \cap m.access)
  BY <1>1, <1>3, WithdrawnEffect
<1> HIDE DEF w, n
<1>6. \A u \in Tokens : mem[i].used[u] \in Tokens => Referenced(mem[i].used[u])
  BY DEF Referenced
<1>7. /\ mem[i].access \cup mem[i].gone.access \cup {n} \subseteq 1..n
      /\ \A t \in Tokens : Referenced(t) => t # n
  <2>1. mem[i].access \cup mem[i].gone.access \subseteq 1..issued
    BY DEF SurvivalInv, OnlyIssued
  <2>2. 1..issued \cup {n} \subseteq 1..n
    BY <1>1
  <2>3. \A t \in Tokens : Referenced(t) => t <= issued
    BY DEF SurvivalInv, OnlyIssued
  <2> QED BY <1>1, <2>1, <2>2, <2>3
<1>8. \A t \in Tokens : Referenced(t) /\ t > expired.access /\ grant[t] \notin revoked' =>
                           t \notin mem[i].gone.access
  BY <1>2 DEF SurvivalInv, Kept
<1>9. Faithful(m) /\ Faithful(w)
  BY <1>3, <1>5, <1>6, <1>7, <1>8 DEF Faithful, n
<1>10. CASE Saves(i, m, grant') /\ handed' \in {handed, handed \cup {n}}
  <2>1. \A t \in handed' : t \in handed \/ (t > issued /\ t \in m.access)
    BY <1>1, <1>3, <1>10
  <2> QED BY <1>2, <1>3, <1>9, <1>10, <2>1, SaveKeeps
<1>11. CASE SaveFails(i, w) /\ handed' = handed
  BY <1>2, <1>3, <1>5, <1>6, <1>9, <1>11, FailureKeeps
<1> QED BY <1>4, <1>10, <1>11

\* Rotation: the exchanged token's answer names the new token, which is stored
\* with it, or neither is.
LEMMA RefreshKeeps ==
    ASSUME TypeOK, TypeOK', SurvivalInv, NEW i \in Instances, NEW t \in Tokens,
           Refresh(i, t)
    PROVE  SurvivalInv'
<1> DEFINE n == issued'
           m == Rotated(mem[i], t, n)
           w == RotationUndone(m, t, n)
<1>1. n = issued + 1 /\ n \in Tokens /\ issued \in Nat /\ mem[i] \in Maps
  BY IssueBounds, TokenNumbers DEF Refresh, TypeOK, IssueBounds, Tokens
<1>2. FairAnswer /\ revoked' = revoked
  <2>1. grant \in [Tokens -> Numbers] /\ grant' = [grant EXCEPT ![n] = grant[t]]
    BY DEF Refresh, TypeOK
  <2>2. \A u \in Tokens : u <= issued => grant'[u] = grant[u]
    BY <1>1, <2>1
  <2> QED BY <1>1, <2>2, TokenNumbers DEF Refresh, FairAnswer, Hands, answers
<1>3. /\ m \in Maps /\ m.access = mem[i].access \cup {n}
      /\ m.gone.access = mem[i].gone.access \ {n}
      /\ \A u \in Tokens : m.used[u] \in {mem[i].used[u], n}
      /\ \A u \in Tokens : u # t => m.used[u] = mem[i].used[u]
  <2> DEFINE before == mem[i]
  <2>1. before \in Maps /\ n \in Tokens
    BY <1>1
  <2> HIDE DEF n, before
  <2>2. /\ Rotated(before, t, n) \in Maps
        /\ Rotated(before, t, n).access = before.access \cup {n}
        /\ Rotated(before, t, n).gone.access = before.gone.access \ {n}
        /\ \A u \in Tokens : Rotated(before, t, n).used[u] \in {before.used[u], n}
        /\ \A u \in Tokens : u # t => Rotated(before, t, n).used[u] = before.used[u]
    BY <2>1, RotatedEffect
  <2> QED BY <2>2 DEF before
<1>4. \/ Saves(i, m, grant') /\ handed' \in {handed, handed \cup {n}}
      \/ SaveFails(i, w) /\ handed' = handed
  BY DEF Refresh, Hands, answers
<1> HIDE DEF m
<1>5. /\ w \in Maps /\ w.access = m.access \ {n}
      /\ w.gone.access = m.gone.access \cup ({n} \cap m.access)
      /\ \A u \in Tokens : w.used[u] = IF u = t THEN 0 ELSE m.used[u]
  <2>1. m \in Maps /\ n \in Tokens
    BY <1>1, <1>3
  <2>2. w = RotationUndone(m, t, n)
    OBVIOUS
  <2> HIDE DEF n, w
  <2>3. /\ RotationUndone(m, t, n) \in Maps
        /\ RotationUndone(m, t, n).access = m.access \ {n}
        /\ RotationUndone(m, t, n).gone.access = m.gone.access \cup ({n} \cap m.access)
        /\ \A u \in Tokens :
              RotationUndone(m, t, n).used[u] = IF u = t THEN 0 ELSE m.used[u]
    BY <2>1, RotationUndoneEffect
  <2> QED BY <2>2, <2>3
<1> HIDE DEF w, n
<1>6. \A u \in Tokens : mem[i].used[u] \in Tokens => Referenced(mem[i].used[u])
  BY DEF Referenced
<1>7. /\ mem[i].access \cup mem[i].gone.access \cup {n} \subseteq 1..n
      /\ \A u \in Tokens : Referenced(u) => u # n
  <2>1. mem[i].access \cup mem[i].gone.access \subseteq 1..issued
    BY DEF SurvivalInv, OnlyIssued
  <2>2. 1..issued \cup {n} \subseteq 1..n
    BY <1>1
  <2>3. \A u \in Tokens : Referenced(u) => u <= issued
    BY DEF SurvivalInv, OnlyIssued
  <2> QED BY <1>1, <2>1, <2>2, <2>3
<1>8. \A u \in Tokens : Referenced(u) /\ u > expired.access /\ grant[u] \notin revoked' =>
                           u \notin mem[i].gone.access
  BY <1>2 DEF SurvivalInv, Kept
<1>9. \A u \in Tokens : w.used[u] \in Tokens => Referenced(w.used[u])
  <2>1. 0 \notin Tokens
    BY DEF Tokens
  <2>2. \A u \in Tokens : w.used[u] \in {0, mem[i].used[u]}
    BY <1>3, <1>5
  <2> QED BY <1>6, <2>1, <2>2
<1>10. Faithful(m)
  <2>1. \A u \in Tokens : m.used[u] \in Tokens =>
            Referenced(m.used[u]) \/ (m.used[u] > issued /\ m.used[u] \in m.access)
    <3>1. n > issued /\ n \in m.access
      BY <1>1, <1>3
    <3>2. \A u \in Tokens : m.used[u] = n \/ m.used[u] = mem[i].used[u]
      BY <1>3
    <3> QED BY <1>6, <3>1, <3>2
  <2> QED BY <1>3, <1>7, <1>8, <2>1 DEF Faithful, n
<1>11. Faithful(w)
  BY <1>3, <1>5, <1>7, <1>8, <1>9 DEF Faithful, n
<1>12. CASE Saves(i, m, grant') /\ handed' \in {handed, handed \cup {n}}
  <2>1. \A u \in handed' : u \in handed \/ (u > issued /\ u \in m.access)
    BY <1>1, <1>3, <1>12
  <2> QED BY <1>2, <1>3, <1>10, <1>12, <2>1, SaveKeeps
<1>13. CASE SaveFails(i, w) /\ handed' = handed
  BY <1>2, <1>5, <1>9, <1>11, <1>13, FailureKeeps
<1> QED BY <1>4, <1>12, <1>13

\* A request that comes too late for a replay deletes refresh tokens only; a
\* revocation deletes what it revokes.
LEMMA EndKeeps ==
    ASSUME TypeOK, TypeOK', SurvivalInv, NEW i \in Instances, NEW t \in Tokens,
           Reuse(i, t) \/ Revoke(i, t)
    PROVE  SurvivalInv'
<1> DEFINE d == DropRefresh(mem[i], mem[i].refresh \cap OfGrant(grant[t]))
           m == Drop(mem[i], OfGrant(grant[t]))
<1>1. FairAnswer /\ handed' = handed /\ grant' = grant
  BY TokenNumbers DEF Reuse, Revoke, FairAnswer, TypeOK, issues, answers, Numbers
<1>2. /\ mem[i] \in Maps /\ d \in Maps /\ d.access = mem[i].access /\ d.used = mem[i].used
      /\ d.gone.access = mem[i].gone.access
  BY DropRefreshEffect DEF TypeOK
<1>3. /\ m \in Maps /\ m.access = mem[i].access \ OfGrant(grant[t])
      /\ m.gone.access = mem[i].gone.access \cup (OfGrant(grant[t]) \cap mem[i].access)
      /\ \A u \in Tokens : m.used[u] \in {0, mem[i].used[u]}
  BY <1>2, DropEffect, GrantTokens
<1>4. \/ UNCHANGED <<disk, mem, revoked>>
      \/ Saves(i, d, grant) \/ SaveFails(i, mem[i])
      \/ Saves(i, m, grant) /\ grant[t] \in revoked'
  BY DEF Reuse, Revoke, answers
<1> HIDE DEF d, m
<1>5. ASSUME NEW k \in {d, mem[i]}
      PROVE  Faithful(k) /\ \A u \in Tokens : k.used[u] \in Tokens => Referenced(k.used[u])
  BY <1>1, <1>2, FewerRecordsFaithful
<1>6. CASE UNCHANGED <<disk, mem, revoked>>
  BY <1>1, <1>6 DEF Reuse, Revoke, SurvivalInv, OnlyIssued, Referenced, Kept, issues
<1>7. CASE Saves(i, d, grant)
  BY <1>1, <1>2, <1>5, <1>7, SaveKeeps
<1>8. CASE SaveFails(i, mem[i])
  BY <1>1, <1>2, <1>5, <1>8, FailureKeeps
<1>9. CASE Saves(i, m, grant) /\ grant[t] \in revoked'
  <2>1. \A u \in Tokens : u \in OfGrant(grant[t]) => grant[u] \in revoked'
    BY <1>9 DEF OfGrant
  <2>2. Faithful(m)
    BY <1>1, <1>3, <2>1, FewerRecordsFaithful
  <2> QED BY <1>1, <1>3, <1>9, <2>2, SaveKeeps
<1> QED BY <1>4, <1>6, <1>7, <1>8, <1>9

\* Time passes: fewer tokens have to be kept.
LEMMA ExpireKeeps ==
    ASSUME TypeOK, TypeOK', SurvivalInv, Expire
    PROVE  SurvivalInv'
<1>1. expired.access \in Nat /\ expired'.access \in Nat
  BY DEF TypeOK, Numbers
<1>2. expired'.access >= expired.access
  BY <1>1 DEF Expire, TypeOK
<1>3. \A t \in Tokens : Referenced(t)' => Referenced(t)
  BY DEF Expire, answers, Referenced
<1> QED BY <1>1, <1>2, <1>3, QuietKeeps DEF Expire, issues, answers

\* A start reads the store, an end forgets, and a replay answers with what is
\* stored in memory.
LEMMA OthersKeep ==
    ASSUME TypeOK, TypeOK', SurvivalInv, NEW i \in Instances,
           Boot(i) \/ Stop(i) \/ \E t \in Tokens : Replay(i, t)
    PROVE  SurvivalInv'
<1>1. expired.access \in Nat /\ expired'.access \in Nat /\ \A t \in Tokens : t \in Nat /\ t # 0
  BY DEF TypeOK, Numbers, Tokens
<1>2. CASE \E t \in Tokens : Replay(i, t)
  <2>1. \A t \in Tokens : Referenced(t)' => Referenced(t)
    BY <1>2 DEF Replay, Hands, Referenced
  <2> QED BY <1>1, <1>2, <2>1, QuietKeeps DEF Replay, Hands, issues
<1>4. CASE Stop(i)
  <2>1. /\ mem'[i].access = {} /\ mem'[i].gone.access = {}
        /\ \A u \in Tokens : mem'[i].used[u] = 0
        /\ \A j \in Instances : j # i => mem'[j] = mem[j]
    BY <1>4 DEF Stop, Empty, Nothing, TypeOK
  <2>2. \A t \in Tokens : Referenced(t)' => Referenced(t)
    BY <1>1, <1>4, <2>1 DEF Stop, answers, Referenced
  <2>3. \A j \in Instances : /\ mem'[j].access \subseteq mem[j].access
                             /\ mem'[j].gone.access \subseteq mem[j].gone.access
    BY <2>1
  <2> QED BY <1>1, <1>4, <2>2, <2>3, QuietKeeps DEF Stop, issues, answers
<1>5. CASE Boot(i)
  <2>1. UNCHANGED <<issued, grant, expired, handed, revoked>>
    BY <1>5 DEF Boot, issues, answers
  <2>2. CASE UNCHANGED <<disk, mem>>
    BY <2>1, <2>2 DEF SurvivalInv, OnlyIssued, Referenced, Kept
  <2>3. CASE /\ disk' = Unexpired(disk)
             /\ mem' = [mem EXCEPT ![i] = [access |-> disk'.access, refresh |-> disk'.refresh,
                                           used |-> disk'.used, gone |-> Nothing]]
    <3>1. /\ disk'.access = {t \in disk.access : t > expired.access}
          /\ \A u \in Tokens : disk'.used[u] \in {0, disk.used[u]}
      BY <2>3, UnexpiredEffect DEF TypeOK
    <3>2. /\ mem'[i].access = disk'.access /\ mem'[i].gone.access = {}
          /\ mem'[i].used = disk'.used
          /\ \A j \in Instances : j # i => mem'[j] = mem[j]
      BY <2>3 DEF Nothing, TypeOK
    <3>3. \A t \in Tokens : Referenced(t)' => Referenced(t)
      BY <1>1, <2>1, <3>1, <3>2 DEF Referenced
    <3>4. OnlyIssued'
      BY <2>1, <3>1, <3>2, <3>3 DEF SurvivalInv, OnlyIssued
    <3>5. \A t \in Tokens : Referenced(t)' => Kept(t)'
      BY <2>1, <3>1, <3>2, <3>3 DEF SurvivalInv, Kept
    <3> QED BY <3>4, <3>5 DEF SurvivalInv
  <2> QED BY <1>5, <2>2, <2>3 DEF Boot
<1> QED BY <1>2, <1>4, <1>5

LEMMA StepKeeps == TypeOK /\ TypeOK' /\ SurvivalInv /\ [Next]_vars => SurvivalInv'
<1> SUFFICES ASSUME TypeOK, TypeOK', SurvivalInv, [Next]_vars PROVE SurvivalInv'
  OBVIOUS
<1>1. ASSUME NEW i \in Instances, NEW r \in Requests,
             Decline(i) \/ Authorize(i, r) \/ CompleteLogin(i, r)
      PROVE  UNCHANGED <<disk, mem, issues, expired, answers>>
  BY <1>1 DEF Decline, Authorize, CompleteLogin
<1>2. ASSUME NEW i \in Instances, Decline(i)
      PROVE  UNCHANGED <<disk, mem, issues, expired, answers>>
  BY <1>2 DEF Decline
<1>3. CASE UNCHANGED <<disk, mem, issues, expired, answers>>
  BY <1>3 DEF SurvivalInv, OnlyIssued, Referenced, Kept, issues, answers
<1>4. CASE UNCHANGED vars
  BY <1>3, <1>4 DEF vars
<1>5. CASE Expire
  BY <1>5, ExpireKeeps
<1>6. ASSUME NEW i \in Instances, NEW r \in Requests, ExchangeCode(i, r) PROVE SurvivalInv'
  BY <1>6, IssueKeeps
<1>7. ASSUME NEW i \in Instances, NEW t \in Tokens,
             Refresh(i, t) \/ Replay(i, t) \/ Reuse(i, t) \/ Revoke(i, t)
      PROVE  SurvivalInv'
  BY <1>7, RefreshKeeps, EndKeeps, OthersKeep
<1>8. ASSUME NEW i \in Instances, Boot(i) \/ Stop(i) \/ Cleanup(i) PROVE SurvivalInv'
  BY <1>8, CleanupKeeps, OthersKeep
<1> QED BY <1>1, <1>2, <1>3, <1>4, <1>5, <1>6, <1>7, <1>8 DEF Next

\* A token that a client was answered with is stored until it expires or its
\* grant is revoked: through failed saves, restarts, failed loads and any number
\* of instances that merge into the store.
THEOREM HandedTokensSurvive == Spec => []HandedSurvives
<1>1. TypeOK /\ SurvivalInv => HandedSurvives
  BY DEF SurvivalInv, Referenced, Kept, HandedSurvives, TypeOK
<1> QED BY <1>1, SurvivalInit, TypeCorrect, StepKeeps, PTL DEF Spec

-----------------------------------------------------------------------------
(* What the helpers and the merge do to refresh tokens                     *)

\* A set of tokens has a last one.
LEMMA LastToken ==
    ASSUME NEW S \in SUBSET Tokens, S # {}
    PROVE  \E r \in S : \A o \in S : o <= r
<1> DEFINE left == {MaxIssues - t : t \in S}
           less == OpToRel(<, Nat)
<1>1. left \subseteq Nat /\ left # {} /\ \A t \in S : t \in 1..MaxIssues
  BY IssueBounds DEF IssueBounds, Tokens
<1>2. \A x, y \in Nat : x < y => <<x, y>> \in less
  BY DEF OpToRel
<1>3. IsWellFoundedOn(less, Nat)
  BY NatLessThanWellFounded
<1> HIDE DEF less
<1>4. PICK x \in left : \A y \in left : ~ (<<y, x>> \in less)
  <2> HIDE DEF left
  <2> QED BY <1>1, <1>3, WFMin
<1>5. \A y \in left : ~(y < x)
  BY <1>1, <1>2, <1>4
<1>6. PICK r \in S : x = MaxIssues - r
  OBVIOUS
<1>7. ASSUME NEW o \in S PROVE o <= r
  <2>1. MaxIssues - o \in left
    OBVIOUS
  <2>2. ~(MaxIssues - o < MaxIssues - r)
    BY <1>5, <1>6, <2>1
  <2>3. o \in Nat /\ r \in Nat /\ MaxIssues \in Nat
    BY <1>1, IssueBounds DEF IssueBounds
  <2> QED BY <2>2, <2>3
<1> QED BY <1>7

-----------------------------------------------------------------------------
(* Refresh tokens: what the helpers do to them and to what is deleted      *)

\* Of the tokens that are stored or in memory, not deleted here and not exchanged, the
\* store has the last one of each grant after a merge.
Candidates(m, grants) ==
    {t \in Tokens : /\ Merged(m, grants).used[t] = 0
                    /\ \/ t \in m.refresh
                       \/ t \in disk.refresh /\ t > expired.refresh /\ t \notin m.gone.refresh}

LEMMA MergedRefresh ==
    ASSUME NEW m \in Maps, NEW grants, disk \in Stored
    PROVE  /\ Merged(m, grants).refresh \subseteq Candidates(m, grants)
           /\ \A t, o \in Merged(m, grants).refresh : grants[t] = grants[o] => t = o
           /\ \A t \in Candidates(m, grants) :
                 /\ (\A o \in Candidates(m, grants) : grants[o] = grants[t] => o <= t) =>
                       t \in Merged(m, grants).refresh
                 /\ \E r \in Merged(m, grants).refresh : r >= t /\ grants[r] = grants[t]
<1> DEFINE d == Unexpired(disk)
           used == [t \in Tokens |->
                      IF m.used[t] # 0 THEN m.used[t]
                      ELSE IF t \in m.gone.used THEN 0 ELSE d.used[t]]
           C == {t \in (d.refresh \ m.gone.refresh) \cup m.refresh : used[t] = 0}
           last == {t \in C : \A o \in C : grants[o] = grants[t] => o <= t}
<1>1. Merged(m, grants).refresh = last /\ Merged(m, grants).used = used
  BY DEF Merged
<1>2. d.refresh = {t \in disk.refresh : t > expired.refresh}
  BY DEF Unexpired
<1>3. C \in SUBSET Tokens /\ C = Candidates(m, grants)
  <2> HIDE DEF used, d
  <2> QED BY <1>1, <1>2 DEF Maps, Stored, Deleted, Candidates
<1> HIDE DEF C
<1>n. \A t \in Tokens : t \in Nat
  BY DEF Tokens
<1>4. \A t, o \in last : grants[t] = grants[o] => t = o
  <2> SUFFICES ASSUME NEW t \in last, NEW o \in last, grants[t] = grants[o] PROVE t = o
    OBVIOUS
  <2>1. t \in Nat /\ o \in Nat /\ t <= o /\ o <= t
    BY <1>3, <1>n
  <2> QED BY <2>1
<1>5. ASSUME NEW t \in C PROVE \E r \in last : r >= t /\ grants[r] = grants[t]
  <2> DEFINE S == {o \in C : grants[o] = grants[t]}
  <2>1. S \in SUBSET Tokens /\ S # {}
    BY <1>3
  <2>2. PICK r \in S : \A o \in S : o <= r
    <3> HIDE DEF S
    <3> QED BY <2>1, LastToken
  <2>3. r \in last /\ t <= r /\ grants[r] = grants[t]
    BY <2>2
  <2>4. r \in Nat /\ t \in Nat
    BY <1>3, <1>n, <2>2
  <2> QED BY <2>3, <2>4
<1>6. \A t \in C : (\A o \in C : grants[o] = grants[t] => o <= t) => t \in last
  OBVIOUS
<1>7. last \subseteq C
  OBVIOUS
<1> HIDE DEF last, used, d
<1> QED BY <1>1, <1>3, <1>4, <1>5, <1>6, <1>7

\* The answers of rotations after a merge.
LEMMA MergedUsed ==
    ASSUME NEW m \in Maps, NEW grants, disk \in Stored, NEW t \in Tokens
    PROVE  Merged(m, grants).used[t] =
              IF m.used[t] # 0 THEN m.used[t]
              ELSE IF t \in m.gone.used \/ ~(t > expired.refresh) THEN 0 ELSE disk.used[t]
BY DEF Merged, Unexpired, Stored, Maps, Deleted

LEMMA PutAccessRefreshes ==
    ASSUME NEW m \in Maps, NEW t \in Tokens
    PROVE  /\ PutAccess(m, t).refresh = m.refresh
           /\ PutAccess(m, t).gone.refresh = m.gone.refresh
           /\ PutAccess(m, t).gone.used = m.gone.used
BY DEF PutAccess, Maps, Deleted

LEMMA DropAccessRefreshes ==
    ASSUME NEW m \in Maps, NEW T
    PROVE  /\ DropAccess(m, T).refresh = m.refresh
           /\ DropAccess(m, T).gone.refresh = m.gone.refresh
           /\ DropAccess(m, T).gone.used = m.gone.used
BY DEF DropAccess, Maps, Deleted

LEMMA PutRefreshRefreshes ==
    ASSUME NEW m \in Maps, NEW t \in Tokens
    PROVE  /\ PutRefresh(m, t).refresh = m.refresh \cup {t}
           /\ PutRefresh(m, t).gone.refresh = m.gone.refresh \ {t}
           /\ PutRefresh(m, t).gone.used = m.gone.used
BY DEF PutRefresh, Maps, Deleted

LEMMA DropRefreshRefreshes ==
    ASSUME NEW m \in Maps, NEW T
    PROVE  /\ DropRefresh(m, T).refresh = m.refresh \ T
           /\ DropRefresh(m, T).gone.refresh = m.gone.refresh \cup (T \cap m.refresh)
           /\ DropRefresh(m, T).gone.used = m.gone.used
BY DEF DropRefresh, Maps, Deleted

LEMMA PutUsedRefreshes ==
    ASSUME NEW m \in Maps, NEW t \in Tokens, NEW n \in Tokens
    PROVE  /\ PutUsed(m, t, n).refresh = m.refresh
           /\ PutUsed(m, t, n).gone.refresh = m.gone.refresh
           /\ PutUsed(m, t, n).gone.used = m.gone.used \ {t}
           /\ PutUsed(m, t, n).used[t] = n
BY TokenNumbers DEF PutUsed, Maps, Deleted

LEMMA DropUsedRefreshes ==
    ASSUME NEW m \in Maps, NEW T \in SUBSET Tokens
    PROVE  /\ DropUsed(m, T).refresh = m.refresh
           /\ DropUsed(m, T).gone.refresh = m.gone.refresh
           /\ DropUsed(m, T).gone.used = m.gone.used \cup {u \in T : m.used[u] # 0}
BY DEF DropUsed, Maps, Deleted

LEMMA IssueRefreshes ==
    ASSUME NEW m \in Maps, NEW n \in Tokens
    PROVE  /\ Issue(m, n).refresh = m.refresh \cup {n}
           /\ Issue(m, n).gone.refresh = m.gone.refresh \ {n}
           /\ Issue(m, n).gone.used = m.gone.used
<1> DEFINE p == PutAccess(m, n)
<1>1. /\ p \in Maps /\ p.refresh = m.refresh /\ p.gone.refresh = m.gone.refresh
      /\ p.gone.used = m.gone.used
  BY PutAccessEffect, PutAccessRefreshes
<1>2. Issue(m, n) = PutRefresh(p, n)
  BY DEF Issue
<1> HIDE DEF p
<1> QED BY <1>1, <1>2, PutRefreshRefreshes

LEMMA WithdrawnRefreshes ==
    ASSUME NEW m \in Maps, NEW n \in Tokens
    PROVE  /\ Withdrawn(m, n).refresh = m.refresh \ {n}
           /\ Withdrawn(m, n).gone.refresh = m.gone.refresh \cup ({n} \cap m.refresh)
           /\ Withdrawn(m, n).gone.used = m.gone.used
<1> DEFINE a == DropAccess(m, {n})
<1>1. /\ a \in Maps /\ a.refresh = m.refresh /\ a.gone.refresh = m.gone.refresh
      /\ a.gone.used = m.gone.used
  BY DropAccessEffect, DropAccessRefreshes
<1>2. Withdrawn(m, n) = DropRefresh(a, {n})
  BY DEF Withdrawn
<1> HIDE DEF a
<1> QED BY <1>1, <1>2, DropRefreshRefreshes

LEMMA RotatedRefreshes ==
    ASSUME NEW m \in Maps, NEW t \in Tokens, NEW n \in Tokens
    PROVE  /\ Rotated(m, t, n).refresh = (m.refresh \ {t}) \cup {n}
           /\ Rotated(m, t, n).gone.refresh =
                 (m.gone.refresh \cup ({t} \cap m.refresh)) \ {n}
           /\ Rotated(m, t, n).gone.used = m.gone.used \ {t}
           /\ Rotated(m, t, n).used[t] = n
<1> DEFINE d == DropRefresh(m, {t})
           p == PutUsed(d, t, n)
<1>1. /\ d \in Maps /\ d.refresh = m.refresh \ {t} /\ d.gone.used = m.gone.used
      /\ d.gone.refresh = m.gone.refresh \cup ({t} \cap m.refresh)
  BY DropRefreshEffect, DropRefreshRefreshes
<1>2. Rotated(m, t, n) = Issue(p, n)
  BY DEF Rotated
<1> HIDE DEF d
<1>3. p \in Maps
  BY <1>1, PutUsedEffect
<1>5. /\ p.refresh = d.refresh /\ p.gone.refresh = d.gone.refresh
      /\ p.gone.used = d.gone.used \ {t} /\ p.used[t] = n
  BY <1>1, PutUsedRefreshes
<1> HIDE DEF p
<1>4. /\ Issue(p, n).refresh = p.refresh \cup {n} /\ Issue(p, n).used = p.used
      /\ Issue(p, n).gone.refresh = p.gone.refresh \ {n}
      /\ Issue(p, n).gone.used = p.gone.used
  BY <1>3, IssueEffect, IssueRefreshes
<1> QED BY <1>1, <1>2, <1>5, <1>4

LEMMA RotationUndoneRefreshes ==
    ASSUME NEW m \in Maps, NEW t \in Tokens, NEW n \in Tokens
    PROVE  /\ RotationUndone(m, t, n).refresh = (m.refresh \ {n}) \cup {t}
           /\ RotationUndone(m, t, n).gone.refresh =
                 (m.gone.refresh \cup ({n} \cap m.refresh)) \ {t}
           /\ RotationUndone(m, t, n).gone.used \subseteq m.gone.used \cup {t}
<1> DEFINE w == Withdrawn(m, n)
           d == DropUsed(w, {t})
<1>1. /\ w \in Maps /\ w.refresh = m.refresh \ {n} /\ w.gone.used = m.gone.used
      /\ w.gone.refresh = m.gone.refresh \cup ({n} \cap m.refresh)
  BY WithdrawnEffect, WithdrawnRefreshes
<1>2. RotationUndone(m, t, n) = PutRefresh(d, t)
  BY DEF RotationUndone, Withdrawn
<1> HIDE DEF w
<1>3. /\ d \in Maps /\ d.refresh = w.refresh /\ d.gone.refresh = w.gone.refresh
      /\ d.gone.used = w.gone.used \cup {u \in {t} : w.used[u] # 0}
  BY <1>1, DropUsedEffect, DropUsedRefreshes
<1> HIDE DEF d
<1>4. /\ PutRefresh(d, t).refresh = d.refresh \cup {t}
      /\ PutRefresh(d, t).gone.refresh = d.gone.refresh \ {t}
      /\ PutRefresh(d, t).gone.used = d.gone.used
  BY <1>3, PutRefreshRefreshes
<1> QED BY <1>1, <1>2, <1>3, <1>4

LEMMA DropRefreshes ==
    ASSUME NEW m \in Maps, NEW T \in SUBSET Tokens
    PROVE  /\ Drop(m, T).refresh = m.refresh \ T
           /\ Drop(m, T).gone.refresh = m.gone.refresh \cup (T \cap m.refresh)
           /\ Drop(m, T).gone.used = m.gone.used \cup {u \in T : m.used[u] # 0}
           /\ \A u \in Tokens : Drop(m, T).used[u] = IF u \in T THEN 0 ELSE m.used[u]
<1> DEFINE a == DropAccess(m, T)
           d == DropRefresh(a, T)
<1>1. /\ a \in Maps /\ a.refresh = m.refresh /\ a.gone.refresh = m.gone.refresh
      /\ a.gone.used = m.gone.used /\ a.used = m.used
  BY DropAccessEffect, DropAccessRefreshes
<1>2. Drop(m, T) = DropUsed(d, T)
  BY DEF Drop
<1> HIDE DEF a
<1>3. /\ d \in Maps /\ d.refresh = a.refresh \ T /\ d.used = a.used
      /\ d.gone.refresh = a.gone.refresh \cup (T \cap a.refresh)
      /\ d.gone.used = a.gone.used
  BY <1>1, DropRefreshEffect, DropRefreshRefreshes
<1> HIDE DEF d
<1>4. /\ DropUsed(d, T).refresh = d.refresh /\ DropUsed(d, T).gone.refresh = d.gone.refresh
      /\ DropUsed(d, T).gone.used = d.gone.used \cup {u \in T : d.used[u] # 0}
      /\ \A u \in Tokens : DropUsed(d, T).used[u] = IF u \in T THEN 0 ELSE d.used[u]
  BY <1>3, DropUsedEffect, DropUsedRefreshes
<1> QED BY <1>1, <1>2, <1>3, <1>4

LEMMA CleanedRefreshes ==
    ASSUME TypeOK, NEW i \in Instances
    PROVE  /\ Cleaned(i).refresh = mem[i].refresh \ 1..expired.refresh
           /\ Cleaned(i).gone.refresh =
                 mem[i].gone.refresh \cup (1..expired.refresh \cap mem[i].refresh)
           /\ Cleaned(i).gone.used =
                 mem[i].gone.used \cup {u \in 1..expired.refresh : mem[i].used[u] # 0}
           /\ \A u \in Tokens :
                 Cleaned(i).used[u] = IF u \in 1..expired.refresh THEN 0 ELSE mem[i].used[u]
<1> DEFINE over == 1..expired.refresh
           a == DropAccess(mem[i], 1..expired.access)
           r == DropRefresh(a, over)
<1>1. mem[i] \in Maps /\ over \in SUBSET Tokens
  BY IssueBounds, TokenNumbers DEF TypeOK, Tokens, IssueBounds
<1>2. Cleaned(i) = DropUsed(r, over)
  BY DEF Cleaned
<1> HIDE DEF over
<1>3. /\ a \in Maps /\ a.refresh = mem[i].refresh /\ a.gone.refresh = mem[i].gone.refresh
      /\ a.gone.used = mem[i].gone.used /\ a.used = mem[i].used
  BY <1>1, DropAccessEffect, DropAccessRefreshes
<1> HIDE DEF a
<1>4. /\ r \in Maps /\ r.refresh = a.refresh \ over /\ r.used = a.used
      /\ r.gone.refresh = a.gone.refresh \cup (over \cap a.refresh)
      /\ r.gone.used = a.gone.used
  BY <1>3, DropRefreshEffect, DropRefreshRefreshes
<1> HIDE DEF r
<1>5. /\ DropUsed(r, over).refresh = r.refresh
      /\ DropUsed(r, over).gone.refresh = r.gone.refresh
      /\ DropUsed(r, over).gone.used = r.gone.used \cup {u \in over : r.used[u] # 0}
      /\ \A u \in Tokens : DropUsed(r, over).used[u] = IF u \in over THEN 0 ELSE r.used[u]
  BY <1>1, <1>4, DropUsedEffect, DropUsedRefreshes
<1> QED BY <1>2, <1>3, <1>4, <1>5 DEF over

-----------------------------------------------------------------------------
(* The refresh token of a grant                                            *)

\* Grants that are over; and a token t whose grant goes on.
Over == revoked \cup ended
Live(t) == t > expired.refresh /\ grant[t] \notin Over

\* A token is exchanged for a later one of its grant.
Lineage(m) ==
    \A t \in Tokens : m.used[t] # 0 => m.used[t] > t /\ grant[m.used[t]] = grant[t]

\* A grant has one refresh token, which was not exchanged.
OneEach(m) ==
    /\ \A t, u \in m.refresh : grant[t] = grant[u] => t = u
    /\ \A t \in m.refresh : m.used[t] = 0

\* Records and grants are of tokens that were issued.
IssuedFirst ==
    /\ disk.refresh \subseteq 1..issued
    /\ \A t \in Tokens : disk.used[t] <= issued
    /\ \A i \in Instances :
          /\ mem[i].refresh \cup mem[i].gone.refresh \cup mem[i].gone.used \subseteq 1..issued
          /\ \A t \in Tokens : mem[i].used[t] <= issued
    /\ \A t \in Tokens : t <= issued => grant[t] \in 1..issued
    /\ Over \subseteq 1..issued

\* What an instance remembers as deleted has expired or was never stored.
Withdrawals ==
    \A i \in Instances, t \in Tokens : t \in mem[i].gone.refresh /\ t > expired.refresh =>
        t \notin disk.refresh /\ \A j \in Instances : t \notin mem[j].refresh

\* The stored token of a grant is no older than any that a client may hold.
Carried ==
    \A t \in Tokens : Referenced(t) /\ Live(t) =>
        \E r \in disk.refresh : r >= t /\ grant[r] = grant[t]

LineageInv ==
    /\ IssuedFirst /\ Withdrawals /\ Carried
    /\ Lineage(disk) /\ OneEach(disk)
    /\ \A i \in Instances : Lineage(mem[i]) /\ OneEach(mem[i])

\* The token that a step issues.
Fresh == {t \in Tokens : t > issued /\ t = issued'}

\* The grant of a token that was issued does not change; what is over stays so.
FairStep ==
    /\ issued' \in Numbers /\ issued' \in {issued, issued + 1} /\ expired' = expired
    /\ \A t \in Tokens : t <= issued => grant'[t] = grant[t]
    /\ revoked \subseteq revoked' /\ ended \subseteq ended'
    /\ Over' \subseteq 1..issued'
    /\ \A t \in Fresh : grant'[t] \in 1..issued'

Held(m, t) == t \in m.access \cup m.refresh \/ m.used[t] # 0

\* The Maps m that instance i saves: what they lack is deleted, what they add is the
\* new token, in place of the one it was exchanged for or of a grant of its own, and
\* no grant that goes on loses its token.
Told(i, m) ==
    /\ mem[i].access \ m.access \subseteq m.gone.access
    /\ mem[i].refresh \ m.refresh \subseteq m.gone.refresh
    /\ \A t \in Tokens : mem[i].used[t] # 0 /\ m.used[t] = 0 => t \in m.gone.used
    /\ m.gone.refresh \subseteq mem[i].gone.refresh \cup (mem[i].refresh \ m.refresh)
    /\ m.gone.access \subseteq mem[i].gone.access \cup mem[i].access
    /\ \A t \in m.gone.used : t \in mem[i].gone.used \/ mem[i].used[t] # 0
                              \/ t \in mem[i].refresh

Added(i, m) ==
    /\ m.access \subseteq mem[i].access \cup Fresh
    /\ m.refresh \subseteq mem[i].refresh \cup Fresh
    /\ \A t \in Tokens : m.used[t] \in {0, mem[i].used[t]} \/
          /\ t \in mem[i].refresh \ m.refresh /\ m.used[t] \in Fresh \cap m.refresh
          /\ grant'[m.used[t]] = grant[t]
    /\ \A t \in Fresh :
          grant'[t] = t \/ \E u \in mem[i].refresh \ m.refresh : grant'[t] = grant[u]

Lasts(i, m) ==
    \A t \in Tokens : t > expired.refresh /\ t <= issued /\ grant[t] \notin Over' =>
        /\ t \in mem[i].refresh \ m.refresh => m.used[t] # 0
        /\ mem[i].used[t] # 0 => m.used[t] # 0

Ends(i, m) ==
    \A t \in Tokens :
        /\ grant'[t] \in (revoked' \ revoked) \cup (ended' \ ended) =>
              t \notin m.refresh /\ \E u \in OfGrant(grant[t]) : Held(mem[i], u)
        /\ grant'[t] \in revoked' \ revoked => ~Held(m, t)

Prepared(i, m) == Told(i, m) /\ Added(i, m) /\ Lasts(i, m) /\ Ends(i, m)

\* The Maps that it is left with when the save throws: those it had, up to what has
\* expired; what they remember as deleted has expired or is new.
Restored(i, m) ==
    /\ m.access \subseteq mem[i].access /\ m.refresh \subseteq mem[i].refresh
    /\ \A t \in mem[i].access : t > expired.access => t \in m.access
    /\ \A t \in mem[i].refresh : t > expired.refresh => t \in m.refresh
    /\ \A t \in Tokens : /\ m.used[t] \in {0, mem[i].used[t]}
                         /\ t > expired.refresh => m.used[t] = mem[i].used[t]
    /\ m.gone.access \subseteq mem[i].gone.access \cup mem[i].access \cup Fresh
    /\ \A t \in m.gone.refresh : \/ t \in mem[i].gone.refresh \cup Fresh
                                 \/ t \in mem[i].refresh /\ ~(t > expired.refresh)
    /\ \A t \in m.gone.used : t \in mem[i].gone.used \cup mem[i].refresh
                              \/ mem[i].used[t] # 0
    /\ \A t \in Fresh : grant'[t] = t \/ \E u \in mem[i].refresh : grant'[t] = grant[u]
    /\ UNCHANGED <<handed, revoked, ended>>

\* The grants of an exchange that is recorded do not change.
LEMMA LineageStays ==
    ASSUME NEW m, m.used \in [Tokens -> Numbers], Lineage(m), issued \in Nat,
           \A t \in Tokens : m.used[t] <= issued,
           \A t \in Tokens : t <= issued => grant'[t] = grant[t], NEW t \in Tokens,
           m.used[t] # 0
    PROVE  /\ m.used[t] > t /\ m.used[t] <= issued /\ m.used[t] \in Tokens
           /\ grant[m.used[t]] = grant[t] /\ grant'[m.used[t]] = grant'[t]
<1> DEFINE s == m.used[t]
<1>1. s > t /\ s <= issued /\ grant[s] = grant[t] /\ s \in Numbers /\ s # 0
  BY DEF Lineage
<1> HIDE DEF s
<1>2. s \in Tokens /\ t <= issued
  BY <1>1, IssueBounds DEF Tokens, Numbers, IssueBounds
<1> QED BY <1>1, <1>2 DEF s

LEMMA SaveCarries ==
    ASSUME TypeOK, TypeOK', OnlyIssued, LineageInv, NEW i \in Instances, NEW m \in Maps,
           Saves(i, m, grant'), Prepared(i, m), FairStep,
           \A t \in handed' : t \in handed \/ t \in Fresh \cap m.refresh
                              \/ \E u \in Tokens : mem[i].used[u] = t
    PROVE  LineageInv'
<1>0. issued \in Nat /\ issued' \in Nat /\ \A t \in Tokens : t \in Nat /\ t # 0
  BY TokenNumbers, IssueBounds DEF TypeOK, FairStep, IssueBounds, Tokens
<1>1. /\ disk' = Merged(m, grant') /\ mem'[i] = [m EXCEPT !.gone = Nothing]
      /\ \A j \in Instances : j # i => mem'[j] = mem[j]
  BY DEF Saves, TypeOK
<1>2. /\ mem'[i].refresh = m.refresh /\ mem'[i].used = m.used
      /\ mem'[i].gone.refresh = {} /\ mem'[i].gone.used = {}
  BY <1>1 DEF Maps, Nothing
<1>3. /\ mem[i] \in Maps /\ disk \in Stored /\ disk' \in Stored
      /\ grant \in [Tokens -> Numbers] /\ grant' \in [Tokens -> Numbers]
  BY DEF TypeOK
<1> DEFINE C == Candidates(m, grant')
<1>4. /\ disk'.refresh \subseteq C
      /\ \A t, o \in disk'.refresh : grant'[t] = grant'[o] => t = o
      /\ \A t \in C : \E r \in disk'.refresh : r >= t /\ grant'[r] = grant'[t]
  BY <1>1, <1>3, MergedRefresh
<1>c. C = {t \in Tokens :
             /\ disk'.used[t] = 0
             /\ \/ t \in m.refresh
                \/ t \in disk.refresh /\ t > expired.refresh /\ t \notin m.gone.refresh}
  BY <1>1 DEF Candidates
<1> HIDE DEF C
<1>5. \A t \in Tokens : disk'.used[t] =
         IF m.used[t] # 0 THEN m.used[t]
         ELSE IF t \in m.gone.used \/ ~(t > expired.refresh) THEN 0 ELSE disk.used[t]
  BY <1>1, <1>3, MergedUsed
<1>6. \A t \in Tokens : t <= issued => grant'[t] = grant[t]
  BY DEF FairStep
<1>7. \A t \in Tokens : m.used[t] \in {0, mem[i].used[t]} \/
          /\ t \in mem[i].refresh \ m.refresh /\ m.used[t] \in Fresh \cap m.refresh
          /\ grant'[m.used[t]] = grant[t]
  BY DEF Prepared, Added
<1>8. \A t \in Fresh : t \in Tokens /\ t > issued /\ t = issued'
  BY DEF Fresh
<1>9. ASSUME NEW n \in Fresh PROVE mem[i].used[n] = 0 /\ disk.used[n] = 0 /\ m.used[n] = 0
  <2>1. n \in Tokens /\ n > issued
    BY <1>8
  <2>2. mem[i].used[n] = 0 /\ disk.used[n] = 0
    <3>1. mem[i].used[n] # 0 => mem[i].used[n] > n /\ mem[i].used[n] <= issued
      BY <2>1 DEF LineageInv, Lineage, IssuedFirst
    <3>2. disk.used[n] # 0 => disk.used[n] > n /\ disk.used[n] <= issued
      BY <2>1 DEF LineageInv, Lineage, IssuedFirst
    <3>3. mem[i].used[n] \in Nat /\ disk.used[n] \in Nat
      BY <1>3, <2>1 DEF Maps, Stored, Numbers
    <3> QED BY <1>0, <2>1, <3>1, <3>2, <3>3
  <2>3. n \notin mem[i].refresh
    BY <1>0, <2>1 DEF LineageInv, IssuedFirst
  <2> QED BY <1>7, <2>1, <2>2, <2>3
<1>10. Fresh \cap m.refresh \subseteq C
  BY <1>5, <1>8, <1>9, <1>c
<1>11. IssuedFirst'
  <2>1. disk'.refresh \subseteq 1..issued'
    <3>1. C \subseteq m.refresh \cup disk.refresh
      BY <1>c
    <3>2. m.refresh \subseteq mem[i].refresh \cup Fresh
      BY DEF Prepared, Added
    <3>3. 1..issued \cup Fresh \subseteq 1..issued'
      BY <1>0, <1>8 DEF FairStep
    <3> QED BY <1>4, <3>1, <3>2, <3>3 DEF LineageInv, IssuedFirst
  <2>2. \A t \in Tokens : m.used[t] <= issued'
    <3> SUFFICES ASSUME NEW t \in Tokens PROVE m.used[t] <= issued'
      OBVIOUS
    <3>1. mem[i].used[t] <= issued /\ mem[i].used[t] \in Nat
      BY <1>3 DEF LineageInv, IssuedFirst, Maps, Numbers
    <3> QED BY <1>0, <1>7, <1>8, <3>1 DEF FairStep
  <2>3. \A t \in Tokens : disk'.used[t] <= issued'
    <3> SUFFICES ASSUME NEW t \in Tokens PROVE disk'.used[t] <= issued'
      OBVIOUS
    <3>1. disk.used[t] <= issued /\ disk.used[t] \in Nat
      BY <1>3 DEF LineageInv, IssuedFirst, Stored, Numbers
    <3> QED BY <1>0, <1>5, <2>2, <3>1 DEF FairStep
  <2>4. m.refresh \subseteq 1..issued'
    <3>1. m.refresh \subseteq mem[i].refresh \cup Fresh
      BY DEF Prepared, Added
    <3>2. 1..issued \cup Fresh \subseteq 1..issued'
      BY <1>0, <1>8 DEF FairStep
    <3> QED BY <3>1, <3>2 DEF LineageInv, IssuedFirst
  <2>5. ASSUME NEW j \in Instances, j # i
        PROVE  /\ mem'[j].refresh \cup mem'[j].gone.refresh \cup mem'[j].gone.used
                     \subseteq 1..issued'
               /\ \A t \in Tokens : mem'[j].used[t] <= issued'
    <3>1. mem'[j] = mem[j] /\ mem[j] \in Maps
      BY <1>1, <2>5 DEF TypeOK
    <3>2. 1..issued \subseteq 1..issued'
      BY <1>0 DEF FairStep
    <3>3. \A t \in Tokens : mem[j].used[t] <= issued /\ mem[j].used[t] \in Nat
      BY <3>1 DEF LineageInv, IssuedFirst, Maps, Numbers
    <3>4. \A t \in Tokens : mem[j].used[t] <= issued'
      BY <1>0, <3>3 DEF FairStep
    <3> QED BY <3>1, <3>2, <3>4 DEF LineageInv, IssuedFirst
  <2>6. \A t \in Tokens : t <= issued' => grant'[t] \in 1..issued'
    <3> SUFFICES ASSUME NEW t \in Tokens, t <= issued' PROVE grant'[t] \in 1..issued'
      OBVIOUS
    <3>1. CASE t <= issued
      BY <1>0, <1>6, <3>1 DEF LineageInv, IssuedFirst, FairStep
    <3>2. CASE t > issued /\ t = issued'
      BY <3>2 DEF Fresh, FairStep
    <3>3. issued' = issued \/ issued' = issued + 1
      BY DEF FairStep
    <3> QED BY <1>0, <3>1, <3>2, <3>3
  <2> QED BY <1>2, <2>1, <2>2, <2>3, <2>4, <2>5, <2>6 DEF IssuedFirst, FairStep
<1>12. Withdrawals'
  <2> SUFFICES ASSUME NEW k \in Instances, NEW t \in Tokens, t \in mem'[k].gone.refresh,
                      t > expired.refresh
               PROVE  t \notin disk'.refresh /\ \A j \in Instances : t \notin mem'[j].refresh
    BY DEF Withdrawals, FairStep
  <2>1. k # i /\ t \in mem[k].gone.refresh
    BY <1>1, <1>2
  <2>2. t \notin disk.refresh /\ \A j \in Instances : t \notin mem[j].refresh
    BY <2>1 DEF LineageInv, Withdrawals
  <2>3. t \notin Fresh
    BY <1>0, <1>8, <2>1 DEF LineageInv, IssuedFirst
  <2>4. t \notin m.refresh
    BY <2>2, <2>3 DEF Prepared, Added
  <2> QED BY <1>1, <1>2, <1>4, <1>c, <2>2, <2>4
<1>13. Lineage(mem[i])' /\ Lineage(disk)'
  <2>1. \A t \in Tokens : m.used[t] # 0 => m.used[t] > t /\ grant'[m.used[t]] = grant'[t]
    <3> SUFFICES ASSUME NEW t \in Tokens, m.used[t] # 0
                 PROVE  m.used[t] > t /\ grant'[m.used[t]] = grant'[t]
      OBVIOUS
    <3>1. CASE m.used[t] = mem[i].used[t]
      BY <1>0, <1>3, <1>6, <3>1, LineageStays DEF LineageInv, IssuedFirst, Maps
    <3>2. CASE t \in mem[i].refresh \ m.refresh /\ m.used[t] \in Fresh \cap m.refresh
               /\ grant'[m.used[t]] = grant[t]
      <4>1. t <= issued
        BY <3>2 DEF LineageInv, IssuedFirst
      <4> QED BY <1>0, <1>6, <1>8, <3>2, <4>1
    <3> QED BY <1>7, <3>1, <3>2
  <2>2. \A t \in Tokens : disk.used[t] # 0 => /\ disk.used[t] > t
                                              /\ grant'[disk.used[t]] = grant'[t]
    BY <1>0, <1>3, <1>6, LineageStays DEF LineageInv, IssuedFirst, Stored
  <2>3. \A t \in Tokens : disk'.used[t] \in {0, m.used[t], disk.used[t]}
    BY <1>5
  <2> QED BY <1>2, <2>1, <2>2, <2>3 DEF Lineage
<1>14. OneEach(disk)'
  BY <1>4, <1>c DEF OneEach
<1>15. OneEach(mem[i])'
  <2>1. \A t \in m.refresh : t \in Fresh \/ (t \in mem[i].refresh /\ t <= issued)
    BY DEF Prepared, Added, LineageInv, IssuedFirst
  <2>2. \A t \in m.refresh : m.used[t] = 0
    BY <1>3, <1>7, <1>9, <2>1 DEF LineageInv, OneEach, Maps
  <2>3. ASSUME NEW t \in m.refresh, NEW u \in m.refresh, grant'[t] = grant'[u],
               t \in Fresh, u \notin Fresh
        PROVE  FALSE
    <3>1. u \in mem[i].refresh /\ u <= issued /\ grant'[u] = grant[u] /\ u \in Tokens
      BY <1>3, <1>6, <2>1, <2>3 DEF Maps
    <3>2. grant[u] \in 1..issued
      BY <3>1 DEF LineageInv, IssuedFirst
    <3>3. grant'[t] # t
      BY <1>0, <1>8, <2>3, <3>1, <3>2
    <3>4. PICK o \in mem[i].refresh \ m.refresh : grant'[t] = grant[o]
      BY <2>3, <3>3 DEF Prepared, Added
    <3>5. o = u
      BY <2>3, <3>1, <3>4 DEF LineageInv, OneEach
    <3> QED BY <3>4, <3>5
  <2>4. ASSUME NEW t \in m.refresh, NEW u \in m.refresh, grant'[t] = grant'[u],
               t \notin Fresh, u \notin Fresh
        PROVE  t = u
    <3>1. t \in mem[i].refresh /\ u \in mem[i].refresh /\ grant[t] = grant[u]
      BY <1>3, <1>6, <2>1, <2>4 DEF Maps
    <3> QED BY <3>1 DEF LineageInv, OneEach
  <2>5. \A t, u \in Fresh : t = u
    BY DEF Fresh
  <2> QED BY <1>2, <2>2, <2>3, <2>4, <2>5 DEF OneEach
<1>16. ASSUME NEW j \in Instances, j # i PROVE Lineage(mem[j])' /\ OneEach(mem[j])'
  <2>1. mem'[j] = mem[j] /\ mem[j] \in Maps
    BY <1>1, <1>16 DEF TypeOK
  <2>2. \A t \in Tokens : mem[j].used[t] # 0 =>
           mem[j].used[t] > t /\ grant'[mem[j].used[t]] = grant'[t]
    BY <1>0, <1>6, <2>1, LineageStays DEF LineageInv, IssuedFirst, Maps
  <2>3. \A t \in mem[j].refresh : grant'[t] = grant[t]
    BY <1>0, <1>6, <2>1 DEF LineageInv, IssuedFirst, Maps
  <2> QED BY <2>1, <2>2, <2>3 DEF Lineage, OneEach, LineageInv
<1>17. Carried'
  <2> SUFFICES ASSUME NEW t \in Tokens, Referenced(t)', Live(t)'
               PROVE  \E r \in disk'.refresh : r >= t /\ grant'[r] = grant'[t]
    BY DEF Carried
  <2>1. Referenced(t) \/ t \in Fresh \cap m.refresh
    <3>1. \A u \in Tokens : m.used[u] = t =>
             mem[i].used[u] = t \/ t \in Fresh \cap m.refresh
      BY <1>0, <1>7
    <3>2. CASE \E u \in Tokens : mem'[i].used[u] = t
      BY <1>2, <3>1, <3>2 DEF Referenced
    <3>3. CASE \E u \in Tokens : disk'.used[u] = t
      BY <1>0, <1>5, <3>1, <3>3 DEF Referenced
    <3>4. CASE \E j \in Instances, u \in Tokens : j # i /\ mem'[j].used[u] = t
      BY <1>1, <3>4 DEF Referenced
    <3>5. CASE t \in handed'
      BY <3>5 DEF Referenced
    <3> QED BY <3>2, <3>3, <3>4, <3>5 DEF Referenced
  <2>2. ASSUME NEW n \in C, n >= t, grant'[n] = grant'[t]
        PROVE  \E r \in disk'.refresh : r >= t /\ grant'[r] = grant'[t]
    <3>1. PICK r \in disk'.refresh : r >= n /\ grant'[r] = grant'[n]
      BY <1>4
    <3>2. r \in Nat /\ n \in Nat /\ t \in Nat
      BY <1>0, <1>4, <1>c, <2>2, <3>1
    <3>3. r >= t
      BY <2>2, <3>1, <3>2
    <3> QED BY <2>2, <3>1, <3>3
  <2>3. CASE t \in Fresh \cap m.refresh
    BY <1>0, <1>10, <2>2, <2>3
  <2>4. CASE Referenced(t)
    <3>1. t <= issued /\ grant'[t] = grant[t]
      BY <1>6, <2>4 DEF OnlyIssued
    <3>2. Live(t)
      BY <3>1 DEF Live, FairStep, Over
    <3>3. PICK r \in disk.refresh : r >= t /\ grant[r] = grant[t]
      BY <2>4, <3>2 DEF LineageInv, Carried
    <3>4. /\ r \in Tokens /\ r \in Nat /\ r <= issued /\ grant'[r] = grant[r]
          /\ r > expired.refresh /\ grant[r] \notin Over' /\ disk.used[r] = 0
      <4>1. r \in Tokens /\ r <= issued /\ disk.used[r] = 0
        BY <1>0, <1>3, <3>3 DEF Stored, LineageInv, IssuedFirst, OneEach
      <4>2. expired.refresh \in Nat /\ t > expired.refresh
        BY <3>2 DEF TypeOK, Numbers, Live
      <4> QED BY <1>0, <1>6, <3>1, <3>3, <4>1, <4>2 DEF Live, FairStep
    <3>5. mem[i].used[r] = 0
      <4>1. SUFFICES ASSUME mem[i].used[r] # 0 PROVE FALSE
        OBVIOUS
      <4> DEFINE s == mem[i].used[r]
      <4>2. s > r /\ grant[s] = grant[r] /\ s \in Tokens /\ s \in Nat
        <5>1. /\ mem[i].used \in [Tokens -> Numbers] /\ Lineage(mem[i])
              /\ \A u \in Tokens : mem[i].used[u] <= issued
          BY <1>3 DEF LineageInv, IssuedFirst, Maps
        <5>2. s > r /\ grant[s] = grant[r] /\ s \in Tokens
          BY <1>0, <1>6, <3>4, <4>1, <5>1, LineageStays
        <5> QED BY <1>0, <5>2
      <4>3. Referenced(s)
        BY <3>4 DEF Referenced
      <4> HIDE DEF s
      <4>4. Live(s)
        <5>1. grant[s] \notin Over
          BY <3>2, <3>3, <4>2 DEF Live
        <5>2. s > expired.refresh
          BY <3>4, <4>2 DEF TypeOK, Numbers
        <5> QED BY <5>1, <5>2 DEF Live
      <4>5. PICK q \in disk.refresh : q >= s /\ grant[q] = grant[s]
        BY <4>2, <4>3, <4>4 DEF LineageInv, Carried
      <4>6. q = r
        BY <4>2, <4>5 DEF LineageInv, OneEach
      <4> QED BY <3>4, <4>2, <4>5, <4>6
    <3>6. CASE m.used[r] # 0
      <4> DEFINE n == m.used[r]
      <4>1. n \in Fresh \cap m.refresh /\ grant'[n] = grant[r]
        BY <1>7, <3>4, <3>5, <3>6
      <4> HIDE DEF n
      <4>2. n >= t
        BY <1>0, <1>8, <3>1, <4>1
      <4> QED BY <1>10, <2>2, <3>1, <3>3, <4>1, <4>2
    <3>7. CASE m.used[r] = 0
      <4>1. r \notin m.gone.refresh
        <5>1. r \notin mem[i].gone.refresh
          BY <3>4 DEF LineageInv, Withdrawals
        <5>2. r \notin mem[i].refresh \ m.refresh
          BY <3>4, <3>7 DEF Prepared, Lasts
        <5> QED BY <5>1, <5>2 DEF Prepared, Told
      <4>2. disk'.used[r] = 0
        BY <1>5, <3>4, <3>7
      <4>3. r \in C
        BY <1>c, <3>4, <4>1, <4>2
      <4> QED BY <2>2, <3>1, <3>3, <3>4, <4>3
    <3> QED BY <3>6, <3>7
  <2> QED BY <2>1, <2>3, <2>4
<1>18. \A j \in Instances : Lineage(mem[j])' /\ OneEach(mem[j])'
  BY <1>13, <1>15, <1>16
<1> QED BY <1>11, <1>12, <1>13, <1>14, <1>17, <1>18 DEF LineageInv

LEMMA FailureCarries ==
    ASSUME TypeOK, TypeOK', OnlyIssued, LineageInv, NEW i \in Instances, NEW m \in Maps,
           SaveFails(i, m), Restored(i, m), FairStep
    PROVE  LineageInv'
<1>0. issued \in Nat /\ issued' \in Nat /\ \A t \in Tokens : t \in Nat /\ t # 0
  BY TokenNumbers, IssueBounds DEF TypeOK, FairStep, IssueBounds, Tokens
<1>1. /\ disk' = disk /\ mem'[i] = m /\ disk \in Stored /\ mem[i] \in Maps
      /\ \A j \in Instances : j # i => mem'[j] = mem[j]
  BY DEF SaveFails, TypeOK
<1>2. \A t \in Tokens : t <= issued => grant'[t] = grant[t]
  BY DEF FairStep
<1>3. \A t \in Fresh : t \in Tokens /\ t > issued /\ t = issued'
  BY DEF Fresh
<1>4. /\ m.refresh \subseteq mem[i].refresh
      /\ \A t \in Tokens : m.used[t] \in {0, mem[i].used[t]}
      /\ m.gone.refresh \subseteq mem[i].gone.refresh \cup Fresh \cup mem[i].refresh
      /\ \A t \in m.gone.used : \/ t \in mem[i].gone.used \cup mem[i].refresh
                                \/ mem[i].used[t] # 0
  BY DEF Restored
<1>5. 1..issued \cup Fresh \subseteq 1..issued' /\ issued <= issued'
  BY <1>0, <1>3 DEF FairStep
<1>6. ASSUME NEW d, d.used \in [Tokens -> Numbers], Lineage(d),
             \A t \in Tokens : d.used[t] <= issued, NEW t \in Tokens
      PROVE  /\ d.used[t] <= issued'
             /\ d.used[t] # 0 => /\ d.used[t] > t /\ grant'[d.used[t]] = grant'[t]
                                 /\ t \in 1..issued
  <2>1. d.used[t] # 0 => /\ d.used[t] > t /\ grant'[d.used[t]] = grant'[t]
                         /\ d.used[t] \in Nat
    BY <1>0, <1>2, <1>6, LineageStays
  <2>2. d.used[t] <= issued /\ d.used[t] \in Nat
    BY <1>6 DEF Numbers
  <2> QED BY <1>0, <1>5, <2>1, <2>2 DEF Tokens
<1>7. /\ \A t \in Tokens : disk.used[t] <= issued'
      /\ Lineage(disk)'
  <2>1. disk.used \in [Tokens -> Numbers] /\ Lineage(disk)
        /\ \A t \in Tokens : disk.used[t] <= issued
    BY <1>1 DEF LineageInv, IssuedFirst, Stored
  <2> QED BY <1>1, <1>6, <2>1 DEF Lineage
<1>8. ASSUME NEW j \in Instances
      PROVE  \A t \in Tokens :
                /\ mem[j].used[t] <= issued'
                /\ mem[j].used[t] # 0 => /\ mem[j].used[t] > t
                                         /\ grant'[mem[j].used[t]] = grant'[t]
                                         /\ t \in 1..issued
  <2>1. mem[j].used \in [Tokens -> Numbers] /\ Lineage(mem[j])
        /\ \A t \in Tokens : mem[j].used[t] <= issued
    BY <1>8 DEF LineageInv, IssuedFirst, Maps, TypeOK
  <2> QED BY <1>6, <2>1
<1>9. ASSUME NEW j \in Instances
      PROVE  /\ Lineage(mem[j])' /\ OneEach(mem[j])'
             /\ mem'[j].refresh \subseteq mem[j].refresh
             /\ mem'[j].refresh \cup mem'[j].gone.refresh \cup mem'[j].gone.used
                   \subseteq 1..issued'
             /\ \A t \in Tokens : mem'[j].used[t] <= issued'
  <2>1. /\ mem'[j].refresh \subseteq mem[j].refresh
        /\ \A t \in Tokens : mem'[j].used[t] \in {0, mem[j].used[t]}
    BY <1>1, <1>4
  <2>2. Lineage(mem[j])' /\ \A t \in Tokens : mem'[j].used[t] <= issued'
    BY <1>0, <1>8, <2>1 DEF Lineage
  <2>3. \A t \in mem[j].refresh : t \in Tokens /\ grant'[t] = grant[t]
    BY <1>2 DEF LineageInv, IssuedFirst, TypeOK, Maps
  <2>4. OneEach(mem[j])'
    BY <2>1, <2>3 DEF OneEach, LineageInv
  <2>5. /\ mem[j].refresh \subseteq 1..issued /\ mem[j].gone.refresh \subseteq 1..issued
        /\ mem[j].gone.used \subseteq 1..issued
    BY DEF LineageInv, IssuedFirst
  <2>6. CASE j = i
    <3>1. \A t \in m.gone.used : t \in Tokens
      BY DEF Maps, Deleted
    <3>2. m.gone.used \subseteq 1..issued
      BY <1>4, <1>8, <2>5, <2>6, <3>1
    <3> QED BY <1>1, <1>4, <1>5, <2>1, <2>2, <2>4, <2>5, <2>6, <3>2
  <2>7. CASE j # i
    BY <1>1, <1>5, <2>1, <2>2, <2>4, <2>5, <2>7
  <2> QED BY <2>6, <2>7
<1>10. IssuedFirst'
  <2>1. disk'.refresh \subseteq 1..issued'
    BY <1>1, <1>5 DEF LineageInv, IssuedFirst
  <2>2. \A t \in Tokens : t <= issued' => grant'[t] \in 1..issued'
    <3> SUFFICES ASSUME NEW t \in Tokens, t <= issued' PROVE grant'[t] \in 1..issued'
      OBVIOUS
    <3>1. CASE t <= issued
      BY <1>2, <1>5, <3>1 DEF LineageInv, IssuedFirst
    <3>2. CASE t > issued /\ t = issued'
      BY <3>2 DEF Fresh, FairStep
    <3>3. issued' = issued \/ issued' = issued + 1
      BY DEF FairStep
    <3> QED BY <1>0, <3>1, <3>2, <3>3
  <2> QED BY <1>1, <1>7, <1>9, <2>1, <2>2 DEF IssuedFirst, FairStep
<1>11. Withdrawals'
  <2> SUFFICES ASSUME NEW k \in Instances, NEW t \in Tokens, t \in mem'[k].gone.refresh,
                      t > expired.refresh
               PROVE  t \notin disk.refresh /\ \A j \in Instances : t \notin mem[j].refresh
    BY <1>1, <1>9 DEF Withdrawals, FairStep
  <2>1. t \in mem[k].gone.refresh \/ t \in Fresh
    BY <1>1 DEF Restored
  <2>2. CASE t \in mem[k].gone.refresh
    BY <2>2 DEF LineageInv, Withdrawals
  <2>3. CASE t \in Fresh
    BY <1>0, <1>3, <2>3 DEF LineageInv, IssuedFirst
  <2> QED BY <2>1, <2>2, <2>3
<1>12. Carried'
  <2> SUFFICES ASSUME NEW t \in Tokens, Referenced(t)', Live(t)'
               PROVE  \E r \in disk'.refresh : r >= t /\ grant'[r] = grant'[t]
    BY DEF Carried
  <2>1. Referenced(t)
    BY <1>0, <1>1, <1>4 DEF Restored, Referenced
  <2>2. t <= issued /\ grant'[t] = grant[t]
    BY <1>2, <2>1 DEF OnlyIssued
  <2>3. Live(t)
    BY <2>2 DEF Live, FairStep, Over
  <2>4. PICK r \in disk.refresh : r >= t /\ grant[r] = grant[t]
    BY <2>1, <2>3 DEF LineageInv, Carried
  <2>5. grant'[r] = grant[r]
    BY <1>1, <1>2, <2>4 DEF LineageInv, IssuedFirst, Stored
  <2> QED BY <1>1, <2>2, <2>4, <2>5
<1>13. OneEach(disk)'
  <2>1. \A t \in disk.refresh : grant'[t] = grant[t]
    BY <1>1, <1>2 DEF LineageInv, IssuedFirst, Stored
  <2> QED BY <1>1, <2>1 DEF OneEach, LineageInv
<1> QED BY <1>7, <1>9, <1>10, <1>11, <1>12, <1>13 DEF LineageInv

\* A start, an end, time, a replay, a prune: fewer records are stored, what is missing
\* is over, and an instance has what it had, nothing, or what is stored.
Loaded(m) == /\ m.access = disk'.access /\ m.refresh = disk'.refresh /\ m.used = disk'.used
             /\ m.gone = Nothing

LEMMA QuietCarries ==
    ASSUME TypeOK, TypeOK', LineageInv, UNCHANGED issues,
           expired'.refresh >= expired.refresh, Over \subseteq Over', Over' \subseteq 1..issued,
           disk'.refresh \subseteq disk.refresh,
           \A t \in Tokens : disk'.used[t] \in {0, disk.used[t]},
           \A t \in disk.refresh : \/ t \in disk'.refresh \/ ~(t > expired'.refresh)
                                   \/ grant[t] \in Over',
           \A j \in Instances : mem'[j] = mem[j] \/ mem'[j] = Empty \/ Loaded(mem'[j]),
           \A t \in Tokens : Referenced(t)' => Referenced(t)
    PROVE  LineageInv'
<1>0. /\ expired.refresh \in Nat /\ expired'.refresh \in Nat /\ issued \in Nat
      /\ \A t \in Tokens : t \in Nat
  BY DEF TypeOK, Numbers, Tokens
<1>1. issued' = issued /\ grant' = grant
  BY DEF issues
<1>2. Lineage(disk)' /\ OneEach(disk)'
  BY <1>1 DEF LineageInv, Lineage, OneEach, TypeOK, Stored
<1>3. ASSUME NEW j \in Instances
      PROVE  /\ Lineage(mem[j])' /\ OneEach(mem[j])'
             /\ mem'[j].refresh \subseteq mem[j].refresh \cup disk'.refresh
             /\ mem'[j].gone.refresh \subseteq mem[j].gone.refresh
             /\ mem'[j].gone.used \subseteq mem[j].gone.used
             /\ \A t \in Tokens : mem'[j].used[t] \in {0, mem[j].used[t], disk'.used[t]}
  <2>1. CASE mem'[j] = mem[j]
    BY <1>1, <2>1 DEF LineageInv, Lineage, OneEach
  <2>2. CASE mem'[j] = Empty
    BY <2>2 DEF Empty, Nothing, Lineage, OneEach
  <2>3. CASE Loaded(mem'[j])
    BY <1>2, <2>3 DEF Loaded, Nothing, Lineage, OneEach
  <2> QED BY <2>1, <2>2, <2>3
<1>4. IssuedFirst'
  <2>1. \A t \in Tokens : disk'.used[t] <= issued
    BY <1>0 DEF LineageInv, IssuedFirst
  <2>2. disk'.refresh \subseteq 1..issued
    BY DEF LineageInv, IssuedFirst
  <2>3. ASSUME NEW j \in Instances
        PROVE  /\ mem'[j].refresh \cup mem'[j].gone.refresh \cup mem'[j].gone.used
                     \subseteq 1..issued
               /\ \A t \in Tokens : mem'[j].used[t] <= issued
    <3>1. /\ mem[j].refresh \cup mem[j].gone.refresh \cup mem[j].gone.used
                \subseteq 1..issued
          /\ \A t \in Tokens : mem[j].used[t] <= issued
      BY DEF LineageInv, IssuedFirst
    <3>2. \A t \in Tokens : mem'[j].used[t] <= issued
      BY <1>0, <1>3, <2>1, <3>1
    <3>3. mem'[j].refresh \cup mem'[j].gone.refresh \cup mem'[j].gone.used \subseteq 1..issued
      BY <1>3, <2>2, <3>1
    <3> QED BY <3>2, <3>3
  <2> QED BY <1>1, <2>1, <2>2, <2>3 DEF LineageInv, IssuedFirst
<1>5. Withdrawals'
  <2> SUFFICES ASSUME NEW k \in Instances, NEW t \in Tokens, t \in mem'[k].gone.refresh,
                      t > expired'.refresh
               PROVE  t \notin disk'.refresh /\ \A j \in Instances : t \notin mem'[j].refresh
    BY DEF Withdrawals
  <2>1. t \in mem[k].gone.refresh /\ t > expired.refresh
    BY <1>0, <1>3
  <2>2. t \notin disk.refresh /\ \A j \in Instances : t \notin mem[j].refresh
    BY <2>1 DEF LineageInv, Withdrawals
  <2> QED BY <1>3, <2>2
<1>6. Carried'
  <2> SUFFICES ASSUME NEW t \in Tokens, Referenced(t)', Live(t)'
               PROVE  \E r \in disk'.refresh : r >= t /\ grant[r] = grant[t]
    BY <1>1 DEF Carried
  <2>0. t > expired'.refresh /\ grant[t] \notin Over'
    BY <1>1 DEF Live
  <2>1. Referenced(t) /\ Live(t)
    <3>1. Referenced(t)
      OBVIOUS
    <3>2. t > expired.refresh
      BY <1>0, <2>0
    <3>3. grant[t] \notin Over
      BY <2>0
    <3> QED BY <3>1, <3>2, <3>3 DEF Live
  <2>2. PICK r \in disk.refresh : r >= t /\ grant[r] = grant[t]
    BY <2>1 DEF LineageInv, Carried
  <2>3. r \in Nat /\ r > expired'.refresh /\ grant[r] \notin Over'
    <3>1. r \in Tokens /\ t > expired'.refresh /\ grant[t] \notin Over'
      BY <1>1, <2>2 DEF Live, TypeOK, Stored
    <3> QED BY <1>0, <2>2, <3>1
  <2> QED BY <2>2, <2>3
<1> QED BY <1>2, <1>3, <1>4, <1>5, <1>6 DEF LineageInv

\* Every handler that saves prepares such Maps, or is left with such Maps; the others
\* change no token.  (The lemma says it of each instance i and what it does.)
Handled(i) ==
    /\ at[i] # "down" /\ at'[i] # "down" /\ \A j \in Instances : j # i => at'[j] = at[j]
    /\ FairStep
    /\ \/ \E m \in Maps : Saves(i, m, grant') /\ Prepared(i, m)
       \/ \E m \in Maps : SaveFails(i, m) /\ Restored(i, m)
       \/ UNCHANGED <<disk, mem, issues, revoked, ended>>
    /\ \A t \in handed' : \/ t \in handed
                          \/ \E u \in Tokens : mem[i].used[u] = t
                          \/ t \in Fresh /\ t \in disk'.access /\ t \in mem'[i].refresh

LEMMA CleanupHandles ==
    ASSUME TypeOK, TypeOK', LineageInv, NEW i \in Instances, Cleanup(i)
    PROVE  Handled(i)
<1> DEFINE m == Cleaned(i)
<1>0. /\ issued \in Nat /\ expired.access \in Nat /\ expired.refresh \in Nat
      /\ \A t \in Tokens : t \in Nat /\ t > 0
  BY DEF TypeOK, Numbers, Tokens
<1>1. /\ UNCHANGED <<issued, grant, expired, handed, revoked, ended>>
      /\ at[i] = "idle" /\ at' = [at EXCEPT ![i] = "cleaned"]
      /\ UNCHANGED <<disk, mem>> \/ Saves(i, m, grant) \/ SaveFails(i, m)
  BY DEF Cleanup, Cleaned, issues, answers
<1>2. /\ m \in Maps /\ m.access = mem[i].access \ 1..expired.access
      /\ m.gone.access = mem[i].gone.access \cup (1..expired.access \cap mem[i].access)
  BY CleanedEffect
<1>3. /\ m.refresh = mem[i].refresh \ 1..expired.refresh
      /\ m.gone.refresh = mem[i].gone.refresh \cup (1..expired.refresh \cap mem[i].refresh)
      /\ m.gone.used = mem[i].gone.used \cup {u \in 1..expired.refresh : mem[i].used[u] # 0}
      /\ \A u \in Tokens : m.used[u] = IF u \in 1..expired.refresh THEN 0 ELSE mem[i].used[u]
  BY CleanedRefreshes
<1> HIDE DEF m
<1>4. mem[i] \in Maps /\ mem[i].access \subseteq Tokens /\ mem[i].refresh \subseteq Tokens
  BY DEF TypeOK, Maps
<1>5. Fresh = {} /\ Over' = Over
  BY <1>0, <1>1 DEF Fresh, Over
<1>6. FairStep
  BY <1>0, <1>1, <1>5 DEF FairStep, LineageInv, IssuedFirst, TypeOK
<1>7. \A t \in Tokens : /\ t \in 1..expired.refresh <=> ~(t > expired.refresh)
                        /\ t \in 1..expired.access <=> ~(t > expired.access)
  BY <1>0
<1>8. Prepared(i, m)
  <2>1. Told(i, m)
    BY <1>2, <1>3, <1>4 DEF Told
  <2>2. Added(i, m)
    BY <1>2, <1>3, <1>5 DEF Added
  <2>3. Lasts(i, m)
    BY <1>2, <1>3, <1>4, <1>7 DEF Lasts
  <2>4. Ends(i, m)
    BY <1>1, <1>5 DEF Ends
  <2> QED BY <2>1, <2>2, <2>3, <2>4 DEF Prepared
<1>9. Restored(i, m)
  <2>1. /\ m.access \subseteq mem[i].access /\ m.refresh \subseteq mem[i].refresh
        /\ \A t \in mem[i].access : t > expired.access => t \in m.access
        /\ \A t \in mem[i].refresh : t > expired.refresh => t \in m.refresh
    BY <1>2, <1>3, <1>4, <1>7
  <2>2. \A t \in Tokens : /\ m.used[t] \in {0, mem[i].used[t]}
                          /\ t > expired.refresh => m.used[t] = mem[i].used[t]
    BY <1>3, <1>7
  <2>3. /\ m.gone.access \subseteq mem[i].gone.access \cup mem[i].access \cup Fresh
        /\ \A t \in m.gone.refresh : \/ t \in mem[i].gone.refresh \cup Fresh
                                     \/ t \in mem[i].refresh /\ ~(t > expired.refresh)
        /\ \A t \in m.gone.used : t \in mem[i].gone.used \cup mem[i].refresh
                                  \/ mem[i].used[t] # 0
    BY <1>2, <1>3, <1>4, <1>7
  <2> QED BY <1>1, <1>5, <2>1, <2>2, <2>3 DEF Restored
<1> QED BY <1>1, <1>2, <1>6, <1>8, <1>9 DEF Handled, issues, TypeOK

LEMMA ExchangeHandles ==
    ASSUME TypeOK, TypeOK', OnlyIssued, LineageInv, NEW i \in Instances, NEW r \in Requests,
           ExchangeCode(i, r)
    PROVE  Handled(i)
<1> DEFINE n == issued'
           m == Issue(mem[i], n)
           w == Withdrawn(m, n)
<1>0. /\ issued \in Nat /\ n = issued + 1 /\ n \in Tokens /\ n \in Numbers /\ mem[i] \in Maps
      /\ \A t \in Tokens : t \in Nat
  BY IssueBounds, TokenNumbers DEF ExchangeCode, TypeOK, IssueBounds, Tokens
<1>1. /\ UNCHANGED <<expired, revoked, ended>> /\ grant' = [grant EXCEPT ![n] = n]
      /\ at[i] = "cleaned" /\ at' = [at EXCEPT ![i] = "idle"]
      /\ \/ Saves(i, m, grant') /\ handed' \in {handed, handed \cup {n}}
         \/ SaveFails(i, w) /\ handed' = handed
  BY DEF ExchangeCode, Hands, Withdrawn, answers, Answers
<1>2. /\ m \in Maps /\ m.access = mem[i].access \cup {n} /\ m.used = mem[i].used
      /\ m.gone.access = mem[i].gone.access \ {n}
  BY <1>0, IssueEffect
<1>3. /\ m.refresh = mem[i].refresh \cup {n} /\ m.gone.refresh = mem[i].gone.refresh \ {n}
      /\ m.gone.used = mem[i].gone.used
  BY <1>0, IssueRefreshes
<1> HIDE DEF m
<1>4. /\ w \in Maps /\ w.access = m.access \ {n} /\ w.used = m.used
      /\ w.gone.access = m.gone.access \cup ({n} \cap m.access)
  BY <1>0, <1>2, WithdrawnEffect
<1>5. /\ w.refresh = m.refresh \ {n} /\ w.gone.used = m.gone.used
      /\ w.gone.refresh = m.gone.refresh \cup ({n} \cap m.refresh)
  BY <1>0, <1>2, WithdrawnRefreshes
<1> HIDE DEF w
<1>6. Fresh = {n} /\ Over' = Over
  BY <1>0, <1>1 DEF Fresh, Over
<1>7. grant'[n] = n /\ \A t \in Tokens : t <= issued => grant'[t] = grant[t]
  BY <1>0, <1>1 DEF TypeOK
<1>8. FairStep
  <2>1. 1..issued \subseteq 1..n /\ n \in 1..n
    BY <1>0
  <2> QED BY <1>0, <1>1, <1>6, <1>7, <2>1 DEF FairStep, LineageInv, IssuedFirst
<1>9. n \notin mem[i].access /\ n \notin mem[i].refresh
  BY <1>0 DEF OnlyIssued, LineageInv, IssuedFirst
<1> HIDE DEF n
<1>10. Prepared(i, m)
  <2>1. Told(i, m)
    BY <1>2, <1>3 DEF Told
  <2>2. Added(i, m)
    BY <1>2, <1>3, <1>6, <1>7 DEF Added
  <2>3. Lasts(i, m)
    BY <1>2, <1>3 DEF Lasts
  <2>4. Ends(i, m)
    BY <1>1, <1>6 DEF Ends
  <2> QED BY <2>1, <2>2, <2>3, <2>4 DEF Prepared
<1>11. ASSUME handed' = handed PROVE Restored(i, w)
  <2>1. w.access = mem[i].access /\ w.refresh = mem[i].refresh /\ w.used = mem[i].used
    BY <1>2, <1>3, <1>4, <1>5, <1>9
  <2>2. /\ w.gone.access \subseteq mem[i].gone.access \cup {n}
        /\ w.gone.refresh \subseteq mem[i].gone.refresh \cup {n}
        /\ w.gone.used = mem[i].gone.used
    BY <1>2, <1>3, <1>4, <1>5
  <2> QED BY <1>1, <1>6, <1>7, <1>11, <2>1, <2>2 DEF Restored
<1>12. ASSUME Saves(i, m, grant') PROVE n \in disk'.access /\ n \in mem'[i].refresh
  <2>1. n \in disk'.access
    BY <1>2, <1>12, MergedEffect DEF Saves, TypeOK
  <2>2. mem'[i].refresh = m.refresh
    BY <1>2, <1>12 DEF Saves, TypeOK, Maps
  <2> QED BY <1>3, <2>1, <2>2
<1>13. /\ at[i] # "down" /\ at'[i] # "down"
       /\ \A j \in Instances : j # i => at'[j] = at[j]
  BY <1>1 DEF TypeOK
<1>14. CASE Saves(i, m, grant') /\ handed' \in {handed, handed \cup {n}}
  BY <1>2, <1>6, <1>8, <1>10, <1>12, <1>13, <1>14 DEF Handled
<1>15. CASE SaveFails(i, w) /\ handed' = handed
  BY <1>4, <1>8, <1>11, <1>13, <1>15 DEF Handled
<1> QED BY <1>1, <1>14, <1>15

LEMMA RefreshHandles ==
    ASSUME TypeOK, TypeOK', OnlyIssued, LineageInv, NEW i \in Instances, NEW t \in Tokens,
           Refresh(i, t)
    PROVE  Handled(i)
<1> DEFINE n == issued'
           m == Rotated(mem[i], t, n)
           w == RotationUndone(m, t, n)
<1>0. /\ issued \in Nat /\ n = issued + 1 /\ n \in Tokens /\ n \in Numbers /\ mem[i] \in Maps
      /\ \A u \in Tokens : u \in Nat /\ u # 0
  BY IssueBounds, TokenNumbers DEF Refresh, TypeOK, IssueBounds, Tokens
<1>1. /\ UNCHANGED <<expired, revoked, ended>> /\ grant' = [grant EXCEPT ![n] = grant[t]]
      /\ at[i] = "cleaned" /\ at' = [at EXCEPT ![i] = "idle"] /\ t \in mem[i].refresh
      /\ \/ Saves(i, m, grant') /\ handed' \in {handed, handed \cup {n}}
         \/ SaveFails(i, w) /\ handed' = handed
  BY DEF Refresh, Hands, answers, Answers
<1>9. /\ n \notin mem[i].access /\ n \notin mem[i].refresh /\ t # n /\ t <= issued
      /\ mem[i].used[t] = 0
  BY <1>0, <1>1 DEF OnlyIssued, LineageInv, IssuedFirst, OneEach
<1>7. grant'[n] = grant[t] /\ \A u \in Tokens : u <= issued => grant'[u] = grant[u]
  BY <1>0, <1>1 DEF TypeOK
<1>6. Fresh = {n} /\ Over' = Over
  BY <1>0, <1>1 DEF Fresh, Over
<1>8. FairStep
  <2>1. 1..issued \subseteq 1..n /\ n \in 1..n
    BY <1>0
  <2>2. grant[t] \in 1..issued
    BY <1>9 DEF LineageInv, IssuedFirst
  <2> QED BY <1>0, <1>1, <1>6, <1>7, <2>1, <2>2 DEF FairStep, LineageInv, IssuedFirst
<1> HIDE DEF m, w, n
<1>2. /\ m \in Maps /\ m.access = mem[i].access \cup {n}
      /\ m.gone.access = mem[i].gone.access \ {n}
      /\ \A u \in Tokens : u # t => m.used[u] = mem[i].used[u]
  <2>1. m = Rotated(mem[i], t, n)
    BY DEF m
  <2> DEFINE before == mem[i]
  <2>2. before \in Maps /\ n \in Tokens
    BY <1>0
  <2> HIDE DEF before
  <2>3. /\ Rotated(before, t, n) \in Maps
        /\ Rotated(before, t, n).access = before.access \cup {n}
        /\ Rotated(before, t, n).gone.access = before.gone.access \ {n}
        /\ \A u \in Tokens : u # t => Rotated(before, t, n).used[u] = before.used[u]
    BY <2>2, RotatedEffect
  <2> QED BY <2>1, <2>3 DEF before
<1>3. /\ m.refresh = (mem[i].refresh \ {t}) \cup {n}
      /\ m.gone.refresh = (mem[i].gone.refresh \cup ({t} \cap mem[i].refresh)) \ {n}
      /\ m.gone.used = mem[i].gone.used \ {t} /\ m.used[t] = n
  <2>1. m = Rotated(mem[i], t, n)
    BY DEF m
  <2> QED BY <1>0, <2>1, RotatedRefreshes
<1>4. /\ w \in Maps /\ w.access = m.access \ {n}
      /\ w.gone.access = m.gone.access \cup ({n} \cap m.access)
      /\ \A u \in Tokens : w.used[u] = IF u = t THEN 0 ELSE m.used[u]
  <2>1. w = RotationUndone(m, t, n)
    BY DEF w
  <2>0. m \in Maps /\ n \in Tokens
    BY <1>0, <1>2
  <2>2. /\ RotationUndone(m, t, n) \in Maps
        /\ RotationUndone(m, t, n).access = m.access \ {n}
        /\ RotationUndone(m, t, n).gone.access = m.gone.access \cup ({n} \cap m.access)
    BY <2>0, RotationUndoneEffect
  <2>3. \A u \in Tokens :
           RotationUndone(m, t, n).used[u] = IF u = t THEN 0 ELSE m.used[u]
    BY <2>0, RotationUndoneEffect
  <2> QED BY <2>1, <2>2, <2>3
<1>5. /\ w.refresh = (m.refresh \ {n}) \cup {t} /\ w.gone.used \subseteq m.gone.used \cup {t}
      /\ w.gone.refresh = (m.gone.refresh \cup ({n} \cap m.refresh)) \ {t}
  <2>1. w = RotationUndone(m, t, n)
    BY DEF w
  <2>2. m \in Maps /\ n \in Tokens
    BY <1>0, <1>2
  <2> HIDE DEF w
  <2>3. /\ RotationUndone(m, t, n).refresh = (m.refresh \ {n}) \cup {t}
        /\ RotationUndone(m, t, n).gone.refresh =
              (m.gone.refresh \cup ({n} \cap m.refresh)) \ {t}
        /\ RotationUndone(m, t, n).gone.used \subseteq m.gone.used \cup {t}
    BY <2>2, RotationUndoneRefreshes
  <2> QED BY <2>1, <2>3
<1>10. Prepared(i, m)
  <2>1. Told(i, m)
    <3>1. \A u \in Tokens : mem[i].used[u] # 0 /\ m.used[u] = 0 => u \in m.gone.used
      BY <1>0, <1>2, <1>3
    <3> QED BY <1>1, <1>2, <1>3, <1>9, <3>1 DEF Told
  <2>2. Added(i, m)
    <3>1. t \in mem[i].refresh \ m.refresh /\ n \in Fresh \cap m.refresh
      BY <1>1, <1>3, <1>6, <1>9
    <3>2. \A u \in Tokens : m.used[u] \in {0, mem[i].used[u]} \/
             /\ u \in mem[i].refresh \ m.refresh /\ m.used[u] \in Fresh \cap m.refresh
             /\ grant'[m.used[u]] = grant[u]
      BY <1>2, <1>3, <1>7, <3>1
    <3> QED BY <1>2, <1>3, <1>6, <1>7, <3>1, <3>2 DEF Added
  <2>3. Lasts(i, m)
    BY <1>0, <1>2, <1>3, <1>9 DEF Lasts
  <2>4. Ends(i, m)
    BY <1>1, <1>6 DEF Ends
  <2> QED BY <2>1, <2>2, <2>3, <2>4 DEF Prepared
<1>11. ASSUME handed' = handed PROVE Restored(i, w)
  <2>1. w.access = mem[i].access /\ w.refresh = mem[i].refresh
    BY <1>1, <1>2, <1>3, <1>4, <1>5, <1>9
  <2>2. \A u \in Tokens : w.used[u] = mem[i].used[u]
    BY <1>2, <1>4, <1>9
  <2>3. /\ w.gone.access \subseteq mem[i].gone.access \cup {n}
        /\ w.gone.refresh \subseteq mem[i].gone.refresh \cup {n}
        /\ w.gone.used \subseteq mem[i].gone.used \cup {t}
    BY <1>2, <1>3, <1>4, <1>5
  <2> QED BY <1>1, <1>6, <1>7, <1>11, <2>1, <2>2, <2>3 DEF Restored
<1>12. ASSUME Saves(i, m, grant') PROVE n \in disk'.access /\ n \in mem'[i].refresh
  <2>1. n \in disk'.access
    BY <1>2, <1>12, MergedEffect DEF Saves, TypeOK
  <2>2. mem'[i].refresh = m.refresh
    BY <1>2, <1>12 DEF Saves, TypeOK, Maps
  <2> QED BY <1>3, <2>1, <2>2
<1>13. /\ at[i] # "down" /\ at'[i] # "down"
       /\ \A j \in Instances : j # i => at'[j] = at[j]
  BY <1>1 DEF TypeOK
<1>14. CASE Saves(i, m, grant') /\ handed' \in {handed, handed \cup {n}}
  BY <1>2, <1>6, <1>8, <1>10, <1>12, <1>13, <1>14 DEF Handled
<1>15. CASE SaveFails(i, w) /\ handed' = handed
  BY <1>4, <1>8, <1>11, <1>13, <1>15 DEF Handled
<1> QED BY <1>1, <1>14, <1>15

\* The Maps as they are, after a save that threw.
LEMMA AsTheyAre ==
    ASSUME NEW i \in Instances, Fresh = {}, UNCHANGED <<handed, revoked, ended>>
    PROVE  Restored(i, mem[i])
BY DEF Restored

LEMMA EndHandles ==
    ASSUME TypeOK, TypeOK', OnlyIssued, LineageInv, NEW i \in Instances, NEW t \in Tokens,
           Reuse(i, t) \/ Revoke(i, t)
    PROVE  Handled(i)
<1> DEFINE g == grant[t]
           active == mem[i].refresh \cap OfGrant(g)
           d == DropRefresh(mem[i], active)
           m == Drop(mem[i], OfGrant(g))
<1>0. /\ issued \in Nat /\ mem[i] \in Maps /\ \A u \in Tokens : u \in Nat /\ u # 0
      /\ grant \in [Tokens -> Numbers]
  BY DEF TypeOK, Numbers, Tokens
<1>1. /\ UNCHANGED <<issued, grant, expired, handed>> /\ at[i] # "down" /\ at'[i] # "down"
      /\ \A j \in Instances : j # i => at'[j] = at[j]
      /\ \/ UNCHANGED <<disk, mem, revoked, ended>>
         \/ /\ active # {} /\ Saves(i, d, grant)
            /\ revoked' = revoked /\ ended' = ended \cup {g}
         \/ SaveFails(i, mem[i]) /\ UNCHANGED <<revoked, ended>>
         \/ /\ Held(mem[i], t) /\ Saves(i, m, grant)
            /\ revoked' = revoked \cup {g} /\ ended' = ended
  BY DEF Reuse, Revoke, answers, Answers, issues, TypeOK, Held
<1>2. /\ d \in Maps /\ d.access = mem[i].access /\ d.used = mem[i].used
      /\ d.gone.access = mem[i].gone.access
  BY <1>0, DropRefreshEffect
<1>3. /\ d.refresh = mem[i].refresh \ active /\ d.gone.used = mem[i].gone.used
      /\ d.gone.refresh = mem[i].gone.refresh \cup (active \cap mem[i].refresh)
  BY <1>0, DropRefreshRefreshes
<1>4. /\ m \in Maps /\ m.access = mem[i].access \ OfGrant(g)
      /\ m.gone.access = mem[i].gone.access \cup (OfGrant(g) \cap mem[i].access)
  BY <1>0, DropEffect, GrantTokens
<1>5. /\ m.refresh = mem[i].refresh \ OfGrant(g)
      /\ m.gone.refresh = mem[i].gone.refresh \cup (OfGrant(g) \cap mem[i].refresh)
      /\ m.gone.used = mem[i].gone.used \cup {u \in OfGrant(g) : mem[i].used[u] # 0}
      /\ \A u \in Tokens : m.used[u] = IF u \in OfGrant(g) THEN 0 ELSE mem[i].used[u]
  BY <1>0, DropRefreshes, GrantTokens
<1> HIDE DEF d, m
<1>6. Fresh = {} /\ \A u \in Tokens : u \in OfGrant(g) <=> grant[u] = g
  BY <1>0, <1>1 DEF Fresh, OfGrant
<1>7. Over' \subseteq Over \cup {g} /\ revoked \subseteq revoked' /\ ended \subseteq ended'
  BY <1>1 DEF Over
<1>8. ASSUME NEW u \in Tokens, Held(mem[i], u) PROVE grant[u] \in 1..issued
  <2>1. u <= issued
    <3>1. CASE u \in mem[i].access \cup mem[i].refresh
      BY <3>1 DEF OnlyIssued, LineageInv, IssuedFirst
    <3>2. CASE mem[i].used[u] # 0
      <4>1. mem[i].used[u] > u /\ mem[i].used[u] <= issued /\ mem[i].used[u] \in Nat
        BY <1>0, <3>2 DEF LineageInv, Lineage, IssuedFirst, Maps, Numbers
      <4> QED BY <1>0, <4>1
    <3> QED BY <1>8, <3>1, <3>2 DEF Held
  <2> QED BY <2>1 DEF LineageInv, IssuedFirst
<1>9. ASSUME g \in 1..issued \/ UNCHANGED <<revoked, ended>> PROVE FairStep
  <2>1. Over' \subseteq 1..issued
    BY <1>7, <1>9 DEF Over, LineageInv, IssuedFirst
  <2> QED BY <1>0, <1>1, <1>6, <1>7, <2>1 DEF FairStep, TypeOK
<1>10. CASE UNCHANGED <<disk, mem, revoked, ended>>
  BY <1>1, <1>9, <1>10 DEF Handled, issues
<1>11. CASE SaveFails(i, mem[i]) /\ UNCHANGED <<revoked, ended>>
  BY <1>0, <1>1, <1>6, <1>9, <1>11, AsTheyAre DEF Handled
<1>12. CASE /\ active # {} /\ Saves(i, d, grant)
            /\ revoked' = revoked /\ ended' = ended \cup {g}
  <2>1. PICK o \in Tokens : o \in mem[i].refresh /\ grant[o] = g
    BY <1>12 DEF OfGrant
  <2>2. Held(mem[i], o)
    BY <2>1 DEF Held
  <2>3. FairStep
    BY <1>8, <1>9, <2>1, <2>2
  <2>4. Prepared(i, d)
    <3>1. Told(i, d)
      BY <1>2, <1>3 DEF Told
    <3>2. Added(i, d)
      BY <1>2, <1>3, <1>6 DEF Added
    <3>3. Lasts(i, d)
      BY <1>2, <1>3, <1>6, <1>12 DEF Lasts, Over
    <3>4. Ends(i, d)
      <4> SUFFICES ASSUME NEW u \in Tokens,
                          grant[u] \in (revoked' \ revoked) \cup (ended' \ ended)
                   PROVE  /\ u \notin d.refresh
                          /\ \E q \in OfGrant(grant[u]) : Held(mem[i], q)
        BY <1>1, <1>12 DEF Ends
      <4>1. grant[u] = g
        BY <1>12
      <4> QED BY <1>3, <1>6, <2>1, <2>2, <4>1
    <3> QED BY <3>1, <3>2, <3>3, <3>4 DEF Prepared
  <2> QED BY <1>1, <1>2, <1>12, <2>3, <2>4 DEF Handled
<1>13. CASE /\ Held(mem[i], t) /\ Saves(i, m, grant)
            /\ revoked' = revoked \cup {g} /\ ended' = ended
  <2>3. FairStep
    BY <1>8, <1>9, <1>13
  <2>4. Prepared(i, m)
    <3>1. Told(i, m)
      BY <1>4, <1>5, <1>6 DEF Told
    <3>2. Added(i, m)
      BY <1>4, <1>5, <1>6 DEF Added
    <3>3. Lasts(i, m)
      BY <1>5, <1>6, <1>13 DEF Lasts, Over
    <3>4. Ends(i, m)
      <4> SUFFICES ASSUME NEW u \in Tokens
                   PROVE  /\ grant[u] \in (revoked' \ revoked) \cup (ended' \ ended) =>
                                u \notin m.refresh /\ \E q \in OfGrant(grant[u]) : Held(mem[i], q)
                          /\ grant[u] \in revoked' \ revoked => ~Held(m, u)
        BY <1>1 DEF Ends
      <4>1. grant[u] \in (revoked' \ revoked) \cup (ended' \ ended) => grant[u] = g
        BY <1>13
      <4>2. grant[u] = g => ~Held(m, u) /\ u \notin m.refresh
        BY <1>4, <1>5, <1>6 DEF Held
      <4>3. t \in OfGrant(g)
        BY <1>6
      <4> QED BY <1>13, <4>1, <4>2, <4>3
    <3> QED BY <3>1, <3>2, <3>3, <3>4 DEF Prepared
  <2> QED BY <1>1, <1>4, <1>13, <2>3, <2>4 DEF Handled
<1> QED BY <1>1, <1>10, <1>11, <1>12, <1>13

LEMMA LineageInit == Init => LineageInv
<1> SUFFICES ASSUME Init PROVE LineageInv
  OBVIOUS
<1>1. /\ disk.refresh = {} /\ \A t \in Tokens : disk.used[t] = 0
      /\ \A i \in Instances : /\ mem[i].refresh = {} /\ mem[i].gone.refresh = {}
                              /\ mem[i].gone.used = {} /\ \A t \in Tokens : mem[i].used[t] = 0
      /\ Over = {} /\ issued = 0 /\ handed = {} /\ \A t \in Tokens : ~(t <= 0) /\ t # 0
  <2>1. disk.refresh = {} /\ \A t \in Tokens : disk.used[t] = 0
    BY DEF Init
  <2>2. \A i \in Instances : mem[i] = Empty
    BY DEF Init
  <2>3. /\ Empty.refresh = {} /\ Empty.gone.refresh = {} /\ Empty.gone.used = {}
        /\ \A t \in Tokens : Empty.used[t] = 0
    BY DEF Empty, Nothing
  <2>4. Over = {} /\ issued = 0 /\ handed = {}
    BY DEF Init, Over
  <2>5. \A t \in Tokens : ~(t <= 0) /\ t # 0
    BY DEF Tokens
  <2> QED BY <2>1, <2>2, <2>3, <2>4, <2>5
<1>2. IssuedFirst
  BY <1>1 DEF IssuedFirst
<1>3. \A t \in Tokens : ~Referenced(t)
  BY <1>1 DEF Referenced
<1>4. Carried
  BY <1>3 DEF Carried
<1>5. Withdrawals /\ Lineage(disk) /\ OneEach(disk)
      /\ \A i \in Instances : Lineage(mem[i]) /\ OneEach(mem[i])
  BY <1>1 DEF Withdrawals, Lineage, OneEach
<1> QED BY <1>2, <1>4, <1>5 DEF LineageInv

\* What a request does to the tokens keeps the invariant, also when nothing is saved.
LEMMA HandledKeeps ==
    ASSUME TypeOK, TypeOK', OnlyIssued, LineageInv, NEW i \in Instances, Handled(i)
    PROVE  LineageInv'
<1>1. FairStep
  BY DEF Handled
<1>2. \A t \in handed' : \/ t \in handed
                         \/ \E u \in Tokens : mem[i].used[u] = t
                         \/ t \in Fresh /\ t \in disk'.access /\ t \in mem'[i].refresh
  BY DEF Handled
<1>3. ASSUME NEW m \in Maps, Saves(i, m, grant'), Prepared(i, m) PROVE LineageInv'
  <2>1. mem'[i].refresh = m.refresh
    BY <1>3 DEF Saves, TypeOK, Maps
  <2>2. \A t \in handed' : t \in handed \/ t \in Fresh \cap m.refresh
                              \/ \E u \in Tokens : mem[i].used[u] = t
    BY <1>2, <2>1
  <2> QED BY <1>1, <1>3, <2>2, SaveCarries
<1>4. ASSUME NEW m \in Maps, SaveFails(i, m), Restored(i, m) PROVE LineageInv'
  BY <1>1, <1>4, FailureCarries
<1>5. CASE UNCHANGED <<disk, mem, issues, revoked, ended>>
  <2>1. Fresh = {} /\ expired' = expired /\ issued' = issued /\ grant' = grant /\ Over' = Over
    BY <1>1, <1>5 DEF FairStep, Fresh, issues, Over, TypeOK, Numbers, Tokens
  <2>2. \A t \in Tokens : Referenced(t)' => Referenced(t)
    BY <1>2, <1>5, <2>1 DEF Referenced
  <2>3. Carried'
    BY <1>5, <2>1, <2>2 DEF LineageInv, Carried, Live
  <2>4. IssuedFirst' /\ Withdrawals'
    BY <1>5, <2>1 DEF LineageInv, IssuedFirst, Withdrawals
  <2>5. /\ Lineage(disk)' /\ OneEach(disk)'
        /\ \A j \in Instances : Lineage(mem[j])' /\ OneEach(mem[j])'
    BY <1>5, <2>1 DEF LineageInv, Lineage, OneEach
  <2> QED BY <2>3, <2>4, <2>5 DEF LineageInv
<1> QED BY <1>3, <1>4, <1>5 DEF Handled

\* A start reads the store, an end forgets, and time only takes tokens away.
LEMMA TurnsCarry ==
    ASSUME TypeOK, TypeOK', LineageInv, (\E i \in Instances : Boot(i) \/ Stop(i)) \/ Expire
    PROVE  LineageInv'
<1>1. /\ expired.refresh \in Nat /\ expired'.refresh \in Nat /\ issued \in Nat
      /\ \A t \in Tokens : t \in Nat /\ t # 0
  BY DEF TypeOK, Numbers, Tokens
<1>2. UNCHANGED <<issues, answers>> /\ Over' = Over /\ Over \subseteq 1..issued
  BY DEF Boot, Stop, Expire, Over, answers, LineageInv, IssuedFirst
<1>3. expired'.refresh >= expired.refresh
  <2>1. expired'.refresh = expired.refresh \/ expired'.refresh = expired.refresh + 1
    BY DEF Boot, Stop, Expire, TypeOK
  <2> QED BY <1>1, <2>1
<1>4. \/ disk' = disk /\ (\A j \in Instances : mem'[j] \in {mem[j], Empty})
      \/ \E i \in Instances :
            /\ disk' = Unexpired(disk) /\ expired' = expired
            /\ \A j \in Instances : j # i => mem'[j] = mem[j]
            /\ Loaded(mem'[i])
  <2>1. CASE Expire
    BY <2>1 DEF Expire
  <2>2. ASSUME NEW i \in Instances, Stop(i)
        PROVE  disk' = disk /\ \A j \in Instances : mem'[j] \in {mem[j], Empty}
    BY <2>2 DEF Stop, TypeOK
  <2>3. ASSUME NEW i \in Instances, Boot(i)
        PROVE  \/ disk' = disk /\ mem' = mem
               \/ /\ disk' = Unexpired(disk) /\ expired' = expired
                  /\ \A j \in Instances : j # i => mem'[j] = mem[j]
                  /\ Loaded(mem'[i])
    BY <2>3 DEF Boot, Loaded, TypeOK
  <2> QED BY <2>1, <2>2, <2>3
<1>5. CASE disk' = disk /\ \A j \in Instances : mem'[j] \in {mem[j], Empty}
  <2>1. \A j \in Instances, u \in Tokens : mem'[j].used[u] \in {0, mem[j].used[u]}
    BY <1>5 DEF Empty
  <2>2. \A t \in Tokens : Referenced(t)' => Referenced(t)
    BY <1>1, <1>2, <1>5, <2>1 DEF answers, Referenced
  <2> QED BY <1>1, <1>2, <1>3, <1>5, <2>2, QuietCarries
<1>6. ASSUME NEW i \in Instances, disk' = Unexpired(disk), expired' = expired, Loaded(mem'[i]),
             \A j \in Instances : j # i => mem'[j] = mem[j]
      PROVE  LineageInv'
  <2>1. /\ disk'.refresh = {t \in disk.refresh : t > expired.refresh}
        /\ \A u \in Tokens : disk'.used[u] \in {0, disk.used[u]}
    BY <1>6 DEF Unexpired
  <2>2. mem'[i].used = disk'.used
    BY <1>6 DEF Loaded
  <2>3. \A t \in Tokens : Referenced(t)' => Referenced(t)
    BY <1>1, <1>2, <1>6, <2>1, <2>2 DEF answers, Referenced
  <2>4. \A j \in Instances : mem'[j] = mem[j] \/ mem'[j] = Empty \/ Loaded(mem'[j])
    BY <1>6
  <2>5. disk'.refresh \subseteq disk.refresh
    BY <2>1
  <2>6. \A t \in disk.refresh : \/ t \in disk'.refresh \/ ~(t > expired'.refresh)
                                \/ grant[t] \in Over'
    BY <1>6, <2>1
  <2> QED BY <1>1, <1>2, <1>3, <2>1, <2>3, <2>4, <2>5, <2>6, QuietCarries
<1> QED BY <1>4, <1>5, <1>6

\* A replay answers with what is in memory.
LEMMA ReplayHandles ==
    ASSUME TypeOK, TypeOK', LineageInv, NEW i \in Instances, NEW t \in Tokens, Replay(i, t)
    PROVE  Handled(i)
<1>1. /\ at[i] = "cleaned" /\ at' = [at EXCEPT ![i] = "idle"]
      /\ UNCHANGED <<disk, mem, issues, expired, revoked, ended>>
      /\ handed' \in {handed, handed \cup {mem[i].used[t]}}
  BY DEF Replay, Hands, Answers
<1>2. issued' = issued /\ grant' = grant /\ Fresh = {} /\ Over' = Over /\ issued \in Nat
  BY <1>1 DEF issues, Fresh, Over, TypeOK, Numbers, Tokens
<1>3. FairStep
  <2>1. issued' \in Numbers /\ Over \subseteq 1..issued
    BY <1>2 DEF TypeOK, LineageInv, IssuedFirst
  <2> QED BY <1>1, <1>2, <2>1 DEF FairStep
<1>4. /\ at[i] # "down" /\ at'[i] # "down" /\ \A j \in Instances : j # i => at'[j] = at[j]
  BY <1>1 DEF TypeOK
<1> QED BY <1>1, <1>3, <1>4 DEF Handled

\* Every step of the grants keeps the invariant.
LEMMA LineageStep ==
    TypeOK /\ TypeOK' /\ SurvivalInv /\ LineageInv /\ [Next]_vars => LineageInv'
<1> SUFFICES ASSUME TypeOK, TypeOK', SurvivalInv, LineageInv, [Next]_vars PROVE LineageInv'
  OBVIOUS
<1>0. OnlyIssued
  BY DEF SurvivalInv
<1>1. ASSUME NEW i \in Instances, Decline(i) PROVE UNCHANGED <<disk, mem, issues, expired, answers>>
  BY <1>1 DEF Decline
<1>2. ASSUME NEW i \in Instances, NEW r \in Requests, Authorize(i, r) \/ CompleteLogin(i, r)
      PROVE  UNCHANGED <<disk, mem, issues, expired, answers>>
  BY <1>2 DEF Authorize, CompleteLogin
<1>3. ASSUME UNCHANGED <<disk, mem, issues, expired, answers>> PROVE LineageInv'
  BY <1>3 DEF LineageInv, IssuedFirst, Withdrawals, Carried, Lineage, OneEach, Live, Over,
              Referenced, issues, answers
<1>4. CASE UNCHANGED vars
  BY <1>3, <1>4 DEF vars
<1>5. CASE Expire
  BY <1>5, TurnsCarry
<1>6. ASSUME NEW i \in Instances, Boot(i) \/ Stop(i) PROVE LineageInv'
  BY <1>6, TurnsCarry
<1>7. ASSUME NEW i \in Instances, Cleanup(i) PROVE LineageInv'
  BY <1>0, <1>7, CleanupHandles, HandledKeeps
<1>8. ASSUME NEW i \in Instances, NEW r \in Requests, ExchangeCode(i, r) PROVE LineageInv'
  BY <1>0, <1>8, ExchangeHandles, HandledKeeps
<1>9. ASSUME NEW i \in Instances, NEW t \in Tokens, Refresh(i, t) PROVE LineageInv'
  BY <1>0, <1>9, RefreshHandles, HandledKeeps
<1>10. ASSUME NEW i \in Instances, NEW t \in Tokens, Reuse(i, t) \/ Revoke(i, t)
       PROVE  LineageInv'
  BY <1>0, <1>10, EndHandles, HandledKeeps
<1>11. ASSUME NEW i \in Instances, NEW t \in Tokens, Replay(i, t) PROVE LineageInv'
  BY <1>0, <1>11, ReplayHandles, HandledKeeps
<1> QED BY <1>1, <1>2, <1>3, <1>4, <1>5, <1>6, <1>7, <1>8, <1>9, <1>10, <1>11 DEF Next

\* What the invariant says of the grants that a client holds a token of.
LEMMA LineageSuffices == TypeOK /\ LineageInv => GrantKeepsRefresh
<1> SUFFICES ASSUME TypeOK, LineageInv, NEW t \in handed, t > expired.refresh,
                    grant[t] \notin revoked \cup ended
             PROVE  \E r \in disk.refresh : disk.refresh \cap OfGrant(grant[t]) = {r}
  BY DEF GrantKeepsRefresh
<1>1. t \in Tokens /\ Referenced(t) /\ Live(t)
  BY DEF TypeOK, Referenced, Live, Over
<1>2. PICK r \in disk.refresh : grant[r] = grant[t]
  BY <1>1 DEF LineageInv, Carried
<1>3. disk.refresh \subseteq Tokens
  BY DEF TypeOK, Stored
<1>4. \A u \in disk.refresh : grant[u] = grant[t] => u = r
  BY <1>2 DEF LineageInv, OneEach
<1> QED BY <1>2, <1>3, <1>4 DEF OfGrant

\* A grant that a client holds a token of keeps exactly one refresh token in the store
\* until it expires, is revoked or ended: through rotations that fail half-way, restarts
\* and any number of instances that merge into the store.
THEOREM GrantsKeepRefresh == Spec => []GrantKeepsRefresh
BY LineageInit, LineageStep, LineageSuffices, SurvivalInit, TypeCorrect, StepKeeps, PTL
   DEF Spec

-----------------------------------------------------------------------------
(* One server at a time                                                    *)

OneServer == \A i, j \in Instances : at[i] # "down" /\ at[j] # "down" => i = j

\* Instance i knows of t what is stored ...
Same(i, t) ==
    /\ t > expired.access => (t \in disk.access <=> t \in mem[i].access)
    /\ t > expired.refresh => /\ t \in disk.refresh <=> t \in mem[i].refresh
                              /\ disk.used[t] = mem[i].used[t]

\* ... or, as it could not load the store, nothing of its grant.
Foreign(i, t) ==
    \A u \in OfGrant(grant[t]) :
        /\ ~Held(mem[i], u)
        /\ u \notin mem[i].gone.access \cup mem[i].gone.refresh \cup mem[i].gone.used

Knows(i, t) == Same(i, t) \/ (scenario.load /\ Foreign(i, t))

\* What is over has left no record behind.
Settled(m) ==
    \A t \in Tokens : /\ grant[t] \in revoked => ~Held(m, t)
                      /\ grant[t] \in ended => t \notin m.refresh

\* A token that a client may hold can be exchanged, or was.
Exchangeable ==
    \A t \in Tokens : Referenced(t) /\ Live(t) => t \in disk.refresh \/ disk.used[t] # 0

AloneInv ==
    ~scenario.overlap =>
        /\ OneServer
        /\ \A i \in Instances : at[i] = "down" => mem[i] = Empty
        /\ \A i \in Instances, t \in Tokens : at[i] # "down" => Knows(i, t)
        /\ Settled(disk) /\ \A i \in Instances : Settled(mem[i])
        /\ Exchangeable

Unissued == \A t \in Tokens : t > issued => ~Held(disk, t) /\ \A i \in Instances : ~Held(mem[i], t)

\* A token that was not issued has no record.
LEMMA UnissuedHaveNone == TypeOK /\ OnlyIssued /\ LineageInv => Unissued
<1> SUFFICES ASSUME TypeOK, OnlyIssued, LineageInv, NEW t \in Tokens, t > issued
             PROVE  ~Held(disk, t) /\ \A i \in Instances : ~Held(mem[i], t)
  BY DEF Unissued
<1>1. issued \in Nat /\ t \in Nat
  BY DEF TypeOK, Numbers, Tokens
<1>2. ~Held(disk, t)
  <2>1. t \notin disk.access /\ t \notin disk.refresh
    BY <1>1 DEF OnlyIssued, LineageInv, IssuedFirst
  <2>2. disk.used[t] \in Nat /\ disk.used[t] <= issued
    BY DEF TypeOK, Stored, Numbers, LineageInv, IssuedFirst
  <2>3. disk.used[t] # 0 => disk.used[t] > t
    BY DEF LineageInv, Lineage
  <2> QED BY <1>1, <2>1, <2>2, <2>3 DEF Held
<1>3. ASSUME NEW i \in Instances PROVE ~Held(mem[i], t)
  <2>1. t \notin mem[i].access /\ t \notin mem[i].refresh
    BY <1>1 DEF OnlyIssued, LineageInv, IssuedFirst
  <2>2. mem[i].used[t] \in Nat /\ mem[i].used[t] <= issued
    BY DEF TypeOK, Maps, Numbers, LineageInv, IssuedFirst
  <2>3. mem[i].used[t] # 0 => mem[i].used[t] > t
    BY DEF LineageInv, Lineage
  <2> QED BY <1>1, <2>1, <2>2, <2>3 DEF Held
<1> QED BY <1>2, <1>3

LEMMA EmptyIsEmpty ==
    /\ Empty.access = {} /\ Empty.refresh = {} /\ Empty.gone = Nothing
    /\ Nothing.access = {} /\ Nothing.refresh = {} /\ Nothing.used = {}
    /\ \A t \in Tokens : Empty.used[t] = 0 /\ ~Held(Empty, t)
BY DEF Empty, Nothing, Held

LEMMA AloneInit == Init => AloneInv
<1> SUFFICES ASSUME Init PROVE AloneInv
  OBVIOUS
<1>1. /\ \A i \in Instances : at[i] = "down" /\ mem[i] = Empty
      /\ revoked = {} /\ ended = {} /\ handed = {}
  BY DEF Init
<1>2. /\ disk.refresh = {} /\ \A t \in Tokens : disk.used[t] = 0 /\ t # 0
  BY DEF Init, Tokens
<1>3. \A t \in Tokens : ~Referenced(t)
  BY <1>1, <1>2, EmptyIsEmpty DEF Referenced
<1> QED BY <1>1, <1>3 DEF AloneInv, OneServer, Settled, Exchangeable

-----------------------------------------------------------------------------
(* A save                                                                  *)

LEMMA SavedMaps ==
    ASSUME TypeOK, NEW i \in Instances, NEW m \in Maps, Saves(i, m, grant')
    PROVE  /\ mem'[i].access = m.access /\ mem'[i].refresh = m.refresh /\ mem'[i].used = m.used
           /\ mem'[i].gone = Nothing
           /\ \A j \in Instances : j # i => mem'[j] = mem[j]
BY DEF Saves, TypeOK, Maps

LEMMA SavedRecords ==
    ASSUME TypeOK, NEW i \in Instances, NEW m \in Maps, Saves(i, m, grant'), NEW t \in Tokens
    PROVE  /\ t \in disk'.access <=>
                 \/ t \in m.access
                 \/ t \in disk.access /\ t > expired.access /\ t \notin m.gone.access
           /\ disk'.used[t] = IF m.used[t] # 0 THEN m.used[t]
                              ELSE IF t \in m.gone.used \/ ~(t > expired.refresh) THEN 0
                              ELSE disk.used[t]
           /\ t \in disk'.refresh => t \in Candidates(m, grant')
           /\ t \in Candidates(m, grant') =>
                 ((\A o \in Candidates(m, grant') : grant'[o] = grant'[t] => o <= t) =>
                     t \in disk'.refresh)
           /\ t \in Candidates(m, grant') <=>
                 /\ disk'.used[t] = 0
                 /\ \/ t \in m.refresh
                    \/ t \in disk.refresh /\ t > expired.refresh /\ t \notin m.gone.refresh
<1>1. disk' = Merged(m, grant') /\ disk \in Stored
  BY DEF Saves, TypeOK
<1>2. disk'.access = ({u \in disk.access : u > expired.access} \ m.gone.access) \cup m.access
  BY <1>1, MergedEffect
<1>3. disk'.used[t] = IF m.used[t] # 0 THEN m.used[t]
                      ELSE IF t \in m.gone.used \/ ~(t > expired.refresh) THEN 0
                      ELSE disk.used[t]
  BY <1>1, MergedUsed
<1>4. /\ disk'.refresh \subseteq Candidates(m, grant')
      /\ \A u \in Candidates(m, grant') :
            (\A o \in Candidates(m, grant') : grant'[o] = grant'[u] => o <= u) =>
                u \in disk'.refresh
  BY <1>1, MergedRefresh
<1>5. t \in Candidates(m, grant') <=>
         /\ disk'.used[t] = 0
         /\ \/ t \in m.refresh
            \/ t \in disk.refresh /\ t > expired.refresh /\ t \notin m.gone.refresh
  BY <1>1 DEF Candidates
<1> QED BY <1>2, <1>3, <1>4, <1>5

\* The new token is of a new grant, or of one that had a token here.
LEMMA FreshGrants ==
    ASSUME TypeOK, LineageInv, FairStep, NEW i \in Instances, NEW n \in Fresh, NEW t \in Tokens,
           t <= issued, grant'[n] = grant[t],
           grant'[n] = n \/ \E u \in mem[i].refresh : grant'[n] = grant[u]
    PROVE  \E u \in mem[i].refresh : grant[u] = grant[t]
<1>1. n > issued /\ n \in Nat /\ issued \in Nat
  BY DEF Fresh, Tokens, TypeOK, Numbers
<1>2. grant[t] \in 1..issued
  BY DEF LineageInv, IssuedFirst
<1> QED BY <1>1, <1>2

\* After a save the instance still knows what is stored.
LEMMA SaveStaysForeign ==
    ASSUME TypeOK, LineageInv, Unissued, NEW i \in Instances, NEW m \in Maps,
           Saves(i, m, grant'), Prepared(i, m), FairStep, NEW t \in Tokens, t <= issued,
           Foreign(i, t)
    PROVE  Foreign(i, t)'
<1>1. /\ mem'[i].access = m.access /\ mem'[i].refresh = m.refresh /\ mem'[i].used = m.used
      /\ mem'[i].gone = Nothing
  BY SavedMaps
<1> SUFFICES ASSUME NEW u \in Tokens, grant'[u] = grant'[t] PROVE ~Held(m, u)
  BY <1>1, EmptyIsEmpty DEF Foreign, Held, OfGrant
<1>2. issued \in Nat /\ t \in Nat /\ u \in Nat /\ grant'[t] = grant[t]
  BY DEF TypeOK, Numbers, Tokens, FairStep
<1>3. \A o \in OfGrant(grant[t]) : ~Held(mem[i], o)
  BY DEF Foreign
<1>4. ~Held(mem[i], u)
  <2>1. CASE u <= issued
    BY <1>2, <1>3, <2>1 DEF FairStep, OfGrant
  <2>2. CASE u > issued
    BY <2>2 DEF Unissued
  <2> QED BY <1>2, <2>1, <2>2
<1>5. u \notin Fresh
  <2> SUFFICES ASSUME u \in Fresh PROVE FALSE
    OBVIOUS
  <2>1. grant'[u] = u \/ \E w \in mem[i].refresh : grant'[u] = grant[w]
    BY DEF Prepared, Added
  <2>2. PICK w \in mem[i].refresh : grant[w] = grant[t]
    BY <1>2, <2>1, FreshGrants
  <2>3. w \in Tokens
    BY DEF TypeOK, Maps
  <2> QED BY <1>3, <2>2, <2>3 DEF Held, OfGrant
<1> QED BY <1>4, <1>5 DEF Prepared, Added, Held

LEMMA SaveStaysSame ==
    ASSUME TypeOK, LineageInv, Unissued, NEW i \in Instances, NEW m \in Maps,
           \A u \in Tokens : Knows(i, u), Saves(i, m, grant'), Prepared(i, m), FairStep,
           NEW t \in Tokens, t <= issued, Same(i, t)
    PROVE  Same(i, t)'
<1>1. /\ mem'[i].access = m.access /\ mem'[i].refresh = m.refresh /\ mem'[i].used = m.used
      /\ expired' = expired
  BY SavedMaps DEF FairStep
<1>2. /\ issued \in Nat /\ t \in Nat /\ expired.access \in Nat /\ expired.refresh \in Nat
      /\ t \notin Fresh /\ grant'[t] = grant[t]
  BY DEF TypeOK, Numbers, Tokens, FairStep, Fresh
<1>3. t > expired.access => (t \in disk'.access <=> t \in m.access)
  BY SavedRecords DEF Prepared, Told, Same
<1>4. t > expired.refresh => disk'.used[t] = m.used[t]
  BY SavedRecords DEF Prepared, Told, Same
<1>5. ASSUME t > expired.refresh, t \in disk'.refresh PROVE t \in m.refresh
  BY <1>5, SavedRecords DEF Prepared, Told, Same
<1>6. ASSUME t > expired.refresh, t \in m.refresh PROVE t \in disk'.refresh
  <2>1. t \in mem[i].refresh
    BY <1>2, <1>6 DEF Prepared, Added
  <2>2. m.used[t] = 0
    <3>1. mem[i].used[t] = 0
      BY <2>1 DEF LineageInv, OneEach
    <3> QED BY <1>6, <3>1 DEF Prepared, Added
  <2>3. t \in Candidates(m, grant')
    BY <1>4, <1>6, <2>2, SavedRecords
  <2>4. ASSUME NEW o \in Candidates(m, grant'), grant'[o] = grant'[t] PROVE o = t
    <3>1. o \in Tokens
      BY DEF Candidates
    <3>2. \/ o \in m.refresh
          \/ o \in disk.refresh /\ o > expired.refresh /\ o \notin m.gone.refresh
      BY <3>1, SavedRecords
    <3>3. CASE o \in Fresh
      <4>1. grant'[o] = o \/ \E u \in mem[i].refresh \ m.refresh : grant'[o] = grant[u]
        BY <3>3 DEF Prepared, Added
      <4>2. grant[t] \in 1..issued /\ o > issued /\ o \in Nat
        BY <3>1, <3>3 DEF LineageInv, IssuedFirst, Fresh, Tokens
      <4>3. PICK u \in mem[i].refresh \ m.refresh : grant[u] = grant[t]
        BY <1>2, <2>4, <4>1, <4>2
      <4>4. u = t
        BY <2>1, <4>3 DEF LineageInv, OneEach
      <4> QED BY <1>6, <4>3, <4>4
    <3>4. ASSUME o \notin Fresh, o \in mem[i].refresh PROVE o = t
      <4>1. o <= issued
        BY <3>4 DEF LineageInv, IssuedFirst
      <4>2. grant[o] = grant[t]
        BY <1>2, <2>4, <3>1, <4>1 DEF FairStep
      <4> QED BY <2>1, <3>4, <4>2 DEF LineageInv, OneEach
    <3>5. CASE o \in m.refresh
      BY <3>3, <3>4, <3>5 DEF Prepared, Added
    <3>6. CASE o \in disk.refresh /\ o > expired.refresh /\ o \notin m.gone.refresh
      <4>1. o <= issued
        BY <3>6 DEF LineageInv, IssuedFirst
      <4>2. grant[o] = grant[t]
        BY <1>2, <2>4, <3>1, <4>1 DEF FairStep
      <4>3. ~Foreign(i, o)
        BY <2>1, <4>2 DEF Foreign, OfGrant, Held
      <4>4. o \in mem[i].refresh
        BY <3>1, <3>6, <4>3 DEF Knows, Same
      <4> QED BY <3>3, <3>4, <4>4
    <3> QED BY <3>2, <3>5, <3>6
  <2> QED BY <1>2, <2>3, <2>4, SavedRecords
<1> QED BY <1>1, <1>3, <1>4, <1>5, <1>6 DEF Same

\* What a save stores of a token that is in no memory, when the instance knows it.
LEMMA SaveDropsKnown ==
    ASSUME TypeOK, NEW i \in Instances, NEW m \in Maps, Saves(i, m, grant'), FairStep,
           NEW t \in Tokens, Same(i, t)'
    PROVE  /\ ~Held(m, t) => ~Held(disk', t)
           /\ t \notin m.refresh => t \notin disk'.refresh
<1>1. /\ mem'[i].access = m.access /\ mem'[i].refresh = m.refresh /\ mem'[i].used = m.used
      /\ expired' = expired
  BY SavedMaps DEF FairStep
<1>2. t \in disk'.access => t \in m.access \/ t > expired.access
  BY SavedRecords
<1>3. t \in disk'.refresh => t \in m.refresh \/ t > expired.refresh
  BY SavedRecords
<1>4. disk'.used[t] # 0 => m.used[t] # 0 \/ t > expired.refresh
  BY SavedRecords
<1> QED BY <1>1, <1>2, <1>3, <1>4 DEF Held, Same

LEMMA SaveAddsNothing ==
    ASSUME TypeOK, NEW i \in Instances, NEW m \in Maps, Saves(i, m, grant'), NEW t \in Tokens
    PROVE  /\ ~Held(m, t) /\ ~Held(disk, t) => ~Held(disk', t)
           /\ t \notin m.refresh /\ t \notin disk.refresh => t \notin disk'.refresh
BY SavedRecords DEF Held

\* A save leaves no record behind of what it ends, and brings none back.
LEMMA SaveStaysSettled ==
    ASSUME TypeOK, TypeOK', LineageInv, Unissued, Unissued', NEW i \in Instances, NEW m \in Maps,
           \A u \in Tokens : Knows(i, u), Saves(i, m, grant'), Prepared(i, m), FairStep,
           Settled(disk), Settled(mem[i])
    PROVE  Settled(disk)' /\ Settled(mem[i])'
<1>1. /\ mem'[i].access = m.access /\ mem'[i].refresh = m.refresh /\ mem'[i].used = m.used
  BY SavedMaps
<1> SUFFICES ASSUME NEW t \in Tokens
             PROVE  /\ grant'[t] \in revoked' => ~Held(m, t) /\ ~Held(disk', t)
                    /\ grant'[t] \in ended' => t \notin m.refresh /\ t \notin disk'.refresh
  BY <1>1 DEF Settled, Held
<1>2. issued \in Nat /\ issued' \in Nat /\ t \in Nat
  BY DEF TypeOK, Numbers, Tokens
<1>3. /\ grant'[t] \in revoked' /\ grant'[t] \notin revoked => ~Held(m, t)
      /\ grant'[t] \in ended' /\ grant'[t] \notin ended => t \notin m.refresh
      /\ grant'[t] \in (revoked' \ revoked) \cup (ended' \ ended) =>
            \E u \in OfGrant(grant[t]) : Held(mem[i], u)
  BY DEF Prepared, Ends
<1>4. CASE t <= issued
  <2>1. grant'[t] = grant[t] /\ t \notin Fresh
    BY <1>2, <1>4 DEF FairStep, Fresh
  <2>2. ASSUME grant[t] \in revoked PROVE ~Held(m, t) /\ ~Held(disk', t)
    <3>1. ~Held(mem[i], t) /\ ~Held(disk, t)
      BY <2>2 DEF Settled
    <3>2. ~Held(m, t)
      BY <2>1, <3>1 DEF Prepared, Added, Held
    <3> QED BY <3>1, <3>2, SaveAddsNothing
  <2>3. ASSUME grant[t] \in ended PROVE t \notin m.refresh /\ t \notin disk'.refresh
    <3>1. t \notin mem[i].refresh /\ t \notin disk.refresh
      BY <2>3 DEF Settled
    <3>2. t \notin m.refresh
      BY <2>1, <3>1 DEF Prepared, Added
    <3> QED BY <3>1, <3>2, SaveAddsNothing
  <2>4. ASSUME grant'[t] \in (revoked' \ revoked) \cup (ended' \ ended) PROVE Same(i, t)'
    <3>1. ~Foreign(i, t)
      BY <1>3, <2>4 DEF Foreign
    <3>2. Same(i, t)
      BY <3>1 DEF Knows
    <3> QED BY <1>4, <3>2, SaveStaysSame
  <2>5. ASSUME grant'[t] \in revoked' PROVE ~Held(m, t) /\ ~Held(disk', t)
    BY <1>3, <2>1, <2>2, <2>4, <2>5, SaveDropsKnown
  <2>6. ASSUME grant'[t] \in ended' PROVE t \notin m.refresh /\ t \notin disk'.refresh
    BY <1>3, <2>1, <2>3, <2>4, <2>6, SaveDropsKnown
  <2> QED BY <2>5, <2>6
<1>5. CASE t \in Fresh
  <2>1. t > issued /\ ~Held(disk, t) /\ t \notin disk.refresh
    BY <1>5 DEF Fresh, Unissued, Held
  <2>2. grant'[t] \notin revoked /\ grant'[t] \notin ended
    <3>1. grant'[t] = t \/ \E u \in mem[i].refresh : grant'[t] = grant[u]
      BY <1>5 DEF Prepared, Added
    <3>2. t \notin Over
      BY <1>2, <2>1 DEF LineageInv, IssuedFirst
    <3>3. \A u \in mem[i].refresh : u \in Tokens
      BY DEF TypeOK, Maps
    <3>4. \A u \in mem[i].refresh : grant[u] \notin revoked /\ grant[u] \notin ended
      BY <3>3 DEF Settled, Held
    <3> QED BY <3>1, <3>2, <3>4 DEF Over
  <2> QED BY <1>3, <2>1, <2>2, SaveAddsNothing
<1>6. CASE t > issued'
  <2>1. ~Held(disk', t) /\ ~Held(mem'[i], t)
    BY <1>6 DEF Unissued
  <2> QED BY <1>1, <2>1 DEF Held
<1> QED BY <1>2, <1>4, <1>5, <1>6 DEF FairStep, Fresh

\* After a save, a token that is no newer can be exchanged as before.
LEMMA SaveStaysExchangeable ==
    ASSUME TypeOK, TypeOK', LineageInv, OnlyIssued, Unissued, NEW i \in Instances, NEW m \in Maps,
           \A u \in Tokens : Knows(i, u), Saves(i, m, grant'), Prepared(i, m), FairStep,
           NEW t \in Tokens, t <= issued, t > expired.refresh, grant[t] \notin Over',
           t \in disk.refresh \/ disk.used[t] # 0
    PROVE  t \in disk'.refresh \/ disk'.used[t] # 0
<1>1. CASE Same(i, t)
  <2>1. Same(i, t)'
    BY <1>1, SaveStaysSame
  <2>2. t \in mem[i].refresh \/ mem[i].used[t] # 0
    BY <1>1 DEF Same
  <2>3. t \in m.refresh \/ m.used[t] # 0
    BY <2>2 DEF Prepared, Lasts
  <2>4. mem'[i].refresh = m.refresh /\ mem'[i].used = m.used /\ expired' = expired
    BY SavedMaps DEF FairStep
  <2> QED BY <2>1, <2>3, <2>4 DEF Same
<1>2. CASE Foreign(i, t)
  <2>1. /\ t \notin mem[i].refresh /\ mem[i].used[t] = 0
        /\ t \notin mem[i].gone.refresh /\ t \notin mem[i].gone.used
    BY <1>2 DEF Foreign, OfGrant, Held
  <2>2. issued \in Nat /\ t \in Nat /\ t \notin Fresh /\ grant'[t] = grant[t]
    BY DEF TypeOK, Numbers, Tokens, FairStep, Fresh
  <2>3. m.used[t] = 0 /\ t \notin m.gone.used /\ t \notin m.gone.refresh
    BY <2>1 DEF Prepared, Added, Told
  <2>4. disk'.used[t] = disk.used[t]
    BY <2>3, SavedRecords
  <2>5. ASSUME t \in disk.refresh, disk.used[t] = 0 PROVE t \in disk'.refresh
    <3>1. t \in Candidates(m, grant')
      BY <2>3, <2>4, <2>5, SavedRecords
    <3>2. Foreign(i, t)'
      BY <1>2, SaveStaysForeign
    <3>3. mem'[i].refresh = m.refresh
      BY SavedMaps
    <3>4. ASSUME NEW o \in Candidates(m, grant'), grant'[o] = grant'[t] PROVE o = t
      <4>1. o \in Tokens
        BY DEF Candidates
      <4>2. o \notin m.refresh
        BY <3>2, <3>3, <3>4, <4>1 DEF Foreign, OfGrant, Held
      <4>3. o \in disk.refresh
        BY <4>1, <4>2, SavedRecords
      <4>4. o <= issued
        BY <4>3 DEF LineageInv, IssuedFirst
      <4>5. grant[o] = grant[t]
        BY <2>2, <3>4, <4>1, <4>4 DEF FairStep
      <4> QED BY <2>5, <4>3, <4>5 DEF LineageInv, OneEach
    <3> QED BY <2>2, <3>1, <3>4, SavedRecords
  <2> QED BY <2>4, <2>5
<1> QED BY <1>1, <1>2 DEF Knows

LEMMA SaveStaysAlone ==
    ASSUME TypeOK, TypeOK', LineageInv, OnlyIssued, Unissued, Unissued', AloneInv,
           ~scenario.overlap, UNCHANGED scenario, NEW i \in Instances, NEW m \in Maps,
           at[i] # "down", at'[i] # "down", \A j \in Instances : j # i => at'[j] = at[j],
           Saves(i, m, grant'), Prepared(i, m), FairStep,
           \A t \in handed' : t \in handed \/ t \in Fresh \cap m.refresh
                              \/ \E u \in Tokens : mem[i].used[u] = t
    PROVE  AloneInv'
<1>1. /\ \A j \in Instances : j # i => at[j] = "down" /\ mem[j] = Empty
      /\ \A t \in Tokens : Knows(i, t)
      /\ Settled(disk) /\ Settled(mem[i]) /\ Exchangeable
  BY DEF AloneInv, OneServer
<1>2. /\ mem'[i].access = m.access /\ mem'[i].refresh = m.refresh /\ mem'[i].used = m.used
      /\ \A j \in Instances : j # i => mem'[j] = Empty /\ at'[j] = "down"
  BY <1>1, SavedMaps
<1>3. issued \in Nat /\ issued' \in Nat /\ \A t \in Tokens : t \in Nat /\ t # 0
  BY DEF TypeOK, Numbers, Tokens
<1>4. ASSUME NEW t \in Tokens PROVE Knows(i, t)'
  <2>1. CASE t <= issued /\ Same(i, t)
    BY <1>1, <2>1, SaveStaysSame DEF Knows
  <2>2. CASE t <= issued /\ Foreign(i, t) /\ scenario.load
    BY <2>2, SaveStaysForeign DEF Knows
  <2>3. CASE t > issued'
    BY <2>3 DEF Knows, Same, Unissued, Held
  <2>4. CASE t \in Fresh
    <3>1. ~Held(disk, t) /\ ~Held(mem[i], t) /\ t > issued /\ t = issued'
      BY <2>4 DEF Fresh, Unissued
    <3>2. m.used[t] = 0
      BY <3>1 DEF Prepared, Added, Held
    <3>3. disk'.used[t] = 0
      BY <3>1, <3>2, SavedRecords DEF Held
    <3>4. t \in disk'.access <=> t \in m.access
      BY <3>1, SavedRecords DEF Held
    <3>5. t \in disk'.refresh => t \in m.refresh
      BY <3>1, SavedRecords DEF Held
    <3>6. ASSUME t \in m.refresh PROVE t \in disk'.refresh
      <4>1. t \in Candidates(m, grant')
        BY <3>3, <3>6, SavedRecords
      <4>2. ASSUME NEW o \in Candidates(m, grant') PROVE o <= t
        <5>1. o \in Tokens /\ (o \in m.refresh \/ o \in disk.refresh)
          BY SavedRecords DEF Candidates
        <5>2. o \in mem[i].refresh \/ o \in Fresh \/ o \in disk.refresh
          BY <5>1 DEF Prepared, Added
        <5>3. o <= issued \/ o = issued'
          BY <5>2 DEF LineageInv, IssuedFirst, Fresh
        <5> QED BY <1>3, <3>1, <5>1, <5>3
      <4> QED BY <4>1, <4>2, SavedRecords
    <3> QED BY <1>2, <3>2, <3>3, <3>4, <3>5, <3>6 DEF Knows, Same
  <2> QED BY <1>1, <1>3, <2>1, <2>2, <2>3, <2>4 DEF Knows, FairStep, Fresh
<1>5. Settled(disk)' /\ Settled(mem[i])'
  BY <1>1, SaveStaysSettled
<1>6. Exchangeable'
  <2> SUFFICES ASSUME NEW t \in Tokens, Referenced(t)', t > expired'.refresh,
                      grant'[t] \notin Over'
               PROVE  t \in disk'.refresh \/ disk'.used[t] # 0
    BY DEF Exchangeable, Live
  <2>1. CASE t \in Fresh \cap m.refresh
    <3>1. t > issued
      BY <2>1 DEF Fresh
    <3>2. ~Foreign(i, t)'
      BY <1>2, <2>1 DEF Foreign, OfGrant, Held
    <3>3. Same(i, t)'
      BY <1>4, <3>2 DEF Knows
    <3> QED BY <1>2, <2>1, <3>3 DEF Same
  <2>2. CASE Referenced(t)
    <3>1. t <= issued
      BY <2>2 DEF OnlyIssued
    <3>2. grant'[t] = grant[t] /\ expired' = expired /\ grant[t] \notin Over
      BY <3>1 DEF FairStep, Over
    <3>3. t \in disk.refresh \/ disk.used[t] # 0
      BY <1>1, <2>2, <3>2 DEF Exchangeable, Live
    <3> QED BY <1>1, <3>1, <3>2, <3>3, SaveStaysExchangeable
  <2>3. Referenced(t) \/ t \in Fresh \cap m.refresh
    <3>1. \A u \in Tokens : m.used[u] = t => Referenced(t) \/ t \in Fresh \cap m.refresh
      BY <1>3 DEF Prepared, Added, Referenced
    <3>2. \A u \in Tokens : disk'.used[u] = t => m.used[u] = t \/ disk.used[u] = t
      BY <1>3, SavedRecords
    <3>3. \A j \in Instances, u \in Tokens : mem'[j].used[u] = t => m.used[u] = t
      BY <1>2, <1>3, EmptyIsEmpty
    <3> QED BY <3>1, <3>2, <3>3 DEF Referenced
  <2> QED BY <2>1, <2>2, <2>3
<1>7. \A j \in Instances : Settled(mem[j])'
  <2>1. ASSUME NEW j \in Instances, j # i PROVE Settled(mem[j])'
    <3>1. mem'[j] = Empty
      BY <1>2, <2>1
    <3> QED BY <3>1, EmptyIsEmpty DEF Settled, Held
  <2> QED BY <1>5, <2>1
<1>8. \A j \in Instances, t \in Tokens : at'[j] # "down" => Knows(j, t)'
  BY <1>2, <1>4
<1> QED BY <1>2, <1>5, <1>6, <1>7, <1>8 DEF AloneInv, OneServer

\* A save that throws leaves the instance knowing what it knew.
LEMMA FailureStaysAlone ==
    ASSUME TypeOK, TypeOK', LineageInv, LineageInv', OnlyIssued, OnlyIssued', Unissued, AloneInv,
           ~scenario.overlap, UNCHANGED scenario, NEW i \in Instances, NEW m \in Maps,
           at[i] # "down", at'[i] # "down", \A j \in Instances : j # i => at'[j] = at[j],
           SaveFails(i, m), Restored(i, m), FairStep
    PROVE  AloneInv'
<1>1. /\ \A j \in Instances : j # i => at[j] = "down" /\ mem[j] = Empty
      /\ \A t \in Tokens : Knows(i, t)
      /\ Settled(disk) /\ Settled(mem[i]) /\ Exchangeable
  BY DEF AloneInv, OneServer
<1>2. /\ disk' = disk /\ mem'[i] = m /\ expired' = expired
      /\ handed' = handed /\ revoked' = revoked /\ ended' = ended /\ Over' = Over
      /\ \A j \in Instances : j # i => mem'[j] = Empty /\ at'[j] = "down"
  BY <1>1 DEF SaveFails, Restored, FairStep, TypeOK, Over
<1>3. issued \in Nat /\ issued' \in Nat /\ \A t \in Tokens : t \in Nat /\ t # 0
  BY DEF TypeOK, Numbers, Tokens
<1>4. \A t \in Tokens : /\ Held(m, t) => Held(mem[i], t)
                        /\ t \in m.refresh => t \in mem[i].refresh
                        /\ m.used[t] \in {0, mem[i].used[t]}
  BY DEF Restored, Held
<1>5. ASSUME NEW t \in Tokens, t <= issued, Same(i, t) PROVE Same(i, t)'
  BY <1>2, <1>5 DEF Same, Restored
<1>6. ASSUME NEW t \in Tokens, t <= issued, Foreign(i, t) PROVE Foreign(i, t)'
  <2> SUFFICES ASSUME NEW u \in Tokens, grant'[u] = grant'[t]
               PROVE  /\ ~Held(m, u)
                      /\ u \notin m.gone.access \cup m.gone.refresh \cup m.gone.used
    BY <1>2 DEF Foreign, OfGrant
  <2>1. grant'[t] = grant[t]
    BY <1>6 DEF FairStep
  <2>2. \A o \in OfGrant(grant[t]) :
           /\ ~Held(mem[i], o)
           /\ o \notin mem[i].gone.access \cup mem[i].gone.refresh \cup mem[i].gone.used
    BY <1>6 DEF Foreign
  <2>3. u \notin Fresh
    <3> SUFFICES ASSUME u \in Fresh PROVE FALSE
      OBVIOUS
    <3>1. grant'[u] = u \/ \E w \in mem[i].refresh : grant'[u] = grant[w]
      BY DEF Restored
    <3>2. PICK w \in mem[i].refresh : grant[w] = grant[t]
      BY <1>6, <2>1, <3>1, FreshGrants
    <3>3. w \in Tokens
      BY DEF TypeOK, Maps
    <3> QED BY <2>2, <3>2, <3>3 DEF Held, OfGrant
  <2>4. CASE u <= issued
    <3>1. u \in OfGrant(grant[t])
      BY <2>1, <2>4 DEF FairStep, OfGrant
    <3>2. ~Held(mem[i], u) /\ u \notin mem[i].gone.access \cup mem[i].gone.refresh
          /\ u \notin mem[i].gone.used
      BY <2>2, <3>1
    <3> QED BY <1>4, <2>3, <3>2 DEF Restored, Held
  <2>5. CASE u > issued
    <3>1. ~Held(mem[i], u)
      BY <2>5 DEF Unissued
    <3>2. u > issued'
      BY <1>3, <2>3, <2>5 DEF FairStep, Fresh
    <3>3. u \notin m.gone.access
      BY <1>2, <1>3, <3>2 DEF OnlyIssued
    <3>4. u \notin m.gone.refresh /\ u \notin m.gone.used
      BY <1>2, <1>3, <3>2 DEF LineageInv, IssuedFirst
    <3> QED BY <1>4, <3>1, <3>3, <3>4
  <2> QED BY <1>3, <2>4, <2>5
<1>7. ASSUME NEW t \in Tokens PROVE Knows(i, t)'
  <2>1. CASE t <= issued
    BY <1>1, <1>5, <1>6, <2>1 DEF Knows
  <2>2. CASE t > issued
    <3>1. ~Held(disk, t) /\ ~Held(m, t)
      BY <1>4, <2>2 DEF Unissued
    <3> QED BY <1>2, <3>1 DEF Knows, Same, Held
  <2> QED BY <1>3, <2>1, <2>2
<1>8. ASSUME NEW t \in Tokens
      PROVE  /\ grant'[t] \in revoked => ~Held(disk, t) /\ ~Held(m, t)
             /\ grant'[t] \in ended => t \notin disk.refresh /\ t \notin m.refresh
  <2>1. CASE t <= issued
    <3>1. grant'[t] = grant[t]
      BY <2>1 DEF FairStep
    <3> QED BY <1>1, <1>4, <3>1 DEF Settled
  <2>2. CASE t > issued
    BY <1>4, <2>2 DEF Unissued, Held
  <2> QED BY <1>3, <2>1, <2>2
<1>9. ASSUME NEW j \in Instances PROVE Settled(mem[j])'
  <2>1. CASE j = i
    BY <1>2, <1>8, <2>1 DEF Settled, Held
  <2>2. CASE j # i
    <3>1. mem'[j] = Empty
      BY <1>2, <2>2
    <3> QED BY <3>1, EmptyIsEmpty DEF Settled, Held
  <2> QED BY <2>1, <2>2
<1>10. Settled(disk)'
  BY <1>2, <1>8 DEF Settled, Held
<1>11. Exchangeable'
  <2> SUFFICES ASSUME NEW t \in Tokens, Referenced(t)', t > expired.refresh, grant'[t] \notin Over
               PROVE  t \in disk.refresh \/ disk.used[t] # 0
    BY <1>2 DEF Exchangeable, Live
  <2>1. \A j \in Instances, u \in Tokens : mem'[j].used[u] = t => mem[i].used[u] = t
    <3>1. \A j \in Instances, u \in Tokens : mem'[j].used[u] = t => m.used[u] = t
      BY <1>2, <1>3, EmptyIsEmpty
    <3> QED BY <1>3, <1>4, <3>1
  <2>2. Referenced(t)
    BY <1>2, <2>1 DEF Referenced
  <2>3. t <= issued /\ grant'[t] = grant[t]
    BY <2>2 DEF OnlyIssued, FairStep
  <2> QED BY <1>1, <2>2, <2>3 DEF Exchangeable, Live
<1>12. \A j \in Instances, t \in Tokens : at'[j] # "down" => Knows(j, t)'
  BY <1>2, <1>7
<1> QED BY <1>2, <1>9, <1>10, <1>11, <1>12 DEF AloneInv, OneServer

\* What only time, an answer or an end of a process changes.
LEMMA QuietStaysAlone ==
    ASSUME TypeOK, TypeOK', AloneInv, ~scenario.overlap,
           UNCHANGED <<scenario, disk, issues, revoked, ended>>,
           expired'.access >= expired.access, expired'.refresh >= expired.refresh,
           \A j \in Instances : \/ mem'[j] = mem[j] /\ (at'[j] = "down" <=> at[j] = "down")
                                \/ mem'[j] = Empty /\ at'[j] = "down",
           \A t \in Tokens : Referenced(t)' => Referenced(t)
    PROVE  AloneInv'
<1>0. /\ expired.refresh \in Nat /\ expired'.refresh \in Nat /\ \A t \in Tokens : t \in Nat
      /\ expired.access \in Nat /\ expired'.access \in Nat
  BY DEF TypeOK, Numbers, Tokens
<1>1. /\ OneServer /\ (\A j \in Instances : at[j] = "down" => mem[j] = Empty)
      /\ \A j \in Instances, t \in Tokens : at[j] # "down" => Knows(j, t)
      /\ Settled(disk) /\ (\A j \in Instances : Settled(mem[j])) /\ Exchangeable
  BY DEF AloneInv
<1>2. \A t \in Tokens : /\ t > expired'.access => t > expired.access
                        /\ t > expired'.refresh => t > expired.refresh
  BY <1>0
<1>3. OneServer' /\ \A j \in Instances : at'[j] = "down" => mem'[j] = Empty
  BY <1>1 DEF OneServer
<1>4. ASSUME NEW j \in Instances, NEW t \in Tokens, at'[j] # "down" PROVE Knows(j, t)'
  <2>1. mem'[j] = mem[j] /\ Knows(j, t) /\ grant' = grant /\ disk' = disk
    BY <1>1, <1>4 DEF issues
  <2>2. Same(j, t) => Same(j, t)'
    BY <1>2, <2>1 DEF Same
  <2>3. Foreign(j, t) => Foreign(j, t)'
    BY <2>1 DEF Foreign, OfGrant, Held
  <2> QED BY <2>1, <2>2, <2>3 DEF Knows
<1>5. Settled(disk)'
  BY <1>1 DEF Settled, Held, issues
<1>6. ASSUME NEW j \in Instances PROVE Settled(mem[j])'
  <2>1. CASE mem'[j] = mem[j]
    BY <1>1, <2>1 DEF Settled, Held, issues
  <2>2. CASE mem'[j] = Empty
    BY <2>2, EmptyIsEmpty DEF Settled, Held
  <2> QED BY <2>1, <2>2
<1>7. Exchangeable'
  BY <1>1, <1>2 DEF Exchangeable, Live, Over, issues
<1> QED BY <1>3, <1>4, <1>5, <1>6, <1>7 DEF AloneInv

LEMMA HandledStaysAlone ==
    ASSUME TypeOK, TypeOK', LineageInv, LineageInv', OnlyIssued, OnlyIssued', Unissued, Unissued',
           AloneInv, ~scenario.overlap, UNCHANGED scenario, NEW i \in Instances, Handled(i)
    PROVE  AloneInv'
<1>1. /\ FairStep /\ at[i] # "down" /\ at'[i] # "down"
      /\ \A j \in Instances : j # i => at'[j] = at[j]
  BY DEF Handled
<1>2. \A t \in handed' : \/ t \in handed
                         \/ \E u \in Tokens : mem[i].used[u] = t
                         \/ t \in Fresh /\ t \in disk'.access /\ t \in mem'[i].refresh
  BY DEF Handled
<1>3. ASSUME NEW m \in Maps, Saves(i, m, grant'), Prepared(i, m) PROVE AloneInv'
  <2>1. mem'[i].refresh = m.refresh
    BY <1>3, SavedMaps
  <2>2. \A t \in handed' : t \in handed \/ t \in Fresh \cap m.refresh
                              \/ \E u \in Tokens : mem[i].used[u] = t
    BY <1>2, <2>1
  <2> QED BY <1>1, <1>3, <2>2, SaveStaysAlone
<1>4. ASSUME NEW m \in Maps, SaveFails(i, m), Restored(i, m) PROVE AloneInv'
  BY <1>1, <1>4, FailureStaysAlone
<1>5. CASE UNCHANGED <<disk, mem, issues, revoked, ended>>
  <2>1. Fresh = {} /\ expired' = expired
    BY <1>1, <1>5 DEF FairStep, Fresh, issues, TypeOK, Numbers, Tokens
  <2>2. \A t \in Tokens : Referenced(t)' => Referenced(t)
    BY <1>2, <1>5, <2>1 DEF Referenced
  <2>3. expired'.access >= expired.access /\ expired'.refresh >= expired.refresh
    BY <2>1 DEF TypeOK, Numbers
  <2>4. \A j \in Instances : mem'[j] = mem[j] /\ (at'[j] = "down" <=> at[j] = "down")
    BY <1>1, <1>5
  <2> QED BY <1>5, <2>2, <2>3, <2>4, QuietStaysAlone
<1> QED BY <1>3, <1>4, <1>5 DEF Handled

\* A server that starts reads what is stored, or nothing; it is the only one.
LEMMA BootStaysAlone ==
    ASSUME TypeOK, TypeOK', AloneInv, ~scenario.overlap, UNCHANGED scenario,
           NEW i \in Instances, Boot(i)
    PROVE  AloneInv'
<1>1. /\ \A j \in Instances : at[j] = "down" /\ mem[j] = Empty
      /\ Settled(disk) /\ Exchangeable
  BY DEF AloneInv, Boot
<1>2. /\ at'[i] = "idle" /\ \A j \in Instances : j # i => at'[j] = "down"
      /\ UNCHANGED <<issued, grant, expired, handed, revoked, ended>>
      /\ \/ /\ disk' = Unexpired(disk)
            /\ mem' = [mem EXCEPT ![i] = [access |-> disk'.access, refresh |-> disk'.refresh,
                                          used |-> disk'.used, gone |-> Nothing]]
         \/ scenario.load /\ UNCHANGED <<disk, mem>>
  BY <1>1 DEF Boot, issues, answers, TypeOK
<1>3. \A t \in Tokens : t # 0
  BY DEF Tokens
<1>4. OneServer'
  BY <1>2 DEF OneServer
<1>5. CASE scenario.load /\ UNCHANGED <<disk, mem>>
  <2>1. \A t \in Tokens : Foreign(i, t)'
    BY <1>1, <1>5, EmptyIsEmpty DEF Foreign, OfGrant, Held
  <2>2. \A j \in Instances, t \in Tokens : at'[j] # "down" => Knows(j, t)'
    BY <1>2, <1>5, <2>1 DEF Knows
  <2>3. Settled(disk)' /\ \A j \in Instances : Settled(mem[j])'
    BY <1>1, <1>2, <1>5, EmptyIsEmpty DEF Settled, Held
  <2>4. Exchangeable'
    BY <1>1, <1>2, <1>5 DEF Exchangeable, Referenced, Live, Over
  <2> QED BY <1>1, <1>4, <1>5, <2>2, <2>3, <2>4 DEF AloneInv
<1>6. CASE /\ disk' = Unexpired(disk)
           /\ mem' = [mem EXCEPT ![i] = [access |-> disk'.access, refresh |-> disk'.refresh,
                                         used |-> disk'.used, gone |-> Nothing]]
  <2>1. /\ mem'[i].access = disk'.access /\ mem'[i].refresh = disk'.refresh
        /\ mem'[i].used = disk'.used
        /\ \A j \in Instances : j # i => mem'[j] = Empty
    BY <1>1, <1>6 DEF TypeOK
  <2>2. /\ disk'.access \subseteq disk.access
        /\ disk'.refresh = {t \in disk.refresh : t > expired.refresh}
        /\ \A t \in Tokens : disk'.used[t] = IF t > expired.refresh THEN disk.used[t] ELSE 0
    BY <1>6 DEF Unexpired
  <2>3. \A t \in Tokens : Same(i, t)'
    BY <2>1 DEF Same
  <2>4. \A t \in Tokens : Held(disk', t) => Held(disk, t)
    BY <2>2 DEF Held
  <2>5. Settled(disk)' /\ Settled(mem[i])'
    BY <1>1, <1>2, <2>1, <2>2, <2>4 DEF Settled, Held
  <2>6. ASSUME NEW j \in Instances, j # i PROVE Settled(mem[j])' /\ mem'[j] = Empty
    <3>1. mem'[j] = Empty
      BY <2>1, <2>6
    <3> QED BY <3>1, EmptyIsEmpty DEF Settled, Held
  <2>7. \A t \in Tokens : Referenced(t)' => Referenced(t)
    <3>1. \A u \in Tokens : disk'.used[u] \in {0, disk.used[u]}
      BY <2>2
    <3>2. \A j \in Instances, u \in Tokens : mem'[j].used[u] \in {0, disk.used[u]}
      BY <2>1, <3>1, EmptyIsEmpty
    <3> QED BY <1>2, <1>3, <3>1, <3>2 DEF Referenced
  <2>8. Exchangeable'
    BY <1>1, <1>2, <2>2, <2>7 DEF Exchangeable, Live, Over
  <2> QED BY <1>2, <1>4, <2>3, <2>5, <2>6, <2>8 DEF AloneInv, Knows
<1> QED BY <1>2, <1>5, <1>6

LEMMA TurnsStayAlone ==
    ASSUME TypeOK, TypeOK', AloneInv, ~scenario.overlap, UNCHANGED scenario,
           (\E i \in Instances : Stop(i)) \/ Expire
    PROVE  AloneInv'
<1>1. /\ expired.refresh \in Nat /\ expired.access \in Nat /\ \A t \in Tokens : t # 0
  BY DEF TypeOK, Numbers, Tokens
<1>2. UNCHANGED <<disk, issues, revoked, ended, handed>>
  BY DEF Stop, Expire, answers
<1>3. expired'.access >= expired.access /\ expired'.refresh >= expired.refresh
  <2>1. /\ expired'.access = expired.access \/ expired'.access = expired.access + 1
        /\ expired'.refresh = expired.refresh \/ expired'.refresh = expired.refresh + 1
    BY DEF Stop, Expire, TypeOK
  <2> QED BY <1>1, <2>1
<1>4. \A j \in Instances : \/ mem'[j] = mem[j] /\ (at'[j] = "down" <=> at[j] = "down")
                           \/ mem'[j] = Empty /\ at'[j] = "down"
  BY DEF Stop, Expire, TypeOK
<1>5. \A t \in Tokens : Referenced(t)' => Referenced(t)
  <2>1. \A j \in Instances, u \in Tokens : mem'[j].used[u] \in {0, mem[j].used[u]}
    BY <1>4, EmptyIsEmpty
  <2> QED BY <1>1, <1>2, <2>1 DEF Referenced
<1> QED BY <1>2, <1>3, <1>4, <1>5, QuietStaysAlone

LEMMA AnyoneStaysAlone ==
    ASSUME TypeOK, TypeOK', AloneInv, UNCHANGED <<scenario, disk, mem, issues, expired, answers>>,
           \A j \in Instances : at'[j] = "down" <=> at[j] = "down"
    PROVE  AloneInv'
<1>1. CASE scenario.overlap
  BY <1>1 DEF AloneInv
<1>2. CASE ~scenario.overlap
  <2>1. expired'.access >= expired.access /\ expired'.refresh >= expired.refresh
    BY DEF TypeOK, Numbers
  <2>2. \A t \in Tokens : Referenced(t)' => Referenced(t)
    BY DEF Referenced, answers
  <2> QED BY <1>2, <2>1, <2>2, QuietStaysAlone DEF answers
<1> QED BY <1>1, <1>2

\* Every step of the grants keeps the invariant.
LEMMA AloneStep ==
    TypeOK /\ TypeOK' /\ SurvivalInv /\ SurvivalInv' /\ LineageInv /\ LineageInv' /\ AloneInv
        /\ [Next]_vars => AloneInv'
<1> SUFFICES ASSUME TypeOK, TypeOK', SurvivalInv, SurvivalInv', LineageInv, LineageInv',
                    AloneInv, [Next]_vars
             PROVE  AloneInv'
  OBVIOUS
<1>0. OnlyIssued /\ OnlyIssued'
  BY DEF SurvivalInv
<1>u. Unissued /\ Unissued'
  <2>1. (TypeOK /\ OnlyIssued /\ LineageInv => Unissued)'
    BY UnissuedHaveNone, PTL
  <2> QED BY <1>0, <2>1, UnissuedHaveNone
<1>s. UNCHANGED scenario
  BY DEF Next, vars
<1>o. CASE scenario.overlap
  BY <1>s, <1>o DEF AloneInv
<1>h. ASSUME ~scenario.overlap, NEW i \in Instances, Handled(i) PROVE AloneInv'
  BY <1>0, <1>u, <1>s, <1>h, HandledStaysAlone
<1>1. ASSUME NEW i \in Instances, Decline(i) PROVE AloneInv'
  <2>1. /\ UNCHANGED <<disk, mem, issues, expired, answers>>
        /\ \A j \in Instances : at'[j] = "down" <=> at[j] = "down"
    BY <1>1 DEF Decline, Answers, TypeOK
  <2> QED BY <1>s, <2>1, AnyoneStaysAlone
<1>2. ASSUME NEW i \in Instances, NEW r \in Requests, Authorize(i, r) \/ CompleteLogin(i, r)
      PROVE  AloneInv'
  <2>1. /\ UNCHANGED <<disk, mem, issues, expired, answers>>
        /\ \A j \in Instances : at'[j] = "down" <=> at[j] = "down"
    BY <1>2 DEF Authorize, CompleteLogin, Answers, TypeOK
  <2> QED BY <1>s, <2>1, AnyoneStaysAlone
<1>4. CASE UNCHANGED vars
  BY <1>s, <1>4, AnyoneStaysAlone DEF vars
<1>5. CASE Expire
  BY <1>s, <1>o, <1>5, TurnsStayAlone
<1>6. ASSUME NEW i \in Instances, Boot(i) \/ Stop(i) PROVE AloneInv'
  BY <1>s, <1>o, <1>6, BootStaysAlone, TurnsStayAlone
<1>7. ASSUME NEW i \in Instances, Cleanup(i) PROVE AloneInv'
  BY <1>o, <1>h, <1>7, CleanupHandles
<1>8. ASSUME NEW i \in Instances, NEW r \in Requests, ExchangeCode(i, r) PROVE AloneInv'
  BY <1>0, <1>o, <1>h, <1>8, ExchangeHandles
<1>9. ASSUME NEW i \in Instances, NEW t \in Tokens, Refresh(i, t) PROVE AloneInv'
  BY <1>0, <1>o, <1>h, <1>9, RefreshHandles
<1>10. ASSUME NEW i \in Instances, NEW t \in Tokens, Reuse(i, t) \/ Revoke(i, t)
       PROVE  AloneInv'
  BY <1>0, <1>o, <1>h, <1>10, EndHandles
<1>11. ASSUME NEW i \in Instances, NEW t \in Tokens, Replay(i, t) PROVE AloneInv'
  BY <1>0, <1>o, <1>h, <1>11, ReplayHandles
<1> QED BY <1>1, <1>2, <1>4, <1>5, <1>6, <1>7, <1>8, <1>9, <1>10, <1>11 DEF Next

\* What the invariant says: of what is over, of what can be exchanged, and of the Maps.
LEMMA AloneSuffices ==
    /\ TypeOK /\ AloneInv => EndedStaysEnded
    /\ TypeOK /\ AloneInv => ClientCanGoOn
    /\ TypeOK /\ AloneInv => MemoryMatchesDisk
<1>1. ASSUME TypeOK, AloneInv PROVE EndedStaysEnded
  <2> SUFFICES ASSUME ~scenario.overlap, NEW i \in Instances, NEW t \in Tokens
               PROVE  /\ grant[t] \in revoked => ~Held(disk, t) /\ ~Held(mem[i], t)
                      /\ grant[t] \in ended => t \notin disk.refresh \cup mem[i].refresh
    BY DEF EndedStaysEnded, Held
  <2> QED BY <1>1 DEF AloneInv, Settled
<1>2. ASSUME TypeOK, AloneInv PROVE ClientCanGoOn
  BY <1>2 DEF AloneInv, Exchangeable, ClientCanGoOn, TypeOK, Referenced, Live, Over
<1>3. ASSUME TypeOK, AloneInv PROVE MemoryMatchesDisk
  <2> SUFFICES ASSUME NEW i \in Instances, at[i] = "idle", ~scenario.overlap, ~scenario.load
               PROVE  Unexpired([access |-> mem[i].access, refresh |-> mem[i].refresh,
                                 used |-> mem[i].used]) = Unexpired(disk)
    BY DEF MemoryMatchesDisk
  <2>1. \A t \in Tokens : Same(i, t)
    BY <1>3 DEF AloneInv, Knows
  <2>2. /\ disk.access \subseteq Tokens /\ disk.refresh \subseteq Tokens
        /\ mem[i].access \subseteq Tokens /\ mem[i].refresh \subseteq Tokens
    BY <1>3 DEF TypeOK, Stored, Maps
  <2>3. {t \in disk.access : t > expired.access} = {t \in mem[i].access : t > expired.access}
    BY <2>1, <2>2 DEF Same
  <2>4. {t \in disk.refresh : t > expired.refresh} = {t \in mem[i].refresh : t > expired.refresh}
    BY <2>1, <2>2 DEF Same
  <2>5. \A t \in Tokens : (IF t > expired.refresh THEN disk.used[t] ELSE 0) =
                             (IF t > expired.refresh THEN mem[i].used[t] ELSE 0)
    BY <2>1 DEF Same
  <2> QED BY <2>3, <2>4, <2>5 DEF Unexpired
<1> QED BY <1>1, <1>2, <1>3

LEMMA AloneHolds == Spec => []AloneInv
BY AloneInit, AloneStep, LineageInit, LineageStep, SurvivalInit, TypeCorrect, StepKeeps, PTL
   DEF Spec

\* One server at a time: what a revocation or a reuse ended comes back in no restart,
\* no save that fails and no merge.
THEOREM EndedGrantsStayEnded == Spec => []EndedStaysEnded
BY AloneHolds, AloneSuffices, TypeCorrect, PTL

\* One server at a time: a client whose answer was lost can still exchange its token or
\* have the answer again.
THEOREM ClientsCanGoOn == Spec => []ClientCanGoOn
BY AloneHolds, AloneSuffices, TypeCorrect, PTL

\* One server at a time, whose load succeeds: between requests its Maps are the store's,
\* up to what has expired.
THEOREM MapsMatchStore == Spec => []MemoryMatchesDisk
BY AloneHolds, AloneSuffices, TypeCorrect, PTL
=============================================================================
