-------------------------- MODULE ToolServerProofs --------------------------
(***************************************************************************)
(* Proofs about ToolServer, for any clients, arguments, limits, lifetimes  *)
(* and sizes of the stores, over every restart and crash.                  *)
(*                                                                         *)
(* ApprovalsStartOnce: a handle starts its tool once at most, for whom and *)
(* for what it was issued.  The invariant says that a record of a store    *)
(* that is still active belongs to a handle that has started nothing, and  *)
(* what was noted when the handle was issued; a restart forgets records    *)
(* and so keeps it.                                                        *)
(*                                                                         *)
(* OldestForgotten: a store forgets its oldest handle only, and only when  *)
(* it is full.  The invariant says that what a store lacks is older than   *)
(* all it holds, and counts them.                                          *)
(*                                                                         *)
(* LimitersExact: what was admitted in the last window is what a limiter   *)
(* still counts.  The invariant says so of the history of admissions and   *)
(* of the entries that LiveAt leaves; it rests on entries that are in the  *)
(* order of their times, of which the first ones leave the window.         *)
(***************************************************************************)
EXTENDS ToolServer, FiniteSetTheorems, SequenceTheorems, TLAPS

-----------------------------------------------------------------------------
(* The invariant                                                           *)

\* What the stores, the history of handles and that of the starts are.
HandlesTyped ==
    /\ now \in Nat
    /\ store \in [Tools -> Seq(Records)]
    /\ issued \in Seq(Issues) /\ Len(issued) <= MaxIssues
    /\ starts \in [Handles -> Seq(Requests)]

\* A record is what its handle was issued for, and while it is active nothing was
\* started with it.
Faithful(t, e) ==
    /\ e.handle \in 1..Len(issued)
    /\ issued[e.handle].by.tool = t
    /\ e.expires = issued[e.handle].at + Ttl[t]
    /\ e.status = "active" => starts[e.handle] = <<>>

HandlesInv ==
    /\ HandlesTyped
    /\ \A t \in Tools : \A i \in DOMAIN store[t] : Faithful(t, store[t][i])
    /\ \A t \in Tools : \A i, j \in DOMAIN store[t] :
          store[t][i].handle = store[t][j].handle => i = j
    /\ \A h \in Handles : h > Len(issued) => starts[h] = <<>>

-----------------------------------------------------------------------------
(* The store of handles                                                    *)

\* A mark changes the status of one record and nothing else.
LEMMA MarkEffect ==
    ASSUME HandlesInv, NEW t \in Tools, NEW h, NEW status \in {"revoked", "expired"},
           store' = Mark(t, h, status)
    PROVE  /\ store' \in [Tools -> Seq(Records)]
           /\ \A u \in Tools : DOMAIN store'[u] = DOMAIN store[u]
           /\ \A u \in Tools : \A i \in DOMAIN store[u] :
                 /\ store'[u][i].handle = store[u][i].handle
                 /\ store'[u][i].expires = store[u][i].expires
                 /\ store'[u][i].status =
                       IF u = t /\ store[u][i].handle = h THEN status ELSE store[u][i].status
<1> DEFINE marked == [i \in DOMAIN store[t] |->
                         IF store[t][i].handle = h THEN [store[t][i] EXCEPT !.status = status]
                         ELSE store[t][i]]
<1>1. store[t] \in Seq(Records)
  BY DEF HandlesInv, HandlesTyped
<1>2. store' = [store EXCEPT ![t] = marked]
  BY DEF Mark
<1>3. \A i \in DOMAIN store[t] : store[t][i] \in Records
  BY <1>1
<1>4. \A i \in DOMAIN store[t] :
         /\ marked[i] \in Records
         /\ marked[i].handle = store[t][i].handle
         /\ marked[i].expires = store[t][i].expires
         /\ marked[i].status = IF store[t][i].handle = h THEN status ELSE store[t][i].status
  BY <1>3 DEF Records
<1>5. DOMAIN marked = DOMAIN store[t]
  OBVIOUS
<1> HIDE DEF marked
<1>6. marked \in Seq(Records)
  <2>1. DOMAIN marked = 1..Len(store[t]) /\ Len(store[t]) \in Nat
    BY <1>1, <1>5
  <2>2. marked \in [1..Len(store[t]) -> Records]
    BY <1>4, <1>5, <2>1 DEF marked
  <2> QED BY <2>1, <2>2
<1>7. store \in [Tools -> Seq(Records)]
  BY DEF HandlesInv, HandlesTyped
<1>8. store' \in [Tools -> Seq(Records)]
  BY <1>2, <1>6, <1>7
<1>9. \A u \in Tools : store'[u] = IF u = t THEN marked ELSE store[u]
  BY <1>2, <1>7
<1> QED BY <1>4, <1>5, <1>8, <1>9

\* A record that a call finds in a store is there under its handle.
LEMMA KeptIsRecorded ==
    ASSUME HandlesInv, NEW t \in Tools, NEW h, h \in Kept(t)
    PROVE  \E i \in DOMAIN store[t] : store[t][i].handle = h /\ RecordOf(t, h) = store[t][i]
<1>1. PICK i \in DOMAIN store[t] : store[t][i].handle = h
  BY DEF Kept
<1> DEFINE k == CHOOSE k \in DOMAIN store[t] : store[t][k].handle = h
<1>2. k \in DOMAIN store[t] /\ store[t][k].handle = h
  BY <1>1
<1>3. RecordOf(t, h) = store[t][k]
  BY DEF RecordOf
<1> QED BY <1>2, <1>3

\* Spending a handle, with or without a start, and noting that it expired keep the
\* invariant.
LEMMA MarkKeeps ==
    ASSUME HandlesInv, NEW t \in Tools, NEW h \in Kept(t), NEW status \in {"revoked", "expired"},
           store' = Mark(t, h, status), UNCHANGED <<now, issued>>,
           starts' = starts \/ \E r \in Requests : Start(r, h)
    PROVE  HandlesInv'
<1>1. /\ store' \in [Tools -> Seq(Records)]
      /\ \A u \in Tools : DOMAIN store'[u] = DOMAIN store[u]
      /\ \A u \in Tools : \A i \in DOMAIN store[u] :
            /\ store'[u][i].handle = store[u][i].handle
            /\ store'[u][i].expires = store[u][i].expires
            /\ store'[u][i].status =
                  IF u = t /\ store[u][i].handle = h THEN status ELSE store[u][i].status
  BY MarkEffect
<1>2. PICK k \in DOMAIN store[t] : store[t][k].handle = h
  BY KeptIsRecorded
<1>3. h \in 1..Len(issued) /\ issued[h].by.tool = t
  BY <1>2 DEF HandlesInv, Faithful
<1>4. Len(issued) \in Nat /\ Len(issued) <= MaxIssues /\ h \in Handles
  <2>1. Len(issued) \in Nat /\ Len(issued) <= MaxIssues
    BY DEF HandlesInv, HandlesTyped
  <2> QED BY <1>3, <2>1, StoreAssumption DEF Handles, StoreAssumption
<1>5. /\ starts' \in [Handles -> Seq(Requests)]
      /\ \A g \in Handles : g # h => starts'[g] = starts[g]
  <2>1. starts \in [Handles -> Seq(Requests)]
    BY DEF HandlesInv, HandlesTyped
  <2>2. ASSUME NEW r \in Requests, Start(r, h)
        PROVE  /\ starts' \in [Handles -> Seq(Requests)]
               /\ \A g \in Handles : g # h => starts'[g] = starts[g]
    <3>1. Append(starts[h], r) \in Seq(Requests)
      BY <1>4, <2>1
    <3>2. starts' = [starts EXCEPT ![h] = Append(starts[h], r)]
      BY <2>2 DEF Start
    <3> HIDE DEF Start
    <3> QED BY <2>1, <3>1, <3>2
  <2> QED BY <2>1, <2>2
<1>6. HandlesTyped'
  <2>1. now' \in Nat /\ issued' \in Seq(Issues) /\ Len(issued') <= MaxIssues
    BY DEF HandlesInv, HandlesTyped
  <2> QED BY <1>1, <1>5, <2>1 DEF HandlesTyped
<1>7. ASSUME NEW u \in Tools, NEW i \in DOMAIN store'[u] PROVE Faithful(u, store[u][i])'
  <2>1. i \in DOMAIN store[u] /\ Faithful(u, store[u][i])
    BY <1>1, <1>7 DEF HandlesInv
  <2>2. store[u][i].handle \in 1..Len(issued) /\ store[u][i].handle \in Handles
    BY <2>1, <1>4, StoreAssumption DEF Faithful, Handles, StoreAssumption
  <2>3. CASE store[u][i].handle = h
    <3>1. u = t
      BY <1>3, <2>1, <2>3 DEF Faithful
    <3>2. store'[u][i].status # "active"
      BY <1>1, <2>1, <2>3, <3>1
    <3> QED BY <1>1, <2>1, <3>2 DEF Faithful
  <2>4. CASE store[u][i].handle # h
    <3>1. starts'[store[u][i].handle] = starts[store[u][i].handle]
      BY <1>5, <2>2, <2>4
    <3> QED BY <1>1, <2>1, <2>4, <3>1 DEF Faithful
  <2> QED BY <2>3, <2>4
<1>8. ASSUME NEW u \in Tools, NEW i \in DOMAIN store'[u], NEW j \in DOMAIN store'[u],
             store'[u][i].handle = store'[u][j].handle
      PROVE  i = j
  BY SMTT(30), <1>1, <1>8 DEF HandlesInv
<1>9. ASSUME NEW g \in Handles, g > Len(issued') PROVE starts'[g] = <<>>
  BY <1>3, <1>4, <1>5, <1>9 DEF HandlesInv, Handles
<1> QED BY <1>6, <1>7, <1>8, <1>9 DEF HandlesInv

\* Handing a handle out keeps it: the new handle is later than all that are known.
LEMMA IssueKeeps ==
    ASSUME HandlesInv, NEW r \in Requests, Issue(r), UNCHANGED now
    PROVE  HandlesInv' /\ \A u \in Tools : Revoked(store'[u]) \subseteq Revoked(store[u])
<1> DEFINE n == Len(issued) + 1
           t == r.tool
           new == [handle |-> n, expires |-> now + Ttl[t], status |-> "active"]
           old == store[t]
           room == IF Len(old) >= MaxRecords[t] THEN Tail(old) ELSE old
<1>1. t \in Tools /\ Ttl[t] \in Nat /\ MaxRecords[t] \in Nat \ {0}
  BY StoreAssumption DEF Requests, To, Tools, StoreAssumption
<1>2. /\ now \in Nat /\ Len(issued) \in Nat /\ issued \in Seq(Issues)
      /\ Len(issued) < MaxIssues /\ n \in Handles
  BY SMTT(30), StoreAssumption DEF HandlesInv, HandlesTyped, Issue, Handles, StoreAssumption
<1>3. /\ issued' = Append(issued, [by |-> r, at |-> now]) /\ issued' \in Seq(Issues)
      /\ Len(issued') = n /\ issued'[n].by = r /\ issued'[n].at = now
      /\ \A h \in 1..Len(issued) : issued'[h] = issued[h]
  <2>1. [by |-> r, at |-> now] \in Issues
    BY <1>2 DEF Issues
  <2>2. issued' = Append(issued, [by |-> r, at |-> now])
    BY DEF Issue
  <2>3. [by |-> r, at |-> now].by = r /\ [by |-> r, at |-> now].at = now
    OBVIOUS
  <2> DEFINE it == [by |-> r, at |-> now]
  <2>4. it \in Issues /\ it.by = r /\ it.at = now /\ issued' = Append(issued, it)
    BY <2>1, <2>2, <2>3
  <2> HIDE DEF it
  <2>5. /\ Append(issued, it) \in Seq(Issues) /\ Len(Append(issued, it)) = Len(issued) + 1
        /\ Append(issued, it)[Len(issued) + 1] = it
        /\ \A h \in 1..Len(issued) : Append(issued, it)[h] = issued[h]
    BY <1>2, <2>4
  <2>6. Len(issued') = n /\ issued'[n] = it /\ issued' \in Seq(Issues)
        /\ \A h \in 1..Len(issued) : issued'[h] = issued[h]
    BY <2>4, <2>5
  <2>7. issued'[n].by = r /\ issued'[n].at = now
    BY <2>4, <2>6
  <2> HIDE DEF n
  <2> QED BY <2>2, <2>6, <2>7, Zenon
<1>4. old \in Seq(Records) /\ new \in Records
  <2>1. old \in Seq(Records)
    BY <1>1 DEF HandlesInv, HandlesTyped
  <2>2. n \in Handles /\ now + Ttl[t] \in Nat
    BY <1>1, <1>2
  <2> HIDE DEF n
  <2>3. new \in Records
    BY <2>2 DEF Records
  <2> QED BY <2>1, <2>3
<1>5. /\ room \in Seq(Records)
      /\ \E d \in {0, 1} : /\ Len(room) = Len(old) - d
                           /\ \A i \in 1..Len(room) : i + d \in 1..Len(old)
                                                      /\ room[i] = old[i + d]
  <2>1. CASE Len(old) >= MaxRecords[t]
    <3>1. Len(old) \in Nat \ {0} /\ old # <<>>
      BY <1>1, <1>4, <2>1
    <3>2. /\ Tail(old) \in Seq(Records) /\ Len(Tail(old)) = Len(old) - 1
          /\ \A i \in 1..Len(Tail(old)) : Tail(old)[i] = old[i + 1]
      BY <1>4, <3>1
    <3>3. \A i \in 1..Len(Tail(old)) : i + 1 \in 1..Len(old)
      BY <3>1, <3>2
    <3>4. room = Tail(old)
      BY <2>1
    <3> QED BY <3>2, <3>3, <3>4
  <2>2. CASE ~(Len(old) >= MaxRecords[t])
    BY <1>4, <2>2
  <2> QED BY <2>1, <2>2
<1>6. store' = [store EXCEPT ![t] = Append(room, new)] /\ starts' = starts
  BY DEF Issue, Create
<1>7. /\ new.handle = n /\ new.expires = now + Ttl[t] /\ new.status = "active"
      /\ r.tool = t
  OBVIOUS
<1>8. old = store[t]
  OBVIOUS
<1>9. n = Len(issued) + 1
  OBVIOUS
<1> HIDE DEF n, t, new, old, room
<1>10. PICK d \in {0, 1} : /\ Len(room) = Len(old) - d
                          /\ \A i \in 1..Len(room) : i + d \in 1..Len(old)
                                                     /\ room[i] = old[i + d]
  BY <1>5
<1>11. store'[t] = Append(room, new) /\ \A u \in Tools \ {t} : store'[u] = store[u]
  BY <1>1, <1>6 DEF HandlesInv, HandlesTyped
<1>12. /\ store'[t] \in Seq(Records) /\ DOMAIN store'[t] = 1..(Len(room) + 1)
       /\ store'[t][Len(room) + 1] = new
       /\ \A i \in 1..Len(room) : store'[t][i] = room[i]
  BY <1>4, <1>5, <1>11
<1>13. \A k \in 1..Len(room) : k + d \in DOMAIN store[t] /\ store'[t][k] = store[t][k + d]
  <2>1. DOMAIN store[t] = 1..Len(old)
    BY <1>4, <1>8
  <2> QED BY <1>8, <1>10, <1>12, <2>1
<1>14. HandlesTyped'
  <2>1. store' \in [Tools -> Seq(Records)]
    BY <1>1, <1>6, <1>11, <1>12 DEF HandlesInv, HandlesTyped
  <2>2. now' \in Nat /\ starts' \in [Handles -> Seq(Requests)]
    BY <1>6 DEF HandlesInv, HandlesTyped
  <2>3. Len(issued') <= MaxIssues
    BY <1>2, <1>3, StoreAssumption DEF StoreAssumption, Handles
  <2> QED BY <1>3, <2>1, <2>2, <2>3 DEF HandlesTyped
<1>15. ASSUME NEW u \in Tools, NEW e, Faithful(u, e)
       PROVE  /\ e.handle \in 1..Len(issued') /\ issued'[e.handle].by.tool = u
              /\ e.expires = issued'[e.handle].at + Ttl[u]
              /\ e.status = "active" => starts'[e.handle] = <<>>
              /\ e.handle # n
  BY <1>2, <1>3, <1>6, <1>9, <1>15 DEF Faithful
<1>16. ASSUME NEW u \in Tools, NEW i \in DOMAIN store'[u] PROVE Faithful(u, store[u][i])'
  <2>1. CASE u # t
    <3>1. Faithful(u, store[u][i]) /\ store'[u][i] = store[u][i]
      BY <1>11, <1>16, <2>1 DEF HandlesInv
    <3> QED BY <1>15, <3>1 DEF Faithful
  <2>2. CASE u = t /\ i \in 1..Len(room)
    <3>1. i + d \in DOMAIN store[t] /\ store'[t][i] = store[t][i + d]
      BY <1>13, <2>2
    <3>2. Faithful(t, store[t][i + d])
      BY <1>1, <3>1 DEF HandlesInv
    <3> QED BY SMTT(30), <1>1, <1>15, <2>2, <3>1, <3>2 DEF Faithful
  <2>3. CASE u = t /\ i = Len(room) + 1
    <3>1. n \in 1..Len(issued') /\ starts'[n] = <<>>
      BY <1>2, <1>3, <1>6, <1>9 DEF HandlesInv
    <3> QED BY <1>3, <1>7, <1>12, <2>3, <3>1 DEF Faithful
  <2> QED BY <1>5, <1>12, <1>16, <2>1, <2>2, <2>3
<1>17. ASSUME NEW u \in Tools, NEW i \in DOMAIN store'[u], NEW j \in DOMAIN store'[u],
              store'[u][i].handle = store'[u][j].handle
       PROVE  i = j
  <2>1. CASE u # t
    BY <1>11, <1>17, <2>1 DEF HandlesInv
  <2>2. ASSUME u = t, NEW k \in 1..Len(room)
        PROVE  /\ k + d \in DOMAIN store[t] /\ store'[t][k] = store[t][k + d]
               /\ store'[t][k].handle # n
    <3>1. k + d \in DOMAIN store[t] /\ store'[t][k] = store[t][k + d]
      BY <1>13, <2>2
    <3>2. Faithful(t, store[t][k + d])
      BY <1>1, <3>1 DEF HandlesInv
    <3> QED BY <1>1, <1>15, <3>1, <3>2
  <2>3. CASE u = t /\ i \in 1..Len(room) /\ j \in 1..Len(room)
    <3>1. i + d = j + d
      BY <1>1, <1>17, <2>2, <2>3 DEF HandlesInv
    <3> QED BY <1>5, <2>3, <3>1
  <2>4. CASE u = t /\ (i = Len(room) + 1 \/ j = Len(room) + 1)
    <3>1. store'[t][Len(room) + 1].handle = n
      BY <1>7, <1>12
    <3>2. Len(room) \in Nat /\ DOMAIN store'[t] = 1..(Len(room) + 1)
      BY <1>5, <1>12
    <3>3. \A k \in DOMAIN store'[t] : store'[t][k].handle = n => k = Len(room) + 1
      BY <2>2, <2>4, <3>2
    <3> QED BY <1>17, <2>4, <3>1, <3>3
  <2> QED BY SMTT(30), <1>5, <1>12, <1>17, <2>1, <2>3, <2>4
<1>18. ASSUME NEW h \in Handles, h > Len(issued') PROVE starts'[h] = <<>>
  BY <1>2, <1>3, <1>6, <1>9, <1>18 DEF HandlesInv, Handles
<1>19. ASSUME NEW u \in Tools PROVE Revoked(store'[u]) \subseteq Revoked(store[u])
  <2>1. CASE u # t
    BY <1>11, <2>1
  <2>2. CASE u = t
    <3>1. ASSUME NEW i \in DOMAIN store'[t], store'[t][i].status = "revoked"
          PROVE  i \in 1..Len(room)
      BY <1>5, <1>7, <1>12, <3>1
    <3> QED BY <1>13, <2>2, <3>1 DEF Revoked
  <2> QED BY <2>1, <2>2
<1> QED BY <1>14, <1>16, <1>17, <1>18, <1>19 DEF HandlesInv

-----------------------------------------------------------------------------
(* Calls                                                                   *)

\* A handle that reads well has started nothing, is not over, and was issued to the
\* caller under scopes that it has.
LEMMA ReadsWell ==
    ASSUME HandlesInv, NEW r \in Requests, NEW h, Reading(r, h) = "ok"
    PROVE  /\ h \in Kept(r.tool) /\ h \in Handles /\ starts[h] = <<>>
           /\ issued[h].by.tool = r.tool /\ issued[h].by.client = r.client
           /\ Covers(r.scopes, issued[h].by.scopes)
           /\ now < issued[h].at + Ttl[r.tool]
<1>1. r.tool \in Tools
  BY DEF Requests, To, Tools
<1>2. /\ h \in Kept(r.tool)
      /\ RecordOf(r.tool, h).status = "active" /\ ~(RecordOf(r.tool, h).expires <= now)
      /\ issued[h].by.client = r.client /\ Covers(r.scopes, issued[h].by.scopes)
  BY DEF Reading
<1>3. PICK i \in DOMAIN store[r.tool] :
         store[r.tool][i].handle = h /\ RecordOf(r.tool, h) = store[r.tool][i]
  BY <1>1, <1>2, KeptIsRecorded
<1>4. Faithful(r.tool, store[r.tool][i])
  BY <1>1, <1>3 DEF HandlesInv
<1>5. /\ h \in 1..Len(issued) /\ issued[h].by.tool = r.tool /\ starts[h] = <<>>
      /\ RecordOf(r.tool, h).expires = issued[h].at + Ttl[r.tool]
  BY <1>2, <1>3, <1>4 DEF Faithful
<1>6. h \in Handles
  <2>1. Len(issued) \in Nat /\ Len(issued) <= MaxIssues
    BY DEF HandlesInv, HandlesTyped
  <2> QED BY <1>5, <2>1, StoreAssumption DEF Handles, StoreAssumption
<1>7. now \in Nat /\ issued[h].at \in Nat /\ Ttl[r.tool] \in Nat
  <2>1. now \in Nat /\ issued \in Seq(Issues)
    BY DEF HandlesInv, HandlesTyped
  <2>2. issued[h] \in Issues
    BY <1>5, <2>1
  <2>3. issued[h].at \in Nat
    BY <2>2 DEF Issues
  <2>4. Ttl[r.tool] \in Nat
    BY <1>1, StoreAssumption DEF StoreAssumption, Tools
  <2> QED BY <2>1, <2>3, <2>4
<1> QED BY <1>2, <1>5, <1>6, <1>7

\* Only the marked handle can be newly revoked.
LEMMA MarkRevokes ==
    ASSUME HandlesInv, NEW t \in Tools, NEW h, NEW status \in {"revoked", "expired"},
           store' = Mark(t, h, status)
    PROVE  \A u \in Tools : \A g \in Revoked(store'[u]) \ Revoked(store[u]) :
              u = t /\ g = h /\ status = "revoked"
BY MarkEffect DEF Revoked

\* What a call must show: the invariant and the two facts about every handle.
Shown == HandlesInv' /\ \A g \in Handles : StartsRightly(g) /\ SpentByAdmitted(g)

\* A call that starts nothing and revokes no approval.
LEMMA NothingStarts ==
    ASSUME HandlesInv', starts' = starts,
           Revoked(store'["approve"]) \subseteq Revoked(store["approve"])
    PROVE  Shown
BY DEF Shown, StartsRightly, SpentByAdmitted

LEMMA NothingHandled ==
    ASSUME HandlesInv, UNCHANGED handling, now' \in Nat
    PROVE  Shown
<1>1. HandlesInv'
  BY DEF HandlesInv, HandlesTyped, Faithful, handling
<1> QED BY <1>1, NothingStarts DEF handling

LEMMA IssueShown ==
    ASSUME HandlesInv, NEW r \in Requests, Issue(r), UNCHANGED now
    PROVE  Shown
<1>1. HandlesInv' /\ Revoked(store'["approve"]) \subseteq Revoked(store["approve"])
  BY IssueKeeps DEF Tools
<1>2. starts' = starts
  BY DEF Issue
<1> QED BY <1>1, <1>2, NothingStarts

\* A handle that does not read well is at most marked as expired.
LEMMA UnreadShown ==
    ASSUME HandlesInv, NEW r \in Requests, NEW h, Unread(r, h), UNCHANGED now
    PROVE  Shown
<1>1. r.tool \in Tools
  BY DEF Requests, To, Tools
<1>2. UNCHANGED <<issued, starts>>
  BY DEF Unread
<1>3. CASE Reading(r, h) = "expired"
  <2>1. store' = Mark(r.tool, h, "expired") /\ h \in Kept(r.tool)
    BY <1>3 DEF Unread, Reading
  <2>2. HandlesInv'
    BY <1>1, <1>2, <2>1, MarkKeeps
  <2>3. Revoked(store'["approve"]) \subseteq Revoked(store["approve"])
    BY <1>1, <2>1, MarkRevokes DEF Tools
  <2> QED BY <1>2, <2>2, <2>3, NothingStarts
<1>4. CASE Reading(r, h) # "expired"
  <2>1. UNCHANGED handling /\ now' \in Nat
    BY <1>2, <1>4 DEF Unread, handling, HandlesInv, HandlesTyped
  <2> QED BY <2>1, NothingHandled
<1> QED BY <1>3, <1>4

\* A handle that reads well is spent, and may start its tool for what it was issued for.
LEMMA SpendShown ==
    ASSUME HandlesInv, NEW r \in Requests, NEW h, Reading(r, h) = "ok",
           Spend(r, h), UNCHANGED <<now, issued>>,
           NoStart \/ (Start(r, h) /\ r.arg = issued[h].by.arg),
           r.tool = "approve" => Admit(<<r.client, r.tool>>)
    PROVE  Shown
<1>1. r.tool \in Tools
  BY DEF Requests, To, Tools
<1>2. /\ h \in Kept(r.tool) /\ h \in Handles /\ starts[h] = <<>>
      /\ issued[h].by.tool = r.tool /\ issued[h].by.client = r.client
      /\ Covers(r.scopes, issued[h].by.scopes)
      /\ now < issued[h].at + Ttl[r.tool]
  BY ReadsWell
<1>3. store' = Mark(r.tool, h, "revoked")
  BY DEF Spend
<1>4. HandlesInv'
  <2>1. starts' = starts \/ \E q \in Requests : Start(q, h)
    BY DEF NoStart
  <2> QED BY <1>1, <1>2, <1>3, <2>1, MarkKeeps
<1>5. ASSUME NEW g \in Handles PROVE StartsRightly(g)
  <2>1. CASE NoStart
    BY <2>1 DEF NoStart, StartsRightly
  <2>2. CASE Start(r, h) /\ r.arg = issued[h].by.arg
    <3>1. starts \in [Handles -> Seq(Requests)]
      BY DEF HandlesInv, HandlesTyped
    <3>2. starts'[g] = IF g = h THEN <<r>> ELSE starts[g]
      BY <1>2, <2>2, <3>1 DEF Start
    <3> QED BY <1>2, <2>2, <3>2 DEF StartsRightly
  <2> QED BY <2>1, <2>2
<1>6. ASSUME NEW g \in Handles PROVE SpentByAdmitted(g)
  <2>1. ASSUME g \in Revoked(store'["approve"]) \ Revoked(store["approve"])
        PROVE  r.tool = "approve" /\ g = h
    BY <1>1, <1>3, <2>1, MarkRevokes DEF Tools
  <2> QED BY <1>2, <2>1 DEF SpentByAdmitted
<1> QED BY <1>4, <1>5, <1>6 DEF Shown

-----------------------------------------------------------------------------
(* Steps                                                                   *)

LEMMA InitHandles == Init => HandlesInv
<1> SUFFICES ASSUME Init PROVE HandlesInv
  OBVIOUS
<1>1. /\ now = 0 /\ store = [t \in Tools |-> <<>>] /\ issued = <<>>
      /\ starts = [h \in Handles |-> <<>>]
  BY DEF Init, CallsInit
<1>2. HandlesTyped
  BY <1>1, StoreAssumption DEF HandlesTyped, StoreAssumption
<1> QED BY <1>1, <1>2 DEF HandlesInv

LEMMA CallShown == ASSUME HandlesInv, CallsNext, UNCHANGED now PROVE Shown
<1>1. To("approve") \subseteq Requests /\ To("delete") \subseteq Requests
  BY DEF Requests
<1>2. now' \in Nat
  BY DEF HandlesInv, HandlesTyped
<1>3. ASSUME NEW c \in Clients, Limited(c) \/ Unusable(c) PROVE Shown
  BY <1>2, <1>3, NothingHandled DEF Limited, Unusable
<1>4. ASSUME NEW r \in Requests, Ask(r) \/ Propose(r) PROVE Shown
  BY <1>4, IssueShown DEF Ask, Propose
<1>5. ASSUME NEW r \in To("approve"), NEW h, Answer(r, h) PROVE Shown
  <2>1. CASE Reading(r, h) = "ok"
    <3>1. /\ Spend(r, h) /\ UNCHANGED issued /\ Admit(<<r.client, r.tool>>)
          /\ NoStart \/ (Start(r, h) /\ r.arg = issued[h].by.arg)
      BY <1>5, <2>1 DEF Answer, Bound
    <3> QED BY <1>1, <2>1, <3>1, SpendShown
  <2>2. CASE Reading(r, h) # "ok"
    BY <1>1, <1>5, <2>2, UnreadShown DEF Answer
  <2> QED BY <2>1, <2>2
<1>6. ASSUME NEW r \in To("delete"), NEW h, Confirm(r, h) PROVE Shown
  <2>1. CASE Reading(r, h) # "ok"
    BY <1>1, <1>6, <2>1, UnreadShown DEF Confirm
  <2>2. CASE Reading(r, h) = "ok" /\ r.arg # issued[h].by.arg
    BY <1>2, <1>6, <2>2, NothingHandled DEF Confirm
  <2>3. CASE Reading(r, h) = "ok" /\ r.arg = issued[h].by.arg
    <3>1. Spend(r, h) /\ UNCHANGED issued /\ (NoStart \/ Start(r, h))
      BY <1>6, <2>3 DEF Confirm
    <3>2. r.tool # "approve"
      BY DEF To
    <3> QED BY <1>1, <2>3, <3>1, <3>2, SpendShown
  <2> QED BY <2>1, <2>2, <2>3
<1> QED BY <1>1, <1>3, <1>4, <1>5, <1>6 DEF CallsNext

LEMMA ForgetShown == ASSUME HandlesInv, Forget, UNCHANGED now PROVE Shown
<1>1. store' = [t \in Tools |-> <<>>] /\ UNCHANGED <<issued, starts>>
  BY DEF Forget
<1>2. HandlesInv'
  BY <1>1 DEF HandlesInv, HandlesTyped
<1>3. Revoked(store'["approve"]) = {}
  BY <1>1 DEF Revoked, Tools
<1> QED BY <1>1, <1>2, <1>3, NothingStarts

LEMMA StepShown == ASSUME HandlesInv, [Next]_vars PROVE Shown
<1>1. now \in Nat
  BY DEF HandlesInv, HandlesTyped
<1>2. CASE Calls
  BY <1>2, CallShown DEF Calls
<1>3. CASE Restarts
  BY <1>1, <1>3, NothingHandled DEF Restarts, callVars
<1>4. CASE Ends
  BY <1>4, ForgetShown DEF Ends
<1>5. CASE Tick
  BY <1>1, <1>5, NothingHandled DEF Tick
<1>6. CASE UNCHANGED vars
  BY <1>1, <1>6, NothingHandled DEF vars, callVars
<1> QED BY <1>2, <1>3, <1>4, <1>5, <1>6 DEF Next

-----------------------------------------------------------------------------
(* What a store has forgotten                                              *)

\* A store holds its handles in the order of their issue, no more than it may; and what
\* it has not, of the handles since the start of the server, is older than all it has,
\* and they are as many as it may hold.
Later(t, h) == \A i \in DOMAIN store[t] : h < store[t][i].handle

Ordered(t) ==
    /\ Len(store[t]) <= MaxRecords[t]
    /\ \A i, j \in DOMAIN store[t] : i < j => store[t][i].handle < store[t][j].handle

Missing(t, h) == Len(store[t]) = MaxRecords[t] /\ Later(t, h)

RecentInv ==
    /\ since \in 0..Len(issued)
    /\ \A t \in Tools : Ordered(t)
    /\ \A h \in (since + 1)..Len(issued) : \A t \in Tools :
          issued[h].by.tool = t => h \in Kept(t) \/ Missing(t, h)

\* What holds of the handles a store has holds as long as it has the same ones.
LEMMA SameHandles ==
    ASSUME HandlesInv, RecentInv, UNCHANGED <<issued, since>>,
           \A t \in Tools : /\ Len(store'[t]) = Len(store[t])
                            /\ DOMAIN store'[t] = DOMAIN store[t]
                            /\ \A i \in DOMAIN store[t] :
                                  store'[t][i].handle = store[t][i].handle
    PROVE  RecentInv'
<1>1. ASSUME NEW t \in Tools PROVE Ordered(t)'
  BY DEF RecentInv, Ordered
<1>2. ASSUME NEW t \in Tools PROVE Kept(t)' = Kept(t)
  BY DEF Kept
<1>3. ASSUME NEW t \in Tools, NEW h, Missing(t, h) PROVE Missing(t, h)'
  BY <1>3 DEF Missing, Later
<1> QED BY <1>1, <1>2, <1>3 DEF RecentInv

LEMMA MarkRecent ==
    ASSUME HandlesInv, RecentInv, NEW t \in Tools, NEW h, NEW status \in {"revoked", "expired"},
           store' = Mark(t, h, status), UNCHANGED <<issued, since>>
    PROVE  RecentInv'
<1>1. /\ store' \in [Tools -> Seq(Records)] /\ store \in [Tools -> Seq(Records)]
      /\ \A u \in Tools : DOMAIN store'[u] = DOMAIN store[u]
      /\ \A u \in Tools : \A i \in DOMAIN store[u] :
            store'[u][i].handle = store[u][i].handle
  BY MarkEffect DEF HandlesInv, HandlesTyped
<1>2. ASSUME NEW u \in Tools PROVE Len(store'[u]) = Len(store[u])
  <2>1. store'[u] \in Seq(Records) /\ store[u] \in Seq(Records)
    BY <1>1
  <2>2. DOMAIN store'[u] = 1..Len(store'[u]) /\ DOMAIN store[u] = 1..Len(store[u])
        /\ Len(store'[u]) \in Nat /\ Len(store[u]) \in Nat
    BY SMTT(30), <2>1
  <2>3. 1..Len(store'[u]) = 1..Len(store[u])
    BY Zenon, <1>1, <2>2
  <2> QED BY <2>2, <2>3
<1> QED BY <1>1, <1>2, SameHandles

\* A handle takes the place of the oldest one, if there is no other.
LEMMA IssueRecent ==
    ASSUME HandlesInv, RecentInv, NEW r \in Requests, Issue(r), UNCHANGED since
    PROVE  RecentInv'
<1> DEFINE n == Len(issued) + 1
           t == r.tool
           new == [handle |-> n, expires |-> now + Ttl[t], status |-> "active"]
           old == store[t]
           full == Len(old) >= MaxRecords[t]
           room == IF full THEN Tail(old) ELSE old
<1>1. t \in Tools /\ MaxRecords[t] \in Nat \ {0} /\ Ttl[t] \in Nat
  BY StoreAssumption DEF Requests, To, Tools, StoreAssumption
<1>2. /\ Len(issued) \in Nat /\ issued \in Seq(Issues) /\ since \in 0..Len(issued)
      /\ now \in Nat /\ n \in Handles
  <2>1. Len(issued) < MaxIssues
    BY DEF Issue
  <2>2. now \in Nat /\ Len(issued) \in Nat /\ issued \in Seq(Issues) /\ since \in 0..Len(issued)
    BY DEF HandlesInv, HandlesTyped, RecentInv
  <2>3. n \in Handles
    BY <2>1, <2>2, StoreAssumption DEF Handles, StoreAssumption
  <2> QED BY <2>2, <2>3
<1>3. /\ Len(issued') = n /\ issued'[n].by = r
      /\ \A h \in 1..Len(issued) : issued'[h] = issued[h]
  <2> DEFINE it == [by |-> r, at |-> now]
  <2>1. issued' = Append(issued, it) /\ it.by = r
    BY DEF Issue
  <2>2. it \in Issues
    BY DEF Issues, HandlesInv, HandlesTyped
  <2> HIDE DEF it
  <2> QED BY <1>2, <2>1, <2>2
<1>4. old \in Seq(Records)
  BY <1>1 DEF HandlesInv, HandlesTyped
<1>5. /\ room \in Seq(Records) /\ Len(room) < MaxRecords[t]
      /\ full => Len(room) + 1 = MaxRecords[t]
      /\ \A i \in 1..Len(room) :
            IF full THEN i + 1 \in 1..Len(old) /\ room[i] = old[i + 1]
                    ELSE i \in 1..Len(old) /\ room[i] = old[i]
      /\ ~full => room = old
  <2>1. Len(old) \in Nat /\ Len(old) <= MaxRecords[t]
    BY <1>1, <1>4 DEF RecentInv, Ordered
  <2>2. CASE full
    <3>1. old # <<>> /\ Len(old) = MaxRecords[t] /\ Len(old) >= 1
      BY <1>1, <1>4, <2>1, <2>2
    <3>2. /\ Tail(old) \in Seq(Records) /\ Len(Tail(old)) = Len(old) - 1
          /\ \A i \in 1..Len(Tail(old)) : Tail(old)[i] = old[i + 1]
      BY <1>4, <3>1
    <3>3. \A i \in 1..Len(Tail(old)) : i + 1 \in 1..Len(old)
      BY <2>1, <3>2
    <3>4. room = Tail(old)
      BY <2>2
    <3> QED BY <1>1, <2>1, <2>2, <3>1, <3>2, <3>3, <3>4
  <2>3. CASE ~full
    <3>1. room = old
      BY <2>3
    <3> QED BY <1>1, <1>4, <2>1, <2>3, <3>1
  <2> QED BY <2>2, <2>3
<1>6. store' = [store EXCEPT ![t] = Append(room, new)] /\ new.handle = n
  BY DEF Issue, Create
<1>7. \A i \in 1..Len(old) : old[i].handle \in 1..Len(issued)
  <2>1. DOMAIN old = 1..Len(old)
    BY <1>4
  <2> QED BY <1>1, <2>1 DEF HandlesInv, Faithful
<1>8. \A i, j \in 1..Len(old) : i < j => old[i].handle < old[j].handle
  <2>1. DOMAIN old = 1..Len(old)
    BY <1>4
  <2> QED BY <1>1, <2>1 DEF RecentInv, Ordered
<1>20. n = Len(issued) + 1 /\ r.tool = t /\ old = store[t]
  OBVIOUS
<1>21. new \in Records
  <2>1. n \in Handles /\ now + Ttl[t] \in Nat
    BY <1>1, <1>2
  <2> HIDE DEF n
  <2> QED BY <2>1 DEF Records
<1>22. full <=> Len(old) >= MaxRecords[t]
  OBVIOUS
<1> HIDE DEF n, t, new, old, full, room
<1>9. /\ store'[t] = Append(room, new) /\ \A u \in Tools \ {t} : store'[u] = store[u]
  BY <1>1, <1>6 DEF HandlesInv, HandlesTyped
<1>10. /\ Len(store'[t]) = Len(room) + 1 /\ DOMAIN store'[t] = 1..(Len(room) + 1)
       /\ store'[t][Len(room) + 1].handle = n
       /\ \A i \in 1..Len(room) : store'[t][i] = room[i]
       /\ Len(room) \in Nat
  <2>1. room \in Seq(Records) /\ new \in Records /\ store'[t] = Append(room, new)
    BY <1>5, <1>9, <1>21
  <2>2. /\ Len(Append(room, new)) = Len(room) + 1
        /\ DOMAIN Append(room, new) = 1..(Len(room) + 1)
        /\ Append(room, new)[Len(room) + 1] = new
        /\ \A i \in 1..Len(room) : Append(room, new)[i] = room[i]
        /\ Len(room) \in Nat
    BY <2>1
  <2> QED BY <1>6, <2>1, <2>2
<1>11. \A i, j \in 1..Len(room) : i < j => room[i].handle < room[j].handle
  <2>1. CASE full
    <3>1. ASSUME NEW i \in 1..Len(room), NEW j \in 1..Len(room), i < j
          PROVE  room[i].handle < room[j].handle
      <4>1. /\ i + 1 \in 1..Len(old) /\ room[i] = old[i + 1]
            /\ j + 1 \in 1..Len(old) /\ room[j] = old[j + 1]
        BY <1>5, <2>1
      <4>2. i + 1 < j + 1
        BY <1>10, <3>1
      <4> QED BY <1>8, <4>1, <4>2
    <3> QED BY <3>1
  <2>2. CASE ~full
    BY <1>5, <1>8, <2>2
  <2> QED BY <2>1, <2>2
<1>12. \A i \in 1..Len(room) : room[i].handle \in 1..Len(issued)
  BY <1>5, <1>7
<1>13. ASSUME NEW u \in Tools PROVE Ordered(u)'
  <2>1. CASE u # t
    BY <1>9, <2>1 DEF RecentInv, Ordered
  <2>2. CASE u = t
    <3>1. Len(store'[t]) <= MaxRecords[t]
      BY <1>1, <1>5, <1>10
    <3>2. ASSUME NEW i \in DOMAIN store'[t], NEW j \in DOMAIN store'[t], i < j
          PROVE  store'[t][i].handle < store'[t][j].handle
      <4>1. i \in 1..Len(room) /\ store'[t][i].handle = room[i].handle
        BY <1>10, <3>2
      <4>2. CASE j = Len(room) + 1
        BY <1>2, <1>10, <1>12, <1>20, <4>1, <4>2
      <4>3. CASE j \in 1..Len(room)
        BY <1>10, <1>11, <3>2, <4>1, <4>3
      <4> QED BY <1>10, <4>2, <4>3
    <3> QED BY <2>2, <3>1, <3>2 DEF Ordered
  <2> QED BY <2>1, <2>2
<1>14. Kept(t)' = {room[i].handle : i \in 1..Len(room)} \cup {n}
  BY SMTT(30), <1>10 DEF Kept
<1>15. ASSUME NEW h \in 1..Len(issued), Missing(t, h) PROVE Missing(t, h)'
  <2>1. Len(old) = MaxRecords[t] /\ \A i \in 1..Len(old) : h < old[i].handle
    <3>1. DOMAIN old = 1..Len(old)
      BY <1>4
    <3> QED BY <1>15, <1>20, <3>1 DEF Missing, Later
  <2>2. full
    BY <1>1, <1>22, <2>1
  <2>3. \A i \in 1..Len(room) : h < room[i].handle
    BY <1>5, <2>1, <2>2
  <2>4. h < n
    BY <1>2, <1>20
  <2> QED BY SMTT(30), <1>5, <1>10, <2>2, <2>3, <2>4 DEF Missing, Later
<1>16. ASSUME NEW h \in 1..Len(issued), h \in Kept(t), h \notin Kept(t)'
       PROVE  Missing(t, h)'
  <2>1. PICK k \in 1..Len(old) : old[k].handle = h
    <3>1. DOMAIN old = 1..Len(old)
      BY <1>4
    <3> QED BY <1>16, <1>20, <3>1 DEF Kept
  <2>2. full
    BY <1>5, <1>14, <1>16, <2>1
  <2>3. Len(old) \in Nat /\ Len(room) = Len(old) - 1
    <3>1. Len(old) \in Nat /\ Len(old) <= MaxRecords[t]
      BY <1>1, <1>4, <1>20 DEF RecentInv, Ordered
    <3> QED BY <1>1, <1>5, <1>10, <1>22, <2>2, <3>1
  <2>4. k = 1
    <3>1. ASSUME k # 1 PROVE FALSE
      <4>1. k - 1 \in 1..Len(room) /\ (k - 1) + 1 = k
        BY <2>3, <3>1
      <4>2. room[k - 1] = old[k]
        BY <1>5, <2>2, <4>1
      <4> QED BY <1>14, <1>16, <2>1, <4>1, <4>2
    <3> QED BY <3>1
  <2>5. ASSUME NEW i \in 1..Len(room) PROVE h < room[i].handle
    <3>1. i + 1 \in 1..Len(old) /\ room[i] = old[i + 1]
      BY <1>5, <2>2
    <3>2. 1 < i + 1
      BY <1>10
    <3> QED BY <1>8, <2>1, <2>4, <3>1, <3>2
  <2>6. h < n
    BY <1>2, <1>20
  <2> QED BY SMTT(30), <1>5, <1>10, <2>2, <2>5, <2>6 DEF Missing, Later
<1>17. ASSUME NEW h \in (since + 1)..Len(issued'), NEW u \in Tools, issued'[h].by.tool = u
       PROVE  h \in Kept(u)' \/ Missing(u, h)'
  <2>1. CASE h = n
    BY <1>3, <1>14, <1>17, <1>20, <2>1
  <2>2. CASE h # n
    <3>1. h \in 1..Len(issued) /\ h \in (since + 1)..Len(issued)
      BY <1>2, <1>3, <1>17, <1>20, <2>2
    <3>2. h \in Kept(u) \/ Missing(u, h)
      BY <1>3, <1>17, <3>1 DEF RecentInv
    <3>3. CASE u = t
      BY <1>15, <1>16, <3>1, <3>2, <3>3
    <3>4. CASE u # t
      BY <1>9, <3>2, <3>4 DEF Kept, Missing, Later
    <3> QED BY <3>3, <3>4
  <2> QED BY <2>1, <2>2
<1>18. since' \in 0..Len(issued')
  BY <1>2, <1>3, <1>20
<1>19. since' = since
  OBVIOUS
<1> QED BY <1>13, <1>17, <1>18, <1>19 DEF RecentInv

LEMMA UnreadRecent ==
    ASSUME HandlesInv, RecentInv, NEW r \in Requests, NEW h, Unread(r, h), UNCHANGED since
    PROVE  RecentInv'
<1>1. r.tool \in Tools /\ issued' = issued
  BY DEF Requests, To, Tools, Unread
<1>2. CASE Reading(r, h) = "expired"
  BY <1>1, <1>2, MarkRecent DEF Unread
<1>3. CASE Reading(r, h) # "expired"
  BY <1>1, <1>3, SameHandles DEF Unread
<1> QED BY <1>2, <1>3

LEMMA NothingForgotten ==
    ASSUME HandlesInv, RecentInv, UNCHANGED <<handling, since>>
    PROVE  RecentInv'
BY SameHandles DEF handling

LEMMA CallRecent == ASSUME HandlesInv, RecentInv, CallsNext PROVE RecentInv'
<1>1. To("approve") \subseteq Requests /\ To("delete") \subseteq Requests
  BY DEF Requests
<1>2. ASSUME NEW c \in Clients, Limited(c) \/ Unusable(c) PROVE RecentInv'
  BY <1>2, NothingForgotten DEF Limited, Unusable
<1>3. ASSUME NEW r \in Requests, Ask(r) \/ Propose(r) PROVE RecentInv'
  BY <1>3, IssueRecent DEF Ask, Propose
<1>4. ASSUME NEW r \in Requests, NEW h, Spend(r, h), UNCHANGED <<issued, since>> PROVE RecentInv'
  BY <1>4, MarkRecent DEF Spend, Requests, To, Tools
<1>5. ASSUME NEW r \in Requests, NEW h, Answer(r, h) PROVE RecentInv'
  BY <1>4, <1>5, UnreadRecent DEF Answer
<1>6. ASSUME NEW r \in Requests, NEW h, Confirm(r, h) PROVE RecentInv'
  BY <1>4, <1>6, UnreadRecent, NothingForgotten DEF Confirm
<1> QED BY <1>1, <1>2, <1>3, <1>5, <1>6 DEF CallsNext

LEMMA ForgetRecent == ASSUME HandlesInv, RecentInv, Forget PROVE RecentInv'
<1>1. Len(issued) \in Nat
  BY DEF HandlesInv, HandlesTyped
<1>2. store' = [t \in Tools |-> <<>>] /\ since' = Len(issued) /\ issued' = issued
  BY DEF Forget
<1>3. \A t \in Tools : MaxRecords[t] \in Nat
  BY StoreAssumption DEF StoreAssumption, Tools
<1>4. \A t \in Tools : store'[t] = <<>>
  BY <1>2
<1>5. ASSUME NEW t \in Tools PROVE Ordered(t)'
  BY <1>3, <1>4 DEF Ordered
<1>6. since' \in 0..Len(issued')
  BY <1>1, <1>2
<1>7. (since' + 1)..Len(issued') = {}
  BY <1>1, <1>2
<1> QED BY <1>5, <1>6, <1>7 DEF RecentInv

LEMMA StepRecent == ASSUME HandlesInv, RecentInv, [Next]_vars PROVE RecentInv'
<1>1. CASE Calls
  BY <1>1, CallRecent DEF Calls
<1>2. CASE Restarts
  BY <1>2, NothingForgotten DEF Restarts, callVars
<1>3. CASE Ends
  BY <1>3, ForgetRecent DEF Ends
<1>4. CASE Tick
  BY <1>4, NothingForgotten DEF Tick
<1>5. CASE UNCHANGED vars
  BY <1>5, NothingForgotten DEF vars, callVars
<1> QED BY <1>1, <1>2, <1>3, <1>4, <1>5 DEF Next

LEMMA InitRecent == Init => RecentInv
<1> SUFFICES ASSUME Init PROVE RecentInv
  OBVIOUS
<1>1. issued = <<>> /\ since = 0 /\ store = [t \in Tools |-> <<>>]
  BY DEF Init, CallsInit
<1>2. \A t \in Tools : MaxRecords[t] \in Nat /\ store[t] = <<>>
  BY <1>1, StoreAssumption DEF StoreAssumption, Tools
<1> QED BY <1>1, <1>2 DEF RecentInv, Ordered

\* As many handles are issued later as the store has, and it is full.
LEMMA RecentForgets == ASSUME HandlesInv, RecentInv PROVE ForgottenAreOld
<1> SUFFICES ASSUME NEW h \in (since + 1)..Len(issued), NEW t, t = issued[h].by.tool,
                    h \notin Kept(t)
             PROVE  Cardinality({l \in (h + 1)..Len(issued) : issued[l].by.tool = t})
                       >= MaxRecords[t]
  BY DEF ForgottenAreOld
<1> DEFINE later == {l \in (h + 1)..Len(issued) : issued[l].by.tool = t}
           place == [i \in 1..Len(store[t]) |-> store[t][i].handle]
<1>1. Len(issued) \in Nat /\ since \in Nat /\ issued \in Seq(Issues)
  BY DEF HandlesInv, HandlesTyped, RecentInv
<1>2. h \in 1..Len(issued) /\ h \in Nat
  BY <1>1
<1>3. t \in Tools
  <2>1. issued[h] \in Issues
    BY <1>1, <1>2
  <2> QED BY <2>1 DEF Issues, Requests, To, Tools
<1>4. Len(store[t]) = MaxRecords[t] /\ Later(t, h)
  BY <1>3 DEF RecentInv, Missing
<1>5. Len(store[t]) \in Nat /\ DOMAIN store[t] = 1..Len(store[t])
  BY SMTT(30), <1>3 DEF HandlesInv, HandlesTyped
<1>6. ASSUME NEW i \in 1..Len(store[t]) PROVE place[i] \in later
  <2>1. h < store[t][i].handle
    BY SMTT(30), <1>4, <1>5 DEF Later
  <2>2. store[t][i].handle \in 1..Len(issued) /\ issued[store[t][i].handle].by.tool = t
    BY <1>3, <1>5 DEF HandlesInv, Faithful
  <2>3. store[t][i].handle \in (h + 1)..Len(issued)
    BY SMTT(30), <1>1, <1>2, <2>1, <2>2
  <2> QED BY Zenon, <2>2, <2>3
<1>7. ASSUME NEW i \in 1..Len(store[t]), NEW j \in 1..Len(store[t]), place[i] = place[j]
      PROVE  i = j
  BY <1>3, <1>5, <1>7 DEF HandlesInv
<1>9. IsFiniteSet(later) /\ IsFiniteSet(1..Len(store[t]))
      /\ Cardinality(1..Len(store[t])) = Len(store[t])
  <2>1. IsFiniteSet((h + 1)..Len(issued))
    BY <1>1, <1>2, FS_Interval
  <2>2. later \subseteq (h + 1)..Len(issued)
    OBVIOUS
  <2>3. IsFiniteSet(later)
    BY <2>1, <2>2, FS_Subset
  <2>4. IsFiniteSet(1..Len(store[t])) /\ Cardinality(1..Len(store[t])) = Len(store[t])
    <3> DEFINE m == Len(store[t])
    <3>1. m \in Int /\ m \in Nat /\ 1 \in Int
      BY <1>5
    <3> HIDE DEF m
    <3>2. /\ IsFiniteSet(1..m)
          /\ Cardinality(1..m) = IF 1 > m THEN 0 ELSE m - 1 + 1
      BY <3>1, FS_Interval
    <3>3. Cardinality(1..m) = m
      BY <3>1, <3>2
    <3> QED BY <3>2, <3>3 DEF m
  <2> QED BY <2>3, <2>4
<1> HIDE DEF later, place
<1>8. place \in [1..Len(store[t]) -> later]
  BY <1>6 DEF place
<1>10. ~(Cardinality(later) < Cardinality(1..Len(store[t])))
  <2> DEFINE places == 1..Len(store[t])
  <2>1. place \in [places -> later] /\ IsFiniteSet(places) /\ IsFiniteSet(later)
    BY <1>8, <1>9
  <2>2. \A i, j \in places : place[i] = place[j] => i = j
    BY <1>7
  <2> HIDE DEF places
  <2>3. ~(Cardinality(later) < Cardinality(places))
    BY <2>1, <2>2, FS_PigeonHole
  <2> QED BY <2>3 DEF places
<1>11. Cardinality(later) \in Nat
  BY <1>9, FS_CardinalityType
<1>12. Cardinality(later) >= MaxRecords[t]
  BY <1>4, <1>5, <1>9, <1>10, <1>11
<1> QED BY <1>12 DEF later

-----------------------------------------------------------------------------
(* Windows of admissions                                                   *)

Rising(s) == \A i, j \in 1..Len(s) : i <= j => s[i] <= s[j]

\* Of a rising sequence of times the first n have left the window, and no others.
LEMMA LiveIsSuffix ==
    ASSUME NEW s \in Seq(Nat), Rising(s), NEW w \in Nat, NEW t \in Nat
    PROVE  \E n \in 0..Len(s) : /\ LiveAt(s, w, t) = SubSeq(s, n + 1, Len(s))
                                /\ \A i \in 1..Len(s) : i <= n <=> s[i] + w <= t
<1> DEFINE gone == {i \in DOMAIN s : s[i] + w <= t}
           n == Cardinality(gone)
<1>1. Len(s) \in Nat /\ DOMAIN s = 1..Len(s) /\ \A i \in 1..Len(s) : s[i] \in Nat
  OBVIOUS
<1>2. \A m \in Nat : IsFiniteSet(1..m) /\ Cardinality(1..m) = m
  <2> TAKE m \in Nat
  <2>1. IsFiniteSet(1..m) /\ Cardinality(1..m) = IF 1 > m THEN 0 ELSE m - 1 + 1
    BY FS_Interval
  <2> QED BY <2>1
<1>3. IsFiniteSet(gone) /\ n \in Nat /\ n <= Len(s)
  <2>1. gone \subseteq 1..Len(s)
    BY <1>1
  <2> HIDE DEF gone
  <2>2. IsFiniteSet(1..Len(s)) /\ Cardinality(1..Len(s)) = Len(s)
    BY <1>1, <1>2
  <2>3. IsFiniteSet(gone) /\ Cardinality(gone) <= Cardinality(1..Len(s))
    BY <2>1, <2>2, FS_Subset
  <2> QED BY <2>2, <2>3, FS_CardinalityType
<1>4. ASSUME NEW i \in gone PROVE i <= n
  <2>1. 1..i \subseteq gone /\ i \in Nat
    BY <1>1 DEF Rising
  <2> HIDE DEF gone
  <2>2. Cardinality(1..i) <= n
    BY <1>3, <2>1, FS_Subset
  <2> QED BY <1>2, <2>1, <2>2
<1>5. gone = 1..n
  <2>1. gone \subseteq 1..n
    BY <1>1, <1>4
  <2> HIDE DEF gone
  <2>2. IsFiniteSet(1..n) /\ Cardinality(1..n) = n
    BY <1>2, <1>3
  <2> QED BY <2>1, <2>2, FS_Subset
<1>6. LiveAt(s, w, t) = SubSeq(s, n + 1, Len(s))
  BY DEF LiveAt
<1>7. \A i \in 1..Len(s) : i <= n <=> s[i] + w <= t
  <2>1. \A i \in 1..Len(s) : i \in gone <=> s[i] + w <= t
    BY <1>1
  <2>2. \A i \in 1..Len(s) : i \in 1..n <=> i <= n
    BY <1>1, <1>3
  <2> HIDE DEF gone, n
  <2> QED BY <1>5, <2>1, <2>2
<1> HIDE DEF gone, n
<1>8. n \in 0..Len(s)
  BY <1>1, <1>3
<1> QED BY <1>6, <1>7, <1>8, Zenon

\* The same, element by element.
LEMMA LiveIs ==
    ASSUME NEW s \in Seq(Nat), Rising(s), NEW w \in Nat, NEW t \in Nat
    PROVE  \E n \in 0..Len(s) :
              /\ LiveAt(s, w, t) \in Seq(Nat) /\ Len(LiveAt(s, w, t)) = Len(s) - n
              /\ \A i \in 1..(Len(s) - n) : LiveAt(s, w, t)[i] = s[n + i]
              /\ \A i \in 1..Len(s) : i <= n <=> s[i] + w <= t
<1>1. PICK n \in 0..Len(s) : /\ LiveAt(s, w, t) = SubSeq(s, n + 1, Len(s))
                             /\ \A i \in 1..Len(s) : i <= n <=> s[i] + w <= t
  BY LiveIsSuffix
<1>2. Len(s) \in Nat /\ \A i \in (n + 1)..Len(s) : s[i] \in Nat
  OBVIOUS
<1>3. /\ SubSeq(s, n + 1, Len(s)) \in Seq(Nat)
      /\ Len(SubSeq(s, n + 1, Len(s))) = IF n + 1 <= Len(s) THEN Len(s) - (n + 1) + 1 ELSE 0
      /\ \A i \in 1..(Len(s) - (n + 1) + 1) : SubSeq(s, n + 1, Len(s))[i] = s[n + 1 + i - 1]
  <2>1. n + 1 \in Int /\ Len(s) \in Int
    BY <1>2
  <2> QED BY <1>2, <2>1, SubSeqProperties
<1>4. Len(SubSeq(s, n + 1, Len(s))) = Len(s) - n
  BY <1>2, <1>3
<1>5. \A i \in 1..(Len(s) - n) : SubSeq(s, n + 1, Len(s))[i] = s[n + i]
  BY <1>2, <1>3
<1> QED BY <1>1, <1>3, <1>4, <1>5

\* What a window leaves of a rising sequence is rising, is no later and is all live.
LEMMA LiveRises ==
    ASSUME NEW s \in Seq(Nat), Rising(s), NEW w \in Nat, NEW t \in Nat
    PROVE  /\ LiveAt(s, w, t) \in Seq(Nat) /\ Rising(LiveAt(s, w, t))
           /\ Len(LiveAt(s, w, t)) <= Len(s)
           /\ \A i \in 1..Len(LiveAt(s, w, t)) : LiveAt(s, w, t)[i] + w > t
           /\ \A i \in 1..Len(LiveAt(s, w, t)) :
                 \E j \in 1..Len(s) : LiveAt(s, w, t)[i] = s[j]
<1> DEFINE live == LiveAt(s, w, t)
<1>1. PICK n \in 0..Len(s) :
              /\ live \in Seq(Nat) /\ Len(live) = Len(s) - n
              /\ \A i \in 1..(Len(s) - n) : live[i] = s[n + i]
              /\ \A i \in 1..Len(s) : i <= n <=> s[i] + w <= t
  BY LiveIs
<1> HIDE DEF live
<1>2. Len(s) \in Nat /\ \A i \in 1..Len(s) : s[i] \in Nat
  OBVIOUS
<1>3. \A i \in 1..Len(live) : n + i \in 1..Len(s) /\ live[i] = s[n + i] /\ ~(n + i <= n)
  BY <1>1, <1>2
<1>4. \A i \in 1..Len(live) : live[i] + w > t
  <2> TAKE i \in 1..Len(live)
  <2>1. ~(s[n + i] + w <= t) /\ s[n + i] \in Nat
    BY <1>1, <1>2, <1>3
  <2> QED BY <1>3, <2>1
<1>5. Rising(live)
  <2> SUFFICES ASSUME NEW i \in 1..Len(live), NEW j \in 1..Len(live), i <= j
               PROVE  live[i] <= live[j]
    BY DEF Rising
  <2>1. n + i <= n + j
    BY <1>1, <1>2
  <2> QED BY <1>3, <2>1 DEF Rising
<1>6. Len(live) <= Len(s)
  BY <1>1, <1>2
<1> QED BY <1>1, <1>3, <1>4, <1>5, <1>6 DEF live

\* A window that all the times are in leaves them all.
LEMMA LiveAll ==
    ASSUME NEW s \in Seq(Nat), Rising(s), NEW w \in Nat, NEW t \in Nat,
           \A i \in 1..Len(s) : s[i] + w > t
    PROVE  LiveAt(s, w, t) = s
<1> DEFINE live == LiveAt(s, w, t)
<1>1. PICK n \in 0..Len(s) :
              /\ live \in Seq(Nat) /\ Len(live) = Len(s) - n
              /\ \A i \in 1..(Len(s) - n) : live[i] = s[n + i]
              /\ \A i \in 1..Len(s) : i <= n <=> s[i] + w <= t
  BY LiveIs
<1> HIDE DEF live
<1>2. Len(s) \in Nat /\ \A i \in 1..Len(s) : s[i] \in Nat
  OBVIOUS
<1>3. n = 0
  <2>1. CASE n \in 1..Len(s)
    BY <1>1, <1>2, <2>1
  <2> QED BY <1>1, <1>2, <2>1
<1>4. Len(live) = Len(s) /\ \A i \in 1..Len(live) : live[i] = s[i]
  BY <1>1, <1>2, <1>3
<1>5. live = s
  BY <1>1, <1>4, SeqEqual
<1> QED BY <1>5 DEF live

\* Two windows, one after the other, leave what the later one leaves alone.
LEMMA LiveTwice ==
    ASSUME NEW s \in Seq(Nat), Rising(s), NEW w \in Nat, NEW t \in Nat, NEW u \in Nat, t <= u
    PROVE  LiveAt(LiveAt(s, w, t), w, u) = LiveAt(s, w, u)
<1> DEFINE live == LiveAt(s, w, t)
           late == LiveAt(s, w, u)
           both == LiveAt(live, w, u)
<1>1. PICK n \in 0..Len(s) :
              /\ live \in Seq(Nat) /\ Len(live) = Len(s) - n
              /\ \A i \in 1..(Len(s) - n) : live[i] = s[n + i]
              /\ \A i \in 1..Len(s) : i <= n <=> s[i] + w <= t
  BY LiveIs
<1>2. PICK m \in 0..Len(s) :
              /\ late \in Seq(Nat) /\ Len(late) = Len(s) - m
              /\ \A i \in 1..(Len(s) - m) : late[i] = s[m + i]
              /\ \A i \in 1..Len(s) : i <= m <=> s[i] + w <= u
  BY LiveIs
<1>3. Rising(live)
  BY LiveRises
<1> HIDE DEF live, late
<1>4. PICK k \in 0..Len(live) :
              /\ both \in Seq(Nat) /\ Len(both) = Len(live) - k
              /\ \A i \in 1..(Len(live) - k) : both[i] = live[k + i]
              /\ \A i \in 1..Len(live) : i <= k <=> live[i] + w <= u
  BY <1>1, <1>3, LiveIs
<1> HIDE DEF both
<1>5. Len(s) \in Nat /\ \A i \in 1..Len(s) : s[i] \in Nat
  OBVIOUS
<1>6. n <= m
  <2>1. CASE n \in 1..Len(s)
    <3>1. s[n] + w <= t /\ s[n] \in Nat
      BY <1>1, <1>5, <2>1
    <3>2. s[n] + w <= u
      BY <3>1
    <3> QED BY <1>2, <2>1, <3>2
  <2> QED BY <1>1, <1>2, <1>5, <2>1
<1>7. \A i \in 1..(Len(s) - n) : i <= k <=> n + i <= m
  <2> TAKE i \in 1..(Len(s) - n)
  <2>1. n + i \in 1..Len(s) /\ i \in 1..Len(live)
    BY <1>1, <1>5
  <2>2. i <= k <=> live[i] + w <= u
    BY <1>4, <2>1
  <2>3. n + i <= m <=> s[n + i] + w <= u
    BY <1>2, <2>1
  <2>4. live[i] = s[n + i]
    BY <1>1
  <2> QED BY <2>2, <2>3, <2>4
<1>8. k = m - n
  <2>1. ~(k < m - n)
    <3> SUFFICES ASSUME k < m - n PROVE FALSE
      OBVIOUS
    <3>1. k + 1 \in 1..(Len(s) - n) /\ n + (k + 1) <= m
      BY <1>1, <1>2, <1>4, <1>5
    <3>2. k + 1 <= k
      BY <1>7, <3>1
    <3> QED BY <1>4, <1>1, <1>5, <3>2
  <2>2. ~(k > m - n)
    <3> SUFFICES ASSUME k > m - n PROVE FALSE
      OBVIOUS
    <3>1. k \in 1..(Len(s) - n)
      BY <1>1, <1>2, <1>4, <1>5, <1>6
    <3>2. k <= k <=> n + k <= m
      BY <1>7, <3>1
    <3> QED BY <1>1, <1>2, <3>1, <3>2
  <2> QED BY <1>1, <1>2, <1>4, <1>5, <2>1, <2>2
<1>9. Len(both) = Len(late)
  BY <1>1, <1>2, <1>4, <1>5, <1>8
<1>10. \A i \in 1..Len(both) : both[i] = late[i]
  <2> TAKE i \in 1..Len(both)
  <2>1. /\ i \in 1..(Len(live) - k) /\ i \in 1..(Len(s) - m)
        /\ k + i \in 1..(Len(s) - n) /\ n + (k + i) = m + i
    BY <1>1, <1>2, <1>4, <1>5, <1>6, <1>8
  <2>2. both[i] = live[k + i] /\ late[i] = s[m + i]
    BY <1>2, <1>4, <2>1
  <2>3. live[k + i] = s[n + (k + i)]
    BY <1>1, <2>1
  <2> QED BY <2>1, <2>2, <2>3
<1>11. both = late
  BY <1>2, <1>4, <1>9, <1>10, SeqEqual
<1> QED BY <1>11 DEF both, live, late
-----------------------------------------------------------------------------
(* The limiters                                                            *)

\* The entries of a limiter: rising times that are not after t.
Entries(s, t) ==
    /\ s \in Seq(Nat) /\ Rising(s)
    /\ \A i \in 1..Len(s) : s[i] <= t

\* What was admitted in the last window is what the limiter still counts.
AdmittedInv ==
    /\ entries \in [Keys -> Seq(Nat)] /\ passed \in [Keys -> Seq(Nat)]
    /\ \A k \in Keys : /\ Entries(entries[k], now)
                        /\ passed[k] = LiveAt(entries[k], Window, now)
                        /\ Len(entries[k]) <= Limit

\* Half a file says nothing of what was granted, and lets nothing be granted any more.
GrantedInv ==
    /\ RestartTypeOK
    /\ Entries(file, now) /\ Entries(granted, now)
    /\ torn \/ granted = LiveAt(file, RestartWindow, now)
    /\ Len(granted) <= RestartMax

\* Of entries that all were recorded earlier, a record makes entries again.
LEMMA RecordedIs ==
    ASSUME now \in Nat, NEW s, Entries(s, now), NEW w \in Nat \ {0}
    PROVE  LET r == Recorded(s, w) IN
           /\ Entries(r, now) /\ Len(r) = Len(LiveAt(s, w, now)) + 1
           /\ r = Append(LiveAt(s, w, now), now)
           /\ LiveAt(r, w, now) = r
<1> DEFINE live == LiveAt(s, w, now)
           r == Append(live, now)
<1>1. /\ live \in Seq(Nat) /\ Rising(live)
      /\ \A i \in 1..Len(live) : live[i] + w > now
      /\ \A i \in 1..Len(live) : \E j \in 1..Len(s) : live[i] = s[j]
  BY LiveRises DEF Entries
<1>2. \A i \in 1..Len(live) : live[i] <= now
  BY <1>1 DEF Entries
<1> HIDE DEF live
<1>3. /\ r \in Seq(Nat) /\ Len(r) = Len(live) + 1
      /\ \A i \in 1..Len(live) : r[i] = live[i]
      /\ r[Len(live) + 1] = now
  BY <1>1, AppendProperties
<1> HIDE DEF r
<1>4. Len(live) \in Nat /\ \A i \in 1..Len(r) : i \in 1..Len(live) \/ i = Len(live) + 1
  BY <1>1, <1>3
<1>5. \A i \in 1..Len(r) : r[i] \in Nat /\ r[i] <= now /\ r[i] + w > now
  <2> SUFFICES ASSUME NEW i \in 1..Len(r) PROVE r[i] \in Nat /\ r[i] <= now /\ r[i] + w > now
    OBVIOUS
  <2>1. CASE i \in 1..Len(live)
    <3>1. r[i] = live[i] /\ live[i] \in Nat
      BY <1>1, <1>3, <2>1
    <3>2. live[i] <= now /\ live[i] + w > now
      BY SMTT(30), <1>1, <1>2, <2>1
    <3> QED BY <3>1, <3>2
  <2>2. CASE i = Len(live) + 1
    BY <1>3, <2>2
  <2> QED BY <1>4, <2>1, <2>2
<1>6. Rising(r)
  <2> SUFFICES ASSUME NEW i \in 1..Len(r), NEW j \in 1..Len(r), i <= j PROVE r[i] <= r[j]
    BY DEF Rising
  <2>1. CASE j = Len(live) + 1
    BY <1>3, <1>5, <2>1
  <2>2. CASE j \in 1..Len(live)
    <3>1. i \in 1..Len(live)
      BY <1>4, <2>2
    <3> QED BY <1>1, <1>3, <2>2, <3>1 DEF Rising
  <2> QED BY <1>4, <2>1, <2>2
<1>7. LiveAt(r, w, now) = r
  BY <1>3, <1>5, <1>6, LiveAll
<1>8. Entries(r, now) /\ Recorded(s, w) = r
  BY <1>3, <1>5, <1>6 DEF Entries, Recorded, live, r
<1> QED BY <1>3, <1>7, <1>8 DEF live, r

\* As time goes by, what is in the window now and what was in it are in step.
LEMMA LaterIs ==
    ASSUME now \in Nat, now' \in Nat, now <= now', NEW s, Entries(s, now), NEW w \in Nat
    PROVE  /\ LiveAt(LiveAt(s, w, now), w, now') = LiveAt(s, w, now')
           /\ LiveAt(s, w, now') \in Seq(Nat) /\ Len(LiveAt(s, w, now')) <= Len(s)
           /\ Rising(LiveAt(s, w, now'))
           /\ \A i \in 1..Len(LiveAt(s, w, now')) : LiveAt(s, w, now')[i] <= now'
<1>1. s \in Seq(Nat) /\ Rising(s) /\ \A i \in 1..Len(s) : s[i] \in Nat /\ s[i] <= now
  BY DEF Entries
<1>2. LiveAt(LiveAt(s, w, now), w, now') = LiveAt(s, w, now')
  BY <1>1, LiveTwice
<1> DEFINE live == LiveAt(s, w, now')
<1>3. /\ live \in Seq(Nat) /\ Rising(live) /\ Len(live) <= Len(s)
      /\ \A i \in 1..Len(live) : \E j \in 1..Len(s) : live[i] = s[j]
  BY <1>1, LiveRises
<1> HIDE DEF live
<1>4. \A i \in 1..Len(live) : live[i] <= now'
  <2> TAKE i \in 1..Len(live)
  <2>1. PICK j \in 1..Len(s) : live[i] = s[j]
    BY <1>3
  <2>2. s[j] \in Nat /\ s[j] <= now
    BY <1>1
  <2> QED BY <2>1, <2>2
<1> QED BY <1>2, <1>3, <1>4 DEF live

LEMMA EmptyIs == ASSUME NEW w \in Nat, NEW t \in Nat
                 PROVE  /\ <<>> \in Seq(Nat) /\ Len(<<>>) = 0 /\ Rising(<<>>)
                        /\ LiveAt(<<>>, w, t) = <<>>
<1>1. <<>> \in Seq(Nat) /\ Len(<<>>) = 0
  BY EmptySeq
<1>2. Rising(<<>>) /\ \A i \in 1..Len(<<>>) : <<>>[i] + w > t
  BY <1>1 DEF Rising
<1> QED BY <1>1, <1>2, LiveAll

-----------------------------------------------------------------------------
(* The steps                                                               *)

LEMMA AdmitCounts ==
    ASSUME AdmittedInv, now \in Nat, NEW k \in Keys, Admit(k), now' = now
    PROVE  AdmittedInv'
<1> DEFINE s == entries[k]
           r == Recorded(s, Window)
<1>1. Window \in Nat \ {0} /\ Limit \in Nat
  BY LimitAssumption DEF LimitAssumption
<1>2. Entries(s, now) /\ passed[k] = LiveAt(s, Window, now)
  BY DEF AdmittedInv
<1>3. /\ Entries(r, now) /\ Len(r) = Len(LiveAt(s, Window, now)) + 1
      /\ r = Append(LiveAt(s, Window, now), now)
      /\ LiveAt(r, Window, now) = r
  BY <1>1, <1>2, RecordedIs
<1>4. Len(LiveAt(s, Window, now)) + 1 <= Limit
  BY DEF Admit, Fitting, Fits, FitsAt
<1>5. entries' = [entries EXCEPT ![k] = r] /\ passed' = [passed EXCEPT ![k] = r]
  BY <1>2, <1>3 DEF Admit
<1>6. r \in Seq(Nat)
  BY <1>3 DEF Entries
<1> HIDE DEF r, s
<1>7. entries \in [Keys -> Seq(Nat)] /\ passed \in [Keys -> Seq(Nat)]
  BY DEF AdmittedInv
<1>8. entries' \in [Keys -> Seq(Nat)] /\ passed' \in [Keys -> Seq(Nat)]
  BY <1>5, <1>6, <1>7
<1>9. ASSUME NEW x \in Keys
      PROVE  /\ Entries(entries'[x], now')
             /\ passed'[x] = LiveAt(entries'[x], Window, now')
             /\ Len(entries'[x]) <= Limit
  <2>1. CASE x = k
    <3>1. entries'[x] = r /\ passed'[x] = r
      BY <1>5, <1>7, <2>1
    <3> QED BY <1>3, <1>4, <3>1 DEF Entries
  <2>2. CASE x # k
    <3>1. entries'[x] = entries[x] /\ passed'[x] = passed[x]
      BY <1>5, <1>7, <2>2
    <3>2. Entries(entries[x], now) /\ passed[x] = LiveAt(entries[x], Window, now)
          /\ Len(entries[x]) <= Limit
      BY DEF AdmittedInv
    <3> QED BY <3>1, <3>2 DEF Entries
  <2> QED BY <2>1, <2>2
<1> QED BY <1>8, <1>9 DEF AdmittedInv

LEMMA SameCounts == ASSUME AdmittedInv, UNCHANGED <<now, limits>> PROVE AdmittedInv'
BY DEF AdmittedInv, Entries, limits

LEMMA CallCounts == ASSUME AdmittedInv, now \in Nat, CallsNext, now' = now PROVE AdmittedInv'
<1>1. /\ \A c \in Clients : <<c, "approve">> \in Keys
      /\ \A t \in Tools : \A r \in To(t) : <<r.client, r.tool>> \in Keys
  BY DEF Keys, Tools, To
<1>2. "approve" \in Tools /\ "delete" \in Tools
  BY DEF Tools
<1>3. ASSUME NEW c \in Clients, Limited(c) \/ Unusable(c) PROVE AdmittedInv'
  BY <1>1, <1>3, AdmitCounts, SameCounts DEF Limited, Unusable, Refuse
<1>4. ASSUME NEW t \in Tools, NEW r \in To(t), NEW h,
             Ask(r) \/ Propose(r) \/ Answer(r, h) \/ Confirm(r, h)
      PROVE  AdmittedInv'
  <2>1. \/ Admit(<<r.client, r.tool>>)
        \/ UNCHANGED limits
    BY <1>4, ZenonT(40) DEF Ask, Propose, Answer, Confirm, Refuse
  <2> QED BY <1>1, <2>1, AdmitCounts, SameCounts
<1> QED BY <1>2, <1>3, <1>4 DEF CallsNext

LEMMA ForgetCounts == ASSUME AdmittedInv, now \in Nat, Forget, now' = now PROVE AdmittedInv'
<1>1. entries' = [k \in Keys |-> <<>>] /\ passed' = [k \in Keys |-> <<>>]
  BY DEF Forget
<1>2. Window \in Nat /\ Limit \in Nat
  BY LimitAssumption DEF LimitAssumption
<1>3. <<>> \in Seq(Nat) /\ Len(<<>>) = 0 /\ Rising(<<>>) /\ LiveAt(<<>>, Window, now) = <<>>
  BY <1>2, EmptyIs
<1>4. Entries(<<>>, now')
  BY <1>3 DEF Entries
<1>5. \A k \in Keys : entries'[k] = <<>> /\ passed'[k] = <<>>
  BY <1>1
<1>6. entries' \in [Keys -> Seq(Nat)] /\ passed' \in [Keys -> Seq(Nat)]
  BY <1>1, <1>3
<1> QED BY <1>2, <1>3, <1>4, <1>5, <1>6 DEF AdmittedInv

LEMMA TickCounts == ASSUME AdmittedInv, now \in Nat, Tick PROVE AdmittedInv'
<1>1. now' \in Nat /\ now <= now' /\ entries' = entries
      /\ passed' = [k \in Keys |-> LiveAt(passed[k], Window, now')]
  BY DEF Tick, Aged
<1>2. Window \in Nat /\ Limit \in Nat
  BY LimitAssumption DEF LimitAssumption
<1>3. ASSUME NEW k \in Keys
      PROVE  /\ Entries(entries'[k], now')
             /\ passed'[k] \in Seq(Nat)
             /\ passed'[k] = LiveAt(entries'[k], Window, now')
             /\ Len(entries'[k]) <= Limit
  <2> DEFINE s == entries[k]
  <2>1. Entries(s, now) /\ passed[k] = LiveAt(s, Window, now) /\ Len(s) <= Limit
    BY DEF AdmittedInv
  <2>2. LiveAt(LiveAt(s, Window, now), Window, now') = LiveAt(s, Window, now')
        /\ LiveAt(s, Window, now') \in Seq(Nat)
    BY <1>1, <1>2, <2>1, LaterIs
  <2>3. passed'[k] = LiveAt(s, Window, now')
    BY <1>1, <2>1, <2>2
  <2>4. Entries(s, now')
    <3>1. s \in Seq(Nat) /\ Rising(s) /\ \A i \in 1..Len(s) : s[i] <= now /\ s[i] \in Nat
      BY <2>1 DEF Entries
    <3>2. \A i \in 1..Len(s) : s[i] <= now'
      BY <1>1, <3>1
    <3> QED BY <1>1, <3>1, <3>2 DEF Entries
  <2> QED BY <1>1, <2>1, <2>2, <2>3, <2>4
<1>4. entries' \in [Keys -> Seq(Nat)]
  BY <1>1 DEF AdmittedInv
<1>5. passed' \in [Keys -> Seq(Nat)]
  BY <1>1, <1>3
<1> QED BY <1>3, <1>4, <1>5 DEF AdmittedInv

\* A restart that is granted was counted in the file; a file that is cut in half lets no
\* other be granted.
LEMMA RestartCounts ==
    ASSUME GrantedInv, now \in Nat, RestartStep \/ Exit \/ Crash, now' = now
    PROVE  GrantedInv'
<1> DEFINE r == Recorded(file, RestartWindow)
<1>1. RestartWindow \in Nat \ {0} /\ RestartMax \in Nat /\ MaxTriggers \in Nat /\ MaxCrashes \in Nat
  BY RestartAssumption DEF RestartAssumption
<1>2. /\ Entries(file, now) /\ Entries(granted, now) /\ Len(granted) <= RestartMax
      /\ torn \/ granted = LiveAt(file, RestartWindow, now)
      /\ torn \in BOOLEAN /\ trigger \in {"none", "written", "stuck"}
      /\ closing \in {"no", "scheduled", "closing", "closed"}
      /\ triggers \in 0..MaxTriggers /\ crashes \in 0..MaxCrashes
  BY DEF GrantedInv, RestartTypeOK
<1>3. Entries(<<>>, now)
  BY <1>1, EmptyIs DEF Entries
<1>4. CASE Poll
  <2>1. /\ Entries(r, now) /\ Len(r) = Len(LiveAt(file, RestartWindow, now)) + 1
        /\ r = Append(LiveAt(file, RestartWindow, now), now)
        /\ LiveAt(r, RestartWindow, now) = r
    BY <1>1, <1>2, RecordedIs
  <2>2. ~torn /\ Len(LiveAt(file, RestartWindow, now)) + 1 <= RestartMax
    BY <1>4 DEF Poll, Grants, Fits, FitsAt
  <2>3. file' = r /\ granted' = r /\ torn' = FALSE
    BY <1>2, <1>4, <2>1, <2>2 DEF Poll
  <2> HIDE DEF r
  <2>4. r \in Seq(Nat)
    BY <2>1 DEF Entries
  <2>5. RestartTypeOK'
    BY <1>2, <1>4, <2>3, <2>4 DEF RestartTypeOK, Poll, Remaining
  <2> QED BY <2>1, <2>2, <2>3, <2>5 DEF GrantedInv
<1>5. CASE ~Poll
  <2>1. granted' = granted /\ ((file' = file /\ torn' = torn) \/ (file' = <<>> /\ torn' = TRUE))
    BY <1>5, ZenonT(40) DEF RestartStep, Trigger, LetGo, PollRefused, PollUnwritten, Close, Closed,
       Exit, Crash, Tear
  <2>2. /\ trigger' \in {"none", "written", "stuck"}
        /\ closing' \in {"no", "scheduled", "closing", "closed"}
        /\ triggers' \in 0..MaxTriggers /\ crashes' \in 0..MaxCrashes
    <3>1. CASE Trigger \/ LetGo
      BY <1>1, <1>2, <3>1 DEF Trigger, LetGo
    <3>2. CASE PollRefused \/ PollUnwritten
      BY <1>2, <3>2 DEF PollRefused, PollUnwritten, Remaining
    <3>3. CASE Close \/ Closed \/ Exit
      BY <1>2, <3>3 DEF Close, Closed, Exit
    <3>4. CASE Crash
      BY <1>1, <1>2, <3>4 DEF Crash
    <3> QED BY <1>5, <3>1, <3>2, <3>3, <3>4 DEF RestartStep
  <2>3. Entries(file', now') /\ Entries(granted', now')
    BY <1>2, <1>3, <2>1
  <2>4. file' \in Seq(Nat) /\ granted' \in Seq(Nat) /\ torn' \in BOOLEAN
    BY <1>2, <2>1, <2>3 DEF Entries
  <2>5. RestartTypeOK'
    BY <2>2, <2>4 DEF RestartTypeOK
  <2> QED BY <1>2, <2>1, <2>3, <2>5 DEF GrantedInv
<1> QED BY <1>4, <1>5

LEMMA TickGrants == ASSUME GrantedInv, now \in Nat, Tick PROVE GrantedInv'
<1>1. now' \in Nat /\ now <= now' /\ granted' = LiveAt(granted, RestartWindow, now')
  BY DEF Tick, Settled
<1>2. UNCHANGED <<trigger, closing, file, torn, triggers, crashes>>
  BY DEF Tick
<1>3. RestartWindow \in Nat /\ RestartMax \in Nat
  BY RestartAssumption DEF RestartAssumption
<1>4. /\ Entries(file, now) /\ Entries(granted, now) /\ Len(granted) <= RestartMax
      /\ torn \/ granted = LiveAt(file, RestartWindow, now)
  BY DEF GrantedInv
<1>5. /\ granted' \in Seq(Nat) /\ Rising(granted') /\ Len(granted') <= Len(granted)
      /\ \A i \in 1..Len(granted') : granted'[i] <= now'
  BY <1>1, <1>3, <1>4, LaterIs
<1>6. torn \/ granted' = LiveAt(file, RestartWindow, now')
  BY <1>1, <1>3, <1>4, LaterIs
<1>7. Entries(file, now')
  <2>1. file \in Seq(Nat) /\ Rising(file)
        /\ \A i \in 1..Len(file) : file[i] <= now /\ file[i] \in Nat
    BY <1>4 DEF Entries
  <2>2. \A i \in 1..Len(file) : file[i] <= now'
    BY <1>1, <2>1
  <2> QED BY <2>1, <2>2 DEF Entries
<1>8. Entries(granted', now')
  BY <1>5 DEF Entries
<1>9. Len(granted') <= RestartMax
  <2>1. Len(granted) \in Nat /\ Len(granted') \in Nat
    BY <1>4, <1>5 DEF Entries
  <2> QED BY <1>3, <1>4, <1>5, <2>1
<1>10. RestartTypeOK'
  BY <1>2, <1>5 DEF GrantedInv, RestartTypeOK
<1> QED BY <1>2, <1>6, <1>7, <1>8, <1>9, <1>10 DEF GrantedInv

CountsInv == HandlesInv /\ RecentInv /\ AdmittedInv /\ GrantedInv

LEMMA InitCounts == Init => CountsInv
<1> SUFFICES ASSUME Init PROVE CountsInv
  OBVIOUS
<1>1. /\ now = 0 /\ entries = [k \in Keys |-> <<>>] /\ passed = [k \in Keys |-> <<>>]
      /\ trigger = "none" /\ closing = "no" /\ file = <<>> /\ torn = FALSE /\ granted = <<>>
      /\ triggers = 0 /\ crashes = 0
  BY DEF Init, CallsInit, RestartInit
<1>2. /\ Window \in Nat /\ Limit \in Nat /\ RestartWindow \in Nat /\ RestartMax \in Nat
      /\ MaxTriggers \in Nat /\ MaxCrashes \in Nat
  BY LimitAssumption, RestartAssumption DEF LimitAssumption, RestartAssumption
<1>3. /\ <<>> \in Seq(Nat) /\ Len(<<>>) = 0 /\ Rising(<<>>) /\ LiveAt(<<>>, Window, 0) = <<>>
      /\ LiveAt(<<>>, RestartWindow, 0) = <<>>
  BY <1>2, EmptyIs
<1>4. Entries(<<>>, 0)
  BY <1>3 DEF Entries
<1>5. AdmittedInv
  <2>1. \A k \in Keys : entries[k] = <<>> /\ passed[k] = <<>>
    BY <1>1
  <2>2. entries \in [Keys -> Seq(Nat)] /\ passed \in [Keys -> Seq(Nat)]
    BY <1>1, <1>3
  <2> QED BY <1>1, <1>2, <1>3, <1>4, <2>1, <2>2 DEF AdmittedInv
<1>6. GrantedInv
  <2>1. RestartTypeOK
    <3>1. torn \in BOOLEAN
      BY <1>1
    <3>2. triggers \in 0..MaxTriggers /\ crashes \in 0..MaxCrashes
      BY <1>1, <1>2
    <3>3. file \in Seq(Nat) /\ granted \in Seq(Nat)
      BY <1>1, <1>3
    <3>4. trigger \in {"none", "written", "stuck"}
          /\ closing \in {"no", "scheduled", "closing", "closed"}
      BY <1>1
    <3> QED BY <3>1, <3>2, <3>3, <3>4 DEF RestartTypeOK
  <2>2. Entries(file, now) /\ Entries(granted, now)
    BY <1>1, <1>4
  <2>3. Len(granted) <= RestartMax /\ granted = LiveAt(file, RestartWindow, now)
    BY <1>1, <1>2, <1>3
  <2> QED BY <2>1, <2>2, <2>3 DEF GrantedInv
<1> QED BY <1>5, <1>6, InitHandles, InitRecent DEF CountsInv

LEMMA StepCounts == ASSUME CountsInv, [Next]_vars PROVE CountsInv'
<1>1. HandlesInv' /\ RecentInv'
  BY StepShown, StepRecent DEF Shown, CountsInv
<1>2. now \in Nat
  BY DEF CountsInv, HandlesInv, HandlesTyped
<1>3. ASSUME UNCHANGED <<now, restartVars>> PROVE GrantedInv'
  BY <1>3 DEF CountsInv, GrantedInv, restartVars, RestartTypeOK
<1>4. CASE Calls
  BY <1>1, <1>2, <1>3, <1>4, CallCounts DEF Calls, CountsInv
<1>5. CASE Restarts
  BY <1>1, <1>2, <1>5, RestartCounts, SameCounts DEF Restarts, callVars, CountsInv
<1>6. CASE Ends
  BY <1>1, <1>2, <1>6, RestartCounts, ForgetCounts DEF Ends, CountsInv
<1>7. CASE Tick
  BY <1>1, <1>2, <1>7, TickGrants, TickCounts DEF CountsInv
<1>8. CASE UNCHANGED vars
  BY <1>1, <1>3, <1>8, SameCounts DEF vars, callVars, CountsInv
<1> QED BY <1>4, <1>5, <1>6, <1>7, <1>8 DEF Next

\* A caller who is refused has used the whole limit, and the oldest of its admissions
\* leaves the window just when it was told to come again.
LEMMA RetryIsExact ==
    ASSUME AdmittedInv, now \in Nat, NEW k \in Keys, ~Fitting(k)
    PROVE  LET again == RetryAt(entries[k], Window) IN
           /\ FitsAt(entries[k], Limit, Window, again)
           /\ ~FitsAt(entries[k], Limit, Window, again - 1)
<1> DEFINE s == entries[k]
           live == LiveAt(s, Window, now)
           again == RetryAt(s, Window)
<1>1. Window \in Nat \ {0} /\ Limit \in Nat \ {0}
  BY LimitAssumption DEF LimitAssumption
<1>2. s \in Seq(Nat) /\ Rising(s) /\ Len(s) <= Limit
  BY DEF AdmittedInv, Entries
<1>3. /\ live \in Seq(Nat) /\ Rising(live) /\ Len(live) <= Len(s)
      /\ \A i \in 1..Len(live) : live[i] + Window > now
  BY <1>1, <1>2, LiveRises
<1>4. ~(Len(live) + 1 <= Limit)
  BY DEF Fitting, Fits, FitsAt
<1>5. again = now + (Window - (now - Head(live)))
  BY DEF RetryAt
<1>6. \A t \in Nat : now <= t => LiveAt(live, Window, t) = LiveAt(s, Window, t)
  BY <1>1, <1>2, LiveTwice
<1> HIDE DEF live, again, s
<1>7. Len(live) = Limit /\ Len(live) \in Nat /\ Len(s) \in Nat
  BY <1>1, <1>2, <1>3, <1>4
<1>8. live # <<>> /\ Head(live) = live[1] /\ live[1] \in Nat /\ 1 \in 1..Len(live)
  BY <1>1, <1>3, <1>7
<1>9. again = live[1] + Window /\ again \in Nat /\ again - 1 \in Nat /\ now <= again - 1
  <2>1. live[1] + Window > now
    BY <1>3, <1>8
  <2> QED BY <1>1, <1>5, <1>8, <2>1
<1>10. Len(LiveAt(live, Window, again)) + 1 <= Limit
  <2>1. PICK n \in 0..Len(live) :
              /\ LiveAt(live, Window, again) \in Seq(Nat)
              /\ Len(LiveAt(live, Window, again)) = Len(live) - n
              /\ \A i \in 1..Len(live) : i <= n <=> live[i] + Window <= again
    BY <1>1, <1>3, <1>9, LiveIs
  <2>2. 1 <= n
    BY <1>1, <1>8, <1>9, <2>1
  <2> QED BY <1>7, <2>1, <2>2
<1>11. LiveAt(live, Window, again - 1) = live
  <2>1. \A i \in 1..Len(live) : live[i] + Window > again - 1
    <3> TAKE i \in 1..Len(live)
    <3>1. live[1] <= live[i] /\ live[i] \in Nat
      BY <1>3, <1>8 DEF Rising
    <3> QED BY <1>1, <1>8, <1>9, <3>1
  <2> QED BY <1>1, <1>3, <1>9, <2>1, LiveAll
<1>12. /\ LiveAt(live, Window, again) = LiveAt(s, Window, again)
       /\ LiveAt(live, Window, again - 1) = LiveAt(s, Window, again - 1)
  BY <1>6, <1>9, now \in Nat
<1>13. FitsAt(s, Limit, Window, again)
  BY <1>10, <1>12 DEF FitsAt
<1>14. ~FitsAt(s, Limit, Window, again - 1)
  BY <1>4, <1>11, <1>12 DEF FitsAt
<1> QED BY <1>13, <1>14 DEF again, s

-----------------------------------------------------------------------------
(* Theorems                                                                *)

\* A handle starts its tool at most once, for the client, the arguments and the scopes
\* it was issued for and before it expires; an approval is spent only by a call of its
\* client that the limiter admitted.  This is what the stores of
\* state_handle_prototype.js are for, over every restart and crash.
THEOREM ApprovalsStartOnce == Spec => ApprovedOnce
<1>1. HandlesInv /\ [Next]_vars => HandlesInv'
  BY StepShown DEF Shown
<1>2. HandlesInv /\ [Next]_vars
         => [\A h \in Handles : StartsRightly(h) /\ SpentByAdmitted(h)]_callVars
  BY StepShown DEF Shown
<1> QED BY <1>1, <1>2, InitHandles, PTL DEF Spec, ApprovedOnce

\* A handle is forgotten only after as many later ones of its tool as the store holds:
\* the store of state_handle_prototype.js drops its oldest record, and no call, whatever
\* it brings, makes it drop another.
THEOREM OldestForgotten == Spec => []ForgottenAreOld
<1>1. Init => HandlesInv /\ RecentInv
  BY InitHandles, InitRecent
<1>2. HandlesInv /\ RecentInv /\ [Next]_vars => (HandlesInv /\ RecentInv)'
  BY StepShown, StepRecent DEF Shown
<1>3. HandlesInv /\ RecentInv => ForgottenAreOld
  BY RecentForgets
<1> QED BY <1>1, <1>2, <1>3, PTL DEF Spec

LEMMA CountsHold == Spec => []CountsInv
<1>1. Init => CountsInv
  BY InitCounts
<1>2. CountsInv /\ [Next]_vars => CountsInv'
  BY StepCounts
<1> QED BY <1>1, <1>2, PTL DEF Spec

\* The variables have their types, and no store of state_handle_prototype.js holds more
\* handles than its maxRecords.
THEOREM TypesHold == Spec => []TypeOK
<1>1. CountsInv => TypeOK
  BY DEF CountsInv, HandlesInv, HandlesTyped, RecentInv, Ordered, AdmittedInv, GrantedInv,
     TypeOK, CallsTypeOK
<1> QED BY <1>1, CountsHold, PTL

\* Both limiters of rate_limit_state.js are exact: no client and no code of a restart is
\* admitted more often than its limit in any window of time, over crashes and a file that
\* was cut in half, and a refused caller is admitted when retry_after_ms says, and not
\* sooner.
THEOREM LimitersExact == Spec => []LimitsExact
<1>1. ASSUME CountsInv PROVE LimitsExact
  <2>1. AdmittedInv /\ now \in Nat
    BY <1>1 DEF CountsInv, HandlesInv, HandlesTyped
  <2>2. ASSUME NEW k \in Keys PROVE Len(passed[k]) <= Limit
    <3>1. /\ entries[k] \in Seq(Nat) /\ Rising(entries[k]) /\ Len(entries[k]) <= Limit
          /\ passed[k] = LiveAt(entries[k], Window, now)
      BY <2>1 DEF AdmittedInv, Entries
    <3>2. Window \in Nat /\ Limit \in Nat
      BY LimitAssumption DEF LimitAssumption
    <3>3. passed[k] \in Seq(Nat) /\ Len(passed[k]) <= Len(entries[k])
      BY <2>1, <3>1, <3>2, LiveRises
    <3>4. Len(passed[k]) \in Nat /\ Len(entries[k]) \in Nat
      BY <3>1, <3>3
    <3> QED BY <3>1, <3>2, <3>3, <3>4
  <2>3. Len(granted) <= RestartMax
    BY <1>1 DEF CountsInv, GrantedInv
  <2> QED BY <2>1, <2>2, <2>3, RetryIsExact DEF LimitsExact
<1>2. CountsInv => LimitsExact
  BY <1>1
<1> QED BY <1>2, CountsHold, PTL
=============================================================================
