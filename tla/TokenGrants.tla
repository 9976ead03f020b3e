---------------------------- MODULE TokenGrants ----------------------------
(***************************************************************************)
(* Grants of the OAuth 2.1 authorization server:                           *)
(* src/src/auth/oauth21_authorization_server.js over                       *)
(* src/src/auth/oauth21_persistence_store.js.                              *)
(*                                                                         *)
(* An instance answers from its own Maps, which it fills once, at start.   *)
(* A request that changes them merges them into the store in one           *)
(* transaction and takes its changes back when that fails.  Deleted        *)
(* records are remembered until the next save, because the merge is a      *)
(* union.  Most requests begin with cleanup(), a transaction of its own.   *)
(*                                                                         *)
(* issue() makes an access and a refresh token: one number stands for the  *)
(* two, in the order they are issued, which is the order they expire in.   *)
(* A request that is refused for its client, its resource, its verifier or *)
(* its scope changes nothing (Decline); a grant has one client.            *)
(*                                                                         *)
(* A definition with a suffix, such as DropRefresh_Untold, is a deliberately *)
(* wrong variant of the definition after it.  No action uses it: it is put *)
(* in place of the right one to see a property fail.                       *)
(***************************************************************************)
EXTENDS Naturals, FiniteSets

CONSTANTS
    Instances,     \* server processes
    Requests,      \* authorization requests (authorize ... code)
    MaxIssues,     \* bound: calls of issue()
    MaxFailures,   \* bound: saves and loads that throw
    Scenarios      \* how the servers may be run, see Scenario

ASSUME IssueBounds == MaxIssues \in Nat /\ MaxFailures \in Nat

Scenario ==
    [overlap : BOOLEAN,           \* two instances may serve at the same time
     load : BOOLEAN,              \* the load at start may throw: the Maps stay empty
     issues : 0..MaxIssues,       \* and bounds for this one: calls of issue(),
     requests : Nat,              \* authorization requests,
     expired : Nat,               \* issues that expire,
     failures : 0..MaxFailures]   \* saves and loads that throw

ASSUME ScenarioTypes == Scenarios \subseteq Scenario

Tokens == 1..MaxIssues
Numbers == 0..MaxIssues    \* a token, or 0 for none

VARIABLES
    scenario, \* one of Scenarios, from the beginning
    disk,     \* the stored tokens; used[t]: the token t was exchanged for, or 0
    mem,      \* the same of each instance, and what it deleted since it saved
    at,       \* down, idle, cleaned (a request after its cleanup())
    flow,     \* none, pending, code, spent
    server,   \* the instance whose memory holds the request, in a set, or {}
    issued,   \* the last number issued
    grant,    \* grantId, as the number of its first token
    expired,  \* access and refresh tokens up to these numbers have expired
    handed,   \* tokens that a client was answered with
    revoked,  \* grants whose revocation was answered with success
    ended,    \* grants ended because an exchanged token came again
    failures  \* how many saves and loads have thrown

requests == <<flow, server>>
issues == <<issued, grant>>
answers == <<handed, revoked, ended>>
vars == <<scenario, disk, mem, at, requests, issues, expired, answers, failures>>

Stored == [access : SUBSET Tokens, refresh : SUBSET Tokens,
           used : [Tokens -> Numbers]]
Deleted == [access : SUBSET Tokens, refresh : SUBSET Tokens, used : SUBSET Tokens]
Maps == [access : SUBSET Tokens, refresh : SUBSET Tokens,
         used : [Tokens -> Numbers], gone : Deleted]

TypeOK ==
    /\ scenario \in Scenarios
    /\ disk \in Stored
    /\ mem \in [Instances -> Maps]
    /\ at \in [Instances -> {"down", "idle", "cleaned"}]
    /\ flow \in [Requests -> {"none", "pending", "code", "spent"}]
    /\ server \in [Requests -> SUBSET Instances]
    /\ issued \in Numbers
    /\ grant \in [Tokens -> Numbers]
    /\ expired \in [access : Numbers, refresh : Numbers]
    /\ handed \in SUBSET Tokens
    /\ revoked \in SUBSET Numbers
    /\ ended \in SUBSET Numbers
    /\ failures \in 0..MaxFailures

Nothing == [access |-> {}, refresh |-> {}, used |-> {}]
Empty == [access |-> {}, refresh |-> {}, used |-> [t \in Tokens |-> 0], gone |-> Nothing]

Init ==
    /\ scenario \in Scenarios
    /\ disk = [access |-> {}, refresh |-> {}, used |-> [t \in Tokens |-> 0]]
    /\ mem = [i \in Instances |-> Empty]
    /\ at = [i \in Instances |-> "down"]
    /\ flow = [r \in Requests |-> "none"]
    /\ server = [r \in Requests |-> {}]
    /\ issued = 0
    /\ grant = [t \in Tokens |-> 0]
    /\ expired = [access |-> 0, refresh |-> 0]
    /\ handed = {} /\ revoked = {} /\ ended = {} /\ failures = 0

-----------------------------------------------------------------------------
(* Records in memory                                                       *)

PutAccess(m, t) ==
    [m EXCEPT !.access = @ \cup {t}, !.gone.access = @ \ {t}]

PutRefresh(m, t) ==
    [m EXCEPT !.refresh = @ \cup {t}, !.gone.refresh = @ \ {t}]

PutUsed(m, t, successor) ==
    [m EXCEPT !.used[t] = successor, !.gone.used = @ \ {t}]

DropAccess(m, T) ==
    [m EXCEPT !.access = @ \ T, !.gone.access = @ \cup (T \cap m.access)]

DropRefresh_Untold(m, T) == [m EXCEPT !.refresh = @ \ T]

DropRefresh(m, T) ==
    [m EXCEPT !.refresh = @ \ T, !.gone.refresh = @ \cup (T \cap m.refresh)]

DropUsed(m, T) ==
    [m EXCEPT !.used = [t \in Tokens |-> IF t \in T THEN 0 ELSE m.used[t]],
              !.gone.used = @ \cup {t \in T : m.used[t] # 0}]

Drop(m, T) == DropUsed(DropRefresh(DropAccess(m, T), T), T)

Issue(m, t) == PutRefresh(PutAccess(m, t), t)

OfGrant(g) == {t \in Tokens : grant[t] = g}

-----------------------------------------------------------------------------
(* The store                                                               *)

\* Expired rows are deleted before every read.
Unexpired(d) ==
    [access |-> {t \in d.access : t > expired.access},
     refresh |-> {t \in d.refresh : t > expired.refresh},
     used |-> [t \in Tokens |-> IF t > expired.refresh THEN d.used[t] ELSE 0]]

Merged_MemoryOnly(m, grants) ==
    [access |-> m.access, refresh |-> m.refresh, used |-> m.used]

Merged_RivalsKept(m, grants) ==
    LET d == Unexpired(disk)
        used == [t \in Tokens |->
                    IF m.used[t] # 0 THEN m.used[t]
                    ELSE IF t \in m.gone.used THEN 0 ELSE d.used[t]]
    IN [access |-> (d.access \ m.gone.access) \cup m.access,
        refresh |-> {t \in (d.refresh \ m.gone.refresh) \cup m.refresh : used[t] = 0},
        used |-> used]

\* buildMergedState: what is stored, less what was deleted here, with what is in
\* memory; an exchanged token is no candidate, and of the others the one that
\* expires last stands for its grant.
Merged(m, grants) ==
    LET d == Unexpired(disk)
        used == [t \in Tokens |->
                    IF m.used[t] # 0 THEN m.used[t]
                    ELSE IF t \in m.gone.used THEN 0 ELSE d.used[t]]
        candidates == {t \in (d.refresh \ m.gone.refresh) \cup m.refresh : used[t] = 0}
    IN [access |-> (d.access \ m.gone.access) \cup m.access,
        refresh |-> {t \in candidates :
                        \A o \in candidates : grants[o] = grants[t] => o <= t},
        used |-> used]

\* saveOAuthState of the Maps m, after which nothing needs to be remembered ...
Saves(i, m, grants) ==
    /\ disk' = Merged(m, grants)
    /\ mem' = [mem EXCEPT ![i] = [m EXCEPT !.gone = Nothing]]
    /\ UNCHANGED failures

StoreThrows == failures < scenario.failures /\ failures' = failures + 1

\* ... or it throws, and the caller leaves the Maps as m.
SaveFails(i, m) ==
    /\ StoreThrows
    /\ mem' = [mem EXCEPT ![i] = m]
    /\ UNCHANGED disk

Answers(i) == at' = [at EXCEPT ![i] = "idle"]

\* The answer reaches the client, or the connection is gone.
Hands(t) == handed' \in {handed, handed \cup {t}} /\ UNCHANGED <<revoked, ended>>

-----------------------------------------------------------------------------
(* Requests                                                                *)

\* cleanup() before authorize, completeLogin, token and validateAccessToken:
\* pending requests and codes that are over, then the tokens; it saves when it
\* dropped any and goes on when that fails.
Cleanup(i) ==
    /\ at[i] = "idle"
    /\ at' = [at EXCEPT ![i] = "cleaned"]
    /\ \E over \in SUBSET {r \in Requests : server[r] = {i}} :
          /\ flow' = [r \in Requests |-> IF r \in over THEN "spent" ELSE flow[r]]
          /\ server' = [r \in Requests |-> IF r \in over THEN {} ELSE server[r]]
    /\ LET m == DropUsed(DropRefresh(DropAccess(mem[i], 1..expired.access),
                                     1..expired.refresh), 1..expired.refresh)
       IN IF m = mem[i] THEN UNCHANGED <<disk, mem, failures>>
          ELSE Saves(i, m, grant) \/ SaveFails(i, m)
    /\ UNCHANGED <<issues, expired, answers>>

\* authorize: an authorization request waits for the operator.
Authorize(i, r) ==
    /\ at[i] = "cleaned" /\ flow[r] = "none"
    /\ Cardinality({o \in Requests : flow[o] # "none"}) < scenario.requests
    /\ flow' = [flow EXCEPT ![r] = "pending"]
    /\ server' = [server EXCEPT ![r] = {i}]
    /\ Answers(i)
    /\ UNCHANGED <<disk, mem, issues, expired, answers, failures>>

CompleteLogin_StateNobodyReads(i, r) ==
    /\ at[i] = "cleaned" /\ flow[r] = "pending" /\ server[r] = {i}
    /\ flow' = [flow EXCEPT ![r] = "accepted"]
    /\ Answers(i)
    /\ UNCHANGED <<disk, mem, server, issues, expired, answers, failures>>

\* completeLogin: the operator accepts it and the client gets a code.
CompleteLogin(i, r) ==
    /\ at[i] = "cleaned" /\ flow[r] = "pending" /\ server[r] = {i}
    /\ flow' = [flow EXCEPT ![r] = "code"]
    /\ Answers(i)
    /\ UNCHANGED <<disk, mem, server, issues, expired, answers, failures>>

\* token, authorization_code: the code is spent, whether issue() can save or not.
ExchangeCode(i, r) ==
    /\ at[i] = "cleaned" /\ flow[r] = "code" /\ server[r] = {i}
    /\ issued < scenario.issues
    /\ flow' = [flow EXCEPT ![r] = "spent"] /\ server' = [server EXCEPT ![r] = {}]
    /\ issued' = issued + 1
    /\ grant' = [grant EXCEPT ![issued'] = issued']
    /\ LET m == Issue(mem[i], issued') IN
       \/ Saves(i, m, grant') /\ Hands(issued')
       \/ SaveFails(i, DropRefresh(DropAccess(m, {issued'}), {issued'})) /\ UNCHANGED answers
    /\ Answers(i)
    /\ UNCHANGED expired

RotationUndone_NotRestored(m, t, n) ==
    DropUsed(DropRefresh(DropAccess(m, {n}), {n}), {t})

\* Rotation taken back, record by record, when it could not be saved.
RotationUndone(m, t, n) ==
    PutRefresh(DropUsed(DropRefresh(DropAccess(m, {n}), {n}), {t}), t)

Rotated_NoReplay(m, t, n) == Issue(DropRefresh(m, {t}), n)

\* The refresh token t exchanged for n; the answer is kept for a retry.
Rotated(m, t, n) == Issue(PutUsed(DropRefresh(m, {t}), t, n), n)

\* token, refresh_token.
Refresh(i, t) ==
    /\ at[i] = "cleaned" /\ t \in mem[i].refresh
    /\ issued < scenario.issues
    /\ issued' = issued + 1
    /\ grant' = [grant EXCEPT ![issued'] = grant[t]]
    /\ LET m == Rotated(mem[i], t, issued') IN
       \/ Saves(i, m, grant') /\ Hands(issued')
       \/ SaveFails(i, RotationUndone(m, t, issued')) /\ UNCHANGED answers
    /\ Answers(i)
    /\ UNCHANGED <<requests, expired>>

\* token, an exchanged refresh token again: inside the replay window the stored
\* answer ...
Replay(i, t) ==
    /\ at[i] = "cleaned" /\ t \notin mem[i].refresh /\ mem[i].used[t] # 0
    /\ Hands(mem[i].used[t])
    /\ Answers(i)
    /\ UNCHANGED <<disk, mem, requests, issues, expired, failures>>

\* ... and after it, or for another resource, the end of the grant's refresh token.
Reuse(i, t) ==
    /\ at[i] = "cleaned" /\ t \notin mem[i].refresh /\ mem[i].used[t] # 0
    /\ LET g == grant[t]
           active == mem[i].refresh \cap OfGrant(g) IN
       IF active = {} THEN UNCHANGED <<disk, mem, answers, failures>>
       ELSE \/ /\ Saves(i, DropRefresh(mem[i], active), grant)
               /\ ended' = ended \cup {g} /\ UNCHANGED <<handed, revoked>>
            \/ SaveFails(i, mem[i]) /\ UNCHANGED answers
    /\ Answers(i)
    /\ UNCHANGED <<requests, issues, expired>>

\* revoke, by any token of the grant; no cleanup() first.  A failed save puts
\* the grant's records back.
Revoke(i, t) ==
    /\ at[i] = "idle"
    /\ t \in mem[i].access \cup mem[i].refresh \/ mem[i].used[t] # 0
    /\ \/ /\ Saves(i, Drop(mem[i], OfGrant(grant[t])), grant)
          /\ revoked' = revoked \cup {grant[t]} /\ UNCHANGED <<handed, ended>>
       \/ SaveFails(i, mem[i]) /\ UNCHANGED answers
    /\ UNCHANGED <<at, requests, issues, expired>>

\* validateAccessToken, and every request that is refused.
Decline(i) ==
    /\ at[i] = "cleaned"
    /\ Answers(i)
    /\ UNCHANGED <<disk, mem, requests, issues, expired, answers, failures>>

-----------------------------------------------------------------------------
(* Instances and time                                                      *)

\* The first load; when it fails the server runs on without any record.
Boot(i) ==
    /\ at[i] = "down"
    /\ scenario.overlap \/ \A o \in Instances : at[o] = "down"
    /\ at' = [at EXCEPT ![i] = "idle"]
    /\ \/ /\ disk' = Unexpired(disk)
          /\ mem' = [mem EXCEPT ![i] = [access |-> disk'.access, refresh |-> disk'.refresh,
                                        used |-> disk'.used, gone |-> Nothing]]
          /\ UNCHANGED failures
       \/ scenario.load /\ StoreThrows /\ UNCHANGED <<disk, mem>>
    /\ UNCHANGED <<requests, issues, expired, answers>>

\* The process ends or is killed; nothing is saved then.
Stop(i) ==
    /\ at[i] # "down"
    /\ at' = [at EXCEPT ![i] = "down"]
    /\ mem' = [mem EXCEPT ![i] = Empty]
    /\ flow' = [r \in Requests |-> IF server[r] = {i} THEN "spent" ELSE flow[r]]
    /\ server' = [r \in Requests |-> server[r] \ {i}]
    /\ UNCHANGED <<disk, issues, expired, answers, failures>>

\* An access token lives 12 hours and a refresh token 30 days.
Expire ==
    /\ \/ /\ expired.access < issued /\ expired.access < scenario.expired
          /\ expired' = [expired EXCEPT !.access = @ + 1]
       \/ /\ expired.refresh < expired.access
          /\ expired' = [expired EXCEPT !.refresh = @ + 1]
    /\ UNCHANGED <<disk, mem, at, requests, issues, answers, failures>>

-----------------------------------------------------------------------------

Next ==
    /\ UNCHANGED scenario
    /\ \/ \E i \in Instances :
             \/ Boot(i) \/ Stop(i) \/ Cleanup(i) \/ Decline(i)
             \/ \E r \in Requests :
                   Authorize(i, r) \/ CompleteLogin(i, r) \/ ExchangeCode(i, r)
             \/ \E t \in Tokens : Refresh(i, t) \/ Replay(i, t) \/ Reuse(i, t) \/ Revoke(i, t)
       \/ Expire

Spec == Init /\ [][Next]_vars

-----------------------------------------------------------------------------
(* Properties                                                              *)

\* An access token a client holds stays valid across restarts, failed saves and
\* saves of other instances until it expires or its grant is revoked
\* (saveOAuthState's union, "a controlled process restart does not invalidate").
HandedSurvives ==
    \A t \in handed : t > expired.access /\ grant[t] \notin revoked => t \in disk.access

\* A grant that a client holds a token of keeps exactly one refresh token in the
\* store, through rotations that fail half-way and overlapping instances
\* (token's rollback, the merge's resolution).
GrantKeepsRefresh ==
    \A t \in handed :
        t > expired.refresh /\ grant[t] \notin revoked \cup ended =>
            \E r \in disk.refresh : disk.refresh \cap OfGrant(grant[t]) = {r}

\* One server at a time, which could load the store: between requests its Maps are
\* the store's, up to what has expired, also after a save that failed (the rollbacks).
MemoryMatchesDisk ==
    \A i \in Instances : at[i] = "idle" /\ ~scenario.overlap /\ ~scenario.load =>
        Unexpired([access |-> mem[i].access, refresh |-> mem[i].refresh,
                   used |-> mem[i].used]) = Unexpired(disk)

\* One server at a time: a revoked grant has no record any more and one that was
\* ended no refresh token, in no restart to come (the tombstones of the merge).
EndedStaysEnded ==
    ~scenario.overlap => \A i \in Instances : \A t \in Tokens :
        /\ grant[t] \in revoked =>
              /\ t \notin disk.access \cup disk.refresh \cup mem[i].access \cup mem[i].refresh
              /\ disk.used[t] = 0 /\ mem[i].used[t] = 0
        /\ grant[t] \in ended => t \notin disk.refresh \cup mem[i].refresh

\* One server at a time: a client that holds the refresh token t of a grant that
\* goes on gets either a rotation or, if its last answer was lost, that answer.
ClientCanGoOn ==
    \A t \in handed :
        ~scenario.overlap /\ t > expired.refresh /\ grant[t] \notin revoked \cup ended =>
            t \in disk.refresh \/ disk.used[t] # 0
=============================================================================
