----------------------------- MODULE AuthServer -----------------------------
(***************************************************************************)
(* The authorization server with its clients: registration and the pruning *)
(* of clients in src/src/auth/oauth21_authorization_server.js, the table   *)
(* of clients in oauth21_persistence_store.js and the prune at start,      *)
(* oauth21_startup_prune.js, around the grants of TokenGrants.             *)
(*                                                                         *)
(* A client registers and is kept in memory and in the table, or it is     *)
(* identified by the URL of a document and kept nowhere.  A client that is *)
(* old and owns nothing is dropped: from memory when another one           *)
(* registers, from the table when a server starts, once a day.  That prune *)
(* also deletes the tokens of every client that is not in the table.       *)
(*                                                                         *)
(* A used code stops to refer to its client when it is used, not with the  *)
(* next cleanup(); fetching a document takes no time.                      *)
(*                                                                         *)
(* A definition with a suffix is a deliberately wrong variant of the       *)
(* definition after it.                                                    *)
(***************************************************************************)
EXTENDS TokenGrants

CONSTANTS
    Clients,        \* clients that register
    RegistryLimit,  \* clientRegistryLimit
    Registries      \* of each scenario: clients that register, documents, and whether
                    \* the prune at start is enabled

ASSUME RegistryAssumption ==
    /\ RegistryLimit \in Nat \ {0}
    /\ \A s \in Scenarios : /\ Registries[s].clients \subseteq Clients
                            /\ Registries[s].documents \cap Clients = {}
                            /\ Registries[s].prune \in BOOLEAN

VARIABLES
    known,    \* the clients in the memory of each instance
    row,      \* of each client: none, fresh, due (updated 14 days ago), gone
    old,      \* clients registered 14 days ago
    dayOver,  \* the last prune at start was more than a day ago
    by,       \* the client of each authorization request
    client,   \* the client of each grant
    swept     \* grants whose tokens a prune at start deleted

registry == <<known, row, old, dayOver, by, client, swept>>

Registry == Registries[scenario]
Nobody == "nobody"
Registered == {c \in Clients : row[c] \in {"fresh", "due"}}

AuthInit ==
    /\ Init
    /\ known = [i \in Instances |-> {}]
    /\ row = [c \in Clients |-> "none"]
    /\ old = {} /\ dayOver = TRUE
    /\ by = [r \in Requests |-> Nobody]
    /\ client = [g \in Tokens |-> Nobody]
    /\ swept = {}

-----------------------------------------------------------------------------

HasRecord(d, t) == t \in d.access \cup d.refresh \/ d.used[t] # 0
Owners(d) == {client[grant[t]] : t \in {o \in Tokens : HasRecord(d, o)}}

InUse_TokensOnly(i) == Owners(mem[i])

\* collectReferencedClientIds: clients with a token, a request or a code here.
InUse(i) == Owners(mem[i]) \cup {by[r] : r \in {o \in Requests : server[o] = {i}}}

\* registerClient: dead clients are dropped from memory, not from the table; the save
\* renews the rows of all that are left.  When there is no room, or the save throws,
\* everything is as before.
Register(i, c) ==
    /\ at[i] = "idle" /\ c \in Registry.clients /\ row[c] = "none"
    /\ LET kept == known[i] \ (old \ InUse(i)) IN
       /\ Cardinality(kept) < RegistryLimit
       /\ \/ /\ known' = [known EXCEPT ![i] = kept \cup {c}]
             /\ row' = [k \in Clients |-> IF k \in known'[i] THEN "fresh" ELSE row[k]]
             /\ UNCHANGED failures
          \/ StoreThrows /\ UNCHANGED <<known, row>>
    /\ UNCHANGED <<old, dayOver, by, client, swept>>
    /\ UNCHANGED <<disk, mem, at, requests, issues, expired, answers>>

\* runOAuth21StartupPrune, one transaction before a server loads: first the tokens of
\* clients that have no row, then the rows that are due and own no token.  It counts
\* such a grant as revoked.
StartupPrune(i) ==
    /\ at[i] = "down" /\ Registry.prune /\ dayOver
    /\ scenario.overlap \/ \A o \in Instances : at[o] = "down"
    /\ LET orphans == {t \in Tokens : HasRecord(disk, t) /\ client[grant[t]] \notin Registered}
           grants == {grant[t] : t \in orphans} IN
       /\ disk' = [access |-> disk.access \ orphans, refresh |-> disk.refresh \ orphans,
                   used |-> [t \in Tokens |-> IF t \in orphans THEN 0 ELSE disk.used[t]]]
       /\ swept' = swept \cup grants
       /\ revoked' = revoked \cup grants
    /\ row' = [c \in Clients |-> IF row[c] = "due" /\ c \notin Owners(disk')
                                 THEN "gone" ELSE row[c]]
    /\ dayOver' = FALSE
    /\ UNCHANGED <<known, old, by, client>>
    /\ UNCHANGED <<mem, at, requests, issues, expired, handed, ended, failures>>

\* 14 days after a client registered, and after its row was written.
Age(c) ==
    /\ row[c] = "fresh"
    /\ IF c \in old THEN row' = [row EXCEPT ![c] = "due"] /\ UNCHANGED old
       ELSE old' = old \cup {c} /\ UNCHANGED row
    /\ UNCHANGED <<known, dayOver, by, client, swept>>
    /\ UNCHANGED <<disk, mem, at, requests, issues, expired, answers, failures>>

DayPasses ==
    /\ ~dayOver /\ Registry.prune
    /\ dayOver' = TRUE
    /\ UNCHANGED <<known, row, old, by, client, swept>>
    /\ UNCHANGED <<disk, mem, at, requests, issues, expired, answers, failures>>

-----------------------------------------------------------------------------

\* What a step of the grants does to the clients of requests that are over.
Forgotten == by' = [r \in Requests |-> IF server'[r] = {} THEN Nobody ELSE by[r]]

GrantStep(i) ==
    \/ /\ Boot(i)
       /\ \/ known' = [known EXCEPT ![i] = Registered]
          \/ scenario.load /\ known' = [known EXCEPT ![i] = {}]
       /\ UNCHANGED <<by, client>>
    \/ Stop(i) /\ known' = [known EXCEPT ![i] = {}] /\ Forgotten /\ UNCHANGED client
    \/ \E r \in Requests :
          \/ /\ Authorize(i, r)
             /\ \E c \in known[i] \cup Registry.documents : by' = [by EXCEPT ![r] = c]
             /\ UNCHANGED <<known, client>>
          \/ CompleteLogin(i, r) /\ UNCHANGED <<known, by, client>>
          \/ /\ ExchangeCode(i, r)
             /\ client' = [client EXCEPT ![issued'] = by[r]]
             /\ Forgotten /\ UNCHANGED known
    \/ (Cleanup(i) \/ Decline(i)) /\ Forgotten /\ UNCHANGED <<known, client>>
    \/ /\ \E t \in Tokens : Refresh(i, t) \/ Replay(i, t) \/ Reuse(i, t) \/ Revoke(i, t)
       /\ UNCHANGED <<known, by, client>>

AuthNext ==
    /\ UNCHANGED scenario
    /\ \/ \E i \in Instances :
             \/ GrantStep(i) /\ UNCHANGED <<row, old, dayOver, swept>>
             \/ \E c \in Clients : Register(i, c)
             \/ StartupPrune(i)
       \/ Expire /\ UNCHANGED registry
       \/ \E c \in Clients : Age(c)
       \/ DayPasses

AuthSpec == AuthInit /\ [][AuthNext]_<<vars, registry>>

-----------------------------------------------------------------------------
(* Properties                                                              *)

\* A client that registered stays usable for as long as it owns anything.  Its server
\* knows it while an authorization of it is under way, whichever clients are dropped
\* for others to register.  With one server at a time its row outlives its tokens,
\* so that no prune at start, which deletes what has no row, ever deletes them.
ClientsOutliveTokens ==
    /\ \A r \in Requests, i \in Instances :
          server[r] = {i} /\ by[r] \in Clients => by[r] \in known[i]
    /\ ~scenario.overlap =>
          /\ Owners(disk) \cap Clients \subseteq Registered
          /\ \A g \in swept : client[g] \notin Clients
=============================================================================
