----------------------------- MODULE ToolCalls -----------------------------
(***************************************************************************)
(* What a tools/call must pass before its tool runs:                       *)
(* src/src/runtime/tools_call_handler.js with decision_runtime_policy.js,  *)
(* destructive_tool_confirmation.js, mrtr_extension.js,                    *)
(* consent_runtime_policy.js, state_handle_prototype.js and                *)
(* rate_limit_policy.js.                                                   *)
(*                                                                         *)
(* Up to the start of the tool a call is handled in one piece, without an  *)
(* await: each action is one call.  Two tools ask first.  "approve" stands *)
(* for a tool of consent mode mrtr_human_approval: the first call gets a   *)
(* handle, the second one brings it back with the human's answer, and the  *)
(* policy gate, the rate limit and the arguments come before the handle.   *)
(* "delete" is cbm_delete_project: its handle is looked at by the decision *)
(* already, before all of these.  Each tool has a store of its own, in     *)
(* memory.  A handle is numbered in the order of issue.                    *)
(*                                                                         *)
(* Decisions on the tool, the profile and the scopes of the server change  *)
(* nothing and are left out; so are tools that ask nothing, which are only *)
(* counted.  What a tool does once it is started is for other modules.     *)
(*                                                                         *)
(* A definition with a suffix, such as Spend_Peeked, is a deliberately     *)
(* wrong variant of the definition after it.  No action uses it: it is put *)
(* in place of the right one to see a property fail.                       *)
(***************************************************************************)
EXTENDS SlidingWindow

CONSTANTS
    Clients,       \* authenticated clients
    Args,          \* arguments of a call: a project, with what else it says
    Limit,         \* calls of a client to a tool in a window
    Window,        \* the length of the window
    Ttl,           \* of each tool, how long a handle is good for
    MaxRecords,    \* of each tool, how many handles its store holds
    MaxIssues      \* bound: handles issued

ASSUME LimitAssumption == Limit \in Nat \ {0} /\ Window \in Nat \ {0}
ASSUME StoreAssumption == /\ Ttl \in [{"approve", "delete"} -> Nat \ {0}]
                          /\ MaxRecords \in [{"approve", "delete"} -> Nat \ {0}]
                          /\ MaxIssues \in Nat

Tools == {"approve", "delete"}
Scopes == {"some", "all"}    \* scopes of a token, "some" among "all"
Handles == 1..MaxIssues
Keys == Clients \X Tools     \* the limiter's key: client and tool
To(tool) == [tool : {tool}, client : Clients, arg : Args, scopes : Scopes]
Requests == To("approve") \cup To("delete")

VARIABLES
    store,    \* of each tool its handles, oldest first
    issued,   \* of each handle the call it was issued to, and when
    entries,  \* of each key the limiter's entries
    starts,   \* of each handle the calls that started their tool with it
    passed,   \* of each key the times of its admissions in the last window
    since     \* how many handles had been issued when the server started

limits == <<entries, passed>>
handling == <<store, issued, starts>>
callVars == <<handling, limits, since>>

Issues == [by : Requests, at : Nat]
Records == [handle : Handles, expires : Nat, status : {"active", "revoked", "expired"}]

CallsTypeOK ==
    /\ now \in Nat
    /\ store \in [Tools -> Seq(Records)]
    /\ issued \in Seq(Issues)
    /\ entries \in [Keys -> Seq(Nat)]
    /\ starts \in [Handles -> Seq(Requests)]
    /\ passed \in [Keys -> Seq(Nat)]
    /\ since \in 0..Len(issued)
    /\ \A t \in Tools : Len(store[t]) <= MaxRecords[t]

CallsInit ==
    /\ store = [t \in Tools |-> <<>>]
    /\ issued = <<>>
    /\ starts = [h \in Handles |-> <<>>]
    /\ entries = [k \in Keys |-> <<>>]
    /\ passed = [k \in Keys |-> <<>>]
    /\ since = 0

-----------------------------------------------------------------------------
(* The rate limiter                                                        *)

Fitting(k) == Fits(entries[k], Limit, Window)

Admit(k) ==
    /\ Fitting(k)
    /\ entries' = [entries EXCEPT ![k] = Recorded(@, Window)]
    /\ passed' = [passed EXCEPT ![k] = Append(@, now)]

Refuse(k) == ~Fitting(k) /\ UNCHANGED limits

-----------------------------------------------------------------------------
(* The store of handles                                                    *)

Kept(tool) == {store[tool][i].handle : i \in DOMAIN store[tool]}

Revoked(records) ==
    {records[i].handle : i \in {j \in DOMAIN records : records[j].status = "revoked"}}

RecordOf(tool, h) ==
    LET i == CHOOSE i \in DOMAIN store[tool] : store[tool][i].handle = h
    IN  store[tool][i]

Mark(tool, h, status) ==
    [store EXCEPT ![tool] =
        [i \in DOMAIN @ |-> IF @[i].handle = h THEN [@[i] EXCEPT !.status = status] ELSE @[i]]]

Covers(held, needed) == held = "all" \/ needed = "some"

\* create(): at the limit the oldest handle is dropped, whatever its status.
Create_Unbounded(tool, expires) ==
    [store EXCEPT ![tool] =
        Append(@, [handle |-> Len(issued) + 1, expires |-> expires, status |-> "active"])]

Create(tool, expires) ==
    LET old == store[tool]
        room == IF Len(old) >= MaxRecords[tool] THEN Tail(old) ELSE old
    IN  [store EXCEPT ![tool] =
            Append(room, [handle |-> Len(issued) + 1, expires |-> expires, status |-> "active"])]

Issue(r) ==
    /\ Len(issued) < MaxIssues
    /\ issued' = Append(issued, [by |-> r, at |-> now])
    /\ store' = Create(r.tool, now + Ttl[r.tool])
    /\ UNCHANGED starts

\* read(): what it says of a handle that the caller of r brings.
Reading(r, h) ==
    IF h \notin Kept(r.tool) THEN "not_found"
    ELSE IF RecordOf(r.tool, h).status # "active" THEN "revoked"
    ELSE IF RecordOf(r.tool, h).expires <= now THEN "expired"
    ELSE IF issued[h].by.client # r.client THEN "unauthorized"
    ELSE IF ~Covers(r.scopes, issued[h].by.scopes) THEN "scope_denied"
    ELSE "ok"

\* A handle that is not good stays as it is, but for the mark that it expired.
Unread(r, h) ==
    /\ store' = IF Reading(r, h) = "expired" THEN Mark(r.tool, h, "expired") ELSE store
    /\ UNCHANGED <<issued, starts>>

\* destroy(), of a handle that was just read.
Spend_Peeked(r, h) == store' = store

Spend_Deletes(r, h) ==
    store' = [store EXCEPT ![r.tool] = SelectSeq(@, LAMBDA e : e.handle # h)]

Spend(r, h) == store' = Mark(r.tool, h, "revoked")

Start(r, h) == starts' = [starts EXCEPT ![h] = Append(@, r)]

\* The answers were malformed, or "decline", "cancel" or not confirmed; the
\* arguments of a deletion were not valid; the client has gone.
NoStart == UNCHANGED starts

-----------------------------------------------------------------------------
(* Calls                                                                   *)

\* A call refused by the limiter.
Limited(c) ==
    /\ Refuse(<<c, "approve">>)
    /\ UNCHANGED <<handling, since>>

\* A call whose arguments are not valid, which brings only one of requestState
\* and inputResponses, or whose client cannot ask a human: it was counted.
Unusable(c) ==
    /\ Admit(<<c, "approve">>)
    /\ UNCHANGED <<handling, since>>

\* evaluate() without a state: input_required.
Ask(r) ==
    /\ Admit(<<r.client, r.tool>>)
    /\ Issue(r)
    /\ UNCHANGED since

\* evaluate() with a state and answers.  Other arguments, or other scopes, than
\* the handle was issued for cost the handle.
Bound(r, h) == r.arg = issued[h].by.arg /\ r.scopes = issued[h].by.scopes

Answer(r, h) ==
    /\ Admit(<<r.client, r.tool>>)
    /\ IF Reading(r, h) = "ok"
       THEN /\ Spend(r, h)
            /\ UNCHANGED issued
            /\ \/ Bound(r, h) /\ Start(r, h)
               \/ NoStart
       ELSE Unread(r, h)
    /\ UNCHANGED since

\* A deletion that is not confirmed: refused with a handle, and not counted.
Propose(r) ==
    /\ Issue(r)
    /\ UNCHANGED <<limits, since>>

\* A confirmed deletion.  The handle is spent by the decision, so that the limiter
\* and the check of the arguments refuse a call whose handle is gone.
Confirm(r, h) ==
    /\ IF Reading(r, h) # "ok"
       THEN Unread(r, h) /\ UNCHANGED limits
       ELSE IF r.arg # issued[h].by.arg
       THEN UNCHANGED <<handling, limits>>
       ELSE /\ Spend(r, h)
            /\ UNCHANGED issued
            /\ \/ Refuse(<<r.client, r.tool>>) /\ NoStart
               \/ Admit(<<r.client, r.tool>>) /\ (Start(r, h) \/ NoStart)
    /\ UNCHANGED since

\* The server ends, and with it what it keeps in memory.
Forget ==
    /\ store' = [t \in Tools |-> <<>>]
    /\ entries' = [k \in Keys |-> <<>>]
    /\ passed' = [k \in Keys |-> <<>>]
    /\ since' = Len(issued)
    /\ UNCHANGED <<issued, starts>>

Issued(tool) == {h \in 1..Len(issued) : issued[h].by.tool = tool}

\* What has left the window is of no more interest.
Aged == passed' = [k \in Keys |-> LiveAt(passed[k], Window, now')]

CallsNext ==
    \/ \E c \in Clients : Limited(c) \/ Unusable(c)
    \/ \E r \in To("approve") : Ask(r) \/ \E h \in Issued("approve") : Answer(r, h)
    \/ \E r \in To("delete") : Propose(r) \/ \E h \in Issued("delete") : Confirm(r, h)

-----------------------------------------------------------------------------
(* Properties                                                              *)

\* A handle starts its tool at most once, whatever is sent again, and only for the
\* client and the arguments it was issued for, with scopes that cover those of the
\* first call, and before it expires.  An approval is spent only by a call of its
\* client that the limiter admitted and counted: a refused call, or another client's,
\* leaves it.
StartsRightly(h) ==
    starts'[h] # starts[h] =>
        LET asked == issued[h].by  ran == starts'[h][1] IN
        /\ Len(starts'[h]) = 1
        /\ ran.client = asked.client /\ ran.arg = asked.arg
        /\ Covers(ran.scopes, asked.scopes)
        /\ now < issued[h].at + Ttl[asked.tool]

SpentByAdmitted(h) ==
    h \in Revoked(store'["approve"]) \ Revoked(store["approve"]) =>
        Admit(<<issued[h].by.client, "approve">>)

ApprovedOnce == [][\A h \in Handles : StartsRightly(h) /\ SpentByAdmitted(h)]_callVars

\* A handle is forgotten only after as many later ones as the store holds.
ForgottenAreOld ==
    \A h \in (since + 1)..Len(issued) :
        LET tool == issued[h].by.tool
            later == {l \in (h + 1)..Len(issued) : issued[l].by.tool = tool}
        IN  h \in Kept(tool) \/ Cardinality(later) >= MaxRecords[tool]
=============================================================================
