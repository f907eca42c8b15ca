---------------------------- MODULE AgentGateway ----------------------------
(***************************************************************************)
(* The way of a mutating request through the API server: the invite gate,  *)
(* agent authentication, the API key gate, the two rate limits, the trust  *)
(* gate and the body checks, up to ExchangeService; and the calls of the   *)
(* administrator that create agents and change their status and trust.     *)
(*                                                                         *)
(* Authentication awaits the database; everything after it, up to the call *)
(* of placeOrder, runs without an await and is one step.  Rate limits live *)
(* in the memory of the process.  A token of the per-market bucket is cut  *)
(* into UnverifiedInterval parts, so that both refill rates are integers   *)
(* per unit of time.                                                       *)
(***************************************************************************)
EXTENDS Integers, FiniteSets

CONSTANTS
    Agents, NoAgent,     \* agents, one key each; a request without an agent key
    Markets, NoMarket,   \* market ids; a body without one
    Calls,               \* connections: each serves one request after the other
    Workloads,           \* settings: is INVITE_SECRET set, and what clients send
    FirstProfile,        \* FirstProfile[a]: the profile before the first request
    TrustedIds,          \* AGENT_RATE_LIMIT_TRUSTED_IDS
    UnverifiedInterval,  \* AGENT_UNVERIFIED_ORDER_INTERVAL_SEC
    OrdersPerMin,        \* AGENT_RATE_LIMIT_ORDERS_PER_MIN
    MinSpacing,          \* AGENT_RATE_LIMIT_MIN_SPACING_MS
    Refill,              \* REFILL_MS
    StartingBalance,     \* AGENT_STARTING_BALANCE
    LargeBalance,        \* opening balance of the system account
    LastTime             \* bound of the clock

Status == {"ACTIVE", "SUSPENDED"}
TrustTier == {"UNVERIFIED", "VERIFIED", "TRUSTED"}
NoTier == "NONE"
Profile == [exists : BOOLEAN, status : Status, tier : TrustTier, lookup : BOOLEAN]

\* key: whose X-Agent-Key is sent; invite: a valid X-Invite-Code; admin: the admin key
\* as bearer; sound: the body passes the handler's checks; agent: whom it is about.
Request == [kind : {"order", "cancel", "valuation", "create", "trust", "patch"},
            key : Agents \cup {NoAgent}, invite : BOOLEAN, admin : BOOLEAN,
            market : Markets \cup {NoMarket}, sound : BOOLEAN, agent : Agents \cup {NoAgent}]

NoRequest == [kind |-> "valuation", key |-> NoAgent, invite |-> FALSE, admin |-> FALSE,
              market |-> NoMarket, sound |-> FALSE, agent |-> NoAgent]

ASSUME GatewayAssumption ==
    /\ IsFiniteSet(Agents) /\ NoAgent \notin Agents
    /\ Workloads \subseteq [inviteSecret : BOOLEAN, sends : [Calls -> SUBSET Request]]
    /\ FirstProfile \in [Agents -> Profile]
    /\ {UnverifiedInterval, OrdersPerMin, MinSpacing, Refill} \subseteq Nat \ {0}
    /\ {StartingBalance, LargeBalance, LastTime} \subseteq Nat

VARIABLES
    workload,       \* the setting of this behaviour
    now,            \* Date.now(), in units of the model
    wentBack,       \* the clock has been set back once
    profile,        \* table agent_profiles
    bucket,         \* per agent and market: [tokens, last] of tokenBucket.ts
    window,         \* per agent: [tokens, refilled, ordered] of agentRateLimit.ts
    call,           \* the request each connection serves, or its last answer
    reserve,        \* balance of the system account
    marketHint,     \* history: the last per-market retry hint, [at, tier], until used
    windowHint,     \* history: the last hint of the other limit, [at, limit], until used
    passed          \* history: times at which an agent passed the second limit

limitVars == <<bucket, window, marketHint, windowHint, passed>>
clockVars == <<now, wentBack>>
vars == <<workload, clockVars, profile, limitVars, call, reserve>>

InFlight == {"lookup", "scanning", "migrating", "authenticated", "creating", "funding"}
Answers == {"none", "placed", "cancelled", "served", "invite_required", "suspended", "invalid_key",
            "api_key_required", "agent_required", "market_limited", "rate_limited", "not_trusted",
            "bad_request", "admin_refused"}

\* A request under way: the trust tier authentication found, the balance of the reserve
\* a creation has read, and, as history, whether the agent was at some moment of the
\* call active and trusted, or suspended.
Idle(answer) == [pc |-> answer, request |-> NoRequest, tier |-> NoTier, seen |-> 0,
                 wasTrusted |-> FALSE, wasSuspended |-> FALSE]

AgentOf(c) == call[c].request.key
IsAgent(c) == call[c].tier # NoTier
IsTrusted(p) == p.exists /\ p.status = "ACTIVE" /\ p.tier = "TRUSTED"
IsSuspended(p) == p.exists /\ p.status = "SUSPENDED"

NoHint == [at |-> -1]

\* A bucket that is not there yet acts as one that is full and was never used.
FullBucket == [tokens |-> UnverifiedInterval, last |-> 0]
FullWindow == [tokens |-> OrdersPerMin, refilled |-> -Refill, ordered |-> -MinSpacing]

Init ==
    /\ workload \in Workloads
    /\ now = 0
    /\ wentBack = FALSE
    /\ profile = FirstProfile
    /\ bucket = [a \in Agents |-> [m \in Markets |-> FullBucket]]
    /\ window = [a \in Agents |-> FullWindow]
    /\ call = [c \in Calls |-> Idle("none")]
    /\ reserve = LargeBalance
    /\ marketHint = [a \in Agents |-> [m \in Markets |-> NoHint]]
    /\ windowHint = [a \in Agents |-> NoHint]
    /\ passed = [a \in Agents |-> {}]

\* The request goes on, or is answered and the connection free.
Goto(c, label) == call' = [call EXCEPT ![c].pc = label]
Answer(c, answer) == call' = [call EXCEPT ![c] = Idle(answer)]

-----------------------------------------------------------------------------
(* The gates before the routes *)

\* The invite gate lets /api/agents through, not /api/admin.
InviteRefuses(q) ==
    workload.inviteSecret /\ q.kind \notin {"create", "trust"} /\ ~q.invite

Refuse(c, q) ==
    /\ call[c].pc \notin InFlight
    /\ InviteRefuses(q)
    /\ Answer(c, "invite_required")
    /\ UNCHANGED <<workload, clockVars, profile, limitVars, reserve>>

\* A key that is not an agent's counts as none: authentication is passed by.
Arrive(c, q) ==
    /\ call[c].pc \notin InFlight
    /\ ~InviteRefuses(q)
    /\ call' = [call EXCEPT ![c] =
            [Idle(IF q.key = NoAgent THEN "authenticated" ELSE "lookup") EXCEPT
                !.request = q,
                !.wasTrusted = q.key \in Agents /\ IsTrusted(profile[q.key]),
                !.wasSuspended = q.key \in Agents /\ IsSuspended(profile[q.key])]]
    /\ UNCHANGED <<workload, clockVars, profile, limitVars, reserve>>

\* Authentication of c found profile p: what it has read is used from here on.
Identified(c, p, label) == call' = [call EXCEPT ![c].pc = label, ![c].tier = p.tier]

\* The indexed lookup.
Lookup(c) ==
    LET p == profile[AgentOf(c)]
        found == p.exists /\ p.lookup
    IN  /\ call[c].pc = "lookup"
        /\ \/ found /\ p.status = "ACTIVE" /\ Identified(c, p, "authenticated")
           \/ found /\ p.status # "ACTIVE" /\ Answer(c, "suspended")
           \/ ~found /\ Goto(c, "scanning")
        /\ UNCHANGED <<workload, clockVars, profile, limitVars, reserve>>

\* Mutants of LegacyMatch: the status, or the absence of a lookup, is not asked for.
LegacyMatchAnyStatus(p) == p.exists /\ ~p.lookup
LegacyMatchMigrated(p) == p.exists /\ p.status = "ACTIVE" /\ p.lookup

\* The legacy scan reads active profiles without a lookup.
LegacyMatch(p) == p.exists /\ p.status = "ACTIVE" /\ ~p.lookup

LegacyScan(c) ==
    LET p == profile[AgentOf(c)]
    IN  /\ call[c].pc = "scanning"
        /\ \/ LegacyMatch(p) /\ Identified(c, p, "migrating")
           \/ ~LegacyMatch(p) /\ Answer(c, "invalid_key")
        /\ UNCHANGED <<workload, clockVars, profile, limitVars, reserve>>

\* The lookup is stored; a failure to do so is ignored.
Migrate(c) ==
    /\ call[c].pc = "migrating"
    /\ \E stored \in BOOLEAN :
        profile' = [profile EXCEPT ![AgentOf(c)].lookup = @ \/ stored]
    /\ Goto(c, "authenticated")
    /\ UNCHANGED <<workload, clockVars, limitVars, reserve>>

ApiKeyRefuses(c) == ~workload.inviteSecret /\ ~IsAgent(c)

\* The request has passed the gates and reaches the routes.
AtRoute(c, kind) ==
    call[c].pc = "authenticated" /\ ~ApiKeyRefuses(c) /\ call[c].request.kind = kind

RefuseApiKey(c) ==
    /\ call[c].pc = "authenticated"
    /\ ApiKeyRefuses(c)
    /\ Answer(c, "api_key_required")
    /\ UNCHANGED <<workload, clockVars, profile, limitVars, reserve>>

-----------------------------------------------------------------------------
(* The rate limits *)

Least(i, j) == IF i < j THEN i ELSE j

\* Mutant of CeilDiv: rounded down.
FloorDiv(n, d) == n \div d

CeilDiv(n, d) == (n + d - 1) \div d

\* Parts of a token that are added per unit of time.
RefillRate(t) == IF t = "UNVERIFIED" THEN 1 ELSE UnverifiedInterval

TokensNow(a, m, t) ==
    Least(UnverifiedInterval, bucket[a][m].tokens + (now - bucket[a][m].last) * RefillRate(t))

\* The per-market limit is for agents, with a market, outside the list of exempt ones.
MarketLimitApplies(c) ==
    IsAgent(c) /\ call[c].request.market # NoMarket /\ AgentOf(c) \notin TrustedIds

PassesMarketLimit(c) ==
    MarketLimitApplies(c) => TokensNow(AgentOf(c), call[c].request.market, call[c].tier) >= UnverifiedInterval

\* tryConsume of tokenBucket.ts: refill, then take a token or answer when one is there.
TakeMarketToken(c) ==
    LET a == AgentOf(c)
        m == call[c].request.market
        tokens == TokensNow(a, m, call[c].tier)
    IN  IF ~MarketLimitApplies(c) THEN UNCHANGED <<bucket, marketHint>>
        ELSE /\ bucket' = [bucket EXCEPT ![a][m] =
                    [tokens |-> IF PassesMarketLimit(c) THEN tokens - UnverifiedInterval ELSE tokens,
                     last |-> now]]
             /\ marketHint' = [marketHint EXCEPT ![a][m] =
                    IF PassesMarketLimit(c) THEN NoHint
                    ELSE [at |-> now + CeilDiv(UnverifiedInterval - tokens, RefillRate(call[c].tier)),
                          tier |-> call[c].tier]]

\* getOrCreateBucket: a window that is over is opened again, full.
WindowNow(a) ==
    IF now - window[a].refilled >= Refill
    THEN [window[a] EXCEPT !.tokens = OrdersPerMin, !.refilled = now] ELSE window[a]

Spaced(a) == now - window[a].ordered >= MinSpacing

\* Mutant of PassesWindow: only the spacing is kept.
PassesWindowSpaced(c) == IsAgent(c) => Spaced(AgentOf(c))

PassesWindow(c) == IsAgent(c) => Spaced(AgentOf(c)) /\ WindowNow(AgentOf(c)).tokens > 0

\* tryConsume of agentRateLimit.ts; the spacing is looked at before the tokens.
TakeWindowToken(c) ==
    LET a == AgentOf(c)
        w == WindowNow(a)
    IN  IF ~IsAgent(c) THEN UNCHANGED <<window, windowHint, passed>>
        ELSE /\ window' = [window EXCEPT ![a] =
                    IF PassesWindow(c) THEN [w EXCEPT !.tokens = @ - 1, !.ordered = now] ELSE w]
             /\ windowHint' = [windowHint EXCEPT ![a] =
                    CASE PassesWindow(c) -> NoHint
                      [] ~PassesWindow(c) /\ ~Spaced(a)
                            -> [at |-> w.ordered + MinSpacing, limit |-> "spacing"]
                      [] OTHER -> [at |-> w.refilled + Refill, limit |-> "tokens"]]
             /\ passed' = IF PassesWindow(c) THEN [passed EXCEPT ![a] = @ \cup {now}] ELSE passed

-----------------------------------------------------------------------------
(* Orders, cancellations and valuations *)

NotTrusted(c) == IsAgent(c) /\ call[c].tier # "TRUSTED"

\* POST /orders.  A token taken is not given back when a later check refuses.
PlaceOrder(c) ==
    /\ AtRoute(c, "order")
    /\ TakeMarketToken(c)
    /\ IF PassesMarketLimit(c) THEN TakeWindowToken(c)
       ELSE UNCHANGED <<window, windowHint, passed>>
    /\ Answer(c, IF ~PassesMarketLimit(c) THEN "market_limited"
                 ELSE IF ~PassesWindow(c) THEN "rate_limited"
                 ELSE IF NotTrusted(c) THEN "not_trusted"
                 ELSE IF ~call[c].request.sound THEN "bad_request" ELSE "placed")
    /\ UNCHANGED <<workload, clockVars, profile, reserve>>

\* DELETE /orders/:id has the trust gate and no limit.
CancelOrder(c) ==
    /\ AtRoute(c, "cancel")
    /\ Answer(c, IF NotTrusted(c) THEN "not_trusted"
                 ELSE IF ~call[c].request.sound THEN "bad_request" ELSE "cancelled")
    /\ UNCHANGED <<workload, clockVars, profile, limitVars, reserve>>

\* POST /auction/valuations is for agents of any tier.
SubmitValuation(c) ==
    /\ AtRoute(c, "valuation")
    /\ Answer(c, IF IsAgent(c) THEN "served" ELSE "agent_required")
    /\ UNCHANGED <<workload, clockVars, profile, limitVars, reserve>>

-----------------------------------------------------------------------------
(* The administrator *)

RefuseAdmin(c) ==
    /\ \E kind \in {"create", "trust", "patch"} : AtRoute(c, kind)
    /\ ~call[c].request.admin
    /\ Answer(c, "admin_refused")
    /\ UNCHANGED <<workload, clockVars, profile, limitVars, reserve>>

\* A profile found is updated; calls under way are told to the history.
ChangeProfile(c, newStatus, newTier) ==
    LET a == call[c].request.agent
    IN  /\ call[c].request.admin
        /\ profile' = IF profile[a].exists
                      THEN [profile EXCEPT ![a].status = newStatus, ![a].tier = newTier]
                      ELSE profile
        /\ call' = [d \in Calls |->
                IF d = c THEN Idle("served")
                ELSE IF call[d].pc \in InFlight /\ AgentOf(d) = a
                THEN [call[d] EXCEPT !.wasTrusted = @ \/ IsTrusted(profile'[a]),
                                     !.wasSuspended = @ \/ IsSuspended(profile'[a])]
                ELSE call[d]]
        /\ UNCHANGED <<workload, clockVars, limitVars, reserve>>

\* PATCH /agents/:id/trust, and the same by account.
PatchTrust(c) ==
    /\ AtRoute(c, "trust")
    /\ \E t \in TrustTier : ChangeProfile(c, profile[call[c].request.agent].status, t)

\* PATCH /admin/agents/:id writes the fields that are given.
PatchAgent(c) ==
    /\ AtRoute(c, "patch")
    /\ \E s \in Status, t \in TrustTier : ChangeProfile(c, s, t)

\* A new id: no profile has it, nor one that a call under way creates.
Fresh(a) ==
    /\ a \in Agents /\ ~profile[a].exists
    /\ \A c \in Calls : call[c].pc \in {"creating", "funding"} => call[c].request.agent # a

\* POST /agents: the account and the profile, unseen until the commit.
CreateAgent(c) ==
    /\ AtRoute(c, "create")
    /\ call[c].request.admin
    /\ Fresh(call[c].request.agent)
    /\ Goto(c, "creating")
    /\ UNCHANGED <<workload, clockVars, profile, limitVars, reserve>>

\* postJournal of the starting balance reads the system account.
ReadReserve(c) ==
    /\ call[c].pc = "creating"
    /\ call' = [call EXCEPT ![c].pc = "funding", ![c].seen = reserve]
    /\ UNCHANGED <<workload, clockVars, profile, limitVars, reserve>>

\* Mutant of DebitReserve: the system account is debited twice.
DebitReserveTwice(seen) == seen - 2 * StartingBalance

\* The absolute balance that is written, from the one that was read.
DebitReserve(seen) == seen - StartingBalance

CommitAgent(c) ==
    /\ call[c].pc = "funding"
    /\ reserve' = DebitReserve(call[c].seen)
    /\ profile' = [profile EXCEPT ![call[c].request.agent] =
            [exists |-> TRUE, status |-> "ACTIVE", tier |-> "UNVERIFIED", lookup |-> TRUE]]
    /\ Answer(c, "served")
    /\ UNCHANGED <<workload, clockVars, limitVars>>

-----------------------------------------------------------------------------
(* The clock and the process *)

Tick ==
    /\ now < LastTime
    /\ now' = now + 1
    /\ UNCHANGED <<workload, wentBack, profile, limitVars, call, reserve>>

\* The host's clock is corrected.
ClockSetBack ==
    /\ ~wentBack /\ now > 0
    /\ now' = now - 1
    /\ wentBack' = TRUE
    /\ UNCHANGED <<workload, profile, limitVars, call, reserve>>

\* Buckets are lost, requests under way too, and an open transaction is rolled back.
Restart ==
    /\ call' = [c \in Calls |-> Idle("none")]
    /\ bucket' = [a \in Agents |-> [m \in Markets |-> FullBucket]]
    /\ window' = [a \in Agents |-> FullWindow]
    /\ marketHint' = [a \in Agents |-> [m \in Markets |-> NoHint]]
    /\ windowHint' = [a \in Agents |-> NoHint]
    /\ passed' = [a \in Agents |-> {}]
    /\ UNCHANGED <<workload, clockVars, profile, reserve>>

Serve(c) ==
    \/ \E q \in workload.sends[c] : Refuse(c, q) \/ Arrive(c, q)
    \/ Lookup(c) \/ LegacyScan(c) \/ Migrate(c) \/ RefuseApiKey(c)
    \/ PlaceOrder(c) \/ CancelOrder(c) \/ SubmitValuation(c)
    \/ RefuseAdmin(c) \/ PatchTrust(c) \/ PatchAgent(c)
    \/ CreateAgent(c) \/ ReadReserve(c) \/ CommitAgent(c)

Next == Tick \/ ClockSetBack \/ Restart \/ \E c \in Calls : Serve(c)

Spec == Init /\ [][Next]_vars

-----------------------------------------------------------------------------
(* Properties that hold *)

Answered(c, answer) == call[c].pc \in InFlight /\ call'[c].pc = answer

\* Status and tier are read before other awaits and used after them: an order or a
\* cancellation of an agent is accepted only if the agent was active and trusted at
\* some moment after the request arrived; one of nobody's, only by invitation.
AcceptedWereTrusted ==
    [][\A c \in Calls : Answered(c, "placed") \/ Answered(c, "cancelled") =>
            \/ call[c].wasTrusted
            \/ AgentOf(c) = NoAgent /\ workload.inviteSecret /\ call[c].request.invite]_vars

\* A retry hint is a promise, whatever was tried in between, if the tier is the same,
\* and if the clock was set back.  The per-market limit passes at the time it named.
\* A hint of the second limit for its window is kept in full; one for the spacing
\* promises the spacing alone: the window may still be empty.
HintHonoured ==
    \A a \in Agents :
        /\ \A m \in Markets :
            marketHint[a][m] # NoHint /\ now >= marketHint[a][m].at
                => TokensNow(a, m, marketHint[a][m].tier) >= UnverifiedInterval
        /\ windowHint[a] # NoHint /\ now >= windowHint[a].at
                => Spaced(a) /\ (windowHint[a].limit = "tokens" => WindowNow(a).tokens > 0)

\* The orders of agent a that passed the second limit within Refill from t.
InSpan(a, t) == {s \in passed[a] : t <= s /\ s < t + Refill}

\* The second limit counts in windows that open at the first call after they are due,
\* one that is refused for its spacing too: no span of Refill sees more than two
\* windows' orders, nor more than the spacing lets through.
WindowBound ==
    \A a \in Agents :
        /\ \A t \in 0..LastTime : Cardinality(InSpan(a, t)) <= 2 * OrdersPerMin
        /\ \A s, u \in passed[a] : s = u \/ s - u >= MinSpacing \/ u - s >= MinSpacing

\* The key of an agent that is there and not suspended is refused only when another
\* request of the agent stored the lookup between this one's two searches, or the agent
\* was created between them: the next request finds it.
RefusedWhileMigrating ==
    [][\A c \in Calls :
            Answered(c, "invalid_key") /\ ~call[c].wasSuspended /\ profile[AgentOf(c)].exists
                => profile[AgentOf(c)].lookup]_vars

Created == {a \in Agents : profile[a].exists /\ ~FirstProfile[a].exists}

\* Concurrent creations read and write the reserve without a lock: a debit may be lost,
\* never invented, so the reserve does not fall below what its journal says.
ReserveCoversJournal == reserve >= LargeBalance - StartingBalance * Cardinality(Created)
=============================================================================
