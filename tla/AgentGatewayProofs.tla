-------------------------- MODULE AgentGatewayProofs --------------------------
(***************************************************************************)
(* What the gates let through, for any agents, markets, limits and         *)
(* requests, however calls and changes of profiles interleave: trust, keys *)
(* that are refused, the reserve, retry hints and windows.                 *)
(***************************************************************************)
EXTENDS AgentGateway, FiniteSetTheorems, TLAPS

CallRecord == [pc : InFlight \cup Answers, request : Request, tier : TrustTier \cup {NoTier},
               seen : Int, wasTrusted : BOOLEAN, wasSuspended : BOOLEAN]

GateTypes ==
    /\ workload \in Workloads
    /\ profile \in [Agents -> Profile]
    /\ call \in [Calls -> CallRecord]
    /\ reserve \in Int

\* A request under way passed the invite gate; its history knows of every moment its
\* agent was trusted, and the tier that was read is such a moment; without a tier it
\* is nobody's, once authentication is over.
Fits(c) ==
    /\ ~InviteRefuses(call[c].request)
    /\ AgentOf(c) \in Agents /\ IsTrusted(profile[AgentOf(c)]) => call[c].wasTrusted
    /\ call[c].tier = "TRUSTED" => call[c].wasTrusted
    /\ call[c].pc \in {"lookup", "scanning", "migrating"} => AgentOf(c) \in Agents
    /\ call[c].pc \notin {"lookup", "scanning"} /\ call[c].tier = NoTier => AgentOf(c) = NoAgent

GateInv == GateTypes /\ \A c \in Calls : call[c].pc \in InFlight => Fits(c)

LEMMA IdleType ==
    ASSUME NEW answer \in InFlight \cup Answers
    PROVE  Idle(answer) \in CallRecord
BY DEF Idle, CallRecord, NoRequest, Request, NoTier

LEMMA GateInit == Init => GateInv
<1> SUFFICES ASSUME Init
             PROVE  GateInv
  OBVIOUS
<1>1. Idle("none") \in CallRecord
  BY IdleType DEF Answers
<1>2. GateTypes
  BY <1>1, GatewayAssumption DEF Init, GateTypes
<1>3. \A c \in Calls : call[c].pc \notin InFlight
  BY DEF Init, Idle, InFlight
<1> QED
  BY <1>2, <1>3 DEF GateInv

\* A step of one connection under which no agent becomes trusted.
LEMMA OneCall ==
    ASSUME GateInv, NEW c \in Calls, NEW x \in CallRecord, call' = [call EXCEPT ![c] = x],
           workload' = workload, profile' \in [Agents -> Profile], reserve' \in Int,
           \A a \in Agents : IsTrusted(profile'[a]) => IsTrusted(profile[a]),
           x.pc \in InFlight => Fits(c)'
    PROVE  GateInv'
<1>1. GateTypes'
  BY DEF GateInv, GateTypes
<1>2. ASSUME NEW d \in Calls, d # c, call'[d].pc \in InFlight
      PROVE  Fits(d)'
  <2>1. call'[d] = call[d]
    BY <1>2 DEF GateInv, GateTypes
  <2>2. Fits(d)
    BY <1>2, <2>1 DEF GateInv
  <2> QED
    BY <2>1, <2>2 DEF Fits, InviteRefuses, AgentOf
<1>3. call'[c] = x
  BY DEF GateInv, GateTypes
<1> QED
  BY <1>1, <1>2, <1>3 DEF GateInv

\* A step that answers, which the history needs nothing of.
LEMMA AnswerKeeps ==
    ASSUME GateInv, NEW c \in Calls, NEW answer \in Answers, Answer(c, answer),
           workload' = workload, profile' \in [Agents -> Profile], reserve' \in Int,
           \A a \in Agents : IsTrusted(profile'[a]) => IsTrusted(profile[a])
    PROVE  GateInv'
<1>1. Idle(answer) \in CallRecord
  BY IdleType
<1>2. Idle(answer).pc \notin InFlight
  BY DEF Idle, InFlight, Answers
<1> QED
  BY <1>1, <1>2, OneCall DEF Answer

LEMMA AuthenticationKeeps ==
    ASSUME GateInv, NEW c \in Calls, Lookup(c) \/ LegacyScan(c) \/ Migrate(c)
    PROVE  GateInv'
<1> DEFINE p == profile[AgentOf(c)]
<1>1. call[c].pc \in InFlight /\ Fits(c) /\ AgentOf(c) \in Agents /\ workload' = workload /\ reserve' = reserve
  BY DEF Lookup, LegacyScan, Migrate, GateInv, Fits, InFlight
<1>2. p \in Profile /\ call[c] \in CallRecord /\ reserve \in Int /\ profile \in [Agents -> Profile]
  BY <1>1 DEF GateInv, GateTypes
<1>3. ASSUME profile' = profile, p.exists, p.status = "ACTIVE",
             NEW label \in {"migrating", "authenticated"}, Identified(c, p, label)
      PROVE  GateInv'
  <2> DEFINE x == [call[c] EXCEPT !.pc = label, !.tier = p.tier]
  <2>1. call' = [call EXCEPT ![c] = x]
    BY <1>3 DEF Identified, GateInv, GateTypes
  <2>2. x \in CallRecord /\ x.pc = label /\ x.tier = p.tier /\ x.request = call[c].request
        /\ x.wasTrusted = call[c].wasTrusted
    BY <1>2, <1>3 DEF CallRecord, Profile, InFlight
  <2>3. call'[c] = x
    BY <2>1 DEF GateInv, GateTypes
  <2>4. p.tier # NoTier /\ (p.tier = "TRUSTED" => IsTrusted(p))
    BY <1>2, <1>3 DEF Profile, NoTier, TrustTier, IsTrusted
  <2> HIDE DEF x
  <2>5. Fits(c)'
    BY <1>1, <1>3, <2>2, <2>3, <2>4 DEF Fits, InviteRefuses, AgentOf
  <2> QED
    BY <1>1, <1>2, <1>3, <2>1, <2>2, <2>5, OneCall
<1>4. ASSUME Goto(c, "scanning"), profile' = profile, call[c].pc = "lookup"
      PROVE  GateInv'
  <2> DEFINE x == [call[c] EXCEPT !.pc = "scanning"]
  <2>1. call' = [call EXCEPT ![c] = x] /\ call'[c] = x
    BY <1>4 DEF Goto, GateInv, GateTypes
  <2>2. x \in CallRecord
    BY <1>2 DEF CallRecord, InFlight
  <2>3. Fits(c)'
    BY <1>1, <1>2, <1>4, <2>1 DEF Fits, InviteRefuses, AgentOf, CallRecord
  <2> QED
    BY <1>1, <1>2, <1>4, <2>1, <2>2, <2>3, OneCall
<1>5. CASE Migrate(c)
  <2> DEFINE x == [call[c] EXCEPT !.pc = "authenticated"]
  <2>1. call' = [call EXCEPT ![c] = x] /\ call'[c] = x /\ call[c].pc = "migrating"
    BY <1>5 DEF Migrate, Goto, GateInv, GateTypes
  <2>2. x \in CallRecord
    BY <1>2 DEF CallRecord, InFlight
  <2>3. PICK stored \in BOOLEAN : profile' = [profile EXCEPT ![AgentOf(c)].lookup = @ \/ stored]
    BY <1>5 DEF Migrate
  <2>4. profile' \in [Agents -> Profile]
        /\ \A a \in Agents : IsTrusted(profile'[a]) => IsTrusted(profile[a])
    BY <1>1, <1>2, <2>3 DEF Profile, IsTrusted
  <2>5. Fits(c)'
    BY <1>1, <1>2, <2>1, <2>4 DEF Fits, InviteRefuses, AgentOf, CallRecord
  <2> QED
    BY <1>1, <1>2, <2>1, <2>2, <2>4, <2>5, OneCall
<1>6. ASSUME NEW answer \in {"suspended", "invalid_key"}, Answer(c, answer), profile' = profile
      PROVE  GateInv'
  BY <1>1, <1>2, <1>6, AnswerKeeps DEF Answers
<1>7. CASE Lookup(c)
  BY <1>3, <1>4, <1>6, <1>7 DEF Lookup
<1>8. CASE LegacyScan(c)
  BY <1>3, <1>6, <1>8 DEF LegacyScan, LegacyMatch
<1> QED
  BY <1>5, <1>7, <1>8

LEMMA ArriveKeeps ==
    ASSUME GateInv, NEW c \in Calls, NEW q \in workload.sends[c], Arrive(c, q)
    PROVE  GateInv'
<1> DEFINE label == IF q.key = NoAgent THEN "authenticated" ELSE "lookup"
           x == [Idle(label) EXCEPT
                    !.request = q,
                    !.wasTrusted = q.key \in Agents /\ IsTrusted(profile[q.key]),
                    !.wasSuspended = q.key \in Agents /\ IsSuspended(profile[q.key])]
<1>1. q \in Request
  BY GatewayAssumption DEF GateInv, GateTypes
<1>2. Idle(label) \in CallRecord
  BY IdleType DEF InFlight
<1>3. x \in CallRecord /\ x.pc = label /\ x.tier = NoTier /\ x.request = q
      /\ x.wasTrusted = (q.key \in Agents /\ IsTrusted(profile[q.key]))
  BY <1>1, <1>2 DEF CallRecord, Idle
<1>4. call' = [call EXCEPT ![c] = x] /\ UNCHANGED <<workload, profile, reserve>> /\ ~InviteRefuses(q)
  BY DEF Arrive
<1>5. call'[c] = x
  BY <1>4 DEF GateInv, GateTypes
<1>6. q.key \in Agents \cup {NoAgent} /\ NoTier # "TRUSTED"
  BY <1>1 DEF Request, NoTier
<1> HIDE DEF x
<1>7. Fits(c)'
  BY <1>3, <1>4, <1>5, <1>6 DEF Fits, InviteRefuses, AgentOf
<1> QED
  BY <1>3, <1>4, <1>7, OneCall DEF GateInv, GateTypes

\* The calls of the administrator that change profiles tell the requests under way.
LEMMA ChangeKeeps ==
    ASSUME GateInv, NEW c \in Calls, NEW s \in Status, NEW t \in TrustTier, ChangeProfile(c, s, t)
    PROVE  GateInv'
<1> DEFINE a == call[c].request.agent
<1>1. profile' \in [Agents -> Profile]
  BY DEF ChangeProfile, GateInv, GateTypes, Profile
<1>2. \A b \in Agents : b # a => profile'[b] = profile[b]
  BY DEF ChangeProfile, GateInv, GateTypes
<1>3. ASSUME NEW d \in Calls
      PROVE  call'[d] \in CallRecord /\ (call'[d].pc \in InFlight => Fits(d)')
  <2>0. call[d] \in CallRecord /\ workload' = workload
    BY DEF GateInv, GateTypes, ChangeProfile
  <2>1. CASE d = c
    BY <2>1, IdleType DEF ChangeProfile, Idle, InFlight, Answers
  <2>2. CASE d # c /\ ~(call[d].pc \in InFlight /\ AgentOf(d) = a)
    <3>1. call'[d] = call[d]
      BY <2>2 DEF ChangeProfile
    <3> QED
      BY <1>2, <2>0, <2>2, <3>1 DEF GateInv, Fits, InviteRefuses, AgentOf
  <2>3. CASE d # c /\ call[d].pc \in InFlight /\ AgentOf(d) = a
    <3>1. call'[d] = [call[d] EXCEPT !.wasTrusted = @ \/ IsTrusted(profile'[a]),
                                     !.wasSuspended = @ \/ IsSuspended(profile'[a])]
      BY <2>3 DEF ChangeProfile
    <3>2. /\ call'[d] \in CallRecord
          /\ call'[d].pc = call[d].pc /\ call'[d].request = call[d].request
          /\ call'[d].tier = call[d].tier
          /\ call'[d].wasTrusted = (call[d].wasTrusted \/ IsTrusted(profile'[a]))
      BY <2>0, <3>1 DEF CallRecord
    <3>3. Fits(d)
      BY <2>3 DEF GateInv
    <3> QED
      BY <2>0, <2>3, <3>2, <3>3 DEF Fits, InviteRefuses, AgentOf
  <2> QED
    BY <2>1, <2>2, <2>3
<1>4. call' \in [Calls -> CallRecord]
  BY <1>3 DEF ChangeProfile
<1> QED
  BY <1>1, <1>3, <1>4 DEF GateInv, GateTypes, ChangeProfile

LEMMA CreationKeeps ==
    ASSUME GateInv, NEW c \in Calls, CreateAgent(c) \/ ReadReserve(c) \/ CommitAgent(c)
    PROVE  GateInv'
<1>1. call[c] \in CallRecord /\ profile \in [Agents -> Profile] /\ reserve \in Int
      /\ call[c].pc \in InFlight /\ Fits(c)
  BY DEF GateInv, GateTypes, CreateAgent, AtRoute, ReadReserve, CommitAgent, InFlight
<1>2. ASSUME NEW x \in CallRecord, call' = [call EXCEPT ![c] = x], x.request = call[c].request,
             x.tier = call[c].tier, x.wasTrusted = call[c].wasTrusted, x.pc \in {"creating", "funding"},
             call[c].pc \notin {"lookup", "scanning"}, UNCHANGED <<workload, profile, reserve>>
      PROVE  GateInv'
  <2>1. call'[c] = x
    BY <1>2 DEF GateInv, GateTypes
  <2>2. Fits(c)'
    BY <1>1, <1>2, <2>1 DEF Fits, InviteRefuses, AgentOf
  <2> QED
    BY <1>1, <1>2, <2>2, OneCall
<1>3. CASE CreateAgent(c)
  <2>1. [call[c] EXCEPT !.pc = "creating"] \in CallRecord
    BY <1>1 DEF CallRecord, InFlight
  <2> QED
    BY <1>1, <1>2, <1>3, <2>1 DEF CreateAgent, Goto, AtRoute, CallRecord, GateInv, GateTypes
<1>4. CASE ReadReserve(c)
  <2>1. [call[c] EXCEPT !.pc = "funding", !.seen = reserve] \in CallRecord
    BY <1>1 DEF CallRecord, InFlight
  <2>2. call' = [call EXCEPT ![c] = [call[c] EXCEPT !.pc = "funding", !.seen = reserve]]
    BY <1>4 DEF ReadReserve, GateInv, GateTypes
  <2> QED
    BY <1>1, <1>2, <1>4, <2>1, <2>2 DEF ReadReserve, CallRecord
<1>5. CASE CommitAgent(c)
  <2>1. reserve' \in Int
    BY <1>1, <1>5, GatewayAssumption DEF CommitAgent, DebitReserve, CallRecord
  <2>2. profile' \in [Agents -> Profile]
        /\ \A a \in Agents : IsTrusted(profile'[a]) => IsTrusted(profile[a])
    BY <1>1, <1>5 DEF CommitAgent, Profile, Status, TrustTier, IsTrusted
  <2> QED
    BY <1>5, <2>1, <2>2, AnswerKeeps DEF CommitAgent, Answers
<1> QED
  BY <1>3, <1>4, <1>5

LEMMA GateStep == GateInv /\ [Next]_vars => GateInv'
<1> SUFFICES ASSUME GateInv, [Next]_vars
             PROVE  GateInv'
  OBVIOUS
<1>1. profile \in [Agents -> Profile] /\ reserve \in Int
  BY DEF GateInv, GateTypes
<1>2. ASSUME NEW c \in Calls,
             \/ \E q \in workload.sends[c] : Refuse(c, q)
             \/ RefuseApiKey(c) \/ CancelOrder(c) \/ SubmitValuation(c) \/ RefuseAdmin(c) \/ PlaceOrder(c)
      PROVE  GateInv'
  <2>1. UNCHANGED <<workload, profile, reserve>> /\ \E answer \in Answers : Answer(c, answer)
    BY <1>2 DEF Refuse, RefuseApiKey, CancelOrder, SubmitValuation, RefuseAdmin, PlaceOrder, Answers
  <2> QED
    BY <1>1, <2>1, AnswerKeeps
<1>3. ASSUME NEW c \in Calls, PatchTrust(c)
      PROVE  GateInv'
  <2>1. PICK t \in TrustTier : ChangeProfile(c, profile[call[c].request.agent].status, t)
    BY <1>3 DEF PatchTrust
  <2>2. CASE call[c].request.agent \in Agents
    <3>1. profile[call[c].request.agent].status \in Status
      BY <1>1, <2>2 DEF Profile
    <3> QED
      BY <2>1, <3>1, ChangeKeeps
  <2>3. CASE call[c].request.agent \notin Agents
    <3>1. ChangeProfile(c, "ACTIVE", t)
      BY <1>1, <2>1, <2>3 DEF ChangeProfile
    <3> QED
      BY <3>1, ChangeKeeps DEF Status
  <2> QED
    BY <2>2, <2>3
<1>4. ASSUME NEW c \in Calls, PatchAgent(c)
      PROVE  GateInv'
  BY <1>4, ChangeKeeps DEF PatchAgent
<1>5. CASE Restart
  <2>1. Idle("none") \in CallRecord /\ Idle("none").pc \notin InFlight
    BY IdleType DEF Idle, InFlight, Answers
  <2> QED
    BY <1>5, <2>1 DEF Restart, GateInv, GateTypes
<1>6. CASE Tick \/ ClockSetBack \/ UNCHANGED vars
  BY <1>6 DEF Tick, ClockSetBack, vars, GateInv, GateTypes, Fits, InviteRefuses, AgentOf
<1> QED
  BY <1>2, <1>3, <1>4, <1>5, <1>6, ArriveKeeps, AuthenticationKeeps, CreationKeeps DEF Next, Serve

\* An order or a cancellation gets through only for an agent that was active and
\* trusted while the request was under way, or for an invited request of nobody's.
THEOREM OnlyTrustedTrade == Spec => AcceptedWereTrusted
<1>1. GateInv /\ [Next]_vars =>
        [\A c \in Calls : Answered(c, "placed") \/ Answered(c, "cancelled") =>
            \/ call[c].wasTrusted
            \/ AgentOf(c) = NoAgent /\ workload.inviteSecret /\ call[c].request.invite]_vars
  <2> SUFFICES ASSUME GateInv, Next, NEW c \in Calls, call[c].pc \in InFlight,
                      call'[c].pc \in {"placed", "cancelled"}
               PROVE  \/ call[c].wasTrusted
                      \/ AgentOf(c) = NoAgent /\ workload.inviteSecret /\ call[c].request.invite
    BY DEF Answered
  <2>1. call \in [Calls -> CallRecord]
    BY DEF GateInv, GateTypes
  <2>2. call'[c].pc # call[c].pc /\ call'[c].pc \notin {"none", "served"}
    BY DEF InFlight
  <2>3. PICK d \in Calls : Serve(d)
    BY <2>1, <2>2 DEF Next, Tick, ClockSetBack, Restart, Idle
\* The steps that leave every other connection alone, and where they take their own.
  <2>4. ASSUME \/ \E q \in workload.sends[d] : Refuse(d, q) \/ Arrive(d, q)
               \/ Lookup(d) \/ LegacyScan(d) \/ Migrate(d) \/ RefuseApiKey(d) \/ SubmitValuation(d)
               \/ RefuseAdmin(d) \/ CreateAgent(d) \/ ReadReserve(d) \/ CommitAgent(d)
        PROVE  FALSE
    <3>1. /\ \A e \in Calls \ {d} : call'[e] = call[e]
          /\ call'[d].pc \notin {"placed", "cancelled"}
      <4>1. CASE \/ \E q \in workload.sends[d] : Refuse(d, q)
                 \/ RefuseApiKey(d) \/ SubmitValuation(d) \/ RefuseAdmin(d) \/ CommitAgent(d)
        BY <2>1, <4>1 DEF Refuse, RefuseApiKey, SubmitValuation, RefuseAdmin, CommitAgent, Answer, Idle
      <4>2. CASE \E q \in workload.sends[d] : Arrive(d, q)
        BY <2>1, <4>2 DEF Arrive, Idle
      <4>3. CASE Lookup(d) \/ LegacyScan(d)
        BY <2>1, <4>3 DEF Lookup, LegacyScan, Identified, Goto, Answer, Idle, CallRecord
      <4>4. CASE Migrate(d) \/ CreateAgent(d) \/ ReadReserve(d)
        BY <2>1, <4>4 DEF Migrate, CreateAgent, ReadReserve, Goto, CallRecord
      <4> QED
        BY <2>4, <4>1, <4>2, <4>3, <4>4
    <3> QED
      BY <2>2, <3>1
  <2>5. PlaceOrder(c) \/ CancelOrder(c)
    <3>1. ASSUME NEW s, NEW t, ChangeProfile(d, s, t)
          PROVE  FALSE
      <4>1. \/ call'[c] = Idle("served") \/ call'[c] = call[c]
            \/ \E x, y : call'[c] = [call[c] EXCEPT !.wasTrusted = x, !.wasSuspended = y]
        <5> DEFINE a == call[d].request.agent
                   told == [call[c] EXCEPT !.wasTrusted = @ \/ IsTrusted(profile'[a]),
                                           !.wasSuspended = @ \/ IsSuspended(profile'[a])]
        <5>1. call'[c] = IF c = d THEN Idle("served")
                         ELSE IF call[c].pc \in InFlight /\ AgentOf(c) = a THEN told ELSE call[c]
          BY <3>1 DEF ChangeProfile
        <5> QED
          BY <5>1
      <4>2. call[c] \in CallRecord
        BY <2>1
      <4>3. CASE call'[c] = Idle("served")
        BY <2>2, <4>3 DEF Idle
      <4>4. ASSUME NEW x, NEW y, call'[c] = [call[c] EXCEPT !.wasTrusted = x, !.wasSuspended = y]
            PROVE  FALSE
        <5>1. call'[c].pc = call[c].pc
          BY <4>2, <4>4 DEF CallRecord
        <5> QED
          BY <2>2, <5>1
      <4> QED
        BY <2>2, <4>1, <4>3, <4>4
    <3>2. PlaceOrder(d) \/ CancelOrder(d)
      BY <2>3, <2>4, <3>1 DEF Serve, PatchTrust, PatchAgent
    <3>3. c = d
      BY <2>1, <2>2, <3>2 DEF PlaceOrder, CancelOrder, Answer
    <3> QED
      BY <3>2, <3>3
  <2>6. ~NotTrusted(c) /\ ~ApiKeyRefuses(c) /\ call[c].pc = "authenticated"
        /\ call[c].request.kind \in {"order", "cancel"}
    BY <2>1, <2>5 DEF PlaceOrder, CancelOrder, AtRoute, Answer, Idle
  <2>7. Fits(c)
    BY DEF GateInv
  <2> QED
    BY <2>6, <2>7 DEF Fits, NotTrusted, IsAgent, ApiKeyRefuses, InviteRefuses
<1> QED
  BY <1>1, GateInit, GateStep, PTL DEF Spec, AcceptedWereTrusted

-----------------------------------------------------------------------------
(* Refused keys *)

\* A request under way that the history does not call suspended is of an agent that is
\* not suspended now.
Unsuspended ==
    \A c \in Calls :
        call[c].pc \in {"lookup", "scanning"} /\ AgentOf(c) \in Agents /\ ~call[c].wasSuspended
            => ~IsSuspended(profile[AgentOf(c)])

LEMMA UnsuspendedInit == Init => Unsuspended
BY DEF Init, Unsuspended, Idle

LEMMA UnsuspendedStep == GateInv /\ Unsuspended /\ [Next]_vars => Unsuspended'
<1> SUFFICES ASSUME GateInv, Unsuspended, [Next]_vars,
                    NEW c \in Calls, call'[c].pc \in {"lookup", "scanning"},
                    AgentOf(c)' \in Agents, ~call'[c].wasSuspended
             PROVE  ~IsSuspended(profile[AgentOf(c)])'
  BY DEF Unsuspended
<1>1. call \in [Calls -> CallRecord] /\ profile \in [Agents -> Profile]
  BY DEF GateInv, GateTypes
<1>2. CASE Tick \/ ClockSetBack \/ UNCHANGED vars
  BY <1>2 DEF Tick, ClockSetBack, vars, Unsuspended, AgentOf
<1>3. CASE Restart
  BY <1>3 DEF Restart, Idle
\* A step of one connection after which no agent is suspended that was not.
<1>4. ASSUME NEW d \in Calls, NEW x, call' = [call EXCEPT ![d] = x],
             \A a \in Agents : IsSuspended(profile'[a]) => IsSuspended(profile[a]),
             d = c => \/ x.pc \notin {"lookup", "scanning"}
                      \/ ~IsSuspended(profile[x.request.key])
      PROVE  ~IsSuspended(profile[AgentOf(c)])'
  <2>1. CASE d = c
    BY <1>1, <1>4, <2>1 DEF AgentOf
  <2>2. CASE d # c
    <3>1. call'[c] = call[c]
      BY <1>1, <1>4, <2>2
    <3> QED
      BY <1>4, <3>1 DEF Unsuspended, AgentOf
  <2> QED
    BY <2>1, <2>2
<1>5. ASSUME NEW d \in Calls, NEW q \in workload.sends[d], Arrive(d, q)
      PROVE  ~IsSuspended(profile[AgentOf(c)])'
  <2> DEFINE x == [Idle(IF q.key = NoAgent THEN "authenticated" ELSE "lookup") EXCEPT
                    !.request = q,
                    !.wasTrusted = q.key \in Agents /\ IsTrusted(profile[q.key]),
                    !.wasSuspended = q.key \in Agents /\ IsSuspended(profile[q.key])]
  <2>1. call' = [call EXCEPT ![d] = x] /\ profile' = profile
    BY <1>5 DEF Arrive
  <2>2. x.request = q /\ x.wasSuspended = (q.key \in Agents /\ IsSuspended(profile[q.key]))
    BY DEF Idle
  <2>3. d = c => call'[c] = x
    BY <1>1, <2>1
  <2> HIDE DEF x
  <2>4. d = c => ~IsSuspended(profile[x.request.key])
    BY <2>2, <2>3 DEF AgentOf
  <2> QED
    BY <1>4, <2>1, <2>4
<1>6. ASSUME NEW d \in Calls, Lookup(d) \/ LegacyScan(d)
      PROVE  ~IsSuspended(profile[AgentOf(c)])'
  <2>1. profile' = profile /\ call[d].pc \in {"lookup", "scanning"} /\ call[d] \in CallRecord
    BY <1>1, <1>6 DEF Lookup, LegacyScan
  <2>2. CASE \E answer : Answer(d, answer) /\ answer \in Answers
    BY <1>4, <2>1, <2>2 DEF Answer, Idle, Answers
  <2>3. CASE \E p, label : Identified(d, p, label) /\ label \in {"migrating", "authenticated"}
    <3>1. PICK p, label : Identified(d, p, label) /\ label \in {"migrating", "authenticated"}
      BY <2>3
    <3>2. call' = [call EXCEPT ![d] = [call[d] EXCEPT !.pc = label, !.tier = p.tier]]
      BY <1>1, <3>1 DEF Identified
    <3>3. [call[d] EXCEPT !.pc = label, !.tier = p.tier].pc = label
      BY <2>1 DEF CallRecord
    <3> QED
      BY <1>4, <2>1, <3>1, <3>2, <3>3
  <2>4. CASE Goto(d, "scanning")
    <3> DEFINE x == [call[d] EXCEPT !.pc = "scanning"]
    <3>1. call' = [call EXCEPT ![d] = x]
      BY <1>1, <2>4 DEF Goto
    <3>2. x.request = call[d].request /\ x.wasSuspended = call[d].wasSuspended
      BY <2>1 DEF CallRecord
    <3>3. d = c => call'[c] = x
      BY <1>1, <3>1
    <3> HIDE DEF x
    <3>4. d = c => ~IsSuspended(profile[x.request.key])
      BY <2>1, <3>2, <3>3 DEF Unsuspended, AgentOf
    <3> QED
      BY <1>4, <2>1, <3>1, <3>4
  <2> QED
    BY <1>6, <2>2, <2>3, <2>4 DEF Lookup, LegacyScan, Answers
<1>7. ASSUME NEW d \in Calls, Migrate(d) \/ CreateAgent(d) \/ ReadReserve(d)
      PROVE  ~IsSuspended(profile[AgentOf(c)])'
  <2>1. call[d] \in CallRecord /\ call[d].pc \in InFlight /\ Fits(d)
    BY <1>1, <1>7 DEF Migrate, CreateAgent, ReadReserve, AtRoute, InFlight, GateInv
  <2>2. PICK label \in {"authenticated", "creating", "funding"}, n \in Int :
            call' = [call EXCEPT ![d] = [call[d] EXCEPT !.pc = label, !.seen = n]]
    <3>1. call[d].seen \in Int /\ [call[d] EXCEPT !.seen = call[d].seen] = call[d] /\ reserve \in Int
      BY <2>1 DEF CallRecord, GateInv, GateTypes
    <3>2. ASSUME NEW label \in {"authenticated", "creating", "funding"}, Goto(d, label)
          PROVE  call' = [call EXCEPT ![d] = [call[d] EXCEPT !.pc = label, !.seen = call[d].seen]]
      BY <1>1, <2>1, <3>1, <3>2 DEF Goto, CallRecord
    <3>3. CASE Migrate(d) \/ CreateAgent(d)
      BY <3>1, <3>2, <3>3 DEF Migrate, CreateAgent
    <3>4. CASE ReadReserve(d)
      BY <1>1, <3>1, <3>4 DEF ReadReserve
    <3> QED
      BY <1>7, <3>3, <3>4
  <2>3. [call[d] EXCEPT !.pc = label, !.seen = n].pc = label
    BY <2>1 DEF CallRecord
  <2>4. \A a \in Agents : IsSuspended(profile'[a]) => IsSuspended(profile[a])
    BY <1>1, <1>7 DEF Migrate, CreateAgent, ReadReserve, IsSuspended, Profile
  <2> QED
    BY <1>4, <2>2, <2>3, <2>4
<1>8. ASSUME NEW d \in Calls,
             \/ \E q \in workload.sends[d] : Refuse(d, q)
             \/ RefuseApiKey(d) \/ CancelOrder(d) \/ SubmitValuation(d) \/ RefuseAdmin(d)
             \/ PlaceOrder(d) \/ CommitAgent(d)
      PROVE  ~IsSuspended(profile[AgentOf(c)])'
  <2>1. \E answer \in Answers : Answer(d, answer)
    BY <1>8 DEF Refuse, RefuseApiKey, CancelOrder, SubmitValuation, RefuseAdmin, PlaceOrder,
                CommitAgent, Answers
  <2>2. \A a \in Agents : IsSuspended(profile'[a]) => IsSuspended(profile[a])
    BY <1>1, <1>8 DEF Refuse, RefuseApiKey, CancelOrder, SubmitValuation, RefuseAdmin, PlaceOrder,
                      CommitAgent, IsSuspended, Profile
  <2> QED
    BY <1>4, <2>1, <2>2 DEF Answer, Idle, Answers
<1>9. ASSUME NEW d \in Calls, NEW s, NEW t, ChangeProfile(d, s, t)
      PROVE  ~IsSuspended(profile[AgentOf(c)])'
  <2> DEFINE a == call[d].request.agent
             told == [call[c] EXCEPT !.wasTrusted = @ \/ IsTrusted(profile'[a]),
                                     !.wasSuspended = @ \/ IsSuspended(profile'[a])]
  <2>1. call'[c] = IF c = d THEN Idle("served")
                   ELSE IF call[c].pc \in InFlight /\ AgentOf(c) = a THEN told ELSE call[c]
    BY <1>9 DEF ChangeProfile
  <2>2. c # d
    BY <2>1 DEF Idle
  <2>3. CASE call[c].pc \in InFlight /\ AgentOf(c) = a
    <3>1. call'[c].wasSuspended = (call[c].wasSuspended \/ IsSuspended(profile'[a]))
          /\ call'[c].request = call[c].request
      BY <1>1, <2>1, <2>2, <2>3 DEF CallRecord
    <3> QED
      BY <2>3, <3>1 DEF AgentOf
  <2>4. CASE ~(call[c].pc \in InFlight /\ AgentOf(c) = a)
    <3>1. call'[c] = call[c] /\ AgentOf(c) # a
      BY <2>1, <2>2, <2>4 DEF InFlight
    <3>2. profile'[AgentOf(c)] = profile[AgentOf(c)]
      BY <1>1, <1>9, <3>1 DEF ChangeProfile, AgentOf
    <3> QED
      BY <3>1, <3>2 DEF Unsuspended, AgentOf
  <2> QED
    BY <2>3, <2>4
<1> QED
  BY <1>2, <1>3, <1>5, <1>6, <1>7, <1>8, <1>9 DEF Next, Serve, PatchTrust, PatchAgent

\* Only the scan answers that the key is not valid.
LEMMA OnlyTheScan ==
    ASSUME GateInv, Next, NEW c \in Calls, Answered(c, "invalid_key")
    PROVE  LegacyScan(c)
<1>1. call \in [Calls -> CallRecord] /\ call[c] \in CallRecord
  BY DEF GateInv, GateTypes
<1>2. call'[c].pc = "invalid_key" /\ call[c].pc # "invalid_key"
  BY DEF Answered, InFlight
<1>3. PICK d \in Calls : Serve(d)
  BY <1>1, <1>2 DEF Next, Tick, ClockSetBack, Restart, Idle
<1>4. ASSUME NEW x, call' = [call EXCEPT ![d] = x], x.pc # "invalid_key"
      PROVE  FALSE
  BY <1>1, <1>2, <1>4
<1>5. ASSUME NEW s, NEW t, ChangeProfile(d, s, t)
      PROVE  FALSE
  <2> DEFINE a == call[d].request.agent
             told == [call[c] EXCEPT !.wasTrusted = @ \/ IsTrusted(profile'[a]),
                                     !.wasSuspended = @ \/ IsSuspended(profile'[a])]
  <2>1. call'[c] = IF c = d THEN Idle("served")
                   ELSE IF call[c].pc \in InFlight /\ AgentOf(c) = a THEN told ELSE call[c]
    BY <1>5 DEF ChangeProfile
  <2>2. told.pc = call[c].pc
    BY <1>1 DEF CallRecord
  <2> HIDE DEF told
  <2> QED
    BY <1>2, <2>1, <2>2 DEF Idle
<1>6. ASSUME NEW answer, answer # "invalid_key", Answer(d, answer)
      PROVE  FALSE
  <2>1. Idle(answer).pc # "invalid_key"
    BY <1>6 DEF Idle
  <2> QED
    BY <1>4, <1>6, <2>1 DEF Answer
<1>7. ~(\/ \E q \in workload.sends[d] : Refuse(d, q)
        \/ RefuseApiKey(d) \/ PlaceOrder(d) \/ CancelOrder(d) \/ SubmitValuation(d)
        \/ RefuseAdmin(d) \/ CommitAgent(d))
  <2> SUFFICES ASSUME \/ \E q \in workload.sends[d] : Refuse(d, q)
                      \/ RefuseApiKey(d) \/ PlaceOrder(d) \/ CancelOrder(d) \/ SubmitValuation(d)
                      \/ RefuseAdmin(d) \/ CommitAgent(d)
               PROVE  \E answer : answer # "invalid_key" /\ Answer(d, answer)
    BY <1>6
  <2> QED
    BY DEF Refuse, RefuseApiKey, PlaceOrder, CancelOrder, SubmitValuation, RefuseAdmin, CommitAgent
<1>8. ASSUME NEW q \in workload.sends[d], Arrive(d, q)
      PROVE  FALSE
  BY <1>1, <1>2, <1>8 DEF Arrive, Idle
<1>9. ASSUME NEW label \in InFlight, Goto(d, label)
      PROVE  FALSE
  BY <1>1, <1>2, <1>9 DEF Goto, InFlight, CallRecord
<1>10. ASSUME NEW p, NEW label \in InFlight, Identified(d, p, label)
       PROVE  FALSE
  BY <1>1, <1>2, <1>10 DEF Identified, InFlight, CallRecord
<1>11. ~Lookup(d)
  BY <1>6, <1>9, <1>10 DEF Lookup, InFlight
<1>12. ~Migrate(d) /\ ~CreateAgent(d)
  BY <1>9 DEF Migrate, CreateAgent, InFlight
<1>13. ~ReadReserve(d)
  BY <1>1, <1>2 DEF ReadReserve, CallRecord
<1>14. LegacyScan(d)
  BY <1>3, <1>5, <1>7, <1>8, <1>11, <1>12, <1>13 DEF Serve, PatchTrust, PatchAgent
<1>15. Answer(d, "invalid_key")
  BY <1>10, <1>14 DEF LegacyScan, InFlight
<1>16. c = d
  BY <1>1, <1>2, <1>15 DEF Answer
<1> QED
  BY <1>14, <1>16

\* A key is refused, of an agent that is there and was not suspended meanwhile, only
\* if the next request will find it.
THEOREM RefusalPasses == Spec => RefusedWhileMigrating
<1>1. GateInv /\ Unsuspended /\ [Next]_vars =>
        [\A c \in Calls :
            Answered(c, "invalid_key") /\ ~call[c].wasSuspended /\ profile[AgentOf(c)].exists
                => profile[AgentOf(c)].lookup]_vars
  <2> SUFFICES ASSUME GateInv, Unsuspended, Next, NEW c \in Calls, Answered(c, "invalid_key"),
                      ~call[c].wasSuspended, profile[AgentOf(c)].exists
               PROVE  profile[AgentOf(c)].lookup
    OBVIOUS
  <2>1. LegacyScan(c)
    BY OnlyTheScan
  <2>2. call[c].pc = "scanning" /\ AgentOf(c) \in Agents
    BY <2>1 DEF LegacyScan, GateInv, Fits, InFlight
  <2>3. ~LegacyMatch(profile[AgentOf(c)])
    BY <2>1, <2>2 DEF LegacyScan, Identified, Answered, GateInv, GateTypes, CallRecord
  <2>4. profile[AgentOf(c)] \in Profile /\ ~IsSuspended(profile[AgentOf(c)])
    BY <2>2 DEF Unsuspended, GateInv, GateTypes
  <2> QED
    BY <2>3, <2>4 DEF LegacyMatch, IsSuspended, Profile, Status
<1> QED
  BY <1>1, GateInit, GateStep, UnsuspendedInit, UnsuspendedStep, PTL DEF Spec, RefusedWhileMigrating

-----------------------------------------------------------------------------
(* The reserve *)

\* What the journals of the agents created so far have left of the reserve.
Left == LargeBalance - StartingBalance * Cardinality(Created)

Creating(c) == call[c].pc \in {"creating", "funding"}

\* The reserve, and what any creation under way has read of it, cover what is left; two
\* creations are never of the same agent, nor is one of an agent that is there; agents
\* are never removed.
ReserveInv ==
    /\ reserve >= Left
    /\ \A c \in Calls : call[c].pc = "funding" => call[c].seen >= Left
    /\ \A c \in Calls : Creating(c) => call[c].request.agent \in Agents
                                       /\ ~profile[call[c].request.agent].exists
    /\ \A c, d \in Calls : c # d /\ Creating(c) /\ Creating(d)
            => call[c].request.agent # call[d].request.agent
    /\ \A a \in Agents : FirstProfile[a].exists => profile[a].exists

LEMMA LeftType == ASSUME NEW S \in SUBSET Agents
                  PROVE  Cardinality(S) \in Nat /\ StartingBalance * Cardinality(S) \in Nat
<1>1. Cardinality(S) \in Nat
  BY GatewayAssumption, FS_Subset, FS_CardinalityType
<1> QED
  BY <1>1, GatewayAssumption

LEMMA ReserveInit == Init => ReserveInv
<1> SUFFICES ASSUME Init
             PROVE  ReserveInv
  OBVIOUS
<1>1. Created = {}
  BY DEF Init, Created
<1>2. Left = LargeBalance
  BY <1>1, FS_EmptySet, GatewayAssumption DEF Left
<1>3. \A c \in Calls : call[c].pc = "none"
  BY DEF Init, Idle
<1> QED
  BY <1>2, <1>3, GatewayAssumption DEF Init, ReserveInv, Creating

\* A step after which every creation under way was under way before.
LEMMA NoNewCreation ==
    ASSUME GateInv, ReserveInv, reserve' = reserve, profile' \in [Agents -> Profile],
           \A a \in Agents : profile'[a].exists = profile[a].exists,
           \A c \in Calls : Creating(c)' => call'[c].request = call[c].request
                                            /\ call'[c].pc = call[c].pc /\ call'[c].seen = call[c].seen
    PROVE  ReserveInv'
<1>1. Created' = Created
  BY DEF Created
<1>2. Left' = Left
  BY <1>1 DEF Left
<1>3. \A c \in Calls : Creating(c)' => Creating(c)
  BY DEF Creating
<1> QED
  BY <1>2, <1>3 DEF ReserveInv, Creating

\* A step of one connection that is not a creation.
LEMMA OtherCall ==
    ASSUME GateInv, ReserveInv, reserve' = reserve, profile' \in [Agents -> Profile],
           \A a \in Agents : profile'[a].exists = profile[a].exists,
           NEW d \in Calls, NEW x, call' = [call EXCEPT ![d] = x], x.pc \notin {"creating", "funding"}
    PROVE  ReserveInv'
<1>1. ASSUME NEW c \in Calls, Creating(c)'
      PROVE  call'[c] = call[c]
  BY <1>1 DEF Creating, GateInv, GateTypes
<1> QED
  BY <1>1, NoNewCreation

LEMMA CreateAgentKeepsReserve ==
    ASSUME GateInv, ReserveInv, NEW c \in Calls, CreateAgent(c)
    PROVE  ReserveInv'
<1>1. call \in [Calls -> CallRecord] /\ call[c] \in CallRecord
  BY DEF GateInv, GateTypes
<1>2. call'[c].pc = "creating" /\ call'[c].request = call[c].request
  BY <1>1 DEF CreateAgent, Goto, CallRecord
<1>3. \A d \in Calls : d # c => call'[d] = call[d]
  BY <1>1 DEF CreateAgent, Goto
<1>4. profile' = profile /\ reserve' = reserve /\ Left' = Left /\ Fresh(call[c].request.agent)
  BY DEF CreateAgent, Left, Created
<1> QED
  BY <1>2, <1>3, <1>4 DEF ReserveInv, Creating, Fresh

LEMMA ReadReserveKeeps ==
    ASSUME GateInv, ReserveInv, NEW c \in Calls, ReadReserve(c)
    PROVE  ReserveInv'
<1>1. call \in [Calls -> CallRecord] /\ call[c] \in CallRecord
  BY DEF GateInv, GateTypes
<1>2. call'[c].pc = "funding" /\ call'[c].request = call[c].request /\ call'[c].seen = reserve
  BY <1>1 DEF ReadReserve, CallRecord
<1>3. \A d \in Calls : d # c => call'[d] = call[d]
  BY <1>1 DEF ReadReserve
<1>4. profile' = profile /\ reserve' = reserve /\ Left' = Left /\ call[c].pc = "creating"
  BY DEF ReadReserve, Left, Created
<1> QED
  BY <1>2, <1>3, <1>4 DEF ReserveInv, Creating

LEMMA CommitAgentKeeps ==
    ASSUME GateInv, ReserveInv, NEW c \in Calls, CommitAgent(c)
    PROVE  ReserveInv'
<1> DEFINE a == call[c].request.agent
<1>1. call \in [Calls -> CallRecord] /\ call[c] \in CallRecord /\ profile \in [Agents -> Profile]
      /\ reserve \in Int
  BY DEF GateInv, GateTypes
<1>2. a \in Agents /\ ~profile[a].exists /\ ~FirstProfile[a].exists
  BY DEF ReserveInv, Creating, CommitAgent
<1>3. profile'[a].exists /\ \A b \in Agents : b # a => profile'[b] = profile[b]
  BY <1>1, <1>2 DEF CommitAgent
<1>4. Created' = Created \cup {a} /\ a \notin Created
  BY <1>2, <1>3 DEF Created
<1>5. Created \in SUBSET Agents /\ IsFiniteSet(Created)
  BY GatewayAssumption, FS_Subset DEF Created
<1>6. Cardinality(Created') = Cardinality(Created) + 1
  BY <1>4, <1>5, FS_AddElement
<1>7. Left' = Left - StartingBalance /\ Left \in Int
  <2> DEFINE n == Cardinality(Created)
  <2>1. n \in Nat /\ StartingBalance * n \in Nat
    BY <1>5, LeftType
  <2>2. StartingBalance * (n + 1) = StartingBalance * n + StartingBalance
    BY <2>1, GatewayAssumption
  <2>3. Left = LargeBalance - StartingBalance * n /\ Left' = LargeBalance - StartingBalance * (n + 1)
    BY <1>6 DEF Left
  <2> HIDE DEF n
  <2> QED
    BY <2>1, <2>2, <2>3, GatewayAssumption
<1>8. reserve' = call[c].seen - StartingBalance /\ call[c].seen >= Left /\ call[c].seen \in Int
  BY <1>1 DEF CommitAgent, DebitReserve, ReserveInv, CallRecord
<1>9. reserve' >= Left'
  BY <1>7, <1>8, GatewayAssumption
<1>10. \A d \in Calls : Creating(d)' => d # c /\ call'[d] = call[d] /\ Creating(d)
  BY <1>1 DEF CommitAgent, Answer, Idle, Creating
<1>11. \A d \in Calls : call'[d].pc = "funding" => call'[d].seen >= Left'
  <2> SUFFICES ASSUME NEW d \in Calls, call'[d].pc = "funding"
               PROVE  call'[d].seen >= Left'
    OBVIOUS
  <2>1. call'[d] = call[d] /\ call[d].seen \in Int
    BY <1>1, <1>10 DEF Creating, CallRecord
  <2> QED
    BY <1>7, <2>1, GatewayAssumption DEF ReserveInv
<1>12. \A d \in Calls : Creating(d)' => call'[d].request.agent \in Agents
                                        /\ ~profile'[call'[d].request.agent].exists
  BY <1>3, <1>10 DEF ReserveInv, Creating, CommitAgent
<1>13. \A d, e \in Calls : d # e /\ Creating(d)' /\ Creating(e)'
            => call'[d].request.agent # call'[e].request.agent
  BY <1>10 DEF ReserveInv
<1>14. \A b \in Agents : FirstProfile[b].exists => profile'[b].exists
  BY <1>2, <1>3 DEF ReserveInv
<1> QED
  BY <1>9, <1>11, <1>12, <1>13, <1>14 DEF ReserveInv

LEMMA ReserveStep == GateInv /\ ReserveInv /\ [Next]_vars => ReserveInv'
<1> SUFFICES ASSUME GateInv, ReserveInv, [Next]_vars
             PROVE  ReserveInv'
  OBVIOUS
<1>1. call \in [Calls -> CallRecord] /\ profile \in [Agents -> Profile]
  BY DEF GateInv, GateTypes
<1>2. CASE Tick \/ ClockSetBack \/ UNCHANGED vars
  BY <1>1, <1>2, NoNewCreation DEF Tick, ClockSetBack, vars
<1>3. CASE Restart
  BY <1>1, <1>3, NoNewCreation DEF Restart, Idle, Creating
<1>4. ASSUME NEW c \in Calls,
             \/ \E q \in workload.sends[c] : Refuse(c, q)
             \/ RefuseApiKey(c) \/ CancelOrder(c) \/ SubmitValuation(c) \/ RefuseAdmin(c) \/ PlaceOrder(c)
      PROVE  ReserveInv'
  <2>1. profile' = profile /\ reserve' = reserve /\ \E answer \in Answers : Answer(c, answer)
    BY <1>4 DEF Refuse, RefuseApiKey, CancelOrder, SubmitValuation, RefuseAdmin, PlaceOrder, Answers
  <2>2. \A answer \in Answers : Idle(answer).pc \notin {"creating", "funding"}
    BY DEF Idle, Answers
  <2> QED
    BY <1>1, <2>1, <2>2, OtherCall DEF Answer
<1>5. ASSUME NEW c \in Calls, NEW q \in workload.sends[c], Arrive(c, q)
      PROVE  ReserveInv'
  <2> DEFINE x == [Idle(IF q.key = NoAgent THEN "authenticated" ELSE "lookup") EXCEPT
                    !.request = q,
                    !.wasTrusted = q.key \in Agents /\ IsTrusted(profile[q.key]),
                    !.wasSuspended = q.key \in Agents /\ IsSuspended(profile[q.key])]
  <2>1. call' = [call EXCEPT ![c] = x] /\ profile' = profile /\ reserve' = reserve
    BY <1>5 DEF Arrive
  <2>2. x.pc \in {"authenticated", "lookup"}
    BY DEF Idle
  <2> HIDE DEF x
  <2> QED
    BY <1>1, <2>1, <2>2, OtherCall
<1>6. ASSUME NEW c \in Calls, Lookup(c) \/ LegacyScan(c) \/ Migrate(c)
      PROVE  ReserveInv'
  <2>1. call[c] \in CallRecord /\ call[c].pc \in {"lookup", "scanning", "migrating"} /\ AgentOf(c) \in Agents
    BY <1>1, <1>6 DEF Lookup, LegacyScan, Migrate, GateInv, Fits, InFlight
  <2>2. /\ reserve' = reserve
        /\ profile' \in [Agents -> Profile]
        /\ \A a \in Agents : profile'[a].exists = profile[a].exists
    <3>1. CASE Lookup(c) \/ LegacyScan(c)
      BY <1>1, <3>1 DEF Lookup, LegacyScan
    <3>2. CASE Migrate(c)
      BY <1>1, <2>1, <3>2 DEF Migrate, Profile
    <3> QED
      BY <1>6, <3>1, <3>2
  <2>3. PICK x : call' = [call EXCEPT ![c] = x] /\ x.pc \notin {"creating", "funding"}
    <3> DEFINE Moved == \E x : call' = [call EXCEPT ![c] = x] /\ x.pc \notin {"creating", "funding"}
    <3>1. ASSUME NEW label \in {"scanning", "authenticated"}, Goto(c, label)
          PROVE  Moved
      <4>1. call' = [call EXCEPT ![c] = [call[c] EXCEPT !.pc = label]]
        BY <1>1, <3>1 DEF Goto
      <4>2. [call[c] EXCEPT !.pc = label].pc = label
        BY <2>1 DEF CallRecord
      <4> QED
        BY <4>1, <4>2
    <3>2. ASSUME NEW p, NEW label \in {"migrating", "authenticated"}, Identified(c, p, label)
          PROVE  Moved
      <4>1. call' = [call EXCEPT ![c] = [call[c] EXCEPT !.pc = label, !.tier = p.tier]]
        BY <1>1, <3>2 DEF Identified
      <4>2. [call[c] EXCEPT !.pc = label, !.tier = p.tier].pc = label
        BY <2>1 DEF CallRecord
      <4> QED
        BY <4>1, <4>2
    <3>3. ASSUME NEW answer \in Answers, Answer(c, answer)
          PROVE  Moved
      <4>1. Idle(answer).pc \notin {"creating", "funding"}
        BY DEF Idle, Answers
      <4> QED
        BY <3>3, <4>1 DEF Answer
    <3> QED
      BY <1>6, <3>1, <3>2, <3>3 DEF Lookup, LegacyScan, Migrate, Answers
  <2> QED
    BY <2>2, <2>3, OtherCall
<1>7. ASSUME NEW c \in Calls, NEW s \in Status, NEW t \in TrustTier, ChangeProfile(c, s, t)
      PROVE  ReserveInv'
  <2> DEFINE a == call[c].request.agent
  <2>1. profile' \in [Agents -> Profile] /\ reserve' = reserve
        /\ \A b \in Agents : profile'[b].exists = profile[b].exists
    BY <1>1, <1>7 DEF ChangeProfile, Profile
  <2>2. ASSUME NEW d \in Calls, Creating(d)'
        PROVE  call'[d].request = call[d].request /\ call'[d].pc = call[d].pc /\ call'[d].seen = call[d].seen
    <3> DEFINE told == [call[d] EXCEPT !.wasTrusted = @ \/ IsTrusted(profile'[a]),
                                       !.wasSuspended = @ \/ IsSuspended(profile'[a])]
    <3>1. call'[d] = IF d = c THEN Idle("served")
                     ELSE IF call[d].pc \in InFlight /\ AgentOf(d) = a THEN told ELSE call[d]
      BY <1>7 DEF ChangeProfile
    <3>2. told.request = call[d].request /\ told.pc = call[d].pc /\ told.seen = call[d].seen
      BY <1>1 DEF CallRecord
    <3> HIDE DEF told
    <3> QED
      BY <2>2, <3>1, <3>2 DEF Creating, Idle
  <2> QED
    BY <2>1, <2>2, NoNewCreation
<1>8. ASSUME NEW c \in Calls, PatchTrust(c)
      PROVE  ReserveInv'
  <2>1. PICK t \in TrustTier : ChangeProfile(c, profile[call[c].request.agent].status, t)
    BY <1>8 DEF PatchTrust
  <2>2. CASE call[c].request.agent \in Agents
    <3>1. profile[call[c].request.agent].status \in Status
      BY <1>1, <2>2 DEF Profile
    <3> QED
      BY <1>7, <2>1, <3>1
  <2>3. CASE call[c].request.agent \notin Agents
    <3>1. ChangeProfile(c, "ACTIVE", t)
      BY <1>1, <2>1, <2>3 DEF ChangeProfile
    <3> QED
      BY <1>7, <3>1 DEF Status
  <2> QED
    BY <2>2, <2>3
<1>9. ASSUME NEW c \in Calls, PatchAgent(c)
      PROVE  ReserveInv'
  BY <1>7, <1>9 DEF PatchAgent
<1> QED
  BY <1>2, <1>3, <1>4, <1>5, <1>6, <1>8, <1>9, CreateAgentKeepsReserve, ReadReserveKeeps,
     CommitAgentKeeps DEF Next, Serve

\* Creations that overlap may lose a debit of the reserve, but never invent one.
THEOREM ReserveCovered == Spec => []ReserveCoversJournal
<1>1. ReserveInv => ReserveCoversJournal
  BY DEF ReserveInv, ReserveCoversJournal, Left
<1> QED
  BY <1>1, GateInit, GateStep, ReserveInit, ReserveStep, PTL DEF Spec

-----------------------------------------------------------------------------
(* The second rate limit *)

Window == [tokens : Nat, refilled : Int, ordered : Int]

Since(P, r) == {s \in P : r <= s}
Preceding(P, r) == {s \in P : r - Refill < s /\ s < r}
Span(P, t) == {s \in P : t <= s /\ s < t + Refill}

\* A window w and the times P at which orders have passed: the last was w.ordered, and
\* that was in w or in an earlier window; the tokens that are gone are orders since w
\* was opened; the window before it let through no more than its own.
WindowOk(w, P) ==
    /\ w \in Window /\ P \in SUBSET Int /\ IsFiniteSet(P)
    /\ w.ordered < w.refilled + Refill
    /\ \A s \in P : s <= w.ordered
    /\ \A s, u \in P : s = u \/ s - u >= MinSpacing \/ u - s >= MinSpacing
    /\ Cardinality(Since(P, w.refilled)) + w.tokens <= OrdersPerMin
    /\ Cardinality(Preceding(P, w.refilled)) <= OrdersPerMin
    /\ \A t \in Int : Cardinality(Span(P, t)) <= 2 * OrdersPerMin

\* The call that opened w, if it did not pass, came too soon after the last order.
OpenedByCall(w) == w.refilled < w.ordered + MinSpacing

LEMMA Positive == /\ OrdersPerMin \in Nat /\ OrdersPerMin > 0 /\ MinSpacing \in Nat /\ MinSpacing > 0
                  /\ Refill \in Nat /\ Refill > 0
                  /\ UnverifiedInterval \in Nat /\ UnverifiedInterval > 0
BY GatewayAssumption

LEMMA PartSize ==
    ASSUME NEW P, IsFiniteSet(P), NEW S \in SUBSET P
    PROVE  IsFiniteSet(S) /\ Cardinality(S) \in Nat /\ Cardinality(S) <= Cardinality(P)
BY FS_Subset, FS_CardinalityType

LEMMA EmptyWindowOk == WindowOk(FullWindow, {}) /\ OpenedByCall(FullWindow)
<1>1. Since({}, -Refill) = {} /\ Preceding({}, -Refill) = {} /\ \A t \in Int : Span({}, t) = {}
  BY DEF Since, Preceding, Span
<1>2. Cardinality({}) = 0 /\ IsFiniteSet({})
  BY FS_EmptySet
<1> QED
  BY <1>1, <1>2, Positive DEF FullWindow, Window, WindowOk, OpenedByCall

\* A window that is over is opened again at n.
LEMMA OpenOk ==
    ASSUME NEW w, NEW P, WindowOk(w, P), NEW n \in Int, n - w.refilled >= Refill
    PROVE  WindowOk([w EXCEPT !.tokens = OrdersPerMin, !.refilled = n], P)
<1> DEFINE v == [w EXCEPT !.tokens = OrdersPerMin, !.refilled = n]
<1>1. w \in Window /\ P \in SUBSET Int /\ IsFiniteSet(P)
  BY DEF WindowOk
<1>2. v \in Window /\ v.tokens = OrdersPerMin /\ v.refilled = n /\ v.ordered = w.ordered
  BY <1>1, Positive DEF Window
<1>3. w.refilled \in Int /\ w.ordered \in Int /\ w.tokens \in Nat
  BY <1>1 DEF Window
<1>4. w.ordered < n
  BY <1>3, Positive DEF WindowOk
<1>5. Since(P, n) = {}
  <2> SUFFICES ASSUME NEW s \in P, n <= s
               PROVE  FALSE
    BY DEF Since
  <2>1. s \in Int /\ s <= w.ordered
    BY <1>1 DEF WindowOk
  <2> QED
    BY <1>3, <1>4, <2>1
<1>6. Cardinality(Since(P, n)) = 0
  BY <1>5, FS_EmptySet
<1>7. Cardinality(Preceding(P, n)) <= OrdersPerMin
  <2>1. Preceding(P, n) \subseteq Since(P, w.refilled) /\ Since(P, w.refilled) \subseteq P
    <3> SUFFICES ASSUME NEW s \in P, n - Refill < s
                 PROVE  w.refilled <= s
      BY DEF Preceding, Since
    <3>1. s \in Int
      BY <1>1
    <3> QED
      BY <1>3, <3>1, Positive
  <2>2. /\ Cardinality(Preceding(P, n)) \in Nat /\ Cardinality(Since(P, w.refilled)) \in Nat
        /\ Cardinality(Preceding(P, n)) <= Cardinality(Since(P, w.refilled))
    BY <1>1, <2>1, PartSize
  <2>3. Cardinality(Since(P, w.refilled)) + w.tokens <= OrdersPerMin
    BY DEF WindowOk
  <2> QED
    BY <1>3, <2>2, <2>3, Positive
<1> HIDE DEF v
<1>8. v.ordered < v.refilled + Refill
  BY <1>2, <1>3, <1>4, Positive
<1>9. WindowOk(v, P)
  BY <1>1, <1>2, <1>6, <1>7, <1>8, Positive DEF WindowOk
<1> QED
  BY <1>9 DEF v

\* An order passes at n.
LEMMA PassOk ==
    ASSUME NEW w, NEW P, WindowOk(w, P), NEW n \in Int, w.refilled <= n, n < w.refilled + Refill,
           n - w.ordered >= MinSpacing, w.tokens > 0
    PROVE  LET v == [w EXCEPT !.tokens = @ - 1, !.ordered = n]
           IN  WindowOk(v, P \cup {n}) /\ OpenedByCall(v)
<1> DEFINE v == [w EXCEPT !.tokens = @ - 1, !.ordered = n]
           Q == P \cup {n}
<1>1. w \in Window /\ P \in SUBSET Int /\ IsFiniteSet(P)
  BY DEF WindowOk
<1>2. w.refilled \in Int /\ w.ordered \in Int /\ w.tokens \in Nat
  BY <1>1 DEF Window
<1>3. v \in Window /\ v.tokens = w.tokens - 1 /\ v.refilled = w.refilled /\ v.ordered = n
  <2>1. w.tokens - 1 \in Nat
    BY <1>2
  <2> QED
    BY <1>1, <2>1 DEF Window
<1>4. \A s \in P : s \in Int /\ s <= w.ordered /\ s < n /\ n - s >= MinSpacing
  BY <1>1, <1>2, Positive DEF WindowOk
<1>5. Q \in SUBSET Int /\ IsFiniteSet(Q) /\ n \notin P
  <2>1. n \notin P
    BY <1>4
  <2>2. IsFiniteSet(Q)
    BY <1>1, FS_AddElement
  <2> QED
    BY <1>1, <2>1, <2>2
<1>6. Cardinality(Since(Q, w.refilled)) + (w.tokens - 1) <= OrdersPerMin
      /\ IsFiniteSet(Since(Q, w.refilled))
  <2>1. Since(Q, w.refilled) = Since(P, w.refilled) \cup {n} /\ n \notin Since(P, w.refilled)
    BY <1>5 DEF Since
  <2>2. IsFiniteSet(Since(P, w.refilled)) /\ Cardinality(Since(P, w.refilled)) \in Nat
    BY <1>1, PartSize DEF Since
  <2>3. Cardinality(Since(Q, w.refilled)) = Cardinality(Since(P, w.refilled)) + 1
        /\ IsFiniteSet(Since(Q, w.refilled))
    <3> DEFINE S == Since(P, w.refilled)
    <3>1. IsFiniteSet(S) /\ n \notin S
      BY <2>1, <2>2
    <3> HIDE DEF S
    <3>2. Cardinality(S \cup {n}) = Cardinality(S) + 1 /\ IsFiniteSet(S \cup {n})
      BY <3>1, FS_AddElement
    <3> QED
      BY <2>1, <3>2 DEF S
  <2>4. Cardinality(Since(P, w.refilled)) + w.tokens <= OrdersPerMin
    BY DEF WindowOk
  <2> QED
    BY <1>2, <2>2, <2>3, <2>4, Positive
<1>7. Preceding(Q, w.refilled) = Preceding(P, w.refilled)
  BY <1>2 DEF Preceding
<1>8. ASSUME NEW t \in Int
      PROVE  Cardinality(Span(Q, t)) <= 2 * OrdersPerMin
  <2>1. CASE n \notin Span(Q, t)
    <3>1. Span(Q, t) = Span(P, t)
      BY <2>1 DEF Span
    <3> QED
      BY <3>1 DEF WindowOk
  <2>2. CASE n \in Span(Q, t)
    <3> DEFINE A == Since(Q, w.refilled)
               B == Preceding(P, w.refilled)
    <3>1. Span(Q, t) \subseteq A \cup B
      <4> SUFFICES ASSUME NEW s \in Q, t <= s, s < w.refilled
                   PROVE  s \in P /\ w.refilled - Refill < s
        <5>1. \A s \in Q : s \in Int
          BY <1>5
        <5> QED
          BY <1>2, <5>1 DEF Span, Since, Preceding
      <4>1. s \in Int /\ n < t + Refill
        BY <1>5, <2>2 DEF Span
      <4> QED
        BY <1>2, <4>1, Positive
    <3>2. IsFiniteSet(A) /\ IsFiniteSet(B) /\ Cardinality(A) \in Nat /\ Cardinality(B) \in Nat
      BY <1>1, <1>6, PartSize, FS_CardinalityType DEF Preceding
    <3>3. Cardinality(A) <= OrdersPerMin /\ Cardinality(B) <= OrdersPerMin
      BY <1>2, <1>6, <3>2, Positive DEF WindowOk
    <3>4. /\ IsFiniteSet(A \cup B) /\ Cardinality(A \cap B) \in Nat
          /\ Cardinality(A \cup B) = Cardinality(A) + Cardinality(B) - Cardinality(A \cap B)
      BY <3>2, FS_Union, PartSize
    <3>5. Cardinality(Span(Q, t)) \in Nat /\ Cardinality(Span(Q, t)) <= Cardinality(A \cup B)
      BY <3>1, <3>4, PartSize
    <3> HIDE DEF A, B
    <3> QED
      BY <3>2, <3>3, <3>4, <3>5, Positive
  <2> QED
    BY <2>1, <2>2
<1>9. \A s, u \in Q : s = u \/ s - u >= MinSpacing \/ u - s >= MinSpacing
  BY <1>4 DEF WindowOk
<1>10. \A s \in Q : s <= n
  BY <1>4
<1>11. Cardinality(Preceding(Q, w.refilled)) <= OrdersPerMin
  BY <1>7 DEF WindowOk
<1> HIDE DEF v, Q
<1>12. WindowOk(v, Q)
  BY <1>3, <1>5, <1>6, <1>8, <1>9, <1>10, <1>11 DEF WindowOk
<1>13. OpenedByCall(v)
  BY <1>3, <1>2, Positive DEF OpenedByCall
<1> QED
  BY <1>12, <1>13 DEF v, Q

-----------------------------------------------------------------------------
(* The retry hints *)

LimitTypes ==
    /\ now \in Int
    /\ bucket \in [Agents -> [Markets -> [tokens : Int, last : Int]]]
    /\ window \in [Agents -> Window]
    /\ marketHint \in [Agents -> [Markets -> {NoHint} \cup [at : Int, tier : TrustTier]]]
    /\ windowHint \in [Agents -> {NoHint} \cup [at : Int, limit : {"spacing", "tokens"}]]
    /\ passed \in [Agents -> SUBSET Int]

\* The refill from the bucket's last use to the time a hint h names makes up a token.
MarketHintFits(b, h) ==
    h # NoHint => b.tokens + (h.at - b.last) * RefillRate(h.tier) >= UnverifiedInterval

\* The time a hint h names is spaced from the last order, and for the tokens it is when
\* the window w is over.
WindowHintFits(w, h) ==
    h # NoHint => /\ h.at >= w.ordered + MinSpacing
                  /\ h.limit = "tokens" => h.at >= w.refilled + Refill

LimitInv ==
    /\ LimitTypes
    /\ \A a \in Agents :
        /\ WindowOk(window[a], passed[a]) /\ OpenedByCall(window[a])
        /\ WindowHintFits(window[a], windowHint[a])
        /\ \A m \in Markets : MarketHintFits(bucket[a][m], marketHint[a][m])

LEMMA RateType == ASSUME NEW t PROVE RefillRate(t) \in Nat /\ RefillRate(t) >= 1
BY Positive DEF RefillRate

\* Rounded up, the time is long enough.
LEMMA CeilDivEnough == ASSUME NEW n \in Int, NEW d \in Nat, d >= 1
                       PROVE  CeilDiv(n, d) \in Int /\ CeilDiv(n, d) * d >= n
<1> DEFINE q == (n + d - 1) \div d
           r == (n + d - 1) % d
<1>1. q \in Int /\ r \in 0..(d - 1) /\ n + d - 1 = d * q + r
  OBVIOUS
<1>2. q * d = d * q /\ d * q \in Int
  BY <1>1
<1> HIDE DEF q, r
<1>3. q * d >= n
  BY <1>1, <1>2
<1> QED
  BY <1>1, <1>3 DEF CeilDiv, q

LEMMA Monotone == ASSUME NEW x \in Int, NEW y \in Int, NEW r \in Nat, x >= y
                  PROVE  x * r >= y * r
<1>1. (x - y) * r >= 0 /\ (x - y) * r = x * r - y * r
  OBVIOUS
<1>2. x * r \in Int /\ y * r \in Int
  OBVIOUS
<1> QED
  BY <1>1, <1>2

LEMMA LimitInit == Init => LimitInv
<1> SUFFICES ASSUME Init
             PROVE  LimitInv
  OBVIOUS
<1>1. FullBucket \in [tokens : Int, last : Int] /\ FullWindow \in Window
  BY EmptyWindowOk, Positive DEF FullBucket, WindowOk
<1> HIDE DEF FullBucket, FullWindow
<1>2. LimitTypes
  BY <1>1 DEF Init, LimitTypes
<1> QED
  BY <1>2, EmptyWindowOk DEF Init, LimitInv, MarketHintFits, WindowHintFits

LEMMA LimitsUntouched ==
    ASSUME LimitInv, UNCHANGED limitVars, now' \in Int
    PROVE  LimitInv'
<1>1. UNCHANGED <<bucket, window, marketHint, windowHint, passed>>
  BY DEF limitVars
<1> QED
  BY <1>1 DEF LimitInv, LimitTypes

\* What a call does to the per-market limit.
LEMMA MarketTokenFits ==
    ASSUME LimitInv, NEW c \in Calls, call[c] \in CallRecord, TakeMarketToken(c), now' = now
    PROVE  /\ bucket' \in [Agents -> [Markets -> [tokens : Int, last : Int]]]
           /\ marketHint' \in [Agents -> [Markets -> {NoHint} \cup [at : Int, tier : TrustTier]]]
           /\ \A a \in Agents, m \in Markets : MarketHintFits(bucket'[a][m], marketHint'[a][m])
<1> DEFINE a == AgentOf(c)
           m == call[c].request.market
           t == call[c].tier
           T == TokensNow(a, m, t)
           b == [tokens |-> IF PassesMarketLimit(c) THEN T - UnverifiedInterval ELSE T, last |-> now]
           h == IF PassesMarketLimit(c) THEN NoHint
                ELSE [at |-> now + CeilDiv(UnverifiedInterval - T, RefillRate(t)), tier |-> t]
<1>0. LimitTypes
  BY DEF LimitInv
<1>1. CASE ~MarketLimitApplies(c)
  BY <1>0, <1>1 DEF TakeMarketToken, LimitInv, LimitTypes
<1>2. CASE MarketLimitApplies(c)
  <2>1. bucket' = [bucket EXCEPT ![a][m] = b] /\ marketHint' = [marketHint EXCEPT ![a][m] = h]
    BY <1>2 DEF TakeMarketToken
  <2>2. m \in Markets /\ t \in TrustTier
    BY <1>2 DEF MarketLimitApplies, IsAgent, CallRecord, Request
  <2>3. CASE a \notin Agents
    <3>1. bucket' = bucket /\ marketHint' = marketHint
      BY <1>0, <2>1, <2>3 DEF LimitTypes
    <3> QED
      BY <1>0, <3>1 DEF LimitInv, LimitTypes
  <2>4. CASE a \in Agents
    <3>1. bucket[a][m].tokens \in Int /\ bucket[a][m].last \in Int /\ now \in Int
      BY <1>0, <2>2, <2>4 DEF LimitTypes
    <3>2. RefillRate(t) \in Nat /\ RefillRate(t) >= 1 /\ T \in Int
      <4>1. (now - bucket[a][m].last) * RefillRate(t) \in Int /\ RefillRate(t) \in Nat /\ RefillRate(t) >= 1
        BY <3>1, RateType
      <4> QED
        BY <3>1, <4>1, Positive DEF TokensNow, Least
    <3> HIDE DEF T
    <3>3. b \in [tokens : Int, last : Int] /\ b.last = now
          /\ (~PassesMarketLimit(c) => b.tokens = T)
      BY <3>1, <3>2, Positive
    <3>4. CeilDiv(UnverifiedInterval - T, RefillRate(t)) \in Int
          /\ CeilDiv(UnverifiedInterval - T, RefillRate(t)) * RefillRate(t) >= UnverifiedInterval - T
      <4> DEFINE n == UnverifiedInterval - T
                 r == RefillRate(t)
      <4>1. n \in Int /\ r \in Nat /\ r >= 1
        BY <3>2, Positive
      <4> HIDE DEF n, r
      <4>2. CeilDiv(n, r) \in Int /\ CeilDiv(n, r) * r >= n
        BY <4>1, CeilDivEnough
      <4> QED
        BY <4>2 DEF n, r
    <3>5. h \in {NoHint} \cup [at : Int, tier : TrustTier]
      <4> DEFINE d == CeilDiv(UnverifiedInterval - T, RefillRate(t))
      <4>1. d \in Int
        BY <3>4
      <4> HIDE DEF d
      <4>2. [at |-> now + d, tier |-> t] \in [at : Int, tier : TrustTier]
        BY <2>2, <3>1, <4>1
      <4>3. h = IF PassesMarketLimit(c) THEN NoHint ELSE [at |-> now + d, tier |-> t]
        BY DEF d
      <4> HIDE DEF h
      <4> QED
        BY <4>2, <4>3
    <3>6. MarketHintFits(b, h)
      <4> DEFINE d == CeilDiv(UnverifiedInterval - T, RefillRate(t))
      <4> SUFFICES ASSUME ~PassesMarketLimit(c)
                   PROVE  b.tokens + (h.at - b.last) * RefillRate(h.tier) >= UnverifiedInterval
        BY DEF MarketHintFits
      <4>1. h.at = now + d /\ h.tier = t /\ b.last = now /\ b.tokens = T
        BY <3>3
      <4>2. d \in Int /\ d * RefillRate(t) >= UnverifiedInterval - T
        BY <3>4
      <4> HIDE DEF d, h, b
      <4>3. h.at - b.last = d
        BY <3>1, <4>1, <4>2
      <4>4. d * RefillRate(t) \in Int
        BY <3>2, <4>2
      <4> QED
        BY <3>2, <4>1, <4>2, <4>3, <4>4, Positive
    <3> HIDE DEF b, h, m, a
    <3>7. /\ bucket' \in [Agents -> [Markets -> [tokens : Int, last : Int]]]
          /\ \A e \in Agents, n \in Markets :
                bucket'[e][n] = IF e = a /\ n = m THEN b ELSE bucket[e][n]
      BY <1>0, <2>1, <2>2, <2>4, <3>3 DEF LimitTypes
    <3>8. /\ marketHint' \in [Agents -> [Markets -> {NoHint} \cup [at : Int, tier : TrustTier]]]
          /\ \A e \in Agents, n \in Markets :
                marketHint'[e][n] = IF e = a /\ n = m THEN h ELSE marketHint[e][n]
      BY <1>0, <2>1, <2>2, <2>4, <3>5 DEF LimitTypes
    <3>9. ASSUME NEW e \in Agents, NEW n \in Markets
          PROVE  MarketHintFits(bucket'[e][n], marketHint'[e][n])
      <4>1. MarketHintFits(bucket[e][n], marketHint[e][n])
        BY DEF LimitInv
      <4> QED
        BY <3>6, <3>7, <3>8, <4>1
    <3> QED
      BY <3>7, <3>8, <3>9
  <2> QED
    BY <2>3, <2>4
<1> QED
  BY <1>1, <1>2

\* What a call does to the second limit.
LEMMA WindowTokenFits ==
    ASSUME LimitInv, NEW c \in Calls, TakeWindowToken(c), now' = now
    PROVE  /\ window' \in [Agents -> Window]
           /\ windowHint' \in [Agents -> {NoHint} \cup [at : Int, limit : {"spacing", "tokens"}]]
           /\ passed' \in [Agents -> SUBSET Int]
           /\ \A a \in Agents : /\ WindowOk(window'[a], passed'[a]) /\ OpenedByCall(window'[a])
                                /\ WindowHintFits(window'[a], windowHint'[a])
<1> DEFINE a == AgentOf(c)
           w == WindowNow(a)
           hints == {NoHint} \cup [at : Int, limit : {"spacing", "tokens"}]
           v == IF PassesWindow(c) THEN [w EXCEPT !.tokens = @ - 1, !.ordered = now] ELSE w
           h == CASE PassesWindow(c) -> NoHint
                  [] ~PassesWindow(c) /\ ~Spaced(a) -> [at |-> w.ordered + MinSpacing, limit |-> "spacing"]
                  [] OTHER -> [at |-> w.refilled + Refill, limit |-> "tokens"]
           P == IF PassesWindow(c) THEN passed[a] \cup {now} ELSE passed[a]
<1>0. LimitTypes
  BY DEF LimitInv
<1>1. CASE ~IsAgent(c)
  BY <1>0, <1>1 DEF TakeWindowToken, LimitInv, LimitTypes
<1>2. CASE IsAgent(c)
  <2>1. /\ window' = [window EXCEPT ![a] = v]
        /\ windowHint' = [windowHint EXCEPT ![a] = h]
        /\ passed' = IF PassesWindow(c) THEN [passed EXCEPT ![a] = @ \cup {now}] ELSE passed
    BY <1>2 DEF TakeWindowToken
  <2>2. CASE a \notin Agents
    <3>1. window' = window /\ windowHint' = windowHint /\ passed' = passed
      BY <1>0, <2>1, <2>2 DEF LimitTypes
    <3> QED
      BY <1>0, <3>1 DEF LimitInv, LimitTypes
  <2>3. CASE a \in Agents
    <3>1. WindowOk(window[a], passed[a]) /\ OpenedByCall(window[a]) /\ window[a] \in Window /\ now \in Int
      BY <1>0, <2>3 DEF LimitInv, LimitTypes
    <3>2. /\ window[a].refilled \in Int /\ window[a].ordered \in Int /\ window[a].tokens \in Nat
          /\ window[a].ordered < window[a].refilled + Refill
          /\ window[a].refilled < window[a].ordered + MinSpacing
      BY <3>1 DEF Window, WindowOk, OpenedByCall
\* The window in which the call is counted.
    <3>3. /\ WindowOk(w, passed[a]) /\ w \in Window
          /\ w.refilled \in Int /\ w.ordered = window[a].ordered /\ w.tokens \in Nat
          /\ now < w.refilled + Refill
          /\ now - w.refilled >= Refill => w.tokens > 0
          /\ Spaced(a) => w.refilled <= now
          /\ ~Spaced(a) => OpenedByCall(w)
          /\ w.tokens = 0 => w = window[a]
      <4>1. CASE now - window[a].refilled >= Refill
        <5>1. w = [window[a] EXCEPT !.tokens = OrdersPerMin, !.refilled = now]
          BY <4>1 DEF WindowNow
        <5>2. WindowOk(w, passed[a])
          BY <3>1, <4>1, <5>1, OpenOk
        <5>3. w \in Window /\ w.tokens = OrdersPerMin /\ w.refilled = now /\ w.ordered = window[a].ordered
          BY <3>1, <5>1, Positive DEF Window
        <5> HIDE DEF w
        <5> QED
          BY <3>1, <3>2, <5>2, <5>3, Positive DEF Spaced, OpenedByCall
      <4>2. CASE ~(now - window[a].refilled >= Refill)
        <5>1. w = window[a]
          BY <4>2 DEF WindowNow
        <5> HIDE DEF w
        <5> QED
          BY <3>1, <3>2, <4>2, <5>1, Positive DEF Spaced
      <4> QED
        BY <4>1, <4>2
    <3>4. WindowOk(v, P) /\ OpenedByCall(v) /\ WindowHintFits(v, h) /\ h \in hints
      <4>1. CASE PassesWindow(c)
        <5>1. Spaced(a) /\ w.tokens > 0
          BY <1>2, <4>1 DEF PassesWindow
        <5>2. now - w.ordered >= MinSpacing
          BY <3>3, <5>1 DEF Spaced
        <5> HIDE DEF w
        <5>3. /\ WindowOk([w EXCEPT !.tokens = @ - 1, !.ordered = now], passed[a] \cup {now})
              /\ OpenedByCall([w EXCEPT !.tokens = @ - 1, !.ordered = now])
          BY <3>1, <3>3, <5>1, <5>2, PassOk
        <5>4. h = NoHint
          BY <4>1
        <5> QED
          BY <4>1, <5>3, <5>4 DEF WindowHintFits
      <4>2. CASE ~PassesWindow(c) /\ ~Spaced(a)
        <5> DEFINE x == [at |-> w.ordered + MinSpacing, limit |-> "spacing"]
        <5>1. h = x /\ v = w /\ P = passed[a]
          BY <4>2
        <5>2. x \in [at : Int, limit : {"spacing", "tokens"}] /\ x.at = w.ordered + MinSpacing
              /\ x.limit = "spacing"
          BY <3>2, <3>3, Positive
        <5> HIDE DEF x, w
        <5>3. WindowHintFits(w, x)
          BY <3>2, <3>3, <5>2, Positive DEF WindowHintFits
        <5> HIDE DEF h, v, P
        <5> QED
          BY <3>3, <4>2, <5>1, <5>2, <5>3
      <4>3. CASE ~PassesWindow(c) /\ Spaced(a)
        <5> DEFINE x == [at |-> w.refilled + Refill, limit |-> "tokens"]
        <5>1. h = x /\ v = w /\ P = passed[a]
          BY <4>3
        <5>2. w.tokens = 0
          BY <1>2, <3>3, <4>3 DEF PassesWindow
        <5>3. w = window[a] /\ OpenedByCall(w)
          BY <3>1, <3>3, <5>2
        <5>4. x \in [at : Int, limit : {"spacing", "tokens"}] /\ x.at = w.refilled + Refill
          BY <3>3, Positive
        <5>5. x.at >= w.ordered + MinSpacing
          <6> HIDE DEF x, w
          <6> QED
            BY <3>1, <3>2, <3>3, <4>3, <5>4, Positive DEF Spaced
        <5> HIDE DEF x, w
        <5>6. x.at >= w.refilled + Refill
          BY <3>3, <5>4, Positive
        <5>7. WindowHintFits(w, x)
          BY <5>5, <5>6 DEF WindowHintFits
        <5> HIDE DEF h, v, P
        <5> QED
          BY <3>3, <5>1, <5>3, <5>4, <5>7
      <4> QED
        BY <4>1, <4>2, <4>3
    <3> HIDE DEF v, h, P, a
    <3>5. window' \in [Agents -> Window] /\ \A e \in Agents : window'[e] = IF e = a THEN v ELSE window[e]
      BY <1>0, <2>1, <2>3, <3>4 DEF LimitTypes, WindowOk
    <3>6. windowHint' \in [Agents -> hints]
          /\ \A e \in Agents : windowHint'[e] = IF e = a THEN h ELSE windowHint[e]
      BY <1>0, <2>1, <2>3, <3>4 DEF LimitTypes
    <3>7. passed' \in [Agents -> SUBSET Int] /\ \A e \in Agents : passed'[e] = IF e = a THEN P ELSE passed[e]
      <4>1. P \in SUBSET Int
        BY <3>4 DEF WindowOk
      <4>2. CASE PassesWindow(c)
        BY <1>0, <2>1, <2>3, <4>1, <4>2 DEF LimitTypes, P
      <4>3. CASE ~PassesWindow(c)
        BY <1>0, <2>1, <2>3, <4>3 DEF LimitTypes, P
      <4> QED
        BY <4>2, <4>3
    <3>8. ASSUME NEW e \in Agents
          PROVE  /\ WindowOk(window'[e], passed'[e]) /\ OpenedByCall(window'[e])
                 /\ WindowHintFits(window'[e], windowHint'[e])
      <4>1. /\ WindowOk(window[e], passed[e]) /\ OpenedByCall(window[e])
            /\ WindowHintFits(window[e], windowHint[e])
        BY DEF LimitInv
      <4> QED
        BY <3>4, <3>5, <3>6, <3>7, <4>1
    <3> QED
      BY <3>5, <3>6, <3>7, <3>8
  <2> QED
    BY <2>2, <2>3
<1> QED
  BY <1>1, <1>2

LEMMA LimitStep == GateInv /\ LimitInv /\ [Next]_vars => LimitInv'
<1> SUFFICES ASSUME GateInv, LimitInv, [Next]_vars
             PROVE  LimitInv'
  OBVIOUS
<1>1. LimitTypes /\ call \in [Calls -> CallRecord]
  BY DEF LimitInv, GateInv, GateTypes
<1>2. CASE Tick \/ ClockSetBack \/ UNCHANGED vars
  <2>1. UNCHANGED limitVars /\ now' \in Int
    BY <1>1, <1>2 DEF Tick, ClockSetBack, vars, clockVars, LimitTypes
  <2> QED
    BY <2>1, LimitsUntouched
<1>3. CASE Restart
  <2>1. FullBucket \in [tokens : Int, last : Int] /\ FullWindow \in Window
    BY EmptyWindowOk, Positive DEF FullBucket, WindowOk
  <2> HIDE DEF FullBucket, FullWindow
  <2>2. LimitTypes'
    BY <1>1, <1>3, <2>1 DEF Restart, LimitTypes, clockVars
  <2> QED
    BY <1>3, <2>2, EmptyWindowOk DEF Restart, LimitInv, MarketHintFits, WindowHintFits
<1>4. ASSUME NEW c \in Calls, PlaceOrder(c)
      PROVE  LimitInv'
  <2>1. call[c] \in CallRecord /\ TakeMarketToken(c) /\ now' = now
    BY <1>1, <1>4 DEF PlaceOrder, clockVars
  <2>2. /\ window' \in [Agents -> Window]
        /\ windowHint' \in [Agents -> {NoHint} \cup [at : Int, limit : {"spacing", "tokens"}]]
        /\ passed' \in [Agents -> SUBSET Int]
        /\ \A a \in Agents : /\ WindowOk(window'[a], passed'[a]) /\ OpenedByCall(window'[a])
                             /\ WindowHintFits(window'[a], windowHint'[a])
    <3>1. CASE TakeWindowToken(c)
      BY <2>1, <3>1, WindowTokenFits
    <3>2. CASE UNCHANGED <<window, windowHint, passed>>
      BY <1>1, <3>2 DEF LimitInv, LimitTypes
    <3> QED
      BY <1>4, <3>1, <3>2 DEF PlaceOrder
  <2>3. /\ bucket' \in [Agents -> [Markets -> [tokens : Int, last : Int]]]
        /\ marketHint' \in [Agents -> [Markets -> {NoHint} \cup [at : Int, tier : TrustTier]]]
        /\ \A a \in Agents, m \in Markets : MarketHintFits(bucket'[a][m], marketHint'[a][m])
    BY <2>1, MarketTokenFits
  <2> QED
    BY <1>1, <2>1, <2>2, <2>3 DEF LimitInv, LimitTypes
<1>5. ASSUME NEW c \in Calls,
             \/ \E q \in workload.sends[c] : Refuse(c, q) \/ Arrive(c, q)
             \/ Lookup(c) \/ LegacyScan(c) \/ Migrate(c) \/ RefuseApiKey(c) \/ CancelOrder(c)
             \/ SubmitValuation(c) \/ RefuseAdmin(c) \/ PatchTrust(c) \/ PatchAgent(c)
             \/ CreateAgent(c) \/ ReadReserve(c) \/ CommitAgent(c)
      PROVE  LimitInv'
  <2>1. UNCHANGED limitVars /\ now' = now
    BY <1>5 DEF Refuse, Arrive, Lookup, LegacyScan, Migrate, RefuseApiKey, CancelOrder,
                SubmitValuation, RefuseAdmin, PatchTrust, PatchAgent, ChangeProfile, CreateAgent,
                ReadReserve, CommitAgent, clockVars
  <2> QED
    BY <1>1, <2>1, LimitsUntouched DEF LimitTypes
<1> QED
  BY <1>2, <1>3, <1>4, <1>5 DEF Next, Serve

\* The orders of an agent that passed the second limit are spaced, and no span of the
\* window's length sees more than the orders of two windows.
THEOREM WindowsBound == Spec => []WindowBound
<1>1. LimitInv => WindowBound
  <2> SUFFICES ASSUME LimitInv, NEW a \in Agents
               PROVE  /\ \A t \in 0..LastTime : Cardinality(InSpan(a, t)) <= 2 * OrdersPerMin
                      /\ \A s, u \in passed[a] : s = u \/ s - u >= MinSpacing \/ u - s >= MinSpacing
    BY DEF WindowBound
  <2>1. WindowOk(window[a], passed[a])
    BY DEF LimitInv
  <2>2. \A t \in 0..LastTime : t \in Int /\ InSpan(a, t) = Span(passed[a], t)
    BY GatewayAssumption DEF InSpan, Span
  <2> QED
    BY <2>1, <2>2 DEF WindowOk
<1> QED
  BY <1>1, GateInit, GateStep, LimitInit, LimitStep, PTL DEF Spec

\* At the time a retry hint named, the limit it came from lets the agent through,
\* whatever was tried in between and though the clock was set back.
THEOREM HintsKept == Spec => []HintHonoured
<1>1. LimitInv => HintHonoured
  <2> SUFFICES ASSUME LimitInv, NEW a \in Agents
               PROVE  /\ \A m \in Markets :
                            marketHint[a][m] # NoHint /\ now >= marketHint[a][m].at
                                => TokensNow(a, m, marketHint[a][m].tier) >= UnverifiedInterval
                      /\ windowHint[a] # NoHint /\ now >= windowHint[a].at
                            => Spaced(a) /\ (windowHint[a].limit = "tokens" => WindowNow(a).tokens > 0)
    BY DEF HintHonoured
  <2>1. LimitTypes
    BY DEF LimitInv
  <2>2. ASSUME NEW m \in Markets, marketHint[a][m] # NoHint, now >= marketHint[a][m].at
        PROVE  TokensNow(a, m, marketHint[a][m].tier) >= UnverifiedInterval
    <3> DEFINE h == marketHint[a][m]
               b == bucket[a][m]
               r == RefillRate(h.tier)
    <3>1. h.at \in Int /\ b.tokens \in Int /\ b.last \in Int /\ now \in Int /\ r \in Nat
      BY <2>1, <2>2, RateType DEF LimitTypes
    <3>2. b.tokens + (h.at - b.last) * r >= UnverifiedInterval
      BY <2>2 DEF LimitInv, MarketHintFits
    <3>3. (now - b.last) * r >= (h.at - b.last) * r
      <4> DEFINE x == now - b.last
                 y == h.at - b.last
      <4>1. x \in Int /\ y \in Int /\ x >= y
        BY <2>2, <3>1
      <4> HIDE DEF x, y, r
      <4>2. x * r >= y * r
        BY <3>1, <4>1, Monotone
      <4> QED
        BY <4>2 DEF x, y
    <3>4. (now - b.last) * r \in Int /\ (h.at - b.last) * r \in Int
      BY <3>1
    <3>5. b.tokens + (now - b.last) * r >= UnverifiedInterval
      BY <3>1, <3>2, <3>3, <3>4, Positive
    <3>6. TokensNow(a, m, h.tier) = Least(UnverifiedInterval, b.tokens + (now - b.last) * r)
      BY DEF TokensNow
    <3> HIDE DEF b, r
    <3> QED
      BY <3>1, <3>4, <3>5, <3>6, Positive DEF Least
  <2>3. ASSUME windowHint[a] # NoHint, now >= windowHint[a].at
        PROVE  Spaced(a) /\ (windowHint[a].limit = "tokens" => WindowNow(a).tokens > 0)
    <3> DEFINE h == windowHint[a]
               w == window[a]
    <3>1. h.at \in Int /\ now \in Int /\ w \in Window /\ w.ordered \in Int /\ w.refilled \in Int
      BY <2>1, <2>3 DEF LimitTypes, Window
    <3>2. h.at >= w.ordered + MinSpacing /\ (h.limit = "tokens" => h.at >= w.refilled + Refill)
      BY <2>3 DEF LimitInv, WindowHintFits
    <3>3. Spaced(a)
      BY <2>3, <3>1, <3>2, Positive DEF Spaced
    <3>4. ASSUME h.limit = "tokens"
          PROVE  WindowNow(a).tokens > 0
      <4>1. now - w.refilled >= Refill
        BY <2>3, <3>1, <3>2, <3>4, Positive
      <4> QED
        BY <3>1, <4>1, Positive DEF WindowNow, Window
    <3> QED
      BY <3>3, <3>4
  <2> QED
    BY <2>2, <2>3
<1> QED
  BY <1>1, GateInit, GateStep, LimitInit, LimitStep, PTL DEF Spec
=============================================================================
