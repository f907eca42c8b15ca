--------------------------- MODULE MCAgentGateway ---------------------------
(***************************************************************************)
(* AgentGateway on small instances.                                        *)
(***************************************************************************)
EXTENDS AgentGateway, TLC

CONSTANTS g1, g2, g3, g4, m1, k1, k2

From(kind, a, m, invite, sound) ==
    [kind |-> kind, key |-> a, invite |-> invite, admin |-> FALSE,
     market |-> m, sound |-> sound, agent |-> NoAgent]
ByAdmin(kind, a, key) ==
    [kind |-> kind, key |-> key, invite |-> TRUE, admin |-> TRUE,
     market |-> NoMarket, sound |-> TRUE, agent |-> a]

Active(t, lookup) == [exists |-> TRUE, status |-> "ACTIVE", tier |-> t, lookup |-> lookup]
Absent == [exists |-> FALSE, status |-> "ACTIVE", tier |-> "UNVERIFIED", lookup |-> FALSE]

\* A trusted agent from before the lookup, one with it; the others do not exist yet.
Profiles == g1 :> Active("TRUSTED", FALSE) @@ g2 :> Absent @@ g3 :> Absent
            @@ g4 :> Active("TRUSTED", TRUE)

Order == From("order", g4, m1, TRUE, TRUE)
Promote == ByAdmin("trust", g4, NoAgent)
Cancel == From("cancel", g1, NoMarket, TRUE, TRUE)
Setting(secret, a, b) == [inviteSecret |-> secret, sends |-> k1 :> a @@ k2 :> b]

\* Orders that compete for the buckets while trust changes; requests at every gate
\* beside changes of the profile, with and without invitations; creations of agents.
Loads == {
    Setting(TRUE, {Order}, {Order, Promote}),
    Setting(TRUE, {From("order", g1, NoMarket, TRUE, FALSE), Cancel,
                   From("order", NoAgent, m1, TRUE, TRUE), From("valuation", NoAgent, m1, TRUE, TRUE)},
            {ByAdmin("patch", g1, NoAgent), From("cancel", g1, NoMarket, FALSE, FALSE)}),
    Setting(FALSE, {Cancel, From("order", NoAgent, m1, TRUE, TRUE)},
            {ByAdmin("patch", g1, g1), From("cancel", g1, NoMarket, FALSE, FALSE)}),
    Setting(TRUE, {ByAdmin("create", g2, NoAgent), From("create", NoAgent, NoMarket, FALSE, TRUE)},
            {ByAdmin("create", g3, g1), From("valuation", g1, m1, TRUE, TRUE)}) }
=============================================================================
