----------------------------- MODULE MCCampaign -----------------------------
EXTENDS Campaign, FiniteSets

CONSTANTS t1, w1, u1, c1, s1, MaxHazards

\* A repeat campaign: one scenario, several times.
OneScenario == [k \in Planned |-> s1]

\* Behaviours are followed until they have met this many hazards and one more.
FewHazards == Cardinality(met) <= MaxHazards
=============================================================================
