------------------------- MODULE MCRolloutMigration -------------------------
EXTENDS RolloutMigration, TLC

\* split_list(enforce_divisible_batch=False): the first instances get more.
ThreeGroups == {"g1", "g2", "g3"}
FourGroups == {"g1", "g2", "g3", "g4"}
TwoAndOne == 0 :> {"g1", "g2"} @@ 1 :> {"g3"}
TwoAndOnes == 0 :> {"g1", "g2"} @@ 1 :> {"g3"} @@ 2 :> {"g4"}
\* Fewer prompts than instances.
OneShareEmpty == 0 :> {"g1", "g2"} @@ 1 :> {"g3"} @@ 2 :> {}

Ones == [g \in Groups |-> 1]
Twos == [g \in Groups |-> 2]
=============================================================================
