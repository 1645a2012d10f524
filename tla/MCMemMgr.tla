------------------------------ MODULE MCMemMgr ------------------------------
(* MemMgr on a dozen paragraphs: one process that allocates with every      *)
(* strategy, and programs that are loaded and end with three of them.       *)
EXTENDS MemMgr
AllStrategies   == {s \in Strategies : ~(s.uo /\ s.u)}
MixedStrategies == {[fit |-> "last", uo |-> FALSE, u |-> TRUE],
                    [fit |-> "best", uo |-> TRUE, u |-> FALSE],
                    [fit |-> "first", uo |-> FALSE, u |-> FALSE]}
BothMixes == {[sizes |-> {0, 1, 2}, strategies |-> AllStrategies, depth |-> 1],
              [sizes |-> {1}, strategies |-> MixedStrategies, depth |-> 2]}
=============================================================================
