------------------------- MODULE MCEnrichmentDrainer -------------------------
(***************************************************************************)
(* Instances of EnrichmentDrainer for TLC.                                  *)
(***************************************************************************)
EXTENDS EnrichmentDrainer

CONSTANT i1

\* Two rows that never embed ahead of a good one, and every other nature.
Triple(a, b, c) == [m \in 1..3 |-> CASE m = 1 -> a [] m = 2 -> b [] OTHER -> c]
MCTriples == {Triple("poison", "poison", "good"), Triple("slow", "misfit", "good"),
              Triple("blank", "good", "poison")}

Pair(a, b) == [m \in 1..2 |-> IF m = 1 THEN a ELSE b]
MCPairs == {Pair("poison", "good"), Pair("slow", "misfit"), Pair("blank", "good")}
=============================================================================
