--------------------------- MODULE MCPluginBridge ---------------------------
(* Instances of PluginBridge for TLC: two messages of one channel, the     *)
(* second a sibling of the mention that is the first, and one of another.  *)
EXTENDS PluginBridge, TLC

CONSTANTS p1, p2, k1, k2, d1, d2, d3

MCKeyOf     == [d \in Deliveries |-> IF d = d3 THEN k2 ELSE k1]
MCRank      == [d \in Deliveries |-> CASE d = d1 -> 2
                                       [] d = d2 -> 1
                                       [] d = d3 -> 3]
MCMentionOf == [d \in Deliveries |-> IF d = d2 THEN d1 ELSE d]
=============================================================================
