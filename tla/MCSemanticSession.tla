-------------------------- MODULE MCSemanticSession --------------------------
(* Two tasks of one channel, one after the other: the second meets what    *)
(* the first left behind in the session of the channel.                    *)
EXTENDS SemanticSession

CONSTANTS first, second, channel

MCChannelOf == [t \in {first, second} |-> channel]
=============================================================================
