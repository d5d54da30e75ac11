------------------------- MODULE MCCommandExchange -------------------------
(* Instances of CommandExchange for TLC: commands a, b, c, d of one cycle,  *)
(* k of another, m without a stream; the sets a configuration gives select  *)
(* which of them there are and what they do.                                *)
EXTENDS CommandExchange

CONSTANTS a, b, c, d, k, m, s1, s2

OneStream == [x \in Command |-> s1]
WithForeign == [x \in Command |-> IF x = m THEN NoStream ELSE s1]
TwoStreams == [x \in Command |-> IF x = k THEN s2 ELSE s1]
=============================================================================
