--------------------------- MODULE MCCtConsensus ---------------------------
(* Three servers and two colors.  The leader of round 1 starts with red, the   *)
(* others, among them the leader of round 2, with red too or with blue.      *)
EXTENDS CtConsensus

LeaderRed == {[i \in 0 .. N - 1 |-> IF i = 1 THEN "red" ELSE c] : c \in Colors}

=============================================================================
