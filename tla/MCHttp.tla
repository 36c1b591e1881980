------------------------------- MODULE MCHttp -------------------------------
(* Two pipelined requests: one without and one with a body, one answered in  *)
(* one piece and one in chunks.                                              *)
EXTENDS Http

Bodies == [q \in Requests |-> q - 1]
Ones == [q \in Requests |-> 1]

=============================================================================
