---------------------------- MODULE MCCurlDriver ----------------------------
(* Two descriptor numbers, two fetches, and libcurl free in its callbacks.   *)
EXTENDS CurlDriver

InOrBoth == {{"in"}, {"in", "out"}}

=============================================================================
