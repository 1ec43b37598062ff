----------------------------- MODULE MCConnect -----------------------------
(* Two nodes that each type a C command naming the other, so that the two  *)
(* connections race and one of them is dropped as a duplicate; a link      *)
(* failure and three connections let a broken outgoing connection be       *)
(* retried and meet the peer's own reconnection.                           *)
EXTENDS Connect

MCCommands == {<<"n1", "n2">>, <<"n2", "n1">>}
=============================================================================
