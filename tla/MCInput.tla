------------------------------ MODULE MCInput ------------------------------
(* Two fingers and two keys. *)
EXTENDS Input

TwoFingers == {0, 1}
TwoKeys == {1, 2}
=============================================================================
