-------------------------- MODULE MCTextConversion --------------------------
(* TextConversion on the code points where a byte or a code length changes. *)
EXTENDS TextConversion

BoundaryPoints ==
  {13, 65, 127, 128, 191, 192, 255, 256, 2047, 2048, 55295, 57344, 65535, 65536, 1114111}
=============================================================================
