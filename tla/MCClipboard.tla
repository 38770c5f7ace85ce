----------------------------- MODULE MCClipboard -----------------------------
(* Clipboard with two X clients, which are interchangeable.                 *)
EXTENDS Clipboard, TLC

ClientSymmetry == Permutations(Clients)
=============================================================================
