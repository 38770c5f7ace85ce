------------------------------ MODULE MCRootfs ------------------------------
(* Rootfs with the bounds of Rootfs.cfg. *)
EXTENDS Rootfs
=============================================================================
