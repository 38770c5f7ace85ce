---------------------------- MODULE MCFrameSync ----------------------------
(* FrameSync with the bounds of the cfg.                                    *)
EXTENDS FrameSync
=============================================================================
