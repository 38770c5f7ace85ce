-------------------------- MODULE MCRendererControl --------------------------
(* RendererControl with a few calls; every value comes from the cfg.        *)
EXTENDS RendererControl
=============================================================================
