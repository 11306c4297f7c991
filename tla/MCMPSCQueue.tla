----------------------------- MODULE MCMPSCQueue -----------------------------
(* Two producers and enough nodes for a stub, two nodes that are being      *)
(* linked and one that is used again.                                       *)
EXTENDS MPSCQueue
=============================================================================
