------------------------ MODULE MCForwardingRefinement ------------------------
(* The instances of MCForwarding, with the refinement mapping.             *)
EXTENDS MCForwarding, ForwardingRefinement
=============================================================================
