---------------------------- MODULE MCSilentRetry ----------------------------
(* The instances of MCForwarding, with the history of SilentRetry.         *)
EXTENDS MCForwarding, SilentRetry
=============================================================================
