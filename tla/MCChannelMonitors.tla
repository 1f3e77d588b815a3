--------------------------- MODULE MCChannelMonitors ---------------------------
(***************************************************************************)
(* Channel monitors in their two stores, with a queue that fills up.       *)
(***************************************************************************)
EXTENDS ChannelMonitorPersister, TLC

Symmetry == Permutations(Channels)

(* The constants are as the proofs assume. *)
ASSUME InstanceIsProper == BoundsAreNat /\ GoogleVfsIsBool
=============================================================================
