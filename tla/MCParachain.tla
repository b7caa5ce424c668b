---------------------------- MODULE MCParachain ----------------------------
(***************************************************************************)
(* Small instances of Parachain.  The unit of time is the slot of a relay  *)
(* chain block, six seconds, so the minimum interval is one.               *)
(***************************************************************************)
EXTENDS Parachain
=============================================================================
