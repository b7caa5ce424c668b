---------------------------- MODULE MCTimestamp ----------------------------
(***************************************************************************)
(* Small instances of Timestamp.  The unit of time is a second, the        *)
(* interval and the slot are those of the template runtime.                *)
(***************************************************************************)
EXTENDS Timestamp

OneAhead == [n \in Node |-> IF n = 0 THEN 1 ELSE 0]
=============================================================================
