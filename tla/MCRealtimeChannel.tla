-------------------------- MODULE MCRealtimeChannel --------------------------
(***************************************************************************)
(* Instances of RealtimeChannel for TLC.                                   *)
(***************************************************************************)
EXTENDS RealtimeChannel

\* From these, within four events: a rejection and two steps, an approval with
\* or without a reservation, an outcome.
GateAndOrder == {"approval_required", "work_order_live"}
=============================================================================
