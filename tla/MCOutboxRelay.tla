--------------------------- MODULE MCOutboxRelay ---------------------------
(***************************************************************************)
(* Small instances of OutboxRelay for TLC.                                 *)
(***************************************************************************)
EXTENDS OutboxRelay, TLC

CONSTANTS t1, t2, t3, i1, i2

(* Two ticks of one instance and one of another. *)
TwoInstances == (t1 :> i1) @@ (t2 :> i1) @@ (t3 :> i2)
=============================================================================
