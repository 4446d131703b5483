----------------------------- MODULE MCMultiSync -----------------------------
(* Two machines, one call of sync_now under way on each. *)
EXTENDS MultiSync

MCCalls == {<<1, 1>>, <<2, 1>>}
=============================================================================
