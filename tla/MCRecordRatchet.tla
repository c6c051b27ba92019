--------------------------- MODULE MCRecordRatchet ---------------------------
(***************************************************************************)
(* Bounds for TLC: two peers, of which the client publishes.               *)
(***************************************************************************)
EXTENDS RecordRatchet

Short == [p \in Peers |-> IF p = "client" THEN 2 ELSE 0]
=============================================================================
