------------------------------ MODULE MCMerkle ------------------------------
(* Blocks of up to nine transactions of two kinds. *)
EXTENDS Merkle

TwoKinds == {"a", "b"}
=============================================================================
