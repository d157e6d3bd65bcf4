---------------------------- MODULE MCHandshake ----------------------------
(* A hub that is the one host of the others, and nodes that all have each  *)
(* other as hosts.                                                         *)
EXTENDS Handshake, SequencesExt

CONSTANT Hub

StarHosts == [n \in Nodes |-> SetToSeq({Hub} \ {n})]
MutualHosts == [n \in Nodes |-> SetToSeq(Nodes \ {n})]
Renamings == Permutations(Nodes)
=============================================================================
