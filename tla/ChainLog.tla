------------------------------ MODULE ChainLog ------------------------------
(***************************************************************************)
(* What a Blockchain promises to its readers, whatever its threads do: the *)
(* chain only grows, one block at a time, and a block is only ever put on  *)
(* top of the chain it was validated against.  Node implements it.         *)
(***************************************************************************)
EXTENDS Coin

VARIABLE chain

Init == chain = << >>

Extend ==
  /\ Len(chain') = Len(chain) + 1
  /\ \A i \in DOMAIN chain : chain'[i] = chain[i]
  /\ Acceptable(chain'[Len(chain')], chain)

Spec == Init /\ [][Extend]_chain
=============================================================================
