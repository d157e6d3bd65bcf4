------------------------------ MODULE Delivery ------------------------------
(***************************************************************************)
(* What a connection promises: the items of a letter arrive in their       *)
(* order, each once and each as it was sent, until something spoils it;    *)
(* what has arrived by then stays.                                         *)
(***************************************************************************)
EXTENDS Integers, Sequences, SequencesExt

VARIABLES letter, box, spoiled

Init == box = << >> /\ spoiled \in BOOLEAN

Deliver ==
  /\ ~spoiled /\ Len(box) < Len(letter)
  /\ box' = Append(box, letter[Len(box) + 1])
  /\ UNCHANGED << letter, spoiled >>

Spoil == ~spoiled /\ spoiled' = TRUE /\ UNCHANGED << letter, box >>

Misdeliver == spoiled /\ IsPrefix(box, box') /\ UNCHANGED << letter, spoiled >>

Next == Deliver \/ Spoil \/ Misdeliver
Spec == Init /\ [][Next]_<< letter, box, spoiled >>
=============================================================================
