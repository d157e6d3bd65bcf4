------------------------------ MODULE UndoStack ------------------------------
(***************************************************************************)
(* What a stack of commands with Undo promises: undoing the last command   *)
(* that is not undone yet gives back what was there before it, if it was   *)
(* given to a value it can be taken back from.  Once an Undo has missed,   *)
(* or the value was replaced behind the stack's back, nothing is promised  *)
(* of the commands below.                                                  *)
(***************************************************************************)
EXTENDS Integers, Sequences, SequencesExt

VARIABLES
  current, \* the value the commands work on
  past     \* for each command done: the value before it, and whether Undo is sure

Unsure(s) == [i \in DOMAIN s |-> [was |-> s[i].was, sure |-> FALSE]]

Init == past = << >>

Do ==
  /\ Len(past') = Len(past) + 1
  /\ Front(past') = past
  /\ Last(past').was = current

UndoSure ==
  /\ past # << >> /\ Last(past).sure
  /\ current' = Last(past).was
  /\ past' = Front(past)

UndoUnsure ==
  /\ past # << >> /\ ~Last(past).sure
  /\ past' = Unsure(Front(past))

Replace == past' = Unsure(past)

Next == Do \/ UndoSure \/ UndoUnsure \/ Replace
Spec == Init /\ [][Next]_<< current, past >>
=============================================================================
