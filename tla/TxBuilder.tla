------------------------------ MODULE TxBuilder ------------------------------
(***************************************************************************)
(* The transaction builder: Receiver turns each call into a command, runs  *)
(* it on the one static transaction Command::txe and keeps it for Undo.    *)
(*                                                                         *)
(* An input stands for the three arguments it is made of (output, tail     *)
(* number, data of the transaction, hashed by setHash and by match alike). *)
(***************************************************************************)
EXTENDS Coin, SequencesExt

CONSTANTS
  Inputs,      \* inputs the caller may name
  Tails,       \* tails the caller may name
  Keys,        \* key pairs
  MaxCommands, \* bound: commands done and not undone
  MaxItems     \* bound: a command is run while txe has fewer inputs and tails

ASSUME BuilderBounds == {MaxCommands, MaxItems} \subseteq Nat \ {0}

VARIABLES
  txe,          \* Command::txe
  DoneCommands, \* Receiver::DoneCommands
  past          \* history: the transaction before each of them, see UndoStack

vars == << txe, DoneCommands, past >>

-----------------------------------------------------------------------------
(***************************************************************************)
(* Transaction's own operations.                                           *)
(***************************************************************************)

\* 64 and 279 zero bytes: the signature and the key of a default Transaction.
NoSignature == << "zeros" >>
NoKey == "nokey"

Default == [inputs |-> << >>, tails |-> << >>, pubKey |-> NoKey, signature |-> NoSignature]

\* Mutant: the signature is not part of what is signed.
DataWithoutSignature(t) == << t.inputs, t.tails, t.pubKey >>

\* Transaction::getTxeData: whatever signature there is, is in it.
TxeData(t) == << t.inputs, t.tails, t.pubKey, t.signature >>

\* Transaction::sign, and validateSignature's check of the transaction it
\* gets: a signature determines the key and the data it was made for.
Signature(key, data) == << "signature", key, data >>
Signed(t, key) == [t EXCEPT !.signature = Signature(key, TxeData(t))]
Verifies(t) == t.signature = Signature(t.pubKey, TxeData(t))

\* Mutant: the loop of removeInput started with the second one.
AllButFirstTail(tails, tail) ==
  IF tails = << >> THEN tails ELSE RemoveFirst(tails, tail)

\* Transaction::removeTail: its loop starts at 1 and never sees the first tail.
RemoveTail(tails, tail) ==
  IF tails = << >> THEN tails ELSE << Head(tails) >> \o RemoveFirst(Tail(tails), tail)

-----------------------------------------------------------------------------
(***************************************************************************)
(* The commands.  clear carries the transaction it swapped out.            *)
(***************************************************************************)
Command(op, arg) == [op |-> op, arg |-> arg]

Commands ==
  [op : {"addInput", "removeInput"}, arg : Inputs]
    \union [op : {"addTail", "removeTail"}, arg : Tails]
    \union [op : {"sign"}, arg : Keys]
    \union {Command("clear", Default)}

\* Execute of each command.
Execute(c, t) ==
  CASE c.op = "addInput"    -> [t EXCEPT !.inputs = Append(@, c.arg)]
    [] c.op = "removeInput" -> [t EXCEPT !.inputs = RemoveFirst(@, c.arg)]
    [] c.op = "addTail"     -> [t EXCEPT !.tails = Append(@, c.arg)]
    [] c.op = "removeTail"  -> [t EXCEPT !.tails = RemoveTail(@, c.arg)]
    [] c.op = "sign"        -> Signed(t, c.arg)
    [] c.op = "clear"       -> c.arg

\* Mutant: Cleaner that assigns instead of swapping.
KeptAsIs(c, t) == c

\* What is kept of a command: Cleaner swaps and so keeps the old transaction.
Kept(c, t) == IF c.op = "clear" THEN Command("clear", t) ELSE c

\* unExecute of each command.  What removeInput and removeTail removed, if
\* they did, comes back at the end; sign is undone to zeros.
Unexecute(c, t) ==
  CASE c.op = "addInput"    -> [t EXCEPT !.inputs = RemoveFirst(@, c.arg)]
    [] c.op = "removeInput" -> [t EXCEPT !.inputs = Append(@, c.arg)]
    [] c.op = "addTail"     -> [t EXCEPT !.tails = RemoveTail(@, c.arg)]
    [] c.op = "removeTail"  -> [t EXCEPT !.tails = Append(@, c.arg)]
    [] c.op = "sign"        -> [t EXCEPT !.signature = NoSignature]
    [] c.op = "clear"       -> c.arg

\* x occurs in s at the end only, if at all: nothing else follows it.
OnlyAtEnd(x, s) ==
  \A i \in DOMAIN s : s[i] = x => \A j \in i .. Len(s) : s[j] = x

\* The transactions a command can be taken back from.
Undoable(c, t) ==
  CASE c.op = "addInput"    -> OnlyAtEnd(c.arg, t.inputs)
    [] c.op = "removeInput" -> t.inputs # << >> /\ Last(t.inputs) = c.arg
                                 /\ OnlyAtEnd(c.arg, t.inputs)
    [] c.op = "addTail"     -> t.tails # << >> /\ OnlyAtEnd(c.arg, Tail(t.tails))
    [] c.op = "removeTail"  -> Len(t.tails) > 1 /\ Last(t.tails) = c.arg
                                 /\ OnlyAtEnd(c.arg, Tail(t.tails))
    [] c.op = "sign"        -> t.signature = NoSignature
    [] c.op = "clear"       -> TRUE

-----------------------------------------------------------------------------
(***************************************************************************)
(* Receiver.                                                               *)
(***************************************************************************)
\* History: none of these Undos can be relied on any more.
Unsure(entries) == [i \in DOMAIN entries |-> [was |-> entries[i].was, sure |-> FALSE]]

Init == txe = Default /\ DoneCommands = << >> /\ past = << >>

\* Initialize: a new transaction with this key; DoneCommands stays.
Initialize(key) ==
  /\ txe' = [Default EXCEPT !.pubKey = key]
  /\ past' = Unsure(past)
  /\ UNCHANGED DoneCommands

\* addInput, addTail, removeInput, removeTail, sign and clear: execute, keep.
Do(c) ==
  /\ txe' = Execute(c, txe)
  /\ DoneCommands' = Append(DoneCommands, Kept(c, txe))
  /\ past' = Append(past, [was |-> txe, sure |-> Undoable(c, txe)])

\* Mutant: pop_back is forgotten.
UndoWithoutPop ==
  /\ DoneCommands # << >>
  /\ txe' = Unexecute(Last(DoneCommands), txe)
  /\ past' = Front(past)
  /\ UNCHANGED DoneCommands

\* Undo; with nothing to undo it prints a line and changes nothing.
Undo ==
  /\ DoneCommands # << >>
  /\ txe' = Unexecute(Last(DoneCommands), txe)
  /\ DoneCommands' = Front(DoneCommands)
  /\ past' = IF Last(past).sure THEN Front(past)
             ELSE Unsure(Front(past))

Room ==
  /\ Len(DoneCommands) < MaxCommands
  /\ Len(txe.inputs) + Len(txe.tails) < MaxItems

Next ==
  \/ \E key \in Keys : Initialize(key)
  \/ Room /\ \E c \in Commands : Do(c)
  \/ Undo

Spec == Init /\ [][Next]_vars

-----------------------------------------------------------------------------
(***************************************************************************)
(* Properties.                                                             *)
(***************************************************************************)

\* A transaction as the commands make it.
IsBuilt(t) ==
  /\ t = [inputs |-> t.inputs, tails |-> t.tails,
           pubKey |-> t.pubKey, signature |-> t.signature]
  /\ t.inputs \in Seq(Inputs) /\ t.tails \in Seq(Tails)

IsKept(c) ==
  \/ c \in Commands
  \/ c = Command("clear", c.arg) /\ IsBuilt(c.arg)

\* The type of every variable: whatever is undone in whatever order, txe holds
\* only inputs and tails somebody named, and each command kept has its entry
\* in the history.
TypeOK ==
  /\ IsBuilt(txe)
  /\ IsSeq(DoneCommands) /\ IsSeq(past) /\ Len(past) = Len(DoneCommands)
  /\ \A i \in DOMAIN DoneCommands : IsKept(DoneCommands[i])
  /\ \A i \in DOMAIN past : IsBuilt(past[i].was) /\ past[i].sure \in BOOLEAN

\* Undo gives the transaction before the last command back if that command
\* could be taken back from it, through any nesting of commands, clears and
\* Undos (Receiver::Undo).
Stack == INSTANCE UndoStack WITH current <- txe, past <- past
UndoStackSpec == Stack!Spec

\* The condition is exact: an Undo right after a command that could not be
\* taken back never gives the transaction before it back.  An equal input
\* further up, the first tail, an input that was not there and an earlier
\* signature are lost or misplaced (addInput.cpp:19, addTail.h:23,
\* removeInput.cpp:19, signer.cpp:16).
MissesElsewhere ==
  [][ (/\ Undo
       /\ ~Undoable(Last(DoneCommands), Last(past).was)
       /\ txe = Execute(Last(DoneCommands), Last(past).was))
      => txe' # Last(past).was ]_vars

\* No transaction the builder makes passes validateSignature, at any node and
\* after any number of commands: sign covers the signature that was there
\* before (transaction.cpp:137), the check covers the one made
\* (blockchain.cpp:223).
NeverVerifies == ~Verifies(txe)
=============================================================================
