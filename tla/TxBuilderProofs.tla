--------------------------- MODULE TxBuilderProofs ---------------------------
(***************************************************************************)
(* Theorems about TxBuilder, for every set of inputs, tails and keys and   *)
(* every bound: Undo keeps what UndoStack promises.                        *)
(***************************************************************************)
EXTENDS TxBuilder, SeqLemmas

-----------------------------------------------------------------------------
(* Commands. *)

\* What was appended is the first of its kind to go, or equal to it.
LEMMA RemoveFirstOfAppend ==
  ASSUME NEW S, NEW s \in Seq(S), NEW x \in S, OnlyAtEnd(x, s)
  PROVE  RemoveFirst(Append(s, x), x) = s
  <1> DEFINE a == Append(s, x)
  <1>1. /\ a \in Seq(S) /\ Len(a) = Len(s) + 1
        /\ \A k \in 1 .. Len(s) : a[k] = s[k]
        /\ a[Len(s) + 1] = x
    BY AppendProperties
  <1>2. DOMAIN s = 1 .. Len(s) /\ Len(s) \in Nat
    OBVIOUS
  <1> HIDE DEF a
  <1>3. PICK i \in 1 .. Len(a) : a[i] = x /\ RemoveFirst(a, x) = RemoveAt(a, i)
    <2>1. \E j \in 1 .. Len(a) : a[j] = x
      BY <1>1, <1>2
    <2> QED BY <2>1, <1>1, RemoveFirstAt
  <1>4. \A k \in i .. Len(s) : s[k] = x
    <2>1. CASE i \in 1 .. Len(s)
      BY <2>1, <1>1, <1>2, <1>3 DEF OnlyAtEnd
    <2>2. CASE i = Len(s) + 1
      BY <2>2, <1>2
    <2> QED BY <2>1, <2>2, <1>1, <1>2
  <1>5. /\ RemoveAt(a, i) \in Seq(S) /\ Len(RemoveAt(a, i)) = Len(s)
        /\ \A k \in 1 .. Len(s) :
             RemoveAt(a, i)[k] = IF k < i THEN a[k] ELSE a[k + 1]
    <2>1. /\ RemoveAt(a, i) \in Seq(S) /\ Len(RemoveAt(a, i)) = Len(a) - 1
          /\ \A k \in 1 .. Len(a) - 1 :
               RemoveAt(a, i)[k] = IF k < i THEN a[k] ELSE a[k + 1]
      BY <1>1, RemoveAtType, RemoveAtIndex
    <2>2. Len(a) - 1 = Len(s)
      BY <1>1, <1>2
    <2> QED BY <2>1, <2>2
  <1>6. ASSUME NEW k \in 1 .. Len(s)
        PROVE  RemoveAt(a, i)[k] = s[k]
    <2>1. CASE k < i
      BY <2>1, <1>1, <1>5
    <2>2. CASE ~ (k < i)
      <3>1. s[k] = x
        BY <2>2, <1>2, <1>4
      <3>2. a[k + 1] = x
        <4>1. CASE k = Len(s)
          BY <4>1, <1>1
        <4>2. CASE k # Len(s)
          <5>1. k + 1 \in 1 .. Len(s) /\ k + 1 \in i .. Len(s)
            <6>1. i \in Nat /\ Len(s) \in Nat
              BY <1>1, <1>2
            <6> QED BY <6>1, <4>2, <2>2, Between
          <5> QED BY <5>1, <1>1, <1>4
        <4> QED BY <4>1, <4>2
      <3> QED BY <3>1, <3>2, <2>2, <1>5
    <2> QED BY <2>1, <2>2
  <1>7. RemoveAt(a, i) = s
    BY <1>5, <1>6, SeqEqual
  <1> QED BY <1>3, <1>7 DEF a

LEMMA AppendOfRemoveFirst ==
  ASSUME NEW S, NEW s \in Seq(S), NEW x \in S,
         s # << >>, Last(s) = x, OnlyAtEnd(x, s)
  PROVE  Append(RemoveFirst(s, x), x) = s
  <1>1. DOMAIN s = 1 .. Len(s) /\ Len(s) \in Nat \ {0} /\ s[Len(s)] = x
    BY EmptySeq DEF Last
  <1>2. PICK i \in 1 .. Len(s) : s[i] = x /\ RemoveFirst(s, x) = RemoveAt(s, i)
    BY <1>1, RemoveFirstAt
  <1> DEFINE r == RemoveAt(s, i)
  <1>3. /\ r \in Seq(S) /\ Len(r) = Len(s) - 1
        /\ \A k \in 1 .. Len(s) - 1 : r[k] = IF k < i THEN s[k] ELSE s[k + 1]
    BY RemoveAtType, RemoveAtIndex
  <1> HIDE DEF r
  <1>4. /\ Append(r, x) \in Seq(S) /\ Len(Append(r, x)) = Len(s)
        /\ \A k \in 1 .. Len(s) - 1 : Append(r, x)[k] = r[k]
        /\ Append(r, x)[Len(s)] = x
    <2>1. /\ Append(r, x) \in Seq(S) /\ Len(Append(r, x)) = Len(r) + 1
          /\ \A k \in 1 .. Len(r) : Append(r, x)[k] = r[k]
          /\ Append(r, x)[Len(r) + 1] = x
      BY <1>3, AppendProperties
    <2>2. Len(r) + 1 = Len(s) /\ Len(r) = Len(s) - 1
      BY <1>1, <1>3
    <2> QED BY <2>1, <2>2
  <1>5. \A k \in i .. Len(s) : s[k] = x
    BY <1>1, <1>2 DEF OnlyAtEnd
  <1>6. ASSUME NEW k \in 1 .. Len(s)
        PROVE  Append(r, x)[k] = s[k]
    <2>1. CASE k = Len(s)
      BY <2>1, <1>1, <1>4
    <2>2. CASE k # Len(s) /\ k < i
      <3>1. k \in 1 .. Len(s) - 1
        BY <2>2, <1>1, Between
      <3> QED BY <3>1, <2>2, <1>3, <1>4
    <2>3. CASE k # Len(s) /\ ~ (k < i)
      <3>1. k \in i .. Len(s) /\ k + 1 \in i .. Len(s) /\ k \in 1 .. Len(s) - 1
        <4>1. i \in Nat /\ Len(s) \in Nat
          BY <1>1
        <4> QED BY <4>1, <2>3, Between
      <3> QED BY <3>1, <2>3, <1>3, <1>4, <1>5
    <2> QED BY <2>1, <2>2, <2>3
  <1>7. Append(r, x) = s
    BY <1>4, <1>6, SeqEqual
  <1> QED BY <1>2, <1>7 DEF r

LEMMA CommandCases ==
  ASSUME NEW c \in Commands
  PROVE  \/ c.op \in {"addInput", "removeInput"} /\ c.arg \in Inputs
         \/ c.op \in {"addTail", "removeTail"} /\ c.arg \in Tails
         \/ c.op = "sign"
         \/ c.op = "clear" /\ c.arg = Default
  BY DEF Commands, Command

LEMMA DefaultIsBuilt == IsBuilt(Default)
  BY DEF IsBuilt, Default

LEMMA WithInputs ==
  ASSUME NEW t, IsBuilt(t), NEW s \in Seq(Inputs)
  PROVE  IsBuilt([t EXCEPT !.inputs = s])
  BY DEF IsBuilt

LEMMA WithTails ==
  ASSUME NEW t, IsBuilt(t), NEW s \in Seq(Tails)
  PROVE  IsBuilt([t EXCEPT !.tails = s])
  BY DEF IsBuilt

LEMMA WithSignature ==
  ASSUME NEW t, IsBuilt(t), NEW s
  PROVE  IsBuilt([t EXCEPT !.signature = s])
  BY DEF IsBuilt

\* The first tail stays, the rest loses one.
LEMMA RemoveTailType ==
  ASSUME NEW S, NEW s \in Seq(S), NEW x
  PROVE  RemoveTail(s, x) \in Seq(S)
  <1>1. CASE s = << >>
    BY <1>1 DEF RemoveTail
  <1>2. CASE s # << >>
    <2>1. Head(s) \in S /\ Tail(s) \in Seq(S)
      BY <1>2, HeadTailProperties
    <2>2. RemoveFirst(Tail(s), x) \in Seq(S)
      BY <2>1, RemoveFirstType
    <2>3. << Head(s) >> \in Seq(S)
      BY <2>1
    <2>4. << Head(s) >> \o RemoveFirst(Tail(s), x) \in Seq(S)
      BY <2>2, <2>3, ConcatProperties
    <2> QED BY <1>2, <2>4 DEF RemoveTail
  <1> QED BY <1>1, <1>2

LEMMA ExecuteType ==
  ASSUME NEW t, IsBuilt(t), NEW c \in Commands
  PROVE  IsBuilt(Execute(c, t))
  <1> USE DEF Execute
  <1>1. t.inputs \in Seq(Inputs) /\ t.tails \in Seq(Tails)
    BY DEF IsBuilt
  <1>2. CASE c.op = "addInput"
    <2>1. Append(t.inputs, c.arg) \in Seq(Inputs)
      BY <1>1, <1>2, CommandCases, AppendProperties
    <2> QED BY <1>2, <2>1, WithInputs
  <1>3. CASE c.op = "removeInput"
    <2>1. RemoveFirst(t.inputs, c.arg) \in Seq(Inputs)
      BY <1>1, RemoveFirstType
    <2> QED BY <1>3, <2>1, WithInputs
  <1>4. CASE c.op = "addTail"
    <2>1. Append(t.tails, c.arg) \in Seq(Tails)
      BY <1>1, <1>4, CommandCases, AppendProperties
    <2> QED BY <1>4, <2>1, WithTails
  <1>5. CASE c.op = "removeTail"
    <2>1. RemoveTail(t.tails, c.arg) \in Seq(Tails)
      BY <1>1, RemoveTailType
    <2> QED BY <1>5, <2>1, WithTails
  <1>6. CASE c.op = "sign"
    BY <1>6, WithSignature DEF Signed
  <1>7. CASE c.op = "clear"
    BY <1>7, CommandCases, DefaultIsBuilt
  <1> QED BY <1>2, <1>3, <1>4, <1>5, <1>6, <1>7, CommandCases

LEMMA KeptType ==
  ASSUME NEW t, IsBuilt(t), NEW c \in Commands
  PROVE  IsKept(Kept(c, t))
  BY DEF Kept, IsKept, Command

LEMMA UnexecuteType ==
  ASSUME NEW t, IsBuilt(t), NEW c, IsKept(c)
  PROVE  IsBuilt(Unexecute(c, t))
  <1> USE DEF Unexecute
  <1>1. t.inputs \in Seq(Inputs) /\ t.tails \in Seq(Tails)
    BY DEF IsBuilt
  <1>2. CASE c \in Commands
    <2>2. CASE c.op = "addInput"
      <3>1. RemoveFirst(t.inputs, c.arg) \in Seq(Inputs)
        BY <1>1, RemoveFirstType
      <3> QED BY <2>2, <3>1, WithInputs
    <2>3. CASE c.op = "removeInput"
      <3>1. Append(t.inputs, c.arg) \in Seq(Inputs)
        BY <1>1, <1>2, <2>3, CommandCases, AppendProperties
      <3> QED BY <2>3, <3>1, WithInputs
    <2>4. CASE c.op = "addTail"
      <3>1. RemoveTail(t.tails, c.arg) \in Seq(Tails)
        BY <1>1, RemoveTailType
      <3> QED BY <2>4, <3>1, WithTails
    <2>5. CASE c.op = "removeTail"
      <3>1. Append(t.tails, c.arg) \in Seq(Tails)
        BY <1>1, <1>2, <2>5, CommandCases, AppendProperties
      <3> QED BY <2>5, <3>1, WithTails
    <2>6. CASE c.op = "sign"
      BY <2>6, WithSignature
    <2>7. CASE c.op = "clear"
      BY <1>2, <2>7, CommandCases, DefaultIsBuilt
    <2> QED BY <1>2, <2>2, <2>3, <2>4, <2>5, <2>6, <2>7, CommandCases
  <1>3. CASE c = Command("clear", c.arg) /\ IsBuilt(c.arg)
    BY <1>3 DEF Command
  <1> QED BY <1>2, <1>3 DEF IsKept

\* A command given to a transaction it can be taken back from is undone.
LEMMA Undone ==
  ASSUME NEW t, IsBuilt(t), NEW c \in Commands, Undoable(c, t)
  PROVE  Unexecute(Kept(c, t), Execute(c, t)) = t
  <1> USE DEF Execute, Unexecute, Kept
  <1>1. /\ t.inputs \in Seq(Inputs) /\ t.tails \in Seq(Tails)
        /\ t = [inputs |-> t.inputs, tails |-> t.tails,
                 pubKey |-> t.pubKey, signature |-> t.signature]
    BY DEF IsBuilt
  <1>2. CASE c.op = "addInput"
    <2>1. RemoveFirst(Append(t.inputs, c.arg), c.arg) = t.inputs
      BY <1>1, <1>2, CommandCases, RemoveFirstOfAppend DEF Undoable
    <2> QED BY <1>1, <1>2, <2>1
  <1>3. CASE c.op = "removeInput"
    <2>1. Append(RemoveFirst(t.inputs, c.arg), c.arg) = t.inputs
      BY <1>1, <1>3, CommandCases, AppendOfRemoveFirst DEF Undoable
    <2> QED BY <1>1, <1>3, <2>1
  <1>4. CASE c.op = "addTail"
    <2> DEFINE s == t.tails
               x == c.arg
    <2>1. s \in Seq(Tails) /\ x \in Tails /\ s # << >> /\ OnlyAtEnd(x, Tail(s))
      BY <1>1, <1>4, CommandCases DEF Undoable
    <2> HIDE DEF s, x
    <2>2. /\ Head(s) \in Tails /\ Tail(s) \in Seq(Tails)
          /\ s = << Head(s) >> \o Tail(s)
      BY <2>1, HeadAndTail
    <2>3. /\ Head(Append(s, x)) = Head(s) /\ Tail(Append(s, x)) = Append(Tail(s), x)
          /\ Append(s, x) # << >>
      BY <2>1, HeadTailAppend, AppendProperties
    <2>4. RemoveFirst(Append(Tail(s), x), x) = Tail(s)
      BY <2>1, <2>2, RemoveFirstOfAppend
    <2>5. RemoveTail(Append(s, x), x) = s
      BY <2>2, <2>3, <2>4 DEF RemoveTail
    <2> QED BY <1>1, <1>4, <2>5 DEF s, x
  <1>5. CASE c.op = "removeTail"
    <2> DEFINE s == t.tails
               x == c.arg
    <2>1. /\ s \in Seq(Tails) /\ x \in Tails /\ Len(s) > 1 /\ Last(s) = x
          /\ OnlyAtEnd(x, Tail(s))
      BY <1>1, <1>5, CommandCases DEF Undoable
    <2> HIDE DEF s, x
    <2>2. /\ Head(s) \in Tails /\ Tail(s) \in Seq(Tails) /\ s # << >>
          /\ s = << Head(s) >> \o Tail(s)
      <3>1. s # << >>
        BY <2>1, EmptySeq
      <3> QED BY <2>1, <3>1, HeadAndTail
    <2>3. Tail(s) # << >> /\ Last(Tail(s)) = x
      <3>1. Len(s) \in Nat
        BY <2>1
      <3>2. /\ Len(Tail(s)) = Len(s) - 1
            /\ \A k \in 1 .. Len(Tail(s)) : Tail(s)[k] = s[k + 1]
        BY <2>1, <2>2, HeadTailProperties
      <3>3. Tail(s)[Len(s) - 1] = s[(Len(s) - 1) + 1]
        BY <2>1, <3>1, <3>2
      <3>4. s[Len(s)] = x
        BY <2>1 DEF Last
      <3>5. (Len(s) - 1) + 1 = Len(s)
        BY <3>1
      <3>6. Last(Tail(s)) = x
        BY <3>2, <3>3, <3>4, <3>5 DEF Last
      <3>7. Tail(s) # << >>
        <4>1. Len(Tail(s)) # 0
          <5>1. \A n \in Nat : n > 1 => n - 1 # 0
            OBVIOUS
          <5>2. Len(s) > 1
            BY <2>1
          <5> QED BY <5>1, <5>2, <3>1, <3>2
        <4>2. Len(<< >>) = 0
          OBVIOUS
        <4> QED BY <4>1, <4>2
      <3> QED BY <3>6, <3>7
    <2>4. Append(RemoveFirst(Tail(s), x), x) = Tail(s)
      BY <2>1, <2>2, <2>3, AppendOfRemoveFirst
    <2> DEFINE r == RemoveFirst(Tail(s), x)
    <2>5. r \in Seq(Tails) /\ << Head(s) >> \in Seq(Tails) /\ << x >> \in Seq(Tails)
      <3>1. r \in Seq(Tails)
        BY <2>2, RemoveFirstType
      <3> QED BY <2>1, <2>2, <3>1
    <2>6. RemoveTail(s, x) = << Head(s) >> \o r
      BY <2>2 DEF RemoveTail
    <2>7. Append(RemoveTail(s, x), x) = s
      <3>0. << Head(s) >> \o r \in Seq(Tails)
        BY <2>5, ConcatProperties
      <3> HIDE DEF r
      <3>1. Append(<< Head(s) >> \o r, x) = (<< Head(s) >> \o r) \o << x >>
        BY <2>1, <3>0, AppendIsConcat
      <3>2. @ = << Head(s) >> \o (r \o << x >>)
        BY <2>5, ConcatAssociative
      <3>3. r \o << x >> = Append(r, x)
        BY <2>1, <2>5, AppendIsConcat
      <3>4. Append(r, x) = Tail(s)
        BY <2>4 DEF r
      <3> QED BY <2>2, <2>6, <3>1, <3>2, <3>3, <3>4
    <2> QED BY <1>1, <1>5, <2>7 DEF s, x
  <1>6. CASE c.op = "sign"
    BY <1>1, <1>6 DEF Undoable, Signed
  <1>7. CASE c.op = "clear"
    BY <1>7 DEF Command
  <1> QED BY <1>2, <1>3, <1>4, <1>5, <1>6, <1>7, CommandCases

-----------------------------------------------------------------------------
(***************************************************************************)
(* The inductive invariant.  UndoStackSpec speaks of the last command      *)
(* alone; after an Undo the one below it is the last, so every entry of    *)
(* the history must be sound already while commands lie on top of it.      *)
(***************************************************************************)

\* The transaction right after the i-th command.
After(i) == IF i = Len(past) THEN txe ELSE past[i + 1].was

Sound ==
  \A i \in DOMAIN DoneCommands :
    past[i].sure => Unexecute(DoneCommands[i], After(i)) = past[i].was

IInv == TypeOK /\ Sound

LEMMA UnsureIsSeq ==
  ASSUME NEW s, IsSeq(s)
  PROVE  /\ IsSeq(Unsure(s)) /\ Len(Unsure(s)) = Len(s)
         /\ DOMAIN Unsure(s) = DOMAIN s
         /\ \A i \in DOMAIN s : Unsure(s)[i] = [was |-> s[i].was, sure |-> FALSE]
  <1> DEFINE u == Unsure(s)
             T == {u[j] : j \in DOMAIN u}
  <1>1. DOMAIN s = 1 .. Len(s) /\ Len(s) \in Nat
    BY DEF IsSeq
  <1>2. /\ u = [i \in 1 .. Len(s) |-> [was |-> s[i].was, sure |-> FALSE]]
        /\ DOMAIN u = 1 .. Len(s)
    BY <1>1 DEF Unsure
  <1>3. u \in [1 .. Len(s) -> T]
    BY <1>2
  <1> HIDE DEF u, T
  <1>4. u \in Seq(T)
    BY <1>1, <1>3
  <1>5. Len(u) = Len(s)
    BY <1>1, <1>2, <1>4
  <1> QED BY <1>1, <1>2, <1>4, <1>5, IsSeqIntro DEF u

LEMMA InitInv == Init => IInv
  <1> SUFFICES ASSUME Init PROVE IInv
    OBVIOUS
  <1>1. DoneCommands = << >> /\ past = << >> /\ txe = Default
    BY DEF Init
  <1>2. << >> \in Seq({}) /\ Len(<< >>) = 0 /\ DOMAIN << >> = {}
    OBVIOUS
  <1>3. IsSeq(<< >>)
    BY <1>2, IsSeqIntro
  <1>4. TypeOK
    BY <1>1, <1>2, <1>3, DefaultIsBuilt DEF TypeOK
  <1>5. Sound
    BY <1>1, <1>2 DEF Sound
  <1> QED BY <1>4, <1>5 DEF IInv

LEMMA Lengths ==
  ASSUME TypeOK
  PROVE  /\ Len(past) \in Nat
         /\ DOMAIN past = 1 .. Len(past) /\ DOMAIN DoneCommands = 1 .. Len(past)
         /\ (past = << >> <=> Len(past) = 0)
         /\ (DoneCommands = << >> <=> Len(past) = 0)
  <1>1. /\ past \in Seq({past[i] : i \in DOMAIN past})
        /\ DoneCommands \in Seq({DoneCommands[i] : i \in DOMAIN DoneCommands})
        /\ Len(past) = Len(DoneCommands)
    BY DEF TypeOK, IsSeq
  <1> QED BY <1>1, EmptySeq

LEMMA InitializeStep ==
  ASSUME IInv, NEW key \in Keys, Initialize(key)
  PROVE  IInv'
  <1>1. /\ txe' = [Default EXCEPT !.pubKey = key]
        /\ past' = Unsure(past) /\ DoneCommands' = DoneCommands
    BY DEF Initialize
  <1>2. TypeOK
    BY DEF IInv
  <1>3. IsBuilt(txe')
    BY <1>1 DEF IsBuilt, Default
  <1>4. /\ IsSeq(past') /\ Len(past') = Len(past) /\ DOMAIN past' = DOMAIN past
        /\ \A i \in DOMAIN past : past'[i] = [was |-> past[i].was, sure |-> FALSE]
    BY <1>1, <1>2, UnsureIsSeq DEF TypeOK
  <1>5. \A j \in DOMAIN past : past'[j].was = past[j].was /\ past'[j].sure = FALSE
    BY <1>4
  <1>6. TypeOK'
    <2>1. \A j \in DOMAIN past' : IsBuilt(past'[j].was) /\ past'[j].sure \in BOOLEAN
      BY <1>2, <1>4, <1>5 DEF TypeOK
    <2> QED BY <1>1, <1>2, <1>3, <1>4, <2>1 DEF TypeOK
  <1>7. Sound'
    <2>1. DOMAIN DoneCommands' = DOMAIN past
      BY <1>1, <1>2, Lengths
    <2> QED BY <1>5, <2>1 DEF Sound
  <1> QED BY <1>6, <1>7 DEF IInv

LEMMA UndoableType ==
  ASSUME NEW t, NEW c \in Commands
  PROVE  Undoable(c, t) \in BOOLEAN
  <1> USE DEF Undoable, OnlyAtEnd
  <1>1. CASE c.op \in {"addInput", "removeInput"}
    BY <1>1
  <1>2. CASE c.op \in {"addTail", "removeTail"}
    BY <1>2
  <1>3. CASE c.op \in {"sign", "clear"}
    BY <1>3
  <1> QED BY <1>1, <1>2, <1>3, CommandCases

LEMMA DoStep ==
  ASSUME IInv, NEW c \in Commands, Do(c)
  PROVE  IInv'
  <1> DEFINE n == Len(past)
             e == [was |-> txe, sure |-> Undoable(c, txe)]
             k == Kept(c, txe)
  <1>1. /\ txe' = Execute(c, txe)
        /\ DoneCommands' = Append(DoneCommands, k)
        /\ past' = Append(past, e)
    BY DEF Do
  <1>2. TypeOK /\ Sound
    BY DEF IInv
  <1>3. /\ n \in Nat /\ DOMAIN past = 1 .. n /\ DOMAIN DoneCommands = 1 .. n
        /\ Len(DoneCommands) = n
    BY <1>2, Lengths DEF TypeOK
  <1>4. IsBuilt(txe) /\ IsBuilt(txe') /\ IsKept(k)
    BY <1>1, <1>2, ExecuteType, KeptType DEF TypeOK
  <1>5. e.was = txe /\ e.sure = Undoable(c, txe) /\ e.sure \in BOOLEAN
    <2>1. Undoable(c, txe) \in BOOLEAN
      BY UndoableType
    <2> QED BY <2>1
  <1> HIDE DEF e, k, n
  <1>6. /\ IsSeq(past') /\ Len(past') = n + 1 /\ DOMAIN past' = 1 .. n + 1
        /\ \A i \in 1 .. n : past'[i] = past[i]
        /\ past'[n + 1] = e
    BY <1>1, <1>2, <1>3, AppendIsSeq DEF TypeOK, n
  <1>7. /\ IsSeq(DoneCommands') /\ Len(DoneCommands') = n + 1
        /\ DOMAIN DoneCommands' = 1 .. n + 1
        /\ \A i \in 1 .. n : DoneCommands'[i] = DoneCommands[i]
        /\ DoneCommands'[n + 1] = k
    BY <1>1, <1>2, <1>3, AppendIsSeq DEF TypeOK, n
  <1>8. \A i \in 1 .. n + 1 : i \in 1 .. n \/ i = n + 1
    BY <1>3
  <1>9. TypeOK'
    <2>1. \A i \in DOMAIN DoneCommands' : IsKept(DoneCommands'[i])
      BY <1>2, <1>3, <1>4, <1>7, <1>8 DEF TypeOK
    <2>2. \A i \in DOMAIN past' : IsBuilt(past'[i].was) /\ past'[i].sure \in BOOLEAN
      BY <1>2, <1>3, <1>4, <1>5, <1>6, <1>8 DEF TypeOK
    <2> QED BY <1>4, <1>6, <1>7, <2>1, <2>2 DEF TypeOK
  <1>10. Sound'
    <2> SUFFICES ASSUME NEW i \in 1 .. n + 1, past'[i].sure
                 PROVE  Unexecute(DoneCommands'[i], After(i)') = past'[i].was
      BY <1>7 DEF Sound
    <2>1. CASE i = n + 1
      <3>1. After(i)' = txe'
        BY <2>1, <1>6 DEF After
      <3>2. Unexecute(k, Execute(c, txe)) = txe
        BY <2>1, <1>4, <1>5, <1>6, Undone DEF k
      <3> QED BY <3>1, <3>2, <2>1, <1>1, <1>5, <1>6, <1>7
    <2>2. CASE i \in 1 .. n
      <3>1. After(i)' = past'[i + 1].was
        BY <2>2, <1>3, <1>6 DEF After
      <3>2. past'[i + 1].was = After(i)
        <4>1. CASE i = n
          BY <4>1, <1>5, <1>6 DEF After, n
        <4>2. CASE i # n
          <5>1. i + 1 \in 1 .. n
            BY <4>2, <2>2, <1>3
          <5> QED BY <4>2, <5>1, <1>6 DEF After, n
        <4> QED BY <4>1, <4>2
      <3>3. past'[i] = past[i] /\ DoneCommands'[i] = DoneCommands[i]
        BY <2>2, <1>6, <1>7
      <3>4. Unexecute(DoneCommands[i], After(i)) = past[i].was
        BY <2>2, <3>3, <1>2, <1>3 DEF Sound
      <3> QED BY <3>1, <3>2, <3>3, <3>4
    <2> QED BY <2>1, <2>2, <1>8
  <1> QED BY <1>9, <1>10 DEF IInv

\* Undo gives back what was there before the last command, if it is sure.
LEMMA UndoReturns ==
  ASSUME IInv, Undo, Last(past).sure
  PROVE  txe' = Last(past).was
  <1>1. DoneCommands # << >> /\ txe' = Unexecute(Last(DoneCommands), txe)
    BY DEF Undo
  <1>2. TypeOK /\ Sound
    BY DEF IInv
  <1>3. Len(past) \in DOMAIN DoneCommands /\ Len(DoneCommands) = Len(past)
    BY <1>1, <1>2, Lengths DEF TypeOK
  <1>4. Unexecute(DoneCommands[Len(past)], After(Len(past))) = past[Len(past)].was
    BY <1>2, <1>3 DEF Sound, Last
  <1> QED BY <1>1, <1>3, <1>4 DEF Last, After

LEMMA UndoStep ==
  ASSUME IInv, Undo
  PROVE  IInv'
  <1> DEFINE n == Len(past)
             f == Front(past)
  <1>1. /\ DoneCommands # << >>
        /\ txe' = Unexecute(Last(DoneCommands), txe)
        /\ DoneCommands' = Front(DoneCommands)
        /\ past' = IF Last(past).sure THEN f ELSE Unsure(f)
    BY DEF Undo
  <1>2. TypeOK /\ Sound
    BY DEF IInv
  <1>3. /\ n \in Nat \ {0} /\ DOMAIN past = 1 .. n /\ DOMAIN DoneCommands = 1 .. n
        /\ Len(DoneCommands) = n /\ past # << >>
    BY <1>1, <1>2, Lengths DEF TypeOK
  <1>4. IsBuilt(txe')
    <2>1. IsBuilt(txe) /\ IsKept(Last(DoneCommands))
      BY <1>2, <1>3 DEF TypeOK, Last
    <2> QED BY <2>1, <1>1, UnexecuteType
  <1>5. /\ IsSeq(f) /\ Len(f) = n - 1 /\ DOMAIN f = 1 .. n - 1
        /\ \A i \in 1 .. n - 1 : f[i] = past[i]
    BY <1>2, <1>3, FrontIsSeq DEF TypeOK
  <1>6. /\ IsSeq(DoneCommands') /\ Len(DoneCommands') = n - 1
        /\ DOMAIN DoneCommands' = 1 .. n - 1
        /\ \A i \in 1 .. n - 1 : DoneCommands'[i] = DoneCommands[i]
    BY <1>1, <1>2, <1>3, FrontIsSeq DEF TypeOK
  <1>7. \A i \in 1 .. n - 1 : i \in 1 .. n
    BY <1>3
  <1> HIDE DEF n, f
  <1>8. \A i \in DOMAIN f : IsBuilt(f[i].was) /\ f[i].sure \in BOOLEAN
    BY <1>2, <1>3, <1>5, <1>7 DEF TypeOK
  <1>9. /\ IsSeq(Unsure(f)) /\ Len(Unsure(f)) = n - 1 /\ DOMAIN Unsure(f) = 1 .. n - 1
        /\ \A i \in 1 .. n - 1 : Unsure(f)[i] = [was |-> f[i].was, sure |-> FALSE]
    BY <1>5, UnsureIsSeq
  <1>10. TypeOK'
    <2>1. IsSeq(past') /\ Len(past') = n - 1 /\ DOMAIN past' = 1 .. n - 1
      BY <1>1, <1>5, <1>9
    <2>2. \A i \in DOMAIN DoneCommands' : IsKept(DoneCommands'[i])
      BY <1>2, <1>3, <1>6, <1>7 DEF TypeOK
    <2>3. \A i \in DOMAIN past' : IsBuilt(past'[i].was) /\ past'[i].sure \in BOOLEAN
      <3>1. CASE Last(past).sure
        BY <3>1, <1>1, <1>8
      <3>2. CASE ~ Last(past).sure
        <4>1. \A i \in 1 .. n - 1 : Unsure(f)[i].was = f[i].was /\ Unsure(f)[i].sure = FALSE
          BY <1>9
        <4> QED BY <3>2, <4>1, <1>1, <1>5, <1>8, <1>9
      <3> QED BY <3>1, <3>2
    <2> QED BY <1>4, <1>6, <2>1, <2>2, <2>3 DEF TypeOK
  <1>11. Sound'
    <2>1. CASE ~ Last(past).sure
      BY <2>1, <1>1, <1>6, <1>9 DEF Sound
    <2>2. CASE Last(past).sure
      <3> SUFFICES ASSUME NEW i \in 1 .. n - 1, past'[i].sure
                   PROVE  Unexecute(DoneCommands'[i], After(i)') = past'[i].was
        BY <1>6 DEF Sound
      <3>1. past' = f /\ past'[i] = past[i] /\ DoneCommands'[i] = DoneCommands[i]
        BY <2>2, <1>1, <1>5, <1>6
      <3>2. Unexecute(DoneCommands[i], After(i)) = past[i].was
        BY <3>1, <1>2, <1>3, <1>7 DEF Sound
      <3>3. After(i) = past[i + 1].was
        <4>1. i # n
          BY <1>3
        <4> QED BY <4>1 DEF After, n
      <3>4. After(i)' = past[i + 1].was
        <4>1. CASE i = n - 1
          <5>1. After(i)' = txe'
            BY <4>1, <3>1, <1>5 DEF After
          <5>2. txe' = past[n].was
            BY <2>2, UndoReturns DEF Last, n
          <5>3. i + 1 = n
            BY <4>1, <1>3
          <5> QED BY <5>1, <5>2, <5>3
        <4>2. CASE i # n - 1
          <5>1. i + 1 \in 1 .. n - 1
            BY <4>2, <1>3
          <5> QED BY <4>2, <5>1, <3>1, <1>5 DEF After
        <4> QED BY <4>1, <4>2
      <3> QED BY <3>1, <3>2, <3>3, <3>4
    <2> QED BY <2>1, <2>2
  <1> QED BY <1>10, <1>11 DEF IInv

LEMMA Inductive == IInv /\ [Next]_vars => IInv'
  <1> SUFFICES ASSUME IInv, [Next]_vars PROVE IInv'
    OBVIOUS
  <1>1. CASE \E key \in Keys : Initialize(key)
    BY <1>1, InitializeStep
  <1>2. CASE Room /\ \E c \in Commands : Do(c)
    BY <1>2, DoStep
  <1>3. CASE Undo
    BY <1>3, UndoStep
  <1>4. CASE UNCHANGED vars
    BY <1>4 DEF vars, IInv, TypeOK, Sound, After
  <1> QED BY <1>1, <1>2, <1>3, <1>4 DEF Next

LEMMA Invariant == Spec => []IInv
  BY InitInv, Inductive, PTL DEF Spec

\* Whatever is undone in whatever order, the transaction under construction is
\* made of inputs and tails that were named (Receiver, Command::txe).
THEOREM TypeCorrect == Spec => []TypeOK
  <1>1. IInv => TypeOK
    BY DEF IInv
  <1> QED BY <1>1, Invariant, PTL

LEMMA StackStep == IInv /\ [Next]_vars => [Stack!Next]_<< txe, past >>
  <1> SUFFICES ASSUME IInv, [Next]_vars PROVE [Stack!Next]_<< txe, past >>
    OBVIOUS
  <1> USE DEF Stack!Next
  <1>1. CASE \E key \in Keys : Initialize(key)
    BY <1>1 DEF Initialize, Unsure, Stack!Replace, Stack!Unsure
  <1>2. CASE Room /\ \E c \in Commands : Do(c)
    <2>1. PICK e : past' = Append(past, e) /\ e.was = txe
      BY <1>2 DEF Do
    <2>2. IsSeq(past)
      BY DEF IInv, TypeOK
    <2>3. Stack!Do
      BY <2>1, <2>2, AppendIsSeq, FrontOfAppend
         DEF Stack!Do, Stack!Front, Stack!Last, Front, Last
    <2> QED BY <2>3
  <1>3. CASE Undo
    <2>1. past # << >>
      BY <1>3, Lengths DEF Undo, IInv
    <2>2. CASE Last(past).sure
      <3>1. txe' = Last(past).was
        BY <1>3, <2>2, UndoReturns
      <3>2. Stack!UndoSure
        BY <1>3, <2>1, <2>2, <3>1
           DEF Undo, Stack!UndoSure, Stack!Front, Stack!Last, Front, Last
      <3> QED BY <3>2
    <2>3. CASE ~ Last(past).sure
      <3>1. Stack!UndoUnsure
        BY <1>3, <2>1, <2>3 DEF Undo, Unsure, Stack!UndoUnsure,
           Stack!Unsure, Stack!Front, Stack!Last, Front, Last
      <3> QED BY <3>1
    <2> QED BY <2>2, <2>3
  <1>4. CASE UNCHANGED vars
    BY <1>4 DEF vars
  <1> QED BY <1>1, <1>2, <1>3, <1>4 DEF Next

\* The builder implements the stack of UndoStack: an Undo of a command that
\* could be taken back gives the transaction before it back, through any
\* nesting of commands, clears and Undos (Receiver::Undo).
THEOREM ImplementsUndoStack == Spec => UndoStackSpec
  <1>1. Init => Stack!Init
    BY DEF Init, Stack!Init
  <1>2. QED
    BY <1>1, Invariant, StackStep, PTL DEF Spec, UndoStackSpec, Stack!Spec

-----------------------------------------------------------------------------
(* Undoable is exact. *)

\* Equal neighbours are all equal to the first of them.
LEMMA EqualRun ==
  ASSUME NEW a, NEW n \in Nat, NEW i \in 1 .. n, NEW x, a[i] = x,
         \A k \in 1 .. n : i <= k /\ k # n => a[k] = a[k + 1]
  PROVE  \A k \in i .. n : a[k] = x
  <1> DEFINE T == {k \in i .. n : a[k] # x}
  <1> SUFFICES ASSUME T # {} PROVE FALSE
    OBVIOUS
  <1> DEFINE m == Min(T)
  <1>1. T \subseteq Nat
    OBVIOUS
  <1>2. m \in T /\ \A y \in T : m <= y
    <2> HIDE DEF T
    <2> QED BY <1>1, LeastIndex
  <1>3. m \in i .. n /\ a[m] # x
    BY <1>2
  <1> HIDE DEF m
  <1>4. m # i
    BY <1>3
  <1> DEFINE p == m - 1
  <1>5. p \in 1 .. n /\ i <= p /\ p # n /\ p + 1 = m /\ p \in i .. n /\ ~(m <= p)
    BY <1>3, <1>4
  <1> HIDE DEF p
  <1>6. a[p] = a[m]
    BY <1>5
  <1>7. p \in T
    BY <1>3, <1>5, <1>6
  <1> QED BY <1>2, <1>5, <1>7

\* What is taken out again is what was appended only where nothing else
\* follows an equal item.
LEMMA RemovedIsAppended ==
  ASSUME NEW S, NEW s \in Seq(S), NEW x \in S,
         RemoveFirst(Append(s, x), x) = s
  PROVE  OnlyAtEnd(x, s)
  <1> DEFINE a == Append(s, x)
             n == Len(s)
  <1>1. /\ a \in Seq(S) /\ Len(a) = n + 1
        /\ \A k \in 1 .. n : a[k] = s[k]
        /\ a[n + 1] = x
    BY AppendProperties
  <1>2. DOMAIN s = 1 .. n /\ n \in Nat
    OBVIOUS
  <1> HIDE DEF a, n
  <1>3. PICK i \in 1 .. n + 1 :
          /\ a[i] = x /\ RemoveFirst(a, x) = RemoveAt(a, i)
          /\ \A j \in 1 .. n + 1 : a[j] = x => i <= j
    <2>1. \E j \in 1 .. n + 1 : a[j] = x
      BY <1>1, <1>2
    <2> QED BY <2>1, <1>1, RemoveFirstAt
  <1>4. \A k \in 1 .. n : ~(k < i) => s[k] = a[k + 1]
    <2>1. \A k \in 1 .. Len(a) - 1 : RemoveAt(a, i)[k] = IF k < i THEN a[k] ELSE a[k + 1]
      BY <1>1, <1>3, RemoveAtIndex
    <2>2. Len(a) - 1 = n
      BY <1>1, <1>2
    <2>3. RemoveAt(a, i) = s
      BY <1>3 DEF a
    <2> QED BY <2>1, <2>2, <2>3
  <1>5. ASSUME NEW k \in 1 .. n + 1, i <= k, k # n + 1
        PROVE  a[k] = a[k + 1]
    <2>1. k \in 1 .. n /\ ~(k < i)
      BY <1>2, <1>5
    <2> QED BY <2>1, <1>1, <1>4
  <1>6. \A k \in i .. n + 1 : a[k] = x
    <2>1. n + 1 \in Nat
      BY <1>2
    <2> QED BY <2>1, <1>3, <1>5, EqualRun
  <1>7. ASSUME NEW j \in 1 .. n, s[j] = x, NEW l \in j .. n
        PROVE  s[l] = x
    <2>1. a[j] = x /\ j \in 1 .. n + 1
      BY <1>1, <1>2, <1>7
    <2>2. i <= j
      BY <2>1, <1>3
    <2>3. l \in i .. n + 1 /\ l \in 1 .. n
      BY <2>2, <1>2
    <2> QED BY <2>3, <1>1, <1>6
  <1> QED BY <1>2, <1>7 DEF OnlyAtEnd, n

\* What is appended is what was taken out only if that was the last item.
LEMMA AppendedIsRemoved ==
  ASSUME NEW S, NEW s \in Seq(S), NEW x \in S,
         Append(RemoveFirst(s, x), x) = s
  PROVE  s # << >> /\ Last(s) = x /\ OnlyAtEnd(x, s)
  <1> DEFINE n == Len(s)
             r == RemoveFirst(s, x)
  <1>1. DOMAIN s = 1 .. n /\ n \in Nat
    OBVIOUS
  <1>2. r \in Seq(S)
    BY RemoveFirstType
  <1> HIDE DEF n, r
  <1>3. /\ Append(r, x) \in Seq(S) /\ Len(Append(r, x)) = Len(r) + 1
        /\ \A k \in 1 .. Len(r) : Append(r, x)[k] = r[k]
        /\ Append(r, x)[Len(r) + 1] = x
        /\ Len(r) \in Nat
    BY <1>2, AppendProperties
  <1>4. Append(r, x) = s
    BY DEF r
  <1>5. n = Len(r) + 1 /\ s[n] = x /\ n \in 1 .. n
    BY <1>3, <1>4 DEF n
  <1>6. s # << >> /\ Last(s) = x
    <2>1. n # 0
      BY <1>3, <1>5
    <2>2. s # << >>
      BY <2>1, EmptySeq DEF n
    <2> QED BY <2>2, <1>5 DEF Last, n
  <1>7. PICK i \in 1 .. n :
          /\ s[i] = x /\ r = RemoveAt(s, i)
          /\ \A j \in 1 .. n : s[j] = x => i <= j
    <2>1. \E j \in 1 .. Len(s) : s[j] = x
      BY <1>5 DEF n
    <2> QED BY <2>1, RemoveFirstAt DEF n, r
  <1>8. \A k \in 1 .. n - 1 : r[k] = IF k < i THEN s[k] ELSE s[k + 1]
    BY <1>7, RemoveAtIndex DEF n
  <1>9. ASSUME NEW k \in 1 .. n, i <= k, k # n
        PROVE  s[k] = s[k + 1]
    <2>1. k \in 1 .. n - 1 /\ k \in 1 .. Len(r) /\ ~(k < i)
      BY <1>1, <1>3, <1>5, <1>9
    <2>2. s[k] = r[k]
      BY <2>1, <1>3, <1>4
    <2>3. r[k] = s[k + 1]
      BY <2>1, <1>8
    <2> QED BY <2>2, <2>3
  <1>10. \A k \in i .. n : s[k] = x
    BY <1>1, <1>7, <1>9, EqualRun
  <1>11. ASSUME NEW j \in 1 .. n, s[j] = x, NEW l \in j .. n
         PROVE  s[l] = x
    <2>1. i <= j
      BY <1>7, <1>11
    <2>2. l \in i .. n
      BY <2>1, <1>1
    <2> QED BY <2>2, <1>10
  <1>12. OnlyAtEnd(x, s)
    BY <1>1, <1>11 DEF OnlyAtEnd, n
  <1> QED BY <1>6, <1>12

\* Behind one item, what is equal together is equal alone.
LEMMA SameBehindHead ==
  ASSUME NEW S, NEW h \in S, NEW p \in Seq(S), NEW q \in Seq(S),
         << h >> \o p = << h >> \o q
  PROVE  p = q
  <1>1. << h >> \in Seq(S) /\ Len(<< h >>) = 1
    OBVIOUS
  <1> DEFINE e == << h >>
             u == e \o p
             v == e \o q
  <1> HIDE DEF e
  <1>a. e \in Seq(S) /\ Len(e) = 1
    BY <1>1 DEF e
  <1>2. /\ Len(u) = 1 + Len(p) /\ Len(v) = 1 + Len(q)
        /\ \A k \in 1 .. 1 + Len(p) : u[k] = IF k <= 1 THEN e[k] ELSE p[k - 1]
        /\ \A k \in 1 .. 1 + Len(q) : v[k] = IF k <= 1 THEN e[k] ELSE q[k - 1]
    <2>1. /\ Len(u) = Len(e) + Len(p)
          /\ \A k \in 1 .. Len(e) + Len(p) :
               u[k] = IF k <= Len(e) THEN e[k] ELSE p[k - Len(e)]
      BY <1>a, ConcatProperties
    <2>2. /\ Len(v) = Len(e) + Len(q)
          /\ \A k \in 1 .. Len(e) + Len(q) :
               v[k] = IF k <= Len(e) THEN e[k] ELSE q[k - Len(e)]
      BY <1>a, ConcatProperties
    <2> HIDE DEF u, v
    <2> QED BY <1>a, <2>1, <2>2
  <1>3. u = v
    BY DEF e
  <1>4. Len(p) \in Nat /\ Len(q) \in Nat
    OBVIOUS
  <1> HIDE DEF u, v
  <1>5. Len(p) = Len(q)
    BY <1>2, <1>3, <1>4
  <1>6. ASSUME NEW k \in 1 .. Len(p)
        PROVE  p[k] = q[k]
    <2>1. k + 1 \in 1 .. 1 + Len(p) /\ k + 1 \in 1 .. 1 + Len(q)
          /\ ~(k + 1 <= 1) /\ (k + 1) - 1 = k
      BY <1>4, <1>5
    <2> QED BY <2>1, <1>2, <1>3
  <1> QED BY <1>5, <1>6, SeqEqual

\* A command given to a transaction it cannot be taken back from is not undone.
LEMMA Missed ==
  ASSUME NEW t, IsBuilt(t), NEW c \in Commands, ~Undoable(c, t)
  PROVE  Unexecute(c, Execute(c, t)) # t
  <1> SUFFICES ASSUME Unexecute(c, Execute(c, t)) = t PROVE FALSE
    OBVIOUS
  <1> USE DEF Execute, Unexecute
  <1>1. /\ t.inputs \in Seq(Inputs) /\ t.tails \in Seq(Tails)
        /\ t = [inputs |-> t.inputs, tails |-> t.tails,
                 pubKey |-> t.pubKey, signature |-> t.signature]
    BY DEF IsBuilt
  <1>2. CASE c.op = "addInput"
    <2>1. RemoveFirst(Append(t.inputs, c.arg), c.arg) = t.inputs
      BY <1>1, <1>2
    <2> QED BY <1>1, <1>2, <2>1, CommandCases, RemovedIsAppended DEF Undoable
  <1>3. CASE c.op = "removeInput"
    <2>1. Append(RemoveFirst(t.inputs, c.arg), c.arg) = t.inputs
      BY <1>1, <1>3
    <2> QED BY <1>1, <1>3, <2>1, CommandCases, AppendedIsRemoved DEF Undoable
  <1>4. CASE c.op = "addTail"
    <2> DEFINE s == t.tails
               x == c.arg
    <2>1. /\ s \in Seq(Tails) /\ x \in Tails /\ RemoveTail(Append(s, x), x) = s
          /\ s = << >> \/ ~OnlyAtEnd(x, Tail(s))
      BY <1>1, <1>4, CommandCases DEF Undoable
    <2> HIDE DEF s, x
    <2>2. Append(s, x) # << >> /\ Append(s, x) \in Seq(Tails)
      BY <2>1, AppendProperties
    <2> DEFINE h == Head(Append(s, x))
               r == RemoveFirst(Tail(Append(s, x)), x)
    <2>3. s = << h >> \o r /\ h \in Tails /\ r \in Seq(Tails)
      BY <2>1, <2>2, HeadAndTail, RemoveFirstType DEF RemoveTail
    <2> HIDE DEF h, r
    <2>4. s # << >>
      <3>1. << h >> \in Seq(Tails) /\ Len(<< h >>) = 1
        BY <2>3
      <3>2. Len(s) = Len(<< h >>) + Len(r) /\ Len(r) \in Nat
        BY <2>3, <3>1, ConcatProperties
      <3>3. Len(s) # 0
        BY <3>1, <3>2
      <3>4. Len(<< >>) = 0
        OBVIOUS
      <3> QED BY <3>3, <3>4
    <2>5. /\ Head(s) \in Tails /\ Tail(s) \in Seq(Tails)
          /\ s = << Head(s) >> \o Tail(s)
      BY <2>1, <2>4, HeadAndTail
    <2>6. h = Head(s) /\ r = RemoveFirst(Append(Tail(s), x), x)
      BY <2>1, <2>4, HeadTailAppend DEF h, r
    <2>7. r = Tail(s)
      BY <2>3, <2>5, <2>6, SameBehindHead
    <2> QED BY <2>1, <2>4, <2>5, <2>6, <2>7, RemovedIsAppended
  <1>5. CASE c.op = "removeTail"
    <2> DEFINE s == t.tails
               x == c.arg
    <2>1. /\ s \in Seq(Tails) /\ x \in Tails /\ Append(RemoveTail(s, x), x) = s
          /\ ~(Len(s) > 1 /\ Last(s) = x /\ OnlyAtEnd(x, Tail(s)))
      BY <1>1, <1>5, CommandCases DEF Undoable
    <2> HIDE DEF s, x
    <2>2. RemoveTail(s, x) \in Seq(Tails)
      BY <2>1, RemoveTailType
    <2>3. /\ Len(s) = Len(RemoveTail(s, x)) + 1 /\ Len(RemoveTail(s, x)) \in Nat
          /\ s[Len(s)] = x
      BY <2>1, <2>2, AppendProperties
    <2>4. s # << >>
      <3>1. Len(<< >>) = 0
        OBVIOUS
      <3> QED BY <2>3, <3>1
    <2>5. /\ Head(s) \in Tails /\ Tail(s) \in Seq(Tails)
          /\ s = << Head(s) >> \o Tail(s)
      BY <2>1, <2>4, HeadAndTail
    <2> DEFINE r == RemoveFirst(Tail(s), x)
               e == << Head(s) >>
    <2>6. r \in Seq(Tails) /\ e \in Seq(Tails) /\ Len(e) = 1 /\ << x >> \in Seq(Tails)
      <3>1. r \in Seq(Tails)
        BY <2>5, RemoveFirstType
      <3> QED BY <2>1, <2>5, <3>1
    <2>7. RemoveTail(s, x) = e \o r
      BY <2>4 DEF RemoveTail
    <2> HIDE DEF r, e
    <2>8. Len(s) > 1
      <3>0. Len(r) \in Nat
        BY <2>6, LenProperties
      <3>1. Len(e \o r) = Len(e) + Len(r) /\ Len(r) \in Nat
        BY <2>6, <3>0, ConcatProperties, Zenon
      <3>2. Len(s) = (Len(e) + Len(r)) + 1
        BY <2>3, <2>7, <3>1
      <3> QED BY <2>6, <3>1, <3>2
    <2>9. Append(r, x) = Tail(s)
      <3>1. e \o r \in Seq(Tails)
        BY <2>6, ConcatProperties
      <3>2. Append(e \o r, x) = (e \o r) \o << x >>
        BY <2>1, <3>1, AppendIsConcat
      <3>3. @ = e \o (r \o << x >>)
        BY <2>6, ConcatAssociative
      <3>4. r \o << x >> = Append(r, x) /\ Append(r, x) \in Seq(Tails)
        BY <2>1, <2>6, AppendIsConcat, AppendProperties
      <3>5. << Head(s) >> \o Append(r, x) = << Head(s) >> \o Tail(s)
        BY <2>1, <2>5, <2>7, <3>2, <3>3, <3>4 DEF e
      <3> QED BY <2>5, <3>4, <3>5, SameBehindHead
    <2>10. OnlyAtEnd(x, Tail(s))
      BY <2>1, <2>5, <2>9, AppendedIsRemoved DEF r
    <2> QED BY <2>1, <2>3, <2>8, <2>10 DEF Last
  <1>6. CASE c.op = "sign"
    <2>1. [Signed(t, c.arg) EXCEPT !.signature = NoSignature].signature = NoSignature
      BY <1>1 DEF Signed
    <2>2. t.signature = NoSignature
      BY <1>6, <2>1
    <2> QED BY <1>6, <2>2 DEF Undoable
  <1>7. CASE c.op = "clear"
    BY <1>7 DEF Undoable
  <1> QED BY <1>2, <1>3, <1>4, <1>5, <1>6, <1>7, CommandCases

LEMMA UndoMisses ==
  ASSUME IInv, Undo, ~Undoable(Last(DoneCommands), Last(past).was),
         txe = Execute(Last(DoneCommands), Last(past).was)
  PROVE  txe' # Last(past).was
  <1> DEFINE n == Len(DoneCommands)
             c == Last(DoneCommands)
             t == Last(past).was
  <1>1. /\ n \in DOMAIN DoneCommands /\ n \in DOMAIN past
        /\ c = DoneCommands[n] /\ t = past[n].was
    <2>1. /\ Len(past) \in Nat /\ DOMAIN past = 1 .. Len(past)
          /\ DOMAIN DoneCommands = 1 .. Len(past) /\ Len(past) = Len(DoneCommands)
          /\ Len(past) # 0
      BY Lengths DEF Undo, IInv, TypeOK
    <2> QED BY <2>1 DEF Last
  <1>2. IsKept(c) /\ IsBuilt(t)
    BY <1>1 DEF IInv, TypeOK
  <1> HIDE DEF c, t
  <1>3. ~Undoable(c, t)
    BY DEF c, t
  <1>4. c \in Commands
    <2>1. CASE c = Command("clear", c.arg)
      <3>1. Command("clear", c.arg).op = "clear"
        BY DEF Command
      <3>2. c.op = "clear"
        BY <2>1, <3>1
      <3> QED BY <1>3, <3>2 DEF Undoable
    <2> QED BY <1>2, <2>1 DEF IsKept
  <1>5. txe' = Unexecute(c, Execute(c, t))
    BY DEF Undo, c, t
  <1>6. txe' # t
    BY <1>2, <1>3, <1>4, <1>5, Missed
  <1> QED BY <1>6 DEF t

\* Undoable is exact, for all inputs, tails and keys: an Undo right after a
\* command that could not be taken back does not give the transaction before it
\* back (addInput.cpp:19, addTail.h:23, removeInput.cpp:19, signer.cpp:16).
THEOREM MissesExactly == Spec => MissesElsewhere
  <1>1. IInv /\ [Next]_vars =>
          [ (/\ Undo
             /\ ~Undoable(Last(DoneCommands), Last(past).was)
             /\ txe = Execute(Last(DoneCommands), Last(past).was))
            => txe' # Last(past).was ]_vars
    BY UndoMisses
  <1> QED BY <1>1, Invariant, PTL DEF Spec, MissesElsewhere

-----------------------------------------------------------------------------
(***************************************************************************)
(* No transaction verifies.  What verifies has a signature over itself;    *)
(* a signature the builder makes is over the one before it, down to the    *)
(* zeros.                                                                  *)
(***************************************************************************)

\* y is signed over by x.
Covers(x, y) == \E key, inputs, tails, pubKey : x = Signature(key, << inputs, tails, pubKey, y >>)

\* f[0] .. f[n] are the signatures a transaction had, each over the one before.
History(f, n, s) ==
  /\ f[0] = NoSignature /\ f[n] = s
  /\ \A k \in 1 .. n : Covers(f[k], f[k - 1])
Made(s) == \E n \in Nat : \E f : History(f, n, s)

\* What is under construction, and what each clear kept of what it replaced.
AllMade ==
  /\ Made(txe.signature)
  /\ \A i \in DOMAIN DoneCommands :
       DoneCommands[i].op = "clear" => Made(DoneCommands[i].arg.signature)

LEMMA ZerosMade == Made(NoSignature)
  <1> DEFINE f == [k \in 0 .. 0 |-> NoSignature]
  <1>1. History(f, 0, NoSignature)
    BY DEF History
  <1>2. 0 \in Nat
    OBVIOUS
  <1> QED BY <1>1, <1>2 DEF Made

\* sign signs whatever signature there is.
LEMMA SignMade ==
  ASSUME NEW s, Made(s), NEW x, Covers(x, s)
  PROVE  Made(x)
  <1>a. PICK n \in Nat : \E g : History(g, n, s)
    BY DEF Made
  <1>1. PICK f : History(f, n, s)
    BY <1>a
  <1> DEFINE g == [k \in 0 .. n + 1 |-> IF k = n + 1 THEN x ELSE f[k]]
  <1>2. g[0] = NoSignature /\ g[n + 1] = x /\ g[n] = s
    <2>1. 0 \in 0 .. n + 1 /\ n \in 0 .. n + 1 /\ n + 1 \in 0 .. n + 1 /\ 0 # n + 1 /\ n # n + 1
      BY <1>1
    <2> QED BY <1>1, <2>1 DEF History
  <1>3. ASSUME NEW k \in 1 .. n + 1
        PROVE  Covers(g[k], g[k - 1])
    <2>1. CASE k = n + 1
      <3>1. k - 1 = n
        BY <1>1, <2>1
      <3> HIDE DEF g
      <3> QED BY <2>1, <3>1, <1>2
    <2>2. CASE k # n + 1
      <3>1. k \in 1 .. n /\ k \in 0 .. n + 1 /\ k - 1 \in 0 .. n + 1 /\ k - 1 # n + 1
        BY <1>1, <2>2
      <3>2. g[k] = f[k] /\ g[k - 1] = f[k - 1]
        BY <2>2, <3>1
      <3>3. Covers(f[k], f[k - 1])
        BY <1>1, <3>1 DEF History
      <3> QED BY <3>2, <3>3
    <2> QED BY <2>1, <2>2
  <1> HIDE DEF g
  <1>4. History(g, n + 1, x)
    BY <1>2, <1>3 DEF History
  <1>5. n + 1 \in Nat
    BY <1>1
  <1> QED BY <1>4, <1>5 DEF Made

\* A signature covers one signature.
LEMMA CoversOne ==
  ASSUME NEW x, NEW y, NEW z, Covers(x, y), Covers(x, z)
  PROVE  y = z
  <1>1. PICK k1, i1, t1, p1 : x = << "signature", k1, << i1, t1, p1, y >> >>
    BY DEF Covers, Signature
  <1>2. PICK k2, i2, t2, p2 : x = << "signature", k2, << i2, t2, p2, z >> >>
    BY DEF Covers, Signature
  <1>3. x[3] = << i1, t1, p1, y >> /\ x[3] = << i2, t2, p2, z >>
    BY <1>1, <1>2
  <1>4. x[3][4] = y /\ x[3][4] = z
    BY <1>3
  <1> QED BY <1>4

\* No signature that was made covers itself: the first of its history to be
\* the last one would cover one before it.
LEMMA NotOverItself ==
  ASSUME NEW s, Made(s)
  PROVE  ~Covers(s, s)
  <1> SUFFICES ASSUME Covers(s, s) PROVE FALSE
    OBVIOUS
  <1>a. PICK n \in Nat : \E g : History(g, n, s)
    BY DEF Made
  <1>1. PICK f : History(f, n, s)
    BY <1>a
  <1> DEFINE T == {k \in 0 .. n : f[k] = s}
             m == Min(T)
  <1>2. T \subseteq Nat /\ T # {}
    <2>1. n \in 0 .. n /\ f[n] = s
      BY <1>1 DEF History
    <2> QED BY <2>1
  <1>3. m \in T /\ \A y \in T : m <= y
    <2> HIDE DEF T
    <2> QED BY <1>2, LeastIndex
  <1>4. m \in 0 .. n /\ f[m] = s
    BY <1>3
  <1> HIDE DEF m
  <1>5. CASE m = 0
    <2>1. s = NoSignature
      BY <1>1, <1>4, <1>5 DEF History
    <2>2. PICK k, i, t, p : s = << "signature", k, << i, t, p, s >> >>
      BY DEF Covers, Signature
    <2>3. s[1] = "signature"
      BY <2>2
    <2>4. s[1] = "zeros"
      BY <2>1 DEF NoSignature
    <2> QED BY <2>3, <2>4
  <1>6. CASE m # 0
    <2>1. m \in 1 .. n /\ m - 1 \in 0 .. n /\ ~(m <= m - 1)
      BY <1>1, <1>4, <1>6
    <2>2. Covers(f[m], f[m - 1])
      BY <1>1, <2>1 DEF History
    <2>3. f[m - 1] = s
      BY <2>2, <1>4, CoversOne
    <2> QED BY <1>3, <2>1, <2>3
  <1> QED BY <1>5, <1>6

LEMMA SignedCovers ==
  ASSUME NEW t, IsBuilt(t), NEW key
  PROVE  Covers(Signed(t, key).signature, t.signature)
  <1>1. Signed(t, key).signature = Signature(key, << t.inputs, t.tails, t.pubKey, t.signature >>)
    BY DEF Signed, TxeData, IsBuilt
  <1> QED BY <1>1 DEF Covers

LEMMA DefaultSignature == Default.signature = NoSignature
  BY DEF Default

\* Execute signs, takes what clear kept, or leaves the signature alone.
LEMMA ExecuteMade ==
  ASSUME NEW t, IsBuilt(t), Made(t.signature), NEW c \in Commands
  PROVE  Made(Execute(c, t).signature)
  <1> USE DEF Execute
  <1>1. CASE c.op \in {"addInput", "removeInput", "addTail", "removeTail"}
    <2>1. Execute(c, t).signature = t.signature
      BY <1>1 DEF IsBuilt
    <2> QED BY <2>1
  <1>2. CASE c.op = "sign"
    <2>1. Execute(c, t) = Signed(t, c.arg)
      BY <1>2
    <2> QED BY <2>1, SignedCovers, SignMade
  <1>3. CASE c.op = "clear"
    <2>1. Execute(c, t) = Default
      BY <1>3, CommandCases
    <2> QED BY <2>1, DefaultSignature, ZerosMade
  <1> QED BY <1>1, <1>2, <1>3, CommandCases

\* What is undone leaves the signature, zeroes it, or takes what clear kept.
LEMMA UnexecuteMade ==
  ASSUME NEW t, IsBuilt(t), Made(t.signature),
         NEW c, IsKept(c), c.op = "clear" => Made(c.arg.signature)
  PROVE  Made(Unexecute(c, t).signature)
  <1> USE DEF Unexecute
  <1>1. CASE c.op \in {"addInput", "removeInput", "addTail", "removeTail"}
    <2>1. Unexecute(c, t).signature = t.signature
      BY <1>1 DEF IsBuilt
    <2> QED BY <2>1
  <1>2. CASE c.op = "sign"
    <2>1. Unexecute(c, t).signature = NoSignature
      BY <1>2 DEF IsBuilt
    <2> QED BY <2>1, ZerosMade
  <1>3. CASE c.op = "clear"
    <2>1. Unexecute(c, t) = c.arg
      BY <1>3
    <2> QED BY <1>3, <2>1
  <1>4. CASE c = Command("clear", c.arg)
    <2>1. c.op = "clear"
      <3>1. Command("clear", c.arg).op = "clear"
        BY DEF Command
      <3> QED BY <1>4, <3>1
    <2> QED BY <2>1, <1>3
  <1> QED BY <1>1, <1>2, <1>3, <1>4, CommandCases DEF IsKept

LEMMA MadeInit == Init => AllMade
  <1> SUFFICES ASSUME Init PROVE AllMade
    OBVIOUS
  <1>1. Made(txe.signature)
    BY DefaultSignature, ZerosMade DEF Init
  <1>2. DOMAIN DoneCommands = {}
    BY DEF Init
  <1> QED BY <1>1, <1>2 DEF AllMade

LEMMA MadeStep == AllMade /\ IInv /\ [Next]_vars => AllMade'
  <1> SUFFICES ASSUME AllMade, IInv, [Next]_vars PROVE AllMade'
    OBVIOUS
  <1>1. TypeOK /\ IsBuilt(txe) /\ IsSeq(DoneCommands)
    BY DEF IInv, TypeOK
  <1>2. /\ Made(txe.signature)
        /\ \A i \in DOMAIN DoneCommands :
             DoneCommands[i].op = "clear" => Made(DoneCommands[i].arg.signature)
    BY DEF AllMade
  <1>3. CASE \E key \in Keys : Initialize(key)
    <2>1. txe'.signature = NoSignature /\ DoneCommands' = DoneCommands
      BY <1>3, DefaultSignature DEF Initialize, Default
    <2> QED BY <2>1, <1>2, ZerosMade DEF AllMade
  <1>4. CASE Room /\ \E c \in Commands : Do(c)
    <2>1. PICK c \in Commands : Do(c)
      BY <1>4
    <2>2. txe' = Execute(c, txe) /\ DoneCommands' = Append(DoneCommands, Kept(c, txe))
      BY <2>1 DEF Do
    <2>3. Made(txe'.signature)
      BY <2>2, <1>1, <1>2, ExecuteMade
    <2>4. Kept(c, txe).op = "clear" => Made(Kept(c, txe).arg.signature)
      <3>1. CASE c.op = "clear"
        <4>1. Kept(c, txe) = Command("clear", txe)
          BY <3>1 DEF Kept
        <4>2. Command("clear", txe).arg = txe
          BY DEF Command
        <4> QED BY <4>1, <4>2, <1>2
      <3>2. CASE c.op # "clear"
        BY <3>2 DEF Kept
      <3> QED BY <3>1, <3>2
    <2> DEFINE n == Len(DoneCommands)
               k == Kept(c, txe)
    <2>5. /\ DOMAIN Append(DoneCommands, k) = 1 .. n + 1
          /\ \A i \in 1 .. n : Append(DoneCommands, k)[i] = DoneCommands[i]
          /\ Append(DoneCommands, k)[n + 1] = k
          /\ n \in Nat /\ DOMAIN DoneCommands = 1 .. n
      BY <1>1, Lengths, AppendIsSeq
    <2> HIDE DEF n, k
    <2>6. DoneCommands' = Append(DoneCommands, k) /\ (k.op = "clear" => Made(k.arg.signature))
      BY <2>2, <2>4 DEF k
    <2>7. ASSUME NEW i \in DOMAIN DoneCommands', DoneCommands'[i].op = "clear"
          PROVE  Made(DoneCommands'[i].arg.signature)
      <3>1. CASE i \in 1 .. n
        BY <3>1, <2>5, <2>6, <2>7, <1>2
      <3>2. CASE i = n + 1
        BY <3>2, <2>5, <2>6, <2>7
      <3>3. i \in 1 .. n \/ i = n + 1
        BY <2>5, <2>6
      <3> QED BY <3>1, <3>2, <3>3
    <2> QED BY <2>3, <2>7 DEF AllMade
  <1>5. CASE Undo
    <2>1. /\ DoneCommands # << >> /\ txe' = Unexecute(Last(DoneCommands), txe)
          /\ DoneCommands' = Front(DoneCommands)
      BY <1>5 DEF Undo
    <2> DEFINE n == Len(DoneCommands)
    <2>2. /\ n \in DOMAIN DoneCommands /\ Last(DoneCommands) = DoneCommands[n]
          /\ n \in Nat /\ DOMAIN DoneCommands = 1 .. n
      <3>1. n \in Nat /\ DOMAIN DoneCommands = 1 .. n /\ n # 0
        BY <2>1, <1>1, Lengths DEF TypeOK
      <3> QED BY <3>1 DEF Last
    <2>3. /\ DOMAIN DoneCommands' = 1 .. n - 1
          /\ \A i \in 1 .. n - 1 : DoneCommands'[i] = DoneCommands[i]
      BY <2>1, <1>1, FrontIsSeq
    <2>4. IsKept(Last(DoneCommands))
      BY <1>1, <2>2 DEF TypeOK
    <2>5. Made(txe'.signature)
      BY <1>1, <1>2, <2>1, <2>2, <2>4, UnexecuteMade
    <2>6. \A i \in 1 .. n - 1 : i \in DOMAIN DoneCommands
      BY <2>2
    <2> QED BY <1>2, <2>3, <2>5, <2>6 DEF AllMade
  <1>6. CASE UNCHANGED vars
    BY <1>6, <1>2 DEF vars, AllMade
  <1> QED BY <1>3, <1>4, <1>5, <1>6 DEF Next

\* No transaction of the builder passes validateSignature, for all inputs, tails
\* and keys, whatever is called in whatever order: sign covers the signature
\* that was there before (transaction.cpp:137), the check covers the one made
\* (blockchain.cpp:223).
THEOREM VerifiesNever == Spec => []NeverVerifies
  <1>1. AllMade => NeverVerifies
    <2> SUFFICES ASSUME Made(txe.signature), Verifies(txe) PROVE FALSE
      BY DEF AllMade, NeverVerifies
    <2>1. Covers(txe.signature, txe.signature)
      <3>1. txe.signature
              = Signature(txe.pubKey, << txe.inputs, txe.tails, txe.pubKey, txe.signature >>)
        BY DEF Verifies, TxeData
      <3> QED BY <3>1 DEF Covers
    <2> QED BY <2>1, NotOverItself
  <1>2. Spec => []AllMade
    BY MadeInit, MadeStep, Invariant, PTL DEF Spec
  <1> QED BY <1>1, <1>2, PTL
=============================================================================
