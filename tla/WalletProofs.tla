----------------------------- MODULE WalletProofs ----------------------------
(***************************************************************************)
(* Theorems about Wallet, for every chain, every address blocks may pay,   *)
(* whatever is typed and every bound: what becomes of a transaction from   *)
(* createTxe to share, and what the sum shown is worth.                    *)
(***************************************************************************)
EXTENDS Wallet, SeqLemmas

-----------------------------------------------------------------------------
(***************************************************************************)
(* The inductive invariant: of the transaction in hand what the properties *)
(* say of those shared, and the blocks the chain is made of.               *)
(***************************************************************************)
Pays(b) == \E a \in Payees : b.txs = << FirstTxe(a) >>

ChainOK ==
  /\ IsSeq(chain)
  /\ \A k \in DOMAIN chain : Pays(chain[k])
  /\ netPc \in {"listed", "push"} => Pays(netBlock)

Names(input) ==
  InChain(input.output, chain) /\ input.outputHash = Sha(TxAt(input.output))

\* What was typed for one transaction.
IsForm(f) ==
  /\ IsSeq(f.inputs) /\ IsSeq(f.tails)
  /\ \A i \in DOMAIN f.inputs : f.inputs[i].output \in Outputs /\ f.inputs[i].tailNum = 0
  /\ ~f.stray => \A i \in DOMAIN f.inputs : Names(f.inputs[i])
  /\ \A i \in DOMAIN f.tails : f.tails[i].address = << >>
  /\ f = [inputs |-> f.inputs, tails |-> f.tails, stray |-> f.stray]

\* The transaction t holds it, and nothing else.
Holds(t, f) ==
  /\ t.inputs = f.inputs /\ t.tails = f.tails
  /\ t.pubKey = Builder!NoKey
  /\ t = [inputs |-> t.inputs, tails |-> t.tails,
           pubKey |-> t.pubKey, signature |-> t.signature]

FormOK ==
  /\ IsForm(typed)
  /\ uiPc \in {"inputs", "tails", "share"} => Holds(txe, typed)

Sealed(s) ==
  /\ IsForm(s.typed) /\ Holds(s.tx, s.typed)
  /\ \E d : s.tx.signature = << "signature", Key, d >>

SharedOK == IsSeq(shared) /\ \A k \in DOMAIN shared : Sealed(shared[k])

IInv == ChainOK /\ FormOK /\ SharedOK

-----------------------------------------------------------------------------
LEMMA EmptyIsSeq == IsSeq(<< >>) /\ DOMAIN << >> = {}
  <1>1. << >> \in Seq({}) /\ DOMAIN << >> = {}
    OBVIOUS
  <1> QED BY <1>1, IsSeqIntro

LEMMA NothingIsForm == IsForm(Nothing)
  BY EmptyIsSeq DEF IsForm, Nothing

LEMMA InitInv == Init => IInv
  <1> SUFFICES ASSUME Init PROVE IInv
    OBVIOUS
  <1>1. ChainOK /\ SharedOK
    BY EmptyIsSeq DEF Init, ChainOK, SharedOK
  <1>2. FormOK
    BY NothingIsForm DEF Init, FormOK
  <1> QED BY <1>1, <1>2 DEF IInv

\* Blocks are added behind the ones there: what an input names, it names on.
LEMMA NamesStay ==
  ASSUME IsSeq(chain), NEW b, chain' = Append(chain, b),
         NEW input, input.output \in Outputs, Names(input)
  PROVE  Names(input)'
  <1> DEFINE out == input.output
             n == out.blockNumber + 1
  <1>1. /\ Len(chain') = Len(chain) + 1 /\ Len(chain) \in Nat
        /\ DOMAIN chain = 1 .. Len(chain)
        /\ \A k \in DOMAIN chain : chain'[k] = chain[k]
    BY AppendIsSeq
  <1>2. out.blockNumber \in Nat /\ out.txeNumber = 0
    <2>1. out.blockNumber \in 0 .. MaxBlocks /\ out.txeNumber \in {0}
      BY DEF Outputs
    <2> QED BY <2>1, WalletBounds
  <1>3. InChain(out, chain) /\ input.outputHash = Sha(TxAt(out))
    BY DEF Names
  <1> HIDE DEF out
  <1>4. out.blockNumber < Len(chain)
    BY <1>3 DEF InChain
  <1>5. n \in DOMAIN chain /\ out.blockNumber < Len(chain')
    BY <1>1, <1>2, <1>4
  <1>6. chain'[n] = chain[n]
    BY <1>1, <1>5
  <1>7. InChain(out, chain')
    BY <1>3, <1>5, <1>6 DEF InChain
  <1>8. TxAt(out)' = TxAt(out)
    BY <1>6 DEF TxAt, out
  <1> QED BY <1>3, <1>7, <1>8 DEF Names, out

LEMMA FormStays ==
  ASSUME IsSeq(chain), NEW b, chain' = Append(chain, b), NEW f, IsForm(f)
  PROVE  IsForm(f)'
  BY NamesStay DEF IsForm, Outputs

LEMMA NetPushStep ==
  ASSUME IInv, NetPush
  PROVE  IInv'
  <1>1. /\ chain' = Append(chain, netBlock) /\ netPc = "push" /\ netPc' = "idle"
        /\ UNCHANGED << uiPc, txe, typed, shared >>
    BY DEF NetPush, Others, formVars, builderVars, Writing
  <1>2. IsSeq(chain) /\ Pays(netBlock) /\ \A k \in DOMAIN chain : Pays(chain[k])
    BY <1>1 DEF IInv, ChainOK
  <1>3. ChainOK'
    <2>1. /\ IsSeq(chain')
          /\ \A k \in DOMAIN chain' : chain'[k] = netBlock
                                        \/ (k \in DOMAIN chain /\ chain'[k] = chain[k])
      BY <1>1, <1>2, AppendIsSeq
    <2>2. \A k \in DOMAIN chain' : Pays(chain'[k])
      BY <1>2, <2>1
    <2> QED BY <1>1, <2>1, <2>2 DEF ChainOK, Pays
  <1>4. \A f : IsForm(f) => IsForm(f)'
    BY <1>1, <1>2, FormStays
  <1>5. FormOK'
    BY <1>1, <1>4 DEF IInv, FormOK, Holds
  <1>6. SharedOK'
    BY <1>1, <1>4 DEF IInv, SharedOK, Sealed, Holds
  <1> QED BY <1>3, <1>5, <1>6 DEF IInv

\* A step that leaves the chain, the transaction and what was typed alone.
LEMMA UntouchedStep ==
  ASSUME IInv, chain' = chain, formVars' = formVars,
         uiPc' \in {"inputs", "tails", "share"} => uiPc' = uiPc,
         netPc' \in {"listed", "push"} => Pays(netBlock')
  PROVE  IInv'
  <1>1. UNCHANGED << chain, txe, typed, shared >>
    BY DEF formVars, builderVars
  <1>2. \A f : IsForm(f) => IsForm(f)'
    BY <1>1 DEF IsForm, Names, TxAt
  <1>3. ChainOK'
    BY <1>1 DEF IInv, ChainOK, Pays
  <1>4. FormOK'
    BY <1>1, <1>2 DEF IInv, FormOK, Holds
  <1>5. SharedOK'
    BY <1>1, <1>2 DEF IInv, SharedOK, Sealed, Holds
  <1> QED BY <1>3, <1>4, <1>5 DEF IInv

\* The steps of the main thread that type into the transaction or share it.
LEMMA FormStep ==
  ASSUME IInv, UNCHANGED netVars, IsForm(typed'),
         uiPc' \in {"inputs", "tails", "share"} => Holds(txe', typed'),
         shared' = shared \/ \E s : Sealed(s) /\ shared' = Append(shared, s)
  PROVE  IInv'
  <1>1. UNCHANGED << chain, netPc, netBlock >>
    BY DEF netVars
  <1>2. \A f : IsForm(f) <=> IsForm(f)'
    BY <1>1 DEF IsForm, Names, TxAt
  <1>3. ChainOK'
    BY <1>1 DEF IInv, ChainOK, Pays
  <1>4. FormOK'
    BY <1>2 DEF FormOK, Holds
  <1>5. SharedOK'
    <2>1. \A s : Sealed(s) => Sealed(s)'
      BY <1>2 DEF Sealed, Holds
    <2>2. CASE shared' = shared
      BY <2>1, <2>2 DEF IInv, SharedOK
    <2>3. ASSUME NEW s, Sealed(s), shared' = Append(shared, s)
          PROVE  SharedOK'
      <3>1. IsSeq(shared) /\ \A k \in DOMAIN shared : Sealed(shared[k])
        BY DEF IInv, SharedOK
      <3>2. /\ IsSeq(shared')
            /\ \A k \in DOMAIN shared' : shared'[k] = s
                                           \/ (k \in DOMAIN shared /\ shared'[k] = shared[k])
        BY <2>3, <3>1, AppendIsSeq
      <3> QED BY <2>1, <2>3, <3>1, <3>2 DEF SharedOK
    <2> QED BY <2>2, <2>3
  <1> QED BY <1>3, <1>4, <1>5 DEF IInv

LEMMA CreateTxeStep ==
  ASSUME IInv, CreateTxe
  PROVE  IInv'
  <1>1. /\ txe' = Builder!Default /\ typed' = Nothing /\ shared' = shared
        /\ UNCHANGED netVars
    BY DEF CreateTxe, NetAndMiner, Builder!Do, Builder!Execute, Builder!Command
  <1>2. Holds(txe', typed')
    BY <1>1 DEF Holds, Builder!Default, Nothing
  <1> QED BY <1>1, <1>2, NothingIsForm, FormStep

LEMMA ReadInputStep ==
  ASSUME IInv, ReadInput
  PROVE  IInv'
  <1>1. UNCHANGED netVars /\ shared' = shared /\ uiPc = "inputs"
    BY DEF ReadInput, NetAndMiner
  <1>2. IsForm(typed) /\ Holds(txe, typed)
    BY <1>1 DEF IInv, FormOK
  <1>3. CASE UNCHANGED << builderVars, typed >>
    BY <1>1, <1>2, <1>3, FormStep DEF builderVars
  <1>4. CASE \E h : \E out \in Outputs :
               LET input == [output |-> out, tailNum |-> 0, outputHash |-> h]
                   sound == InChain(out, chain) /\ ~Writing
               IN /\ sound => h = InfoHash(out)
                  /\ Builder!Do(Builder!Command("addInput", input))
                  /\ typed' = [typed EXCEPT !.inputs = Append(@, input),
                                            !.stray = @ \/ ~sound]
    <2>a. PICK h : \E out \in Outputs :
               LET input == [output |-> out, tailNum |-> 0, outputHash |-> h]
                   sound == InChain(out, chain) /\ ~Writing
               IN /\ sound => h = InfoHash(out)
                  /\ Builder!Do(Builder!Command("addInput", input))
                  /\ typed' = [typed EXCEPT !.inputs = Append(@, input),
                                            !.stray = @ \/ ~sound]
      BY <1>4
    <2>1. PICK out \in Outputs :
               LET input == [output |-> out, tailNum |-> 0, outputHash |-> h]
                   sound == InChain(out, chain) /\ ~Writing
               IN /\ sound => h = InfoHash(out)
                  /\ Builder!Do(Builder!Command("addInput", input))
                  /\ typed' = [typed EXCEPT !.inputs = Append(@, input),
                                            !.stray = @ \/ ~sound]
      BY <2>a
    <2> DEFINE input == [output |-> out, tailNum |-> 0, outputHash |-> h]
               sound == InChain(out, chain) /\ ~Writing
               a == Append(typed.inputs, input)
    <2>2. txe' = [txe EXCEPT !.inputs = Append(@, input)]
      BY <2>1 DEF Builder!Do, Builder!Execute, Builder!Command
    <2>3. /\ typed'.inputs = a /\ typed'.tails = typed.tails
          /\ typed'.stray = (typed.stray \/ ~sound)
          /\ typed' = [inputs |-> a, tails |-> typed.tails, stray |-> typed'.stray]
      BY <1>2, <2>1 DEF IsForm
    <2>4. sound => Names(input)
      BY <2>1 DEF Names, InfoHash
    <2>5. input.output \in Outputs /\ input.tailNum = 0
      OBVIOUS
    <2> HIDE DEF input, sound
    <2>6. /\ IsSeq(a)
          /\ \A k \in DOMAIN a : a[k] = input
                                   \/ (k \in DOMAIN typed.inputs /\ a[k] = typed.inputs[k])
      BY <1>2, AppendIsSeq DEF IsForm
    <2> HIDE DEF a
    <2>7. IsForm(typed')
      BY <1>2, <2>3, <2>4, <2>5, <2>6 DEF IsForm
    <2>8. Holds(txe', typed')
      BY <1>2, <2>2, <2>3 DEF Holds, a
    <2> QED BY <1>1, <2>7, <2>8, FormStep
  <1> QED
    BY <1>3, <1>4 DEF ReadInput

LEMMA ReadTailStep ==
  ASSUME IInv, ReadTail
  PROVE  IInv'
  <1>1. UNCHANGED netVars /\ shared' = shared /\ uiPc = "tails"
    BY DEF ReadTail, NetAndMiner
  <1>2. IsForm(typed) /\ Holds(txe, typed)
    BY <1>1 DEF IInv, FormOK
  <1>3. CASE UNCHANGED << builderVars, typed >>
    BY <1>1, <1>2, <1>3, FormStep DEF builderVars
  <1>4. CASE \E money \in Amounts :
               LET tail == [intValue |-> money, address |-> << >>]
               IN /\ Builder!Do(Builder!Command("addTail", tail))
                  /\ typed' = [typed EXCEPT !.tails = Append(@, tail)]
    <2>1. PICK money \in Amounts :
               LET tail == [intValue |-> money, address |-> << >>]
               IN /\ Builder!Do(Builder!Command("addTail", tail))
                  /\ typed' = [typed EXCEPT !.tails = Append(@, tail)]
      BY <1>4
    <2> DEFINE tail == [intValue |-> money, address |-> << >>]
               a == Append(typed.tails, tail)
    <2>2. txe' = [txe EXCEPT !.tails = Append(@, tail)]
      BY <2>1 DEF Builder!Do, Builder!Execute, Builder!Command
    <2>3. /\ typed'.inputs = typed.inputs /\ typed'.tails = a
          /\ typed'.stray = typed.stray
          /\ typed' = [inputs |-> typed.inputs, tails |-> a, stray |-> typed.stray]
      BY <1>2, <2>1 DEF IsForm
    <2>4. tail.address = << >>
      OBVIOUS
    <2> HIDE DEF tail
    <2>5. /\ IsSeq(a)
          /\ \A k \in DOMAIN a : a[k] = tail
                                   \/ (k \in DOMAIN typed.tails /\ a[k] = typed.tails[k])
      BY <1>2, AppendIsSeq DEF IsForm
    <2> HIDE DEF a
    <2>6. IsForm(typed')
      BY <1>2, <2>3, <2>4, <2>5 DEF IsForm
    <2>7. Holds(txe', typed')
      BY <1>2, <2>2, <2>3 DEF Holds, a
    <2> QED BY <1>1, <2>6, <2>7, FormStep
  <1> QED
    BY <1>3, <1>4 DEF ReadTail

LEMMA ShareStep ==
  ASSUME IInv, Share
  PROVE  IInv'
  <1>1. /\ UNCHANGED netVars /\ typed' = typed /\ uiPc = "share" /\ uiPc' = "menu"
        /\ txe' = Builder!Signed(txe, Key)
        /\ shared' = Append(shared, [tx |-> txe', typed |-> typed])
    BY DEF Share, Go, NetAndMiner, Builder!Do, Builder!Execute, Builder!Command
  <1>2. IsForm(typed) /\ Holds(txe, typed)
    BY <1>1 DEF IInv, FormOK
  <1> DEFINE s == [tx |-> txe', typed |-> typed]
  <1>3. Holds(txe', typed)
    BY <1>1, <1>2 DEF Holds, Builder!Signed
  <1>4. txe'.signature = << "signature", Key, Builder!TxeData(txe) >>
    BY <1>1, <1>2 DEF Holds, Builder!Signed, Builder!Signature
  <1>5. Sealed(s)
    BY <1>2, <1>3, <1>4 DEF Sealed
  <1> HIDE DEF s
  <1>6. shared' = Append(shared, s)
    BY <1>1 DEF s
  <1> QED BY <1>1, <1>2, <1>5, <1>6, FormStep

LEMMA Inductive == IInv /\ [Next]_vars => IInv'
  <1> SUFFICES ASSUME IInv, [Next]_vars PROVE IInv'
    OBVIOUS
  <1> USE UntouchedStep
  <1>0. netPc \in {"listed", "push"} => Pays(netBlock)
    BY DEF IInv, ChainOK
  <1>1. CASE NetList
    <2>1. Pays(netBlock')
      BY <1>1 DEF NetList, Pays, BlockTo
    <2> QED BY <1>1, <2>1 DEF NetList, Others
  <1>2. CASE NetLock
    BY <1>0, <1>2 DEF NetLock, Others, Pays
  <1>3. CASE NetPush
    BY <1>3, NetPushStep
  <1>4. CASE MinerMarks
    BY <1>0, <1>4 DEF MinerMarks, Others, netVars
  <1> USE DEF NetAndMiner, netVars, Go, Dies
  <1>5. CASE EnterWallet \/ NewWallet \/ MenuOther \/ ChangeMiner
    BY <1>0, <1>5 DEF EnterWallet, NewWallet, MenuOther, ChangeMiner
  <1>6. CASE Refresh \/ Scanned \/ SetCurrentSum
    BY <1>0, <1>6 DEF Refresh, Scanned, SetCurrentSum
  <1>7. CASE ScanEntry \/ CopyEntry
    BY <1>0, <1>7 DEF ScanEntry, CopyEntry
  <1>8. CASE Spin \/ OutOfMemory
    BY <1>0, <1>8 DEF Spin, OutOfMemory
  <1>9. CASE CreateTxe \/ ReadInput \/ ReadTail \/ Share
    BY <1>9, CreateTxeStep, ReadInputStep, ReadTailStep, ShareStep
  <1>10. CASE UNCHANGED vars
    BY <1>0, <1>10 DEF vars
  <1> QED
    BY <1>1, <1>2, <1>3, <1>4, <1>5, <1>6, <1>7, <1>8, <1>9, <1>10 DEF Next, Ui

LEMMA Invariant == Spec => []IInv
  BY InitInv, Inductive, PTL DEF Spec

LEMMA SharedAreSealed ==
  ASSUME IInv, NEW s \in Range(shared)
  PROVE  Sealed(s)
  BY DEF IInv, SharedOK, Range

\* What is shared is what was typed since the transaction was begun, whatever
\* an earlier one left in Command::txe (createTxe).
THEOREM SharesWhatWasTyped == Spec => []SharedIsWhatWasTyped
  <1>1. IInv => SharedIsWhatWasTyped
    BY SharedAreSealed DEF SharedIsWhatWasTyped, Sealed, Holds
  <1> QED BY <1>1, Invariant, PTL

\* The hash of an input typed from within the chain stays that of the
\* transaction it names, however the chain grows (readInputs, addBlock).
THEOREM SharesNameChain == Spec => []SharedNamesChain
  <1>1. IInv => SharedNamesChain
    <2> SUFFICES ASSUME IInv, NEW s \in Range(shared), ~s.typed.stray,
                        NEW i \in DOMAIN s.tx.inputs
                 PROVE  Names(s.tx.inputs[i])
      BY DEF SharedNamesChain, Names
    <2>1. Sealed(s)
      BY SharedAreSealed
    <2> QED BY <2>1 DEF Sealed, IsForm, Holds
  <1> QED BY <1>1, Invariant, PTL

\* Nothing the wallet shares can be accepted or pay anybody (Cleaner::Execute
\* swaps the public key away, readTails reads no address).
THEOREM SharesNothingOfUse == Spec => []SharedIsVoid
  <1>1. IInv => SharedIsVoid
    <2> SUFFICES ASSUME IInv, NEW s \in Range(shared)
                 PROVE  /\ ~Builder!Verifies(s.tx)
                        /\ \A i \in DOMAIN s.tx.inputs :
                             InChain(s.tx.inputs[i].output, chain) =>
                               TailAt(s.tx.inputs[i].output, s.tx.inputs[i].tailNum,
                                      chain).address # Sha(s.tx.pubKey)
                        /\ \A i \in DOMAIN s.tx.tails : s.tx.tails[i].address \notin Payees
      BY DEF SharedIsVoid
    <2>1. Sealed(s)
      BY SharedAreSealed
    <2>2. s.tx.pubKey = Builder!NoKey
      BY <2>1 DEF Sealed, Holds
    <2>3. ~Builder!Verifies(s.tx)
      <3>1. PICK d : s.tx.signature = << "signature", Key, d >>
        BY <2>1 DEF Sealed
      <3> QED BY <2>2, <3>1, PayeesAssumption DEF Builder!Verifies, Builder!Signature
    <2>4. ASSUME NEW i \in DOMAIN s.tx.inputs, InChain(s.tx.inputs[i].output, chain)
          PROVE  TailAt(s.tx.inputs[i].output, s.tx.inputs[i].tailNum, chain).address
                   # Sha(s.tx.pubKey)
      <3> DEFINE out == s.tx.inputs[i].output
      <3>1. out \in Outputs /\ s.tx.inputs[i].tailNum = 0
        BY <2>1, <2>4 DEF Sealed, IsForm, Holds
      <3>2. out.blockNumber \in Nat /\ out.txeNumber = 0
        <4>1. out.blockNumber \in 0 .. MaxBlocks /\ out.txeNumber \in {0}
          BY <3>1 DEF Outputs
        <4> QED BY <4>1, WalletBounds
      <3>3. out.blockNumber + 1 \in DOMAIN chain
        <4>1. out.blockNumber < Len(chain)
          BY <2>4 DEF InChain
        <4>2. DOMAIN chain = 1 .. Len(chain) /\ Len(chain) \in Nat
          BY DEF IInv, ChainOK, IsSeq
        <4> QED BY <3>2, <4>1, <4>2
      <3> HIDE DEF out
      <3>4. PICK a \in Payees : chain[out.blockNumber + 1].txs = << FirstTxe(a) >>
        BY <3>3 DEF IInv, ChainOK, Pays
      <3>5. TailAt(out, 0, chain) = FirstTxe(a).tails[1]
        BY <3>2, <3>4 DEF TailAt
      <3>6. FirstTxe(a).tails[1].address = a
        BY DEF FirstTxe
      <3>7. a # Sha(Builder!NoKey)
        BY <3>4, PayeesAssumption
      <3> QED BY <2>2, <3>1, <3>5, <3>6, <3>7 DEF out
    <2>5. \A i \in DOMAIN s.tx.tails : s.tx.tails[i].address \notin Payees
      BY <2>1, PayeesAssumption DEF Sealed, IsForm, Holds
    <2> QED BY <2>3, <2>4, <2>5
  <1> QED BY <1>1, Invariant, PTL

-----------------------------------------------------------------------------
(***************************************************************************)
(* The money.  An output is in the list once, so it is in the snapshot     *)
(* once; the snapshot names blocks of the chain that pay this wallet, and  *)
(* while it is made the lock keeps the list and the chain as they are, but *)
(* for the miner's marks.  So one refresh sums at most what was earned.    *)
(***************************************************************************)
Entries ==
  [output : [blockNumber : Nat, txeNumber : {0}], usedTails : {<< TRUE >>, << FALSE >>}]

\* A list names no output twice, and none from the block n on.
Distinct(list) ==
  \A i, j \in DOMAIN list : list[i].output = list[j].output => i = j

Below(list, n) == \A i \in DOMAIN list : list[i].output.blockNumber < n

\* The output is in the chain and pays this wallet.
Paying(out) == InChain(out, chain) /\ TailAt(out, 0, chain).address = address

\* While a block is being added the list is one block ahead of the chain.
Limit == IF netPc = "idle" THEN Len(chain) ELSE Len(chain) + 1

NumbersOK ==
  /\ Len(chain) <= MaxBlocks /\ netPc \in {"idle", "listed", "push"}
  /\ \A k \in DOMAIN chain : chain[k].currentNumber = k - 1
  /\ netPc # "idle" => netBlock.currentNumber = Len(chain) /\ Len(chain) < MaxBlocks

ListOK ==
  availibleTxes \in Seq(Entries) /\ Distinct(availibleTxes) /\ Below(availibleTxes, Limit)

SnapshotOK ==
  /\ availableForAddress \in Seq(Entries) /\ Distinct(availableForAddress)
  /\ \A k \in DOMAIN availableForAddress : Paying(availableForAddress[k].output)

\* What the scan has copied so far, it has passed in the list.
ScanOK ==
  /\ uiPc \in {"scan", "copy"} =>
       /\ netPc # "push"
       /\ \A k \in DOMAIN availableForAddress : \E i \in DOMAIN availibleTxes :
            i < uiAt /\ availibleTxes[i].output = availableForAddress[k].output
  /\ uiPc = "copy" => uiAt \in DOMAIN availibleTxes /\ Paying(availibleTxes[uiAt].output)

SumOK ==
  /\ sum \in Nat /\ finds \in Nat
  /\ finds = 0 => sum = 0
  /\ SumWithinEarned
  /\ uiPc \notin {"scan", "copy", "sum"} /\ sum = 0 =>
       \A k \in DOMAIN availableForAddress : availableForAddress[k].usedTails = << TRUE >>

FlagsOK ==
  /\ {mining, alive} \subseteq BOOLEAN /\ uiAt \in Nat
  /\ uiPc \in {"welcome", "menu", "scan", "copy", "sum", "inputs", "tails", "spin", "share"}

Money == NumbersOK /\ ListOK /\ SnapshotOK /\ ScanOK /\ SumOK /\ FlagsOK

-----------------------------------------------------------------------------
LEMMA EntriesAreAdded == Seq(Entries) \subseteq Seq(AddedOutput)
  <1>1. Entries \subseteq AddedOutput
    <2> SUFFICES ASSUME NEW e \in Entries PROVE e \in AddedOutput
      OBVIOUS
    <2>1. e = [output |-> e.output, usedTails |-> e.usedTails]
      BY DEF Entries
    <2>2. e.output \in [blockNumber : Nat, txeNumber : {0}]
      BY DEF Entries
    <2>3. e.output \in Output
      BY <2>2 DEF Output
    <2>4. e.usedTails \in Seq(BOOLEAN)
      <3>1. << TRUE >> \in Seq(BOOLEAN) /\ << FALSE >> \in Seq(BOOLEAN)
        OBVIOUS
      <3> QED BY <3>1 DEF Entries
    <2> QED BY <2>1, <2>3, <2>4 DEF AddedOutput
  <1> QED BY <1>1

LEMMA EntryType ==
  ASSUME NEW list \in Seq(Entries), NEW k \in DOMAIN list
  PROVE  /\ list[k] \in Entries
         /\ list[k].output \in [blockNumber : Nat, txeNumber : {0}]
         /\ list[k].output.blockNumber \in Nat
         /\ list[k].usedTails \in {<< TRUE >>, << FALSE >>}
  <1>1. list[k] \in Entries
    OBVIOUS
  <1> QED BY <1>1 DEF Entries

\* The blocks there are hold one tail each, of the reward.
LEMMA TailOfBlock ==
  ASSUME ChainOK, NEW out \in [blockNumber : Nat, txeNumber : {0}],
         out.blockNumber < Len(chain)
  PROVE  /\ InChain(out, chain) /\ out.blockNumber + 1 \in DOMAIN chain
         /\ TailAt(out, 0, chain).intValue = Reward
         /\ TailAt(out, 0, chain).address \in Payees
  <1>1. DOMAIN chain = 1 .. Len(chain) /\ Len(chain) \in Nat
    BY DEF ChainOK, IsSeq
  <1>2. out.blockNumber \in Nat /\ out.txeNumber = 0
    OBVIOUS
  <1>3. out.blockNumber + 1 \in DOMAIN chain
    BY <1>1, <1>2
  <1>4. PICK a \in Payees : chain[out.blockNumber + 1].txs = << FirstTxe(a) >>
    BY <1>3 DEF ChainOK, Pays
  <1>5. TailAt(out, 0, chain) = FirstTxe(a).tails[1]
    BY <1>2, <1>4 DEF TailAt
  <1>6. FirstTxe(a).tails[1].address = a /\ FirstTxe(a).tails[1].intValue = Reward
    BY DEF FirstTxe
  <1>7. Len(chain[out.blockNumber + 1].txs) = 1
    BY <1>4
  <1> QED BY <1>2, <1>3, <1>4, <1>5, <1>6, <1>7 DEF InChain

\* What each block of the chain c pays this wallet.
Payment(c) == [k \in DOMAIN c |->
  IF TailAt([blockNumber |-> k - 1, txeNumber |-> 0], 0, c).address = address
    THEN Reward ELSE 0]

LEMMA PaymentType ==
  ASSUME NEW c, IsSeq(c)
  PROVE  /\ Payment(c) \in [DOMAIN c -> {0, Reward}]
         /\ IsFiniteSet(DOMAIN c) /\ Reward \in Nat \ {0}
         /\ SumFunction(Payment(c)) \in Nat
  <1>1. Payment(c) \in [DOMAIN c -> {0, Reward}]
    BY DEF Payment
  <1>2. Reward \in Nat \ {0} /\ \A n \in Nat : Reward * n \in Nat
    BY DEF Reward
  <1>3. IsFiniteSet(DOMAIN c)
    <2>1. DOMAIN c = 1 .. Len(c) /\ Len(c) \in Nat
      BY DEF IsSeq
    <2> QED BY <2>1, FS_Interval
  <1>4. /\ SumFunction(Payment(c)) = Reward * Count(Payment(c), Reward, DOMAIN c)
        /\ Count(Payment(c), Reward, DOMAIN c) \in Nat
    BY <1>1, <1>2, <1>3, SumOfEqual
  <1> QED BY <1>1, <1>2, <1>3, <1>4

LEMMA EarnedType == ChainOK => Earned = SumFunction(Payment(chain)) /\ Earned \in Nat
  BY PaymentType DEF ChainOK, Earned, Payment

LEMMA InitMoney == Init => Money
  <1> SUFFICES ASSUME Init PROVE Money
    OBVIOUS
  <1>1. /\ chain = << >> /\ availibleTxes = << >> /\ netPc = "idle"
        /\ uiPc = "welcome" /\ uiAt = 1 /\ sum = 0 /\ finds = 0
        /\ availableForAddress = << >> /\ mining = FALSE /\ alive = TRUE
    BY DEF Init
  <1>2. Len(<< >>) = 0 /\ DOMAIN << >> = {} /\ << >> \in Seq(Entries)
    OBVIOUS
  <1>3. NumbersOK
    BY <1>1, <1>2, WalletBounds DEF NumbersOK
  <1>4. ListOK /\ SnapshotOK
    BY <1>1, <1>2 DEF ListOK, SnapshotOK, Distinct, Below
  <1>5. ScanOK /\ FlagsOK
    BY <1>1 DEF ScanOK, FlagsOK
  <1>6. Earned \in Nat
    BY InitInv, EarnedType DEF IInv
  <1>7. SumOK
    BY <1>1, <1>2, <1>6 DEF SumOK, SumWithinEarned
  <1> QED BY <1>3, <1>4, <1>5, <1>7 DEF Money

-----------------------------------------------------------------------------
(***************************************************************************)
(* What the two threads do to the list and to the chain.                   *)
(***************************************************************************)

\* A step that touches neither the main thread's place nor the money keeps of
\* Money what is about them, if it keeps what was earned and what pays.
LEMMA OthersStep ==
  ASSUME Money, Others, Earned \in Nat, Earned' \in Nat, Earned <= Earned',
         \A out \in [blockNumber : Nat, txeNumber : {0}] : Paying(out) => Paying(out)'
  PROVE  /\ SnapshotOK' /\ SumOK' /\ FlagsOK'
         /\ UNCHANGED << uiPc, uiAt, availableForAddress >>
  <1>1. UNCHANGED << mining, alive, uiPc, uiAt, sum, availableForAddress, finds >>
    BY DEF Others, moneyVars
  <1>2. SnapshotOK'
    <2>1. availableForAddress \in Seq(Entries)
      BY DEF Money, SnapshotOK
    <2>2. \A k \in DOMAIN availableForAddress :
            availableForAddress[k].output \in [blockNumber : Nat, txeNumber : {0}]
      BY <2>1, EntryType
    <2>3. \A k \in DOMAIN availableForAddress : Paying(availableForAddress[k].output)'
      BY <1>1, <2>2 DEF Money, SnapshotOK
    <2> QED BY <1>1, <2>3 DEF Money, SnapshotOK, Distinct
  <1>3. SumWithinEarned'
    <2>1. sum \in Nat /\ (finds <= 1 => sum <= Earned)
      BY DEF Money, SumOK, SumWithinEarned
    <2>2. sum <= Earned => sum <= Earned'
      BY <2>1
    <2>3. finds' <= 1 => sum' <= Earned'
      BY <1>1, <2>1, <2>2
    <2> QED BY <2>3 DEF SumWithinEarned
  <1>4. SumOK'
    BY <1>1, <1>3 DEF Money, SumOK
  <1>5. FlagsOK'
    BY <1>1 DEF Money, FlagsOK
  <1> QED BY <1>1, <1>2, <1>4, <1>5

\* Some of a list's entries name no output twice either.
LEMMA WithoutKeeps ==
  ASSUME NEW list \in Seq(Entries), Distinct(list), NEW n, Below(list, n), NEW drop
  PROVE  /\ Without(list, drop) \in Seq(Entries)
         /\ Distinct(Without(list, drop)) /\ Below(Without(list, drop), n)
  <1> DEFINE t == Without(list, drop)
  <1>1. t \in Seq(Entries) /\ \E idx : Within(t, list, idx)
    BY WithoutWithin
  <1> HIDE DEF t
  <1>2. PICK idx : Within(t, list, idx)
    BY <1>1
  <1>3. DOMAIN t = 1 .. Len(t) /\ DOMAIN list = 1 .. Len(list) /\ Len(t) \in Nat
    BY <1>1
  <1>4. /\ idx \in [DOMAIN t -> DOMAIN list]
        /\ \A j \in DOMAIN t : t[j] = list[idx[j]]
    BY <1>2, <1>3 DEF Within
  <1>5. ASSUME NEW i \in DOMAIN t, NEW j \in DOMAIN t, idx[i] = idx[j]
        PROVE  i = j
    <2>1. i \in Nat /\ j \in Nat /\ idx[i] \in Nat
      BY <1>3, <1>4
    <2>2. i < j => idx[i] < idx[j]
      BY <1>2, <1>3 DEF Within
    <2>3. j < i => idx[j] < idx[i]
      BY <1>2, <1>3 DEF Within
    <2> QED BY <1>5, <2>1, <2>2, <2>3
  <1>6. Distinct(t)
    BY <1>4, <1>5 DEF Distinct
  <1>7. Below(t, n)
    BY <1>4 DEF Below
  <1> QED BY <1>1, <1>6, <1>7 DEF t

\* The outputs of a block that is not in the chain yet are new.
LEMMA NewEntries ==
  ASSUME NEW list \in Seq(Entries), Distinct(list), NEW n \in Nat, Below(list, n),
         NEW new \in Seq(Entries), Len(new) = 1, new[1].output.blockNumber = n
  PROVE  /\ list \o new \in Seq(Entries)
         /\ Distinct(list \o new) /\ Below(list \o new, n + 1)
  <1> DEFINE all == list \o new
             m == Len(list)
  <1>1. /\ m \in Nat /\ DOMAIN list = 1 .. m
        /\ DOMAIN all = 1 .. (m + 1)
        /\ \A c \in 1 .. m : all[c] = list[c]
        /\ all[m + 1] = new[1]
    BY ConcatOne
  <1>2. all \in Seq(Entries)
    BY ConcatProperties
  <1> HIDE DEF all, m
  <1>3. \A i \in DOMAIN all : i # m + 1 => i \in 1 .. m /\ all[i].output.blockNumber < n
    BY <1>1 DEF Below
  <1>4. \A i \in DOMAIN all : all[i].output.blockNumber \in Nat
    BY <1>2, EntryType
  <1>5. Below(all, n + 1)
    <2> SUFFICES ASSUME NEW i \in DOMAIN all PROVE all[i].output.blockNumber < n + 1
      BY DEF Below
    <2>1. CASE i = m + 1
      BY <1>1, <2>1
    <2>2. CASE i # m + 1
      BY <1>3, <1>4, <2>2
    <2> QED BY <2>1, <2>2
  <1>6. Distinct(all)
    <2> SUFFICES ASSUME NEW i \in DOMAIN all, NEW j \in DOMAIN all,
                        all[i].output = all[j].output
                 PROVE  i = j
      BY DEF Distinct
    <2>1. CASE i = m + 1 /\ j # m + 1
      <3>1. all[i].output.blockNumber = n /\ all[j].output.blockNumber < n
        BY <1>1, <1>3, <2>1
      <3> QED BY <3>1
    <2>2. CASE i # m + 1 /\ j = m + 1
      <3>1. all[j].output.blockNumber = n /\ all[i].output.blockNumber < n
        BY <1>1, <1>3, <2>2
      <3> QED BY <3>1
    <2>3. CASE i # m + 1 /\ j # m + 1
      <3>1. i \in DOMAIN list /\ j \in DOMAIN list /\ all[i] = list[i] /\ all[j] = list[j]
        BY <1>1, <1>3, <2>3
      <3> QED BY <3>1 DEF Distinct
    <2> QED BY <2>1, <2>2, <2>3
  <1> QED BY <1>2, <1>5, <1>6 DEF all

LEMMA NewOutputsOf ==
  ASSUME NEW a, ChainOK
  PROVE  LET b == BlockTo(a)
         IN  /\ NewOutputs(b) \in Seq(Entries) /\ Len(NewOutputs(b)) = 1
             /\ NewOutputs(b)[1].output.blockNumber = Len(chain)
             /\ b.currentNumber = Len(chain) /\ Len(chain) \in Nat
  <1> DEFINE b == BlockTo(a)
             new == NewOutputs(b)
             e == [output |-> [blockNumber |-> Len(chain), txeNumber |-> 0],
                   usedTails |-> << FALSE >>]
  <1>1. Len(chain) \in Nat
    BY DEF ChainOK, IsSeq
  <1>2. b.currentNumber = Len(chain) /\ b.txs = << FirstTxe(a) >>
    BY DEF BlockTo
  <1>3. DOMAIN FirstTxe(a).tails = 1 .. 1 /\ DOMAIN << FirstTxe(a) >> = 1 .. 1
    BY DEF FirstTxe
  <1> HIDE DEF b
  <1>4. new = [i \in 1 .. 1 |-> [output |-> [blockNumber |-> Len(chain), txeNumber |-> i - 1],
                                usedTails |-> [j \in DOMAIN << FirstTxe(a) >>[i].tails |-> FALSE]]]
    BY <1>2, <1>3 DEF NewOutputs
  <1>5. << FALSE >> = [j \in 1 .. 1 |-> FALSE]
    <2> DEFINE f == [j \in 1 .. 1 |-> FALSE]
    <2>1. << FALSE >> \in Seq(BOOLEAN) /\ Len(<< FALSE >>) = 1 /\ << FALSE >>[1] = FALSE
      OBVIOUS
    <2>2. f \in Seq(BOOLEAN) /\ Len(f) = 1 /\ f[1] = FALSE
      OBVIOUS
    <2>3. \A i \in 1 .. 1 : i = 1
      OBVIOUS
    <2> QED BY <2>1, <2>2, <2>3, SeqEqual
  <1>6. new = [i \in 1 .. 1 |-> e]
    <2> DEFINE r(i) == [output |-> [blockNumber |-> Len(chain), txeNumber |-> i - 1],
                        usedTails |-> [j \in DOMAIN << FirstTxe(a) >>[i].tails |-> FALSE]]
    <2>1. << FirstTxe(a) >>[1] = FirstTxe(a) /\ 1 - 1 = 0
      OBVIOUS
    <2>2. r(1) = e
      BY <1>3, <1>5, <2>1
    <2>3. \A i \in 1 .. 1 : i = 1
      OBVIOUS
    <2>4. new = [i \in 1 .. 1 |-> r(i)]
      BY <1>4
    <2> HIDE DEF r, e, new
    <2> QED BY <2>2, <2>3, <2>4
  <1>7. e \in Entries /\ e.output.blockNumber = Len(chain)
    BY <1>1 DEF Entries
  <1> HIDE DEF new, e
  <1>8. new \in Seq(Entries) /\ Len(new) = 1 /\ new[1] = e
    BY <1>6, <1>7, OneElement
  <1> QED BY <1>1, <1>2, <1>7, <1>8 DEF new, b

LEMMA NetListMoney ==
  ASSUME IInv, Money, NetList
  PROVE  Money'
  <1>1. /\ netPc = "idle" /\ netPc' = "listed" /\ Len(chain) < MaxBlocks
        /\ uiPc \notin {"scan", "copy"} /\ chain' = chain /\ Others
    BY DEF NetList, Reading
  <1>2. PICK a \in Payees : netBlock' = BlockTo(a)
    BY DEF NetList
  <1> DEFINE new == NewOutputs(BlockTo(a))
             all == availibleTxes \o new
  <1>3. availibleTxes' = Cleared(all)
    BY <1>2 DEF NetList
  <1>4. /\ new \in Seq(Entries) /\ Len(new) = 1 /\ new[1].output.blockNumber = Len(chain)
        /\ BlockTo(a).currentNumber = Len(chain) /\ Len(chain) \in Nat
    BY NewOutputsOf DEF IInv
  <1>5. \E drop : Cleared(all) = Without(all, drop)
    <2> HIDE DEF all
    <2> QED BY DEF Cleared
  <1>6. /\ availibleTxes \in Seq(Entries) /\ Distinct(availibleTxes)
        /\ Below(availibleTxes, Len(chain))
    BY <1>1 DEF Money, ListOK, Limit
  <1> HIDE DEF new
  <1>7. all \in Seq(Entries) /\ Distinct(all) /\ Below(all, Len(chain) + 1)
    BY <1>4, <1>6, NewEntries
  <1> HIDE DEF all
  <1>8. ListOK'
    <2>1. PICK drop : availibleTxes' = Without(all, drop)
      BY <1>3, <1>5
    <2>2. Limit' = Len(chain) + 1
      BY <1>1 DEF Limit
    <2>3. /\ availibleTxes' \in Seq(Entries) /\ Distinct(availibleTxes')
          /\ Below(availibleTxes', Len(chain) + 1)
      BY <1>7, <2>1, WithoutKeeps
    <2> QED BY <2>2, <2>3 DEF ListOK, Distinct, Below
  <1>9. NumbersOK'
    BY <1>1, <1>2, <1>4 DEF Money, NumbersOK
  <1>10. Earned' = Earned /\ Earned \in Nat /\ \A out : Paying(out)' <=> Paying(out)
    BY <1>1, EarnedType DEF IInv, Earned, Paying
  <1>11. /\ SnapshotOK' /\ SumOK' /\ FlagsOK'
         /\ UNCHANGED << uiPc, uiAt, availableForAddress >>
    BY <1>1, <1>10, OthersStep
  <1>12. ScanOK'
    BY <1>1, <1>11 DEF ScanOK
  <1> QED BY <1>8, <1>9, <1>11, <1>12 DEF Money

LEMMA NetLockMoney ==
  ASSUME IInv, Money, NetLock
  PROVE  Money'
  <1>1. /\ netPc = "listed" /\ netPc' = "push" /\ uiPc \notin {"scan", "copy"}
        /\ UNCHANGED << chain, netBlock, availibleTxes >> /\ Others
    BY DEF NetLock, Reading
  <1>2. Earned' = Earned /\ Earned \in Nat /\ \A out : Paying(out)' <=> Paying(out)
    BY <1>1, EarnedType DEF IInv, Earned, Paying
  <1>3. /\ SnapshotOK' /\ SumOK' /\ FlagsOK'
        /\ UNCHANGED << uiPc, uiAt, availableForAddress >>
    BY <1>1, <1>2, OthersStep
  <1>4. Limit' = Limit
    BY <1>1 DEF Limit
  <1>5. ListOK' /\ NumbersOK' /\ ScanOK'
    BY <1>1, <1>3, <1>4 DEF Money, ListOK, NumbersOK, ScanOK, Distinct, Below
  <1> QED BY <1>3, <1>5 DEF Money

\* The chain grows at its end: what pays this wallet pays it on.
LEMMA PaymentsStay ==
  ASSUME IsSeq(chain), NEW b, chain' = Append(chain, b)
  PROVE  /\ \A out \in [blockNumber : Nat, txeNumber : {0}] : Paying(out) => Paying(out)'
         /\ SumFunction(Payment(chain)) <= SumFunction(Payment(chain'))
  <1>1. /\ IsSeq(chain') /\ Len(chain') = Len(chain) + 1 /\ Len(chain) \in Nat
        /\ DOMAIN chain = 1 .. Len(chain) /\ DOMAIN chain' = 1 .. (Len(chain) + 1)
        /\ \A k \in DOMAIN chain : chain'[k] = chain[k]
    BY AppendIsSeq
  <1>2. ASSUME NEW out \in [blockNumber : Nat, txeNumber : {0}], out.blockNumber < Len(chain)
        PROVE  /\ TailAt(out, 0, chain') = TailAt(out, 0, chain)
               /\ InChain(out, chain) => InChain(out, chain')
    <2>1. out.blockNumber \in Nat /\ out.blockNumber + 1 \in DOMAIN chain
          /\ out.blockNumber < Len(chain')
      BY <1>1, <1>2
    <2>2. chain'[out.blockNumber + 1] = chain[out.blockNumber + 1]
      BY <1>1, <2>1
    <2> QED BY <2>1, <2>2 DEF TailAt, InChain
  <1>3. ASSUME NEW out \in [blockNumber : Nat, txeNumber : {0}], Paying(out)
        PROVE  Paying(out)'
    <2>1. out.blockNumber < Len(chain) /\ InChain(out, chain)
      BY <1>3 DEF Paying, InChain
    <2>2. TailAt(out, 0, chain') = TailAt(out, 0, chain) /\ InChain(out, chain')
      BY <1>2, <2>1
    <2> QED BY <1>3, <2>2 DEF Paying
  <1>4. ASSUME NEW k \in DOMAIN chain PROVE Payment(chain')[k] = Payment(chain)[k]
    <2> DEFINE out == [blockNumber |-> k - 1, txeNumber |-> 0]
    <2>1. k - 1 \in Nat /\ k - 1 < Len(chain) /\ k \in DOMAIN chain'
      BY <1>1
    <2>2. out \in [blockNumber : Nat, txeNumber : {0}] /\ out.blockNumber < Len(chain)
      BY <2>1
    <2> HIDE DEF out
    <2>3. TailAt(out, 0, chain') = TailAt(out, 0, chain)
      BY <1>2, <2>2
    <2> QED BY <2>1, <2>3 DEF Payment, out
  <1> DEFINE h == [k \in DOMAIN chain |-> k]
             f == Payment(chain)
             g == Payment(chain')
  <1>5. h \in [DOMAIN chain -> DOMAIN chain']
    BY <1>1
  <1>6. /\ f \in [DOMAIN chain -> {0, Reward}] /\ IsFiniteSet(DOMAIN chain)
        /\ g \in [DOMAIN chain' -> {0, Reward}] /\ IsFiniteSet(DOMAIN chain')
        /\ Reward \in Nat \ {0}
    BY <1>1, PaymentType
  <1>7. DOMAIN f = DOMAIN chain /\ DOMAIN g = DOMAIN chain'
    BY <1>6
  <1>8. /\ \A x \in DOMAIN chain : f[x] = Reward => g[h[x]] = Reward
        /\ \A x, y \in DOMAIN chain :
             f[x] = Reward /\ f[y] = Reward /\ h[x] = h[y] => x = y
    BY <1>4
  <1> HIDE DEF h, f, g
  <1>9. Embeds(h, Reward, f, g) /\ ZeroOr(Reward, f) /\ ZeroOr(Reward, g)
    BY <1>5, <1>6, <1>7, <1>8 DEF Embeds, ZeroOr
  <1>10. SumFunction(f) <= SumFunction(g)
    BY <1>6, <1>9, SumAtMost
  <1> QED BY <1>3, <1>10 DEF f, g

LEMMA NetPushMoney ==
  ASSUME IInv, Money, NetPush
  PROVE  Money'
  <1>1. /\ netPc = "push" /\ netPc' = "idle" /\ chain' = Append(chain, netBlock)
        /\ UNCHANGED << netBlock, availibleTxes >> /\ Others
    BY DEF NetPush, Writing
  <1>2. uiPc \notin {"scan", "copy"}
    BY <1>1 DEF Money, ScanOK
  <1>3. IsSeq(chain) /\ IsSeq(chain')
    BY <1>1, AppendIsSeq DEF IInv, ChainOK
  <1>4. /\ Len(chain') = Len(chain) + 1 /\ Len(chain) \in Nat
        /\ DOMAIN chain = 1 .. Len(chain) /\ DOMAIN chain' = 1 .. (Len(chain) + 1)
        /\ \A k \in DOMAIN chain : chain'[k] = chain[k]
        /\ chain'[Len(chain) + 1] = netBlock
    BY <1>1, <1>3, AppendIsSeq
  <1>5. /\ Earned \in Nat /\ Earned' \in Nat /\ Earned <= Earned'
        /\ \A out \in [blockNumber : Nat, txeNumber : {0}] : Paying(out) => Paying(out)'
    <2>1. Earned = SumFunction(Payment(chain)) /\ Earned' = SumFunction(Payment(chain'))
      BY DEF Earned, Payment
    <2> QED BY <1>1, <1>3, <2>1, PaymentType, PaymentsStay
  <1>6. /\ SnapshotOK' /\ SumOK' /\ FlagsOK'
        /\ UNCHANGED << uiPc, uiAt, availableForAddress >>
    BY <1>1, <1>5, OthersStep
  <1>7. NumbersOK'
    <2>1. /\ netBlock.currentNumber = Len(chain) /\ Len(chain) < MaxBlocks /\ MaxBlocks \in Nat
          /\ \A k \in DOMAIN chain : chain[k].currentNumber = k - 1
      BY <1>1, WalletBounds DEF Money, NumbersOK
    <2>2. \A k \in DOMAIN chain' : chain'[k].currentNumber = k - 1
      <3>1. ASSUME NEW k \in DOMAIN chain' PROVE chain'[k].currentNumber = k - 1
        <4>1. CASE k = Len(chain) + 1
          BY <1>4, <2>1, <4>1
        <4>2. CASE k # Len(chain) + 1
          <5>1. k \in DOMAIN chain
            BY <1>4, <4>2
          <5> QED BY <1>4, <2>1, <5>1
        <4> QED BY <4>1, <4>2
      <3> QED BY <3>1
    <2>3. Len(chain') <= MaxBlocks
      BY <1>4, <2>1
    <2> QED BY <1>1, <2>2, <2>3 DEF NumbersOK
  <1>8. Limit' = Limit
    BY <1>1, <1>4 DEF Limit
  <1>9. ListOK' /\ ScanOK'
    BY <1>1, <1>2, <1>6, <1>8 DEF Money, ListOK, ScanOK, Distinct, Below
  <1> QED BY <1>6, <1>7, <1>9 DEF Money

\* The miner marks tails of the list, never of the snapshot.
LEMMA MinerMarksMoney ==
  ASSUME IInv, Money, MinerMarks
  PROVE  Money'
  <1>1. UNCHANGED << chain, netPc, netBlock >> /\ Others
    BY DEF MinerMarks, netVars
  <1>2. PICK k \in DOMAIN availibleTxes :
          availibleTxes' = [availibleTxes EXCEPT ![k].usedTails = << TRUE >>]
    BY DEF MinerMarks
  <1>3. availibleTxes \in Seq(Entries)
    BY DEF Money, ListOK
  <1> DEFINE e == [availibleTxes[k] EXCEPT !.usedTails = << TRUE >>]
  <1>4. e \in Entries /\ e.output = availibleTxes[k].output
    <2>1. availibleTxes[k] \in Entries
      BY <1>3, EntryType
    <2> QED BY <2>1 DEF Entries
  <1>5. availibleTxes' = [availibleTxes EXCEPT ![k] = e]
    BY <1>2
  <1> HIDE DEF e
  <1>6. /\ availibleTxes' \in Seq(Entries) /\ DOMAIN availibleTxes' = DOMAIN availibleTxes
        /\ \A i \in DOMAIN availibleTxes : availibleTxes'[i].output = availibleTxes[i].output
    BY <1>3, <1>4, <1>5
  <1>7. Earned' = Earned /\ Earned \in Nat /\ \A out : Paying(out)' <=> Paying(out)
    BY <1>1, EarnedType DEF IInv, Earned, Paying
  <1>8. /\ SnapshotOK' /\ SumOK' /\ FlagsOK'
        /\ UNCHANGED << uiPc, uiAt, availableForAddress >>
    BY <1>1, <1>7, OthersStep
  <1>9. Limit' = Limit
    BY <1>1 DEF Limit
  <1>10. ListOK'
    BY <1>6, <1>9 DEF Money, ListOK, Distinct, Below
  <1>11. ScanOK'
    BY <1>1, <1>6, <1>7, <1>8 DEF Money, ScanOK
  <1>12. NumbersOK'
    BY <1>1 DEF Money, NumbersOK
  <1> QED BY <1>8, <1>10, <1>11, <1>12 DEF Money

-----------------------------------------------------------------------------
(***************************************************************************)
(* The main thread.                                                        *)
(***************************************************************************)

\* A step that leaves the lists, the chain and the sum alone.
LEMMA KeepsMoney ==
  ASSUME Money, UNCHANGED << netVars, availibleTxes, moneyVars >>, FlagsOK', ScanOK',
         uiPc' \notin {"scan", "copy", "sum"} => uiPc \notin {"scan", "copy", "sum"}
  PROVE  Money'
  <1>1. UNCHANGED << chain, netPc, netBlock, availibleTxes, sum, availableForAddress, finds >>
    BY DEF netVars, moneyVars
  <1>2. NumbersOK' /\ ListOK'
    BY <1>1 DEF Money, NumbersOK, ListOK, Limit, Distinct, Below
  <1>3. SnapshotOK'
    BY <1>1 DEF Money, SnapshotOK, Distinct, Paying
  <1>4. SumOK'
    BY <1>1 DEF Money, SumOK, SumWithinEarned, Earned
  <1> QED BY <1>2, <1>3, <1>4 DEF Money

\* The main thread goes on outside of setAvailaibleForAddress.
LEMMA ElsewhereMoney ==
  ASSUME Money, UNCHANGED << netVars, availibleTxes, moneyVars, uiAt >>,
         {mining', alive'} \subseteq BOOLEAN,
         \/ uiPc' = uiPc
         \/ uiPc' \in {"welcome", "menu", "inputs", "tails", "spin", "share"}
              /\ uiPc \notin {"scan", "copy", "sum"}
         \/ uiPc' = "sum"
  PROVE  Money'
  <1>1. FlagsOK'
    BY DEF Money, FlagsOK
  <1>2. ScanOK'
    BY DEF Money, ScanOK, netVars, moneyVars, Paying
  <1> QED BY <1>1, <1>2, KeepsMoney

LEMMA RefreshMoney ==
  ASSUME Money, Refresh
  PROVE  Money'
  <1>1. /\ uiPc = "menu" /\ netPc # "push" /\ availableForAddress' = << >>
        /\ uiPc' = "scan" /\ uiAt' = 1
        /\ UNCHANGED << chain, netPc, netBlock, availibleTxes, mining, alive, sum, finds >>
    BY DEF Refresh, Writing, NetAndMiner, netVars
  <1>2. NumbersOK' /\ ListOK' /\ FlagsOK'
    BY <1>1 DEF Money, NumbersOK, ListOK, Limit, Distinct, Below, FlagsOK
  <1>3. << >> \in Seq(Entries) /\ DOMAIN << >> = {}
    OBVIOUS
  <1>4. SnapshotOK' /\ ScanOK'
    BY <1>1, <1>3 DEF SnapshotOK, ScanOK, Distinct
  <1>5. SumOK'
    BY <1>1 DEF Money, SumOK, SumWithinEarned, Earned
  <1> QED BY <1>2, <1>4, <1>5 DEF Money

LEMMA ScanEntryMoney ==
  ASSUME IInv, Money, ScanEntry
  PROVE  Money'
  <1>1. /\ uiPc = "scan" /\ uiAt \in DOMAIN availibleTxes
        /\ UNCHANGED << netVars, availibleTxes, mining, moneyVars >>
    BY DEF ScanEntry, NetAndMiner
  <1> DEFINE out == availibleTxes[uiAt].output
  <1>2. CASE InChain(out, chain) /\ IsMine(availibleTxes[uiAt])
              /\ uiPc' = "copy" /\ UNCHANGED << uiAt, alive >>
    <2>1. Paying(out)
      BY <1>2 DEF IsMine, Paying
    <2>2. ScanOK'
      BY <1>1, <1>2, <2>1 DEF Money, ScanOK, netVars, moneyVars, Paying
    <2>3. FlagsOK'
      BY <1>1, <1>2 DEF Money, FlagsOK
    <2> QED BY <1>1, <1>2, <2>2, <2>3, KeepsMoney
  <1>3. CASE uiAt' = uiAt + 1 /\ UNCHANGED << uiPc, alive >>
    <2>1. uiAt \in Nat /\ \A i \in DOMAIN availibleTxes : i \in Nat
      BY DEF Money, ListOK, FlagsOK
    <2>2. \A i \in DOMAIN availibleTxes : i < uiAt => i < uiAt + 1
      BY <2>1
    <2>3. ScanOK'
      BY <1>1, <1>3, <2>2 DEF Money, ScanOK, netVars, moneyVars
    <2>4. FlagsOK'
      BY <1>1, <1>3, <2>1 DEF Money, FlagsOK
    <2> QED BY <1>1, <1>3, <2>3, <2>4, KeepsMoney
  <1>4. CASE Dies
    BY <1>1, <1>4, ElsewhereMoney DEF Dies, Money, FlagsOK
  <1> QED BY <1>2, <1>3, <1>4 DEF ScanEntry

LEMMA CopyEntryMoney ==
  ASSUME IInv, Money, CopyEntry
  PROVE  Money'
  <1> DEFINE e == availibleTxes[uiAt]
             n == Len(availableForAddress)
             list == Append(availableForAddress, e)
  <1>1. /\ uiPc = "copy" /\ uiPc' = "scan" /\ uiAt' = uiAt + 1
        /\ availableForAddress' = list
        /\ UNCHANGED << chain, netPc, netBlock, availibleTxes, mining, alive, sum, finds >>
    BY DEF CopyEntry, NetAndMiner, netVars
  <1>2. /\ availableForAddress \in Seq(Entries) /\ availibleTxes \in Seq(Entries)
        /\ Distinct(availableForAddress) /\ Distinct(availibleTxes)
        /\ uiAt \in DOMAIN availibleTxes /\ uiAt \in Nat /\ Paying(e.output) /\ netPc # "push"
        /\ \A k \in DOMAIN availableForAddress : Paying(availableForAddress[k].output)
        /\ \A k \in DOMAIN availableForAddress : \E i \in DOMAIN availibleTxes :
             i < uiAt /\ availibleTxes[i].output = availableForAddress[k].output
    BY <1>1 DEF Money, ListOK, SnapshotOK, ScanOK, FlagsOK
  <1>3. e \in Entries
    BY <1>2, EntryType
  <1> HIDE DEF e
  <1>4. /\ list \in Seq(Entries) /\ DOMAIN list = 1 .. n + 1 /\ n \in Nat
        /\ DOMAIN availableForAddress = 1 .. n
        /\ list[n + 1] = e /\ \A k \in 1 .. n : list[k] = availableForAddress[k]
    BY <1>2, <1>3, AppendProperties
  <1> HIDE DEF list, n
  <1>5. ASSUME NEW k \in 1 .. n
        PROVE  \E i \in DOMAIN availibleTxes :
                 i < uiAt /\ availibleTxes[i].output = list[k].output
    BY <1>2, <1>4
  <1>6. ASSUME NEW k \in 1 .. n
        PROVE  list[k].output # e.output
    <2>1. PICK i \in DOMAIN availibleTxes : i < uiAt /\ availibleTxes[i].output = list[k].output
      BY <1>5
    <2>2. i \in Nat /\ i # uiAt
      BY <1>2, <2>1
    <2> QED BY <1>2, <2>1, <2>2 DEF Distinct, e
  <1>7. \A k \in 1 .. n + 1 : k \in 1 .. n \/ k = n + 1
    BY <1>4
  <1>8. Distinct(list)
    BY <1>2, <1>4, <1>6, <1>7 DEF Distinct
  <1>9. \A k \in DOMAIN list : Paying(list[k].output)
    BY <1>2, <1>4, <1>7
  <1>10. SnapshotOK'
    BY <1>1, <1>4, <1>8, <1>9 DEF SnapshotOK, Distinct, Paying
  <1>11. ScanOK'
    <2>1. ASSUME NEW k \in DOMAIN list
          PROVE  \E i \in DOMAIN availibleTxes :
                   i < uiAt + 1 /\ availibleTxes[i].output = list[k].output
      <3>1. CASE k = n + 1
        <4>1. uiAt < uiAt + 1 /\ availibleTxes[uiAt].output = list[k].output
          BY <1>2, <1>4, <3>1 DEF e
        <4> QED BY <1>2, <4>1
      <3>2. CASE k \in 1 .. n
        <4>1. PICK i \in DOMAIN availibleTxes :
                i < uiAt /\ availibleTxes[i].output = list[k].output
          BY <1>5, <3>2
        <4>2. i \in Nat
          BY <1>2
        <4>3. i < uiAt + 1
          BY <1>2, <4>1, <4>2
        <4> QED BY <4>1, <4>3
      <3> QED BY <1>4, <1>7, <3>1, <3>2
    <2> QED BY <1>1, <1>2, <2>1 DEF ScanOK
  <1>12. NumbersOK' /\ ListOK' /\ SumOK'
    BY <1>1 DEF Money, NumbersOK, ListOK, Limit, Distinct, Below, SumOK, SumWithinEarned, Earned
  <1>13. FlagsOK'
    BY <1>1, <1>2 DEF Money, FlagsOK
  <1> QED BY <1>10, <1>11, <1>12, <1>13 DEF Money

\* What the snapshot is worth: no more than the chain ever paid this wallet,
\* and nothing only if all of it is used.
Values == [k \in DOMAIN availableForAddress |-> Value(availableForAddress[k])]

LEMMA SnapshotIsWorth ==
  ASSUME IInv, Money
  PROVE  /\ SnapshotValue \in Nat /\ SnapshotValue <= Earned /\ Earned \in Nat
         /\ SnapshotValue = 0 =>
              \A k \in DOMAIN availableForAddress : availableForAddress[k].usedTails = << TRUE >>
  <1> DEFINE s == availableForAddress
             f == Values
             g == Payment(chain)
             h == [k \in DOMAIN s |-> s[k].output.blockNumber + 1]
             out(k) == [blockNumber |-> k - 1, txeNumber |-> 0]
  <1>1. /\ s \in Seq(Entries) /\ Distinct(s) /\ \A k \in DOMAIN s : Paying(s[k].output)
        /\ ChainOK /\ IsSeq(chain)
    BY DEF Money, SnapshotOK, IInv, ChainOK
  <1>2. /\ g \in [DOMAIN chain -> {0, Reward}] /\ IsFiniteSet(DOMAIN chain)
        /\ Reward \in Nat \ {0}
    BY <1>1, PaymentType
  <1>3. ASSUME NEW k \in DOMAIN s
        PROVE  /\ s[k].output \in [blockNumber : Nat, txeNumber : {0}]
               /\ s[k].output.blockNumber \in Nat
               /\ s[k].usedTails \in {<< TRUE >>, << FALSE >>}
               /\ s[k].output.blockNumber < Len(chain)
    BY <1>1, EntryType DEF Paying, InChain
  <1>4. ASSUME NEW k \in DOMAIN s
        PROVE  /\ s[k].output.blockNumber + 1 \in DOMAIN chain
               /\ TailAt(s[k].output, 0, chain).intValue = Reward
               /\ TailAt(s[k].output, 0, chain).address = address
    BY <1>1, <1>3, TailOfBlock DEF Paying
  <1>5. ASSUME NEW k \in DOMAIN s
        PROVE  f[k] = IF s[k].usedTails = << TRUE >> THEN 0 ELSE Reward
    <2>1. f[k] = Value(s[k])
      BY DEF Values
    <2>2. << TRUE >>[1] = TRUE /\ << FALSE >>[1] = FALSE
      OBVIOUS
    <2>3. CASE s[k].usedTails = << TRUE >>
      <3>1. ~IsMine(s[k])
        BY <2>2, <2>3 DEF IsMine
      <3> QED BY <2>1, <2>3, <3>1 DEF Value
    <2>4. CASE s[k].usedTails = << FALSE >>
      <3>1. IsMine(s[k])
        BY <1>4, <2>2, <2>4 DEF IsMine
      <3>2. f[k] = Reward
        BY <1>4, <2>1, <3>1 DEF Value
      <3>3. << TRUE >> # << FALSE >>
        BY <2>2
      <3> QED BY <2>4, <3>2, <3>3
    <2> QED BY <1>3, <2>3, <2>4
  <1>6. DOMAIN f = DOMAIN s /\ f = [k \in DOMAIN s |-> f[k]]
    BY DEF Values
  <1> HIDE DEF f
  <1>7. f \in [DOMAIN s -> {0, Reward}]
    BY <1>5, <1>6
  <1>8. IsFiniteSet(DOMAIN s)
    <2>1. DOMAIN s = 1 .. Len(s) /\ Len(s) \in Nat
      BY <1>1
    <2> QED BY <2>1, FS_Interval
  <1>a. \A k \in DOMAIN s : h[k] = s[k].output.blockNumber + 1
    OBVIOUS
  <1>b. h \in [DOMAIN s -> DOMAIN chain]
    BY <1>4
  <1> HIDE DEF h, s
  <1>c. \A n \in Nat : (n + 1) - 1 = n
    OBVIOUS
  <1>9. ASSUME NEW k \in DOMAIN s PROVE g[h[k]] = Reward
    <2> DEFINE n == s[k].output.blockNumber + 1
    <2>0. n - 1 = s[k].output.blockNumber
      BY <1>3, <1>c
    <2>1. h[k] = n /\ n \in DOMAIN chain
      BY <1>4, <1>a
    <2>2. out(n) = s[k].output
      <3>1. s[k].output = [blockNumber |-> s[k].output.blockNumber, txeNumber |-> 0]
        BY <1>3
      <3> QED BY <2>0, <3>1
    <2> HIDE DEF n
    <2>3. g[n] = IF TailAt(out(n), 0, chain).address = address THEN Reward ELSE 0
      BY <2>1 DEF Payment
    <2> HIDE DEF out
    <2> QED BY <1>4, <2>1, <2>2, <2>3
  <1>10. ASSUME NEW i \in DOMAIN s, NEW j \in DOMAIN s, h[i] = h[j]
         PROVE  i = j
    <2>1. s[i].output.blockNumber = s[j].output.blockNumber
      <3>1. s[i].output.blockNumber + 1 = s[j].output.blockNumber + 1
        BY <1>10, <1>a
      <3> QED BY <1>3, <1>c, <3>1
    <2>2. /\ s[i].output = [blockNumber |-> s[i].output.blockNumber, txeNumber |-> 0]
          /\ s[j].output = [blockNumber |-> s[j].output.blockNumber, txeNumber |-> 0]
      BY <1>3
    <2>3. s[i].output = s[j].output
      BY <2>1, <2>2
    <2> QED BY <1>1, <2>3 DEF Distinct
  <1>12. DOMAIN g = DOMAIN chain
    BY <1>2
  <1> HIDE DEF g
  <1>13. ZeroOr(Reward, f) /\ ZeroOr(Reward, g)
    BY <1>2, <1>6, <1>7, <1>8, <1>12 DEF ZeroOr
  <1>14. Embeds(h, Reward, f, g)
    BY <1>6, <1>9, <1>10, <1>12, <1>b DEF Embeds
  <1>15. SumFunction(f) \in Nat /\ SumFunction(f) <= SumFunction(g)
    BY <1>2, <1>13, <1>14, SumAtMost
  <1>16. SumFunction(f) = SnapshotValue
    BY DEF SnapshotValue, Values, f
  <1>17. Earned = SumFunction(g) /\ Earned \in Nat
    BY <1>1, EarnedType DEF g
  <1>18. SnapshotValue = 0 => \A k \in DOMAIN s : s[k].usedTails = << TRUE >>
    <2> SUFFICES ASSUME SumFunction(f) = 0, NEW k \in DOMAIN s
                 PROVE  s[k].usedTails = << TRUE >>
      BY <1>16
    <2>1. f[k] = 0
      BY <1>2, <1>7, <1>8, SumIsZero
    <2> QED BY <1>2, <1>5, <2>1
  <1> QED BY <1>15, <1>16, <1>17, <1>18 DEF s

LEMMA SetCurrentSumMoney ==
  ASSUME IInv, Money, SetCurrentSum
  PROVE  Money'
  <1> DEFINE v == SnapshotValue
  <1>1. /\ uiPc = "sum" /\ uiPc' = "menu" /\ sum' = sum + v
        /\ finds' = IF v > 0 THEN finds + 1 ELSE finds
        /\ UNCHANGED << chain, netPc, netBlock, availibleTxes, mining, alive,
                        uiAt, availableForAddress >>
    BY DEF SetCurrentSum, Go, NetAndMiner, netVars
  <1>2. /\ v \in Nat /\ v <= Earned /\ Earned \in Nat
        /\ v = 0 => \A k \in DOMAIN availableForAddress :
                      availableForAddress[k].usedTails = << TRUE >>
    BY SnapshotIsWorth
  <1> HIDE DEF v
  <1>3. /\ sum \in Nat /\ finds \in Nat /\ (finds = 0 => sum = 0)
        /\ (finds <= 1 => sum <= Earned)
    BY DEF Money, SumOK, SumWithinEarned
  <1>4. sum' \in Nat /\ finds' \in Nat /\ (finds' = 0 => sum' = 0) /\ (sum' = 0 => v = 0)
    BY <1>1, <1>2, <1>3
  <1>5. finds' <= 1 => sum' <= Earned
    <2>1. CASE v = 0
      BY <1>1, <1>2, <1>3, <2>1
    <2>2. CASE v # 0
      <3>1. finds' <= 1 => finds = 0
        BY <1>1, <1>2, <1>3, <2>2
      <3> QED BY <1>1, <1>2, <1>3, <3>1
    <2> QED BY <2>1, <2>2
  <1>6. Earned' = Earned
    BY <1>1 DEF Earned
  <1>7. SumOK'
    BY <1>1, <1>2, <1>4, <1>5, <1>6 DEF SumOK, SumWithinEarned
  <1>8. NumbersOK' /\ ListOK' /\ SnapshotOK' /\ ScanOK' /\ FlagsOK'
    BY <1>1 DEF Money, NumbersOK, ListOK, Limit, SnapshotOK, ScanOK, Distinct, Below,
                Paying, FlagsOK
  <1> QED BY <1>7, <1>8 DEF Money

LEMMA MoneyInductive == IInv /\ Money /\ [Next]_vars => Money'
  <1> SUFFICES ASSUME IInv, Money, [Next]_vars PROVE Money'
    OBVIOUS
  <1>1. CASE NetList \/ NetLock \/ NetPush \/ MinerMarks
    BY <1>1, NetListMoney, NetLockMoney, NetPushMoney, MinerMarksMoney
  <1>2. CASE Refresh \/ ScanEntry \/ CopyEntry \/ SetCurrentSum
    BY <1>2, RefreshMoney, ScanEntryMoney, CopyEntryMoney, SetCurrentSumMoney
  <1>3. {mining, alive} \subseteq BOOLEAN
    BY DEF Money, FlagsOK
  <1>4. CASE EnterWallet \/ NewWallet \/ MenuOther \/ ChangeMiner \/ Scanned
    BY <1>3, <1>4, ElsewhereMoney
       DEF EnterWallet, NewWallet, MenuOther, ChangeMiner, Scanned, Go, Dies, NetAndMiner
  <1>5. CASE CreateTxe \/ Share \/ Spin \/ OutOfMemory
    BY <1>3, <1>5, ElsewhereMoney DEF CreateTxe, Share, Spin, OutOfMemory, Go, Dies, NetAndMiner
  <1>6. CASE ReadInput
    <2>1. /\ uiPc = "inputs" /\ UNCHANGED << netVars, availibleTxes, mining, moneyVars, uiAt >>
          /\ uiPc' \in {"inputs", "tails"} /\ alive' \in {alive, FALSE}
      BY <1>6 DEF ReadInput, Go, Dies, NetAndMiner
    <2> QED BY <1>3, <2>1, ElsewhereMoney
  <1>7. CASE ReadTail
    <2>1. /\ uiPc = "tails" /\ UNCHANGED << netVars, availibleTxes, mining, moneyVars, uiAt >>
          /\ uiPc' \in {"tails", "share", "spin"} /\ alive' = alive
      BY <1>7 DEF ReadTail, Go, NetAndMiner
    <2> QED BY <1>3, <2>1, ElsewhereMoney
  <1>8. CASE UNCHANGED vars
    BY <1>3, <1>8, ElsewhereMoney DEF vars
  <1> QED BY <1>1, <1>2, <1>4, <1>5, <1>6, <1>7, <1>8 DEF Next, Ui

LEMMA MoneyInvariant == Spec => []Money
  BY InitMoney, MoneyInductive, Invariant, PTL DEF Spec

\* Until a second refresh finds coins, the sum is at most what the chain ever
\* paid this address (setAvailaibleForAddress, setCurrentSum).
THEOREM SumsWithinEarned == Spec => []SumWithinEarned
  <1>1. Money => SumWithinEarned
    BY DEF Money, SumOK
  <1> QED BY <1>1, MoneyInvariant, PTL

\* createTxe turns nobody away whose last refresh found an unused output.
THEOREM RefusesPennilessOnly == Spec => []RefusesOnlyPenniless
  <1>1. Money => RefusesOnlyPenniless
    <2> SUFFICES ASSUME Money, uiPc = "menu", sum = 0,
                        NEW e \in Range(availableForAddress)
                 PROVE  AllUsed(e)
      BY DEF RefusesOnlyPenniless
    <2>1. e.usedTails = << TRUE >>
      BY DEF Money, SumOK, Range
    <2>2. DOMAIN << TRUE >> = {1} /\ << TRUE >>[1]
      OBVIOUS
    <2> QED BY <2>1, <2>2 DEF AllUsed
  <1> QED BY <1>1, MoneyInvariant, PTL

-----------------------------------------------------------------------------
(***************************************************************************)
(* The type of the builder's variables.                                    *)
(***************************************************************************)
BuilderOK == Builder!TypeOK

LEMMA BuilderSeq == \A s : Builder!IsSeq(s) <=> IsSeq(s)
  BY DEF Builder!IsSeq, IsSeq

LEMMA BuilderDo ==
  ASSUME BuilderOK, NEW c, Builder!Do(c), Builder!IsBuilt(txe'),
         Builder!IsKept(Builder!Kept(c, txe)), Builder!Undoable(c, txe) \in BOOLEAN
  PROVE  BuilderOK'
  <1> DEFINE k == Builder!Kept(c, txe)
             e == [was |-> txe, sure |-> Builder!Undoable(c, txe)]
  <1>1. DoneCommands' = Append(DoneCommands, k) /\ past' = Append(past, e)
    BY DEF Builder!Do
  <1>2. /\ Builder!IsBuilt(txe)
        /\ IsSeq(DoneCommands) /\ IsSeq(past) /\ Len(past) = Len(DoneCommands)
        /\ \A i \in DOMAIN DoneCommands : Builder!IsKept(DoneCommands[i])
        /\ \A i \in DOMAIN past : Builder!IsBuilt(past[i].was) /\ past[i].sure \in BOOLEAN
    BY BuilderSeq DEF BuilderOK, Builder!TypeOK
  <1>3. e.was = txe /\ e.sure \in BOOLEAN /\ Builder!IsKept(k)
    OBVIOUS
  <1> HIDE DEF k, e
  <1>4. /\ IsSeq(DoneCommands') /\ Len(DoneCommands') = Len(DoneCommands) + 1
        /\ \A i \in DOMAIN DoneCommands' :
             DoneCommands'[i] = k
               \/ (i \in DOMAIN DoneCommands /\ DoneCommands'[i] = DoneCommands[i])
    BY <1>1, <1>2, AppendIsSeq
  <1>5. /\ IsSeq(past') /\ Len(past') = Len(past) + 1
        /\ \A i \in DOMAIN past' :
             past'[i] = e \/ (i \in DOMAIN past /\ past'[i] = past[i])
    BY <1>1, <1>2, AppendIsSeq
  <1>6. \A i \in DOMAIN DoneCommands' : Builder!IsKept(DoneCommands'[i])
    BY <1>2, <1>3, <1>4
  <1>7. \A i \in DOMAIN past' : Builder!IsBuilt(past'[i].was) /\ past'[i].sure \in BOOLEAN
    BY <1>2, <1>3, <1>5
  <1> QED BY <1>2, <1>4, <1>5, <1>6, <1>7, BuilderSeq DEF BuilderOK, Builder!TypeOK

LEMMA BuilderInit == Init => BuilderOK
  <1> SUFFICES ASSUME Init PROVE BuilderOK
    OBVIOUS
  <1>1. /\ txe = [Builder!Default EXCEPT !.pubKey = Key]
        /\ DoneCommands = << >> /\ past = << >>
    BY DEF Init
  <1>2. Builder!IsBuilt(txe)
    BY <1>1 DEF Builder!IsBuilt, Builder!Default
  <1> QED BY <1>1, <1>2, EmptyIsSeq, BuilderSeq DEF BuilderOK, Builder!TypeOK

LEMMA ClearBuilder ==
  ASSUME BuilderOK, Builder!Do(Builder!Command("clear", Builder!Default))
  PROVE  BuilderOK'
  <1> DEFINE c == Builder!Command("clear", Builder!Default)
  <1> USE DEF Builder!Command
  <1>1. txe' = Builder!Default
    BY DEF Builder!Do, Builder!Execute
  <1>2. Builder!IsBuilt(txe')
    BY <1>1 DEF Builder!IsBuilt, Builder!Default
  <1>3. Builder!IsKept(Builder!Kept(c, txe))
    BY DEF Builder!Kept, Builder!IsKept, BuilderOK, Builder!TypeOK
  <1>4. Builder!Undoable(c, txe) \in BOOLEAN
    BY DEF Builder!Undoable
  <1> HIDE DEF c
  <1>5. Builder!Do(c)
    BY DEF c
  <1> QED BY <1>2, <1>3, <1>4, <1>5, BuilderDo

LEMMA AddInputToBuilder ==
  ASSUME BuilderOK, NEW input \in TypedInputs, Builder!Do(Builder!Command("addInput", input))
  PROVE  BuilderOK'
  <1> DEFINE c == Builder!Command("addInput", input)
  <1>1. c.op = "addInput" /\ c.arg = input /\ c \in Builder!Commands
    BY DEF Builder!Command, Builder!Commands
  <1> HIDE DEF c
  <1>2. txe' = [txe EXCEPT !.inputs = Append(@, input)] /\ Builder!Do(c)
    BY <1>1 DEF Builder!Do, Builder!Execute, c
  <1>3. Builder!IsBuilt(txe)
    BY DEF BuilderOK, Builder!TypeOK
  <1>4. Append(txe.inputs, input) \in Seq(TypedInputs)
    BY <1>3, AppendProperties DEF Builder!IsBuilt
  <1>5. Builder!IsBuilt(txe')
    BY <1>2, <1>3, <1>4 DEF Builder!IsBuilt
  <1>6. Builder!IsKept(Builder!Kept(c, txe))
    BY <1>1 DEF Builder!Kept, Builder!IsKept
  <1>7. Builder!Undoable(c, txe) \in BOOLEAN
    BY <1>1 DEF Builder!Undoable, Builder!OnlyAtEnd
  <1> QED BY <1>2, <1>5, <1>6, <1>7, BuilderDo

LEMMA AddTailToBuilder ==
  ASSUME BuilderOK, NEW tail \in TypedTails, Builder!Do(Builder!Command("addTail", tail))
  PROVE  BuilderOK'
  <1> DEFINE c == Builder!Command("addTail", tail)
  <1>1. c.op = "addTail" /\ c.arg = tail /\ c \in Builder!Commands
    BY DEF Builder!Command, Builder!Commands
  <1> HIDE DEF c
  <1>2. txe' = [txe EXCEPT !.tails = Append(@, tail)] /\ Builder!Do(c)
    BY <1>1 DEF Builder!Do, Builder!Execute, c
  <1>3. Builder!IsBuilt(txe)
    BY DEF BuilderOK, Builder!TypeOK
  <1>4. Append(txe.tails, tail) \in Seq(TypedTails)
    BY <1>3, AppendProperties DEF Builder!IsBuilt
  <1>5. Builder!IsBuilt(txe')
    BY <1>2, <1>3, <1>4 DEF Builder!IsBuilt
  <1>6. Builder!IsKept(Builder!Kept(c, txe))
    BY <1>1 DEF Builder!Kept, Builder!IsKept
  <1>7. Builder!Undoable(c, txe) \in BOOLEAN
    BY <1>1 DEF Builder!Undoable, Builder!OnlyAtEnd
  <1> QED BY <1>2, <1>5, <1>6, <1>7, BuilderDo

LEMMA SignInBuilder ==
  ASSUME BuilderOK, Builder!Do(Builder!Command("sign", Key))
  PROVE  BuilderOK'
  <1> DEFINE c == Builder!Command("sign", Key)
  <1>1. c.op = "sign" /\ c.arg = Key /\ c \in Builder!Commands
    BY DEF Builder!Command, Builder!Commands
  <1> HIDE DEF c
  <1>2. txe' = Builder!Signed(txe, Key) /\ Builder!Do(c)
    BY <1>1 DEF Builder!Do, Builder!Execute, c
  <1>3. Builder!IsBuilt(txe)
    BY DEF BuilderOK, Builder!TypeOK
  <1>4. Builder!IsBuilt(txe')
    BY <1>2, <1>3 DEF Builder!IsBuilt, Builder!Signed
  <1>5. Builder!IsKept(Builder!Kept(c, txe))
    BY <1>1 DEF Builder!Kept, Builder!IsKept
  <1>6. Builder!Undoable(c, txe) \in BOOLEAN
    BY <1>1 DEF Builder!Undoable
  <1> QED BY <1>2, <1>4, <1>5, <1>6, BuilderDo

\* What is hashed is the transaction of a block, or past the end of them.
LEMMA InfoHashType ==
  ASSUME ChainOK, NEW out \in Outputs
  PROVE  InfoHash(out) \in Hashes /\ Garbage \in Hashes
  <1>1. out.blockNumber \in Nat /\ out.txeNumber = 0
    <2>1. out.blockNumber \in 0 .. MaxBlocks /\ out.txeNumber \in {0}
      BY DEF Outputs
    <2> QED BY <2>1, WalletBounds
  <1>2. CASE InChain(out, chain)
    <2>1. DOMAIN chain = 1 .. Len(chain) /\ Len(chain) \in Nat /\ out.blockNumber < Len(chain)
      BY <1>2 DEF ChainOK, IsSeq, InChain
    <2>2. out.blockNumber + 1 \in DOMAIN chain
      BY <1>1, <2>1
    <2>3. PICK a \in Payees : chain[out.blockNumber + 1].txs = << FirstTxe(a) >>
      BY <2>2 DEF ChainOK, Pays
    <2>4. TxAt(out) = FirstTxe(a)
      BY <1>1, <2>3 DEF TxAt
    <2> QED BY <1>2, <2>4 DEF InfoHash, Hashes
  <1>3. CASE ~InChain(out, chain)
    BY <1>3 DEF InfoHash, Hashes
  <1> QED BY <1>2, <1>3 DEF Hashes

LEMMA BuilderInductive == IInv /\ BuilderOK /\ [Next]_vars => BuilderOK'
  <1> SUFFICES ASSUME IInv, BuilderOK, [Next]_vars PROVE BuilderOK'
    OBVIOUS
  <1>0. ASSUME UNCHANGED builderVars PROVE BuilderOK'
    BY <1>0 DEF builderVars, BuilderOK, Builder!TypeOK
  <1>1. CASE NetList \/ NetLock \/ NetPush \/ MinerMarks
    BY <1>0, <1>1 DEF NetList, NetLock, NetPush, MinerMarks, Others, formVars
  <1>2. CASE Refresh \/ ScanEntry \/ CopyEntry \/ Scanned \/ SetCurrentSum
    BY <1>0, <1>2 DEF Refresh, ScanEntry, CopyEntry, Scanned, SetCurrentSum, formVars
  <1>3. CASE EnterWallet \/ NewWallet \/ MenuOther \/ ChangeMiner \/ Spin \/ OutOfMemory
    BY <1>0, <1>3 DEF EnterWallet, NewWallet, MenuOther, ChangeMiner, Spin, OutOfMemory, formVars
  <1>4. CASE CreateTxe
    BY <1>4, ClearBuilder DEF CreateTxe
  <1>5. CASE ReadInput
    <2>1. PICK out \in Outputs, next \in {"inputs", "tails"} :
            LET sound == InChain(out, chain) /\ ~Writing
            IN \/ /\ \E h \in IF sound THEN {InfoHash(out)} ELSE {InfoHash(out), Garbage} :
                       LET input == [output |-> out, tailNum |-> 0, outputHash |-> h]
                       IN /\ Builder!Do(Builder!Command("addInput", input))
                          /\ typed' = [typed EXCEPT !.inputs = Append(@, input),
                                                    !.stray = @ \/ ~sound]
                  /\ Go(next)
               \/ ~sound /\ Dies /\ UNCHANGED << builderVars, typed >>
      BY <1>5 DEF ReadInput
    <2>2. InfoHash(out) \in Hashes /\ Garbage \in Hashes
      BY InfoHashType DEF IInv
    <2>3. CASE UNCHANGED builderVars
      BY <1>0, <2>3
    <2>4. CASE \E h \in Hashes :
            Builder!Do(Builder!Command("addInput",
                [output |-> out, tailNum |-> 0, outputHash |-> h]))
      <3>1. PICK h \in Hashes :
              Builder!Do(Builder!Command("addInput",
                [output |-> out, tailNum |-> 0, outputHash |-> h]))
        BY <2>4
      <3> DEFINE input == [output |-> out, tailNum |-> 0, outputHash |-> h]
      <3>2. input \in TypedInputs
        BY DEF TypedInputs
      <3> HIDE DEF input
      <3>3. Builder!Do(Builder!Command("addInput", input))
        BY <3>1 DEF input
      <3> QED BY <3>2, <3>3, AddInputToBuilder
    <2> QED BY <2>1, <2>2, <2>3, <2>4
  <1>6. CASE ReadTail
    <2>1. CASE UNCHANGED builderVars
      BY <1>0, <2>1
    <2>2. CASE \E money \in Amounts :
            Builder!Do(Builder!Command("addTail", [intValue |-> money, address |-> << >>]))
      <3>1. PICK money \in Amounts :
              Builder!Do(Builder!Command("addTail", [intValue |-> money, address |-> << >>]))
        BY <2>2
      <3> DEFINE tail == [intValue |-> money, address |-> << >>]
      <3>2. tail \in TypedTails
        BY DEF TypedTails
      <3> HIDE DEF tail
      <3>3. Builder!Do(Builder!Command("addTail", tail))
        BY <3>1 DEF tail
      <3> QED BY <3>2, <3>3, AddTailToBuilder
    <2> QED BY <1>6, <2>1, <2>2 DEF ReadTail
  <1>7. CASE Share
    BY <1>7, SignInBuilder DEF Share
  <1>8. CASE UNCHANGED vars
    BY <1>0, <1>8 DEF vars, formVars
  <1> QED BY <1>1, <1>2, <1>3, <1>4, <1>5, <1>6, <1>7, <1>8 DEF Next, Ui

\* Every variable keeps its type; what is in the snapshot is in the chain.
THEOREM TypeCorrect == Spec => []TypeOK
  <1>1. Spec => []BuilderOK
    BY BuilderInit, BuilderInductive, Invariant, PTL DEF Spec
  <1>2. IInv /\ Money /\ BuilderOK => TypeOK
    <2> SUFFICES ASSUME IInv, Money, BuilderOK PROVE TypeOK
      OBVIOUS
    <2>1. IsSeq(chain)
      BY DEF IInv, ChainOK
    <2>2. /\ availibleTxes \in Seq(AddedOutput) /\ availableForAddress \in Seq(AddedOutput)
      BY EntriesAreAdded DEF Money, ListOK, SnapshotOK
    <2>3. \A e \in Range(availableForAddress) : InChain(e.output, chain)
      BY DEF Money, SnapshotOK, Paying, Range
    <2> QED BY <2>1, <2>2, <2>3 DEF TypeOK, Money, NumbersOK, FlagsOK, SumOK, BuilderOK
  <1> QED BY <1>1, <1>2, Invariant, MoneyInvariant, PTL
=============================================================================
