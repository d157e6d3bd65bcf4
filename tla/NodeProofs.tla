----------------------------- MODULE NodeProofs -----------------------------
(***************************************************************************)
(* Theorems about Node, for every set of blocks and transactions peers may *)
(* send, every signature verifier and every value of the bounds.           *)
(***************************************************************************)
EXTENDS Node, SeqLemmas

-----------------------------------------------------------------------------
(* The data the threads handle. *)

LEMMA FirstTxeType ==
  ASSUME NEW address
  PROVE  /\ IsTransaction(FirstTxe(address))
         /\ Len(FirstTxe(address).inputs) = 0
         /\ ValidFirstTxn(FirstTxe(address))
  <1> DEFINE t == FirstTxe(address)
  <1>1. t.inputs = << >>
    BY DEF FirstTxe
  <1>2. t.tails = << [intValue |-> Reward, address |-> address] >>
    BY DEF FirstTxe
  <1>3. t.tails \in Seq({[intValue |-> Reward, address |-> address]})
    BY <1>2
  <1>4. IsSeq(t.tails)
    BY <1>3, IsSeqIntro
  <1>5. Len(t.tails) = 1 /\ DOMAIN t.tails = 1 .. 1 /\ t.tails[1].intValue = Reward
    BY <1>2
  <1>6. t.inputs \in Seq(TailRef) /\ Len(t.inputs) = 0
    BY <1>1
  <1> HIDE DEF t
  <1>7. Reward \in Nat
    BY DEF Reward
  <1>8. \A j \in DOMAIN t.tails : t.tails[j].intValue \in Nat
    BY <1>5, <1>7
  <1>9. IsTransaction(t) /\ ValidFirstTxn(t)
    BY <1>4, <1>5, <1>6, <1>8 DEF IsTransaction, ValidFirstTxn
  <1> QED BY <1>6, <1>9 DEF t

LEMMA NoBlockType == IsBlock(NoBlock)
  <1>1. NoBlock.txs = << >> /\ NoBlock.bits = 0 /\ NoBlock.currentNumber = 0
    BY DEF NoBlock
  <1>2. NoBlock.txs \in Seq({})
    BY <1>1
  <1>3. IsSeq(NoBlock.txs)
    BY <1>2, IsSeqIntro
  <1>4. DOMAIN NoBlock.txs = {}
    BY <1>1
  <1> QED BY <1>1, <1>3, <1>4 DEF IsBlock

LEMMA CustomBlockType ==
  ASSUME NEW address, NEW c, IsSeq(c)
  PROVE  IsBlock(CustomBlock(address, c))
  <1> DEFINE b == CustomBlock(address, c)
             t == FirstTxe(address)
  <1>1. /\ b.bits = Bits /\ b.currentNumber = Len(c) /\ b.txs = << t >>
    BY DEF CustomBlock
  <1>2. b.txs \in Seq({t}) /\ DOMAIN b.txs = {1} /\ b.txs[1] = t
    BY <1>1
  <1>3. IsSeq(b.txs)
    BY <1>2, IsSeqIntro
  <1>4. Len(c) \in Nat
    BY DEF IsSeq
  <1>5. IsTransaction(t)
    BY FirstTxeType
  <1> HIDE DEF b, t
  <1>6. IsBlock(b)
    BY <1>1, <1>2, <1>3, <1>4, <1>5 DEF IsBlock, Bits
  <1> QED BY <1>6 DEF b

LEMMA NewOutputsType ==
  ASSUME NEW b, IsBlock(b)
  PROVE  NewOutputs(b) \in Seq(AddedOutput)
  <1>1. /\ b.currentNumber \in Nat
        /\ b.txs \in Seq({b.txs[i] : i \in DOMAIN b.txs})
        /\ \A i \in DOMAIN b.txs :
             b.txs[i].tails \in Seq({b.txs[i].tails[j] : j \in DOMAIN b.txs[i].tails})
    BY DEF IsBlock, IsSeq, IsTransaction
  <1>2. DOMAIN b.txs = 1 .. Len(b.txs) /\ Len(b.txs) \in Nat
    BY <1>1
  <1>3. ASSUME NEW i \in DOMAIN b.txs
        PROVE  [j \in DOMAIN b.txs[i].tails |-> FALSE] \in Seq(BOOLEAN)
    <2>1. /\ DOMAIN b.txs[i].tails = 1 .. Len(b.txs[i].tails)
          /\ Len(b.txs[i].tails) \in Nat
      BY <1>1
    <2> QED BY <2>1
  <1>4. ASSUME NEW i \in DOMAIN b.txs
        PROVE  [output |-> [blockNumber |-> b.currentNumber, txeNumber |-> i - 1],
                usedTails |-> [j \in DOMAIN b.txs[i].tails |-> FALSE]] \in AddedOutput
    <2>1. i - 1 \in Nat
      BY <1>2
    <2> QED BY <1>1, <1>3, <2>1 DEF AddedOutput, Output
  <1> DEFINE e(i) == [output |-> [blockNumber |-> b.currentNumber, txeNumber |-> i - 1],
                      usedTails |-> [j \in DOMAIN b.txs[i].tails |-> FALSE]]
  <1>5. \A i \in 1 .. Len(b.txs) : e(i) \in AddedOutput
    BY <1>2, <1>4
  <1>6. NewOutputs(b) = [i \in 1 .. Len(b.txs) |-> e(i)]
    BY <1>2 DEF NewOutputs
  <1> HIDE DEF e
  <1> QED BY <1>2, <1>5, <1>6
-----------------------------------------------------------------------------
(* The locks.  Together with the types this is inductive.                  *)

LEMMA InitLocks == Init => LocksHeld
  <1> SUFFICES ASSUME Init PROVE LocksHeld
    OBVIOUS
  <1>1. /\ bm.readers = 0 /\ bm.writer = FALSE /\ tm.readers = 0 /\ tm.writer = FALSE
        /\ netPc = "idle" /\ minerPc = "off" /\ uiPc = "menu" /\ leaks = 0
    BY DEF Init, Free
  <1> QED BY <1>1 DEF LocksHeld, NetSharesBm, UiSharesBm

LEMMA LocksStep ==
  ASSUME TypeOK, LocksHeld, OneMiner, [Next]_vars
  PROVE  LocksHeld'
  <1>a. /\ bm \in [readers : Nat, writer : BOOLEAN]
        /\ tm \in [readers : Nat, writer : BOOLEAN]
        /\ leaks \in Nat
    BY DEF TypeOK, ThreadType, HistoryType
  <1> USE DEF LocksHeld, NetSharesBm, UiSharesBm, CanShare, CanLock, Shared,
              Unshared, Locked, Unlocked, netVars, minerVars, history, chainVars
  <1>1. CASE UNCHANGED vars
    BY <1>a, <1>1 DEF vars
  <1>2. CASE NetReceiveBlock
    BY <1>a, <1>2 DEF NetReceiveBlock, OthersThanNet
  <1>3. CASE NetReceiveTx
    BY <1>a, <1>3 DEF NetReceiveTx, OthersThanNet
  <1>4. CASE NetHandleGetblocks
    BY <1>a, <1>4 DEF NetHandleGetblocks, OthersThanNet
  <1>5. CASE NetShare
    BY <1>a, <1>5 DEF NetShare
  <1>6. CASE NetAddTx
    BY <1>a, <1>6 DEF NetAddTx, OthersThanNet
  <1>7. CASE NetLockIndex
    BY <1>a, <1>7 DEF NetLockIndex, OthersThanNet
  <1>8. CASE NetLockPool
    BY <1>a, <1>8 DEF NetLockPool, OthersThanNet
  <1>9. CASE NetLockChain
    BY <1>a, <1>9 DEF NetLockChain, OthersThanNet
  <1>10. CASE NetCustomize
    BY <1>a, <1>10 DEF NetCustomize, OthersThanNet
  <1>11. CASE NetLockShared
    BY <1>a, <1>11 DEF NetLockShared, OthersThanNet
  <1>12. CASE NetRejectEarly
    BY <1>a, <1>12 DEF NetRejectEarly, OthersThanNet, NetReturn
  <1>13. CASE NetSpin
    BY <1>a, <1>13 DEF NetSpin, OthersThanNet
  <1>14. CASE NetValidated
    BY <1>a, <1>14 DEF NetValidated, OthersThanNet, NetReturn
  <1>15. CASE NetSetAvailible
    BY <1>a, <1>15 DEF NetSetAvailible, OthersThanNet
  <1>16. CASE NetClearAvailible
    BY <1>a, <1>16 DEF NetClearAvailible, OthersThanNet
  <1>17. CASE NetClearPool
    BY <1>a, <1>17 DEF NetClearPool, OthersThanNet
  <1>18. CASE NetPush
    BY <1>a, <1>18 DEF NetPush, OthersThanNet, NetReturn
  <1>19. CASE MinerStartRound
    BY <1>a, <1>19 DEF MinerStartRound, OthersThanMiner
  <1>20. CASE MinerExit
    BY <1>a, <1>20 DEF MinerExit, OthersThanMiner
  <1>21. CASE MinerEndPick
    BY <1>a, <1>21 DEF MinerEndPick, OthersThanMiner
  <1>22. CASE MinerSignature
    BY <1>a, <1>22 DEF MinerSignature, OthersThanMiner
  <1>23. CASE MinerSignatureThrows
    BY <1>a, <1>23 DEF MinerSignatureThrows, Crash
  <1>24. CASE MinerFindInput \/ MinerTakeInput \/ MinerStrayMark
    BY <1>a, <1>24 DEF MinerFindInput, MinerTakeInput, MinerStrayMark, MinerPaid,
       OthersThanMiner
  <1>25. CASE MinerFailTxn
    BY <1>a, <1>25 DEF MinerFailTxn, OthersThanMiner
  <1>26. CASE MinerAddTransaction
    BY <1>a, <1>26 DEF MinerAddTransaction, OthersThanMiner
  <1>27. CASE MinerEraseFaults
    BY <1>a, <1>27 DEF MinerEraseFaults, Crash
  <1>28. CASE MinerRace
    BY <1>a, <1>28 DEF MinerRace, Crash
  <1>29. CASE MinerHead
    BY <1>a, <1>29 DEF MinerHead, OthersThanMiner
  <1>30. CASE MinerFound
    BY <1>a, <1>30 DEF MinerFound, OthersThanMiner
  <1>31. CASE MinerStopSearch
    BY <1>a, <1>31 DEF MinerStopSearch, OthersThanMiner
  <1>32. CASE UiRefresh
    BY <1>a, <1>32 DEF UiRefresh, OthersThanUi
  <1>33. CASE UiStartMiner
    BY <1>a, <1>33 DEF UiStartMiner, OneMiner, OthersThanUi
  <1>34. CASE UiStopMiner
    BY <1>a, <1>34 DEF UiStopMiner, OthersThanUi
  <1>35. CASE UiScanned
    BY <1>a, <1>35 DEF UiScanned, OthersThanUi
  <1>36. CASE UiScanFaults
    BY <1>a, <1>36 DEF UiScanFaults, Crash
  <1>37. CASE UiJoined
    BY <1>a, <1>37 DEF UiJoined, OthersThanUi
  <1> QED BY <1>1, <1>2, <1>3, <1>4, <1>5, <1>6, <1>7, <1>8, <1>9, <1>10, <1>11, <1>12, <1>13, <1>14, <1>15, <1>16, <1>17, <1>18, <1>19, <1>20, <1>21, <1>22, <1>23, <1>24, <1>25, <1>26, <1>27, <1>28, <1>29, <1>30, <1>31, <1>32, <1>33, <1>34, <1>35, <1>36, <1>37
       DEF Next, NetReceive, NetExclusive, NetStep, MinerStep, UiCommand, UiStep, Dead

(* The mining thread is started and joined by the main thread alone. *)
LEMMA MinerThreadStep ==
  ASSUME OneMiner, [Next]_vars
  PROVE  OneMiner'
  <1> USE DEF OneMiner, netVars, minerVars, Crash
  <1>1. CASE UNCHANGED vars
    BY <1>1 DEF vars
  <1>2. CASE NetReceive \/ NetExclusive \/ NetStep
    BY <1>2 DEF NetReceive, NetExclusive, NetStep, NetReceiveBlock, NetReceiveTx,
       NetHandleGetblocks, NetShare, NetAddTx, NetLockIndex, NetLockPool,
       NetLockChain, NetCustomize, NetLockShared, NetRejectEarly, NetSpin,
       NetValidated, NetSetAvailible, NetClearAvailible, NetClearPool, NetPush,
       OthersThanNet
  <1>3. CASE MinerStep
    BY <1>3 DEF MinerStep, MinerStartRound, MinerExit, MinerEndPick, MinerSignature,
       MinerSignatureThrows, MinerFindInput, MinerTakeInput, MinerStrayMark, MinerPaid,
       MinerFailTxn, MinerAddTransaction, MinerEraseFaults, MinerRace, MinerHead,
       MinerFound, MinerStopSearch, OthersThanMiner
  <1>4. CASE UiCommand \/ UiStep
    BY <1>4 DEF UiCommand, UiStep, UiRefresh, UiStartMiner, UiStopMiner, UiScanned,
       UiScanFaults, UiJoined, OthersThanUi
  <1> QED BY <1>1, <1>2, <1>3, <1>4 DEF Next, Dead

-----------------------------------------------------------------------------
(* Types. *)

LEMMA InitType == Init => TypeOK
  <1> SUFFICES ASSUME Init PROVE TypeOK
    OBVIOUS
  <1>1. chain \in Seq({}) /\ availibleTxes \in Seq(AddedOutput) /\ pool \in Seq({})
    BY DEF Init
  <1>2. IsSeq(chain) /\ IsSeq(pool)
    BY <1>1, IsSeqIntro
  <1>3. DOMAIN chain = {} /\ DOMAIN pool = {}
    BY DEF Init
  <1>4. IsBlock(netBlock) /\ IsTransaction(netTx)
    BY NoBlockType, FirstTxeType DEF Init, NoTx
  <1>5. DataType
    BY <1>1, <1>2, <1>3, <1>4 DEF DataType
  <1>6. bm = Free /\ tm = Free /\ Free \in [readers : Nat, writer : BOOLEAN]
    BY DEF Init, Free
  <1> HIDE DEF Free
  <1>7. /\ netPc = "idle" /\ minerPc = "off" /\ uiPc = "menu" /\ state = FALSE
        /\ alive = TRUE /\ outbox = 0 /\ netPos = 1 /\ netLeft = 0 /\ minerTx = 1
        /\ minerIn = 1 /\ minerAt = 1 /\ minerSum = 0 /\ minerCnt = 0
    BY DEF Init
  <1>a. state \in BOOLEAN /\ alive \in BOOLEAN
    BY <1>7
  <1>b. bm \in [readers : Nat, writer : BOOLEAN] /\ tm \in [readers : Nat, writer : BOOLEAN]
    BY <1>6
  <1>9. ThreadType
    BY <1>a, <1>b, <1>7 DEF ThreadType
  <1>8. HistoryType
    BY DEF Init, HistoryType
  <1> QED BY <1>5, <1>8, <1>9 DEF TypeOK

\* A step that reads an input of a candidate reads a tail reference.
LEMMA CandidateInput ==
  ASSUME TypeOK, minerPc = "mark"
  PROVE  Candidate \in TailRef
  <1>1. /\ IsTransaction(pool[minerTx]) /\ minerIn \in Nat \ {0}
        /\ minerIn <= Len(pool[minerTx].inputs)
    BY DEF TypeOK, DataType, ThreadType
  <1>2. pool[minerTx].inputs \in Seq(TailRef)
    BY <1>1 DEF IsTransaction
  <1> QED BY <1>1, <1>2 DEF Candidate

\* The tail an input pays from, once PaysTo found it in the chain.
LEMMA PaidTail ==
  ASSUME TypeOK, NEW in \in TailRef, NEW key, PaysTo(in, key)
  PROVE  TailAt(in.output, in.tailNum, chain).intValue \in Nat
  <1> DEFINE n == in.output.blockNumber + 1
             x == in.output.txeNumber + 1
             j == in.tailNum + 1
  <1>1. in.output.blockNumber \in Nat /\ in.output.txeNumber \in Nat /\ in.tailNum \in Nat
    BY DEF TailRef, Output
  <1>2. /\ in.output.blockNumber < Len(chain) /\ in.output.txeNumber < Len(chain[n].txs)
        /\ in.tailNum < Len(chain[n].txs[x].tails)
    BY DEF PaysTo, InChain
  <1>3. IsSeq(chain) /\ \A i \in DOMAIN chain : IsBlock(chain[i])
    BY DEF TypeOK, DataType
  <1>4. DOMAIN chain = 1 .. Len(chain) /\ Len(chain) \in Nat
    BY <1>3 DEF IsSeq
  <1>5. n \in DOMAIN chain
    BY <1>1, <1>2, <1>4
  <1>6. IsBlock(chain[n])
    BY <1>3, <1>5
  <1> DEFINE b == chain[n]
             t == b.txs[x]
  <1> HIDE DEF n
  <1>7. b.txs \in Seq({b.txs[i] : i \in DOMAIN b.txs})
    BY <1>6 DEF IsBlock, IsSeq
  <1>8. x \in DOMAIN b.txs
    BY <1>1, <1>2, <1>7
  <1>9. IsTransaction(t)
    BY <1>6, <1>8 DEF IsBlock
  <1> HIDE DEF b, x
  <1>10. t.tails \in Seq({t.tails[i] : i \in DOMAIN t.tails})
    BY <1>9 DEF IsTransaction, IsSeq
  <1>11. in.tailNum < Len(t.tails)
    BY <1>2 DEF b
  <1> HIDE DEF t
  <1>12. j \in DOMAIN t.tails
    BY <1>1, <1>10, <1>11
  <1>13. t.tails[j].intValue \in Nat
    BY <1>9, <1>12 DEF IsTransaction
  <1> QED BY <1>13 DEF TailAt, n, x, b, t

\* Marking a tail used keeps the list of outputs a list of outputs.
LEMMA MarkType ==
  ASSUME NEW s \in Seq(AddedOutput), NEW c \in DOMAIN s, NEW n \in Nat,
         n < Len(s[c].usedTails)
  PROVE  /\ [s EXCEPT ![c].usedTails[n + 1] = TRUE] \in Seq(AddedOutput)
         /\ Len([s EXCEPT ![c].usedTails[n + 1] = TRUE]) = Len(s)
  <1>1. s[c] \in AddedOutput
    OBVIOUS
  <1>2. s[c].usedTails \in Seq(BOOLEAN)
    BY <1>1 DEF AddedOutput
  <1> DEFINE u == [s[c].usedTails EXCEPT ![n + 1] = TRUE]
             e == [s[c] EXCEPT !.usedTails = u]
  <1>3. u \in Seq(BOOLEAN)
    BY <1>2
  <1> HIDE DEF u
  <1>4. e \in AddedOutput
    BY <1>1, <1>3 DEF AddedOutput
  <1> HIDE DEF e
  <1>5. [s EXCEPT ![c] = e] \in Seq(AddedOutput) /\ Len([s EXCEPT ![c] = e]) = Len(s)
    BY <1>4
  <1>6. [s EXCEPT ![c].usedTails[n + 1] = TRUE] = [s EXCEPT ![c] = e]
    BY DEF e, u
  <1> QED BY <1>5, <1>6

\* Whatever entry a mark hits, if any, the list stays one of the same outputs.
LEMMA MarkKeepsOutputs ==
  ASSUME TypeOK, MinerTakeInput \/ MinerStrayMark
  PROVE  /\ availibleTxes' \in Seq(AddedOutput)
         /\ Len(availibleTxes') = Len(availibleTxes)
         /\ \A k \in DOMAIN availibleTxes' :
              /\ k \in DOMAIN availibleTxes
              /\ availibleTxes'[k].output = availibleTxes[k].output
  <1>1. availibleTxes \in Seq(AddedOutput)
    BY DEF TypeOK, DataType
  <1>2. Candidate.tailNum \in Nat
    BY CandidateInput DEF MinerTakeInput, MinerStrayMark, MinerPaid, TailRef
  <1>3. CASE availibleTxes' = availibleTxes
    BY <1>1, <1>3
  <1>4. CASE /\ minerAt \in DOMAIN availibleTxes
             /\ Candidate.tailNum < Len(availibleTxes[minerAt].usedTails)
             /\ availibleTxes' = MarkedAt(minerAt)
    <2> DEFINE c == minerAt
               n == Candidate.tailNum
    <2>1. availibleTxes' = [availibleTxes EXCEPT ![c].usedTails[n + 1] = TRUE]
      BY <1>4 DEF MarkedAt
    <2>2. c \in DOMAIN availibleTxes /\ n \in Nat /\ n < Len(availibleTxes[c].usedTails)
      BY <1>2, <1>4
    <2> HIDE DEF c, n
    <2>3. availibleTxes' \in Seq(AddedOutput) /\ Len(availibleTxes') = Len(availibleTxes)
      BY <1>1, <2>1, <2>2, MarkType
    <2>4. \A k \in DOMAIN availibleTxes : availibleTxes[k] \in AddedOutput
      BY <1>1
    <2>5. \A k \in DOMAIN availibleTxes' :
            k \in DOMAIN availibleTxes /\ availibleTxes'[k].output = availibleTxes[k].output
      BY <2>1, <2>2, <2>4 DEF AddedOutput
    <2> QED BY <2>3, <2>5
  <1> QED BY <1>3, <1>4 DEF MinerTakeInput, MinerStrayMark, EntryOf

(* The data: six actions write one of the sequences.                      *)
LEMMA DataTypeStep ==
  ASSUME TypeOK, LocksHeld, [Next]_vars
  PROVE  DataType'
  <1> USE DEF netVars, minerVars, history, chainVars
  <1>a. DataType
    BY DEF TypeOK
  <1>1. CASE UNCHANGED << chainVars, netBlock, netTx >>
    BY <1>a, <1>1 DEF DataType
  <1>2. CASE NetReceiveBlock
    BY <1>a, <1>2, BlocksAssumption DEF NetReceiveBlock, DataType
  <1>3. CASE NetReceiveTx
    BY <1>a, <1>3, TxsAssumption DEF NetReceiveTx, DataType
  <1>4. CASE NetAddTx
    <2>1. pool' = Append(pool, netTx) /\ netTx' = NoTx
      BY <1>4 DEF NetAddTx
    <2>2. IsSeq(pool') /\ \A i \in DOMAIN pool' : IsTransaction(pool'[i])
      BY <1>a, <2>1, AppendIsSeq DEF DataType
    <2>3. IsTransaction(netTx')
      BY <2>1, FirstTxeType DEF NoTx
    <2> QED BY <1>4, <1>a, <2>2, <2>3 DEF NetAddTx, DataType
  <1>5. CASE NetCustomize
    <2>1. IsBlock(netBlock')
      BY <1>5, <1>a, CustomBlockType DEF NetCustomize, DataType
    <2> QED BY <1>5, <1>a, <2>1 DEF NetCustomize, DataType
  <1>6. CASE NetRejectEarly
    BY <1>6, <1>a, NoBlockType DEF NetRejectEarly, NetReturn, DataType
  <1>7. CASE NetValidated
    BY <1>7, <1>a, NoBlockType DEF NetValidated, NetReturn, DataType
  <1>8. CASE NetSetAvailible
    <2>1. NewOutputs(netBlock) \in Seq(AddedOutput)
      BY <1>a, NewOutputsType DEF DataType
    <2>2. availibleTxes' \in Seq(AddedOutput)
      BY <1>8, <1>a, <2>1 DEF NetSetAvailible, DataType
    <2> QED BY <1>8, <1>a, <2>2 DEF NetSetAvailible, DataType
  <1>9. CASE NetClearAvailible
    <2>1. netPos \in Nat \ {0}
      BY DEF TypeOK, ThreadType
    <2>2. CASE netPos <= Len(availibleTxes)
      <3>1. RemoveAt(availibleTxes, netPos) \in Seq(AddedOutput)
        BY <1>a, <2>1, <2>2, RemoveAtType DEF DataType
      <3>2. availibleTxes' \in Seq(AddedOutput)
        BY <1>9, <1>a, <3>1 DEF NetClearAvailible, DataType
      <3> QED BY <1>9, <1>a, <3>2 DEF NetClearAvailible, DataType
    <2>3. CASE netPos > Len(availibleTxes)
      BY <1>9, <1>a, <2>1, <2>3 DEF NetClearAvailible, DataType
    <2> QED BY <1>a, <2>1, <2>2, <2>3 DEF DataType
  <1>10. CASE NetClearPool
    <2>1. netPos \in Nat \ {0}
      BY DEF TypeOK, ThreadType
    <2>2. Len(pool) \in Nat
      BY <1>a DEF DataType, IsSeq
    <2>3. CASE netPos <= Len(pool)
      <3>1. /\ IsSeq(RemoveAt(pool, netPos))
            /\ \A k \in DOMAIN RemoveAt(pool, netPos) : IsTransaction(RemoveAt(pool, netPos)[k])
        BY <1>a, <2>1, <2>2, <2>3, RemoveAtIsSeq DEF DataType
      <3>2. pool' = RemoveAt(pool, netPos) \/ pool' = pool
        BY <1>10, <2>1, <2>2, <2>3 DEF NetClearPool
      <3>3. IsSeq(pool') /\ \A i \in DOMAIN pool' : IsTransaction(pool'[i])
        BY <1>a, <3>1, <3>2 DEF DataType
      <3> QED BY <1>10, <1>a, <3>3 DEF NetClearPool, DataType
    <2>4. CASE netPos > Len(pool)
      BY <1>10, <1>a, <2>1, <2>2, <2>4 DEF NetClearPool, DataType
    <2> QED BY <2>1, <2>2, <2>3, <2>4
  <1>11. CASE NetPush
    <2>1. chain' = Append(chain, netBlock) /\ netBlock' = NoBlock
      BY <1>11 DEF NetPush, NetReturn
    <2>2. IsSeq(chain') /\ \A i \in DOMAIN chain' : IsBlock(chain'[i])
      BY <1>a, <2>1, AppendIsSeq DEF DataType
    <2> QED BY <1>11, <1>a, <2>1, <2>2, NoBlockType DEF NetPush, NetReturn, DataType
  <1>12. CASE MinerTakeInput \/ MinerStrayMark
    <2>1. availibleTxes' \in Seq(AddedOutput)
      BY <1>12, MarkKeepsOutputs
    <2> QED BY <1>12, <1>a, <2>1 DEF MinerTakeInput, MinerStrayMark, MinerPaid,
            OthersThanMiner, DataType
  <1>13. CASE UNCHANGED vars \/ Dead
    BY <1>1, <1>13 DEF vars, Dead
  <1>14. ASSUME \/ NetHandleGetblocks \/ NetShare \/ NetLockIndex \/ NetLockPool
                \/ NetLockChain \/ NetLockShared \/ NetSpin
         PROVE  UNCHANGED << chainVars, netBlock, netTx >>
    BY <1>14 DEF NetHandleGetblocks, NetShare, NetLockIndex, NetLockPool,
       NetLockChain, NetLockShared, NetSpin
  <1>15. ASSUME \/ MinerStartRound \/ MinerExit \/ MinerEndPick \/ MinerSignature
                \/ MinerSignatureThrows \/ MinerFindInput \/ MinerFailTxn
                \/ MinerAddTransaction \/ MinerEraseFaults \/ MinerRace
                \/ MinerHead \/ MinerFound \/ MinerStopSearch
         PROVE  UNCHANGED << chainVars, netBlock, netTx >>
    BY <1>15 DEF MinerStartRound, MinerExit, MinerEndPick, MinerSignature,
       MinerSignatureThrows, MinerFindInput, MinerFailTxn, MinerAddTransaction, MinerEraseFaults,
       MinerRace, MinerHead, MinerFound, MinerStopSearch, OthersThanMiner, Crash
  <1>16. ASSUME UiCommand \/ UiStep
         PROVE  UNCHANGED << chainVars, netBlock, netTx >>
    BY <1>16 DEF UiCommand, UiStep, UiRefresh, UiStartMiner, UiStopMiner, UiScanned,
       UiScanFaults, UiJoined, OthersThanUi, Crash
  <1> QED
    BY <1>1, <1>2, <1>3, <1>4, <1>5, <1>6, <1>7, <1>8, <1>9, <1>10, <1>11, <1>12,
       <1>13, <1>14, <1>15, <1>16
    DEF Next, NetReceive, NetExclusive, NetStep, MinerStep

\* A crash: nothing but alive changes.
LEMMA CrashType ==
  ASSUME ThreadType, Crash, UNCHANGED minerVars
  PROVE  ThreadType'
  <1>1. UNCHANGED << bm, tm, state, outbox, netPc, netPos, netLeft, minerTx, minerIn,
                     minerAt, minerPc, minerSum, minerCnt, uiPc, pool >>
    BY DEF Crash, minerVars, netVars, chainVars
  <1>2. alive' \in BOOLEAN
    BY DEF Crash
  <1>3. minerPc \in {"inputs", "mark"} => minerTx \in DOMAIN pool
    BY DEF ThreadType
  <1>4. minerPc = "mark" => minerIn <= Len(pool[minerTx].inputs)
    BY DEF ThreadType
  <1>5. /\ minerPc' \in {"inputs", "mark"} => minerTx' \in DOMAIN pool'
        /\ minerPc' = "mark" => minerIn' <= Len(pool'[minerTx'].inputs)
    BY <1>1, <1>3, <1>4, Zenon
  <1> QED BY <1>1, <1>2, <1>5 DEF ThreadType

(* The threads: the candidate index stays valid because clearNonValidated  *)
(* and addTx wait for the candidate loop.                                  *)
LEMMA ThreadTypeStep ==
  ASSUME TypeOK, LocksHeld, [Next]_vars
  PROVE  ThreadType'
  <1> USE DEF netVars, minerVars, history, chainVars
  <1>a. ThreadType
    BY DEF TypeOK
  <1>b. CustomizeCount \in Nat \ {0}
    BY BoundsAssumption
  <1>c. leaks \in Nat
    BY DEF TypeOK, HistoryType
  <1>d. ASSUME NEW m \in [readers : Nat, writer : BOOLEAN]
        PROVE  /\ Locked(m) \in [readers : Nat, writer : BOOLEAN]
               /\ Unlocked(m) \in [readers : Nat, writer : BOOLEAN]
               /\ Shared(m) \in [readers : Nat, writer : BOOLEAN]
               /\ m.readers > 0 => Unshared(m) \in [readers : Nat, writer : BOOLEAN]
    <2>1. m.readers \in Nat
      OBVIOUS
    <2>2. Locked(m) \in [readers : Nat, writer : BOOLEAN]
      BY DEF Locked
    <2>3. Unlocked(m) \in [readers : Nat, writer : BOOLEAN]
      BY DEF Unlocked
    <2>4. ASSUME NEW x \in Nat
          PROVE  [m EXCEPT !.readers = x] \in [readers : Nat, writer : BOOLEAN]
      <3>1. \A W : m \in [readers : Nat, writer : W] =>
                    [m EXCEPT !.readers = x] \in [readers : Nat, writer : W]
        OBVIOUS
      <3> QED BY <3>1
    <2>5. Shared(m) \in [readers : Nat, writer : BOOLEAN]
      BY <2>1, <2>4 DEF Shared
    <2>6. m.readers > 0 => m.readers - 1 \in Nat
      BY <2>1
    <2>7. m.readers > 0 => Unshared(m) \in [readers : Nat, writer : BOOLEAN]
      BY <2>4, <2>6 DEF Unshared
    <2> QED BY <2>2, <2>3, <2>5, <2>7
  <1>1. CASE UNCHANGED vars \/ Dead
    BY <1>a, <1>1 DEF ThreadType, vars, Dead
  <1>2. CASE NetReceiveBlock
    BY <1>a, <1>2 DEF NetReceiveBlock, OthersThanNet, ThreadType
  <1>3. CASE NetReceiveTx
    BY <1>a, <1>3 DEF NetReceiveTx, OthersThanNet, ThreadType
  <1>4. CASE NetHandleGetblocks
    BY <1>a, <1>b, <1>4 DEF NetHandleGetblocks, OthersThanNet, ThreadType
  <1>5. CASE NetShare
    BY <1>a, <1>5 DEF NetShare, ThreadType
  <1>6. CASE NetAddTx
    BY <1>a, <1>6 DEF NetAddTx, CanLock, OthersThanNet, LocksHeld, ThreadType
  <1>7. CASE NetLockIndex
    BY <1>a, <1>d, <1>7 DEF NetLockIndex, OthersThanNet, ThreadType
  <1>8. CASE NetLockPool
    BY <1>a, <1>d, <1>8 DEF NetLockPool, OthersThanNet, ThreadType
  <1>9. CASE NetLockChain
    BY <1>a, <1>d, <1>9 DEF NetLockChain, OthersThanNet, ThreadType
  <1>10. CASE NetCustomize
    BY <1>a, <1>10 DEF NetCustomize, OthersThanNet, ThreadType
  <1>11. CASE NetLockShared
    BY <1>a, <1>d, <1>11 DEF NetLockShared, OthersThanNet, ThreadType
  <1>12. CASE NetRejectEarly
    BY <1>a, <1>12 DEF NetRejectEarly, OthersThanNet, NetReturn, ThreadType
  <1>13. CASE NetSpin
    BY <1>a, <1>13 DEF NetSpin, OthersThanNet, ThreadType
  <1>14. CASE NetValidated
    <2>1. bm.readers > 0 /\ bm' = Unshared(bm)
      BY <1>a, <1>c, <1>14 DEF NetValidated, LocksHeld, NetSharesBm, UiSharesBm, ThreadType
    <2>2. bm' \in [readers : Nat, writer : BOOLEAN]
      BY <1>a, <1>d, <2>1 DEF ThreadType
    <2> QED BY <1>a, <1>14, <2>2 DEF NetValidated, OthersThanNet, NetReturn, ThreadType
  <1>15. CASE NetSetAvailible
    BY <1>a, <1>15 DEF NetSetAvailible, OthersThanNet, ThreadType
  <1>16. CASE NetClearAvailible
    <2>1. bm' = bm \/ bm' = Unlocked(bm)
      BY <1>16 DEF NetClearAvailible
    <2>2. bm' \in [readers : Nat, writer : BOOLEAN]
      BY <1>a, <1>d, <2>1 DEF ThreadType
    <2> QED BY <1>a, <1>16, <2>2 DEF NetClearAvailible, OthersThanNet, ThreadType
  <1>17. CASE NetClearPool
    <2>1. tm' = tm \/ tm' = Unlocked(tm)
      BY <1>17 DEF NetClearPool
    <2>2. tm' \in [readers : Nat, writer : BOOLEAN]
      BY <1>a, <1>d, <2>1 DEF ThreadType
    <2> QED BY <1>a, <1>17, <2>2 DEF NetClearPool, OthersThanNet, LocksHeld, ThreadType
  <1>18. CASE NetPush
    <2>1. bm' = bm \/ bm' = Unlocked(bm)
      BY <1>18 DEF NetPush
    <2>2. bm' \in [readers : Nat, writer : BOOLEAN]
      BY <1>a, <1>d, <2>1 DEF ThreadType
    <2> QED BY <1>a, <1>18, <2>2 DEF NetPush, OthersThanNet, NetReturn, ThreadType
  <1>19. CASE MinerStartRound
    BY <1>a, <1>d, <1>19 DEF MinerStartRound, OthersThanMiner, ThreadType
  <1>20. CASE MinerExit
    BY <1>a, <1>20 DEF MinerExit, OthersThanMiner, ThreadType
  <1>21. CASE MinerEndPick
    <2>1. tm.readers > 0 /\ tm' = Unshared(tm)
      BY <1>a, <1>c, <1>21 DEF MinerEndPick, LocksHeld, NetSharesBm, UiSharesBm, ThreadType
    <2>2. tm' \in [readers : Nat, writer : BOOLEAN]
      BY <1>a, <1>d, <2>1 DEF ThreadType
    <2> QED BY <1>a, <1>21, <2>2 DEF MinerEndPick, OthersThanMiner, ThreadType
  <1>22. CASE MinerSignature
    <2>1. IsSeq(pool) /\ (minerPc' = "inputs" => minerTx <= Len(pool) /\ minerTx' = minerTx)
      BY <1>22, <1>a DEF MinerSignature, NothingToPick, TypeOK, DataType, ThreadType
    <2>2. DOMAIN pool = 1 .. Len(pool) /\ Len(pool) \in Nat
      BY <2>1 DEF IsSeq
    <2> QED BY <1>a, <1>22, <2>1, <2>2 DEF MinerSignature, OthersThanMiner, ThreadType
  <1>23. CASE MinerSignatureThrows
    BY <1>a, <1>23, CrashType DEF MinerSignatureThrows
  <1>24. CASE MinerFindInput
    <2>1. availibleTxes \in Seq(AddedOutput)
      BY DEF TypeOK, DataType
    <2>2. minerAt' \in DOMAIN availibleTxes
      BY <1>24 DEF MinerFindInput, EntryOf
    <2>3. minerAt' \in Nat \ {0}
      BY <2>1, <2>2
    <2> QED BY <1>a, <1>24, <2>3 DEF MinerFindInput, OthersThanMiner, ThreadType
  <1>38. CASE MinerTakeInput \/ MinerStrayMark
    <2>1. Candidate \in TailRef /\ PaysTo(Candidate, pool[minerTx].pubKey)
      BY <1>38, CandidateInput DEF MinerTakeInput, MinerStrayMark, MinerPaid
    <2>2. TailAt(Candidate.output, Candidate.tailNum, chain).intValue \in Nat
      BY <2>1, PaidTail
    <2>3. minerSum' = minerSum + TailAt(Candidate.output, Candidate.tailNum, chain).intValue
      BY <1>38 DEF MinerTakeInput, MinerStrayMark, MinerPaid
    <2>4. minerSum' \in Nat
      BY <1>a, <2>2, <2>3 DEF ThreadType
    <2>5. /\ UNCHANGED << bm, tm, state, alive, outbox, netPc, netPos, netLeft, pool,
                          minerTx, minerCnt, uiPc >>
          /\ minerPc = "mark" /\ minerPc' = "inputs" /\ minerIn' = minerIn + 1
          /\ minerAt' = 1
      BY <1>38 DEF MinerTakeInput, MinerStrayMark, MinerPaid, OthersThanMiner
    <2>6. minerTx' \in DOMAIN pool'
      BY <1>a, <2>5 DEF ThreadType
    <2> QED BY <1>a, <2>4, <2>5, <2>6 DEF ThreadType
  <1>25. CASE MinerFailTxn
    BY <1>a, <1>25 DEF MinerFailTxn, OthersThanMiner, ThreadType
  <1>26. CASE MinerAddTransaction
    BY <1>a, <1>26 DEF MinerAddTransaction, OthersThanMiner, ThreadType
  <1>27. CASE MinerEraseFaults
    BY <1>a, <1>27, CrashType DEF MinerEraseFaults
  <1>28. CASE MinerRace
    BY <1>a, <1>28, CrashType DEF MinerRace
  <1>29. CASE MinerHead
    BY <1>a, <1>29 DEF MinerHead, OthersThanMiner, ThreadType
  <1>30. CASE MinerFound
    BY <1>a, <1>30 DEF MinerFound, OthersThanMiner, ThreadType
  <1>31. CASE MinerStopSearch
    BY <1>a, <1>31 DEF MinerStopSearch, OthersThanMiner, ThreadType
  <1>32. CASE UiRefresh
    BY <1>a, <1>d, <1>32 DEF UiRefresh, OthersThanUi, ThreadType
  <1>33. CASE UiStartMiner
    BY <1>a, <1>33 DEF UiStartMiner, OthersThanUi, ThreadType
  <1>34. CASE UiStopMiner
    <2>1. UNCHANGED << pool, minerTx, minerIn, minerPc >>
      BY <1>34 DEF UiStopMiner, OthersThanUi
    <2>2. /\ minerPc' \in {"inputs", "mark"} => minerTx' \in DOMAIN pool'
          /\ minerPc' = "mark" => minerIn' <= Len(pool'[minerTx'].inputs)
      BY <1>a, <2>1 DEF ThreadType
    <2> QED BY <1>a, <1>34, <2>2 DEF UiStopMiner, OthersThanUi, ThreadType
  <1>35. CASE UiScanned
    <2>1. bm.readers > 0 /\ bm' = Unshared(bm)
      BY <1>a, <1>c, <1>35 DEF UiScanned, LocksHeld, NetSharesBm, UiSharesBm, ThreadType
    <2>2. bm' \in [readers : Nat, writer : BOOLEAN]
      BY <1>a, <1>d, <2>1 DEF ThreadType
    <2> QED BY <1>a, <1>35, <2>2 DEF UiScanned, OthersThanUi, ThreadType
  <1>36. CASE UiScanFaults
    BY <1>a, <1>36, CrashType DEF UiScanFaults
  <1>37. CASE UiJoined
    BY <1>a, <1>37 DEF UiJoined, OthersThanUi, ThreadType
  <1> QED
    BY <1>1, <1>2, <1>3, <1>4, <1>5, <1>6, <1>7, <1>8, <1>9, <1>10, <1>11, <1>12, <1>13, <1>14, <1>15, <1>16, <1>17, <1>18, <1>19, <1>20, <1>21, <1>22, <1>23, <1>24, <1>25, <1>26, <1>27, <1>28, <1>29, <1>30, <1>31, <1>32, <1>33, <1>34, <1>35, <1>36, <1>37, <1>38
    DEF Next, NetReceive, NetExclusive, NetStep, MinerStep, UiCommand, UiStep

(* The history: only an input a candidate holds is ever recorded.          *)
LEMMA HistoryTypeStep ==
  ASSUME TypeOK, [Next]_vars
  PROVE  HistoryType'
  <1> USE DEF HistoryType, history
  <1>a. HistoryType
    BY DEF TypeOK
  <1>1. CASE UNCHANGED history
    BY <1>a, <1>1
  <1>2. CASE NetRejectEarly
    BY <1>a, <1>2 DEF NetRejectEarly
  <1>3. CASE MinerSignature
    BY <1>a, <1>3 DEF MinerSignature, OthersThanMiner
  <1>4. CASE MinerTakeInput \/ MinerStrayMark
    <2>1. Candidate \in TailRef
      BY <1>4, CandidateInput DEF MinerTakeInput, MinerStrayMark, MinerPaid
    <2> QED BY <1>a, <1>4, <2>1 DEF MinerTakeInput, MinerStrayMark, MinerPaid,
            OthersThanMiner
  <1>5. CASE MinerFailTxn \/ MinerAddTransaction
    BY <1>a, <1>5 DEF MinerFailTxn, MinerAddTransaction, OthersThanMiner
  <1>6. ASSUME \/ NetReceiveBlock \/ NetReceiveTx \/ NetHandleGetblocks \/ NetShare
               \/ NetExclusive \/ NetCustomize \/ NetLockShared \/ NetSpin
               \/ NetValidated \/ NetSetAvailible \/ NetClearAvailible
               \/ NetClearPool \/ NetPush
        PROVE  UNCHANGED history
    BY <1>6 DEF NetReceiveBlock, NetReceiveTx, NetHandleGetblocks, NetShare,
       NetExclusive, NetAddTx, NetLockIndex, NetLockPool, NetLockChain, NetCustomize,
       NetLockShared, NetSpin, NetValidated, NetSetAvailible, NetClearAvailible,
       NetClearPool, NetPush
  <1>7. ASSUME \/ MinerStartRound \/ MinerExit \/ MinerEndPick \/ MinerSignatureThrows
               \/ MinerFindInput \/ MinerEraseFaults \/ MinerRace \/ MinerHead
               \/ MinerFound \/ MinerStopSearch
        PROVE  UNCHANGED history
    BY <1>7 DEF MinerStartRound, MinerExit, MinerEndPick, MinerSignatureThrows,
       MinerFindInput, MinerEraseFaults, MinerRace, MinerHead, MinerFound, MinerStopSearch,
       OthersThanMiner, Crash
  <1>8. ASSUME UiCommand \/ UiStep \/ Dead
        PROVE  UNCHANGED history
    BY <1>8 DEF UiCommand, UiStep, UiRefresh, UiStartMiner, UiStopMiner, UiScanned,
       UiScanFaults, UiJoined, OthersThanUi, Crash, Dead, vars
  <1>9. CASE UNCHANGED vars
    BY <1>1, <1>9 DEF vars
  <1> QED BY <1>1, <1>2, <1>3, <1>4, <1>5, <1>6, <1>7, <1>8, <1>9
          DEF Next, NetReceive, NetStep, MinerStep

-----------------------------------------------------------------------------
(* The inductive invariant: types need the locks (a candidate index is only *)
(* valid while the pool is locked), the locks need the miner thread's state *)
(* (the main thread starts it at the top of its loop).                      *)

Control == TypeOK /\ LocksHeld /\ OneMiner

LEMMA ControlInductive ==
  /\ Init => Control
  /\ Control /\ [Next]_vars => Control'
  <1>1. Init => OneMiner
    BY DEF Init, OneMiner
  <1>2. ASSUME Control, [Next]_vars
        PROVE  Control'
    <2>1. TypeOK'
      BY <1>2, DataTypeStep, ThreadTypeStep, HistoryTypeStep DEF Control, TypeOK
    <2> QED BY <1>2, <2>1, LocksStep, MinerThreadStep DEF Control
  <1> QED BY <1>1, <1>2, InitType, InitLocks DEF Control

LEMMA ControlInvariant == Spec => []Control
  BY ControlInductive, PTL DEF Spec

\* No thread of the node ever leaves the types: in particular the miner never
\* indexes the pool past its end while peers' transactions arrive.
THEOREM TypeCorrect == Spec => []TypeOK
  <1>1. Control => TypeOK
    BY DEF Control
  <1> QED BY <1>1, ControlInvariant, PTL

\* BlockchainMutex and TransactionsMutex are held by exactly the threads that
\* took them, plus one shared hold for each early return of validateBlock.
THEOREM LocksCorrect == Spec => []LocksHeld
  <1>1. Control => LocksHeld
    BY DEF Control
  <1> QED BY <1>1, ControlInvariant, PTL

\* miner::start never overwrites a running thread.
THEOREM MinerThreadCorrect == Spec => []OneMiner
  <1>1. Control => OneMiner
    BY DEF Control
  <1> QED BY <1>1, ControlInvariant, PTL

-----------------------------------------------------------------------------
(* A leaked hold.  Every write of the chain and every change of the list's *)
(* length happens with BlockchainMutex held exclusively, which LocksHeld   *)
(* excludes once one shared hold is never given up.                        *)

LEMMA OnlyNetWrites ==
  ASSUME TypeOK, [Next]_vars
  PROVE  \/ chain' = chain /\ Len(availibleTxes') = Len(availibleTxes)
         \/ netPc \in {"index", "clear", "push"}
  <1> USE DEF chainVars
  <1>1. CASE NetReceive \/ NetExclusive \/ NetStep
    BY <1>1 DEF NetReceive, NetExclusive, NetStep, NetReceiveBlock, NetReceiveTx,
       NetHandleGetblocks, NetShare, NetAddTx, NetLockIndex, NetLockPool,
       NetLockChain, NetCustomize, NetLockShared, NetRejectEarly, NetSpin,
       NetValidated, NetSetAvailible, NetClearAvailible, NetClearPool, NetPush
  <1>2. CASE MinerTakeInput \/ MinerStrayMark
    <2>1. Len(availibleTxes') = Len(availibleTxes)
      BY <1>2, MarkKeepsOutputs
    <2> QED BY <1>2, <2>1 DEF MinerTakeInput, MinerStrayMark, MinerPaid, OthersThanMiner
  <1>3. CASE MinerStep /\ ~MinerTakeInput /\ ~MinerStrayMark
    BY <1>3 DEF MinerStep, MinerStartRound, MinerExit, MinerEndPick, MinerSignature,
       MinerSignatureThrows, MinerFindInput, MinerFailTxn, MinerAddTransaction,
       MinerEraseFaults, MinerRace, MinerHead, MinerFound, MinerStopSearch,
       OthersThanMiner, Crash
  <1>4. CASE UiCommand \/ UiStep
    BY <1>4 DEF UiCommand, UiStep, UiRefresh, UiStartMiner, UiStopMiner, UiScanned,
       UiScanFaults, UiJoined, OthersThanUi, Crash
  <1>5. CASE Dead \/ UNCHANGED vars
    BY <1>5 DEF Dead, vars
  <1> QED BY <1>1, <1>2, <1>3, <1>4, <1>5 DEF Next

\* One early return of validateBlock and the chain never grows again.
THEOREM LeakFreezes == Spec => LeakFreezesChain
  <1> DEFINE Frozen == leaks > 0 => /\ chain' = chain
                                    /\ Len(availibleTxes') = Len(availibleTxes)
  <1>1. ASSUME Control, [Next]_vars
        PROVE  [Frozen]_vars
    <2>1. CASE netPc \in {"index", "clear", "push"}
      <3>1. bm.readers = 0 /\ bm.readers = leaks + NetSharesBm + UiSharesBm
        BY <1>1, <2>1 DEF Control, LocksHeld
      <3>2. leaks \in Nat /\ NetSharesBm \in Nat /\ UiSharesBm \in Nat
        BY <1>1 DEF Control, TypeOK, HistoryType, NetSharesBm, UiSharesBm
      <3> QED BY <3>1, <3>2
    <2>2. CASE netPc \notin {"index", "clear", "push"}
      BY <1>1, <2>2, OnlyNetWrites DEF Control
    <2> QED BY <2>1, <2>2
  <1> QED BY <1>1, ControlInvariant, PTL DEF Spec, LeakFreezesChain

-----------------------------------------------------------------------------
(* The chain.  The block in addBlock stays acceptable from the moment      *)
(* validateBlock let it through to push_back, because no other thread      *)
(* writes the chain in between: that is what makes two separate exclusive  *)
(* sections enough.                                                        *)

BlockInHand ==
  netPc \in {"ilock", "index", "clear", "plock", "pclear", "addlock", "push"}
    => Acceptable(netBlock, chain)

LEMMA BlockInHandStep ==
  ASSUME BlockInHand, [Next]_vars
  PROVE  BlockInHand'
  <1> USE DEF BlockInHand, chainVars, netVars
  <1>1. CASE NetReceive \/ NetExclusive \/ NetCustomize \/ NetLockShared
             \/ NetRejectEarly \/ NetSpin \/ NetSetAvailible \/ NetClearAvailible
             \/ NetClearPool
    BY <1>1 DEF NetReceive, NetExclusive, NetReceiveBlock, NetReceiveTx,
       NetHandleGetblocks, NetShare, NetAddTx, NetLockIndex, NetLockPool,
       NetLockChain, NetCustomize, NetLockShared, NetRejectEarly, NetSpin,
       NetSetAvailible, NetClearAvailible, NetClearPool, NetReturn
  <1>2. CASE NetValidated
    BY <1>2 DEF NetValidated, NetReturn, RootMatches, Acceptable
  <1>3. CASE NetPush
    BY <1>3 DEF NetPush, NetReturn
  <1>4. CASE MinerStep
    BY <1>4 DEF MinerStep, MinerStartRound, MinerExit, MinerEndPick, MinerSignature,
       MinerSignatureThrows, MinerFindInput, MinerTakeInput, MinerStrayMark, MinerPaid,
       MinerFailTxn, MinerAddTransaction, MinerEraseFaults, MinerRace, MinerHead,
       MinerFound, MinerStopSearch, OthersThanMiner, Crash
  <1>5. CASE UiCommand \/ UiStep
    BY <1>5 DEF UiCommand, UiStep, UiRefresh, UiStartMiner, UiStopMiner, UiScanned,
       UiScanFaults, UiJoined, OthersThanUi, Crash
  <1>6. CASE Dead \/ UNCHANGED vars
    BY <1>6 DEF Dead, vars
  <1> QED BY <1>1, <1>2, <1>3, <1>4, <1>5, <1>6 DEF Next, NetStep

LEMMA BlockInHandInvariant == Spec => []BlockInHand
  <1>1. Init => BlockInHand
    BY DEF Init, BlockInHand
  <1> QED BY <1>1, BlockInHandStep, PTL DEF Spec

\* Only addBlock's push_back writes the chain.
LEMMA OnlyPushExtends ==
  ASSUME [Next]_vars
  PROVE  chain' = chain \/ (netPc = "push" /\ chain' = Append(chain, netBlock))
  <1> USE DEF chainVars
  <1>1. CASE NetReceive \/ NetExclusive \/ NetStep
    BY <1>1 DEF NetReceive, NetExclusive, NetStep, NetReceiveBlock, NetReceiveTx,
       NetHandleGetblocks, NetShare, NetAddTx, NetLockIndex, NetLockPool,
       NetLockChain, NetCustomize, NetLockShared, NetRejectEarly, NetSpin,
       NetValidated, NetSetAvailible, NetClearAvailible, NetClearPool, NetPush
  <1>2. CASE MinerStep
    BY <1>2 DEF MinerStep, MinerStartRound, MinerExit, MinerEndPick, MinerSignature,
       MinerSignatureThrows, MinerFindInput, MinerTakeInput, MinerStrayMark, MinerPaid,
       MinerFailTxn, MinerAddTransaction, MinerEraseFaults, MinerRace, MinerHead,
       MinerFound, MinerStopSearch, OthersThanMiner, Crash
  <1>3. CASE UiCommand \/ UiStep
    BY <1>3 DEF UiCommand, UiStep, UiRefresh, UiStartMiner, UiStopMiner, UiScanned,
       UiScanFaults, UiJoined, OthersThanUi, Crash
  <1>4. CASE Dead \/ UNCHANGED vars
    BY <1>4 DEF Dead, vars
  <1> QED BY <1>1, <1>2, <1>3, <1>4 DEF Next

\* The node implements the append-only log of accepted blocks.
THEOREM ImplementsChainLog == Spec => ChainLogSpec
  <1>1. Init => Log!Init
    BY DEF Init, Log!Init
  <1>2. ASSUME Control, BlockInHand, [Next]_vars
        PROVE  [Log!Extend]_chain
    <2>1. CASE chain' = chain
      BY <2>1
    <2>2. CASE netPc = "push" /\ chain' = Append(chain, netBlock)
      <3>1. IsSeq(chain)
        BY <1>2 DEF Control, TypeOK, DataType
      <3>2. Acceptable(netBlock, chain)
        BY <1>2, <2>2 DEF BlockInHand
      <3>3. /\ Len(chain') = Len(chain) + 1
            /\ \A i \in DOMAIN chain : chain'[i] = chain[i]
            /\ chain'[Len(chain')] = netBlock
        BY <2>2, <3>1, AppendIsSeq
      <3>4. Log!Acceptable(chain'[Len(chain')], chain)
        BY <3>2, <3>3 DEF Acceptable, Log!Acceptable, Extends, Log!Extends, Bits,
           Log!Bits, Sha, Log!Sha, BlockData, Log!BlockData, MerkleRoot,
           Log!MerkleRoot, ValidFirstTxn, Log!ValidFirstTxn, Reward, Log!Reward
      <3> QED BY <3>3, <3>4 DEF Log!Extend
    <2> QED BY <1>2, <2>1, <2>2, OnlyPushExtends
  <1> QED BY <1>1, <1>2, ControlInvariant, BlockInHandInvariant, PTL
          DEF Spec, ChainLogSpec, Log!Spec

\* A shorter prefix does not see an appended element.
LEMMA PrefixOfAppend ==
  ASSUME NEW s, IsSeq(s), NEW e, NEW k \in 0 .. Len(s)
  PROVE  SubSeq(Append(s, e), 1, k) = SubSeq(s, 1, k)
  <1>1. s \in Seq({s[j] : j \in DOMAIN s}) /\ k \in Int
    BY DEF IsSeq
  <1>2. \A j \in 1 .. k : Append(s, e)[j] = s[j]
    BY <1>1, AppendIsSeq
  <1>3. SubSeq(s, 1, k) = [j \in 1 .. k |-> s[j]]
    BY <1>1
  <1>4. Append(s, e) \in Seq({Append(s, e)[j] : j \in DOMAIN Append(s, e)})
    BY AppendIsSeq DEF IsSeq
  <1>5. SubSeq(Append(s, e), 1, k) = [j \in 1 .. k |-> Append(s, e)[j]]
    BY <1>1, <1>4
  <1> QED BY <1>2, <1>3, <1>5

LEMMA WholePrefix ==
  ASSUME NEW s, IsSeq(s)
  PROVE  SubSeq(s, 1, Len(s)) = s
  BY DEF IsSeq

\* Whatever peers send, the chain is one a validator of all of it accepts.
THEOREM ChainIsSound == Spec => []ChainSound
  <1>1. Init => ChainSound
    BY DEF Init, ChainSound
  <1>2. ASSUME Control, BlockInHand, ChainSound, [Next]_vars
        PROVE  ChainSound'
    <2>1. CASE chain' = chain
      BY <1>2, <2>1 DEF ChainSound
    <2>2. CASE netPc = "push" /\ chain' = Append(chain, netBlock)
      <3>1. IsSeq(chain)
        BY <1>2 DEF Control, TypeOK, DataType
      <3>2. Acceptable(netBlock, chain)
        BY <1>2, <2>2 DEF BlockInHand
      <3>3. SUFFICES ASSUME NEW i \in DOMAIN chain'
                     PROVE  Acceptable(chain'[i], SubSeq(chain', 1, i - 1))
        BY DEF ChainSound
      <3>4. /\ DOMAIN chain' = 1 .. (Len(chain) + 1) /\ Len(chain) \in Nat
            /\ DOMAIN chain = 1 .. Len(chain)
            /\ \A k \in DOMAIN chain : chain'[k] = chain[k]
            /\ chain'[Len(chain) + 1] = netBlock
        BY <2>2, <3>1, AppendIsSeq
      <3>5. i - 1 \in 0 .. Len(chain)
        BY <3>3, <3>4
      <3>6. SubSeq(chain', 1, i - 1) = SubSeq(chain, 1, i - 1)
        BY <2>2, <3>1, <3>5, PrefixOfAppend
      <3>7. CASE i \in DOMAIN chain
        BY <1>2, <3>4, <3>6, <3>7 DEF ChainSound
      <3>8. CASE i = Len(chain) + 1
        <4>1. SubSeq(chain', 1, i - 1) = chain
          BY <3>1, <3>4, <3>6, <3>8, WholePrefix
        <4> QED BY <3>2, <3>4, <3>8, <4>1
      <3> QED BY <3>3, <3>4, <3>7, <3>8
    <2> QED BY <1>2, <2>1, <2>2, OnlyPushExtends
  <1> QED BY <1>1, <1>2, ControlInvariant, BlockInHandInvariant, PTL DEF Spec

-----------------------------------------------------------------------------
(* The list of outputs against the chain.  An entry's block is in the chain, *)
(* or it is the block in addBlock, whose number is the next one.             *)

Next0 == [blockNumber |-> Len(chain), txeNumber |-> 0]

EntriesInReach ==
  \A c \in DOMAIN availibleTxes :
    \/ InChain(availibleTxes[c].output, chain)
    \/ Pending # {} /\ availibleTxes[c].output = Next0

\* An action that adds no entry and does not give the block up keeps them so.
LEMMA SameEntriesInReach ==
  ASSUME EntriesInReach, chain' = chain, Pending # {} => Pending' # {},
         \A k \in DOMAIN availibleTxes' : \E c \in DOMAIN availibleTxes :
           availibleTxes'[k].output = availibleTxes[c].output
  PROVE  EntriesInReach'
  BY DEF EntriesInReach, Next0, InChain

\* What validateBlock let through pays one output, of the next number.
LEMMA NewOutputsOfNext ==
  ASSUME Acceptable(netBlock, chain), NEW k \in DOMAIN NewOutputs(netBlock)
  PROVE  NewOutputs(netBlock)[k].output = Next0
  <1>1. Len(netBlock.txs) = 1 /\ netBlock.currentNumber = Len(chain)
    BY DEF Acceptable, Extends
  <1>2. k \in DOMAIN netBlock.txs
    BY DEF NewOutputs
  <1> QED BY <1>1, <1>2 DEF NewOutputs, Next0

LEMMA EntriesStep ==
  ASSUME Control, BlockInHand, EntriesInReach, [Next]_vars
  PROVE  EntriesInReach'
  <1> USE DEF chainVars
  <1>a. /\ availibleTxes \in Seq(AddedOutput) /\ netPos \in Nat \ {0}
        /\ IsSeq(chain)
    BY DEF Control, TypeOK, DataType, ThreadType
  <1>1. CASE NetSetAvailible
    <2>1. /\ netPc = "index" /\ netPc' = "clear" /\ chain' = chain
          /\ availibleTxes' = availibleTxes \o NewOutputs(netBlock)
      BY <1>1 DEF NetSetAvailible
    <2>2. Acceptable(netBlock, chain) /\ IsBlock(netBlock)
      BY <2>1 DEF BlockInHand, Control, TypeOK, DataType
    <2>3. NewOutputs(netBlock) \in Seq(AddedOutput)
      BY <2>2, NewOutputsType
    <2>4. Pending' # {} /\ Next0' = Next0
      BY <2>1 DEF Pending, Next0
    <2>5. ASSUME NEW k \in DOMAIN availibleTxes'
          PROVE  \/ k \in DOMAIN availibleTxes /\ availibleTxes'[k] = availibleTxes[k]
                 \/ availibleTxes'[k].output = Next0
      <3>1. \/ k \in 1 .. Len(availibleTxes)
            \/ k - Len(availibleTxes) \in 1 .. Len(NewOutputs(netBlock))
        BY <1>a, <2>1, <2>3
      <3>2. CASE k \in 1 .. Len(availibleTxes)
        BY <1>a, <2>1, <2>3, <3>2
      <3>3. CASE k - Len(availibleTxes) \in 1 .. Len(NewOutputs(netBlock))
        <4>1. availibleTxes'[k] = NewOutputs(netBlock)[k - Len(availibleTxes)]
          BY <1>a, <2>1, <2>3, <3>3
        <4>2. k - Len(availibleTxes) \in DOMAIN NewOutputs(netBlock)
          BY <2>3, <3>3
        <4> QED BY <2>2, <4>1, <4>2, NewOutputsOfNext
      <3> QED BY <3>1, <3>2, <3>3
    <2>6. \A c \in DOMAIN availibleTxes : InChain(availibleTxes[c].output, chain)
      BY <2>1 DEF EntriesInReach, Pending
    <2> QED BY <2>1, <2>4, <2>5, <2>6 DEF EntriesInReach
  <1>2. CASE NetClearAvailible
    <2>1. chain' = chain /\ (Pending # {} => Pending' # {})
      BY <1>2 DEF NetClearAvailible, Pending
    <2>2. CASE netPos <= Len(availibleTxes)
      <3>1. netPos \in 1 .. Len(availibleTxes) /\ IsSeq(availibleTxes)
        BY <1>a, <2>2 DEF IsSeq
      <3>2. availibleTxes' = availibleTxes
              \/ availibleTxes' = RemoveAt(availibleTxes, netPos)
        BY <1>2, <2>2 DEF NetClearAvailible
      <3>3. \A k \in DOMAIN availibleTxes' : \E c \in DOMAIN availibleTxes :
              availibleTxes'[k].output = availibleTxes[c].output
        BY <3>1, <3>2, RemoveAtIsSeq
      <3> QED BY <2>1, <3>3, SameEntriesInReach
    <2>3. CASE ~(netPos <= Len(availibleTxes))
      <3>1. availibleTxes' = availibleTxes
        BY <1>2, <2>3 DEF NetClearAvailible
      <3> QED BY <2>1, <3>1, SameEntriesInReach
    <2> QED BY <2>2, <2>3
  <1>3. CASE MinerTakeInput \/ MinerStrayMark
    <2>1. chain' = chain /\ Pending' = Pending
      BY <1>3 DEF MinerTakeInput, MinerStrayMark, MinerPaid, OthersThanMiner, netVars,
         Pending
    <2>2. \A k \in DOMAIN availibleTxes' :
            k \in DOMAIN availibleTxes /\ availibleTxes'[k].output = availibleTxes[k].output
      BY <1>3, MarkKeepsOutputs DEF Control
    <2> QED BY <2>1, <2>2, SameEntriesInReach
  <1>4. CASE NetPush
    <2>1. /\ netPc = "push" /\ chain' = Append(chain, netBlock)
          /\ availibleTxes' = availibleTxes
      BY <1>4 DEF NetPush
    <2>2. Acceptable(netBlock, chain) /\ Len(netBlock.txs) = 1
      BY <2>1 DEF BlockInHand, Acceptable
    <2>3. /\ Len(chain') = Len(chain) + 1 /\ Len(chain) \in Nat
          /\ \A i \in 1 .. Len(chain) : chain'[i] = chain[i]
          /\ chain'[Len(chain) + 1] = netBlock
      BY <1>a, <2>1, AppendIsSeq
    <2>4. ASSUME NEW c \in DOMAIN availibleTxes
          PROVE  InChain(availibleTxes[c].output, chain')
      <3> DEFINE out == availibleTxes[c].output
      <3>1. availibleTxes[c] \in AddedOutput
        BY <1>a
      <3>2. out.blockNumber \in Nat
        BY <3>1 DEF AddedOutput, Output
      <3>3. InChain(out, chain) \/ out = Next0
        BY DEF EntriesInReach
      <3> HIDE DEF out
      <3>4. CASE InChain(out, chain)
        <4>1. /\ out.blockNumber + 1 \in 1 .. Len(chain)
              /\ out.blockNumber < Len(chain')
          BY <2>3, <3>2, <3>4 DEF InChain
        <4>2. chain'[out.blockNumber + 1] = chain[out.blockNumber + 1]
          BY <2>3, <4>1
        <4> QED BY <3>4, <4>1, <4>2 DEF InChain, out
      <3>5. CASE out = Next0
        <4>1. out.blockNumber = Len(chain) /\ out.txeNumber = 0
          BY <3>5 DEF Next0
        <4>2. out.blockNumber < Len(chain') /\ chain'[out.blockNumber + 1] = netBlock
          BY <2>3, <4>1
        <4>3. out.txeNumber < Len(netBlock.txs)
          BY <2>2, <4>1
        <4> QED BY <4>2, <4>3 DEF InChain, out
      <3> QED BY <3>3, <3>4, <3>5 DEF out
    <2> QED BY <2>1, <2>4 DEF EntriesInReach
  <1>5. CASE NetReceive \/ NetExclusive \/ NetCustomize \/ NetLockShared
             \/ NetRejectEarly \/ NetSpin \/ NetValidated \/ NetClearPool
    <2>1. /\ chain' = chain /\ availibleTxes' = availibleTxes
          /\ Pending # {} => Pending' # {}
      BY <1>5 DEF NetReceive, NetExclusive, NetReceiveBlock, NetReceiveTx,
         NetHandleGetblocks, NetShare, NetAddTx, NetLockIndex, NetLockPool,
         NetLockChain, NetCustomize, NetLockShared, NetRejectEarly, NetSpin,
         NetValidated, NetClearPool, NetReturn, Pending, netVars
    <2> QED BY <2>1, SameEntriesInReach
  <1>6. CASE MinerStep /\ ~MinerTakeInput /\ ~MinerStrayMark
    <2>1. chain' = chain /\ availibleTxes' = availibleTxes /\ netPc' = netPc
      BY <1>6 DEF MinerStep, MinerStartRound, MinerExit, MinerEndPick, MinerSignature,
         MinerSignatureThrows, MinerFindInput, MinerFailTxn, MinerAddTransaction,
         MinerEraseFaults, MinerRace, MinerHead, MinerFound, MinerStopSearch,
         OthersThanMiner, Crash, netVars
    <2> QED BY <2>1, SameEntriesInReach DEF Pending
  <1>7. CASE UiCommand \/ UiStep
    <2>1. chain' = chain /\ availibleTxes' = availibleTxes /\ netPc' = netPc
      BY <1>7 DEF UiCommand, UiStep, UiRefresh, UiStartMiner, UiStopMiner, UiScanned,
         UiScanFaults, UiJoined, OthersThanUi, Crash, netVars
    <2> QED BY <2>1, SameEntriesInReach DEF Pending
  <1>8. CASE Dead \/ UNCHANGED vars
    <2>1. chain' = chain /\ availibleTxes' = availibleTxes /\ netPc' = netPc
      BY <1>8 DEF Dead, vars, netVars
    <2> QED BY <2>1, SameEntriesInReach DEF Pending
  <1> QED BY <1>1, <1>2, <1>3, <1>4, <1>5, <1>6, <1>7, <1>8 DEF Next, NetStep

LEMMA EntriesInvariant == Spec => []EntriesInReach
  <1>1. Init => EntriesInReach
    BY DEF Init, EntriesInReach
  <1> QED BY <1>1, EntriesStep, ControlInvariant, BlockInHandInvariant, PTL DEF Spec

\* Only between validateBlock's first and addBlock's second exclusive section
\* does the list have an entry nobody can look up.
THEOREM DanglingBounded == Spec => []DanglingOnlyWhilePending
  <1>1. EntriesInReach => DanglingOnlyWhilePending
    BY DEF EntriesInReach, DanglingOnlyWhilePending
  <1> QED BY <1>1, EntriesInvariant, PTL

-----------------------------------------------------------------------------
(* What the list offers is what the chain pays less what was taken.  Each   *)
(* output has one entry, whose marks are the tails taken; an entry the      *)
(* erase loop takes away has nothing left to offer; nothing was taken from  *)
(* the block about to be listed, because a taken tail was looked up in the  *)
(* chain.                                                                   *)

Paying == Range(chain) \union Pending

ListMatches ==
  /\ \A c, d \in DOMAIN availibleTxes :
       availibleTxes[c].output = availibleTxes[d].output => c = d
  /\ \A b \in Paying : \A ref \in TailsOf(b) : EntryOf(ref) # {} <=> ref \notin taken

TakenInChain == \A ref \in taken : ref.output.blockNumber < Len(chain)

LEMMA TailsOfBlock ==
  ASSUME NEW b, IsBlock(b), NEW ref \in TailsOf(b)
  PROVE  /\ ref.output.blockNumber = b.currentNumber
         /\ ref.tailNum \in Nat
         /\ ref = [output |-> ref.output, tailNum |-> ref.tailNum]
  <1>a. PICK i \in DOMAIN b.txs : \E j \in DOMAIN b.txs[i].tails :
          ref = [output |-> [blockNumber |-> b.currentNumber, txeNumber |-> i - 1],
                 tailNum |-> j - 1]
    BY DEF TailsOf
  <1>1. PICK j \in DOMAIN b.txs[i].tails :
          ref = [output |-> [blockNumber |-> b.currentNumber, txeNumber |-> i - 1],
                 tailNum |-> j - 1]
    BY <1>a
  <1>2. IsSeq(b.txs[i].tails)
    BY DEF IsBlock, IsTransaction
  <1>3. j - 1 \in Nat
    BY <1>2 DEF IsSeq
  <1> QED BY <1>1, <1>3

\* The only tail and the only entry of a block that passed validateBlock.
LEMMA TailOfNext ==
  ASSUME Acceptable(netBlock, chain), IsBlock(netBlock)
  PROVE  /\ TailsOf(netBlock) = {[output |-> Next0, tailNum |-> 0]}
         /\ DOMAIN NewOutputs(netBlock) = {1}
         /\ NewOutputs(netBlock)[1].output = Next0
         /\ Len(NewOutputs(netBlock)[1].usedTails) = 1
         /\ ~NewOutputs(netBlock)[1].usedTails[1]
  <1>1. Len(netBlock.txs) = 1 /\ netBlock.currentNumber = Len(chain)
    BY DEF Acceptable, Extends
  <1>2. DOMAIN netBlock.txs = {1}
    BY <1>1 DEF IsBlock, IsSeq
  <1>3. Len(netBlock.txs[1].tails) = 1 /\ IsSeq(netBlock.txs[1].tails)
    BY <1>2 DEF Acceptable, ValidFirstTxn, IsBlock, IsTransaction
  <1>4. DOMAIN netBlock.txs[1].tails = {1}
    BY <1>3 DEF IsSeq
  <1>5. TailsOf(netBlock) = {[output |-> Next0, tailNum |-> 0]}
    BY <1>1, <1>2, <1>4 DEF TailsOf, Next0
  <1> DEFINE unused == [j \in DOMAIN netBlock.txs[1].tails |-> FALSE]
  <1>6. ~unused[1]
    BY <1>4
  <1>7. Len(unused) = 1
    <2>1. DOMAIN netBlock.txs[1].tails = 1 .. 1
      BY <1>4
    <2>2. unused = [j \in 1 .. 1 |-> FALSE]
      BY <2>1
    <2> HIDE DEF unused
    <2>3. unused \in Seq(BOOLEAN)
      BY <2>2
    <2>4. DOMAIN unused = 1 .. 1
      BY <2>2
    <2> QED BY <2>3, <2>4
  <1> HIDE DEF unused
  <1>8. /\ DOMAIN NewOutputs(netBlock) = {1}
        /\ NewOutputs(netBlock)[1] = [output |-> Next0, usedTails |-> unused]
    BY <1>1, <1>2 DEF NewOutputs, Next0, unused
  <1> QED BY <1>5, <1>6, <1>7, <1>8

LEMMA SameListMatches ==
  ASSUME ListMatches, TakenInChain, chain' = chain, taken' = taken,
         availibleTxes' = availibleTxes, Pending' = Pending
  PROVE  ListMatches' /\ TakenInChain'
  BY DEF ListMatches, TakenInChain, Paying, EntryOf

\* Listing the outputs of the block in addBlock.
LEMMA ListedMatches ==
  ASSUME Control, BlockInHand, EntriesInReach, ChainSound, ListMatches, TakenInChain,
         NetSetAvailible
  PROVE  ListMatches' /\ TakenInChain'
  <1> DEFINE n == Len(availibleTxes)
  <1>1. /\ netPc = "index" /\ netPc' = "clear" /\ chain' = chain /\ taken' = taken
        /\ netBlock' = netBlock /\ availibleTxes' = availibleTxes \o NewOutputs(netBlock)
    BY DEF NetSetAvailible, history
  <1>2. Acceptable(netBlock, chain) /\ IsBlock(netBlock)
    BY <1>1 DEF BlockInHand, Control, TypeOK, DataType
  <1>3. /\ availibleTxes \in Seq(AddedOutput) /\ NewOutputs(netBlock) \in Seq(AddedOutput)
        /\ IsSeq(chain) /\ \A i \in DOMAIN chain : IsBlock(chain[i])
    BY <1>2, NewOutputsType DEF Control, TypeOK, DataType
  <1>4. Len(NewOutputs(netBlock)) = 1
    BY <1>2, <1>3, TailOfNext
  <1>5. /\ n \in Nat /\ DOMAIN availibleTxes = 1 .. n /\ DOMAIN availibleTxes' = 1 .. (n + 1)
        /\ \A c \in 1 .. n : availibleTxes'[c] = availibleTxes[c]
        /\ availibleTxes'[n + 1] = NewOutputs(netBlock)[1]
    BY <1>1, <1>3, <1>4, ConcatOne
  <1> HIDE DEF n
  <1>6. \A c \in 1 .. n : availibleTxes[c].output.blockNumber < Len(chain)
    BY <1>1, <1>5 DEF EntriesInReach, Pending, InChain
  <1>7. Len(chain) \in Nat /\ Next0.blockNumber = Len(chain)
    BY <1>3 DEF Next0, IsSeq
  <1>8. /\ availibleTxes'[n + 1].output = Next0 /\ Len(availibleTxes'[n + 1].usedTails) = 1
        /\ ~availibleTxes'[n + 1].usedTails[1]
    BY <1>2, <1>5, TailOfNext
  <1>9. ASSUME NEW c \in DOMAIN availibleTxes', NEW d \in DOMAIN availibleTxes',
               availibleTxes'[c].output = availibleTxes'[d].output
        PROVE  c = d
    <2>1. \A e \in 1 .. n : availibleTxes[e].output # Next0
      BY <1>6, <1>7
    <2> QED BY <1>5, <1>8, <1>9, <2>1 DEF ListMatches
  <1>10. ASSUME NEW b \in Range(chain), NEW ref \in TailsOf(b)
         PROVE  EntryOf(ref)' # {} <=> ref \notin taken'
    <2>1. PICK i \in DOMAIN chain : b = chain[i]
      BY DEF Range
    <2>2. b.currentNumber = Len(SubSeq(chain, 1, i - 1))
      BY <2>1 DEF ChainSound, Acceptable, Extends
    <2>3. Len(SubSeq(chain, 1, i - 1)) = i - 1 /\ i - 1 < Len(chain)
      BY <1>3 DEF IsSeq
    <2>4. ref.output.blockNumber < Len(chain)
      BY <1>3, <2>1, <2>2, <2>3, TailsOfBlock
    <2>5. ref.output # Next0
      BY <1>7, <2>4
    <2>6. EntryOf(ref)' = EntryOf(ref)
      BY <1>5, <1>8, <2>5 DEF EntryOf
    <2> QED BY <1>1, <2>6 DEF ListMatches, Paying
  <1>11. ASSUME NEW ref \in TailsOf(netBlock)
         PROVE  EntryOf(ref)' # {} <=> ref \notin taken'
    <2>1. ref.output = Next0 /\ ref.tailNum = 0
      BY <1>2, TailOfNext
    <2>2. n + 1 \in EntryOf(ref)'
      BY <1>5, <1>8, <2>1 DEF EntryOf
    <2>3. ref \notin taken
      BY <1>7, <2>1 DEF TakenInChain
    <2> QED BY <1>1, <2>2, <2>3
  <1>12. Paying' = Range(chain) \union {netBlock}
    BY <1>1 DEF Paying, Pending
  <1>13. ListMatches'
    <2>1. ASSUME NEW b \in Paying', NEW ref \in TailsOf(b)
          PROVE  EntryOf(ref)' # {} <=> ref \notin taken'
      BY <1>10, <1>11, <1>12, <2>1
    <2> QED BY <1>9, <2>1 DEF ListMatches
  <1> QED BY <1>1, <1>13 DEF TakenInChain

\* Erasing an entry that has nothing left to offer.
LEMMA ErasedMatches ==
  ASSUME Control, ListMatches, NEW p \in 1 .. Len(availibleTxes), AllUsed(availibleTxes[p]),
         availibleTxes' = RemoveAt(availibleTxes, p), taken' = taken, Paying' = Paying
  PROVE  ListMatches'
  <1> DEFINE n == Len(availibleTxes)
             Was(k) == IF k < p THEN k ELSE k + 1
  <1>1. availibleTxes \in Seq(AddedOutput)
    BY DEF Control, TypeOK, DataType
  <1>2. /\ n \in Nat /\ DOMAIN availibleTxes = 1 .. n /\ DOMAIN availibleTxes' = 1 .. (n - 1)
        /\ \A k \in 1 .. (n - 1) : availibleTxes'[k] = availibleTxes[Was(k)]
    <2> DEFINE s == availibleTxes
               r == RemoveAt(s, p)
    <2>1. /\ Len(s) \in Nat /\ DOMAIN r = 1 .. (Len(s) - 1)
          /\ \A k \in 1 .. (Len(s) - 1) : r[k] = IF k < p THEN s[k] ELSE s[k + 1]
      BY <1>1, RemoveAtIndex
    <2>2. DOMAIN s = 1 .. Len(s)
      BY <1>1
    <2> QED BY <2>1, <2>2
  <1>3. /\ \A k \in 1 .. (n - 1) : Was(k) \in 1 .. n /\ Was(k) # p
        /\ \A k, l \in 1 .. (n - 1) : Was(k) = Was(l) => k = l
        /\ \A c \in 1 .. n : c # p => \E k \in 1 .. (n - 1) : Was(k) = c
    <2>1. p \in 1 .. n /\ p \in Int
      BY <1>2
    <2> HIDE DEF n
    <2>2. \A k \in 1 .. (n - 1) : Was(k) \in 1 .. n /\ Was(k) # p
      BY <1>2, <2>1
    <2>3. \A k, l \in 1 .. (n - 1) : Was(k) = Was(l) => k = l
      BY <1>2, <2>1
    <2>4. ASSUME NEW c \in 1 .. n, c # p
          PROVE  \E k \in 1 .. (n - 1) : Was(k) = c
      <3>1. CASE c < p
        <4>1. c \in 1 .. (n - 1) /\ Was(c) = c
          BY <1>2, <2>1, <3>1
        <4> QED BY <4>1
      <3>2. CASE c > p
        <4>1. c - 1 \in 1 .. (n - 1) /\ Was(c - 1) = c
          BY <1>2, <2>1, <3>2
        <4> QED BY <4>1
      <3> QED BY <1>2, <2>1, <2>4, <3>1, <3>2
    <2> QED BY <2>2, <2>3, <2>4
  <1> HIDE DEF n, Was
  <1>4. \A c, d \in DOMAIN availibleTxes' :
          availibleTxes'[c].output = availibleTxes'[d].output => c = d
    BY <1>2, <1>3 DEF ListMatches
  <1>5. ASSUME NEW ref, ref.tailNum \in Nat
        PROVE  EntryOf(ref)' # {} <=> EntryOf(ref) # {}
    <2>a. availibleTxes[p] \in AddedOutput
      BY <1>1
    <2>1. availibleTxes[p].usedTails \in Seq(BOOLEAN)
      BY <2>a DEF AddedOutput
    <2>2. p \notin EntryOf(ref)
      BY <1>5, <2>1 DEF EntryOf, AllUsed
    <2>3. \A k \in EntryOf(ref)' : Was(k) \in EntryOf(ref)
      BY <1>2, <1>3 DEF EntryOf
    <2>4. \A c \in EntryOf(ref) : \E k \in 1 .. (n - 1) : Was(k) = c /\ k \in EntryOf(ref)'
      <3> TAKE c \in EntryOf(ref)
      <3>1. c \in 1 .. n /\ c # p
        BY <1>2, <2>2 DEF EntryOf
      <3>2. PICK k \in 1 .. (n - 1) : Was(k) = c
        BY <1>3, <3>1
      <3>3. k \in DOMAIN availibleTxes' /\ availibleTxes'[k] = availibleTxes[c]
        BY <1>2, <3>2
      <3>4. k \in EntryOf(ref)'
        BY <3>3 DEF EntryOf
      <3> QED BY <3>2, <3>4
    <2> QED BY <2>3, <2>4
  <1>6. ASSUME NEW b \in Paying, NEW ref \in TailsOf(b)
        PROVE  EntryOf(ref)' # {} <=> ref \notin taken'
    <2>1. IsBlock(b)
      BY DEF Paying, Pending, Range, Control, TypeOK, DataType
    <2> QED BY <1>5, <2>1, TailsOfBlock DEF ListMatches
  <1> QED BY <1>4, <1>6 DEF ListMatches, TailsOf

\* Marking the tail an input takes.
LEMMA TakenMatches ==
  ASSUME Control, ListMatches, TakenInChain, MinerTakeInput
  PROVE  ListMatches' /\ TakenInChain'
  <1> DEFINE in == Candidate
             t == in.tailNum + 1
             c == minerAt
  <1>1. /\ availibleTxes \in Seq(AddedOutput) /\ IsBlock(netBlock)
        /\ \A i \in DOMAIN chain : IsBlock(chain[i])
    BY DEF Control, TypeOK, DataType
  <1>2. in \in TailRef
    BY CandidateInput DEF MinerTakeInput, MinerPaid, Control
  <1>3. c \in EntryOf(in) /\ availibleTxes' = [availibleTxes EXCEPT ![c].usedTails[t] = TRUE]
    BY DEF MinerTakeInput, MarkedAt
  <1>4. /\ taken' = taken \union {in} /\ chain' = chain /\ Pending' = Pending
        /\ PaysTo(in, pool[minerTx].pubKey)
    BY DEF MinerTakeInput, MinerPaid, OthersThanMiner, netVars, Pending
  <1> HIDE DEF in, c
  <1>5. /\ in.tailNum \in Nat /\ in = [output |-> in.output, tailNum |-> in.tailNum]
        /\ c \in DOMAIN availibleTxes /\ availibleTxes[c].output = in.output
        /\ in.tailNum < Len(availibleTxes[c].usedTails)
    BY <1>2, <1>3 DEF TailRef, EntryOf
  <1>6. \A d \in DOMAIN availibleTxes :
          availibleTxes[d] \in AddedOutput /\ availibleTxes[d].usedTails \in Seq(BOOLEAN)
    <2>1. \A d \in DOMAIN availibleTxes : availibleTxes[d] \in AddedOutput
      BY <1>1
    <2> QED BY <2>1 DEF AddedOutput
  <1>7. /\ DOMAIN availibleTxes' = DOMAIN availibleTxes
        /\ \A d \in DOMAIN availibleTxes : d # c => availibleTxes'[d] = availibleTxes[d]
        /\ availibleTxes'[c].output = availibleTxes[c].output
        /\ availibleTxes'[c].usedTails = [availibleTxes[c].usedTails EXCEPT ![t] = TRUE]
    BY <1>3, <1>5, <1>6 DEF AddedOutput
  <1> HIDE DEF t
  <1>8. /\ t \in 1 .. Len(availibleTxes[c].usedTails)
        /\ \A n \in Nat : n # in.tailNum => n + 1 # t
    BY <1>5, <1>6 DEF t
  <1>9. /\ Len(availibleTxes'[c].usedTails) = Len(availibleTxes[c].usedTails)
        /\ availibleTxes'[c].usedTails[t]
        /\ \A n \in 1 .. Len(availibleTxes[c].usedTails) :
             n # t => availibleTxes'[c].usedTails[n] = availibleTxes[c].usedTails[n]
    BY <1>5, <1>6, <1>7, <1>8
  <1>10. \A d \in DOMAIN availibleTxes : availibleTxes'[d].output = availibleTxes[d].output
    BY <1>7
  <1>11. ASSUME NEW ref, ref.tailNum \in Nat, ref = [output |-> ref.output, tailNum |-> ref.tailNum],
                EntryOf(ref) # {} <=> ref \notin taken
         PROVE  EntryOf(ref)' # {} <=> ref \notin taken'
    <2>1. CASE ref = in
      <3>1. ASSUME NEW d \in EntryOf(ref)'
            PROVE  FALSE
        <4>1. d \in DOMAIN availibleTxes /\ availibleTxes'[d].output = in.output
          BY <1>7, <2>1 DEF EntryOf
        <4>2. d = c
          BY <1>5, <1>10, <4>1 DEF ListMatches
        <4> QED BY <1>9, <2>1, <4>2 DEF EntryOf, t
      <3> QED BY <1>4, <2>1, <3>1
    <2>2. CASE ref # in
      <3>1. \A d \in DOMAIN availibleTxes : d # c => (d \in EntryOf(ref)' <=> d \in EntryOf(ref))
        BY <1>7 DEF EntryOf
      <3>2. c \in EntryOf(ref)' <=> c \in EntryOf(ref)
        <4>1. CASE ref.output # in.output
          BY <1>5, <1>7, <4>1 DEF EntryOf
        <4>2. CASE ref.output = in.output
          <5>1. ref.tailNum # in.tailNum
            BY <1>5, <1>11, <2>2, <4>2
          <5>2. ref.tailNum + 1 # t
            BY <1>8, <1>11, <5>1
          <5>3. ref.tailNum < Len(availibleTxes[c].usedTails) =>
                  availibleTxes'[c].usedTails[ref.tailNum + 1]
                    = availibleTxes[c].usedTails[ref.tailNum + 1]
            <6>1. ref.tailNum < Len(availibleTxes[c].usedTails) =>
                    ref.tailNum + 1 \in 1 .. Len(availibleTxes[c].usedTails)
              BY <1>5, <1>6, <1>11
            <6> QED BY <1>9, <5>2, <6>1
          <5> QED BY <1>7, <1>9, <5>3 DEF EntryOf
        <4> QED BY <4>1, <4>2
      <3>3. EntryOf(ref)' = EntryOf(ref)
        BY <1>7, <3>1, <3>2 DEF EntryOf
      <3> QED BY <1>4, <1>11, <2>2, <3>3
    <2> QED BY <2>1, <2>2
  <1>12. ASSUME NEW b \in Paying', NEW ref \in TailsOf(b)
         PROVE  EntryOf(ref)' # {} <=> ref \notin taken'
    <2>1. b \in Paying /\ IsBlock(b)
      BY <1>1, <1>4 DEF Paying, Pending, Range
    <2> QED BY <1>11, <2>1, TailsOfBlock DEF ListMatches
  <1>13. \A d, e \in DOMAIN availibleTxes' :
           availibleTxes'[d].output = availibleTxes'[e].output => d = e
    BY <1>7, <1>10 DEF ListMatches
  <1>14. TakenInChain'
    BY <1>4 DEF TakenInChain, PaysTo, InChain
  <1> QED BY <1>12, <1>13, <1>14 DEF ListMatches

\* Every step but a mark that misses its entry.
LEMMA ListStep ==
  ASSUME Control, BlockInHand, EntriesInReach, ChainSound, ListMatches, TakenInChain,
         [Next]_vars, ~MinerStrayMark
  PROVE  ListMatches' /\ TakenInChain'
  <1> USE DEF chainVars, history
  <1>1. CASE NetSetAvailible
    BY <1>1, ListedMatches
  <1>2. CASE NetClearAvailible
    <2>1. /\ chain' = chain /\ taken' = taken /\ Pending' = Pending
          /\ netPos \in Nat \ {0} /\ Len(availibleTxes) \in Nat
      BY <1>2 DEF NetClearAvailible, Pending, Control, TypeOK, DataType, ThreadType
    <2>2. \/ availibleTxes' = availibleTxes
          \/ /\ netPos <= Len(availibleTxes) /\ AllUsed(availibleTxes[netPos])
             /\ availibleTxes' = RemoveAt(availibleTxes, netPos)
      BY <1>2 DEF NetClearAvailible
    <2>3. CASE availibleTxes' = availibleTxes
      BY <2>1, <2>3, SameListMatches
    <2>4. CASE /\ netPos <= Len(availibleTxes) /\ AllUsed(availibleTxes[netPos])
               /\ availibleTxes' = RemoveAt(availibleTxes, netPos)
      <3>1. netPos \in 1 .. Len(availibleTxes) /\ Paying' = Paying
        BY <2>1, <2>4 DEF Paying
      <3>2. ListMatches'
        BY <2>1, <2>4, <3>1, ErasedMatches
      <3> QED BY <2>1, <3>2 DEF TakenInChain
    <2> QED BY <2>2, <2>3, <2>4
  <1>3. CASE MinerTakeInput
    BY <1>3, TakenMatches
  <1>4. CASE NetPush
    <2>1. /\ chain' = Append(chain, netBlock) /\ netPc = "push" /\ netPc' \in {"custom", "idle"}
          /\ availibleTxes' = availibleTxes /\ taken' = taken /\ IsSeq(chain)
      BY <1>4 DEF NetPush, NetReturn, Control, TypeOK, DataType
    <2>2. Paying' \subseteq Paying
      <3>1. Range(chain') \subseteq Range(chain) \union {netBlock}
        BY <2>1, AppendIsSeq DEF Range
      <3> QED BY <2>1, <3>1 DEF Paying, Pending
    <2>3. Len(chain') = Len(chain) + 1 /\ Len(chain) \in Nat
      BY <2>1, AppendIsSeq
    <2>4. ListMatches'
      BY <2>1, <2>2 DEF ListMatches, EntryOf
    <2>5. \A ref \in taken : ref.output.blockNumber \in Nat
      BY DEF Control, TypeOK, HistoryType, TailRef, Output
    <2> QED BY <2>1, <2>3, <2>4, <2>5 DEF TakenInChain
  <1>5. CASE NetReceive \/ NetExclusive \/ NetCustomize \/ NetLockShared
             \/ NetRejectEarly \/ NetSpin \/ NetValidated \/ NetClearPool
    <2>1. /\ chain' = chain /\ availibleTxes' = availibleTxes
          /\ taken' = taken /\ Pending' = Pending
      BY <1>5 DEF NetReceive, NetExclusive, NetReceiveBlock, NetReceiveTx,
         NetHandleGetblocks, NetShare, NetAddTx, NetLockIndex, NetLockPool,
         NetLockChain, NetCustomize, NetLockShared, NetRejectEarly, NetSpin,
         NetValidated, NetClearPool, NetReturn, Pending, netVars
    <2> QED BY <2>1, SameListMatches
  <1>6. CASE MinerStep /\ ~MinerTakeInput /\ ~MinerStrayMark
    <2>1. /\ chain' = chain /\ availibleTxes' = availibleTxes /\ taken' = taken
          /\ netPc' = netPc /\ netBlock' = netBlock
      BY <1>6 DEF MinerStep, MinerStartRound, MinerExit, MinerEndPick, MinerSignature,
         MinerSignatureThrows, MinerFindInput, MinerFailTxn, MinerAddTransaction,
         MinerEraseFaults, MinerRace, MinerHead, MinerFound, MinerStopSearch,
         OthersThanMiner, Crash, netVars
    <2> QED BY <2>1, SameListMatches DEF Pending
  <1>7. CASE UiCommand \/ UiStep \/ Dead \/ UNCHANGED vars
    <2>1. /\ chain' = chain /\ availibleTxes' = availibleTxes /\ taken' = taken
          /\ netPc' = netPc /\ netBlock' = netBlock
      BY <1>7 DEF UiCommand, UiStep, UiRefresh, UiStartMiner, UiStopMiner, UiScanned,
         UiScanFaults, UiJoined, OthersThanUi, Crash, netVars, Dead, vars
    <2> QED BY <2>1, SameListMatches DEF Pending
  <1> QED BY <1>1, <1>2, <1>3, <1>4, <1>5, <1>6, <1>7 DEF Next, NetStep

\* A stray mark is a step that sets raced, which no step resets, ...
LEMMA RacedStep ==
  ASSUME [Next]_vars, ~raced'
  PROVE  ~raced /\ ~MinerStrayMark
  <1>1. ~MinerStrayMark
    BY DEF MinerStrayMark
  <1>2. ASSUME NetReceive \/ NetExclusive \/ NetStep
        PROVE  raced' = raced
    BY <1>2 DEF history, NetReceive, NetExclusive, NetStep, NetReceiveBlock, NetReceiveTx,
       NetHandleGetblocks, NetShare, NetAddTx, NetLockIndex, NetLockPool,
       NetLockChain, NetCustomize, NetLockShared, NetRejectEarly, NetSpin,
       NetValidated, NetSetAvailible, NetClearAvailible, NetClearPool, NetPush
  <1>3. ASSUME MinerStep
        PROVE  raced' = raced
    BY <1>1, <1>3 DEF history, MinerStep, MinerStartRound, MinerExit, MinerEndPick, MinerSignature,
       MinerSignatureThrows, MinerFindInput, MinerTakeInput, MinerFailTxn,
       MinerAddTransaction, MinerEraseFaults, MinerRace, MinerHead, MinerFound,
       MinerStopSearch, Crash
  <1>4. ASSUME UiCommand \/ UiStep \/ Dead \/ UNCHANGED vars
        PROVE  raced' = raced
    BY <1>4 DEF history, UiCommand, UiStep, UiRefresh, UiStartMiner, UiStopMiner, UiScanned,
       UiScanFaults, UiJoined, OthersThanUi, Crash, Dead, vars
  <1> QED BY <1>1, <1>2, <1>3, <1>4 DEF Next

\* ... but even then a tail is taken only once the chain has its block.
LEMMA TakenStep ==
  ASSUME Control, TakenInChain, [Next]_vars
  PROVE  TakenInChain'
  <1>1. /\ IsSeq(chain)
        /\ \A ref \in taken : ref.output.blockNumber \in Nat
    BY DEF Control, TypeOK, DataType, HistoryType, TailRef, Output
  <1>2. Len(chain) \in Nat /\ (Len(chain') = Len(chain) \/ Len(chain') = Len(chain) + 1)
    BY <1>1, OnlyPushExtends, AppendIsSeq
  <1>3. CASE taken' = taken
    BY <1>1, <1>2, <1>3 DEF TakenInChain
  <1>4. CASE MinerPaid
    <2>1. taken' = taken \union {Candidate} /\ chain' = chain
      BY <1>4 DEF MinerPaid, OthersThanMiner
    <2>2. Candidate.output.blockNumber < Len(chain)
      BY <1>4 DEF MinerPaid, PaysTo, InChain
    <2> QED BY <2>1, <2>2 DEF TakenInChain
  <1>5. CASE NetReceive \/ NetExclusive \/ NetStep
    BY <1>3, <1>5 DEF NetReceive, NetExclusive, NetStep, NetReceiveBlock, NetReceiveTx,
       NetHandleGetblocks, NetShare, NetAddTx, NetLockIndex, NetLockPool,
       NetLockChain, NetCustomize, NetLockShared, NetRejectEarly, NetSpin,
       NetValidated, NetSetAvailible, NetClearAvailible, NetClearPool, NetPush, history
  <1>6. CASE MinerStep
    BY <1>3, <1>4, <1>6 DEF MinerStep, MinerStartRound, MinerExit, MinerEndPick,
       MinerSignature, MinerSignatureThrows, MinerFindInput, MinerTakeInput,
       MinerStrayMark, MinerFailTxn, MinerAddTransaction, MinerEraseFaults, MinerRace,
       MinerHead, MinerFound, MinerStopSearch, Crash, history
  <1>7. CASE UiCommand \/ UiStep \/ Dead \/ UNCHANGED vars
    BY <1>3, <1>7 DEF UiCommand, UiStep, UiRefresh, UiStartMiner, UiStopMiner, UiScanned,
       UiScanFaults, UiJoined, OthersThanUi, Crash, Dead, vars, history
  <1> QED BY <1>5, <1>6, <1>7 DEF Next

ListUnlessRaced == TakenInChain /\ (~raced => ListMatches)

\* No coin is lost by the erase loops, none is offered twice or again, for any
\* interleaving of the miner's marks with the io_service thread's writes in
\* which no mark misses its entry.
THEOREM OutputsCorrect == Spec => []OutputsMatchChain
  <1>1. Init => ListUnlessRaced
    BY DEF Init, ListUnlessRaced, ListMatches, TakenInChain, Paying, Pending, Range
  <1>2. ASSUME ListMatches
        PROVE  OutputsMatchChain
    <2> DEFINE paid == UNION {TailsOf(b) : b \in Paying}
    <2>1. \A ref \in paid : EntryOf(ref) # {} <=> ref \notin taken
      BY <1>2 DEF ListMatches
    <2>2. Offered = {ref \in paid : EntryOf(ref) # {}}
      BY DEF Offered, Paying
    <2> HIDE DEF paid
    <2>3. Offered = paid \ taken
      BY <2>1, <2>2
    <2>4. \A c, d \in DOMAIN availibleTxes :
            availibleTxes[c].output = availibleTxes[d].output => c = d
      BY <1>2 DEF ListMatches
    <2>5. Offered = (UNION {TailsOf(b) : b \in Range(chain) \union Pending}) \ taken
      BY <2>3 DEF Paying, paid
    <2> QED BY <2>4, <2>5 DEF OutputsMatchChain
  <1>3. ListUnlessRaced => OutputsMatchChain
    BY <1>2 DEF ListUnlessRaced, OutputsMatchChain
  <1>4. ASSUME Control, BlockInHand, EntriesInReach, ChainSound, ListUnlessRaced,
               [Next]_vars
        PROVE  ListUnlessRaced'
    <2>1. TakenInChain'
      BY <1>4, TakenStep DEF ListUnlessRaced
    <2>2. ASSUME ~raced'
          PROVE  ListMatches'
      BY <1>4, <2>2, RacedStep, ListStep DEF ListUnlessRaced
    <2> QED BY <2>1, <2>2 DEF ListUnlessRaced
  <1> QED BY <1>1, <1>3, <1>4, EntriesInvariant, ControlInvariant,
             BlockInHandInvariant, ChainIsSound, PTL DEF Spec

-----------------------------------------------------------------------------
(* The pool.  clearNonValidated erases what compares equal to the first    *)
(* transaction of an acceptable block, which has no inputs.                *)

\* h finds for each place where s has t another one where r has it.
Finds(h, t, s, r) ==
  /\ \A k \in DOMAIN s : s[k] = t => h[k] \in DOMAIN r /\ r[h[k]] = t
  /\ \A i, j \in DOMAIN s : s[i] = t /\ s[j] = t /\ h[i] = h[j] => i = j

LEMMA CopiesAtMost ==
  ASSUME NEW s, NEW r, IsSeq(s), IsSeq(r), NEW t, NEW h, Finds(h, t, s, r)
  PROVE  Copies(t, r) >= Copies(t, s)
  <1> DEFINE A == {k \in DOMAIN s : s[k] = t}
             B == {k \in DOMAIN r : r[k] = t}
             i == [k \in A |-> h[k]]
  <1>1. i \in Injection(A, B)
    BY DEF Injection, IsInjective, Finds
  <1>2. IsFiniteSet(A) /\ IsFiniteSet(B)
    <2>1. /\ DOMAIN s = 1 .. Len(s) /\ Len(s) \in Nat
          /\ DOMAIN r = 1 .. Len(r) /\ Len(r) \in Nat
      BY DEF IsSeq
    <2>2. IsFiniteSet(DOMAIN s) /\ IsFiniteSet(DOMAIN r)
      BY <2>1, FS_Interval
    <2>3. A \in SUBSET DOMAIN s /\ B \in SUBSET DOMAIN r
      OBVIOUS
    <2> HIDE DEF A, B
    <2> QED BY <2>2, <2>3, FS_Subset
  <1> HIDE DEF A, B, i
  <1>3. Cardinality(A) <= Cardinality(B) /\ Cardinality(A) \in Nat /\ Cardinality(B) \in Nat
    BY <1>1, <1>2, FS_Injection, FS_CardinalityType
  <1> QED BY <1>3 DEF Copies, A, B

LEMMA PoolStep ==
  ASSUME TypeOK, [Next]_vars
  PROVE  \/ pool' = pool
         \/ pool' = Append(pool, netTx)
         \/ /\ netPc = "pclear" /\ netPos \in 1 .. Len(pool)
            /\ TxEqual(pool[netPos], netBlock.txs[1])
            /\ pool' = RemoveAt(pool, netPos)
  <1> USE DEF chainVars
  <1>1. CASE NetClearPool
    <2>1. netPos \in Nat \ {0} /\ Len(pool) \in Nat
      BY DEF TypeOK, ThreadType, DataType, IsSeq
    <2> QED BY <1>1, <2>1 DEF NetClearPool
  <1>2. CASE NetAddTx
    BY <1>2 DEF NetAddTx
  <1>3. CASE (NetReceive \/ NetExclusive \/ NetStep) /\ ~NetClearPool /\ ~NetAddTx
    BY <1>3 DEF NetReceive, NetExclusive, NetStep, NetReceiveBlock, NetReceiveTx,
       NetHandleGetblocks, NetShare, NetLockIndex, NetLockPool,
       NetLockChain, NetCustomize, NetLockShared, NetRejectEarly, NetSpin,
       NetValidated, NetSetAvailible, NetClearAvailible, NetPush
  <1>4. CASE MinerStep
    BY <1>4 DEF MinerStep, MinerStartRound, MinerExit, MinerEndPick, MinerSignature,
       MinerSignatureThrows, MinerFindInput, MinerTakeInput, MinerStrayMark, MinerPaid,
       MinerFailTxn, MinerAddTransaction, MinerEraseFaults, MinerRace, MinerHead,
       MinerFound, MinerStopSearch, OthersThanMiner, Crash
  <1>5. CASE UiCommand \/ UiStep
    BY <1>5 DEF UiCommand, UiStep, UiRefresh, UiStartMiner, UiStopMiner, UiScanned,
       UiScanFaults, UiJoined, OthersThanUi, Crash
  <1>6. CASE Dead \/ UNCHANGED vars
    BY <1>6 DEF Dead, vars
  <1> QED BY <1>1, <1>2, <1>3, <1>4, <1>5, <1>6 DEF Next

\* Removing one element leaves as many copies of every other one.
LEMMA RemovedElsewhere ==
  ASSUME NEW s, IsSeq(s), NEW p \in 1 .. Len(s), NEW t, s[p] # t
  PROVE  Copies(t, RemoveAt(s, p)) >= Copies(t, s)
  <1> DEFINE r == RemoveAt(s, p)
             n == Len(s)
             h == [k \in DOMAIN s |-> IF k < p THEN k ELSE k - 1]
  <1>1. s \in Seq({s[i] : i \in DOMAIN s}) /\ DOMAIN s = 1 .. n /\ n \in Nat
    BY DEF IsSeq
  <1>2. /\ DOMAIN r = 1 .. (n - 1)
        /\ \A k \in 1 .. (n - 1) : r[k] = IF k < p THEN s[k] ELSE s[k + 1]
    BY <1>1, RemoveAtIndex
  <1>3. IsSeq(r)
    BY RemoveAtIsSeq
  <1>4. \A k \in DOMAIN s : h[k] = IF k < p THEN k ELSE k - 1
    OBVIOUS
  <1> HIDE DEF r, h, n
  <1>5. p \in 1 .. n
    BY DEF n
  <1>6. ASSUME NEW k \in DOMAIN s, s[k] = t
        PROVE  h[k] \in DOMAIN r /\ r[h[k]] = t
    <2>1. k # p /\ k \in 1 .. n
      BY <1>1, <1>6
    <2>2. CASE k < p
      <3>1. h[k] = k /\ k \in 1 .. (n - 1)
        BY <1>1, <1>4, <1>5, <2>1, <2>2
      <3> QED BY <1>2, <1>6, <2>2, <3>1
    <2>3. CASE ~(k < p)
      <3>1. h[k] = k - 1 /\ k - 1 \in 1 .. (n - 1) /\ ~(k - 1 < p) /\ (k - 1) + 1 = k
        BY <1>1, <1>4, <1>5, <2>1, <2>3
      <3> QED BY <1>2, <1>6, <3>1
    <2> QED BY <2>2, <2>3
  <1>7. ASSUME NEW i \in DOMAIN s, NEW j \in DOMAIN s, s[i] = t, s[j] = t, h[i] = h[j]
        PROVE  i = j
    <2>1. i # p /\ j # p /\ i \in 1 .. n /\ j \in 1 .. n
      BY <1>1, <1>7
    <2> QED BY <1>1, <1>4, <1>5, <1>7, <2>1
  <1>8. Finds(h, t, s, r)
    BY <1>6, <1>7 DEF Finds
  <1> QED BY <1>3, <1>8, CopiesAtMost DEF r

LEMMA AppendedElsewhere ==
  ASSUME NEW s, IsSeq(s), NEW e, NEW t
  PROVE  Copies(t, Append(s, e)) >= Copies(t, s)
  <1> DEFINE r == Append(s, e)
             h == [k \in DOMAIN s |-> k]
  <1>1. /\ IsSeq(r) /\ DOMAIN s = 1 .. Len(s) /\ Len(s) \in Nat
        /\ DOMAIN r = 1 .. (Len(s) + 1)
        /\ \A k \in DOMAIN s : r[k] = s[k]
    BY AppendIsSeq
  <1>2. \A k \in DOMAIN s : h[k] = k /\ k \in DOMAIN r
    BY <1>1
  <1> HIDE DEF r, h
  <1>3. Finds(h, t, s, r)
    BY <1>1, <1>2 DEF Finds
  <1> QED BY <1>1, <1>3, CopiesAtMost DEF r

\* A transaction that spends never leaves the pool (clearNonValidated).
THEOREM SpendsStay == Spec => SpendsStayInPool
  <1> DEFINE Stays == \A i \in DOMAIN pool : Len(pool[i].inputs) > 0 =>
                        Copies(pool[i], pool') >= Copies(pool[i], pool)
  <1>1. ASSUME TypeOK, BlockInHand, [Next]_vars
        PROVE  Stays
    <2> SUFFICES ASSUME NEW i \in DOMAIN pool, Len(pool[i].inputs) > 0
                 PROVE  Copies(pool[i], pool') >= Copies(pool[i], pool)
      OBVIOUS
    <2> DEFINE t == pool[i]
    <2>1. IsSeq(pool)
      BY <1>1 DEF TypeOK, DataType
    <2> HIDE DEF t
    <2>2. CASE pool' = pool
      <3> DEFINE h == [k \in DOMAIN pool |-> k]
      <3>1. Finds(h, t, pool, pool)
        BY DEF Finds
      <3> HIDE DEF h
      <3>2. Copies(t, pool) >= Copies(t, pool)
        BY <2>1, <3>1, CopiesAtMost
      <3> QED BY <2>2, <3>2 DEF t
    <2>3. CASE pool' = Append(pool, netTx)
      BY <2>1, <2>3, AppendedElsewhere
    <2>4. CASE /\ netPc = "pclear" /\ netPos \in 1 .. Len(pool)
               /\ TxEqual(pool[netPos], netBlock.txs[1])
               /\ pool' = RemoveAt(pool, netPos)
      <3>1. Len(netBlock.txs[1].inputs) = 0
        BY <1>1, <2>4 DEF BlockInHand, Acceptable, ValidFirstTxn
      <3>2. pool[netPos].inputs = netBlock.txs[1].inputs
        BY <2>4 DEF TxEqual
      <3>3. pool[netPos] # t
        BY <3>1, <3>2 DEF t
      <3>4. Copies(t, RemoveAt(pool, netPos)) >= Copies(t, pool)
        BY <2>1, <2>4, <3>3, RemovedElsewhere
      <3> QED BY <2>4, <3>4 DEF t
    <2> QED BY <1>1, <2>2, <2>3, <2>4, PoolStep
  <1>2. Spec => []TypeOK
    BY TypeCorrect
  <1>3. TypeOK /\ BlockInHand /\ [Next]_vars => [Stays]_vars
    BY <1>1
  <1> QED BY <1>2, <1>3, BlockInHandInvariant, PTL DEF Spec, SpendsStayInPool
=============================================================================
