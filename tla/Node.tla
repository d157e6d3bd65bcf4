-------------------------------- MODULE Node --------------------------------
(***************************************************************************)
(* One running node: the shared Blockchain object and the three threads    *)
(* that use it.                                                            *)
(*                                                                         *)
(*   net    the io_service thread of server: addBlock, addTx, customize,   *)
(*          and the completion handlers that share posts to it             *)
(*   miner  the thread miner::start spawns: m_mining                       *)
(*   ui     the main thread in Wallet::commandProg: refresh, start/stop    *)
(*                                                                         *)
(* Between two steps of a thread the others may run.  A step is a section  *)
(* no other thread can observe the middle of, or, where the code shares    *)
(* data without the lock, one access.                                      *)
(***************************************************************************)
EXTENDS Coin, SequencesExt

CONSTANTS
  Blocks,        \* the blocks peers may send
  Txs,           \* the transactions peers may send
  Verifier(_),   \* Botan's answer on a signature: "ok", "bad" or "throws"
  Lucky(_),      \* does the SHA-256 of this block data start with a zero byte?
  PoolThreshold, \* pool size a round needs, and transactions it takes (4)
  CustomizeCount,\* blocks a node makes for a peer without any (7)
  MaxBlocks,     \* bound: customize starts only if it stays within this
  MaxPool,       \* bound: transactions received while the pool is smaller
  MaxLeaks,      \* bound: blocks received while fewer holds are leaked
  MaxOutbox      \* bound: share jobs posted and not yet run

ASSUME BlocksAssumption == \A b \in Blocks : IsBlock(b)
ASSUME TxsAssumption == \A t \in Txs : IsTransaction(t)
ASSUME BoundsAssumption ==
  {PoolThreshold, CustomizeCount, MaxBlocks, MaxPool, MaxLeaks, MaxOutbox}
    \subseteq Nat \ {0}

VARIABLES
  chain,         \* Blockchain::blockChain
  availibleTxes, \* Transaction::availibleTxes
  pool,          \* Block::nonValidated
  bm, tm,        \* BlockchainMutex, TransactionsMutex
  state,         \* miner::state
  outbox,        \* share handlers posted to the io_service
  alive,         \* FALSE once the process has crashed or terminated
  netPc, netBlock, netTx, netPos, netLeft,
  minerPc, minerTx, minerIn, minerAt, minerSum, minerCnt,
  uiPc,
  leaks,         \* history: shared holds validateBlock returned without giving up
  taken,         \* history: tails ever marked used
  credited,      \* history: tails in a sum validateInputs returned
  took,          \* history: tails marked by the validateInputs in progress
  raced          \* history: did a mark miss its entry?

chainVars == << chain, availibleTxes, pool >>
netVars   == << netPc, netBlock, netTx, netPos, netLeft >>
minerVars == << minerPc, minerTx, minerIn, minerAt, minerSum, minerCnt, outbox >>
history   == << leaks, taken, credited, took, raced >>
vars == << chainVars, bm, tm, state, alive, netVars, minerVars, uiPc, history >>

-----------------------------------------------------------------------------
\* std::shared_timed_mutex.  Readers are never held back by a waiting writer.

Free == [readers |-> 0, writer |-> FALSE]
\* Mutants: a writer that ignores readers, a release that is forgotten.
CanLockOverReaders(m) == ~m.writer
NotReleased(m) == m

CanShare(m) == ~m.writer
CanLock(m)  == ~m.writer /\ m.readers = 0
Shared(m)   == [m EXCEPT !.readers = @ + 1]
Unshared(m) == [m EXCEPT !.readers = @ - 1]
Locked(m)   == [m EXCEPT !.writer = TRUE]
Unlocked(m) == [m EXCEPT !.writer = FALSE]

NoBlock == [bits |-> 0, currentNumber |-> 0, prevBlock |-> Zero32,
            merkleRoot |-> Zero32, txs |-> << >>]
NoTx == FirstTxe(Zero32)

Init ==
  /\ chain = << >> /\ availibleTxes = << >> /\ pool = << >>
  /\ bm = Free /\ tm = Free
  /\ state = FALSE /\ outbox = 0 /\ alive = TRUE
  /\ netPc = "idle" /\ netBlock = NoBlock /\ netTx = NoTx
  /\ netPos = 1 /\ netLeft = 0
  /\ minerPc = "off" /\ minerTx = 1 /\ minerIn = 1 /\ minerAt = 1
  /\ minerSum = 0 /\ minerCnt = 0
  /\ uiPc = "menu"
  /\ leaks = 0 /\ taken = {} /\ credited = {} /\ took = {} /\ raced = FALSE

\* The process is gone: std::terminate, abort or a fault of any thread.
Crash ==
  /\ alive' = FALSE
  /\ UNCHANGED << chainVars, bm, tm, state, netVars, minerVars, uiPc, history >>

\* The threads this step is not about.
OthersThanNet   == UNCHANGED << state, alive, minerVars, uiPc >>
OthersThanMiner == UNCHANGED << chain, pool, alive, netVars, uiPc, state, leaks >>

-----------------------------------------------------------------------------
(***************************************************************************)
(* The io_service thread.                                                  *)
(***************************************************************************)

\* A peer's block message: m_handle_inv and m_handshake call addBlock on it.
NetReceiveBlock ==
  /\ netPc = "idle" /\ leaks < MaxLeaks
  /\ \E b \in Blocks : netBlock' = b
  /\ netPc' = "vlock"
  /\ UNCHANGED << chainVars, bm, tm, netTx, netPos, netLeft, history >>
  /\ OthersThanNet

\* A peer's tx message: addTx waits for TransactionsMutex.
NetReceiveTx ==
  /\ netPc = "idle" /\ Len(pool) < MaxPool
  /\ \E t \in Txs : netTx' = t
  /\ netPc' = "addtx"
  /\ UNCHANGED << chainVars, bm, tm, netBlock, netPos, netLeft, history >>
  /\ OthersThanNet

NetAddTx ==
  /\ netPc = "addtx" /\ CanLock(tm)
  /\ pool' = Append(pool, netTx)
  /\ netPc' = "idle" /\ netTx' = NoTx
  /\ UNCHANGED << chain, availibleTxes, bm, tm, netBlock, netPos, netLeft, history >>
  /\ OthersThanNet

\* A getblocks of a peer with an empty chain: m_handle_version customizes.
NetHandleGetblocks ==
  /\ netPc = "idle" /\ Len(chain) + CustomizeCount <= MaxBlocks
  /\ leaks < MaxLeaks
  /\ netPc' = "custom" /\ netLeft' = CustomizeCount
  /\ UNCHANGED << chainVars, bm, tm, netBlock, netTx, netPos, history >>
  /\ OthersThanNet

NetCustomize ==
  /\ netPc = "custom"
  /\ netBlock' = CustomBlock(Zero32, chain)
  /\ netLeft' = netLeft - 1 /\ netPc' = "vlock"
  /\ UNCHANGED << chainVars, bm, tm, netTx, netPos, history >>
  /\ OthersThanNet

\* A handler posted by share: send throws when the connect failed, and
\* nothing above io_service::run catches it.
NetShare ==
  /\ netPc = "idle" /\ outbox > 0
  /\ outbox' = outbox - 1
  /\ alive' \in BOOLEAN
  /\ UNCHANGED << chainVars, bm, tm, state, netVars, minerPc, minerTx, minerIn,
                  minerAt, minerSum, minerCnt, uiPc, history >>

\* Mutant: the customize loop runs once more.
NetReturnOnceMore ==
  /\ netPc' = IF netLeft >= 0 THEN "custom" ELSE "idle"
  /\ netBlock' = NoBlock /\ netPos' = 1
  /\ UNCHANGED << netTx, netLeft >>

\* addBlock is done: back to the customize loop or to the next handler.
NetReturn ==
  /\ netPc' = IF netLeft > 0 THEN "custom" ELSE "idle"
  /\ netBlock' = NoBlock /\ netPos' = 1
  /\ UNCHANGED << netTx, netLeft >>

\* validateBlock: lock_shared.
NetLockShared ==
  /\ netPc = "vlock" /\ CanShare(bm)
  /\ bm' = Shared(bm) /\ netPc' = "check"
  /\ UNCHANGED << chainVars, tm, netBlock, netTx, netPos, netLeft, history >>
  /\ OthersThanNet

\* Mutant: the root is taken on trust.
RootNotChecked(b) == Len(b.txs) = 1

\* validateMerkleRoot where it returns true.
RootMatches(b) == Len(b.txs) = 1 /\ b.merkleRoot = MerkleRoot(b.txs)

\* The early returns of validateBlock: none of them unlocks.
NetRejectEarly ==
  /\ netPc = "check"
  /\ \/ ~Extends(netBlock, chain)
     \/ Len(netBlock.txs) \notin MerkleSizes
     \/ Len(netBlock.txs) = 1 /\ ~RootMatches(netBlock)
  /\ leaks' = leaks + 1
  /\ NetReturn
  /\ UNCHANGED << chainVars, bm, tm, taken, credited, took, raced >>
  /\ OthersThanNet

\* validateMerkleRoot of 2, 4 or 8 transactions: the loop never ends, with
\* the shared lock held.
NetSpin ==
  /\ netPc = "check" /\ Extends(netBlock, chain) /\ MerkleSpins(netBlock.txs)
  /\ netPc' = "spin"
  /\ UNCHANGED << chainVars, bm, tm, netBlock, netTx, netPos, netLeft, history >>
  /\ OthersThanNet

\* validateFirstTxn and unlock_shared; a block of one transaction has no
\* other transaction to validate.
NetValidated ==
  /\ netPc = "check" /\ Extends(netBlock, chain) /\ RootMatches(netBlock)
  /\ bm' = Unshared(bm)
  /\ IF ValidFirstTxn(netBlock.txs[1])
       THEN netPc' = "ilock" /\ UNCHANGED << netBlock, netTx, netPos, netLeft >>
       ELSE NetReturn
  /\ UNCHANGED << chainVars, tm, history >>
  /\ OthersThanNet

NetLockIndex ==
  /\ netPc = "ilock" /\ CanLock(bm)
  /\ bm' = Locked(bm) /\ netPc' = "index"
  /\ UNCHANGED << chainVars, tm, netBlock, netTx, netPos, netLeft, history >>
  /\ OthersThanNet

NetSetAvailible ==
  /\ netPc = "index"
  /\ availibleTxes' = availibleTxes \o NewOutputs(netBlock)
  /\ netPc' = "clear" /\ netPos' = 1
  /\ UNCHANGED << chain, pool, bm, tm, netBlock, netTx, netLeft, history >>
  /\ OthersThanNet

\* One round of the loop of clearAvailibleTxes: after an erase the loop goes
\* on behind the entry that moved up.
NetClearAvailible ==
  /\ netPc = "clear"
  /\ \/ /\ netPos <= Len(availibleTxes)
        /\ availibleTxes' = IF AllUsed(availibleTxes[netPos])
                              THEN RemoveAt(availibleTxes, netPos)
                              ELSE availibleTxes
        /\ netPos' = netPos + 1
        /\ UNCHANGED << bm, netPc >>
     \/ /\ netPos > Len(availibleTxes)
        /\ bm' = Unlocked(bm) /\ netPc' = "plock" /\ netPos' = 1
        /\ UNCHANGED availibleTxes
  /\ UNCHANGED << chain, pool, tm, netBlock, netTx, netLeft, history >>
  /\ OthersThanNet

NetLockPool ==
  /\ netPc = "plock" /\ CanLock(tm)
  /\ tm' = Locked(tm) /\ netPc' = "pclear"
  /\ UNCHANGED << chainVars, bm, netBlock, netTx, netPos, netLeft, history >>
  /\ OthersThanNet

\* The loop of clearNonValidated over the pool, for the block's transaction.
NetClearPool ==
  /\ netPc = "pclear"
  /\ \/ /\ netPos <= Len(pool)
        /\ pool' = IF TxEqual(pool[netPos], netBlock.txs[1])
                     THEN RemoveAt(pool, netPos) ELSE pool
        /\ netPos' = netPos + 1
        /\ UNCHANGED << tm, netPc >>
     \/ /\ netPos > Len(pool)
        /\ tm' = Unlocked(tm) /\ netPc' = "addlock" /\ netPos' = 1
        /\ UNCHANGED pool
  /\ UNCHANGED << chain, availibleTxes, bm, netBlock, netTx, netLeft, history >>
  /\ OthersThanNet

\* Back in addBlock: the block is pushed under a second exclusive lock.
NetLockChain ==
  /\ netPc = "addlock" /\ CanLock(bm)
  /\ bm' = Locked(bm) /\ netPc' = "push"
  /\ UNCHANGED << chainVars, tm, netBlock, netTx, netPos, netLeft, history >>
  /\ OthersThanNet

\* Mutant: the block goes in front of the chain.
NetPushFront ==
  /\ netPc = "push"
  /\ chain' = << netBlock >> \o chain
  /\ bm' = Unlocked(bm)
  /\ NetReturn
  /\ UNCHANGED << availibleTxes, pool, tm, history >>
  /\ OthersThanNet

NetPush ==
  /\ netPc = "push"
  /\ chain' = Append(chain, netBlock)
  /\ bm' = Unlocked(bm)
  /\ NetReturn
  /\ UNCHANGED << availibleTxes, pool, tm, history >>
  /\ OthersThanNet

NetReceive == NetReceiveBlock \/ NetReceiveTx \/ NetHandleGetblocks \/ NetShare
NetExclusive == NetAddTx \/ NetLockIndex \/ NetLockPool \/ NetLockChain
NetStep == NetCustomize \/ NetLockShared \/ NetRejectEarly \/ NetSpin
           \/ NetValidated \/ NetSetAvailible \/ NetClearAvailible
           \/ NetClearPool \/ NetPush

-----------------------------------------------------------------------------
(***************************************************************************)
(* The mining thread.                                                      *)
(***************************************************************************)

\* The loop condition of m_mining, then TransactionsMutex->lock_shared().
MinerStartRound ==
  /\ minerPc = "top" /\ state /\ CanShare(tm)
  /\ tm' = Shared(tm) /\ minerPc' = "pick" /\ minerTx' = 1 /\ minerCnt' = 0
  /\ UNCHANGED << availibleTxes, bm, minerIn, minerAt, minerSum, outbox, taken,
                  credited, took, raced >>
  /\ OthersThanMiner

MinerExit ==
  /\ minerPc = "top" /\ ~state
  /\ minerPc' = "done"
  /\ UNCHANGED << availibleTxes, bm, tm, minerTx, minerIn, minerSum, minerCnt,
                  outbox, taken, credited, took, minerAt, raced >>
  /\ OthersThanMiner

\* The candidates are used up, too few, or enough of them validated.
NothingToPick == \/ Len(pool) < PoolThreshold
                 \/ minerTx > Len(pool)
                 \/ minerCnt = PoolThreshold

MinerEndPick ==
  /\ minerPc = "pick" /\ NothingToPick
  /\ tm' = Unshared(tm) /\ minerPc' = "head"
  /\ UNCHANGED << availibleTxes, bm, minerTx, minerIn, minerSum, minerCnt,
                  outbox, taken, credited, took, minerAt, raced >>
  /\ OthersThanMiner

\* validateTxn, validateSignature first: X509::load_key may throw, and
\* nothing in the thread catches it.
MinerSignature ==
  /\ minerPc = "pick" /\ ~NothingToPick
  /\ \/ /\ Verifier(pool[minerTx]) = "ok"
        /\ minerPc' = "inputs" /\ minerIn' = 1 /\ minerSum' = 0 /\ took' = {}
        /\ UNCHANGED minerTx
     \/ /\ Verifier(pool[minerTx]) = "bad"
        /\ minerTx' = minerTx + 1
        /\ UNCHANGED << minerPc, minerIn, minerSum, took >>
  /\ UNCHANGED << availibleTxes, bm, tm, minerAt, minerCnt, outbox, taken,
                  credited, raced >>
  /\ OthersThanMiner

MinerSignatureThrows ==
  /\ minerPc = "pick" /\ ~NothingToPick /\ Verifier(pool[minerTx]) = "throws"
  /\ Crash /\ UNCHANGED minerVars

\* What validateInputs looks for: an entry with the input's output whose tail
\* exists and is not used, and whose tail pays to the transaction's key.
EntryOf(in) ==
  {c \in DOMAIN availibleTxes :
     /\ availibleTxes[c].output = in.output
     /\ in.tailNum < Len(availibleTxes[c].usedTails)
     /\ ~availibleTxes[c].usedTails[in.tailNum + 1]}

PaysTo(in, key) ==
  /\ InChain(in.output, chain)
  /\ in.tailNum < Len(chain[in.output.blockNumber + 1].txs[in.output.txeNumber + 1].tails)
  /\ TailAt(in.output, in.tailNum, chain).address = Sha(key)

\* The io_service thread writes the list.  The miner reads and marks it under
\* TransactionsMutex only, which keeps nobody from that.
ListWritten == netPc \in {"index", "clear"}

Candidate == pool[minerTx].inputs[minerIn]
MarkedAt(c) == [availibleTxes EXCEPT ![c].usedTails[Candidate.tailNum + 1] = TRUE]

\* One input of validateInputs: its entry is found, at an index, ...
MinerFindInput ==
  /\ minerPc = "inputs" /\ minerIn <= Len(pool[minerTx].inputs)
  /\ \E c \in EntryOf(Candidate) : minerAt' = c
  /\ minerPc' = "mark"
  /\ UNCHANGED << availibleTxes, bm, tm, minerTx, minerIn, minerSum, minerCnt,
                  outbox, taken, credited, took, raced >>
  /\ OthersThanMiner

\* ... its address compared, its money summed, ...
MinerPaid ==
  /\ minerPc = "mark" /\ PaysTo(Candidate, pool[minerTx].pubKey)
  /\ minerSum' = minerSum + TailAt(Candidate.output, Candidate.tailNum, chain).intValue
  /\ taken' = taken \union {Candidate} /\ took' = took \union {Candidate}
  /\ minerIn' = minerIn + 1 /\ minerPc' = "inputs" /\ minerAt' = 1
  /\ UNCHANGED << bm, tm, minerTx, minerCnt, outbox, credited >>
  /\ OthersThanMiner

\* ... and the entry at that index marked, ...
MinerTakeInput ==
  /\ MinerPaid
  /\ minerAt \in EntryOf(Candidate)
  /\ availibleTxes' = MarkedAt(minerAt)
  /\ UNCHANGED raced

\* ... or whatever has moved to that index meanwhile; a mark in a vector that
\* is being copied is lost.
MinerStrayMark ==
  /\ MinerPaid
  /\ minerAt \notin EntryOf(Candidate) \/ ListWritten
  /\ \/ UNCHANGED availibleTxes
     \/ /\ minerAt \in DOMAIN availibleTxes
        /\ Candidate.tailNum < Len(availibleTxes[minerAt].usedTails)
        /\ availibleTxes' = MarkedAt(minerAt)
  /\ raced' = TRUE

\* validateInputs returns 0 or a sum below the tails': the restore of
\* validateTxn works on an empty copy of toRestore, so every mark stays.
\* An entry whose block is not in the chain yet reads as some other address.
Spends(t) ==
  FoldFunction(LAMBDA tail, sum : tail.intValue + sum, 0, t.tails)

MinerFailTxn ==
  /\ LET t == pool[minerTx] IN
       \/ /\ minerPc = "inputs" /\ minerIn <= Len(t.inputs)
          /\ EntryOf(Candidate) = {} \/ ListWritten
          /\ UNCHANGED credited
       \/ /\ minerPc = "mark" /\ ~PaysTo(Candidate, t.pubKey)
          /\ UNCHANGED credited
       \/ /\ minerPc = "inputs" /\ minerIn > Len(t.inputs)
          /\ minerSum = 0
          /\ UNCHANGED credited
       \/ /\ minerPc = "inputs" /\ minerIn > Len(t.inputs)
          /\ minerSum # 0 /\ Spends(t) > minerSum
          /\ credited' = credited \union took
  /\ minerPc' = "pick" /\ minerTx' = minerTx + 1 /\ minerAt' = 1
  /\ UNCHANGED << availibleTxes, bm, tm, minerIn, minerSum, minerCnt, outbox,
                  taken, took, raced >>
  /\ OthersThanMiner

\* validateTxn returns true and addTransaction runs txs.erase on an iterator
\* of the pool: the transaction just pushed is popped again, so the block
\* keeps its first transaction only and the pool its candidate, ...
MinerAddTransaction ==
  /\ minerPc = "inputs" /\ minerIn > Len(pool[minerTx].inputs)
  /\ minerSum # 0 /\ Spends(pool[minerTx]) <= minerSum
  /\ credited' = credited \union took
  /\ minerCnt' = minerCnt + 1
  /\ minerPc' = "pick" /\ minerTx' = minerTx + 1
  /\ UNCHANGED << availibleTxes, bm, tm, minerIn, minerAt, minerSum, outbox,
                  taken, took, raced >>
  /\ OthersThanMiner

\* ... or, where the pool lies below the block in memory, the heap is gone.
MinerEraseFaults ==
  /\ minerPc = "inputs" /\ minerIn > Len(pool[minerTx].inputs)
  /\ minerSum # 0 /\ Spends(pool[minerTx]) <= minerSum
  /\ Crash /\ UNCHANGED minerVars

\* validateInputs reads availibleTxes or blockChain while the io_service thread
\* reallocates it, reads a block not in the chain yet, or marks past the end.
MinerRace ==
  /\ \/ minerPc = "inputs" /\ minerIn <= Len(pool[minerTx].inputs) /\ ListWritten
     \/ /\ minerPc = "mark"
        /\ \/ bm.writer \/ ~InChain(Candidate.output, chain)
           \/ minerAt \notin DOMAIN availibleTxes
  /\ Crash /\ UNCHANGED minerVars

\* setNumber and setPrevBlock under the shared lock, before the search.
MinerHead ==
  /\ minerPc = "head" /\ CanShare(bm)
  /\ minerPc' = "search"
  /\ UNCHANGED << availibleTxes, bm, tm, minerTx, minerIn, minerSum, minerCnt,
                  outbox, taken, credited, took, minerAt, raced >>
  /\ OthersThanMiner

\* The block a search round hashes: the tip is read again, the nonce never
\* changes.  m_local_address is an empty vector.
Mined == CustomBlock(<< >>, chain)

\* A search round that finds a zero byte and shares the block with the peers;
\* the node does not add it to its own chain.  An unlucky round changes nothing.
MinerFound ==
  /\ minerPc = "search" /\ CanShare(bm) /\ Lucky(BlockData(Mined))
  /\ outbox < MaxOutbox
  /\ outbox' = outbox + 1 /\ minerPc' = "top"
  /\ UNCHANGED << availibleTxes, bm, tm, minerTx, minerIn, minerSum, minerCnt,
                  taken, credited, took, minerAt, raced >>
  /\ OthersThanMiner

\* Mutant: the search loop tests finished only.
MinerSearchesOn == FALSE /\ UNCHANGED vars

MinerStopSearch ==
  /\ minerPc = "search" /\ ~state
  /\ minerPc' = "top"
  /\ UNCHANGED << availibleTxes, bm, tm, minerTx, minerIn, minerSum, minerCnt,
                  outbox, taken, credited, took, minerAt, raced >>
  /\ OthersThanMiner

MinerStep == MinerStartRound \/ MinerExit \/ MinerEndPick \/ MinerSignature
             \/ MinerSignatureThrows \/ MinerFindInput \/ MinerTakeInput
             \/ MinerStrayMark \/ MinerFailTxn \/ MinerAddTransaction
             \/ MinerEraseFaults \/ MinerRace
             \/ MinerHead \/ MinerFound \/ MinerStopSearch

-----------------------------------------------------------------------------
(***************************************************************************)
(* The main thread: Wallet::commandProg.                                   *)
(***************************************************************************)
OthersThanUi == UNCHANGED << chainVars, tm, outbox, netVars, minerTx, minerIn,
                             minerAt, minerSum, minerCnt, history >>

\* '1': setAvailaibleForAddress takes the shared lock ...
UiRefresh ==
  /\ uiPc = "menu" /\ CanShare(bm)
  /\ bm' = Shared(bm) /\ uiPc' = "scan"
  /\ UNCHANGED << state, alive, minerPc >> /\ OthersThanUi

UiScanned ==
  /\ uiPc = "scan"
  /\ bm' = Unshared(bm) /\ uiPc' = "menu"
  /\ UNCHANGED << state, alive, minerPc >> /\ OthersThanUi

\* ... and indexes blockChain by every entry, in or out of its range.
UiScanFaults ==
  /\ uiPc = "scan"
  /\ \E c \in DOMAIN availibleTxes : ~InChain(availibleTxes[c].output, chain)
  /\ Crash /\ UNCHANGED minerVars

\* '3': changeMiner, miner::start and miner::stop.
UiStartMiner ==
  /\ uiPc = "menu" /\ ~state
  /\ state' = TRUE /\ minerPc' = "top"
  /\ UNCHANGED << uiPc, bm, alive >> /\ OthersThanUi

\* Mutant: stop detaches the thread instead of joining it.
UiDetachMiner ==
  /\ uiPc = "menu" /\ state
  /\ state' = FALSE
  /\ UNCHANGED << uiPc, minerPc, bm, alive >> /\ OthersThanUi

UiStopMiner ==
  /\ uiPc = "menu" /\ state
  /\ state' = FALSE /\ uiPc' = "join"
  /\ UNCHANGED << minerPc, bm, alive >> /\ OthersThanUi

UiJoined ==
  /\ uiPc = "join" /\ minerPc = "done"
  /\ uiPc' = "menu" /\ minerPc' = "off"
  /\ UNCHANGED << state, bm, alive >> /\ OthersThanUi

UiCommand == UiRefresh \/ UiStartMiner \/ UiStopMiner
UiStep == UiScanned \/ UiScanFaults \/ UiJoined

-----------------------------------------------------------------------------
Dead == ~alive /\ UNCHANGED vars

Next ==
  \/ alive /\ (NetReceive \/ NetExclusive \/ NetStep)
  \/ alive /\ MinerStep
  \/ alive /\ (UiCommand \/ UiStep)
  \/ Dead

\* The threads run; a thread that keeps finding a lock free gets it.  Nothing
\* makes a peer send or the user type.
Fairness ==
  /\ WF_vars(alive /\ NetStep)
  /\ SF_vars(alive /\ NetAddTx) /\ SF_vars(alive /\ NetLockIndex)
  /\ SF_vars(alive /\ NetLockPool) /\ SF_vars(alive /\ NetLockChain)
  /\ WF_vars(alive /\ MinerStep)
  /\ WF_vars(alive /\ UiStep)

Spec == Init /\ [][Next]_vars
FairSpec == Spec /\ Fairness

-----------------------------------------------------------------------------
(***************************************************************************)
(* Properties.                                                             *)
(***************************************************************************)

\* The type of every variable, and the ranges the loops stay in: no thread
\* ever indexes the pool or a transaction outside of it.
DataType ==
  /\ IsSeq(chain) /\ \A i \in DOMAIN chain : IsBlock(chain[i])
  /\ availibleTxes \in Seq(AddedOutput)
  /\ IsSeq(pool) /\ \A i \in DOMAIN pool : IsTransaction(pool[i])
  /\ IsBlock(netBlock) /\ IsTransaction(netTx)

ThreadType ==
  /\ bm \in [readers : Nat, writer : BOOLEAN]
  /\ tm \in [readers : Nat, writer : BOOLEAN]
  /\ state \in BOOLEAN /\ alive \in BOOLEAN /\ outbox \in Nat
  /\ netPc \in {"idle", "addtx", "custom", "vlock", "check", "spin", "ilock",
                "index", "clear", "plock", "pclear", "addlock", "push"}
  /\ netPos \in Nat \ {0} /\ netLeft \in Nat /\ (netPc = "custom" => netLeft > 0)
  /\ minerPc \in {"off", "top", "pick", "inputs", "mark", "head", "search", "done"}
  /\ minerTx \in Nat \ {0} /\ minerIn \in Nat \ {0}
  /\ minerAt \in Nat \ {0}
  /\ minerPc \in {"inputs", "mark"} => minerTx \in DOMAIN pool
  /\ minerPc = "mark" => minerIn <= Len(pool[minerTx].inputs)
  /\ minerSum \in Nat /\ minerCnt \in Nat
  /\ uiPc \in {"menu", "scan", "join"}

HistoryType ==
  /\ leaks \in Nat /\ raced \in BOOLEAN
  /\ taken \subseteq TailRef /\ took \subseteq taken /\ credited \subseteq taken

TypeOK == DataType /\ ThreadType /\ HistoryType

NetSharesBm == IF netPc \in {"check", "spin"} THEN 1 ELSE 0
UiSharesBm  == IF uiPc = "scan" THEN 1 ELSE 0

\* Who holds what: BlockchainMutex is shared by validateBlock, by the wallet's
\* scan and once for ever by each early return; exclusively only by the
\* io_service thread, and then by nobody else.  TransactionsMutex is shared
\* by the candidate loop of m_mining, which clearNonValidated excludes.
LocksHeld ==
  /\ bm.readers = leaks + NetSharesBm + UiSharesBm
  /\ bm.writer <=> netPc \in {"index", "clear", "push"}
  /\ bm.writer => bm.readers = 0
  /\ tm.readers = IF minerPc \in {"pick", "inputs", "mark"} THEN 1 ELSE 0
  /\ tm.writer <=> netPc = "pclear"
  /\ tm.writer => tm.readers = 0

\* miner::start resets m_mining_th only when no thread is in it (a joinable
\* std::thread would terminate the process), and miner::stop joins one that
\* was started: state is the truth about the thread outside of stop.
OneMiner ==
  /\ uiPc = "join" => ~state /\ minerPc # "off"
  /\ uiPc # "join" => minerPc # "done" /\ (state <=> minerPc # "off")

\* One block refused by an early return of validateBlock freezes the node:
\* from then on no block enters the chain and the list of outputs keeps its
\* entries, whatever the peers send.
LeakFreezesChain ==
  [][leaks > 0 => /\ chain' = chain
                  /\ Len(availibleTxes') = Len(availibleTxes)]_vars

\* The chain is what a validator of the whole chain would accept: every block
\* is acceptable on top of the blocks before it, although validateBlock and
\* push_back hold the mutex at different times.
ChainSound ==
  \A i \in DOMAIN chain : Acceptable(chain[i], SubSeq(chain, 1, i - 1))

\* The block in addBlock once setAvailibleTxes ran: its outputs are listed
\* before it is in the chain.
Pending == IF netPc \in {"clear", "plock", "pclear", "addlock", "push"}
             THEN {netBlock} ELSE {}

TailsOf(b) ==
  UNION {{[output |-> [blockNumber |-> b.currentNumber, txeNumber |-> i - 1],
           tailNum |-> j - 1] : j \in DOMAIN b.txs[i].tails} : i \in DOMAIN b.txs}

Offered ==
  {ref \in UNION {TailsOf(b) : b \in Range(chain) \union Pending} :
     EntryOf(ref) # {}}

\* The list of outputs against the chain: what it offers to be spent is what
\* the accepted blocks pay, less what a validation ever marked used.  No coin
\* is lost by the erase loops, none is offered twice or again: only a mark
\* that missed its entry can do that.
OutputsMatchChain == ~raced =>
  /\ Offered = (UNION {TailsOf(b) : b \in Range(chain) \union Pending}) \ taken
  /\ \A c, d \in DOMAIN availibleTxes :
       availibleTxes[c].output = availibleTxes[d].output => c = d

\* An entry whose block is not in the chain, the one the other threads index
\* blockChain out of range by, exists only between validateBlock's first and
\* addBlock's second exclusive section.
DanglingOnlyWhilePending ==
  Pending = {} =>
    \A c \in DOMAIN availibleTxes : InChain(availibleTxes[c].output, chain)

\* How often t is in s.
Copies(t, s) == Cardinality({k \in DOMAIN s : s[k] = t})

\* A transaction that spends is never removed from the pool: accepted blocks
\* carry a first transaction only, so every candidate is validated again in
\* every later round.
SpendsStayInPool ==
  [][\A i \in DOMAIN pool : Len(pool[i].inputs) > 0 =>
        Copies(pool[i], pool') >= Copies(pool[i], pool)]_vars

\* miner::stop returns: the thread sees state and is joined.
StopReturns == uiPc = "join" ~> (uiPc = "menu" \/ ~alive)

\* addBlock returns on every block of one transaction as long as no earlier
\* block leaked a hold.
AddBlockReturns ==
  (netPc = "vlock" /\ leaks = 0 /\ Len(netBlock.txs) = 1)
    ~> (netPc \in {"idle", "custom"} \/ ~alive)

Log == INSTANCE ChainLog WITH chain <- chain
ChainLogSpec == Log!Spec

\* blockchain.h says of validateInputs: "returns amount of money taken from
\* inputs".  Once it has returned, what was taken is in a sum it returned.
ReturnsWhatItTook == minerPc \notin {"inputs", "mark"} => taken = credited
=============================================================================
