-------------------------------- MODULE Wallet -------------------------------
(***************************************************************************)
(* The console wallet: the main thread from the constructor on, with the   *)
(* user who types and, as far as the wallet can tell, the two other        *)
(* threads (Node has them whole): blocks are listed and then pushed, the   *)
(* miner marks outputs used.  What is typed becomes a transaction through  *)
(* the commands of TxBuilder.                                              *)
(*                                                                         *)
(* The chain is kept as far as the wallet reads it.  An accepted block has *)
(* one transaction with one tail, so the loops over tails have one round.  *)
(***************************************************************************)
EXTENDS Coin, SequencesExt

CONSTANTS
  Key,      \* the key pair of this wallet
  Payees,   \* the addresses blocks pay to
  Amounts,  \* amounts the user may type
  Loose,    \* what the uninitialised byte of readTails may hold (wallet.cpp:238)
  MaxBlocks,\* bound: blocks of the chain, and highest block number typed
  MaxSum,   \* bound: a refresh starts while the sum is smaller
  MaxShared,\* bound: transactions shared
  MaxTyped, \* bound: inputs and tails typed for one transaction
  MaxCommands \* bound: one more is typed while fewer commands are done

Newline == "newline"

ASSUME WalletBounds == {MaxBlocks, MaxSum, MaxShared, MaxTyped, MaxCommands} \subseteq Nat \ {0}
ASSUME LooseAssumption == Newline \in Loose

VARIABLES
  chain, availibleTxes, \* Blockchain::blockChain, Transaction::availibleTxes
  netPc, netBlock,      \* the io_service thread and the block it is adding
  mining,               \* miner::state
  alive,                \* FALSE once the process has ended
  uiPc, uiAt,           \* where the main thread is
  sum, availableForAddress,        \* Wallet's own fields
  txe, DoneCommands, past,         \* the builder's, see TxBuilder
  finds,                \* history: refreshes that found something
  typed,                \* history: what was typed for the transaction in hand
  shared                \* history: the transactions shared, with what was typed

builderVars == << txe, DoneCommands, past >>
netVars == << chain, netPc, netBlock >>
formVars == << builderVars, typed, shared >>
moneyVars == << sum, availableForAddress, finds >>
vars == << netVars, availibleTxes, mining, alive, uiPc, uiAt, moneyVars, formVars >>

-----------------------------------------------------------------------------
(***************************************************************************)
(* What the wallet reads of the chain.                                     *)
(***************************************************************************)
address == Sha(Key)

BlockTo(payee) == [currentNumber |-> Len(chain), txs |-> << FirstTxe(payee) >>]

\* chain->blockChain[...].txs[...]
TxAt(out) == chain[out.blockNumber + 1].txs[out.txeNumber + 1]

\* Does the listed entry hold an unused tail for this wallet's address?
IsMine(entry) ==
  TailAt(entry.output, 0, chain).address = address /\ ~entry.usedTails[1]

Value(entry) ==
  IF IsMine(entry) THEN TailAt(entry.output, 0, chain).intValue ELSE 0

\* clearAvailibleTxes: after an erase the entry that moved up is passed over.
Cleared(list) ==
  LET erased[k \in DOMAIN list] ==
        AllUsed(list[k]) /\ (k = 1 \/ ~erased[k - 1])
  IN Without(list, erased)

-----------------------------------------------------------------------------
(***************************************************************************)
(* The builder and what can be typed into it.                              *)
(***************************************************************************)
Outputs == [blockNumber : 0 .. MaxBlocks, txeNumber : {0}]

\* The data of the transaction the output names; whatever lies past the end
\* of the vector otherwise.
Garbage == << "garbage" >>
InfoHash(out) == IF InChain(out, chain) THEN Sha(TxAt(out)) ELSE Garbage

Hashes == {Sha(FirstTxe(a)) : a \in Payees} \union {Garbage}
TypedInputs == [output : Outputs, tailNum : {0}, outputHash : Hashes]
TypedTails == [intValue : Amounts, address : {<< >>}]

Builder == INSTANCE TxBuilder
  WITH Inputs <- TypedInputs, Tails <- TypedTails, Keys <- {Key},
       MaxCommands <- MaxCommands, MaxItems <- MaxTyped

\* The all-zero key is nobody's, and an address is not empty.
ASSUME PayeesAssumption ==
  Key # Builder!NoKey /\ Payees \cap {Sha(Builder!NoKey), << >>} = {}

Nothing == [inputs |-> << >>, tails |-> << >>, stray |-> FALSE]

-----------------------------------------------------------------------------
\* Wallet::Wallet: the list and the chain are empty, so are snapshot and sum;
\* receiver.Initialize sets the public key.
Init ==
  /\ chain = << >> /\ availibleTxes = << >>
  /\ netPc = "idle" /\ netBlock = << >>
  /\ mining = FALSE /\ alive = TRUE
  /\ uiPc = "welcome" /\ uiAt = 1
  /\ sum = 0 /\ availableForAddress = << >> /\ finds = 0
  /\ txe = [Builder!Default EXCEPT !.pubKey = Key]
  /\ DoneCommands = << >> /\ past = << >>
  /\ typed = Nothing /\ shared = << >>

\* BlockchainMutex, as these threads hold it.
Reading == uiPc \in {"scan", "copy"}
Writing == netPc = "push"

Others == UNCHANGED << mining, alive, uiPc, uiAt, moneyVars, formVars >>

\* validateBlock lists the outputs of a block it accepts and clears the list ...
NetList ==
  /\ netPc = "idle" /\ ~Reading /\ Len(chain) < MaxBlocks
  /\ \E a \in Payees : netBlock' = BlockTo(a)
  /\ availibleTxes' = Cleared(availibleTxes \o NewOutputs(netBlock'))
  /\ netPc' = "listed"
  /\ UNCHANGED chain /\ Others

\* ... addBlock takes the lock again ...
NetLock ==
  /\ netPc = "listed" /\ ~Reading
  /\ netPc' = "push"
  /\ UNCHANGED << chain, netBlock, availibleTxes >> /\ Others

\* Mutant: the newest block comes first.
NetPushFront ==
  /\ Writing
  /\ chain' = << netBlock >> \o chain
  /\ netPc' = "idle"
  /\ UNCHANGED << netBlock, availibleTxes >> /\ Others

\* ... and pushes the block.
NetPush ==
  /\ Writing
  /\ chain' = Append(chain, netBlock)
  /\ netPc' = "idle"
  /\ UNCHANGED << netBlock, availibleTxes >> /\ Others

\* validateInputs marks a tail used under the shared lock.
MinerMarks ==
  /\ mining /\ ~Writing
  /\ \E k \in DOMAIN availibleTxes :
       /\ ~AllUsed(availibleTxes[k])
       /\ availibleTxes' = [availibleTxes EXCEPT ![k].usedTails = << TRUE >>]
  /\ UNCHANGED netVars /\ Others

-----------------------------------------------------------------------------
(***************************************************************************)
(* The main thread.                                                        *)
(***************************************************************************)
NetAndMiner == UNCHANGED << netVars, availibleTxes, mining >>

Go(pc) == uiPc' = pc /\ UNCHANGED << uiAt, alive >>
Dies == alive' = FALSE /\ UNCHANGED << uiPc, uiAt >>

\* welcome, '1': the temporary Wallet cannot be made, neither from a key under
\* an AlgorithmIdentifier without an oid nor with a second server on the port.
EnterWallet ==
  /\ uiPc = "welcome"
  /\ Dies /\ UNCHANGED << moneyVars, formVars >> /\ NetAndMiner

\* welcome, '2'; anything else typed into either menu asks in welcome again.
NewWallet ==
  /\ uiPc = "welcome"
  /\ Go("menu") /\ UNCHANGED << moneyVars, formVars >> /\ NetAndMiner

MenuOther ==
  /\ uiPc = "menu"
  /\ Go("welcome") /\ UNCHANGED << moneyVars, formVars >> /\ NetAndMiner

\* '3': changeMiner starts the miner, or stops and joins it.
ChangeMiner ==
  /\ uiPc = "menu"
  /\ mining' = ~mining
  /\ UNCHANGED << netVars, availibleTxes, alive, uiPc, uiAt, moneyVars, formVars >>

\* '1': setAvailaibleForAddress takes the shared lock and starts over ...
Refresh ==
  /\ uiPc = "menu" /\ ~Writing /\ sum < MaxSum
  /\ availableForAddress' = << >>
  /\ uiPc' = "scan" /\ uiAt' = 1
  /\ UNCHANGED << alive, sum, finds, formVars >> /\ NetAndMiner

\* ... tests one entry after the other; what an entry of the block that is not
\* pushed yet indexes is past the end of blockChain: a fault, or no match ...
ScanEntry ==
  /\ uiPc = "scan" /\ uiAt \in DOMAIN availibleTxes
  /\ LET entry == availibleTxes[uiAt]
         known == InChain(entry.output, chain)
     IN \/ known /\ IsMine(entry) /\ uiPc' = "copy" /\ UNCHANGED << uiAt, alive >>
        \/ (known => ~IsMine(entry)) /\ uiAt' = uiAt + 1 /\ UNCHANGED << uiPc, alive >>
        \/ ~known /\ Dies
  /\ UNCHANGED << moneyVars, formVars >> /\ NetAndMiner

\* Mutant: an entry is copied for every tail of its block, not of its transaction.
CopyEntryTwice ==
  /\ uiPc = "copy"
  /\ LET entry == availibleTxes[uiAt]
     IN availableForAddress' = availableForAddress \o << entry, entry >>
  /\ uiPc' = "scan" /\ uiAt' = uiAt + 1
  /\ UNCHANGED << alive, sum, finds, formVars >> /\ NetAndMiner

\* ... copies the ones that match ...
CopyEntry ==
  /\ uiPc = "copy"
  /\ availableForAddress' = Append(availableForAddress, availibleTxes[uiAt])
  /\ uiPc' = "scan" /\ uiAt' = uiAt + 1
  /\ UNCHANGED << alive, sum, finds, formVars >> /\ NetAndMiner

\* ... and gives the lock back.
Scanned ==
  /\ uiPc = "scan" /\ uiAt > Len(availibleTxes)
  /\ Go("sum") /\ UNCHANGED << moneyVars, formVars >> /\ NetAndMiner

SnapshotValue ==
  SumFunction([k \in DOMAIN availableForAddress |-> Value(availableForAddress[k])])

\* Mutant: the loop starts with the second entry.
SetCurrentSumButFirst ==
  /\ uiPc = "sum" /\ ~Writing
  /\ sum' = sum + SumFunction([k \in DOMAIN availableForAddress \ {1} |->
                                 Value(availableForAddress[k])])
  /\ finds' = IF SnapshotValue > 0 THEN finds + 1 ELSE finds
  /\ Go("menu") /\ UNCHANGED << availableForAddress, formVars >> /\ NetAndMiner

\* setCurrentSum, a second section: adds to a sum nothing resets.
SetCurrentSum ==
  /\ uiPc = "sum" /\ ~Writing
  /\ sum' = sum + SnapshotValue
  /\ finds' = IF SnapshotValue > 0 THEN finds + 1 ELSE finds
  /\ Go("menu") /\ UNCHANGED << availableForAddress, formVars >> /\ NetAndMiner

\* Mutant: the transaction under construction is not cleared.
CreateTxeUncleared ==
  /\ uiPc = "menu" /\ ~Writing /\ sum # 0 /\ Len(shared) < MaxShared
  /\ typed' = Nothing
  /\ Go("inputs") /\ UNCHANGED << moneyVars, builderVars, shared >> /\ NetAndMiner

\* Mutant: clear leaves the public key.
CreateTxeWithKey ==
  /\ uiPc = "menu" /\ ~Writing /\ sum # 0 /\ Len(shared) < MaxShared
  /\ Builder!Do(Builder!Command("clear", [Builder!Default EXCEPT !.pubKey = Key]))
  /\ typed' = Nothing
  /\ Go("inputs") /\ UNCHANGED << moneyVars, shared >> /\ NetAndMiner

\* '2': createTxe returns without any money; else it clears the transaction
\* and lists the snapshot under the shared lock.
CreateTxe ==
  /\ uiPc = "menu" /\ ~Writing /\ sum # 0 /\ Len(shared) < MaxShared
  /\ Builder!Do(Builder!Command("clear", Builder!Default))
  /\ typed' = Nothing
  /\ Go("inputs") /\ UNCHANGED << moneyVars, shared >> /\ NetAndMiner

Room == Len(DoneCommands) < MaxCommands

\* One round of readInputs.  blockChain is indexed with what was typed, under
\* no lock: outside the chain, or while a push moves it, anything may be read.
ReadInput ==
  /\ uiPc = "inputs" /\ Len(typed.inputs) < MaxTyped /\ Room
  /\ \E out \in Outputs, next \in {"inputs", "tails"} :
       LET sound == InChain(out, chain) /\ ~Writing
       IN \/ /\ \E h \in IF sound THEN {InfoHash(out)} ELSE {InfoHash(out), Garbage} :
                  LET input == [output |-> out, tailNum |-> 0, outputHash |-> h]
                  IN /\ Builder!Do(Builder!Command("addInput", input))
                     /\ typed' = [typed EXCEPT !.inputs = Append(@, input),
                                               !.stray = @ \/ ~sound]
             /\ Go(next)
          \/ ~sound /\ Dies /\ UNCHANGED << builderVars, typed >>
  /\ UNCHANGED << moneyVars, shared >> /\ NetAndMiner

\* One round of readTails.  The loop that reads the address ends at a newline,
\* and >> skips newlines: it has ended before it starts, or it never does.
ReadTail ==
  /\ uiPc = "tails" /\ Len(typed.tails) < MaxTyped /\ Room
  /\ \E input \in Loose :
       \/ /\ input = Newline
          /\ \E money \in Amounts, next \in {"tails", "share"} :
               LET tail == [intValue |-> money, address |-> << >>]
               IN /\ Builder!Do(Builder!Command("addTail", tail))
                  /\ typed' = [typed EXCEPT !.tails = Append(@, tail)]
                  /\ Go(next)
       \/ input # Newline /\ Go("spin") /\ UNCHANGED << builderVars, typed >>
  /\ UNCHANGED << moneyVars, shared >> /\ NetAndMiner

\* A number that is not one fails the stream: no answer is read any more, the
\* loops go on for ever, as that of the address does, until memory runs out.
Spin ==
  /\ uiPc \in {"inputs", "tails"}
  /\ Go("spin") /\ UNCHANGED << moneyVars, formVars >> /\ NetAndMiner

OutOfMemory ==
  /\ uiPc = "spin"
  /\ Dies /\ UNCHANGED << moneyVars, formVars >> /\ NetAndMiner

\* createTxe ends: sign, get, share.
Share ==
  /\ uiPc = "share"
  /\ Builder!Do(Builder!Command("sign", Key))
  /\ shared' = Append(shared, [tx |-> txe', typed |-> typed])
  /\ Go("menu") /\ UNCHANGED << moneyVars, typed >> /\ NetAndMiner

-----------------------------------------------------------------------------
Ui ==
  \/ EnterWallet \/ NewWallet \/ MenuOther \/ ChangeMiner
  \/ Refresh \/ ScanEntry \/ CopyEntry \/ Scanned \/ SetCurrentSum
  \/ CreateTxe \/ ReadInput \/ ReadTail \/ Spin \/ OutOfMemory \/ Share

Next ==
  /\ alive
  /\ NetList \/ NetLock \/ NetPush \/ MinerMarks \/ Ui

Spec == Init /\ [][Next]_vars

-----------------------------------------------------------------------------
(***************************************************************************)
(* Properties.                                                             *)
(***************************************************************************)
\* The type of every variable; an entry is only in the snapshot if the chain
\* has its transaction, and only while a block is being added does the list
\* name one more.
TypeOK ==
  /\ IsSeq(chain) /\ Len(chain) <= MaxBlocks
  /\ \A k \in DOMAIN chain : chain[k].currentNumber = k - 1
  /\ availibleTxes \in Seq(AddedOutput)
  /\ netPc \in {"idle", "listed", "push"}
  /\ {mining, alive} \subseteq BOOLEAN
  /\ uiPc \in {"welcome", "menu", "scan", "copy", "sum", "inputs", "tails", "spin", "share"}
  /\ uiAt \in Nat /\ sum \in Nat /\ finds \in Nat
  /\ availableForAddress \in Seq(AddedOutput)
  /\ \A e \in Range(availableForAddress) : InChain(e.output, chain)
  /\ Builder!TypeOK

Earned ==
  SumFunction([k \in DOMAIN chain |->
    IF TailAt([blockNumber |-> k - 1, txeNumber |-> 0], 0, chain).address = address
      THEN Reward ELSE 0])

\* Until a second refresh finds coins, the sum shown is at most what the chain
\* ever paid this address, however blocks and marks fall between the snapshot
\* and the sum (setAvailaibleForAddress, setCurrentSum).  From the second one
\* on nothing holds: the same coins are counted again (wallet.cpp:114).
SumWithinEarned == finds <= 1 => sum <= Earned

\* createTxe refuses nobody whose last refresh found an unused output
\* (wallet.cpp:256).
RefusesOnlyPenniless ==
  uiPc = "menu" /\ sum = 0 => \A e \in Range(availableForAddress) : AllUsed(e)

\* What is shared is what was typed since the transaction was begun, in that
\* order and nothing else, whatever an earlier one left in the static
\* Command::txe and in the commands done (createTxe).
SharedIsWhatWasTyped ==
  \A s \in Range(shared) : s.tx.inputs = s.typed.inputs /\ s.tx.tails = s.typed.tails

\* An input that was typed from within the chain still names, at whatever time
\* it arrives, the transaction whose data its hash was made of: blocks are
\* added behind the ones there (wallet.cpp:222).
SharedNamesChain ==
  \A s \in Range(shared) : ~s.typed.stray =>
    \A i \in DOMAIN s.tx.inputs :
      LET input == s.tx.inputs[i]
      IN InChain(input.output, chain) /\ input.outputHash = Sha(TxAt(input.output))

\* No transaction this wallet shares is of any use: its signature does not
\* verify, none of the outputs it names is its key's - clear swapped the key
\* away - and its tails pay to nobody (wallet.cpp:238, 261, 292).
SharedIsVoid ==
  \A s \in Range(shared) :
    /\ ~Builder!Verifies(s.tx)
    /\ \A i \in DOMAIN s.tx.inputs :
         LET input == s.tx.inputs[i]
         IN InChain(input.output, chain)
              => TailAt(input.output, input.tailNum, chain).address # Sha(s.tx.pubKey)
    /\ \A i \in DOMAIN s.tx.tails : s.tx.tails[i].address \notin Payees
=============================================================================
