# Verification of BaumankaCoin

This directory holds TLA+ models of the C++ node in
`src/CPP/BaumankaCoin-master`, the TLC runs that check them on small instances
and the TLAPS proofs that hold for every instance. Paths below are relative to
that directory; `blockchain.cpp` and its neighbours are in `blockchain/`.

## The system

| Component | Code | State | Operations |
|---|---|---|---|
| Blockchain core | `blockchain.cpp/.h` | `blockChain`, `Transaction::availibleTxes` (the outputs that may be spent), `Block::nonValidated` (the pool), `BlockchainMutex`, `TransactionsMutex` | `addBlock`, `validateBlock`, `validateTxn`, `customize`, `addTx`, readers |
| Block, Transaction, Input, Tail, Output | `block.cpp`, `transaction.cpp`, ... | plain data | building, comparing, hashing, (de)serialising |
| Miner | `miner.cpp` | `state`, its thread | `start`, `stop`, `m_mining` |
| Wallet | `wallet.cpp` | keys, `availableForAddress`, `sum`, the command stack | console menu: refresh, create a transaction, start or stop the miner |
| Server | `network/server.cpp` | `m_peers`, the acceptor, one `io_service` thread | handshake, block and transaction reception, `share` |
| Connection, messages | `network/connection.*`, `network/messages/*` | a socket | framing, codecs |
| Transaction builder | `blockchain/tx_cmd/*` | `Command::txe`, `DoneCommands` | add/remove input and tail, sign, clear, undo |
| Delphi port | `src/*.pas` | plain data | an unfinished translation of the data classes, without server, miner or wallet |
| ECDSA, DCPcrypt | `src/Source/*` | - | vendored |

Three threads share the core: the `io_service` thread (every network handler
runs there, one at a time, and blocks in `receive`), the mining thread, and the
main thread in the console menu. `server::share` is called from the miner and
from the main thread and posts its work to the `io_service` thread. Nothing is
persisted: a restarted node has an empty chain.

What is hard here: the two mutexes do not cover what they seem to
(`availibleTxes` is written under either of them); validation, the update of
the list of outputs and the push of the block are three critical sections;
early returns leave a mutex locked; a validation that fails in the middle
leaves marks behind; the loops that erase skip elements; an exception in any
handler that does not catch it ends the process; the handshake blocks the only
network thread while it waits for the peer; `receive` takes what has arrived of
a message for all of it; readers of bytes do not look at how many there are; the
wallet reads the list, the chain and the console in sections of their own, and
one static transaction lives through all of its commands.

What makes each component correct:

* core: the chain is always a chain of acceptable blocks and only grows; what
  the list offers to be spent is what the chain pays less what was taken; a
  refused transaction or block leaves nothing behind; locks are given back.
* miner: it is started and joined exactly once per start; `stop` returns; it
  offers what the pool holds.
* wallet: the sum is what the list offers to its address; the transaction built
  is the one typed in and verifies.
* server: a handshake ends, both sides know each other and the blocks of the
  one with more are on both; asserts on the peer's messages hold between two
  nodes running this code.
* connection, messages: what is received is what was sent, in any
  segmentation; reading a written message gives the message back.
* builder: `Undo` after a command gives the previous transaction back.

Not all of this is what the code does. Where it is not, the property states
exactly what is left of it (when `Undo` does give the transaction back, up to
when the sum is right, what a cut message may become), so that a change of the
code for better or worse shows.

## Modules

| Module | Models |
|---|---|
| `Seqs` | vectors: what a finite sequence is, and one with some elements left out |
| `Coin` | the data and the pure functions: what a block is hashed over, `operator==`, `validateFirstTxn`, the outcome of the merkle loop, the early tests of `validateBlock`, `customize`'s block, the new entries of the list |
| `Node` | one running node: core, miner, the menu's refresh and start/stop, the network handlers as seen from the node |
| `ChainLog` | the abstract promise of `Node`: an append-only log of acceptable blocks |
| `Merkle` | the pairwise hashing loop, assignment by assignment |
| `Handshake` | several nodes and the connections between them: connect, accept, the handshake, synchronization, sharing a block, crashes and restarts |
| `TxBuilder` | `Receiver` and its commands on `Command::txe` |
| `UndoStack` | the abstract promise of `TxBuilder`: a stack whose `Undo` gives back what was before |
| `Wallet` | the console: menus, snapshot and sum, `createTxe`, with the builder inside and the other threads as it sees them |
| `Codec` | transactions, blocks and announcements as bytes, both ways |
| `Wire` | one connection that carries an announcement and what it announces, byte by byte: `share`, `connection::send` and `receive`, `m_handle_inv` |
| `Delivery` | the abstract promise of `Wire`: items arrive in order, once and unchanged, until something spoils it |
| `MCNode`, `MCMerkle`, `MCHandshake`, `MCTxBuilder`, `MCWallet`, `MCWire` | instances for TLC |
| `SeqLemmas` | lemmas about sequences the proofs share |
| `NodeProofs`, `MerkleProofs`, `TxBuilderProofs`, `WalletProofs`, `HandshakeProofs` | the theorems about `Node`, `Merkle`, `TxBuilder`, `Wallet`, `Handshake` |
| `WireProofs` | the theorems about `Wire` and `Codec` |
| `PeersProofs` | the theorems about `Handshake` as long as no process is killed |

`Coin` is below everything that looks into a block. `Node` and `Merkle` extend
it; `Node` uses the outcome of the merkle loop in one step and `Merkle` shows
that the loop has that outcome. `Node` and `Handshake` cut the system at
different places: `Node` has one node and lets peers send anything, `Handshake`
has many nodes and abstracts the core to what a handler can tell: the length
of the chain, and whether a hold of `BlockchainMutex` was leaked. `Wallet` has
the main thread whole, and of the other two only what it can notice of them:
a block is listed, the lock is taken again, the block is pushed, an output is
marked. It holds an `INSTANCE` of `TxBuilder`, whose actions are parts of its
own. `Wire` is below `Handshake`: one message stream, with the bytes `Handshake`
takes as messages, and `Delivery` is what `Handshake` relies on.

Operators whose comment starts with "Mutant" belong to no specification. Each
is a plausible slip in the definition that follows it, kept to show that the
property it is paired with in `PROJECT.json` would notice.

### Node and the code

The process is three threads, each a program counter with the locals that
outlive a step.

| Thread | Variables | Program points |
|---|---|---|
| io_service | `netPc`, `netBlock`, `netTx`, `netPos`, `netLeft` | `idle` between handlers; `addtx`; `custom` in `customize`'s loop; `vlock`, `check`, `spin` in `validateBlock`; `ilock`, `index`, `clear` in `setAvailibleTxes` and `clearAvailibleTxes`; `plock`, `pclear` in `clearNonValidated`; `addlock`, `push` in `addBlock` |
| miner | `minerPc`, `minerTx`, `minerIn`, `minerAt`, `minerSum`, `minerCnt` | `off` not started; `top` of `m_mining`'s loop; `pick` the candidate loop; `inputs` in `validateInputs`; `mark` there, with the index `minerAt` of the entry found and the tail not marked yet; `head`, `search`; `done` before the join |
| main | `uiPc` | `menu`; `scan` in `setAvailaibleForAddress`; `join` in `miner::stop` |

`chain`, `availibleTxes` and `pool` are `blockChain`,
`Transaction::availibleTxes` and `Block::nonValidated`; `bm` and `tm` the two
`shared_timed_mutex`es, with their readers counted. A step is a stretch no other
thread can see the middle of because a mutex is held; where the code shares
data without a common mutex (the miner's marks against the erase loop) a step
is one round of the erase loop, or one half of the miner's round: finding an
entry's index and marking the entry at that index are two steps. What another
thread does in between decides whether the mark hits its entry
(`MinerTakeInput`) or another one, none, or a vector that is being copied
(`MinerStrayMark`, recorded in the history variable `raced`).

What the abstraction rests on:

* SHA-256 is free: `Sha(x)` is a value that determines `x`.
* A signature is what Botan answers on it, `Verifier`. The signer hashes the
  transaction with its old signature in it, the verifier with the new one
  (`transaction.cpp:108-141`), so no signature the wallet makes verifies; the
  model still lets transactions verify, to reach what follows.
* A search round that hits nothing changes nothing and stutters. The nonce is
  never changed, so a round depends on the tip alone.
* `state` is a plain `bool` that is read in a loop, and is read as written.
* `MinerRace`, `UiScanFaults` and `MinerEraseFaults` are undefined behaviour
  (racing vectors, an index past the end, `erase` with a foreign iterator): the
  process may die there. The other outcomes are the ordinary actions, and for
  the race `MinerStrayMark` and a `MinerFailTxn` that misses an entry that moved.
* `Input::outputHash` is written, sent and never compared by validation; `Node`
  leaves it out. `TxBuilder`, `Wallet` and `Codec` have it.
* `PoolThreshold` and `CustomizeCount` are 4 and 7 in the code.
* `validateBlockChain` has no caller and is left out.

### Handshake and the code

Each node has one io_service thread, `thread[n]`: idle, or in a handler for one
end of one connection, at the `receive` named by `pc` (by the message it
expects, `first` and `blocks` aside). An action is what the handler does from
one `receive` to the next. `conns` holds the connections: who connected
(`ini`) and who accepted (`acc`), whether the connect was answered, and for
each end whether its handler has started or is done, and what was sent to it
and not read. `kind` says which handler the connect was given, `m_handshake`
or the lambda of `share`. An end is closed when its handler returns, since the
handler has the last `shared_ptr` to the connection. `at`, `end` and `q` of a
connection are functions of the role, so that what holds of both ends is said
once. A connection is named by a number and its place in the list of hosts or
peers it was made for; the number is one no other connection has (`FreeId`).

What the abstraction rests on:

* A chain is its length. Every block that ever enters a chain between nodes
  running this code is a customized one, and those are a function of the chain
  below them, the same at every node. The block a miner shares has a first
  transaction to an empty address (`m_local_address`), which comes back from
  parsing with 32 bytes of address and so with another root: receivers refuse
  it, with the hold leaked. The miner does not add it to its own chain either.
* For the same reason no sum is ever available to a wallet in such a network,
  and `share(Transaction)` is not reached. `Wallet`, like `Node`, lets a peer
  send any acceptable block, one that pays this wallet too.
* A message arrives whole. What a segment boundary does to `receive` is in
  `Wire`.
* What a formatted read does to the number in an announcement is modelled
  (`Amount`): white-space bytes are skipped and the number is read as 0. This is
  exact below 256, which no run exceeds; above, a white-space byte at any
  position is skipped (0x0109 is read as 1), and the number read is still no
  larger than the one written.
* asserts are active: no build file of the repository defines `NDEBUG`. The two
  asserts on ports hold by how a `version` is made.
* A killed process may have sent any prefix of what its current handler has
  put in the socket and the peer has not read (`CutOff`). A restarted one has
  an empty chain.

### TxBuilder and the code

`txe` is `Command::txe`, `DoneCommands` the receiver's vector, and each command a
record of the operation and what it was made with; `clear` carries the
transaction it swapped out, which is what `Cleaner::removed` is. `Do` is any of
the receiver's six methods: `Execute`, then `push_back`. `Undo` pops and runs
`unExecute`; without a command it only prints and stutters. `past` is a history
variable: the transaction before each command, and whether an `Undo` of it is
sure. `Undoable` is the exact condition: no equal input further up, not the
first tail, what is removed was there and last, no signature before this one.
`UndoStack` promises nothing below an `Undo` that was not sure. `Wallet` calls
`addInput`, `addTail`, `sign` and `clear`; the rest of the class has no caller
in the repository and is modelled as it stands.

A signature is a value that determines the key and the data it was made for.

### Wallet and the code

`uiPc` is the main thread: `welcome` and `menu` wait for a character; `scan` and
`copy` are inside the shared section of `setAvailaibleForAddress`, entry by
entry, since the miner marks outputs under the same shared lock; `sum` is before
`setCurrentSum`, a section of its own; `inputs`, `tails` and `share` are the
parts of `createTxe`; `spin` is a loop that no input ends. `readInputs` indexes
`blockChain` under no lock: out of range, or while a block is pushed, the
outcome is any hash or a dead process. `finds` counts refreshes that found a
coin, `typed` what was typed for the transaction in hand, `shared` what was sent;
all three are history.

What the abstraction rests on:

* Accepted blocks have one transaction with one tail: `validateFirstTxn` wants
  one tail of one transaction, and a block of two or more is never finished
  (`merkle_ends`). The loops over tails have one round.
* The erase loop of `clearAvailibleTxes` runs as part of `NetList`; `Node` has its
  rounds, and the races of the miner's mark with them. Here a mark hits. It waits
  for the exclusive sections, also for the push, where the code's miner, under
  the other mutex, would not; the push touches no mark, so the order of the two
  makes no difference.
* The byte `readTails` tests first is uninitialised: any value of `Loose`. If it
  happens to be a newline the address is empty. If not, the loop reads until
  the stream ends and then goes on for ever, because `>>` skips newlines.
* A transaction with the key `NoKey` is the one `clear` swaps in: 279 zeros.
* Entering a wallet ends the process: the constructor of the temporary throws.
* The depth of the mutual recursion of the two menus is not modelled.

### Wire and the code

A byte is a digit, and `Base`, `IntSize`, `HashSize`, `KeySize`,
`SignatureSize`, `CommandSize` are constants: 256, 4, 32, 279, 64, 12 in the
code. `wire` holds what was sent and not received. `Send` is one `m_sock.send`;
`ReceiveCommand`, `ReceiveSize` and `ReceivePayload` are one `m_sock.receive`
each, which returns any number of the bytes there are, at least one. The rest of
the command and of the size is uninitialised and may be anything; the rest of
the payload is zeros. `HandleAccept` compares the command and parses the inv,
`NextRow` and `HandleItem` are the loops of `m_handle_inv`. `cuts` is a history
variable: which receives returned less than they were asked for.

What the abstraction rests on:

* TCP keeps the order of bytes, so bytes that have not arrived and bytes that
  are waiting are one sequence. `Break` drops all of it: to lose only its end is
  to receive the first part before.
* A command is what the comparisons of the handlers make of it.
* Reading past the end of a vector is undefined and ends the behaviour
  (`undefined`); so does an `assert` (`aborted`). That is what becomes of every
  transaction with an address shorter than 32 bytes, which the wallet makes and
  the miner's own block has: `Handshake` takes the outcome in which the process
  reads on into the heap and survives.
* A vector larger than `Memory` throws.
* `addTx` and `addBlock` are what `Node` says they are; here `box` is what they
  were called with. `addTx` returns. `addBlock` may hang on any block (`hung`): a
  hold that a refused block leaked, on this connection or another, keeps it at
  the exclusive lock for ever (`blockchain.cpp:83-94`, `120`), and a block of 2, 4
  or 8 transactions in the loop of the root (`281-295`). `Node` says when.
* `Send` puts the whole buffer on the way. The code's `m_sock.send` may send less
  and its result is ignored (`connection.hpp:52-55`); a blocking socket does so
  only when it is interrupted. The rest is then never sent, and the reader takes
  the bytes of the next send for it: no property speaks of such a stream.
* The same bytes carry the answer to `getblocks`, whose receiver is the same loop
  in `m_handshake`; the letters with several blocks stand for it.

## Runs

| Run | Asks | Shows |
|---|---|---|
| `node` | What may the three threads do to each other, with every kind of block and transaction validation tells apart? | `TypeOK`; `LocksHeld`: who holds which mutex, with one reader more for each early return of `validateBlock`; `OneMiner`: `start` never overwrites a running thread; `ChainSound` and `ChainLogSpec`: no block enters the chain that is not acceptable on top of it, although it was validated in an earlier critical section; `LeakFreezesChain`: one refused block and the node never takes another; `SpendsStayInPool`: no transaction that spends ever leaves the pool |
| `node_spend` | Does the list of outputs say what the chain pays? | `OutputsMatchChain`: unless a mark missed its entry, what can be found in the list is what the chain pays less what was marked; `DanglingOnlyWhilePending`: an entry without its block exists only in the middle of `addBlock` |
| `node_live` | Does a thread that waits get on? | `StopReturns`, `AddBlockReturns` |
| `node_took` | Is `validateInputs`' comment true? | no: see Findings |
| `merkle` | Is the outcome `Node` assumes the loop's? | `EndsAsNodeAssumes`, `ReturnsUnlessItSpins` |
| `merkle_ends` | Is a root computed for every admitted size? | no: see Findings |
| `hs_pair` | What can two nodes that connect to each other, die, restart and mine do to each other? | `AssertsHold`: the message a `receive` gets is the one the `assert` after it wants; `NeverBothWait`: two handlers that talk to each other never both wait; `SyncNeverRefused`: no block of a synchronization is refused, so it never leaks a hold; `DiesOnlyAfterAKill`: a connect that `share` does not check fails only where somebody was killed before |
| `hs_star` | Does a network with one common host form? | `NeverStuck`: with two nodes besides the host, and nobody mining, no ring of nodes that wait for each other; `PeersMutual`: who is listed lists back, or is about to |
| `hs_live` | With mutual hosts and a node killed in the middle of sending, does a handler return? | `HandshakesEnd`, unless its node is `Stuck` in a cycle of waits |
| `builder` | When does `Undo` undo, and what is a signature of the builder worth? | `UndoStackSpec`: `Undoable` is enough, through any nesting of commands, clears and Undos; `MissesElsewhere`: it is also needed; `NeverVerifies`: no transaction the builder signs passes `validateSignature` |
| `wallet` | What does the console make of a chain that grows under it, and of what is typed? | `SumWithinEarned`: the sum is no more than what was earned, until a second refresh counts again; `RefusesOnlyPenniless`: a coin found is a coin counted; `SharedIsWhatWasTyped`, `SharedNamesChain`: a shared transaction is the one typed, and its inputs keep naming what they named; `SharedIsVoid`: and it is worth nothing |
| `wire` | What arrives of what is shared? | `DeliverySpec`: all of it, in order, once, with numbers cut to 32 bits, unless a receive came short or the sizes are not the reader's; `ShortPayloadOnlyZeroes`: a short payload only puts zeros at the end, unless what it leaves behind reads as a message; `FailsOnlyForCause`: no assert fails, nothing is read past an end and no receive throws without a cause; `Arrives`: however far the sender comes before it stops, every item it has sent whole is handed over, unless the connection is lost, a receive comes short or `addBlock` hangs |

### Bounds, and why they are enough

* `node`: five blocks (two that link, a wrong reward, a wrong root, two
  transactions), seven transactions (one for each exit of `validateTxn`, and
  one that equals a coinbase by `operator==`), `PoolThreshold` 2,
  `CustomizeCount` 2, a chain of 2, a pool of 2, 2 leaked holds, 1 posted
  share. Two of everything is what the properties relate: a block and the one
  below it, a transaction and its neighbour in the pool, an early return and
  a later block.
* `node_spend`: three linked blocks, so the erase loop has neighbours to skip,
  and transactions of one and of two inputs.
* `node_live`: one block of each fate (added, refused, spinning) and one
  transaction: who waits for whom does not depend on more.
* `merkle`: every size from 0 to 9, that is all the admitted ones and a
  neighbour on each side, of two kinds of transactions.
* `hs_pair`: one kill, three starts, one mined block, one block per
  customization. Three starts and a mined block are the least in which a leaked
  hold meets both a later synchronization and a later request. Names of nodes
  are symmetric.
* `hs_star` is the largest network in which `NeverStuck` holds. A third node
  besides the host breaks it (the host tells each of the others, and three of
  them connect in a ring), and so does one mined block (the leaked hold makes
  `addBlock` hang). `NeverBothWait` is what remains in every network, and is
  proved.
* `hs_star` and `hs_live` have the code's 7 blocks; `hs_live` has the restart
  that leaves a receiver with some of them, so that numbers of blocks which
  are white space are announced.

* `builder`: two inputs, two tails, one key; two commands kept, any number of
  Undos in between, items added while there are fewer than three. Two equal and
  two different items, with a third command undone, are what the conditions of
  `Undoable` tell apart.
* `wallet`: two blocks, each to this wallet or another, so that one is listed or
  pushed at any point of a refresh; sums below 200, so that up to three
  refreshes find coins; two transactions of up to two inputs and two tails, so
  that the second meets what the first left behind. Seven commands are two
  transactions less one item.
* `wire`: base 6, numbers of two digits, hashes of three, so that an amount of 100
  does not fit and a size cut after its first byte goes wrong. Five letters: a
  framed transaction, one with an empty address, a block, two blocks, three
  blocks, three being white space. The names of the commands are of two bytes that
  occur in no payload one behind the other, so all five letters are plain. One
  receive, anywhere, comes short: what follows it is arbitrary already. (The
  invariants also hold with two, in more states than the liveness check can take.)

`MaxBlocks`, `MaxPool`, `MaxLeaks`, `MaxOutbox`, `MaxStarts`, `MaxCrashes` and
`MaxMined` bound what the environment does, `MaxCommands`, `MaxItems`, `MaxSum`,
`MaxTyped` and `MaxShared` what the user does, `MaxCuts` what the network does.
None of them cuts a handler short.

The three `hs_` runs do not check for deadlock: once processes have been started
as often as the bound allows, nothing makes one start, die or mine, and a network
at rest is a state the system may stay in. In `Node` and `Merkle` a dead process
and a finished loop stutter explicitly, and deadlock is checked. `wallet` and
`wire` end where the process or the connection does, and `wallet` also where a
user who typed up to the bound types no more.

### Fairness

* `Node`: the three threads are scheduled (weak fairness on the steps that can
  always be taken). Nothing makes a peer send, the user type, or a hash be lucky.
  Where the io_service thread waits for a mutex exclusively it has strong
  fairness: the miner and the main thread take and give the shared hold over
  and over, so the lock is free again and again and not for good. This asks of the
  mutex that the last reader to leave lets a waiting writer in. The standard
  does not promise it and the code relies on it: nothing else bounds the wait
  of `addBlock` while a search takes the lock each round.
* `Merkle`: the loop runs.
* `Handshake`: each io_service thread runs (weak fairness on handlers that go on
  and on handlers that start), and a connect is answered in the end. A thread
  that waits in `receive` is not enabled.
* `Wire`: the receiver's handler runs, and the network delivers what it has not
  lost. Nothing is asked of the sender: it may stop between any two sends with
  the connection open, and then the receiver waits for ever, since no read has a
  timeout. `Arrives` is `[]<>` for that reason: after each send the receiver
  catches up again. `TxBuilder` and `Wallet` state safety only: nothing makes a
  user type.

## Findings

* `node_took`: the header says `validateInputs` "returns amount of money taken
  from inputs" (`blockchain.h:63`). When a later input is missing it returns 0
  and the earlier ones stay marked, because `toRestore` is passed by value
  (`blockchain.cpp:171`) and `restore` gets an empty vector. Coins are lost.
* `merkle_ends`: `hashes = tempHashes` stands inside the `for` loop
  (`blockchain.cpp:293`, `block.cpp:89`), so a block of 2, 4 or 8 transactions,
  which `block.cpp:125` and the size tests allow, is hashed for ever.

What the models show besides, as behaviour and not against any statement of the
repository: each early return of `validateBlock` leaves `BlockchainMutex`
shared; nodes with mutual hosts block each other if their handshakes cross;
a peer with blocks is announced blocks it is never sent; a share to a peer that
is gone ends the process; `addTransaction` takes back what it added.

## Proofs

`NodeProofs` proves nine theorems for all sets of blocks and transactions, every
`Verifier` and `Lucky`, and all positive bounds: chains of any length, pools of
any size, any number of leaked holds.

* Assumptions, all in `Node`: `BlocksAssumption` and `TxsAssumption` (what peers
  send has the shape the parsers give it) and `BoundsAssumption` (thresholds
  and bounds are positive).
* `TypeCorrect`, `LocksCorrect`, `MinerThreadCorrect`. `TypeOK`, `LocksHeld` and
  `OneMiner` are not inductive one by one. That `minerTx` stays inside the pool
  needs that nobody shortens the pool while the miner holds `TransactionsMutex`,
  which is `LocksHeld`. `LocksHeld` says that a thread at the top of its loop
  holds nothing when `UiStartMiner` puts it there, which needs `OneMiner`. The
  inductive invariant is their conjunction, `Control`; each conjunct has a
  lemma that goes through the actions (`DataTypeStep`, `ThreadTypeStep`,
  `HistoryTypeStep`, `LocksStep`, `MinerThreadStep`).
* `LeakFreezes`: only the program points `index`, `clear` and `push` write the
  chain or change the length of the list (`OnlyNetWrites`); there the writer
  holds the mutex, so there are no readers, and a leaked hold is a reader.
* `ImplementsChainLog`: a second invariant, `BlockInHand`, says that the block in
  `addBlock` is acceptable on top of the chain from the moment `validateBlock`
  let it through. It is kept because the io_service thread is the only one that
  writes the chain. A `NetPush` is then an `Extend` of `ChainLog`, and every
  other step stutters.
* `ChainIsSound` adds that the prefixes of a chain do not change when it grows.
* `DanglingBounded`: `EntriesInReach` says that each entry of the list names a
  transaction of the chain, or, while `addBlock` has listed its block and not
  pushed it, the one transaction of the next block. It needs `BlockInHand`: the
  number an entry is listed under is where the block will stand.
* `OutputsCorrect`: `ListMatches` is the property made local (one entry for each
  output; a tail is offered just when it was never taken) and `TakenInChain`
  that what was taken was looked up in the chain. One lemma for each action
  that writes the list: a listed block is new to the list (`EntriesInReach`) and
  nothing was taken from it yet (`TakenInChain`, `ChainSound`); the erase loop,
  whichever entries it skips, removes one that offers nothing; a mark removes
  one offer, since the entry of an output is the only one. `TakenInChain` holds
  always (`TakenStep`); `ListMatches` as long as `raced` is false, since a mark
  that misses its entry sets it and no step resets it (`RacedStep`). So the data
  race on `availibleTxes` is the one way the list goes wrong: a stray mark takes
  some other coin out of the list, or leaves one in it that was spent.
* `SpendsStay`: an accepted block holds one transaction, without inputs
  (`BlockInHand`), and `clearNonValidated` erases what equals it (`TxEqual`
  compares the inputs). `PoolStep` says that a step only appends to the pool or
  removes an element without inputs; the copies of another transaction are
  counted through the injections `RemovedElsewhere` and `AppendedElsewhere`.

`TxBuilderProofs` proves four theorems for all inputs, tails and keys and all
bounds, from `BuilderBounds` alone:

* `TypeCorrect` needs that what `clear` kept is a transaction; `TypeOK` is
  inductive together with `Sound`, below.
* `ImplementsUndoStack`: the refinement needs to know what a sure entry is worth.
  `Sound` says it: for each entry marked sure, undoing its command in the state
  its execution led to gives `was` back, and that state is what the next entry,
  or `txe` for the last one, holds. `Undone` is the lemma on the commands:
  `Undoable(c, t)` gives `Unexecute(Kept(c, t), Execute(c, t)) = t`. It rests on
  two facts about `RemoveFirst` and `Append`: removing the first occurrence of
  an item that occurs at the end only is `Front`, and appending a removed last
  item gives the sequence back. They are proved from `LeastIndex` of `SeqLemmas`.
* `MissesExactly`: the other direction. `Missed` shows for each command that
  `~Undoable(c, t)` gives `Unexecute(c, Execute(c, t)) # t`. If taking out the
  first `x` and appending `x` cancel, then from the first `x` on each item equals
  the next one, and so (`EqualRun`, by the least index that differs) `x` occurs
  at the end only; for tails the first one is split off (`SameBehindHead`).
* `VerifiesNever`: a signature the builder makes is over data that contain the one
  before it, down to the zeros of a transaction never signed (`Made`, `History`),
  also for the transactions `clear` keeps and an Undo gives back (`AllMade`). What
  `validateSignature` accepts is a signature over data with itself in them, which
  would occur in its own history, at a least place, and then once more before it
  (`NotOverItself`).

`MerkleProofs` proves `MerkleOutcome`: `EndsAsNodeAssumes` for every block size
and all transactions, from `MaxTxsAssumption`. The invariant has a case per
outcome: refused, one transaction with its one hash, or several, of which the
first round of the for loop leaves an empty `hashes` (`Several`): its size is
never one.

`WalletProofs` proves six theorems for every chain length, set of payees and
amounts and every bound. Three are about what is shared, so their invariant
follows one transaction from `clear` to `share`:

* `ChainOK`: the chain is a sequence and what `InChain` holds of stays there.
* `FormOK`: what is typed names outputs inside `Outputs`, has no address in its
  tails, and each input that is not stray carries the hash of the transaction it
  names; in the middle of `createTxe` the transaction in hand has these inputs and
  tails and no key.
* `SharedOK`: the same of each transaction shared, with a signature made with the
  wallet's key. Growth of the chain keeps it (`TxAt` of an output inside the
  chain does not change) and is the one step of another thread that could break
  it.
* The assumption that matters is `PayeesAssumption`: nobody has a key of zeros,
  and an address is not empty.

Three are about what is shown, `SumsWithinEarned`, `RefusesPennilessOnly` and
`TypeCorrect`. Their invariant is `Money`:

* `ListOK`: the list names each output once, and none beyond the block being
  added (`NumbersOK`). `SnapshotOK`: so does what the scan copies, all of it
  payments to the address inside the chain.
* `ScanOK` is what makes the snapshot distinct: what is copied stands before
  `uiAt` in the list, so the entry copied next is another one. The scan holds
  the lock, and the miner, which does not respect it, marks entries and moves
  none.
* `SumOK`: the sum is zero until a refresh finds coins, and zero in the menu only
  if every entry copied is used. A snapshot is worth at most what the chain paid
  (`SnapshotIsWorth`): each unused entry copied is a payment of a block of its
  own, an injection into the chain's payments (`Embeds`, `SumAtMost`), which only
  become more (`PaymentsStay`).
* `Without`, by which the wallet drops its used entries, and the library's sum
  are recursive functions. What they return for every argument is proved in
  `SeqLemmas` by an induction over the set of naturals that satisfy a formula
  (`InductionOnNat`), after the existence of the recursive function
  (`RecursionOnNat`): `WithoutWithin` says that what is kept is a subsequence,
  `SumOfEqual` that the sum of a function that is zero or `r` counts.

`HandshakeProofs` proves four theorems for every set of nodes, every list of
hosts (a node may have itself in it, or a host twice), every number of blocks
per customization and all bounds, from `HostsAssumption` and
`CustomizeAssumption`:

* `TypeCorrect`, `ExpectedAlways` (`AssertsHold`), `BothNeverWait`
  (`NeverBothWait`), `SyncRefusesNothing` (`SyncNeverRefused`). None of them is
  inductive: that the next message is the expected one depends on what the other
  end has sent, and that on where it was when it read what this end sent.
* `ConnOK` therefore says of one connection which pairs of program points its two
  ends can be at and, for each pair, what may be under way to each: `Talk` has
  the handshake in lock step, `IniLeft` and `AccLeft` what an end may still read
  after the other is gone, which is a prefix of what that one would have sent
  (`Cut`, from `CutOff` and from the connection that breaks). It also says that
  the numbers of the blocks under way go on from the connecting node's chain,
  because while that node synchronizes its one thread does nothing else; this is
  what `SyncRefusesNothing` needs.
* `Serves` and `Served` say that a thread and the end it serves name each other.
  So a step of one thread leaves the pcs of all other connections alone
  (`OneServed`, `FrameFits`), and a lemma about one connection in isolation
  (`OKIniVerack`, `OKAnswered`, ...) becomes one about the network: a handler
  goes on (`GoesOn`) or ends (`GoesOff`), connections are added (`Joins`), a
  process dies (`Dies`).
* `Linked` is `ConnOK`, `Serves` and `Served` with the types of what they speak
  of, `IInv` is `Linked` and the types of the counters.

`PeersProofs` adds two theorems on what holds until a process is killed:
`MutualAlways` (`PeersMutual`) and `NobodyDiesUnkilled` (`DiesOnlyAfterAKill`).
The invariant is `AllAlive`: whom a node lists is up; so is the node at the other
end of an open connection and the one a share leads to, whose end stays open
until the share has run; the connecting end of a handshake is never closed first;
the accepting one is closed before only if the connect was refused or both have
listed each other; and listing is mutual or being made so. It uses `IInv` for
which pcs and messages go together: a node that reads getaddr is asked by one
that has listed it.

Both invariants were checked with TLC as invariants of the instances of `hs_pair`
and of `hs_star` with a mined block before they were proved.

`WireProofs` proves eight theorems about one connection and the bytes on it, for
every `Base`, every size of a number, a hash, a key, a signature and a command,
every set of letters and every bound.

* Assumptions: `CodecSizes` (a number fits into a hash, white space is not zero)
  and `WireSizes` (each name ends with a zero inside its twelve bytes and none
  begins another; letters hold transactions or blocks as their classes declare
  the fields).
* `TransactionsReadBack` and `BlocksReadBack` say of `TxAt` and `BlockAt` what
  `DeliverySpec` needs: of bytes written by `TxBytes` and `BlockBytes` each field
  is read where it was written, with `Low` of its numbers, and `TxEnd` and
  `BlockEnd` are the length. They rest on `IntRead` (a number read is the sum of
  its bytes times `Power`, and that of the bytes of `v` is `Low(v)`, by induction on
  the byte), on `PartsAt` (what `FlattenSeq` made stands in the data part by
  part), on `EqualParts` (parts of one size stand at multiples of it, which is
  where `TxAt` looks for them), and on `TxsRead`, an induction on the
  transactions of a block, which are of different lengths.
* `Delivers` (`DeliverySpec`) and `FailsOnlyForCauseAlways` follow from `DeliveryInv`:
  as long as no receive came short and the letter is framed, the receiver is on
  course. `OnCourse` says which message of the letter it is at (`Announcing`,
  `RowAhead`, `Receiving` item `Len(box) + 1`, `RowBehind`, or none any more: `Lost`,
  `Hung`), that what it has of that message is what was sent (`AtMessage`), and
  that the bytes under way stand in the stream of all sends just behind the last one received and end
  with the last one sent (`Flow`). The last part is what makes it inductive: a
  receive of n bytes takes the next send whole (`FlowReceive`), because n is its
  length: a constant for the command and the size, and for the payload the size
  received before. `AnnouncementRead` and `ItemRead` turn the payloads back.
* `TransactionsWriteBack` and `BlocksWriteBack` are the converse, of any bytes: what
  the reader makes of them is framed, and the writer makes those bytes of it.
  `IntBack` divides a number read by the powers of the base and gets its bytes
  (`ByteOfSum`); `PartsTogether` turns parts that stand one behind the other into
  their concatenation. So two byte strings read as one block agree in all
  that was read, and `ItemBytes` of an item read is what was there to read.
* `ZeroesOnly` (`ShortPayloadOnlyZeroes`) follows from `ZeroesInv`: as long as only
  payloads came short and the letter is plain, what is in the box is what was sent
  but for zeros, and the receiver is in one of eight phases. It has j bytes of the
  payload of the message it is at (`CameTo`): if j is the length, the next command
  is the next name, and if it is less, `BehindPayload` says that the bytes of the
  next command are those of the rest of the payload, followed by the next name as
  far as the stream goes. Those do not begin with the name of an item
  (`PlainLetters`), so the receiver goes `Stray`, and the handler aborts.
  `AnnouncementZeroed` shows that a cut announcement still has one row, of the
  letter's type or of none. `ItemZeroed` takes the zeros through the reader: a
  length or a count that lost bytes is smaller (`ZeroTailInt`), so fewer items are
  read, and the item read is written as what was read (`ScannedBytes`, from the
  lemmas behind `TransactionsWriteBack` and `BlocksWriteBack`).
* The hypothesis of that property is needed: an item may hold bytes that read as a
  message, and a short payload leaves them to be read as the next. With twelve
  bytes to a command they would have to spell its name and a zero.
* `TypeCorrect` is separate: it holds whatever came short. `TypeInv` adds to
  `TypeOK` where the row and the handler stand to each other (`InRow`).

`DeliveryInv` and `ZeroesInv` were checked with TLC as invariants of the instance of
`wire` before they were proved, `ZeroesInv` with two receives short as well.

Model-checked only: the liveness properties (`StopReturns`, `AddBlockReturns`,
`ReturnsUnlessItSpins`, `HandshakesEnd`, `Arrives`), which are out of the prover's
reach, and the safety property `NeverStuck`, which holds of the one network of
`hs_star` and not in general: no theorem for every set of nodes can state it.

The longer proofs go by induction on lengths, which the library's induction
theorems cannot be used for; `SeqLemmas` has `InductionOnNat` and
`RecursionOnNat`, which speak of sets instead of operators.

## Not modelled

* `version`, `addr`, `net_addr` and `getblocks` messages as bytes: records of
  fixed fields read and written alike, and `Handshake` has the fields. `getdata`
  has no user.
* `server::stop` and the destructors: they run when `main` returns, which it
  does not (`commandProg` and `welcome` call each other for ever), or for a
  temporary `Wallet`, whose constructor throws before.
* The stack, which those two functions use up with each command.
* The nonce: `m_mining` never changes it, so a search that misses once misses
  until the tip moves. `Node` has this as stuttering.
* The Delphi port: data classes in translation, with no caller.
* The Delphi form has no logic; ECDSA and DCPcrypt are vendored.

## Plan

Done, in this order: `Coin`, `Node`, `ChainLog`, `NodeProofs`, `Merkle`,
`Handshake`, `UndoStack`, `TxBuilder`, `TxBuilderProofs`, `Wallet`,
`WalletProofs`, `Codec`, `Delivery`, `Wire`, `MerkleProofs`, `HandshakeProofs`,
`PeersProofs`, `WireProofs`.

Next, the most important first:

1. `Search`: the nonce of `m_mining` and the tip it reads while it searches.
2. `Handshake` on top of `Delivery`: the remaining messages as letters of `Wire`.
