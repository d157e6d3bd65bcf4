------------------------------ MODULE Handshake ------------------------------
(***************************************************************************)
(* Several nodes running this code, and the connections between them.      *)
(*                                                                         *)
(* All of a node's handlers run on its one io_service thread and block it  *)
(* in connection::receive.  A step of a handler is what it does from one   *)
(* receive to the next: until then nobody sees more than messages in a     *)
(* socket.  A chain is abstracted to its length: between nodes running     *)
(* this code the only blocks that ever enter a chain are customized ones,  *)
(* which all nodes make alike (Coin's CustomBlock, Node's ChainSound).     *)
(***************************************************************************)
EXTENDS Integers, Sequences, FiniteSets, Functions

CONSTANTS
  Nodes,          \* a node is its address, ip and port
  Hosts,          \* Hosts[n]: the list of hosts in n's adpatres.conf
  CustomizeCount, \* blocks a node makes for a peer without any (7)
  MaxStarts,      \* bound: how often processes are started
  MaxCrashes,     \* bound: how often one is killed
  MaxMined        \* bound: how many blocks are mined

ASSUME HostsAssumption == Hosts \in [Nodes -> Seq(Nodes)]
ASSUME CustomizeAssumption == CustomizeCount \in Nat \ {0}

VARIABLES
  up,      \* is the process of a node there?
  chain,   \* blockChain.size()
  leaked,  \* did validateBlock return early once, with the mutex held?
  peers,   \* server::m_peers, a forward_list
  thread,  \* the io_service thread: the connection it serves, and where it is
  conns,   \* the open connections
  starts, crashes, mined

counters == << starts, crashes, mined >>
vars == << up, chain, leaked, peers, thread, conns, counters >>

-----------------------------------------------------------------------------
(***************************************************************************)
(* Connections: an end at the node that connected ("ini"), an end at the   *)
(* one that accepted ("acc"), each with a queue of messages sent to it.    *)
(***************************************************************************)
Roles == {"ini", "acc"}
Other(role) == IF role = "ini" THEN "acc" ELSE "ini"

Connection(n, m, kind, number) ==
  [at |-> [role \in Roles |-> IF role = "ini" THEN n ELSE m],
   kind |-> kind, number |-> number,
   st |-> "syn",                      \* "syn", "open", "refused"
   end |-> [role \in Roles |-> "new"],  \* "new", "run", "closed"
   q |-> [role \in Roles |-> << >>], rst |-> FALSE]

\* A number no connection is named by.
FreeId(cs) == CHOOSE k \in 1 .. Cardinality(DOMAIN cs) + 1 : \A c \in DOMAIN cs : c[1] # k

\* server::m_connect to each ms[i].
Connect(cs, n, ms, kind, number) ==
  LET new == {<< FreeId(cs), i >> : i \in DOMAIN ms}
  IN [c \in DOMAIN cs \union new |->
        IF c \in DOMAIN cs THEN cs[c] ELSE Connection(n, ms[c[2]], kind, number)]

\* A connection both ends of which are closed is forgotten.
Put(cs, c, r) ==
  IF \A role \in Roles : r.end[role] = "closed"
    THEN [d \in DOMAIN cs \ {c} |-> cs[d]]
    ELSE [cs EXCEPT ![c] = r]

\* What is sent to a closed end comes back as a reset.
Send(r, role, msgs) ==
  IF r.end[Other(role)] = "closed"
    THEN [r EXCEPT !.rst = @ \/ msgs # << >>]
    ELSE [r EXCEPT !.q[Other(role)] = @ \o msgs]

\* The last reference to a connection goes: so does what was not read.
Close(r, role) ==
  [r EXCEPT !.end[role] = "closed", !.q[role] = << >>,
            !.rst = @ \/ r.q[role] # << >>]

\* A message, with what the receiver looks at.
Msg(cmd) == [cmd |-> cmd]
Version == Msg("version")
Verack == Msg("verack")
Getaddr == Msg("getaddr")
Addr(list) == [cmd |-> "addr", list |-> list]
Getblocks(size) == [cmd |-> "getblocks", size |-> size]
Inv(type, amount) == [cmd |-> "inv", type |-> type, amount |-> amount]
BlockMsg(number, valid) == [cmd |-> "block", number |-> number, valid |-> valid]

\* hash_to_32 of a row read with >>, which skips white space: the bytes after
\* it move up, and they are zero (of numbers below 256).
WhiteSpace == 9 .. 13 \union {32}
Amount(inv) == IF inv.amount \in WhiteSpace THEN 0 ELSE inv.amount

Idle == [c |-> << 0, 0 >>, role |-> "ini", pc |-> "idle", left |-> 0]
Busy(n) == thread[n].pc # "idle"
AtIdle(n) == up[n] /\ ~Busy(n)

Init ==
  /\ up = [n \in Nodes |-> FALSE] /\ chain = [n \in Nodes |-> 0]
  /\ leaked = [n \in Nodes |-> FALSE] /\ peers = [n \in Nodes |-> << >>]
  /\ thread = [n \in Nodes |-> Idle] /\ conns = << >>
  /\ starts = 0 /\ crashes = 0 /\ mined = 0

-----------------------------------------------------------------------------
(***************************************************************************)
(* Processes and the network.                                              *)
(***************************************************************************)

\* server::server connects to the hosts, server::start listens and runs.
Start(n) ==
  /\ ~up[n] /\ starts < MaxStarts
  /\ starts' = starts + 1
  /\ up' = [up EXCEPT ![n] = TRUE]
  /\ conns' = Connect(conns, n, Hosts[n], "handshake", 0)
  /\ UNCHANGED << chain, leaked, peers, thread, crashes, mined >>

\* A process dies: its state is gone, its ends are closed, and of the handler
\* it was in maybe only the first messages were sent.
Closed(r, n) ==
  LET mine(role) == r.at[role] = n /\ r.end[role] # "closed"
      ini == IF mine("ini") THEN Close(r, "ini") ELSE r
  IN IF IF r.st = "syn" THEN mine("ini") ELSE mine("acc") THEN Close(ini, "acc") ELSE ini

Gone(n, cs) ==
  LET closed == [c \in DOMAIN cs |-> Closed(cs[c], n)]
      open == {c \in DOMAIN cs : \E role \in Roles : closed[c].end[role] # "closed"}
  IN [c \in open |-> closed[c]]

Die(n, cs) ==
  /\ up' = [up EXCEPT ![n] = FALSE]
  /\ chain' = [chain EXCEPT ![n] = 0] /\ leaked' = [leaked EXCEPT ![n] = FALSE]
  /\ peers' = [peers EXCEPT ![n] = << >>] /\ thread' = [thread EXCEPT ![n] = Idle]
  /\ conns' = Gone(n, cs)

CutOff(n) ==
  IF ~Busy(n) THEN {conns}
  ELSE LET c == thread[n].c
           other == Other(thread[n].role)
       IN {[conns EXCEPT ![c].q[other] = SubSeq(@, 1, k)] : k \in 0 .. Len(conns[c].q[other])}

Crash(n) ==
  /\ up[n] /\ crashes < MaxCrashes
  /\ crashes' = crashes + 1
  /\ \E cs \in CutOff(n) : Die(n, cs)
  /\ UNCHANGED << starts, mined >>

\* The connect reaches the other host: it listens or it does not.
Establish(c) ==
  /\ conns[c].st = "syn"
  /\ LET r == conns[c]
     IN conns' = [conns EXCEPT ![c] =
          IF up[r.at["acc"]] THEN [r EXCEPT !.st = "open"]
                             ELSE [r EXCEPT !.st = "refused", !.end["acc"] = "closed"]]
  /\ UNCHANGED << up, chain, leaked, peers, thread, counters >>

\* The miner finds a block and shares it with every entry of m_peers.
MinerShares(n) ==
  /\ up[n] /\ peers[n] # << >> /\ mined < MaxMined
  /\ mined' = mined + 1
  /\ conns' = Connect(conns, n, peers[n], "share", chain[n])
  /\ UNCHANGED << up, chain, leaked, peers, thread, starts, crashes >>

-----------------------------------------------------------------------------
(***************************************************************************)
(* The handlers, all on node n's io_service thread.                        *)
(***************************************************************************)
OnlySockets == UNCHANGED << up, chain, leaked, peers, counters >>
At(n, c, role, pc, left) ==
  thread' = [thread EXCEPT ![n] = [c |-> c, role |-> role, pc |-> pc, left |-> left]]

\* Mutant: the handler keeps its connection open.
ReturnOpen(n, c, r, role) ==
  conns' = Put(conns, c, r) /\ thread' = [thread EXCEPT ![n] = Idle]

\* The handler returns: its connection goes, the thread is free.
Return(n, c, r, role) ==
  conns' = Put(conns, c, Close(r, role)) /\ thread' = [thread EXCEPT ![n] = Idle]

\* m_handshake: version first; a failed connect is not tried again.
RunHandshake(n, c) ==
  /\ AtIdle(n) /\ conns[c].at["ini"] = n /\ conns[c].end["ini"] = "new"
  /\ conns[c].kind = "handshake"
  /\ LET r == [conns[c] EXCEPT !.end["ini"] = "run"] IN
       \/ /\ r.st = "refused"
          /\ Return(n, c, r, "ini")
       \/ /\ r.st = "open"
          /\ conns' = [conns EXCEPT ![c] = Send(r, "ini", << Version >>)]
          /\ At(n, c, "ini", "verack", 0)
  /\ OnlySockets

\* Mutant: the handler runs before its connect has ended.
RunShareEarly(n, c) ==
  /\ AtIdle(n) /\ conns[c].at["ini"] = n /\ conns[c].end["ini"] = "new" /\ conns[c].kind = "share"
  /\ LET r == conns[c] IN
       \/ /\ r.st # "open" /\ Die(n, conns)
       \/ /\ r.st = "open"
          /\ Return(n, c, Send(r, "ini", << Inv("block", 1), BlockMsg(r.number, FALSE) >>), "ini")
          /\ UNCHANGED << up, chain, leaked, peers >>
  /\ UNCHANGED counters

\* The handler share posts.  It ignores its error code: send throws on a
\* socket that is not connected, nothing catches it, the process terminates.
\* The miner's block has a first transaction to an empty address, which no
\* receiver parses back into one with the same root.
RunShare(n, c) ==
  /\ AtIdle(n) /\ conns[c].at["ini"] = n /\ conns[c].end["ini"] = "new"
  /\ conns[c].kind = "share" /\ conns[c].st # "syn"
  /\ LET r == conns[c] IN
       \/ /\ r.end["acc"] = "closed" /\ Die(n, conns)
       \/ /\ r.st = "open"
          /\ Return(n, c, Send(r, "ini", << Inv("block", 1), BlockMsg(r.number, FALSE) >>), "ini")
          /\ UNCHANGED << up, chain, leaked, peers >>
  /\ UNCHANGED counters

\* m_handle_accept: accept the next one, then wait for its first message.
Accept(n, c) ==
  /\ AtIdle(n) /\ conns[c].at["acc"] = n /\ conns[c].end["acc"] = "new" /\ conns[c].st = "open"
  /\ conns' = [conns EXCEPT ![c].end["acc"] = "run"]
  /\ At(n, c, "acc", "first", 0)
  /\ OnlySockets

\* The handler's end of its connection: the messages it has not read yet, the
\* connection without the first of them, the node at the other end.
Unread(n) == conns[thread[n].c].q[thread[n].role]
Rest(n) == LET t == thread[n] IN [conns[t.c] EXCEPT !.q[t.role] = Tail(@)]
Peer(n) == LET t == thread[n] IN conns[t.c].at[Other(t.role)]
PeerClosed(n) == LET t == thread[n] IN conns[t.c].end[Other(t.role)] = "closed"

\* receive throws: the peer is gone.  m_handshake and m_handle_accept catch.
Fail(n) ==
  /\ Busy(n) /\ thread[n].pc # "locked"
  /\ conns[thread[n].c].rst \/ (PeerClosed(n) /\ Unread(n) = << >>)
  /\ Return(n, thread[n].c, conns[thread[n].c], thread[n].role)
  /\ OnlySockets

\* n's thread waits at pc and reads a message.  That it is the expected one,
\* which the code asserts, is AssertsHold below.
Receives(n, role, pc, cmd) ==
  /\ thread[n].role = role /\ thread[n].pc = pc
  /\ Unread(n) # << >> /\ Head(Unread(n)).cmd = cmd

\* It sends msgs and waits at pc.
Goes(n, msgs, pc, left) ==
  LET t == thread[n]
  IN /\ conns' = [conns EXCEPT ![t.c] = Send(Rest(n), t.role, msgs)]
     /\ At(n, t.c, t.role, pc, left)

\* It sends msgs and is done.
Ends(n, msgs) ==
  LET t == thread[n] IN Return(n, t.c, Send(Rest(n), t.role, msgs), t.role)

\* Mutant: version first.
AccVersionFirst(n) ==
  /\ Receives(n, "acc", "first", "version")
  /\ Goes(n, << Version, Verack >>, "verack", 0)
  /\ OnlySockets

\* Mutant: the version is not answered.
AccVersionSilent(n) ==
  /\ Receives(n, "acc", "first", "version")
  /\ Goes(n, << Verack >>, "verack", 0)
  /\ OnlySockets

\* m_handle_version, as far as its first receive.
AccVersion(n) ==
  /\ Receives(n, "acc", "first", "version")
  /\ Goes(n, << Verack, Version >>, "verack", 0)
  /\ OnlySockets

AccVerack(n) ==
  /\ Receives(n, "acc", "verack", "verack")
  /\ Goes(n, << >>, "getaddr", 0)
  /\ OnlySockets

\* Mutant: the peer is listed before the list is made.
AccGetaddrLists(n) ==
  /\ Receives(n, "acc", "getaddr", "getaddr")
  /\ Goes(n, << Addr(<< Peer(n) >> \o peers[n]) >>, "getblocks", 0)
  /\ peers' = [peers EXCEPT ![n] = << Peer(n) >> \o @]
  /\ UNCHANGED << up, chain, leaked, counters >>

\* m_make_addr comes first: the peer is not told of itself.
AccGetaddr(n) ==
  /\ Receives(n, "acc", "getaddr", "getaddr")
  /\ Goes(n, << Addr(peers[n]) >>, "getblocks", 0)
  /\ peers' = [peers EXCEPT ![n] = << Peer(n) >> \o @]
  /\ UNCHANGED << up, chain, leaked, counters >>

\* Mutant: getBlocksAfter(0).
AllButFirst(size) == [i \in 1 .. size |-> BlockMsg(i, TRUE)]

\* getBlocksAfter(-1), each block as a message.
AllBlocks(size) == [i \in 1 .. size |-> BlockMsg(i - 1, TRUE)]

\* A peer without blocks gets all of a chain customized first, if addBlock can
\* lock; any other peer gets an announcement and no blocks.
AccGetblocks(n) ==
  /\ Receives(n, "acc", "getblocks", "getblocks")
  /\ LET theirs == Head(Unread(n)).size
         size == chain[n] + CustomizeCount
     IN \/ /\ theirs = 0 /\ leaked[n]
           /\ Goes(n, << >>, "locked", 0) /\ UNCHANGED chain
        \/ /\ theirs = 0 /\ ~leaked[n]
           /\ chain' = [chain EXCEPT ![n] = size]
           /\ Ends(n, << Inv("block", size) >> \o AllBlocks(size))
        \/ /\ theirs > 0 /\ theirs <= chain[n]
           /\ Ends(n, << Inv("block", chain[n] - (theirs - 1) + 1) >>) /\ UNCHANGED chain
        \/ /\ theirs > chain[n]
           /\ Ends(n, << Inv("error", 0) >>) /\ UNCHANGED chain
  /\ UNCHANGED << up, leaked, peers, counters >>

\* m_handle_inv: one row, of blocks.
AccInv(n) ==
  /\ Receives(n, "acc", "first", "inv")
  /\ Goes(n, << >>, "blocks", Amount(Head(Unread(n))))
  /\ OnlySockets

\* m_handshake goes on: two receives, then the peer is listed, ...
IniVerack(n) ==
  /\ Receives(n, "ini", "verack", "verack")
  /\ Goes(n, << >>, "version", 0)
  /\ OnlySockets

\* Mutant: the peer is not listed.
IniVersionForgets(n) ==
  /\ Receives(n, "ini", "version", "version")
  /\ Goes(n, << Verack, Getaddr >>, "addr", 0)
  /\ OnlySockets

IniVersion(n) ==
  /\ Receives(n, "ini", "version", "version")
  /\ peers' = [peers EXCEPT ![n] = << Peer(n) >> \o @]
  /\ Goes(n, << Verack, Getaddr >>, "addr", 0)
  /\ UNCHANGED << up, chain, leaked, counters >>

\* ... its peers that are not listed yet are connected to, ...
IniAddr(n) ==
  /\ Receives(n, "ini", "addr", "addr")
  /\ LET c == thread[n].c
         list == Head(Unread(n)).list
         new == Restrict(list, {i \in DOMAIN list : list[i] \notin Range(peers[n])})
         asked == [conns EXCEPT ![c] = Send(Rest(n), "ini", << Getblocks(chain[n]) >>)]
     IN conns' = Connect(asked, n, new, "handshake", 0)
  /\ thread' = [thread EXCEPT ![n].pc = "inv"]
  /\ UNCHANGED << up, chain, leaked, peers, counters >>

\* ... and as many blocks are waited for as it announced.
IniInv(n) ==
  /\ Receives(n, "ini", "inv", "inv")
  /\ LET inv == Head(Unread(n)) IN
       \/ inv.type = "block" /\ Amount(inv) > 0 /\ Goes(n, << >>, "blocks", Amount(inv))
       \/ (inv.type = "error" \/ Amount(inv) = 0) /\ Ends(n, << >>)
  /\ OnlySockets

\* addBlock on a received block: refused with a hold leaked, stuck behind an
\* earlier leak, or added.
ReceiveBlock(n) ==
  /\ \E role \in Roles : Receives(n, role, "blocks", "block")
  /\ LET left == thread[n].left
         b == Head(Unread(n))
         valid == b.valid /\ b.number = chain[n]
         OneLess == IF left = 1 THEN Ends(n, << >>) ELSE Goes(n, << >>, "blocks", left - 1)
     IN \/ /\ ~valid /\ OneLess
           /\ leaked' = [leaked EXCEPT ![n] = TRUE] /\ UNCHANGED chain
        \/ /\ valid /\ leaked[n] /\ Goes(n, << >>, "locked", left)
           /\ UNCHANGED << chain, leaked >>
        \/ /\ valid /\ ~leaked[n] /\ OneLess
           /\ chain' = [chain EXCEPT ![n] = @ + 1] /\ UNCHANGED leaked
  /\ UNCHANGED << up, peers, counters >>

Handle(n) ==
  \/ Fail(n)
  \/ AccVersion(n) \/ AccVerack(n) \/ AccGetaddr(n) \/ AccGetblocks(n) \/ AccInv(n)
  \/ IniVerack(n) \/ IniVersion(n) \/ IniAddr(n) \/ IniInv(n)
  \/ ReceiveBlock(n)

Run(n) == \E c \in DOMAIN conns : RunHandshake(n, c) \/ RunShare(n, c) \/ Accept(n, c)

Next ==
  \/ \E n \in Nodes : Start(n) \/ Crash(n) \/ MinerShares(n) \/ Run(n) \/ Handle(n)
  \/ \E c \in DOMAIN conns : Establish(c)

Spec == Init /\ [][Next]_vars

\* The threads run and the network delivers; nothing makes a process start,
\* die or mine.
FairSpec ==
  /\ Spec
  /\ \A n \in Nodes : WF_vars(Run(n)) /\ WF_vars(Handle(n))
  /\ WF_vars(\E c \in DOMAIN conns : Establish(c))

-----------------------------------------------------------------------------
(***************************************************************************)
(* Properties.                                                             *)
(***************************************************************************)

Messages ==
  [cmd : {"version", "verack", "getaddr"}] \union [cmd : {"addr"}, list : Seq(Nodes)]
    \union [cmd : {"getblocks"}, size : Nat]
    \union [cmd : {"inv"}, type : {"block", "error"}, amount : Nat]
    \union [cmd : {"block"}, number : Nat, valid : BOOLEAN]

Connections ==
  [at : [Roles -> Nodes], kind : {"handshake", "share"}, number : Nat,
   st : {"syn", "open", "refused"}, end : [Roles -> {"new", "run", "closed"}],
   q : [Roles -> Seq(Messages)], rst : BOOLEAN]

Waits == {"first", "verack", "version", "getaddr", "addr", "getblocks", "inv", "blocks"}

\* The type of every variable; a thread and the end it serves name each other,
\* and who waits for blocks waits for one at least.
TypeOK ==
  /\ up \in [Nodes -> BOOLEAN] /\ leaked \in [Nodes -> BOOLEAN]
  /\ chain \in [Nodes -> Nat] /\ peers \in [Nodes -> Seq(Nodes)]
  /\ thread \in [Nodes -> [c : DOMAIN conns \union {Idle.c}, role : Roles,
                           pc : Waits \union {"idle", "locked"}, left : Nat]]
  /\ starts \in Nat /\ crashes \in Nat /\ mined \in Nat
  /\ \A c \in DOMAIN conns :
       /\ conns[c] \in Connections
       /\ \A role \in Roles : conns[c].end[role] = "run" =>
            LET t == thread[conns[c].at[role]] IN
              t.pc # "idle" /\ t.c = c /\ t.role = role
  /\ \A n \in Nodes : Busy(n) =>
       /\ up[n] /\ thread[n].c \in DOMAIN conns
       /\ conns[thread[n].c].at[thread[n].role] = n
       /\ conns[thread[n].c].end[thread[n].role] = "run"
       /\ thread[n].pc = "blocks" => thread[n].left > 0

\* What each receive asserts, in m_handshake, m_handle_version and
\* m_handle_inv: between nodes running this code, whatever was lost on the
\* way, the next message is the expected one.  No process aborts.
Expected(pc) ==
  CASE pc = "first" -> {"version", "inv"}
    [] pc = "blocks" -> {"block"}
    [] OTHER -> {pc}

AssertsHold ==
  \A n \in Nodes : Busy(n) /\ thread[n].pc # "locked" /\ Unread(n) # << >> =>
    Head(Unread(n)).cmd \in Expected(thread[n].pc)

\* n waits for a message nobody has sent yet, from a peer that still could.
WaitsFor(n, m) ==
  /\ Busy(n) /\ thread[n].pc # "locked"
  /\ Peer(n) = m /\ ~PeerClosed(n)
  /\ Unread(n) = << >> /\ ~conns[thread[n].c].rst

Locked(n) == Busy(n) /\ thread[n].pc = "locked"

\* n is one of some nodes each of which hangs in addBlock or waits for
\* another of them, maybe itself, through the one thread it has.
Stuck(n) ==
  \E S \in SUBSET Nodes :
    n \in S /\ \A m \in S : Locked(m) \/ \E k \in S : WaitsFor(m, k)

\* Of two handlers that talk to each other one has something to read, unless
\* one hangs in addBlock: neither ever waits for what the other would only send
\* after an answer, whoever was killed and whoever else connects meanwhile.
NeverBothWait ==
  \A c \in DOMAIN conns : (\A role \in Roles : conns[c].end[role] = "run") =>
    \E role \in Roles :
      conns[c].q[role] # << >> \/ thread[conns[c].at[role]].pc = "locked"

\* What remains is to wait for a node that does not accept, because it waits
\* itself.  Two nodes that only know one common host never come to that as long
\* as nobody mines; three can, when the host tells each of the others.
NeverStuck == \A n \in Nodes : ~Stuck(n)

\* Who lists a peer is listed there too, unless the handshake that will do so
\* is still under way: nobody shares with a node that does not share back, until
\* a process is killed.
PeersMutual == crashes = 0 =>
  \A n, m \in Nodes : m \in Range(peers[n]) =>
    \/ n \in Range(peers[m])
    \/ \E c \in DOMAIN conns : conns[c].kind = "handshake"
         /\ {conns[c].at[role] : role \in Roles} = {n, m}
         /\ \A role \in Roles : conns[c].end[role] = "run"

\* The blocks of a handshake all fit, in the order they come: a node never
\* refuses one, and so never leaks a hold, while it synchronizes.
SyncNeverRefused ==
  [][\A n \in Nodes : thread[n].role = "ini" /\ Busy(n) /\ up'[n]
        => leaked'[n] = leaked[n]]_vars

\* A node that mines and shares brings itself down only where some process was
\* killed before: whom it lists, at whatever point of whatever handshake, can
\* be connected to as long as nobody dies (server.cpp:308, which ignores that
\* the connect failed).
DiesOnlyAfterAKill ==
  [][\A n \in Nodes : up[n] /\ ~up'[n] => crashes' > 0]_vars

\* A handler returns unless its node is stuck: the wait-for cycles and the
\* leaked holds are the only ways a node's one thread is lost.
HandshakesEnd == \A n \in Nodes : Busy(n) ~> (~Busy(n) \/ Stuck(n))
=============================================================================
