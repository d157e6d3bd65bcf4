--------------------------- MODULE HandshakeProofs ---------------------------
(***************************************************************************)
(* Theorems about Handshake, for every set of nodes, every configuration   *)
(* of hosts and every bound.  The invariant says of each connection where  *)
(* its two ends are and what is under way between them (ConnOK), and of    *)
(* each thread which end it serves (Serves); a step is first shown to keep *)
(* ConnOK, on the two pcs and queues alone, then not to disturb the other  *)
(* connections and threads.                                                *)
(***************************************************************************)
EXTENDS Handshake, TLAPS, SequenceTheorems

\* The two ends of a connection.
LEMMA RolesTwo ==
  /\ Roles = {"ini", "acc"} /\ Other("ini") = "acc" /\ Other("acc") = "ini"
  /\ \A role \in Roles : Other(role) \in Roles /\ Other(role) # role
  BY DEF Roles, Other

\* What reading a message changes of a connection: that end's queue.
LEMMA RestFields ==
  ASSUME NEW r \in Connections, NEW role \in Roles, r.q[role] # << >>
  PROVE  LET s == [r EXCEPT !.q[role] = Tail(@)] IN
         /\ s \in Connections
         /\ s.at = r.at /\ s.kind = r.kind /\ s.number = r.number /\ s.st = r.st
         /\ s.end = r.end /\ s.rst = r.rst
         /\ s.q[role] = Tail(r.q[role]) /\ s.q[Other(role)] = r.q[Other(role)]
  <1>1. Tail(r.q[role]) \in Seq(Messages)
    BY DEF Connections
  <1> QED BY <1>1, RolesTwo DEF Connections

\* What sending changes: the other end's queue, or, of a closed end, the reset.
LEMMA SendFields ==
  ASSUME NEW r \in Connections, NEW role \in Roles, NEW msgs \in Seq(Messages)
  PROVE  LET s == Send(r, role, msgs) IN
         /\ s \in Connections
         /\ s.at = r.at /\ s.kind = r.kind /\ s.number = r.number /\ s.st = r.st
         /\ s.end = r.end /\ s.q[role] = r.q[role]
         /\ IF r.end[Other(role)] = "closed"
              THEN s.q[Other(role)] = r.q[Other(role)]
              ELSE s.q[Other(role)] = r.q[Other(role)] \o msgs /\ s.rst = r.rst
  <1>1. r.q[Other(role)] \o msgs \in Seq(Messages)
    BY RolesTwo DEF Connections
  <1>2. (r.rst \/ msgs # << >>) \in BOOLEAN
    OBVIOUS
  <1> QED BY <1>1, <1>2, RolesTwo DEF Connections, Send

\* s is r with this end closed.
Shut(r, s, role) ==
  /\ s \in Connections
  /\ s.at = r.at /\ s.kind = r.kind /\ s.number = r.number /\ s.st = r.st
  /\ s.end[role] = "closed" /\ s.end[Other(role)] = r.end[Other(role)]
  /\ s.q[role] = << >> /\ s.q[Other(role)] = r.q[Other(role)]

\* Close shuts an end.
LEMMA CloseShuts ==
  ASSUME NEW r \in Connections, NEW role \in Roles
  PROVE  Shut(r, Close(r, role), role)
  <1>1. << >> \in Seq(Messages)
    OBVIOUS
  <1> QED BY <1>1, RolesTwo DEF Connections, Close, Shut

-----------------------------------------------------------------------------
(* The queues of a handshake and of a share, by name. *)
OneVersion == << Version >>
OneVerack == << Verack >>
OneGetaddr == << Getaddr >>
VerackVersion == << Verack, Version >>
VerackGetaddr == << Verack, Getaddr >>
OneGetblocks(k) == << Getblocks(k) >>
Shared(number) == << Inv("block", 1), BlockMsg(number, FALSE) >>
SharedBlock(number) == << BlockMsg(number, FALSE) >>

\* q holds one message.
One(q, cmd) == q # << >> /\ Head(q).cmd = cmd /\ Tail(q) = << >>
\* The blocks of a synchronization, from number k on.
Blocks(q, k) == \A j \in DOMAIN q : q[j] = BlockMsg(k + j - 1, TRUE)
Announced(q, k) == q # << >> /\ Head(q).cmd = "inv" /\ Blocks(Tail(q), k)

\* Nothing was said yet.
Unstarted(i, a, qi, qa) == i = "new" /\ a \in {"new", "first"} /\ qi = << >> /\ qa = << >>

\* The handshake of two live ends, in lock step: the pc of the connecting end, the
\* pc of the accepting one, what is under way to each.  k is the connecting node's
\* chain, of which it has told in its getblocks.
Talk(i, a, qi, qa, k) ==
  \/ i = "verack" /\ a \in {"new", "first"} /\ qi = << >> /\ qa = OneVersion
  \/ i = "verack" /\ a = "verack" /\ qi = VerackVersion /\ qa = << >>
  \/ i = "version" /\ a = "verack" /\ qi = OneVersion /\ qa = << >>
  \/ i = "addr" /\ a = "verack" /\ qi = << >> /\ qa = VerackGetaddr
  \/ i = "addr" /\ a = "getaddr" /\ qi = << >> /\ qa = OneGetaddr
  \/ i = "addr" /\ a = "getblocks" /\ One(qi, "addr") /\ qa = << >>
  \/ i = "inv" /\ a = "getblocks" /\ qi = << >> /\ qa = OneGetblocks(k)
  \/ i = "inv" /\ a = "locked" /\ qi = << >> /\ qa = << >>

\* What the connecting end may still read after the accepting one is gone: a prefix
\* of what that one would have sent.
IniLeft(i, qi, k) ==
  \/ i = "new" /\ qi = << >>
  \/ i = "verack" /\ qi \in {<< >>, OneVerack, VerackVersion}
  \/ i = "version" /\ qi \in {<< >>, OneVersion}
  \/ i = "addr" /\ (qi = << >> \/ One(qi, "addr"))
  \/ i = "inv" /\ (qi = << >> \/ Announced(qi, k))
  \/ i = "blocks" /\ Blocks(qi, k)
  \/ i = "locked"

\* The same for the accepting end.
AccLeft(kind, number, a, qa) ==
  \/ a \in {"new", "first"} /\ qa = << >>
  \/ a = "locked"
  \/ /\ kind = "handshake"
     /\ \/ a \in {"new", "first"} /\ qa = OneVersion
        \/ a = "verack" /\ qa \in {<< >>, OneVerack, VerackGetaddr}
        \/ a = "getaddr" /\ qa \in {<< >>, OneGetaddr}
        \/ a = "getblocks" /\ (qa = << >> \/ One(qa, "getblocks"))
  \/ /\ kind = "share"
     /\ \/ a \in {"new", "first"} /\ qa = Shared(number)
        \/ a = "blocks" /\ qa \in {<< >>, SharedBlock(number)}

\* Everything about one connection: its state, kind, number and reset, the pcs of
\* its two ends ("new" and "closed" where no handler runs), the two queues.
ConnOK(st, kind, number, rst, i, a, qi, qa, k) ==
  /\ i # "closed" /\ a # "closed" =>
       /\ ~rst
       /\ \/ Unstarted(i, a, qi, qa)
          \/ st = "open" /\ kind = "handshake" /\ Talk(i, a, qi, qa, k)
  /\ i # "closed" /\ a = "closed" =>
       /\ IniLeft(i, qi, k)
       /\ st # "syn" /\ (i # "new" => kind = "handshake")
       /\ st = "refused" => i = "new"
  /\ i = "closed" => st = "open" /\ a # "closed" /\ AccLeft(kind, number, a, qa)
  /\ st = "syn" => i = "new" /\ a = "new"
  /\ st = "refused" => a = "closed"

-----------------------------------------------------------------------------
\* The messages are messages.
LEMMA MessagesTyped ==
  /\ Version \in Messages /\ Verack \in Messages /\ Getaddr \in Messages
  /\ Version.cmd = "version" /\ Verack.cmd = "verack" /\ Getaddr.cmd = "getaddr"
  /\ \A list \in Seq(Nodes) : Addr(list) \in Messages /\ Addr(list).cmd = "addr"
  /\ \A size \in Nat : Getblocks(size) \in Messages
       /\ Getblocks(size).cmd = "getblocks" /\ Getblocks(size).size = size
  /\ \A amount \in Nat, type \in {"block", "error"} :
       /\ Inv(type, amount) \in Messages
       /\ Inv(type, amount).cmd = "inv" /\ Inv(type, amount).amount = amount
       /\ Inv(type, amount).type = type
  /\ \A number \in Nat, valid \in BOOLEAN :
       /\ BlockMsg(number, valid) \in Messages
       /\ BlockMsg(number, valid).cmd = "block" /\ BlockMsg(number, valid).number = number
       /\ BlockMsg(number, valid).valid = valid
  <1>1. 0 \in Nat OBVIOUS
  <1> QED BY <1>1 DEF Messages, Version, Verack, Getaddr, Msg, Addr, Getblocks, Inv, BlockMsg

\* A message has the fields of its command.
LEMMA MessagesShape ==
  ASSUME NEW m \in Messages
  PROVE  /\ m.cmd = "addr" => m.list \in Seq(Nodes)
         /\ m.cmd = "getblocks" => m.size \in Nat
         /\ m.cmd = "inv" => m.amount \in Nat /\ m.type \in {"block", "error"}
         /\ m.cmd = "block" => m.number \in Nat /\ m.valid \in BOOLEAN
  BY DEF Messages

\* A queue of one message, ...
LEMMA OneMessage ==
  \A m \in Messages :
    /\ << m >> # << >> /\ Head(<< m >>) = m /\ Tail(<< m >>) = << >>
    /\ << m >> \in Seq(Messages)
  OBVIOUS

\* ... and of two.
LEMMA TwoMessages ==
  \A m1, m2 \in Messages :
    /\ << m1, m2 >> # << >> /\ Head(<< m1, m2 >>) = m1 /\ Tail(<< m1, m2 >>) = << m2 >>
    /\ << m1, m2 >> \in Seq(Messages)
  OBVIOUS

\* Sending to who has read everything leaves just what is sent.
LEMMA EmptyAppend ==
  \A q \in Seq(Messages) : << >> \o q = q
  OBVIOUS

\* What the queues hold, message by message.
LEMMA Queues ==
  /\ OneVersion # << >> /\ Head(OneVersion).cmd = "version" /\ Tail(OneVersion) = << >>
  /\ OneVerack # << >> /\ Head(OneVerack).cmd = "verack" /\ Tail(OneVerack) = << >>
  /\ OneGetaddr # << >> /\ Head(OneGetaddr).cmd = "getaddr" /\ Tail(OneGetaddr) = << >>
  /\ VerackVersion # << >> /\ Head(VerackVersion).cmd = "verack"
  /\ Tail(VerackVersion) = OneVersion
  /\ VerackGetaddr # << >> /\ Head(VerackGetaddr).cmd = "verack"
  /\ Tail(VerackGetaddr) = OneGetaddr
  /\ OneVersion \in Seq(Messages) /\ VerackVersion \in Seq(Messages)
  /\ VerackGetaddr \in Seq(Messages)
  <1>1. /\ Version \in Messages /\ Verack \in Messages /\ Getaddr \in Messages
        /\ Version.cmd = "version" /\ Verack.cmd = "verack" /\ Getaddr.cmd = "getaddr"
    BY MessagesTyped
  <1>2. /\ OneVersion # << >> /\ Head(OneVersion).cmd = "version" /\ Tail(OneVersion) = << >>
        /\ OneVerack # << >> /\ Head(OneVerack).cmd = "verack" /\ Tail(OneVerack) = << >>
        /\ OneGetaddr # << >> /\ Head(OneGetaddr).cmd = "getaddr" /\ Tail(OneGetaddr) = << >>
        /\ OneVersion \in Seq(Messages)
    BY <1>1, OneMessage DEF OneVersion, OneVerack, OneGetaddr
  <1>3. /\ VerackVersion # << >> /\ Head(VerackVersion).cmd = "verack"
        /\ Tail(VerackVersion) = OneVersion
        /\ VerackGetaddr # << >> /\ Head(VerackGetaddr).cmd = "verack"
        /\ Tail(VerackGetaddr) = OneGetaddr
        /\ VerackVersion \in Seq(Messages) /\ VerackGetaddr \in Seq(Messages)
    BY <1>1, TwoMessages DEF OneVersion, OneGetaddr, VerackVersion, VerackGetaddr
  <1> QED BY <1>2, <1>3

\* The same for the queues that hold numbers.
LEMMA NumberQueues ==
  ASSUME NEW k \in Nat
  PROVE  /\ OneGetblocks(k) # << >> /\ Head(OneGetblocks(k)).cmd = "getblocks"
         /\ Head(OneGetblocks(k)).size = k /\ Tail(OneGetblocks(k)) = << >>
         /\ Shared(k) # << >> /\ Head(Shared(k)).cmd = "inv" /\ Head(Shared(k)).amount = 1
         /\ Tail(Shared(k)) = SharedBlock(k)
         /\ SharedBlock(k) # << >> /\ Head(SharedBlock(k)).cmd = "block"
         /\ Head(SharedBlock(k)).valid = FALSE /\ Tail(SharedBlock(k)) = << >>
         /\ OneGetblocks(k) \in Seq(Messages) /\ Shared(k) \in Seq(Messages)
  <1>1. /\ Getblocks(k) \in Messages /\ Getblocks(k).cmd = "getblocks" /\ Getblocks(k).size = k
    BY MessagesTyped
  <1>2. Inv("block", 1) \in Messages /\ Inv("block", 1).cmd = "inv" /\ Inv("block", 1).amount = 1
    BY MessagesTyped
  <1>3. /\ BlockMsg(k, FALSE) \in Messages /\ BlockMsg(k, FALSE).cmd = "block"
        /\ BlockMsg(k, FALSE).valid = FALSE
    BY MessagesTyped
  <1>4. /\ OneGetblocks(k) # << >> /\ Head(OneGetblocks(k)).cmd = "getblocks"
        /\ Head(OneGetblocks(k)).size = k /\ Tail(OneGetblocks(k)) = << >>
        /\ OneGetblocks(k) \in Seq(Messages)
    BY <1>1, OneMessage DEF OneGetblocks
  <1>5. /\ SharedBlock(k) # << >> /\ Head(SharedBlock(k)).cmd = "block"
        /\ Head(SharedBlock(k)).valid = FALSE /\ Tail(SharedBlock(k)) = << >>
    BY <1>3, OneMessage DEF SharedBlock
  <1>6. /\ Shared(k) # << >> /\ Head(Shared(k)).cmd = "inv" /\ Head(Shared(k)).amount = 1
        /\ Tail(Shared(k)) = SharedBlock(k) /\ Shared(k) \in Seq(Messages)
    BY <1>2, <1>3, TwoMessages DEF Shared, SharedBlock
  <1> QED BY <1>4, <1>5, <1>6

\* The answer to getaddr.
LEMMA OneAddr ==
  ASSUME NEW l \in Seq(Nodes)
  PROVE  One(<< Addr(l) >>, "addr") /\ << Addr(l) >> \in Seq(Messages)
  <1>1. Addr(l) \in Messages /\ Addr(l).cmd = "addr"
    BY MessagesTyped
  <1> QED BY <1>1, OneMessage DEF One

-----------------------------------------------------------------------------

\* Each step of one end keeps ConnOK.  m_handshake starts and sends its version;
LEMMA OKRunHandshake ==
  ASSUME NEW st, NEW kind, NEW number \in Nat, NEW rst, NEW rst2, NEW a, NEW k \in Nat,
         NEW qi, NEW qa, NEW qa2, ConnOK(st, kind, number, rst, "new", a, qi, qa, k),
         st = "open", kind = "handshake",
         a # "closed" => (qa = << >> => qa2 = OneVersion) /\ rst2 = rst
  PROVE  ConnOK(st, kind, number, rst2, "verack", a, qi, qa2, k)
  BY Queues, NumberQueues DEF ConnOK, Unstarted, Talk, IniLeft

\* ... reads the verack;
LEMMA OKIniVerack ==
  ASSUME NEW st, NEW kind, NEW number \in Nat, NEW rst, NEW rst2, NEW a, NEW k \in Nat,
         NEW qi, NEW qa, NEW qa2, ConnOK(st, kind, number, rst, "verack", a, qi, qa, k),
         qi # << >>, Head(qi).cmd = "verack",
         a # "closed" => (qa = << >> => qa2 = << >>) /\ rst2 = rst
  PROVE  ConnOK(st, kind, number, rst2, "version", a, Tail(qi), qa2, k)
  BY Queues, NumberQueues DEF ConnOK, Unstarted, Talk, IniLeft

\* ... reads the version, answers and asks for peers;
LEMMA OKIniVersion ==
  ASSUME NEW st, NEW kind, NEW number \in Nat, NEW rst, NEW rst2, NEW a, NEW k \in Nat,
         NEW qi, NEW qa, NEW qa2, ConnOK(st, kind, number, rst, "version", a, qi, qa, k),
         qi # << >>, Head(qi).cmd = "version",
         a # "closed" => (qa = << >> => qa2 = VerackGetaddr) /\ rst2 = rst
  PROVE  ConnOK(st, kind, number, rst2, "addr", a, Tail(qi), qa2, k)
  BY Queues, NumberQueues DEF ConnOK, Unstarted, Talk, IniLeft

\* ... reads the list and asks for blocks;
LEMMA OKIniAddr ==
  ASSUME NEW st, NEW kind, NEW number \in Nat, NEW rst, NEW rst2, NEW a, NEW k \in Nat,
         NEW qi, NEW qa, NEW qa2, ConnOK(st, kind, number, rst, "addr", a, qi, qa, k),
         qi # << >>, Head(qi).cmd = "addr",
         a # "closed" => (qa = << >> => qa2 = OneGetblocks(k)) /\ rst2 = rst
  PROVE  ConnOK(st, kind, number, rst2, "inv", a, Tail(qi), qa2, k)
  BY Queues, NumberQueues DEF ConnOK, Unstarted, Talk, IniLeft, One

\* ... reads how many there will be.
LEMMA OKIniInv ==
  ASSUME NEW st, NEW kind, NEW number \in Nat, NEW rst, NEW rst2, NEW a, NEW k \in Nat,
         NEW qi, NEW qa, NEW qa2, ConnOK(st, kind, number, rst, "inv", a, qi, qa, k),
         qi # << >>, Head(qi).cmd = "inv",
         a # "closed" => (qa = << >> => qa2 = << >>) /\ rst2 = rst
  PROVE  ConnOK(st, kind, number, rst2, "blocks", a, Tail(qi), qa2, k)
  BY Queues, NumberQueues DEF ConnOK, Unstarted, Talk, IniLeft, Announced

\* m_handle_accept starts;
LEMMA OKAccept ==
  ASSUME NEW st, NEW kind, NEW number \in Nat, NEW rst, NEW rst2, NEW i, NEW k \in Nat,
         NEW qi, NEW qa, NEW qi2, ConnOK(st, kind, number, rst, i, "new", qi, qa, k),
         st = "open",
         i # "closed" => qi2 = qi /\ rst2 = rst
  PROVE  ConnOK(st, kind, number, rst2, i, "first", qi2, qa, k)
  <1>1. CASE i = "closed"
    BY <1>1, Queues, NumberQueues DEF ConnOK, AccLeft
  <1>2. CASE i # "closed"
    BY <1>2, Queues, NumberQueues DEF ConnOK, Unstarted, Talk
  <1> QED BY <1>1, <1>2

\* ... m_handle_version reads the version and answers;
LEMMA OKAccVersion ==
  ASSUME NEW st, NEW kind, NEW number \in Nat, NEW rst, NEW rst2, NEW i, NEW k \in Nat,
         NEW qi, NEW qa, NEW qi2, ConnOK(st, kind, number, rst, i, "first", qi, qa, k),
         qa # << >>, Head(qa).cmd = "version",
         i # "closed" => (qi = << >> => qi2 = VerackVersion) /\ rst2 = rst
  PROVE  ConnOK(st, kind, number, rst2, i, "verack", qi2, Tail(qa), k)
  <1>1. CASE i = "closed"
    BY <1>1, Queues, NumberQueues DEF ConnOK, AccLeft
  <1>2. CASE i # "closed"
    BY <1>2, Queues, NumberQueues DEF ConnOK, Unstarted, Talk
  <1> QED BY <1>1, <1>2

\* ... reads the verack;
LEMMA OKAccVerack ==
  ASSUME NEW st, NEW kind, NEW number \in Nat, NEW rst, NEW rst2, NEW i, NEW k \in Nat,
         NEW qi, NEW qa, NEW qi2, ConnOK(st, kind, number, rst, i, "verack", qi, qa, k),
         qa # << >>, Head(qa).cmd = "verack",
         i # "closed" => (qi = << >> => qi2 = << >>) /\ rst2 = rst
  PROVE  ConnOK(st, kind, number, rst2, i, "getaddr", qi2, Tail(qa), k)
  <1>1. CASE i = "closed"
    BY <1>1, Queues, NumberQueues DEF ConnOK, AccLeft
  <1>2. CASE i # "closed"
    BY <1>2, Queues, NumberQueues DEF ConnOK, Unstarted, Talk
  <1> QED BY <1>1, <1>2

\* ... reads getaddr and sends its list.
LEMMA OKAccGetaddr ==
  ASSUME NEW st, NEW kind, NEW number \in Nat, NEW rst, NEW rst2, NEW i, NEW k \in Nat,
         NEW qi, NEW qa, NEW qi2, ConnOK(st, kind, number, rst, i, "getaddr", qi, qa, k),
         qa # << >>, Head(qa).cmd = "getaddr",
         NEW l \in Seq(Nodes),
         i # "closed" => (qi = << >> => qi2 = << Addr(l) >>) /\ rst2 = rst
  PROVE  ConnOK(st, kind, number, rst2, i, "getblocks", qi2, Tail(qa), k)
  <1>1. CASE i = "closed"
    BY <1>1, Queues, NumberQueues DEF ConnOK, AccLeft
  <1>2. CASE i # "closed"
    BY <1>2, Queues, NumberQueues, OneAddr DEF ConnOK, Unstarted, Talk
  <1> QED BY <1>1, <1>2

\* The peer waits for the answer to its getblocks.
Asked(st, kind, rst, i, qi, qa, k) ==
  /\ st = "open" /\ kind = "handshake" /\ ~rst
  /\ i = "inv" /\ qi = << >> /\ qa = OneGetblocks(k)

\* Who has a getblocks to read is asked by a peer that still waits, or is gone.
LEMMA AccAsked ==
  ASSUME NEW st, NEW kind, NEW number \in Nat, NEW rst, NEW i, NEW k \in Nat,
         NEW qi, NEW qa, ConnOK(st, kind, number, rst, i, "getblocks", qi, qa, k),
         qa # << >>, i # "closed"
  PROVE  Asked(st, kind, rst, i, qi, qa, k)
  BY DEF ConnOK, Unstarted, Talk, Asked

\* addBlock hangs before anything is answered;
LEMMA OKAccLocked ==
  ASSUME NEW st, NEW kind, NEW number \in Nat, NEW rst, NEW rst2, NEW i, NEW k \in Nat,
         NEW qi, NEW qa, NEW qi2, ConnOK(st, kind, number, rst, i, "getblocks", qi, qa, k),
         qa # << >>, i # "closed" => (qi = << >> => qi2 = << >>) /\ rst2 = rst
  PROVE  ConnOK(st, kind, number, rst2, i, "locked", qi2, Tail(qa), k)
  <1>1. CASE i = "closed"
    BY <1>1 DEF ConnOK, AccLeft
  <1>2. CASE i # "closed"
    <2>1. /\ st = "open" /\ kind = "handshake" /\ ~rst
          /\ i = "inv" /\ qi = << >> /\ qa = OneGetblocks(k)
      BY <1>2, AccAsked DEF Asked
    <2>2. qi2 = << >> /\ ~rst2
      BY <1>2, <2>1
    <2>3. Tail(qa) = << >>
      BY <2>1, NumberQueues
    <2>4. Talk(i, "locked", qi2, Tail(qa), k)
      BY <2>1, <2>2, <2>3 DEF Talk
    <2> QED BY <2>1, <2>2, <2>4 DEF ConnOK
  <1> QED BY <1>1, <1>2

\* ... m_handle_inv reads the announcement of a share;
LEMMA OKAccInv ==
  ASSUME NEW st, NEW kind, NEW number \in Nat, NEW rst, NEW rst2, NEW i, NEW k \in Nat,
         NEW qi, NEW qa, NEW qi2, ConnOK(st, kind, number, rst, i, "first", qi, qa, k),
         qa # << >>, Head(qa).cmd = "inv",
         i # "closed" => (qi = << >> => qi2 = << >>) /\ rst2 = rst
  PROVE  ConnOK(st, kind, number, rst2, i, "blocks", qi2, Tail(qa), k)
  <1>1. CASE i = "closed"
    BY <1>1, Queues, NumberQueues DEF ConnOK, AccLeft
  <1>2. CASE i # "closed"
    BY <1>2, Queues, NumberQueues DEF ConnOK, Unstarted, Talk
  <1> QED BY <1>1, <1>2

\* ... which announces one block.
LEMMA AccShared ==
  ASSUME NEW st, NEW kind, NEW number \in Nat, NEW rst, NEW i, NEW k,
         NEW qi, NEW qa, ConnOK(st, kind, number, rst, i, "first", qi, qa, k),
         qa # << >>, Head(qa).cmd = "inv"
  PROVE  Head(qa).amount = 1
  <1>1. CASE i = "closed"
    BY <1>1, Queues, NumberQueues DEF ConnOK, AccLeft
  <1>2. CASE i # "closed"
    BY <1>2, Queues DEF ConnOK, Unstarted, Talk
  <1> QED BY <1>1, <1>2

\* The handler of a share sends all it has and is done.
LEMMA OKShared ==
  ASSUME NEW number \in Nat, NEW rst, NEW rst2, NEW a, NEW k \in Nat,
         NEW qi, NEW qa, NEW qi2, NEW qa2, a # "closed",
         ConnOK("open", "share", number, rst, "new", a, qi, qa, k),
         qa = << >> => qa2 = Shared(number)
  PROVE  ConnOK("open", "share", number, rst2, "closed", a, qi2, qa2, k)
  BY DEF ConnOK, Unstarted, Talk, AccLeft

\* getblocks is answered and the handler done.
LEMMA OKAnswered ==
  ASSUME NEW st, NEW kind, NEW number \in Nat, NEW rst, NEW rst2, NEW i, NEW k \in Nat,
         NEW qi, NEW qa, NEW qi2, NEW qa2, i # "closed", qa # << >>,
         ConnOK(st, kind, number, rst, i, "getblocks", qi, qa, k),
         qi = << >> => Announced(qi2, k)
  PROVE  ConnOK(st, kind, number, rst2, i, "closed", qi2, qa2, k)
  <1>1. st = "open" /\ kind = "handshake" /\ i = "inv" /\ qi = << >>
    BY AccAsked DEF Asked
  <1> QED BY <1>1 DEF ConnOK, IniLeft

\* A synchronization: who answered is gone, the next block is the one wanted.
Wanted(a, q, k) == a = "closed" /\ q # << >> /\ Head(q) = BlockMsg(k, TRUE) /\ Blocks(Tail(q), k + 1)

\* Who waits for blocks while it synchronizes reads the one that fits next.
LEMMA IniWanted ==
  ASSUME NEW st, NEW kind, NEW number, NEW rst, NEW a, NEW k \in Nat,
         NEW qi \in Seq(Messages), NEW qa, qi # << >>,
         ConnOK(st, kind, number, rst, "blocks", a, qi, qa, k)
  PROVE  Wanted(a, qi, k)
  <1>1. a = "closed" /\ Blocks(qi, k)
    BY DEF ConnOK, Unstarted, Talk, IniLeft, AccLeft
  <1>2. 1 \in DOMAIN qi /\ Head(qi) = qi[1] /\ k + 1 - 1 = k
    OBVIOUS
  <1>3. Head(qi) = BlockMsg(k, TRUE)
    BY <1>1, <1>2 DEF Blocks
  <1>4. Blocks(Tail(qi), k + 1)
    <2> SUFFICES ASSUME NEW j \in DOMAIN Tail(qi)
                 PROVE  Tail(qi)[j] = BlockMsg(k + 1 + j - 1, TRUE)
      BY DEF Blocks
    <2>1. j \in Nat /\ j + 1 \in DOMAIN qi /\ Tail(qi)[j] = qi[j + 1]
      OBVIOUS
    <2>2. k + (j + 1) - 1 = k + 1 + j - 1
      BY <2>1
    <2> QED BY <1>1, <2>1, <2>2 DEF Blocks
  <1> QED BY <1>1, <1>3, <1>4 DEF Wanted

\* It adds it and waits for the next one, ...
LEMMA OKIniBlock ==
  ASSUME NEW st, NEW kind, NEW number, NEW rst, NEW rst2, NEW a, NEW k \in Nat,
         NEW qi, NEW qa, NEW qa2, Wanted(a, qi, k),
         ConnOK(st, kind, number, rst, "blocks", a, qi, qa, k)
  PROVE  ConnOK(st, kind, number, rst2, "blocks", a, Tail(qi), qa2, k + 1)
  BY DEF ConnOK, IniLeft, Wanted

\* ... or hangs in addBlock.
LEMMA OKIniLocked ==
  ASSUME NEW st, NEW kind, NEW number, NEW rst, NEW rst2, NEW a, NEW k \in Nat,
         NEW qi, NEW qa, NEW qa2, Wanted(a, qi, k),
         ConnOK(st, kind, number, rst, "blocks", a, qi, qa, k)
  PROVE  ConnOK(st, kind, number, rst2, "locked", a, Tail(qi), qa2, k)
  BY DEF ConnOK, IniLeft, Wanted

\* A share: its block is refused.
Unwanted(i, q) == i = "closed" /\ q # << >> /\ Head(q).valid = FALSE /\ Tail(q) = << >>

\* Who waits for a shared block reads one it refuses.
LEMMA AccUnwanted ==
  ASSUME NEW st, NEW kind, NEW number \in Nat, NEW rst, NEW i, NEW k,
         NEW qi, NEW qa, qa # << >>, ConnOK(st, kind, number, rst, i, "blocks", qi, qa, k)
  PROVE  Unwanted(i, qa)
  <1>1. i = "closed" /\ qa = SharedBlock(number)
    BY DEF ConnOK, Unstarted, Talk, AccLeft
  <1> QED BY <1>1, NumberQueues DEF Unwanted

\* It waits on.
LEMMA OKAccBlock ==
  ASSUME NEW st, NEW kind, NEW number, NEW rst, NEW rst2, NEW i, NEW k,
         NEW qi, NEW qa, NEW qi2, Unwanted(i, qa),
         ConnOK(st, kind, number, rst, i, "blocks", qi, qa, k)
  PROVE  ConnOK(st, kind, number, rst2, i, "blocks", qi2, Tail(qa), k)
  BY DEF ConnOK, AccLeft, Unwanted

\* A connect ends, well or not.
LEMMA OKEstablish ==
  ASSUME NEW kind, NEW number, NEW rst, NEW i, NEW a, NEW k, NEW qi, NEW qa,
         ConnOK("syn", kind, number, rst, i, a, qi, qa, k)
  PROVE  /\ ConnOK("open", kind, number, rst, i, a, qi, qa, k)
         /\ ConnOK("refused", kind, number, rst, i, "closed", qi, qa, k)
  BY DEF ConnOK, Unstarted, Talk, IniLeft

\* A new connection.
LEMMA OKConnect ==
  ASSUME NEW kind, NEW number, NEW k
  PROVE  ConnOK("syn", kind, number, FALSE, "new", "new", << >>, << >>, k)
  BY DEF ConnOK, Unstarted

\* How far the peer's chain is only matters to who waits for its answer.
LEMMA OKOtherChain ==
  ASSUME NEW st, NEW kind, NEW number, NEW rst, NEW i, NEW a, NEW k, NEW k2, NEW qi, NEW qa,
         i # "inv", i # "blocks", ConnOK(st, kind, number, rst, i, a, qi, qa, k)
  PROVE  ConnOK(st, kind, number, rst, i, a, qi, qa, k2)
  BY DEF ConnOK, Unstarted, Talk, IniLeft

-----------------------------------------------------------------------------
\* What a killed process was sending arrives in part.  Of a queue of one message, ...
LEMMA CutOne ==
  ASSUME NEW q \in Seq(Messages), q # << >>, Tail(q) = << >>, NEW j \in 0 .. Len(q)
  PROVE  SubSeq(q, 1, j) \in {<< >>, q}
  <1>1. Len(q) = 1
    <2>1. Len(q) \in Nat /\ (Len(q) # 1 => Len(Tail(q)) # 0)
      OBVIOUS
    <2>2. Len(<< >>) = 0
      OBVIOUS
    <2> QED BY <2>1, <2>2
  <1>2. CASE j = 0
    <2>1. SubSeq(q, 1, j) \in Seq(Messages) /\ Len(SubSeq(q, 1, j)) = 0
      BY <1>2
    <2> QED BY <2>1
  <1>3. CASE j = 1
    <2>1. /\ SubSeq(q, 1, j) \in Seq(Messages) /\ Len(SubSeq(q, 1, j)) = 1
          /\ SubSeq(q, 1, j)[1] = q[1]
      BY <1>1, <1>3
    <2> QED BY <1>1, <2>1
  <1> QED BY <1>1, <1>2, <1>3

\* ... and of two.
LEMMA CutTwo ==
  ASSUME NEW q \in Seq(Messages), q # << >>, Tail(q) # << >>, Tail(Tail(q)) = << >>,
         NEW j \in 0 .. Len(q)
  PROVE  SubSeq(q, 1, j) \in {<< >>, << Head(q) >>, q}
  <1>1. Len(q) = 2
    <2>1. Len(Tail(q)) = Len(q) - 1 /\ Len(q) \in Nat /\ Tail(q) \in Seq(Messages)
      OBVIOUS
    <2>2. Len(Tail(Tail(q))) = Len(Tail(q)) - 1
      BY <2>1
    <2>3. Len(<< >>) = 0
      OBVIOUS
    <2>4. Len(Tail(Tail(q))) = 0
      BY <2>3
    <2> QED BY <2>1, <2>2, <2>4
  <1>2. CASE j = 0
    <2>1. SubSeq(q, 1, j) \in Seq(Messages) /\ Len(SubSeq(q, 1, j)) = 0
      BY <1>2
    <2> QED BY <2>1
  <1>3. CASE j = 1
    <2>1. /\ SubSeq(q, 1, j) \in Seq(Messages) /\ Len(SubSeq(q, 1, j)) = 1
          /\ SubSeq(q, 1, j)[1] = q[1]
      BY <1>1, <1>3
    <2>2. << Head(q) >> \in Seq(Messages) /\ Len(<< Head(q) >>) = 1 /\ << Head(q) >>[1] = q[1]
      BY <1>1
    <2> DEFINE s == SubSeq(q, 1, j)
               t == << Head(q) >>
    <2>3. s \in Seq(Messages) /\ t \in Seq(Messages) /\ Len(s) = Len(t)
      BY <2>1, <2>2
    <2>4. \A m \in 1 .. Len(s) : s[m] = t[m]
      BY <2>1, <2>2
    <2> HIDE DEF s, t
    <2>5. s = t
      BY <2>3, <2>4, SeqEqual
    <2> QED BY <2>5 DEF s, t
  <1>4. CASE j = 2
    <2>1. /\ SubSeq(q, 1, j) \in Seq(Messages) /\ Len(SubSeq(q, 1, j)) = 2
          /\ SubSeq(q, 1, j)[1] = q[1] /\ SubSeq(q, 1, j)[2] = q[2]
      BY <1>1, <1>4
    <2> QED BY <1>1, <2>1
  <1> QED BY <1>1, <1>2, <1>3, <1>4

\* What is left of a queue whose sender died while it sent.
Cut(q, q2) == q2 = q \/ \E j \in 0 .. Len(q) : q2 = SubSeq(q, 1, j)

\* Of the blocks of a synchronization the first ones arrive.
LEMMA Cuts ==
  ASSUME NEW q \in Seq(Messages), NEW q2, Cut(q, q2)
  PROVE  /\ q = << >> => q2 = << >>
         /\ q # << >> /\ Tail(q) = << >> => q2 \in {<< >>, q}
         /\ q # << >> /\ Tail(q) # << >> /\ Tail(Tail(q)) = << >> => q2 \in {<< >>, << Head(q) >>, q}
  <1>1. CASE q2 = q
    BY <1>1
  <1>2. CASE \E j \in 0 .. Len(q) : q2 = SubSeq(q, 1, j)
    <2> PICK j \in 0 .. Len(q) : q2 = SubSeq(q, 1, j)
      BY <1>2
    <2>1. q = << >> => q2 = << >>
      OBVIOUS
    <2> QED BY <2>1, CutOne, CutTwo
  <1> QED BY <1>1, <1>2 DEF Cut

\* What may arrive of each of the queues of a handshake.
LEMMA QueueCuts ==
  ASSUME NEW q2
  PROVE  /\ Cut(<< >>, q2) => q2 = << >>
         /\ Cut(OneVersion, q2) => q2 \in {<< >>, OneVersion}
         /\ Cut(OneGetaddr, q2) => q2 \in {<< >>, OneGetaddr}
         /\ Cut(VerackVersion, q2) => q2 \in {<< >>, OneVerack, VerackVersion}
         /\ Cut(VerackGetaddr, q2) => q2 \in {<< >>, OneVerack, VerackGetaddr}
         /\ \A k \in Nat : Cut(OneGetblocks(k), q2) => q2 = << >> \/ One(q2, "getblocks")
         /\ \A q \in Seq(Messages) : \A cmd : One(q, cmd) /\ Cut(q, q2) => q2 = << >> \/ One(q2, cmd)
  <1>1. OneVersion \in Seq(Messages) /\ OneGetaddr \in Seq(Messages) /\ OneVerack = << Verack >>
    BY MessagesTyped, OneMessage DEF OneVersion, OneGetaddr, OneVerack
  <1>2. /\ VerackVersion \in Seq(Messages) /\ VerackGetaddr \in Seq(Messages)
        /\ Head(VerackVersion) = Verack /\ Head(VerackGetaddr) = Verack
    BY MessagesTyped, TwoMessages DEF VerackVersion, VerackGetaddr
  <1>3. Cut(<< >>, q2) => q2 = << >>
    <2>1. << >> \in Seq(Messages)
      OBVIOUS
    <2> QED BY <2>1, Cuts
  <1>4. Cut(OneVersion, q2) => q2 \in {<< >>, OneVersion}
    BY <1>1, Cuts, Queues
  <1>5. Cut(OneGetaddr, q2) => q2 \in {<< >>, OneGetaddr}
    BY <1>1, Cuts, Queues
  <1>6. Cut(VerackVersion, q2) => q2 \in {<< >>, OneVerack, VerackVersion}
    BY <1>1, <1>2, Cuts, Queues
  <1>7. Cut(VerackGetaddr, q2) => q2 \in {<< >>, OneVerack, VerackGetaddr}
    BY <1>1, <1>2, Cuts, Queues
  <1>8. \A q \in Seq(Messages) : \A cmd : One(q, cmd) /\ Cut(q, q2) => q2 = << >> \/ One(q2, cmd)
    BY Cuts DEF One
  <1>9. \A k \in Nat : Cut(OneGetblocks(k), q2) => q2 = << >> \/ One(q2, "getblocks")
    <2> TAKE k \in Nat
    <2>1. One(OneGetblocks(k), "getblocks") /\ OneGetblocks(k) \in Seq(Messages)
      BY NumberQueues DEF One
    <2> QED BY <2>1, <1>8
  <1> QED BY <1>3, <1>4, <1>5, <1>6, <1>7, <1>8, <1>9

\* The connecting process is killed.
LEMMA OKIniDies ==
  ASSUME NEW st \in {"syn", "open", "refused"}, NEW kind, NEW number, NEW rst, NEW rst2, NEW i, NEW a, NEW k \in Nat,
         NEW qi, NEW qa \in Seq(Messages), NEW qi2, NEW qa2, NEW k2,
         ConnOK(st, kind, number, rst, i, a, qi, qa, k), i # "closed", a # "closed",
         st # "syn", Cut(qa, qa2)
  PROVE  ConnOK(st, kind, number, rst2, "closed", a, qi2, qa2, k2)
  <1>1. st = "open"
    BY DEF ConnOK, Unstarted
  <1>2. AccLeft(kind, number, a, qa2)
    BY QueueCuts DEF ConnOK, Unstarted, Talk, AccLeft
  <1> QED BY <1>1, <1>2 DEF ConnOK

\* The accepting one is.
LEMMA OKAccDies ==
  ASSUME NEW st, NEW kind, NEW number, NEW rst, NEW rst2, NEW i, NEW a, NEW k \in Nat,
         NEW qi \in Seq(Messages), NEW qa, NEW qi2, NEW qa2,
         ConnOK(st, kind, number, rst, i, a, qi, qa, k), i # "closed", a # "closed",
         st # "syn", Cut(qi, qi2)
  PROVE  ConnOK(st, kind, number, rst2, i, "closed", qi2, qa2, k)
  <1>1. IniLeft(i, qi2, k)
    BY QueueCuts DEF ConnOK, Unstarted, Talk, IniLeft
  <1> QED BY <1>1 DEF ConnOK, Unstarted, Talk

-----------------------------------------------------------------------------
\* Where an end of r is.
Pc(r, role, th) == IF r.end[role] = "run" THEN th[r.at[role]].pc ELSE r.end[role]

\* r fits its two ends.
Fits(r, th, ch) ==
  ConnOK(r.st, r.kind, r.number, r.rst, Pc(r, "ini", th), Pc(r, "acc", th),
         r.q["ini"], r.q["acc"], ch[r.at["ini"]])

\* The handlers of r know it.
Served(c, r, th) ==
  \A role \in Roles : r.end[role] = "run" =>
    LET t == th[r.at[role]] IN t # Idle /\ t.c = c /\ t.role = role

\* n's thread is idle, or serves an end of n's that is there.
Serves(n, t, u, cs) ==
  \/ t = Idle
  \/ /\ t \in [c : DOMAIN cs, role : Roles, pc : Waits \union {"locked"}, left : Nat]
     /\ u[n] /\ cs[t.c].at[t.role] = n /\ cs[t.c].end[t.role] = "run"
     /\ t.pc = "blocks" => t.left > 0

\* Connection c is served, and fits.
Proper(c, r, th, ch) == r \in Connections /\ Served(c, r, th) /\ Fits(r, th, ch)

\* The inductive invariant: every thread and every connection.
Linked(u, ch, cs, th) ==
  /\ u \in [Nodes -> BOOLEAN] /\ ch \in [Nodes -> Nat]
  /\ th = [n \in Nodes |-> th[n]]
  /\ \A n \in Nodes : Serves(n, th[n], u, cs)
  /\ \A c \in DOMAIN cs : Proper(c, cs[c], th, ch)

\* Only n's thread and chain differ.
SameBut(n, th, th2, ch, ch2) == \A m \in Nodes : m # n => th2[m] = th[m] /\ ch2[m] = ch[m]
\* n runs no handler of the connection r.
Away(n, r) == \A role \in Roles : r.at[role] = n => r.end[role] # "run"
\* n's thread serves at most this end of the connection c.
AtMost(n, c, role, t) == t # Idle => t.c = c /\ t.role = role

\* A step of n does not concern a connection n runs no handler of.
LEMMA FrameFits ==
  ASSUME NEW r \in Connections, NEW th, NEW th2, NEW ch, NEW ch2, NEW n,
         SameBut(n, th, th2, ch, ch2), Away(n, r), Fits(r, th, ch)
  PROVE  Fits(r, th2, ch2)
  <1>1. r.at["ini"] \in Nodes /\ r.at["acc"] \in Nodes
    BY RolesTwo DEF Connections
  <1>2. Pc(r, "ini", th2) = Pc(r, "ini", th) /\ Pc(r, "acc", th2) = Pc(r, "acc", th)
    BY <1>1, RolesTwo DEF Pc, SameBut, Away
  <1>3. CASE r.at["ini"] # n
    BY <1>1, <1>2, <1>3 DEF Fits, SameBut
  <1>4. CASE r.at["ini"] = n
    <2>1. Pc(r, "ini", th) \in {"new", "closed"}
      BY <1>4, RolesTwo DEF Pc, Connections, Away
    <2> QED BY <1>2, <2>1, OKOtherChain DEF Fits
  <1> QED BY <1>3, <1>4

\* ... and it runs no other handler.
Only(n, c, role, cs) ==
  \A d \in DOMAIN cs, e \in Roles :
    cs[d].at[e] = n /\ cs[d].end[e] = "run" => d = c /\ e = role

\* A node's one thread serves one end of one connection.
LEMMA OneServed ==
  ASSUME NEW u, NEW ch, NEW cs, NEW th, Linked(u, ch, cs, th),
         NEW n, NEW c, NEW role, AtMost(n, c, role, th[n])
  PROVE  Only(n, c, role, cs)
  <1> SUFFICES ASSUME NEW d \in DOMAIN cs, NEW e \in Roles,
                      cs[d].at[e] = n, cs[d].end[e] = "run"
               PROVE  d = c /\ e = role
    BY DEF Only
  <1>1. Served(d, cs[d], th)
    BY DEF Linked, Proper
  <1>2. th[n] # Idle /\ th[n].c = d /\ th[n].role = e
    BY <1>1 DEF Served
  <1> QED BY <1>2 DEF AtMost

\* n takes a step of the handler at this end of c: all else is as it was.
Steps(n, c, role, u, ch, cs, th, th2, ch2) ==
  /\ Linked(u, ch, cs, th)
  /\ n \in Nodes /\ u[n] /\ c \in DOMAIN cs /\ role \in Roles
  /\ cs[c].at[role] = n /\ AtMost(n, c, role, th[n])
  /\ th2 = [th EXCEPT ![n] = th2[n]] /\ ch2 \in [Nodes -> Nat]
  /\ \A m \in Nodes : m # n => ch2[m] = ch[m]

\* A step of n keeps the other connections, ...
LEMMA FrameServed ==
  ASSUME NEW n, NEW c, NEW role, NEW u, NEW ch, NEW cs, NEW th, NEW th2, NEW ch2,
         Steps(n, c, role, u, ch, cs, th, th2, ch2), NEW d \in DOMAIN cs, d # c
  PROVE  Proper(d, cs[d], th2, ch2)
  <1>1. cs[d] \in Connections /\ Served(d, cs[d], th) /\ Fits(cs[d], th, ch)
    BY DEF Linked, Proper, Steps
  <1>2. Only(n, c, role, cs)
    BY OneServed DEF Steps
  <1>3. Away(n, cs[d])
    BY <1>2 DEF Only, Away
  <1>4. SameBut(n, th, th2, ch, ch2)
    BY DEF SameBut, Steps, Linked
  <1>5. Fits(cs[d], th2, ch2)
    BY <1>1, <1>3, <1>4, FrameFits
  <1>6. \A e \in Roles : cs[d].at[e] \in Nodes
    BY <1>1 DEF Connections
  <1>7. Served(d, cs[d], th2)
    BY <1>1, <1>3, <1>4, <1>6 DEF Served, Away, SameBut
  <1> QED BY <1>1, <1>5, <1>7 DEF Proper

\* cs2 is cs but for c, of which it keeps what is not n's.
Keeps(c, role, cs, cs2) ==
  /\ \A d \in DOMAIN cs : d # c => d \in DOMAIN cs2 /\ cs2[d] = cs[d]
  /\ \/ c \in DOMAIN cs2 /\ cs2[c].at = cs[c].at
          /\ cs2[c].end[Other(role)] = cs[c].end[Other(role)]
     \/ cs[c].end[Other(role)] # "run"

\* ... and the other threads.
LEMMA FrameServes ==
  ASSUME NEW n, NEW c, NEW role, NEW u, NEW ch, NEW cs, NEW th, NEW th2, NEW ch2, NEW cs2,
         Steps(n, c, role, u, ch, cs, th, th2, ch2), Keeps(c, role, cs, cs2),
         NEW m \in Nodes, m # n
  PROVE  Serves(m, th2[m], u, cs2)
  <1>1. Serves(m, th[m], u, cs) /\ th2[m] = th[m] /\ cs[c].at[role] = n /\ role \in Roles
    BY DEF Linked, Steps
  <1> QED BY <1>1, RolesTwo DEF Serves, Keeps

\* n's step goes on with its connection.
LEMMA Stays ==
  ASSUME NEW n, NEW c, NEW role, NEW u, NEW ch, NEW cs, NEW th, NEW th2, NEW ch2,
         Steps(n, c, role, u, ch, cs, th, th2, ch2),
         NEW r \in Connections, r.at = cs[c].at, r.end[role] = "run",
         r.end[Other(role)] = cs[c].end[Other(role)],
         th2[n] \in [c : {c}, role : {role}, pc : Waits \union {"locked"}, left : Nat],
         th2[n].pc = "blocks" => th2[n].left > 0,
         Fits(r, th2, ch2)
  PROVE  Linked(u, ch2, [cs EXCEPT ![c] = r], th2)
  <1> DEFINE cs2 == [cs EXCEPT ![c] = r]
  <1>1. /\ u \in [Nodes -> BOOLEAN] /\ n \in Nodes /\ u[n] /\ c \in DOMAIN cs /\ role \in Roles
        /\ cs[c] \in Connections /\ Served(c, cs[c], th) /\ cs[c].at[role] = n
        /\ ch2 \in [Nodes -> Nat]
    BY DEF Linked, Proper, Steps
  <1>2. th2 = [m \in Nodes |-> th2[m]] /\ \A m \in Nodes : m # n => th2[m] = th[m]
    BY DEF Steps, Linked
  <1>3. /\ DOMAIN cs2 = DOMAIN cs /\ cs2[c] = r
        /\ \A d \in DOMAIN cs : d # c => cs2[d] = cs[d]
    BY <1>1
  <1>4. Keeps(c, role, cs, cs2)
    BY <1>1, <1>3 DEF Keeps
  <1> HIDE DEF cs2
  <1>5. th2[n] # Idle
    BY DEF Idle, Waits
  <1>6. \A m \in Nodes : Serves(m, th2[m], u, cs2)
    <2> TAKE m \in Nodes
    <2>1. CASE m = n
      BY <1>1, <1>3, <2>1 DEF Serves
    <2>2. CASE m # n
      BY <1>4, <2>2, FrameServes
    <2> QED BY <2>1, <2>2
  <1>7. Served(c, r, th2)
    <2> SUFFICES ASSUME NEW e \in Roles, r.end[e] = "run"
                 PROVE  /\ th2[r.at[e]] # Idle /\ th2[r.at[e]].c = c
                        /\ th2[r.at[e]].role = e
      BY DEF Served
    <2>1. CASE e = role
      BY <1>1, <1>5, <2>1
    <2>2. CASE e # role
      <3>1. e = Other(role) /\ cs[c].end[e] = "run" /\ cs[c].at[e] \in Nodes
        BY <1>1, <2>2, RolesTwo DEF Connections
      <3>2. Only(n, c, role, cs)
        BY OneServed DEF Steps
      <3>3. cs[c].at[e] # n
        BY <1>1, <2>2, <3>1, <3>2 DEF Only
      <3> QED BY <1>1, <1>2, <3>1, <3>3 DEF Served
    <2> QED BY <2>1, <2>2
  <1>8. \A d \in DOMAIN cs2 : Proper(d, cs2[d], th2, ch2)
    <2> TAKE d \in DOMAIN cs2
    <2>1. CASE d = c
      BY <1>3, <1>7, <2>1 DEF Proper
    <2>2. CASE d # c
      BY <1>3, <2>2, FrameServed
    <2> QED BY <2>1, <2>2
  <1>9. Linked(u, ch2, cs2, th2)
    BY <1>1, <1>2, <1>6, <1>8 DEF Linked
  <1> QED BY <1>9 DEF cs2

\* n's step closes its end.
LEMMA Leaves ==
  ASSUME NEW n, NEW c, NEW role, NEW u, NEW ch, NEW cs, NEW th, NEW th2, NEW ch2,
         Steps(n, c, role, u, ch, cs, th, th2, ch2),
         NEW r \in Connections, r.at = cs[c].at, r.end[role] = "closed",
         r.end[Other(role)] = cs[c].end[Other(role)], th2[n] = Idle,
         r.end[Other(role)] # "closed" => Fits(r, th2, ch2)
  PROVE  Linked(u, ch2, Put(cs, c, r), th2)
  <1> DEFINE cs2 == Put(cs, c, r)
  <1>1. /\ u \in [Nodes -> BOOLEAN] /\ n \in Nodes /\ c \in DOMAIN cs /\ role \in Roles
        /\ cs[c] \in Connections /\ Served(c, cs[c], th) /\ cs[c].at[role] = n
        /\ ch2 \in [Nodes -> Nat]
    BY DEF Linked, Proper, Steps
  <1>2. th2 = [m \in Nodes |-> th2[m]] /\ \A m \in Nodes : m # n => th2[m] = th[m]
    BY DEF Steps, Linked
  <1>3. /\ r.end[Other(role)] = "closed" => DOMAIN cs2 = DOMAIN cs \ {c}
        /\ r.end[Other(role)] # "closed" => DOMAIN cs2 = DOMAIN cs /\ cs2[c] = r
        /\ \A d \in DOMAIN cs : d # c => d \in DOMAIN cs2 /\ cs2[d] = cs[d]
    BY <1>1, RolesTwo DEF Put
  <1>4. Keeps(c, role, cs, cs2)
    BY <1>1, <1>3 DEF Keeps
  <1> HIDE DEF cs2
  <1>5. \A m \in Nodes : Serves(m, th2[m], u, cs2)
    <2> TAKE m \in Nodes
    <2>1. CASE m = n
      BY <2>1 DEF Serves
    <2>2. CASE m # n
      BY <1>4, <2>2, FrameServes
    <2> QED BY <2>1, <2>2
  <1>6. r.end[Other(role)] # "closed" => Served(c, r, th2)
    <2> SUFFICES ASSUME NEW e \in Roles, r.end[e] = "run"
                 PROVE  /\ th2[r.at[e]] # Idle /\ th2[r.at[e]].c = c
                        /\ th2[r.at[e]].role = e
      BY DEF Served
    <2>1. e # role
      BY <1>1
    <2>2. e = Other(role) /\ cs[c].end[e] = "run" /\ cs[c].at[e] \in Nodes
      BY <1>1, <2>1, RolesTwo DEF Connections
    <2>3. Only(n, c, role, cs)
      BY OneServed DEF Steps
    <2>4. cs[c].at[e] # n
      BY <1>1, <2>1, <2>2, <2>3 DEF Only
    <2> QED BY <1>1, <1>2, <2>2, <2>4 DEF Served
  <1>7. \A d \in DOMAIN cs2 : Proper(d, cs2[d], th2, ch2)
    <2> TAKE d \in DOMAIN cs2
    <2>1. CASE d = c
      BY <1>3, <1>6, <2>1 DEF Proper
    <2>2. CASE d # c
      <3>1. d \in DOMAIN cs /\ cs2[d] = cs[d]
        BY <1>1, <1>3, <2>2
      <3> QED BY <2>2, <3>1, FrameServed
    <2> QED BY <2>1, <2>2
  <1>8. Linked(u, ch2, cs2, th2)
    BY <1>1, <1>2, <1>5, <1>7 DEF Linked
  <1> QED BY <1>8 DEF cs2

-----------------------------------------------------------------------------
\* What Connection makes.
IsNew(r, n, m, kind, number) ==
  /\ r \in Connections
  /\ r.at["ini"] = n /\ r.at["acc"] = m /\ r.kind = kind /\ r.number = number
  /\ r.st = "syn" /\ r.end["ini"] = "new" /\ r.end["acc"] = "new" /\ r.rst = FALSE
  /\ r.q["ini"] = << >> /\ r.q["acc"] = << >>
  /\ \A role \in Roles : r.end[role] = "new"

\* It makes that.
LEMMA NewConnection ==
  ASSUME NEW n \in Nodes, NEW m \in Nodes, NEW kind \in {"handshake", "share"},
         NEW number \in Nat
  PROVE  IsNew(Connection(n, m, kind, number), n, m, kind, number)
  <1>1. << >> \in Seq(Messages)
    OBVIOUS
  <1> QED BY <1>1, RolesTwo DEF Connection, Connections, IsNew

\* What Connect makes of cs: all that was there, and new connections to ms.
Connected(cs, cs2, n, ms, kind, number) ==
  /\ \A d \in DOMAIN cs : d \in DOMAIN cs2 /\ cs2[d] = cs[d]
  /\ \A d \in DOMAIN cs2 : d \in DOMAIN cs
       \/ \E i \in DOMAIN ms : cs2[d] = Connection(n, ms[i], kind, number)

\* Connect keeps what was there and adds new connections.
LEMMA ConnectConnects ==
  ASSUME NEW cs, NEW n, NEW ms, NEW kind, NEW number
  PROVE  Connected(cs, Connect(cs, n, ms, kind, number), n, ms, kind, number)
  <1> DEFINE new == {<< FreeId(cs), i >> : i \in DOMAIN ms}
             cs2 == Connect(cs, n, ms, kind, number)
  <1>1. \A c \in new : c[2] \in DOMAIN ms
    OBVIOUS
  <1>2. cs2 = [c \in DOMAIN cs \union new |->
                 IF c \in DOMAIN cs THEN cs[c] ELSE Connection(n, ms[c[2]], kind, number)]
    BY DEF Connect
  <1> HIDE DEF new, cs2
  <1>3. /\ \A d \in DOMAIN cs : d \in DOMAIN cs2 /\ cs2[d] = cs[d]
        /\ \A d \in DOMAIN cs2 \ DOMAIN cs :
             d \in new /\ cs2[d] = Connection(n, ms[d[2]], kind, number)
    BY <1>2
  <1>4. Connected(cs, cs2, n, ms, kind, number)
    BY <1>1, <1>3 DEF Connected
  <1> QED BY <1>4 DEF cs2

\* New connections keep the invariant.
LEMMA Joins ==
  ASSUME NEW u, NEW ch, NEW cs, NEW th, NEW cs2, Linked(u, ch, cs, th),
         NEW n \in Nodes, NEW ms, \A i \in DOMAIN ms : ms[i] \in Nodes,
         NEW kind \in {"handshake", "share"}, NEW number \in Nat,
         Connected(cs, cs2, n, ms, kind, number)
  PROVE  Linked(u, ch, cs2, th)
  <1>1. /\ u \in [Nodes -> BOOLEAN] /\ ch \in [Nodes -> Nat] /\ th = [m \in Nodes |-> th[m]]
        /\ \A m \in Nodes : Serves(m, th[m], u, cs)
        /\ \A d \in DOMAIN cs : Proper(d, cs[d], th, ch)
    BY DEF Linked
  <1>2. \A m \in Nodes : Serves(m, th[m], u, cs2)
    BY <1>1 DEF Connected, Serves
  <1>3. \A d \in DOMAIN cs2 : Proper(d, cs2[d], th, ch)
    <2> TAKE d \in DOMAIN cs2
    <2>1. CASE d \in DOMAIN cs
      BY <1>1, <2>1 DEF Connected
    <2>2. CASE d \notin DOMAIN cs
      <3>1. PICK i \in DOMAIN ms : cs2[d] = Connection(n, ms[i], kind, number)
        BY <2>2 DEF Connected
      <3>2. IsNew(cs2[d], n, ms[i], kind, number)
        BY <3>1, NewConnection
      <3>3. Fits(cs2[d], th, ch)
        BY <3>2, OKConnect DEF Fits, Pc, IsNew
      <3>4. Served(d, cs2[d], th)
        BY <3>2 DEF Served, IsNew
      <3> QED BY <3>2, <3>3, <3>4 DEF Proper, IsNew
    <2> QED BY <2>1, <2>2
  <1> QED BY <1>1, <1>2, <1>3 DEF Linked

-----------------------------------------------------------------------------
\* An end runs where its thread is, and else is new or closed.
LEMMA PcRuns ==
  ASSUME NEW u, NEW ch, NEW cs, NEW th, Linked(u, ch, cs, th),
         NEW d \in DOMAIN cs, NEW e \in Roles
  PROVE  /\ cs[d].end[e] = "run" => Pc(cs[d], e, th) \in Waits \union {"locked"}
         /\ cs[d].end[e] # "run" => Pc(cs[d], e, th) = cs[d].end[e]
         /\ cs[d].end[e] \in {"new", "run", "closed"}
  <1>1. cs[d] \in Connections /\ Served(d, cs[d], th)
    BY DEF Linked, Proper
  <1>2. cs[d].at[e] \in Nodes
    BY <1>1 DEF Connections
  <1>3. Serves(cs[d].at[e], th[cs[d].at[e]], u, cs)
    BY <1>2 DEF Linked
  <1>4. cs[d].end[e] = "run" => Pc(cs[d], e, th) \in Waits \union {"locked"}
    BY <1>1, <1>3 DEF Pc, Served, Serves
  <1> QED BY <1>1, <1>4 DEF Pc, Connections

\* r1 is r, and what n was sending through it is cut off.
Severed(r, r1, n) ==
  /\ r1 \in Connections
  /\ r1.at = r.at /\ r1.kind = r.kind /\ r1.number = r.number
  /\ r1.st = r.st /\ r1.end = r.end
  /\ \/ r1 = r
     \/ \E e \in Roles : r.at[e] = n /\ r.end[e] = "run" /\ r1.q[e] = r.q[e]
          /\ Cut(r.q[Other(e)], r1.q[Other(e)])

\* What is left of r when n dies.
Left(r, s, n) ==
  /\ s \in Connections
  /\ s.at = r.at /\ s.kind = r.kind /\ s.number = r.number /\ s.st = r.st
  /\ \A e \in Roles : s.end[e] = r.end[e] \/ s.end[e] = "closed"
  /\ \A e \in Roles : r.at[e] = n => s.end[e] # "run"

\* A connection of a process that dies: its ends are closed, the rest fits.
LEMMA ClosedLeft ==
  ASSUME NEW u, NEW ch, NEW cs, NEW th, Linked(u, ch, cs, th), NEW n \in Nodes,
         NEW d \in DOMAIN cs, NEW r1, Severed(cs[d], r1, n),
         NEW th2, NEW ch2, SameBut(n, th, th2, ch, ch2), ch2[n] \in Nat
  PROVE  LET s == Closed(r1, n) IN
         /\ Left(cs[d], s, n)
         /\ \A e \in Roles : cs[d].at[e] # n /\ cs[d].end[e] = "run" => s.end[e] = "run"
         /\ (\E e \in Roles : s.end[e] # "closed") => Fits(s, th2, ch2)
  <1> DEFINE r == cs[d]
             s == Closed(r1, n)
             ini == r.at["ini"] = n /\ r.end["ini"] # "closed"
             acc == r.at["acc"] = n /\ r.end["acc"] # "closed"
  <1>1. r \in Connections /\ Fits(r, th, ch)
    BY DEF Linked, Proper
  <1>2. /\ r.at["ini"] \in Nodes /\ r.at["acc"] \in Nodes /\ ch \in [Nodes -> Nat]
        /\ r.q["ini"] \in Seq(Messages) /\ r.q["acc"] \in Seq(Messages)
        /\ r.st \in {"syn", "open", "refused"} /\ r.number \in Nat
        /\ r1 \in Connections /\ r1.at = r.at /\ r1.end = r.end /\ r1.st = r.st
        /\ r1.kind = r.kind /\ r1.number = r.number
    BY <1>1, RolesTwo DEF Connections, Linked, Severed
  <1>3. /\ r.end["ini"] = "run" => Pc(r, "ini", th) \in Waits \union {"locked"}
        /\ r.end["ini"] # "run" => Pc(r, "ini", th) = r.end["ini"]
        /\ r.end["acc"] = "run" => Pc(r, "acc", th) \in Waits \union {"locked"}
        /\ r.end["acc"] # "run" => Pc(r, "acc", th) = r.end["acc"]
        /\ r.end["ini"] \in {"new", "run", "closed"} /\ r.end["acc"] \in {"new", "run", "closed"}
    BY PcRuns, RolesTwo
  <1>4. r.st = "syn" => r.end["ini"] = "new" /\ r.end["acc"] = "new"
    BY <1>1, <1>3 DEF Fits, ConnOK, Waits
  <1>5. ~ini /\ ~acc => r1 = r
    BY <1>2, RolesTwo DEF Severed
  <1>6. ini /\ ~acc => Cut(r.q["acc"], r1.q["acc"])
    BY <1>2, RolesTwo DEF Severed, Cut
  <1>7. acc /\ ~ini => Cut(r.q["ini"], r1.q["ini"])
    BY <1>2, RolesTwo DEF Severed, Cut
  <1>8. s = IF ini
              THEN IF r.st = "syn" \/ acc THEN Close(Close(r1, "ini"), "acc") ELSE Close(r1, "ini")
              ELSE IF r.st # "syn" /\ acc THEN Close(r1, "acc") ELSE r1
    BY <1>2 DEF Closed
  <1>9. SameBut(n, th, th2, ch, ch2) => ch2[r.at["ini"]] \in Nat
    BY <1>2 DEF SameBut
  <1> HIDE DEF s
  <1>10. CASE ini /\ (r.st = "syn" \/ acc)
    <2> DEFINE half == Close(r1, "ini")
    <2>1. Shut(r1, half, "ini")
      BY <1>2, CloseShuts, RolesTwo
    <2> HIDE DEF half
    <2>2. Shut(half, s, "acc")
      BY <1>8, <1>10, <2>1, CloseShuts, RolesTwo DEF Shut, half
    <2>3. /\ s \in Connections /\ s.at = r.at /\ s.kind = r.kind /\ s.number = r.number
          /\ s.st = r.st /\ s.end["ini"] = "closed" /\ s.end["acc"] = "closed"
      BY <1>2, <2>1, <2>2, RolesTwo DEF Shut
    <2>4. r.end["acc"] = "run" => r.at["acc"] = n
      BY <1>4, <1>10
    <2> QED BY <1>10, <2>3, <2>4, RolesTwo DEF Left, s
  <1>11. CASE ini /\ r.st # "syn" /\ ~acc
    <2>1. Shut(r1, s, "ini")
      BY <1>2, <1>8, <1>11, CloseShuts, RolesTwo
    <2>2. /\ s \in Connections /\ s.at = r.at /\ s.kind = r.kind /\ s.number = r.number
          /\ s.st = r.st /\ s.end["ini"] = "closed" /\ s.end["acc"] = r.end["acc"]
          /\ s.q["acc"] = r1.q["acc"]
      BY <1>2, <2>1, RolesTwo DEF Shut
    <2>3. ASSUME r.end["acc"] # "closed"
          PROVE  Fits(s, th2, ch2)
      <3>1. r.at["acc"] # n /\ Pc(s, "acc", th2) = Pc(r, "acc", th) /\ Pc(s, "ini", th2) = "closed"
        BY <1>2, <1>11, <2>2, <2>3 DEF Pc, SameBut
      <3>2. Pc(r, "ini", th) # "closed" /\ Pc(r, "acc", th) # "closed"
        BY <1>3, <1>11, <2>3 DEF Waits
      <3>3. /\ ConnOK(r.st, r.kind, r.number, r.rst, Pc(r, "ini", th), Pc(r, "acc", th),
                      r.q["ini"], r.q["acc"], ch[r.at["ini"]])
            /\ ch[r.at["ini"]] \in Nat
        BY <1>1, <1>2 DEF Fits
      <3>4. ConnOK(r.st, r.kind, r.number, s.rst, "closed", Pc(r, "acc", th),
                   s.q["ini"], s.q["acc"], ch2[s.at["ini"]])
        BY <1>2, <1>6, <1>11, <2>2, <3>2, <3>3, OKIniDies
      <3> QED BY <2>2, <3>1, <3>4 DEF Fits
    <2> QED BY <1>3, <1>11, <2>2, <2>3, RolesTwo DEF Left, s
  <1>12. CASE ~ini /\ r.st # "syn" /\ acc
    <2>1. Shut(r1, s, "acc")
      BY <1>2, <1>8, <1>12, CloseShuts, RolesTwo
    <2>2. /\ s \in Connections /\ s.at = r.at /\ s.kind = r.kind /\ s.number = r.number
          /\ s.st = r.st /\ s.end["acc"] = "closed" /\ s.end["ini"] = r.end["ini"]
          /\ s.q["ini"] = r1.q["ini"]
      BY <1>2, <2>1, RolesTwo DEF Shut
    <2>3. ASSUME r.end["ini"] # "closed"
          PROVE  Fits(s, th2, ch2)
      <3>1. /\ r.at["ini"] # n /\ Pc(s, "ini", th2) = Pc(r, "ini", th)
            /\ Pc(s, "acc", th2) = "closed" /\ ch2[r.at["ini"]] = ch[r.at["ini"]]
        BY <1>2, <1>12, <2>2, <2>3 DEF Pc, SameBut
      <3>2. Pc(r, "ini", th) # "closed" /\ Pc(r, "acc", th) # "closed"
        BY <1>3, <1>12, <2>3 DEF Waits
      <3>3. /\ ConnOK(r.st, r.kind, r.number, r.rst, Pc(r, "ini", th), Pc(r, "acc", th),
                      r.q["ini"], r.q["acc"], ch[r.at["ini"]])
            /\ ch[r.at["ini"]] \in Nat
        BY <1>1, <1>2 DEF Fits
      <3>4. ConnOK(r.st, r.kind, r.number, s.rst, Pc(r, "ini", th), "closed",
                   s.q["ini"], s.q["acc"], ch[r.at["ini"]])
        BY <1>2, <1>7, <1>12, <2>2, <3>2, <3>3, OKAccDies
      <3> QED BY <2>2, <3>1, <3>4 DEF Fits
    <2> QED BY <1>3, <1>12, <2>2, <2>3, RolesTwo DEF Left, s
  <1>13. CASE ~ini /\ (r.st = "syn" \/ ~acc)
    <2>1. s = r
      <3>1. CASE r.st = "syn"
        BY <1>4, <1>8, <1>13, <3>1, RolesTwo DEF Severed
      <3>2. CASE r.st # "syn"
        BY <1>5, <1>8, <1>13, <3>2
      <3> QED BY <3>1, <3>2
    <2>2. Away(n, r)
      BY <1>3, <1>4, <1>13, RolesTwo DEF Away
    <2>3. Fits(r, th2, ch2)
      BY <1>1, <2>2, FrameFits
    <2> QED BY <1>1, <2>1, <2>2, <2>3 DEF Left, Away, s
  <1> QED BY <1>10, <1>11, <1>12, <1>13

\* The death of a process, whatever it was sending, keeps the invariant.
LEMMA Dies ==
  ASSUME NEW u, NEW ch, NEW cs, NEW th, Linked(u, ch, cs, th), NEW n \in Nodes,
         NEW cs1, DOMAIN cs1 = DOMAIN cs, \A d \in DOMAIN cs : Severed(cs[d], cs1[d], n)
  PROVE  Linked([u EXCEPT ![n] = FALSE], [ch EXCEPT ![n] = 0], Gone(n, cs1),
                [th EXCEPT ![n] = Idle])
  <1> DEFINE u2 == [u EXCEPT ![n] = FALSE]
             ch2 == [ch EXCEPT ![n] = 0]
             th2 == [th EXCEPT ![n] = Idle]
             cs2 == Gone(n, cs1)
  <1>1. /\ u \in [Nodes -> BOOLEAN] /\ ch \in [Nodes -> Nat] /\ th = [m \in Nodes |-> th[m]]
        /\ \A m \in Nodes : Serves(m, th[m], u, cs)
        /\ \A d \in DOMAIN cs : Proper(d, cs[d], th, ch)
    BY DEF Linked
  <1>2. /\ u2 \in [Nodes -> BOOLEAN] /\ ch2 \in [Nodes -> Nat] /\ th2 = [m \in Nodes |-> th2[m]]
        /\ th2[n] = Idle /\ ch2[n] = 0
        /\ \A m \in Nodes : m # n => u2[m] = u[m] /\ th2[m] = th[m] /\ ch2[m] = ch[m]
    BY <1>1
  <1>3. SameBut(n, th, th2, ch, ch2) /\ ch2[n] \in Nat
    BY <1>2 DEF SameBut
  <1>4. /\ DOMAIN cs2 \subseteq DOMAIN cs
        /\ \A d \in DOMAIN cs : d \in DOMAIN cs2 <=>
             \E e \in Roles : Closed(cs1[d], n).end[e] # "closed"
        /\ \A d \in DOMAIN cs2 : cs2[d] = Closed(cs1[d], n)
    BY DEF Gone
  <1> HIDE DEF u2, ch2, th2, cs2
  <1>5. \A d \in DOMAIN cs :
          /\ Left(cs[d], Closed(cs1[d], n), n)
          /\ \A e \in Roles : cs[d].at[e] # n /\ cs[d].end[e] = "run" =>
               Closed(cs1[d], n).end[e] = "run"
          /\ (\E e \in Roles : Closed(cs1[d], n).end[e] # "closed") =>
               Fits(Closed(cs1[d], n), th2, ch2)
    BY <1>3, ClosedLeft
  <1>6. \A m \in Nodes : Serves(m, th2[m], u2, cs2)
    <2> TAKE m \in Nodes
    <2>1. CASE m = n
      BY <1>2, <2>1 DEF Serves
    <2>2. CASE m # n
      <3>1. Serves(m, th[m], u, cs) /\ th2[m] = th[m] /\ u2[m] = u[m]
        BY <1>1, <1>2, <2>2
      <3>2. CASE th[m] = Idle
        BY <3>1, <3>2 DEF Serves
      <3>3. CASE th[m] # Idle
        <4> DEFINE d == th[m].c
                   e == th[m].role
        <4>1. /\ d \in DOMAIN cs /\ e \in Roles /\ cs[d].at[e] = m /\ cs[d].end[e] = "run"
              /\ th[m] \in [c : {d}, role : {e}, pc : Waits \union {"locked"}, left : Nat]
              /\ u[m] /\ (th[m].pc = "blocks" => th[m].left > 0)
          BY <3>1, <3>3 DEF Serves
        <4>2. Closed(cs1[d], n).end[e] = "run" /\ Closed(cs1[d], n).at = cs[d].at
          BY <1>5, <2>2, <4>1 DEF Left
        <4>3. d \in DOMAIN cs2 /\ cs2[d].end[e] = "run" /\ cs2[d].at[e] = m
          BY <1>4, <4>1, <4>2
        <4> QED BY <3>1, <4>1, <4>3 DEF Serves
      <3> QED BY <3>2, <3>3
    <2> QED BY <2>1, <2>2
  <1>7. \A d \in DOMAIN cs2 : Proper(d, cs2[d], th2, ch2)
    <2> TAKE d \in DOMAIN cs2
    <2>1. d \in DOMAIN cs /\ Left(cs[d], cs2[d], n) /\ Fits(cs2[d], th2, ch2)
      BY <1>4, <1>5
    <2>2. cs[d] \in Connections /\ Served(d, cs[d], th)
      BY <1>1, <2>1 DEF Proper
    <2>3. \A e \in Roles : cs[d].at[e] \in Nodes
      BY <2>2 DEF Connections
    <2>4. Served(d, cs2[d], th2)
      BY <1>2, <2>1, <2>2, <2>3 DEF Served, Left
    <2> QED BY <2>1, <2>4 DEF Proper, Left
  <1>8. Linked(u2, ch2, cs2, th2)
    BY <1>2, <1>6, <1>7 DEF Linked
  <1> QED BY <1>8 DEF u2, ch2, th2, cs2

-----------------------------------------------------------------------------
\* s is r after the handler at this end has read a message and sent msgs.
Sent(r, s, role, msgs) ==
  /\ s \in Connections
  /\ s.at = r.at /\ s.kind = r.kind /\ s.number = r.number /\ s.st = r.st /\ s.end = r.end
  /\ s.q[role] = Tail(r.q[role])
  /\ r.end[Other(role)] # "closed" =>
       (r.q[Other(role)] = << >> => s.q[Other(role)] = msgs) /\ s.rst = r.rst

\* What the handler n runs serves.
Serving(n, r, role) ==
  /\ thread[n].c \in DOMAIN conns /\ r = conns[thread[n].c] /\ role = thread[n].role
  /\ role \in Roles /\ r \in Connections /\ r.at[role] = n /\ r.end[role] = "run" /\ up[n]
  /\ Pc(r, role, thread) = thread[n].pc /\ thread[n].pc \in Waits \union {"locked"}
  /\ thread[n].left \in Nat /\ (thread[n].pc = "blocks" => thread[n].left > 0)
  /\ ConnOK(r.st, r.kind, r.number, r.rst, Pc(r, "ini", thread), Pc(r, "acc", thread),
            r.q["ini"], r.q["acc"], chain[r.at["ini"]])
  /\ r.number \in Nat /\ r.st \in {"syn", "open", "refused"}
  /\ r.q["ini"] \in Seq(Messages) /\ r.q["acc"] \in Seq(Messages)
  /\ r.at["ini"] \in Nodes /\ r.at["acc"] \in Nodes /\ chain[r.at["ini"]] \in Nat
  /\ \A e \in Roles : (Pc(r, e, thread) = "closed") <=> (r.end[e] = "closed")

Now == Linked(up, chain, conns, thread)

\* What a busy thread serves.
LEMMA BusyServes ==
  ASSUME Now, NEW n \in Nodes, Busy(n)
  PROVE  Serving(n, conns[thread[n].c], thread[n].role)
  <1> DEFINE t == thread[n]
             r == conns[t.c]
  <1>1. t # Idle
    BY DEF Busy, Idle
  <1>2. /\ t.c \in DOMAIN conns /\ t.role \in Roles /\ t.pc \in Waits \union {"locked"}
        /\ t.left \in Nat /\ up[n] /\ r.at[t.role] = n /\ r.end[t.role] = "run"
        /\ t.pc = "blocks" => t.left > 0
    BY <1>1 DEF Now, Linked, Serves
  <1>3. r \in Connections /\ Fits(r, thread, chain) /\ chain \in [Nodes -> Nat]
    BY <1>2 DEF Now, Linked, Proper
  <1>4. \A e \in Roles : (Pc(r, e, thread) = "closed") <=> (r.end[e] = "closed")
    <2> TAKE e \in Roles
    <2>1. /\ r.end[e] = "run" => Pc(r, e, thread) \in Waits \union {"locked"}
          /\ r.end[e] # "run" => Pc(r, e, thread) = r.end[e]
      BY <1>2, PcRuns DEF Now
    <2> QED BY <2>1 DEF Waits
  <1>5. Pc(r, t.role, thread) = t.pc
    BY <1>2 DEF Pc
  <1> QED BY <1>2, <1>3, <1>4, <1>5, RolesTwo DEF Serving, Fits, Connections

\* What a handler does to its connection in one step: it reads and it sends.
LEMMA RestSent ==
  ASSUME Now, NEW n \in Nodes, Busy(n), Unread(n) # << >>, NEW msgs \in Seq(Messages)
  PROVE  Sent(conns[thread[n].c], Send(Rest(n), thread[n].role, msgs), thread[n].role, msgs)
  <1> DEFINE role == thread[n].role
             r == conns[thread[n].c]
             rest == [r EXCEPT !.q[role] = Tail(@)]
             s == Send(rest, role, msgs)
  <1>1. r \in Connections /\ role \in Roles /\ r.q[role] # << >>
    BY BusyServes DEF Serving, Unread
  <1>2. Rest(n) = rest
    BY DEF Rest
  <1>3. /\ rest \in Connections
        /\ rest.at = r.at /\ rest.kind = r.kind /\ rest.number = r.number /\ rest.st = r.st
        /\ rest.end = r.end /\ rest.rst = r.rst
        /\ rest.q[role] = Tail(r.q[role]) /\ rest.q[Other(role)] = r.q[Other(role)]
    BY <1>1, RestFields
  <1> HIDE DEF rest
  <1>4. /\ s \in Connections
        /\ s.at = rest.at /\ s.kind = rest.kind /\ s.number = rest.number /\ s.st = rest.st
        /\ s.end = rest.end /\ s.q[role] = rest.q[role]
        /\ IF rest.end[Other(role)] = "closed"
             THEN s.q[Other(role)] = rest.q[Other(role)]
             ELSE s.q[Other(role)] = rest.q[Other(role)] \o msgs /\ s.rst = rest.rst
    BY <1>1, <1>3, SendFields
  <1>5. << >> \o msgs = msgs
    BY EmptyAppend
  <1> HIDE DEF s
  <1>6. Sent(r, s, role, msgs)
    BY <1>3, <1>4, <1>5 DEF Sent
  <1> QED BY <1>2, <1>6 DEF s

\* The connecting end of r may go on to wait at pc, having sent msgs.
IniMay(r, a, msgs, pc, k) ==
  \A rst, q :
    (a # "closed" => (r.q["acc"] = << >> => q = msgs) /\ rst = r.rst) =>
      ConnOK(r.st, r.kind, r.number, rst, pc, a, Tail(r.q["ini"]), q, k)

\* The accepting end may.
AccMay(r, i, msgs, pc, k) ==
  \A rst, q :
    (i # "closed" => (r.q["ini"] = << >> => q = msgs) /\ rst = r.rst) =>
      ConnOK(r.st, r.kind, r.number, rst, i, pc, q, Tail(r.q["acc"]), k)

\* The connections after n has read and sent msgs, ...
Went(n, msgs) == [conns EXCEPT ![thread[n].c] = Send(Rest(n), thread[n].role, msgs)]
\* ... and the threads when it then waits at pc.
Waiting(n, pc, left) ==
  [thread EXCEPT ![n] = [c |-> thread[n].c, role |-> thread[n].role, pc |-> pc, left |-> left]]

\* A busy node takes steps of its handler.
LEMMA BusySteps ==
  ASSUME Now, NEW n \in Nodes, Busy(n), NEW th2, th2 = [thread EXCEPT ![n] = th2[n]],
         NEW ch2 \in [Nodes -> Nat], \A m \in Nodes : m # n => ch2[m] = chain[m]
  PROVE  Steps(n, thread[n].c, thread[n].role, up, chain, conns, thread, th2, ch2)
  BY BusyServes DEF Serving, Steps, Now, AtMost

\* Where the two ends are after n's handler has gone on.
LEMMA SentPcs ==
  ASSUME Now, NEW n \in Nodes, Busy(n), NEW s,
         s.at = conns[thread[n].c].at, s.end = conns[thread[n].c].end,
         NEW th2, th2 = [thread EXCEPT ![n] = th2[n]]
  PROVE  /\ \A e \in Roles : e # thread[n].role =>
              Pc(s, e, th2) = Pc(conns[thread[n].c], e, thread)
         /\ Pc(s, thread[n].role, th2) = th2[n].pc
  <1> DEFINE c == thread[n].c
             role == thread[n].role
             r == conns[c]
  <1>1. Serving(n, r, role)
    BY BusyServes
  <1>2. Steps(n, c, role, up, chain, conns, thread, th2, chain)
    BY BusySteps DEF Now, Linked
  <1>3. Only(n, c, role, conns)
    BY <1>2, OneServed DEF Steps
  <1>4. \A m \in Nodes : m # n => th2[m] = thread[m]
    BY DEF Now, Linked
  <1>5. ASSUME NEW e \in Roles, e # role
        PROVE  Pc(s, e, th2) = Pc(r, e, thread)
    <2>1. s.end[e] = r.end[e] /\ s.at[e] = r.at[e] /\ r.at[e] \in Nodes
      BY <1>1, RolesTwo DEF Serving
    <2>2. r.end[e] = "run" => r.at[e] # n
      BY <1>1, <1>3, <1>5 DEF Only, Serving
    <2> QED BY <1>4, <2>1, <2>2 DEF Pc
  <1>6. Pc(s, role, th2) = th2[n].pc
    BY <1>1 DEF Serving, Pc
  <1> QED BY <1>5, <1>6

\* A handler that reads, sends and waits again keeps the invariant if ConnOK allows it.
LEMMA GoesOn ==
  ASSUME Now, NEW n \in Nodes, Busy(n), Unread(n) # << >>, NEW msgs \in Seq(Messages),
         NEW pc \in Waits \union {"locked"}, NEW left \in Nat, pc = "blocks" => left > 0,
         NEW ch2 \in [Nodes -> Nat], \A m \in Nodes : m # n => ch2[m] = chain[m],
         LET r == conns[thread[n].c] IN
           IF thread[n].role = "ini"
             THEN IniMay(r, Pc(r, "acc", thread), msgs, pc, ch2[n])
             ELSE AccMay(r, Pc(r, "ini", thread), msgs, pc, ch2[r.at["ini"]])
  PROVE  Linked(up, ch2, Went(n, msgs), Waiting(n, pc, left))
  <1> DEFINE c == thread[n].c
             role == thread[n].role
             r == conns[c]
             s == Send(Rest(n), role, msgs)
             th2 == Waiting(n, pc, left)
  <1>1. Serving(n, r, role)
    BY BusyServes
  <1>2. Sent(r, s, role, msgs)
    BY RestSent
  <1>3. thread = [m \in Nodes |-> thread[m]]
    BY DEF Now, Linked
  <1>4. /\ th2 = [thread EXCEPT ![n] = th2[n]]
        /\ th2[n] = [c |-> c, role |-> role, pc |-> pc, left |-> left]
        /\ \A m \in Nodes : m # n => th2[m] = thread[m]
    BY <1>3 DEF Waiting
  <1> HIDE DEF s, th2
  <1>5. Steps(n, c, role, up, chain, conns, thread, th2, ch2)
    BY <1>4, BusySteps
  <1>6. s.at = r.at /\ s.end = r.end
    BY <1>2 DEF Sent
  <1>7. \A e \in Roles : e # role => Pc(s, e, th2) = Pc(r, e, thread)
    BY <1>4, <1>6, SentPcs
  <1>8. Pc(s, role, th2) = pc
    BY <1>4, <1>6, SentPcs
  <1>9. Fits(s, th2, ch2)
    <2>1. CASE role = "ini"
      <3>1. IniMay(r, Pc(r, "acc", thread), msgs, pc, ch2[n])
        BY <2>1
      <3>2. Pc(r, "acc", thread) # "closed" =>
              (r.q["acc"] = << >> => s.q["acc"] = msgs) /\ s.rst = r.rst
        BY <1>1, <1>2, <2>1, RolesTwo DEF Serving, Sent
      <3>3. ConnOK(r.st, r.kind, r.number, s.rst, pc, Pc(r, "acc", thread),
                   Tail(r.q["ini"]), s.q["acc"], ch2[n])
        BY <3>1, <3>2 DEF IniMay
      <3> QED BY <1>1, <1>2, <1>7, <1>8, <2>1, <3>3, RolesTwo DEF Fits, Sent, Serving
    <2>2. CASE role = "acc"
      <3>1. AccMay(r, Pc(r, "ini", thread), msgs, pc, ch2[r.at["ini"]])
        BY <2>2
      <3>2. Pc(r, "ini", thread) # "closed" =>
              (r.q["ini"] = << >> => s.q["ini"] = msgs) /\ s.rst = r.rst
        BY <1>1, <1>2, <2>2, RolesTwo DEF Serving, Sent
      <3>3. ConnOK(r.st, r.kind, r.number, s.rst, Pc(r, "ini", thread), pc,
                   s.q["ini"], Tail(r.q["acc"]), ch2[r.at["ini"]])
        BY <3>1, <3>2 DEF AccMay
      <3>4. Pc(s, "ini", th2) = Pc(r, "ini", thread) /\ Pc(s, "acc", th2) = pc
        BY <1>7, <1>8, <2>2, RolesTwo
      <3>5. /\ s.at = r.at /\ s.kind = r.kind /\ s.number = r.number /\ s.st = r.st
            /\ s.q["acc"] = Tail(r.q["acc"])
        BY <1>2, <2>2 DEF Sent
      <3> QED BY <3>3, <3>4, <3>5 DEF Fits
    <2> QED BY <1>1, <2>1, <2>2, RolesTwo DEF Serving
  <1>10. Linked(up, ch2, [conns EXCEPT ![c] = s], th2)
    <2>1. s \in Connections /\ s.at = r.at /\ s.end[role] = "run"
          /\ s.end[Other(role)] = r.end[Other(role)]
      BY <1>1, <1>2 DEF Sent, Serving
    <2>2. th2[n] \in [c : {c}, role : {role}, pc : Waits \union {"locked"}, left : Nat]
          /\ (th2[n].pc = "blocks" => th2[n].left > 0)
      BY <1>4
    <2> QED BY <1>5, <1>9, <2>1, <2>2, Stays
  <1> QED BY <1>10 DEF Went, s, th2

\* The accepting end of r may return, having sent msgs.
AccMayEnd(r, i, msgs, k) ==
  i # "closed" =>
    \A rst, qi, qa : (r.q["ini"] = << >> => qi = msgs) =>
      ConnOK(r.st, r.kind, r.number, rst, i, "closed", qi, qa, k)

\* The connections after n has read, sent msgs and returned.
Ended(n, msgs) ==
  Put(conns, thread[n].c, Close(Send(Rest(n), thread[n].role, msgs), thread[n].role))

\* A handler that reads, sends and returns keeps the invariant if ConnOK allows it.
LEMMA GoesOff ==
  ASSUME Now, NEW n \in Nodes, Busy(n), Unread(n) # << >>, NEW msgs \in Seq(Messages),
         NEW ch2 \in [Nodes -> Nat], \A m \in Nodes : m # n => ch2[m] = chain[m],
         LET r == conns[thread[n].c] IN
           IF thread[n].role = "ini" THEN r.end["acc"] = "closed"
             ELSE AccMayEnd(r, Pc(r, "ini", thread), msgs, ch2[r.at["ini"]])
  PROVE  Linked(up, ch2, Ended(n, msgs), [thread EXCEPT ![n] = Idle])
  <1> DEFINE c == thread[n].c
             role == thread[n].role
             r == conns[c]
             s == Send(Rest(n), role, msgs)
             shut == Close(s, role)
             th2 == [thread EXCEPT ![n] = Idle]
  <1>1. Serving(n, r, role)
    BY BusyServes
  <1>2. Sent(r, s, role, msgs)
    BY RestSent
  <1>3. Shut(s, shut, role)
    BY <1>1, <1>2, CloseShuts DEF Sent, Serving
  <1>4. thread = [m \in Nodes |-> thread[m]]
    BY DEF Now, Linked
  <1>5. /\ th2 = [thread EXCEPT ![n] = th2[n]] /\ th2[n] = Idle
        /\ \A m \in Nodes : m # n => th2[m] = thread[m]
    BY <1>4
  <1> HIDE DEF s, shut, th2
  <1>6. Steps(n, c, role, up, chain, conns, thread, th2, ch2)
    BY <1>5, BusySteps
  <1>7. Only(n, c, role, conns)
    BY <1>6, OneServed DEF Steps
  <1>8. /\ shut \in Connections /\ shut.at = r.at /\ shut.kind = r.kind
        /\ shut.number = r.number /\ shut.st = r.st /\ shut.end[role] = "closed"
        /\ shut.end[Other(role)] = r.end[Other(role)] /\ shut.q[Other(role)] = s.q[Other(role)]
    BY <1>1, <1>2, <1>3, RolesTwo DEF Sent, Shut, Serving
  <1>9. ASSUME shut.end[Other(role)] # "closed"
        PROVE  Fits(shut, th2, ch2)
    <2>1. role = "acc" /\ Other(role) = "ini" /\ r.end["ini"] # "closed"
      BY <1>1, <1>8, <1>9, RolesTwo DEF Serving
    <2>2. AccMayEnd(r, Pc(r, "ini", thread), msgs, ch2[r.at["ini"]])
      BY <2>1
    <2>3. Pc(r, "ini", thread) # "closed" /\ r.at["ini"] \in Nodes /\ r.at["acc"] \in Nodes
      BY <1>1, <2>1, RolesTwo DEF Serving
    <2>4. r.q["ini"] = << >> => shut.q["ini"] = msgs
      BY <1>2, <1>8, <2>1 DEF Sent
    <2>5. ConnOK(r.st, r.kind, r.number, shut.rst, Pc(r, "ini", thread), "closed",
                 shut.q["ini"], shut.q["acc"], ch2[r.at["ini"]])
      BY <2>2, <2>3, <2>4 DEF AccMayEnd
    <2>6. r.end["ini"] = "run" => r.at["ini"] # n
      BY <1>1, <1>7, <2>1, RolesTwo DEF Only, Serving
    <2>7. Pc(shut, "ini", th2) = Pc(r, "ini", thread)
      BY <1>5, <1>8, <2>1, <2>3, <2>6 DEF Pc
    <2>8. Pc(shut, "acc", th2) = "closed"
      BY <1>8, <2>1 DEF Pc
    <2> QED BY <1>8, <2>5, <2>7, <2>8 DEF Fits
  <1>10. Linked(up, ch2, Put(conns, c, shut), th2)
    BY <1>5, <1>6, <1>8, <1>9, Leaves
  <1> QED BY <1>10 DEF Ended, s, shut, th2

-----------------------------------------------------------------------------
\* n's handler, on the connecting end of r, reads a message at pc.
IniReads(n, r, pc, cmd) ==
  /\ Busy(n) /\ Unread(n) # << >> /\ thread[n].role = "ini" /\ r = conns[thread[n].c]
  /\ r.q["ini"] # << >> /\ Head(r.q["ini"]).cmd = cmd /\ Head(r.q["ini"]) = Head(Unread(n))
  /\ r.at["ini"] = n /\ chain[n] \in Nat /\ r.number \in Nat
  /\ r.q["ini"] \in Seq(Messages) /\ Head(Unread(n)) \in Messages
  /\ r.end["acc"] = "closed" <=> Pc(r, "acc", thread) = "closed"
  /\ ConnOK(r.st, r.kind, r.number, r.rst, pc, Pc(r, "acc", thread),
            r.q["ini"], r.q["acc"], chain[n])

\* It does on the accepting end.
AccReads(n, r, pc, cmd) ==
  /\ Busy(n) /\ Unread(n) # << >> /\ thread[n].role = "acc" /\ r = conns[thread[n].c]
  /\ r.q["acc"] # << >> /\ Head(r.q["acc"]).cmd = cmd /\ Head(r.q["acc"]) = Head(Unread(n))
  /\ r.at["acc"] = n /\ chain[r.at["ini"]] \in Nat /\ r.number \in Nat
  /\ Head(Unread(n)) \in Messages
  /\ r.end["ini"] = "closed" <=> Pc(r, "ini", thread) = "closed"
  /\ ConnOK(r.st, r.kind, r.number, r.rst, Pc(r, "ini", thread), pc,
            r.q["ini"], r.q["acc"], chain[r.at["ini"]])

\* That is what Receives says.
LEMMA ReceivesReads ==
  ASSUME Now, NEW n \in Nodes, NEW role, NEW pc \in Waits, NEW cmd, Receives(n, role, pc, cmd)
  PROVE  /\ role = "ini" => IniReads(n, conns[thread[n].c], pc, cmd)
         /\ role = "acc" => AccReads(n, conns[thread[n].c], pc, cmd)
  <1> DEFINE r == conns[thread[n].c]
  <1>1. Busy(n) /\ thread[n].role = role /\ thread[n].pc = pc
    BY DEF Receives, Busy, Waits
  <1>2. Serving(n, r, role)
    BY <1>1, BusyServes
  <1>3. /\ Unread(n) = r.q[role] /\ r.q[role] # << >> /\ Head(r.q[role]).cmd = cmd
        /\ Pc(r, role, thread) = pc
    BY <1>1, <1>2 DEF Receives, Unread, Serving
  <1>4. r.q[role] \in Seq(Messages)
    BY <1>2, RolesTwo DEF Serving
  <1>5. Head(r.q[role]) \in Messages
    BY <1>3, <1>4
  <1> HIDE DEF r
  <1>6. role = "ini" => IniReads(n, r, pc, cmd)
    BY <1>1, <1>2, <1>3, <1>4, <1>5, RolesTwo DEF IniReads, Serving
  <1>7. role = "acc" => AccReads(n, r, pc, cmd)
    BY <1>1, <1>2, <1>3, <1>4, <1>5, RolesTwo DEF AccReads, Serving
  <1> QED BY <1>6, <1>7 DEF r

\* Facts of types the lemmas above ask for.
LEMMA Typed ==
  /\ << >> \in Seq(Messages) /\ VerackVersion \in Seq(Messages)
  /\ VerackGetaddr \in Seq(Messages) /\ 0 \in Nat
  /\ \A list \in Seq(Nodes) : << Addr(list) >> \in Seq(Messages)
  /\ Now => chain \in [Nodes -> Nat]
  /\ \A pc \in {"first", "verack", "version", "getaddr", "addr", "getblocks", "inv", "blocks"} :
       pc \in Waits
  <1>1. << >> \in Seq(Messages)
    OBVIOUS
  <1> QED BY <1>1, Queues, OneAddr DEF Now, Linked, Waits

\* Each action keeps the invariant.
LEMMA AccVersionLinked ==
  ASSUME Now, NEW n \in Nodes, AccVersion(n)
  PROVE  Now'
  <1> DEFINE r == conns[thread[n].c]
  <1>1. AccReads(n, r, "first", "version")
    BY ReceivesReads DEF AccVersion, Waits
  <1>2. AccMay(r, Pc(r, "ini", thread), VerackVersion, "verack", chain[r.at["ini"]])
    BY <1>1, OKAccVersion DEF AccMay, AccReads
  <1>3. Linked(up, chain, Went(n, VerackVersion), Waiting(n, "verack", 0))
    BY <1>1, <1>2, Typed, GoesOn DEF AccReads
  <1> QED BY <1>3 DEF AccVersion, Goes, At, OnlySockets, Went, Waiting, Now, VerackVersion

LEMMA AccVerackLinked ==
  ASSUME Now, NEW n \in Nodes, AccVerack(n)
  PROVE  Now'
  <1> DEFINE r == conns[thread[n].c]
  <1>1. AccReads(n, r, "verack", "verack")
    BY ReceivesReads, Typed DEF AccVerack
  <1>2. AccMay(r, Pc(r, "ini", thread), << >>, "getaddr", chain[r.at["ini"]])
    BY <1>1, OKAccVerack DEF AccMay, AccReads
  <1>3. Linked(up, chain, Went(n, << >>), Waiting(n, "getaddr", 0))
    BY <1>1, <1>2, Typed, GoesOn DEF AccReads
  <1> QED BY <1>3 DEF AccVerack, Goes, At, OnlySockets, Went, Waiting, Now

LEMMA AccGetaddrLinked ==
  ASSUME Now, NEW n \in Nodes, AccGetaddr(n), peers[n] \in Seq(Nodes)
  PROVE  Now'
  <1> DEFINE r == conns[thread[n].c]
  <1>1. AccReads(n, r, "getaddr", "getaddr")
    BY ReceivesReads, Typed DEF AccGetaddr
  <1>2. AccMay(r, Pc(r, "ini", thread), << Addr(peers[n]) >>, "getblocks", chain[r.at["ini"]])
    BY <1>1, OKAccGetaddr DEF AccMay, AccReads
  <1>3. Linked(up, chain, Went(n, << Addr(peers[n]) >>), Waiting(n, "getblocks", 0))
    BY <1>1, <1>2, Typed, GoesOn DEF AccReads
  <1> QED BY <1>3 DEF AccGetaddr, Goes, At, Went, Waiting, Now

LEMMA AccInvLinked ==
  ASSUME Now, NEW n \in Nodes, AccInv(n)
  PROVE  Now'
  <1> DEFINE r == conns[thread[n].c]
             left == Amount(Head(Unread(n)))
  <1>1. AccReads(n, r, "first", "inv")
    BY ReceivesReads, Typed DEF AccInv
  <1>2. left = 1
    <2>1. Head(Unread(n)).amount = 1
      BY <1>1, AccShared DEF AccReads
    <2>2. 1 \notin WhiteSpace
      BY DEF WhiteSpace
    <2> QED BY <2>1, <2>2 DEF Amount
  <1>3. AccMay(r, Pc(r, "ini", thread), << >>, "blocks", chain[r.at["ini"]])
    BY <1>1, OKAccInv DEF AccMay, AccReads
  <1>4. Linked(up, chain, Went(n, << >>), Waiting(n, "blocks", 1))
    <2>1. 1 \in Nat /\ 1 > 0
      OBVIOUS
    <2> QED BY <1>1, <1>3, <2>1, Typed, GoesOn DEF AccReads
  <1> QED BY <1>2, <1>4 DEF AccInv, Goes, At, OnlySockets, Went, Waiting, Now

LEMMA IniVerackLinked ==
  ASSUME Now, NEW n \in Nodes, IniVerack(n)
  PROVE  Now'
  <1> DEFINE r == conns[thread[n].c]
  <1>1. IniReads(n, r, "verack", "verack")
    BY ReceivesReads, Typed DEF IniVerack
  <1>2. IniMay(r, Pc(r, "acc", thread), << >>, "version", chain[n])
    BY <1>1, OKIniVerack DEF IniMay, IniReads
  <1>3. Linked(up, chain, Went(n, << >>), Waiting(n, "version", 0))
    BY <1>1, <1>2, Typed, GoesOn DEF IniReads
  <1> QED BY <1>3 DEF IniVerack, Goes, At, OnlySockets, Went, Waiting, Now

LEMMA IniVersionLinked ==
  ASSUME Now, NEW n \in Nodes, IniVersion(n)
  PROVE  Now'
  <1> DEFINE r == conns[thread[n].c]
  <1>1. IniReads(n, r, "version", "version")
    BY ReceivesReads, Typed DEF IniVersion
  <1>2. IniMay(r, Pc(r, "acc", thread), VerackGetaddr, "addr", chain[n])
    BY <1>1, OKIniVersion DEF IniMay, IniReads
  <1>3. Linked(up, chain, Went(n, VerackGetaddr), Waiting(n, "addr", 0))
    BY <1>1, <1>2, Typed, GoesOn DEF IniReads
  <1> QED BY <1>3 DEF IniVersion, Goes, At, Went, Waiting, Now, VerackGetaddr

LEMMA IniAddrLinked ==
  ASSUME Now, NEW n \in Nodes, IniAddr(n)
  PROVE  Now'
  <1> DEFINE r == conns[thread[n].c]
             msgs == OneGetblocks(chain[n])
             list == Head(Unread(n)).list
             new == Restrict(list, {i \in DOMAIN list : list[i] \notin Range(peers[n])})
  <1>1. IniReads(n, r, "addr", "addr")
    BY ReceivesReads, Typed DEF IniAddr
  <1>2. IniMay(r, Pc(r, "acc", thread), msgs, "inv", chain[n])
    BY <1>1, OKIniAddr DEF IniMay, IniReads
  <1>3. Serving(n, r, "ini") /\ thread[n].role = "ini"
    BY <1>1, BusyServes DEF IniReads
  <1>4. Linked(up, chain, Went(n, msgs), Waiting(n, "inv", thread[n].left))
    <2>1. msgs \in Seq(Messages) /\ thread[n].left \in Nat
      BY <1>1, <1>3, NumberQueues DEF IniReads, Serving
    <2> QED BY <1>1, <1>2, <2>1, Typed, GoesOn DEF IniReads
  <1>5. Waiting(n, "inv", thread[n].left) = [thread EXCEPT ![n].pc = "inv"]
    <2>1. thread[n] \in [c : {thread[n].c}, role : Roles, pc : Waits \union {"locked"}, left : Nat]
      BY <1>1 DEF IniReads, Busy, Idle, Now, Linked, Serves
    <2>2. [thread[n] EXCEPT !.pc = "inv"] =
            [c |-> thread[n].c, role |-> thread[n].role, pc |-> "inv", left |-> thread[n].left]
      BY <2>1
    <2> QED BY <2>2 DEF Waiting
  <1>6. list \in Seq(Nodes)
    BY <1>1, MessagesShape DEF IniReads
  <1>7. \A i \in DOMAIN new : new[i] \in Nodes
    BY <1>6 DEF Restrict
  <1>8. /\ conns' = Connect(Went(n, msgs), n, new, "handshake", 0)
        /\ thread' = [thread EXCEPT ![n].pc = "inv"] /\ up' = up /\ chain' = chain
    BY <1>3 DEF IniAddr, Went, OneGetblocks
  <1> HIDE DEF new
  <1>9. Linked(up, chain, conns', thread')
    <2>1. Connected(Went(n, msgs), conns', n, new, "handshake", 0)
      BY <1>8, ConnectConnects
    <2>2. Linked(up, chain, Went(n, msgs), thread')
      BY <1>4, <1>5, <1>8
    <2> QED BY <1>7, <2>1, <2>2, Joins
  <1> QED BY <1>8, <1>9 DEF Now

LEMMA IniInvLinked ==
  ASSUME Now, NEW n \in Nodes, IniInv(n)
  PROVE  Now'
  <1> DEFINE r == conns[thread[n].c]
             inv == Head(Unread(n))
  <1>1. IniReads(n, r, "inv", "inv")
    BY ReceivesReads, Typed DEF IniInv
  <1>2. Amount(inv) \in Nat
    BY <1>1, MessagesShape DEF IniReads, Amount
  <1>3. CASE Amount(inv) > 0 /\ Goes(n, << >>, "blocks", Amount(inv))
    <2>1. IniMay(r, Pc(r, "acc", thread), << >>, "blocks", chain[n])
      BY <1>1, OKIniInv DEF IniMay, IniReads
    <2>2. Linked(up, chain, Went(n, << >>), Waiting(n, "blocks", Amount(inv)))
      BY <1>1, <1>2, <1>3, <2>1, Typed, GoesOn DEF IniReads
    <2> QED BY <1>3, <2>2 DEF IniInv, Goes, At, OnlySockets, Went, Waiting, Now
  <1>4. CASE Ends(n, << >>)
    <2>1. r.end["acc"] = "closed"
      BY <1>1 DEF IniReads, ConnOK, Unstarted, Talk
    <2>2. Linked(up, chain, Ended(n, << >>), [thread EXCEPT ![n] = Idle])
      BY <1>1, <2>1, Typed, GoesOff DEF IniReads
    <2> QED BY <1>4, <2>2 DEF IniInv, Ends, Return, OnlySockets, Ended, Now
  <1> QED BY <1>3, <1>4 DEF IniInv

\* An answer to getblocks, as the peer that asked needs it.
LEMMA AccAnswers ==
  ASSUME Now, NEW n \in Nodes, AccReads(n, conns[thread[n].c], "getblocks", "getblocks"),
         NEW msgs \in Seq(Messages), Announced(msgs, Head(Unread(n)).size),
         NEW ch2 \in [Nodes -> Nat], \A m \in Nodes : m # n => ch2[m] = chain[m]
  PROVE  Linked(up, ch2, Ended(n, msgs), [thread EXCEPT ![n] = Idle])
  <1> DEFINE r == conns[thread[n].c]
             k == chain[r.at["ini"]]
  <1>1. Serving(n, r, "acc") /\ thread[n].role = "acc" /\ Busy(n)
    BY BusyServes DEF AccReads
  <1>2. ASSUME Pc(r, "ini", thread) # "closed"
        PROVE  ch2[r.at["ini"]] = k /\ Head(Unread(n)).size = k
    <2> DEFINE i == Pc(r, "ini", thread)
    <2>0. /\ ConnOK(r.st, r.kind, r.number, r.rst, i, "getblocks", r.q["ini"], r.q["acc"], k)
          /\ r.q["acc"] # << >> /\ r.number \in Nat /\ k \in Nat
          /\ Head(r.q["acc"]) = Head(Unread(n)) /\ i # "closed"
      BY <1>2 DEF AccReads
    <2> HIDE DEF i, k, r
    <2>1. i = "inv" /\ r.q["acc"] = OneGetblocks(k)
      BY <2>0, AccAsked DEF Asked
    <2>7. Head(OneGetblocks(k)).size = k
      BY <2>0, NumberQueues
    <2>8. Head(Unread(n)).size = k
      BY <2>0, <2>1, <2>7
    <2> USE DEF i, k, r
    <2>2. r.end["ini"] = "run"
      BY <1>1, <2>1, RolesTwo DEF Pc, Connections, Serving
    <2>3. Steps(n, thread[n].c, "acc", up, chain, conns, thread, thread, chain)
      <3>1. thread = [m \in Nodes |-> thread[m]] /\ chain \in [Nodes -> Nat]
        BY DEF Now, Linked
      <3> QED BY <1>1, <3>1 DEF Serving, Steps, Now, AtMost
    <2>4. Only(n, thread[n].c, "acc", conns)
      BY <2>3, OneServed DEF Steps
    <2>5. r.at["ini"] # n
      BY <1>1, <2>2, <2>4, RolesTwo DEF Only, Serving
    <2>6. ch2[r.at["ini"]] = k
      BY <1>1, <2>5 DEF Serving
    <2> QED BY <2>6, <2>8
  <1>3. AccMayEnd(r, Pc(r, "ini", thread), msgs, ch2[r.at["ini"]])
    BY <1>2, OKAnswered DEF AccMayEnd, AccReads
  <1> QED BY <1>1, <1>3, GoesOff DEF AccReads

\* An announcement without blocks.
LEMMA OneAnnounces ==
  ASSUME NEW type \in {"block", "error"}, NEW amount \in Nat, NEW k
  PROVE  Announced(<< Inv(type, amount) >>, k) /\ << Inv(type, amount) >> \in Seq(Messages)
  <1>1. Inv(type, amount) \in Messages /\ Inv(type, amount).cmd = "inv"
    BY MessagesTyped
  <1>2. DOMAIN << >> = {}
    OBVIOUS
  <1>3. \A k2 : Blocks(<< >>, k2)
    BY <1>2 DEF Blocks
  <1> QED BY <1>1, <1>3, OneMessage DEF Announced

\* An announcement of the whole chain, with its blocks.
LEMMA AllAnnounced ==
  ASSUME NEW size \in Nat
  PROVE  LET msgs == << Inv("block", size) >> \o AllBlocks(size)
         IN  Announced(msgs, 0) /\ msgs \in Seq(Messages)
  <1> DEFINE all == AllBlocks(size)
             one == << Inv("block", size) >>
             msgs == one \o all
  <1>1. Inv("block", size) \in Messages /\ Inv("block", size).cmd = "inv"
    BY MessagesTyped
  <1>2. \A i \in 1 .. size : BlockMsg(i - 1, TRUE) \in Messages
    <2> TAKE i \in 1 .. size
    <2>1. i - 1 \in Nat /\ TRUE \in BOOLEAN
      OBVIOUS
    <2> QED BY <2>1, MessagesTyped
  <1>3. all \in Seq(Messages) /\ Len(all) = size /\ DOMAIN all = 1 .. size
        /\ \A i \in 1 .. size : all[i] = BlockMsg(i - 1, TRUE)
    <2>1. all = [i \in 1 .. size |-> BlockMsg(i - 1, TRUE)]
      BY DEF AllBlocks
    <2> HIDE DEF all
    <2>2. all \in [1 .. size -> Messages]
      BY <1>2, <2>1
    <2>3. all \in Seq(Messages)
      BY <2>2
    <2>4. Len(all) \in Nat /\ DOMAIN all = 1 .. Len(all) /\ DOMAIN all = 1 .. size
      BY <2>1, <2>3, LenProperties
    <2>5. Len(all) = size
      <3> DEFINE L == Len(all)
      <3>1. L \in Nat /\ 1 .. L = 1 .. size
        BY <2>4
      <3> HIDE DEF L
      <3>2. ~(L < size)
        <4>1. size \in 1 .. size => size \in 1 .. L
          BY <3>1
        <4> QED BY <3>1, <4>1
      <3>3. ~(size < L)
        <4>1. L \in 1 .. L => L \in 1 .. size
          BY <3>1
        <4> QED BY <3>1, <4>1
      <3> QED BY <3>1, <3>2, <3>3 DEF L
    <2> QED BY <2>1, <2>3, <2>4, <2>5
  <1>4. one \in Seq(Messages) /\ Len(one) = 1 /\ one[1] = Inv("block", size)
    BY <1>1
  <1> HIDE DEF all, one
  <1>5. /\ msgs \in Seq(Messages) /\ Len(msgs) = size + 1
        /\ msgs[1] = Inv("block", size)
        /\ \A i \in 1 .. size : msgs[i + 1] = all[i]
    <2>1. /\ msgs \in Seq(Messages) /\ Len(msgs) = Len(one) + Len(all)
          /\ \A j \in 1 .. Len(one) + Len(all) :
               msgs[j] = IF j <= Len(one) THEN one[j] ELSE all[j - Len(one)]
      BY <1>3, <1>4, ConcatProperties
    <2> HIDE DEF msgs
    <2>2. /\ Len(msgs) = size + 1
          /\ \A j \in 1 .. size + 1 : msgs[j] = IF j <= 1 THEN one[j] ELSE all[j - 1]
      BY <1>3, <1>4, <2>1
    <2>3. msgs[1] = Inv("block", size)
      BY <1>4, <2>2
    <2>4. ASSUME NEW i \in 1 .. size PROVE msgs[i + 1] = all[i]
      <3>1. i + 1 \in 1 .. size + 1 /\ ~(i + 1 <= 1) /\ i + 1 - 1 = i
        OBVIOUS
      <3> QED BY <2>2, <3>1
    <2> QED BY <2>1, <2>2, <2>3, <2>4
  <1> HIDE DEF msgs
  <1>6. msgs # << >> /\ Head(msgs) = Inv("block", size)
    BY <1>5
  <1>7. Blocks(Tail(msgs), 0)
    <2> SUFFICES ASSUME NEW j \in DOMAIN Tail(msgs)
                 PROVE  Tail(msgs)[j] = BlockMsg(0 + j - 1, TRUE)
      BY DEF Blocks
    <2>1. j \in 1 .. size /\ Tail(msgs)[j] = msgs[j + 1]
      BY <1>5
    <2>2. 0 + j - 1 = j - 1
      BY <2>1
    <2> QED BY <1>3, <1>5, <2>1, <2>2
  <1> QED BY <1>1, <1>5, <1>6, <1>7 DEF Announced, msgs, all, one

\* The answer to getblocks, in each of its four forms.
LEMMA AccGetblocksLinked ==
  ASSUME Now, NEW n \in Nodes, AccGetblocks(n)
  PROVE  Now'
  <1> DEFINE r == conns[thread[n].c]
             theirs == Head(Unread(n)).size
             size == chain[n] + CustomizeCount
             ch2 == [chain EXCEPT ![n] = size]
  <1>1. AccReads(n, r, "getblocks", "getblocks")
    BY ReceivesReads, Typed DEF AccGetblocks
  <1>2. /\ chain \in [Nodes -> Nat] /\ theirs \in Nat /\ chain[n] \in Nat /\ size \in Nat
    <2>1. chain \in [Nodes -> Nat]
      BY Typed
    <2>2. Head(Unread(n)) \in Messages /\ Head(Unread(n)).cmd = "getblocks"
      BY <1>1 DEF AccReads
    <2>3. theirs \in Nat
      BY <2>2, MessagesShape
    <2> QED BY <2>1, <2>3, CustomizeAssumption
  <1>3. CASE Goes(n, << >>, "locked", 0) /\ UNCHANGED chain
    <2>1. AccMay(r, Pc(r, "ini", thread), << >>, "locked", chain[r.at["ini"]])
      BY <1>1, OKAccLocked DEF AccMay, AccReads
    <2>2. Linked(up, chain, Went(n, << >>), Waiting(n, "locked", 0))
      BY <1>1, <1>2, <2>1, Typed, GoesOn DEF AccReads
    <2> QED BY <1>3, <2>2 DEF AccGetblocks, Goes, At, Went, Waiting, Now
  <1>4. CASE theirs = 0 /\ chain' = ch2 /\ Ends(n, << Inv("block", size) >> \o AllBlocks(size))
    <2> DEFINE msgs == << Inv("block", size) >> \o AllBlocks(size)
    <2>1. Announced(msgs, theirs) /\ msgs \in Seq(Messages)
      BY <1>2, <1>4, AllAnnounced
    <2>2. ch2 \in [Nodes -> Nat] /\ \A m \in Nodes : m # n => ch2[m] = chain[m]
      BY <1>2
    <2> HIDE DEF msgs, ch2
    <2>3. Linked(up, ch2, Ended(n, msgs), [thread EXCEPT ![n] = Idle])
      BY <1>1, <2>1, <2>2, AccAnswers
    <2> QED BY <1>4, <2>3 DEF AccGetblocks, Ends, Return, Ended, Now, msgs
  <1>5. ASSUME NEW type \in {"block", "error"}, NEW amount \in Nat,
               Ends(n, << Inv(type, amount) >>), chain' = chain
        PROVE  Now'
    <2> DEFINE msgs == << Inv(type, amount) >>
    <2>1. Announced(msgs, theirs) /\ msgs \in Seq(Messages)
      BY OneAnnounces
    <2> HIDE DEF msgs
    <2>2. Linked(up, chain, Ended(n, msgs), [thread EXCEPT ![n] = Idle])
      BY <1>1, <1>2, <2>1, AccAnswers
    <2> QED BY <1>5, <2>2 DEF AccGetblocks, Ends, Return, Ended, Now, msgs
  <1>6. CASE theirs > 0 /\ theirs <= chain[n] /\ UNCHANGED chain
             /\ Ends(n, << Inv("block", chain[n] - (theirs - 1) + 1) >>)
    <2>1. chain[n] - (theirs - 1) + 1 \in Nat
      BY <1>2, <1>6
    <2> QED BY <1>5, <1>6, <2>1
  <1>7. CASE Ends(n, << Inv("error", 0) >>) /\ UNCHANGED chain
    BY <1>5, <1>7, Typed
  <1> QED BY <1>3, <1>4, <1>6, <1>7 DEF AccGetblocks

\* A block of a synchronization is never refused, a shared one always is.
LEMMA ReceiveBlockLinked ==
  ASSUME Now, NEW n \in Nodes, ReceiveBlock(n)
  PROVE  Now' /\ (thread[n].role = "ini" => leaked' = leaked)
  <1> DEFINE r == conns[thread[n].c]
             left == thread[n].left
             b == Head(Unread(n))
             valid == b.valid /\ b.number = chain[n]
             ch2 == [chain EXCEPT ![n] = @ + 1]
  <1>1. PICK role \in Roles : Receives(n, role, "blocks", "block")
    BY DEF ReceiveBlock
  <1>2. /\ role = "ini" => IniReads(n, r, "blocks", "block")
        /\ role = "acc" => AccReads(n, r, "blocks", "block")
    BY <1>1, ReceivesReads, Typed
  <1>3. Busy(n) /\ Unread(n) # << >> /\ thread[n].role = role /\ thread[n].pc = "blocks"
    BY <1>1 DEF Receives, Busy
  <1>4. left \in Nat /\ left > 0 /\ chain[n] \in Nat /\ chain \in [Nodes -> Nat]
    BY <1>3, BusyServes, Typed DEF Serving
  <1>5. ch2 \in [Nodes -> Nat] /\ ch2[n] = chain[n] + 1
        /\ \A m \in Nodes : m # n => ch2[m] = chain[m]
    BY <1>4
  <1> HIDE DEF ch2
  <1>6. left # 1 => left - 1 \in Nat /\ left - 1 > 0
    BY <1>4
  <1>7. CASE role = "ini"
    <2>1. /\ Pc(r, "acc", thread) = "closed" /\ b = BlockMsg(chain[n], TRUE)
          /\ IniMay(r, Pc(r, "acc", thread), << >>, "blocks", chain[n] + 1)
          /\ IniMay(r, Pc(r, "acc", thread), << >>, "locked", chain[n])
      <3> DEFINE a == Pc(r, "acc", thread)
                 k == chain[n]
      <3>1. /\ ConnOK(r.st, r.kind, r.number, r.rst, "blocks", a, r.q["ini"], r.q["acc"], k)
            /\ r.q["ini"] # << >> /\ r.q["ini"] \in Seq(Messages) /\ k \in Nat
            /\ Head(r.q["ini"]) = b
        BY <1>2, <1>7 DEF IniReads
      <3> HIDE DEF r, a, k, b
      <3>2. Wanted(a, r.q["ini"], k)
        BY <3>1, IniWanted
      <3>3. IniMay(r, a, << >>, "blocks", k + 1)
        BY <3>1, <3>2, OKIniBlock DEF IniMay
      <3>4. IniMay(r, a, << >>, "locked", k)
        BY <3>1, <3>2, OKIniLocked DEF IniMay
      <3>5. a = "closed" /\ b = BlockMsg(k, TRUE)
        BY <3>1, <3>2 DEF Wanted
      <3> QED BY <3>3, <3>4, <3>5 DEF r, a, k, b
    <2>2. valid
      <3>1. BlockMsg(chain[n], TRUE).valid = TRUE /\ BlockMsg(chain[n], TRUE).number = chain[n]
        BY DEF BlockMsg
      <3> QED BY <2>1, <3>1
    <2>3. r.end["acc"] = "closed"
      BY <1>2, <1>7, <2>1 DEF IniReads
    <2>4. CASE leaked[n]
      <3>1. Goes(n, << >>, "locked", left) /\ UNCHANGED << chain, leaked >>
        BY <2>2, <2>4 DEF ReceiveBlock
      <3>2. Linked(up, chain, Went(n, << >>), Waiting(n, "locked", left))
        BY <1>3, <1>4, <1>7, <2>1, Typed, GoesOn
      <3> QED BY <3>1, <3>2 DEF ReceiveBlock, Goes, At, Went, Waiting, Now
    <2>5. CASE ~leaked[n]
      <3>1. /\ IF left = 1 THEN Ends(n, << >>) ELSE Goes(n, << >>, "blocks", left - 1)
            /\ chain' = ch2 /\ UNCHANGED << leaked, up >>
        BY <2>2, <2>5 DEF ReceiveBlock, ch2
      <3>2. CASE left = 1
        <4>1. Linked(up, ch2, Ended(n, << >>), [thread EXCEPT ![n] = Idle])
          BY <1>3, <1>5, <1>7, <2>3, Typed, GoesOff
        <4> QED BY <3>1, <3>2, <4>1 DEF Ends, Return, Ended, Now
      <3>3. CASE left # 1
        <4>1. Linked(up, ch2, Went(n, << >>), Waiting(n, "blocks", left - 1))
          BY <1>3, <1>5, <1>6, <1>7, <2>1, <3>3, Typed, GoesOn
        <4> QED BY <3>1, <3>3, <4>1 DEF Goes, At, Went, Waiting, Now
      <3> QED BY <3>2, <3>3
    <2> QED BY <2>4, <2>5
  <1>8. CASE role = "acc"
    <2>1. /\ Pc(r, "ini", thread) = "closed" /\ b.valid = FALSE
          /\ AccMay(r, Pc(r, "ini", thread), << >>, "blocks", chain[r.at["ini"]])
      <3> DEFINE i == Pc(r, "ini", thread)
                 k == chain[r.at["ini"]]
      <3>1. /\ ConnOK(r.st, r.kind, r.number, r.rst, i, "blocks", r.q["ini"], r.q["acc"], k)
            /\ r.q["acc"] # << >> /\ r.number \in Nat /\ Head(r.q["acc"]) = b
        BY <1>2, <1>8 DEF AccReads
      <3> HIDE DEF r, i, k, b
      <3>2. Unwanted(i, r.q["acc"])
        BY <3>1, AccUnwanted
      <3>3. AccMay(r, i, << >>, "blocks", k)
        BY <3>1, <3>2, OKAccBlock DEF AccMay
      <3>4. i = "closed" /\ b.valid = FALSE
        BY <3>1, <3>2 DEF Unwanted
      <3> QED BY <3>3, <3>4 DEF r, i, k, b
    <2>2. /\ IF left = 1 THEN Ends(n, << >>) ELSE Goes(n, << >>, "blocks", left - 1)
          /\ UNCHANGED << chain, up >>
      BY <2>1 DEF ReceiveBlock
    <2>3. CASE left = 1
      <3>1. AccMayEnd(r, Pc(r, "ini", thread), << >>, chain[r.at["ini"]])
        BY <2>1 DEF AccMayEnd
      <3>2. Linked(up, chain, Ended(n, << >>), [thread EXCEPT ![n] = Idle])
        BY <1>3, <1>4, <1>8, <3>1, Typed, GoesOff
      <3> QED BY <1>3, <1>8, <2>2, <2>3, <3>2 DEF Ends, Return, Ended, Now
    <2>4. CASE left # 1
      <3>1. Linked(up, chain, Went(n, << >>), Waiting(n, "blocks", left - 1))
        BY <1>3, <1>4, <1>6, <1>8, <2>1, <2>4, Typed, GoesOn
      <3> QED BY <1>3, <1>8, <2>2, <2>4, <3>1 DEF Goes, At, Went, Waiting, Now
    <2> QED BY <2>3, <2>4
  <1> QED BY <1>7, <1>8, RolesTwo

-----------------------------------------------------------------------------
\* A node that is idle, or serves this end of c, may serve it on.
LEMMA MaySteps ==
  ASSUME Now, NEW n \in Nodes, up[n], NEW c \in DOMAIN conns, NEW role \in Roles,
         conns[c].at[role] = n, AtMost(n, c, role, thread[n]),
         NEW th2, th2 = [thread EXCEPT ![n] = th2[n]]
  PROVE  Steps(n, c, role, up, chain, conns, thread, th2, chain)
  BY Typed DEF Steps, Now

\* ... or close its end.
LEMMA PutsOff ==
  ASSUME Now, NEW n \in Nodes, up[n], NEW c \in DOMAIN conns, NEW role \in Roles,
         conns[c].at[role] = n, AtMost(n, c, role, thread[n]),
         NEW r \in Connections, r.at = conns[c].at,
         r.end[Other(role)] = conns[c].end[Other(role)],
         r.end[Other(role)] # "closed" => Fits(Close(r, role), [thread EXCEPT ![n] = Idle], chain)
  PROVE  Linked(up, chain, Put(conns, c, Close(r, role)), [thread EXCEPT ![n] = Idle])
  <1> DEFINE th2 == [thread EXCEPT ![n] = Idle]
             s == Close(r, role)
  <1>1. Shut(r, s, role)
    BY CloseShuts
  <1>2. thread = [m \in Nodes |-> thread[m]]
    BY DEF Now, Linked
  <1>3. th2[n] = Idle /\ th2 = [thread EXCEPT ![n] = th2[n]]
    BY <1>2
  <1>4. r.end[Other(role)] # "closed" => Fits(s, th2, chain)
    OBVIOUS
  <1> HIDE DEF th2, s
  <1>5. Steps(n, c, role, up, chain, conns, thread, th2, chain)
    BY <1>3, MaySteps
  <1>6. /\ s \in Connections /\ s.at = conns[c].at /\ s.end[role] = "closed"
        /\ s.end[Other(role)] = conns[c].end[Other(role)]
        /\ s.end[Other(role)] # "closed" => Fits(s, th2, chain)
    BY <1>1, <1>4 DEF Shut
  <1>7. Linked(up, chain, Put(conns, c, s), th2)
    BY <1>3, <1>5, <1>6, Leaves
  <1> QED BY <1>7 DEF s, th2

\* A receive only fails after the peer has closed its end.
LEMMA FailLinked ==
  ASSUME Now, NEW n \in Nodes, Fail(n)
  PROVE  Now' /\ conns[thread[n].c].end[Other(thread[n].role)] = "closed"
  <1> DEFINE c == thread[n].c
             role == thread[n].role
             r == conns[c]
  <1>1. Serving(n, r, role) /\ Busy(n)
    BY BusyServes DEF Fail
  <1>2. r.rst \/ r.end[Other(role)] = "closed"
    BY DEF Fail, PeerClosed
  <1>3. r.end[Other(role)] = "closed"
    <2>1. SUFFICES ASSUME r.end[Other(role)] # "closed" PROVE ~r.rst
      BY <1>2
    <2>2. Pc(r, "ini", thread) # "closed" /\ Pc(r, "acc", thread) # "closed"
      BY <1>1, <2>1, RolesTwo DEF Serving
    <2> QED BY <1>1, <2>2 DEF Serving, ConnOK
  <1>4. /\ c \in DOMAIN conns /\ role \in Roles /\ r \in Connections /\ up[n] /\ r.at[role] = n
        /\ AtMost(n, c, role, thread[n])
    BY <1>1 DEF Serving, AtMost
  <1>5. Linked(up, chain, Put(conns, c, Close(r, role)), [thread EXCEPT ![n] = Idle])
    BY <1>3, <1>4, PutsOff
  <1> QED BY <1>3, <1>5 DEF Fail, Return, OnlySockets, Now

\* A connection no handler serves yet at this end, and what it holds.
LEMMA Unserved ==
  ASSUME Now, NEW n \in Nodes, AtIdle(n), NEW c \in DOMAIN conns, NEW role \in Roles,
         conns[c].at[role] = n
  PROVE  LET r == conns[c] IN
         /\ up[n] /\ thread[n] = Idle /\ AtMost(n, c, role, thread[n])
         /\ r \in Connections /\ Fits(r, thread, chain)
         /\ r.number \in Nat /\ r.at["ini"] \in Nodes /\ r.at["acc"] \in Nodes
         /\ chain[r.at["ini"]] \in Nat /\ thread = [m \in Nodes |-> thread[m]]
         /\ \A e \in Roles :
              /\ r.end[e] # "run" => Pc(r, e, thread) = r.end[e]
              /\ r.end[e] = "run" => Pc(r, e, thread) \in Waits \union {"locked"}
              /\ r.end[e] = "run" => r.at[e] # n
  <1> DEFINE r == conns[c]
  <1>1. up[n] /\ thread[n] = Idle
    <2>1. Serves(n, thread[n], up, conns)
      BY DEF Now, Linked
    <2> QED BY <2>1 DEF AtIdle, Busy, Serves, Waits
  <1>2. Proper(c, r, thread, chain) /\ chain \in [Nodes -> Nat]
        /\ thread = [m \in Nodes |-> thread[m]]
    BY DEF Now, Linked
  <1>3. \A e \in Roles :
          /\ r.end[e] # "run" => Pc(r, e, thread) = r.end[e]
          /\ r.end[e] = "run" => Pc(r, e, thread) \in Waits \union {"locked"}
    BY PcRuns DEF Now
  <1>4. \A e \in Roles : r.end[e] = "run" => r.at[e] # n
    BY <1>1, <1>2 DEF Proper, Served
  <1> QED BY <1>1, <1>2, <1>3, <1>4, RolesTwo DEF Proper, AtMost, Connections

\* The handlers that start.
LEMMA RunHandshakeLinked ==
  ASSUME Now, NEW n \in Nodes, NEW c \in DOMAIN conns, RunHandshake(n, c)
  PROVE  Now'
  <1> DEFINE r0 == conns[c]
             r == [r0 EXCEPT !.end["ini"] = "run"]
  <1>1. /\ AtIdle(n) /\ r0.at["ini"] = n /\ r0.end["ini"] = "new" /\ r0.kind = "handshake"
        /\ up' = up /\ chain' = chain
    BY DEF RunHandshake, OnlySockets
  <1>2. /\ up[n] /\ thread[n] = Idle /\ AtMost(n, c, "ini", thread[n])
        /\ r0 \in Connections /\ Fits(r0, thread, chain)
        /\ r0.number \in Nat /\ r0.at["acc"] \in Nodes
        /\ chain[n] \in Nat /\ thread = [m \in Nodes |-> thread[m]]
        /\ Pc(r0, "ini", thread) = "new"
        /\ r0.end["acc"] # "run" => Pc(r0, "acc", thread) = r0.end["acc"]
        /\ r0.end["acc"] = "run" => Pc(r0, "acc", thread) \in Waits \union {"locked"}
        /\ r0.end["acc"] = "run" => r0.at["acc"] # n
    BY <1>1, Unserved, RolesTwo
  <1>3. /\ r \in Connections /\ r.at = r0.at /\ r.kind = r0.kind /\ r.number = r0.number
        /\ r.st = r0.st /\ r.end["ini"] = "run" /\ r.end["acc"] = r0.end["acc"]
        /\ r.q = r0.q /\ r.rst = r0.rst
    BY <1>2, RolesTwo DEF Connections
  <1>4. ConnOK(r0.st, "handshake", r0.number, r0.rst, "new", Pc(r0, "acc", thread),
               r0.q["ini"], r0.q["acc"], chain[n])
    BY <1>1, <1>2 DEF Fits
  <1>5. CASE r.st = "refused" /\ Return(n, c, r, "ini")
    <2>1. r0.end["acc"] = "closed"
      BY <1>2, <1>3, <1>4, <1>5 DEF ConnOK, Waits
    <2> HIDE DEF r, r0
    <2>2. Linked(up, chain, Put(conns, c, Close(r, "ini")), [thread EXCEPT ![n] = Idle])
      BY <1>1, <1>2, <1>3, <2>1, PutsOff, RolesTwo DEF r0
    <2> QED BY <1>1, <1>5, <2>2 DEF Return, Now
  <1>6. CASE r.st = "open" /\ conns' = [conns EXCEPT ![c] = Send(r, "ini", << Version >>)]
             /\ At(n, c, "ini", "verack", 0)
    <2> DEFINE s == Send(r, "ini", OneVersion)
               th2 == [thread EXCEPT ![n] = [c |-> c, role |-> "ini", pc |-> "verack", left |-> 0]]
    <2> HIDE DEF r, r0
    <2>1. /\ s \in Connections
          /\ s.at = r.at /\ s.kind = r.kind /\ s.number = r.number /\ s.st = r.st
          /\ s.end = r.end /\ s.q["ini"] = r.q["ini"]
          /\ IF r.end["acc"] = "closed"
               THEN s.q["acc"] = r.q["acc"]
               ELSE s.q["acc"] = r.q["acc"] \o OneVersion /\ s.rst = r.rst
      <3>1. OneVersion \in Seq(Messages)
        BY Queues
      <3>2. r \in Connections /\ "ini" \in Roles /\ Other("ini") = "acc"
        BY <1>3, RolesTwo
      <3>3. /\ s \in Connections
            /\ s.at = r.at /\ s.kind = r.kind /\ s.number = r.number /\ s.st = r.st
            /\ s.end = r.end /\ s.q["ini"] = r.q["ini"]
            /\ IF r.end[Other("ini")] = "closed"
                 THEN s.q[Other("ini")] = r.q[Other("ini")]
                 ELSE s.q[Other("ini")] = r.q[Other("ini")] \o OneVersion /\ s.rst = r.rst
        BY <3>1, <3>2, SendFields
      <3> HIDE DEF s
      <3> QED BY <3>2, <3>3
    <2>2. << >> \o OneVersion = OneVersion
      BY EmptyAppend, Queues
    <2>3. /\ th2[n] = [c |-> c, role |-> "ini", pc |-> "verack", left |-> 0]
          /\ th2 = [thread EXCEPT ![n] = th2[n]] /\ \A m \in Nodes : m # n => th2[m] = thread[m]
      BY <1>2
    <2> HIDE DEF s, th2
    <2>4. Steps(n, c, "ini", up, chain, conns, thread, th2, chain)
      BY <1>1, <1>2, <2>3, MaySteps, RolesTwo DEF r0
    <2>5. Pc(s, "ini", th2) = "verack" /\ Pc(s, "acc", th2) = Pc(r0, "acc", thread)
      BY <1>1, <1>2, <1>3, <2>1, <2>3 DEF Pc
    <2>6. Pc(r0, "acc", thread) # "closed" =>
            (r0.q["acc"] = << >> => s.q["acc"] = OneVersion) /\ s.rst = r0.rst
      BY <1>2, <1>3, <2>1, <2>2
    <2>7. ConnOK(r0.st, "handshake", r0.number, s.rst, "verack", Pc(r0, "acc", thread),
                 r0.q["ini"], s.q["acc"], chain[n])
      BY <1>2, <1>3, <1>4, <1>6, <2>6, OKRunHandshake
    <2>8. Fits(s, th2, chain)
      BY <1>1, <1>3, <2>1, <2>5, <2>7 DEF Fits
    <2>9. Linked(up, chain, [conns EXCEPT ![c] = s], th2)
      <3>1. /\ s \in Connections /\ s.at = conns[c].at /\ s.end["ini"] = "run"
            /\ s.end[Other("ini")] = conns[c].end[Other("ini")]
        BY <1>3, <2>1, RolesTwo DEF r0
      <3>2. th2[n] \in [c : {c}, role : {"ini"}, pc : Waits \union {"locked"}, left : Nat]
            /\ th2[n].pc # "blocks"
        BY <2>3, Typed
      <3> QED BY <2>4, <2>8, <3>1, <3>2, Stays
    <2> QED BY <1>1, <1>6, <2>9 DEF At, Now, s, th2, OneVersion
  <1> QED BY <1>5, <1>6 DEF RunHandshake

LEMMA AcceptLinked ==
  ASSUME Now, NEW n \in Nodes, NEW c \in DOMAIN conns, Accept(n, c)
  PROVE  Now'
  <1> DEFINE r0 == conns[c]
             s == [r0 EXCEPT !.end["acc"] = "run"]
             th2 == [thread EXCEPT ![n] = [c |-> c, role |-> "acc", pc |-> "first", left |-> 0]]
  <1>1. /\ AtIdle(n) /\ r0.at["acc"] = n /\ r0.end["acc"] = "new" /\ r0.st = "open"
        /\ up' = up /\ chain' = chain /\ conns' = [conns EXCEPT ![c].end["acc"] = "run"]
        /\ thread' = th2
    BY DEF Accept, OnlySockets, At
  <1>2. /\ up[n] /\ thread[n] = Idle /\ AtMost(n, c, "acc", thread[n])
        /\ r0 \in Connections /\ Fits(r0, thread, chain)
        /\ r0.number \in Nat /\ r0.at["ini"] \in Nodes
        /\ chain[r0.at["ini"]] \in Nat /\ thread = [m \in Nodes |-> thread[m]]
        /\ Pc(r0, "acc", thread) = "new"
        /\ r0.end["ini"] # "run" => Pc(r0, "ini", thread) = r0.end["ini"]
        /\ r0.end["ini"] = "run" => r0.at["ini"] # n
    BY <1>1, Unserved, RolesTwo
  <1>3. /\ s \in Connections /\ s.at = r0.at /\ s.kind = r0.kind /\ s.number = r0.number
        /\ s.st = r0.st /\ s.end["acc"] = "run" /\ s.end["ini"] = r0.end["ini"]
        /\ s.q = r0.q /\ s.rst = r0.rst
    BY <1>2, RolesTwo DEF Connections
  <1>4. /\ th2[n] = [c |-> c, role |-> "acc", pc |-> "first", left |-> 0]
        /\ th2 = [thread EXCEPT ![n] = th2[n]] /\ \A m \in Nodes : m # n => th2[m] = thread[m]
    BY <1>2
  <1>5. conns' = [conns EXCEPT ![c] = s]
    BY <1>1
  <1> HIDE DEF s, th2, r0
  <1>6. Steps(n, c, "acc", up, chain, conns, thread, th2, chain)
    BY <1>1, <1>2, <1>4, MaySteps, RolesTwo DEF r0
  <1>7. Pc(s, "acc", th2) = "first" /\ Pc(s, "ini", th2) = Pc(r0, "ini", thread)
    BY <1>1, <1>2, <1>3, <1>4 DEF Pc
  <1>8. ConnOK(r0.st, r0.kind, r0.number, r0.rst, Pc(r0, "ini", thread), "new",
               r0.q["ini"], r0.q["acc"], chain[r0.at["ini"]])
    BY <1>2 DEF Fits
  <1>9. ConnOK(r0.st, r0.kind, r0.number, r0.rst, Pc(r0, "ini", thread), "first",
               r0.q["ini"], r0.q["acc"], chain[r0.at["ini"]])
    BY <1>1, <1>2, <1>8, OKAccept
  <1>10. Fits(s, th2, chain)
    BY <1>3, <1>7, <1>9 DEF Fits
  <1>11. Linked(up, chain, [conns EXCEPT ![c] = s], th2)
    <2>1. /\ s \in Connections /\ s.at = conns[c].at /\ s.end["acc"] = "run"
          /\ s.end[Other("acc")] = conns[c].end[Other("acc")]
      BY <1>3, RolesTwo DEF r0
    <2>2. th2[n] \in [c : {c}, role : {"acc"}, pc : Waits \union {"locked"}, left : Nat]
          /\ th2[n].pc # "blocks"
      BY <1>4, Typed
    <2> QED BY <1>6, <1>10, <2>1, <2>2, Stays
  <1> QED BY <1>1, <1>5, <1>11 DEF Now

\* A process dies, killed or of a share whose connect failed.
LEMMA DieLinked ==
  ASSUME Now, NEW n \in Nodes, NEW cs, DOMAIN cs = DOMAIN conns,
         \A d \in DOMAIN conns : Severed(conns[d], cs[d], n), Die(n, cs)
  PROVE  Now'
  <1>1. Linked([up EXCEPT ![n] = FALSE], [chain EXCEPT ![n] = 0], Gone(n, cs),
               [thread EXCEPT ![n] = Idle])
    BY Dies DEF Now
  <1> QED BY <1>1 DEF Now, Die

\* The handler of a share starts, and returns or takes the process down.
LEMMA RunShareLinked ==
  ASSUME Now, NEW n \in Nodes, NEW c \in DOMAIN conns, RunShare(n, c)
  PROVE  Now'
  <1> DEFINE r == conns[c]
             msgs == Shared(r.number)
             s == Send(r, "ini", msgs)
             x == Close(s, "ini")
             th2 == [thread EXCEPT ![n] = Idle]
  <1>1. /\ AtIdle(n) /\ r.at["ini"] = n /\ r.end["ini"] = "new" /\ r.kind = "share"
    BY DEF RunShare
  <1>2. /\ up[n] /\ thread[n] = Idle /\ AtMost(n, c, "ini", thread[n])
        /\ r \in Connections /\ Fits(r, thread, chain)
        /\ r.number \in Nat /\ r.at["acc"] \in Nodes
        /\ chain[n] \in Nat /\ thread = [m \in Nodes |-> thread[m]]
        /\ Pc(r, "ini", thread) = "new"
        /\ r.end["acc"] # "run" => Pc(r, "acc", thread) = r.end["acc"]
        /\ r.end["acc"] = "run" => Pc(r, "acc", thread) \in Waits \union {"locked"}
        /\ r.end["acc"] = "run" => r.at["acc"] # n
    BY <1>1, Unserved, RolesTwo
  <1>3. CASE r.end["acc"] = "closed" /\ Die(n, conns)
    <2>1. \A d \in DOMAIN conns : Severed(conns[d], conns[d], n)
      BY DEF Severed, Now, Linked, Proper
    <2> QED BY <1>3, <2>1, DieLinked
  <1>4. CASE r.st = "open" /\ Return(n, c, s, "ini") /\ UNCHANGED << up, chain, leaked, peers >>
    <2>1. msgs \in Seq(Messages)
      BY <1>2, NumberQueues
    <2>2. /\ s \in Connections
          /\ s.at = r.at /\ s.kind = r.kind /\ s.number = r.number /\ s.st = r.st
          /\ s.end = r.end /\ s.q["ini"] = r.q["ini"]
          /\ IF r.end[Other("ini")] = "closed"
               THEN s.q[Other("ini")] = r.q[Other("ini")]
               ELSE s.q[Other("ini")] = r.q[Other("ini")] \o msgs /\ s.rst = r.rst
      BY <1>2, <2>1, SendFields, RolesTwo
    <2>3. << >> \o msgs = msgs
      BY <2>1, EmptyAppend
    <2> HIDE DEF s
    <2>4. r.end["acc"] # "closed" /\ r.q["acc"] = << >> => s.q["acc"] = msgs
      <3> HIDE DEF r, msgs
      <3>1. r.end[Other("ini")] # "closed" => s.q[Other("ini")] = r.q[Other("ini")] \o msgs
        BY <2>2
      <3>2. Other("ini") = "acc"
        BY RolesTwo
      <3> QED BY <2>3, <3>1, <3>2
    <2>5. Shut(s, x, "ini")
      BY <2>2, CloseShuts, RolesTwo
    <2>6. ASSUME r.end["acc"] # "closed" PROVE Fits(x, th2, chain)
      <3>1. Pc(x, "ini", th2) = "closed" /\ Pc(x, "acc", th2) = Pc(r, "acc", thread)
        BY <1>2, <2>2, <2>5, RolesTwo DEF Pc, Shut
      <3>2. ConnOK("open", "share", r.number, r.rst, "new", Pc(r, "acc", thread),
                   r.q["ini"], r.q["acc"], chain[n])
        BY <1>1, <1>2, <1>4 DEF Fits
      <3>3. Pc(r, "acc", thread) # "closed"
        BY <1>2, <2>6 DEF Waits
      <3>4. r.q["acc"] = << >> => s.q["acc"] = Shared(r.number)
        BY <2>4, <2>6
      <3>5. ConnOK("open", "share", r.number, x.rst, "closed", Pc(r, "acc", thread),
                   x.q["ini"], s.q["acc"], chain[n])
        BY <1>2, <3>2, <3>3, <3>4, OKShared
      <3> HIDE DEF x, th2
      <3> QED BY <1>1, <1>4, <2>2, <2>5, <3>1, <3>5, RolesTwo DEF Fits, Shut
    <2>7. Linked(up, chain, Put(conns, c, x), th2)
      <3>1. s.at = conns[c].at /\ s.end[Other("ini")] = conns[c].end[Other("ini")]
            /\ "ini" \in Roles /\ Other("ini") = "acc"
        BY <2>2, RolesTwo
      <3>2. s.end[Other("ini")] # "closed" => Fits(Close(s, "ini"), [thread EXCEPT ![n] = Idle], chain)
        BY <2>6, <3>1
      <3> QED BY <1>1, <1>2, <2>2, <3>1, <3>2, PutsOff
    <2> QED BY <1>4, <2>7 DEF Return, Now
  <1> QED BY <1>3, <1>4 DEF RunShare, Shared

\* The network, the start of a process, the miner and a kill.
LEMMA EstablishLinked ==
  ASSUME Now, NEW c \in DOMAIN conns, Establish(c)
  PROVE  Now'
  <1> DEFINE r == conns[c]
             s == IF up[r.at["acc"]] THEN [r EXCEPT !.st = "open"]
                                     ELSE [r EXCEPT !.st = "refused", !.end["acc"] = "closed"]
             cs2 == [conns EXCEPT ![c] = s]
  <1>1. /\ r.st = "syn" /\ conns' = cs2 /\ up' = up /\ chain' = chain /\ thread' = thread
    BY DEF Establish
  <1>2. /\ r \in Connections /\ Fits(r, thread, chain) /\ Served(c, r, thread)
        /\ \A e \in Roles : r.end[e] = "run" => Pc(r, e, thread) \in Waits \union {"locked"}
    BY PcRuns DEF Now, Linked, Proper
  <1>3. r.end["ini"] = "new" /\ r.end["acc"] = "new"
    BY <1>1, <1>2, RolesTwo DEF Fits, ConnOK, Pc, Waits
  <1>4. /\ s \in Connections /\ s.at = r.at /\ s.kind = r.kind /\ s.number = r.number
        /\ s.rst = r.rst /\ s.q = r.q /\ s.end["ini"] = "new"
        /\ \/ s.st = "open" /\ s.end["acc"] = "new"
           \/ s.st = "refused" /\ s.end["acc"] = "closed"
    BY <1>2, <1>3, RolesTwo DEF Connections
  <1>5. cs2 = [conns EXCEPT ![c] = s]
    OBVIOUS
  <1> HIDE DEF s
  <1>6. Fits(s, thread, chain)
    <2>1. ConnOK("syn", r.kind, r.number, r.rst, "new", "new", r.q["ini"], r.q["acc"],
                 chain[r.at["ini"]])
      BY <1>1, <1>2, <1>3 DEF Fits, Pc
    <2>2. /\ ConnOK("open", r.kind, r.number, r.rst, "new", "new", r.q["ini"], r.q["acc"],
                    chain[r.at["ini"]])
          /\ ConnOK("refused", r.kind, r.number, r.rst, "new", "closed", r.q["ini"], r.q["acc"],
                    chain[r.at["ini"]])
      BY <2>1, OKEstablish
    <2> QED BY <1>4, <2>2 DEF Fits, Pc
  <1>7. Served(c, s, thread)
    BY <1>4, RolesTwo DEF Served
  <1>8. /\ DOMAIN cs2 = DOMAIN conns /\ cs2[c] = s
        /\ \A d \in DOMAIN conns : d # c => cs2[d] = conns[d]
    BY <1>5
  <1> HIDE DEF cs2
  <1>9. \A m \in Nodes : Serves(m, thread[m], up, cs2)
    <2> TAKE m \in Nodes
    <2>1. Serves(m, thread[m], up, conns)
      BY DEF Now, Linked
    <2> QED BY <1>3, <1>8, <2>1, RolesTwo DEF Serves
  <1>10. \A d \in DOMAIN cs2 : Proper(d, cs2[d], thread, chain)
    BY <1>4, <1>6, <1>7, <1>8 DEF Proper, Now, Linked
  <1>11. Linked(up, chain, cs2, thread)
    BY <1>9, <1>10 DEF Now, Linked
  <1> QED BY <1>1, <1>11 DEF Now

LEMMA StartLinked ==
  ASSUME Now, NEW n \in Nodes, Start(n)
  PROVE  Now'
  <1> DEFINE u2 == [up EXCEPT ![n] = TRUE]
             cs2 == Connect(conns, n, Hosts[n], "handshake", 0)
  <1>1. /\ up' = u2 /\ conns' = cs2 /\ chain' = chain /\ thread' = thread
    BY DEF Start
  <1>2. \A i \in DOMAIN Hosts[n] : Hosts[n][i] \in Nodes
    BY HostsAssumption
  <1>3. Connected(conns, cs2, n, Hosts[n], "handshake", 0)
    BY ConnectConnects
  <1> HIDE DEF cs2
  <1>4. Linked(up, chain, cs2, thread)
    BY <1>2, <1>3, Joins DEF Now
  <1>5. Linked(u2, chain, cs2, thread)
    BY <1>4 DEF Linked, Serves
  <1> QED BY <1>1, <1>5 DEF Now

LEMMA MinerSharesLinked ==
  ASSUME Now, NEW n \in Nodes, peers[n] \in Seq(Nodes), MinerShares(n)
  PROVE  Now'
  <1> DEFINE cs2 == Connect(conns, n, peers[n], "share", chain[n])
  <1>1. /\ up' = up /\ conns' = cs2 /\ chain' = chain /\ thread' = thread
    BY DEF MinerShares
  <1>2. \A i \in DOMAIN peers[n] : peers[n][i] \in Nodes
    OBVIOUS
  <1>3. Connected(conns, cs2, n, peers[n], "share", chain[n])
    BY ConnectConnects
  <1> HIDE DEF cs2
  <1>4. chain[n] \in Nat
    BY DEF Now, Linked
  <1>5. Linked(up, chain, cs2, thread)
    BY <1>2, <1>3, <1>4, Joins DEF Now
  <1> QED BY <1>1, <1>5 DEF Now

\* What a process was sending when it was killed is cut off somewhere.
LEMMA CutOffSevers ==
  ASSUME Now, NEW n \in Nodes, NEW cs \in CutOff(n)
  PROVE  DOMAIN cs = DOMAIN conns /\ \A d \in DOMAIN conns : Severed(conns[d], cs[d], n)
  <1>1. \A d \in DOMAIN conns : conns[d] \in Connections
    BY DEF Now, Linked, Proper
  <1>2. CASE ~Busy(n)
    BY <1>1, <1>2 DEF CutOff, Severed
  <1>3. CASE Busy(n)
    <2> DEFINE c == thread[n].c
               r == conns[c]
               role == thread[n].role
               other == Other(role)
    <2>1. /\ c \in DOMAIN conns /\ role \in Roles /\ r \in Connections /\ r.at[role] = n
          /\ r.end[role] = "run" /\ r.q[other] \in Seq(Messages) /\ other \in Roles
          /\ other # role
      BY <1>3, BusyServes, RolesTwo DEF Serving
    <2>2. PICK k \in 0 .. Len(r.q[other]) :
            cs = [conns EXCEPT ![c].q[other] = SubSeq(@, 1, k)]
      BY <1>3 DEF CutOff
    <2>3. SubSeq(r.q[other], 1, k) \in Seq(Messages)
      BY <2>1
    <2>4. DOMAIN cs = DOMAIN conns /\ cs[c] = [r EXCEPT !.q[other] = SubSeq(@, 1, k)]
          /\ \A d \in DOMAIN conns : d # c => cs[d] = conns[d]
      BY <2>1, <2>2
    <2>5. /\ cs[c] \in Connections
          /\ cs[c].at = r.at /\ cs[c].kind = r.kind /\ cs[c].number = r.number
          /\ cs[c].st = r.st /\ cs[c].end = r.end
          /\ cs[c].q[role] = r.q[role] /\ cs[c].q[other] = SubSeq(r.q[other], 1, k)
      <3>1. cs[c] = [r EXCEPT !.q[other] = SubSeq(r.q[other], 1, k)]
        BY <2>4
      <3> DEFINE q == SubSeq(r.q[other], 1, k)
      <3> HIDE DEF q, c, role, other, r
      <3>2. \A e \in Roles : r.q[e] \in Seq(Messages)
        BY <2>1 DEF Connections
      <3> QED BY <2>1, <2>3, <3>1, <3>2 DEF Connections, q
    <2>6. Cut(r.q[other], cs[c].q[other])
      BY <2>5 DEF Cut
    <2> HIDE DEF c
    <2>7. Severed(r, cs[c], n)
      BY <2>1, <2>5, <2>6 DEF Severed
    <2>8. \A d \in DOMAIN conns : d # c => Severed(conns[d], cs[d], n)
      BY <1>1, <2>4 DEF Severed
    <2> QED BY <2>4, <2>7, <2>8
  <1> QED BY <1>2, <1>3

LEMMA CrashLinked ==
  ASSUME Now, NEW n \in Nodes, Crash(n)
  PROVE  Now'
  <1>1. PICK cs \in CutOff(n) : Die(n, cs)
    BY DEF Crash
  <1>2. DOMAIN cs = DOMAIN conns /\ \A d \in DOMAIN conns : Severed(conns[d], cs[d], n)
    BY CutOffSevers
  <1> QED BY <1>1, <1>2, DieLinked

-----------------------------------------------------------------------------
\* The types of what the threads do not share.
Counted ==
  /\ leaked \in [Nodes -> BOOLEAN] /\ peers \in [Nodes -> Seq(Nodes)]
  /\ starts \in Nat /\ crashes \in Nat /\ mined \in Nat

\* The whole invariant.
IInv == Now /\ Counted

\* It holds at first ...
LEMMA InitIInv == Init => IInv
  <1> SUFFICES ASSUME Init PROVE IInv
    OBVIOUS
  <1>1. DOMAIN conns = {}
    BY DEF Init
  <1>2. Now
    BY <1>1 DEF Init, Now, Linked, Serves
  <1>3. Counted
    BY DEF Init, Counted
  <1> QED BY <1>2, <1>3 DEF IInv

\* ... and every step keeps it: what is linked, ...
LEMMA NextLinked ==
  ASSUME IInv, Next
  PROVE  Now'
  <1>1. Now /\ \A n \in Nodes : peers[n] \in Seq(Nodes)
    BY DEF IInv, Counted
  <1>2. CASE \E c \in DOMAIN conns : Establish(c)
    BY <1>1, <1>2, EstablishLinked
  <1>3. ASSUME NEW n \in Nodes, Start(n) \/ Crash(n) \/ MinerShares(n) \/ Run(n)
        PROVE  Now'
    <2>1. CASE Start(n)
      BY <1>1, <2>1, StartLinked
    <2>2. CASE Crash(n)
      BY <1>1, <2>2, CrashLinked
    <2>3. CASE MinerShares(n)
      BY <1>1, <2>3, MinerSharesLinked
    <2>4. CASE Run(n)
      BY <1>1, <2>4, RunHandshakeLinked, RunShareLinked, AcceptLinked DEF Run
    <2> QED BY <1>3, <2>1, <2>2, <2>3, <2>4
  <1>4. ASSUME NEW n \in Nodes, Handle(n)
        PROVE  Now'
    <2>1. CASE Fail(n)
      BY <1>1, <2>1, FailLinked
    <2>2. CASE AccVersion(n) \/ AccVerack(n) \/ AccInv(n)
      BY <1>1, <2>2, AccVersionLinked, AccVerackLinked, AccInvLinked
    <2>3. CASE AccGetaddr(n)
      BY <1>1, <2>3, AccGetaddrLinked
    <2>4. CASE AccGetblocks(n)
      BY <1>1, <2>4, AccGetblocksLinked
    <2>5. CASE IniVerack(n) \/ IniVersion(n) \/ IniInv(n)
      BY <1>1, <2>5, IniVerackLinked, IniVersionLinked, IniInvLinked
    <2>6. CASE IniAddr(n)
      BY <1>1, <2>6, IniAddrLinked
    <2>7. CASE ReceiveBlock(n)
      BY <1>1, <2>7, ReceiveBlockLinked
    <2> QED BY <1>4, <2>1, <2>2, <2>3, <2>4, <2>5, <2>6, <2>7 DEF Handle
  <1> QED BY <1>2, <1>3, <1>4 DEF Next

\* ... and the types.
LEMMA NextCounted ==
  ASSUME IInv, Next
  PROVE  Counted'
  <1>1. Now /\ Counted
    BY DEF IInv
  <1>2. CASE \E c \in DOMAIN conns : Establish(c)
    BY <1>1, <1>2 DEF Establish, Counted, counters
  <1>3. ASSUME NEW n \in Nodes, NEW cs, Die(n, cs)
        PROVE  leaked' \in [Nodes -> BOOLEAN] /\ peers' \in [Nodes -> Seq(Nodes)]
    BY <1>1, <1>3 DEF Die, Counted
  <1>4. ASSUME NEW n \in Nodes, Start(n) \/ Crash(n) \/ MinerShares(n) \/ Run(n)
        PROVE  Counted'
    <2>1. CASE Start(n) \/ MinerShares(n)
      BY <1>1, <2>1 DEF Start, MinerShares, Counted
    <2>2. CASE Crash(n)
      BY <1>1, <1>3, <2>2 DEF Crash, Counted
    <2>3. CASE Run(n)
      <3>1. PICK c \in DOMAIN conns : RunHandshake(n, c) \/ RunShare(n, c) \/ Accept(n, c)
        BY <2>3 DEF Run
      <3>2. CASE RunShare(n, c)
        BY <1>1, <1>3, <3>2 DEF RunShare, Counted, counters
      <3> QED BY <1>1, <3>1, <3>2 DEF RunHandshake, Accept, OnlySockets, Counted, counters
    <2> QED BY <1>4, <2>1, <2>2, <2>3
  <1>5. ASSUME NEW n \in Nodes, Handle(n)
        PROVE  Counted'
    <2>1. CASE AccGetaddr(n) \/ IniVersion(n)
      <3>1. Busy(n)
        BY <2>1 DEF AccGetaddr, IniVersion, Receives, Busy
      <3>2. Peer(n) \in Nodes
        BY <1>1, <3>1, BusyServes, RolesTwo DEF Peer, Serving
      <3>3. << Peer(n) >> \o peers[n] \in Seq(Nodes)
        BY <1>1, <3>2 DEF Counted
      <3>4. /\ peers' = [peers EXCEPT ![n] = << Peer(n) >> \o @]
            /\ leaked' = leaked /\ starts' = starts /\ crashes' = crashes /\ mined' = mined
        BY <2>1 DEF AccGetaddr, IniVersion, counters
      <3> QED BY <1>1, <3>3, <3>4 DEF Counted
    <2>2. CASE ReceiveBlock(n)
      BY <1>1, <2>2 DEF ReceiveBlock, Counted, counters
    <2>3. CASE ~(AccGetaddr(n) \/ IniVersion(n) \/ ReceiveBlock(n))
      <3>1. UNCHANGED << leaked, peers, starts, crashes, mined >>
        BY <1>5, <2>3 DEF Handle, Fail, AccVersion, AccVerack, AccInv, AccGetblocks, IniVerack,
           IniInv, IniAddr, OnlySockets, counters
      <3> QED BY <1>1, <3>1 DEF Counted
    <2> QED BY <2>1, <2>2, <2>3
  <1> QED BY <1>2, <1>4, <1>5 DEF Next

LEMMA StepIInv == IInv /\ [Next]_vars => IInv'
  <1> SUFFICES ASSUME IInv, [Next]_vars PROVE IInv'
    OBVIOUS
  <1>1. CASE Next
    BY <1>1, NextLinked, NextCounted DEF IInv
  <1>2. CASE UNCHANGED vars
    BY <1>2 DEF vars, counters, IInv, Counted, Now
  <1> QED BY <1>1, <1>2

\* The invariant holds of every behaviour; the theorems below follow from it.
THEOREM LinkedAlways == Spec => []IInv
  BY InitIInv, StepIInv, PTL DEF Spec

\* Every variable has its type, a thread and the end it serves name each other, and
\* who waits for blocks waits for one at least (server.cpp m_handshake and the two
\* loops over a count taken from the peer).
THEOREM TypeCorrect == Spec => []TypeOK
  <1>1. ASSUME IInv PROVE TypeOK
    <2>1. Now /\ Counted
      BY <1>1 DEF IInv
    <2>2. /\ up \in [Nodes -> BOOLEAN] /\ chain \in [Nodes -> Nat]
          /\ thread = [n \in Nodes |-> thread[n]]
          /\ \A n \in Nodes : Serves(n, thread[n], up, conns)
          /\ \A c \in DOMAIN conns : Proper(c, conns[c], thread, chain)
      BY <2>1 DEF Now, Linked
    <2>3. thread \in [Nodes -> [c : DOMAIN conns \union {Idle.c}, role : Roles,
                                pc : Waits \union {"idle", "locked"}, left : Nat]]
      <3> SUFFICES ASSUME NEW n \in Nodes
                   PROVE  thread[n] \in [c : DOMAIN conns \union {Idle.c}, role : Roles,
                                         pc : Waits \union {"idle", "locked"}, left : Nat]
        BY <2>2
      <3>1. CASE thread[n] = Idle
        BY <3>1 DEF Idle, Roles
      <3>2. CASE thread[n] # Idle
        BY <2>2, <3>2 DEF Serves
      <3> QED BY <3>1, <3>2
    <2>4. ASSUME NEW c \in DOMAIN conns
          PROVE  /\ conns[c] \in Connections
                 /\ \A role \in Roles : conns[c].end[role] = "run" =>
                      LET t == thread[conns[c].at[role]] IN
                        t.pc # "idle" /\ t.c = c /\ t.role = role
      <3>1. conns[c] \in Connections /\ Served(c, conns[c], thread)
        BY <2>2 DEF Proper
      <3>2. \A role \in Roles : conns[c].at[role] \in Nodes
        BY <3>1 DEF Connections
      <3>3. \A n \in Nodes : thread[n] # Idle => thread[n].pc # "idle"
        BY <2>2 DEF Serves, Waits
      <3> QED BY <3>1, <3>2, <3>3 DEF Served
    <2>5. ASSUME NEW n \in Nodes, Busy(n)
          PROVE  /\ up[n] /\ thread[n].c \in DOMAIN conns
                 /\ conns[thread[n].c].at[thread[n].role] = n
                 /\ conns[thread[n].c].end[thread[n].role] = "run"
                 /\ thread[n].pc = "blocks" => thread[n].left > 0
      <3>1. thread[n] # Idle
        BY <2>5 DEF Busy, Idle
      <3> QED BY <2>2, <3>1 DEF Serves
    <2> QED BY <2>1, <2>2, <2>3, <2>4, <2>5 DEF TypeOK, Counted
  <1> QED BY <1>1, LinkedAlways, PTL

\* What a connecting end finds to read is what it waits for, ...
LEMMA IniExpected ==
  ASSUME NEW st, NEW kind, NEW number, NEW rst, NEW i, NEW a, NEW qi \in Seq(Messages), NEW qa, NEW k,
         ConnOK(st, kind, number, rst, i, a, qi, qa, k), i \in Waits, qi # << >>
  PROVE  Head(qi).cmd = IF i = "blocks" THEN "block" ELSE i
  <1>1. CASE a # "closed"
    BY <1>1, Queues DEF ConnOK, Unstarted, Talk, One, Waits
  <1>2. CASE a = "closed" /\ i = "blocks"
    <2>1. Blocks(qi, k) /\ 1 \in DOMAIN qi /\ Head(qi) = qi[1]
      BY <1>2 DEF ConnOK, IniLeft, Waits
    <2> QED BY <1>2, <2>1 DEF Blocks, BlockMsg
  <1>3. CASE a = "closed" /\ i # "blocks"
    BY <1>3, Queues DEF ConnOK, IniLeft, Announced, One, Waits
  <1> QED BY <1>1, <1>2, <1>3

\* ... and what an accepting end does.
LEMMA AccExpected ==
  ASSUME NEW st, NEW kind, NEW number \in Nat, NEW rst, NEW i, NEW a, NEW qi, NEW qa, NEW k \in Nat,
         ConnOK(st, kind, number, rst, i, a, qi, qa, k), a \in Waits, qa # << >>
  PROVE  Head(qa).cmd \in Expected(a)
  <1>1. Expected(a) = IF a = "first" THEN {"version", "inv"}
                      ELSE IF a = "blocks" THEN {"block"} ELSE {a}
    BY DEF Expected
  <1>2. /\ Head(OneGetblocks(k)).cmd = "getblocks"
        /\ Head(Shared(number)).cmd = "inv" /\ Head(SharedBlock(number)).cmd = "block"
    BY NumberQueues
  <1>3. /\ Head(OneVersion).cmd = "version" /\ Head(OneVerack).cmd = "verack"
        /\ Head(OneGetaddr).cmd = "getaddr" /\ Head(VerackGetaddr).cmd = "verack"
    BY Queues
  <1>4. CASE i # "closed"
    <2>1. \/ a \in {"new", "first"} /\ qa = OneVersion
          \/ a = "verack" /\ qa = VerackGetaddr
          \/ a = "getaddr" /\ qa = OneGetaddr
          \/ a = "getblocks" /\ qa = OneGetblocks(k)
      BY <1>4 DEF ConnOK, Unstarted, Talk, Waits
    <2> QED BY <1>2, <1>3, <1>1, <2>1 DEF Waits
  <1>5. CASE i = "closed"
    <2>1. \/ a = "first" /\ qa \in {OneVersion, Shared(number)}
          \/ a = "verack" /\ qa \in {OneVerack, VerackGetaddr}
          \/ a = "getaddr" /\ qa = OneGetaddr
          \/ a = "getblocks" /\ Head(qa).cmd = "getblocks"
          \/ a = "blocks" /\ qa = SharedBlock(number)
      BY <1>5 DEF ConnOK, AccLeft, One, Waits
    <2> QED BY <1>2, <1>3, <1>1, <2>1
  <1> QED BY <1>4, <1>5

\* No assertion of a receive fails between nodes running this code, whoever was
\* killed in the middle of whatever it was sending (the asserts of m_handshake,
\* m_handle_version and m_handle_inv): no process aborts.
THEOREM ExpectedAlways == Spec => []AssertsHold
  <1>1. ASSUME IInv PROVE AssertsHold
    <2> SUFFICES ASSUME NEW n \in Nodes, Busy(n), thread[n].pc # "locked", Unread(n) # << >>
                 PROVE  Head(Unread(n)).cmd \in Expected(thread[n].pc)
      BY DEF AssertsHold
    <2> DEFINE r == conns[thread[n].c]
               role == thread[n].role
               pc == thread[n].pc
    <2>1. Serving(n, r, role) /\ Unread(n) = r.q[role]
      BY <1>1, BusyServes DEF IInv, Unread
    <2>2. pc \in Waits /\ Pc(r, role, thread) = pc
      BY <2>1 DEF Serving
    <2>3. Expected(pc) = IF pc = "first" THEN {"version", "inv"}
                         ELSE IF pc = "blocks" THEN {"block"} ELSE {pc}
      BY DEF Expected
    <2>4. CASE role = "ini"
      <3>1. Head(r.q["ini"]).cmd = IF pc = "blocks" THEN "block" ELSE pc
        BY <2>1, <2>2, <2>4, IniExpected DEF Serving
      <3>2. pc # "first"
        BY <2>1, <2>2, <2>4 DEF Serving, ConnOK, Unstarted, Talk, IniLeft, Waits
      <3> QED BY <2>1, <2>3, <2>4, <3>1, <3>2
    <2>5. CASE role = "acc"
      <3>1. /\ ConnOK(r.st, r.kind, r.number, r.rst, Pc(r, "ini", thread), pc,
                      r.q["ini"], r.q["acc"], chain[r.at["ini"]])
            /\ r.number \in Nat /\ chain[r.at["ini"]] \in Nat
        BY <2>1, <2>2, <2>5 DEF Serving
      <3>2. r.q["acc"] # << >>
        BY <2>1, <2>5
      <3> HIDE DEF r, pc
      <3>3. Head(r.q["acc"]).cmd \in Expected(pc)
        BY <2>2, <3>1, <3>2, AccExpected
      <3> QED BY <2>1, <2>5, <3>3 DEF pc
    <2> QED BY <2>1, <2>4, <2>5, RolesTwo DEF Serving
  <1> QED BY <1>1, LinkedAlways, PTL

\* Of two live ends one has something to read, or hangs in addBlock.
LEMMA TalkReads ==
  ASSUME NEW st, NEW kind, NEW number, NEW rst, NEW i, NEW a, NEW qi, NEW qa, NEW k \in Nat,
         ConnOK(st, kind, number, rst, i, a, qi, qa, k), i \notin {"new", "closed"}, a # "closed"
  PROVE  qi # << >> \/ qa # << >> \/ a = "locked"
  BY Queues, NumberQueues DEF ConnOK, Unstarted, Talk, One

\* Two handlers that talk to each other never both wait for the other: the order of
\* sends and receives of m_handshake and of m_handle_version fit each other.
THEOREM BothNeverWait == Spec => []NeverBothWait
  <1>1. ASSUME IInv PROVE NeverBothWait
    <2> SUFFICES ASSUME NEW c \in DOMAIN conns, \A role \in Roles : conns[c].end[role] = "run"
                 PROVE  \E role \in Roles :
                          conns[c].q[role] # << >> \/ thread[conns[c].at[role]].pc = "locked"
      BY DEF NeverBothWait
    <2> DEFINE r == conns[c]
    <2>1. r \in Connections /\ Fits(r, thread, chain) /\ chain \in [Nodes -> Nat]
      BY <1>1 DEF IInv, Now, Linked, Proper
    <2>2. \A role \in Roles : /\ Pc(r, role, thread) \in Waits \union {"locked"}
                              /\ Pc(r, role, thread) = thread[r.at[role]].pc
      BY <1>1, PcRuns DEF IInv, Now, Pc
    <2>3. chain[r.at["ini"]] \in Nat
      BY <2>1, RolesTwo DEF Connections
    <2>4. Pc(r, "ini", thread) \notin {"new", "closed"} /\ Pc(r, "acc", thread) # "closed"
      BY <2>2, RolesTwo DEF Waits
    <2>5. r.q["ini"] # << >> \/ r.q["acc"] # << >> \/ Pc(r, "acc", thread) = "locked"
      BY <2>1, <2>3, <2>4, TalkReads DEF Fits
    <2> QED BY <2>2, <2>5, RolesTwo
  <1> QED BY <1>1, LinkedAlways, PTL

\* No block of a synchronization is ever refused, so none leaks a hold of the
\* chain's mutex: what m_handle_version sends is what m_handshake's chain lacks.
THEOREM SyncRefusesNothing == Spec => SyncNeverRefused
  <1> DEFINE Kept == \A n \in Nodes : thread[n].role = "ini" /\ Busy(n) /\ up'[n]
                       => leaked'[n] = leaked[n]
  <1>1. ASSUME IInv, Next PROVE Kept
    <2> SUFFICES ASSUME NEW n \in Nodes, thread[n].role = "ini", Busy(n), up'[n]
                 PROVE  leaked'[n] = leaked[n]
      OBVIOUS
    <2>1. Now /\ up \in [Nodes -> BOOLEAN] /\ leaked \in [Nodes -> BOOLEAN]
      BY <1>1 DEF IInv, Counted, Now, Linked
    <2>2. ASSUME NEW m \in Nodes, NEW cs, Die(m, cs) PROVE leaked'[n] = leaked[n]
      BY <2>1, <2>2 DEF Die
    <2>3. CASE \E c \in DOMAIN conns : Establish(c)
      BY <2>3 DEF Establish
    <2>4. ASSUME NEW m \in Nodes, Start(m) \/ Crash(m) \/ MinerShares(m) \/ Run(m)
          PROVE  leaked'[n] = leaked[n]
      <3>1. CASE Start(m) \/ MinerShares(m)
        BY <3>1 DEF Start, MinerShares
      <3>2. CASE Crash(m)
        BY <2>2, <3>2 DEF Crash
      <3>3. CASE Run(m)
        BY <2>2, <3>3 DEF Run, RunHandshake, RunShare, Accept, OnlySockets
      <3> QED BY <2>4, <3>1, <3>2, <3>3
    <2>5. ASSUME NEW m \in Nodes, Handle(m) PROVE leaked'[n] = leaked[n]
      <3>1. CASE ReceiveBlock(m)
        <4>1. CASE m = n
          BY <2>1, <3>1, <4>1, ReceiveBlockLinked
        <4>2. CASE m # n
          BY <2>1, <3>1, <4>2 DEF ReceiveBlock
        <4> QED BY <4>1, <4>2
      <3>2. CASE ~ReceiveBlock(m)
        BY <2>5, <3>2 DEF Handle, Fail, AccVersion, AccVerack, AccGetaddr, AccInv, AccGetblocks,
           IniVerack, IniVersion, IniInv, IniAddr, OnlySockets
      <3> QED BY <3>1, <3>2
    <2> QED BY <1>1, <2>3, <2>4, <2>5 DEF Next
  <1>2. ASSUME IInv, [Next]_vars PROVE [Kept]_vars
    BY <1>1, <1>2
  <1> QED BY <1>2, LinkedAlways, PTL DEF Spec, SyncNeverRefused
=============================================================================
