-------------------------------- MODULE Wire --------------------------------
(***************************************************************************)
(* One connection on which a node announces transactions or blocks and     *)
(* sends them: server::share, or the answer to getblocks.  The sender's    *)
(* sends, the bytes under way, and the other node's connection::receive    *)
(* with m_handle_inv.  TCP keeps the order of the bytes, but a receive     *)
(* returns as soon as there are any, so it may return fewer than it asked  *)
(* for; connection::receive does not look at how many came.                *)
(***************************************************************************)
EXTENDS Codec

CONSTANTS
  CommandSize, \* bytes of a command (12)
  Name,        \* Name[c]: the bytes of command c, zero after its text
  Memory,      \* bytes a vector can have before new throws
  Letters,     \* what may be sent: [type |-> .., items |-> ..]
  MaxCuts      \* bound: how many receives may return fewer bytes

\* A command as text, with the zero it ends at.
Text(c) ==
  LET zero == CHOOSE i \in DOMAIN Name[c] : Name[c][i] = 0 /\ \A j \in 1 .. i - 1 : Name[c][j] # 0
  IN SubSeq(Name[c], 1, zero)

ASSUME WireSizes ==
  /\ CommandSize \in Nat /\ Memory \in Nat /\ MaxCuts \in Nat
  /\ DOMAIN Name = {"inv", "tx", "block"}
  /\ \A c \in DOMAIN Name :
       Name[c] \in [1 .. CommandSize -> Byte] /\ \E i \in DOMAIN Name[c] : Name[c][i] = 0
  /\ \A c, d \in DOMAIN Name : c # d => ~IsPrefix(Text(c), Name[d])
  /\ \A l \in Letters :
       /\ l.type \in {MsgTx, MsgBlock} /\ l.items # << >>
       /\ l.items \in Seq(IF l.type = MsgTx THEN TxType ELSE BlockType)

VARIABLES
  letter, \* what is sent
  sent,   \* how many of its sends are done
  link,   \* "open", "closed" by the sender when all is sent, or "lost"
  wire,   \* the bytes sent and not yet received
  at,     \* where the receiving handler is
  msg,    \* the locals of connection::receive: command, size, payload
  inv,    \* m_handle_inv: rows left, their bytes, type and items left of the row
  box,    \* what addTx or addBlock were called with
  cuts    \* history: which receives returned fewer bytes than asked for

vars == << letter, sent, link, wire, at, msg, inv, box, cuts >>

Reading == {"command", "size", "payload"}
Ends == {"ignored", "done", "threw", "aborted", "undefined", "hung"}

NoMsg == [command |-> "other", size |-> 0, payload |-> << >>]
NoInv == [rows |-> 0, rest |-> << >>, type |-> 0, left |-> 0]

ItemBytes(l, item) == IF l.type = MsgTx THEN TxBytes(item) ELSE BlockBytes(item)
ItemName(type) == IF type = MsgTx THEN "tx" ELSE "block"

\* The payload of a tx or a block message: its data with their length.
Wrapped(data) == IntBytes(Len(data)) \o data

\* connection::send: the command, the size, the payload.
SendsOf(command, payload) == << Name[command], IntBytes(Len(payload)), payload >>
SendsOfLetter == [l \in Letters |->
  SendsOf("inv", InvBytes(l.type, Len(l.items)))
    \o FlattenSeq([i \in DOMAIN l.items |->
                     SendsOf(ItemName(l.type), Wrapped(ItemBytes(l, l.items[i])))])]
Sends == SendsOfLetter[letter]

Init ==
  /\ letter \in Letters /\ sent = 0 /\ link = "open" /\ wire = << >>
  /\ at = "command" /\ msg = NoMsg /\ inv = NoInv /\ box = << >> /\ cuts = << >>

-----------------------------------------------------------------------------
\* One m_sock.send of the sender.
Send ==
  /\ link = "open" /\ sent < Len(Sends)
  /\ wire' = wire \o Sends[sent + 1]
  /\ sent' = sent + 1
  /\ UNCHANGED << letter, link, at, msg, inv, box, cuts >>

\* The sender's handler returns: the connection goes with its last pointer.
Close ==
  /\ link = "open" /\ sent = Len(Sends)
  /\ link' = "closed"
  /\ UNCHANGED << letter, sent, wire, at, msg, inv, box, cuts >>

\* The sender dies or the connection breaks, and what is under way is lost.
Break ==
  /\ link = "open"
  /\ link' = "lost"
  /\ wire' = << >>
  /\ UNCHANGED << letter, sent, at, msg, inv, box, cuts >>

-----------------------------------------------------------------------------
\* m_sock.receive of n bytes into a buffer that holds rest: bytes is what the
\* buffer holds after it.
Received(n, k, rest) == [i \in 1 .. n |-> IF i <= k THEN wire[i] ELSE rest[i]]

Receive(n, k) ==
  /\ k \in 0 .. n /\ k <= Len(wire) /\ (k = 0 => n = 0)
  /\ wire' = SubSeq(wire, k + 1, Len(wire))
  /\ cuts' = IF k < n THEN Append(cuts, at) ELSE cuts
  /\ Len(cuts') <= MaxCuts

\* char command[12] and uint32_t size are not initialised.  What std::string
\* makes of a command ends at its first zero; it is compared with the names.
TextOf(bytes) ==
  LET same == {c \in DOMAIN Name : IsPrefix(Text(c), bytes)}
  IN IF same = {} THEN "other" ELSE CHOOSE c \in same : TRUE

ReceiveCommand ==
  /\ at = "command"
  /\ \E k \in 0 .. CommandSize :
       /\ Receive(CommandSize, k)
       /\ \E rest \in [k + 1 .. CommandSize -> Byte] :
            msg' = [NoMsg EXCEPT !.command = TextOf(Received(CommandSize, k, rest))]
  /\ at' = "size"
  /\ UNCHANGED << letter, sent, link, inv, box >>

ReceiveSize ==
  /\ at = "size"
  /\ \E k \in 0 .. IntSize :
       /\ Receive(IntSize, k)
       /\ \E rest \in [k + 1 .. IntSize -> Byte] :
            msg' = [msg EXCEPT !.size = IntAt(Received(IntSize, k, rest), 0)]
  /\ at' = "payload"
  /\ UNCHANGED << letter, sent, link, inv, box >>

\* Mutant: a payload that is not initialised.
ReceivePayloadUnset ==
  /\ at = "payload" /\ msg.size <= Memory
  /\ \E k \in 0 .. msg.size :
       /\ Receive(msg.size, k)
       /\ msg' = [msg EXCEPT !.payload = Received(msg.size, k, [i \in 1 .. msg.size |-> 1])]
  /\ at' = IF inv = NoInv THEN "accept" ELSE "item"
  /\ UNCHANGED << letter, sent, link, inv, box >>

\* Mutant: the payload is read up to the end of the stream.
ReceivePayloadAtEnd ==
  /\ at = "payload" /\ msg.size <= Memory /\ link # "open"
  /\ \E k \in 0 .. msg.size :
       /\ Receive(msg.size, k)
       /\ msg' = [msg EXCEPT !.payload = Received(msg.size, k, Zeros(msg.size))]
  /\ at' = IF inv = NoInv THEN "accept" ELSE "item"
  /\ UNCHANGED << letter, sent, link, inv, box >>

\* payload(size) is all zeros.
ReceivePayload ==
  /\ at = "payload" /\ msg.size <= Memory
  /\ \E k \in 0 .. msg.size :
       /\ Receive(msg.size, k)
       /\ msg' = [msg EXCEPT !.payload = Received(msg.size, k, Zeros(msg.size))]
  /\ at' = IF inv = NoInv THEN "accept" ELSE "item"
  /\ UNCHANGED << letter, sent, link, inv, box >>

\* receive throws at the end of the stream, and new for a size no vector has.
ReceiveThrows ==
  /\ \/ at \in Reading /\ wire = << >> /\ link # "open" /\ (at = "payload" => msg.size > 0)
     \/ at = "payload" /\ msg.size > Memory
  /\ at' = "threw"
  /\ UNCHANGED << letter, sent, link, wire, msg, inv, box, cuts >>

-----------------------------------------------------------------------------
\* istream::read or >> of n bytes when s is all there is: the rest of the
\* variable is what it happened to hold.
Filled(s, n) ==
  IF Len(s) < n THEN {s \o junk : junk \in [1 .. n - Len(s) -> Byte]} ELSE {SubSeq(s, 1, n)}
From(s, p) == SubSeq(s, p + 1, Len(s))

\* m_handle_accept: the first message, and messages::create<inv> of it.
HandleAccept ==
  /\ at = "accept"
  /\ \/ /\ msg.command # "inv"
        /\ at' = "ignored" /\ inv' = inv
     \/ /\ msg.command = "inv"
        /\ \E bytes \in Filled(msg.payload, IntSize) :
             LET rows == IntAt(bytes, 0)
             IN IF rows * (IntSize + HashSize) > Memory
                  THEN at' = "threw" /\ inv' = inv
                  ELSE /\ at' = "row"
                       /\ inv' = [NoInv EXCEPT !.rows = rows, !.rest = From(msg.payload, IntSize)]
  /\ msg' = NoMsg
  /\ UNCHANGED << letter, sent, link, wire, box, cuts >>

\* m_handle_inv: the next row, as operator>> of inv_vect had read it.
NextRow ==
  /\ at = "row" /\ inv.rows > 0
  /\ LET hash == From(inv.rest, IntSize)
         bytes == Unspaced(hash)
         rows == [inv EXCEPT !.rows = @ - 1, !.rest = From(hash, HashEnd(hash))]
     IN \E type \in {IntAt(b, 0) : b \in Filled(inv.rest, IntSize)},
           amount \in {IntAt(b, 0) : b \in Filled(bytes, IntSize)} :
          IF type \in {MsgTx, MsgBlock} /\ amount > 0
            THEN /\ inv' = [rows EXCEPT !.type = type, !.left = amount]
                 /\ at' = "command"
            ELSE inv' = rows /\ at' = "row"
  /\ UNCHANGED << letter, sent, link, wire, msg, box, cuts >>

InvDone ==
  /\ at = "row" /\ inv.rows = 0
  /\ at' = "done"
  /\ UNCHANGED << letter, sent, link, wire, msg, inv, box, cuts >>

\* The vector of a tx or a block message: its size, then what there is of it.
DataOf(payload, size) == Cut(payload, IntSize, size)

Overrun(type, data) ==
  IF type = MsgTx THEN TxEnd(data, 0) > Len(data) ELSE BlockEnd(data) > Len(data)
Scanned(type, data) == IF type = MsgTx THEN TxAt(data, 0) ELSE BlockAt(data)

\* Mutant: the row is not left after its last item.
OneLessKeepsType(i) == [i EXCEPT !.left = @ - 1]
OneLess(i) == [i EXCEPT !.left = @ - 1, !.type = IF i.left = 1 THEN 0 ELSE @]

\* m_handle_inv: a message of the row.  Reading past its data is undefined.
\* addTx returns; addBlock may hang (AddBlockReturns of Node says when): at the
\* exclusive lock, after a hold leaked here or on another connection, or in the
\* loop of the root.  The rest of the letter is then never received.
HandleItem ==
  /\ at = "item"
  /\ \/ /\ msg.command # ItemName(inv.type)
        /\ at' = "aborted" /\ UNCHANGED << inv, box >>
     \/ /\ msg.command = ItemName(inv.type)
        /\ \E bytes \in Filled(msg.payload, IntSize) :
             LET size == IntAt(bytes, 0)
                 data == DataOf(msg.payload, size)
             IN \/ size > Memory /\ at' = "threw" /\ UNCHANGED << inv, box >>
                \/ size <= Memory /\ Overrun(inv.type, data)
                     /\ at' = "undefined" /\ UNCHANGED << inv, box >>
                \/ /\ size <= Memory /\ ~Overrun(inv.type, data)
                   /\ box' = Append(box, Scanned(inv.type, data))
                   /\ inv' = OneLess(inv)
                   /\ \/ at' = IF inv.left = 1 THEN "row" ELSE "command"
                      \/ inv.type = MsgBlock /\ at' = "hung"
  /\ msg' = NoMsg
  /\ UNCHANGED << letter, sent, link, wire, cuts >>

Receiver ==
  \/ ReceiveCommand \/ ReceiveSize \/ ReceivePayload \/ ReceiveThrows
  \/ HandleAccept \/ NextRow \/ InvDone \/ HandleItem

Next == Send \/ Close \/ Break \/ Receiver
Spec == Init /\ [][Next]_vars

\* The receiver's thread runs.  The sender may stop anywhere with the connection
\* open, for as long as it likes.
FairSpec == Spec /\ WF_vars(Receiver)

-----------------------------------------------------------------------------
(***************************************************************************)
(* Properties.                                                             *)
(***************************************************************************)

TypeOK ==
  /\ letter \in Letters /\ sent \in 0 .. Len(Sends)
  /\ link \in {"open", "closed", "lost"} /\ wire \in Seq(Byte)
  /\ at \in Reading \union {"accept", "row", "item"} \union Ends
  /\ msg.command \in DOMAIN Name \union {"other"} /\ msg.size \in 0 .. Power[IntSize] - 1
  /\ msg.payload \in Seq(Byte)
  /\ inv.rows \in Nat /\ inv.left \in Nat /\ (inv.left > 0 <=> inv.type # 0)
  /\ cuts \in Seq(Reading) /\ Len(cuts) <= MaxCuts

\* What is read back of an item: the numbers that fit into a uint32_t.
Kept == [i \in DOMAIN letter.items |->
           IF letter.type = MsgTx THEN TxKept(letter.items[i]) ELSE BlockKept(letter.items[i])]

\* A letter of which the reader expects what the writer wrote.
FramedLetters == {l \in Letters :
  /\ \A i \in DOMAIN l.items : IF l.type = MsgTx THEN TxFramed(l.items[i]) ELSE BlockFramed(l.items[i])
  /\ \A i \in DOMAIN SendsOfLetter[l] :
       Len(SendsOfLetter[l][i]) <= Memory /\ Len(SendsOfLetter[l][i]) < Power[IntSize]
  /\ Len(l.items) < Power[IntSize]
  /\ \A i \in DOMAIN IntBytes(Len(l.items)) : IntBytes(Len(l.items))[i] \notin Spaces}
Framed == letter \in FramedLetters

\* A connection that delivers: whatever the bytes of the sends come in, the
\* transactions and blocks of a framed letter are given to the chain in their
\* order, each once and with every field as sent, as long as no receive has
\* returned less than it was asked for (connection.cpp:10-14, server.cpp:193-224).
Promise == INSTANCE Delivery WITH
  letter <- Kept, box <- box, spoiled <- cuts # << >> \/ ~Framed
DeliverySpec == Promise!Spec

\* A letter whose sizes fit, and in whose payloads the name of its messages does
\* not stand behind the first byte, running into the next message or not.
PlainLetters == {l \in Letters :
  \A m \in 1 .. Len(l.items) + 1 :
    LET payload == SendsOfLetter[l][3 * m]
        name == ItemName(l.type)
    IN /\ Len(payload) < Power[IntSize]
       /\ \A p \in 1 .. Len(payload) - 1 :
            ~IsPrefix(Text(name), From(payload, p) \o Name[name])}

\* A payload that came short has zeros for the rest (connection.cpp:13): it may
\* make an item differ from the one sent, but only by zeros from some byte on.
\* Nothing of another message, or of the memory, gets into an item, and none is
\* made up of what the short payload leaves behind: that is read as a command,
\* and is none of a plain letter.
OnlyZeroed(seen, was) ==
  /\ Len(seen) <= Len(was)
  /\ \E k \in 0 .. Len(seen) : seen = SubSeq(was, 1, k) \o Zeros(Len(seen) - k)
ShortPayloadOnlyZeroes ==
  (\A i \in DOMAIN cuts : cuts[i] = "payload") /\ letter \in PlainLetters =>
    /\ Len(box) <= Len(letter.items)
    /\ \A i \in DOMAIN box :
         OnlyZeroed(ItemBytes(letter, box[i]), ItemBytes(letter, letter.items[i]))

\* The asserts of m_handle_inv hold (server.cpp:201, 216), nothing is read past
\* the end of a payload (transaction.cpp:157-192, which does not check), and the
\* handler ends by itself, unless a receive came short, the connection was lost,
\* or the letter is one the reader does not expect.
FailsOnlyForCause ==
  /\ at \in {"aborted", "undefined", "ignored"} => cuts # << >> \/ ~Framed
  /\ at = "threw" => cuts # << >> \/ ~Framed \/ link = "lost"

\* However far the sender of a framed letter comes before it stops, every item it
\* has sent whole is handed over: the receiver waits for what is not sent and for
\* nothing else, for each send anew.  Unless the connection is lost, a receive
\* comes short, or addBlock hangs.  There is no timeout (connection.cpp:8-14), so
\* nothing says that a receiver whose sender stopped returns.
SentWhole == SubSeq(Kept, 1, sent \div 3 - 1)
Arrives ==
  Framed => []<>(link = "lost" \/ cuts # << >> \/ at = "hung" \/ box = SentWhole)
=============================================================================
