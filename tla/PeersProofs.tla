---------------------------- MODULE PeersProofs ----------------------------
(***************************************************************************)
(* Who lists whom, and who is there, as long as no process is killed.      *)
(*                                                                         *)
(* That listing is mutual is not inductive: a handshake may fail between   *)
(* the two steps that list, and a share may find nobody.  The invariant    *)
(* AllAlive adds that whom a node lists is up; that the node an open       *)
(* connection leads to is up, and so is the one a share leads to, whose    *)
(* end is open until the share runs; that the connecting end of a          *)
(* handshake is never closed before the accepting one, which closes only   *)
(* when it was refused or both have listed each other; and how far each    *)
(* end is when it is listed.  Handshake's own invariant says which pcs     *)
(* and messages go together.                                               *)
(***************************************************************************)
EXTENDS HandshakeProofs

\* n lists m.
Listed(p, n, m) == m \in Range(p[n])

\* A handshake of n and m both of whose handlers run.
Talking(r, n, m) ==
  /\ r.kind = "handshake" /\ {r.at[role] : role \in Roles} = {n, m}
  /\ \A role \in Roles : r.end[role] = "run"

Talks(cs, n, m) == \E c \in DOMAIN cs : Talking(cs[c], n, m)

\* Where the connecting node is once both have listed each other.
Synchronizing == {"inv", "blocks", "locked"}

\* A connection whose ends are at i and a, as long as nobody was killed.
AliveAt(r, i, a, u, p) ==
  LET ini == r.at["ini"]
      acc == r.at["acc"]
  IN /\ u[ini] /\ (r.st = "open" => u[acc])
     /\ r.kind = "share" => u[acc] /\ (i = "new" => a # "closed")
     /\ r.kind = "handshake" =>
          /\ i # "closed"
          /\ a = "closed" => r.st = "refused" \/ i \in Synchronizing
          /\ i \in Synchronizing \union {"addr"} => Listed(p, ini, acc)
          /\ a \in {"getblocks", "locked"} => Listed(p, acc, ini)

Alive(r, th, u, p) == AliveAt(r, Pc(r, "ini", th), Pc(r, "acc", th), u, p)

\* Who lists a peer is listed there, or will be by the handshake under way.
Mutual(p, cs) ==
  \A n, m \in Nodes : Listed(p, n, m) => Listed(p, m, n) \/ Talks(cs, n, m)

\* The invariant: whom a node lists is up, every connection is alive, listing is mutual.
AllAlive(u, p, cs, th) ==
  /\ \A n, m \in Nodes : Listed(p, n, m) => u[m]
  /\ \A c \in DOMAIN cs : Alive(cs[c], th, u, p)
  /\ Mutual(p, cs)

\* A connection n has no end of does not see n's step.
LEMMA AliveFrame ==
  ASSUME NEW r \in Connections, NEW n, NEW th, NEW th2, NEW u, NEW p,
         Away(n, r), SameBut(n, th, th2, u, u), Alive(r, th, u, p)
  PROVE  Alive(r, th2, u, p)
  <1>1. r.at["ini"] \in Nodes /\ r.at["acc"] \in Nodes
    BY RolesTwo DEF Connections
  <1>2. Pc(r, "ini", th2) = Pc(r, "ini", th) /\ Pc(r, "acc", th2) = Pc(r, "acc", th)
    BY <1>1, RolesTwo DEF Pc, SameBut, Away
  <1> QED BY <1>2 DEF Alive

\* n's step leaves the other connections as they were.
LEMMA AliveOthers ==
  ASSUME NEW n, NEW c, NEW role, NEW u, NEW ch, NEW cs, NEW th, NEW th2, NEW ch2,
         Steps(n, c, role, u, ch, cs, th, th2, ch2), NEW p, AllAlive(u, p, cs, th),
         NEW d \in DOMAIN cs, d # c
  PROVE  Alive(cs[d], th2, u, p)
  <1>1. cs[d] \in Connections
    BY DEF Linked, Proper, Steps
  <1>2. Only(n, c, role, cs)
    BY OneServed DEF Steps
  <1>3. Away(n, cs[d])
    BY <1>2 DEF Only, Away
  <1>4. SameBut(n, th, th2, u, u)
    BY DEF SameBut, Steps, Linked
  <1> QED BY <1>1, <1>3, <1>4, AliveFrame DEF AllAlive

\* n's handler goes on, with its connection at r; ...
LEMMA AliveStays ==
  ASSUME NEW n, NEW c, NEW role, NEW u, NEW ch, NEW cs, NEW th, NEW th2, NEW ch2,
         Steps(n, c, role, u, ch, cs, th, th2, ch2), NEW p, AllAlive(u, p, cs, th),
         NEW r, r.at = cs[c].at, r.kind = cs[c].kind, r.end[role] = "run",
         r.end[Other(role)] = cs[c].end[Other(role)], Alive(r, th2, u, p)
  PROVE  AllAlive(u, p, [cs EXCEPT ![c] = r], th2)
  <1> DEFINE cs2 == [cs EXCEPT ![c] = r]
  <1>1. /\ c \in DOMAIN cs /\ role \in Roles
        /\ DOMAIN cs2 = DOMAIN cs /\ cs2[c] = r /\ \A d \in DOMAIN cs : d # c => cs2[d] = cs[d]
    BY DEF Steps
  <1> HIDE DEF cs2
  <1>2. \A d \in DOMAIN cs2 : Alive(cs2[d], th2, u, p)
    <2> TAKE d \in DOMAIN cs2
    <2>1. CASE d = c
      BY <1>1, <2>1
    <2>2. CASE d # c
      BY <1>1, <2>2, AliveOthers
    <2> QED BY <2>1, <2>2
  <1>3. \A a, b \in Nodes : Talks(cs, a, b) => Talks(cs2, a, b)
    <2> SUFFICES ASSUME NEW a \in Nodes, NEW b \in Nodes, NEW d \in DOMAIN cs, Talking(cs[d], a, b)
                 PROVE  Talking(cs2[d], a, b)
      BY <1>1 DEF Talks
    <2>1. CASE d = c
      BY <1>1, <2>1, RolesTwo DEF Talking
    <2>2. CASE d # c
      BY <1>1, <2>2
    <2> QED BY <2>1, <2>2
  <1>4. AllAlive(u, p, cs2, th2)
    BY <1>2, <1>3 DEF AllAlive, Mutual
  <1> QED BY <1>4 DEF cs2

\* ... it ends, with its end of r closed: whom it shook hands with lists it, and is
\* listed; ...
LEMMA AliveLeaves ==
  ASSUME NEW n, NEW c, NEW role, NEW u, NEW ch, NEW cs, NEW th, NEW th2, NEW ch2,
         Steps(n, c, role, u, ch, cs, th, th2, ch2), NEW p, AllAlive(u, p, cs, th),
         NEW r, r.end[role] = "closed", r.end[Other(role)] = cs[c].end[Other(role)],
         r.end[Other(role)] # "closed" =>
           /\ Alive(r, th2, u, p)
           /\ cs[c].kind = "handshake" /\ cs[c].end[role] = "run" =>
                Listed(p, cs[c].at["ini"], cs[c].at["acc"]) /\ Listed(p, cs[c].at["acc"], cs[c].at["ini"])
  PROVE  AllAlive(u, p, Put(cs, c, r), th2)
  <1> DEFINE cs2 == Put(cs, c, r)
  <1>1. c \in DOMAIN cs /\ role \in Roles
    BY DEF Steps
  <1>2. /\ r.end[Other(role)] = "closed" => DOMAIN cs2 = DOMAIN cs \ {c}
        /\ r.end[Other(role)] # "closed" => DOMAIN cs2 = DOMAIN cs /\ cs2[c] = r
        /\ \A d \in DOMAIN cs : d # c => d \in DOMAIN cs2 /\ cs2[d] = cs[d]
    BY <1>1, RolesTwo DEF Put
  <1> HIDE DEF cs2
  <1>3. \A d \in DOMAIN cs2 : Alive(cs2[d], th2, u, p)
    <2> TAKE d \in DOMAIN cs2
    <2>1. CASE d = c
      BY <1>2, <2>1
    <2>2. CASE d # c
      <3>1. d \in DOMAIN cs /\ cs2[d] = cs[d]
        BY <1>1, <1>2, <2>2
      <3> QED BY <2>2, <3>1, AliveOthers
    <2> QED BY <2>1, <2>2
  <1>4. \A a, b \in Nodes : Talks(cs, a, b) => Talks(cs2, a, b) \/ (Listed(p, a, b) /\ Listed(p, b, a))
    <2> SUFFICES ASSUME NEW a \in Nodes, NEW b \in Nodes, NEW d \in DOMAIN cs, Talking(cs[d], a, b)
                 PROVE  Talks(cs2, a, b) \/ (Listed(p, a, b) /\ Listed(p, b, a))
      BY DEF Talks
    <2>1. CASE d = c
      <3>1. /\ cs[c].kind = "handshake" /\ cs[c].end[role] = "run"
            /\ r.end[Other(role)] # "closed"
        BY <1>1, <2>1, RolesTwo DEF Talking
      <3>2. {cs[c].at["ini"], cs[c].at["acc"]} = {a, b}
        BY <2>1, RolesTwo DEF Talking
      <3>3. \/ a = cs[c].at["ini"] /\ b = cs[c].at["acc"]
            \/ a = cs[c].at["acc"] /\ b = cs[c].at["ini"]
        BY <3>2
      <3> QED BY <3>1, <3>3
    <2>2. CASE d # c
      BY <1>2, <2>2 DEF Talks
    <2> QED BY <2>1, <2>2
  <1>5. AllAlive(u, p, cs2, th2)
    BY <1>3, <1>4 DEF AllAlive, Mutual
  <1> QED BY <1>5 DEF cs2

\* ... n connects to others, which are up if it is to share with them.
LEMMA AliveJoins ==
  ASSUME NEW u, NEW p, NEW cs, NEW th, AllAlive(u, p, cs, th), NEW n \in Nodes, u[n],
         NEW ms, \A i \in DOMAIN ms : ms[i] \in Nodes,
         NEW kind \in {"handshake", "share"}, NEW number \in Nat,
         kind = "share" => \A i \in DOMAIN ms : u[ms[i]],
         NEW cs2, Connected(cs, cs2, n, ms, kind, number)
  PROVE  AllAlive(u, p, cs2, th)
  <1>1. \A d \in DOMAIN cs2 : Alive(cs2[d], th, u, p)
    <2> TAKE d \in DOMAIN cs2
    <2>1. CASE d \in DOMAIN cs
      BY <2>1 DEF Connected, AllAlive
    <2>2. CASE d \notin DOMAIN cs
      <3>1. PICK i \in DOMAIN ms : cs2[d] = Connection(n, ms[i], kind, number)
        BY <2>2 DEF Connected
      <3>2. IsNew(cs2[d], n, ms[i], kind, number)
        BY <3>1, NewConnection
      <3> QED BY <3>2 DEF Alive, AliveAt, Pc, IsNew, Synchronizing
    <2> QED BY <2>1, <2>2
  <1>2. \A a, b \in Nodes : Talks(cs, a, b) => Talks(cs2, a, b)
    BY DEF Talks, Connected
  <1> QED BY <1>1, <1>2 DEF AllAlive, Mutual

\* n lists m, the others what they did.
Adds(p, p2, n, m) == p2 = [p EXCEPT ![n] = << m >> \o @]
Grows(p, p2) == \A a, b \in Nodes : Listed(p, a, b) => Listed(p2, a, b)

\* n lists m, with whom it shakes hands.
LEMMA AliveLists ==
  ASSUME NEW u, NEW p \in [Nodes -> Seq(Nodes)], NEW cs, NEW th, AllAlive(u, p, cs, th),
         NEW ch, Linked(u, ch, cs, th), NEW n \in Nodes, NEW m \in Nodes, u[m], Talks(cs, n, m),
         NEW p2, Adds(p, p2, n, m)
  PROVE  AllAlive(u, p2, cs, th) /\ Listed(p2, n, m) /\ Grows(p, p2)
  <1>0. p2 = [p EXCEPT ![n] = << m >> \o @]
    BY DEF Adds
  <1>1. Range(p2[n]) = Range(p[n]) \union {m}
    <2> DEFINE q == p[n]
               q2 == << m >> \o q
    <2>1. q \in Seq(Nodes) /\ p2[n] = q2
      BY <1>0
    <2>2. /\ Len(q2) = Len(q) + 1 /\ q2[1] = m /\ \A i \in 1 .. Len(q) : q2[i + 1] = q[i]
          /\ DOMAIN q2 = 1 .. Len(q2) /\ DOMAIN q = 1 .. Len(q) /\ Len(q) \in Nat
      BY <2>1
    <2> HIDE DEF q, q2
    <2>3. \A x : x \in Range(q2) <=> x \in Range(q) \union {m}
      <3> TAKE x
      <3>1. ASSUME x \in Range(q2) PROVE x \in Range(q) \union {m}
        <4>1. PICK i \in 1 .. Len(q2) : x = q2[i]
          BY <2>2, <3>1 DEF Range
        <4>2. CASE i = 1
          BY <2>2, <4>1, <4>2
        <4>3. CASE i # 1
          <5>1. i - 1 \in 1 .. Len(q) /\ (i - 1) + 1 = i
            BY <2>2, <4>1, <4>3
          <5>2. q2[i] = q[i - 1]
            BY <2>2, <5>1
          <5> QED BY <2>2, <4>1, <5>1, <5>2 DEF Range
        <4> QED BY <4>2, <4>3
      <3>2. ASSUME x \in Range(q) PROVE x \in Range(q2)
        <4>1. PICK i \in 1 .. Len(q) : x = q[i]
          BY <2>2, <3>2 DEF Range
        <4>2. i + 1 \in 1 .. Len(q2) /\ q2[i + 1] = x
          BY <2>2, <4>1
        <4> QED BY <2>2, <4>2 DEF Range
      <3>3. m \in Range(q2)
        <4>1. 1 \in 1 .. Len(q2)
          BY <2>2
        <4> QED BY <2>2, <4>1 DEF Range
      <3> QED BY <3>1, <3>2, <3>3
    <2> QED BY <2>1, <2>3 DEF q
  <1>2. \A a \in Nodes : a # n => p2[a] = p[a]
    BY <1>0
  <1>3. \A a, b \in Nodes : Listed(p2, a, b) <=> Listed(p, a, b) \/ (a = n /\ b = m)
    BY <1>1, <1>2 DEF Listed
  <1>4. \A a, b \in Nodes : Listed(p2, a, b) => u[b]
    BY <1>3 DEF AllAlive
  <1>5. \A c \in DOMAIN cs : Alive(cs[c], th, u, p2)
    <2> TAKE c \in DOMAIN cs
    <2>1. cs[c].at["ini"] \in Nodes /\ cs[c].at["acc"] \in Nodes
      BY RolesTwo DEF Linked, Proper, Connections
    <2> QED BY <1>3, <2>1 DEF AllAlive, Alive, AliveAt
  <1>6. Mutual(p2, cs)
    BY <1>3 DEF AllAlive, Mutual
  <1> QED BY <1>3, <1>4, <1>5, <1>6 DEF AllAlive, Grows

-----------------------------------------------------------------------------
\* The state as it is, with p for the lists.
NowAlive(p) == Now /\ AllAlive(up, p, conns, thread)

\* s is r but for what is under way.
Kept(r, s) == s.at = r.at /\ s.kind = r.kind /\ s.st = r.st /\ s.end = r.end

\* The handler has read a message, sent msgs and waits at pc.
LEMMA AliveGoes ==
  ASSUME NEW p, NowAlive(p), NEW n \in Nodes, Busy(n), Unread(n) # << >>,
         NEW msgs \in Seq(Messages), NEW pc, NEW left,
         LET r == conns[thread[n].c] IN
           IF thread[n].role = "ini" THEN AliveAt(r, pc, Pc(r, "acc", thread), up, p)
                                     ELSE AliveAt(r, Pc(r, "ini", thread), pc, up, p)
  PROVE  AllAlive(up, p, Went(n, msgs), Waiting(n, pc, left))
  <1> DEFINE c == thread[n].c
             role == thread[n].role
             r == conns[c]
             s == Send(Rest(n), role, msgs)
             th2 == Waiting(n, pc, left)
  <1>1. Now /\ AllAlive(up, p, conns, thread)
    BY DEF NowAlive
  <1>2. Serving(n, r, role)
    BY <1>1, BusyServes
  <1>3. Sent(r, s, role, msgs)
    BY <1>1, RestSent
  <1>4. th2 = [thread EXCEPT ![n] = th2[n]] /\ th2[n].pc = pc
    BY <1>1 DEF Waiting, Now, Linked
  <1> HIDE DEF s, th2
  <1>5. Steps(n, c, role, up, chain, conns, thread, th2, chain)
    BY <1>1, <1>4, BusySteps DEF Now, Linked
  <1>6. s.at = r.at /\ s.end = r.end /\ s.kind = r.kind /\ s.st = r.st
    BY <1>3 DEF Sent
  <1>7. \A e \in Roles : e # role => Pc(s, e, th2) = Pc(r, e, thread)
    BY <1>1, <1>4, <1>6, SentPcs
  <1>8. Pc(s, role, th2) = pc
    BY <1>1, <1>4, <1>6, SentPcs
  <1>9. Alive(s, th2, up, p)
    <2>1. CASE role = "ini"
      <3>1. AliveAt(r, pc, Pc(r, "acc", thread), up, p)
        BY <2>1
      <3>2. Pc(s, "ini", th2) = pc /\ Pc(s, "acc", th2) = Pc(r, "acc", thread)
        BY <1>7, <1>8, <2>1, RolesTwo
      <3> QED BY <1>6, <3>1, <3>2 DEF Alive, AliveAt
    <2>2. CASE role = "acc"
      <3>1. AliveAt(r, Pc(r, "ini", thread), pc, up, p)
        BY <2>2
      <3>2. Pc(s, "ini", th2) = Pc(r, "ini", thread) /\ Pc(s, "acc", th2) = pc
        BY <1>7, <1>8, <2>2, RolesTwo
      <3> QED BY <1>6, <3>1, <3>2 DEF Alive, AliveAt
    <2> QED BY <1>2, <2>1, <2>2, RolesTwo DEF Serving
  <1>10. s.end[role] = "run" /\ s.end[Other(role)] = r.end[Other(role)]
    BY <1>2, <1>6 DEF Serving
  <1>11. AllAlive(up, p, [conns EXCEPT ![c] = s], th2)
    BY <1>1, <1>5, <1>6, <1>9, <1>10, AliveStays
  <1> QED BY <1>11 DEF Went, s, th2

\* The other end of n's connection is closed, or n answers the one who asked.
Parts(n, p) ==
  LET r == conns[thread[n].c] IN
    \/ r.end[Other(thread[n].role)] = "closed"
    \/ /\ thread[n].role = "acc" /\ r.kind = "handshake" /\ Pc(r, "ini", thread) = "inv"
       /\ Listed(p, r.at["ini"], r.at["acc"]) /\ Listed(p, r.at["acc"], r.at["ini"])

\* The handler ends: nobody waits for it any more, or the handshake is complete.
LEMMA AliveParts ==
  ASSUME NEW p, NowAlive(p), NEW n \in Nodes, Busy(n), Parts(n, p),
         NEW s, Kept(conns[thread[n].c], s), s \in Connections
  PROVE  AllAlive(up, p, Put(conns, thread[n].c, Close(s, thread[n].role)),
                [thread EXCEPT ![n] = Idle])
  <1> DEFINE c == thread[n].c
             role == thread[n].role
             r == conns[c]
             th2 == [thread EXCEPT ![n] = Idle]
             x == Close(s, role)
  <1>1. Now /\ AllAlive(up, p, conns, thread)
    BY DEF NowAlive
  <1>2. Serving(n, r, role)
    BY <1>1, BusyServes
  <1>3. th2[n] = Idle /\ th2 = [thread EXCEPT ![n] = th2[n]]
    BY <1>1 DEF Now, Linked
  <1>4. Shut(s, x, role)
    BY <1>2, CloseShuts DEF Serving
  <1> HIDE DEF th2, x
  <1>5. Steps(n, c, role, up, chain, conns, thread, th2, chain)
    BY <1>1, <1>3, BusySteps DEF Now, Linked
  <1>6. x.end[role] = "closed" /\ x.end[Other(role)] = r.end[Other(role)]
        /\ x.at = r.at /\ x.kind = r.kind /\ x.st = r.st
    BY <1>4 DEF Shut, Kept
  <1>7. x.end[Other(role)] # "closed" =>
          /\ Alive(x, th2, up, p)
          /\ r.kind = "handshake" /\ r.end[role] = "run" =>
               Listed(p, r.at["ini"], r.at["acc"]) /\ Listed(p, r.at["acc"], r.at["ini"])
    <2> SUFFICES ASSUME r.end[Other(role)] # "closed"
                 PROVE  /\ Alive(x, th2, up, p)
                        /\ Listed(p, r.at["ini"], r.at["acc"]) /\ Listed(p, r.at["acc"], r.at["ini"])
      BY <1>6
    <2>1. /\ role = "acc" /\ r.kind = "handshake" /\ Pc(r, "ini", thread) = "inv"
          /\ Listed(p, r.at["ini"], r.at["acc"]) /\ Listed(p, r.at["acc"], r.at["ini"])
      BY DEF Parts
    <2>2. Pc(r, "acc", thread) # "closed"
      BY <1>2, <2>1, RolesTwo DEF Serving
    <2>3. Pc(s, "ini", th2) = "inv"
      BY <1>1, <1>3, <2>1, SentPcs, RolesTwo DEF Kept
    <2>4. Pc(x, "ini", th2) = "inv" /\ Pc(x, "acc", th2) = "closed"
      <3>1. x.end["ini"] = s.end["ini"] /\ x.at = s.at /\ x.end["acc"] = "closed"
        BY <1>4, <2>1, RolesTwo DEF Shut
      <3> QED BY <2>3, <3>1 DEF Pc
    <2>5. AliveAt(r, "inv", Pc(r, "acc", thread), up, p)
      BY <1>1, <1>2, <2>1 DEF AllAlive, Alive, Serving
    <2>6. AliveAt(x, "inv", "closed", up, p)
      BY <1>6, <2>1, <2>5 DEF AliveAt, Synchronizing
    <2> QED BY <2>1, <2>4, <2>6 DEF Alive
  <1>8. AllAlive(up, p, Put(conns, c, x), th2)
    BY <1>1, <1>5, <1>6, <1>7, AliveLeaves
  <1> QED BY <1>8 DEF x, th2

\* ... after it has read a message and sent msgs.
LEMMA AliveEnds ==
  ASSUME NEW p, NowAlive(p), NEW n \in Nodes, Busy(n), Unread(n) # << >>, Parts(n, p),
         NEW msgs \in Seq(Messages)
  PROVE  AllAlive(up, p, Ended(n, msgs), [thread EXCEPT ![n] = Idle])
  <1> DEFINE s == Send(Rest(n), thread[n].role, msgs)
  <1>1. Sent(conns[thread[n].c], s, thread[n].role, msgs)
    BY RestSent DEF NowAlive
  <1>2. Kept(conns[thread[n].c], s) /\ s \in Connections
    BY <1>1 DEF Sent, Kept
  <1> HIDE DEF s
  <1>3. AllAlive(up, p, Put(conns, thread[n].c, Close(s, thread[n].role)), [thread EXCEPT ![n] = Idle])
    BY <1>2, AliveParts
  <1> QED BY <1>3 DEF Ended, s

-----------------------------------------------------------------------------
\* The next moves of a handshake, from what the peer may have sent.

\* A step of the connecting end; ...
LEMMA AliveIniMoves ==
  ASSUME NEW r, NEW u, NEW p, NEW i, NEW a, NEW number, NEW rst, NEW qi, NEW qa, NEW k,
         AliveAt(r, i, a, u, p), ConnOK(r.st, r.kind, number, rst, i, a, qi, qa, k)
  PROVE  /\ i = "new" /\ r.st = "open" /\ r.kind = "handshake" => AliveAt(r, "verack", a, u, p)
         /\ i = "verack" => AliveAt(r, "version", a, u, p)
         /\ i = "version" /\ Listed(p, r.at["ini"], r.at["acc"]) => AliveAt(r, "addr", a, u, p)
         /\ i = "addr" => AliveAt(r, "inv", a, u, p)
         /\ i \in {"inv", "blocks"} => AliveAt(r, "blocks", a, u, p) /\ AliveAt(r, "locked", a, u, p)
  BY DEF AliveAt, ConnOK, Unstarted, Talk, IniLeft, Synchronizing

\* ... who is up when its version is read; ...
LEMMA AliveVersion ==
  ASSUME NEW r, NEW u, NEW p, NEW a, NEW number, NEW rst, NEW qi, NEW qa, NEW k,
         AliveAt(r, "version", a, u, p), ConnOK(r.st, r.kind, number, rst, "version", a, qi, qa, k)
  PROVE  a = "verack" /\ r.kind = "handshake" /\ u[r.at["acc"]]
  BY DEF AliveAt, ConnOK, Unstarted, Talk, IniLeft, Synchronizing

\* ... a step of the accepting end; ...
LEMMA AliveAccMoves ==
  ASSUME NEW r, NEW u, NEW p, NEW i, NEW a, AliveAt(r, i, a, u, p)
  PROVE  /\ a = "new" => AliveAt(r, i, "first", u, p)
         /\ a = "first" => AliveAt(r, i, "verack", u, p) /\ AliveAt(r, i, "blocks", u, p)
         /\ a = "verack" => AliveAt(r, i, "getaddr", u, p)
         /\ a = "getaddr" /\ Listed(p, r.at["acc"], r.at["ini"]) => AliveAt(r, i, "getblocks", u, p)
         /\ a = "getblocks" => AliveAt(r, i, "locked", u, p)
         /\ a = "blocks" => AliveAt(r, i, "blocks", u, p)
  BY DEF AliveAt, Synchronizing

\* ... who waits for its answer.
LEMMA AliveAsked ==
  ASSUME NEW r, NEW u, NEW p, NEW i, NEW number, NEW rst, NEW qi, NEW qa, NEW k,
         NEW a \in {"getaddr", "getblocks"}, qa # << >>,
         AliveAt(r, i, a, u, p), ConnOK(r.st, r.kind, number, rst, i, a, qi, qa, k)
  PROVE  /\ r.kind = "handshake" /\ u[r.at["ini"]]
         /\ a = "getaddr" => i = "addr"
         /\ a = "getblocks" => /\ i = "inv" /\ Listed(p, r.at["ini"], r.at["acc"])
                               /\ Listed(p, r.at["acc"], r.at["ini"])
  BY DEF AliveAt, ConnOK, Unstarted, Talk, AccLeft, Synchronizing

-----------------------------------------------------------------------------
\* A handler that reads at pc, and its connection.
LEMMA ReadsAlive ==
  ASSUME NEW p, NowAlive(p), NEW n \in Nodes, NEW pc \in Waits, NEW role, NEW cmd,
         Receives(n, role, pc, cmd)
  PROVE  LET r == conns[thread[n].c] IN
         /\ role = "ini" => IniReads(n, r, pc, cmd) /\ AliveAt(r, pc, Pc(r, "acc", thread), up, p)
         /\ role = "acc" => AccReads(n, r, pc, cmd) /\ AliveAt(r, Pc(r, "ini", thread), pc, up, p)
  <1> DEFINE r == conns[thread[n].c]
  <1>1. Now /\ AllAlive(up, p, conns, thread)
    BY DEF NowAlive
  <1>2. Busy(n) /\ thread[n].role = role /\ thread[n].pc = pc
    BY DEF Receives, Busy, Waits
  <1>3. Serving(n, r, role)
    BY <1>1, <1>2, BusyServes
  <1>4. Pc(r, role, thread) = pc /\ Alive(r, thread, up, p)
    BY <1>1, <1>2, <1>3 DEF Serving, AllAlive
  <1>5. /\ role = "ini" => IniReads(n, r, pc, cmd)
        /\ role = "acc" => AccReads(n, r, pc, cmd)
    BY <1>1, ReceivesReads
  <1> QED BY <1>4, <1>5 DEF Alive

\* The end a handler that reads at pc serves.
LEMMA ReadsServing ==
  ASSUME Now, NEW n \in Nodes, NEW pc, NEW cmd
  PROVE  LET r == conns[thread[n].c] IN
         /\ IniReads(n, r, pc, cmd) => /\ Serving(n, r, "ini") /\ thread[n].role = "ini" /\ Busy(n)
                                       /\ up[n] /\ n = r.at["ini"] /\ Peer(n) = r.at["acc"]
         /\ AccReads(n, r, pc, cmd) => /\ Serving(n, r, "acc") /\ thread[n].role = "acc" /\ Busy(n)
                                       /\ up[n] /\ n = r.at["acc"] /\ Peer(n) = r.at["ini"]
  <1> DEFINE r == conns[thread[n].c]
  <1>1. Busy(n) => Serving(n, r, thread[n].role) /\ up[n]
    BY BusyServes DEF Serving
  <1>2. Peer(n) = r.at[Other(thread[n].role)]
    BY DEF Peer
  <1> QED BY <1>1, <1>2, RolesTwo DEF IniReads, AccReads

\* Each step of a handler keeps the invariant.  m_handle_version reads the version,
LEMMA AccVersionAlive ==
  ASSUME NowAlive(peers), NEW n \in Nodes, AccVersion(n)
  PROVE  AllAlive(up, peers, conns, thread)'
  <1> DEFINE r == conns[thread[n].c]
  <1>1. AccReads(n, r, "first", "version") /\ AliveAt(r, Pc(r, "ini", thread), "first", up, peers)
    BY ReadsAlive, Typed DEF AccVersion
  <1>2. AliveAt(r, Pc(r, "ini", thread), "verack", up, peers)
    BY <1>1, AliveAccMoves
  <1>3. AllAlive(up, peers, Went(n, VerackVersion), Waiting(n, "verack", 0))
    BY <1>1, <1>2, Typed, AliveGoes DEF AccReads
  <1> QED BY <1>3 DEF AccVersion, Goes, At, OnlySockets, Went, Waiting, VerackVersion

\* ... the verack, ...
LEMMA AccVerackAlive ==
  ASSUME NowAlive(peers), NEW n \in Nodes, AccVerack(n)
  PROVE  AllAlive(up, peers, conns, thread)'
  <1> DEFINE r == conns[thread[n].c]
  <1>1. AccReads(n, r, "verack", "verack") /\ AliveAt(r, Pc(r, "ini", thread), "verack", up, peers)
    BY ReadsAlive, Typed DEF AccVerack
  <1>2. AliveAt(r, Pc(r, "ini", thread), "getaddr", up, peers)
    BY <1>1, AliveAccMoves
  <1>3. AllAlive(up, peers, Went(n, << >>), Waiting(n, "getaddr", 0))
    BY <1>1, <1>2, Typed, AliveGoes DEF AccReads
  <1> QED BY <1>3 DEF AccVerack, Goes, At, OnlySockets, Went, Waiting

\* ... m_handle_inv what a peer shares, ...
LEMMA AccInvAlive ==
  ASSUME NowAlive(peers), NEW n \in Nodes, AccInv(n)
  PROVE  AllAlive(up, peers, conns, thread)'
  <1> DEFINE r == conns[thread[n].c]
             left == Amount(Head(Unread(n)))
  <1>1. AccReads(n, r, "first", "inv") /\ AliveAt(r, Pc(r, "ini", thread), "first", up, peers)
    BY ReadsAlive, Typed DEF AccInv
  <1>2. AliveAt(r, Pc(r, "ini", thread), "blocks", up, peers)
    BY <1>1, AliveAccMoves
  <1>3. AllAlive(up, peers, Went(n, << >>), Waiting(n, "blocks", left))
    BY <1>1, <1>2, Typed, AliveGoes DEF AccReads
  <1> QED BY <1>3 DEF AccInv, Goes, At, OnlySockets, Went, Waiting

\* ... m_handshake the verack, ...
LEMMA IniVerackAlive ==
  ASSUME NowAlive(peers), NEW n \in Nodes, IniVerack(n)
  PROVE  AllAlive(up, peers, conns, thread)'
  <1> DEFINE r == conns[thread[n].c]
  <1>1. IniReads(n, r, "verack", "verack") /\ AliveAt(r, "verack", Pc(r, "acc", thread), up, peers)
    BY ReadsAlive, Typed DEF IniVerack
  <1>2. AliveAt(r, "version", Pc(r, "acc", thread), up, peers)
    BY <1>1, AliveIniMoves DEF IniReads
  <1>3. AllAlive(up, peers, Went(n, << >>), Waiting(n, "version", 0))
    BY <1>1, <1>2, Typed, AliveGoes DEF IniReads
  <1> QED BY <1>3 DEF IniVerack, Goes, At, OnlySockets, Went, Waiting

\* ... how many blocks there will be, ...
LEMMA IniInvAlive ==
  ASSUME NowAlive(peers), NEW n \in Nodes, IniInv(n)
  PROVE  AllAlive(up, peers, conns, thread)'
  <1> DEFINE r == conns[thread[n].c]
             amount == Amount(Head(Unread(n)))
  <1>1. IniReads(n, r, "inv", "inv") /\ AliveAt(r, "inv", Pc(r, "acc", thread), up, peers)
    BY ReadsAlive, Typed DEF IniInv
  <1>2. CASE Goes(n, << >>, "blocks", amount)
    <2>1. AliveAt(r, "blocks", Pc(r, "acc", thread), up, peers)
      BY <1>1, AliveIniMoves DEF IniReads
    <2>2. AllAlive(up, peers, Went(n, << >>), Waiting(n, "blocks", amount))
      BY <1>1, <2>1, Typed, AliveGoes DEF IniReads
    <2> QED BY <1>2, <2>2 DEF IniInv, Goes, At, OnlySockets, Went, Waiting
  <1>3. CASE Ends(n, << >>)
    <2>1. r.end["acc"] = "closed"
      BY <1>1 DEF IniReads, ConnOK, Unstarted, Talk
    <2>2. Parts(n, peers)
      BY <1>1, <2>1, RolesTwo DEF Parts, IniReads
    <2>3. AllAlive(up, peers, Ended(n, << >>), [thread EXCEPT ![n] = Idle])
      BY <1>1, <2>2, Typed, AliveEnds DEF IniReads
    <2> QED BY <1>3, <2>3 DEF IniInv, Ends, Return, OnlySockets, Ended
  <1> QED BY <1>2, <1>3 DEF IniInv

\* ... and whom else it is to connect to.
LEMMA IniAddrAlive ==
  ASSUME NowAlive(peers), NEW n \in Nodes, IniAddr(n)
  PROVE  AllAlive(up, peers, conns, thread)'
  <1> DEFINE r == conns[thread[n].c]
             msgs == OneGetblocks(chain[n])
             list == Head(Unread(n)).list
             new == Restrict(list, {i \in DOMAIN list : list[i] \notin Range(peers[n])})
  <1>1. IniReads(n, r, "addr", "addr") /\ AliveAt(r, "addr", Pc(r, "acc", thread), up, peers)
    BY ReadsAlive, Typed DEF IniAddr
  <1>2. AliveAt(r, "inv", Pc(r, "acc", thread), up, peers)
    BY <1>1, AliveIniMoves DEF IniReads
  <1>3. Serving(n, r, "ini") /\ thread[n].role = "ini" /\ up[n]
    BY <1>1, ReadsServing DEF NowAlive
  <1>4. AllAlive(up, peers, Went(n, msgs), Waiting(n, "inv", thread[n].left))
    <2>1. msgs \in Seq(Messages)
      BY <1>1, NumberQueues DEF IniReads
    <2> QED BY <1>1, <1>2, <2>1, AliveGoes DEF IniReads
  <1>5. Waiting(n, "inv", thread[n].left) = [thread EXCEPT ![n].pc = "inv"]
    <2>1. thread[n] \in [c : {thread[n].c}, role : Roles, pc : Waits \union {"locked"}, left : Nat]
      BY <1>1 DEF IniReads, Busy, Idle, NowAlive, Now, Linked, Serves
    <2>2. [thread[n] EXCEPT !.pc = "inv"] =
            [c |-> thread[n].c, role |-> thread[n].role, pc |-> "inv", left |-> thread[n].left]
      BY <2>1
    <2> QED BY <2>2 DEF Waiting
  <1>6. list \in Seq(Nodes)
    BY <1>1, MessagesShape DEF IniReads
  <1>7. \A i \in DOMAIN new : new[i] \in Nodes
    BY <1>6 DEF Restrict
  <1>8. /\ conns' = Connect(Went(n, msgs), n, new, "handshake", 0)
        /\ thread' = [thread EXCEPT ![n].pc = "inv"] /\ up' = up /\ peers' = peers
    BY <1>3 DEF IniAddr, Went, OneGetblocks
  <1> HIDE DEF new
  <1>9. Connected(Went(n, msgs), conns', n, new, "handshake", 0)
    BY <1>8, ConnectConnects
  <1>10. AllAlive(up, peers, Went(n, msgs), thread')
    BY <1>4, <1>5, <1>8
  <1>11. AllAlive(up, peers, conns', thread')
    BY <1>3, <1>7, <1>9, <1>10, AliveJoins, Typed
  <1> QED BY <1>8, <1>11

\* n lists the peer it shakes hands with.
LEMMA PeerListed ==
  ASSUME NowAlive(peers), peers \in [Nodes -> Seq(Nodes)], NEW n \in Nodes, Busy(n),
         up[Peer(n)], conns[thread[n].c].kind = "handshake",
         \A role \in Roles : conns[thread[n].c].end[role] = "run",
         peers' = [peers EXCEPT ![n] = << Peer(n) >> \o @]
  PROVE  /\ NowAlive(peers') /\ Listed(peers', n, Peer(n))
         /\ \A a, b \in Nodes : Listed(peers, a, b) => Listed(peers', a, b)
  <1> DEFINE r == conns[thread[n].c]
             m == Peer(n)
  <1>1. Now /\ AllAlive(up, peers, conns, thread) /\ Linked(up, chain, conns, thread)
    BY DEF NowAlive, Now
  <1>2. Serving(n, r, thread[n].role)
    BY <1>1, BusyServes
  <1>3. m \in Nodes /\ {r.at[role] : role \in Roles} = {n, m}
    <2>1. m = r.at[Other(thread[n].role)]
      BY DEF Peer
    <2>2. /\ thread[n].role \in Roles /\ r.at[thread[n].role] = n
          /\ r.at["ini"] \in Nodes /\ r.at["acc"] \in Nodes
      BY <1>2 DEF Serving
    <2>3. {r.at[role] : role \in Roles} = {r.at["ini"], r.at["acc"]}
      BY RolesTwo
    <2>4. \/ n = r.at["ini"] /\ m = r.at["acc"]
          \/ n = r.at["acc"] /\ m = r.at["ini"]
      BY <2>1, <2>2, RolesTwo
    <2> QED BY <2>2, <2>3, <2>4
  <1>4. Talks(conns, n, m)
    BY <1>2, <1>3 DEF Talks, Talking, Serving
  <1>5. up[m] /\ Adds(peers, peers', n, m)
    BY DEF Adds
  <1> HIDE DEF m
  <1>6. AllAlive(up, peers', conns, thread) /\ Listed(peers', n, m) /\ Grows(peers, peers')
    <2> DEFINE p2 == peers'
    <2> HIDE DEF p2
    <2>1. Adds(peers, p2, n, m)
      BY <1>5 DEF p2
    <2>2. AllAlive(up, p2, conns, thread) /\ Listed(p2, n, m) /\ Grows(peers, p2)
      BY <1>1, <1>3, <1>4, <1>5, <2>1, AliveLists
    <2> QED BY <2>2 DEF p2
  <1> QED BY <1>1, <1>6 DEF NowAlive, Grows, m

\* Here the accepting node lists the other, ...
LEMMA AccGetaddrAlive ==
  ASSUME NowAlive(peers), peers \in [Nodes -> Seq(Nodes)], NEW n \in Nodes, AccGetaddr(n)
  PROVE  AllAlive(up, peers, conns, thread)'
  <1> DEFINE r == conns[thread[n].c]
             msgs == << Addr(peers[n]) >>
             i == Pc(r, "ini", thread)
  <1>1. AccReads(n, r, "getaddr", "getaddr") /\ AliveAt(r, i, "getaddr", up, peers)
    BY ReadsAlive, Typed DEF AccGetaddr
  <1>2. Serving(n, r, "acc") /\ Peer(n) = r.at["ini"] /\ n = r.at["acc"]
    BY <1>1, ReadsServing DEF NowAlive
  <1>3. i = "addr" /\ r.kind = "handshake" /\ up[Peer(n)]
    BY <1>1, <1>2, AliveAsked DEF AccReads
  <1>4. \A role \in Roles : r.end[role] = "run"
    BY <1>2, <1>3, RolesTwo DEF Serving, Connections, Pc
  <1>5. peers' = [peers EXCEPT ![n] = << Peer(n) >> \o @]
    BY DEF AccGetaddr
  <1>6. NowAlive(peers') /\ Listed(peers', n, Peer(n)) /\ Busy(n)
        /\ \A a, b \in Nodes : Listed(peers, a, b) => Listed(peers', a, b)
    BY <1>1, <1>3, <1>4, <1>5, PeerListed DEF AccReads
  <1>7. AliveAt(r, i, "getaddr", up, peers')
    BY <1>1, <1>2, <1>6 DEF AliveAt, Serving
  <1>8. AliveAt(r, i, "getblocks", up, peers')
    BY <1>2, <1>6, <1>7, AliveAccMoves
  <1>9. AllAlive(up, peers', Went(n, msgs), Waiting(n, "getblocks", 0))
    BY <1>1, <1>6, <1>8, Typed, AliveGoes DEF AccReads
  <1> QED BY <1>9 DEF AccGetaddr, Goes, At, Went, Waiting

\* ... and here the connecting node does.
LEMMA IniVersionAlive ==
  ASSUME NowAlive(peers), peers \in [Nodes -> Seq(Nodes)], NEW n \in Nodes, IniVersion(n)
  PROVE  AllAlive(up, peers, conns, thread)'
  <1> DEFINE r == conns[thread[n].c]
             a == Pc(r, "acc", thread)
  <1>1. IniReads(n, r, "version", "version") /\ AliveAt(r, "version", a, up, peers)
    BY ReadsAlive, Typed DEF IniVersion
  <1>2. Serving(n, r, "ini") /\ Peer(n) = r.at["acc"] /\ n = r.at["ini"]
    BY <1>1, ReadsServing DEF NowAlive
  <1>3. a = "verack" /\ r.kind = "handshake" /\ up[Peer(n)]
    <2>1. a = "verack" /\ r.kind = "handshake" /\ up[r.at["acc"]]
      <3>1. ConnOK(r.st, r.kind, r.number, r.rst, "version", a, r.q["ini"], r.q["acc"], chain[n])
        BY <1>1 DEF IniReads
      <3> HIDE DEF r, a
      <3> QED BY <1>1, <3>1, AliveVersion
    <2> QED BY <1>2, <2>1
  <1>4. \A role \in Roles : r.end[role] = "run"
    BY <1>2, <1>3, RolesTwo DEF Serving, Connections, Pc
  <1>5. peers' = [peers EXCEPT ![n] = << Peer(n) >> \o @]
    BY DEF IniVersion
  <1>6. NowAlive(peers') /\ Listed(peers', n, Peer(n)) /\ Busy(n)
        /\ \A x, y \in Nodes : Listed(peers, x, y) => Listed(peers', x, y)
    BY <1>1, <1>3, <1>4, <1>5, PeerListed DEF IniReads
  <1>7. AliveAt(r, "version", a, up, peers')
    BY <1>1, <1>2, <1>6 DEF AliveAt, Serving
  <1>8. AliveAt(r, "addr", a, up, peers')
    <2>1. ConnOK(r.st, r.kind, r.number, r.rst, "version", a, r.q["ini"], r.q["acc"], chain[n])
      BY <1>1 DEF IniReads
    <2>2. Listed(peers', r.at["ini"], r.at["acc"])
      BY <1>2, <1>6
    <2> DEFINE p2 == peers'
    <2> HIDE DEF r, a, p2
    <2>3. AliveAt(r, "addr", a, up, p2)
      BY <1>7, <2>1, <2>2, AliveIniMoves DEF p2
    <2> QED BY <2>3 DEF p2
  <1>9. AllAlive(up, peers', Went(n, VerackGetaddr), Waiting(n, "addr", 0))
    BY <1>1, <1>6, <1>8, Typed, AliveGoes DEF IniReads
  <1> QED BY <1>9 DEF IniVersion, Goes, At, Went, Waiting, VerackGetaddr

\* The accepting node is done; both list each other.
LEMMA AccGetblocksAlive ==
  ASSUME NowAlive(peers), NEW n \in Nodes, AccGetblocks(n)
  PROVE  AllAlive(up, peers, conns, thread)'
  <1> DEFINE r == conns[thread[n].c]
             i == Pc(r, "ini", thread)
             theirs == Head(Unread(n)).size
             size == chain[n] + CustomizeCount
  <1>1. AccReads(n, r, "getblocks", "getblocks") /\ AliveAt(r, i, "getblocks", up, peers)
    BY ReadsAlive, Typed DEF AccGetblocks
  <1>2. CASE Goes(n, << >>, "locked", 0)
    <2>1. AliveAt(r, i, "locked", up, peers)
      BY <1>1, AliveAccMoves
    <2>2. AllAlive(up, peers, Went(n, << >>), Waiting(n, "locked", 0))
      BY <1>1, <2>1, Typed, AliveGoes DEF AccReads
    <2> QED BY <1>2, <2>2 DEF AccGetblocks, Goes, At, Went, Waiting
  <1>3. ASSUME NEW msgs \in Seq(Messages), Ends(n, msgs)
        PROVE  AllAlive(up, peers, conns, thread)'
    <2>1. /\ r.kind = "handshake" /\ i = "inv" /\ Listed(peers, r.at["ini"], r.at["acc"])
          /\ Listed(peers, r.at["acc"], r.at["ini"])
      <3>1. /\ ConnOK(r.st, r.kind, r.number, r.rst, i, "getblocks", r.q["ini"], r.q["acc"],
                      chain[r.at["ini"]])
            /\ r.q["acc"] # << >>
        BY <1>1 DEF AccReads
      <3> HIDE DEF r, i
      <3> QED BY <1>1, <3>1, AliveAsked
    <2>2. Parts(n, peers)
      BY <1>1, <2>1 DEF Parts, AccReads
    <2>3. AllAlive(up, peers, Ended(n, msgs), [thread EXCEPT ![n] = Idle])
      BY <1>1, <2>2, AliveEnds DEF AccReads
    <2> QED BY <1>3, <2>3 DEF AccGetblocks, Ends, Return, Ended
  <1>4. /\ chain \in [Nodes -> Nat] /\ theirs \in Nat /\ chain[n] \in Nat /\ size \in Nat
    <2>1. chain \in [Nodes -> Nat]
      BY Typed DEF NowAlive
    <2>2. Head(Unread(n)) \in Messages /\ Head(Unread(n)).cmd = "getblocks"
      BY <1>1 DEF AccReads
    <2>3. theirs \in Nat
      BY <2>2, MessagesShape
    <2> QED BY <2>1, <2>3, CustomizeAssumption
  <1>5. ASSUME Ends(n, << Inv("block", size) >> \o AllBlocks(size))
        PROVE  AllAlive(up, peers, conns, thread)'
    <2>1. << Inv("block", size) >> \o AllBlocks(size) \in Seq(Messages)
      BY <1>4, AllAnnounced
    <2> QED BY <1>3, <1>5, <2>1
  <1>6. ASSUME theirs > 0, theirs <= chain[n],
               Ends(n, << Inv("block", chain[n] - (theirs - 1) + 1) >>)
        PROVE  AllAlive(up, peers, conns, thread)'
    <2>1. chain[n] - (theirs - 1) + 1 \in Nat
      BY <1>4, <1>6
    <2>2. << Inv("block", chain[n] - (theirs - 1) + 1) >> \in Seq(Messages)
      BY <2>1, OneAnnounces
    <2> QED BY <1>3, <1>6, <2>2
  <1>7. ASSUME Ends(n, << Inv("error", 0) >>)
        PROVE  AllAlive(up, peers, conns, thread)'
    <2>1. << Inv("error", 0) >> \in Seq(Messages)
      BY OneAnnounces, Typed
    <2> QED BY <1>3, <1>7, <2>1
  <1> QED BY <1>2, <1>5, <1>6, <1>7 DEF AccGetblocks

\* Nobody that waits has a peer that is gone, but who was never let in or is done.
LEMMA FailAlive ==
  ASSUME NowAlive(peers), NEW n \in Nodes, Fail(n)
  PROVE  AllAlive(up, peers, conns, thread)'
  <1> DEFINE r == conns[thread[n].c]
  <1>1. Busy(n) /\ r.end[Other(thread[n].role)] = "closed"
    BY FailLinked DEF Fail, NowAlive
  <1>2. Parts(n, peers)
    BY <1>1 DEF Parts
  <1>3. r \in Connections /\ Kept(r, r)
    BY <1>1, BusyServes DEF NowAlive, Serving, Kept
  <1>4. AllAlive(up, peers, Put(conns, thread[n].c, Close(r, thread[n].role)),
               [thread EXCEPT ![n] = Idle])
    BY <1>1, <1>2, <1>3, AliveParts
  <1> QED BY <1>4 DEF Fail, Return, OnlySockets

\* A block is read.
LEMMA ReceiveBlockAlive ==
  ASSUME NowAlive(peers), NEW n \in Nodes, ReceiveBlock(n)
  PROVE  AllAlive(up, peers, conns, thread)'
  <1> DEFINE r == conns[thread[n].c]
             left == thread[n].left
             b == Head(Unread(n))
             valid == b.valid /\ b.number = chain[n]
  <1>1. PICK role \in Roles : Receives(n, role, "blocks", "block")
    BY DEF ReceiveBlock
  <1>2. /\ role = "ini" => IniReads(n, r, "blocks", "block")
                             /\ AliveAt(r, "blocks", Pc(r, "acc", thread), up, peers)
        /\ role = "acc" => AccReads(n, r, "blocks", "block")
                             /\ AliveAt(r, Pc(r, "ini", thread), "blocks", up, peers)
    BY <1>1, ReadsAlive, Typed
  <1>3. Busy(n) /\ Unread(n) # << >> /\ thread[n].role = role
    BY <1>1 DEF Receives, Busy
  <1>4. r.end[Other(role)] = "closed" /\ (role = "acc" => ~valid)
    <2>1. CASE role = "ini"
      <3>1. Wanted(Pc(r, "acc", thread), r.q["ini"], chain[n])
        BY <1>2, <2>1, IniWanted DEF IniReads
      <3> QED BY <1>2, <2>1, <3>1, RolesTwo DEF Wanted, IniReads
    <2>2. CASE role = "acc"
      <3>1. Unwanted(Pc(r, "ini", thread), r.q["acc"])
        BY <1>2, <2>2, AccUnwanted DEF AccReads
      <3> QED BY <1>2, <2>2, <3>1, RolesTwo DEF Unwanted, AccReads
    <2> QED BY <2>1, <2>2, RolesTwo
  <1>5. ASSUME NEW pc \in {"blocks", "locked"}, NEW k, Goes(n, << >>, pc, k),
               role = "acc" => pc = "blocks"
        PROVE  AllAlive(up, peers, conns, thread)'
    <2>1. IF role = "ini" THEN AliveAt(r, pc, Pc(r, "acc", thread), up, peers)
                          ELSE AliveAt(r, Pc(r, "ini", thread), pc, up, peers)
      BY <1>2, <1>5, AliveIniMoves, RolesTwo DEF IniReads
    <2>2. AllAlive(up, peers, Went(n, << >>), Waiting(n, pc, k))
      BY <1>3, <2>1, Typed, AliveGoes
    <2> QED BY <1>5, <2>2 DEF ReceiveBlock, Goes, At, Went, Waiting
  <1>6. ASSUME Ends(n, << >>) PROVE AllAlive(up, peers, conns, thread)'
    <2>1. Parts(n, peers)
      BY <1>3, <1>4 DEF Parts
    <2>2. AllAlive(up, peers, Ended(n, << >>), [thread EXCEPT ![n] = Idle])
      BY <1>3, <2>1, Typed, AliveEnds
    <2> QED BY <1>6, <2>2 DEF ReceiveBlock, Ends, Return, Ended
  <1> QED BY <1>4, <1>5, <1>6 DEF ReceiveBlock

-----------------------------------------------------------------------------
\* A handler n starts at this end of c.
LEMMA AliveBegins ==
  ASSUME NowAlive(peers), NEW n \in Nodes, AtIdle(n), NEW c \in DOMAIN conns, NEW role \in Roles,
         conns[c].at[role] = n, conns[c].end[role] = "new",
         NEW s, s.at = conns[c].at, s.kind = conns[c].kind, s.st = conns[c].st,
         s.end[role] = "run", s.end[Other(role)] = conns[c].end[Other(role)],
         NEW pc, NEW th2, th2 = [thread EXCEPT ![n] = [c |-> c, role |-> role, pc |-> pc, left |-> 0]],
         IF role = "ini" THEN AliveAt(conns[c], pc, Pc(conns[c], "acc", thread), up, peers)
                         ELSE AliveAt(conns[c], Pc(conns[c], "ini", thread), pc, up, peers)
  PROVE  AllAlive(up, peers, [conns EXCEPT ![c] = s], th2)
  <1> DEFINE r == conns[c]
  <1>1. Now /\ AllAlive(up, peers, conns, thread)
    BY DEF NowAlive
  <1>2. /\ up[n] /\ AtMost(n, c, role, thread[n])
        /\ \A e \in Roles : r.end[e] = "run" => r.at[e] # n
        /\ \A e \in Roles : r.at[e] \in Nodes
    BY <1>1, Unserved, RolesTwo DEF Connections
  <1>3. th2 = [thread EXCEPT ![n] = th2[n]] /\ th2[n].pc = pc
        /\ \A m \in Nodes : m # n => th2[m] = thread[m]
    BY <1>1 DEF Now, Linked
  <1>4. Steps(n, c, role, up, chain, conns, thread, th2, chain)
    BY <1>1, <1>2, <1>3, MaySteps
  <1>5. Pc(s, role, th2) = pc /\ Pc(s, Other(role), th2) = Pc(r, Other(role), thread)
    BY <1>2, <1>3, RolesTwo DEF Pc
  <1>6. Alive(s, th2, up, peers)
    <2>1. CASE role = "ini"
      <3>1. AliveAt(r, pc, Pc(r, "acc", thread), up, peers)
        BY <2>1
      <3> QED BY <1>5, <2>1, <3>1, RolesTwo DEF Alive, AliveAt
    <2>2. CASE role = "acc"
      <3>1. AliveAt(r, Pc(r, "ini", thread), pc, up, peers)
        BY <2>2
      <3> QED BY <1>5, <2>2, <3>1, RolesTwo DEF Alive, AliveAt
    <2> QED BY <2>1, <2>2, RolesTwo
  <1> QED BY <1>1, <1>4, <1>6, AliveStays

\* m_handle_accept starts.
LEMMA AcceptAlive ==
  ASSUME NowAlive(peers), NEW n \in Nodes, NEW c \in DOMAIN conns, Accept(n, c)
  PROVE  AllAlive(up, peers, conns, thread)'
  <1> DEFINE r == conns[c]
             s == [r EXCEPT !.end["acc"] = "run"]
             th2 == [thread EXCEPT ![n] = [c |-> c, role |-> "acc", pc |-> "first", left |-> 0]]
  <1>1. /\ AtIdle(n) /\ r.at["acc"] = n /\ r.end["acc"] = "new"
        /\ up' = up /\ peers' = peers /\ conns' = [conns EXCEPT ![c].end["acc"] = "run"]
        /\ thread' = th2
    BY DEF Accept, OnlySockets, At
  <1>2. r \in Connections /\ Alive(r, thread, up, peers)
    BY DEF NowAlive, Now, Linked, Proper, AllAlive
  <1>3. s.at = r.at /\ s.kind = r.kind /\ s.st = r.st /\ s.end["acc"] = "run"
        /\ s.end[Other("acc")] = r.end[Other("acc")]
    BY <1>2, RolesTwo DEF Connections
  <1>4. conns' = [conns EXCEPT ![c] = s]
    BY <1>1
  <1> HIDE DEF s
  <1>5. Pc(r, "acc", thread) = "new"
    BY <1>1 DEF Pc
  <1>6. AliveAt(r, Pc(r, "ini", thread), "first", up, peers)
    BY <1>2, <1>5, AliveAccMoves DEF Alive
  <1>7. AllAlive(up, peers, [conns EXCEPT ![c] = s], th2)
    BY <1>1, <1>3, <1>6, AliveBegins, RolesTwo
  <1> QED BY <1>1, <1>4, <1>7

\* A handler runs and returns at once.
LEMMA AlivePasses ==
  ASSUME NowAlive(peers), NEW n \in Nodes, AtIdle(n), NEW c \in DOMAIN conns,
         conns[c].at["ini"] = n, conns[c].end["ini"] = "new",
         NEW s \in Connections, s.at = conns[c].at, s.kind = conns[c].kind, s.st = conns[c].st,
         s.end["acc"] = conns[c].end["acc"],
         conns[c].kind = "share" \/ conns[c].end["acc"] = "closed"
  PROVE  AllAlive(up, peers, Put(conns, c, Close(s, "ini")), [thread EXCEPT ![n] = Idle])
  <1> DEFINE r == conns[c]
             x == Close(s, "ini")
             th2 == [thread EXCEPT ![n] = Idle]
  <1>1. Now /\ AllAlive(up, peers, conns, thread)
    BY DEF NowAlive
  <1>2. /\ up[n] /\ AtMost(n, c, "ini", thread[n]) /\ Pc(r, "ini", thread) = "new"
        /\ \A e \in Roles : r.end[e] = "run" => r.at[e] # n
        /\ \A e \in Roles : r.at[e] \in Nodes
    BY <1>1, Unserved, RolesTwo DEF Connections
  <1>3. th2 = [thread EXCEPT ![n] = th2[n]] /\ \A m \in Nodes : m # n => th2[m] = thread[m]
    BY <1>1 DEF Now, Linked
  <1>4. Steps(n, c, "ini", up, chain, conns, thread, th2, chain)
    BY <1>1, <1>2, <1>3, MaySteps, RolesTwo
  <1>5. Shut(s, x, "ini")
    BY CloseShuts, RolesTwo
  <1> HIDE DEF x
  <1>6. /\ x.at = r.at /\ x.kind = r.kind /\ x.st = r.st /\ x.end["ini"] = "closed"
        /\ x.end["acc"] = r.end["acc"] /\ x.end[Other("ini")] = r.end[Other("ini")]
    BY <1>5, RolesTwo DEF Shut
  <1>7. x.end["acc"] # "closed" => Alive(x, th2, up, peers)
    <2> SUFFICES ASSUME x.end["acc"] # "closed" PROVE Alive(x, th2, up, peers)
      OBVIOUS
    <2>1. r.kind = "share"
      BY <1>6
    <2>2. Pc(x, "ini", th2) = "closed" /\ Pc(x, "acc", th2) = Pc(r, "acc", thread)
      BY <1>2, <1>3, <1>6, RolesTwo DEF Pc
    <2>3. Alive(r, thread, up, peers)
      BY <1>1 DEF AllAlive
    <2> QED BY <1>2, <1>6, <2>1, <2>2, <2>3 DEF Alive, AliveAt
  <1>8. x.end[Other("ini")] # "closed" =>
          /\ Alive(x, th2, up, peers)
          /\ r.kind = "handshake" /\ r.end["ini"] = "run" =>
               Listed(peers, r.at["ini"], r.at["acc"]) /\ Listed(peers, r.at["acc"], r.at["ini"])
    BY <1>6, <1>7, RolesTwo
  <1>9. AllAlive(up, peers, Put(conns, c, x), th2)
    BY <1>1, <1>4, <1>6, <1>8, AliveLeaves
  <1> QED BY <1>9 DEF x

\* m_handshake starts, or its connect has failed.
LEMMA RunHandshakeAlive ==
  ASSUME NowAlive(peers), NEW n \in Nodes, NEW c \in DOMAIN conns, RunHandshake(n, c)
  PROVE  AllAlive(up, peers, conns, thread)'
  <1> DEFINE r == conns[c]
             s == [r EXCEPT !.end["ini"] = "run"]
             th2 == [thread EXCEPT ![n] = [c |-> c, role |-> "ini", pc |-> "verack", left |-> 0]]
  <1>1. /\ AtIdle(n) /\ r.at["ini"] = n /\ r.end["ini"] = "new" /\ r.kind = "handshake"
        /\ up' = up /\ peers' = peers
    BY DEF RunHandshake, OnlySockets
  <1>2. /\ r \in Connections /\ Fits(r, thread, chain) /\ Alive(r, thread, up, peers)
        /\ Pc(r, "ini", thread) = "new"
        /\ Pc(r, "acc", thread) = "closed" => r.end["acc"] = "closed"
    <2>1. r.end["acc"] = "run" => Pc(r, "acc", thread) # "closed"
      BY PcRuns, RolesTwo DEF NowAlive, Now, Waits
    <2> QED BY <1>1, <2>1 DEF NowAlive, Now, Linked, Proper, AllAlive, Pc
  <1>3. /\ s \in Connections /\ s.at = r.at /\ s.kind = r.kind /\ s.st = r.st
        /\ s.end["ini"] = "run" /\ s.end["acc"] = r.end["acc"]
        /\ s.end[Other("ini")] = r.end[Other("ini")]
    BY <1>2, RolesTwo DEF Connections
  <1> HIDE DEF s
  <1>4. CASE r.st = "refused" /\ Return(n, c, s, "ini")
    <2>1. r.end["acc"] = "closed"
      BY <1>2, <1>4 DEF Fits, ConnOK
    <2>2. AllAlive(up, peers, Put(conns, c, Close(s, "ini")), [thread EXCEPT ![n] = Idle])
      BY <1>1, <1>3, <2>1, AlivePasses
    <2> QED BY <1>1, <1>4, <2>2 DEF Return
  <1>5. CASE /\ r.st = "open" /\ conns' = [conns EXCEPT ![c] = Send(s, "ini", OneVersion)]
             /\ At(n, c, "ini", "verack", 0)
    <2> DEFINE x == Send(s, "ini", OneVersion)
    <2>1. OneVersion \in Seq(Messages) /\ "ini" \in Roles
      BY Queues, RolesTwo
    <2>2. x.at = s.at /\ x.kind = s.kind /\ x.st = s.st /\ x.end = s.end
      BY <1>3, <2>1, SendFields
    <2> HIDE DEF x
    <2>3. AliveAt(r, "verack", Pc(r, "acc", thread), up, peers)
      <3>1. /\ AliveAt(r, "new", Pc(r, "acc", thread), up, peers)
            /\ ConnOK(r.st, r.kind, r.number, r.rst, "new", Pc(r, "acc", thread),
                      r.q["ini"], r.q["acc"], chain[r.at["ini"]])
        BY <1>2 DEF Alive, Fits
      <3> QED BY <1>1, <1>5, <3>1, AliveIniMoves
    <2>4. AllAlive(up, peers, [conns EXCEPT ![c] = x], th2)
      <3>1. x.at = r.at /\ x.kind = r.kind /\ x.st = r.st /\ x.end["ini"] = "run"
            /\ x.end[Other("ini")] = r.end[Other("ini")]
        BY <1>3, <2>2
      <3> QED BY <1>1, <2>1, <2>3, <3>1, AliveBegins
    <2> QED BY <1>1, <1>5, <2>4 DEF At, x
  <1> QED BY <1>4, <1>5 DEF RunHandshake, s, OneVersion

\* The handler of a share finds its peer's end open.
LEMMA ShareOpen ==
  ASSUME NowAlive(peers), NEW c \in DOMAIN conns, conns[c].kind = "share", conns[c].end["ini"] = "new"
  PROVE  conns[c].end["acc"] # "closed" /\ up[conns[c].at["acc"]]
  <1> DEFINE r == conns[c]
  <1>1. Alive(r, thread, up, peers)
    BY DEF NowAlive, AllAlive
  <1>2. Pc(r, "ini", thread) = "new" /\ (r.end["acc"] = "closed" => Pc(r, "acc", thread) = "closed")
    BY DEF Pc
  <1> QED BY <1>1, <1>2 DEF Alive, AliveAt

\* A share finds its peer there: the process survives it.
LEMMA RunShareAlive ==
  ASSUME NowAlive(peers), NEW n \in Nodes, NEW c \in DOMAIN conns, RunShare(n, c)
  PROVE  AllAlive(up, peers, conns, thread)' /\ up' = up
  <1> DEFINE r == conns[c]
             s == Send(r, "ini", Shared(r.number))
  <1>1. /\ AtIdle(n) /\ r.at["ini"] = n /\ r.end["ini"] = "new" /\ r.kind = "share"
    BY DEF RunShare
  <1>2. r.end["acc"] # "closed"
    BY <1>1, ShareOpen
  <1>3. Return(n, c, s, "ini") /\ up' = up /\ peers' = peers
    BY <1>2 DEF RunShare, Shared
  <1>4. r \in Connections /\ Shared(r.number) \in Seq(Messages) /\ "ini" \in Roles
        /\ Other("ini") = "acc"
    <2>1. r \in Connections
      BY DEF NowAlive, Now, Linked, Proper
    <2> QED BY <2>1, NumberQueues, RolesTwo DEF Connections
  <1>5. s \in Connections /\ s.at = r.at /\ s.kind = r.kind /\ s.st = r.st /\ s.end = r.end
    BY <1>4, SendFields
  <1> HIDE DEF s
  <1>6. AllAlive(up, peers, Put(conns, c, Close(s, "ini")), [thread EXCEPT ![n] = Idle])
    BY <1>1, <1>5, AlivePasses
  <1> QED BY <1>3, <1>6 DEF Return

\* A connect is answered.
LEMMA EstablishAlive ==
  ASSUME NowAlive(peers), NEW c \in DOMAIN conns, Establish(c)
  PROVE  AllAlive(up, peers, conns, thread)'
  <1> DEFINE r == conns[c]
             s == IF up[r.at["acc"]] THEN [r EXCEPT !.st = "open"]
                                     ELSE [r EXCEPT !.st = "refused", !.end["acc"] = "closed"]
             cs2 == [conns EXCEPT ![c] = s]
  <1>1. /\ r.st = "syn" /\ conns' = cs2 /\ up' = up /\ peers' = peers /\ thread' = thread
    BY DEF Establish
  <1>2. /\ r \in Connections /\ Fits(r, thread, chain)
        /\ \A e \in Roles : r.end[e] = "run" => Pc(r, e, thread) \in Waits \union {"locked"}
        /\ Alive(r, thread, up, peers) /\ AllAlive(up, peers, conns, thread)
    BY PcRuns DEF NowAlive, Now, Linked, Proper, AllAlive
  <1>3. r.end["ini"] = "new" /\ r.end["acc"] = "new"
    BY <1>1, <1>2, RolesTwo DEF Fits, ConnOK, Pc, Waits
  <1>4. /\ s.at = r.at /\ s.kind = r.kind /\ s.end["ini"] = "new"
        /\ \/ s.st = "open" /\ s.end["acc"] = "new" /\ up[r.at["acc"]]
           \/ s.st = "refused" /\ s.end["acc"] = "closed" /\ ~up[r.at["acc"]]
    BY <1>2, <1>3, RolesTwo DEF Connections
  <1>5. cs2 = [conns EXCEPT ![c] = s]
    OBVIOUS
  <1> HIDE DEF s
  <1>6. Alive(s, thread, up, peers)
    <2>1. AliveAt(r, "new", "new", up, peers)
      BY <1>2, <1>3 DEF Alive, Pc
    <2>2. /\ Pc(s, "ini", thread) = "new"
          /\ Pc(s, "acc", thread) = s.end["acc"]
      BY <1>4 DEF Pc
    <2> QED BY <1>4, <2>1, <2>2 DEF Alive, AliveAt, Synchronizing
  <1>7. /\ DOMAIN cs2 = DOMAIN conns /\ cs2[c] = s
        /\ \A d \in DOMAIN conns : d # c => cs2[d] = conns[d]
    BY <1>5
  <1> HIDE DEF cs2
  <1>8. \A d \in DOMAIN cs2 : Alive(cs2[d], thread, up, peers)
    BY <1>2, <1>6, <1>7 DEF AllAlive
  <1>9. \A a, b \in Nodes : Talks(conns, a, b) => Talks(cs2, a, b)
    BY <1>3, <1>7, RolesTwo DEF Talks, Talking
  <1>10. AllAlive(up, peers, cs2, thread)
    BY <1>2, <1>8, <1>9 DEF AllAlive, Mutual
  <1> QED BY <1>1, <1>10

\* A process starts and connects to its hosts, up or not.
LEMMA StartAlive ==
  ASSUME NowAlive(peers), up \in [Nodes -> BOOLEAN], NEW n \in Nodes, Start(n)
  PROVE  AllAlive(up, peers, conns, thread)'
  <1> DEFINE u2 == [up EXCEPT ![n] = TRUE]
             cs2 == Connect(conns, n, Hosts[n], "handshake", 0)
  <1>1. /\ up' = u2 /\ conns' = cs2 /\ peers' = peers /\ thread' = thread
    BY DEF Start
  <1>2. \A i \in DOMAIN Hosts[n] : Hosts[n][i] \in Nodes
    BY HostsAssumption
  <1>3. Connected(conns, cs2, n, Hosts[n], "handshake", 0)
    BY ConnectConnects
  <1>4. u2[n] /\ \A m \in Nodes : up[m] => u2[m]
    OBVIOUS
  <1>5. \A c \in DOMAIN conns : conns[c].at["ini"] \in Nodes /\ conns[c].at["acc"] \in Nodes
    BY RolesTwo DEF NowAlive, Now, Linked, Proper, Connections
  <1> HIDE DEF cs2, u2
  <1>6. AllAlive(u2, peers, conns, thread)
    BY <1>4, <1>5 DEF NowAlive, AllAlive, Alive, AliveAt
  <1>7. AllAlive(u2, peers, cs2, thread)
    BY <1>2, <1>3, <1>4, <1>6, Typed, AliveJoins
  <1> QED BY <1>1, <1>7

\* The miner shares with the listed, who are up.
LEMMA MinerSharesAlive ==
  ASSUME NowAlive(peers), peers \in [Nodes -> Seq(Nodes)], NEW n \in Nodes, MinerShares(n)
  PROVE  AllAlive(up, peers, conns, thread)'
  <1> DEFINE cs2 == Connect(conns, n, peers[n], "share", chain[n])
  <1>1. /\ up' = up /\ conns' = cs2 /\ peers' = peers /\ thread' = thread /\ up[n]
    BY DEF MinerShares
  <1>2. \A i \in DOMAIN peers[n] : peers[n][i] \in Nodes /\ up[peers[n][i]]
    <2> TAKE i \in DOMAIN peers[n]
    <2>1. peers[n][i] \in Nodes /\ Listed(peers, n, peers[n][i])
      BY DEF Listed, Range
    <2> QED BY <2>1 DEF NowAlive, AllAlive
  <1>3. Connected(conns, cs2, n, peers[n], "share", chain[n])
    BY ConnectConnects
  <1>4. chain[n] \in Nat /\ AllAlive(up, peers, conns, thread)
    BY DEF NowAlive, Now, Linked
  <1> HIDE DEF cs2
  <1>5. AllAlive(up, peers, cs2, thread)
    BY <1>1, <1>2, <1>3, <1>4, AliveJoins
  <1> QED BY <1>1, <1>5

-----------------------------------------------------------------------------
\* As long as no process was killed, all of this holds.
Unkilled == crashes = 0 => AllAlive(up, peers, conns, thread)

\* It holds when nothing has started yet, ...
LEMMA InitUnkilled == Init => Unkilled
  <1> SUFFICES ASSUME Init PROVE AllAlive(up, peers, conns, thread)
    BY DEF Unkilled
  <1>1. DOMAIN conns = {}
    BY DEF Init
  <1>2. \A n, m \in Nodes : ~Listed(peers, n, m)
    <2> SUFFICES ASSUME NEW n \in Nodes PROVE Range(peers[n]) = {}
      BY DEF Listed
    <2>1. peers[n] = << >> /\ DOMAIN << >> = {}
      BY DEF Init
    <2> QED BY <2>1 DEF Range
  <1> QED BY <1>1, <1>2 DEF AllAlive, Mutual

\* A step that kills nobody keeps all this, and nobody dies of it.
LEMMA NextUnkilled ==
  ASSUME IInv, crashes' = 0, AllAlive(up, peers, conns, thread), Next
  PROVE  /\ AllAlive(up, peers, conns, thread)'
         /\ \A n \in Nodes : up[n] => up'[n]
  <1>1. /\ NowAlive(peers) /\ peers \in [Nodes -> Seq(Nodes)] /\ up \in [Nodes -> BOOLEAN]
    BY DEF IInv, Counted, NowAlive, Now, Linked
  <1>2. CASE \E c \in DOMAIN conns : Establish(c)
    <2>1. UNCHANGED up
      BY <1>2 DEF Establish
    <2> QED BY <1>1, <1>2, <2>1, EstablishAlive
  <1>3. ASSUME NEW n \in Nodes, Start(n) \/ Crash(n) \/ MinerShares(n) \/ Run(n)
        PROVE  AllAlive(up, peers, conns, thread)' /\ \A m \in Nodes : up[m] => up'[m]
    <2>1. CASE Start(n)
      <3>1. up' = [up EXCEPT ![n] = TRUE]
        BY <2>1 DEF Start
      <3> QED BY <1>1, <2>1, <3>1, StartAlive
    <2>2. ~Crash(n)
      BY DEF IInv, Counted, Crash
    <2>3. CASE MinerShares(n)
      <3>1. UNCHANGED up
        BY <2>3 DEF MinerShares
      <3> QED BY <1>1, <2>3, <3>1, MinerSharesAlive
    <2>4. CASE Run(n)
      <3>1. PICK c \in DOMAIN conns : RunHandshake(n, c) \/ RunShare(n, c) \/ Accept(n, c)
        BY <2>4 DEF Run
      <3>2. CASE RunHandshake(n, c)
        BY <1>1, <3>2, RunHandshakeAlive DEF RunHandshake, OnlySockets
      <3>3. CASE RunShare(n, c)
        BY <1>1, <3>3, RunShareAlive
      <3>4. CASE Accept(n, c)
        BY <1>1, <3>4, AcceptAlive DEF Accept, OnlySockets
      <3> QED BY <3>1, <3>2, <3>3, <3>4
    <2> QED BY <1>3, <2>1, <2>2, <2>3, <2>4
  <1>4. ASSUME NEW n \in Nodes, Handle(n)
        PROVE  AllAlive(up, peers, conns, thread)' /\ UNCHANGED up
    <2>1. UNCHANGED up
      BY <1>4 DEF Handle, Fail, AccVersion, AccVerack, AccGetaddr, AccInv, AccGetblocks,
         IniVerack, IniVersion, IniInv, IniAddr, ReceiveBlock, OnlySockets
    <2>2. AllAlive(up, peers, conns, thread)'
      BY <1>1, <1>4, FailAlive, AccVersionAlive, AccVerackAlive, AccGetaddrAlive, AccGetblocksAlive, AccInvAlive,
         IniVerackAlive, IniVersionAlive, IniAddrAlive, IniInvAlive, ReceiveBlockAlive DEF Handle
    <2> QED BY <2>1, <2>2
  <1> QED BY <1>2, <1>3, <1>4 DEF Next

\* The counter of kills never goes down.
LEMMA KillsCounted ==
  ASSUME IInv, [Next]_vars, crashes' = 0
  PROVE  crashes = 0
  <1>1. crashes \in Nat
    BY DEF IInv, Counted
  <1>2. CASE UNCHANGED vars
    BY <1>2 DEF vars, counters
  <1>3. CASE \E n \in Nodes : Crash(n)
    BY <1>1, <1>3 DEF Crash
  <1>4. CASE Next /\ ~\E n \in Nodes : Crash(n)
    BY <1>4 DEF Next, Start, MinerShares, Run, Handle, Establish, RunHandshake, RunShare, Accept,
       Fail, AccVersion, AccVerack, AccGetaddr, AccInv, AccGetblocks, IniVerack, IniVersion, IniInv,
       IniAddr, ReceiveBlock, OnlySockets, counters
  <1> QED BY <1>2, <1>3, <1>4

\* ... and every step keeps it.
LEMMA StepUnkilled == IInv /\ Unkilled /\ [Next]_vars => Unkilled'
  <1> SUFFICES ASSUME IInv, Unkilled, [Next]_vars, crashes' = 0
               PROVE  AllAlive(up, peers, conns, thread)'
    BY DEF Unkilled
  <1>1. AllAlive(up, peers, conns, thread)
    BY KillsCounted DEF Unkilled
  <1>2. CASE Next
    BY <1>1, <1>2, NextUnkilled
  <1>3. CASE UNCHANGED vars
    BY <1>1, <1>3 DEF vars
  <1> QED BY <1>2, <1>3

\* The invariant of Handshake, and that of a run in which nobody was killed.
THEOREM UnkilledAlways == Spec => [](IInv /\ Unkilled)
  <1>1. Init => IInv /\ Unkilled
    BY InitIInv, InitUnkilled
  <1>2. IInv /\ Unkilled /\ [Next]_vars => (IInv /\ Unkilled)'
    BY StepIInv, StepUnkilled
  <1> QED BY <1>1, <1>2, PTL DEF Spec

\* PeersMutual: who lists a peer is listed there, or a handshake of the two runs
\* (m_handshake lists before it asks for peers, m_handle_version before it answers).
THEOREM MutualAlways == Spec => []PeersMutual
  <1>1. IInv /\ Unkilled => PeersMutual
    BY DEF Unkilled, PeersMutual, AllAlive, Mutual, Listed, Talks, Talking
  <1> QED BY <1>1, UnkilledAlways, PTL

\* DiesOnlyAfterAKill: without a kill no share throws, so no process terminates
\* (server.cpp:308 ignores that a connect failed).
THEOREM NobodyDiesUnkilled == Spec => DiesOnlyAfterAKill
  <1> DEFINE Lives == \A n \in Nodes : up[n] /\ ~up'[n] => crashes' > 0
  <1>1. ASSUME IInv, Unkilled, Next PROVE Lives
    <2> SUFFICES ASSUME NEW n \in Nodes, up[n], ~up'[n], ~(crashes' > 0)
                 PROVE  FALSE
      OBVIOUS
    <2>1. crashes' = 0
      BY <1>1, NextCounted DEF Counted
    <2>2. AllAlive(up, peers, conns, thread)
      BY <1>1, <2>1, KillsCounted DEF Unkilled
    <2> QED BY <1>1, <2>1, <2>2, NextUnkilled
  <1>2. ASSUME IInv, Unkilled, [Next]_vars PROVE [Lives]_vars
    BY <1>1, <1>2
  <1> QED BY <1>2, UnkilledAlways, PTL DEF Spec, DiesOnlyAfterAKill
=============================================================================
