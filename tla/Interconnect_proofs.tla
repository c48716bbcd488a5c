------------------------ MODULE Interconnect_proofs ------------------------
(***************************************************************************)
(* Proofs about the interconnect, for any number of starts, eventfds and   *)
(* vectors, and any size of the first peer table.                          *)
(***************************************************************************)
EXTENDS Interconnect, TLAPS

-----------------------------------------------------------------------------
(* The two ends, the constants, and queues.                                *)

LEMMA Ends ==
  /\ 0 \in VM /\ 1 \in VM
  /\ \A v \in VM : Peer(v) \in VM /\ Peer(v) # v /\ Peer(Peer(v)) = v
  /\ \A v, w \in VM : w = v \/ w = Peer(v)
BY DEF VM, Peer

LEMMA Sizes ==
  /\ ServerVectors \in Nat /\ ServerVectors >= 2
  /\ Vectors \in Nat /\ Vectors >= 2
  /\ InitPeers \in Nat /\ InitPeers >= 1
  /\ MaxStarts \in Nat /\ MaxStarts >= 1
BY VectorsAssumption, TableAssumption, IdsAssumption

LEMMA IdsAre == /\ \A p \in Ids : p \in Nat /\ p < MaxStarts
                /\ 0 \in Ids
                /\ None \notin Ids
BY Sizes DEF Ids, None

\* What is left of a queue once its head is read.
LEMMA TailIs ==
  ASSUME NEW S, NEW q \in Seq(S), q # <<>>
  PROVE  /\ Tail(q) \in Seq(S) /\ Head(q) \in S
         /\ Len(q) >= 1 /\ Head(q) = q[1] /\ 1 \in DOMAIN q
         /\ DOMAIN Tail(q) = 1 .. Len(q) - 1
         /\ DOMAIN q = 1 .. Len(q)
         /\ \A i \in DOMAIN Tail(q) : Tail(q)[i] = q[i + 1] /\ i + 1 \in DOMAIN q
OBVIOUS

\* A queue with more at its end.
LEMMA LongerIs ==
  ASSUME NEW S, NEW q \in Seq(S), NEW r \in Seq(S)
  PROVE  /\ q \o r \in Seq(S)
         /\ DOMAIN q = 1 .. Len(q) /\ DOMAIN r = 1 .. Len(r) /\ Len(q) \in Nat /\ Len(r) \in Nat
         /\ DOMAIN (q \o r) = 1 .. Len(q) + Len(r)
         /\ \A i \in DOMAIN q : (q \o r)[i] = q[i]
         /\ \A i \in DOMAIN r : (q \o r)[Len(q) + i] = r[i]
         /\ \A i \in DOMAIN (q \o r) :
              i \in DOMAIN q \/ (i > Len(q) /\ i - Len(q) \in DOMAIN r /\ (q \o r)[i] = r[i - Len(q)])
OBVIOUS

\* A sequence with one element more.
LEMMA OneMore ==
  ASSUME NEW S, NEW q \in Seq(S), NEW e \in S
  PROVE  /\ Append(q, e) \in Seq(S)
         /\ DOMAIN q = 1 .. Len(q) /\ Len(q) \in Nat
         /\ DOMAIN Append(q, e) = 1 .. Len(q) + 1
         /\ \A n \in DOMAIN q : Append(q, e)[n] = q[n]
         /\ Append(q, e)[Len(q) + 1] = e
OBVIOUS

\* A sequence without its n-th element has the others.
LEMMA RemoveAtIs ==
  ASSUME NEW S, NEW q \in Seq(S), NEW n \in DOMAIN q
  PROVE  /\ RemoveAt(q, n) \in Seq(S)
         /\ \A i \in DOMAIN RemoveAt(q, n) : \E j \in DOMAIN q : RemoveAt(q, n)[i] = q[j]
         /\ \A j \in DOMAIN q \ {n} : \E i \in DOMAIN RemoveAt(q, n) : RemoveAt(q, n)[i] = q[j]
<1>. DEFINE a == SubSeq(q, 1, n - 1)
            b == SubSeq(q, n + 1, Len(q))
<1>1. n \in 1 .. Len(q) /\ Len(q) \in Nat /\ DOMAIN q = 1 .. Len(q)
  OBVIOUS
<1>2. a \in Seq(S) /\ Len(a) = n - 1 /\ \A i \in 1 .. n - 1 : a[i] = q[i]
  BY <1>1
<1>3. b \in Seq(S) /\ Len(b) = Len(q) - n /\ \A i \in 1 .. Len(q) - n : b[i] = q[n + i]
  BY <1>1
<1>4. RemoveAt(q, n) = a \o b
  BY DEF RemoveAt
<1>. HIDE DEF a, b
<1>5. /\ a \o b \in Seq(S) /\ DOMAIN (a \o b) = 1 .. Len(a) + Len(b)
      /\ \A i \in 1 .. Len(a) + Len(b) :
           (a \o b)[i] = IF i <= Len(a) THEN a[i] ELSE b[i - Len(a)]
  <2>1. a \in Seq(S) /\ b \in Seq(S)
    BY <1>2, <1>3
  <2>2. a \o b \in Seq(S) /\ DOMAIN (a \o b) = 1 .. Len(a) + Len(b)
    BY <2>1, LongerIs
  <2>. QED BY <2>1, <2>2
<1>6. /\ DOMAIN (a \o b) = 1 .. Len(q) - 1
      /\ \A i \in 1 .. Len(q) - 1 : (a \o b)[i] = IF i < n THEN q[i] ELSE q[i + 1]
  <2>1. Len(a) + Len(b) = Len(q) - 1
    BY <1>1, <1>2, <1>3
  <2>2. ASSUME NEW i \in 1 .. Len(q) - 1, i < n PROVE (a \o b)[i] = q[i]
    BY <2>1, <2>2, <1>1, <1>2, <1>5
  <2>3. ASSUME NEW i \in 1 .. Len(q) - 1, ~(i < n) PROVE (a \o b)[i] = q[i + 1]
    <3>1. i - Len(a) \in 1 .. Len(q) - n /\ n + (i - Len(a)) = i + 1 /\ ~(i <= Len(a))
      BY <2>3, <1>1, <1>2
    <3>. QED BY <3>1, <2>1, <1>3, <1>5
  <2>. QED BY <2>1, <2>2, <2>3, <1>5
<1>. DEFINE r == a \o b
<1>. HIDE DEF r
<1>7. ASSUME NEW i \in 1 .. Len(q) - 1 PROVE \E j \in DOMAIN q : r[i] = q[j]
  <2>1. i \in DOMAIN q /\ i + 1 \in DOMAIN q
    BY <1>1
  <2>. QED BY <2>1, <1>6 DEF r
<1>8. ASSUME NEW j \in DOMAIN q \ {n} PROVE \E i \in 1 .. Len(q) - 1 : r[i] = q[j]
  <2>1. CASE j < n
    <3>1. j \in 1 .. Len(q) - 1
      BY <2>1, <1>1
    <3>. QED BY <3>1, <2>1, <1>6 DEF r
  <2>2. CASE ~(j < n)
    <3>1. j - 1 \in 1 .. Len(q) - 1 /\ ~(j - 1 < n) /\ (j - 1) + 1 = j
      BY <2>2, <1>1
    <3>2. r[j - 1] = q[(j - 1) + 1]
      BY <3>1, <1>6 DEF r
    <3>. QED BY <3>1, <3>2
  <2>. QED BY <2>1, <2>2
<1>. QED BY <1>4, <1>5, <1>6, <1>7, <1>8 DEF r

-----------------------------------------------------------------------------
(* The messages of the server.                                             *)

LEMMA MessagesAre ==
  ASSUME NEW p \in Ids
  PROVE  FdOf(p) \in Messages /\ GoneOf(p) \in Messages
BY DEF FdOf, GoneOf, Messages

\* A message is told by its id and its kind.
LEMMA MessagesDiffer ==
  /\ \A m \in Messages : m.id \in Ids /\ (m = FdOf(m.id) \/ m = GoneOf(m.id))
  /\ \A m \in Messages : m.kind = "fd" => m = FdOf(m.id)
  /\ \A m \in Messages : m.kind = "gone" => m = GoneOf(m.id)
  /\ \A p, q : FdOf(p) # GoneOf(q) /\ (FdOf(p) = FdOf(q) => p = q)
  /\ \A p : FdOf(p).id = p /\ GoneOf(p).id = p
BY DEF Messages, FdOf, GoneOf

LEMMA FdsAre ==
  ASSUME NEW p \in Ids
  PROVE  /\ Fds(p) \in Seq(Messages) /\ DOMAIN Fds(p) = 1 .. ServerVectors
         /\ Len(Fds(p)) = ServerVectors
         /\ \A i \in DOMAIN Fds(p) : Fds(p)[i] = FdOf(p)
BY Sizes, MessagesAre DEF Fds

\* The k-th of consecutive blocks of s.
LEMMA Blocks ==
  ASSUME NEW s \in Nat, s >= 1, NEW n \in Nat, NEW r \in 0 .. s - 1
  PROVE  (n * s + r) \div s = n
OBVIOUS

LEMMA BlockOf ==
  ASSUME NEW s \in Nat, s >= 1, NEW m \in Nat, NEW k \in 1 .. m * s
  PROVE  ((k - 1) \div s) + 1 \in 1 .. m
OBVIOUS

\* All eventfds of the members of ps: for each member two, and nothing else.
LEMMA FdsOfAre ==
  ASSUME NEW ps \in Seq(Ids)
  PROVE  /\ FdsOf(ps) \in Seq(Messages)
         /\ \A i \in DOMAIN FdsOf(ps) : \E n \in DOMAIN ps : FdsOf(ps)[i] = FdOf(ps[n])
         /\ \A n \in DOMAIN ps : \E i, j \in DOMAIN FdsOf(ps) :
              /\ i < j
              /\ FdsOf(ps)[i] = FdOf(ps[n]) /\ FdsOf(ps)[j] = FdOf(ps[n])
<1>. DEFINE S == ServerVectors
            L == Len(ps)
            f(k) == FdOf(ps[((k - 1) \div S) + 1])
<1>1. S \in Nat /\ S >= 2 /\ L \in Nat /\ DOMAIN ps = 1 .. L
  BY Sizes
<1>2. FdsOf(ps) = [k \in 1 .. L * S |-> f(k)]
  BY DEF FdsOf
<1>3. L * S \in Nat
  BY <1>1
<1>4. ASSUME NEW k \in 1 .. L * S
      PROVE  ((k - 1) \div S) + 1 \in 1 .. L
  BY <1>1, BlockOf
<1>5. \A k \in 1 .. L * S : ps[((k - 1) \div S) + 1] \in Ids
  BY <1>1, <1>4
<1>6. \A k \in 1 .. L * S : f(k) \in Messages
  BY <1>5, MessagesAre
<1>7. ASSUME NEW n \in 1 .. L
      PROVE  \E i, j \in 1 .. L * S : i < j /\ f(i) = FdOf(ps[n]) /\ f(j) = FdOf(ps[n])
  <2>. DEFINE i == (n - 1) * S + 1
              j == (n - 1) * S + 2
  <2>1. (n - 1) * S + S <= L * S /\ (n - 1) * S \in Nat
    BY <1>1
  <2>2. i \in 1 .. L * S /\ j \in 1 .. L * S /\ i < j
    BY <1>1, <1>3, <2>1
  <2>3. ((n - 1) * S + 0) \div S = n - 1 /\ ((n - 1) * S + 1) \div S = n - 1
    <3>1. n - 1 \in Nat /\ 0 \in 0 .. S - 1 /\ 1 \in 0 .. S - 1 /\ S >= 1
      BY <1>1
    <3>. HIDE DEF S
    <3>. QED BY <3>1, <1>1, Blocks
  <2>4. i - 1 = (n - 1) * S + 0 /\ j - 1 = (n - 1) * S + 1
    BY <2>1
  <2>5. ((i - 1) \div S) + 1 = n /\ ((j - 1) \div S) + 1 = n
    BY <2>3, <2>4
  <2>6. f(i) = FdOf(ps[n]) /\ f(j) = FdOf(ps[n])
    BY <2>5
  <2>. QED BY <2>2, <2>6
<1>. HIDE DEF S, L
<1>8. DOMAIN FdsOf(ps) = 1 .. L * S /\ \A k \in 1 .. L * S : FdsOf(ps)[k] = f(k)
  BY <1>2
<1>9. FdsOf(ps) \in Seq(Messages)
  BY <1>2, <1>3, <1>6
<1>10. \A i \in DOMAIN FdsOf(ps) : \E n \in DOMAIN ps : FdsOf(ps)[i] = FdOf(ps[n])
  BY <1>1, <1>4, <1>8
<1>11. \A n \in DOMAIN ps : \E i, j \in DOMAIN FdsOf(ps) :
         i < j /\ FdsOf(ps)[i] = FdOf(ps[n]) /\ FdsOf(ps)[j] = FdOf(ps[n])
  <2>. HIDE DEF f
  <2>. SUFFICES ASSUME NEW n \in 1 .. L
                PROVE  \E i, j \in DOMAIN FdsOf(ps) :
                         i < j /\ FdsOf(ps)[i] = FdOf(ps[n]) /\ FdsOf(ps)[j] = FdOf(ps[n])
    BY <1>1
  <2>1. PICK i \in 1 .. L * S, j \in 1 .. L * S :
          i < j /\ f(i) = FdOf(ps[n]) /\ f(j) = FdOf(ps[n])
    BY <1>7
  <2>2. i \in DOMAIN FdsOf(ps) /\ j \in DOMAIN FdsOf(ps)
    BY <1>8
  <2>3. FdsOf(ps)[i] = f(i) /\ FdsOf(ps)[j] = f(j)
    BY <1>8
  <2>. QED BY <2>1, <2>2, <2>3
<1>. QED BY <1>9, <1>10, <1>11

-----------------------------------------------------------------------------
(* Peer tables.                                                            *)

LEMMA EntriesAre ==
  /\ \A e \in Entries : e.nb \in Nat /\ e.nb <= Vectors /\ e.mem \in {"none", "live", "freed"}
  /\ {NoEntry, NewEntry, ClosedEntry} \subseteq Entries
  /\ NoEntry.nb = 0 /\ NewEntry.nb = 0 /\ ClosedEntry.nb = 0
  /\ NoEntry.mem = "none" /\ NewEntry.mem = "live" /\ ClosedEntry.mem = "freed"
BY Sizes DEF Entries, NoEntry, NewEntry, ClosedEntry

\* A table tab of n entries.
TableOK(tab, n) ==
  /\ tab \in [Ids -> Entries] /\ n \in Nat
  /\ \A q \in Ids : /\ tab[q].mem = "none" <=> q >= n
                    /\ tab[q].mem = "none" => tab[q].nb = 0

\* A table grown for p has an entry for p, and is otherwise what it was.
LEMMA GrownIs ==
  ASSUME TypeOK, TableFits, NEW v \in VM, NEW p \in Ids
  PROVE  /\ TableOK(Grown(v, p), Size(v, p))
         /\ p < Size(v, p)
         /\ \A q \in Ids : /\ Grown(v, p)[q].nb = peers[v][q].nb
                           /\ Grown(v, p)[q].mem = "freed" <=> peers[v][q].mem = "freed"
<1>1. nbPeers[v] \in Nat /\ peers[v] \in [Ids -> Entries] /\ p \in Nat
  BY IdsAre DEF TypeOK
<1>2. TableOK(peers[v], nbPeers[v])
  BY <1>1 DEF TableFits, TableOK
<1>3. CASE p < nbPeers[v]
  BY <1>1, <1>2, <1>3 DEF Grown, Size
<1>4. CASE ~(p < nbPeers[v])
  <2>1. Size(v, p) = p + 1
    BY <1>4 DEF Size
  <2>2. Grown(v, p) = [q \in Ids |-> IF q >= nbPeers[v] /\ q <= p THEN NewEntry ELSE peers[v][q]]
    BY <1>4 DEF Grown
  <2>3. Grown(v, p) \in [Ids -> Entries]
    BY <1>1, <2>2, EntriesAre
  <2>4. ASSUME NEW q \in Ids
        PROVE  /\ Grown(v, p)[q].mem = "none" <=> q >= p + 1
               /\ Grown(v, p)[q].mem = "none" => Grown(v, p)[q].nb = 0
               /\ Grown(v, p)[q].nb = peers[v][q].nb
               /\ Grown(v, p)[q].mem = "freed" <=> peers[v][q].mem = "freed"
    <3>1. q \in Nat
      BY IdsAre
    <3>2. CASE q >= nbPeers[v] /\ q <= p
      <4>1. Grown(v, p)[q] = NewEntry
        BY <2>2, <3>2
      <4>2. peers[v][q].mem = "none" /\ peers[v][q].nb = 0
        BY <1>2, <3>2 DEF TableOK
      <4>. QED BY <4>1, <4>2, <3>1, <3>2, <1>1, EntriesAre
    <3>3. CASE ~(q >= nbPeers[v] /\ q <= p)
      <4>1. Grown(v, p)[q] = peers[v][q]
        BY <2>2, <3>3
      <4>. QED BY <4>1, <3>1, <3>3, <1>1, <1>2, <1>4 DEF TableOK
    <3>. QED BY <3>2, <3>3
  <2>. QED BY <1>1, <2>1, <2>3, <2>4 DEF TableOK
<1>. QED BY <1>3, <1>4

\* A new table.
LEMMA TableIs ==
  ASSUME NEW n \in Nat
  PROVE  /\ TableOK(Table(n), n)
         /\ \A q \in Ids : Table(n)[q].nb = 0 /\ Table(n)[q].mem # "freed"
BY EntriesAre, IdsAre DEF Table, TableOK

\* Tables that fit, end by end.
LEMMA TablesFit ==
  ASSUME NEW v \in VM, NEW tab, NEW n,
         TypeOK, TableFits, TableOK(tab, n),
         peers' = [peers EXCEPT ![v] = tab], nbPeers' = [nbPeers EXCEPT ![v] = n]
  PROVE  /\ peers' \in [VM -> [Ids -> Entries]] /\ nbPeers' \in [VM -> Nat]
         /\ peers'[v] = tab /\ nbPeers'[v] = n
         /\ \A w \in VM : w # v => peers'[w] = peers[w] /\ nbPeers'[w] = nbPeers[w]
         /\ TableFits'
<1>1. /\ peers' \in [VM -> [Ids -> Entries]] /\ nbPeers' \in [VM -> Nat]
      /\ peers'[v] = tab /\ nbPeers'[v] = n
      /\ \A w \in VM : w # v => peers'[w] = peers[w] /\ nbPeers'[w] = nbPeers[w]
  BY DEF TypeOK, TableOK
<1>. QED BY <1>1 DEF TableFits, TableOK

\* What a message about p does to the rest of the state: it is read.
Read(v, p) ==
  /\ Running(v) /\ p \in Ids /\ sent[v] # <<>>
  /\ sent' = [sent EXCEPT ![v] = Tail(@)]
  /\ UNCHANGED <<nextId, members, vmId>>

\* One more eventfd of p: it is counted if there is room, and nothing is freed.
LEMMA ConnectTable ==
  ASSUME TypeOK, TableFits, NEW v \in VM, Connect(v)
  PROVE  \E p \in Ids :
           /\ Head(sent[v]) = FdOf(p) /\ Read(v, p)
           /\ TableFits' /\ peers' \in [VM -> [Ids -> Entries]] /\ nbPeers' \in [VM -> Nat]
           /\ \A w \in VM : w # v => peers'[w] = peers[w] /\ nbPeers'[w] = nbPeers[w]
           /\ \A q \in Ids : peers'[v][q].mem = "freed" <=> peers[v][q].mem = "freed"
           /\ \A q \in Ids : q # p => peers'[v][q].nb = peers[v][q].nb
           /\ peers'[v][p].nb = IF peers[v][p].nb < Vectors THEN peers[v][p].nb + 1 ELSE peers[v][p].nb
           /\ p < nbPeers'[v]
           /\ IF p = vmId[v] /\ peers[v][p].nb < Vectors
              THEN SetupInterrupt(v, peers[v][p].nb, peers'[v], nbPeers'[v])
              ELSE UNCHANGED <<watched, sharedId, otherId, pending, proc>>
<1>. DEFINE p   == Head(sent[v]).id
            tab == Grown(v, p)
            k   == tab[p].nb
            got == IF k < Vectors THEN [tab EXCEPT ![p].nb = k + 1] ELSE tab
            n   == Size(v, p)
<1>1. /\ Running(v) /\ sent[v] # <<>> /\ Head(sent[v]).kind = "fd"
      /\ sent' = [sent EXCEPT ![v] = Tail(@)]
      /\ peers' = [peers EXCEPT ![v] = got] /\ nbPeers' = [nbPeers EXCEPT ![v] = n]
      /\ IF p = vmId[v] /\ k < Vectors
         THEN SetupInterrupt(v, k, got, n)
         ELSE UNCHANGED <<watched, sharedId, otherId, pending, proc>>
      /\ UNCHANGED <<nextId, members, vmId>>
  BY DEF Connect, Receive, Room, server, Running
<1>2. Head(sent[v]) \in Messages
  BY <1>1, TailIs DEF TypeOK
<1>3. p \in Ids /\ Head(sent[v]) = FdOf(p)
  BY <1>1, <1>2, MessagesDiffer
<1>4. /\ TableOK(tab, n) /\ p < n
      /\ \A q \in Ids : /\ tab[q].nb = peers[v][q].nb
                        /\ tab[q].mem = "freed" <=> peers[v][q].mem = "freed"
  BY <1>3, GrownIs
<1>. HIDE DEF p, tab, n
<1>5. /\ tab \in [Ids -> Entries] /\ k \in Nat /\ k <= Vectors /\ tab[p].mem # "none"
      /\ p \in Nat /\ n \in Nat
  BY <1>3, <1>4, IdsAre, EntriesAre DEF TableOK
<1>6. /\ got \in [Ids -> Entries]
      /\ \A q \in Ids : got[q].mem = tab[q].mem
      /\ \A q \in Ids : q # p => got[q].nb = tab[q].nb
      /\ got[p].nb = IF k < Vectors THEN k + 1 ELSE k
  <2>1. CASE k < Vectors
    <3>1. got = [tab EXCEPT ![p].nb = k + 1]
      BY <2>1
    <3>2. tab[p] \in Entries /\ k + 1 \in 0 .. Vectors
      BY <1>3, <1>5, <2>1, Sizes
    <3>3. [tab[p] EXCEPT !.nb = k + 1] \in Entries
      BY <3>2 DEF Entries
    <3>. QED BY <3>1, <3>2, <3>3, <1>3, <1>5, <2>1 DEF Entries
  <2>2. CASE ~(k < Vectors)
    BY <2>2, <1>5
  <2>. QED BY <2>1, <2>2
<1>. HIDE DEF got
<1>7. TableOK(got, n)
  BY <1>3, <1>4, <1>5, <1>6 DEF TableOK
<1>8. k = peers[v][p].nb
  BY <1>3, <1>4
<1>. HIDE DEF k
<1>9. /\ TableFits' /\ peers' \in [VM -> [Ids -> Entries]] /\ nbPeers' \in [VM -> Nat]
      /\ peers'[v] = got /\ nbPeers'[v] = n
      /\ \A w \in VM : w # v => peers'[w] = peers[w] /\ nbPeers'[w] = nbPeers[w]
  BY <1>1, <1>7, TablesFit
<1>10. Read(v, p)
  BY <1>1, <1>3 DEF Read
<1>11. \A q \in Ids : /\ peers'[v][q].mem = "freed" <=> peers[v][q].mem = "freed"
                      /\ q # p => peers'[v][q].nb = peers[v][q].nb
  BY <1>4, <1>6, <1>9
<1>12. peers'[v][p].nb = IF peers[v][p].nb < Vectors THEN peers[v][p].nb + 1 ELSE peers[v][p].nb
  BY <1>6, <1>8, <1>9
<1>13. IF p = vmId[v] /\ peers[v][p].nb < Vectors
       THEN SetupInterrupt(v, peers[v][p].nb, peers'[v], nbPeers'[v])
       ELSE UNCHANGED <<watched, sharedId, otherId, pending, proc>>
  BY <1>1, <1>8, <1>9
<1>14. p < nbPeers'[v]
  BY <1>4, <1>9
<1>. QED BY <1>3, <1>9, <1>10, <1>11, <1>12, <1>13, <1>14

\* p has gone: its entry is freed and holds nothing, the others stay.
LEMMA DisconnectTable ==
  ASSUME TypeOK, TableFits, NEW v \in VM, Disconnect(v)
  PROVE  \E p \in Ids :
           /\ Head(sent[v]) = GoneOf(p) /\ Read(v, p) /\ p # vmId[v]
           /\ TableFits' /\ peers' \in [VM -> [Ids -> Entries]] /\ nbPeers' \in [VM -> Nat]
           /\ \A w \in VM : w # v => peers'[w] = peers[w] /\ nbPeers'[w] = nbPeers[w]
           /\ peers'[v][p].nb = 0
           /\ \A q \in Ids : q # p =>
                /\ peers'[v][q].mem = "freed" <=> peers[v][q].mem = "freed"
                /\ peers'[v][q].nb = peers[v][q].nb
           /\ UNCHANGED <<proc, watched, otherId, sharedId, pending>>
<1>. DEFINE p   == Head(sent[v]).id
            tab == Grown(v, p)
            got == [tab EXCEPT ![p] = ClosedEntry]
            n   == Size(v, p)
<1>1. /\ Running(v) /\ sent[v] # <<>> /\ Head(sent[v]).kind = "gone" /\ p # vmId[v]
      /\ sent' = [sent EXCEPT ![v] = Tail(@)]
      /\ peers' = [peers EXCEPT ![v] = got] /\ nbPeers' = [nbPeers EXCEPT ![v] = n]
      /\ UNCHANGED <<proc, watched, otherId, sharedId, pending>>
      /\ UNCHANGED <<nextId, members, vmId>>
  BY DEF Disconnect, Receive, server, Running
<1>2. Head(sent[v]) \in Messages
  BY <1>1, TailIs DEF TypeOK
<1>3. p \in Ids /\ Head(sent[v]) = GoneOf(p)
  BY <1>1, <1>2, MessagesDiffer
<1>4. /\ TableOK(tab, n) /\ p < n
      /\ \A q \in Ids : /\ tab[q].nb = peers[v][q].nb
                        /\ tab[q].mem = "freed" <=> peers[v][q].mem = "freed"
  BY <1>3, GrownIs
<1>. HIDE DEF p, tab, n
<1>5. p \in Nat /\ n \in Nat /\ tab \in [Ids -> Entries]
  BY <1>3, <1>4, IdsAre DEF TableOK
<1>6. got \in [Ids -> Entries] /\ got[p] = ClosedEntry /\ \A q \in Ids : q # p => got[q] = tab[q]
  BY <1>3, <1>5, EntriesAre
<1>7. TableOK(got, n)
  BY <1>4, <1>5, <1>6, EntriesAre DEF TableOK
<1>. HIDE DEF got
<1>8. /\ TableFits' /\ peers' \in [VM -> [Ids -> Entries]] /\ nbPeers' \in [VM -> Nat]
      /\ peers'[v] = got
      /\ \A w \in VM : w # v => peers'[w] = peers[w] /\ nbPeers'[w] = nbPeers[w]
  BY <1>1, <1>7, TablesFit
<1>9. Read(v, p)
  BY <1>1, <1>3 DEF Read
<1>10. /\ peers'[v][p].nb = 0
       /\ \A q \in Ids : q # p =>
            /\ peers'[v][q].mem = "freed" <=> peers[v][q].mem = "freed"
            /\ peers'[v][q].nb = peers[v][q].nb
  BY <1>3, <1>4, <1>6, <1>8, EntriesAre
<1>. QED BY <1>1, <1>3, <1>8, <1>9, <1>10

-----------------------------------------------------------------------------
(* Queues, processes and announcements.                                    *)

\* The head of a queue is read: what is queued was queued, and only the head
\* may not be queued any longer.
LEMMA ReadQueue ==
  ASSUME TypeOK, NEW v \in VM, NEW p \in Ids, Read(v, p)
  PROVE  /\ sent' \in [VM -> Seq(Messages)] /\ sent[v] \in Seq(Messages)
         /\ \A w \in VM : w # v => sent'[w] = sent[w]
         /\ Head(sent[v]) = sent[v][1] /\ 1 \in DOMAIN sent[v]
         /\ DOMAIN sent[v] \subseteq Nat \ {0}
         /\ \A i \in DOMAIN sent'[v] : sent'[v][i] = sent[v][i + 1] /\ i + 1 \in DOMAIN sent[v]
         /\ \A i \in DOMAIN sent[v] :
              i > 1 => sent[v][i] = sent'[v][i - 1] /\ i - 1 \in DOMAIN sent'[v]
<1>1. sent[v] \in Seq(Messages) /\ sent[v] # <<>>
  BY DEF TypeOK, Read
<1>2. /\ Tail(sent[v]) \in Seq(Messages)
      /\ Head(sent[v]) = sent[v][1] /\ 1 \in DOMAIN sent[v]
      /\ DOMAIN Tail(sent[v]) = 1 .. Len(sent[v]) - 1
      /\ DOMAIN sent[v] = 1 .. Len(sent[v])
      /\ \A i \in DOMAIN Tail(sent[v]) :
           Tail(sent[v])[i] = sent[v][i + 1] /\ i + 1 \in DOMAIN sent[v]
      /\ Len(sent[v]) \in Nat
  BY <1>1, TailIs
<1>3. /\ sent' \in [VM -> Seq(Messages)]
      /\ sent'[v] = Tail(sent[v])
      /\ \A w \in VM : w # v => sent'[w] = sent[w]
  BY <1>2 DEF TypeOK, Read
<1>4. ASSUME NEW i \in DOMAIN sent[v], i > 1
      PROVE  sent[v][i] = sent'[v][i - 1] /\ i - 1 \in DOMAIN sent'[v]
  <2>1. i - 1 \in 1 .. Len(sent[v]) - 1 /\ (i - 1) + 1 = i
    BY <1>2, <1>4
  <2>. QED BY <2>1, <1>2, <1>3
<1>. QED BY <1>1, <1>2, <1>3, <1>4

LEMMA ReadQueued ==
  ASSUME TypeOK, NEW v \in VM, NEW p \in Ids, Read(v, p), NEW m
  PROVE  /\ Queued(v, m)' => Queued(v, m)
         /\ m # Head(sent[v]) /\ Queued(v, m) => Queued(v, m)'
         /\ m # Head(sent[v]) /\ QueuedTwice(v, m) => QueuedTwice(v, m)'
         /\ QueuedTwice(v, m) => Queued(v, m)'
<1>1. Queued(v, m)' => Queued(v, m)
  BY ReadQueue DEF Queued
<1>2. ASSUME NEW i \in DOMAIN sent[v], sent[v][i] = m, i > 1 \/ m # Head(sent[v])
      PROVE  i > 1 /\ i - 1 \in DOMAIN sent'[v] /\ sent'[v][i - 1] = m
  BY <1>2, ReadQueue
<1>3. m # Head(sent[v]) /\ Queued(v, m) => Queued(v, m)'
  BY <1>2 DEF Queued
<1>4. ASSUME QueuedTwice(v, m)
      PROVE  Queued(v, m)' /\ (m # Head(sent[v]) => QueuedTwice(v, m)')
  <2>1. PICK i \in DOMAIN sent[v], j \in DOMAIN sent[v] :
          sent[v][i] = m /\ sent[v][j] = m /\ j < i
    BY <1>4 DEF QueuedTwice, QueuedBefore
  <2>2. i \in Nat /\ j \in Nat /\ j >= 1 /\ i > 1
    BY <2>1, ReadQueue
  <2>3. i - 1 \in DOMAIN sent'[v] /\ sent'[v][i - 1] = m
    BY <1>2, <2>1, <2>2
  <2>4. ASSUME m # Head(sent[v]) PROVE QueuedTwice(v, m)'
    <3>1. j - 1 \in DOMAIN sent'[v] /\ sent'[v][j - 1] = m
      BY <1>2, <2>1, <2>4
    <3>2. j - 1 < i - 1
      BY <2>1, <2>2
    <3>. QED BY <2>3, <3>1, <3>2 DEF QueuedTwice, QueuedBefore
  <2>. QED BY <2>3, <2>4 DEF Queued
<1>. QED BY <1>1, <1>3, <1>4

\* No process starts, and only a running one may die.
Calm == \A w \in VM : proc'[w] = proc[w] \/ (proc[w] = "up" /\ proc'[w] = "dead")

Pairs == Ids \X (0 .. Vectors - 1)

\* A notification adds at most itself to what is pending; it arrives where the
\* entry is good, and is deadly only where the entry is out of range or freed.
LEMMA RingIs ==
  ASSUME TypeOK, NEW v \in VM, Running(v), NEW tab, NEW n, TableOK(tab, n),
         NEW p \in Ids \cup {None}, NEW k \in 0 .. Vectors - 1, Ring(v, tab, n, p, k)
  PROVE  /\ pending' \in SUBSET Pairs /\ pending \subseteq pending'
         /\ proc' \in [VM -> {"off", "up", "dead"}] /\ Calm
         /\ \A w \in VM : w # v => proc'[w] = proc[w]
         /\ proc'[v] = "dead" => p = None \/ p >= n \/ tab[p].mem = "freed"
         /\ Signallable(tab, n, p, k) => <<p, k>> \in pending' /\ proc' = proc
<1>1. pending' \in SUBSET Pairs /\ pending \subseteq pending'
  BY DEF Ring, Signallable, TypeOK, Pairs
<1>2. /\ proc' \in [VM -> {"off", "up", "dead"}] /\ Calm
      /\ \A w \in VM : w # v => proc'[w] = proc[w]
  BY DEF Ring, TypeOK, Calm, Running
<1>3. proc'[v] = "dead" => p = None \/ p >= n \/ tab[p].mem = "freed"
  <2>. SUFFICES ASSUME proc'[v] = "dead", p # None, ~(p >= n)
                PROVE  tab[p].mem = "freed"
    OBVIOUS
  <2>1. proc' # proc
    BY DEF Running
  <2>2. tab[p].mem # "live"
    <3>1. p < n
      BY IdsAre DEF TableOK
    <3>. QED BY <2>1, <3>1 DEF Ring, Wild
  <2>3. tab[p].mem # "none" /\ tab[p] \in Entries
    BY DEF TableOK
  <2>. QED BY <2>2, <2>3, EntriesAre
<1>4. Signallable(tab, n, p, k) => <<p, k>> \in pending' /\ proc' = proc
  <2>. SUFFICES ASSUME Signallable(tab, n, p, k) PROVE ~Wild(tab, n, p)
    BY DEF Ring
  <2>1. p \in Nat /\ n \in Nat
    BY IdsAre DEF Signallable, TableOK
  <2>. QED BY <2>1 DEF Signallable, Wild
<1>. QED BY <1>1, <1>2, <1>3, <1>4

\* A new vector of v's own: it is watched, and the one for interrupts
\* announces v.
LEMMA SetupIs ==
  ASSUME TypeOK, NEW v \in VM, Running(v), vmId[v] \in Ids, NEW tab, NEW n, TableOK(tab, n),
         NEW k \in 0 .. Vectors - 1, SetupInterrupt(v, k, tab, n)
  PROVE  /\ watched' \in [VM -> SUBSET (0 .. Vectors - 1)]
         /\ sharedId' \in [VM -> Ids] /\ otherId' \in [VM -> Ids \cup {None}]
         /\ pending' \in SUBSET Pairs /\ pending \subseteq pending'
         /\ proc' \in [VM -> {"off", "up", "dead"}] /\ Calm
         /\ \A w \in VM : w # v =>
              proc'[w] = proc[w] /\ sharedId'[w] = sharedId[w] /\ otherId'[w] = otherId[w]
         /\ proc'[v] = "dead" =>
              otherId'[v] # None /\ (otherId'[v] >= n \/ tab[otherId'[v]].mem = "freed")
         /\ k # HOST => UNCHANGED <<sharedId, otherId, pending, proc>>
         /\ k = HOST => sharedId'[v] = vmId[v]
         /\ v # Announcer => otherId' = otherId
         /\ k = HOST /\ v = Announcer =>
              /\ otherId'[v] = WordOfPeer(v)
              /\ Signallable(tab, n, WordOfPeer(v), VMID) => <<WordOfPeer(v), VMID>> \in pending'
<1>1. watched' \in [VM -> SUBSET (0 .. Vectors - 1)]
  BY DEF SetupInterrupt, TypeOK
<1>2. CASE k # HOST
  <2>1. UNCHANGED <<sharedId, otherId, pending, proc>>
    BY <1>2 DEF SetupInterrupt
  <2>. QED BY <1>1, <1>2, <2>1 DEF TypeOK, Pairs, Calm, Running
<1>3. CASE k = HOST
  <2>1. /\ sharedId' = [sharedId EXCEPT ![v] = vmId[v]]
        /\ IF v = Announcer
           THEN /\ otherId' = [otherId EXCEPT ![v] = WordOfPeer(v)]
                /\ Ring(v, tab, n, WordOfPeer(v), VMID)
           ELSE UNCHANGED <<otherId, pending, proc>>
    BY <1>3 DEF SetupInterrupt, InitVmIds
  <2>2. sharedId' \in [VM -> Ids] /\ sharedId'[v] = vmId[v] /\ \A w \in VM : w # v => sharedId'[w] = sharedId[w]
    BY <2>1 DEF TypeOK
  <2>3. CASE v # Announcer
    BY <1>1, <1>3, <2>1, <2>2, <2>3 DEF TypeOK, Pairs, Calm, Running
  <2>4. CASE v = Announcer
    <3>1. WordOfPeer(v) \in Ids /\ VMID \in 0 .. Vectors - 1
      BY Ends, Sizes DEF WordOfPeer, TypeOK, VMID
    <3>2. /\ otherId' \in [VM -> Ids \cup {None}] /\ otherId'[v] = WordOfPeer(v)
          /\ \A w \in VM : w # v => otherId'[w] = otherId[w]
      BY <2>1, <2>4, <3>1 DEF TypeOK
    <3>3. Ring(v, tab, n, WordOfPeer(v), VMID)
      BY <2>1, <2>4
    <3>. DEFINE q == WordOfPeer(v)
    <3>4. /\ pending' \in SUBSET Pairs /\ pending \subseteq pending'
          /\ proc' \in [VM -> {"off", "up", "dead"}] /\ Calm
          /\ \A w \in VM : w # v => proc'[w] = proc[w]
          /\ proc'[v] = "dead" => q = None \/ q >= n \/ tab[q].mem = "freed"
          /\ Signallable(tab, n, q, VMID) => <<q, VMID>> \in pending' /\ proc' = proc
      BY <3>1, <3>3, RingIs
    <3>5. q # None
      BY <3>1, IdsAre
    <3>. QED BY <1>1, <1>3, <2>2, <2>4, <3>2, <3>4, <3>5
  <2>. QED BY <2>3, <2>4
<1>. QED BY <1>2, <1>3

-----------------------------------------------------------------------------
(* The invariant, for any restarts: one lemma per action.                  *)

\* The part of the invariant that does not depend on who is restarted.
Base ==
  /\ TypeOK
  /\ TableFits
  /\ IdsGiven
  /\ Spoken
  /\ RunningNotGone
  /\ EventfdsComing

LEMMA RunningIds ==
  ASSUME TypeOK, IdsGiven, NEW v \in VM, Running(v)
  PROVE  vmId[v] \in Ids /\ vmId[v] \in Nat /\ vmId[v] < nextId
BY IdsAre DEF TypeOK, IdsGiven, Running, Ids, None

\* Who runs afterwards ran before.
LEMMA CalmIs ==
  ASSUME Calm
  PROVE  \A w \in VM : /\ Running(w)' => Running(w)
                       /\ proc'[w] # "off" => proc[w] # "off"
                       /\ proc'[w] = "dead" => proc[w] # "off"
BY DEF Calm, Running

\* Ids as long as no process starts.
LEMMA CalmIds ==
  ASSUME Base, Calm, UNCHANGED <<nextId, members, vmId>>
  PROVE  IdsGiven'
<1>. USE CalmIs DEF Base, IdsGiven
<1>1. \A v \in VM : proc'[v] # "off" => vmId'[v] \in 0 .. nextId' - 1
  OBVIOUS
<1>2. \A v \in VM : Running(v)' => \E n \in DOMAIN members' : members'[n] = vmId'[v]
  OBVIOUS
<1>3. proc'[0] # "off" /\ proc'[1] # "off" => vmId'[0] # vmId'[1]
  BY Ends
<1>. QED BY <1>1, <1>2, <1>3

\* Two ways to keep a running process from being thought gone, and its
\* eventfds coming.
LEMMA NotGoneKept ==
  ASSUME Base, Calm, vmId' = vmId,
         \A u \in VM, q \in Ids :
           (\E w \in VM : Running(w) /\ q = vmId[w]) =>
             /\ peers'[u][q].mem = "freed" => peers[u][q].mem = "freed"
             /\ Queued(u, GoneOf(q))' => Queued(u, GoneOf(q))
  PROVE  RunningNotGone'
<1>. SUFFICES ASSUME NEW u \in VM, NEW w \in VM, Running(u)', Running(w)'
              PROVE  peers'[u][vmId'[w]].mem # "freed" /\ ~Queued(u, GoneOf(vmId[w]))'
  BY DEF RunningNotGone
<1>1. PICK q \in Ids : q = vmId[w] /\ Running(w) /\ Running(u)
  BY CalmIs, RunningIds DEF Base
<1>2. peers[u][q].mem # "freed" /\ ~Queued(u, GoneOf(q))
  BY <1>1 DEF Base, RunningNotGone
<1>3. peers'[u][q].mem # "freed" /\ ~Queued(u, GoneOf(q))'
  BY <1>1, <1>2
<1>. QED BY <1>1, <1>3 DEF Queued, GoneOf

LEMMA ComingKept ==
  ASSUME Base, Calm, vmId' = vmId,
         \A u \in VM, q \in Ids :
           (\E w \in VM : Running(w) /\ q = vmId[w]) /\ Coming(u, q) => Coming(u, q)'
  PROVE  EventfdsComing'
<1>. SUFFICES ASSUME NEW u \in VM, NEW w \in VM, Running(u)', Running(w)'
              PROVE  Coming(u, vmId[w])'
  BY DEF EventfdsComing
<1>1. PICK q \in Ids : q = vmId[w] /\ Running(w) /\ Running(u)
  BY CalmIs, RunningIds DEF Base
<1>2. Coming(u, q)'
  BY <1>1 DEF Base, EventfdsComing
<1>. QED BY <1>1, <1>2 DEF Coming, Queued, QueuedTwice, QueuedBefore, FdOf

\* A step that only signals or hears something.
LEMMA CalmStep ==
  ASSUME Base, Calm, UNCHANGED <<nextId, members, sent, vmId, peers, nbPeers>>
  PROVE  TableFits' /\ IdsGiven' /\ Spoken' /\ RunningNotGone' /\ EventfdsComing'
<1>1. TableFits'
  BY DEF Base, TableFits
<1>2. Spoken'
  BY DEF Base, Spoken
<1>3. RunningNotGone'
  BY NotGoneKept DEF Queued
<1>4. EventfdsComing'
  BY ComingKept DEF Coming, Queued, QueuedTwice, QueuedBefore
<1>. QED BY <1>1, <1>2, <1>3, <1>4, CalmIds

\* Reading a message brings up nobody new, if no entry of an id yet to be given
\* is touched.
LEMMA ReadSpoken ==
  ASSUME Base, NEW v \in VM, NEW p \in Ids, Read(v, p), Head(sent[v]).id = p,
         \A w \in VM : w # v => peers'[w] = peers[w],
         \A q \in Ids : q # p => /\ peers'[v][q].mem = "freed" <=> peers[v][q].mem = "freed"
                                 /\ peers'[v][q].nb = peers[v][q].nb
  PROVE  Spoken'
<1>1. nextId' = nextId /\ members' = members /\ TypeOK /\ nextId \in Nat
  BY Sizes DEF Read, Base, TypeOK
<1>2. ASSUME NEW w \in VM, NEW i \in DOMAIN sent'[w] PROVE sent'[w][i].id < nextId
  <2>1. \A u \in VM : \A j \in DOMAIN sent[u] : sent[u][j].id < nextId
    BY DEF Base, Spoken
  <2>2. CASE w = v
    <3>1. sent'[v][i] = sent[v][i + 1] /\ i + 1 \in DOMAIN sent[v]
      BY <1>1, <1>2, <2>2, ReadQueue
    <3>. QED BY <2>1, <2>2, <3>1
  <2>3. CASE w # v
    <3>1. sent'[w] = sent[w]
      BY <1>1, <2>3, ReadQueue
    <3>. QED BY <1>2, <2>1, <3>1
  <2>. QED BY <2>2, <2>3
<1>3. p < nextId
  <2>1. Head(sent[v]) = sent[v][1] /\ 1 \in DOMAIN sent[v]
    BY <1>1, ReadQueue
  <2>. QED BY <2>1 DEF Base, Spoken
<1>4. ASSUME NEW w \in VM, NEW q \in Ids, q >= nextId
      PROVE  peers'[w][q].nb = 0 /\ peers'[w][q].mem # "freed"
  <2>1. peers[w][q].nb = 0 /\ peers[w][q].mem # "freed"
    BY <1>4 DEF Base, Spoken
  <2>2. q # p
    BY <1>1, <1>3, <1>4, IdsAre
  <2>. QED BY <2>1, <2>2
<1>. QED BY <1>1, <1>2, <1>4 DEF Base, Spoken

\* One more eventfd of p is one still to come that has come.
LEMMA ConnectComing ==
  ASSUME Base, Calm, NEW v \in VM, NEW p \in Ids, Read(v, p), Head(sent[v]) = FdOf(p),
         \A w \in VM : w # v => peers'[w] = peers[w],
         \A q \in Ids : q # p => peers'[v][q].nb = peers[v][q].nb,
         peers'[v][p].nb = IF peers[v][p].nb < Vectors THEN peers[v][p].nb + 1 ELSE peers[v][p].nb
  PROVE  EventfdsComing'
<1>. SUFFICES ASSUME NEW u \in VM, NEW q \in Ids, Coming(u, q)
              PROVE  Coming(u, q)'
  BY ComingKept DEF Read
<1>. DEFINE nb == peers[u][q].nb
            fd == FdOf(q)
<1>2. \/ nb >= 2
      \/ nb = 1 /\ Queued(u, fd)
      \/ nb = 0 /\ QueuedTwice(u, fd)
  BY DEF Coming
<1>3. TypeOK /\ nb \in Nat
  BY EntriesAre DEF Base, TypeOK
<1>4. CASE u # v
  <2>1. peers'[u] = peers[u] /\ sent'[u] = sent[u]
    BY <1>3, <1>4, ReadQueue
  <2>. QED BY <2>1 DEF Coming, Queued, QueuedTwice, QueuedBefore
<1>5. CASE u = v /\ q # p
  <2>1. peers'[u][q].nb = nb /\ fd # Head(sent[v])
    BY <1>5, MessagesDiffer
  <2>. HIDE DEF fd
  <2>2. /\ Queued(u, fd) => Queued(u, fd)'
        /\ QueuedTwice(u, fd) => QueuedTwice(u, fd)'
    BY <1>3, <1>5, <2>1, ReadQueued
  <2>. QED BY <1>2, <2>1, <2>2 DEF Coming, fd
<1>6. CASE u = v /\ q = p
  <2>. HIDE DEF fd
  <2>1. QueuedTwice(u, fd) => Queued(u, fd)'
    BY <1>3, <1>6, ReadQueued
  <2>2. peers'[u][q].nb = IF nb < Vectors THEN nb + 1 ELSE nb
    BY <1>6
  <2>3. \/ peers'[u][q].nb >= 2
        \/ peers'[u][q].nb = 1 /\ Queued(u, fd)'
    BY <1>2, <1>3, <2>1, <2>2, Sizes
  <2>. QED BY <2>3 DEF Coming, fd
<1>. QED BY <1>4, <1>5, <1>6

LEMMA ConnectInv ==
  ASSUME Base, NEW v \in VM, Connect(v)
  PROVE  Base' /\ Calm
<1>1. PICK p \in Ids :
           /\ Head(sent[v]) = FdOf(p) /\ Read(v, p)
           /\ TableFits' /\ peers' \in [VM -> [Ids -> Entries]] /\ nbPeers' \in [VM -> Nat]
           /\ \A w \in VM : w # v => peers'[w] = peers[w] /\ nbPeers'[w] = nbPeers[w]
           /\ \A q \in Ids : peers'[v][q].mem = "freed" <=> peers[v][q].mem = "freed"
           /\ \A q \in Ids : q # p => peers'[v][q].nb = peers[v][q].nb
           /\ peers'[v][p].nb = IF peers[v][p].nb < Vectors THEN peers[v][p].nb + 1 ELSE peers[v][p].nb
           /\ p < nbPeers'[v]
           /\ IF p = vmId[v] /\ peers[v][p].nb < Vectors
              THEN SetupInterrupt(v, peers[v][p].nb, peers'[v], nbPeers'[v])
              ELSE UNCHANGED <<watched, sharedId, otherId, pending, proc>>
  BY ConnectTable DEF Base
<1>. DEFINE k == peers[v][p].nb
<1>2. Running(v) /\ vmId[v] \in Ids /\ TypeOK /\ k \in Nat /\ k <= Vectors
  BY <1>1, RunningIds, EntriesAre DEF Base, Read, TypeOK
<1>3. /\ watched' \in [VM -> SUBSET (0 .. Vectors - 1)]
      /\ sharedId' \in [VM -> Ids] /\ otherId' \in [VM -> Ids \cup {None}]
      /\ pending' \in SUBSET Pairs
      /\ proc' \in [VM -> {"off", "up", "dead"}] /\ Calm
      /\ \A w \in VM : w # v =>
           proc'[w] = proc[w] /\ sharedId'[w] = sharedId[w] /\ otherId'[w] = otherId[w]
  <2>1. CASE p = vmId[v] /\ k < Vectors
    <3>1. SetupInterrupt(v, k, peers'[v], nbPeers'[v])
      BY <1>1, <2>1
    <3>2. k \in 0 .. Vectors - 1
      BY <1>2, <2>1, Sizes
    <3>3. TableOK(peers'[v], nbPeers'[v])
      BY <1>1 DEF TableOK, TableFits
    <3>. HIDE DEF k
    <3>. QED BY <1>2, <3>1, <3>2, <3>3, SetupIs
  <2>2. CASE ~(p = vmId[v] /\ k < Vectors)
    <3>1. UNCHANGED <<watched, sharedId, otherId, pending, proc>>
      BY <1>1, <2>2
    <3>. QED BY <1>2, <3>1 DEF TypeOK, Pairs, Calm, Running
  <2>. QED BY <2>1, <2>2
<1>4. TypeOK'
  <2>1. sent' \in [VM -> Seq(Messages)] /\ UNCHANGED <<nextId, members, vmId>>
    BY <1>1, <1>2, ReadQueue DEF Read
  <2>. QED BY <1>1, <1>2, <1>3, <2>1 DEF TypeOK, Pairs
<1>5. IdsGiven' /\ Spoken'
  <2>1. Head(sent[v]).id = p
    BY <1>1, MessagesDiffer
  <2>2. Spoken'
    BY <1>1, <2>1, ReadSpoken
  <2>. QED BY <1>1, <1>3, <2>2, CalmIds DEF Read
<1>6. RunningNotGone'
  <2>1. \A u \in VM, q \in Ids : peers'[u][q].mem = "freed" => peers[u][q].mem = "freed"
    BY <1>1
  <2>2. \A u \in VM, q \in Ids : Queued(u, GoneOf(q))' => Queued(u, GoneOf(q))
    <3>. SUFFICES ASSUME NEW u \in VM, NEW q \in Ids, u # v
                  PROVE  Queued(u, GoneOf(q))' => Queued(u, GoneOf(q))
      BY <1>1, <1>2, ReadQueued
    <3>1. sent'[u] = sent[u]
      BY <1>1, <1>2, ReadQueue
    <3>. QED BY <3>1 DEF Queued, GoneOf
  <2>. QED BY <1>1, <1>3, <2>1, <2>2, NotGoneKept DEF Read
<1>7. EventfdsComing'
  <2>1. /\ Calm /\ Read(v, p) /\ Head(sent[v]) = FdOf(p)
        /\ \A w \in VM : w # v => peers'[w] = peers[w]
        /\ \A q \in Ids : q # p => peers'[v][q].nb = peers[v][q].nb
        /\ peers'[v][p].nb = IF peers[v][p].nb < Vectors THEN peers[v][p].nb + 1 ELSE peers[v][p].nb
    BY <1>1, <1>3
  <2>. QED BY <2>1, ConnectComing
<1>. QED BY <1>1, <1>3, <1>4, <1>5, <1>6, <1>7 DEF Base

LEMMA DisconnectInv ==
  ASSUME Base, NEW v \in VM, Disconnect(v)
  PROVE  Base' /\ Calm
<1>1. PICK p \in Ids :
           /\ Head(sent[v]) = GoneOf(p) /\ Read(v, p) /\ p # vmId[v]
           /\ TableFits' /\ peers' \in [VM -> [Ids -> Entries]] /\ nbPeers' \in [VM -> Nat]
           /\ \A w \in VM : w # v => peers'[w] = peers[w] /\ nbPeers'[w] = nbPeers[w]
           /\ peers'[v][p].nb = 0
           /\ \A q \in Ids : q # p =>
                /\ peers'[v][q].mem = "freed" <=> peers[v][q].mem = "freed"
                /\ peers'[v][q].nb = peers[v][q].nb
           /\ UNCHANGED <<proc, watched, otherId, sharedId, pending>>
  BY DisconnectTable DEF Base
<1>2. Running(v) /\ TypeOK /\ Calm
  BY <1>1 DEF Base, Read, Calm
<1>3. sent' \in [VM -> Seq(Messages)] /\ UNCHANGED <<nextId, members, vmId>>
  BY <1>1, <1>2, ReadQueue DEF Read
<1>4. TypeOK'
  BY <1>1, <1>2, <1>3 DEF TypeOK
<1>5. IdsGiven' /\ Spoken'
  <2>1. Head(sent[v]).id = p
    BY <1>1, MessagesDiffer
  <2>2. Spoken'
    BY <1>1, <2>1, ReadSpoken
  <2>. QED BY <1>2, <1>3, <2>2, CalmIds
\* The id that has gone is nobody's who runs.
<1>6. ASSUME NEW w \in VM, Running(w) PROVE vmId[w] \in Ids /\ vmId[w] # p
  <2>1. Queued(v, GoneOf(p))
    BY <1>1, <1>2, ReadQueue DEF Queued
  <2>. QED BY <1>2, <1>6, <2>1, RunningIds DEF Base, RunningNotGone
<1>7. RunningNotGone'
  <2>1. \A u \in VM, q \in Ids : q # p /\ peers'[u][q].mem = "freed" => peers[u][q].mem = "freed"
    BY <1>1
  <2>2. \A u \in VM, q \in Ids : Queued(u, GoneOf(q))' => Queued(u, GoneOf(q))
    <3>. SUFFICES ASSUME NEW u \in VM, NEW q \in Ids, u # v
                  PROVE  Queued(u, GoneOf(q))' => Queued(u, GoneOf(q))
      BY <1>1, <1>2, ReadQueued
    <3>1. sent'[u] = sent[u]
      BY <1>1, <1>2, ReadQueue
    <3>. QED BY <3>1 DEF Queued, GoneOf
  <2>. QED BY <1>2, <1>3, <1>6, <2>1, <2>2, NotGoneKept
<1>8. EventfdsComing'
  <2>. SUFFICES ASSUME NEW u \in VM, NEW q \in Ids, q # p, Coming(u, q)
                PROVE  Coming(u, q)'
    BY <1>2, <1>3, <1>6, ComingKept
  <2>1. CASE u = v
    <3>. DEFINE fd == FdOf(q)
    <3>1. fd # Head(sent[v]) /\ peers'[u][q].nb = peers[u][q].nb
      BY <1>1, <2>1, MessagesDiffer
    <3>. HIDE DEF fd
    <3>2. /\ Queued(u, fd) => Queued(u, fd)'
          /\ QueuedTwice(u, fd) => QueuedTwice(u, fd)'
      BY <1>1, <1>2, <2>1, <3>1, ReadQueued
    <3>. QED BY <3>1, <3>2 DEF Coming, fd
  <2>2. CASE u # v
    <3>1. sent'[u] = sent[u] /\ peers'[u] = peers[u]
      BY <1>1, <1>2, <2>2, ReadQueue
    <3>. QED BY <3>1 DEF Coming, Queued, QueuedTwice, QueuedBefore
  <2>. QED BY <2>1, <2>2
<1>. QED BY <1>1, <1>2, <1>4, <1>5, <1>7, <1>8 DEF Base

\* A queue with more at its end still has what it had, in that order.
LEMMA ToldQueue ==
  ASSUME TypeOK, NEW v \in VM, NEW ms \in Seq(Messages), sent'[v] = Tell(v, ms), NEW m
  PROVE  /\ sent'[v] \in Seq(Messages)
         /\ Queued(v, m) => Queued(v, m)'
         /\ QueuedTwice(v, m) => QueuedTwice(v, m)'
         /\ Queued(v, m)' => Queued(v, m) \/ \E i \in DOMAIN ms : ms[i] = m
         /\ DOMAIN sent[v] \subseteq DOMAIN sent'[v]
         /\ \A i \in DOMAIN sent[v] : sent'[v][i] = sent[v][i]
         /\ \A i \in DOMAIN sent'[v] :
              \/ i \in DOMAIN sent[v] /\ sent'[v][i] = sent[v][i]
              \/ \E j \in DOMAIN ms : sent'[v][i] = ms[j]
<1>1. sent[v] \in Seq(Messages)
  BY DEF TypeOK
<1>. DEFINE q == sent[v]
<1>2. sent'[v] = q \/ sent'[v] = q \o ms
  BY DEF Tell
<1>. HIDE DEF q
<1>3. /\ sent'[v] \in Seq(Messages)
      /\ DOMAIN q \subseteq DOMAIN sent'[v]
      /\ \A i \in DOMAIN q : sent'[v][i] = q[i]
      /\ \A i \in DOMAIN sent'[v] :
           \/ i \in DOMAIN q /\ sent'[v][i] = q[i]
           \/ \E j \in DOMAIN ms : sent'[v][i] = ms[j]
  <2>1. CASE sent'[v] = q
    BY <1>1, <2>1 DEF q
  <2>2. CASE sent'[v] = q \o ms
    <3>1. /\ q \o ms \in Seq(Messages)
          /\ DOMAIN q = 1 .. Len(q) /\ Len(q) \in Nat /\ Len(ms) \in Nat
          /\ DOMAIN (q \o ms) = 1 .. Len(q) + Len(ms)
          /\ \A i \in DOMAIN q : (q \o ms)[i] = q[i]
          /\ \A i \in DOMAIN (q \o ms) :
               i \in DOMAIN q \/ (i > Len(q) /\ i - Len(q) \in DOMAIN ms /\ (q \o ms)[i] = ms[i - Len(q)])
      BY <1>1, LongerIs DEF q
    <3>2. DOMAIN q \subseteq DOMAIN (q \o ms)
      BY <3>1
    <3>. QED BY <2>2, <3>1, <3>2
  <2>. QED BY <1>2, <2>1, <2>2
<1>. QED BY <1>3 DEF q, Queued, QueuedTwice, QueuedBefore

\* The server's notice of an end reaches those who run; it is of none of them.
LEMMA NoticeInv ==
  ASSUME Base, NEW p \in Ids, ServerNotice(p)
  PROVE  Base' /\ Calm
<1>1. TypeOK /\ UNCHANGED <<nextId, proc, device, sharedId, pending>>
  BY DEF Base, ServerNotice
<1>2. PICK n \in DOMAIN members : members[n] = p /\ members' = RemoveAt(members, n)
  BY DEF ServerNotice
<1>3. /\ members \in Seq(Ids) /\ members' \in Seq(Ids)
      /\ \A i \in DOMAIN members' : \E j \in DOMAIN members : members'[i] = members[j]
      /\ \A j \in DOMAIN members \ {n} : \E i \in DOMAIN members' : members'[i] = members[j]
  BY <1>1, <1>2, RemoveAtIs DEF TypeOK
<1>4. p < nextId /\ \A w \in VM : Running(w) => vmId[w] # p
  BY <1>2 DEF Base, Spoken, ServerNotice, Running
<1>. DEFINE ms == <<GoneOf(p)>>
<1>5. ms \in Seq(Messages) /\ DOMAIN ms = {1} /\ ms[1] = GoneOf(p)
  BY MessagesAre
<1>6. sent' = [u \in VM |-> Tell(u, ms)]
  BY DEF ServerNotice
<1>. HIDE DEF ms
<1>7. \A u \in VM : sent'[u] = Tell(u, ms)
  BY <1>6
<1>8. Calm /\ UNCHANGED <<nextId, vmId, peers, nbPeers, otherId, proc>>
  BY <1>1 DEF Calm, device
<1>9. TypeOK'
  <2>1. \A u \in VM : sent'[u] \in Seq(Messages)
    BY <1>1, <1>5, <1>7, ToldQueue
  <2>. QED BY <1>1, <1>3, <1>6, <2>1 DEF TypeOK, device
<1>10. TableFits'
  BY <1>8 DEF Base, TableFits
<1>11. IdsGiven'
  <2>1. \A w \in VM : Running(w) => \E i \in DOMAIN members' : members'[i] = vmId[w]
    BY <1>2, <1>3, <1>4 DEF Base, IdsGiven
  <2>. QED BY <1>8, <2>1 DEF Base, IdsGiven, Running
<1>12. Spoken'
  <2>1. ASSUME NEW w \in VM, NEW i \in DOMAIN sent'[w] PROVE sent'[w][i].id < nextId
    <3>1. \/ i \in DOMAIN sent[w] /\ sent'[w][i] = sent[w][i]
          \/ sent'[w][i] = GoneOf(p)
      BY <1>1, <1>5, <1>7, <2>1, ToldQueue
    <3>. QED BY <1>4, <3>1, MessagesDiffer DEF Base, Spoken
  <2>2. \A i \in DOMAIN members' : members'[i] < nextId
    BY <1>3 DEF Base, Spoken
  <2>. QED BY <1>8, <2>1, <2>2 DEF Base, Spoken
<1>13. RunningNotGone'
  <2>. SUFFICES ASSUME NEW u \in VM, NEW q \in Ids, q # p, Queued(u, GoneOf(q))'
                PROVE  Queued(u, GoneOf(q))
    BY <1>4, <1>8, NotGoneKept
  <2>. DEFINE m == GoneOf(q)
  <2>1. m # GoneOf(p)
    BY DEF GoneOf
  <2>. HIDE DEF m
  <2>2. Queued(u, m)'
    BY DEF m, Queued, GoneOf
  <2>3. Queued(u, m)
    BY <1>1, <1>5, <1>7, <2>1, <2>2, ToldQueue
  <2>. QED BY <2>3 DEF m
<1>14. EventfdsComing'
  <2>. SUFFICES ASSUME NEW u \in VM, NEW q \in Ids, Coming(u, q)
                PROVE  Coming(u, q)'
    BY <1>8, ComingKept
  <2>. DEFINE m == FdOf(q)
  <2>. HIDE DEF m
  <2>1. (Queued(u, m) => Queued(u, m)') /\ (QueuedTwice(u, m) => QueuedTwice(u, m)')
    BY <1>1, <1>5, <1>7, ToldQueue
  <2>. QED BY <1>8, <2>1 DEF Coming, m
<1>. QED BY <1>8, <1>9, <1>10, <1>11, <1>12, <1>13, <1>14 DEF Base

\* A process that ends takes its tables with it.
LEMMA KillInv ==
  ASSUME Base, NEW v \in VM, Kill(v)
  PROVE  Base'
<1>1. TypeOK /\ UNCHANGED <<nextId, members, sharedId, pending>>
  BY DEF Base, Kill, Vanish, server
<1>2. /\ proc' = [proc EXCEPT ![v] = "off"] /\ sent' = [sent EXCEPT ![v] = <<>>]
      /\ vmId' = [vmId EXCEPT ![v] = None]
      /\ peers' = [peers EXCEPT ![v] = [p \in Ids |-> NoEntry]]
      /\ nbPeers' = [nbPeers EXCEPT ![v] = 0]
      /\ watched' = [watched EXCEPT ![v] = {}] /\ otherId' = [otherId EXCEPT ![v] = None]
  BY DEF Kill, Vanish
<1>3. /\ proc'[v] = "off" /\ sent'[v] = <<>>
      /\ \A w \in VM : w # v => /\ proc'[w] = proc[w] /\ sent'[w] = sent[w]
                               /\ vmId'[w] = vmId[w] /\ peers'[w] = peers[w]
                               /\ nbPeers'[w] = nbPeers[w] /\ otherId'[w] = otherId[w]
  BY <1>1, <1>2 DEF TypeOK
<1>. DEFINE tab == [p \in Ids |-> NoEntry]
<1>4. TableOK(tab, 0) /\ \A p \in Ids : tab[p].nb = 0 /\ tab[p].mem # "freed"
  BY EntriesAre, IdsAre DEF TableOK
<1>5. peers' = [peers EXCEPT ![v] = tab]
  BY <1>2
<1>. HIDE DEF tab
<1>6. /\ peers' \in [VM -> [Ids -> Entries]] /\ nbPeers' \in [VM -> Nat]
      /\ peers'[v] = tab /\ TableFits'
  BY <1>1, <1>2, <1>4, <1>5, TablesFit DEF Base
<1>7. TypeOK'
  BY <1>1, <1>2, <1>6 DEF TypeOK
<1>8. IdsGiven'
  <2>. USE Ends, <1>1, <1>3 DEF Base, IdsGiven, Running
  <2>1. \A w \in VM : proc'[w] # "off" => vmId'[w] \in 0 .. nextId' - 1
    OBVIOUS
  <2>2. \A w \in VM : Running(w)' => \E n \in DOMAIN members' : members'[n] = vmId'[w]
    OBVIOUS
  <2>3. ~(proc'[0] # "off" /\ proc'[1] # "off")
    OBVIOUS
  <2>. QED BY <2>1, <2>2, <2>3
<1>9. Spoken'
  <2>1. ASSUME NEW w \in VM, NEW i \in DOMAIN sent'[w] PROVE sent'[w][i].id < nextId
    <3>1. w # v
      BY <1>3, <2>1
    <3>. QED BY <1>3, <2>1, <3>1 DEF Base, Spoken
  <2>2. \A w \in VM, p \in Ids :
          p >= nextId => peers'[w][p].nb = 0 /\ peers'[w][p].mem # "freed"
    BY <1>3, <1>4, <1>6 DEF Base, Spoken
  <2>. QED BY <1>1, <2>1, <2>2 DEF Base, Spoken
<1>10. RunningNotGone' /\ EventfdsComing'
  <2>. SUFFICES ASSUME NEW u \in VM, NEW w \in VM, Running(u)', Running(w)'
                PROVE  /\ peers'[u][vmId'[w]].mem # "freed" /\ ~Queued(u, GoneOf(vmId[w]))'
                       /\ Coming(u, vmId[w])'
    BY DEF RunningNotGone, EventfdsComing
  <2>1. u # v /\ w # v /\ Running(u) /\ Running(w)
    BY <1>3 DEF Running
  <2>2. peers'[u] = peers[u] /\ sent'[u] = sent[u] /\ vmId'[w] = vmId[w]
    BY <1>3, <2>1
  <2>3. /\ peers[u][vmId[w]].mem # "freed" /\ ~Queued(u, GoneOf(vmId[w]))
        /\ Coming(u, vmId[w])
    BY <2>1 DEF Base, RunningNotGone, EventfdsComing
  <2>. QED BY <2>2, <2>3 DEF Queued, QueuedTwice, QueuedBefore, Coming, GoneOf, FdOf
<1>. QED BY <1>6, <1>7, <1>8, <1>9, <1>10 DEF Base

\* The queue a new process of id p finds, of members ps.
FirstQ(ps, p) == FdsOf(ps) \o Fds(p)

\* Two eventfds of every member come first, two of its own after them.
LEMMA FirstQueue ==
  ASSUME NEW ps \in Seq(Ids), NEW p \in Ids
  PROVE  /\ FirstQ(ps, p) \in Seq(Messages)
         /\ \A i \in DOMAIN FirstQ(ps, p) :
              FirstQ(ps, p)[i] = FdOf(p) \/ \E n \in DOMAIN ps : FirstQ(ps, p)[i] = FdOf(ps[n])
         /\ \E i, j \in DOMAIN FirstQ(ps, p) :
              i < j /\ FirstQ(ps, p)[i] = FdOf(p) /\ FirstQ(ps, p)[j] = FdOf(p)
         /\ \A n \in DOMAIN ps : \E i, j \in DOMAIN FirstQ(ps, p) :
              i < j /\ FirstQ(ps, p)[i] = FdOf(ps[n]) /\ FirstQ(ps, p)[j] = FdOf(ps[n])
         /\ \A n \in DOMAIN ps : \A i \in DOMAIN FirstQ(ps, p) :
              \/ \E k \in DOMAIN ps : FirstQ(ps, p)[i] = FdOf(ps[k])
              \/ \E j \in DOMAIN FirstQ(ps, p) : j < i /\ FirstQ(ps, p)[j] = FdOf(ps[n])
<1>0. PICK q : q = FirstQ(ps, p)
  OBVIOUS
<1>. DEFINE a == FdsOf(ps)
            b == Fds(p)
<1>1. /\ a \in Seq(Messages)
      /\ \A i \in DOMAIN a : \E n \in DOMAIN ps : a[i] = FdOf(ps[n])
      /\ \A n \in DOMAIN ps : \E i, j \in DOMAIN a :
           i < j /\ a[i] = FdOf(ps[n]) /\ a[j] = FdOf(ps[n])
  BY FdsOfAre
<1>2. /\ b \in Seq(Messages) /\ DOMAIN b = 1 .. ServerVectors
      /\ \A i \in DOMAIN b : b[i] = FdOf(p)
  BY FdsAre
<1>3. q = a \o b
  BY <1>0 DEF FirstQ
<1>. HIDE DEF a, b
<1>4. /\ q \in Seq(Messages)
      /\ DOMAIN a = 1 .. Len(a) /\ Len(a) \in Nat /\ Len(b) \in Nat /\ DOMAIN b = 1 .. Len(b)
      /\ DOMAIN q = 1 .. Len(a) + Len(b)
      /\ \A i \in DOMAIN a : q[i] = a[i]
      /\ \A i \in DOMAIN b : q[Len(a) + i] = b[i]
      /\ \A i \in DOMAIN q :
           i \in DOMAIN a \/ (i > Len(a) /\ i - Len(a) \in DOMAIN b /\ q[i] = b[i - Len(a)])
  <2>1. a \in Seq(Messages) /\ b \in Seq(Messages)
    BY <1>1, <1>2
  <2>. QED BY <1>3, <2>1, LongerIs
<1>5. DOMAIN a \subseteq DOMAIN q
  BY <1>4
<1>6. ASSUME NEW i \in DOMAIN q
      PROVE  q[i] = FdOf(p) \/ \E n \in DOMAIN ps : q[i] = FdOf(ps[n])
  <2>1. CASE i \in DOMAIN a
    <3>1. q[i] = a[i]
      BY <1>4, <2>1
    <3>. QED BY <1>1, <2>1, <3>1
  <2>2. CASE i \notin DOMAIN a
    <3>1. i - Len(a) \in DOMAIN b /\ q[i] = b[i - Len(a)]
      BY <1>4, <1>6, <2>2
    <3>. QED BY <1>2, <3>1
  <2>. QED BY <2>1, <2>2
<1>7. \E i, j \in DOMAIN q : i < j /\ q[i] = FdOf(p) /\ q[j] = FdOf(p)
  <2>1. 1 \in DOMAIN b /\ 2 \in DOMAIN b
    BY <1>2, Sizes
  <2>2. Len(a) + 1 \in DOMAIN q /\ Len(a) + 2 \in DOMAIN q /\ Len(a) + 1 < Len(a) + 2
    BY <1>4, <2>1
  <2>3. q[Len(a) + 1] = FdOf(p) /\ q[Len(a) + 2] = FdOf(p)
    BY <1>2, <1>4, <2>1
  <2>. QED BY <2>2, <2>3
<1>8. ASSUME NEW n \in DOMAIN ps
      PROVE  \E i, j \in DOMAIN a : /\ i < j /\ i \in DOMAIN q /\ j \in DOMAIN q
                                  /\ q[i] = FdOf(ps[n]) /\ q[j] = FdOf(ps[n])
  BY <1>1, <1>4, <1>5
<1>9. ASSUME NEW n \in DOMAIN ps, NEW i \in DOMAIN q, i \notin DOMAIN a
      PROVE  \E j \in DOMAIN q : j < i /\ q[j] = FdOf(ps[n])
  <2>1. PICK j \in DOMAIN a : j \in DOMAIN q /\ q[j] = FdOf(ps[n])
    BY <1>8
  <2>2. j < i
    BY <1>4, <1>9, <2>1
  <2>. QED BY <2>1, <2>2
<1>10. ASSUME NEW i \in DOMAIN a PROVE \E k \in DOMAIN ps : q[i] = FdOf(ps[k])
  <2>1. q[i] = a[i]
    BY <1>4
  <2>. QED BY <1>1, <2>1
<1>11. ASSUME NEW n \in DOMAIN ps, NEW i \in DOMAIN q
       PROVE  \/ \E k \in DOMAIN ps : q[i] = FdOf(ps[k])
              \/ \E j \in DOMAIN q : j < i /\ q[j] = FdOf(ps[n])
  BY <1>9, <1>10
<1>12. q \in Seq(Messages)
  BY <1>4
<1>13. \A n \in DOMAIN ps : \E i, j \in DOMAIN q :
         i < j /\ q[i] = FdOf(ps[n]) /\ q[j] = FdOf(ps[n])
  BY <1>8
<1>. QED BY <1>0, <1>6, <1>7, <1>11, <1>12, <1>13

\* Who hears of a new peer p has two eventfds of it still to come.
LEMMA NewcomerQueue ==
  ASSUME TypeOK, NEW v \in VM, Running(v), NEW p \in Ids, sent'[v] = Tell(v, Fds(p)), NEW m, m = FdOf(p)
  PROVE  QueuedTwice(v, m)'
<1>. DEFINE q == sent[v]
            b == Fds(p)
<1>1. q \in Seq(Messages)
  BY DEF TypeOK
<1>2. b \in Seq(Messages) /\ DOMAIN b = 1 .. ServerVectors /\ \A i \in DOMAIN b : b[i] = m
  BY FdsAre
<1>3. sent'[v] = q \o b
  BY DEF Tell, Running
<1>. HIDE DEF q, b
<1>4. /\ Len(q) \in Nat /\ Len(b) \in Nat /\ DOMAIN b = 1 .. Len(b)
      /\ DOMAIN (q \o b) = 1 .. Len(q) + Len(b)
      /\ \A i \in DOMAIN b : (q \o b)[Len(q) + i] = b[i]
  <2>1. b \in Seq(Messages)
    BY <1>2
  <2>. QED BY <1>1, <2>1, LongerIs
<1>5. 1 \in DOMAIN b /\ 2 \in DOMAIN b
  BY <1>2, Sizes
<1>6. Len(q) + 1 \in DOMAIN (q \o b) /\ Len(q) + 2 \in DOMAIN (q \o b) /\ Len(q) + 1 < Len(q) + 2
  BY <1>4, <1>5
<1>7. (q \o b)[Len(q) + 1] = m /\ (q \o b)[Len(q) + 2] = m
  BY <1>2, <1>4, <1>5
<1>. QED BY <1>3, <1>6, <1>7 DEF QueuedTwice, QueuedBefore

\* What a start changes.
LEMMA StartIs ==
  ASSUME TypeOK, TableFits, NEW v \in VM, Start(v)
  PROVE  /\ proc[v] = "off" /\ proc'[v] = "up" /\ proc' \in [VM -> {"off", "up", "dead"}]
         /\ nextId \in Ids /\ nextId \in Nat /\ nextId' = nextId + 1 /\ nextId' \in 0 .. MaxStarts
         /\ members' = Append(members, nextId)
         /\ sent' \in [VM -> Seq(Messages)]
         /\ sent'[v] = FdsOf(members) \o Fds(nextId)
         /\ sent'[Peer(v)] = Tell(Peer(v), Fds(nextId))
         /\ vmId' \in [VM -> Ids \cup {None}] /\ vmId'[v] = nextId
         /\ peers' \in [VM -> [Ids -> Entries]] /\ nbPeers' \in [VM -> Nat]
         /\ \A q \in Ids : peers'[v][q].nb = 0 /\ peers'[v][q].mem # "freed"
         /\ watched' \in [VM -> SUBSET (0 .. Vectors - 1)]
         /\ otherId' \in [VM -> Ids \cup {None}] /\ otherId'[v] = None
         /\ \A w \in VM : w # v => /\ proc'[w] = proc[w] /\ vmId'[w] = vmId[w]
                                  /\ peers'[w] = peers[w] /\ nbPeers'[w] = nbPeers[w]
                                  /\ otherId'[w] = otherId[w]
         /\ UNCHANGED <<sharedId, pending>>
         /\ TableFits'
<1>1. /\ proc[v] = "off" /\ nextId < MaxStarts
      /\ nextId'  = nextId + 1
      /\ members' = Append(members, nextId)
      /\ sent'    = [sent EXCEPT ![v] = FdsOf(members) \o Fds(nextId),
                                 ![Peer(v)] = Tell(Peer(v), Fds(nextId))]
      /\ proc'    = [proc EXCEPT ![v] = "up"]
      /\ vmId'    = [vmId EXCEPT ![v] = nextId]
      /\ peers'   = [peers EXCEPT ![v] = Table(InitPeers)]
      /\ nbPeers' = [nbPeers EXCEPT ![v] = InitPeers]
      /\ watched' = [watched EXCEPT ![v] = {}]
      /\ otherId' = [otherId EXCEPT ![v] = None]
      /\ UNCHANGED <<sharedId, pending>>
  BY DEF Start
<1>2. nextId \in Ids /\ nextId \in Nat /\ nextId' \in 0 .. MaxStarts
  BY <1>1, Sizes DEF TypeOK, Ids
<1>3. /\ proc' \in [VM -> {"off", "up", "dead"}] /\ proc'[v] = "up"
      /\ vmId' \in [VM -> Ids \cup {None}] /\ vmId'[v] = nextId
      /\ watched' \in [VM -> SUBSET (0 .. Vectors - 1)]
      /\ otherId' \in [VM -> Ids \cup {None}] /\ otherId'[v] = None
      /\ \A w \in VM : w # v =>
           proc'[w] = proc[w] /\ vmId'[w] = vmId[w] /\ otherId'[w] = otherId[w]
  BY <1>1, <1>2 DEF TypeOK
<1>4. TableOK(Table(InitPeers), InitPeers) /\ \A q \in Ids : Table(InitPeers)[q].nb = 0 /\ Table(InitPeers)[q].mem # "freed"
  BY TableIs, Sizes
<1>5. /\ peers' \in [VM -> [Ids -> Entries]] /\ nbPeers' \in [VM -> Nat]
      /\ peers'[v] = Table(InitPeers) /\ TableFits'
      /\ \A w \in VM : w # v => peers'[w] = peers[w] /\ nbPeers'[w] = nbPeers[w]
  BY <1>1, <1>4, TablesFit
<1>6. FdsOf(members) \o Fds(nextId) \in Seq(Messages)
  BY <1>2, FirstQueue DEF TypeOK, FirstQ
<1>7. Tell(Peer(v), Fds(nextId)) \in Seq(Messages)
  <2>1. sent[Peer(v)] \in Seq(Messages) /\ Fds(nextId) \in Seq(Messages)
    BY <1>2, Ends, FdsAre DEF TypeOK
  <2>. QED BY <2>1, LongerIs DEF Tell
<1>8. /\ sent' \in [VM -> Seq(Messages)]
      /\ sent'[v] = FdsOf(members) \o Fds(nextId)
      /\ sent'[Peer(v)] = Tell(Peer(v), Fds(nextId))
  <2>. DEFINE a == FdsOf(members) \o Fds(nextId)
              b == Tell(Peer(v), Fds(nextId))
  <2>1. a \in Seq(Messages) /\ b \in Seq(Messages)
    BY <1>6, <1>7
  <2>2. sent' = [sent EXCEPT ![v] = a, ![Peer(v)] = b]
    BY <1>1
  <2>. HIDE DEF a, b
  <2>3. sent' \in [VM -> Seq(Messages)] /\ sent'[v] = a /\ sent'[Peer(v)] = b
    BY <2>1, <2>2, Ends DEF TypeOK
  <2>. QED BY <2>3 DEF a, b
<1>. QED BY <1>1, <1>2, <1>3, <1>4, <1>5, <1>8

\* The new process knows no more than the server has told it.
LEMMA StartInv ==
  ASSUME Base, NEW v \in VM, Start(v)
  PROVE  Base'
<1>. DEFINE u == Peer(v)
<1>1. TypeOK /\ TableFits /\ u \in VM /\ u # v /\ \A w \in VM : w = v \/ w = u
  BY Ends DEF Base
<1>0. PICK id \in Ids : id = nextId
  BY <1>1, StartIs
<1>2. /\ proc[v] = "off" /\ proc'[v] = "up" /\ proc' \in [VM -> {"off", "up", "dead"}]
      /\ id \in Nat /\ nextId' = id + 1 /\ nextId' \in 0 .. MaxStarts
      /\ members' = Append(members, id)
      /\ sent' \in [VM -> Seq(Messages)]
      /\ sent'[v] = FdsOf(members) \o Fds(id)
      /\ sent'[u] = Tell(u, Fds(id))
      /\ vmId' \in [VM -> Ids \cup {None}] /\ vmId'[v] = id
      /\ peers' \in [VM -> [Ids -> Entries]] /\ nbPeers' \in [VM -> Nat]
      /\ \A q \in Ids : peers'[v][q].nb = 0 /\ peers'[v][q].mem # "freed"
      /\ watched' \in [VM -> SUBSET (0 .. Vectors - 1)]
      /\ otherId' \in [VM -> Ids \cup {None}] /\ otherId'[v] = None
      /\ UNCHANGED <<sharedId, pending>>
      /\ TableFits'
  BY <1>0, <1>1, StartIs
<1>3. /\ proc'[u] = proc[u] /\ vmId'[u] = vmId[u] /\ peers'[u] = peers[u]
      /\ nbPeers'[u] = nbPeers[u] /\ otherId'[u] = otherId[u]
  BY <1>1, StartIs
<1>. HIDE DEF u
<1>4. /\ members \in Seq(Ids) /\ members' \in Seq(Ids)
      /\ DOMAIN members = 1 .. Len(members) /\ Len(members) \in Nat
      /\ DOMAIN members' = 1 .. Len(members) + 1
      /\ \A n \in DOMAIN members : members'[n] = members[n]
      /\ members'[Len(members) + 1] = id
  <2>1. members \in Seq(Ids)
    BY <1>1 DEF TypeOK
  <2>2. members' = Append(members, id)
    BY <1>2
  <2>. QED BY <2>1, <2>2, OneMore
<1>5. /\ \A n \in DOMAIN members : members[n] < id /\ members[n] \in Ids
      /\ \A w \in VM : \A i \in DOMAIN sent[w] : sent[w][i].id < id
      /\ \A w \in VM, p \in Ids :
           p >= id => peers[w][p].nb = 0 /\ peers[w][p].mem # "freed"
  BY <1>0, <1>4 DEF Base, Spoken
<1>6. /\ \A i \in DOMAIN sent'[v] :
           sent'[v][i] = FdOf(id) \/ \E n \in DOMAIN members : sent'[v][i] = FdOf(members[n])
      /\ \E i, j \in DOMAIN sent'[v] : i < j /\ sent'[v][i] = FdOf(id) /\ sent'[v][j] = FdOf(id)
      /\ \A n \in DOMAIN members : \E i, j \in DOMAIN sent'[v] :
           i < j /\ sent'[v][i] = FdOf(members[n]) /\ sent'[v][j] = FdOf(members[n])
  <2>1. members \in Seq(Ids) /\ sent'[v] = FdsOf(members) \o Fds(id)
    BY <1>2, <1>4
  <2>2. PICK q : q = FirstQ(members, id)
    OBVIOUS
  <2>3. /\ \A i \in DOMAIN q : q[i] = FdOf(id) \/ \E n \in DOMAIN members : q[i] = FdOf(members[n])
        /\ \E i, j \in DOMAIN q : i < j /\ q[i] = FdOf(id) /\ q[j] = FdOf(id)
        /\ \A n \in DOMAIN members : \E i, j \in DOMAIN q :
             i < j /\ q[i] = FdOf(members[n]) /\ q[j] = FdOf(members[n])
    BY <2>1, <2>2, FirstQueue
  <2>4. sent'[v] = q
    BY <2>1, <2>2 DEF FirstQ
  <2>. QED BY <2>3, <2>4
<1>7. Fds(id) \in Seq(Messages) /\ \A i \in DOMAIN Fds(id) : Fds(id)[i] = FdOf(id)
  BY <1>2, FdsAre
<1>8. Running(u) => /\ vmId[u] \in Ids /\ vmId[u] \in Nat /\ vmId[u] < id
                    /\ \E n \in DOMAIN members : members[n] = vmId[u]
  BY <1>0, <1>1, RunningIds DEF Base, IdsGiven
<1>9. TypeOK'
  BY <1>1, <1>2, <1>4 DEF TypeOK
<1>10. IdsGiven'
  <2>1. ASSUME NEW w \in VM, proc'[w] # "off" PROVE vmId'[w] \in 0 .. nextId' - 1
    <3>1. CASE w = v
      BY <1>2, <3>1
    <3>2. CASE w = u
      <4>1. vmId[u] \in 0 .. id - 1
        BY <1>0, <1>1, <1>3, <2>1, <3>2 DEF Base, IdsGiven
      <4>. QED BY <1>2, <1>3, <3>2, <4>1
    <3>. QED BY <1>1, <3>1, <3>2
  <2>2. ASSUME NEW w \in VM, Running(w)' PROVE \E n \in DOMAIN members' : members'[n] = vmId'[w]
    <3>1. CASE w = v
      <4>1. Len(members) + 1 \in DOMAIN members'
        BY <1>4
      <4>. QED BY <1>2, <1>4, <3>1, <4>1
    <3>2. CASE w = u
      <4>1. Running(u)
        BY <1>3, <2>2, <3>2 DEF Running
      <4>2. DOMAIN members \subseteq DOMAIN members'
        BY <1>4
      <4>. QED BY <1>3, <1>4, <1>8, <3>2, <4>1, <4>2
    <3>. QED BY <1>1, <3>1, <3>2
  <2>3. ASSUME proc'[u] # "off" PROVE vmId'[v] # vmId'[u]
    <3>1. vmId[u] \in 0 .. id - 1
      BY <1>0, <1>1, <1>3, <2>3 DEF Base, IdsGiven
    <3>. QED BY <1>2, <1>3, <3>1
  <2>4. proc'[0] # "off" /\ proc'[1] # "off" => vmId'[0] # vmId'[1]
    BY <1>1, <2>3, Ends
  <2>. QED BY <2>1, <2>2, <2>4 DEF IdsGiven
<1>11. Spoken'
  <2>1. ASSUME NEW n \in DOMAIN members' PROVE members'[n] < nextId'
    <3>1. CASE n \in DOMAIN members
      <4>1. members'[n] < id /\ members'[n] \in Nat
        BY <1>4, <1>5, <3>1, IdsAre
      <4>. QED BY <1>2, <4>1
    <3>2. CASE n = Len(members) + 1
      BY <1>2, <1>4, <3>2
    <3>. QED BY <1>4, <3>1, <3>2
  <2>2. ASSUME NEW w \in VM, NEW i \in DOMAIN sent'[w] PROVE sent'[w][i].id < nextId'
    <3>. SUFFICES sent'[w][i].id = id \/ (sent'[w][i].id < id /\ sent'[w][i].id \in Ids)
      <4>1. id < id + 1 /\ \A k \in Ids : k < id => k < id + 1
        BY <1>2, IdsAre
      <4>. QED BY <1>2, <4>1
    <3>1. CASE w = v
      BY <1>5, <1>6, <2>2, <3>1, MessagesDiffer
    <3>2. CASE w = u
      <4>1. (i \in DOMAIN sent[u] /\ sent'[u][i] = sent[u][i]) \/ sent'[u][i] = FdOf(id)
        <5>. DEFINE ms == Fds(id)
        <5>1. ms \in Seq(Messages) /\ sent'[u] = Tell(u, ms) /\ u \in VM /\ TypeOK
          BY <1>1, <1>2, <1>7
        <5>2. \A k \in DOMAIN ms : ms[k] = FdOf(id)
          BY <1>7
        <5>. HIDE DEF ms
        <5>3. (i \in DOMAIN sent[u] /\ sent'[u][i] = sent[u][i]) \/ \E k \in DOMAIN ms : sent'[u][i] = ms[k]
          BY <2>2, <3>2, <5>1, ToldQueue
        <5>. QED BY <5>2, <5>3
      <4>2. sent'[u][i] \in Messages
        BY <1>1, <1>2, <2>2, <3>2
      <4>. QED BY <1>1, <1>5, <3>2, <4>1, <4>2, MessagesDiffer
    <3>. QED BY <1>1, <3>1, <3>2
  <2>3. ASSUME NEW w \in VM, NEW p \in Ids, p >= nextId'
        PROVE  peers'[w][p].nb = 0 /\ peers'[w][p].mem # "freed"
    <3>1. p >= id
      BY <1>2, <2>3, IdsAre
    <3>2. CASE w = v
      BY <1>2, <3>2
    <3>3. CASE w = u
      BY <1>1, <1>3, <1>5, <3>1, <3>3
    <3>. QED BY <1>1, <3>2, <3>3
  <2>. QED BY <2>1, <2>2, <2>3 DEF Spoken
<1>12. ASSUME NEW w \in VM, Running(w)'
       PROVE  \/ w = v
              \/ w = u /\ Running(u) /\ sent'[u] = sent[u] \o Fds(id)
  BY <1>1, <1>2, <1>3, <1>12 DEF Running, Tell
<1>13. RunningNotGone'
  <2>. SUFFICES ASSUME NEW w \in VM, NEW x \in VM, Running(w)', Running(x)'
                PROVE  peers'[w][vmId'[x]].mem # "freed" /\ ~Queued(w, GoneOf(vmId[x]))'
    BY DEF RunningNotGone
  <2>1. PICK q \in Ids : vmId'[x] = q /\ q = IF x = v THEN id ELSE vmId[u]
    BY <1>2, <1>3, <1>8, <1>12
  <2>0. PICK m : m = GoneOf(q)
    OBVIOUS
  <2>2. \A p : m # FdOf(p)
    BY <2>0, MessagesDiffer
  <2>3. CASE w = v
    <3>1. ~Queued(w, m)'
      BY <1>6, <2>2, <2>3 DEF Queued
    <3>. QED BY <1>2, <2>1, <2>3, <2>0, <3>1 DEF Queued, GoneOf
  <2>4. CASE w = u
    <3>1. Running(u)
      BY <1>1, <1>12, <2>4
    <3>2. peers[u][q].mem # "freed" /\ ~Queued(u, m)
      <4>1. CASE x = v
        <5>1. q = id
          BY <2>1, <4>1
        <5>2. \A i \in DOMAIN sent[u] : sent[u][i] # m
          <6>1. \A i \in DOMAIN sent[u] : sent[u][i].id < id
            BY <1>1, <1>5
          <6>2. m.id = id /\ ~(id < id)
            BY <1>2, <2>0, <5>1, MessagesDiffer
          <6>. QED BY <6>1, <6>2
        <5>. QED BY <1>1, <1>2, <1>5, <5>1, <5>2 DEF Queued
      <4>2. CASE x # v
        <5>1. q = vmId[u]
          BY <2>1, <4>2
        <5>. QED BY <1>1, <3>1, <2>0, <5>1 DEF Base, RunningNotGone
      <4>. QED BY <4>1, <4>2
    <3>3. ~Queued(u, m)'
      BY <1>1, <1>2, <1>7, <2>2, <3>2, ToldQueue
    <3>. QED BY <1>3, <2>1, <2>4, <3>2, <2>0, <3>3 DEF Queued, GoneOf
  <2>. QED BY <1>1, <2>3, <2>4
<1>14. EventfdsComing'
  <2>. SUFFICES ASSUME NEW w \in VM, NEW x \in VM, Running(w)', Running(x)'
                PROVE  Coming(w, vmId[x])'
    BY DEF EventfdsComing
  <2>1. PICK q \in Ids : vmId'[x] = q /\ q = IF x = v THEN id ELSE vmId[u]
    BY <1>2, <1>3, <1>8, <1>12
  <2>0. PICK m : m = FdOf(q)
    OBVIOUS
  <2>. SUFFICES Coming(w, q)'
    BY <2>1 DEF Coming, Queued, QueuedTwice, QueuedBefore, FdOf
  <2>2. CASE w = v
    <3>1. QueuedTwice(v, m)'
      <4>1. CASE x = v
        <5>1. q = id
          BY <2>1, <4>1
        <5>. QED BY <1>6, <2>0, <5>1 DEF QueuedTwice, QueuedBefore
      <4>2. CASE x # v
        <5>1. q = vmId[u] /\ Running(u)
          BY <1>12, <2>1, <4>2
        <5>2. PICK n \in DOMAIN members : members[n] = q
          BY <1>8, <5>1
        <5>. QED BY <1>6, <2>0, <5>2 DEF QueuedTwice, QueuedBefore
      <4>. QED BY <4>1, <4>2
    <3>. QED BY <1>2, <2>1, <2>2, <2>0, <3>1 DEF Coming
  <2>3. CASE w = u
    <3>1. Running(u)
      BY <1>1, <1>12, <2>3
    <3>2. CASE x = v
      <4>1. q = id /\ peers'[u][q].nb = 0
        BY <1>1, <1>2, <1>3, <1>5, <2>1, <3>2
      <4>2. QueuedTwice(u, m)'
        BY <1>1, <1>2, <3>1, <4>1, <2>0, NewcomerQueue
      <4>. QED BY <2>3, <4>1, <2>0, <4>2 DEF Coming
    <3>3. CASE x # v
      <4>1. Coming(u, q)
        BY <1>1, <2>1, <3>1, <3>3 DEF Base, EventfdsComing
      <4>2. (Queued(u, m) => Queued(u, m)') /\ (QueuedTwice(u, m) => QueuedTwice(u, m)')
        BY <1>1, <1>2, <1>7, ToldQueue
      <4>. QED BY <1>3, <2>3, <4>1, <2>0, <4>2 DEF Coming
    <3>. QED BY <3>2, <3>3
  <2>. QED BY <1>1, <2>2, <2>3
<1>. QED BY <1>2, <1>9, <1>10, <1>11, <1>13, <1>14 DEF Base

\* Hearing an announcement or an interrupt, and notifying the peer.
LEMMA HearInv ==
  ASSUME Base, NEW v \in VM, HearId(v) \/ HearHost(v)
  PROVE  Base' /\ Calm
<1>1. /\ TypeOK /\ Calm /\ proc' = proc /\ Running(v)
      /\ UNCHANGED <<nextId, members, sent, vmId, peers, nbPeers, watched, sharedId>>
  BY DEF Base, HearId, HearHost, Hear, Calm, server, device, Running
<1>2. pending' \in SUBSET Pairs
  BY <1>1 DEF HearId, HearHost, Hear, TypeOK, Pairs
<1>3. /\ otherId' \in [VM -> Ids \cup {None}]
      /\ \A w \in VM : w # v => otherId'[w] = otherId[w]
  <2>1. otherId \in [VM -> Ids \cup {None}] /\ WordOfPeer(v) \in Ids
    BY <1>1, Ends DEF TypeOK, WordOfPeer
  <2>2. CASE HearId(v)
    BY <2>1, <2>2 DEF HearId
  <2>3. CASE HearHost(v)
    BY <2>1, <2>3 DEF HearHost, device
  <2>. QED BY <2>2, <2>3
<1>4. TypeOK'
  BY <1>1, <1>2, <1>3 DEF TypeOK, Pairs
<1>. QED BY <1>1, <1>4, CalmStep DEF Base

LEMMA NotifyInv ==
  ASSUME Base, NEW v \in VM, Notify(v)
  PROVE  Base' /\ Calm /\ pending \subseteq pending'
<1>1. /\ TypeOK /\ Running(v) /\ otherId[v] \in Ids \cup {None}
      /\ Ring(v, peers[v], nbPeers[v], otherId[v], HOST)
      /\ UNCHANGED <<nextId, members, sent, vmId, peers, nbPeers, watched, sharedId, otherId>>
  BY DEF Base, Notify, server, device, Running, TypeOK
<1>2. TableOK(peers[v], nbPeers[v]) /\ HOST \in 0 .. Vectors - 1
  BY <1>1, Sizes DEF Base, TypeOK, TableFits, TableOK, HOST
<1>3. /\ pending' \in SUBSET Pairs /\ pending \subseteq pending'
      /\ proc' \in [VM -> {"off", "up", "dead"}] /\ Calm
      /\ \A w \in VM : w # v => proc'[w] = proc[w]
  <2>. DEFINE tab == peers[v]
              n   == nbPeers[v]
              p   == otherId[v]
  <2>1. TableOK(tab, n) /\ p \in Ids \cup {None} /\ Ring(v, tab, n, p, HOST)
    BY <1>1, <1>2
  <2>. HIDE DEF tab, n, p
  <2>2. /\ pending' \in SUBSET Pairs /\ pending \subseteq pending'
        /\ proc' \in [VM -> {"off", "up", "dead"}] /\ Calm
        /\ \A w \in VM : w # v => proc'[w] = proc[w]
    BY <1>1, <1>2, <2>1, RingIs
  <2>. QED BY <2>2 DEF tab, n, p
<1>4. TypeOK'
  BY <1>1, <1>3 DEF TypeOK, Pairs
<1>. QED BY <1>1, <1>3, <1>4, CalmStep DEF Base

LEMMA BaseInit == Init => Base
<1>. SUFFICES ASSUME Init PROVE Base
  OBVIOUS
<1>. USE Sizes, IdsAre, EntriesAre DEF Init
<1>1. TypeOK
  BY DEF TypeOK
<1>2. TableFits
  BY DEF TableFits
<1>3. IdsGiven /\ Spoken
  BY Ends DEF IdsGiven, Spoken, Running
<1>4. RunningNotGone /\ EventfdsComing
  BY DEF RunningNotGone, EventfdsComing, Running
<1>. QED BY <1>1, <1>2, <1>3, <1>4 DEF Base

LEMMA BaseStep == Base /\ [Next]_vars => Base'
<1>. SUFFICES ASSUME Base, [Next]_vars PROVE Base'
  OBVIOUS
<1>1. CASE UNCHANGED vars
  BY <1>1 DEF vars, server, device, Base, TypeOK, TableFits, IdsGiven, Spoken, RunningNotGone,
     EventfdsComing, Running, Coming, Queued, QueuedTwice, QueuedBefore
<1>2. ASSUME NEW v \in VM, Start(v) PROVE Base'
  BY <1>2, StartInv
<1>3. ASSUME NEW v \in VM, Kill(v) PROVE Base'
  BY <1>3, KillInv
<1>4. ASSUME NEW v \in VM, MainLoop(v) PROVE Base'
  BY <1>4, ConnectInv, DisconnectInv, HearInv DEF MainLoop
<1>5. ASSUME NEW v \in VM, Signal(v) \/ SwitchSignal(v) PROVE Base'
  BY <1>5, NotifyInv DEF Signal, SwitchSignal
<1>6. ASSUME NEW p \in Ids, ServerNotice(p) PROVE Base'
  BY <1>6, NoticeInv
<1>. QED BY <1>1, <1>2, <1>3, <1>4, <1>5, <1>6 DEF Next

-----------------------------------------------------------------------------
(* The announcement, where VM 0 is not restarted: one lemma per action.    *)

Handshake == FirstIsZero /\ AnnouncementHeard

\* Whoever runs beside VM 0, which has id 0, has another id.
LEMMA FirstIds ==
  ASSUME Base, FirstIsZero, BothUp
  PROVE  /\ Running(0) /\ Running(1) /\ vmId[0] = 0
         /\ vmId[1] \in Ids /\ vmId[1] # 0
         /\ peers[1][0].mem # "freed" /\ ~Queued(1, GoneOf(0))
<1>1. Running(0) /\ Running(1) /\ vmId[0] = 0
  BY Ends DEF BothUp, Running, FirstIsZero
<1>2. vmId[1] \in Ids /\ vmId[1] # vmId[0]
  BY <1>1, Ends, RunningIds DEF Base, IdsGiven, Running
<1>3. peers[1][vmId[0]].mem # "freed" /\ ~Queued(1, GoneOf(vmId[0]))
  BY <1>1, Ends DEF Base, RunningNotGone
<1>. QED BY <1>1, <1>2, <1>3

LEMMA FirstCalm ==
  ASSUME Base, FirstIsZero, Calm, UNCHANGED <<nextId, vmId>>, sharedId'[0] = sharedId[0]
  PROVE  FirstIsZero'
<1>1. \A w \in VM : proc'[w] = "off" <=> proc[w] = "off"
  BY DEF Calm
<1>. QED BY <1>1, Ends DEF FirstIsZero

LEMMA BothCalm ==
  ASSUME Calm
  PROVE  (BothUp' => BothUp) /\ (Running(1)' => Running(1))
BY Ends DEF Calm, BothUp, Running

\* The table and the queue of VM 1 are untouched.
LEMMA HeardCalm ==
  ASSUME Base, Handshake, Calm, UNCHANGED vmId, peers'[1] = peers[1], sent'[1] = sent[1],
         otherId'[1] \in {otherId[1], 0}, sharedId'[1] = sharedId[1],
         BothUp /\ Announced => otherId'[0] = vmId[1] \/ <<0, VMID>> \in pending'
  PROVE  AnnouncementHeard'
<1>1. (BothUp' => BothUp) /\ (Running(1)' => Running(1))
  BY BothCalm
<1>2. Announced' <=> Announced
  BY DEF Announced
<1>3. otherId'[1] \in {None, 0}
  BY DEF Handshake, AnnouncementHeard
<1>4. Running(1)' /\ Announced' => otherId'[1] = 0 /\ sharedId'[1] = vmId'[1]
  BY <1>1, <1>2 DEF Handshake, AnnouncementHeard
<1>5. BothUp' =>
        /\ \A i \in DOMAIN sent'[1] :
             sent'[1][i] = FdOf(vmId'[1]) => peers'[1][0].nb >= 1 \/ QueuedBefore(1, FdOf(0), i)'
        /\ Announced' => otherId'[0] = vmId'[1] \/ <<0, VMID>> \in pending'
  BY <1>1, <1>2 DEF Handshake, AnnouncementHeard, QueuedBefore
<1>. QED BY <1>3, <1>4, <1>5 DEF AnnouncementHeard

LEMMA HeardNotify ==
  ASSUME Base, Handshake, NEW v \in VM, Notify(v)
  PROVE  Handshake'
<1>1. Calm /\ pending \subseteq pending'
  BY NotifyInv
<1>2. UNCHANGED <<nextId, sent, vmId, peers, sharedId, otherId>>
  BY DEF Notify, server, device
<1>3. BothUp /\ Announced => otherId'[0] = vmId[1] \/ <<0, VMID>> \in pending'
  BY <1>1, <1>2 DEF Handshake, AnnouncementHeard
<1>4. FirstIsZero'
  BY <1>1, <1>2, FirstCalm DEF Handshake
<1>. QED BY <1>1, <1>2, <1>3, <1>4, HeardCalm DEF Handshake

\* VM 0 takes the id that VM 1 has written before it signalled.
LEMMA HeardHear ==
  ASSUME Base, Handshake, NEW v \in VM, HearId(v) \/ HearHost(v)
  PROVE  Handshake'
<1>1. Calm
  BY HearInv
<1>2. /\ UNCHANGED <<nextId, sent, vmId, peers, sharedId>>
      /\ HearId(v) => otherId' = [otherId EXCEPT ![v] = sharedId[Peer(v)]]
      /\ HearHost(v) => otherId' = otherId
      /\ HearId(v) => pending' = pending \ {<<vmId[v], VMID>>}
      /\ HearHost(v) => pending' = pending \ {<<vmId[v], HOST>>}
  BY DEF HearId, HearHost, Hear, server, device, WordOfPeer
<1>3. otherId \in [VM -> Ids \cup {None}] /\ sharedId[0] = 0
  BY DEF Base, TypeOK, Handshake, FirstIsZero
<1>4. otherId'[1] \in {otherId[1], 0}
  <2>1. CASE v = 1 /\ HearId(v)
    BY <1>2, <1>3, <2>1, Ends DEF Peer
  <2>2. CASE v # 1 \/ HearHost(v)
    BY <1>2, <1>3, <2>2, Ends
  <2>. QED BY <2>1, <2>2
<1>5. ASSUME BothUp, Announced
      PROVE  otherId'[0] = vmId[1] \/ <<0, VMID>> \in pending'
  <2>1. Running(1) /\ vmId[0] = 0 /\ vmId[1] # 0
    BY <1>5, FirstIds DEF Handshake
  <2>2. /\ sharedId[1] = vmId[1]
        /\ otherId[0] = vmId[1] \/ <<0, VMID>> \in pending
    BY <1>5, <2>1 DEF Handshake, AnnouncementHeard
  <2>3. CASE v = 0 /\ HearId(v)
    BY <1>2, <1>3, <2>2, <2>3, Ends DEF Peer
  <2>4. CASE v = 0 /\ HearHost(v)
    BY <1>2, <2>2, <2>4 DEF VMID, HOST
  <2>5. CASE v = 1
    <3>1. otherId'[0] = otherId[0]
      BY <1>2, <1>3, <2>5, Ends
    <3>. QED BY <1>2, <2>1, <2>2, <2>5, <3>1
  <2>. QED BY <2>3, <2>4, <2>5 DEF VM
<1>6. FirstIsZero'
  BY <1>1, <1>2, FirstCalm DEF Handshake
<1>. QED BY <1>1, <1>2, <1>4, <1>5, <1>6, HeardCalm DEF Handshake

\* The queue of VM 1 loses its head or gains a notice of an end: what comes
\* before its own eventfds stays there or has arrived.
LEMMA HeardQueue ==
  ASSUME Base, Handshake, Calm, UNCHANGED <<vmId, pending>>,
         peers'[1][vmId[1]].nb = peers[1][vmId[1]].nb,
         otherId' = otherId, sharedId'[1] = sharedId[1],
         BothUp => \A i \in DOMAIN sent'[1] :
           sent'[1][i] = FdOf(vmId[1]) => peers'[1][0].nb >= 1 \/ QueuedBefore(1, FdOf(0), i)'
  PROVE  AnnouncementHeard'
<1>1. (BothUp' => BothUp) /\ (Running(1)' => Running(1))
  BY BothCalm
<1>2. Announced' <=> Announced
  BY DEF Announced
<1>3. otherId'[1] \in {None, 0}
  BY DEF Handshake, AnnouncementHeard
<1>4. Running(1)' /\ Announced' => otherId'[1] = 0 /\ sharedId'[1] = vmId'[1]
  BY <1>1, <1>2 DEF Handshake, AnnouncementHeard
<1>5. BothUp' =>
        /\ \A i \in DOMAIN sent'[1] :
             sent'[1][i] = FdOf(vmId'[1]) => peers'[1][0].nb >= 1 \/ QueuedBefore(1, FdOf(0), i)'
        /\ Announced' => otherId'[0] = vmId'[1] \/ <<0, VMID>> \in pending'
  BY <1>1, <1>2 DEF Handshake, AnnouncementHeard
<1>. QED BY <1>3, <1>4, <1>5 DEF AnnouncementHeard

LEMMA HeardNotice ==
  ASSUME Base, Handshake, NEW p \in Ids, ServerNotice(p)
  PROVE  Handshake'
<1>1. Calm /\ TypeOK
  BY NoticeInv DEF Base
<1>2. UNCHANGED <<nextId, vmId, peers, sharedId, otherId, pending>>
  BY DEF ServerNotice, device
<1>. DEFINE ms == <<GoneOf(p)>>
<1>3. ms \in Seq(Messages) /\ \A i \in DOMAIN ms : ms[i] = GoneOf(p)
  BY MessagesAre
<1>4. sent'[1] = Tell(1, ms)
  BY Ends DEF ServerNotice
<1>. HIDE DEF ms
<1>5. /\ DOMAIN sent[1] \subseteq DOMAIN sent'[1]
      /\ \A i \in DOMAIN sent[1] : sent'[1][i] = sent[1][i]
      /\ \A i \in DOMAIN sent'[1] :
           \/ i \in DOMAIN sent[1] /\ sent'[1][i] = sent[1][i]
           \/ \E j \in DOMAIN ms : sent'[1][i] = ms[j]
  BY <1>1, <1>3, <1>4, Ends, ToldQueue
<1>6. ASSUME BothUp, NEW i \in DOMAIN sent'[1], sent'[1][i] = FdOf(vmId[1])
      PROVE  peers'[1][0].nb >= 1 \/ QueuedBefore(1, FdOf(0), i)'
  <2>1. i \in DOMAIN sent[1] /\ sent[1][i] = FdOf(vmId[1])
    BY <1>3, <1>5, <1>6, MessagesDiffer
  <2>2. peers[1][0].nb >= 1 \/ QueuedBefore(1, FdOf(0), i)
    BY <1>6, <2>1 DEF Handshake, AnnouncementHeard
  <2>. QED BY <1>2, <1>5, <2>2 DEF QueuedBefore
<1>7. AnnouncementHeard'
  BY <1>1, <1>2, <1>6, HeardQueue
<1>8. FirstIsZero'
  BY <1>1, <1>2, FirstCalm DEF Handshake
<1>. QED BY <1>7, <1>8 DEF Handshake

LEMMA HeardKill ==
  ASSUME Base, Handshake, 0 \notin Restartable, NEW v \in VM, Kill(v)
  PROVE  Handshake'
<1>1. /\ v = 1 /\ proc[1] # "off" /\ proc'[1] = "off" /\ proc'[0] = proc[0]
      /\ vmId'[0] = vmId[0] /\ otherId'[1] = None
      /\ UNCHANGED <<nextId, sharedId>>
  BY DEF Kill, Vanish, server, Base, TypeOK, VM
<1>2. FirstIsZero'
  BY <1>1 DEF Handshake, FirstIsZero
<1>3. ~Running(1)' /\ ~BothUp'
  BY <1>1, Ends DEF Running, BothUp
<1>4. AnnouncementHeard'
  BY <1>1, <1>3 DEF AnnouncementHeard
<1>. QED BY <1>2, <1>4 DEF Handshake

LEMMA HeardDisconnect ==
  ASSUME Base, Handshake, NEW v \in VM, Disconnect(v)
  PROVE  Handshake'
<1>1. PICK p \in Ids :
           /\ Head(sent[v]) = GoneOf(p) /\ Read(v, p) /\ p # vmId[v]
           /\ \A w \in VM : w # v => peers'[w] = peers[w]
           /\ \A q \in Ids : q # p => peers'[v][q].nb = peers[v][q].nb
           /\ UNCHANGED <<proc, watched, otherId, sharedId, pending>>
  BY DisconnectTable DEF Base
<1>2. Calm /\ TypeOK /\ UNCHANGED <<nextId, vmId, sharedId, otherId, pending>>
  BY <1>1, DisconnectInv DEF Base, Read
<1>3. FirstIsZero'
  BY <1>2, FirstCalm DEF Handshake
<1>4. CASE v # 1
  <2>1. peers'[1] = peers[1] /\ sent'[1] = sent[1]
    BY <1>1, <1>2, <1>4, Ends, ReadQueue
  <2>2. BothUp /\ Announced => otherId'[0] = vmId[1] \/ <<0, VMID>> \in pending'
    BY <1>2 DEF Handshake, AnnouncementHeard
  <2>. QED BY <1>2, <1>3, <2>1, <2>2, HeardCalm DEF Handshake
<1>5. CASE v = 1
  <2>0. Running(1)
    BY <1>1, <1>5 DEF Read
  <2>1. peers'[1][vmId[1]].nb = peers[1][vmId[1]].nb
    <3>1. vmId[1] \in Ids
      BY <2>0, Ends, RunningIds DEF Base
    <3>. QED BY <1>1, <1>5, <3>1
  <2>2. ASSUME BothUp, NEW i \in DOMAIN sent'[1], sent'[1][i] = FdOf(vmId[1])
        PROVE  peers'[1][0].nb >= 1 \/ QueuedBefore(1, FdOf(0), i)'
    <3>1. /\ sent'[1][i] = sent[1][i + 1] /\ i + 1 \in DOMAIN sent[1]
          /\ Head(sent[1]) = sent[1][1] /\ 1 \in DOMAIN sent[1]
          /\ DOMAIN sent[1] \subseteq Nat \ {0}
          /\ \A j \in DOMAIN sent[1] :
               j > 1 => sent[1][j] = sent'[1][j - 1] /\ j - 1 \in DOMAIN sent'[1]
          /\ sent'[1] \in Seq(Messages)
      BY <1>1, <1>2, <1>5, <2>2, Ends, ReadQueue
    <3>2. p # 0
      BY <1>1, <1>5, <2>2, <3>1, FirstIds DEF Handshake, Queued
    <3>3. peers'[1][0].nb = peers[1][0].nb
      BY <1>1, <1>5, <3>2, IdsAre
    <3>4. peers[1][0].nb >= 1 \/ QueuedBefore(1, FdOf(0), i + 1)
      BY <2>2, <3>1 DEF Handshake, AnnouncementHeard
    <3>5. ASSUME QueuedBefore(1, FdOf(0), i + 1) PROVE QueuedBefore(1, FdOf(0), i)'
      <4>1. PICK j \in DOMAIN sent[1] : j < i + 1 /\ sent[1][j] = FdOf(0)
        BY <3>5 DEF QueuedBefore
      <4>2. j # 1
        BY <1>1, <1>5, <3>1, <4>1, MessagesDiffer
      <4>3. j > 1 /\ i \in Nat /\ j \in Nat
        BY <2>2, <3>1, <4>2
      <4>4. j - 1 \in DOMAIN sent'[1] /\ sent'[1][j - 1] = FdOf(0) /\ j - 1 < i
        BY <3>1, <4>1, <4>3
      <4>. QED BY <4>4 DEF QueuedBefore
    <3>. QED BY <3>3, <3>4, <3>5
  <2>3. AnnouncementHeard'
    BY <1>2, <2>1, <2>2, HeardQueue
  <2>. QED BY <1>3, <2>3 DEF Handshake
<1>. QED BY <1>4, <1>5

\* What a message with an eventfd does to the announcement.
LEMMA ConnectIs ==
  ASSUME Base, NEW v \in VM, Connect(v)
  PROVE  \E p \in Ids :
           /\ Head(sent[v]) = FdOf(p) /\ Read(v, p) /\ TableOK(peers'[v], nbPeers'[v])
           /\ \A w \in VM : w # v =>
                peers'[w] = peers[w] /\ sharedId'[w] = sharedId[w] /\ otherId'[w] = otherId[w]
           /\ \A q \in Ids : peers'[v][q].mem = "freed" <=> peers[v][q].mem = "freed"
           /\ \A q \in Ids : q # p => peers'[v][q].nb = peers[v][q].nb
           /\ peers'[v][p].nb = IF peers[v][p].nb < Vectors THEN peers[v][p].nb + 1 ELSE peers[v][p].nb
           /\ pending \subseteq pending'
           /\ \/ /\ p = vmId[v] /\ peers[v][p].nb = HOST
                 /\ sharedId'[v] = vmId[v]
                 /\ v # Announcer => otherId' = otherId
                 /\ v = Announcer =>
                      /\ otherId'[v] = WordOfPeer(v)
                      /\ Signallable(peers'[v], nbPeers'[v], WordOfPeer(v), VMID)
                           => <<WordOfPeer(v), VMID>> \in pending'
              \/ /\ ~(p = vmId[v] /\ peers[v][p].nb = HOST)
                 /\ UNCHANGED <<sharedId, otherId>>
<1>1. PICK p \in Ids :
           /\ Head(sent[v]) = FdOf(p) /\ Read(v, p)
           /\ TableFits' /\ peers' \in [VM -> [Ids -> Entries]] /\ nbPeers' \in [VM -> Nat]
           /\ \A w \in VM : w # v => peers'[w] = peers[w] /\ nbPeers'[w] = nbPeers[w]
           /\ \A q \in Ids : peers'[v][q].mem = "freed" <=> peers[v][q].mem = "freed"
           /\ \A q \in Ids : q # p => peers'[v][q].nb = peers[v][q].nb
           /\ peers'[v][p].nb = IF peers[v][p].nb < Vectors THEN peers[v][p].nb + 1 ELSE peers[v][p].nb
           /\ IF p = vmId[v] /\ peers[v][p].nb < Vectors
              THEN SetupInterrupt(v, peers[v][p].nb, peers'[v], nbPeers'[v])
              ELSE UNCHANGED <<watched, sharedId, otherId, pending, proc>>
  BY ConnectTable DEF Base
<1>2. TableOK(peers'[v], nbPeers'[v])
  BY <1>1 DEF TableOK, TableFits
<1>. DEFINE k == peers[v][p].nb
<1>3. Running(v) /\ vmId[v] \in Ids /\ TypeOK /\ k \in Nat /\ k <= Vectors
  BY <1>1, RunningIds, EntriesAre DEF Base, Read, TypeOK
<1>4. CASE p = vmId[v] /\ k < Vectors
  <2>1. SetupInterrupt(v, k, peers'[v], nbPeers'[v]) /\ k \in 0 .. Vectors - 1
    BY <1>1, <1>3, <1>4, Sizes
  <2>. DEFINE tab == peers'[v]
              n   == nbPeers'[v]
  <2>2. SetupInterrupt(v, k, tab, n) /\ TableOK(tab, n)
    BY <1>2, <2>1
  <2>. HIDE DEF k, tab, n
  <2>3. /\ pending \subseteq pending'
        /\ \A w \in VM : w # v => sharedId'[w] = sharedId[w] /\ otherId'[w] = otherId[w]
        /\ k # HOST => UNCHANGED <<sharedId, otherId, pending, proc>>
        /\ k = HOST => sharedId'[v] = vmId[v]
        /\ v # Announcer => otherId' = otherId
        /\ k = HOST /\ v = Announcer =>
             /\ otherId'[v] = WordOfPeer(v)
             /\ Signallable(tab, n, WordOfPeer(v), VMID) => <<WordOfPeer(v), VMID>> \in pending'
    BY <1>3, <2>1, <2>2, SetupIs
  <2>4. \/ /\ p = vmId[v] /\ k = HOST
           /\ sharedId'[v] = vmId[v]
           /\ v # Announcer => otherId' = otherId
           /\ v = Announcer =>
                /\ otherId'[v] = WordOfPeer(v)
                /\ Signallable(tab, n, WordOfPeer(v), VMID) => <<WordOfPeer(v), VMID>> \in pending'
        \/ ~(p = vmId[v] /\ k = HOST) /\ UNCHANGED <<sharedId, otherId>>
    BY <1>4, <2>3
  <2>. QED BY <1>1, <1>2, <2>3, <2>4 DEF k, tab, n
<1>5. CASE ~(p = vmId[v] /\ k < Vectors)
  <2>1. UNCHANGED <<watched, sharedId, otherId, pending, proc>>
    BY <1>1, <1>5
  <2>2. ~(p = vmId[v] /\ k = HOST)
    BY <1>5, Sizes DEF HOST
  <2>. QED BY <1>1, <1>2, <2>1, <2>2
<1>. QED BY <1>4, <1>5

\* VM 1's own second eventfd comes after one of VM 0's: the announcement finds
\* a live entry.
LEMMA HeardConnect ==
  ASSUME Base, Handshake, NEW v \in VM, Connect(v)
  PROVE  Handshake'
<1>1. PICK p \in Ids :
           /\ Head(sent[v]) = FdOf(p) /\ Read(v, p) /\ TableOK(peers'[v], nbPeers'[v])
           /\ \A w \in VM : w # v =>
                peers'[w] = peers[w] /\ sharedId'[w] = sharedId[w] /\ otherId'[w] = otherId[w]
           /\ \A q \in Ids : peers'[v][q].mem = "freed" <=> peers[v][q].mem = "freed"
           /\ \A q \in Ids : q # p => peers'[v][q].nb = peers[v][q].nb
           /\ peers'[v][p].nb = IF peers[v][p].nb < Vectors THEN peers[v][p].nb + 1 ELSE peers[v][p].nb
           /\ pending \subseteq pending'
           /\ \/ /\ p = vmId[v] /\ peers[v][p].nb = HOST
                 /\ sharedId'[v] = vmId[v]
                 /\ v # Announcer => otherId' = otherId
                 /\ v = Announcer =>
                      /\ otherId'[v] = WordOfPeer(v)
                      /\ Signallable(peers'[v], nbPeers'[v], WordOfPeer(v), VMID)
                           => <<WordOfPeer(v), VMID>> \in pending'
              \/ /\ ~(p = vmId[v] /\ peers[v][p].nb = HOST)
                 /\ UNCHANGED <<sharedId, otherId>>
  BY ConnectIs
<1>2. Calm /\ TypeOK /\ UNCHANGED <<nextId, vmId>> /\ Running(v) /\ sharedId[0] = 0
  BY <1>1, ConnectInv DEF Base, Read, Handshake, FirstIsZero
<1>3. CASE v = 0
  <2>1. peers'[1] = peers[1] /\ sent'[1] = sent[1] /\ sharedId'[1] = sharedId[1] /\ otherId' = otherId
    BY <1>1, <1>2, <1>3, Ends, ReadQueue DEF Announcer
  <2>2. sharedId'[0] = 0
    BY <1>1, <1>2, <1>3 DEF Handshake, FirstIsZero, Running
  <2>3. BothUp /\ Announced => otherId'[0] = vmId[1] \/ <<0, VMID>> \in pending'
    BY <1>1, <2>1 DEF Handshake, AnnouncementHeard
  <2>. QED BY <1>2, <2>1, <2>2, <2>3, FirstCalm, HeardCalm DEF Handshake
<1>4. CASE v = 1
  <2>0. /\ Running(1) /\ vmId[1] \in Ids /\ \A q \in Ids : peers[1][q].nb \in Nat
        /\ WordOfPeer(1) = 0
    <3>1. Running(1) /\ vmId[1] \in Ids
      BY <1>2, <1>4, Ends, RunningIds DEF Base
    <3>2. ASSUME NEW q \in Ids PROVE peers[1][q].nb \in Nat
      <4>1. peers[1][q] \in Entries
        BY <1>2, Ends DEF TypeOK
      <4>. QED BY <4>1, EntriesAre
    <3>3. WordOfPeer(1) = 0
      BY <1>2 DEF WordOfPeer, Peer
    <3>. QED BY <3>1, <3>2, <3>3
  <2>1. sharedId'[0] = 0 /\ otherId'[0] = otherId[0]
    BY <1>1, <1>2, <1>4, Ends
  <2>2. FirstIsZero'
    BY <1>2, <2>1, FirstCalm DEF Handshake
  <2>3. (BothUp' => BothUp) /\ (Running(1)' => Running(1))
    BY <1>2, BothCalm
  <2>4. otherId'[1] \in {None, 0}
    BY <1>1, <1>4, <2>0 DEF Handshake, AnnouncementHeard, Announcer
\* Announced only now, or before.
  <2>5. Announced' => \/ p = vmId[1] /\ peers[1][p].nb = HOST
                      \/ Announced /\ ~(p = vmId[1] /\ peers[1][p].nb = HOST)
    BY <1>1, <1>2, <1>4, <2>0 DEF Announced, HOST
  <2>6. Running(1)' /\ Announced' => otherId'[1] = 0 /\ sharedId'[1] = vmId'[1]
    BY <1>1, <1>2, <1>4, <2>0, <2>3, <2>5 DEF Handshake, AnnouncementHeard, Announcer
  <2>7. ASSUME BothUp, NEW i \in DOMAIN sent'[1], sent'[1][i] = FdOf(vmId[1])
        PROVE  peers'[1][0].nb >= 1 \/ QueuedBefore(1, FdOf(0), i)'
    <3>1. /\ sent'[1][i] = sent[1][i + 1] /\ i + 1 \in DOMAIN sent[1]
          /\ Head(sent[1]) = sent[1][1] /\ 1 \in DOMAIN sent[1]
          /\ DOMAIN sent[1] \subseteq Nat \ {0}
          /\ \A j \in DOMAIN sent[1] :
               j > 1 => sent[1][j] = sent'[1][j - 1] /\ j - 1 \in DOMAIN sent'[1]
          /\ sent'[1] \in Seq(Messages)
      BY <1>1, <1>2, <1>4, <2>7, Ends, ReadQueue
    <3>2. peers[1][0].nb >= 1 \/ QueuedBefore(1, FdOf(0), i + 1)
      BY <2>7, <3>1 DEF Handshake, AnnouncementHeard
    <3>3. peers[1][0].nb >= 1 \/ p = 0 => peers'[1][0].nb >= 1
      BY <1>1, <1>4, <2>0, Sizes, IdsAre
    <3>4. ASSUME QueuedBefore(1, FdOf(0), i + 1), p # 0 PROVE QueuedBefore(1, FdOf(0), i)'
      <4>1. PICK j \in DOMAIN sent[1] : j < i + 1 /\ sent[1][j] = FdOf(0)
        BY <3>4 DEF QueuedBefore
      <4>2. j # 1
        BY <1>1, <1>4, <3>1, <3>4, <4>1, MessagesDiffer
      <4>3. j > 1 /\ i \in Nat /\ j \in Nat
        BY <2>7, <3>1, <4>2
      <4>4. j - 1 \in DOMAIN sent'[1] /\ sent'[1][j - 1] = FdOf(0) /\ j - 1 < i
        BY <3>1, <4>1, <4>3
      <4>. QED BY <4>4 DEF QueuedBefore
    <3>. QED BY <3>2, <3>3, <3>4
  <2>8. ASSUME BothUp, Announced' PROVE otherId'[0] = vmId'[1] \/ <<0, VMID>> \in pending'
    <3>1. CASE Announced /\ ~(p = vmId[1] /\ peers[1][p].nb = HOST)
      BY <1>1, <1>2, <2>1, <2>8, <3>1 DEF Handshake, AnnouncementHeard
    <3>2. CASE p = vmId[1] /\ peers[1][p].nb = HOST
      <4>1. /\ Head(sent[1]) = sent[1][1] /\ 1 \in DOMAIN sent[1]
            /\ DOMAIN sent[1] \subseteq Nat \ {0}
        BY <1>1, <1>2, <1>4, Ends, ReadQueue
      <4>2. peers[1][0].nb >= 1 \/ QueuedBefore(1, FdOf(0), 1)
        BY <1>1, <1>4, <2>8, <3>2, <4>1 DEF Handshake, AnnouncementHeard
      <4>3. ~QueuedBefore(1, FdOf(0), 1)
        BY <4>1 DEF QueuedBefore
      <4>4. p # 0 /\ peers[1][0].mem # "freed"
        BY <2>8, <3>2, FirstIds DEF Handshake
      <4>5. peers'[1][0].nb >= 1 /\ peers'[1][0].mem # "freed"
        BY <1>1, <1>4, <4>2, <4>3, <4>4, IdsAre
      <4>6. peers'[1][0].mem = "live" /\ 0 < nbPeers'[1] /\ 0 \in Ids /\ peers'[1][0].nb \in Nat
        BY <1>1, <1>4, <4>5, IdsAre, EntriesAre DEF TableOK
      <4>7. Signallable(peers'[1], nbPeers'[1], 0, VMID)
        BY <4>5, <4>6 DEF Signallable, None, VMID
      <4>. QED BY <1>1, <1>4, <2>0, <3>2, <4>7 DEF Announcer
    <3>. QED BY <2>5, <2>8, <3>1, <3>2
  <2>9. BothUp' =>
          /\ \A i \in DOMAIN sent'[1] :
               sent'[1][i] = FdOf(vmId'[1]) => peers'[1][0].nb >= 1 \/ QueuedBefore(1, FdOf(0), i)'
          /\ Announced' => otherId'[0] = vmId'[1] \/ <<0, VMID>> \in pending'
    BY <1>2, <2>3, <2>7, <2>8
  <2>10. AnnouncementHeard'
    BY <2>4, <2>6, <2>9 DEF AnnouncementHeard
  <2>. QED BY <2>2, <2>10 DEF Handshake
<1>. QED BY <1>3, <1>4 DEF VM

\* A new VM 1 has announced nothing yet, and finds VM 0's eventfds before its
\* own.
LEMMA HeardStart ==
  ASSUME Base, Handshake, NEW v \in VM, Start(v)
  PROVE  Handshake'
<1>1. TypeOK /\ TableFits
  BY DEF Base
<1>0. PICK id \in Ids : id = nextId
  BY <1>1, StartIs
<1>2. /\ proc[v] = "off" /\ proc'[v] = "up"
      /\ id \in Nat /\ nextId' = id + 1
      /\ sent'[v] = FirstQ(members, id)
      /\ vmId'[v] = id /\ otherId'[v] = None
      /\ \A q \in Ids : peers'[v][q].nb = 0
      /\ \A w \in VM : w # v => proc'[w] = proc[w] /\ vmId'[w] = vmId[w] /\ otherId'[w] = otherId[w]
      /\ UNCHANGED <<sharedId, pending>>
  BY <1>0, <1>1, StartIs DEF FirstQ
<1>3. v = 1 => id > 0
  BY <1>0 DEF Start
<1>4. FirstIsZero'
  <2>1. CASE v = 0
    <3>1. id = 0
      BY <1>0, <1>2, <2>1 DEF Handshake, FirstIsZero
    <3>. QED BY <1>2, <2>1, <3>1 DEF Handshake, FirstIsZero
  <2>2. CASE v = 1
    <3>1. proc[0] # "off" /\ proc'[0] = proc[0] /\ vmId'[0] = vmId[0] /\ nextId' # 0
      BY <1>0, <1>2, <1>3, <2>2, Ends DEF Handshake, FirstIsZero
    <3>. QED BY <1>2, <3>1 DEF Handshake, FirstIsZero
  <2>. QED BY <2>1, <2>2 DEF VM
<1>5. CASE v = 0
  <2>1. proc'[1] = "off"
    BY <1>2, <1>5, Ends DEF Handshake, FirstIsZero
  <2>2. ~Running(1)' /\ ~BothUp'
    BY <2>1, Ends DEF Running, BothUp
  <2>3. otherId'[1] \in {None, 0}
    BY <1>2, <1>5, Ends DEF Handshake, AnnouncementHeard
  <2>. QED BY <1>4, <2>2, <2>3 DEF Handshake, AnnouncementHeard
<1>6. CASE v = 1
  <2>1. ~Announced'
    BY <1>2, <1>6 DEF Announced
  <2>2. ASSUME BothUp', NEW i \in DOMAIN sent'[1], sent'[1][i] = FdOf(vmId'[1])
        PROVE  QueuedBefore(1, FdOf(0), i)'
    <3>1. Running(0) /\ vmId[0] = 0
      BY <1>2, <1>6, <2>2, Ends DEF BothUp, Running, Handshake, FirstIsZero
    <3>2. PICK n \in DOMAIN members : members[n] = 0
      BY <3>1, Ends DEF Base, IdsGiven
    <3>3. members \in Seq(Ids)
      BY <1>1 DEF TypeOK
    <3>4. PICK q : q = FirstQ(members, id)
      OBVIOUS
    <3>5. sent'[1] = q /\ i \in DOMAIN q /\ q[i] = FdOf(id)
      BY <1>2, <1>6, <2>2, <3>4
    <3>6. \A k \in DOMAIN members : \A j \in DOMAIN q :
            \/ \E l \in DOMAIN members : q[j] = FdOf(members[l])
            \/ \E l \in DOMAIN q : l < j /\ q[l] = FdOf(members[k])
      <4>1. \A k \in DOMAIN members : \A j \in DOMAIN FirstQ(members, id) :
              \/ \E l \in DOMAIN members : FirstQ(members, id)[j] = FdOf(members[l])
              \/ \E l \in DOMAIN FirstQ(members, id) :
                   l < j /\ FirstQ(members, id)[l] = FdOf(members[k])
        BY <3>3, FirstQueue, Zenon
      <4>. QED BY <3>4, <4>1
    <3>7. ASSUME NEW k \in DOMAIN members, q[i] = FdOf(members[k]) PROVE FALSE
      <4>1. members[k] = id
        BY <3>5, <3>7, MessagesDiffer
      <4>2. members[k] < id
        BY <1>0 DEF Base, Spoken
      <4>. QED BY <1>2, <4>1, <4>2
    <3>. QED BY <3>2, <3>5, <3>6, <3>7 DEF QueuedBefore
  <2>3. AnnouncementHeard'
    BY <1>2, <1>6, <2>1, <2>2 DEF AnnouncementHeard
  <2>. QED BY <1>4, <2>3 DEF Handshake
<1>. QED BY <1>5, <1>6 DEF VM

LEMMA HandshakeInit == Init => Handshake
<1>. SUFFICES ASSUME Init PROVE Handshake
  OBVIOUS
<1>1. FirstIsZero
  BY Ends DEF Init, FirstIsZero
<1>2. ~Running(1) /\ ~BothUp /\ otherId[1] = None
  BY Ends DEF Init, Running, BothUp
<1>. QED BY <1>1, <1>2 DEF Handshake, AnnouncementHeard

LEMMA HandshakeStep ==
  ASSUME 0 \notin Restartable, Base, Handshake, [Next]_vars
  PROVE  Handshake'
<1>1. CASE UNCHANGED vars
  BY <1>1 DEF vars, server, device, Handshake, FirstIsZero, AnnouncementHeard, BothUp, Running,
     Announced, QueuedBefore
<1>2. ASSUME NEW v \in VM, Start(v) PROVE Handshake'
  BY <1>2, HeardStart
<1>3. ASSUME NEW v \in VM, Kill(v) PROVE Handshake'
  BY <1>3, HeardKill
<1>4. ASSUME NEW v \in VM, MainLoop(v) PROVE Handshake'
  BY <1>4, HeardConnect, HeardDisconnect, HeardHear DEF MainLoop
<1>5. ASSUME NEW v \in VM, Signal(v) \/ SwitchSignal(v) PROVE Handshake'
  BY <1>5, HeardNotify DEF Signal, SwitchSignal
<1>6. ASSUME NEW p \in Ids, ServerNotice(p) PROVE Handshake'
  BY <1>6, HeardNotice
<1>. QED BY <1>1, <1>2, <1>3, <1>4, <1>5, <1>6 DEF Next

-----------------------------------------------------------------------------
(* What it means for the system.                                           *)

LEMMA BaseAlways == Spec => []Base
BY BaseInit, BaseStep, PTL DEF Spec

\* A device that has read what it was told reaches every running process: the
\* entry is in range, live and holds the interrupt's eventfd.
LEMMA Reached ==
  ASSUME Base, NEW v \in VM, NEW w \in VM, Running(v), Running(w), sent[v] = <<>>
  PROVE  Signallable(peers[v], nbPeers[v], vmId[w], HOST)
<1>1. PICK q \in Ids : q = vmId[w]
  BY RunningIds DEF Base
<1>2. DOMAIN sent[v] = {}
  OBVIOUS
<1>3. Coming(v, q) /\ peers[v][q].mem # "freed"
  BY <1>1 DEF Base, EventfdsComing, RunningNotGone
<1>4. peers[v][q].nb >= 2
  BY <1>2, <1>3 DEF Coming, Queued, QueuedTwice
<1>5. peers[v][q] \in Entries /\ nbPeers[v] \in Nat /\ q \in Nat /\ q # None
  BY IdsAre DEF Base, TypeOK
<1>6. peers[v][q].mem # "none"
  BY <1>4, <1>5 DEF Base, TableFits
<1>7. q < nbPeers[v]
  BY <1>5, <1>6 DEF Base, TableFits
<1>8. peers[v][q].mem = "live" /\ HOST < peers[v][q].nb
  BY <1>3, <1>4, <1>5, <1>6, EntriesAre DEF HOST
<1>. QED BY <1>1, <1>5, <1>7, <1>8 DEF Signallable

\* Every variable of the interconnect keeps its type: ids stay below the bound
\* on starts, and tables hold only what their entries can hold.
THEOREM TypeCorrect == Spec => []TypeOK
BY BaseAlways, PTL DEF Base

\* An entry for a running process from which an eventfd has been read is not
\* used wildly.
LEMMA EntryUsed ==
  ASSUME Base, NEW v \in VM, NEW w \in VM, Running(v), Running(w), ~QueuedTwice(v, FdOf(vmId[w]))
  PROVE  /\ peers[v][vmId[w]].nb >= 1
         /\ peers[v][vmId[w]].mem = "live" /\ vmId[w] < nbPeers[v]
<1>1. PICK q \in Ids : q = vmId[w]
  BY RunningIds DEF Base
<1>2. peers[v][q] \in Entries /\ nbPeers[v] \in Nat /\ q \in Nat
  BY <1>1, IdsAre DEF Base, TypeOK
<1>3. peers[v][q].nb >= 1 /\ peers[v][q].mem # "freed"
  <2>1. Coming(v, q) /\ peers[v][q].mem # "freed"
    BY <1>1 DEF Base, EventfdsComing, RunningNotGone
  <2>2. ~QueuedTwice(v, FdOf(q))
    BY <1>1
  <2>. QED BY <1>2, <2>1, <2>2, EntriesAre DEF Coming
<1>4. peers[v][q].mem # "none" /\ q < nbPeers[v]
  BY <1>2, <1>3, EntriesAre DEF Base, TableFits
<1>. QED BY <1>1, <1>2, <1>3, <1>4, EntriesAre

LEMMA NotifyStale ==
  ASSUME Base, NEW v \in VM, Notify(v), proc'[v] = "dead",
         NEW w \in VM, Running(w), otherId'[v] = vmId[w]
  PROVE  QueuedTwice(v, FdOf(vmId[w]))
<1>. SUFFICES ASSUME ~QueuedTwice(v, FdOf(vmId[w])) PROVE FALSE
  OBVIOUS
<1>1. /\ Running(v) /\ otherId[v] = vmId[w]
      /\ Ring(v, peers[v], nbPeers[v], otherId[v], HOST)
  BY DEF Notify, device, Running
<1>2. peers[v][vmId[w]].mem = "live" /\ vmId[w] < nbPeers[v] /\ vmId[w] \in Nat
  BY <1>1, EntryUsed, RunningIds DEF Base
<1>. QED BY <1>1, <1>2 DEF Ring, Wild, None, Running

\* A VM 1 that announces itself has just taken an eventfd of its own.
LEMMA ConnectStale ==
  ASSUME Base, NEW v \in VM, Connect(v), proc'[v] = "dead",
         NEW w \in VM, Running(w), otherId'[v] = vmId[w]
  PROVE  QueuedTwice(v, FdOf(vmId[w]))
<1>. SUFFICES ASSUME ~QueuedTwice(v, FdOf(vmId[w])) PROVE FALSE
  OBVIOUS
<1>1. PICK p \in Ids :
        /\ Read(v, p) /\ TableFits'
        /\ peers' \in [VM -> [Ids -> Entries]] /\ nbPeers' \in [VM -> Nat]
        /\ \A q \in Ids : peers'[v][q].mem = "freed" <=> peers[v][q].mem = "freed"
        /\ \A q \in Ids : q # p => peers'[v][q].nb = peers[v][q].nb
        /\ peers'[v][p].nb = IF peers[v][p].nb < Vectors THEN peers[v][p].nb + 1 ELSE peers[v][p].nb
        /\ IF p = vmId[v] /\ peers[v][p].nb < Vectors
           THEN SetupInterrupt(v, peers[v][p].nb, peers'[v], nbPeers'[v])
           ELSE UNCHANGED <<watched, sharedId, otherId, pending, proc>>
  BY ConnectTable DEF Base
<1>2. PICK q \in Ids : q = vmId[w] /\ q = otherId'[v]
  BY RunningIds DEF Base
\* Before and after the step the entry of that process can be used.
<1>3. peers[v][q].nb >= 1 /\ peers[v][q].mem = "live"
  BY <1>1, <1>2, EntryUsed DEF Read
<1>4. /\ peers'[v][q] \in Entries /\ nbPeers'[v] \in Nat /\ q \in Nat /\ q # None
      /\ peers[v][q] \in Entries
  BY <1>1, IdsAre DEF Base, TypeOK
<1>5. peers'[v][q].nb >= 1 /\ peers'[v][q].mem # "freed"
  BY <1>1, <1>3, <1>4, EntriesAre
<1>6. peers'[v][q].mem = "live" /\ q < nbPeers'[v]
  BY <1>1, <1>4, <1>5, EntriesAre DEF TableFits
<1>7. proc' # proc
  BY <1>1 DEF Read, Running
<1>8. InitVmIds(v, peers'[v], nbPeers'[v]) /\ v = Announcer
  BY <1>1, <1>7 DEF SetupInterrupt, InitVmIds
<1>9. Ring(v, peers'[v], nbPeers'[v], otherId'[v], VMID)
  <2>1. otherId'[v] = WordOfPeer(v)
    BY <1>8 DEF InitVmIds, Base, TypeOK
  <2>. QED BY <1>8, <2>1 DEF InitVmIds
<1>. QED BY <1>2, <1>4, <1>6, <1>7, <1>9 DEF Ring, Wild

\* A process that dies of a notification, to whomever, has no id for it, one of
\* a process that has ended, or one none of whose eventfds it has read
\* (event_notifier_set on an entry of the peer table).
THEOREM DeathsAreStale == Spec => DiesOfStaleId
<1>1. Base /\ [Next]_vars =>
        [\A v, w \in VM :
           /\ Running(v) /\ proc'[v] = "dead"
           /\ Running(w) /\ otherId'[v] = vmId[w]
           => QueuedTwice(v, FdOf(vmId[w]))]_vars
  <2>. SUFFICES ASSUME Base, Next, NEW v \in VM, NEW w \in VM,
                       Running(v), proc'[v] = "dead", Running(w), otherId'[v] = vmId[w]
                PROVE  QueuedTwice(v, FdOf(vmId[w]))
    OBVIOUS
  <2>1. ASSUME NEW x \in VM, Start(x) \/ Kill(x) PROVE FALSE
    BY <2>1 DEF Start, Kill, Vanish, Base, TypeOK, Running
  <2>2. ASSUME NEW x \in VM, Disconnect(x) \/ HearId(x) \/ HearHost(x) PROVE FALSE
    BY <2>2 DEF Disconnect, HearId, HearHost, Running
  <2>3. ASSUME NEW p \in Ids, ServerNotice(p) PROVE FALSE
    BY <2>3 DEF ServerNotice, Running
  <2>4. ASSUME NEW x \in VM, Connect(x) \/ Notify(x) PROVE x = v
    BY <2>4 DEF Connect, SetupInterrupt, InitVmIds, Notify, Ring, Base, TypeOK, Running
  <2>5. Connect(v) \/ Notify(v)
    BY <2>1, <2>2, <2>3, <2>4 DEF Next, MainLoop, Signal, SwitchSignal
  <2>. QED BY <2>5, NotifyStale, ConnectStale
<1>. QED BY <1>1, BaseAlways, PTL DEF Spec, DiesOfStaleId

\* A device that has read its messages and knows its running peer holds the
\* eventfds to interrupt it with, whoever was restarted before.
THEOREM PeersReachable == Spec => []KnownPeerReachable
<1>1. Base => KnownPeerReachable
  <2>. SUFFICES ASSUME Base, NEW v \in VM, BothUp, sent[v] = <<>>, otherId[v] = vmId[Peer(v)]
                PROVE  Signallable(peers[v], nbPeers[v], otherId[v], HOST)
    BY DEF KnownPeerReachable
  <2>1. Peer(v) \in VM /\ Running(v) /\ Running(Peer(v))
    BY Ends DEF BothUp, Running
  <2>. QED BY <2>1, Reached
<1>. QED BY <1>1, BaseAlways, PTL

\* The invariant behind the handshake; what it says of the announcement is for
\* systems whose VM 0 is not restarted.
THEOREM HandshakeInvariant == Spec => []HandshakeInv
<1>. DEFINE Inv == Base /\ (0 \notin Restartable => Handshake)
<1>1. Init => Inv
  BY BaseInit, HandshakeInit
<1>2. Inv /\ [Next]_vars => Inv'
  BY BaseStep, HandshakeStep
<1>3. Inv => HandshakeInv
  BY DEF Base, Handshake, HandshakeInv
<1>. HIDE DEF Inv
<1>. QED BY <1>1, <1>2, <1>3, PTL DEF Spec

\* If VM 0 is not restarted, two running processes that have read what they
\* were told know each other, however often VM 1 was killed before.
THEOREM IdsAgree ==
  ASSUME 0 \notin Restartable
  PROVE  Spec => []IdsAgreeAtRest
<1>1. HandshakeInv => IdsAgreeAtRest
  <2>. SUFFICES ASSUME HandshakeInv, BothUp, \A v \in VM : Quiet(v)
                PROVE  Agreed
    BY DEF IdsAgreeAtRest
  <2>1. Base /\ FirstIsZero /\ AnnouncementHeard
    BY DEF HandshakeInv, Base
  <2>2. /\ Running(0) /\ Running(1) /\ vmId[0] = 0 /\ vmId[1] \in Ids
        /\ sent[1] = <<>> /\ <<0, VMID>> \notin pending
    BY <2>1, Ends, FirstIds DEF Quiet
  <2>3. Announced
    <3>1. Signallable(peers[1], nbPeers[1], vmId[1], HOST)
      BY <2>1, <2>2, Ends, Reached
    <3>2. peers[1][vmId[1]].nb \in Nat
      BY <2>1, <2>2, Ends, EntriesAre DEF Base, TypeOK
    <3>. QED BY <3>1, <3>2 DEF Signallable, Announced, HOST
  <2>4. otherId[1] = vmId[0] /\ otherId[0] = vmId[1]
    BY <2>1, <2>2, <2>3 DEF AnnouncementHeard
  <2>. QED BY <2>4 DEF Agreed, Peer, VM
<1>. QED BY <1>1, HandshakeInvariant, PTL

=============================================================================
