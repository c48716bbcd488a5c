----------------------- MODULE InterconnectLink_proofs -----------------------
(***************************************************************************)
(* The interconnect implements the link of module PeerLink, whatever is    *)
(* queued or signalled of instances of VM 1 that have ended, as long as    *)
(* VM 0 is not restarted.                                                  *)
(***************************************************************************)
EXTENDS Interconnect_proofs

-----------------------------------------------------------------------------
(* What the link rests on is an invariant: one lemma per action.           *)

\* VM 1 has an id given before, that of VM 0 excepted.
LEMMA SecondId ==
  ASSUME Base, FirstIsZero, Running(1)
  PROVE  vmId[1] \in Ids /\ vmId[1] \in Nat /\ 0 < vmId[1] /\ vmId[1] < nextId /\ 0 < nextId
<1>1. vmId[1] \in Ids /\ vmId[1] \in Nat /\ vmId[1] < nextId
  BY Ends, RunningIds DEF Base
<1>2. nextId \in Nat /\ nextId # 0
  BY <1>1 DEF Base, TypeOK, FirstIsZero, Running
<1>3. proc[0] # "off" /\ vmId[0] = 0
  BY <1>2 DEF FirstIsZero
<1>4. vmId[0] # vmId[1]
  BY <1>3 DEF Base, IdsGiven, Running
<1>. QED BY <1>1, <1>2, <1>3, <1>4

\* The queue of a new VM 1: nobody else's eventfd comes after one of its own.
LEMMA OwnComeLast ==
  ASSUME NEW ps \in Seq(Ids), NEW p \in Ids, NEW q \in Ids, q # p,
         \A n \in DOMAIN ps : ps[n] # p,
         NEW i \in DOMAIN FirstQ(ps, p), NEW j \in DOMAIN FirstQ(ps, p), j < i,
         FirstQ(ps, p)[i] = FdOf(q)
  PROVE  FirstQ(ps, p)[j] # FdOf(p)
<1>. DEFINE a == FdsOf(ps)
            b == Fds(p)
<1>1. /\ a \in Seq(Messages) /\ b \in Seq(Messages)
      /\ \A k \in DOMAIN b : b[k] = FdOf(p)
      /\ \A k \in DOMAIN a : \E n \in DOMAIN ps : a[k] = FdOf(ps[n])
  BY FdsAre, FdsOfAre
<1>2. FirstQ(ps, p) = a \o b
  BY DEF FirstQ
<1>. HIDE DEF a, b
<1>3. /\ DOMAIN a = 1 .. Len(a) /\ Len(a) \in Nat /\ Len(b) \in Nat
      /\ DOMAIN (a \o b) = 1 .. Len(a) + Len(b)
      /\ \A k \in DOMAIN a : (a \o b)[k] = a[k]
      /\ \A k \in DOMAIN (a \o b) :
           k \in DOMAIN a \/ (k > Len(a) /\ k - Len(a) \in DOMAIN b /\ (a \o b)[k] = b[k - Len(a)])
  BY <1>1, LongerIs
<1>4. i \in DOMAIN a
  <2>. SUFFICES ASSUME i \notin DOMAIN a PROVE FALSE
    OBVIOUS
  <2>1. i - Len(a) \in DOMAIN b /\ (a \o b)[i] = b[i - Len(a)]
    BY <1>2, <1>3
  <2>2. FdOf(q) = FdOf(p)
    BY <1>1, <1>2, <2>1
  <2>. QED BY <2>2, MessagesDiffer
<1>5. j \in DOMAIN a
  BY <1>2, <1>3, <1>4
<1>6. PICK n \in DOMAIN ps : (a \o b)[j] = FdOf(ps[n])
  BY <1>1, <1>3, <1>5
<1>. QED BY <1>2, <1>6, MessagesDiffer

\* Signals, ids and the queue of VM 1 are untouched.
LEMMA LinkCalm ==
  ASSUME LinkInv, Calm, UNCHANGED <<nextId, vmId, otherId, sharedId>>, pending' \subseteq pending,
         peers'[1] = peers[1], sent'[1] = sent[1]
  PROVE  LinkInv'
<1>1. (BothUp' => BothUp) /\ (Running(1)' => Running(1))
  BY BothCalm
<1>2. SignalsGiven' /\ SecondIdsGiven'
  BY DEF LinkInv, SignalsGiven, SecondIdsGiven
<1>3. KnownOnceAnnounced'
  BY <1>1 DEF LinkInv, KnownOnceAnnounced, Announced
<1>4. PeerBeforeOwn'
  BY <1>1 DEF LinkInv, PeerBeforeOwn, QueuedBefore
<1>. QED BY <1>2, <1>3, <1>4 DEF LinkInv

LEMMA LinkStart ==
  ASSUME Base, Handshake, LinkInv, NEW v \in VM, Start(v)
  PROVE  LinkInv'
<1>1. TypeOK /\ TableFits
  BY DEF Base
<1>0. PICK id \in Ids : id = nextId
  BY <1>1, StartIs
<1>2. /\ proc[v] = "off" /\ proc'[v] = "up"
      /\ id \in Nat /\ nextId' = id + 1
      /\ sent'[v] = FirstQ(members, id)
      /\ vmId'[v] = id /\ otherId'[v] = None
      /\ \A q \in Ids : peers'[v][q].nb = 0
      /\ \A w \in VM : w # v => proc'[w] = proc[w] /\ vmId'[w] = vmId[w] /\ otherId'[w] = otherId[w]
      /\ UNCHANGED <<sharedId, pending>>
  BY <1>0, <1>1, StartIs DEF FirstQ
<1>3. v = 1 => id > 0
  BY <1>0 DEF Start
<1>4. SignalsGiven'
  <2>. SUFFICES ASSUME NEW p \in Ids, NEW k \in {VMID, HOST}, <<p, k>> \in pending
                PROVE  p < id + 1 /\ (k = VMID => p = 0 /\ sharedId[1] # 0)
    BY <1>2 DEF SignalsGiven
  <2>1. p < id /\ (k = VMID => p = 0 /\ sharedId[1] # 0)
    BY <1>0 DEF LinkInv, SignalsGiven
  <2>. QED BY <1>2, <2>1, IdsAre
<1>5. SecondIdsGiven'
  <2>1. sharedId[1] \in Nat /\ (otherId[0] = None \/ otherId[0] \in Nat)
    BY <1>1, Ends, IdsAre DEF TypeOK
  <2>2. otherId'[0] \in {otherId[0], None}
    BY <1>2, Ends
  <2>. QED BY <1>0, <1>2, <2>1, <2>2 DEF LinkInv, SecondIdsGiven
<1>6. CASE v = 0
  <2>1. proc'[1] = "off"
    BY <1>2, <1>6, Ends DEF Handshake, FirstIsZero
  <2>2. ~Running(1)' /\ ~BothUp'
    BY <2>1, Ends DEF Running, BothUp
  <2>. QED BY <1>4, <1>5, <2>2 DEF LinkInv, KnownOnceAnnounced, PeerBeforeOwn
<1>7. CASE v = 1
  <2>1. sharedId[1] # id /\ otherId'[0] # id
    BY <1>0, <1>2, <1>3, <1>7, Ends, IdsAre DEF LinkInv, SecondIdsGiven, None
  <2>2. KnownOnceAnnounced'
    BY <1>2, <1>7, <2>1 DEF KnownOnceAnnounced
  <2>3. members \in Seq(Ids) /\ \A n \in DOMAIN members : members[n] # id
    BY <1>0, <1>2 DEF Base, TypeOK, Spoken
  <2>4. 0 \in Ids /\ 0 # id
    BY <1>3, <1>7, IdsAre
  <2>5. ASSUME NEW i \in DOMAIN sent'[1], sent'[1][i] = FdOf(0)
        PROVE  ~QueuedBefore(1, FdOf(id), i)'
    <3>. SUFFICES ASSUME NEW j \in DOMAIN sent'[1], j < i PROVE sent'[1][j] # FdOf(id)
      BY DEF QueuedBefore
    <3>. QED BY <1>2, <1>7, <2>3, <2>4, <2>5, OwnComeLast
  <2>6. PeerBeforeOwn'
    BY <1>2, <1>7, <2>5 DEF PeerBeforeOwn
  <2>. QED BY <1>4, <1>5, <2>2, <2>6 DEF LinkInv
<1>. QED BY <1>6, <1>7 DEF VM

LEMMA LinkKill ==
  ASSUME Base, LinkInv, 0 \notin Restartable, NEW v \in VM, Kill(v)
  PROVE  LinkInv'
<1>1. v = 1
  BY DEF Kill, VM
<1>2. /\ UNCHANGED <<nextId, sharedId, pending>>
      /\ proc'[1] = "off" /\ otherId'[0] = otherId[0]
  BY <1>1, Ends DEF Kill, Vanish, server, Base, TypeOK
<1>3. ~Running(1)' /\ ~BothUp'
  BY <1>2, Ends DEF Running, BothUp
<1>. QED BY <1>2, <1>3
     DEF LinkInv, SignalsGiven, SecondIdsGiven, KnownOnceAnnounced, PeerBeforeOwn

LEMMA LinkNotice ==
  ASSUME Base, LinkInv, NEW p \in Ids, ServerNotice(p)
  PROVE  LinkInv'
<1>1. Calm /\ TypeOK
  BY NoticeInv DEF Base
<1>2. UNCHANGED <<nextId, vmId, peers, sharedId, otherId, pending>>
  BY DEF ServerNotice, device
<1>. DEFINE ms == <<GoneOf(p)>>
<1>3. ms \in Seq(Messages) /\ \A i \in DOMAIN ms : ms[i] = GoneOf(p)
  BY MessagesAre
<1>4. sent'[1] = Tell(1, ms)
  BY Ends DEF ServerNotice
<1>. HIDE DEF ms
<1>5. \A i \in DOMAIN sent'[1] :
        \/ i \in DOMAIN sent[1] /\ sent'[1][i] = sent[1][i]
        \/ \E j \in DOMAIN ms : sent'[1][i] = ms[j]
  BY <1>1, <1>3, <1>4, Ends, ToldQueue
<1>6. \A i \in DOMAIN sent'[1] : \A q :
        sent'[1][i] = FdOf(q) => i \in DOMAIN sent[1] /\ sent[1][i] = FdOf(q)
  BY <1>3, <1>5, MessagesDiffer
<1>7. (BothUp' => BothUp) /\ (Running(1)' => Running(1))
  BY <1>1, BothCalm
<1>8. PeerBeforeOwn'
  BY <1>2, <1>6, <1>7 DEF LinkInv, PeerBeforeOwn, QueuedBefore
<1>. QED BY <1>2, <1>7, <1>8
     DEF LinkInv, SignalsGiven, SecondIdsGiven, KnownOnceAnnounced, Announced

\* A message that VM 1 reads moves the others up.
LEMMA ReadOrder ==
  ASSUME TypeOK, NEW p \in Ids, Read(1, p), BothUp, PeerBeforeOwn
  PROVE  \A i \in DOMAIN sent'[1] :
           sent'[1][i] = FdOf(0) =>
             peers[1][vmId[1]].nb = 0 /\ ~QueuedBefore(1, FdOf(vmId[1]), i)'
             /\ Head(sent[1]) # FdOf(vmId[1])
<1>. SUFFICES ASSUME NEW i \in DOMAIN sent'[1], sent'[1][i] = FdOf(0)
              PROVE  peers[1][vmId[1]].nb = 0 /\ ~QueuedBefore(1, FdOf(vmId[1]), i)'
                     /\ Head(sent[1]) # FdOf(vmId[1])
  OBVIOUS
<1>1. /\ Head(sent[1]) = sent[1][1] /\ 1 \in DOMAIN sent[1]
      /\ DOMAIN sent[1] \subseteq Nat \ {0}
      /\ \A j \in DOMAIN sent'[1] : sent'[1][j] = sent[1][j + 1] /\ j + 1 \in DOMAIN sent[1]
      /\ sent'[1] \in Seq(Messages)
  BY Ends, ReadQueue
<1>2. peers[1][vmId[1]].nb = 0 /\ ~QueuedBefore(1, FdOf(vmId[1]), i + 1)
  BY <1>1 DEF PeerBeforeOwn
<1>3. i \in Nat /\ i >= 1 /\ \A j \in DOMAIN sent'[1] : j \in Nat
  BY <1>1
<1>4. Head(sent[1]) # FdOf(vmId[1])
  BY <1>1, <1>2, <1>3 DEF QueuedBefore
<1>5. ASSUME NEW j \in DOMAIN sent'[1], j < i, sent'[1][j] = FdOf(vmId[1]) PROVE FALSE
  <2>1. j + 1 \in DOMAIN sent[1] /\ sent[1][j + 1] = FdOf(vmId[1]) /\ j + 1 < i + 1
    BY <1>1, <1>3, <1>5
  <2>. QED BY <1>2, <2>1 DEF QueuedBefore
<1>6. vmId' = vmId
  BY DEF Read
<1>. QED BY <1>2, <1>4, <1>5, <1>6 DEF QueuedBefore

LEMMA LinkDisconnect ==
  ASSUME Base, FirstIsZero, LinkInv, NEW v \in VM, Disconnect(v)
  PROVE  LinkInv'
<1>1. PICK p \in Ids :
           /\ Head(sent[v]) = GoneOf(p) /\ Read(v, p) /\ p # vmId[v]
           /\ \A w \in VM : w # v => peers'[w] = peers[w]
           /\ \A q \in Ids : q # p => peers'[v][q].nb = peers[v][q].nb
           /\ UNCHANGED <<proc, watched, otherId, sharedId, pending>>
  BY DisconnectTable DEF Base
<1>2. Calm /\ TypeOK /\ UNCHANGED <<nextId, vmId, sharedId, otherId, pending>>
  BY <1>1, DisconnectInv DEF Base, Read
<1>3. CASE v # 1
  <2>1. peers'[1] = peers[1] /\ sent'[1] = sent[1]
    BY <1>1, <1>2, <1>3, Ends, ReadQueue
  <2>. QED BY <1>2, <2>1, LinkCalm
<1>4. CASE v = 1
  <2>1. Running(1) /\ vmId[1] \in Ids
    BY <1>1, <1>4, SecondId DEF Read
  <2>2. peers'[1][vmId[1]].nb = peers[1][vmId[1]].nb
    BY <1>1, <1>4, <2>1
  <2>3. (BothUp' => BothUp) /\ (Running(1)' => Running(1))
    BY <1>2, BothCalm
  <2>4. PeerBeforeOwn'
    BY <1>1, <1>2, <1>4, <2>2, <2>3, ReadOrder DEF LinkInv, PeerBeforeOwn
  <2>. QED BY <1>2, <2>2, <2>3, <2>4
       DEF LinkInv, SignalsGiven, SecondIdsGiven, KnownOnceAnnounced, Announced
<1>. QED BY <1>3, <1>4

\* What a message with an eventfd of p does: the announcement is the only one
\* that tells, signals or ends anything.
Announces(p) == p = vmId[1] /\ peers[1][p].nb = HOST

LEMMA ConnectSays ==
  ASSUME Base, FirstIsZero, NEW v \in VM, Connect(v)
  PROVE  \E p \in Ids :
           /\ Head(sent[v]) = FdOf(p) /\ Read(v, p) /\ TableOK(peers'[v], nbPeers'[v])
           /\ \A w \in VM : w # v =>
                peers'[w] = peers[w] /\ sharedId'[w] = sharedId[w] /\ otherId'[w] = otherId[w]
           /\ \A q \in Ids : peers'[v][q].mem = "freed" <=> peers[v][q].mem = "freed"
           /\ \A q \in Ids : q # p => peers'[v][q].nb = peers[v][q].nb
           /\ peers'[v][p].nb = IF peers[v][p].nb < Vectors THEN peers[v][p].nb + 1 ELSE peers[v][p].nb
           /\ \/ /\ v = 1 /\ Announces(p)
                 /\ sharedId'[1] = vmId[1] /\ otherId'[1] = 0
                 /\ Ring(1, peers'[1], nbPeers'[1], 0, VMID)
              \/ /\ ~(v = 1 /\ Announces(p))
                 /\ UNCHANGED <<pending, proc, otherId>>
                 /\ v = 1 => UNCHANGED sharedId
<1>1. PICK p \in Ids :
           /\ Head(sent[v]) = FdOf(p) /\ Read(v, p)
           /\ TableFits' /\ peers' \in [VM -> [Ids -> Entries]] /\ nbPeers' \in [VM -> Nat]
           /\ \A w \in VM : w # v => peers'[w] = peers[w] /\ nbPeers'[w] = nbPeers[w]
           /\ \A q \in Ids : peers'[v][q].mem = "freed" <=> peers[v][q].mem = "freed"
           /\ \A q \in Ids : q # p => peers'[v][q].nb = peers[v][q].nb
           /\ peers'[v][p].nb = IF peers[v][p].nb < Vectors THEN peers[v][p].nb + 1 ELSE peers[v][p].nb
           /\ IF p = vmId[v] /\ peers[v][p].nb < Vectors
              THEN SetupInterrupt(v, peers[v][p].nb, peers'[v], nbPeers'[v])
              ELSE UNCHANGED <<watched, sharedId, otherId, pending, proc>>
  BY ConnectTable DEF Base
<1>2. TableOK(peers'[v], nbPeers'[v])
  BY <1>1 DEF TableFits, TableOK
<1>3. /\ sharedId \in [VM -> Ids] /\ otherId \in [VM -> Ids \cup {None}]
      /\ sharedId[0] = 0 /\ HOST < Vectors
  BY Sizes DEF Base, TypeOK, FirstIsZero, HOST
<1>4. \A w \in VM : w # v => sharedId'[w] = sharedId[w] /\ otherId'[w] = otherId[w]
  BY <1>1, <1>3 DEF SetupInterrupt, InitVmIds
<1>5. CASE v = 1 /\ Announces(p)
  <2>1. SetupInterrupt(1, HOST, peers'[1], nbPeers'[1])
    BY <1>1, <1>3, <1>5 DEF Announces
  <2>2. /\ sharedId' = [sharedId EXCEPT ![1] = vmId[1]]
        /\ otherId' = [otherId EXCEPT ![1] = 0]
        /\ Ring(1, peers'[1], nbPeers'[1], 0, VMID)
    BY <1>3, <2>1 DEF SetupInterrupt, InitVmIds, Announcer, WordOfPeer, Peer
  <2>3. sharedId'[1] = vmId[1] /\ otherId'[1] = 0
    BY <1>3, <2>2, Ends
  <2>. QED BY <1>1, <1>2, <1>4, <1>5, <2>2, <2>3
<1>6. CASE ~(v = 1 /\ Announces(p))
  <2>1. UNCHANGED <<pending, proc, otherId>> /\ (v = 1 => UNCHANGED sharedId)
    BY <1>1, <1>6 DEF SetupInterrupt, InitVmIds, Announces, Announcer
  <2>. QED BY <1>1, <1>2, <1>4, <1>6, <2>1
<1>. QED BY <1>5, <1>6

\* Who has a signal pending after it has rung p at k.
LEMMA RingAdds ==
  ASSUME NEW v, NEW tab, NEW n, NEW p, NEW k, Ring(v, tab, n, p, k)
  PROVE  /\ \A q, l : <<q, l>> \in pending' => <<q, l>> \in pending \/ (q = p /\ l = k)
         /\ pending \subseteq pending'
BY DEF Ring

LEMMA LinkConnect ==
  ASSUME Base, FirstIsZero, LinkInv, NEW v \in VM, Connect(v)
  PROVE  LinkInv'
<1>1. PICK p \in Ids :
           /\ Head(sent[v]) = FdOf(p) /\ Read(v, p)
           /\ \A w \in VM : w # v =>
                peers'[w] = peers[w] /\ sharedId'[w] = sharedId[w] /\ otherId'[w] = otherId[w]
           /\ \A q \in Ids : q # p => peers'[v][q].nb = peers[v][q].nb
           /\ peers'[v][p].nb = IF peers[v][p].nb < Vectors THEN peers[v][p].nb + 1 ELSE peers[v][p].nb
           /\ \/ /\ v = 1 /\ Announces(p)
                 /\ sharedId'[1] = vmId[1] /\ otherId'[1] = 0
                 /\ Ring(1, peers'[1], nbPeers'[1], 0, VMID)
              \/ /\ ~(v = 1 /\ Announces(p))
                 /\ UNCHANGED <<pending, proc, otherId>>
                 /\ v = 1 => UNCHANGED sharedId
  BY ConnectSays
<1>2. Calm /\ TypeOK /\ UNCHANGED <<nextId, vmId>> /\ Running(v)
  BY <1>1, ConnectInv DEF Base, Read
<1>3. (BothUp' => BothUp) /\ (Running(1)' => Running(1))
  BY <1>2, BothCalm
<1>4. CASE v # 1
  <2>1. peers'[1] = peers[1] /\ sharedId'[1] = sharedId[1] /\ sent'[1] = sent[1]
        /\ UNCHANGED <<pending, otherId>>
    BY <1>1, <1>2, <1>4, Ends, ReadQueue
  <2>2. SignalsGiven' /\ SecondIdsGiven'
    BY <1>2, <2>1 DEF LinkInv, SignalsGiven, SecondIdsGiven
  <2>3. KnownOnceAnnounced' /\ PeerBeforeOwn'
    BY <1>2, <1>3, <2>1
       DEF LinkInv, KnownOnceAnnounced, PeerBeforeOwn, Announced, QueuedBefore
  <2>. QED BY <2>2, <2>3 DEF LinkInv
<1>5. CASE v = 1
  <2>1. /\ vmId[1] \in Ids /\ vmId[1] \in Nat /\ 0 < vmId[1] /\ vmId[1] < nextId /\ 0 < nextId
        /\ otherId'[0] = otherId[0] /\ \A q \in Ids : peers[1][q].nb \in Nat
    BY <1>1, <1>2, <1>5, Ends, SecondId, EntriesAre DEF TypeOK
  <2>2. PeerBeforeOwn'
    <3>. SUFFICES ASSUME BothUp, NEW i \in DOMAIN sent'[1], sent'[1][i] = FdOf(0)
                  PROVE  peers'[1][vmId[1]].nb = 0 /\ ~QueuedBefore(1, FdOf(vmId[1]), i)'
      BY <1>2, <1>3 DEF PeerBeforeOwn, QueuedBefore
    <3>1. /\ peers[1][vmId[1]].nb = 0 /\ ~QueuedBefore(1, FdOf(vmId[1]), i)'
          /\ Head(sent[1]) # FdOf(vmId[1])
      BY <1>1, <1>2, <1>5, ReadOrder DEF LinkInv
    <3>2. p # vmId[1]
      BY <1>1, <1>5, <3>1
    <3>. QED BY <1>1, <1>5, <2>1, <3>1, <3>2
  <2>3. CASE Announces(p)
    <3>1. Announced'
      BY <1>1, <1>2, <1>5, <2>1, <2>3, Sizes DEF Announces, Announced, HOST
    <3>2. sharedId'[1] = vmId[1] /\ Ring(1, peers'[1], nbPeers'[1], 0, VMID)
      BY <1>1, <1>5, <2>3
    <3>3. \A q, k : <<q, k>> \in pending' => <<q, k>> \in pending \/ (q = 0 /\ k = VMID)
      BY <3>2, RingAdds
    <3>4. SignalsGiven'
      <4>. SUFFICES ASSUME NEW q \in Ids, NEW k \in {VMID, HOST}, <<q, k>> \in pending'
                    PROVE  q < nextId /\ (k = VMID => q = 0 /\ vmId[1] # 0)
        BY <1>2, <3>2 DEF SignalsGiven
      <4>1. <<q, k>> \in pending => q < nextId /\ (k = VMID => q = 0)
        BY DEF LinkInv, SignalsGiven
      <4>2. <<q, k>> \in pending \/ (q = 0 /\ k = VMID)
        BY <3>3
      <4>3. vmId[1] # 0
        BY <2>1
      <4>. QED BY <2>1, <4>1, <4>2, <4>3
    <3>5. SecondIdsGiven'
      BY <1>2, <2>1, <3>2 DEF LinkInv, SecondIdsGiven
    <3>. QED BY <2>2, <3>1, <3>4, <3>5 DEF LinkInv, KnownOnceAnnounced
  <2>4. CASE ~Announces(p)
    <3>1. UNCHANGED <<pending, otherId, sharedId>>
      BY <1>1, <1>5, <2>4
    <3>2. Announced => Announced'
      BY <1>1, <1>2, <1>5, <2>1 DEF Announced
    <3>. QED BY <1>2, <1>3, <2>2, <3>1, <3>2
         DEF LinkInv, SignalsGiven, SecondIdsGiven, KnownOnceAnnounced
  <2>. QED BY <2>3, <2>4
<1>. QED BY <1>4, <1>5

\* An announcement is heard by VM 0.
LEMMA HearIs ==
  ASSUME Base, FirstIsZero, LinkInv, NEW v \in VM, HearId(v)
  PROVE  /\ v = 0 /\ Running(0) /\ vmId[0] = 0 /\ <<0, VMID>> \in pending
         /\ pending' = pending \ {<<0, VMID>>}
         /\ otherId'[0] = sharedId[1] /\ otherId'[1] = otherId[1]
         /\ UNCHANGED <<nextId, sent, proc, vmId, peers, nbPeers, sharedId>>
<1>1. /\ Running(v) /\ <<vmId[v], VMID>> \in pending
      /\ pending' = pending \ {<<vmId[v], VMID>>}
      /\ otherId' = [otherId EXCEPT ![v] = sharedId[Peer(v)]]
      /\ UNCHANGED <<nextId, sent, proc, vmId, peers, nbPeers, sharedId>>
  BY DEF HearId, Hear, WordOfPeer, server, Running
<1>2. vmId[v] \in Ids
  BY <1>1, RunningIds DEF Base
<1>3. vmId[v] = 0
  BY <1>1, <1>2 DEF LinkInv, SignalsGiven
<1>4. v = 0
  BY <1>1, <1>3, SecondId DEF VM
<1>5. otherId \in [VM -> Ids \cup {None}]
  BY DEF Base, TypeOK
<1>6. otherId'[0] = sharedId[1] /\ otherId'[1] = otherId[1]
  BY <1>1, <1>4, <1>5, Ends DEF Peer
<1>. QED BY <1>1, <1>3, <1>4, <1>6

LEMMA LinkHear ==
  ASSUME Base, FirstIsZero, LinkInv, NEW v \in VM, HearId(v) \/ HearHost(v)
  PROVE  LinkInv'
<1>1. Calm
  BY HearInv
<1>2. CASE HearHost(v)
  <2>1. UNCHANGED <<nextId, sent, vmId, peers, sharedId, otherId>> /\ pending' \subseteq pending
    BY <1>2 DEF HearHost, Hear, server, device
  <2>. QED BY <1>1, <2>1, LinkCalm
<1>3. CASE HearId(v)
  <2>1. /\ <<0, VMID>> \in pending /\ pending' \subseteq pending
        /\ otherId'[0] = sharedId[1] /\ otherId'[1] = otherId[1]
        /\ UNCHANGED <<nextId, sent, vmId, peers, sharedId, proc>>
    BY <1>3, HearIs
  <2>2. sharedId[1] # 0 /\ sharedId[1] \in Nat
    BY <2>1, Ends, IdsAre DEF Base, TypeOK, LinkInv, SignalsGiven
  <2>3. nextId \in Nat
    BY DEF Base, TypeOK
  <2>4. SignalsGiven' /\ SecondIdsGiven'
    BY <2>1, <2>2, <2>3 DEF LinkInv, SignalsGiven, SecondIdsGiven
  <2>5. KnownOnceAnnounced'
    BY <2>1 DEF LinkInv, KnownOnceAnnounced, Running, Announced
  <2>6. PeerBeforeOwn'
    BY <2>1 DEF LinkInv, PeerBeforeOwn, BothUp, QueuedBefore
  <2>. QED BY <2>4, <2>5, <2>6 DEF LinkInv
<1>. QED BY <1>2, <1>3

\* A device that notifies does so on an id of its peer's, never its own, if on
\* any.
LEMMA NotifyIs ==
  ASSUME Base, Handshake, LinkInv, NEW v \in VM, Notify(v)
  PROVE  /\ Running(v)
         /\ otherId[v] # None =>
              otherId[v] \in Ids /\ otherId[v] < nextId /\ otherId[v] # vmId[v]
         /\ Ring(v, peers[v], nbPeers[v], otherId[v], HOST)
         /\ UNCHANGED <<nextId, sent, vmId, peers, nbPeers, otherId, sharedId>>
<1>1. /\ Running(v)
      /\ Ring(v, peers[v], nbPeers[v], otherId[v], HOST)
      /\ UNCHANGED <<nextId, sent, vmId, peers, nbPeers, otherId, sharedId>>
  BY DEF Notify, server, device, Running
<1>. SUFFICES ASSUME otherId[v] # None
              PROVE  otherId[v] \in Ids /\ otherId[v] < nextId /\ otherId[v] # vmId[v]
  BY <1>1
<1>2. otherId[v] \in Ids
  BY DEF Base, TypeOK
<1>3. CASE v = 0
  <2>1. otherId[0] \in 1 .. nextId - 1 /\ nextId \in Nat
    BY <1>3 DEF LinkInv, SecondIdsGiven, Base, TypeOK
  <2>2. vmId[0] = 0
    BY <1>1, <1>3 DEF Handshake, FirstIsZero, Running
  <2>. QED BY <1>2, <1>3, <2>1, <2>2
<1>4. CASE v = 1
  <2>1. otherId[1] = 0
    BY <1>4 DEF Handshake, AnnouncementHeard
  <2>. QED BY <1>1, <1>2, <1>4, <2>1, SecondId DEF Handshake
<1>. QED BY <1>3, <1>4 DEF VM

\* Notifying nobody: nothing is signalled, the process goes on or ends.
LEMMA NotifyNobody ==
  ASSUME NEW v \in VM, Notify(v), otherId[v] = None
  PROVE  pending' = pending
BY DEF Notify, Ring, Signallable

LEMMA LinkNotify ==
  ASSUME Base, Handshake, LinkInv, NEW v \in VM, Notify(v)
  PROVE  LinkInv'
<1>1. /\ Ring(v, peers[v], nbPeers[v], otherId[v], HOST)
      /\ UNCHANGED <<nextId, sent, vmId, peers, nbPeers, otherId, sharedId>>
  BY NotifyIs
<1>2. Calm
  BY NotifyInv
<1>3. (BothUp' => BothUp) /\ (Running(1)' => Running(1))
  BY <1>2, BothCalm
<1>4. \A q, k : <<q, k>> \in pending' =>
        <<q, k>> \in pending \/ (q < nextId /\ k = HOST)
  <2>1. CASE otherId[v] = None
    BY <2>1, NotifyNobody
  <2>2. CASE otherId[v] # None
    <3>1. otherId[v] < nextId
      BY <2>2, NotifyIs
    <3>. QED BY <1>1, <3>1, RingAdds
  <2>. QED BY <2>1, <2>2
<1>5. SignalsGiven'
  <2>. SUFFICES ASSUME NEW q \in Ids, NEW k \in {VMID, HOST}, <<q, k>> \in pending'
                PROVE  q < nextId /\ (k = VMID => q = 0 /\ sharedId[1] # 0)
    BY <1>1 DEF SignalsGiven
  <2>1. <<q, k>> \in pending => q < nextId /\ (k = VMID => q = 0 /\ sharedId[1] # 0)
    BY DEF LinkInv, SignalsGiven
  <2>2. <<q, k>> \in pending \/ (q < nextId /\ k = HOST)
    BY <1>4
  <2>. QED BY <2>1, <2>2 DEF VMID, HOST
<1>6. SecondIdsGiven' /\ KnownOnceAnnounced' /\ PeerBeforeOwn'
  BY <1>1, <1>3 DEF LinkInv, SecondIdsGiven, KnownOnceAnnounced, Announced, PeerBeforeOwn,
                    QueuedBefore
<1>. QED BY <1>5, <1>6 DEF LinkInv

LEMMA LinkInit == Init => LinkInv
<1>. SUFFICES ASSUME Init PROVE LinkInv
  OBVIOUS
<1>1. ~Running(1) /\ ~BothUp /\ otherId[0] = None /\ sharedId[1] = 0 /\ pending = {}
  BY Ends DEF Init, Running, BothUp
<1>. QED BY <1>1
     DEF LinkInv, SignalsGiven, SecondIdsGiven, KnownOnceAnnounced, PeerBeforeOwn

LEMMA LinkStep ==
  ASSUME 0 \notin Restartable, Base, Handshake, LinkInv, [Next]_vars
  PROVE  LinkInv'
<1>0. FirstIsZero
  BY DEF Handshake
<1>1. CASE UNCHANGED vars
  BY <1>1 DEF vars, server, device, LinkInv, SignalsGiven, SecondIdsGiven, KnownOnceAnnounced,
     PeerBeforeOwn, BothUp, Running, Announced, QueuedBefore
<1>2. ASSUME NEW v \in VM, Start(v) PROVE LinkInv'
  BY <1>2, LinkStart
<1>3. ASSUME NEW v \in VM, Kill(v) PROVE LinkInv'
  BY <1>3, LinkKill
<1>4. ASSUME NEW v \in VM, MainLoop(v) PROVE LinkInv'
  BY <1>0, <1>4, LinkConnect, LinkDisconnect, LinkHear DEF MainLoop
<1>5. ASSUME NEW v \in VM, Signal(v) \/ SwitchSignal(v) PROVE LinkInv'
  BY <1>5, LinkNotify DEF Signal, SwitchSignal
<1>6. ASSUME NEW p \in Ids, ServerNotice(p) PROVE LinkInv'
  BY <1>6, LinkNotice
<1>. QED BY <1>1, <1>2, <1>3, <1>4, <1>5, <1>6 DEF Next

-----------------------------------------------------------------------------
(* The link as the tables, ids and messages make it.                       *)

Ups    == {v \in VM : Running(v)}
Knows  == {v \in VM : BothUp /\ otherId[v] = vmId[Peer(v)]}
Wires  == {v \in VM : BothUp /\ Signallable(peers[v], nbPeers[v], vmId[Peer(v)], HOST)}

\* v has received two eventfds of its peer.
Holds(v) == peers[v][vmId[Peer(v)]].nb >= 2
Holders  == {v \in VM : BothUp /\ Holds(v)}

LEMMA Both == BothUp <=> Running(0) /\ Running(1)
BY Ends DEF BothUp, Running, VM

\* An entry with two eventfds can be signalled: it is in range and not freed.
LEMMA WiresAre == Base => Wires = Holders
<1>. SUFFICES ASSUME Base, BothUp, NEW v \in VM
              PROVE  Signallable(peers[v], nbPeers[v], vmId[Peer(v)], HOST) <=> Holds(v)
  BY DEF Wires, Holders
<1>1. Peer(v) \in VM /\ Running(v) /\ Running(Peer(v))
  BY Ends DEF BothUp, Running
<1>2. PICK q \in Ids : q = vmId[Peer(v)]
  BY <1>1, RunningIds DEF Base
<1>3. peers[v][q] \in Entries /\ nbPeers[v] \in Nat /\ q \in Nat /\ q # None
  BY <1>2, IdsAre DEF Base, TypeOK
<1>4. peers[v][q].mem # "freed"
  BY <1>1, <1>2 DEF Base, RunningNotGone
<1>5. /\ peers[v][q].mem = "none" <=> q >= nbPeers[v]
      /\ peers[v][q].mem = "none" => peers[v][q].nb = 0
  BY <1>2 DEF Base, TableFits
<1>6. Signallable(peers[v], nbPeers[v], q, HOST) <=> peers[v][q].nb >= 2
  BY <1>3, <1>4, <1>5, EntriesAre DEF Signallable, HOST
<1>. QED BY <1>2, <1>6 DEF Holds

LEMMA WiresAreThen == Base' => (Wires = Holders)'
BY WiresAre, PTL

\* A step after which as many run, know, hold and are signalled.
LEMMA LinkStutters ==
  ASSUME Base, Base', UNCHANGED <<proc, vmId, otherId, pending>>,
         \A v \in VM : BothUp => (Holds(v)' <=> Holds(v))
  PROVE  UNCHANGED Link!vars
<1>1. BothUp' = BothUp /\ \A v \in VM : Running(v)' = Running(v)
  BY DEF BothUp, Running
<1>2. Ups' = Ups /\ Knows' = Knows /\ \A k : Notified(k)' = Notified(k)
  BY <1>1 DEF Ups, Knows, Notified
<1>3. Wires' = Wires
  BY <1>1, WiresAre, WiresAreThen DEF Holders
<1>. QED BY <1>2, <1>3 DEF Link!vars, Ups, Knows, Wires

\* What a step that changes no table, id or word leaves of the link.
LEMMA SameTables ==
  ASSUME UNCHANGED <<proc, vmId, peers, nbPeers>>
  PROVE  /\ Ups' = Ups /\ Wires' = Wires /\ BothUp' = BothUp
         /\ \A v \in VM : Running(v)' = Running(v)
         /\ otherId' = otherId => Knows' = Knows
BY DEF Ups, Wires, Knows, BothUp, Running

LEMMA StartLinks ==
  ASSUME Base, Base', Handshake, LinkInv, NEW v \in VM, Start(v)
  PROVE  Link!Start(v)
<1>1. TypeOK /\ TableFits
  BY DEF Base
<1>2. PICK id \in Ids : id = nextId
  BY <1>1, StartIs
<1>3. /\ proc[v] = "off" /\ proc'[v] = "up" /\ id \in Nat
      /\ vmId'[v] = id /\ otherId'[v] = None
      /\ \A q \in Ids : peers'[v][q].nb = 0
      /\ \A w \in VM : w # v => /\ proc'[w] = proc[w] /\ vmId'[w] = vmId[w]
                               /\ otherId'[w] = otherId[w] /\ peers'[w] = peers[w]
      /\ pending' = pending
  BY <1>1, <1>2, StartIs
<1>4. /\ ~Running(v) /\ Running(v)' /\ ~BothUp
      /\ \A w \in VM : w # v => Running(w)' = Running(w)
  BY <1>3, Ends DEF Running, BothUp
<1>5. v \notin Ups /\ Ups' = Ups \cup {v}
  BY <1>4 DEF Ups
<1>6. Knows = {} /\ Wires = {}
  BY <1>4 DEF Knows, Wires
<1>. DEFINE u == Peer(v)
<1>7. u \in VM /\ u # v /\ Peer(u) = v /\ \A w \in VM : w = v \/ w = u
  BY Ends
<1>. HIDE DEF u
<1>8. ASSUME BothUp' PROVE vmId'[u] \in Ids /\ otherId'[u] # id /\ peers'[u][id].nb = 0
  <2>1. Running(u) /\ vmId[u] \in Ids
    BY <1>4, <1>7, <1>8, RunningIds DEF BothUp, Running, Base
  <2>2. peers[u][id].nb = 0
    BY <1>2, <1>3, <1>7 DEF Base, Spoken
  <2>3. v = 1
    BY <1>3, <1>7, <2>1 DEF Handshake, FirstIsZero, Running, VM
  <2>4. u = 0
    BY <1>7, <2>3 DEF VM
  <2>5. otherId[0] # id
    BY <1>2, <1>3 DEF LinkInv, SecondIdsGiven, None
  <2>. QED BY <1>3, <1>7, <2>1, <2>2, <2>4, <2>5
<1>9. Knows' = {}
  <2>1. ASSUME BothUp' PROVE otherId'[v] # vmId'[u] /\ otherId'[u] # vmId'[v]
    BY <1>3, <1>8, <2>1, IdsAre
  <2>2. \A w \in VM : BothUp' => otherId'[w] # vmId'[Peer(w)]
    BY <1>7, <2>1 DEF u
  <2>. QED BY <2>2 DEF Knows
<1>10. Wires' = {}
  <2>1. ASSUME BothUp' PROVE ~(peers'[v][vmId'[u]].nb >= 2) /\ ~(peers'[u][vmId'[v]].nb >= 2)
    <3>1. vmId'[u] \in Ids /\ peers'[u][id].nb = 0
      BY <1>8, <2>1
    <3>2. peers'[v][vmId'[u]].nb = 0 /\ peers'[u][vmId'[v]].nb = 0
      BY <1>3, <3>1
    <3>. QED BY <3>2
  <2>2. \A w \in VM : BothUp' => ~Holds(w)'
    BY <1>7, <2>1 DEF Holds, u
  <2>. QED BY <2>2, WiresAreThen DEF Holders
<1>11. ASSUME NEW k \in {VMID, HOST} PROVE Notified(k)' = Notified(k)
  <2>1. <<id, k>> \notin pending
    <3>1. <<id, k>> \in pending => id < nextId
      BY DEF LinkInv, SignalsGiven
    <3>. QED BY <1>2, <1>3, <3>1
  <2>2. v \notin Notified(k) /\ v \notin Notified(k)'
    BY <1>3, <1>4, <2>1 DEF Notified
  <2>3. u \in Notified(k)' <=> u \in Notified(k)
    BY <1>3, <1>4, <1>7 DEF Notified
  <2>. QED BY <1>7, <2>2, <2>3 DEF Notified
<1>12. Notified(VMID)' = Notified(VMID) /\ Notified(HOST)' = Notified(HOST)
  BY <1>11
<1>. QED BY <1>5, <1>6, <1>9, <1>10, <1>12 DEF Link!Start, Ups, Knows, Wires

\* A process that ends, having signalled nobody by it.
LEMMA Ended ==
  ASSUME NEW v \in VM, Running(v), ~Running(v)', pending' = pending,
         \A w \in VM : w # v => Running(w)' = Running(w) /\ vmId'[w] = vmId[w]
  PROVE  Link!End(v)
<1>1. ~BothUp'
  BY DEF BothUp, Running
<1>2. v \in Ups /\ Ups' = Ups \ {v}
  BY DEF Ups
<1>3. Knows' = {} /\ Wires' = {}
  BY <1>1 DEF Knows, Wires
<1>4. \A k : Notified(k)' = Notified(k) \ {v}
  BY DEF Notified
<1>. QED BY <1>2, <1>3, <1>4 DEF Link!End, Ups, Knows, Wires

LEMMA KillLinks ==
  ASSUME Base, NEW v \in VM, Kill(v)
  PROVE  Link!End(v) \/ UNCHANGED Link!vars
<1>1. /\ proc'[v] = "off" /\ pending' = pending
      /\ \A w \in VM : w # v => /\ proc'[w] = proc[w] /\ vmId'[w] = vmId[w]
  BY DEF Kill, Vanish, Base, TypeOK
<1>2. ~Running(v)' /\ \A w \in VM : w # v => Running(w)' = Running(w)
  BY <1>1 DEF Running
<1>3. CASE Running(v)
  BY <1>1, <1>2, <1>3, Ended
<1>4. CASE ~Running(v)
  <2>1. ~BothUp /\ ~BothUp' /\ \A w \in VM : Running(w)' = Running(w)
    BY <1>2, <1>4 DEF BothUp, Running
  <2>2. Ups' = Ups /\ Knows' = Knows /\ Wires' = Wires
    BY <2>1 DEF Ups, Knows, Wires
  <2>3. \A k : Notified(k)' = Notified(k)
    BY <1>1, <1>4, <2>1 DEF Notified
  <2>. QED BY <2>2, <2>3 DEF Link!vars, Ups, Knows, Wires
<1>. QED BY <1>3, <1>4

LEMMA NoticeLinks ==
  ASSUME NEW p \in Ids, ServerNotice(p)
  PROVE  UNCHANGED Link!vars
<1>1. UNCHANGED <<proc, vmId, peers, nbPeers, otherId, pending>>
  BY DEF ServerNotice, device
<1>2. Ups' = Ups /\ Wires' = Wires /\ Knows' = Knows
  BY <1>1, SameTables
<1>3. \A k : Notified(k)' = Notified(k)
  BY <1>1 DEF Notified, Running
<1>. QED BY <1>2, <1>3 DEF Link!vars, Ups, Knows, Wires

LEMMA DisconnectLinks ==
  ASSUME Base, Base', NEW v \in VM, Disconnect(v)
  PROVE  UNCHANGED Link!vars
<1>1. PICK p \in Ids :
           /\ Head(sent[v]) = GoneOf(p) /\ Read(v, p)
           /\ \A w \in VM : w # v => peers'[w] = peers[w]
           /\ \A q \in Ids : q # p => peers'[v][q].nb = peers[v][q].nb
           /\ UNCHANGED <<proc, watched, otherId, sharedId, pending>>
  BY DisconnectTable DEF Base
<1>2. UNCHANGED vmId
  BY <1>1 DEF Read
<1>3. ASSUME BothUp, NEW w \in VM PROVE Holds(w)' <=> Holds(w)
  <2>1. CASE w # v
    BY <1>1, <1>2, <2>1 DEF Holds
  <2>2. CASE w = v
    <3>1. Peer(v) \in VM /\ Running(v) /\ Running(Peer(v)) /\ vmId[Peer(v)] \in Ids
      BY <1>3, Ends, RunningIds DEF BothUp, Running, Base
    <3>2. ~Queued(v, GoneOf(vmId[Peer(v)]))
      BY <3>1 DEF Base, RunningNotGone
    <3>3. p # vmId[Peer(v)]
      BY <1>1, <3>2, ReadQueue DEF Queued, Base
    <3>. QED BY <1>1, <1>2, <2>2, <3>1, <3>3 DEF Holds
  <2>. QED BY <2>1, <2>2
<1>. QED BY <1>1, <1>2, <1>3, LinkStutters

\* An eventfd that is not VM 1's own second: the peer's second wires the link,
\* any other changes nothing in it.
LEMMA FdLinks ==
  ASSUME Base, Base', NEW v \in VM, NEW p \in Ids, Read(v, p),
         \A w \in VM : w # v => peers'[w] = peers[w],
         \A q \in Ids : q # p => peers'[v][q].nb = peers[v][q].nb,
         peers'[v][p].nb = IF peers[v][p].nb < Vectors THEN peers[v][p].nb + 1 ELSE peers[v][p].nb,
         UNCHANGED <<pending, proc, otherId>>
  PROVE  Link!Wire(v) \/ UNCHANGED Link!vars
<1>1. vmId' = vmId
  BY DEF Read
<1>2. ASSUME BothUp, NEW w \in VM, w # v PROVE Holds(w)' <=> Holds(w)
  BY <1>1, <1>2 DEF Holds
<1>3. ASSUME BothUp PROVE Holds(v) => Holds(v)'
  <2>1. vmId[Peer(v)] \in Ids
    BY <1>3, Ends, RunningIds DEF BothUp, Running, Base
  <2>2. peers[v][vmId[Peer(v)]].nb \in Nat
    BY <2>1, EntriesAre DEF Base, TypeOK
  <2>. QED BY <1>1, <2>1, <2>2 DEF Holds
<1>4. CASE BothUp => (Holds(v)' <=> Holds(v))
  BY <1>1, <1>2, <1>4, LinkStutters
<1>5. CASE BothUp /\ Holds(v)' /\ ~Holds(v)
  <2>1. BothUp' = BothUp /\ \A w \in VM : Running(w)' = Running(w)
    BY DEF BothUp, Running
  <2>2. Ups' = Ups /\ Knows' = Knows /\ \A k : Notified(k)' = Notified(k)
    BY <1>1, <2>1 DEF Ups, Knows, Notified
  <2>3. Wires' = Wires \cup {v}
    BY <1>2, <1>5, <2>1, WiresAre, WiresAreThen DEF Holders
  <2>4. Link!VM \subseteq Ups
    BY <1>5 DEF BothUp, Running, Ups, VM, Link!VM
  <2>. QED BY <2>2, <2>3, <2>4 DEF Link!Wire, Ups, Knows, Wires
<1>. QED BY <1>3, <1>4, <1>5

\* VM 1 announces itself: it holds VM 0's eventfds, as they came before its own.
LEMMA AnnouncesLinks ==
  ASSUME Base, Base', Handshake, LinkInv, NEW p \in Ids, Announces(p),
         Head(sent[1]) = FdOf(p), Read(1, p), TableOK(peers'[1], nbPeers'[1]),
         peers'[0] = peers[0],
         \A q \in Ids : peers'[1][q].mem = "freed" <=> peers[1][q].mem = "freed",
         \A q \in Ids : q # p => peers'[1][q].nb = peers[1][q].nb,
         otherId'[1] = 0, otherId'[0] = otherId[0],
         Ring(1, peers'[1], nbPeers'[1], 0, VMID)
  PROVE  Link!Announce \/ Link!End(1) \/ UNCHANGED Link!vars
<1>1. /\ p = vmId[1] /\ peers[1][p].nb = 1 /\ Running(1) /\ vmId' = vmId
      /\ p # 0 /\ p \in Nat
  BY SecondId DEF Announces, HOST, Read, Handshake
<1>2. /\ \A q, k : <<q, k>> \in pending' => <<q, k>> \in pending \/ (q = 0 /\ k = VMID)
      /\ pending \subseteq pending'
  BY RingAdds
<1>3. ~Signallable(peers'[1], nbPeers'[1], 0, VMID) => pending' = pending
  BY DEF Ring
<1>4. proc' = proc \/ (Wild(peers'[1], nbPeers'[1], 0) /\ proc' = [proc EXCEPT ![1] = "dead"])
  BY DEF Ring
<1>5. Wild(peers'[1], nbPeers'[1], 0) => ~Signallable(peers'[1], nbPeers'[1], 0, VMID)
  BY IdsAre DEF TableOK, Wild, Signallable
<1>6. proc \in [VM -> {"off", "up", "dead"}]
  BY DEF Base, TypeOK
<1>7. CASE proc' # proc
  <2>1. pending' = pending /\ proc' = [proc EXCEPT ![1] = "dead"]
    BY <1>3, <1>4, <1>5, <1>7
  <2>2. ~Running(1)' /\ \A w \in VM : w # 1 => Running(w)' = Running(w)
    BY <1>6, <2>1, Ends DEF Running
  <2>. QED BY <1>1, <2>1, <2>2, Ended, Ends
<1>8. CASE proc' = proc
  <2>1. BothUp' = BothUp /\ \A w \in VM : Running(w)' = Running(w)
    BY <1>8 DEF BothUp, Running
  <2>2. Ups' = Ups
    BY <2>1 DEF Ups
  <2>3. Notified(HOST)' = Notified(HOST)
    BY <1>1, <1>2, <2>1 DEF Notified, VMID, HOST
  <2>4. CASE ~BothUp
    <3>1. ~Running(0)
      BY <1>1, <2>4, Both
    <3>2. Notified(VMID)' = Notified(VMID)
      BY <1>1, <1>2, <2>1, <3>1 DEF Notified, VM
    <3>3. Knows' = Knows /\ Wires' = Wires
      BY <2>1, <2>4 DEF Knows, Wires
    <3>. QED BY <2>2, <2>3, <3>2, <3>3 DEF Link!vars, Ups, Knows, Wires
  <2>5. CASE BothUp
    <3>1. Running(0) /\ vmId[0] = 0 /\ 0 \in Ids /\ peers[1][0].mem # "freed"
      BY <2>5, FirstIds, IdsAre DEF Handshake
    <3>2. ~Queued(1, FdOf(0))
      BY <1>1, <2>5 DEF LinkInv, PeerBeforeOwn, Queued
    <3>3. Coming(1, 0)
      <4>1. Coming(1, vmId[0])
        BY <1>1, <3>1, Ends DEF Base, EventfdsComing
      <4>. QED BY <3>1, <4>1
    <3>4. peers[1][0].nb >= 2
      BY <3>2, <3>3 DEF Coming, Queued, QueuedTwice
    <3>5. peers'[1][0].nb = peers[1][0].nb
      BY <1>1, <3>1
    <3>6. Holds(1)
      BY <3>1, <3>4 DEF Holds, Peer
    <3>7. \A w \in VM : Holds(w)' <=> Holds(w)
      BY <1>1, <3>1, <3>5 DEF Holds, Peer, VM
    <3>8. Wires' = Wires /\ 1 \in Wires
      BY <2>1, <2>5, <3>6, <3>7, Ends, WiresAre, WiresAreThen DEF Holders
    <3>9. Knows' = Knows \cup {1}
      BY <1>1, <2>1, <2>5, <3>1 DEF Knows, Peer, VM
    <3>10. Signallable(peers'[1], nbPeers'[1], 0, VMID)
      <4>1. peers'[1][0].nb >= 2 /\ peers'[1][0].mem # "freed" /\ peers'[1][0].mem # "none"
            /\ 0 < nbPeers'[1] /\ peers'[1][0] \in Entries
        BY <3>1, <3>4, <3>5 DEF TableOK
      <4>. QED BY <4>1, EntriesAre DEF Signallable, None, VMID
    <3>11. <<0, VMID>> \in pending'
      BY <3>10 DEF Ring
    <3>12. Notified(VMID)' = Notified(VMID) \cup {0}
      BY <1>1, <1>2, <2>1, <3>1, <3>11 DEF Notified, VM
    <3>. QED BY <2>2, <2>3, <3>8, <3>9, <3>12
         DEF Link!Announce, Link!Announcer, Link!Peer, Ups, Knows, Wires
  <2>. QED BY <2>4, <2>5
<1>. QED BY <1>7, <1>8

LEMMA ConnectLinks ==
  ASSUME Base, Base', Handshake, LinkInv, NEW v \in VM, Connect(v)
  PROVE  Link!Wire(v) \/ Link!Announce \/ Link!End(v) \/ UNCHANGED Link!vars
<1>1. PICK p \in Ids :
           /\ Head(sent[v]) = FdOf(p) /\ Read(v, p) /\ TableOK(peers'[v], nbPeers'[v])
           /\ \A w \in VM : w # v =>
                peers'[w] = peers[w] /\ sharedId'[w] = sharedId[w] /\ otherId'[w] = otherId[w]
           /\ \A q \in Ids : peers'[v][q].mem = "freed" <=> peers[v][q].mem = "freed"
           /\ \A q \in Ids : q # p => peers'[v][q].nb = peers[v][q].nb
           /\ peers'[v][p].nb = IF peers[v][p].nb < Vectors THEN peers[v][p].nb + 1 ELSE peers[v][p].nb
           /\ \/ /\ v = 1 /\ Announces(p)
                 /\ sharedId'[1] = vmId[1] /\ otherId'[1] = 0
                 /\ Ring(1, peers'[1], nbPeers'[1], 0, VMID)
              \/ /\ ~(v = 1 /\ Announces(p))
                 /\ UNCHANGED <<pending, proc, otherId>>
                 /\ v = 1 => UNCHANGED sharedId
  BY ConnectSays DEF Handshake
<1>2. CASE v = 1 /\ Announces(p)
  <2>1. /\ Head(sent[1]) = FdOf(p) /\ Read(1, p) /\ TableOK(peers'[1], nbPeers'[1])
        /\ peers'[0] = peers[0] /\ otherId'[0] = otherId[0] /\ otherId'[1] = 0
        /\ \A q \in Ids : peers'[1][q].mem = "freed" <=> peers[1][q].mem = "freed"
        /\ \A q \in Ids : q # p => peers'[1][q].nb = peers[1][q].nb
        /\ Ring(1, peers'[1], nbPeers'[1], 0, VMID)
    BY <1>1, <1>2, Ends
  <2>. QED BY <1>2, <2>1, AnnouncesLinks
<1>3. CASE ~(v = 1 /\ Announces(p))
  BY <1>1, <1>3, FdLinks
<1>. QED BY <1>2, <1>3

LEMMA HearIdLinks ==
  ASSUME Base, Handshake, LinkInv, NEW v \in VM, HearId(v)
  PROVE  Link!Hear(v)
<1>1. /\ v = 0 /\ Running(0) /\ vmId[0] = 0 /\ <<0, VMID>> \in pending
      /\ pending' = pending \ {<<0, VMID>>}
      /\ otherId'[0] = sharedId[1] /\ otherId'[1] = otherId[1]
      /\ UNCHANGED <<nextId, sent, proc, vmId, peers, nbPeers, sharedId>>
  BY HearIs DEF Handshake
<1>2. /\ Ups' = Ups /\ Wires' = Wires /\ BothUp' = BothUp
      /\ \A w \in VM : Running(w)' = Running(w)
  BY <1>1, SameTables
<1>3. Running(1) => vmId[1] # 0
  BY SecondId DEF Handshake
<1>4. 0 \in Notified(VMID) /\ Notified(VMID)' = Notified(VMID) \ {0}
  BY <1>1, <1>2, <1>3 DEF Notified, VM
<1>5. Notified(HOST)' = Notified(HOST)
  <2>1. HOST # VMID
    BY DEF VMID, HOST
  <2>2. \A q : <<q, HOST>> \in pending' <=> <<q, HOST>> \in pending
    BY <1>1, <2>1
  <2>3. vmId' = vmId
    BY <1>1
  <2>. QED BY <1>2, <2>2, <2>3 DEF Notified
<1>6. Knows' = IF 1 \in Knows THEN Knows \cup {0} ELSE Knows
  <2>1. CASE ~BothUp
    BY <1>2, <2>1 DEF Knows
  <2>2. CASE BothUp
    <3>1. Running(1) /\ (1 \in Knows <=> otherId[1] = 0) /\ (1 \in Knows' <=> otherId[1] = 0)
      BY <1>1, <1>2, <2>2, Both, Ends DEF Knows, Peer
    <3>2. /\ 0 \in Knows <=> otherId[0] = vmId[1]
          /\ 0 \in Knows' <=> sharedId[1] = vmId[1]
      BY <1>1, <1>2, <2>2, Ends DEF Knows, Peer
    <3>3. CASE Announced
      <4>1. otherId[1] = 0 /\ sharedId[1] = vmId[1]
        BY <3>1, <3>3 DEF Handshake, AnnouncementHeard
      <4>. QED BY <3>1, <3>2, <4>1 DEF Knows, VM
    <3>4. CASE ~Announced
      <4>1. otherId[1] # 0 /\ sharedId[1] # vmId[1] /\ otherId[0] # vmId[1]
        BY <3>1, <3>4 DEF LinkInv, KnownOnceAnnounced, None
      <4>. QED BY <3>1, <3>2, <4>1 DEF Knows, VM
    <3>. QED BY <3>3, <3>4
  <2>. QED BY <2>1, <2>2
<1>. QED BY <1>1, <1>2, <1>4, <1>5, <1>6 DEF Link!Hear, Link!Peer, Ups, Knows, Wires

LEMMA HearHostLinks ==
  ASSUME Base, NEW v \in VM, HearHost(v)
  PROVE  Link!Take(v)
<1>1. /\ Running(v) /\ <<vmId[v], HOST>> \in pending
      /\ pending' = pending \ {<<vmId[v], HOST>>}
      /\ UNCHANGED <<proc, vmId, peers, nbPeers, otherId>>
  BY DEF HearHost, Hear, server, device, Running
<1>2. /\ Ups' = Ups /\ Wires' = Wires /\ Knows' = Knows
      /\ \A w \in VM : Running(w)' = Running(w)
  BY <1>1, SameTables
<1>3. \A w \in VM : Running(w) /\ w # v => vmId[w] # vmId[v]
  BY <1>1 DEF Base, IdsGiven, Running, VM
<1>4. /\ v \in Notified(HOST)
      /\ Notified(HOST)' = Notified(HOST) \ {v}
  BY <1>1, <1>2, <1>3 DEF Notified
<1>5. Notified(VMID)' = Notified(VMID)
  BY <1>1, <1>2 DEF Notified, VMID, HOST
<1>. QED BY <1>2, <1>4, <1>5 DEF Link!Take, Ups, Knows, Wires

LEMMA NotifyLinks ==
  ASSUME Base, Handshake, LinkInv, NEW v \in VM, Notify(v)
  PROVE  Link!Ring(v) \/ Link!End(v) \/ UNCHANGED Link!vars
<1>1. PICK o \in Ids \cup {None} :
        /\ o = otherId[v] /\ Running(v) /\ (o # None => o # vmId[v])
        /\ Ring(v, peers[v], nbPeers[v], o, HOST)
        /\ UNCHANGED <<nextId, sent, vmId, peers, nbPeers, otherId, sharedId>>
  BY NotifyIs DEF Base, TypeOK
<1>2. /\ \A q, k : <<q, k>> \in pending' => <<q, k>> \in pending \/ (q = o /\ k = HOST)
      /\ pending \subseteq pending'
  BY <1>1, RingAdds
<1>3. IF Signallable(peers[v], nbPeers[v], o, HOST)
      THEN <<o, HOST>> \in pending' ELSE pending' = pending
  BY <1>1 DEF Ring
<1>4. proc' = proc \/ (Wild(peers[v], nbPeers[v], o) /\ proc' = [proc EXCEPT ![v] = "dead"])
  BY <1>1 DEF Ring
<1>5. proc \in [VM -> {"off", "up", "dead"}]
  BY DEF Base, TypeOK
<1>6. CASE proc' # proc
  <2>1. pending' = pending /\ proc' = [proc EXCEPT ![v] = "dead"]
    <3>1. Wild(peers[v], nbPeers[v], o) => ~Signallable(peers[v], nbPeers[v], o, HOST)
      BY DEF Wild, Signallable
    <3>. QED BY <1>3, <1>4, <1>6, <3>1
  <2>2. ~Running(v)' /\ \A w \in VM : w # v => Running(w)' = Running(w)
    BY <1>5, <2>1 DEF Running
  <2>. QED BY <1>1, <2>1, <2>2, Ended
<1>7. CASE proc' = proc
  <2>1. /\ Ups' = Ups /\ Wires' = Wires /\ Knows' = Knows
        /\ \A w \in VM : Running(w)' = Running(w)
    BY <1>1, <1>7, SameTables
  <2>2. Notified(VMID)' = Notified(VMID)
    BY <1>1, <1>2, <2>1 DEF Notified, VMID, HOST
  <2>3. CASE Running(Peer(v)) /\ o = vmId[Peer(v)] /\ Signallable(peers[v], nbPeers[v], o, HOST)
    <3>1. BothUp
      BY <1>1, <2>3, Ends DEF BothUp, Running
    <3>2. v \in Knows \cap Wires
      BY <1>1, <2>3, <3>1 DEF Knows, Wires
    <3>0. o # vmId[v]
      BY <1>1, <2>3 DEF Signallable
    <3>3. Notified(HOST)' = Notified(HOST) \cup {Peer(v)}
      BY <1>1, <1>2, <1>3, <2>1, <2>3, <3>0, Ends DEF Notified
    <3>. QED BY <2>1, <2>2, <3>2, <3>3 DEF Link!Ring, Link!Peer, Peer, Ups, Knows, Wires
  <2>4. CASE ~(Running(Peer(v)) /\ o = vmId[Peer(v)] /\ Signallable(peers[v], nbPeers[v], o, HOST))
    <3>0. Signallable(peers[v], nbPeers[v], o, HOST) => o # vmId[v]
      BY <1>1 DEF Signallable
    <3>1. \A w \in VM : Running(w) => pending' = pending \/ vmId[w] # o
      BY <1>1, <1>3, <2>4, <3>0, Ends
    <3>2. Notified(HOST)' = Notified(HOST)
      BY <1>1, <1>2, <2>1, <3>1 DEF Notified
    <3>. QED BY <2>1, <2>2, <3>2 DEF Link!vars, Ups, Knows, Wires
  <2>. QED BY <2>3, <2>4
<1>. QED BY <1>6, <1>7

LEMMA LinksInit == Init => Link!Init
<1>. SUFFICES ASSUME Init PROVE Link!Init
  OBVIOUS
<1>1. ~BothUp /\ \A v \in VM : ~Running(v)
  BY Ends DEF Init, BothUp, Running
<1>2. Ups = {} /\ Knows = {} /\ Wires = {} /\ \A k : Notified(k) = {}
  BY <1>1 DEF Ups, Knows, Wires, Notified
<1>. QED BY <1>2 DEF Link!Init, Ups, Knows, Wires

\* However often VM 1 is restarted, no signal reaches an id before it is given,
\* VM 0 never takes itself for its peer, neither knows a VM 1 that has not
\* announced itself, and VM 0's eventfds come to VM 1 before its own.
THEOREM LinkInvariant ==
  ASSUME 0 \notin Restartable
  PROVE  Spec => []LinkInv
<1>. DEFINE Inv == Base /\ Handshake /\ LinkInv
<1>1. Init => Inv
  BY BaseInit, HandshakeInit, LinkInit
<1>2. Inv /\ [Next]_vars => Inv'
  BY BaseStep, HandshakeStep, LinkStep
<1>3. Inv => LinkInv
  OBVIOUS
<1>. HIDE DEF Inv
<1>. QED BY <1>1, <1>2, <1>3, PTL DEF Spec

\* Ids given by the server, eventfds in messages and an id in the shared memory
\* make the link that the register file rests on: whatever is queued, signalled
\* or written of processes of VM 1 that have ended, no end knows, holds or is
\* told anything but of its peer as it runs.
THEOREM InterconnectIsLink ==
  ASSUME 0 \notin Restartable
  PROVE  Spec => PeerLinkSpec
<1>. DEFINE Inv == Base /\ Handshake /\ LinkInv
<1>1. Init => Inv
  BY BaseInit, HandshakeInit, LinkInit
<1>2. Inv /\ [Next]_vars => Inv'
  BY BaseStep, HandshakeStep, LinkStep
<1>3. Inv /\ Base' /\ [Next]_vars => [Link!Next]_(Link!vars)
  <2>. SUFFICES ASSUME Base, Handshake, LinkInv, Base', [Next]_vars
                PROVE  Link!Next \/ UNCHANGED Link!vars
    OBVIOUS
  <2>0. \A v \in VM : v \in Link!VM
    BY DEF VM, Link!VM
  <2>1. CASE UNCHANGED vars
    <3>1. UNCHANGED <<proc, vmId, peers, nbPeers, otherId, pending>>
      BY <2>1 DEF vars, device
    <3>. QED BY <3>1, LinkStutters DEF Holds
  <2>2. ASSUME NEW v \in VM, Start(v) \/ Kill(v)
        PROVE  Link!Next \/ UNCHANGED Link!vars
    BY <2>0, <2>2, StartLinks, KillLinks DEF Link!Next
  <2>3. ASSUME NEW v \in VM, MainLoop(v)
        PROVE  Link!Next \/ UNCHANGED Link!vars
    BY <2>0, <2>3, ConnectLinks, DisconnectLinks, HearIdLinks, HearHostLinks
       DEF MainLoop, Link!Next
  <2>4. ASSUME NEW p \in Ids, ServerNotice(p)
        PROVE  Link!Next \/ UNCHANGED Link!vars
    BY <2>4, NoticeLinks
  <2>5. ASSUME NEW v \in VM, Signal(v) \/ SwitchSignal(v)
        PROVE  Link!Next \/ UNCHANGED Link!vars
    BY <2>0, <2>5, NotifyLinks DEF Signal, SwitchSignal, Link!Next
  <2>. QED BY <2>1, <2>2, <2>3, <2>4, <2>5 DEF Next
<1>4. Inv' => Base'
  OBVIOUS
<1>5. Init => Link!Init
  BY LinksInit
<1>. HIDE DEF Inv
<1>. QED BY <1>1, <1>2, <1>3, <1>4, <1>5, PTL DEF Spec, PeerLinkSpec, Link!Spec

=============================================================================
