---------------------------- MODULE Interconnect ----------------------------
(***************************************************************************)
(* How the two QEMU processes find each other: the ivshmem-server hands    *)
(* out ids and eventfds, each device keeps a table of peers from the       *)
(* server's messages, and the devices tell one another their ids through   *)
(* the shared memory and the first eventfd (init_vm_ids).  Processes may   *)
(* be killed and started again; the shared memory outlives them.           *)
(*                                                                         *)
(* A handler of the main loop is one step: what it shares with the other   *)
(* process is one word of each direction and an eventfd, written once.     *)
(***************************************************************************)
EXTENDS Integers, Sequences, SequencesExt

CONSTANTS
  ServerVectors,  \* eventfds per peer the server creates (its option -n)
  Vectors,        \* eventfds per peer the device keeps (its property vectors)
  InitPeers,      \* size of a new peer table
  Restartable,    \* the ends whose process may be killed and started again
  MaxStarts       \* bound: processes started altogether

VM      == {0, 1}
Peer(v) == 1 - v
Ids     == 0 .. MaxStarts - 1
None    == -1          \* no id: other_vm_id of a device that has met nobody

VMID == 0              \* the vector that announces an id
HOST == 1              \* the vector that interrupts the guest

ASSUME VectorsAssumption == {ServerVectors, Vectors} \subseteq Nat \ {0, 1}
ASSUME TableAssumption   == InitPeers \in Nat \ {0}
ASSUME IdsAssumption     == MaxStarts \in 1 .. 2^16   \* an id has 16 bits
ASSUME RestartAssumption == Restartable \subseteq VM

Messages  == [id : Ids, kind : {"fd", "gone"}]
Entries   == [nb : 0 .. Vectors, mem : {"none", "live", "freed"}]

VARIABLES
  nextId,     \* server: the id of the next process to connect
  members,    \* server: the ids connected, as far as it has noticed, oldest first
  sent,       \* sent[v]: messages from the server v has yet to process
  proc,       \* proc[v]: "off", "up", or "dead" by its own fault
  vmId,       \* vmId[v]: the id the server gave v
  peers,      \* peers[v][p]: eventfds of p received, and their memory
  nbPeers,    \* nbPeers[v]: entries the table of v has
  watched,    \* watched[v]: vectors of v with an event handler
  otherId,    \* otherId[v]: other_vm_id of v
  sharedId,   \* sharedId[v]: the id v wrote to the shared memory
  pending     \* eventfds signalled and not yet read, as <<id, vector>>

server == <<nextId, members>>
device == <<vmId, peers, nbPeers, watched, otherId>>
vars   == <<server, sent, proc, device, sharedId, pending>>

NoEntry  == [nb |-> 0, mem |-> "none"]
NewEntry == [nb |-> 0, mem |-> "live"]
ClosedEntry == [nb |-> 0, mem |-> "freed"]

TypeOK ==
  /\ nextId   \in 0 .. MaxStarts
  /\ members  \in Seq(Ids)
  /\ sent     \in [VM -> Seq(Messages)]
  /\ proc     \in [VM -> {"off", "up", "dead"}]
  /\ vmId     \in [VM -> Ids \cup {None}]
  /\ peers    \in [VM -> [Ids -> Entries]]
  /\ nbPeers  \in [VM -> Nat]
  /\ watched  \in [VM -> SUBSET (0 .. Vectors - 1)]
  /\ otherId  \in [VM -> Ids \cup {None}]
  /\ sharedId \in [VM -> Ids]
  /\ pending  \in SUBSET (Ids \X (0 .. Vectors - 1))

Init ==
  /\ nextId   = 0
  /\ members  = <<>>
  /\ sent     = [v \in VM |-> <<>>]
  /\ proc     = [v \in VM |-> "off"]
  /\ vmId     = [v \in VM |-> None]
  /\ peers    = [v \in VM |-> [p \in Ids |-> NoEntry]]
  /\ nbPeers  = [v \in VM |-> 0]
  /\ watched  = [v \in VM |-> {}]
  /\ otherId  = [v \in VM |-> None]
  /\ sharedId = [v \in VM |-> 0]
  /\ pending  = {}

-----------------------------------------------------------------------------
(* The server (external), and the start and the end of a process.          *)

FdOf(p)   == [id |-> p, kind |-> "fd"]
GoneOf(p) == [id |-> p, kind |-> "gone"]

\* All eventfds of p, and of one peer after the other.
Fds(p)    == [k \in 1 .. ServerVectors |-> FdOf(p)]
FdsOf(ps) == [k \in 1 .. Len(ps) * ServerVectors |-> FdOf(ps[(k - 1) \div ServerVectors + 1])]

\* A message queue still read, with ms appended.
Tell(v, ms) == IF proc[v] = "up" THEN sent[v] \o ms ELSE sent[v]

\* A new table holds entries for the ids below its size.
Table(n) == [p \in Ids |-> IF p < n THEN NewEntry ELSE NoEntry]

\* The process of v connects; ivshmem_recv_setup takes its id at once and the
\* rest stays queued.  The VM with number 0 is the first one started.
Start(v) ==
  /\ proc[v] = "off" /\ nextId < MaxStarts
  /\ v = 1 => nextId > 0
  /\ nextId'  = nextId + 1
  /\ members' = Append(members, nextId)
  /\ sent'    = [sent EXCEPT ![v] = FdsOf(members) \o Fds(nextId),
                             ![Peer(v)] = Tell(Peer(v), Fds(nextId))]
  /\ proc'    = [proc EXCEPT ![v] = "up"]
  /\ vmId'    = [vmId EXCEPT ![v] = nextId]
  /\ peers'   = [peers EXCEPT ![v] = Table(InitPeers)]
  /\ nbPeers' = [nbPeers EXCEPT ![v] = InitPeers]
  /\ watched' = [watched EXCEPT ![v] = {}]
  /\ otherId' = [otherId EXCEPT ![v] = None]
  /\ UNCHANGED <<sharedId, pending>>

\* The process of v is gone: killed, or reaped after its own fault.
Vanish(v) ==
  /\ proc'    = [proc EXCEPT ![v] = "off"]
  /\ sent'    = [sent EXCEPT ![v] = <<>>]
  /\ vmId'    = [vmId EXCEPT ![v] = None]
  /\ peers'   = [peers EXCEPT ![v] = [p \in Ids |-> NoEntry]]
  /\ nbPeers' = [nbPeers EXCEPT ![v] = 0]
  /\ watched' = [watched EXCEPT ![v] = {}]
  /\ otherId' = [otherId EXCEPT ![v] = None]
  /\ UNCHANGED <<server, sharedId, pending>>

Kill(v) == v \in Restartable /\ proc[v] # "off" /\ Vanish(v)

\* The server reads the end of a connection and tells the others.
ServerNotice(p) ==
  /\ \E n \in DOMAIN members : members[n] = p /\ members' = RemoveAt(members, n)
  /\ \A v \in VM : proc[v] = "up" => vmId[v] # p
  /\ sent' = [v \in VM |-> Tell(v, <<GoneOf(p)>>)]
  /\ UNCHANGED <<nextId, proc, device, sharedId, pending>>

-----------------------------------------------------------------------------
(* Signalling an eventfd of the peer table.                                *)

\* The table entry p of v, where v uses it, holds an initialised notifier k.
Signallable(tab, n, p, k) ==
  p # None /\ p < n /\ tab[p].mem = "live" /\ k < tab[p].nb

\* The table is indexed outside its bounds, or the entry was freed.
Wild(tab, n, p) == ~(p # None /\ p < n /\ tab[p].mem = "live")

\* event_notifier_set by v on vector k of p: heard, or silently nothing on a
\* notifier not yet initialised; a wild one is lost or kills the process.
Ring(v, tab, n, p, k) ==
  /\ pending' = IF Signallable(tab, n, p, k) THEN pending \cup {<<p, k>>} ELSE pending
  /\ \/ proc' = proc
     \/ Wild(tab, n, p) /\ proc' = [proc EXCEPT ![v] = "dead"]

-----------------------------------------------------------------------------
(* process_msg.                                                            *)

\* Mutant: a longer table is allocated, the old entries are not carried over.
MutGrown(v, p) ==
  IF p < nbPeers[v] THEN peers[v]
  ELSE [q \in Ids |-> IF q >= nbPeers[v] /\ q <= p THEN NewEntry ELSE NoEntry]

\* The table of v, grown to hold entry p.
Grown(v, p) ==
  IF p < nbPeers[v] THEN peers[v]
  ELSE [q \in Ids |-> IF q >= nbPeers[v] /\ q <= p THEN NewEntry ELSE peers[v][q]]

\* The number of entries it then has.
Size(v, p) == IF p < nbPeers[v] THEN nbPeers[v] ELSE p + 1

\* The head of the queue of v is a message m of kind k.
Receive(v, k) ==
  /\ proc[v] = "up" /\ sent[v] # <<>> /\ Head(sent[v]).kind = k
  /\ sent' = [sent EXCEPT ![v] = Tail(@)]

\* Mutants: the wrong VM announces itself; its peer's id is read from the
\* wrong word; one fd too many is kept.
MutAnnouncer == 0
MutWordOfPeer(v) == sharedId[v]
MutRoom(k) == k <= Vectors

\* The VM that announces itself, where it finds its peer's id, and whether
\* there is room for vector k.
Announcer     == 1
WordOfPeer(v) == sharedId[Peer(v)]
Room(k)       == k < Vectors

\* v writes its id to the shared memory; the announcer also takes its peer's
\* and tells the peer, using the peer table tab of n entries.
InitVmIds(v, tab, n) ==
  /\ sharedId' = [sharedId EXCEPT ![v] = vmId[v]]
  /\ IF v = Announcer
     THEN /\ otherId' = [otherId EXCEPT ![v] = WordOfPeer(v)]
          /\ Ring(v, tab, n, WordOfPeer(v), VMID)
     ELSE UNCHANGED <<otherId, pending, proc>>

\* A vector of v's own is watched from now on.
SetupInterrupt(v, k, tab, n) ==
  /\ watched' = [watched EXCEPT ![v] = @ \cup {k}]
  /\ IF k = HOST THEN InitVmIds(v, tab, n)
     ELSE UNCHANGED <<sharedId, otherId, pending, proc>>

\* The N-th fd for an id is its vector N-1, up to those the device has.
Connect(v) ==
  /\ Receive(v, "fd")
  /\ LET p   == Head(sent[v]).id
         tab == Grown(v, p)
         k   == tab[p].nb
         got == IF Room(k) THEN [tab EXCEPT ![p].nb = k + 1] ELSE tab
     IN
       /\ peers'   = [peers EXCEPT ![v] = got]
       /\ nbPeers' = [nbPeers EXCEPT ![v] = Size(v, p)]
       /\ IF p = vmId[v] /\ Room(k)
          THEN SetupInterrupt(v, k, got, Size(v, p))
          ELSE UNCHANGED <<watched, sharedId, otherId, pending, proc>>
  /\ UNCHANGED <<server, vmId>>

\* The peer has gone: its notifiers are freed, other_vm_id keeps its id.
Disconnect(v) ==
  /\ Receive(v, "gone")
  /\ LET p   == Head(sent[v]).id
         tab == Grown(v, p)
     IN /\ p # vmId[v]
        /\ peers'   = [peers EXCEPT ![v] = [tab EXCEPT ![p] = ClosedEntry]]
        /\ nbPeers' = [nbPeers EXCEPT ![v] = Size(v, p)]
  /\ UNCHANGED <<server, proc, vmId, watched, otherId, sharedId, pending>>

-----------------------------------------------------------------------------
(* Events.                                                                 *)

\* An eventfd of v that is watched and signalled is read and cleared.
Hear(v, k) ==
  /\ proc[v] = "up" /\ k \in watched[v] /\ <<vmId[v], k>> \in pending
  /\ pending' = pending \ {<<vmId[v], k>>}

\* The peer has announced itself: take its id from the shared memory.
HearId(v) ==
  /\ Hear(v, VMID)
  /\ otherId' = [otherId EXCEPT ![v] = WordOfPeer(v)]
  /\ UNCHANGED <<server, sent, proc, vmId, peers, nbPeers, watched, sharedId>>

\* The guest is interrupted.
HearHost(v) ==
  /\ Hear(v, HOST)
  /\ UNCHANGED <<server, sent, proc, device, sharedId>>

\* event_notifier_set on the interrupt of the id v has for its peer, None
\* included.
Notify(v) ==
  /\ proc[v] = "up"
  /\ Ring(v, peers[v], nbPeers[v], otherId[v], HOST)
  /\ UNCHANGED <<server, sent, device, sharedId>>

\* OUTMSG and OUTDBELLSET ask whether there is a peer; NTGSIGNAL does not.
Signal(v)       == otherId[v] # None /\ Notify(v)
SwitchSignal(v) == Notify(v)

-----------------------------------------------------------------------------

MainLoop(v) == Connect(v) \/ Disconnect(v) \/ HearId(v) \/ HearHost(v)

Next ==
  \/ \E v \in VM : Start(v) \/ Kill(v) \/ MainLoop(v) \/ Signal(v) \/ SwitchSignal(v)
  \/ \E p \in Ids : ServerNotice(p)

Spec == Init /\ [][Next]_vars

\* The main loop polls the socket and every watched eventfd in each round.
Fairness ==
  \A v \in VM :
    /\ WF_vars(Connect(v) \/ Disconnect(v))
    /\ WF_vars(HearId(v))

FairSpec == Spec /\ Fairness

-----------------------------------------------------------------------------
(* What the handshake achieves.                                            *)

BothUp == \A v \in VM : proc[v] = "up"

Agreed == \A v \in VM : otherId[v] = vmId[Peer(v)]

\* Nothing the server or the peer has told v is still unread.
Quiet(v) == sent[v] = <<>> /\ <<vmId[v], VMID>> \notin pending

\* When both run and have read what they were told, each knows the other,
\* whatever instances came before.
IdsAgreeAtRest == BothUp /\ (\A v \in VM : Quiet(v)) => Agreed

\* Two running processes come to know each other, unless one ends first.
HandshakeCompletes == BothUp ~> Agreed \/ ~BothUp

\* Once its messages are read, a device that knows its running peer holds the
\* eventfds it interrupts that peer with: the table entry is in range, not
\* freed, and filled.
KnownPeerReachable ==
  \A v \in VM :
    /\ BothUp /\ sent[v] = <<>> /\ otherId[v] = vmId[Peer(v)]
    => Signallable(peers[v], nbPeers[v], otherId[v], HOST)

\* The link of module PeerLink, on which module NtbDevice rests too: whatever
\* was queued, signalled or known of instances that have ended, what a running
\* process knows and holds of the running peer is as if there had been none.
Running(v)  == proc[v] = "up"
Notified(k) == {v \in VM : Running(v) /\ <<vmId[v], k>> \in pending}

Link == INSTANCE PeerLink WITH
          up    <- {v \in VM : Running(v)},
          known <- {v \in VM : BothUp /\ otherId[v] = vmId[Peer(v)]},
          wired <- {v \in VM : BothUp /\ Signallable(peers[v], nbPeers[v], vmId[Peer(v)], HOST)},
          told  <- Notified(VMID),
          rung  <- Notified(HOST)

PeerLinkSpec == Link!Spec

-----------------------------------------------------------------------------
(* Why the handshake works: an inductive invariant.                        *)

\* m is still to be read by v: at all, before the i-th message, and twice.
Queued(v, m)          == \E i \in DOMAIN sent[v] : sent[v][i] = m
QueuedBefore(v, m, i) == \E j \in DOMAIN sent[v] : j < i /\ sent[v][j] = m
QueuedTwice(v, m)     == \E i \in DOMAIN sent[v] : sent[v][i] = m /\ QueuedBefore(v, m, i)

\* Exactly the entries in range are initialised.
TableFits ==
  \A v \in VM, p \in Ids :
    /\ peers[v][p].mem = "none" <=> p >= nbPeers[v]
    /\ peers[v][p].mem = "none" => peers[v][p].nb = 0

\* Every process has an id given before, no two the same, and a running one
\* is a member.
IdsGiven ==
  /\ \A v \in VM : proc[v] # "off" => vmId[v] \in 0 .. nextId - 1
  /\ \A v \in VM : Running(v) => \E n \in DOMAIN members : members[n] = vmId[v]
  /\ proc[0] # "off" /\ proc[1] # "off" => vmId[0] # vmId[1]

\* Nobody is spoken of before its id is given: no member, message or entry.
Spoken ==
  /\ \A n \in DOMAIN members : members[n] < nextId
  /\ \A v \in VM : \A i \in DOMAIN sent[v] : sent[v][i].id < nextId
  /\ \A v \in VM, p \in Ids :
       p >= nextId => peers[v][p].nb = 0 /\ peers[v][p].mem # "freed"

\* Nobody has heard, or will hear of what is queued, that a running process
\* has gone.
RunningNotGone ==
  \A v, w \in VM :
    Running(v) /\ Running(w) =>
      peers[v][vmId[w]].mem # "freed" /\ ~Queued(v, GoneOf(vmId[w]))

\* v holds the first two eventfds of p, or they are on their way.
Coming(v, p) ==
  LET nb == peers[v][p].nb
      fd == FdOf(p)
  IN \/ nb >= 2
     \/ nb = 1 /\ Queued(v, fd)
     \/ nb = 0 /\ QueuedTwice(v, fd)

\* So it is of every running process, v itself included.
EventfdsComing ==
  \A v, w \in VM : Running(v) /\ Running(w) => Coming(v, vmId[w])

\* Nobody dies of a notification to a running process, by whatever register it
\* asks for one, once it has read the first of that process's eventfds: who
\* dies has no id, one of a process that has ended, or one whose eventfds are
\* all to come.
DiesOfStaleId ==
  [][\A v, w \in VM :
       /\ Running(v) /\ proc'[v] = "dead"
       /\ Running(w) /\ otherId'[v] = vmId[w]
       => QueuedTwice(v, FdOf(vmId[w]))]_vars

\* The process of VM 0 is the first and, not restarted, has id 0.
FirstIsZero ==
  /\ nextId = 0 <=> proc[0] = "off"
  /\ nextId = 0 => proc[1] = "off"
  /\ proc[0] # "off" => vmId[0] = 0
  /\ sharedId[0] = 0

\* VM 1 has received its own second eventfd: it announces itself then.
Announced == peers[1][vmId[1]].nb >= 2

\* Having announced itself, VM 1 knows its peer and has its id in the shared
\* memory, and VM 0 knows it or is signalled; that signal reaches VM 0, as its
\* eventfds come before VM 1's own.
AnnouncementHeard ==
  /\ otherId[1] \in {None, 0}
  /\ Running(1) /\ Announced => otherId[1] = 0 /\ sharedId[1] = vmId[1]
  /\ BothUp =>
       /\ \A i \in DOMAIN sent[1] :
            sent[1][i] = FdOf(vmId[1]) => peers[1][0].nb >= 1 \/ QueuedBefore(1, FdOf(0), i)
       /\ Announced => otherId[0] = vmId[1] \/ <<0, VMID>> \in pending

HandshakeInv ==
  /\ TypeOK
  /\ TableFits
  /\ IdsGiven
  /\ Spoken
  /\ RunningNotGone
  /\ EventfdsComing
  /\ 0 \notin Restartable => FirstIsZero /\ AnnouncementHeard

-----------------------------------------------------------------------------
(* Why the link is one, if VM 0 is not restarted: besides the above.        *)

\* No signal is for an id yet to be given; an announcement is for VM 0, by a
\* VM 1 that has written its id.
SignalsGiven ==
  \A p \in Ids, k \in {VMID, HOST} :
    <<p, k>> \in pending => p < nextId /\ (k = VMID => p = 0 /\ sharedId[1] # 0)

\* What VM 0 knows, and will read, is an id given to a process of VM 1.
SecondIdsGiven ==
  /\ otherId[0] = None \/ otherId[0] \in 1 .. nextId - 1
  /\ sharedId[1] = 0 \/ sharedId[1] < nextId

\* Before VM 1 announces itself neither end knows the other.
KnownOnceAnnounced ==
  Running(1) /\ ~Announced =>
    otherId[1] = None /\ sharedId[1] # vmId[1] /\ otherId[0] # vmId[1]

\* VM 1 receives the eventfds of VM 0 before any of its own.
PeerBeforeOwn ==
  BothUp => \A i \in DOMAIN sent[1] :
              sent[1][i] = FdOf(0) =>
                peers[1][vmId[1]].nb = 0 /\ ~QueuedBefore(1, FdOf(vmId[1]), i)

LinkInv == SignalsGiven /\ SecondIdsGiven /\ KnownOnceAnnounced /\ PeerBeforeOwn

=============================================================================
