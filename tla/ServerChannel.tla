--------------------------- MODULE ServerChannel ---------------------------
(***************************************************************************)
(* The connection of one device to the ivshmem-server, from the bytes on   *)
(* the socket to the handlers of its messages.                             *)
(*                                                                         *)
(* A message is a word of Size bytes; some carry a file descriptor, which  *)
(* comes with the first byte and which the character device keeps until    *)
(* it is asked for it.  The stream may be cut anywhere.  The device reads  *)
(* synchronously while it is realized (ivshmem_recv_setup), then in its    *)
(* main loop (ivshmem_read); both end in process_msg.  A byte is known by  *)
(* its position in the stream, a descriptor by the number of its message.  *)
(* Interrupts go through watched eventfds, as they do without KVM.         *)
(***************************************************************************)
EXTENDS Integers, Sequences, FiniteSets, FiniteSetsExt

CONSTANTS
  Sessions,    \* what servers send on a connection: sequences of messages
  Size,        \* bytes of a message
  MaxPeers,    \* the greatest id (IVSHMEM_MAX_PEERS)
  InitPeers,   \* entries of the peer table at first
  Vectors,     \* eventfds per peer the device keeps (its property vectors)
  Master,      \* the device must be the first to connect (its property master)
  OtherIds     \* ids it may find in the shared memory as its peer's when it
               \* announces itself; none for VM 0, which does not look

Version == 0       \* IVSHMEM_PROTOCOL_VERSION
Shm     == -1      \* the word that brings the shared memory
NoFd    == 0
NoId    == -1
Host    == 1       \* the vector with which the device announces itself

ASSUME SizeAssumption    == Size \in Nat \ {0}
ASSUME TableAssumption   == InitPeers \in Nat \ {0} /\ MaxPeers \in Nat /\ Vectors \in Nat \ {0}
ASSUME OtherAssumption   == OtherIds \subseteq 0 .. MaxPeers
ASSUME SessionAssumption == Sessions \subseteq Seq([val : Int, fd : BOOLEAN])

VARIABLES
  session,   \* server: all it will send
  sent,      \* server: messages sent so far
  open,      \* server: it has not hung up
  taken,     \* bytes of the stream the device has read
  got,       \* bytes of an incomplete message in its buffer
  chrFd,     \* the descriptor the character device holds
  phase,     \* how far the device has come
  vmId,      \* vm_id
  bar2,      \* the descriptor of the shared memory it mapped
  peers,     \* peers[p]: descriptors kept for p, and the memory they are in
  watched,   \* own vectors with an event handler
  closed,    \* closed[f]: times f was closed
  handled    \* history: the messages acted upon, each with its descriptor

server == <<session, sent, open>>
stream == <<taken, got, chrFd>>
device == <<vmId, bar2, peers, watched>>
vars   == <<server, stream, phase, device, closed, handled>>

Fds         == {n \in DOMAIN session : session[n].fd}
SetupPhases == {"version", "id", "shm"}
Phases      == SetupPhases \cup {"running", "failed", "dead", "gone", "crashed"}
Entries     == [fds : Seq(Fds), mem : {"live", "freed"}]
Fresh       == [fds |-> <<>>, mem |-> "live"]

TypeOK ==
  /\ session \in Sessions /\ sent \in 0 .. Len(session) /\ open \in BOOLEAN
  /\ taken \in 0 .. sent * Size /\ got \in 0 .. Size - 1
  /\ chrFd \in Fds \cup {NoFd}
  /\ phase \in Phases
  /\ vmId \in NoId .. MaxPeers
  /\ bar2 \in Fds \cup {NoFd}
  /\ DOMAIN peers \subseteq Nat /\ peers \in [DOMAIN peers -> Entries]
  /\ \A p \in DOMAIN peers : Len(peers[p].fds) <= Vectors
  /\ watched \subseteq 0 .. Vectors - 1
  /\ closed \in [Fds -> Nat]

Init ==
  /\ session \in Sessions /\ sent = 0 /\ open = TRUE
  /\ taken = 0 /\ got = 0 /\ chrFd = NoFd
  /\ phase = "version"
  /\ vmId = NoId /\ bar2 = NoFd /\ watched = {}
  /\ peers = [p \in 0 .. InitPeers - 1 |-> Fresh]
  /\ closed = [f \in Fds |-> 0]
  /\ handled = <<>>

-----------------------------------------------------------------------------
(* The server (external).                                                  *)

ServerSend ==
  /\ open /\ sent < Len(session)
  /\ sent' = sent + 1
  /\ UNCHANGED <<session, open, stream, phase, device, closed, handled>>

ServerClose ==
  /\ open
  /\ open' = FALSE
  /\ UNCHANGED <<session, sent, stream, phase, device, closed, handled>>

-----------------------------------------------------------------------------
(* Bytes and descriptors.                                                  *)

\* Mutants: the bytes already buffered are not subtracted; of a begun message one
\* byte too few is asked for.
MutWanted      == Size
MutWantedLess  == IF got = 0 THEN Size ELSE Size - got - 1

\* How many bytes the device asks for.
Wanted == Size - got

\* The descriptors that come with the next k bytes, and the one the character
\* device then holds: the last.
Arriving(k) == {n \in Fds : (n - 1) * Size \in taken .. taken + k - 1}
Newest(k)   == IF Arriving(k) = {} THEN chrFd ELSE Max(Arriving(k))
Dropped(k)  == ((Arriving(k) \cup {chrFd}) \ {NoFd}) \ {Newest(k)}

\* k bytes are read from the socket.
Read(k) ==
  /\ phase \in SetupPhases \cup {"running"}
  /\ k <= Wanted /\ taken + k <= sent * Size
  /\ taken' = taken + k

Close(fs) == closed' = [f \in Fds |-> IF f \in fs THEN closed[f] + 1 ELSE closed[f]]

\* The message is not complete.  Too many bytes would fail an assertion.
ReadPart(k) ==
  /\ Read(k) /\ got + k # Size
  /\ got'   = got + k
  /\ chrFd' = Newest(k)
  /\ Close(Dropped(k))
  /\ phase' = IF got + k > Size THEN "dead" ELSE phase
  /\ UNCHANGED <<server, device, handled>>

\* The server has hung up and all is read: a read in recv_msg's loop returns
\* nothing, and the loop asks again.
ReadNothing ==
  /\ phase \in SetupPhases
  /\ ~open /\ taken = sent * Size
  /\ UNCHANGED vars

\* A failing read ends the setup.
ReadFails ==
  /\ phase \in SetupPhases
  /\ phase' = "failed"
  /\ UNCHANGED <<server, stream, device, closed, handled>>

\* The message that the next bytes complete: its word, unless the buffer does
\* not hold one message, and its descriptor.
Rest == Size - got
Buffered(n) == (n - 1) * Size = (taken + Rest) - Size
Word ==
  IF \E n \in DOMAIN session : Buffered(n)
  THEN session[CHOOSE n \in DOMAIN session : Buffered(n)].val
  ELSE MaxPeers + 1

\* Mutant: it is fetched at every read, so that only one that comes with the
\* last bytes is there.
MutFd == IF Arriving(Rest) = {} THEN NoFd ELSE Newest(Rest)

Fd == Newest(Rest)

Whole == Rest <= Wanted /\ taken + Rest <= sent * Size

\* The message is handled; the handler closes fs besides.
ReadRest(fs) ==
  /\ Read(Rest)
  /\ got'     = 0
  /\ chrFd'   = NoFd
  /\ handled' = Append(handled, [val |-> Word, fd |-> Fd])
  /\ Close(Dropped(Rest) \cup (fs \ {NoFd}))
  /\ UNCHANGED server

-----------------------------------------------------------------------------
(* ivshmem_recv_setup: the version, the id, then process_msg until the     *)
(* shared memory is there.                                                 *)

SetupVersion ==
  /\ phase = "version" /\ Whole
  /\ ReadRest({})
  /\ phase' = IF Word = Version /\ Fd = NoFd THEN "id" ELSE "failed"
  /\ UNCHANGED device

ValidId(m) == 0 <= m /\ m <= MaxPeers

SetupId ==
  /\ phase = "id" /\ Whole
  /\ ReadRest({})
  /\ IF ValidId(Word) /\ Fd = NoFd
     THEN phase' = "shm" /\ vmId' = Word
     ELSE phase' = "failed" /\ UNCHANGED vmId
  /\ UNCHANGED <<bar2, peers, watched>>

\* Mutant: the loop goes on after the shared memory.
MutRealized == "shm"

\* The rest of realize: the master must have id 0.
Realized == IF Master /\ vmId # 0 THEN "failed" ELSE "running"

\* An error ends the setup; the running device reports it and goes on.
Refused == IF phase = "shm" THEN "failed" ELSE phase

-----------------------------------------------------------------------------
(* process_msg.                                                            *)

Processing == phase \in {"shm", "running"} /\ Whole

\* The table, grown to hold entry p.
Resized(p) ==
  [q \in DOMAIN peers \cup 0 .. p |-> IF q \in DOMAIN peers THEN peers[q] ELSE Fresh]

FdsOf(tab, p) == {tab[p].fds[n] : n \in DOMAIN tab[p].fds}
Emptied       == [fds |-> <<>>, mem |-> "freed"]

\* Where the device stands after it used memory that may be freed.
Using(entry) == {phase} \cup (IF entry.mem = "freed" THEN {"dead"} ELSE {})

\* Mutant: the descriptor that finds no vector is forgotten.
MutSurplus == {}

Surplus == {Fd}

\* A word that names nothing.
RejectMsg ==
  /\ Processing
  /\ Word < Shm \/ Word > MaxPeers
  /\ ReadRest({Fd})
  /\ phase' = Refused
  /\ UNCHANGED device

\* The shared memory, a second time, or without a descriptor.
RefuseShm ==
  /\ Processing
  /\ Word = Shm
  /\ bar2 # NoFd \/ Fd = NoFd
  /\ ReadRest({Fd})
  /\ phase' = Refused
  /\ UNCHANGED device

\* The shared memory: its size is taken and it is mapped.  If there is no size
\* its descriptor is closed, if it cannot be mapped it is forgotten.
MapShm ==
  /\ Processing
  /\ Word = Shm /\ bar2 = NoFd /\ Fd # NoFd
  /\ \/ ReadRest({}) /\ bar2' = Fd /\ phase' = Realized
     \/ ReadRest({Fd}) /\ bar2' = NoFd /\ phase' = Refused
     \/ ReadRest({}) /\ bar2' = NoFd /\ phase' = Refused
  /\ UNCHANGED <<vmId, peers, watched>>

\* A descriptor for a peer that has all its vectors.
RefuseFd ==
  /\ Processing
  /\ ValidId(Word) /\ Fd # NoFd
  /\ Len(Resized(Word)[Word].fds) >= Vectors
  /\ ReadRest(Surplus)
  /\ peers' = Resized(Word)
  /\ phase' = Refused
  /\ UNCHANGED <<vmId, bar2, watched>>

\* watch_vector_notifier cannot enter a vector before the setup has ended and the
\* array is allocated, nor twice.
Unwatchable(vector) == phase = "shm" \/ vector \in watched

\* init_vm_ids: VM 1 notifies the peer whose id it finds, of which the table tab
\* may have no entry, a freed one, or one without eventfds, where nothing comes
\* of it.
Announcing(tab) ==
  {phase} \cup
    IF \E q \in OtherIds : q \in DOMAIN tab => tab[q].mem = "freed" THEN {"dead"} ELSE {}

\* Where the device stands after setup_interrupt on a vector of its own.
Watching(vector, tab) ==
  IF Unwatchable(vector) THEN {"dead"}
  ELSE IF vector = Host THEN Announcing(tab) ELSE {phase}

\* The N-th descriptor for a peer is its vector N-1.  A vector of the device's
\* own is watched from now on.
Connect ==
  LET p      == Word
      tab    == Resized(p)
      vector == Len(tab[p].fds)
  IN
  /\ Processing
  /\ ValidId(p) /\ Fd # NoFd
  /\ vector < Vectors
  /\ ReadRest({})
  /\ peers' = [tab EXCEPT ![p].fds = Append(@, Fd)]
  /\ IF p # vmId
     THEN phase' \in Using(tab[p]) /\ UNCHANGED watched
     ELSE /\ watched' = watched \cup {vector}
          /\ phase' \in Watching(vector, tab)
  /\ UNCHANGED <<vmId, bar2>>

\* A peer has gone: close_peer_eventfds closes and frees its notifiers.
Disconnect ==
  /\ Processing
  /\ ValidId(Word) /\ Fd = NoFd /\ Word # vmId
  /\ ReadRest(FdsOf(Resized(Word), Word))
  /\ peers' = [Resized(Word) EXCEPT ![Word] = Emptied]
  /\ phase' \in Using(Resized(Word)[Word])
  /\ UNCHANGED <<vmId, bar2, watched>>

\* The device itself has gone, says the server.
RefuseGone ==
  /\ Processing
  /\ Word = vmId /\ Fd = NoFd
  /\ ReadRest({})
  /\ peers' = Resized(vmId)
  /\ phase' = Refused
  /\ UNCHANGED <<vmId, bar2, watched>>

-----------------------------------------------------------------------------
(* ivshmem_exit: every entry of the table is closed and freed, those of    *)
(* peers that have gone a second time.  The shared memory is part of no    *)
(* BAR, so that its descriptor is left alone.                              *)

Exit ==
  /\ phase = "running"
  /\ peers' = [p \in DOMAIN peers |-> Emptied]
  /\ Close(UNION {FdsOf(peers, p) : p \in DOMAIN peers})
  /\ \/ phase' = "gone"
     \/ (\E p \in DOMAIN peers : peers[p].mem = "freed") /\ phase' = "crashed"
  /\ UNCHANGED <<server, stream, vmId, bar2, watched, handled>>

-----------------------------------------------------------------------------

ReadWhole ==
  \/ SetupVersion \/ SetupId
  \/ RejectMsg \/ RefuseShm \/ MapShm
  \/ RefuseFd \/ Connect \/ Disconnect \/ RefuseGone

Receive == ReadWhole \/ \E k \in 1 .. Size : ReadPart(k)

Next ==
  \/ ServerSend \/ ServerClose
  \/ Receive \/ ReadNothing \/ ReadFails
  \/ Exit

Spec == Init /\ [][Next]_vars

\* Bytes that are there are read: by a loop while the device is realized, then
\* by the main loop.  A server that stays connected sends its session.
FairSpec == Spec /\ WF_vars(Receive) /\ WF_vars(ServerSend)

-----------------------------------------------------------------------------
(* What the device makes of the stream.                                    *)

\* The messages handled are those the server sent, in order, each with the
\* descriptor sent with it, however the stream was cut.
Msg(n) == [val |-> session[n].val, fd |-> IF n \in Fds THEN n ELSE NoFd]

Stream == INSTANCE MessageStream WITH
            sent    <- [n \in 1 .. sent |-> Msg(n)],
            handled <- handled

MessageStreamSpec == Stream!Spec

\* Why they are: what is read makes up the messages handled and the buffer, and
\* the character device holds the descriptor of a begun message and no other.
StreamInv ==
  /\ session \in Sessions /\ sent \in 0 .. Len(session)
  /\ got \in 0 .. Size - 1
  /\ handled \in Seq([val : Int, fd : Nat])
  /\ taken = Len(handled) * Size + got /\ taken <= sent * Size
  /\ chrFd = IF got > 0 /\ Len(handled) + 1 \in Fds THEN Len(handled) + 1 ELSE NoFd
  /\ \A n \in 1 .. Len(handled) : handled[n] = Msg(n)

\* Each descriptor received is in one place: with the character device, the
\* shared memory, one entry of the peer table, or closed, once.  (A setup that
\* has failed keeps nothing in order: the process ends.)
Received   == {n \in Fds : (n - 1) * Size < taken}
Holders(f) == {p \in DOMAIN peers : f \in FdsOf(peers, p)}
Places(f)  ==
  Cardinality(Holders(f)) + closed[f]
    + (IF chrFd = f THEN 1 ELSE 0) + (IF bar2 = f THEN 1 ELSE 0)

DescriptorsKeptOnce ==
  phase # "failed" => \A f \in Received : Places(f) = 1

\* The comment above the setup loop: "the device has always accepted them in
\* any order".  No message takes the device down.
NoMessageKills == phase # "dead"

\* The comment below it: "This function must either map the shared memory or
\* fail."  With a server that stays, the setup comes to an end.  (Without one it
\* may not, see ReadNothing.)
SetupEnds == phase \in SetupPhases ~> phase \notin SetupPhases \/ ~open

\* A running device acts on all it is sent, what was on the way when the
\* server hung up included.
EveryMessageHandled ==
  phase = "running" ~> Len(handled) = sent \/ phase # "running"

-----------------------------------------------------------------------------
(* Why descriptors are kept once and no orderly server kills the device.   *)

\* No handler has f, and exactly one does: an entry, a close or the memory.
Unknown(f) == Holders(f) = {} /\ closed[f] = 0 /\ bar2 # f
Placed(f)  ==
  \/ (\E p \in DOMAIN peers : Holders(f) = {p}) /\ closed[f] = 0 /\ bar2 # f
  \/ Holders(f) = {} /\ closed[f] = 1 /\ bar2 # f
  \/ Holders(f) = {} /\ closed[f] = 0 /\ bar2 = f

\* The descriptor of a message goes to its place when the message is handled.
PlacesInv ==
  phase # "failed" =>
    \A f \in Fds : IF f <= Len(handled) THEN Placed(f) ELSE Unknown(f)

IsGone(m) == ValidId(m.val) /\ ~m.fd

\* A server that sends nothing more of a peer it has reported gone, and the
\* device's own eventfds after the shared memory and after those of the peers
\* whose id the device may find there, none of which it has reported gone.
Orderly(s) ==
  \A n \in DOMAIN s : n > 2 =>
    /\ \A m \in 3 .. n - 1 : IsGone(s[m]) /\ s[n].val = s[m].val => s[m].val = s[2].val
    /\ s[n].fd /\ s[n].val = s[2].val =>
         /\ \E m \in 1 .. n - 1 : s[m].val = Shm
         /\ \A q \in OtherIds \ {s[2].val} :
              /\ \E m \in 3 .. n - 1 : s[m].val = q
              /\ \A m \in 3 .. n - 1 : s[m].val = q => ~IsGone(s[m])

\* No message of such a server takes the device down, its own announcement to
\* the peer included.
OrderlyServerSafe == Orderly(session) => phase # "dead"

\* What each phase has seen: so many messages, the second of which brought the
\* id, and none with the shared memory before the device is realized.
PhaseInv ==
  /\ phase = "version" => Len(handled) = 0
  /\ phase = "id" => Len(handled) = 1
  /\ phase \in {"shm", "running"} =>
       Len(handled) >= 2 /\ vmId = session[2].val /\ vmId # NoId
  /\ phase \in SetupPhases => \A n \in 1 .. Len(handled) : session[n].val # Shm
  /\ phase = "running" => bar2 # NoFd

\* The vectors watched are among those received.
WatchInv ==
  /\ phase \in SetupPhases => watched = {}
  /\ phase = "running" =>
       \A k \in watched : vmId \in DOMAIN peers /\ k < Len(peers[vmId].fds)

\* Only a peer that the server has reported gone has freed notifiers.
FreedInv ==
  phase \in SetupPhases \cup {"running"} =>
    \A p \in DOMAIN peers : peers[p].mem = "freed" =>
      /\ p # vmId
      /\ \E m \in 3 .. Len(handled) : IsGone(session[m]) /\ session[m].val = p

\* Every peer the server has spoken of has an entry.
SpokenInv ==
  phase \in {"shm", "running"} =>
    \A m \in 3 .. Len(handled) : ValidId(session[m].val) => session[m].val \in DOMAIN peers

\* What every step of the channel keeps.
ChannelInv ==
  /\ PlacesInv
  /\ PhaseInv /\ WatchInv /\ FreedInv /\ SpokenInv
  /\ OrderlyServerSafe

=============================================================================
