------------------------- MODULE ServerDevice_proofs -------------------------
(***************************************************************************)
(* What the handlers make of the stream, whatever the servers: the types,  *)
(* one place for every descriptor, and, for orderly servers, no message    *)
(* that kills the device.                                                  *)
(*                                                                         *)
(* StreamInv says which message a handler gets; here each handler is shown *)
(* to put the descriptor of that message in one place and to leave those   *)
(* of the others where they are.                                           *)
(***************************************************************************)
EXTENDS ServerChannel_proofs, FiniteSetTheorems

-----------------------------------------------------------------------------
(* What a handler gets.                                                    *)

\* No descriptor is ever dropped by the character device for a newer one.
LEMMA NothingDropped ==
  ASSUME StreamInv, NEW k \in Nat \ {0}, got + k <= Size
  PROVE  Dropped(k) = {}
<1>. DEFINE L == Len(handled)
<1>1. Arriving(k) = IF got = 0 /\ k > 0 /\ L + 1 \in Fds THEN {L + 1} ELSE {}
  BY ArrivingIs
<1>2. Newest(k) = IF L + 1 \in Fds THEN L + 1 ELSE NoFd
  BY NewestIs
<1>3. chrFd = IF got > 0 /\ L + 1 \in Fds THEN L + 1 ELSE NoFd
  BY DEF StreamInv
<1>. HIDE DEF L
<1>. QED BY <1>1, <1>2, <1>3 DEF Dropped

LEMMA FdsAre ==
  ASSUME StreamInv
  PROVE  Fds \subseteq Nat \ {0} /\ NoFd \notin Fds
BY SessionType DEF StreamInv, NoFd

\* The message is the next, with its descriptor; the handler's fs are closed
\* and nothing else.
LEMMA HandledIs ==
  ASSUME StreamInv, NEW fs, ReadRest(fs), closed \in [Fds -> Nat]
  PROVE  /\ Len(handled) \in Nat /\ Len(handled') = Len(handled) + 1
         /\ Len(handled) + 1 \in DOMAIN session
         /\ Word = session[Len(handled) + 1].val /\ Word \in Int
         /\ Fd = IF Len(handled) + 1 \in Fds THEN Len(handled) + 1 ELSE NoFd
         /\ closed' \in [Fds -> Nat] /\ Fds' = Fds
         /\ \A f \in Fds : closed'[f] = IF f \in fs THEN closed[f] + 1 ELSE closed[f]
         /\ UNCHANGED <<session, open>>
<1>. DEFINE L == Len(handled)
<1>1. /\ L \in Nat /\ handled \in Seq(Msgs) /\ sent \in 0 .. Len(session)
      /\ got \in 0 .. Size - 1 /\ Size \in Nat \ {0}
      /\ Len(session) \in Nat /\ DOMAIN session = 1 .. Len(session)
      /\ \A n \in DOMAIN session : session[n].val \in Int
  BY SizeAssumption, SessionType DEF StreamInv, Msgs
<1>2. /\ Read(Rest) /\ handled' = Append(handled, [val |-> Word, fd |-> Fd])
      /\ Close(Dropped(Rest) \cup (fs \ {NoFd}))
      /\ UNCHANGED <<session, open>>
  BY DEF ReadRest, server
<1>3. L + 1 \in 1 .. sent /\ [val |-> Word, fd |-> Fd] = Msg(L + 1)
  BY <1>2, WholeIs
<1>4. L + 1 \in DOMAIN session
  BY <1>1, <1>3
<1>5. /\ Word = session[L + 1].val /\ Word \in Int
      /\ Fd = IF L + 1 \in Fds THEN L + 1 ELSE NoFd
  BY <1>1, <1>3, <1>4 DEF Msg
<1>6. Len(handled') = L + 1
  <2>. DEFINE m == [val |-> Word, fd |-> Fd]
  <2>1. handled' = Append(handled, m)
    BY <1>2
  <2>. HIDE DEF m
  <2>. QED BY <1>1, <2>1
<1>7. Rest \in Nat \ {0} /\ got + Rest <= Size
  BY <1>1 DEF Rest
<1>8. closed' = [f \in Fds |-> IF f \in fs \ {NoFd} THEN closed[f] + 1 ELSE closed[f]]
  BY <1>2, <1>7, NothingDropped DEF Close
<1>9. closed' \in [Fds -> Nat] /\ \A f \in Fds : closed'[f] = IF f \in fs THEN closed[f] + 1 ELSE closed[f]
  BY <1>8, FdsAre
<1>10. Fds' = Fds
  BY <1>2 DEF Fds
<1>. QED BY <1>1, <1>2, <1>4, <1>5, <1>6, <1>9, <1>10

\* A part of a message closes nothing and is never too long.
LEMMA PartIs ==
  ASSUME StreamInv, NEW k \in 1 .. Size, ReadPart(k), closed \in [Fds -> Nat]
  PROVE  /\ closed' = closed /\ phase' = phase /\ phase \in SetupPhases \cup {"running"}
         /\ UNCHANGED <<session, open, handled, device>>
<1>1. /\ got \in 0 .. Size - 1 /\ Size \in Nat \ {0} /\ k \in Nat \ {0}
  BY SizeAssumption DEF StreamInv
<1>2. got + k <= Size
  BY <1>1 DEF ReadPart, Read, Wanted
<1>3. closed' = [f \in Fds |-> IF f \in {} THEN closed[f] + 1 ELSE closed[f]]
  BY <1>1, <1>2, NothingDropped DEF ReadPart, Close
<1>4. closed' = closed
  BY <1>3
<1>5. phase' = phase
  BY <1>1, <1>2 DEF ReadPart
<1>. QED BY <1>4, <1>5 DEF ReadPart, Read, server

-----------------------------------------------------------------------------
(* Tables of peers.                                                        *)

TabOK(tab) ==
  /\ DOMAIN tab \subseteq Nat /\ tab \in [DOMAIN tab -> Entries]
  /\ \A p \in DOMAIN tab : Len(tab[p].fds) <= Vectors

\* Who holds f in tab.
In(tab, f) == {p \in DOMAIN tab : f \in FdsOf(tab, p)}

LEMMA EntriesAre ==
  /\ Vectors \in Nat \ {0}
  /\ Fresh \in Entries /\ Emptied \in Entries
  /\ Fresh.fds = <<>> /\ Emptied.fds = <<>> /\ Len(<<>>) = 0 /\ DOMAIN <<>> = {}
  /\ Fresh.mem = "live" /\ Emptied.mem = "freed"
  /\ \A e \in Entries : e.fds \in Seq(Fds) /\ Len(e.fds) \in Nat /\ e.mem \in {"live", "freed"}
BY TableAssumption DEF Entries, Fresh, Emptied

LEMMA ResizedIs ==
  ASSUME TabOK(peers), NEW p \in Nat
  PROVE  /\ TabOK(Resized(p)) /\ p \in DOMAIN Resized(p)
         /\ DOMAIN peers \subseteq DOMAIN Resized(p)
         /\ \A q \in DOMAIN peers : Resized(p)[q] = peers[q]
         /\ \A q \in DOMAIN Resized(p) \ DOMAIN peers : Resized(p)[q] = Fresh
         /\ \A f : In(Resized(p), f) = Holders(f)
<1>. DEFINE tab == Resized(p)
<1>1. DOMAIN tab = DOMAIN peers \cup 0 .. p
  BY DEF Resized
<1>2. /\ \A q \in DOMAIN peers : tab[q] = peers[q]
      /\ \A q \in DOMAIN tab \ DOMAIN peers : tab[q] = Fresh
  BY DEF Resized
<1>3. tab = [q \in DOMAIN tab |-> tab[q]]
  BY DEF Resized
<1>. HIDE DEF tab
<1>4. TabOK(tab)
  BY <1>1, <1>2, <1>3, EntriesAre DEF TabOK
<1>5. ASSUME NEW f PROVE In(tab, f) = Holders(f)
  BY <1>1, <1>2, EntriesAre DEF In, Holders, FdsOf
<1>. QED BY <1>1, <1>2, <1>4, <1>5 DEF tab

\* f is p's next vector in tab, which becomes new.
Appended(new, tab, p, f) ==
  /\ TabOK(new) /\ DOMAIN new = DOMAIN tab
  /\ \A q \in DOMAIN tab \ {p} : new[q] = tab[q]
  /\ new[p].mem = tab[p].mem /\ Len(new[p].fds) = Len(tab[p].fds) + 1
  /\ In(new, f) = In(tab, f) \cup {p}
  /\ \A g : g # f => In(new, g) = In(tab, g)

LEMMA AppendedIs ==
  ASSUME NEW tab, TabOK(tab), NEW p \in DOMAIN tab, Len(tab[p].fds) < Vectors, NEW f \in Fds
  PROVE  Appended([tab EXCEPT ![p].fds = Append(@, f)], tab, p, f)
<1>. DEFINE old == tab[p].fds
            new == [tab EXCEPT ![p].fds = Append(@, f)]
<1>1. tab[p] \in Entries /\ old \in Seq(Fds) /\ Len(old) \in Nat
  BY EntriesAre DEF TabOK
<1>2. /\ DOMAIN new = DOMAIN tab
      /\ \A q \in DOMAIN tab \ {p} : new[q] = tab[q]
      /\ new[p] = [tab[p] EXCEPT !.fds = Append(old, f)]
  BY DEF TabOK
<1>3. new[p].fds = Append(old, f) /\ new[p].mem = tab[p].mem /\ new[p] \in Entries
  <2>. DEFINE e == tab[p]
  <2>1. Append(old, f) \in Seq(Fds) /\ e \in Entries /\ new[p] = [e EXCEPT !.fds = Append(old, f)]
    BY <1>1, <1>2
  <2>. HIDE DEF e, old
  <2>2. [e EXCEPT !.fds = Append(old, f)] \in Entries
    BY <2>1 DEF Entries
  <2>3. new[p].fds = Append(old, f) /\ new[p].mem = e.mem
    BY <2>1 DEF Entries
  <2>. QED BY <2>1, <2>2, <2>3 DEF e
<1>. HIDE DEF old
<1>4. /\ Len(Append(old, f)) = Len(old) + 1
      /\ {Append(old, f)[n] : n \in DOMAIN Append(old, f)} = {old[n] : n \in DOMAIN old} \cup {f}
  <2>1. /\ DOMAIN Append(old, f) = DOMAIN old \cup {Len(old) + 1}
        /\ \A n \in DOMAIN old : Append(old, f)[n] = old[n]
        /\ Append(old, f)[Len(old) + 1] = f
        /\ Len(Append(old, f)) = Len(old) + 1
    BY <1>1
  <2>. QED BY <2>1
<1>5. TabOK(new)
  <2>1. new = [q \in DOMAIN new |-> new[q]]
    BY DEF TabOK
  <2>2. \A q \in DOMAIN new : new[q] \in Entries /\ Len(new[q].fds) <= Vectors
    BY <1>1, <1>2, <1>3, <1>4, EntriesAre DEF TabOK, old
  <2>. QED BY <1>2, <2>1, <2>2 DEF TabOK
<1>6. /\ FdsOf(new, p) = FdsOf(tab, p) \cup {f}
      /\ \A q \in DOMAIN tab \ {p} : FdsOf(new, q) = FdsOf(tab, q)
  <2>1. FdsOf(new, p) = {Append(old, f)[n] : n \in DOMAIN Append(old, f)}
    BY <1>3 DEF FdsOf
  <2>2. FdsOf(tab, p) = {old[n] : n \in DOMAIN old}
    BY DEF FdsOf, old
  <2>3. FdsOf(new, p) = FdsOf(tab, p) \cup {f}
    BY <1>4, <2>1, <2>2
  <2>4. \A q \in DOMAIN tab \ {p} : FdsOf(new, q) = FdsOf(tab, q)
    BY <1>2 DEF FdsOf
  <2>. QED BY <2>3, <2>4
<1>7. In(new, f) = In(tab, f) \cup {p} /\ \A g : g # f => In(new, g) = In(tab, g)
  BY <1>2, <1>6 DEF In
<1>. HIDE DEF new
<1>8. Appended(new, tab, p, f)
  BY <1>2, <1>3, <1>4, <1>5, <1>7 DEF old, Appended
<1>. QED BY <1>8 DEF new

\* p's entry of tab, which becomes new, is closed.
ClosedIn(new, tab, p) ==
  /\ TabOK(new) /\ DOMAIN new = DOMAIN tab
  /\ \A q \in DOMAIN tab \ {p} : new[q] = tab[q]
  /\ new[p] = Emptied
  /\ \A g : In(new, g) = In(tab, g) \ {p}

LEMMA EmptiedIs ==
  ASSUME NEW tab, TabOK(tab), NEW p \in DOMAIN tab
  PROVE  ClosedIn([tab EXCEPT ![p] = Emptied], tab, p)
<1>. DEFINE new == [tab EXCEPT ![p] = Emptied]
<1>1. /\ DOMAIN new = DOMAIN tab /\ new[p] = Emptied
      /\ \A q \in DOMAIN tab \ {p} : new[q] = tab[q]
      /\ new = [q \in DOMAIN new |-> new[q]]
  BY DEF TabOK
<1>2. TabOK(new)
  BY <1>1, EntriesAre DEF TabOK
<1>3. FdsOf(new, p) = {} /\ \A q \in DOMAIN tab \ {p} : FdsOf(new, q) = FdsOf(tab, q)
  BY <1>1, EntriesAre DEF FdsOf
<1>. HIDE DEF new
<1>4. \A g : In(new, g) = In(tab, g) \ {p}
  BY <1>1, <1>3 DEF In
<1>5. ClosedIn(new, tab, p)
  BY <1>1, <1>2, <1>4 DEF ClosedIn
<1>. QED BY <1>5 DEF new

-----------------------------------------------------------------------------
(* What a handler keeps of the invariant.                                  *)

\* The types of what the device keeps besides the stream.
DeviceTyped ==
  /\ open \in BOOLEAN /\ phase \in Phases
  /\ vmId \in NoId .. MaxPeers /\ bar2 \in Fds \cup {NoFd}
  /\ TabOK(peers)
  /\ watched \subseteq 0 .. Vectors - 1
  /\ closed \in [Fds -> Nat]

DeviceInv ==
  /\ StreamInv
  /\ DeviceTyped
  /\ PlacesInv
  /\ PhaseInv
  /\ WatchInv
  /\ FreedInv

LEMMA PhasesAre ==
  /\ SetupPhases = {"version", "id", "shm"}
  /\ Phases = {"version", "id", "shm", "running", "failed", "dead", "gone", "crashed"}
BY DEF SetupPhases, Phases

\* A descriptor whose holders, closes and mapping are what they were.
LEMMA PlaceKept ==
  ASSUME NEW f, In(peers', f) = Holders(f), closed'[f] = closed[f], bar2' = f <=> bar2 = f,
         DOMAIN peers \subseteq DOMAIN peers'
  PROVE  (Placed(f) => Placed(f)') /\ (Unknown(f) => Unknown(f)')
<1>1. Holders(f)' = Holders(f)
  BY DEF Holders, In
<1>2. closed[f]' = closed[f] /\ (bar2' # f <=> bar2 # f)
  OBVIOUS
<1>3. (\E p \in DOMAIN peers : Holders(f) = {p}) => \E p \in DOMAIN peers' : Holders(f)' = {p}
  BY <1>1
<1>. QED BY <1>1, <1>2, <1>3 DEF Placed, Unknown

\* Message n is handled: the others' descriptors keep their place and its own
\* gets one.
LEMMA PlacesStep ==
  ASSUME StreamInv, PlacesInv, phase # "failed", Fds' = Fds,
         NEW n \in Nat, n = Len(handled) + 1, Len(handled') = n,
         \A f \in Fds : f # n => (Placed(f) => Placed(f)') /\ (Unknown(f) => Unknown(f)'),
         n \in Fds /\ Unknown(n) => Placed(n)'
  PROVE  PlacesInv'
<1>. SUFFICES ASSUME NEW f \in Fds
              PROVE  IF f <= n THEN Placed(f)' ELSE Unknown(f)'
  BY DEF PlacesInv
<1>1. f \in Nat /\ Len(handled) \in Nat
  BY FdsAre DEF StreamInv
<1>2. IF f <= Len(handled) THEN Placed(f) ELSE Unknown(f)
  BY DEF PlacesInv
<1>3. CASE f = n
  BY <1>1, <1>2, <1>3
<1>4. CASE f # n
  BY <1>1, <1>2, <1>4
<1>. QED BY <1>3, <1>4

LEMMA PhaseStep ==
  ASSUME DeviceInv, UNCHANGED <<session, vmId>>, phase \in {"shm", "running"},
         NEW n \in Nat, n = Len(handled) + 1, Len(handled') = n,
         \/ phase' \in {"running", "failed", "dead"}
         \/ phase' = phase /\ (phase = "shm" => session[n].val # Shm),
         phase' = "running" => bar2' # NoFd \/ (phase = "running" /\ bar2' = bar2)
  PROVE  PhaseInv'
<1>1. Len(handled) \in Nat /\ Len(handled) >= 2 /\ vmId = session[2].val
  BY DEF DeviceInv, StreamInv, PhaseInv
<1>2. \A m \in 1 .. n : m = n \/ m \in 1 .. Len(handled)
  BY <1>1
<1>3. phase' = "running" => bar2' # NoFd
  BY DEF DeviceInv, PhaseInv
<1>. QED BY <1>1, <1>2, <1>3, PhasesAre DEF DeviceInv, PhaseInv

LEMMA FreedStep ==
  ASSUME DeviceInv, UNCHANGED <<session, vmId>>, phase \in {"shm", "running"},
         NEW n \in Nat, n = Len(handled) + 1, Len(handled') = n,
         \A p \in DOMAIN peers' : peers'[p].mem = "freed" =>
           \/ p \in DOMAIN peers /\ peers[p].mem = "freed"
           \/ p # vmId /\ IsGone(session[n]) /\ session[n].val = p
  PROVE  FreedInv'
<1>1. Len(handled) \in Nat /\ Len(handled) >= 2
  BY DEF DeviceInv, StreamInv, PhaseInv
<1>2. n \in 3 .. n /\ 3 .. Len(handled) \subseteq 3 .. n
  BY <1>1
<1>. SUFFICES ASSUME NEW p \in DOMAIN peers', peers'[p].mem = "freed"
              PROVE  p # vmId /\ \E m \in 3 .. n : IsGone(session[m]) /\ session[m].val = p
  BY DEF FreedInv, IsGone, ValidId
<1>3. CASE p \in DOMAIN peers /\ peers[p].mem = "freed"
  <2>1. p # vmId /\ \E m \in 3 .. Len(handled) : IsGone(session[m]) /\ session[m].val = p
    BY <1>3, PhasesAre DEF DeviceInv, FreedInv
  <2>. QED BY <1>2, <2>1
<1>4. CASE p # vmId /\ IsGone(session[n]) /\ session[n].val = p
  BY <1>2, <1>4
<1>. QED BY <1>3, <1>4

LEMMA WatchStep ==
  ASSUME DeviceInv, UNCHANGED <<vmId, watched>>,
         phase' \in SetupPhases => phase \in SetupPhases,
         phase' = "running" => phase \in {"shm", "running"},
         vmId \in DOMAIN peers => vmId \in DOMAIN peers' /\ peers'[vmId].fds = peers[vmId].fds
  PROVE  WatchInv'
BY PhasesAre DEF DeviceInv, WatchInv

\* A message is refused: its descriptor, if there is one, is closed, and the
\* table has at most grown.
LEMMA RefusalKeeps ==
  ASSUME DeviceInv, Processing, NEW fs, ReadRest(fs), fs = {Fd} \/ (fs = {} /\ Fd = NoFd),
         NEW tab, peers' = tab, TabOK(tab), DOMAIN peers \subseteq DOMAIN tab,
         \A p \in DOMAIN peers : tab[p] = peers[p],
         \A p \in DOMAIN tab \ DOMAIN peers : tab[p] = Fresh,
         \A f : In(tab, f) = Holders(f),
         UNCHANGED <<vmId, bar2, watched>>, phase' = Refused
  PROVE  DeviceInv'
<1>1. StreamInv' /\ StreamInv /\ phase \in {"shm", "running"} /\ closed \in [Fds -> Nat]
  BY RestHandles DEF DeviceInv, DeviceTyped, Processing
<1>2. PICK n \in Nat : n = Len(handled) + 1
  BY <1>1, HandledIs
<1>3. /\ Len(handled') = n /\ n \in DOMAIN session
      /\ Fd = IF n \in Fds THEN n ELSE NoFd
      /\ closed' \in [Fds -> Nat] /\ Fds' = Fds
      /\ \A f \in Fds : closed'[f] = IF f \in fs THEN closed[f] + 1 ELSE closed[f]
      /\ UNCHANGED <<session, open>>
  BY <1>1, <1>2, HandledIs
<1>4. phase' \in {"failed", "running"} /\ (phase' = "running" => phase = "running")
  BY <1>1 DEF Refused
<1>5. DeviceTyped'
  <2>1. TabOK(peers)'
    BY <1>3 DEF TabOK, Entries
  <2>. QED BY <1>3, <1>4, <2>1, PhasesAre DEF DeviceInv, DeviceTyped
<1>6. PlacesInv'
  <2>1. \A f \in Fds : f # n => (Placed(f) => Placed(f)') /\ (Unknown(f) => Unknown(f)')
    <3>. SUFFICES ASSUME NEW f \in Fds, f # n
                  PROVE  (Placed(f) => Placed(f)') /\ (Unknown(f) => Unknown(f)')
      OBVIOUS
    <3>1. f \notin fs
      BY <1>1, <1>3, FdsAre
    <3>. QED BY <1>3, <3>1, PlaceKept
  <2>2. ASSUME n \in Fds, Unknown(n) PROVE Placed(n)'
    <3>1. n \in fs /\ closed[n] = 0 /\ bar2 # n /\ Holders(n) = {}
      BY <1>1, <1>3, <2>2, FdsAre DEF Unknown
    <3>2. closed'[n] = 1 /\ bar2' # n
      BY <1>3, <2>2, <3>1
    <3>3. Holders(n)' = {}
      BY <3>1 DEF Holders, In
    <3>. QED BY <3>2, <3>3 DEF Placed
  <2>. QED BY <1>1, <1>2, <1>3, <2>1, <2>2, PlacesStep DEF DeviceInv
<1>7. PhaseInv'
  BY <1>1, <1>2, <1>3, <1>4, PhaseStep
<1>8. FreedInv'
  <2>1. \A p \in DOMAIN peers' : peers'[p].mem = "freed" => p \in DOMAIN peers /\ peers[p].mem = "freed"
    BY EntriesAre
  <2>. QED BY <1>1, <1>2, <1>3, <2>1, FreedStep
<1>9. WatchInv'
  BY <1>4, WatchStep, PhasesAre
<1>. QED BY <1>1, <1>5, <1>6, <1>7, <1>8, <1>9 DEF DeviceInv

-----------------------------------------------------------------------------
(* The handlers.                                                           *)

\* A table that stays as it is.
LEMMA SameTable ==
  /\ DOMAIN peers \subseteq DOMAIN peers
  /\ \A p \in DOMAIN peers : peers[p] = peers[p]
  /\ \A p \in DOMAIN peers \ DOMAIN peers : peers[p] = Fresh
  /\ \A f : In(peers, f) = Holders(f)
BY DEF In, Holders

LEMMA ValidIds ==
  ASSUME DeviceInv
  PROVE  /\ \A p \in Int : ValidId(p) => p \in Nat
         /\ phase \in {"shm", "running"} => vmId = session[2].val /\ vmId \in Nat
         /\ TabOK(peers) /\ closed \in [Fds -> Nat]
<1>1. vmId \in NoId .. MaxPeers /\ (phase \in {"shm", "running"} => vmId = session[2].val /\ vmId # NoId)
  BY DEF DeviceInv, DeviceTyped, PhaseInv
<1>2. phase \in {"shm", "running"} => vmId \in Nat
  BY <1>1, TableAssumption DEF NoId
<1>. QED BY <1>1, <1>2 DEF ValidId, DeviceInv, DeviceTyped

LEMMA RejectInv ==
  ASSUME DeviceInv, RejectMsg \/ RefuseShm
  PROVE  DeviceInv'
<1>1. /\ Processing /\ ReadRest({Fd}) /\ UNCHANGED device /\ phase' = Refused
  BY DEF RejectMsg, RefuseShm
<1>2. UNCHANGED <<vmId, bar2, peers, watched>>
  BY <1>1 DEF device
<1>. QED BY <1>1, <1>2, SameTable, ValidIds, RefusalKeeps

LEMMA RefuseFdInv ==
  ASSUME DeviceInv, RefuseFd
  PROVE  DeviceInv'
<1>1. /\ Processing /\ ReadRest({Fd}) /\ ValidId(Word) /\ phase' = Refused
      /\ peers' = Resized(Word) /\ UNCHANGED <<vmId, bar2, watched>>
  BY DEF RefuseFd, Surplus
<1>2. Word \in Nat /\ TabOK(peers)
  BY <1>1, HandledIs, ValidIds DEF DeviceInv
<1>. DEFINE tab == Resized(Word)
<1>3. /\ peers' = tab /\ TabOK(tab) /\ DOMAIN peers \subseteq DOMAIN tab
      /\ \A p \in DOMAIN peers : tab[p] = peers[p]
      /\ \A p \in DOMAIN tab \ DOMAIN peers : tab[p] = Fresh
      /\ \A f : In(tab, f) = Holders(f)
  BY <1>1, <1>2, ResizedIs
<1>. HIDE DEF tab
<1>. QED BY <1>1, <1>3, RefusalKeeps

LEMMA RefuseGoneInv ==
  ASSUME DeviceInv, RefuseGone
  PROVE  DeviceInv'
<1>1. /\ Processing /\ ReadRest({}) /\ Fd = NoFd /\ Word = vmId /\ phase' = Refused
      /\ peers' = Resized(Word) /\ UNCHANGED <<vmId, bar2, watched>>
  BY DEF RefuseGone
<1>. DEFINE tab == Resized(Word)
<1>2. TabOK(peers) /\ phase \in {"shm", "running"}
  BY <1>1, ValidIds DEF Processing
<1>3. Word \in Nat
  BY <1>1, <1>2, ValidIds
<1>4. /\ peers' = tab /\ TabOK(tab) /\ DOMAIN peers \subseteq DOMAIN tab
      /\ \A p \in DOMAIN peers : tab[p] = peers[p]
      /\ \A p \in DOMAIN tab \ DOMAIN peers : tab[p] = Fresh
      /\ \A f : In(tab, f) = Holders(f)
  BY <1>1, <1>3, <1>2, ResizedIs
<1>. HIDE DEF tab
<1>. QED BY <1>1, <1>4, RefusalKeeps

LEMMA MapShmInv ==
  ASSUME DeviceInv, MapShm
  PROVE  DeviceInv'
<1>1. /\ Processing /\ Word = Shm /\ bar2 = NoFd /\ Fd # NoFd
      /\ UNCHANGED <<vmId, peers, watched>>
  BY DEF MapShm
<1>2. CASE ReadRest({Fd}) /\ bar2' = NoFd /\ phase' = Refused
  BY <1>1, <1>2, SameTable, ValidIds, RefusalKeeps
<1>3. CASE ReadRest({}) /\ bar2' = Fd /\ phase' = Realized
  <2>1. StreamInv' /\ StreamInv /\ phase \in {"shm", "running"} /\ closed \in [Fds -> Nat]
    BY <1>1, <1>3, RestHandles DEF DeviceInv, DeviceTyped, Processing
  <2>2. PICK n \in Nat : n = Len(handled) + 1
    BY <1>3, <2>1, HandledIs
  <2>3. /\ Len(handled') = n
        /\ Fd = n /\ n \in Fds
        /\ closed' \in [Fds -> Nat] /\ Fds' = Fds
        /\ \A f \in Fds : closed'[f] = closed[f]
        /\ UNCHANGED <<session, open>>
    BY <1>1, <1>3, <2>1, <2>2, HandledIs
  <2>4. phase' \in {"failed", "running"}
    BY <1>3 DEF Realized
  <2>5. DeviceTyped'
    <3>1. TabOK(peers)'
      BY <1>1, <2>3 DEF TabOK, Entries, DeviceInv, DeviceTyped
    <3>. QED BY <1>1, <1>3, <2>3, <2>4, <3>1, PhasesAre DEF DeviceInv, DeviceTyped
  <2>6. PlacesInv'
    <3>1. ASSUME NEW f \in Fds, f # n
          PROVE  (Placed(f) => Placed(f)') /\ (Unknown(f) => Unknown(f)')
      <4>1. bar2' = f <=> bar2 = f
        BY <1>1, <1>3, <2>1, <2>3, <3>1, FdsAre
      <4>2. In(peers', f) = Holders(f) /\ closed'[f] = closed[f]
        BY <1>1, <2>3, SameTable
      <4>. QED BY <1>1, <4>1, <4>2, PlaceKept
    <3>2. ASSUME Unknown(n) PROVE Placed(n)'
      <4>1. Holders(n)' = {} /\ closed'[n] = 0 /\ bar2' = n
        BY <1>1, <1>3, <2>3, <3>2 DEF Unknown, Holders, FdsOf
      <4>. QED BY <4>1 DEF Placed
    <3>. QED BY <2>1, <2>2, <2>3, <3>1, <3>2, PlacesStep DEF DeviceInv
  <2>7. PhaseInv'
    BY <1>1, <1>3, <2>1, <2>2, <2>3, <2>4, PhaseStep
  <2>8. FreedInv'
    BY <1>1, <2>1, <2>2, <2>3, FreedStep
  <2>9. WatchInv'
    BY <1>1, <2>1, <2>4, WatchStep, PhasesAre
  <2>. QED BY <2>1, <2>5, <2>6, <2>7, <2>8, <2>9 DEF DeviceInv
<1>4. CASE ReadRest({}) /\ bar2' = NoFd /\ phase' = Refused
  <2>1. StreamInv' /\ StreamInv /\ phase \in {"shm", "running"} /\ closed \in [Fds -> Nat]
    BY <1>1, <1>4, RestHandles DEF DeviceInv, DeviceTyped, Processing
  <2>2. phase = "shm" /\ phase' = "failed"
    BY <1>1, <1>4, <2>1 DEF DeviceInv, PhaseInv, Refused
  <2>3. PICK n \in Nat : n = Len(handled) + 1
    BY <1>4, <2>1, HandledIs
  <2>4. /\ Len(handled') = n
        /\ closed' \in [Fds -> Nat] /\ Fds' = Fds
        /\ UNCHANGED <<session, open>>
    BY <1>1, <1>4, <2>1, <2>3, HandledIs
  <2>5. DeviceTyped'
    <3>1. TabOK(peers)'
      BY <1>1, <2>4 DEF TabOK, Entries, DeviceInv, DeviceTyped
    <3>. QED BY <1>1, <1>4, <2>2, <2>4, <3>1, PhasesAre DEF DeviceInv, DeviceTyped
  <2>6. PlacesInv'
    BY <2>2 DEF PlacesInv
  <2>7. PhaseInv'
    BY <1>1, <2>1, <2>2, <2>3, <2>4, PhaseStep
  <2>8. FreedInv'
    BY <1>1, <2>1, <2>3, <2>4, FreedStep
  <2>9. WatchInv'
    BY <1>1, <2>1, <2>2, WatchStep, PhasesAre
  <2>. QED BY <2>1, <2>5, <2>6, <2>7, <2>8, <2>9 DEF DeviceInv
<1>. QED BY <1>2, <1>3, <1>4, <1>1 DEF MapShm

\* The descriptor is the peer's from now on, whatever became of its entry before.
LEMMA ConnectInv ==
  ASSUME DeviceInv, Connect
  PROVE  DeviceInv'
<1>. DEFINE p      == Word
            tab    == Resized(p)
            vector == Len(tab[p].fds)
<1>1. /\ Processing /\ ValidId(p) /\ Fd # NoFd /\ vector < Vectors /\ ReadRest({})
      /\ peers' = [tab EXCEPT ![p].fds = Append(@, Fd)]
      /\ IF p # vmId
         THEN phase' \in Using(tab[p]) /\ UNCHANGED watched
         ELSE /\ watched' = watched \cup {vector}
              /\ phase' \in Watching(vector, tab)
      /\ UNCHANGED <<vmId, bar2>>
  BY DEF Connect
<1>2. /\ StreamInv' /\ StreamInv /\ phase \in {"shm", "running"} /\ closed \in [Fds -> Nat]
      /\ TabOK(peers)
  BY <1>1, RestHandles DEF DeviceInv, DeviceTyped, Processing
<1>3. PICK n \in Nat : n = Len(handled) + 1
  BY <1>1, <1>2, HandledIs
<1>4. /\ Len(handled') = n /\ p = session[n].val /\ p \in Int
      /\ Fd = n /\ n \in Fds
      /\ closed' \in [Fds -> Nat] /\ Fds' = Fds
      /\ \A f \in Fds : closed'[f] = closed[f]
      /\ UNCHANGED <<session, open>>
  BY <1>1, <1>2, <1>3, HandledIs
<1>5. p \in Nat
  BY <1>1, <1>4, ValidIds
<1>6. /\ TabOK(tab) /\ p \in DOMAIN tab /\ DOMAIN peers \subseteq DOMAIN tab
      /\ \A q \in DOMAIN peers : tab[q] = peers[q]
      /\ \A q \in DOMAIN tab \ DOMAIN peers : tab[q] = Fresh
      /\ \A f : In(tab, f) = Holders(f)
  BY <1>2, <1>5, ResizedIs
<1>. HIDE DEF p, tab
<1>7. /\ vector \in Nat /\ vector < Vectors
  BY <1>1, <1>6, EntriesAre DEF TabOK
<1>8. /\ TabOK(peers') /\ DOMAIN peers' = DOMAIN tab
      /\ \A q \in DOMAIN tab \ {p} : peers'[q] = tab[q]
      /\ peers'[p].mem = tab[p].mem /\ Len(peers'[p].fds) = vector + 1
      /\ In(peers', n) = In(tab, n) \cup {p}
      /\ \A g : g # n => In(peers', g) = In(tab, g)
  <2>1. PICK t, q, new : t = tab /\ q = p /\ new = peers'
    OBVIOUS
  <2>2. TabOK(t) /\ q \in DOMAIN t /\ Len(t[q].fds) < Vectors /\ n \in Fds
    BY <1>1, <1>4, <1>6, <2>1
  <2>3. new = [t EXCEPT ![q].fds = Append(@, n)]
    BY <1>1, <1>4, <2>1
  <2>4. /\ TabOK(new) /\ DOMAIN new = DOMAIN t
        /\ \A r \in DOMAIN t \ {q} : new[r] = t[r]
        /\ new[q].mem = t[q].mem /\ Len(new[q].fds) = Len(t[q].fds) + 1
        /\ In(new, n) = In(t, n) \cup {q}
        /\ \A g : g # n => In(new, g) = In(t, g)
    <3>1. Appended([t EXCEPT ![q].fds = Append(@, n)], t, q, n)
      BY <2>2, AppendedIs
    <3>. QED BY <2>3, <3>1 DEF Appended
  <2>. QED BY <2>1, <2>4
<1>. HIDE DEF vector
<1>9. phase' \in {phase, "dead"}
  BY <1>1 DEF Using, Watching, Announcing
<1>10. DeviceTyped'
  <2>1. TabOK(peers)'
    BY <1>4, <1>8 DEF TabOK, Entries
  <2>2. watched' \subseteq 0 .. Vectors - 1
    <3>1. vector \in 0 .. Vectors - 1
      BY <1>7, EntriesAre
    <3>. QED BY <1>1, <3>1 DEF DeviceInv, DeviceTyped
  <2>. QED BY <1>1, <1>2, <1>4, <1>9, <2>1, <2>2, PhasesAre DEF DeviceInv, DeviceTyped
<1>11. PlacesInv'
  <2>1. ASSUME NEW f \in Fds, f # n
        PROVE  (Placed(f) => Placed(f)') /\ (Unknown(f) => Unknown(f)')
    <3>1. In(peers', f) = Holders(f) /\ closed'[f] = closed[f] /\ DOMAIN peers \subseteq DOMAIN peers'
      BY <1>4, <1>6, <1>8, <2>1
    <3>. QED BY <1>1, <3>1, PlaceKept
  <2>2. ASSUME Unknown(n) PROVE Placed(n)'
    <3>1. In(peers', n) = {p} /\ p \in DOMAIN peers'
      BY <1>6, <1>8, <2>2 DEF Unknown
    <3>2. Holders(n)' = {p}
      BY <3>1 DEF Holders, In
    <3>3. closed'[n] = 0 /\ bar2' # n
      BY <1>1, <1>4, <2>2 DEF Unknown
    <3>. QED BY <3>1, <3>2, <3>3 DEF Placed
  <2>. QED BY <1>2, <1>3, <1>4, <2>1, <2>2, PlacesStep DEF DeviceInv
<1>12. PhaseInv'
  <2>1. session[n].val # Shm
    BY <1>4, <1>5 DEF Shm
  <2>. QED BY <1>1, <1>2, <1>3, <1>4, <1>9, <2>1, PhaseStep
<1>13. FreedInv'
  <2>1. ASSUME NEW q \in DOMAIN peers', peers'[q].mem = "freed"
        PROVE  q \in DOMAIN peers /\ peers[q].mem = "freed"
    BY <1>6, <1>8, <2>1, EntriesAre
  <2>. QED BY <1>1, <1>2, <1>3, <1>4, <2>1, FreedStep
<1>14. WatchInv'
  <2>1. CASE p # vmId
    <3>1. vmId \in DOMAIN peers => vmId \in DOMAIN peers' /\ peers'[vmId].fds = peers[vmId].fds
      BY <1>6, <1>8, <2>1
    <3>. QED BY <1>1, <1>2, <1>9, <2>1, <3>1, WatchStep, PhasesAre
  <2>2. CASE p = vmId
    <3>1. watched' = watched \cup {vector} /\ (phase' # "dead" => phase' = phase /\ phase # "shm")
      BY <1>1, <1>9, <2>2 DEF Unwatchable, Watching
    <3>. SUFFICES ASSUME phase' = "running", NEW k \in watched'
                  PROVE  vmId \in DOMAIN peers' /\ k < vector + 1
      BY <1>1, <1>2, <1>8, <1>9, <2>2, <3>1, PhasesAre DEF WatchInv
    <3>2. phase = "running"
      BY <3>1
    <3>3. k = vector \/ (vmId \in DOMAIN peers /\ k < Len(peers[vmId].fds) /\ k \in Nat)
      BY <3>1, <3>2 DEF DeviceInv, DeviceTyped, WatchInv
    <3>4. vmId \in DOMAIN peers => Len(peers[vmId].fds) = vector
      BY <1>6, <2>2 DEF vector
    <3>5. vmId \in DOMAIN peers'
      BY <1>6, <1>8, <2>2
    <3>. QED BY <1>7, <3>3, <3>4, <3>5
  <2>. QED BY <2>1, <2>2
<1>. QED BY <1>2, <1>10, <1>11, <1>12, <1>13, <1>14 DEF DeviceInv

LEMMA DisconnectInv ==
  ASSUME DeviceInv, Disconnect
  PROVE  DeviceInv'
<1>. DEFINE p   == Word
            tab == Resized(p)
            fs  == FdsOf(tab, p)
<1>1. /\ Processing /\ ValidId(p) /\ Fd = NoFd /\ p # vmId /\ ReadRest(fs)
      /\ peers' = [tab EXCEPT ![p] = Emptied]
      /\ phase' \in Using(tab[p])
      /\ UNCHANGED <<vmId, bar2, watched>>
  BY DEF Disconnect
<1>2. /\ StreamInv' /\ StreamInv /\ phase \in {"shm", "running"} /\ closed \in [Fds -> Nat]
      /\ TabOK(peers)
  BY <1>1, RestHandles DEF DeviceInv, DeviceTyped, Processing
<1>3. PICK n \in Nat : n = Len(handled) + 1
  BY <1>1, <1>2, HandledIs
<1>4. /\ Len(handled') = n /\ p = session[n].val /\ p \in Int
      /\ n \notin Fds /\ n \in DOMAIN session
      /\ closed' \in [Fds -> Nat] /\ Fds' = Fds
      /\ \A f \in Fds : closed'[f] = IF f \in fs THEN closed[f] + 1 ELSE closed[f]
      /\ UNCHANGED <<session, open>>
  <2>. HIDE DEF fs
  <2>1. /\ Len(handled') = n /\ p = session[n].val /\ p \in Int
        /\ Fd = IF n \in Fds THEN n ELSE NoFd
        /\ n \in DOMAIN session
        /\ closed' \in [Fds -> Nat] /\ Fds' = Fds
        /\ \A f \in Fds : closed'[f] = IF f \in fs THEN closed[f] + 1 ELSE closed[f]
        /\ UNCHANGED <<session, open>>
    BY <1>1, <1>2, <1>3, HandledIs
  <2>2. n \notin Fds
    BY <1>1, <1>2, <2>1, FdsAre
  <2>. QED BY <2>1, <2>2
<1>5. p \in Nat
  BY <1>1, <1>4, ValidIds
<1>6. /\ TabOK(tab) /\ p \in DOMAIN tab /\ DOMAIN peers \subseteq DOMAIN tab
      /\ \A q \in DOMAIN peers : tab[q] = peers[q]
      /\ \A q \in DOMAIN tab \ DOMAIN peers : tab[q] = Fresh
      /\ \A f : In(tab, f) = Holders(f)
  BY <1>2, <1>5, ResizedIs
<1>. HIDE DEF p, tab
<1>7. /\ TabOK(peers') /\ DOMAIN peers' = DOMAIN tab
      /\ \A q \in DOMAIN tab \ {p} : peers'[q] = tab[q]
      /\ peers'[p] = Emptied
      /\ \A g : In(peers', g) = In(tab, g) \ {p}
  <2>1. PICK t, q, new : t = tab /\ q = p /\ new = peers'
    OBVIOUS
  <2>2. TabOK(t) /\ q \in DOMAIN t /\ new = [t EXCEPT ![q] = Emptied]
    BY <1>1, <1>6, <2>1
  <2>3. /\ TabOK(new) /\ DOMAIN new = DOMAIN t
        /\ \A r \in DOMAIN t \ {q} : new[r] = t[r]
        /\ new[q] = Emptied
        /\ \A g : In(new, g) = In(t, g) \ {q}
    <3>1. ClosedIn([t EXCEPT ![q] = Emptied], t, q)
      BY <2>2, EmptiedIs
    <3>. QED BY <2>2, <3>1 DEF ClosedIn
  <2>. QED BY <2>1, <2>3
<1>8. \A f \in Fds : f \in fs <=> p \in In(tab, f)
  BY <1>6 DEF In
<1>. HIDE DEF fs
<1>9. phase' \in {phase, "dead"}
  BY <1>1 DEF Using
<1>10. DeviceTyped'
  <2>1. TabOK(peers)'
    BY <1>4, <1>7 DEF TabOK, Entries
  <2>. QED BY <1>1, <1>2, <1>4, <1>9, <2>1, PhasesAre DEF DeviceInv, DeviceTyped
<1>11. PlacesInv'
  <2>. SUFFICES ASSUME NEW f \in Fds
                PROVE  (Placed(f) => Placed(f)') /\ (Unknown(f) => Unknown(f)')
    BY <1>2, <1>3, <1>4, PlacesStep DEF DeviceInv
  <2>0. In(peers', f) = Holders(f) \ {p} /\ (f \in fs <=> p \in Holders(f))
    BY <1>6, <1>7, <1>8
  <2>1. CASE p \in Holders(f)
    <3>1. Holders(f)' = Holders(f) \ {p} /\ closed'[f] = closed[f] + 1 /\ bar2' = bar2
      <4>1. Holders(f)' = In(peers', f)
        BY DEF Holders, In
      <4>. QED BY <1>1, <1>4, <2>0, <2>1, <4>1
    <3>2. ~Unknown(f) /\ (Placed(f) => Holders(f) = {p} /\ closed[f] = 0 /\ bar2 # f)
      BY <2>1 DEF Unknown, Placed
    <3>3. Placed(f) => Holders(f)' = {} /\ closed'[f] = 1 /\ bar2' # f
      BY <3>1, <3>2
    <3>. QED BY <3>2, <3>3 DEF Placed
  <2>2. CASE p \notin Holders(f)
    <3>1. In(peers', f) = Holders(f) /\ closed'[f] = closed[f] /\ DOMAIN peers \subseteq DOMAIN peers'
      <4>1. Holders(f) \ {p} = Holders(f)
        BY <2>2
      <4>. QED BY <1>4, <1>6, <1>7, <2>0, <2>2, <4>1
    <3>. QED BY <1>1, <3>1, PlaceKept
  <2>. QED BY <2>1, <2>2
<1>12. PhaseInv'
  <2>1. session[n].val # Shm
    BY <1>4, <1>5 DEF Shm
  <2>. QED BY <1>1, <1>2, <1>3, <1>4, <1>9, <2>1, PhaseStep
<1>13. FreedInv'
  <2>1. ASSUME NEW q \in DOMAIN peers', peers'[q].mem = "freed"
        PROVE  \/ q \in DOMAIN peers /\ peers[q].mem = "freed"
               \/ q # vmId /\ IsGone(session[n]) /\ session[n].val = q
    <3>1. CASE q # p
      BY <1>6, <1>7, <2>1, <3>1, EntriesAre
    <3>2. CASE q = p
      <4>1. ~session[n].fd
        BY <1>4 DEF Fds
      <4>. QED BY <1>1, <1>4, <3>2, <4>1 DEF IsGone
    <3>. QED BY <3>1, <3>2
  <2>. QED BY <1>1, <1>2, <1>3, <1>4, <2>1, FreedStep
<1>14. WatchInv'
  <2>1. vmId \in DOMAIN peers => vmId \in DOMAIN peers' /\ peers'[vmId].fds = peers[vmId].fds
    BY <1>1, <1>6, <1>7
  <2>. QED BY <1>1, <1>2, <1>9, <2>1, WatchStep, PhasesAre
<1>. QED BY <1>2, <1>10, <1>11, <1>12, <1>13, <1>14 DEF DeviceInv

\* The first two messages of the setup.
LEMMA SetupInv ==
  ASSUME DeviceInv, SetupVersion \/ SetupId
  PROVE  DeviceInv'
<1>1. /\ ReadRest({}) /\ phase \in {"version", "id"}
      /\ UNCHANGED <<bar2, peers, watched>>
      /\ phase = "version" =>
           /\ phase' = IF Word = Version /\ Fd = NoFd THEN "id" ELSE "failed"
           /\ vmId' = vmId
      /\ phase = "id" =>
           IF ValidId(Word) /\ Fd = NoFd
           THEN phase' = "shm" /\ vmId' = Word
           ELSE phase' = "failed" /\ vmId' = vmId
  BY DEF SetupVersion, SetupId, device
<1>2. StreamInv' /\ StreamInv /\ closed \in [Fds -> Nat]
  BY <1>1, RestHandles DEF DeviceInv, DeviceTyped
<1>3. PICK n \in Nat : n = Len(handled) + 1
  BY <1>1, <1>2, HandledIs
<1>4. /\ Len(handled') = n /\ Word = session[n].val /\ Word \in Int
      /\ Fd = IF n \in Fds THEN n ELSE NoFd
      /\ closed' \in [Fds -> Nat] /\ Fds' = Fds
      /\ \A f \in Fds : closed'[f] = closed[f]
      /\ UNCHANGED <<session, open>>
  BY <1>1, <1>2, <1>3, HandledIs
<1>5. n = IF phase = "version" THEN 1 ELSE 2
  <2>1. (phase = "version" => Len(handled) = 0) /\ (phase = "id" => Len(handled) = 1)
    BY DEF DeviceInv, PhaseInv
  <2>2. phase = "version" \/ phase = "id"
    BY <1>1
  <2>3. CASE phase = "version"
    BY <1>3, <2>1, <2>3
  <2>4. CASE phase = "id"
    <3>1. Len(handled) = 1
      BY <2>1, <2>4
    <3>2. n = 1 + 1
      BY <1>3, <3>1
    <3>. QED BY <2>4, <3>2
  <2>. QED BY <2>2, <2>3, <2>4
<1>6. DeviceTyped'
  <2>1. TabOK(peers)'
    BY <1>1, <1>4 DEF TabOK, Entries, DeviceInv, DeviceTyped
  <2>2. vmId' \in NoId .. MaxPeers
    BY <1>1, <1>4, TableAssumption DEF DeviceInv, DeviceTyped, ValidId, NoId
  <2>. QED BY <1>1, <1>4, <2>1, <2>2, PhasesAre DEF DeviceInv, DeviceTyped
<1>7. PlacesInv'
  <2>1. CASE Fd # NoFd
    BY <1>1, <2>1 DEF PlacesInv
  <2>2. CASE Fd = NoFd
    <3>1. n \notin Fds
      BY <1>2, <1>4, <2>2, FdsAre
    <3>2. ASSUME NEW f \in Fds PROVE (Placed(f) => Placed(f)') /\ (Unknown(f) => Unknown(f)')
      BY <1>1, <1>4, SameTable, PlaceKept
    <3>. QED BY <1>1, <1>2, <1>3, <1>4, <3>1, <3>2, PlacesStep DEF DeviceInv
  <2>. QED BY <2>1, <2>2
<1>8. PhaseInv'
  <2>1. \A m \in 1 .. n : m = n \/ m \in 1 .. Len(handled)
    BY <1>3, <1>5
  <2>2. phase' # "failed" => session[n].val # Shm
    BY <1>1, <1>4 DEF Version, ValidId, Shm
  <2>3. phase' \in SetupPhases => \A m \in 1 .. n : session'[m].val # Shm
    BY <1>1, <1>4, <2>1, <2>2, PhasesAre DEF DeviceInv, PhaseInv
  <2>. QED BY <1>1, <1>4, <1>5, <2>3, PhasesAre DEF PhaseInv, ValidId, NoId
<1>9. FreedInv'
  <2>1. \A p \in DOMAIN peers : peers[p].mem # "freed"
    <3>1. 3 .. Len(handled) = {}
      BY <1>3, <1>5
    <3>. QED BY <1>1, <3>1, PhasesAre DEF DeviceInv, FreedInv
  <2>. QED BY <1>1, <2>1 DEF FreedInv
<1>10. WatchInv'
  BY <1>1, PhasesAre DEF DeviceInv, WatchInv
<1>. QED BY <1>2, <1>6, <1>7, <1>8, <1>9, <1>10 DEF DeviceInv

\* A step in which no message is handled.
LEMMA QuietInv ==
  ASSUME DeviceInv, StreamInv', UNCHANGED <<session, device, closed, handled>>,
         open' \in BOOLEAN, phase' \in {phase, "failed"}
  PROVE  DeviceInv'
<1>1. /\ UNCHANGED <<session, vmId, bar2, peers, watched, closed, handled>> /\ Fds' = Fds
  BY DEF device, Fds
<1>2. DeviceTyped'
  <2>1. TabOK(peers)'
    BY <1>1 DEF TabOK, Entries, DeviceInv, DeviceTyped
  <2>. QED BY <1>1, <2>1, PhasesAre DEF DeviceInv, DeviceTyped
<1>3. PlacesInv'
  <2>. SUFFICES ASSUME phase' # "failed", NEW f \in Fds
                PROVE  IF f <= Len(handled) THEN Placed(f)' ELSE Unknown(f)'
    BY <1>1 DEF PlacesInv
  <2>1. IF f <= Len(handled) THEN Placed(f) ELSE Unknown(f)
    BY DEF DeviceInv, PlacesInv
  <2>2. (Placed(f) => Placed(f)') /\ (Unknown(f) => Unknown(f)')
    BY <1>1, SameTable, PlaceKept
  <2>. QED BY <2>1, <2>2
<1>4. PhaseInv' /\ WatchInv' /\ FreedInv'
  BY <1>1, PhasesAre DEF DeviceInv, PhaseInv, WatchInv, FreedInv, IsGone, ValidId
<1>. QED BY <1>2, <1>3, <1>4 DEF DeviceInv

\* Exit closes what the table holds, each descriptor once.
LEMMA ExitInv ==
  ASSUME DeviceInv, Exit
  PROVE  DeviceInv'
<1>. DEFINE fs == UNION {FdsOf(peers, p) : p \in DOMAIN peers}
            tab == [p \in DOMAIN peers |-> Emptied]
<1>1. /\ peers' = tab
      /\ closed' = [f \in Fds |-> IF f \in fs THEN closed[f] + 1 ELSE closed[f]]
      /\ phase' \in {"gone", "crashed"} /\ phase = "running"
      /\ UNCHANGED <<session, sent, open, stream, vmId, bar2, watched, handled>>
  BY DEF Exit, Close, server
<1>2. StreamInv' /\ Fds' = Fds /\ closed \in [Fds -> Nat]
  BY <1>1, StreamStays DEF DeviceInv, DeviceTyped, Fds
<1>3. TabOK(tab) /\ \A f : In(tab, f) = {}
  BY EntriesAre DEF TabOK, In, FdsOf, DeviceInv, DeviceTyped
<1>4. \A f \in Fds : f \in fs <=> Holders(f) # {}
  BY DEF Holders
<1>. HIDE DEF fs, tab
<1>5. DeviceTyped'
  <2>1. TabOK(peers)'
    BY <1>1, <1>2, <1>3 DEF TabOK, Entries
  <2>2. closed' \in [Fds -> Nat]
    BY <1>1, <1>2
  <2>. QED BY <1>1, <1>2, <2>1, <2>2, PhasesAre DEF DeviceInv, DeviceTyped
<1>6. PlacesInv'
  <2>. SUFFICES ASSUME NEW f \in Fds
                PROVE  IF f <= Len(handled) THEN Placed(f)' ELSE Unknown(f)'
    BY <1>1, <1>2 DEF PlacesInv
  <2>1. IF f <= Len(handled) THEN Placed(f) ELSE Unknown(f)
    BY <1>1 DEF DeviceInv, PlacesInv
  <2>2. Holders(f)' = {}
    <3>1. Holders(f)' = In(peers', f)
      BY DEF Holders, In
    <3>. QED BY <1>1, <1>3, <3>1
  <2>3. closed'[f] = (IF Holders(f) # {} THEN closed[f] + 1 ELSE closed[f]) /\ bar2' = bar2
    BY <1>1, <1>4
  <2>4. Unknown(f) => Unknown(f)'
    BY <2>2, <2>3 DEF Unknown
  <2>5. Placed(f) => Placed(f)'
    BY <2>2, <2>3 DEF Placed
  <2>. QED BY <2>1, <2>4, <2>5
<1>7. PhaseInv' /\ WatchInv' /\ FreedInv'
  BY <1>1, PhasesAre DEF PhaseInv, WatchInv, FreedInv
<1>. QED BY <1>2, <1>5, <1>6, <1>7 DEF DeviceInv

LEMMA DeviceInit == Init => DeviceInv
<1>. SUFFICES ASSUME Init PROVE DeviceInv
  OBVIOUS
<1>1. StreamInv /\ Len(handled) = 0 /\ phase = "version" /\ watched = {}
  BY InitStream DEF Init
<1>. DEFINE tab == [p \in 0 .. InitPeers - 1 |-> Fresh]
<1>2. TabOK(tab) /\ \A f : In(tab, f) = {}
  BY EntriesAre, TableAssumption DEF TabOK, In, FdsOf
<1>3. peers = tab /\ \A p \in DOMAIN tab : tab[p].mem # "freed"
  BY EntriesAre DEF Init
<1>. HIDE DEF tab
<1>4. DeviceTyped
  BY <1>2, <1>3, TableAssumption, PhasesAre DEF Init, DeviceTyped, NoId
<1>5. PlacesInv
  <2>. SUFFICES ASSUME NEW f \in Fds PROVE ~(f <= 0) /\ Unknown(f)
    BY <1>1 DEF PlacesInv
  <2>1. f \in Nat \ {0}
    BY <1>1, FdsAre
  <2>2. Holders(f) = {}
    BY <1>2, <1>3 DEF Holders, In
  <2>3. closed[f] = 0 /\ bar2 # f
    BY <2>1 DEF Init, NoFd
  <2>. QED BY <2>1, <2>2, <2>3 DEF Unknown
<1>6. PhaseInv /\ WatchInv /\ FreedInv
  BY <1>1, <1>3 DEF PhaseInv, WatchInv, FreedInv
<1>. QED BY <1>1, <1>4, <1>5, <1>6 DEF DeviceInv

LEMMA DeviceStep == DeviceInv /\ [Next]_vars => DeviceInv'
<1>. SUFFICES ASSUME DeviceInv, [Next]_vars PROVE DeviceInv'
  OBVIOUS
<1>0. StreamInv' /\ open \in BOOLEAN /\ closed \in [Fds -> Nat] /\ StreamInv
  BY StreamStep DEF DeviceInv, DeviceTyped
<1>1. CASE UNCHANGED vars \/ ServerSend \/ ServerClose \/ ReadNothing \/ ReadFails
  <2>1. /\ UNCHANGED <<session, device, closed, handled>>
        /\ open' \in BOOLEAN /\ phase' \in {phase, "failed"}
    BY <1>0, <1>1 DEF vars, server, ServerSend, ServerClose, ReadNothing, ReadFails
  <2>. QED BY <1>0, <2>1, QuietInv
<1>2. ASSUME NEW k \in 1 .. Size, ReadPart(k) PROVE DeviceInv'
  BY <1>0, <1>2, PartIs, QuietInv
<1>3. CASE ReadWhole
  BY <1>3, SetupInv, RejectInv, MapShmInv, RefuseFdInv, ConnectInv, DisconnectInv, RefuseGoneInv
     DEF ReadWhole
<1>4. CASE Exit
  BY <1>4, ExitInv
<1>. QED BY <1>1, <1>2, <1>3, <1>4 DEF Next, Receive

LEMMA DeviceAlways == Spec => []DeviceInv
BY DeviceInit, DeviceStep, PTL DEF Spec

-----------------------------------------------------------------------------
(* Orderly servers.                                                        *)

\* A message about a peer leaves an entry for it, and none loses its entry.
LEMMA SpokenStep == DeviceInv /\ SpokenInv /\ [Next]_vars => SpokenInv'
<1>. SUFFICES ASSUME DeviceInv, SpokenInv, [Next]_vars, phase' \in {"shm", "running"},
                     NEW m \in 3 .. Len(handled'), ValidId(session'[m].val)
              PROVE  session'[m].val \in DOMAIN peers'
  BY DEF SpokenInv, ValidId
<1>0. closed \in [Fds -> Nat] /\ StreamInv /\ TabOK(peers)
  BY DEF DeviceInv, DeviceTyped
<1>1. CASE UNCHANGED <<session, handled, peers>> /\ phase \in {"shm", "running"}
  BY <1>1 DEF SpokenInv
<1>2. CASE UNCHANGED vars \/ ServerSend \/ ServerClose \/ ReadNothing \/ ReadFails \/ Exit
  BY <1>1, <1>2 DEF vars, server, device, ServerSend, ServerClose, ReadNothing, ReadFails, Exit
<1>3. ASSUME NEW k \in 1 .. Size, ReadPart(k) PROVE session'[m].val \in DOMAIN peers'
  <2>1. UNCHANGED <<session, handled, device>> /\ phase' \in {phase, "dead"}
    BY <1>3 DEF ReadPart, server
  <2>. QED BY <1>1, <2>1 DEF device
<1>4. CASE SetupVersion \/ SetupId
  <2>1. ReadRest({}) /\ phase = "id"
    BY <1>4 DEF SetupVersion, SetupId
  <2>2. PICK n \in Nat : n = Len(handled) + 1
    BY <1>0, <2>1, HandledIs
  <2>3. Len(handled') = n
    BY <1>0, <2>1, <2>2, HandledIs
  <2>4. Len(handled) = 1
    BY <2>1 DEF DeviceInv, PhaseInv
  <2>. QED BY <2>2, <2>3, <2>4
\* The message handled is about no peer, or the table has an entry for it.
<1>5. ASSUME NEW fs, ReadRest(fs), Processing, DOMAIN peers \subseteq DOMAIN peers',
             ValidId(Word) => Word \in DOMAIN peers'
      PROVE  session'[m].val \in DOMAIN peers'
  <2>1. PICK n \in Nat : n = Len(handled) + 1
    BY <1>0, <1>5, HandledIs
  <2>2. Len(handled') = n /\ Word = session[n].val /\ session' = session
    BY <1>0, <1>5, <2>1, HandledIs
  <2>3. Len(handled) \in Nat
    BY <1>0 DEF StreamInv
  <2>4. CASE m = n
    BY <1>5, <2>2, <2>4
  <2>5. CASE m # n
    <3>1. m \in 3 .. Len(handled)
      BY <2>1, <2>2, <2>3, <2>5
    <3>. QED BY <1>5, <2>2, <3>1 DEF SpokenInv, Processing
  <2>. QED BY <2>4, <2>5
<1>6. CASE RejectMsg \/ RefuseShm \/ MapShm
  <2>1. Processing /\ (\E fs : ReadRest(fs)) /\ peers' = peers /\ ~ValidId(Word)
    <3>1. ASSUME NEW fs, ReadRest(fs) PROVE Word \in Int
      <4>1. PICK n \in Nat : n = Len(handled) + 1
        BY <1>0, <3>1, HandledIs
      <4>. QED BY <1>0, <3>1, <4>1, HandledIs
    <3>2. Processing /\ (\E fs : ReadRest(fs)) /\ peers' = peers
      BY <1>6 DEF RejectMsg, RefuseShm, MapShm, device
    <3>3. Word \in Int
      BY <3>1, <3>2
    <3>4. Word < Shm \/ Word > MaxPeers \/ Word = Shm
      BY <1>6 DEF RejectMsg, RefuseShm, MapShm
    <3>. QED BY <3>2, <3>3, <3>4, TableAssumption DEF ValidId, Shm
  <2>. QED BY <1>5, <2>1
<1>7. CASE RefuseFd \/ Connect \/ Disconnect \/ RefuseGone
  <2>1. /\ Processing /\ (\E fs : ReadRest(fs)) /\ ValidId(Word)
        /\ DOMAIN peers' = DOMAIN Resized(Word)
    <3>1. CASE RefuseFd \/ Connect \/ Disconnect
      BY <3>1 DEF RefuseFd, Connect, Disconnect
    <3>2. CASE RefuseGone
      <4>1. Processing /\ ReadRest({}) /\ Word = vmId /\ peers' = Resized(vmId)
        BY <3>2 DEF RefuseGone
      <4>2. vmId \in 0 .. MaxPeers
        BY <4>1, ValidIds, TableAssumption DEF Processing, DeviceInv, DeviceTyped, NoId
      <4>. QED BY <4>1, <4>2, TableAssumption DEF ValidId
    <3>. QED BY <1>7, <3>1, <3>2
  <2>2. Word \in Nat
    BY <1>0, <2>1, HandledIs, ValidIds
  <2>3. Word \in DOMAIN Resized(Word) /\ DOMAIN peers \subseteq DOMAIN Resized(Word)
    BY <1>0, <2>2, ResizedIs
  <2>. QED BY <1>5, <2>1, <2>3
<1>. QED BY <1>2, <1>3, <1>4, <1>6, <1>7 DEF Next, Receive, ReadWhole

LEMMA SpokenAlways == Spec => []SpokenInv
<1>1. Init => SpokenInv
  BY DEF Init, SpokenInv
<1>. QED BY <1>1, SpokenStep, DeviceAlways, PTL DEF Spec

\* An orderly server says nothing more of a peer whose notifiers are freed.
LEMMA NotFreed ==
  ASSUME Orderly(session), DeviceInv, phase \in {"shm", "running"},
         NEW n \in Nat, n = Len(handled) + 1, n \in DOMAIN session,
         NEW p \in DOMAIN peers, p # vmId, session[n].val = p
  PROVE  peers[p].mem # "freed"
<1>. SUFFICES ASSUME peers[p].mem = "freed" PROVE FALSE
  OBVIOUS
<1>1. PICK m \in 3 .. Len(handled) : IsGone(session[m]) /\ session[m].val = p
  BY PhasesAre DEF DeviceInv, FreedInv
<1>2. Len(handled) \in Nat /\ Len(handled) >= 2 /\ vmId = session[2].val
  BY DEF DeviceInv, StreamInv, PhaseInv
<1>3. n > 2 /\ m \in 3 .. n - 1
  BY <1>2
<1>4. session[m].val = session[2].val
  BY <1>1, <1>2, <1>3 DEF Orderly
<1>. QED BY <1>1, <1>2, <1>4

\* Its messages find the array of the device's own vectors allocated, and each of
\* these vectors new.
LEMMA Alive ==
  ASSUME Orderly(session), DeviceInv, SpokenInv, phase # "dead", [Next]_vars
  PROVE  phase' # "dead"
<1>0. closed \in [Fds -> Nat] /\ StreamInv /\ TabOK(peers)
  BY DEF DeviceInv, DeviceTyped
<1>1. CASE UNCHANGED vars \/ ServerSend \/ ServerClose \/ ReadNothing \/ ReadFails \/ Exit
  BY <1>1 DEF vars, ServerSend, ServerClose, ReadNothing, ReadFails, Exit
<1>2. ASSUME NEW k \in 1 .. Size, ReadPart(k) PROVE phase' # "dead"
  BY <1>0, <1>2, PartIs
<1>3. CASE SetupVersion \/ SetupId \/ RejectMsg \/ RefuseShm \/ MapShm \/ RefuseFd \/ RefuseGone
  BY <1>3 DEF SetupVersion, SetupId, RejectMsg, RefuseShm, MapShm, RefuseFd, RefuseGone,
     Refused, Realized
<1>4. ASSUME NEW fs, ReadRest(fs), Processing, ValidId(Word)
      PROVE  /\ Word \in Nat /\ phase \in {"shm", "running"} /\ vmId = session[2].val
             /\ \E n \in Nat : /\ n = Len(handled) + 1 /\ n > 2 /\ n \in DOMAIN session
                               /\ session[n].val = Word /\ (Fd # NoFd => session[n].fd)
  <2>1. PICK n \in Nat : n = Len(handled) + 1
    BY <1>0, <1>4, HandledIs
  <2>2. /\ n \in DOMAIN session /\ Word = session[n].val /\ Word \in Int
        /\ Fd = IF n \in Fds THEN n ELSE NoFd
    BY <1>0, <1>4, <2>1, HandledIs
  <2>3. phase \in {"shm", "running"}
    BY <1>4 DEF Processing
  <2>4. Len(handled) >= 2 /\ Len(handled) \in Nat
    BY <1>0, <2>3 DEF DeviceInv, PhaseInv, StreamInv
  <2>5. Word \in Nat /\ vmId = session[2].val
    BY <1>4, <2>2, <2>3, ValidIds
  <2>6. Fd # NoFd => session[n].fd
    BY <2>2 DEF Fds
  <2>. QED BY <2>1, <2>2, <2>3, <2>4, <2>5, <2>6
\* An entry used by a message about another is not freed.
<1>5. ASSUME NEW fs, ReadRest(fs), Processing, ValidId(Word), Word # vmId, phase' \in Using(Resized(Word)[Word])
      PROVE  phase' # "dead"
  <2>. DEFINE p   == Word
              tab == Resized(p)
  <2>1. /\ p \in Nat /\ phase \in {"shm", "running"}
        /\ \E n \in Nat : n = Len(handled) + 1 /\ n \in DOMAIN session /\ session[n].val = p
    BY <1>4, <1>5
  <2>2. /\ p \in DOMAIN tab
        /\ \A q \in DOMAIN peers : tab[q] = peers[q]
        /\ \A q \in DOMAIN tab \ DOMAIN peers : tab[q] = Fresh
    BY <1>0, <2>1, ResizedIs
  <2>3. phase' \in Using(tab[p]) /\ p # vmId
    BY <1>5
  <2>. HIDE DEF p, tab
  <2>4. tab[p].mem # "freed"
    BY <2>1, <2>2, <2>3, NotFreed, EntriesAre
  <2>. QED BY <2>1, <2>3, <2>4 DEF Using
<1>6. CASE Disconnect
  BY <1>5, <1>6 DEF Disconnect
<1>7. CASE Connect /\ Word # vmId
  BY <1>5, <1>7 DEF Connect
<1>8. CASE Connect /\ Word = vmId
  <2>. DEFINE tab    == Resized(vmId)
              vector == Len(tab[vmId].fds)
  <2>1. /\ ReadRest({}) /\ Processing /\ ValidId(Word) /\ Fd # NoFd
        /\ phase' \in Watching(vector, tab)
    BY <1>8 DEF Connect
  <2>2. /\ vmId \in Nat /\ phase \in {"shm", "running"}
        /\ vmId = session[2].val
    BY <1>4, <1>8, <2>1
  <2>3. PICK n \in Nat : /\ n = Len(handled) + 1 /\ n > 2 /\ n \in DOMAIN session
                         /\ session[n].val = vmId /\ session[n].fd
    BY <1>4, <1>8, <2>1
  <2>4. PICK m \in 1 .. n - 1 : session[m].val = Shm
    BY <2>2, <2>3 DEF Orderly
  <2>5. m \in 1 .. Len(handled)
    <3>1. Len(handled) \in Nat
      BY <1>0 DEF StreamInv
    <3>. QED BY <2>3, <3>1
  <2>6. phase = "running"
    BY <2>2, <2>4, <2>5, PhasesAre DEF DeviceInv, PhaseInv
  <2>7. vmId \in DOMAIN peers => tab[vmId] = peers[vmId]
    BY <1>0, <2>2, ResizedIs
  <2>8. vmId \in DOMAIN tab /\ TabOK(tab)
    BY <1>0, <2>2, ResizedIs
  <2>9. vector \in Nat
    BY <2>8, EntriesAre DEF TabOK
  <2>10. vector \notin watched
    <3>1. \A k \in watched : vmId \in DOMAIN peers /\ k < Len(peers[vmId].fds)
      BY <2>6 DEF DeviceInv, WatchInv
    <3>. QED BY <2>7, <2>9, <3>1
\* The peer whose id it finds has an entry, for the server has spoken of it.
  <2>11. ASSUME NEW q \in OtherIds PROVE q \in DOMAIN tab /\ tab[q].mem # "freed"
    <3>1. CASE q = vmId
      <4>1. vmId \in DOMAIN peers => peers[vmId].mem # "freed"
        BY <2>6 DEF DeviceInv, FreedInv
      <4>2. tab[vmId] = IF vmId \in DOMAIN peers THEN peers[vmId] ELSE Fresh
        BY <1>0, <2>2, ResizedIs
      <4>. QED BY <2>8, <3>1, <4>1, <4>2, EntriesAre
    <3>2. CASE q # vmId
      <4>1. /\ \E k \in 3 .. n - 1 : session[k].val = q
            /\ \A k \in 3 .. n - 1 : session[k].val = q => ~IsGone(session[k])
        BY <2>2, <2>3, <3>2 DEF Orderly
      <4>2. 3 .. n - 1 = 3 .. Len(handled) /\ ValidId(q)
        <5>1. Len(handled) \in Nat
          BY <1>0 DEF StreamInv
        <5>2. n - 1 = Len(handled)
          BY <2>3, <5>1
        <5>. QED BY <5>2, OtherAssumption, TableAssumption DEF ValidId
      <4>3. q \in DOMAIN peers
        BY <2>2, <4>1, <4>2 DEF SpokenInv
      <4>4. peers[q].mem # "freed"
        BY <2>6, <4>1, <4>2, <4>3 DEF DeviceInv, FreedInv
      <4>5. q \in DOMAIN tab /\ tab[q] = peers[q]
        BY <1>0, <2>2, <4>3, ResizedIs
      <4>. QED BY <4>4, <4>5
    <3>. QED BY <3>1, <3>2
  <2>12. ~Unwatchable(vector) /\ Announcing(tab) = {phase}
    BY <2>6, <2>10, <2>11 DEF Unwatchable, Announcing
  <2>. HIDE DEF vector, tab
  <2>. QED BY <2>1, <2>6, <2>12 DEF Watching
<1>. QED BY <1>1, <1>2, <1>3, <1>6, <1>7, <1>8 DEF Next, Receive, ReadWhole

-----------------------------------------------------------------------------
(* The theorems.                                                           *)

LEMMA StreamTypes ==
  ASSUME DeviceInv
  PROVE  TypeOK
<1>1. /\ session \in Sessions /\ sent \in 0 .. Len(session) /\ got \in 0 .. Size - 1
      /\ Len(handled) \in Nat /\ Len(session) \in Nat /\ Size \in Nat \ {0}
      /\ taken = Len(handled) * Size + got /\ taken <= sent * Size
      /\ chrFd = IF got > 0 /\ Len(handled) + 1 \in Fds THEN Len(handled) + 1 ELSE NoFd
  BY SessionType, SizeAssumption DEF DeviceInv, StreamInv
<1>2. taken \in 0 .. sent * Size
  <2>1. Len(handled) * Size \in Nat /\ sent * Size \in Int
    BY <1>1
  <2>. DEFINE B == Len(handled) * Size
              C == sent * Size
  <2>2. B \in Nat /\ C \in Int /\ taken = B + got /\ taken <= C /\ got \in Nat
    BY <1>1, <2>1
  <2>. HIDE DEF B, C
  <2>3. taken \in 0 .. C
    BY <2>2
  <2>. QED BY <2>3 DEF C
<1>3. chrFd \in Fds \cup {NoFd}
  BY <1>1
<1>. QED BY <1>1, <1>2, <1>3 DEF TypeOK, DeviceInv, DeviceTyped, TabOK

\* Types, for any server, size of a message and way the stream is cut: among
\* them that the buffer never holds more than a message (ivshmem_read).
THEOREM TypeCorrect == Spec => []TypeOK
BY DeviceAlways, StreamTypes, PTL

\* Every descriptor received has one place: it is neither leaked nor closed twice
\* by process_msg or ivshmem_exit, whatever a server sends.
THEOREM DescriptorsOnce == Spec => []DescriptorsKeptOnce
<1>1. DeviceInv => DescriptorsKeptOnce
  <2>. SUFFICES ASSUME DeviceInv, phase # "failed", NEW f \in Received
                PROVE  Places(f) = 1
    BY DEF DescriptorsKeptOnce
  <2>. DEFINE L == Len(handled)
  <2>1. /\ f \in Fds /\ (f - 1) * Size < taken /\ f \in Nat \ {0}
        /\ L \in Nat /\ got \in 0 .. Size - 1 /\ Size \in Nat \ {0}
        /\ taken = L * Size + got
        /\ chrFd = IF got > 0 /\ L + 1 \in Fds THEN L + 1 ELSE NoFd
    BY FdsAre, SizeAssumption DEF Received, DeviceInv, StreamInv
  <2>2. IF f <= L THEN Placed(f) ELSE Unknown(f)
    BY <2>1 DEF DeviceInv, PlacesInv
  <2>3. closed[f] \in Nat
    BY <2>1 DEF DeviceInv, DeviceTyped
  <2>. HIDE DEF L
  <2>4. Cardinality({}) = 0 /\ \A p : Cardinality({p}) = 1
    BY FS_EmptySet, FS_Singleton
  <2>5. CASE f <= L
    <3>1. chrFd # f
      BY <2>1, <2>5 DEF NoFd
    <3>2. Placed(f)
      BY <2>2, <2>5
    <3>. DEFINE card == Cardinality(Holders(f))
    <3>3. Places(f) = card + closed[f] + 0 + (IF bar2 = f THEN 1 ELSE 0)
      BY <3>1 DEF Places
    <3>4. \/ card = 1 /\ closed[f] = 0 /\ bar2 # f
          \/ card = 0 /\ closed[f] = 1 /\ bar2 # f
          \/ card = 0 /\ closed[f] = 0 /\ bar2 = f
      <4>1. CASE (\E p \in DOMAIN peers : Holders(f) = {p}) /\ closed[f] = 0 /\ bar2 # f
        <5>1. PICK p \in DOMAIN peers : Holders(f) = {p}
          BY <4>1
        <5>2. card = 1
          BY <2>4, <5>1
        <5>. HIDE DEF card
        <5>. QED BY <4>1, <5>2
      <4>2. CASE Holders(f) = {} /\ closed[f] = 1 /\ bar2 # f
        <5>1. card = 0
          BY <2>4, <4>2
        <5>. HIDE DEF card
        <5>. QED BY <4>2, <5>1
      <4>3. CASE Holders(f) = {} /\ closed[f] = 0 /\ bar2 = f
        <5>1. card = 0
          BY <2>4, <4>3
        <5>. HIDE DEF card
        <5>. QED BY <4>3, <5>1
      <4>. HIDE DEF card
      <4>. QED BY <3>2, <4>1, <4>2, <4>3 DEF Placed
    <3>. HIDE DEF card
    <3>. QED BY <3>3, <3>4
\* It was begun and is not whole: the character device has it.
  <2>6. CASE ~(f <= L)
    <3>1. L * Size \in Int /\ (L + 1) * Size = L * Size + Size /\ (f - 1) * Size \in Int
      BY <2>1
    <3>2. (f - 1) * Size < (L + 1) * Size
      <4>. DEFINE B == L * Size
                  C == (f - 1) * Size
      <4>1. B \in Int /\ C \in Int /\ C < B + got /\ (L + 1) * Size = B + Size
        BY <2>1, <3>1
      <4>. HIDE DEF B, C
      <4>2. C < (L + 1) * Size
        BY <2>1, <4>1
      <4>. QED BY <4>2 DEF C
    <3>3. f - 1 < L + 1
      BY <2>1, <3>2, Cancel
    <3>4. f = L + 1
      BY <2>1, <2>6, <3>3
    <3>5. got > 0
      <4>1. f - 1 = L
        BY <2>1, <3>4
      <4>. DEFINE B == L * Size
      <4>2. B \in Int /\ B < B + got
        BY <2>1, <3>1, <4>1
      <4>. HIDE DEF B
      <4>. QED BY <2>1, <4>2
    <3>6. chrFd = f
      BY <2>1, <3>4, <3>5
    <3>7. Unknown(f)
      BY <2>2, <2>6
    <3>. QED BY <2>4, <3>6, <3>7 DEF Places, Unknown
  <2>. QED BY <2>5, <2>6
<1>. QED BY <1>1, DeviceAlways, PTL

\* No message of an orderly server takes the device down: its own eventfds come
\* after the shared memory and after those of the peer that it notifies when it
\* announces itself (init_vm_ids), and nothing comes of a peer reported gone.
THEOREM NoOrderlyServerKills == Spec => []OrderlyServerSafe
<1>1. Init => OrderlyServerSafe
  BY DEF Init, OrderlyServerSafe
<1>2. DeviceInv /\ SpokenInv /\ OrderlyServerSafe /\ [Next]_vars => OrderlyServerSafe'
  <2>. SUFFICES ASSUME DeviceInv, SpokenInv, OrderlyServerSafe, [Next]_vars, Orderly(session)'
                PROVE  phase' # "dead"
    BY DEF OrderlyServerSafe
  <2>1. session' = session
    BY DEF Next, vars, server, Receive, ReadWhole, ServerSend, ServerClose, ReadNothing, ReadFails,
       Exit, ReadPart, SetupVersion, SetupId, RejectMsg, RefuseShm, MapShm, RefuseFd, Connect,
       Disconnect, RefuseGone, ReadRest
  <2>2. Orderly(session)
    BY <2>1 DEF Orderly, IsGone, ValidId
  <2>. QED BY <2>2, Alive DEF OrderlyServerSafe
<1>. QED BY <1>1, <1>2, DeviceAlways, SpokenAlways, PTL DEF Spec

\* The invariant behind these.
THEOREM ChannelInvariant == Spec => []ChannelInv
<1>1. DeviceInv /\ SpokenInv /\ OrderlyServerSafe => ChannelInv
  BY DEF DeviceInv, ChannelInv
<1>. QED BY <1>1, DeviceAlways, SpokenAlways, NoOrderlyServerKills, PTL

=============================================================================
