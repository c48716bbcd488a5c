--------------------------- MODULE PingPong_proofs ---------------------------
(***************************************************************************)
(* Guests that play do to the register file only what module NtbDevice has *)
(* them do, so that what is proved of it holds while they play.            *)
(***************************************************************************)
EXTENDS PingPong, NtbDevice_proofs

\* A step of the play is a step of the device or leaves it alone.
LEMMA PlayIsDevice == [NextAll]_all => [Next]_vars
<1> SUFFICES ASSUME [NextAll]_all PROVE [Next]_vars
  OBVIOUS
<1>1. CASE UNCHANGED all
  BY <1>1 DEF all
<1>2. ASSUME NEW v \in VM, Device(v)
      PROVE  Next
  BY <1>2 DEF Device, Boot, Start, Next
<1>3. ASSUME NEW v \in VM, LoadDriver(v) \/ Expire(v)
      PROVE  UNCHANGED vars
  BY <1>3 DEF LoadDriver, Expire
<1>4. ASSUME NEW v \in VM, Isr(v)
      PROVE  Next
  BY <1>4 DEF Isr, Next
<1>5. ASSUME NEW v \in VM, Access(v)
      PROVE  [Next]_vars
  BY <1>5 DEF Access, WriteTo, WriteNtctl, SetNtMtbData, Store, Write, Next
<1> QED BY <1>1, <1>2, <1>3, <1>4, <1>5 DEF NextAll, Process, Guest

\* The composition of both ends with their guests implements the register file
\* of module NtbDevice, whatever guests are patient.
THEOREM PlayImplementsDevice == SpecAll => Spec
<1>1. InitAll => Init
  BY DEF InitAll
<1> QED BY <1>1, PlayIsDevice, PTL DEF SpecAll, Spec

\* While the guests play, handlers midway keep their types and fit the writes
\* they serve.
LEMMA PlayFits == SpecAll => [](TypeOK /\ HandlerOK)
<1>1. MailInv => TypeOK /\ HandlerOK
  BY DEF MailInv
<1>. QED BY <1>1, PlayImplementsDevice, MailInvariant, PTL

\* While the guests play, their processes keep to the link of PeerLink: a ring
\* goes to a known peer whose eventfds are held, and is taken once.
THEOREM PlayKeepsLink == SpecAll => PeerLinkSpec
BY PlayImplementsDevice, RegistersKeepLink, PTL

-----------------------------------------------------------------------------
(* The jobs of a guest.                                                    *)

\* Two sequences on end, known by their elements.
LEMMA Joined ==
  ASSUME NEW S, NEW x \in Seq(S), NEW y \in Seq(S), NEW z \in Seq(S),
         Len(z) = Len(x) + Len(y),
         \A i \in 1 .. Len(x) : z[i] = x[i],
         \A i \in 1 .. Len(y) : z[Len(x) + i] = y[i]
  PROVE  x \o y = z
<1>. DEFINE xy == x \o y
<1>1. /\ xy \in Seq(S) /\ Len(xy) = Len(x) + Len(y)
      /\ \A i \in 1 .. Len(xy) : xy[i] = IF i <= Len(x) THEN x[i] ELSE y[i - Len(x)]
  OBVIOUS
<1>. HIDE DEF xy
<1>2. \A i \in 1 .. Len(xy) : xy[i] = z[i]
  <2>. SUFFICES ASSUME NEW i \in 1 .. Len(xy) PROVE xy[i] = z[i]
    OBVIOUS
  <2>1. CASE i <= Len(x)
    BY <1>1, <2>1
  <2>2. CASE ~(i <= Len(x))
    <3>1. i - Len(x) \in 1 .. Len(y) /\ Len(x) + (i - Len(x)) = i
      BY <1>1, <2>2
    <3>. QED BY <1>1, <2>2, <3>1
  <2>. QED BY <2>1, <2>2
<1>3. xy = z
  BY <1>1, <1>2
<1>. QED BY <1>3 DEF xy

LEMMA LongestServed == Pong \o LinkEvent = <<"INDBELLSTS", "SEGSIGSTS", "NTINTSTS">>
<1>. DEFINE x == <<"INDBELLSTS">>
            y == <<"SEGSIGSTS", "NTINTSTS">>
            z == <<"INDBELLSTS", "SEGSIGSTS", "NTINTSTS">>
            R == {"INDBELLSTS", "SEGSIGSTS", "NTINTSTS"}
<1>1. /\ x \in Seq(R) /\ y \in Seq(R) /\ z \in Seq(R)
      /\ Len(x) = 1 /\ Len(y) = 2 /\ Len(z) = 3
      /\ x[1] = "INDBELLSTS" /\ y[1] = "SEGSIGSTS" /\ y[2] = "NTINTSTS"
      /\ z[1] = "INDBELLSTS" /\ z[2] = "SEGSIGSTS" /\ z[3] = "NTINTSTS"
  OBVIOUS
<1>. HIDE DEF x, y, z, R
<1>2. /\ Len(z) = Len(x) + Len(y)
      /\ \A i \in 1 .. Len(x) : z[i] = x[i]
  BY <1>1
<1>3. \A i \in 1 .. Len(y) : z[Len(x) + i] = y[i]
  BY <1>1
<1>4. x \o y = z
  BY <1>1, <1>2, <1>3, Joined
<1>. QED BY <1>4 DEF x, y, z, Pong, LinkEvent

\* The registers of a job.
RegsOf(q) == {q[n] : n \in DOMAIN q}

StartRegs == {"NTINTMSK", "NTCTL", "NTMTBLDATA"}

LEMMA RegsAre ==
  /\ RegsOf(<<>>) = {}
  /\ \A a : RegsOf(<<a>>) = {a}
  /\ \A a, b : RegsOf(<<a, b>>) = {a, b}
  /\ \A a, b, c : RegsOf(<<a, b, c>>) = {a, b, c}
  /\ \A a, b, c, d : RegsOf(<<a, b, c, d>>) = {a, b, c, d}
BY DEF RegsOf

\* A guest that writes the first register of a job has the others left.
LEMMA JobsAre ==
  ASSUME NEW q \in Jobs, q # <<>>
  PROVE  /\ Tail(q) \in Jobs
         /\ RegsOf(q) = {Head(q)} \cup RegsOf(Tail(q))
         /\ Head(q) = "NTGSIGNAL" => RegsOf(q) = {"NTGSIGNAL"}
<1>1. CASE q = Bind
  BY <1>1, RegsAre DEF Jobs, Bind
<1>2. CASE q = <<"NTCTL", "NTMTBLDATA", "NTGSIGNAL">>
  BY <1>2, RegsAre DEF Jobs
<1>3. CASE q = <<"NTMTBLDATA", "NTGSIGNAL">>
  BY <1>3, RegsAre DEF Jobs
<1>4. CASE q = <<"NTGSIGNAL">>
  BY <1>4, RegsAre DEF Jobs
<1>5. CASE q = Pong \o LinkEvent
  <2>1. q = <<"INDBELLSTS", "SEGSIGSTS", "NTINTSTS">>
    BY <1>5, LongestServed
  <2>2. Tail(q) = LinkEvent /\ Head(q) = "INDBELLSTS"
    BY <2>1 DEF LinkEvent
  <2>3. RegsOf(LinkEvent) = {"SEGSIGSTS", "NTINTSTS"}
    BY RegsAre DEF LinkEvent
  <2>4. RegsOf(q) = {"INDBELLSTS", "SEGSIGSTS", "NTINTSTS"}
    BY <2>1, RegsAre
  <2>. QED BY <2>2, <2>3, <2>4 DEF Jobs
<1>6. CASE q = Ping
  BY <1>6, RegsAre DEF Jobs, Ping
<1>7. CASE q = Pong
  BY <1>7, RegsAre DEF Jobs, Pong
<1>8. CASE q = LinkEvent
  BY <1>8, RegsAre DEF Jobs, LinkEvent
<1>9. CASE q = <<"NTINTSTS">>
  BY <1>9, RegsAre DEF Jobs
<1>. QED BY <1>1, <1>2, <1>3, <1>4, <1>5, <1>6, <1>7, <1>8, <1>9 DEF Jobs

\* A driver that has still to start has still to signal.
LEMMA SignalLast ==
  ASSUME NEW q \in Jobs, RegsOf(q) \cap StartRegs # {}
  PROVE  "NTGSIGNAL" \in RegsOf(q)
<1>1. CASE q = Bind
  BY <1>1, RegsAre DEF Bind
<1>2. CASE q = Pong \o LinkEvent
  BY <1>2, RegsAre, LongestServed DEF StartRegs
<1>3. CASE q \in {Ping, Pong, LinkEvent}
  BY <1>3, RegsAre DEF Ping, Pong, LinkEvent, StartRegs
<1>. QED BY <1>1, <1>2, <1>3, RegsAre DEF Jobs, StartRegs

LEMMA ServedIs ==
  ASSUME NEW c
  PROVE  /\ Served(c) \in Jobs /\ Bind \in Jobs /\ Ping \in Jobs /\ <<>> \in Jobs
         /\ RegsOf(Served(c)) \subseteq {"INDBELLSTS", "SEGSIGSTS", "NTINTSTS"}
         /\ DBELL \in c => "INDBELLSTS" \in RegsOf(Served(c))
         /\ "NTINTSTS" \in RegsOf(Served(c)) => SEVENT \in c
         /\ RegsOf(Bind) = StartRegs \cup {"NTGSIGNAL"} /\ RegsOf(Ping) = {"OUTDBELLSET"}
         /\ RegsOf(<<>>) = {}
<1>1. \A q : q \in {Pong, LinkEvent} => q \o <<>> = q /\ <<>> \o q = q
  BY DEF Pong, LinkEvent
<1>2. <<>> \o <<>> = <<>>
  OBVIOUS
<1>3. Served(c) = IF DBELL \in c
                  THEN IF SEVENT \in c THEN Pong \o LinkEvent ELSE Pong
                  ELSE IF SEVENT \in c THEN LinkEvent ELSE <<>>
  BY <1>1, <1>2 DEF Served
<1>4. Served(c) \in Jobs /\ Bind \in Jobs /\ Ping \in Jobs /\ <<>> \in Jobs
  BY <1>3 DEF Jobs
<1>5. /\ RegsOf(Pong \o LinkEvent) = {"INDBELLSTS", "SEGSIGSTS", "NTINTSTS"}
      /\ RegsOf(Pong) = {"INDBELLSTS"} /\ RegsOf(LinkEvent) = {"SEGSIGSTS", "NTINTSTS"}
      /\ RegsOf(Bind) = StartRegs \cup {"NTGSIGNAL"} /\ RegsOf(Ping) = {"OUTDBELLSET"}
      /\ RegsOf(<<>>) = {}
  <2>1. RegsOf(Pong \o LinkEvent) = {"INDBELLSTS", "SEGSIGSTS", "NTINTSTS"}
    BY RegsAre, LongestServed
  <2>2. RegsOf(Pong) = {"INDBELLSTS"} /\ RegsOf(Ping) = {"OUTDBELLSET"}
    BY RegsAre DEF Pong, Ping
  <2>3. RegsOf(LinkEvent) = {"SEGSIGSTS", "NTINTSTS"}
    BY RegsAre DEF LinkEvent
  <2>4. RegsOf(Bind) = StartRegs \cup {"NTGSIGNAL"}
    BY RegsAre DEF Bind, StartRegs
  <2>. QED BY <2>1, <2>2, <2>3, <2>4, RegsAre
<1>. QED BY <1>3, <1>4, <1>5

-----------------------------------------------------------------------------
(* The invariant of the play.                                              *)

LEMMA PlayInit == InitAll => PlayInv
<1>. SUFFICES ASSUME InitAll PROVE PlayInv
  OBVIOUS
<1>1. PlayTypeOK
  BY ServedIs DEF InitAll, PlayTypeOK
<1>2. BindInv
  BY DEF InitAll, Init, BindInv, VM
<1>3. \A v \in VM : pc[v] = "idle" /\ intsts[v] = {} /\ Left(v) = {} /\ Peer(v) \in VM
  BY Peers, ServedIs DEF InitAll, Init, Left, RegsOf
<1>4. PlayHandlers /\ SignalInv /\ DoorbellInv
  BY <1>3 DEF PlayHandlers, SignalInv, Signalled, Signalling, ClearsIntsts, DoorbellInv,
     OutmsgSteps, RaiseSteps
<1>. QED BY <1>1, <1>2, <1>4 DEF PlayInv

\* The handlers that the guests of the play begin, step by step.
LEMMA HandlersAre ==
  ASSUME PlayHandlers, NEW v \in VM, Continue(v)
  PROVE  \/ ClearDb(v) \/ ClearMsgsts(v) \/ ClearIntsts(v) \/ ClearSegsigsts(v) \/ SigStore(v)
         \/ IntMask(v) \/ RaiseLoad(v) \/ RaiseStore(v) \/ Notify(v) \/ NotifyNobody(v)
BY DEF PlayHandlers, Continue, OutmsgSteps, Step, RefuseLoad, RefuseStore, RefuseMask,
   SelfLoad, SelfStore, PutMsg, StsLoad, StsStore, MsgMask

\* What a step of the handler of v comes to, as far as interrupts go.
Moves(v, l, m) == pc[v] = l /\ pc'[v] = m

LEMMA MovesAre ==
  ASSUME TypeOK, PlayHandlers, NEW v \in VM, Continue(v)
  PROVE  /\ Alone(v)
         /\ pc'[v] # "idle" => req'[v] = req[v]
         /\ \/ Moves(v, "clearStore", "idle") /\ intsts' = intsts
            \/ /\ Moves(v, "clearStore", "idle") /\ ClearsIntsts(v)
               /\ intsts' = [intsts EXCEPT ![v] = Cleared(v)]
            \/ Moves(v, "sigStore", "intMask") /\ intsts' = intsts
            \/ /\ Moves(v, "intMask", "raiseLoad") \/ Moves(v, "intMask", "idle")
               /\ Cause(v) \notin ntIntMask => Moves(v, "intMask", "raiseLoad")
               /\ intsts' = intsts
            \/ /\ Moves(v, "raiseLoad", "raiseStore")
               /\ snap'[v] = intsts[Peer(v)] /\ intsts' = intsts
            \/ /\ Moves(v, "raiseStore", "notify")
               /\ intsts' = [intsts EXCEPT ![Peer(v)] = snap[v] \cup {Cause(v)}]
            \/ /\ Moves(v, "notify", "idle") \/ Moves(v, "notify", "dead")
               /\ Reaches(v) => HostVector \in eventfd'[Peer(v)]
               /\ intsts' = intsts
<1>. USE DEF Moves, Alone
<1>0. Peer(v) \in VM /\ {"idle", "dead", "intMask", "raiseLoad", "raiseStore", "notify"} \subseteq Steps
  BY Peers DEF Steps
<1>1. CASE ClearDb(v) \/ ClearMsgsts(v) \/ ClearSegsigsts(v)
  BY <1>0, <1>1, StepMoves, ForgetMoves DEF ClearDb, ClearMsgsts, ClearSegsigsts
<1>2. CASE ClearIntsts(v)
  BY <1>0, <1>2, StepMoves, ForgetMoves DEF ClearIntsts, ClearsIntsts
<1>3. CASE SigStore(v)
  BY <1>0, <1>3, StepMoves, ForgetMoves DEF SigStore
<1>4. CASE IntMask(v)
  <2>1. CASE Cause(v) \in ntIntMask
    BY <1>0, <1>4, <2>1, StepMoves DEF IntMask, regs
  <2>2. CASE Cause(v) \notin ntIntMask
    BY <1>0, <1>4, <2>2, StepMoves DEF IntMask, regs
  <2>. QED BY <2>1, <2>2
<1>5. CASE RaiseLoad(v)
  <2>1. intsts[Peer(v)] \in SUBSET Words
    BY WordsTyped
  <2>. QED BY <1>0, <1>5, <2>1, StepMoves, LoadMoves DEF RaiseLoad, regs
<1>6. CASE RaiseStore(v)
  BY <1>0, <1>6, StepMoves, ForgetMoves DEF RaiseStore
<1>7. CASE Notify(v)
  <2>1. HostVector \in eventfd'[Peer(v)]
    BY <1>0, <1>7 DEF Notify, TypeOK
  <2>. QED BY <1>0, <1>7, <2>1, StepMoves DEF Notify, regs
<1>8. CASE NotifyNobody(v)
  BY <1>0, <1>8, StepMoves DEF NotifyNobody, regs
<1>. QED BY <1>1, <1>2, <1>3, <1>4, <1>5, <1>6, <1>7, <1>8, HandlersAre

LEMMA LeftIs == \A v \in VM : Left(v) = RegsOf(todo[v]) /\ Left(v)' = RegsOf(todo'[v])
BY DEF Left, RegsOf

\* A step of v leaves alone what its peer has midway; a handler of v goes on as
\* MovesAre says.
LEMMA HandlersInv ==
  ASSUME TypeOK, HandlerOK, PlayInv, NEW v \in VM, Continue(v), UNCHANGED <<switch, guests>>
  PROVE  PlayHandlers' /\ SignalInv' /\ DoorbellInv'
<1>. DEFINE p == Peer(v)
<1>1. /\ p \in VM /\ p # v /\ Peer(p) = v /\ \A w \in VM : w = v \/ w = p
      /\ intsts \in [VM -> SUBSET IntBits]
  BY Peers DEF TypeOK
<1>2. PlayHandlers /\ SignalInv /\ DoorbellInv
  BY DEF PlayInv
<1>3. \A w \in VM : Left(w)' = Left(w) /\ LinkUp(w)' = LinkUp(w) /\ timer'[w] = timer[w]
  BY DEF switch, guests, Left, LinkUp
<1>4. Alone(v) /\ (pc'[v] # "idle" => req'[v] = req[v])
  BY <1>2, MovesAre
<1>5. pc'[p] = pc[p] /\ req'[p] = req[p] /\ snap'[p] = snap[p]
  BY <1>1, <1>4 DEF Alone
<1>6. pc[v] \in RaiseSteps => Cause(v) \in {DBELL, SEVENT} /\ (Cause(v) = SEVENT => req[v].reg = "NTGSIGNAL")
  BY <1>2 DEF PlayHandlers, Cause, CauseOf, DBELL, SEVENT
<1>. DEFINE Here == PlayHandlers' /\ SignalInv' /\ DoorbellInv'
<1>. USE DEF Moves, RaiseSteps, OutmsgSteps
<1>7. CASE \/ Moves(v, "clearStore", "idle") /\ intsts' = intsts
           \/ Moves(v, "sigStore", "intMask") /\ intsts' = intsts
           \/ Moves(v, "intMask", "raiseLoad") /\ intsts' = intsts
           \/ Moves(v, "intMask", "idle") /\ intsts' = intsts
           \/ Moves(v, "notify", "idle") /\ intsts' = intsts
           \/ Moves(v, "notify", "dead") /\ intsts' = intsts
  <2>1. PlayHandlers'
    BY <1>1, <1>2, <1>4, <1>5, <1>7 DEF PlayHandlers
  <2>2. SignalInv'
    BY <1>1, <1>2, <1>3, <1>4, <1>5, <1>7 DEF PlayHandlers, SignalInv, Signalled, Signalling, ClearsIntsts
  <2>3. DoorbellInv'
    BY <1>1, <1>2, <1>3, <1>4, <1>5, <1>7 DEF DoorbellInv, ClearsIntsts
  <2>. QED BY <2>1, <2>2, <2>3
<1>8. CASE /\ Moves(v, "clearStore", "idle") /\ ClearsIntsts(v)
           /\ intsts' = [intsts EXCEPT ![v] = Cleared(v)]
  <2>0. intsts'[v] \subseteq snap[v] /\ intsts'[p] = intsts[p]
    BY <1>1, <1>8 DEF Cleared
  <2>1. PlayHandlers'
    BY <1>1, <1>2, <1>4, <1>5, <1>8 DEF PlayHandlers
  <2>2. SignalInv'
    BY <1>1, <1>2, <1>3, <1>4, <1>5, <1>8, <2>0 DEF SignalInv, Signalled, Signalling, ClearsIntsts
  <2>3. DoorbellInv'
    BY <1>1, <1>2, <1>3, <1>4, <1>5, <1>8, <2>0 DEF DoorbellInv, ClearsIntsts
  <2>. QED BY <2>1, <2>2, <2>3
<1>9. CASE /\ Moves(v, "raiseLoad", "raiseStore")
           /\ snap'[v] = intsts[Peer(v)] /\ intsts' = intsts
  <2>1. PlayHandlers'
    BY <1>1, <1>2, <1>4, <1>5, <1>9 DEF PlayHandlers
  <2>2. SignalInv'
    BY <1>1, <1>2, <1>3, <1>4, <1>5, <1>9 DEF SignalInv, Signalled, Signalling, ClearsIntsts
  <2>3. DoorbellInv'
    BY <1>1, <1>2, <1>3, <1>4, <1>5, <1>9 DEF DoorbellInv, ClearsIntsts
  <2>. QED BY <2>1, <2>2, <2>3
<1>10. CASE /\ Moves(v, "raiseStore", "notify")
            /\ intsts' = [intsts EXCEPT ![Peer(v)] = snap[v] \cup {Cause(v)}]
  <2>0. intsts'[p] = snap[v] \cup {Cause(v)} /\ intsts'[v] = intsts[v]
    BY <1>1, <1>10
  <2>1. PlayHandlers'
    BY <1>1, <1>2, <1>4, <1>5, <1>10 DEF PlayHandlers
  <2>2. SignalInv'
    BY <1>1, <1>2, <1>3, <1>4, <1>5, <1>6, <1>10, <2>0 DEF SignalInv, Signalled, Signalling, ClearsIntsts
  <2>3. DoorbellInv'
    BY <1>1, <1>2, <1>3, <1>4, <1>5, <1>10, <2>0 DEF DoorbellInv, ClearsIntsts
  <2>. QED BY <2>1, <2>2, <2>3
<1>. QED BY <1>2, <1>7, <1>8, <1>9, <1>10, MovesAre

\* The start of a device finds its end out of the play.
LEMMA BootInv ==
  ASSUME TypeOK, PlayInv, NEW v \in VM, Boot(v), UNCHANGED guests
  PROVE  PlayInv'
<1>1. /\ up \in [VM -> BOOLEAN] /\ ~up[v] /\ up' = [up EXCEPT ![v] = TRUE]
      /\ v = 1 => up[0]
      /\ ntctl' = ntctl \ {v} /\ ntmtbl0' = ntmtbl0
      /\ UNCHANGED <<intsts, irq, cpu, loaded, todo, timer>> /\ Connected' = Connected
  BY DEF TypeOK, Boot, Realize, guests, Connected, Reaches
<1>2. PlayTypeOK /\ BindInv /\ PlayHandlers /\ SignalInv /\ DoorbellInv
  BY DEF PlayInv
<1>3. v \notin ntctl /\ ~loaded[v] /\ ntctl' = ntctl
  BY <1>1, <1>2 DEF BindInv
<1>4. /\ \A w \in VM : Left(w)' = Left(w) /\ LinkUp(w)' = LinkUp(w)
      /\ UNCHANGED <<pc, req, snap>>
  BY <1>1, <1>3 DEF Left, LinkUp, cpu
<1>5. PlayTypeOK'
  BY <1>1, <1>2, <1>3 DEF PlayTypeOK
<1>6. BindInv'
  <2>1. up'[1] => up'[0]
    BY <1>1, <1>2 DEF BindInv, VM
  <2>2. ~loaded[1]
    BY <1>1, <1>2 DEF BindInv, VM
  <2>. QED BY <1>1, <1>2, <1>3, <1>4, <2>1, <2>2 DEF BindInv
<1>7. PlayHandlers' /\ SignalInv' /\ DoorbellInv'
  BY <1>1, <1>2, <1>4, Peers
     DEF PlayHandlers, SignalInv, Signalled, Signalling, ClearsIntsts, DoorbellInv
<1>. QED BY <1>5, <1>6, <1>7 DEF PlayInv

\* What changes neither the switch nor the guests nor the mask leaves the
\* achievements of the drivers.
LEMMA BindKept ==
  ASSUME BindInv, UNCHANGED <<up, ntIntMask, switch, loaded>>,
         Connected => Connected',
         \A w \in VM : ~loaded[w] => todo'[w] = todo[w] /\ timer'[w] = timer[w],
         \A w \in VM : loaded[w] => Left(w) \cap StartRegs \subseteq Left(w)'
  PROVE  BindInv'
<1>1. 1 \in VM /\ \A w \in VM : Peer(w) \in VM
  BY Peers DEF VM
<1>. QED BY <1>1 DEF BindInv, switch, StartRegs

LEMMA ConnectedStays ==
  ASSUME TypeOK, NEW v \in VM, Continue(v) \/ Event(v) \/ InitVmIds(v)
  PROVE  /\ UNCHANGED <<up, ntIntMask>> /\ (Connected => Connected')
         /\ ~Continue(v) => UNCHANGED <<intsts, pc, req, snap>>
<1>1. CASE Continue(v)
  BY <1>1 DEF Continue, link, Connected, Reaches, regs, ClearDb, ClearMsgsts, ClearIntsts, ClearSegsigsts,
     RefuseLoad, RefuseStore, RefuseMask, SelfLoad, SelfStore, PutMsg, StsLoad, StsStore, MsgMask,
     SigStore, IntMask, RaiseLoad, RaiseStore, Notify, NotifyNobody
<1>2. CASE Event(v) \/ InitVmIds(v)
  BY <1>2 DEF TypeOK, Event, VmIdEvent, InterruptEvent, Connect, InitVmIds, Connected, Reaches, link, regs, cpu
<1>. QED BY <1>1, <1>2

LEMMA DeviceInv ==
  ASSUME TypeOK, HandlerOK, PlayInv, NEW v \in VM, Device(v), UNCHANGED guests
  PROVE  PlayInv'
<1>1. CASE Boot(v)
  BY <1>1, BootInv
<1>2. CASE (Continue(v) \/ Event(v) \/ InitVmIds(v)) /\ UNCHANGED switch
  <2>1. PlayTypeOK'
    BY <1>2 DEF PlayInv, PlayTypeOK, switch, guests
  <2>2. BindInv'
    BY <1>2, ConnectedStays, BindKept DEF PlayInv, guests, Left
  <2>3. CASE Continue(v)
    BY <1>2, <2>1, <2>2, <2>3, HandlersInv DEF PlayInv
  <2>4. CASE ~Continue(v)
    <3>1. UNCHANGED <<intsts, pc, req, snap>>
      BY <1>2, <2>4, ConnectedStays
    <3>2. \A w \in VM : Left(w)' = Left(w) /\ LinkUp(w)' = LinkUp(w)
      BY <1>2 DEF Left, LinkUp, switch, guests
    <3>3. PlayHandlers' /\ SignalInv' /\ DoorbellInv'
      BY <3>1, <3>2, Peers DEF PlayInv, guests,
         PlayHandlers, SignalInv, Signalled, Signalling, ClearsIntsts, DoorbellInv
    <3>. QED BY <2>1, <2>2, <3>3 DEF PlayInv
  <2>. QED BY <2>3, <2>4
<1>. QED BY <1>1, <1>2 DEF Device

-----------------------------------------------------------------------------
(* Steps of the guests.                                                    *)

\* What does not touch the register file, nor a job that serves an interrupt.
LEMMA FilesKept ==
  ASSUME PlayHandlers, SignalInv, UNCHANGED <<intsts, pc, req, snap, switch>>,
         \A w \in VM : "NTINTSTS" \in Left(w)' => "NTINTSTS" \in Left(w) \/ SEVENT \in intsts[w]
  PROVE  PlayHandlers' /\ SignalInv'
<1>1. \A w \in VM : LinkUp(w)' = LinkUp(w)
  BY DEF LinkUp, switch
<1>2. \A w \in VM : Signalled(w)' => Signalled(w)
  BY Peers DEF Signalled, Signalling, ClearsIntsts
<1>. QED BY <1>1, <1>2 DEF PlayHandlers, SignalInv

LEMMA LoadDriverInv ==
  ASSUME TypeOK, PlayInv, NEW v \in VM, LoadDriver(v)
  PROVE  PlayInv'
<1>1. /\ up[v] /\ ~loaded[v]
      /\ v \in Patient => Connected
      /\ loaded \in [VM -> BOOLEAN] /\ todo \in [VM -> Jobs]
      /\ loaded' = [loaded EXCEPT ![v] = TRUE] /\ todo' = [todo EXCEPT ![v] = Bind]
      /\ UNCHANGED <<regs, up, pc, req, snap, switch, timer>> /\ Connected' = Connected
      /\ UNCHANGED <<intsts, ntIntMask, ntctl, ntmtbl0>>
  BY DEF Connected, Reaches, LoadDriver, PlayInv, PlayTypeOK, vars, link, cpu, switch, regs
<1>2. PlayTypeOK /\ BindInv /\ PlayHandlers /\ SignalInv /\ DoorbellInv
  BY DEF PlayInv
<1>3. /\ Left(v)' = StartRegs \cup {"NTGSIGNAL"} /\ todo[v] = <<>> /\ Left(v) = {}
      /\ \A w \in VM : w # v => Left(w)' = Left(w)
  <2>1. todo[v] = <<>> /\ todo'[v] = Bind /\ \A w \in VM : w # v => todo'[w] = todo[w]
    BY <1>1, <1>2 DEF BindInv
  <2>. QED BY <2>1, ServedIs, LeftIs
<1>4. PlayTypeOK'
  BY <1>1, <1>2, ServedIs DEF PlayTypeOK
<1>5. BindInv'
  <2>1. 1 \in VM /\ "NTCTL" \in Left(v)' /\ "NTMTBLDATA" \in Left(v)' /\ "NTINTMSK" \in Left(v)'
    BY <1>3 DEF VM, StartRegs
  <2>2. /\ loaded'[v] /\ \A w \in VM : w # v => loaded'[w] = loaded[w] /\ todo'[w] = todo[w]
        /\ \A w \in VM : timer'[w] = timer[w]
    BY <1>1
  <2>3. up'[1] => up'[0]
    BY <1>1, <1>2 DEF BindInv
  <2>4. ASSUME NEW w \in VM
        PROVE  /\ w \in ntctl' \/ loaded'[w] => up'[w]
               /\ ~loaded'[w] => todo'[w] = <<>> /\ ~timer'[w]
               /\ loaded'[w] /\ w \in Patient => Connected'
               /\ loaded'[w] /\ "NTCTL" \notin Left(w)' => w \in ntctl'
               /\ loaded'[w] /\ "NTMTBLDATA" \notin Left(w)' => ntmtbl0'
    BY <1>1, <1>2, <1>3, <2>1, <2>2 DEF BindInv
  <2>5. OpenMasks /\ loaded'[1] /\ "NTINTMSK" \notin Left(1)' => DBELL \notin ntIntMask'
    BY <1>1, <1>2, <1>3, <2>1, <2>2 DEF BindInv
  <2>. QED BY <2>3, <2>4, <2>5 DEF BindInv
<1>6. PlayHandlers' /\ SignalInv'
  BY <1>1, <1>2, <1>3, FilesKept DEF StartRegs
<1>7. DoorbellInv'
  BY <1>1, <1>2, <1>3, Peers DEF DoorbellInv, ClearsIntsts
<1>. QED BY <1>4, <1>5, <1>6, <1>7 DEF PlayInv

LEMMA ExpireInv ==
  ASSUME TypeOK, PlayInv, NEW v \in VM, Expire(v)
  PROVE  PlayInv'
<1>1. /\ timer[v] /\ todo[v] = <<>> /\ timer \in [VM -> BOOLEAN] /\ todo \in [VM -> Jobs]
      /\ timer' = [timer EXCEPT ![v] = FALSE] /\ todo' = [todo EXCEPT ![v] = Ping]
      /\ UNCHANGED <<up, pc, req, snap, switch, loaded>> /\ Connected' = Connected
      /\ UNCHANGED <<intsts, ntIntMask, ntctl, ntmtbl0>>
  BY DEF Connected, Reaches, Expire, PlayInv, PlayTypeOK, vars, link, cpu, switch, regs
<1>2. PlayTypeOK /\ BindInv /\ PlayHandlers /\ SignalInv /\ DoorbellInv
  BY DEF PlayInv
<1>3. /\ Left(v)' = {"OUTDBELLSET"} /\ Left(v) = {} /\ loaded[v]
      /\ \A w \in VM : w # v => Left(w)' = Left(w)
  <2>1. loaded[v]
    BY <1>1, <1>2 DEF BindInv
  <2>2. todo'[v] = Ping /\ \A w \in VM : w # v => todo'[w] = todo[w]
    BY <1>1
  <2>. QED BY <1>1, <2>1, <2>2, ServedIs, LeftIs
<1>4. PlayTypeOK'
  BY <1>1, <1>2, ServedIs DEF PlayTypeOK
<1>5. BindInv'
  BY <1>1, <1>2, <1>3, BindKept
<1>6. PlayHandlers' /\ SignalInv'
  BY <1>1, <1>2, <1>3, FilesKept
<1>7. DoorbellInv'
  BY <1>1, <1>2, <1>3, Peers DEF DoorbellInv, ClearsIntsts
<1>. QED BY <1>4, <1>5, <1>6, <1>7 DEF PlayInv

LEMMA IsrInv ==
  ASSUME TypeOK, PlayInv, NEW v \in VM, Isr(v)
  PROVE  PlayInv'
<1>. DEFINE job == IF loaded[v] THEN Served(intsts[v]) ELSE <<>>
<1>1. /\ todo[v] = <<>> /\ timer \in [VM -> BOOLEAN] /\ todo \in [VM -> Jobs]
      /\ todo' = [todo EXCEPT ![v] = job]
      /\ UNCHANGED <<up, pc, req, snap, switch, loaded, timer>> /\ Connected' = Connected
      /\ UNCHANGED <<intsts, ntIntMask, ntctl, ntmtbl0>>
  BY DEF Connected, Reaches, Isr, TakeInterrupt, PlayInv, PlayTypeOK, link, cpu, switch, regs
<1>2. PlayTypeOK /\ BindInv /\ PlayHandlers /\ SignalInv /\ DoorbellInv
  BY DEF PlayInv
<1>3. /\ job \in Jobs
      /\ ~loaded[v] => job = <<>>
      /\ "NTINTSTS" \in RegsOf(job) => SEVENT \in intsts[v]
  BY ServedIs
<1>4. /\ Left(v)' = RegsOf(job) /\ Left(v) = {}
      /\ \A w \in VM : w # v => Left(w)' = Left(w) /\ todo'[w] = todo[w]
      /\ todo'[v] = job
  BY <1>1, <1>2, ServedIs DEF Left, RegsOf
<1>. HIDE DEF job
<1>5. PlayTypeOK'
  BY <1>1, <1>2, <1>3 DEF PlayTypeOK
<1>6. BindInv'
  BY <1>1, <1>2, <1>3, <1>4, BindKept
<1>7. PlayHandlers' /\ SignalInv'
  BY <1>1, <1>2, <1>3, <1>4, FilesKept
<1>8. DoorbellInv'
  BY <1>1, <1>2, <1>4, Peers DEF DoorbellInv, ClearsIntsts
<1>. QED BY <1>5, <1>6, <1>7, <1>8 DEF PlayInv

\* What a write of a guest comes to.
Performed(v, r) ==
  \/ /\ r = "NTCTL" /\ ntctl' = ntctl \cup {v}
     /\ UNCHANGED <<ntmtbl0, ntIntMask, pc, req, snap>>
  \/ /\ r = "NTMTBLDATA" /\ ntmtbl0' = TRUE
     /\ UNCHANGED <<ntctl, ntIntMask, pc, req, snap>>
  \/ /\ r = "NTINTMSK" /\ pc'[v] = "idle"
     /\ OpenMasks => DBELL \notin ntIntMask'
     /\ UNCHANGED <<ntctl, ntmtbl0>>
  \/ /\ r = "NTGSIGNAL" /\ pc'[v] = "sigStore" /\ req'[v].reg = "NTGSIGNAL"
     /\ UNCHANGED <<ntctl, ntmtbl0, ntIntMask>>
  \/ /\ r = "OUTDBELLSET"
     /\ \/ known[v] /\ pc'[v] = "intMask" /\ req'[v].reg = "OUTDBELLSET"
        \/ ~known[v] /\ pc'[v] = "idle"
     /\ UNCHANGED <<ntctl, ntmtbl0, ntIntMask>>
  \/ /\ r \in StatusRegs /\ pc'[v] = "clearStore" /\ req'[v].reg = r
     /\ r = "NTINTSTS" => snap'[v] = intsts[v]
     /\ UNCHANGED <<ntctl, ntmtbl0, ntIntMask>>

LEMMA WriteIs ==
  ASSUME TypeOK, NEW v \in VM, NEW r, WriteTo(v, r)
  PROVE  /\ Performed(v, r) /\ Alone(v)
         /\ up[v] /\ pc[v] = "idle"
         /\ UNCHANGED <<intsts, up, known, wired, eventfd, msi>>
<1>0. {"idle", "clearStore", "sigStore", "intMask"} \subseteq Steps
  BY DEF Steps
<1>1. CASE r = "NTCTL" /\ WriteNtctl(v)
  BY <1>1 DEF WriteNtctl, Store, vars, regs, link, irq, cpu, Performed, Alone
<1>2. CASE r = "NTMTBLDATA" /\ SetNtMtbData(v)
  BY <1>2 DEF SetNtMtbData, Store, vars, regs, link, irq, cpu, Performed, Alone
<1>3. CASE r = "NTINTMSK" /\ WriteIntMask(v) /\ UNCHANGED switch
  <2>1. PICK c \in Commands[v] : c.reg = "NTINTMSK" /\ Trap(v, c, "idle") /\ ntIntMask' = c.bits
    BY <1>3 DEF WriteIntMask
  <2>2. Alone(v) /\ pc'[v] = "idle" /\ pc[v] = "idle" /\ up[v]
    BY <1>0, <1>3, <2>1, TrapMoves DEF WriteIntMask, Trap, Alone
  <2>. QED BY <1>3, <2>1, <2>2 DEF WriteIntMask, link, irq, switch, OpenMasks, Performed
<1>4. CASE r = "NTGSIGNAL" /\ SigLoad(v) /\ UNCHANGED switch
  <2>1. PICK c \in Commands[v] : c.reg = "NTGSIGNAL" /\ Trap(v, c, "sigStore") /\ Load(v, segsigsts)
    BY <1>4 DEF SigLoad
  <2>2. \A w \in VM : w # v => snap'[w] = snap[w]
    BY <2>1, WordsTyped, LoadMoves
  <2>3. Alone(v) /\ pc'[v] = "sigStore" /\ req'[v] = c /\ pc[v] = "idle" /\ up[v]
    BY <1>0, <2>1, <2>2, TrapMoves DEF Trap, Alone
  <2>. QED BY <1>4, <2>1, <2>3 DEF SigLoad, regs, link, irq, switch, Performed
<1>5. CASE r = "OUTDBELLSET" /\ DbRing(v) /\ UNCHANGED switch
  <2>1. PICK c \in Commands[v] : c.reg = "OUTDBELLSET" /\ Trap(v, c, IF known[v] THEN "intMask" ELSE "idle")
    BY <1>5 DEF DbRing
  <2>2. snap' = snap /\ UNCHANGED <<intsts, ntIntMask, up, known, wired, eventfd, msi, ntctl, ntmtbl0>>
    BY <1>5 DEF DbRing, link, irq, switch
  <2>3. CASE known[v]
    <3>1. Trap(v, c, "intMask")
      BY <2>1, <2>3
    <3>2. Alone(v) /\ pc'[v] = "intMask" /\ req'[v] = c /\ pc[v] = "idle" /\ up[v]
      BY <1>0, <2>2, <3>1, TrapMoves DEF Trap, Alone
    <3>. QED BY <1>5, <2>1, <2>2, <2>3, <3>2 DEF Performed
  <2>4. CASE ~known[v]
    <3>1. Trap(v, c, "idle")
      BY <2>1, <2>4
    <3>2. Alone(v) /\ pc'[v] = "idle" /\ pc[v] = "idle" /\ up[v]
      BY <1>0, <2>2, <3>1, TrapMoves DEF Trap, Alone
    <3>. QED BY <1>5, <2>1, <2>2, <2>4, <3>2 DEF Performed
  <2>. QED BY <2>3, <2>4
<1>6. CASE r \in StatusRegs /\ ClearLoad(v) /\ req'[v].reg = r /\ UNCHANGED switch
  <2>1. PICK c \in Commands[v] : /\ c.reg \in StatusRegs /\ Trap(v, c, "clearStore")
                                 /\ Load(v, Status(v, c.reg))
    BY <1>6 DEF ClearLoad
  <2>2. Alone(v) /\ pc'[v] = "clearStore" /\ req'[v] = c /\ pc[v] = "idle" /\ up[v]
    BY <1>0, <2>1, TrapMoves DEF Trap, Alone, Load, TypeOK
  <2>3. r = "NTINTSTS" => snap'[v] = intsts[v]
    BY <1>6, <2>1, <2>2 DEF Status, Load, TypeOK
  <2>. QED BY <1>6, <2>2, <2>3 DEF ClearLoad, regs, link, irq, switch, Performed
<1>. QED BY <1>1, <1>2, <1>3, <1>4, <1>5, <1>6 DEF WriteTo

LEMMA AccessInv ==
  ASSUME TypeOK, PlayInv, NEW v \in VM, Access(v)
  PROVE  PlayInv'
<1>. DEFINE r == Head(todo[v])
            p == Peer(v)
<1>1. /\ todo[v] # <<>> /\ WriteTo(v, r) /\ todo \in [VM -> Jobs] /\ timer \in [VM -> BOOLEAN]
      /\ todo' = [todo EXCEPT ![v] = Tail(@)] /\ loaded' = loaded
      /\ timer' = [timer EXCEPT ![v] = @ \/ Waits(v, r)]
  BY DEF Access, PlayInv, PlayTypeOK
<1>2. PlayTypeOK /\ BindInv /\ PlayHandlers /\ SignalInv /\ DoorbellInv
  BY DEF PlayInv
<1>3. /\ Performed(v, r) /\ Alone(v) /\ up[v] /\ pc[v] = "idle"
      /\ UNCHANGED <<intsts, up>> /\ Connected' = Connected
  BY <1>1, WriteIs DEF Connected, Reaches
<1>4. /\ Tail(todo[v]) \in Jobs
      /\ todo'[v] = Tail(todo[v])
      /\ Left(v) = {r} \cup Left(v)'
      /\ r = "NTGSIGNAL" => Left(v) = {"NTGSIGNAL"}
      /\ \A w \in VM : w # v => Left(w)' = Left(w) /\ todo'[w] = todo[w] /\ timer'[w] = timer[w]
  BY <1>1, JobsAre, LeftIs
<1>5. loaded[v]
  BY <1>1, <1>2 DEF BindInv
<1>6. /\ timer'[v] = (timer[v] \/ Waits(v, r))
      /\ timer' \in [VM -> BOOLEAN]
  <2>1. Waits(v, r) \in BOOLEAN
    BY DEF Waits, LinkUp
  <2>. QED BY <1>1, <2>1
<1>7. /\ p \in VM /\ p # v /\ Peer(p) = v /\ \A w \in VM : w = v \/ w = p
      /\ pc'[p] = pc[p] /\ req'[p] = req[p] /\ snap'[p] = snap[p]
  BY <1>3, Peers DEF Alone
<1>. HIDE DEF r, p
<1>8. PlayTypeOK'
  BY <1>1, <1>2, <1>3, <1>4, <1>6 DEF PlayTypeOK, Performed
<1>9. /\ \A w \in VM : w \in ntctl => w \in ntctl'
      /\ \A w \in VM : w \in ntctl' => w \in ntctl \/ w = v
      /\ ntmtbl0 => ntmtbl0'
      /\ r = "NTCTL" => v \in ntctl'
      /\ r = "NTMTBLDATA" => ntmtbl0'
      /\ r # "NTINTMSK" => ntIntMask' = ntIntMask
      /\ r = "NTINTMSK" /\ OpenMasks => DBELL \notin ntIntMask'
  BY <1>3 DEF Performed, StatusRegs
<1>9a. /\ pc'[v] # "raiseStore"
       /\ ClearsIntsts(v)' => r = "NTINTSTS" /\ snap'[v] = intsts[v]
       /\ Signalling(v)' => r = "NTGSIGNAL"
  BY <1>3 DEF Performed, StatusRegs, ClearsIntsts, Signalling, RaiseSteps
<1>9b. \A w \in VM : LinkUp(w) => LinkUp(w)'
  BY <1>9, Peers DEF LinkUp
<1>10. BindInv'
  <2>1. up'[1] => up'[0]
    BY <1>2, <1>3 DEF BindInv
  <2>2. ASSUME NEW w \in VM
        PROVE  /\ w \in ntctl' \/ loaded'[w] => up'[w]
               /\ ~loaded'[w] => todo'[w] = <<>> /\ ~timer'[w]
               /\ loaded'[w] /\ w \in Patient => Connected'
               /\ loaded'[w] /\ "NTCTL" \notin Left(w)' => w \in ntctl'
               /\ loaded'[w] /\ "NTMTBLDATA" \notin Left(w)' => ntmtbl0'
    <3>1. CASE w = v
      BY <1>1, <1>2, <1>3, <1>4, <1>5, <1>9, <3>1 DEF BindInv
    <3>2. CASE w # v
      BY <1>1, <1>2, <1>3, <1>4, <1>9, <3>2 DEF BindInv
    <3>. QED BY <3>1, <3>2
  <2>3. OpenMasks /\ loaded'[1] /\ "NTINTMSK" \notin Left(1)' => DBELL \notin ntIntMask'
    <3>1. CASE r = "NTINTMSK"
      BY <1>9, <3>1
    <3>2. CASE r # "NTINTMSK"
      <4>1. 1 \in VM /\ ("NTINTMSK" \in Left(1) => "NTINTMSK" \in Left(1)')
        BY <1>4, <3>2 DEF VM
      <4>. QED BY <1>1, <1>2, <1>9, <3>2, <4>1 DEF BindInv
    <3>. QED BY <3>1, <3>2
  <2>. QED BY <2>1, <2>2, <2>3 DEF BindInv
<1>11. PlayHandlers'
  BY <1>2, <1>3, <1>7 DEF PlayHandlers, Performed, OutmsgSteps, RaiseSteps
<1>12. SignalInv'
  <2>1. r = "NTGSIGNAL" => LinkUp(p)
    BY <1>2, <1>4, <1>5, <1>7 DEF BindInv, LinkUp
  <2>2. Signalled(v)' => Signalled(v)
    BY <1>3, <1>4, <1>7, <1>9a DEF Signalled, Signalling, p
  <2>3. Signalled(p)' => Signalled(p) \/ r = "NTGSIGNAL"
    BY <1>3, <1>4, <1>7, <1>9a DEF Signalled, ClearsIntsts
  <2>. QED BY <1>2, <1>7, <1>9b, <2>1, <2>2, <2>3 DEF SignalInv
<1>13. DoorbellInv'
  <2>1. r = "NTINTSTS" => timer'[v]
    <3>1. r = "NTINTSTS" => Signalled(v)
      BY <1>4 DEF Signalled
    <3>. QED BY <1>2, <1>6, <3>1 DEF SignalInv, Waits
  <2>2. /\ pc'[p] = "raiseStore" /\ DBELL \in intsts'[v] => DBELL \in snap'[p]
        /\ ClearsIntsts(v)' /\ DBELL \in snap'[v] => DBELL \in intsts'[v]
        /\ ClearsIntsts(v)' => timer'[v] \/ "OUTDBELLSET" \in Left(v)'
    BY <1>2, <1>3, <1>7, <1>9a, <2>1 DEF DoorbellInv, ClearsIntsts, p
  <2>3. /\ pc'[v] = "raiseStore" /\ DBELL \in intsts'[p] => DBELL \in snap'[v]
        /\ ClearsIntsts(p)' /\ DBELL \in snap'[p] => DBELL \in intsts'[p]
        /\ ClearsIntsts(p)' => timer'[p] \/ "OUTDBELLSET" \in Left(p)'
    BY <1>2, <1>3, <1>4, <1>7, <1>9a DEF DoorbellInv, ClearsIntsts
  <2>. QED BY <1>7, <2>2, <2>3 DEF DoorbellInv, p
<1>. QED BY <1>8, <1>10, <1>11, <1>12, <1>13 DEF PlayInv
LEMMA PlayStep ==
  ASSUME TypeOK, HandlerOK, PlayInv, [NextAll]_all
  PROVE  PlayInv'
<1>1. CASE UNCHANGED all
  BY <1>1 DEF all, vars, regs, link, irq, cpu, switch, guests, PlayInv, PlayTypeOK, BindInv, PlayHandlers,
     SignalInv, Signalled, Signalling, ClearsIntsts, LinkUp, DoorbellInv, Left, Connected, Reaches
<1>2. CASE NextAll
  <2>1. PICK v \in VM : Process(v)
    BY <1>2 DEF NextAll
  <2>2. CASE Device(v) /\ UNCHANGED guests
    BY <2>2, DeviceInv
  <2>3. CASE LoadDriver(v)
    BY <2>3, LoadDriverInv
  <2>4. CASE Isr(v)
    BY <2>4, IsrInv
  <2>5. CASE Expire(v)
    BY <2>5, ExpireInv
  <2>6. CASE Access(v)
    BY <2>6, AccessInv
  <2>. QED BY <2>1, <2>2, <2>3, <2>4, <2>5, <2>6 DEF Process, Guest
<1>. QED BY <1>1, <1>2

\* Whatever guests are patient and whatever they write to the registers of
\* their jobs, a guest that is signalled finds its link up, and a doorbell that
\* stands in the interrupt status is dropped only by who has the next ring.
THEOREM PlayInvariant == SpecAll => []PlayInv
<1>1. InitAll => PlayInv
  BY PlayInit
<1>2. (TypeOK /\ HandlerOK) /\ PlayInv /\ [NextAll]_all => PlayInv'
  BY PlayStep
<1>. QED BY <1>1, <1>2, PlayFits, PTL DEF SpecAll

-----------------------------------------------------------------------------
(* The ball stays in play.                                                 *)

\* Both drivers have started and both processes live.
Playing == \A v \in VM : Bound(v) /\ pc[v] # "dead"

\* Who plays knows its peer, sees the link up and has its doorbells open.
LEMMA PlayingMeans ==
  ASSUME 1 \in Patient, OpenMasks, PlayInv, \A w \in VM : Bound(w)
  PROVE  \A w \in VM :
           /\ known[w] /\ Reaches(w) /\ LinkUp(w) /\ DBELL \notin ntIntMask
           /\ loaded[w] /\ Left(w) \cap StartRegs = {}
<1>1. BindInv /\ todo \in [VM -> Jobs] /\ 1 \in VM /\ \A w \in VM : w = 1 \/ w = Peer(1)
  BY Peers DEF PlayInv, PlayTypeOK, VM
<1>2. \A w \in VM : loaded[w] /\ Left(w) \cap StartRegs = {}
  BY <1>1, SignalLast, LeftIs DEF Bound
<1>3. \A w \in VM : w \in ntctl /\ ntmtbl0
  BY <1>1, <1>2 DEF BindInv, StartRegs
<1>4. Connected /\ DBELL \notin ntIntMask
  BY <1>1, <1>2 DEF BindInv, StartRegs
<1>. QED BY <1>1, <1>2, <1>3, <1>4, Peers DEF LinkUp, Connected, Reaches

\* A handler takes back neither a signal nor an MSI.
LEMMA SignalsKept ==
  ASSUME TypeOK, PlayHandlers, NEW v \in VM, Continue(v)
  PROVE  \A w \in VM : eventfd[w] \subseteq eventfd'[w] /\ msi'[w] = msi[w]
<1>1. CASE ClearDb(v) \/ ClearMsgsts(v) \/ ClearIntsts(v) \/ ClearSegsigsts(v) \/ SigStore(v)
           \/ IntMask(v) \/ RaiseLoad(v) \/ RaiseStore(v) \/ NotifyNobody(v)
  BY <1>1 DEF ClearDb, ClearMsgsts, ClearIntsts, ClearSegsigsts, SigStore, IntMask, RaiseLoad,
     RaiseStore, NotifyNobody, irq
<1>2. CASE Notify(v)
  BY <1>2, Peers DEF Notify, TypeOK
<1>. QED BY <1>1, <1>2, HandlersAre

LEMMA HandlersKeepBall ==
  ASSUME 1 \in Patient, OpenMasks, TypeOK, PlayInv, BallInPlay, Playing',
         NEW v \in VM, Continue(v), UNCHANGED <<switch, guests>>
  PROVE  \E w \in VM : Serves(w)' \/ Ringing(w)'
<1>. DEFINE p == Peer(v)
<1>1. /\ p \in VM /\ p # v /\ Peer(p) = v /\ \A w \in VM : w = v \/ w = p
      /\ intsts \in [VM -> SUBSET IntBits]
      /\ PlayHandlers /\ DoorbellInv
  BY Peers DEF TypeOK, PlayInv
<1>2. \A w \in VM : Serves(w)' = Serves(w) /\ Bound(w)' = Bound(w)
  BY DEF guests, Serves, Bound, Left
<1>3. Alone(v) /\ (pc'[v] # "idle" => req'[v] = req[v])
  BY <1>1, MovesAre
<1>4. pc'[p] = pc[p] /\ req'[p] = req[p] /\ pc'[v] # "dead" /\ pc'[p] # "dead"
  BY <1>1, <1>3 DEF Alone, Playing
<1>5. pc[v] # "dead"
  BY <1>1, MovesAre DEF Moves
<1>6. \E w \in VM : Serves(w) \/ Ringing(w)
  BY <1>1, <1>2, <1>4, <1>5 DEF BallInPlay, Playing
<1>7. Reaches(v) /\ DBELL \notin ntIntMask
  BY <1>2, PlayingMeans DEF Playing
<1>8. \A w \in VM : eventfd[w] \subseteq eventfd'[w] /\ msi'[w] = msi[w]
  BY <1>1, SignalsKept
<1>9. CASE \E w \in VM : Serves(w)
  BY <1>2, <1>9
<1>10. CASE Ringing(v)
  <2>1. CASE intsts'[v] = intsts[v]
    BY <1>1, <1>4, <1>8, <1>10, <2>1 DEF Ringing, Interrupting
  <2>2. CASE ClearsIntsts(v)
    BY <1>1, <1>2, <2>2 DEF DoorbellInv, Serves
  <2>3. intsts'[v] = intsts[v] \/ ClearsIntsts(v)
    BY <1>1, MovesAre
  <2>. QED BY <2>1, <2>2, <2>3
<1>11. CASE Ringing(p)
  <2>1. CASE pc[v] \in {"intMask", "raiseLoad", "raiseStore"} /\ req[v].reg = "OUTDBELLSET"
    <3>1. Cause(v) = DBELL
      BY <2>1 DEF Cause, CauseOf
    <3>2. CASE pc[v] \in {"intMask", "raiseLoad"}
      <4>1. pc'[v] \in {"raiseLoad", "raiseStore"}
        BY <1>1, <1>7, <3>1, <3>2, MovesAre DEF Moves
      <4>. QED BY <1>1, <1>3, <2>1, <4>1 DEF Ringing
    <3>3. CASE pc[v] = "raiseStore"
      <4>1. pc'[v] = "notify" /\ DBELL \in intsts'[p]
        BY <1>1, <3>1, <3>3, MovesAre DEF Moves
      <4>. QED BY <1>1, <4>1 DEF Ringing, Interrupting
    <3>. QED BY <2>1, <3>2, <3>3
  <2>2. CASE DBELL \in intsts[p] /\ Interrupting(p)
    <3>1. DBELL \in intsts'[p]
      <4>1. pc[v] = "raiseStore" => DBELL \in snap[v]
        BY <1>1, <2>2 DEF DoorbellInv
      <4>. QED BY <1>1, <2>2, <4>1, MovesAre DEF Moves
    <3>2. CASE pc[v] = "notify"
      <4>1. HostVector \in eventfd'[p]
        BY <1>1, <1>7, <3>2, MovesAre DEF Moves
      <4>. QED BY <1>1, <3>1, <4>1 DEF Ringing, Interrupting, HostVector
    <3>3. CASE pc[v] # "notify"
      BY <1>1, <1>8, <2>2, <3>1, <3>3 DEF Ringing, Interrupting
    <3>. QED BY <3>2, <3>3
  <2>. QED BY <1>1, <1>11, <2>1, <2>2 DEF Ringing
<1>. QED BY <1>1, <1>6, <1>9, <1>10, <1>11

\* The main loop moves a signal on to the MSI it stands for.
LEMMA EventsKeepBall ==
  ASSUME TypeOK, BallInPlay, Playing',
         NEW v \in VM, Event(v) \/ InitVmIds(v), UNCHANGED <<switch, guests>>
  PROVE  \E w \in VM : Serves(w)' \/ Ringing(w)'
<1>1. /\ \A w \in VM : Serves(w)' = Serves(w) /\ Bound(w)' = Bound(w)
      /\ UNCHANGED <<pc, req, intsts>>
  BY DEF guests, Serves, Bound, Left, Event, VmIdEvent, InterruptEvent, Connect, InitVmIds, regs, cpu
<1>2. \E w \in VM : Serves(w) \/ Ringing(w)
  BY <1>1 DEF BallInPlay, Playing
<1>3. \A w \in VM : Interrupting(w) => Interrupting(w)'
  <2>1. CASE VmIdEvent(v)
    BY <1>1, <2>1 DEF VmIdEvent, Interrupting, TypeOK
  <2>2. CASE InterruptEvent(v)
    BY <1>1, <2>2 DEF InterruptEvent, Interrupting, TypeOK
  <2>3. CASE InitVmIds(v)
    BY <1>1, <2>3, Peers DEF InitVmIds, Interrupting, TypeOK
  <2>4. CASE Connect(v)
    BY <1>1, <2>4 DEF Connect, irq, Interrupting
  <2>. QED BY <2>1, <2>2, <2>3, <2>4 DEF Event
<1>. QED BY <1>1, <1>2, <1>3, Peers DEF Ringing

LEMMA IsrKeepsBall ==
  ASSUME TypeOK, PlayInv, BallInPlay, Playing', NEW v \in VM, Isr(v)
  PROVE  \E w \in VM : Serves(w)' \/ Ringing(w)'
<1>. DEFINE p == Peer(v)
<1>1. /\ p \in VM /\ p # v /\ Peer(p) = v /\ \A w \in VM : w = v \/ w = p
      /\ todo[v] = <<>> /\ todo \in [VM -> Jobs]
      /\ todo' = [todo EXCEPT ![v] = IF loaded[v] THEN Served(intsts[v]) ELSE <<>>]
      /\ UNCHANGED <<pc, req, intsts, eventfd, loaded, timer>>
      /\ msi' = [msi EXCEPT ![v] = FALSE] /\ msi \in [VM -> BOOLEAN]
  BY Peers DEF Isr, TakeInterrupt, TypeOK, PlayInv, PlayTypeOK, cpu, regs
<1>2. Left(v) = {} /\ Left(p)' = Left(p) /\ loaded[v]
  BY <1>1, ServedIs, LeftIs DEF Playing, Bound
<1>3. Left(v)' = RegsOf(Served(intsts[v]))
  BY <1>1, <1>2, LeftIs
<1>4. \E w \in VM : Serves(w) \/ Ringing(w)
  BY <1>1, <1>2 DEF BallInPlay, Playing, Bound
<1>5. CASE Serves(v) \/ Serves(p)
  BY <1>1, <1>2, <1>5 DEF Serves
<1>6. CASE Ringing(p)
  BY <1>1, <1>6 DEF Ringing, Interrupting
<1>7. CASE Ringing(v)
  <2>1. CASE DBELL \in intsts[v]
    BY <1>1, <1>3, <2>1, ServedIs DEF Serves
  <2>2. CASE DBELL \notin intsts[v]
    BY <1>1, <1>7, <2>2 DEF Ringing
  <2>. QED BY <2>1, <2>2
<1>. QED BY <1>1, <1>4, <1>5, <1>6, <1>7

LEMMA AccessKeepsBall ==
  ASSUME 1 \in Patient, OpenMasks, TypeOK, PlayInv, BallInPlay, Playing', NEW v \in VM, Access(v)
  PROVE  \E w \in VM : Serves(w)' \/ Ringing(w)'
<1>. DEFINE r == Head(todo[v])
            p == Peer(v)
<1>1. /\ todo[v] # <<>> /\ WriteTo(v, r) /\ todo \in [VM -> Jobs] /\ timer \in [VM -> BOOLEAN]
      /\ todo' = [todo EXCEPT ![v] = Tail(@)] /\ loaded' = loaded
      /\ timer' = [timer EXCEPT ![v] = @ \/ Waits(v, r)]
      /\ BindInv /\ SignalInv
  BY DEF Access, PlayInv, PlayTypeOK
<1>2. /\ Performed(v, r) /\ Alone(v) /\ pc[v] = "idle"
      /\ UNCHANGED <<intsts, known, eventfd, msi>>
  BY <1>1, WriteIs
<1>3. /\ Left(v) = {r} \cup Left(v)'
      /\ r = "NTGSIGNAL" => Left(v) = {"NTGSIGNAL"}
      /\ \A w \in VM : w # v => Left(w)' = Left(w) /\ timer'[w] = timer[w]
  BY <1>1, JobsAre, LeftIs
<1>4. timer'[v] = (timer[v] \/ Waits(v, r))
  <2>1. Waits(v, r) \in BOOLEAN
    BY DEF Waits, LinkUp
  <2>. QED BY <1>1, <2>1
<1>5. /\ p \in VM /\ p # v /\ Peer(p) = v /\ \A w \in VM : w = v \/ w = p
      /\ pc'[p] = pc[p] /\ req'[p] = req[p]
  BY <1>2, Peers DEF Alone
<1>. HIDE DEF r
<1>6. CASE r = "NTGSIGNAL"
  <2>1. loaded[p] /\ "NTGSIGNAL" \notin Left(p)
    BY <1>1, <1>3, <1>5 DEF Playing, Bound
  <2>2. Left(p) \cap StartRegs = {}
    BY <1>1, <1>5, <2>1, SignalLast, LeftIs
  <2>3. LinkUp(v)
    BY <1>1, <1>5, <2>1, <2>2 DEF BindInv, StartRegs, LinkUp
  <2>. QED BY <1>4, <1>6, <2>3 DEF Waits, Serves
<1>7. CASE r # "NTGSIGNAL"
  <2>1. \A w \in VM : Bound(w) /\ pc[w] # "dead"
    BY <1>1, <1>2, <1>3, <1>5, <1>7 DEF Playing, Bound
  <2>2. /\ known[v] /\ Left(v) \cap StartRegs = {}
        /\ \E w \in VM : Serves(w) \/ Ringing(w)
    BY <2>1, PlayingMeans DEF BallInPlay
  <2>3. CASE r = "OUTDBELLSET"
    BY <1>2, <1>5, <2>2, <2>3 DEF Performed, StatusRegs, Ringing
  <2>4. CASE r = "INDBELLSTS"
    BY <1>4, <2>4 DEF Waits, Serves
  <2>5. CASE r = "NTINTSTS"
    <3>1. LinkUp(v)
      BY <1>1, <1>3, <2>5 DEF SignalInv, Signalled
    <3>. QED BY <1>4, <2>5, <3>1 DEF Waits, Serves
  <2>6. CASE r \in StatusRegs \ {"INDBELLSTS", "NTINTSTS"}
    <3>1. \A w \in VM : Serves(w) => Serves(w)'
      BY <1>3, <1>4, <2>6 DEF Serves, StatusRegs
    <3>2. Ringing(v) => Ringing(v)'
      BY <1>2, <1>5 DEF Ringing, Interrupting
    <3>3. Ringing(p) => Ringing(p)'
      BY <1>2, <1>5 DEF Ringing, Interrupting
    <3>. QED BY <1>5, <2>2, <3>1, <3>2, <3>3
  <2>7. r \notin StartRegs
    BY <1>3, <2>2
  <2>. QED BY <1>2, <1>7, <2>3, <2>4, <2>5, <2>6, <2>7 DEF Performed, StartRegs
<1>. QED BY <1>6, <1>7

LEMMA BallStep ==
  ASSUME 1 \in Patient, OpenMasks, TypeOK, PlayInv, BallInPlay, [NextAll]_all
  PROVE  BallInPlay'
<1>. SUFFICES ASSUME Playing' PROVE \E w \in VM : Serves(w)' \/ Ringing(w)'
  BY DEF BallInPlay, Playing
<1>1. CASE UNCHANGED all
  BY <1>1 DEF all, vars, regs, link, irq, cpu, switch, guests, BallInPlay, Playing, Bound, Serves, Ringing,
     Interrupting, Left
<1>2. CASE NextAll
  <2>1. PICK v \in VM : Process(v)
    BY <1>2 DEF NextAll
  <2>2. CASE Boot(v) /\ UNCHANGED guests
    BY <2>2 DEF Boot, Realize, guests, PlayInv, BindInv, Playing, Bound
  <2>3. CASE Continue(v) /\ UNCHANGED <<switch, guests>>
    BY <2>3, HandlersKeepBall
  <2>4. CASE (Event(v) \/ InitVmIds(v)) /\ UNCHANGED <<switch, guests>>
    BY <2>4, EventsKeepBall
  <2>5. CASE LoadDriver(v)
    <3>1. todo'[v] = Bind
      BY <2>5 DEF LoadDriver, PlayInv, PlayTypeOK
    <3>2. "NTGSIGNAL" \in Left(v)'
      BY <3>1, ServedIs, LeftIs
    <3>. QED BY <3>2 DEF Playing, Bound
  <2>6. CASE Isr(v)
    BY <2>6, IsrKeepsBall
  <2>7. CASE Expire(v)
    <3>1. todo'[v] = Ping
      BY <2>7 DEF Expire, PlayInv, PlayTypeOK
    <3>2. Left(v)' = {"OUTDBELLSET"}
      BY <3>1, ServedIs, LeftIs
    <3>. QED BY <3>2 DEF Serves
  <2>8. CASE Access(v)
    BY <2>8, AccessKeepsBall
  <2>. QED BY <2>1, <2>2, <2>3, <2>4, <2>5, <2>6, <2>7, <2>8 DEF Process, Guest, Device
<1>. QED BY <1>1, <1>2

\* If the driver of VM 1 is loaded after both ends have learnt of each other
\* and no guest masks doorbells, then from the moment both drivers have started
\* there is always a ring under way or a guest about to ring, while both
\* processes live.
THEOREM BallKept ==
  ASSUME 1 \in Patient, OpenMasks
  PROVE  SpecAll => []BallInPlay
<1>1. InitAll => BallInPlay
  BY DEF InitAll, BallInPlay, Bound, VM
<1>2. (TypeOK /\ HandlerOK) /\ PlayInv /\ BallInPlay /\ [NextAll]_all => BallInPlay'
  BY BallStep
<1>. QED BY <1>1, <1>2, PlayFits, PlayInvariant, PTL DEF SpecAll

=============================================================================
