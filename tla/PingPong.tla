------------------------------ MODULE PingPong ------------------------------
(***************************************************************************)
(* Both ends of the bridge with the guests that play ping-pong over it,    *)
(* the use of the device the repository documents.                         *)
(*                                                                         *)
(* A guest is external: the driver of the bridge and its test client, of   *)
(* which only the register accesses are kept, one job after the other.     *)
(* Every access is a handler of module NtbDevice, so that a guest, the     *)
(* main loop of its QEMU and the other end interleave at each access to    *)
(* the shared registers.                                                   *)
(***************************************************************************)
EXTENDS NtbDevice, Sequences

CONSTANT Patient   \* guests that load the driver once both ends are connected

VARIABLES
  ntctl,     \* the ends whose NTCTL enables completions (CPEN)
  ntmtbl0,   \* the entry of partition 0, of both ends, in the mapping table is valid
  loaded,    \* loaded[v]: the driver of v is loaded
  todo,      \* todo[v]: the registers the guest of v has still to write
  timer      \* timer[v]: the client of v waits to ping

switch == <<ntctl, ntmtbl0>>
guests == <<loaded, todo, timer>>
all    == <<vars, switch, guests>>

\* The driver unmasks the interrupts, enables its side of the link and signals
\* its peer; the client starts.
Bind == <<"NTINTMSK", "NTCTL", "NTMTBLDATA", "NTGSIGNAL">>

\* The client rings (the word it puts in a message register besides is left
\* out); rung, it clears the doorbell, and waits a while.
Ping == <<"OUTDBELLSET">>
Pong == <<"INDBELLSTS">>

\* The driver clears the signal and its cause; the client starts anew.
LinkEvent == <<"SEGSIGSTS", "NTINTSTS">>

Served(causes) ==
  (IF DBELL \in causes THEN Pong ELSE <<>>) \o (IF SEVENT \in causes THEN LinkEvent ELSE <<>>)

InitAll ==
  /\ Init
  /\ ntctl = {} /\ ntmtbl0 = FALSE
  /\ loaded = [v \in VM |-> FALSE]
  /\ todo   = [v \in VM |-> <<>>]
  /\ timer  = [v \in VM |-> FALSE]

-----------------------------------------------------------------------------

(* The switch: link state, which each end sets and both read.              *)

\* A store into a word of the device of v, outside module NtbDevice.
Store(v) == up[v] /\ pc[v] = "idle" /\ UNCHANGED vars

\* Mutant: NTCTL is one register for both ends.
MutWriteNtctl(v) ==
  /\ Store(v)
  /\ ntctl' = {v}
  /\ UNCHANGED ntmtbl0

WriteNtctl(v) ==
  /\ Store(v)
  /\ ntctl' = ntctl \cup {v}
  /\ UNCHANGED ntmtbl0

SetNtMtbData(v) ==
  /\ Store(v)
  /\ ntmtbl0' = TRUE
  /\ UNCHANGED ntctl

\* The start of a device disables completions.
Boot(v) ==
  /\ Realize(v)
  /\ ntctl' = ntctl \ {v}
  /\ UNCHANGED ntmtbl0

\* The link as v reads it, through get_gasadata and get_nt_mtb_data: the other
\* words it asks for are constants.
LinkUp(v) == Peer(v) \in ntctl /\ ntmtbl0

-----------------------------------------------------------------------------
(* The guests (external).                                                  *)

Connected == \A v \in VM : Reaches(v)

LoadDriver(v) ==
  /\ up[v] /\ ~loaded[v]
  /\ v \in Patient => Connected
  /\ loaded' = [loaded EXCEPT ![v] = TRUE]
  /\ todo'   = [todo EXCEPT ![v] = Bind]
  /\ UNCHANGED <<vars, switch, timer>>

\* The write of one register.
WriteTo(v, r) ==
  \/ r = "NTCTL"      /\ WriteNtctl(v)
  \/ r = "NTMTBLDATA" /\ SetNtMtbData(v)
  \/ /\ \/ r = "NTINTMSK"    /\ WriteIntMask(v)
        \/ r = "NTGSIGNAL"   /\ SigLoad(v)
        \/ r = "OUTDBELLSET" /\ DbRing(v)
        \/ r \in StatusRegs  /\ ClearLoad(v) /\ req'[v].reg = r
     /\ UNCHANGED switch

\* The last write of a pong makes the client wait to ping; that of a start
\* does if it finds the link up.
Waits(v, r) ==
  \/ r = "INDBELLSTS"
  \/ r \in {"NTGSIGNAL", "NTINTSTS"} /\ LinkUp(v)

Access(v) ==
  /\ todo[v] # <<>>
  /\ WriteTo(v, Head(todo[v]))
  /\ todo'  = [todo EXCEPT ![v] = Tail(@)]
  /\ timer' = [timer EXCEPT ![v] = @ \/ Waits(v, Head(todo[v]))]
  /\ UNCHANGED loaded

Expire(v) ==
  /\ timer[v] /\ todo[v] = <<>>
  /\ timer' = [timer EXCEPT ![v] = FALSE]
  /\ todo'  = [todo EXCEPT ![v] = Ping]
  /\ UNCHANGED <<vars, switch, loaded>>

\* The driver asks for the causes of its interrupt.  Without a driver there is
\* nobody to ask.
Isr(v) ==
  /\ TakeInterrupt(v)
  /\ todo[v] = <<>>
  /\ todo' = [todo EXCEPT ![v] = IF loaded[v] THEN Served(intsts[v]) ELSE <<>>]
  /\ UNCHANGED <<switch, loaded, timer>>

Guest(v) == LoadDriver(v) \/ Isr(v) \/ Expire(v) \/ Access(v)

-----------------------------------------------------------------------------

\* The handlers and the main loop of v.
Device(v) ==
  \/ Boot(v)
  \/ (Continue(v) \/ Event(v) \/ InitVmIds(v)) /\ UNCHANGED switch

\* What the QEMU of v does, device and guest.
Process(v) == (Device(v) /\ UNCHANGED guests) \/ Guest(v)

NextAll == \E v \in VM : Process(v)

\* A process that has something to do does something; which of it, is left
\* open.
SpecAll == InitAll /\ [][NextAll]_all /\ \A v \in VM : WF_all(Process(v))

-----------------------------------------------------------------------------

\* README, "ntb_pingpong": "the counter in debugfs should increase over time".
\* At either end the client is rung again and again, unless a process has died.
Count(v) == Isr(v) /\ loaded[v] /\ DBELL \in intsts[v]

CounterIncreases ==
  \A v \in VM : ([]<><<Count(v)>>_all) \/ <>(\E w \in VM : pc[w] = "dead")

-----------------------------------------------------------------------------
(* Why the play goes on: the next ring is always somewhere.                *)

\* The registers the guest of v has still to write.
Left(v) == {todo[v][n] : n \in DOMAIN todo[v]}

\* The driver of v has been through its start.
Bound(v) == loaded[v] /\ "NTGSIGNAL" \notin Left(v)

\* The next ring is with the guest of v: its client waits to ring, or the job
\* at hand is to ring or ends in that wait.
Serves(v) == timer[v] \/ Left(v) \cap {"OUTDBELLSET", "INDBELLSTS", "NTINTSTS"} # {}

\* A ring is on its way to v: its cause is about to be stored, or stands with
\* an interrupt to come.
Ringing(v) ==
  \/ /\ pc[Peer(v)] \in {"intMask", "raiseLoad", "raiseStore"}
     /\ req[Peer(v)].reg = "OUTDBELLSET"
  \/ DBELL \in intsts[v] /\ Interrupting(v)

\* Once both drivers have started there is always a ring under way or somebody
\* about to ring: one that is masked, cleared with another cause or stored over
\* never is the last.
BallInPlay ==
  (\A v \in VM : Bound(v) /\ pc[v] # "dead") => \E v \in VM : Serves(v) \/ Ringing(v)

\* What is left of the jobs of a guest.
Jobs ==
  {Bind, <<"NTCTL", "NTMTBLDATA", "NTGSIGNAL">>, <<"NTMTBLDATA", "NTGSIGNAL">>, <<"NTGSIGNAL">>,
   Ping, Pong \o LinkEvent, Pong, LinkEvent, <<"NTINTSTS">>, <<>>}

PlayTypeOK ==
  /\ ntctl \subseteq VM /\ ntmtbl0 \in BOOLEAN
  /\ loaded \in [VM -> BOOLEAN] /\ timer \in [VM -> BOOLEAN]
  /\ todo \in [VM -> Jobs]

\* The guests do not mask doorbells.
OpenMasks == \A v \in VM : \A c \in Commands[v] : c.reg = "NTINTMSK" => DBELL \notin c.bits

\* What the start of a driver has achieved.  The mask is both ends', and open
\* when the driver of VM 1, which starts last, has opened it.
BindInv ==
  /\ up[1] => up[0]
  /\ \A v \in VM :
       /\ v \in ntctl \/ loaded[v] => up[v]
       /\ ~loaded[v] => todo[v] = <<>> /\ ~timer[v]
       /\ loaded[v] /\ v \in Patient => Connected
       /\ loaded[v] /\ "NTCTL" \notin Left(v) => v \in ntctl
       /\ loaded[v] /\ "NTMTBLDATA" \notin Left(v) => ntmtbl0
  /\ OpenMasks /\ loaded[1] /\ "NTINTMSK" \notin Left(1) => DBELL \notin ntIntMask

\* No message is sent, and only rings and signals raise interrupts.
PlayHandlers ==
  \A v \in VM :
    /\ pc[v] \notin OutmsgSteps
    /\ pc[v] = "sigStore" => req[v].reg = "NTGSIGNAL"
    /\ pc[v] \in RaiseSteps => req[v].reg \in {"OUTDBELLSET", "NTGSIGNAL"}

Signalling(v)   == pc[v] \in RaiseSteps \cup {"sigStore"} /\ req[v].reg = "NTGSIGNAL"
ClearsIntsts(v) == pc[v] = "clearStore" /\ req[v].reg = "NTINTSTS"

\* v is being signalled, or was and has not done with it.
Signalled(v) ==
  \/ SEVENT \in intsts[v]
  \/ SEVENT \in snap[v] /\ ClearsIntsts(v)
  \/ SEVENT \in snap[Peer(v)] /\ pc[Peer(v)] = "raiseStore"
  \/ Signalling(Peer(v))
  \/ "NTINTSTS" \in Left(v)

\* It then finds the link up: its client waits to ring when the signal has been
\* served.
SignalInv == \A v \in VM : Signalled(v) => LinkUp(v)

\* Of two words about to be stored in the interrupt status of v, its peer's
\* keeps a doorbell that stands there, and its own has no other.  Who may drop
\* one has the next ring itself.
DoorbellInv ==
  \A v \in VM :
    /\ pc[Peer(v)] = "raiseStore" /\ DBELL \in intsts[v] => DBELL \in snap[Peer(v)]
    /\ ClearsIntsts(v) /\ DBELL \in snap[v] => DBELL \in intsts[v]
    /\ ClearsIntsts(v) => timer[v] \/ "OUTDBELLSET" \in Left(v)

PlayInv ==
  /\ PlayTypeOK
  /\ BindInv
  /\ PlayHandlers
  /\ SignalInv
  /\ DoorbellInv

=============================================================================
