----------------------------- MODULE NtbDevice -----------------------------
(***************************************************************************)
(* The register file of the emulated IDT bridge: the handler of a register *)
(* write (ivshmem_io_write), the two interrupt paths it ends in, and the   *)
(* event handler that turns a peer's eventfd into an MSI.                  *)
(*                                                                         *)
(* Two QEMU processes share one memory that holds the registers of both    *)
(* ends.  Inside a process the big QEMU lock lets one handler run at a     *)
(* time; between the processes there is no lock.  A handler is therefore   *)
(* cut at every access to the shared memory, and `x |= b` and `x &= ~b`    *)
(* are two accesses, a load and a store.  The trap into the handler and    *)
(* its first access are one step, as is an access followed by work on the  *)
(* process's own variables.  A bit register is the set of its bits.        *)
(***************************************************************************)
EXTENDS Integers, FiniteSets

CONSTANTS
  MsgIdx,      \* the message registers in use, of the four there are
  MsgVals,     \* the words a guest sends
  NoMsg,       \* content of a message register nobody has written
  DbBits,      \* the doorbell bits in use
  Commands     \* Commands[v]: the register writes the guest of v performs

VM       == {0, 1}
Peer(v)  == 1 - v
Vectors  == {"VM_ID", "INTERRUPT_HOST"}

\* Bits of NTINTSTS and NTINTMSK.
MSG      == 0
DBELL    == 1
SEVENT   == 3
IntBits  == {MSG, DBELL, SEVENT}

\* Bits of MSGSTS: a refused outbound write, an unread inbound message.
Out(i)   == i
In(i)    == 16 + i
StsBits  == {Out(i) : i \in MsgIdx} \cup {In(i) : i \in MsgIdx}

\* Bits of SEGSIGSTS: only partition 0 signals, and no other may be written.
Partitions == {0}
SignalBits == Partitions \cup {1}

OutmsgWrites == [reg : {"OUTMSG"}, idx : MsgIdx, val : MsgVals]
DbellWrites  == [reg : {"OUTDBELLSET"}, bits : SUBSET DbBits]
SignalWrites == [reg : {"NTGSIGNAL"}, bits : SUBSET SignalBits]
MaskWrites   == [reg : {"INDBELLMSK"}, bits : SUBSET DbBits]
                  \cup [reg : {"MSGSTSMSK"}, bits : SUBSET StsBits]
                  \cup [reg : {"NTINTMSK"}, bits : SUBSET IntBits]
ClearWrites  == [reg : {"INDBELLSTS"}, bits : SUBSET DbBits]
                  \cup [reg : {"MSGSTS"}, bits : SUBSET StsBits]
                  \cup [reg : {"NTINTSTS"}, bits : SUBSET IntBits]
                  \cup [reg : {"SEGSIGSTS"}, bits : SUBSET Partitions]
RegisterWrites ==
  OutmsgWrites \cup DbellWrites \cup SignalWrites \cup MaskWrites \cup ClearWrites

NoCmd == [reg |-> "none"]

ASSUME MsgIdxAssumption   == MsgIdx \subseteq 0..3
ASSUME NoMsgAssumption    == NoMsg \notin MsgVals
ASSUME CommandsAssumption == Commands \in [VM -> SUBSET RegisterWrites]

VARIABLES
  db,          \* db[v]: inbound doorbell of v
  dbMask,      \* dbMask[v]: inbound doorbell mask of v
  msgsts,      \* msgsts[v]: message status of v
  msgstsMask,  \* msgstsMask[v]: message status mask of v
  msg,         \* msg[v][i]: inbound message register i of v
  intsts,      \* intsts[v]: interrupt status of v
  ntIntMask,   \* the interrupt mask, one for both ends
  segsigsts,   \* the signal status, one for both ends
  up,          \* up[v]: the device of v is realized
  known,       \* known[v]: v has learnt its peer's id (other_vm_id # -1)
  wired,       \* wired[v]: v holds the eventfds of its peer
  eventfd,     \* eventfd[v]: vectors of v signalled and not yet handled
  msi,         \* msi[v]: an MSI raised and not yet taken by the guest of v
  pc,          \* pc[v]: where the handler running in v stands
  req,         \* req[v]: the register write that handler serves
  snap         \* snap[v]: the status word it has loaded and will store back

regs  == <<db, dbMask, msgsts, msgstsMask, msg, intsts, ntIntMask, segsigsts>>
link  == <<up, known, wired>>
irq   == <<eventfd, msi>>
cpu   == <<pc, req, snap>>
vars  == <<regs, link, irq, cpu>>

Steps ==
  {"idle", "dead", "clearStore",
   "refuseLoad", "refuseStore", "refuseMask", "selfLoad", "selfStore",
   "put", "stsLoad", "stsStore", "msgMask",
   "sigStore", "intMask", "raiseLoad", "raiseStore", "notify"}

TypeOK ==
  /\ db         \in [VM -> SUBSET DbBits]
  /\ dbMask     \in [VM -> SUBSET DbBits]
  /\ msgsts     \in [VM -> SUBSET StsBits]
  /\ msgstsMask \in [VM -> SUBSET StsBits]
  /\ msg        \in [VM -> [MsgIdx -> MsgVals \cup {NoMsg}]]
  /\ intsts     \in [VM -> SUBSET IntBits]
  /\ ntIntMask  \in SUBSET IntBits
  /\ segsigsts  \in SUBSET Partitions
  /\ up         \in [VM -> BOOLEAN]
  /\ known      \in [VM -> BOOLEAN]
  /\ wired      \in [VM -> BOOLEAN]
  /\ eventfd    \in [VM -> SUBSET Vectors]
  /\ msi        \in [VM -> BOOLEAN]
  /\ pc         \in [VM -> Steps]
  /\ req        \in [VM -> RegisterWrites \cup {NoCmd}]
  /\ snap       \in [VM -> SUBSET (DbBits \cup StsBits \cup IntBits \cup Partitions)]

\* The shared memory of a fresh ivshmem-server is zeroed.
Init ==
  /\ db         = [v \in VM |-> {}]
  /\ dbMask     = [v \in VM |-> {}]
  /\ msgsts     = [v \in VM |-> {}]
  /\ msgstsMask = [v \in VM |-> {}]
  /\ msg        = [v \in VM |-> [i \in MsgIdx |-> NoMsg]]
  /\ intsts     = [v \in VM |-> {}]
  /\ ntIntMask  = {}
  /\ segsigsts  = {}
  /\ up         = [v \in VM |-> FALSE]
  /\ known      = [v \in VM |-> FALSE]
  /\ wired      = [v \in VM |-> FALSE]
  /\ eventfd    = [v \in VM |-> {}]
  /\ msi        = [v \in VM |-> FALSE]
  /\ pc         = [v \in VM |-> "idle"]
  /\ req        = [v \in VM |-> NoCmd]
  /\ snap       = [v \in VM |-> {}]

-----------------------------------------------------------------------------
(* Control of a handler. *)

\* The guest of v traps with the write c; the handler goes on at step l.
Trap(v, c, l) ==
  /\ up[v] /\ pc[v] = "idle"
  /\ pc'  = [pc EXCEPT ![v] = l]
  /\ req' = [req EXCEPT ![v] = IF l = "idle" THEN NoCmd ELSE c]

\* The handler of v goes from step l to step m; a finished one leaves nothing.
Step(v, l, m) ==
  /\ pc[v] = l
  /\ pc'  = [pc EXCEPT ![v] = m]
  /\ req' = IF m = "idle" THEN [req EXCEPT ![v] = NoCmd] ELSE req

Load(v, word) == snap' = [snap EXCEPT ![v] = word]
Forget(v)     == snap' = [snap EXCEPT ![v] = {}]

-----------------------------------------------------------------------------
(* Mask registers: one store each. *)

WriteDbMask(v) ==
  /\ \E c \in Commands[v] :
       /\ c.reg = "INDBELLMSK"
       /\ Trap(v, c, "idle")
       /\ dbMask' = [dbMask EXCEPT ![v] = c.bits]
  /\ UNCHANGED <<db, msgsts, msgstsMask, msg, intsts, ntIntMask, segsigsts, link, irq, snap>>

WriteMsgMask(v) ==
  /\ \E c \in Commands[v] :
       /\ c.reg = "MSGSTSMSK"
       /\ Trap(v, c, "idle")
       /\ msgstsMask' = [msgstsMask EXCEPT ![v] = c.bits]
  /\ UNCHANGED <<db, dbMask, msgsts, msg, intsts, ntIntMask, segsigsts, link, irq, snap>>

\* The interrupt mask is global: a guest sets it for its peer too.
WriteIntMask(v) ==
  /\ \E c \in Commands[v] :
       /\ c.reg = "NTINTMSK"
       /\ Trap(v, c, "idle")
       /\ ntIntMask' = c.bits
  /\ UNCHANGED <<db, dbMask, msgsts, msgstsMask, msg, intsts, segsigsts, link, irq, snap>>

-----------------------------------------------------------------------------
(* Status registers: the bits written are cleared, by a load and a store.  *)

StatusRegs == {"INDBELLSTS", "MSGSTS", "NTINTSTS", "SEGSIGSTS"}

Status(v, r) ==
  CASE r = "INDBELLSTS" -> db[v]
    [] r = "MSGSTS"     -> msgsts[v]
    [] r = "NTINTSTS"   -> intsts[v]
    [] r = "SEGSIGSTS"  -> segsigsts

ClearLoad(v) ==
  /\ \E c \in Commands[v] :
       /\ c.reg \in StatusRegs
       /\ Trap(v, c, "clearStore")
       /\ Load(v, Status(v, c.reg))
  /\ UNCHANGED <<regs, link, irq>>

\* What the handler stores back.
Cleared(v) == snap[v] \ req[v].bits

ClearDb(v) ==
  /\ req[v].reg = "INDBELLSTS"
  /\ Step(v, "clearStore", "idle")
  /\ db' = [db EXCEPT ![v] = Cleared(v)]
  /\ Forget(v)
  /\ UNCHANGED <<dbMask, msgsts, msgstsMask, msg, intsts, ntIntMask, segsigsts, link, irq>>

ClearMsgsts(v) ==
  /\ req[v].reg = "MSGSTS"
  /\ Step(v, "clearStore", "idle")
  /\ msgsts' = [msgsts EXCEPT ![v] = Cleared(v)]
  /\ Forget(v)
  /\ UNCHANGED <<db, dbMask, msgstsMask, msg, intsts, ntIntMask, segsigsts, link, irq>>

ClearIntsts(v) ==
  /\ req[v].reg = "NTINTSTS"
  /\ Step(v, "clearStore", "idle")
  /\ intsts' = [intsts EXCEPT ![v] = Cleared(v)]
  /\ Forget(v)
  /\ UNCHANGED <<db, dbMask, msgsts, msgstsMask, msg, ntIntMask, segsigsts, link, irq>>

ClearSegsigsts(v) ==
  /\ req[v].reg = "SEGSIGSTS"
  /\ Step(v, "clearStore", "idle")
  /\ segsigsts' = Cleared(v)
  /\ Forget(v)
  /\ UNCHANGED <<db, dbMask, msgsts, msgstsMask, msg, intsts, ntIntMask, link, irq>>

-----------------------------------------------------------------------------
(* OUTMSG: refused while the peer has not cleared the previous message.    *)

\* Mutants: the sender looks at its own status; the test lacks its negation.
MutPendingOwn(v, i)     == In(i) \in msgsts[v]
MutPendingNegated(v, i) == In(i) \notin msgsts[Peer(v)]

Pending(v, i) == In(i) \in msgsts[Peer(v)]

OutmsgCheck(v) ==
  /\ \E c \in Commands[v] :
       /\ c.reg = "OUTMSG"
       /\ Trap(v, c, IF Pending(v, c.idx) THEN "refuseLoad" ELSE "put")
  /\ UNCHANGED <<regs, link, irq, snap>>

\* Refused: the error bit of the sender's own status ...
RefuseLoad(v) ==
  /\ Step(v, "refuseLoad", "refuseStore")
  /\ Load(v, msgsts[v])
  /\ UNCHANGED <<regs, link, irq>>

RefuseStore(v) ==
  /\ Step(v, "refuseStore", "refuseMask")
  /\ msgsts' = [msgsts EXCEPT ![v] = snap[v] \cup {Out(req[v].idx)}]
  /\ Forget(v)
  /\ UNCHANGED <<db, dbMask, msgstsMask, msg, intsts, ntIntMask, segsigsts, link, irq>>

\* ... and an interrupt of its own.  The code asks whether any *other* bit
\* of the status mask is set.
ErrorUnmasked(v) ==
  /\ msgstsMask[v] \ {Out(req[v].idx)} # {}
  /\ MSG \notin ntIntMask

RefuseMask(v) ==
  /\ Step(v, "refuseMask", IF ErrorUnmasked(v) THEN "selfLoad" ELSE "idle")
  /\ UNCHANGED <<regs, link, irq, snap>>

SelfLoad(v) ==
  /\ Step(v, "selfLoad", "selfStore")
  /\ Load(v, intsts[v])
  /\ UNCHANGED <<regs, link, irq>>

SelfStore(v) ==
  /\ Step(v, "selfStore", "idle")
  /\ intsts' = [intsts EXCEPT ![v] = snap[v] \cup {MSG}]
  /\ msi'    = [msi EXCEPT ![v] = TRUE]
  /\ Forget(v)
  /\ UNCHANGED <<db, dbMask, msgsts, msgstsMask, msg, ntIntMask, segsigsts, link, eventfd>>

\* Accepted: the word, and its status bit unless the peer is unknown.
PutMsg(v) ==
  /\ Step(v, "put", IF known[v] THEN "stsLoad" ELSE "idle")
  /\ msg' = [msg EXCEPT ![Peer(v)][req[v].idx] = req[v].val]
  /\ UNCHANGED <<db, dbMask, msgsts, msgstsMask, intsts, ntIntMask, segsigsts, link, irq, snap>>

StsLoad(v) ==
  /\ Step(v, "stsLoad", "stsStore")
  /\ Load(v, msgsts[Peer(v)])
  /\ UNCHANGED <<regs, link, irq>>

\* Mutant: the status is assigned where it should be or-ed.
MutStsStore(v) ==
  /\ Step(v, "stsStore", "msgMask")
  /\ msgsts' = [msgsts EXCEPT ![Peer(v)] = {In(req[v].idx)}]
  /\ Forget(v)
  /\ UNCHANGED <<db, dbMask, msgstsMask, msg, intsts, ntIntMask, segsigsts, link, irq>>

StsStore(v) ==
  /\ Step(v, "stsStore", "msgMask")
  /\ msgsts' = [msgsts EXCEPT ![Peer(v)] = snap[v] \cup {In(req[v].idx)}]
  /\ Forget(v)
  /\ UNCHANGED <<db, dbMask, msgstsMask, msg, intsts, ntIntMask, segsigsts, link, irq>>

MsgMask(v) ==
  /\ Step(v, "msgMask",
          IF In(req[v].idx) \in msgstsMask[Peer(v)] THEN "idle" ELSE "intMask")
  /\ UNCHANGED <<regs, link, irq, snap>>

-----------------------------------------------------------------------------
(* OUTDBELLSET and NTGSIGNAL, and the interrupt all three writes end in.   *)

\* The doorbell is assigned, whatever was pending in it.
DbRing(v) ==
  /\ \E c \in Commands[v] :
       /\ c.reg = "OUTDBELLSET"
       /\ Trap(v, c, IF known[v] THEN "intMask" ELSE "idle")
       /\ db' = [db EXCEPT ![Peer(v)] = c.bits]
  /\ UNCHANGED <<dbMask, msgsts, msgstsMask, msg, intsts, ntIntMask, segsigsts, link, irq, snap>>

SigLoad(v) ==
  /\ \E c \in Commands[v] :
       /\ c.reg = "NTGSIGNAL" /\ c.bits = Partitions
       /\ Trap(v, c, "sigStore")
       /\ Load(v, segsigsts)
  /\ UNCHANGED <<regs, link, irq>>

\* The assertion that the bit of partition 0, and no other, is written.
SigAbort(v) ==
  /\ \E c \in Commands[v] :
       /\ c.reg = "NTGSIGNAL" /\ c.bits # Partitions
       /\ Trap(v, c, "dead")
  /\ UNCHANGED <<regs, link, irq, snap>>

SigStore(v) ==
  /\ Step(v, "sigStore", "intMask")
  /\ segsigsts' = snap[v] \cup Partitions
  /\ Forget(v)
  /\ UNCHANGED <<db, dbMask, msgsts, msgstsMask, msg, intsts, ntIntMask, link, irq>>

CauseOf  == [OUTMSG |-> MSG, OUTDBELLSET |-> DBELL, NTGSIGNAL |-> SEVENT]
Cause(v) == CauseOf[req[v].reg]

\* Mutant: the peer is notified and its interrupt status forgotten.
MutIntMask(v) ==
  /\ Step(v, "intMask", IF Cause(v) \in ntIntMask THEN "idle" ELSE "notify")
  /\ UNCHANGED <<regs, link, irq, snap>>

IntMask(v) ==
  /\ Step(v, "intMask", IF Cause(v) \in ntIntMask THEN "idle" ELSE "raiseLoad")
  /\ UNCHANGED <<regs, link, irq, snap>>

RaiseLoad(v) ==
  /\ Step(v, "raiseLoad", "raiseStore")
  /\ Load(v, intsts[Peer(v)])
  /\ UNCHANGED <<regs, link, irq>>

RaiseStore(v) ==
  /\ Step(v, "raiseStore", "notify")
  /\ intsts' = [intsts EXCEPT ![Peer(v)] = snap[v] \cup {Cause(v)}]
  /\ Forget(v)
  /\ UNCHANGED <<db, dbMask, msgsts, msgstsMask, msg, ntIntMask, segsigsts, link, irq>>

\* Mutant: the other of the two vectors is signalled.
MutHostVector == "VM_ID"

HostVector == "INTERRUPT_HOST"

\* The entry of the peer is there and holds its eventfds.
Reaches(v) == known[v] /\ wired[v]

Notify(v) ==
  /\ Reaches(v)
  /\ Step(v, "notify", "idle")
  /\ eventfd' = [eventfd EXCEPT ![Peer(v)] = @ \cup {HostVector}]
  /\ UNCHANGED <<regs, link, msi, snap>>

\* With no peer known the handler indexes the peer table at -1, and with one
\* whose eventfds are still to come behind its end or at an empty entry: the
\* write to whatever it finds there is lost, or takes the process down.
NotifyNobody(v) ==
  /\ ~Reaches(v)
  /\ \/ Step(v, "notify", "idle")
     \/ Step(v, "notify", "dead")
  /\ UNCHANGED <<regs, link, irq, snap>>

-----------------------------------------------------------------------------
(* Start of the devices and the event handlers of the main loop.           *)

\* The VM with number 0 is started first.  Either start masks every interrupt.
Realize(v) ==
  /\ ~up[v]
  /\ v = 1 => up[0]
  /\ up' = [up EXCEPT ![v] = TRUE]
  /\ ntIntMask' = IntBits
  /\ UNCHANGED <<db, dbMask, msgsts, msgstsMask, msg, intsts, segsigsts, known, wired, irq, cpu>>

\* The main loop gets the eventfds of the peer from the server.  That of VM 0
\* may do so only after it has heard the peer's id.
Connect(v) ==
  /\ up[v] /\ up[Peer(v)] /\ ~wired[v] /\ pc[v] = "idle"
  /\ wired' = [wired EXCEPT ![v] = TRUE]
  /\ UNCHANGED <<regs, up, known, irq, cpu>>

\* VM 1, its own eventfds received after those of its peer, takes the peer's
\* id and reports itself.
InitVmIds(v) ==
  /\ v = 1
  /\ wired[v] /\ ~known[v] /\ pc[v] = "idle"
  /\ known'   = [known EXCEPT ![v] = TRUE]
  /\ eventfd' = [eventfd EXCEPT ![Peer(v)] = @ \cup {"VM_ID"}]
  /\ UNCHANGED <<regs, up, wired, msi, cpu>>

VmIdEvent(v) ==
  /\ pc[v] = "idle" /\ "VM_ID" \in eventfd[v]
  /\ eventfd' = [eventfd EXCEPT ![v] = @ \ {"VM_ID"}]
  /\ known'   = [known EXCEPT ![v] = TRUE]
  /\ UNCHANGED <<regs, up, wired, msi, cpu>>

InterruptEvent(v) ==
  /\ pc[v] = "idle" /\ "INTERRUPT_HOST" \in eventfd[v]
  /\ eventfd' = [eventfd EXCEPT ![v] = @ \ {"INTERRUPT_HOST"}]
  /\ msi'     = [msi EXCEPT ![v] = TRUE]
  /\ UNCHANGED <<regs, link, cpu>>

\* The guest takes the MSI (external: the guest's interrupt entry).
TakeInterrupt(v) ==
  /\ pc[v] # "dead" /\ msi[v]
  /\ msi' = [msi EXCEPT ![v] = FALSE]
  /\ UNCHANGED <<regs, link, eventfd, cpu>>

-----------------------------------------------------------------------------

\* The rest of a handler whose first step was taken.
Continue(v) ==
  \/ ClearDb(v) \/ ClearMsgsts(v) \/ ClearIntsts(v) \/ ClearSegsigsts(v)
  \/ RefuseLoad(v) \/ RefuseStore(v) \/ RefuseMask(v) \/ SelfLoad(v) \/ SelfStore(v)
  \/ PutMsg(v) \/ StsLoad(v) \/ StsStore(v) \/ MsgMask(v)
  \/ SigStore(v)
  \/ IntMask(v) \/ RaiseLoad(v) \/ RaiseStore(v) \/ Notify(v) \/ NotifyNobody(v)

\* A register write of the guest.
Write(v) ==
  \/ WriteDbMask(v) \/ WriteMsgMask(v) \/ WriteIntMask(v)
  \/ ClearLoad(v) \/ OutmsgCheck(v) \/ DbRing(v) \/ SigLoad(v) \/ SigAbort(v)

Event(v) == VmIdEvent(v) \/ InterruptEvent(v) \/ Connect(v)

Start(v) == Realize(v) \/ InitVmIds(v)

Next ==
  \E v \in VM : Continue(v) \/ Write(v) \/ Event(v) \/ Start(v) \/ TakeInterrupt(v)

Spec == Init /\ [][Next]_vars

\* A handler that has begun runs to its end.  The main loop gets the lock
\* again and again, between the handlers of a busy guest, and polls every
\* eventfd each time.
Fairness ==
  \A v \in VM :
    /\ WF_vars(Continue(v))
    /\ SF_vars(VmIdEvent(v))
    /\ SF_vars(InterruptEvent(v))

FairSpec == Spec /\ Fairness

-----------------------------------------------------------------------------
(* What the register file guarantees, however the two ends interleave.     *)

\* While the status of v shows an unread message, the word in that register
\* does not change: write_outbound_msg refuses to overwrite it, although it
\* looks at the status long before it stores the word.
PendingMessageStable ==
  [][\A v \in VM, i \in MsgIdx :
       In(i) \in msgsts[v] => msg'[v][i] = msg[v][i]]_vars

\* The bit "your write was refused" is only ever seen by a sender that has
\* sent on that register before, although the status word it stands in is
\* written back, stale, by both ends.
RefusalJustified ==
  \A v \in VM, i \in MsgIdx : Out(i) \in msgsts[v] => msg[Peer(v)][i] # NoMsg

\* The message registers are mailboxes.
Box == INSTANCE Mailbox WITH
         Receivers <- VM,
         val       <- msg,
         full      <- [v \in VM |-> {i \in MsgIdx : In(i) \in msgsts[v]}]

MailboxSpec == Box!Spec

\* The processes, their ids, eventfds and signals are those of module PeerLink,
\* which Interconnect implements with tables, ids and messages of the server.
Alive(v)    == up[v] /\ pc[v] # "dead"
Meet        == Alive(0) /\ Alive(1)
Notified(k) == {v \in VM : Alive(v) /\ k \in eventfd[v]}

Link == INSTANCE PeerLink WITH
          up    <- {v \in VM : Alive(v)},
          known <- {v \in VM : Meet /\ known[v]},
          wired <- {v \in VM : Meet /\ wired[v]},
          told  <- Notified("VM_ID"),
          rung  <- Notified("INTERRUPT_HOST")

PeerLinkSpec == Link!Spec

\* A guest that never clears NTINTSTS and is interrupted finds a cause there:
\* neither its own report of a refused write nor the peer's notification,
\* stored over one another, leaves the register empty.
InterruptHasCause ==
  \A v \in VM :
    /\ \A c \in Commands[v] : c.reg # "NTINTSTS"
    /\ msi[v] \/ "INTERRUPT_HOST" \in eventfd[v]
    => intsts[v] # {}

\* A notification past its mask reaches the guest of a peer whose id and
\* eventfds are there as an MSI, unless that peer's process has died.
NotificationDelivered ==
  \A v \in VM :
    pc[v] = "raiseLoad" /\ Reaches(v) ~> msi[Peer(v)] \/ pc[Peer(v)] = "dead"

-----------------------------------------------------------------------------
(* Why the mailboxes hold: an inductive invariant over handlers midway.    *)

OutmsgSteps == {"refuseLoad", "refuseStore", "refuseMask", "selfLoad", "selfStore",
                "put", "stsLoad", "stsStore", "msgMask"}
RaiseSteps  == {"intMask", "raiseLoad", "raiseStore", "notify"}

\* The write served and the word loaded fit the step reached.
Fits(v) ==
  /\ pc[v] \in OutmsgSteps => req[v] \in OutmsgWrites
  /\ pc[v] \in RaiseSteps  => req[v].reg \in DOMAIN CauseOf
  /\ pc[v] \in {"refuseStore", "stsStore"} => snap[v] \subseteq StsBits
  /\ pc[v] \in {"selfStore", "raiseStore"} => snap[v] \subseteq IntBits
  /\ pc[v] = "sigStore"   => req[v].reg \in DOMAIN CauseOf /\ snap[v] \subseteq Partitions
  /\ pc[v] = "clearStore" =>
       /\ req[v] \in ClearWrites
       /\ req[v].reg = "INDBELLSTS" => snap[v] \subseteq DbBits
       /\ req[v].reg = "MSGSTS"     => snap[v] \subseteq StsBits
       /\ req[v].reg = "NTINTSTS"   => snap[v] \subseteq IntBits
       /\ req[v].reg = "SEGSIGSTS"  => snap[v] \subseteq Partitions

HandlerOK == \A v \in VM : Fits(v)

Written(v, i) == msg[v][i] # NoMsg

\* v is about to store back its own message status.
OwnStatus(v) ==
  \/ pc[v] = "refuseStore"
  \/ pc[v] = "clearStore" /\ req[v].reg = "MSGSTS"

\* The sender that found the register free still finds it free: nobody else
\* puts a flag on.
FreeWhilePutting ==
  \A v \in VM : pc[v] = "put" => In(req[v].idx) \notin msgsts[Peer(v)]

\* What the receiver stores back flags nothing that is not flagged, what the
\* sender stores back drops no flag.
SnapshotsBracket ==
  \A v \in VM, i \in MsgIdx :
    /\ OwnStatus(v) /\ In(i) \in snap[v] => In(i) \in msgsts[v]
    /\ pc[v] = "stsStore" /\ In(i) \in msgsts[Peer(v)] => In(i) \in snap[v]

\* A flag stands on a written register, in the status and in what is about to
\* be stored there.
FlaggedIsWritten ==
  \A v \in VM, i \in MsgIdx :
    /\ In(i) \in msgsts[v] => Written(v, i)
    /\ pc[v] = "stsStore" /\ In(i) \in snap[v] => Written(Peer(v), i)
    /\ pc[v] \in {"stsLoad", "stsStore"} => Written(Peer(v), req[v].idx)

\* So does an error bit, on the register it reports a write to.
RefusedIsWritten ==
  \A v \in VM, i \in MsgIdx :
    /\ Out(i) \in msgsts[v] => Written(Peer(v), i)
    /\ OwnStatus(v) /\ Out(i) \in snap[v] => Written(Peer(v), i)
    /\ pc[v] = "stsStore" /\ Out(i) \in snap[v] => Written(v, i)
    /\ pc[v] \in {"refuseLoad", "refuseStore"} => Written(Peer(v), req[v].idx)

MailInv ==
  /\ TypeOK
  /\ HandlerOK
  /\ FreeWhilePutting
  /\ SnapshotsBracket
  /\ FlaggedIsWritten
  /\ RefusedIsWritten

-----------------------------------------------------------------------------
(* Why an interrupt finds its cause: what leads up to it.                  *)

\* The guest of v never clears its interrupt status.
Keeps(v) == \A c \in Commands[v] : c.reg # "NTINTSTS"

\* An interrupt of v is raised, signalled, or about to be.
Interrupting(v) ==
  msi[v] \/ "INTERRUPT_HOST" \in eventfd[v] \/ pc[Peer(v)] = "notify"

\* A guest that never clears NTINTSTS has no such handler midway, and finds a
\* cause from the moment its peer has stored one: of the two `intsts |= b` that
\* may race, the refused sender's own and the peer's, each leaves its bit.
CauseStored ==
  \A v \in VM :
    Keeps(v) =>
      /\ req[v].reg # "NTINTSTS"
      /\ Interrupting(v) => intsts[v] # {}

-----------------------------------------------------------------------------
(* Why the processes link as they do.                                      *)

\* A process that was not started has run no handler and holds nothing, and
\* neither knows the other before both are; the announcement on its way is of
\* a VM 1 that knows VM 0.
LinkInv ==
  /\ up[1] => up[0]
  /\ \A v \in VM :
       /\ ~up[v] => pc[v] = "idle" /\ eventfd[v] = {}
       /\ known[v] \/ wired[v] => up[0] /\ up[1]
       /\ "VM_ID" \in eventfd[v] => v = 0 /\ known[1]

-----------------------------------------------------------------------------
(* What the documents say and the handlers do not do.                      *)

\* README, "Message registers": on a refused write "an interrupt is sent to
\* host which attempts to write".  A handler that reports a refusal without
\* one had it masked.
RefusalInterrupts ==
  [][\A v \in VM :
       pc[v] = "refuseMask" /\ pc'[v] = "idle"
         => Out(req[v].idx) \in msgstsMask[v] \/ MSG \in ntIntMask]_vars

\* README, "Message registers": writes are not performed "if the MSGSTS of
\* the target peer was not cleared": the flag goes only when v clears it.
FlagClearedOnRequest ==
  [][\A v \in VM, i \in MsgIdx :
       In(i) \in msgsts[v] /\ In(i) \notin msgsts'[v]
         => req[v].reg = "MSGSTS" /\ In(i) \in req[v].bits]_vars

\* other_vm_id is -1 until the peer has connected and the handlers of OUTMSG
\* and OUTDBELLSET ask for it: nobody is notified before.
NotifyTargetKnown ==
  \A v \in VM : pc[v] = "notify" => known[v]

=============================================================================
