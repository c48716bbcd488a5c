# A verification project for the emulated IDT bridge

The repository is one program and its surroundings: a QEMU device,
`src/qemu_src/hw/misc/idt_ntb_ivshmem.c`, that emulates an IDT 89HPES24NT6AG2
non-transparent bridge.  Two QEMU processes, each with one guest, share a memory
that `ivshmem-server` hands out, and the device makes that memory look like the
two sides of a bridge: message registers, doorbells, signals, memory windows,
interrupts.  The guests run Linux' `ntb_hw_idt` driver with a patch of the
repository that programs memory windows through registers outside the
specification of the chip.

This directory holds TLA+ modules of the device, configurations that TLC checks,
and proofs that TLAPS checks.  `:n` below is line n of `idt_ntb_ivshmem.c`, "the
patch" is `src/yocto_files/.../linux-yocto/0001-OUT-OF-SPECIFICATION-Inbound-MW.patch`.

## 1. Inventory

### Parts, their state and operations

| part | state | operations | modelled in |
|---|---|---|---|
| Register file and notifications | per end, in shared memory: `db`, `db_mask`, `msgsts`, `msgsts_mask`, `msg[]`, `intsts`; for both: `nt_int_mask`, `segsigsts`; per process: eventfds, MSI | `ivshmem_io_write`, `write_outbound_msg`, `write_gasadata` (SEGSIGSTS), `ivshmem_vector_notify`, `interrupt_notify` | `NtbDevice` |
| Interconnect | peer table `peers[]`, `nb_peers`, `vm_id`, `other_vm_id`; the two id words in shared memory; messages of the server | `ivshmem_read`, `process_msg*`, `resize_peers`, `close_peer_eventfds`, `setup_interrupt`, `init_vm_ids`, `ivshmem_vector_notify` | `Interconnect` |
| Memory windows | `bar_config[]` of both ends in shared memory; the selector `inbound_mw_bar`; `peer_mem` | the driver's `idt_ntb_mw_set_trans` and `_clear_trans`; LUTOFF, LDATA, HDATA, LLIMIT, BARLIMIT, BARLTBASE, BARUTBASE; `idt_bar_read`, `idt_bar_write`, `map_peer_shm` | `MemWindow` |
| Switch registers behind GASA, NT mapping table, link control | NTCTL, `ntmtbl0`, NTMTBLADDR, GASAADDR | reads and writes of them | the link, in `PingPong` |
| Ping-pong over the bridge | driver and client of both guests | driver load, interrupt routine, ping, pong, link event (external) | `PingPong` |
| MSI-X and irqfd | `msi_vectors[]`, routes and irqfds in KVM | `ivshmem_vector_unmask`, `_mask`, `_poll`, `ivshmem_add_kvm_msi_virq`, `ivshmem_enable_irqfd`, `_disable_irqfd`, `write_config`, `reset` | `IrqFd`; KVM only |
| Server channel | `msg_buf`, `msg_buffered_bytes`, `peers[]`, `vm_id`, `ivshmem_bar2` | `ivshmem_can_receive`, `ivshmem_read`, `ivshmem_recv_msg`, `ivshmem_recv_setup`, `process_msg*`, `ivshmem_exit` | `ServerChannel` |
| Device life cycle | QEMU objects | realize, reset, exit, properties, migration hooks | realize and exit in `ServerChannel` and `NtbDevice`, reset in `IrqFd` |
| MSI example, scripts, build | - | - | no: a tutorial device, start scripts, recipes |

### How the parts interact

A guest's register write traps into `ivshmem_io_write` of its own process, which
reads and writes the shared memory of *both* ends, then rings the peer through
`peers[other_vm_id].eventfds[1]`.  The peer's main loop hears the eventfd in
`ivshmem_vector_notify` and raises an MSI.  `peers[]` and `other_vm_id` come from
the interconnect: the server sends ids and eventfds, VM 1 takes VM 0's id from
the shared memory and tells VM 0 through eventfd 0.  A window of one guest is a
translation its *peer's* driver stored in shared memory.

### What is hard

* **No lock spans the two processes.**  The big QEMU lock orders the handlers of
  one process; everything in shared memory is read and written by both, and
  `x |= b`, `x &= ~b` are a load and a store (:433, :438, :451, :535, :625, :651,
  :660, :667, :677).
* **Checks far from their use**: the pending-message test (:429) and the store of
  the word (:446); the mask tests and the notification; the copy of a translation
  (:911) and the access (:934).
* **Restarts**: shared memory outlives a killed process; ids are never reused and
  grow; freed notifiers stay reachable through `other_vm_id`.
* **Protocols over several writes**: windows are programmed through one selector.
* **A stream of bytes**: messages arrive in pieces and their descriptors with the
  first, half of them while the device is not complete yet.
* **Three keepers of one mask**: MSI-X, the device and KVM each keep whether a vector
  is masked, and change it vector by vector, by a function mask, a switch and a reset.
* **Liveness**: a notification crosses an eventfd, a main loop and an MSI; a play
  of ping-pong stops for good if one ring is lost and nobody rings again.

`PROJECT.json` lists 40 hazards, each at its line, with the property that would
show it going wrong or the reason why there is none.

### What makes each part correct

* Register file: an unread message is not overwritten; a reported refusal is a
  refusal of something sent; an interrupt has a cause; a notification arrives.
* Interconnect: after the dust settles both ends hold each other's current id and
  eventfds; two running processes get there; nobody dies of notifying a running process
  whose eventfds it has begun to read.
* Windows: an access goes to the buffer that was offered, or nowhere.
* Server channel: messages are handled as sent, each descriptor is kept in one place
  or closed once, no message of an orderly server takes the device down, the setup ends.
* irqfds: KVM has those of the vectors the guest can be interrupted on; assertions
  hold; a signal is never in neither eventfd nor pending bit, but for a reset.
* Ping-pong: the next ring is always under way or about to be made; the counters of
  both ends go on.

## 2. Modules

```
Mailbox            what message registers promise (abstract)
   ^ implemented by (Box == INSTANCE Mailbox WITH ...)
PeerLink           what the ends promise each other before any register is written (abstract)
   ^ implemented by both (Link == INSTANCE PeerLink WITH ...)
NtbDevice          register file, handlers cut at each shared access
   ^ MCNtbDevice        guests of the runs
   ^ NtbDevice_proofs   theorems
   ^ PingPong           both guests play over the register file; the link
        ^ MCPingPong
        ^ PingPong_proofs    theorems (extends NtbDevice_proofs)
Interconnect       server, peer tables, id exchange, restarts
   ^ MCInterconnect
   ^ Interconnect_proofs    theorems about tables, ids and the handshake
   ^ InterconnectLink_proofs    the link (extends Interconnect_proofs)
MemWindow          driver calls, translations, accesses, restarts
   ^ MCMemWindow
   ^ MemWindow_proofs   theorems
MessageStream      what a device expects of its server (abstract)
   ^ implemented by (Stream == INSTANCE MessageStream WITH ...)
ServerChannel      bytes, descriptors, setup, messages, exit
   ^ MCServerChannel    servers of the runs
   ^ ServerChannel_proofs   theorems about the stream
   ^ ServerDevice_proofs    theorems about descriptors and phases
IrqFd              masks, routes and irqfds of the device's own eventfds
   ^ IrqFd_proofs       theorems
```

### NtbDevice

One action per access to shared memory.  `pc[v]` is where the handler running in
process v stands; `pc[v] = "idle"` means the process holds no handler, which is
what the big lock gives.  A handler begins with a trap (`Trap`): `OutmsgCheck`,
`DbRing`, `SigLoad`, `ClearLoad`, and the three masks, which are single stores.
`write_outbound_msg` is `OutmsgCheck` and then either `RefuseLoad`, `RefuseStore`,
`RefuseMask`, `SelfLoad`, `SelfStore` (:433-443) or `PutMsg`, `StsLoad`,
`StsStore`, `MsgMask` (:446-454), and `IntMask`, `RaiseLoad`, `RaiseStore`,
`Notify` (:455-458); the last four are also the tail of OUTDBELLSET (:650-652)
and NTGSIGNAL (:680-682).  `snap[v]` is the word loaded by a read-modify-write.

The code's peculiarities are kept: a refusal's interrupt is decided by the
*other* bits of the mask (`ErrorUnmasked`, :435), OUTDBELLSET assigns and looks
at no doorbell mask, OUTMSG to an unknown peer stores the word and nothing else,
NTGSIGNAL asks for no peer (`NotifyNobody`: the write in front of the table is
lost or kills the process) and ends the process when anything but the bit of
partition 0 is written (`SigAbort`, the assertion at :676), NTINTMSK is one word for
both ends and each start sets it.

Abstracted: bit registers are sets of the bits in use; a word sent is a model
value; registers the device only stores and returns (part0_msg_control, the source
and partition words, of which there is one value) are left out, as are reads of
registers, which change nothing.  The interconnect is here two Booleans of each end:
it has heard the peer's id (`known`, what OUTMSG and OUTDBELLSET test), and it has the
peer's eventfds in its table (`wired`, what a notification needs).  VM 0 may have the
first and not yet the second: a notification then ends in `NotifyNobody`
(`Reaches`).  That these two Booleans are what tables, ids and messages of the server
make of it is the subject of `PeerLink`.

### Mailbox

The promise of the message registers: a word is deposited only in an unflagged
mailbox, a flag stands only on a written one, senders only put flags on, receivers
only take flags away.  It says on purpose *not* that a flag lasts until it is
cleared: run NtbFlagLost shows that the code does not do that.

### PeerLink

The link the registers are used over: `up`, the ends whose process runs, `known`, those
that know the id of their peer *as it runs*, `wired`, those that hold its eventfds,
`told`, those with an announcement to hear, `rung`, those whose guest is to be
interrupted.  It promises that only VM 1 announces itself, once it holds VM 0's eventfds,
that an announcement of an instance that has ended makes nobody known, that a signal which
is sent comes from an end that knows and holds its peer and goes to that peer, that one
is taken once, and that the end of a process undoes what both knew of each other.

Two modules implement it, which is how they fit together:

| of `PeerLink` | in `NtbDevice` | in `Interconnect` |
|---|---|---|
| `up` | `up[v]`, handler not `"dead"` | `proc[v]` |
| `known` | `known[v]`, both alive | `otherId[v] = vmId[Peer(v)]`, both running |
| `wired` | `wired[v]`, both alive | the peer's entry can be signalled (`Signallable`) |
| `told`, `rung` | eventfds `VM_ID`, `INTERRUPT_HOST` of a live process | `pending` for its id |
| `Start`, `End` | `Realize`; `NotifyNobody` that kills, `SigAbort` | `Start`; `Kill`, a notification that kills |
| `Wire`, `Announce` | `Connect`, `InitVmIds` | `Connect` with the second eventfd of the peer, of oneself |
| `Hear`, `Ring`, `Take` | `VmIdEvent`, `Notify`, `InterruptEvent` | `HearId`, `Signal` and `SwitchSignal`, `HearHost` |

Everything else stutters: handlers between their first and last step in `NtbDevice`;
the server, disconnections and stale ids in `Interconnect`.  `Interconnect` implements
it only while VM 0 is not restarted: a new VM 0 has another id than the one every VM 1
expects, and is told of nobody (:588).

### Interconnect

A main-loop handler is one step here, since what it shares with the other process
is one word of each direction and an eventfd.  `sent[v]` is the socket from the
server; `Connect` is the whole of `process_msg_connect` with `resize_peers`,
`setup_interrupt` and `init_vm_ids`; `Disconnect` is `process_msg_disconnect`,
which frees the notifiers and leaves `other_vm_id` alone.  `Ring` is
`event_notifier_set` on an entry: heard when the entry is filled, silently nothing
when its notifier is not initialised, and, out of range, in front of the table or freed
(`Wild`), nothing or the end of the process.  `Signal` is the notification of OUTMSG and
OUTDBELLSET, which ask whether there is a peer (:449, :648); `SwitchSignal` that of
NTGSIGNAL, which does not (:682); either may happen at any time.  The server, kills and
starts are external.

### MemWindow

A driver call is the sequence of register writes of the patch (`SetTrans`,
`ClearTrans`), one step each; `sel[v]` is the selector they all go through.  An
access copies the words of the translation one by one in any order (`Copy`; the
compiler may choose), then decides (`Passes`) and lands or is refused.  `tr[v][b]`
is a history variable: what the last call made of the BAR, or that it is being
changed, or that nothing is known since a call was cut short, the guest wrote its
own registers, or the end that offered the buffer was restarted.  A word is W
values wide, so that a base really is split in two words and a limit truncated.
TPART, BARSETUP and the HLIMIT write of 64-bit windows are left out: the device
stores them and no access reads them; that windows are 32-bit is
`BarsAssumption`.

### ServerChannel

One action per read from the socket.  A byte is known by its position in the
stream (`taken`), a descriptor by the number of its message; the server sends a
session given by the run, message by message, and may hang up.  A part of a message
is `ReadPart(k)`; the bytes that complete one are read by an action named for what
the device then does: `SetupVersion`, `SetupId` (:1389-1426), `RejectMsg` (:1306),
`RefuseShm` and `MapShm` (:1227-1257), `RefuseFd` and `Connect` (:1270-1300),
`Disconnect` and `RefuseGone` (:1259-1268).  `phase` tells the setup, where an error
ends realize (`Refused`), from the main loop, where it is only reported.  The
character device keeps the descriptor that came last and closes one not fetched
(`Newest`, `Dropped`; external).  The shared memory is mapped, refused with its descriptor
closed when it has no size, or refused with the descriptor forgotten (:1251, the three
disjuncts of `MapShm`).  A freed table entry is marked, and using it may kill (`Using`).
With its own second eventfd the device announces itself (`init_vm_ids`, :1222 and :585):
VM 1 then notifies the peer whose id it finds in the shared memory, whatever its table has
for it, and may die of that (`Announcing`).  `OtherIds` are the ids it may find, none for
VM 0; whether the peer hears of it is the subject of `Interconnect`.  `Exit` closes every entry; freeing those of peers that have gone a
second time may crash.  `handled` is a history variable.

### IrqFd

The vectors with a flag are a set: `route` those with a route in KVM (`pdev` is not
NULL), `unmasked`, `attached` (KVM has the irqfd).  QEMU's MSI-X code is external:
for each change of the guest it works out which vectors close and open (`Fire`),
and calls the device's notifiers (`Mask`, `Unmask`, `Poll`), which fail where the
device asserts or returns an error (`MaskFails`, `UnmaskFails`).  `Enable`, `Disable`,
`Reset`, `Arrive` are the device's handlers, each whole, under the big lock; `Signal`
and `Deliver` are the peer and the kernel.  `owed`, `lost` and `late` are history variables:
signals the guest has not had, those of them that a reset of the device has dropped, and
whether an eventfd was missing when MSI-X was on.

### PingPong

Extends `NtbDevice`: each write of a guest begins a handler of that module, so that
guests, main loops and the two ends interleave at every access to the shared words.
`todo[v]` is what the guest of v still writes: at driver load (`Bind`), in the
interrupt routine (`Served`), when the client's timer expires (`Ping`).  The link is
NTCTL of the peer and the mapping table (`LinkUp`); a driver that finds it down
waits for its peer's signal.  Guests in `Patient` load the driver once both ends have
each other's id and eventfds (`Connected`).  `BallInPlay` and `PlayInv` state why the
play goes on.

## 3. Runs

Twelve runs; "pass" runs finish with no error, "violation" runs find the one
property they check broken by the code.

| run | shows | bounds and why they are enough |
|---|---|---|
| NtbMessages | `MailInv`, `RefusalJustified`, `PendingMessageStable`, `MailboxSpec` | two message registers, so that one read-modify-write can damage the other's flag; two words, so that overwriting is visible; both ends send, so that both sides of each handler meet; VM 1 clears one flag and both, and masks; VM 0 also rings, and VM 1 clears it |
| NtbInterrupts | `InterruptHasCause`, `CauseStored`, `NotificationDelivered`, `PeerLinkSpec` | VM 0 rings and signals (two causes), VM 1 is refused and reports to itself: the self-notification and the peer's store the same word; interrupts are masked and unmasked; VM 0 may also signal a value the device refuses, and die; weak and strong fairness |
| IcRestart | `TypeOK`, `HandshakeInv`, `LinkInv`, `IdsAgreeAtRest`, `KnownPeerReachable`, `DiesOfStaleId`, `HandshakeCompletes`, `PeerLinkSpec` | three processes in all, so that VM 1 is started twice, both its instances can be queued at once, and ids outgrow a first table of two; the server sends three eventfds, the device keeps two; the theorems are for any number of processes |
| MwSettled | `WindowInv`, `SettledAccess` | two BARs, two buffers that differ in all three words, one smaller than the BAR; to the second BAR the guests gave different addresses; offsets inside, at the limit and past it; both ends restartable at every step; the owner overwrites its limit |
| ScSetup | `TypeOK`, `StreamInv`, `DescriptorsKeptOnce`, `OrderlyServerSafe`, `ChannelInv`, `MessageStreamSpec`, `SetupEnds`, `EveryMessageHandled` | messages of three bytes, so that they are cut nowhere, once and twice; two vectors, a table that starts with two entries and ids up to three, so that vectors run out and the table grows; fifteen servers: the order of ivshmem-server with a peer that joins and one that leaves, peers before the memory, too many eventfds, words that name nothing, bad versions and ids, and four that are not orderly: own eventfds before the memory, before those of the peer, or after the peer has gone, eventfds of a peer that has gone.  The device is VM 1 and finds an id for which the first table has no entry |
| IrqRoutes | `IrqInv`, `Balanced`, `DiesOnlyOfLate`, `SignalKept`, `SignalDelivered` | three vectors: one closed, one open and one changing; every order of eventfds, masks, switches, resets and signals |
| PpGoesOn | `CounterIncreases`, `PlayInv`, `BallInPlay` | both guests with their whole start; one doorbell bit, as ntb_pingpong between two ports has; no message registers |
| ScAnyOrder | the device's own eventfds, sent before the shared memory, take it down | one such server |
| NtbRefusal | a refused write is not reported by an interrupt although nothing masks it | VM 0 sends to a guest that does not read |
| NtbFlagLost | a message flag is lost without a clear | guests of NtbMessages |
| NtbSignalEarly | NTGSIGNAL indexes the peer table at -1 | guests of NtbInterrupts |
| MwTorn | an access goes to an address never offered | one window opened once |

Deadlock is checked except in NtbInterrupts, NtbSignalEarly and NtbRefusal, where a process
may die of a wild notification and its peer go quiet, and in IcRestart, where the
processes to start are bounded and all may be gone; in ScSetup and ScAnyOrder, where
a session ends; in IrqRoutes and PpGoesOn, where a process may die.  In NtbMessages the masks can
always be written.  Bounds are named: `MaxStarts` is the only counter bound; all
other state is finite because guests repeat commands from a finite set.

Each property of a passing run has a mutant: a definition changed as a plausible
bug would change it, with which TLC finds the property violated.

### The properties

* **PendingMessageStable**: no step changes a message its receiver's status shows
  unread.  Not evident: the sender tests (:429), and stores the word (:446) after
  any number of steps of its peer.  It holds because only that sender sets the
  flag, and what the receiver stores back flags nothing new.
* **RefusalJustified**: the error bit is or-ed into words both ends store back
  stale; still it is never seen by a sender that has sent nothing there.
* **MailboxSpec**: the refinement above.
* **InterruptHasCause**: of a guest that does not clear NTINTSTS, with an interrupt
  under way or taken up, NTINTSTS is not empty, although the end's own refusal
  report and the peer's notification store the same word over one another.
* **NotificationDelivered**: past the mask, with the peer's eventfds in the table, an MSI
  of the peer follows.
* **IdsAgreeAtRest**, **KnownPeerReachable**, **HandshakeCompletes**: the id
  exchange with restarts of VM 1.
* **PeerLinkSpec**: the refinement above, for the register file and for the
  interconnect.  Not evident for the latter: eventfds, announcement and disconnection take
  three channels, and all may be left over from instances of VM 1 that have ended.
* **DiesOfStaleId**: by no register, and not by its announcement, does a process die of
  notifying a running process, its peer or itself, once it has read one eventfd of that
  process.  Not evident: notifiers are freed when the server reports a peer gone, the table
  grows while the id is known, and ids stay in shared memory after their process.  In the
  other cases it may: an id of a process that has ended, one whose eventfds are all still
  queued, and, by NTGSIGNAL, no id at all (NtbSignalEarly).
* **CauseStored**, **HandshakeInv**, **LinkInv**, **ChannelInv**, **PlayInv**, with **MailInv**,
  **WindowInv** and **IrqInv**: the inductive invariants of the proofs (section 4).
* **SettledAccess**: an access to a BAR nobody changed meanwhile is refused if the
  window is closed; through an open one it goes, if anywhere, to its offset of the buffer
  offered.  Where both guests gave the BAR one address, every offset below the size passes
  and none above it.  Two things are left open because the code does not keep them: the
  size itself, the first byte outside what the patch (line 26) calls the memory to access,
  passes (:921 compares with `>`); and the limit is computed from the address of one guest's
  BAR and compared with the other's.
* **StreamInv**, **MessageStreamSpec**: however the stream is cut, the messages
  handled are those sent, and the descriptor with each is its own.  Not evident:
  the device fetches the descriptor with the *last* part while it came with the
  first, and is right because it never reads past a message.
* **DescriptorsKeptOnce**: every descriptor received is with the character device, the
  shared memory or one table entry, or was closed once, exit included.
* **OrderlyServerSafe**: an orderly server cannot take the device down.  Orderly (`Orderly`)
  is one that sends the device's own eventfds after the shared memory and after those of
  the peer whose id the device finds there, and nothing more of a peer it has reported gone.
  Not evident: the messages are handled in two phases with different tables and arrays
  allocated, and the device's own second eventfd makes it use the entry of another.  The
  run's other servers can take it down: ScAnyOrder shows one (`NoMessageKills`).
* **SetupEnds**, **EveryMessageHandled**: with a server that stays the setup comes to an
  end, and a running device gets to the last message it was sent.
* **Balanced**: if the eventfds were there before MSI-X was on, KVM has exactly the
  irqfds of the open vectors, whatever the guest switches.
* **DiesOnlyOfLate**: the assertions at :1031, :1060 and :1178 fail only of an
  eventfd that came late: `setup_interrupt` attaches it (:1213) without noting it.
* **SignalKept**, **SignalDelivered**: a signal not yet with the guest is in the eventfd
  or pending, unless it was pending when the guest reset the device: a reset clears the
  pending bits (`lost`), and nothing else loses a signal.  On a vector that stays open it
  arrives.
* **BallInPlay**: once both drivers have started, and while both processes live, either a
  guest is about to ring (its timer runs, or its job contains the ring, or the clear of
  the doorbell or of a signal after which it waits to ring) or a ring is under way (its
  handler is between the trap and the store of the cause, or the cause stands with an
  eventfd or MSI to come).  Not evident: rings are masked by the other end's start,
  dropped from NTINTSTS when a signal is cleared (:625), and coalesce.
* **CounterIncreases**: at each end the client is rung again and again.  A ring can be
  lost (masked by the other end's start, dropped while the peer is unknown, cleared
  with another cause), so that this is a claim about the whole protocol.

### What the violation runs show

1. *NtbRefusal* (:435): `msgsts_mask & ~bit` asks for another bit to be set; after
   start the mask is 0 and no refused write interrupts, against
   `src/README.md:255-256`.
2. *NtbFlagLost* (:667 with :451): clear and set overlap, the flag of a message just
   stored is gone and the next one overwrites it, against `src/README.md:254-255`.
3. *NtbSignalEarly* (:682): the test for -1 that :449 and :648 make is missing.
4. *MwTorn* (:911): base of before and limit of after the peer's call.
5. *ScAnyOrder* (:1437): an own eventfd handled before `msi_vectors` is allocated,
   against the comment at :1404-1408.

Also met and modelled, without a run: a cleared message flag can come back (:451); a
cause cleared in NTINTSTS can take another with it (:625); doorbell masks are read
by no handler; an access can land after `clear_trans` has returned (:927); a new
VM 0 never learns the id of a running VM 1 (:588); the setup loops for ever when the
server hangs up (:1377, `ReadNothing`); exit frees the entry of a peer that has gone
twice (:1798) and leaves eventfd handlers behind (:1807); a driver of VM 1 loaded before the handshake can end the play before it
begins (`CounterIncreases` fails with `Patient` empty); an access at the offset equal to the
size passes (:921); a reset drops signals the poll has made pending (:1088, :1468); a
shared memory that cannot be mapped leaves its descriptor open (:1251); NTGSIGNAL with a
value other than 1 aborts QEMU (:676).

### Fairness

`NtbDevice`: WF of `Continue(v)`, as a handler is straight-line code that ends; SF of
the two event handlers, because a busy guest takes the big lock again and again
and the event is enabled only between its handlers, but the main loop asks for
the lock each time and gets it, and polls every descriptor in each round.  Nothing
is assumed of the guests: they may stop writing at any time.  `Interconnect`: WF of
reading the socket and of hearing the id, nothing about the server's notice of an
end, kills or starts.  `HandshakeCompletes` therefore allows that a process ends.
`ServerChannel`: WF of `Receive`, as the setup and the main loop read what is there,
and of `ServerSend`, for the properties about what was sent; a server may always
hang up.  `IrqFd`: WF of `Deliver`, the kernel.  `PingPong`: WF of each end's `Process`:
an end that has something to do does something; which of handler, main loop and
guest is left open, so that a guest may keep its main loop waiting as long as it has
work itself.

## 4. Proofs

`NtbDevice_proofs` proves, for every choice of message registers, words, doorbell bits
and guests:

| theorem | statement |
|---|---|
| MailInvariant | `Spec => []MailInv` |
| TypeCorrect | `Spec => []TypeOK` |
| RefusalsJustified | `Spec => []RefusalJustified` |
| PendingMessagesStable | `Spec => PendingMessageStable` |
| RegistersAreMailboxes | `Spec => MailboxSpec` |
| CausesStored | `Spec => []CauseStored` |
| InterruptsHaveCause | `Spec => []InterruptHasCause` |
| RegistersKeepLink | `Spec => PeerLinkSpec` |

The invariant of the messages, `MailInv`: at `put` the sender's register is still unflagged
(`FreeWhilePutting`).  That is kept because the only writer that could flag it is
the receiver storing back its own status, and `SnapshotsBracket` says that such a
word flags nothing not flagged now (only the peer sets flags, and a stale copy has
at most the flags of the present), while the word the sender stores back has at
least them (only the receiver, who in between only takes away, writes it too).
`FlaggedIsWritten` and `RefusedIsWritten` carry "on a written register" through
status words and the words about to be stored over them.  `HandlerOK` ties the
register write served and the loaded word to the step reached.  The assumptions
are `MsgIdxAssumption`, `NoMsgAssumption` and `CommandsAssumption`; the proof has one
lemma per group of actions, one step per conjunct that can be disturbed.  The
refinement maps `PutMsg` to `Deposit`, `StsStore` to `Publish`, `ClearMsgsts` and
`RefuseStore` to `Withdraw`, and everything else to a stutter.

`CauseStored` strengthens `InterruptHasCause` by the handler that is about to notify: of
a guest that never clears NTINTSTS no such handler is ever midway, and the two stores
that may race, its own report of a refusal and its peer's, each put in a bit of their
own whatever they have loaded.

The link of the register file needs little: what a process that was not started holds, that
an end knows and holds its peer only when both were started, and that an announcement on
its way is VM 1's (`LinkInv` of `NtbDevice`).

`Interconnect_proofs` proves, for every number of vectors the device and the server have,
every first table, number of starts and 16-bit id:

| theorem | statement |
|---|---|
| TypeCorrect | `Spec => []TypeOK` |
| DeathsAreStale | `Spec => DiesOfStaleId` |
| PeersReachable | `Spec => []KnownPeerReachable` |
| HandshakeInvariant | `Spec => []HandshakeInv` |
| IdsAgree | `0 \notin Restartable` implies `Spec => []IdsAgreeAtRest` |

All but the last hold whichever VMs are restarted.  `HandshakeInv` has a part for each
carrier of an id: tables have entries exactly in range (`TableFits`), ids are given once
and running processes are members of the server (`IdsGiven`), nobody is spoken of before
(`Spoken`), no running process has heard or has queued that a running one has gone
(`RunningNotGone`), and of every running process it has two eventfds, or those missing
are queued (`EventfdsComing`).  With an empty queue this is `KnownPeerReachable`, and with
an eventfd read it gives `DiesOfStaleId`: a notification, or an announcement, is wild only
on an entry that is missing or freed.  The last
parts, for a VM 0 that is not restarted, say that it has id 0 (`FirstIsZero`), and that a
VM 1 with its second own eventfd has announced itself by an event VM 0 has heard or will
hear (`AnnouncementHeard`).  Of a new VM 0 nobody tells VM 1 (:588), hence the hypothesis of
`IdsAgree`.  Queues are treated by two lemmas, what a message read and messages appended do
to `Queued` and `QueuedTwice`.  Assumed: at least two vectors on both sides, a first table
of at least one entry, and `MaxStarts` of at most 2^16, the ids there are.

`InterconnectLink_proofs` proves, for the same constants with `0 \notin Restartable`:

| theorem | statement |
|---|---|
| LinkInvariant | `Spec => []LinkInv` |
| InterconnectIsLink | `Spec => PeerLinkSpec` |

`HandshakeInv` says that ids get to agree; that they never agree too early is `LinkInv`.
Signals are for ids given, and a signal with an announcement is for VM 0 by a VM 1 that has
written its id (`SignalsGiven`): without it an old signal would be found by a new process.
The id VM 0 has, or will read, was given to a VM 1 (`SecondIdsGiven`): never 0, so VM 0 does
not signal itself, never one to be given.  A VM 1 that has not announced itself knows
nobody and is known to nobody, although the shared memory and VM 0 hold the id of the one
before (`KnownOnceAnnounced`).  It has VM 0's eventfds before its own second one, on which it
announces itself (`PeerBeforeOwn`): so it is wired when it announces, as `PeerLink` asks.
The proof has one lemma per action, that it maps to the action of `PeerLink` in the table
of section 2 or to a stutter.

`MemWindow_proofs` proves, for every word size, aperture, set of BARs, buffers,
accesses and restarts:

| theorem | statement |
|---|---|
| WindowInvariant | `Spec => []WindowInv` |
| AccessesSettled | `Spec => []SettledAccess` |

The invariant: a call has selected its BAR once it has performed a write, and stored
the words before (`CallFits`), so that its last write completes the translation;
a BAR no call is on holds the words of the last one (`BarFits`); an access that
nobody disturbed has copied these (`AccessFits`).  `SettledAccess` then follows by
arithmetic: the two halves of a base make up the base (`Halves`), and the limit is
not truncated (`LimitBehind`, from `BarsAssumption`).  That the two guests gave a BAR the same
address, which nothing in the code brings about, is not assumed: it is the hypothesis
(`SameAddress`) of the part of `SettledAccess` about bounds, and the target does not need it.

`ServerChannel_proofs` proves, for every size of a message, server, table and number of
vectors:

| theorem | statement |
|---|---|
| StreamInvariant | `Spec => []StreamInv` |
| ChannelIsStream | `Spec => MessageStreamSpec` |

The invariant: the bytes read are `Len(handled)` whole messages and `got` more, and
the character device holds the descriptor of a begun message and no other.  Messages
begin at multiples of `Size`, and of those at most one lies among the next bytes of
a message, its own beginning (`BeginningIn`, by `Cancel`: products keep the order);
hence what arrives (`ArrivingIs`), what is then held (`NewestIs`), and that a
completed message is the next one with its descriptor (`WholeIs`).  A part maps to a
stutter, a whole message, whatever is done with it, to `Handle`, a sent one to `Send`.
Assumed: `SizeAssumption`, `SessionAssumption`.

`ServerDevice_proofs` goes on with what the device does with them:

| theorem | statement |
|---|---|
| TypeCorrect | `Spec => []TypeOK` |
| DescriptorsOnce | `Spec => []DescriptorsKeptOnce` |
| ChannelInvariant | `Spec => []ChannelInv` |
| NoOrderlyServerKills | `Spec => []OrderlyServerSafe` |

`ChannelInv`: the descriptor of a message is in one place once the message is handled, and
in none before (`PlacesInv`; a descriptor of the message being read is with the character
device, by `StreamInv`); each phase has seen so many messages, and none with the shared
memory before the device is realized (`PhaseInv`); watched vectors are among those received
(`WatchInv`); an entry is freed only if the server has reported its peer gone (`FreedInv`).
Every peer spoken of has an entry (`SpokenInv`); with these a message of an orderly server
finds the arrays allocated and the entries it uses in the table and not freed
(`OrderlyServerSafe`, last in `ChannelInv`).  ivshmem-server is orderly until its 16-bit ids
come round, for a device that finds its peer's id as it runs; a device started while the
shared memory still has the id of an ended VM 0 is not covered.  TLC evaluates which
servers of run ScSetup are orderly (`ServersOrderly` in `MCServerChannel`).

`IrqFd_proofs` proves, for every number of vectors:

| theorem | statement |
|---|---|
| IrqInvariant | `Spec => []IrqInv` |
| IrqfdsBalanced | `Spec => []Balanced` |
| AssertionsHold | `Spec => []DiesOnlyOfLate` |
| SignalsKept | `Spec => []SignalKept` |

The four are kept together: that no eventfd is missing (`AllThere`) gives every
vector a route while the notifiers are set, so that MSI-X asks for nothing the device
refuses (`DiesOnlyOfLate`), so that masks and irqfds change alike (`Balanced`).  `SignalKept`
accounts for the reset: what was pending then is in `lost` until the vector is signalled
anew.

`PingPong_proofs` proves that the play is a behaviour of the register file, `SpecAll =>
Spec` (PlayImplementsDevice), whatever guests are patient, and with it the link
(PlayKeepsLink).  Then:

| theorem | statement |
|---|---|
| PlayInvariant | `SpecAll => []PlayInv` |
| BallKept | `1 \in Patient` and `OpenMasks` imply `SpecAll => []BallInPlay` |

`PlayInv` has the jobs a guest may have left (`PlayTypeOK`), what a driver that is through
a step of its start has achieved (`BindInv`), that a signalled guest finds the link up,
so that it will wait to ring (`SignalInv`), and of the two words about to be stored in
one NTINTSTS which keeps a doorbell that stands there (`DoorbellInv`): the peer's does,
since it was loaded with it; the guest's own may not, and then the guest itself has the
next ring.  With these every step hands the ball on: a job that ends sets the timer, the
timer makes a ring, an unmasked ring becomes a cause with a signal, the signal an MSI, the
MSI a job.  The hypotheses: the driver of VM 1 loads after the handshake, since a ring
before it is dropped (:648), and no guest masks doorbells (`OpenMasks`); run PpGoesOn
satisfies both (`Played` in `MCPingPong`).

TLC evaluates all assumptions in the runs, and checks the inductive invariants `MailInv`,
`CauseStored`, `HandshakeInv`, `LinkInv` (of `Interconnect`), `WindowInv`, `StreamInv`, `ChannelInv`, `IrqInv` and `PlayInv`
there as invariants of the small instances.  Every invariant, every action property and every refinement of
the passing runs is a theorem.  Only model-checked is the liveness (`NotificationDelivered`,
`HandshakeCompletes`, `SetupEnds`, `EveryMessageHandled`, `SignalDelivered`,
`CounterIncreases`), which is out of the prover's reach.

## 5. Abstractions that matter

* Accesses to shared memory are whole words and sequentially consistent.  x86
  additionally delays stores; the outcomes this adds are not modelled.
* One driver call at a time per guest programs windows; an end performs
  one access at a time (the big lock).
* The compiler may reorder the words of a copied translation: `Copy` takes any
  order.  It may not split a word.
* Devices start in the order of the scripts, VM 0 first.
* Guests do what their command sets say, in any order and as often as they like
  (`NtbDevice`), or play (`PingPong`).  Their code is not in the sources: `PingPong` has
  the register accesses the driver of Linux makes, one job after the other.
* In `IrqFd` only the allocation of a route can fail of the calls into KVM.  With KVM, a
  guest that uses MSI and not MSI-X leaves the eventfds unwatched (:1218-1221);
  `NtbDevice` and `PingPong` have watched eventfds, as without KVM.
* The device has at least two vectors, and the server at least as many eventfds per peer
  (`src/scripts/run_vms.sh:9` and `:119`); ids are 16 bits wide.
* A descriptor is a number: what a peer does with its end of it is not modelled.

## 6. Not modelled, and why

* The BAR setups and their pre-initialisation (:1746-1762): constants, the same at both
  ends, which no access reads.
* Properties, BAR registration, migration hooks: sequential calls into QEMU.
* `GASAADDR`, `NTMTBLADDR`: a selector and a word it selects, private to one process;
  a driver that used them from two threads without a lock is outside the sources.
* The MSI example, scripts and build: not part of the bridge.
* The message word and the unload of the driver in `PingPong`.  Restarts of VM 0 are modelled
  in `Interconnect` and covered by its first four theorems, but no run has them.

## 7. Plan

Done, in this order: `NtbDevice` with `Mailbox`, its proofs, `Interconnect`,
`MemWindow`, its proofs, `ServerChannel` with `MessageStream`, its proofs, `IrqFd`, its
proofs, `PingPong`, its proofs; then the proofs about `Interconnect`, about descriptors and
phases of `ServerChannel`, about causes of interrupts in `NtbDevice`, and about the ball in
`PingPong`; then `PeerLink`, which `NtbDevice` and `Interconnect` are proved to implement.
Next:

1. `PingPong` with the message word, and with guests whose timer and interrupt routine
   interleave.
2. The hazards that have no property yet.
