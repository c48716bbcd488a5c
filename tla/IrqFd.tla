------------------------------- MODULE IrqFd -------------------------------
(***************************************************************************)
(* The device's own eventfds under KVM: each is given to the kernel as an  *)
(* irqfd while MSI-X is on and its vector unmasked.                        *)
(*                                                                         *)
(* The guest switches MSI-X and masks vectors at any time; QEMU's MSI-X    *)
(* code (external) then calls the notifiers the device has set.  Eventfds  *)
(* come from the server one by one, before or after MSI-X is switched on.  *)
(* All this runs under the big lock, handler by handler; only a signal of  *)
(* the peer and its delivery by the kernel do not.  A flag per vector is   *)
(* the set of the vectors that have it.                                    *)
(***************************************************************************)
EXTENDS Integers, FiniteSets

CONSTANT Vectors   \* vectors of the device, numbered from 0

ASSUME VectorsAssumption == Vectors \in Nat

VARIABLES
  enabled,    \* MSI-X: switched on
  maskAll,    \* MSI-X: the function mask
  masked,     \* MSI-X: vectors masked in the table
  pba,        \* MSI-X: vectors pending
  notifiers,  \* MSI-X: the device's notifiers are set
  nb,         \* own eventfds received
  route,      \* vectors with a route in KVM (pdev # NULL)
  unmasked,   \* vectors the device holds for unmasked
  attached,   \* vectors whose eventfd is an irqfd of KVM
  signal,     \* vectors whose eventfd is signalled
  owed,       \* history: vectors signalled and not yet delivered to the guest
  lost,       \* history: those of them that were pending when the guest reset
  late,       \* history: an eventfd was missing when MSI-X was on
  proc        \* "up", or "dead" by a failed assertion

msix   == <<enabled, maskAll, masked>>
irqfd  == <<notifiers, route, unmasked, attached>>
signals == <<pba, signal, owed, lost>>
vars   == <<msix, irqfd, signals, nb, late, proc>>

V   == 0 .. Vectors - 1
Own == 0 .. nb - 1

TypeOK ==
  /\ enabled \in BOOLEAN /\ maskAll \in BOOLEAN /\ notifiers \in BOOLEAN /\ late \in BOOLEAN
  /\ masked \subseteq V /\ pba \subseteq V
  /\ nb \in 0 .. Vectors
  /\ route \subseteq Own /\ unmasked \subseteq Own /\ attached \subseteq Own
  /\ signal \subseteq Own /\ owed \subseteq Own /\ lost \subseteq Own
  /\ proc \in {"up", "dead"}

\* After reset every vector is masked.
Init ==
  /\ enabled = FALSE /\ maskAll = FALSE /\ masked = V /\ pba = {}
  /\ notifiers = FALSE /\ route = {} /\ unmasked = {} /\ attached = {}
  /\ nb = 0 /\ signal = {} /\ owed = {} /\ lost = {}
  /\ late = FALSE /\ proc = "up"

\* The vectors the guest can be interrupted on.
Open == IF enabled /\ ~maskAll THEN V \ masked ELSE {}

-----------------------------------------------------------------------------
(* ivshmem_vector_mask and _unmask, called for several vectors.            *)

\* Mutant: a vector keeps its irqfd when it is masked.
MutDetached(ks) == attached

Detached(ks) == attached \ ks

\* Masking: a vector without a route is left alone, one with a route has to be
\* held for unmasked.
MaskFails(ks) == ~ (ks \cap route \subseteq unmasked)
Mask(ks) ==
  /\ unmasked' = unmasked \ (ks \cap route)
  /\ attached' = Detached(ks \cap route)

\* Mutant: a vector is unmasked and its irqfd not added.
MutAttached(ks) == attached

Attached(ks) == attached \cup ks

\* Unmasking: an error without a route, which MSI-X takes for impossible.
UnmaskFails(ks) == ~ (ks \subseteq route) \/ ks \cap unmasked # {}
Unmask(ks) ==
  /\ unmasked' = unmasked \cup ks
  /\ attached' = Attached(ks)

\* What was pending on vectors that open goes to the guest.
Flush(ks) ==
  /\ pba'  = pba \ ks
  /\ owed' = owed \ (pba \cap ks)
  /\ UNCHANGED <<signal, lost>>

Die == proc' = "dead" /\ UNCHANGED <<irqfd, signals, nb, late>>

-----------------------------------------------------------------------------
(* The guest masks vectors.                                                *)

\* MSI-X tells the notifiers which vectors close and which open.
Fire(closing, opening) ==
  IF notifiers /\ (MaskFails(closing) \/ UnmaskFails(opening))
  THEN Die
  ELSE /\ Flush(opening)
       /\ IF ~notifiers THEN UNCHANGED <<unmasked, attached>>
          ELSE IF closing # {} THEN Mask(closing) ELSE Unmask(opening)
       /\ UNCHANGED <<notifiers, route, nb, late, proc>>

WriteVector(k) ==
  /\ proc = "up"
  /\ masked' = IF k \in masked THEN masked \ {k} ELSE masked \cup {k}
  /\ LET changed == IF enabled /\ ~maskAll THEN {k} ELSE {}
     IN  Fire(changed \cap Open, changed \ Open)
  /\ UNCHANGED <<enabled, maskAll>>

\* ivshmem_write_config, MSI-X staying on, or off.
WriteMaskAll ==
  /\ proc = "up"
  /\ maskAll' = ~maskAll
  /\ LET changed == IF enabled THEN V \ masked ELSE {}
     IN  Fire(changed \cap Open, changed \ Open)
  /\ UNCHANGED <<enabled, masked>>

-----------------------------------------------------------------------------
(* MSI-X is switched on and off, and reset.                                *)

\* Mutant: the eventfd is emptied and the vector not made pending.
MutPoll(pending, open) ==
  /\ pba'    = pending
  /\ signal' = signal \cap open
  /\ UNCHANGED lost

\* ivshmem_vector_poll: what was signalled on masked vectors becomes pending.
Poll(pending, open) ==
  /\ pba'    = pending \cup (signal \ open)
  /\ signal' = signal \cap open
  /\ UNCHANGED lost

\* ivshmem_enable_irqfd: routes for the eventfds received, notifiers, which at
\* once attach the vectors that are open, and a poll of the others.  Without a
\* route for one of these, or with none left in KVM, all is undone.
Enable(all) ==
  LET open == IF all THEN {} ELSE V \ masked IN
  /\ proc = "up" /\ ~enabled
  /\ enabled' = TRUE /\ maskAll' = all
  /\ late' = (late \/ nb < Vectors)
  /\ \/ /\ Own \cap route = {} /\ open \cap unmasked = {} /\ open \subseteq Own
        /\ notifiers' = TRUE
        /\ route' = route \cup Own
        /\ Unmask(open)
        /\ Poll(pba \ open, open)
        /\ owed' = owed \ (pba \cap open)
        /\ UNCHANGED proc
     \/ /\ 0 \notin route
        /\ Flush(open)
        /\ UNCHANGED <<irqfd, proc>>
     \/ /\ Own \cap route # {} \/ open \cap unmasked # {}
        /\ proc' = "dead"
        /\ UNCHANGED <<irqfd, signals>>
  /\ UNCHANGED <<masked, nb>>

\* Mutant: the routes are released, but the vectors not masked.
MutRelease ==
  /\ notifiers' = FALSE
  /\ route'     = route \ Own
  /\ UNCHANGED <<unmasked, attached>>

\* ivshmem_disable_irqfd, the notifiers unset: masks the vectors held for
\* unmasked, and releases the routes.
Release ==
  /\ notifiers' = FALSE
  /\ route'     = route \ Own
  /\ Mask(unmasked \cap Own)

Disable(all) ==
  /\ proc = "up" /\ enabled
  /\ enabled' = FALSE /\ maskAll' = all
  /\ IF notifiers THEN Release ELSE UNCHANGED irqfd
  /\ UNCHANGED <<masked, signals, nb, late, proc>>

\* ivshmem_reset.  MSI-X is still on: unsetting the notifiers masks the open
\* vectors, before MSI-X itself is reset, which clears the pending bits: what was
\* pending the guest will not have, unless its eventfd was signalled again.
Reset ==
  /\ proc = "up"
  /\ enabled' = FALSE /\ maskAll' = FALSE /\ masked' = V
  /\ IF notifiers /\ MaskFails(Open) THEN Die
     ELSE /\ IF notifiers THEN Release ELSE UNCHANGED irqfd
          /\ pba' = {}
          /\ lost' = lost \cup ((owed \cap pba) \ signal)
          /\ UNCHANGED <<signal, owed, nb, late, proc>>

-----------------------------------------------------------------------------
(* Eventfds.                                                               *)

\* Mutant: one eventfd too many is accepted.
MutRoom == nb <= Vectors

\* An eventfd beyond the last vector is refused.
Room == nb < Vectors

\* setup_interrupt: the next own eventfd.  With MSI-X off it waits; with MSI-X
\* on it gets a route, if there is one left, and is attached if its vector is
\* open, which the device does not note.
Arrive ==
  /\ proc = "up" /\ Room
  /\ nb' = nb + 1
  /\ late' = (late \/ enabled)
  /\ IF ~enabled THEN UNCHANGED <<route, attached>>
     ELSE \/ /\ route' = route \cup {nb}
             /\ attached' = attached \cup ({nb} \cap Open)
          \/ UNCHANGED <<route, attached>>
  /\ UNCHANGED <<msix, signals, notifiers, unmasked, proc>>

\* The peer signals vector k.
Signal(k) ==
  /\ proc = "up" /\ k \in Own
  /\ signal' = signal \cup {k}
  /\ owed'   = owed \cup {k}
  /\ lost'   = lost \ {k}
  /\ UNCHANGED <<msix, irqfd, pba, nb, late, proc>>

\* The kernel delivers what is signalled on an irqfd (external).
Deliver(k) ==
  /\ proc = "up" /\ k \in attached \cap signal
  /\ signal' = signal \ {k}
  /\ owed'   = owed \ {k}
  /\ UNCHANGED <<msix, irqfd, pba, lost, nb, late, proc>>

\* The guest reads the pending bits, which polls (external, but for the poll).
ReadPba ==
  /\ proc = "up" /\ notifiers
  /\ Poll(pba, Open)
  /\ UNCHANGED <<msix, irqfd, owed, nb, late, proc>>

-----------------------------------------------------------------------------

Next ==
  \/ \E k \in V : WriteVector(k) \/ Signal(k) \/ Deliver(k)
  \/ \E all \in BOOLEAN : Enable(all) \/ Disable(all)
  \/ WriteMaskAll \/ Reset \/ Arrive \/ ReadPba

Spec == Init /\ [][Next]_vars

\* The kernel delivers.
FairSpec == Spec /\ \A k \in V : WF_vars(Deliver(k))

-----------------------------------------------------------------------------

\* The comment at ivshmem_disable_irqfd: "keep our masks and unmasks balanced".
\* If every own eventfd was there before MSI-X was on, KVM has just the irqfds
\* of the vectors the guest can be interrupted on, each with a route, and none
\* when MSI-X is off.
Balanced ==
  ~late =>
    /\ attached = unmasked
    /\ notifiers  => enabled /\ route = V /\ attached = Open
    /\ ~notifiers => route = {} /\ attached = {}

\* The assertions about vectors, the device's and MSI-X's, fail only of an
\* eventfd that was missing when MSI-X was on.
DiesOnlyOfLate == proc = "dead" => late

\* However vectors are masked, polled and switched off: a signal the guest has
\* not had is in the eventfd or pending, but for one that was pending when the
\* guest reset the device.  A reset does lose that one, and of what is lost
\* nothing is left to deliver.
SignalKept ==
  /\ owed \subseteq signal \cup pba \cup lost
  /\ lost \cap (signal \cup pba) = {}

\* A signal on a vector that stays open, of a device that could set up its
\* irqfds, reaches the guest, if no reset lost it.
SignalDelivered ==
  \A k \in V :
    []<>(k \notin owed \ lost \/ k \notin Open \/ ~notifiers \/ late \/ proc = "dead")

-----------------------------------------------------------------------------
(* The inductive invariant.                                                *)

\* While MSI-X is on, none of the device's own eventfds is missing.
AllThere == enabled /\ ~late => nb = Vectors

IrqInv == TypeOK /\ AllThere /\ Balanced /\ DiesOnlyOfLate /\ SignalKept

=============================================================================
