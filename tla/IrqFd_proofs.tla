---------------------------- MODULE IrqFd_proofs ----------------------------
(***************************************************************************)
(* The irqfds of the device stay balanced, for any number of vectors.      *)
(*                                                                         *)
(* A step of the guest, a reset or an eventfd that arrives changes which   *)
(* vectors are open; the lemmas below follow each into the device's flags. *)
(* The argument turns on AllThere: without late eventfds, KVM has a route  *)
(* for every vector while the notifiers are set, so that MSI-X never asks  *)
(* for what the device cannot do.                                          *)
(***************************************************************************)
EXTENDS IrqFd, TLAPS

\* Every own eventfd has arrived: its numbers are the vectors.
LEMMA OwnIsV ==
  ASSUME nb = Vectors
  PROVE  Own = V
BY DEF Own, V

\* Own eventfds have numbers of vectors.
LEMMA OwnInV ==
  ASSUME TypeOK
  PROVE  Own \subseteq V
BY VectorsAssumption DEF TypeOK, Own, V

LEMMA OpenInV == Open \subseteq V
BY DEF Open

-----------------------------------------------------------------------------
(* The parts of a step.                                                    *)

\* Masking and unmasking keep the type of the device's flags.
LEMMA FireTyped ==
  ASSUME TypeOK, NEW c \in SUBSET V, NEW o \in SUBSET V, Fire(c, o)
  PROVE  /\ pba' \subseteq V /\ owed' \subseteq Own /\ signal' \subseteq Own /\ lost' \subseteq Own
         /\ unmasked' \subseteq Own /\ attached' \subseteq Own /\ route' \subseteq Own
         /\ notifiers' \in BOOLEAN /\ late' \in BOOLEAN /\ nb' = nb
         /\ proc' \in {"up", "dead"}
<1>1. CASE notifiers /\ (MaskFails(c) \/ UnmaskFails(o))
  BY <1>1 DEF Fire, Die, TypeOK, irqfd, signals
<1>2. CASE ~ (notifiers /\ (MaskFails(c) \/ UnmaskFails(o)))
  <2>1. Flush(o) /\ UNCHANGED <<notifiers, route, nb, late, proc>>
    BY <1>2 DEF Fire
  <2>2. /\ pba' \subseteq V /\ owed' \subseteq Own /\ signal' \subseteq Own /\ lost' \subseteq Own
        /\ route' \subseteq Own /\ notifiers' \in BOOLEAN /\ late' \in BOOLEAN /\ nb' = nb
        /\ proc' \in {"up", "dead"}
    BY <2>1 DEF Flush, TypeOK
  <2>3. unmasked' \subseteq Own /\ attached' \subseteq Own
    <3>1. CASE ~notifiers
      BY <1>2, <3>1 DEF Fire, TypeOK
    <3>2. CASE notifiers /\ c # {}
      BY <1>2, <3>2 DEF Fire, Mask, Detached, TypeOK
    <3>3. CASE notifiers /\ c = {}
      <4>1. o \subseteq route
        BY <1>2, <3>3 DEF UnmaskFails
      <4>2. Unmask(o)
        BY <1>2, <3>3 DEF Fire
      <4> QED BY <4>1, <4>2 DEF Unmask, Attached, TypeOK
    <3> QED BY <3>1, <3>2, <3>3
  <2> QED BY <2>2, <2>3
<1> QED BY <1>1, <1>2

\* What MSI-X flushes leaves no signal forgotten.
LEMMA FireKeeps ==
  ASSUME SignalKept, NEW c, NEW o, Fire(c, o)
  PROVE  SignalKept'
BY DEF SignalKept, Fire, Die, Flush, signals

\* With all eventfds there, opening and closing vectors keeps the balance and
\* breaks no assertion: closing ones are open, opening ones are not, and one of
\* the two sets is empty.
LEMMA FireBalanced ==
  ASSUME TypeOK, Balanced, AllThere, ~late,
         NEW c \in SUBSET V, NEW o \in SUBSET V, Fire(c, o),
         c \subseteq Open, o \cap Open = {}, c = {} \/ o = {},
         enabled' = enabled, proc = "up",
         notifiers => Open' = (Open \ c) \cup o
  PROVE  Balanced' /\ proc' = "up" /\ late' = late
<1>1. CASE ~notifiers
  <2>1. UNCHANGED <<notifiers, route, unmasked, attached, nb, late, proc>>
    BY <1>1 DEF Fire, Die, irqfd
  <2> QED BY <1>1, <2>1 DEF Balanced
<1>2. CASE notifiers
  <2>1. enabled /\ route = V /\ attached = Open /\ unmasked = Open
    BY <1>2 DEF Balanced
  <2>2. ~ MaskFails(c) /\ ~ UnmaskFails(o)
    BY <2>1 DEF MaskFails, UnmaskFails
  <2>3. UNCHANGED <<notifiers, route, nb, late, proc>>
    BY <2>2 DEF Fire
  <2>4. unmasked' = Open' /\ attached' = Open'
    <3>1. CASE c # {}
      <4>1. Mask(c) /\ o = {}
        BY <1>2, <2>2, <3>1 DEF Fire
      <4> QED BY <1>2, <2>1, <4>1 DEF Mask, Detached
    <3>2. CASE c = {}
      <4>1. Unmask(o)
        BY <1>2, <2>2, <3>2 DEF Fire
      <4> QED BY <1>2, <2>1, <3>2, <4>1 DEF Unmask, Attached
    <3> QED BY <3>1, <3>2
  <2>5. V' = V
    BY DEF V
  <2> QED BY <1>2, <2>1, <2>3, <2>4, <2>5 DEF Balanced
<1> QED BY <1>1, <1>2

-----------------------------------------------------------------------------
(* The invariant is inductive: one lemma per conjunct, one step per action. *)

LEMMA InitIrq == Init => IrqInv
<1> SUFFICES ASSUME Init PROVE IrqInv
  OBVIOUS
<1>1. nb \in 0 .. Vectors
  BY VectorsAssumption DEF Init
<1>2. TypeOK
  BY <1>1 DEF Init, TypeOK
<1>3. AllThere /\ Balanced /\ DiesOnlyOfLate /\ SignalKept
  BY DEF Init, AllThere, Balanced, DiesOnlyOfLate, SignalKept
<1> QED BY <1>2, <1>3 DEF IrqInv

LEMMA TypeStep ==
  ASSUME TypeOK, [Next]_vars
  PROVE  TypeOK'
<1> USE DEF TypeOK, V
<1>1. CASE UNCHANGED vars
  BY <1>1 DEF vars, msix, irqfd, signals, Own
<1>2. ASSUME NEW k \in V, WriteVector(k)
      PROVE  TypeOK'
  <2>1. PICK c \in SUBSET V, o \in SUBSET V : Fire(c, o)
    BY <1>2 DEF WriteVector
  <2>2. masked' \subseteq V /\ UNCHANGED <<enabled, maskAll>>
    BY <1>2 DEF WriteVector
  <2> QED BY <2>1, <2>2, FireTyped DEF Own
<1>3. CASE WriteMaskAll
  <2>1. PICK c \in SUBSET V, o \in SUBSET V : Fire(c, o)
    BY <1>3 DEF WriteMaskAll
  <2>2. maskAll' \in BOOLEAN /\ UNCHANGED <<enabled, masked>>
    BY <1>3 DEF WriteMaskAll
  <2> QED BY <2>1, <2>2, FireTyped DEF Own
<1>4. ASSUME NEW k \in V, Signal(k) \/ Deliver(k)
      PROVE  TypeOK'
  BY <1>4 DEF Signal, Deliver, msix, irqfd, Own
<1>5. ASSUME NEW all \in BOOLEAN, Enable(all)
      PROVE  TypeOK'
  <2> DEFINE open == IF all THEN {} ELSE V \ masked
  <2>1. nb' = nb /\ masked' = masked /\ enabled' = TRUE /\ maskAll' = all /\ late' \in BOOLEAN
    BY <1>5 DEF Enable
  <2>2. CASE open \subseteq Own /\ notifiers' = TRUE /\ route' = route \cup Own /\ Unmask(open)
             /\ Poll(pba \ open, open) /\ owed' = owed \ (pba \cap open) /\ UNCHANGED proc
    BY <2>1, <2>2, OwnInV DEF Unmask, Attached, Poll, Own
  <2>3. CASE Flush(open) /\ UNCHANGED <<irqfd, proc>>
    BY <2>1, <2>3 DEF Flush, irqfd, Own
  <2>4. CASE proc' = "dead" /\ UNCHANGED <<irqfd, signals>>
    BY <2>1, <2>4 DEF irqfd, signals, Own
  <2> QED BY <1>5, <2>2, <2>3, <2>4 DEF Enable
<1>6. ASSUME NEW all \in BOOLEAN, Disable(all)
      PROVE  TypeOK'
  BY <1>6 DEF Disable, Release, Mask, Detached, irqfd, signals, Own
<1>7. CASE Reset
  BY <1>7 DEF Reset, Die, Release, Mask, Detached, irqfd, signals, Own
<1>8. CASE Arrive
  <2>1. nb' = nb + 1 /\ nb' \in 0 .. Vectors /\ Own' = Own \cup {nb}
    BY <1>8, VectorsAssumption DEF Arrive, Room, Own
  <2>2. UNCHANGED <<msix, signals, notifiers, unmasked, proc>> /\ late' \in BOOLEAN
    BY <1>8 DEF Arrive
  <2>3. route' \subseteq Own' /\ attached' \subseteq Own'
    BY <1>8, <2>1 DEF Arrive
  <2> QED BY <2>1, <2>2, <2>3 DEF msix, signals
<1>9. CASE ReadPba
  BY <1>9, OwnInV DEF ReadPba, Poll, msix, irqfd, Own
<1> QED BY <1>1, <1>2, <1>3, <1>4, <1>5, <1>6, <1>7, <1>8, <1>9 DEF Next

\* No step forgets a signal: masking, switching and polling move it, and a
\* reset enters what it drops as lost.
LEMMA SignalStep ==
  ASSUME SignalKept, [Next]_vars
  PROVE  SignalKept'
<1>1. ASSUME NEW k, WriteVector(k)
      PROVE  SignalKept'
  BY <1>1, FireKeeps DEF WriteVector
<1>2. CASE WriteMaskAll
  BY <1>2, FireKeeps DEF WriteMaskAll
<1>3. ASSUME NEW k, Signal(k) \/ Deliver(k)
      PROVE  SignalKept'
  BY <1>3 DEF SignalKept, Signal, Deliver
<1>4. ASSUME NEW all, Enable(all) \/ Disable(all)
      PROVE  SignalKept'
  BY <1>4 DEF SignalKept, Enable, Disable, Flush, Poll, signals
<1>5. CASE Reset
  BY <1>5 DEF SignalKept, Reset, Die, signals
<1>6. CASE Arrive \/ ReadPba
  BY <1>6 DEF SignalKept, Arrive, ReadPba, Poll, signals
<1>7. CASE UNCHANGED vars
  BY <1>7 DEF SignalKept, vars, signals
<1> QED BY <1>1, <1>2, <1>3, <1>4, <1>5, <1>6, <1>7 DEF Next

\* On a device whose eventfds were all there in time, each step keeps the
\* irqfds balanced and breaks no assertion.
LEMMA BalancedStep ==
  ASSUME IrqInv, [Next]_vars
  PROVE  AllThere' /\ Balanced' /\ DiesOnlyOfLate'
<1> USE DEF IrqInv
<1>1. CASE UNCHANGED vars
  BY <1>1 DEF vars, msix, irqfd, signals, AllThere, Balanced, DiesOnlyOfLate, V, Open
<1>2. ASSUME NEW k \in V, WriteVector(k)
      PROVE  AllThere' /\ Balanced' /\ DiesOnlyOfLate'
  <2> DEFINE changed == IF enabled /\ ~maskAll THEN {k} ELSE {}
  <2>1. Fire(changed \cap Open, changed \ Open) /\ proc = "up"
        /\ UNCHANGED <<enabled, maskAll>>
    BY <1>2 DEF WriteVector
  <2>2. Open' = (Open \ (changed \cap Open)) \cup (changed \ Open)
    BY <1>2 DEF WriteVector, Open, V
  <2>3. UNCHANGED <<nb, late>>
    BY <2>1 DEF Fire, Die
  <2>4. ~late => Balanced' /\ proc' = "up"
    <3>1. changed \cap Open = {} \/ changed \ Open = {}
      OBVIOUS
    <3> HIDE DEF changed
    <3> QED BY <2>1, <2>2, <3>1, OpenInV, FireBalanced DEF changed
  <2> QED BY <2>1, <2>3, <2>4 DEF AllThere, Balanced, DiesOnlyOfLate
<1>3. CASE WriteMaskAll
  <2> DEFINE changed == IF enabled THEN V \ masked ELSE {}
  <2>1. Fire(changed \cap Open, changed \ Open) /\ proc = "up"
        /\ UNCHANGED <<enabled, masked>> /\ maskAll' = ~maskAll
    BY <1>3 DEF WriteMaskAll
  <2>2. Open' = (Open \ (changed \cap Open)) \cup (changed \ Open)
        /\ (changed \cap Open = {} \/ changed \ Open = {})
    BY <2>1 DEF Open, V, TypeOK
  <2>3. UNCHANGED <<nb, late>>
    BY <2>1 DEF Fire, Die
  <2>4. ~late => Balanced' /\ proc' = "up"
    <3>1. changed \subseteq V
      OBVIOUS
    <3> HIDE DEF changed
    <3> QED BY <2>1, <2>2, <3>1, OpenInV, FireBalanced
  <2> QED BY <2>1, <2>3, <2>4 DEF AllThere, Balanced, DiesOnlyOfLate
<1>4. ASSUME NEW k \in V, Signal(k) \/ Deliver(k)
      PROVE  AllThere' /\ Balanced' /\ DiesOnlyOfLate'
  BY <1>4 DEF Signal, Deliver, msix, irqfd, AllThere, Balanced, DiesOnlyOfLate, V, Open
<1>5. ASSUME NEW all \in BOOLEAN, Enable(all)
      PROVE  AllThere' /\ Balanced' /\ DiesOnlyOfLate'
  <2> DEFINE open == IF all THEN {} ELSE V \ masked
  <2>1. proc = "up" /\ ~enabled /\ enabled' = TRUE /\ maskAll' = all
        /\ late' = (late \/ nb < Vectors) /\ masked' = masked /\ nb' = nb
    BY <1>5 DEF Enable
  <2>2. ~late' => nb = Vectors
    <3>1. nb \in 0 .. Vectors
      BY DEF TypeOK
    <3>2. ~ (nb < Vectors) => nb = Vectors
      BY <3>1, VectorsAssumption
    <3> QED BY <2>1, <3>2
  <2>3. AllThere'
    BY <2>1, <2>2 DEF AllThere
  <2>4. ~late' => ~notifiers /\ route = {} /\ attached = {} /\ unmasked = {}
    BY <2>1 DEF Balanced
  <2>5. Open' = open
    BY <2>1 DEF Open, V
  <2>6. CASE late'
    BY <2>3, <2>6 DEF Balanced, DiesOnlyOfLate
  <2>7. CASE ~late'
    <3>1. Own = V /\ V' = V
      BY <2>2, <2>7, OwnIsV DEF V
    <3>2. CASE notifiers' = TRUE /\ route' = route \cup Own /\ Unmask(open) /\ UNCHANGED proc
      <4>1. route' = V /\ unmasked' = open /\ attached' = open
        BY <2>4, <2>7, <3>1, <3>2 DEF Unmask, Attached
      <4> QED BY <2>1, <2>3, <2>5, <3>1, <3>2, <4>1 DEF Balanced, DiesOnlyOfLate
    <3>3. CASE UNCHANGED <<irqfd, proc>>
      BY <2>1, <2>3, <2>4, <2>7, <3>3 DEF irqfd, Balanced, DiesOnlyOfLate
    <3>4. ~ (Own \cap route # {} \/ open \cap unmasked # {})
      BY <2>4, <2>7
    <3> QED BY <1>5, <3>2, <3>3, <3>4 DEF Enable
  <2> QED BY <2>6, <2>7
<1>6. ASSUME NEW all \in BOOLEAN, Disable(all)
      PROVE  AllThere' /\ Balanced' /\ DiesOnlyOfLate'
  <2>1. enabled' = FALSE /\ UNCHANGED <<nb, late, proc>> /\ enabled
    BY <1>6 DEF Disable
  <2>2. AllThere' /\ DiesOnlyOfLate'
    BY <2>1 DEF AllThere, DiesOnlyOfLate
  <2>3. ASSUME ~late, notifiers
        PROVE  notifiers' = FALSE /\ route' = {} /\ attached' = {} /\ unmasked' = {}
    <3>1. Release
      BY <1>6, <2>3 DEF Disable
    <3>2. Own = V /\ route = V /\ attached = unmasked /\ unmasked \subseteq V
      BY <2>1, <2>3, OwnIsV DEF AllThere, Balanced, TypeOK
    <3> QED BY <3>1, <3>2 DEF Release, Mask, Detached
  <2>4. ASSUME ~notifiers
        PROVE  UNCHANGED irqfd
    BY <1>6, <2>4 DEF Disable
  <2>5. Balanced'
    BY <2>1, <2>3, <2>4 DEF Balanced, irqfd
  <2> QED BY <2>2, <2>5
<1>7. CASE Reset
  <2>1. enabled' = FALSE /\ UNCHANGED <<nb, late>> /\ proc = "up"
    BY <1>7 DEF Reset, Die
  <2>2. ~late /\ notifiers => ~ MaskFails(Open)
    BY DEF Balanced, MaskFails
  <2>3. ASSUME ~late, notifiers
        PROVE  notifiers' = FALSE /\ route' = {} /\ attached' = {} /\ unmasked' = {} /\ proc' = proc
    <3>1. Release /\ proc' = proc
      BY <1>7, <2>2, <2>3 DEF Reset
    <3>2. Own = V /\ route = V /\ attached = unmasked /\ unmasked \subseteq V
      BY <2>3, OwnIsV DEF AllThere, Balanced, TypeOK
    <3> QED BY <3>1, <3>2 DEF Release, Mask, Detached
  <2>4. ASSUME ~notifiers
        PROVE  UNCHANGED irqfd /\ proc' = proc
    BY <1>7, <2>4 DEF Reset
  <2>5. Balanced'
    BY <2>1, <2>3, <2>4 DEF Balanced, irqfd
  <2>6. ~late => proc' = "up"
    BY <2>1, <2>3, <2>4
  <2>7. DiesOnlyOfLate'
    BY <2>1, <2>6 DEF DiesOnlyOfLate
  <2> QED BY <2>1, <2>5, <2>7 DEF AllThere
<1>8. CASE Arrive
  <2>1. late' = (late \/ enabled) /\ enabled' = enabled /\ maskAll' = maskAll /\ masked' = masked
        /\ UNCHANGED <<notifiers, unmasked, proc>> /\ proc = "up"
    BY <1>8 DEF Arrive, msix
  <2>2. ~late' => ~notifiers /\ UNCHANGED <<route, attached>>
    BY <1>8, <2>1 DEF Arrive, Balanced
  <2> QED BY <2>1, <2>2 DEF AllThere, Balanced, DiesOnlyOfLate
<1>9. CASE ReadPba
  BY <1>9 DEF ReadPba, msix, irqfd, AllThere, Balanced, DiesOnlyOfLate, V, Open
<1> QED BY <1>1, <1>2, <1>3, <1>4, <1>5, <1>6, <1>7, <1>8, <1>9 DEF Next

-----------------------------------------------------------------------------
(* What follows for every run of the device.                               *)

\* The inductive invariant, for every number of vectors: types, the balance of
\* irqfds, assertions and signals, of ivshmem_vector_mask, _unmask and _poll,
\* ivshmem_enable_irqfd and ivshmem_disable_irqfd.
THEOREM IrqInvariant == Spec => []IrqInv
<1>1. IrqInv /\ [Next]_vars => IrqInv'
  <2> SUFFICES ASSUME IrqInv, [Next]_vars PROVE IrqInv'
    OBVIOUS
  <2>1. TypeOK' /\ SignalKept'
    BY TypeStep, SignalStep DEF IrqInv
  <2> QED BY <2>1, BalancedStep DEF IrqInv
<1> QED BY InitIrq, <1>1, PTL DEF Spec

\* "Keep our masks and unmasks balanced": if no eventfd was late, KVM holds
\* just the irqfds of the open vectors, and none with MSI-X off.
THEOREM IrqfdsBalanced == Spec => []Balanced
<1>1. IrqInv => Balanced
  BY DEF IrqInv
<1> QED BY IrqInvariant, <1>1, PTL

\* The assertions about vectors fail only of an eventfd that was missing when
\* MSI-X was on.
THEOREM AssertionsHold == Spec => []DiesOnlyOfLate
<1>1. IrqInv => DiesOnlyOfLate
  BY DEF IrqInv
<1> QED BY IrqInvariant, <1>1, PTL

\* A signal the guest has not had is in the eventfd or pending, however the
\* guest masks, polls and switches off (ivshmem_vector_mask, _unmask, _poll,
\* ivshmem_disable_irqfd); what a reset dropped (ivshmem_reset), and nothing
\* else, is lost.
THEOREM SignalsKept == Spec => []SignalKept
<1>1. IrqInv => SignalKept
  BY DEF IrqInv
<1> QED BY IrqInvariant, <1>1, PTL

=============================================================================
