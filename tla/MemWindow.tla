----------------------------- MODULE MemWindow -----------------------------
(***************************************************************************)
(* The memory windows: a guest offers a buffer of its RAM through a BAR of *)
(* its peer (the driver's idt_ntb_mw_set_trans and _clear_trans, a series  *)
(* of register writes), and an access of the peer to that BAR is           *)
(* translated by idt_bar_read and idt_bar_write.                           *)
(*                                                                         *)
(* The translation of a BAR is three words of shared memory, written by    *)
(* one process and copied by the other without a lock.  A register write   *)
(* is one step, as it stores one word; an access is a step for each word   *)
(* it copies, in the order the compiler chose, and one for the rest.       *)
(***************************************************************************)
EXTENDS Integers, Sequences, FiniteSets

CONSTANTS
  W,           \* a word holds 0 .. W-1, an address two words
  Bars,        \* the BARs that are windows
  BarAddr,     \* BarAddr[v][b]: bus address of BAR b in the guest of v
  Aperture,    \* size of a BAR
  Requests,    \* Requests[v]: the calls the guest of v makes, <<BAR, goal>>
  OwnWrites,   \* OwnWrites[v]: what its guest puts in BAR registers of v
  Touches,     \* Touches[v]: the accesses its guest makes, <<BAR, offset>>
  Restartable  \* the ends whose process may be killed and started again

VM      == {0, 1}
Peer(v) == 1 - v
Word    == 0 .. W - 1
Fields  == {"limit", "lo", "hi"}
Offsets == 0 .. Aperture - 1

Low(a)  == a % W
High(a) == a \div W

Translations == [base : 0 .. W * W - 1, size : 1 .. Aperture]
BarIdx       == 0 .. 5   \* BAR 0 holds the registers

\* What is known of a BAR: its translation, or one of these.
Closed  == [is |-> "closed"]    \* none
Moving  == [is |-> "moving"]    \* its owner is changing it
Unknown == [is |-> "unknown"]   \* left half changed, or by a guest now gone

ASSUME WindowsAssumption  == Bars \subseteq BarIdx \ {0}
ASSUME WordAssumption     == W \in Nat \ {0} /\ Aperture \in Nat \ {0}
ASSUME RequestsAssumption ==
  Requests \in [VM -> SUBSET (Bars \X (Translations \cup {Closed}))]
ASSUME TouchesAssumption  == Touches \in [VM -> SUBSET (Bars \X Offsets)]
ASSUME RegistersAssumption ==
  OwnWrites \in [VM -> SUBSET [bar : Bars, field : Fields, val : Word]]
\* A BAR is a window for 32-bit addresses, and no BAR ends where they do.
ASSUME BarsAssumption ==
  /\ BarAddr \in [VM -> [Bars -> Nat]]
  /\ \A v \in VM, b \in Bars : BarAddr[v][b] + Aperture < W

NoCall   == [bar |-> 0]
NoAccess == [bar |-> 0]

VARIABLES
  cfg,      \* cfg[v][b]: words of the translation of BAR b of v
  sel,      \* sel[v]: the BAR of its peer that v programs (inbound_mw_bar)
  call,     \* call[v]: the driver's call in progress in the guest of v
  acc,      \* acc[v]: the access of v to a window
  mapped,   \* mapped[v]: v has its peer's RAM mapped
  tr        \* tr[v][b]: what is known of BAR b of v (no part of the code)

vars == <<cfg, sel, call, acc, mapped, tr>>

Known == Translations \cup {Closed, Moving, Unknown}
Calls == [bar : Bars, goal : Translations \cup {Closed}, done : 0 .. 4]
Accesses == [bar : Bars, off : Offsets, copy : [Fields -> Word],
             have : SUBSET Fields, under : Known]

TypeOK ==
  /\ cfg    \in [VM -> [BarIdx -> [Fields -> Word]]]
  /\ sel    \in [VM -> BarIdx]
  /\ call   \in [VM -> Calls \cup {NoCall}]
  /\ acc    \in [VM -> Accesses \cup {NoAccess}]
  /\ mapped \in [VM -> BOOLEAN]
  /\ tr     \in [VM -> [Bars -> Known]]

Zero == [f \in Fields |-> 0]

Init ==
  /\ cfg    = [v \in VM |-> [b \in BarIdx |-> Zero]]
  /\ sel    = [v \in VM |-> 0]
  /\ call   = [v \in VM |-> NoCall]
  /\ acc    = [v \in VM |-> NoAccess]
  /\ mapped = [v \in VM |-> FALSE]
  /\ tr     = [v \in VM |-> [b \in Bars |-> Closed]]

-----------------------------------------------------------------------------
(* The driver: the register writes a call performs, one after the other.   *)

Select(b)   == [reg |-> "LUTOFF", val |-> b]
Put(f, val) == [reg |-> "data", field |-> f, val |-> val]

LimitOf(v, b, t) == (BarAddr[v][b] + t.size) % W

\* Mutant: the BAR is not selected.
MutSetTrans(v, b, t) ==
  <<Put("lo", Low(t.base)), Put("hi", High(t.base)),
    Put("limit", LimitOf(v, b, t))>>

SetTrans(v, b, t) ==
  <<Select(b), Put("lo", Low(t.base)), Put("hi", High(t.base)),
    Put("limit", LimitOf(v, b, t))>>

ClearTrans(b) == <<Select(b), Put("limit", 0)>>

Program(v) ==
  IF call[v].goal = Closed THEN ClearTrans(call[v].bar)
  ELSE SetTrans(v, call[v].bar, call[v].goal)

\* Something happens to BAR b of v: what an access under way goes by is void.
Disturb(v, b) ==
  acc' = IF acc[v].bar = b THEN [acc EXCEPT ![v].under = Unknown] ELSE acc

Begin(v) ==
  /\ call[v] = NoCall
  /\ \E r \in Requests[v] :
       /\ call' = [call EXCEPT ![v] = [bar |-> r[1], goal |-> r[2], done |-> 0]]
       /\ tr'   = [tr EXCEPT ![Peer(v)][r[1]] = Moving]
       /\ Disturb(Peer(v), r[1])
  /\ UNCHANGED <<cfg, sel, mapped>>

\* The call goes on to its next write, or returns.
Proceed(v) ==
  LET n == call[v].done + 1
      b == call[v].bar
  IN IF n < Len(Program(v))
     THEN /\ call' = [call EXCEPT ![v].done = n]
          /\ UNCHANGED tr
     ELSE /\ call' = [call EXCEPT ![v] = NoCall]
          /\ tr'   = IF tr[Peer(v)][b] = Moving
                     THEN [tr EXCEPT ![Peer(v)][b] = call[v].goal] ELSE tr

\* The handler of a register write runs when no other handler of v does.
NextWrite(v) == Program(v)[call[v].done + 1]
Writing(v)   == call[v] # NoCall /\ acc[v] = NoAccess

WriteLutoff(v) ==
  /\ Writing(v) /\ NextWrite(v).reg = "LUTOFF"
  /\ sel' = [sel EXCEPT ![v] = NextWrite(v).val]
  /\ Proceed(v)
  /\ UNCHANGED <<cfg, acc, mapped>>

\* LDATA, HDATA and LLIMIT store a word of the peer's translation.
WriteData(v) ==
  /\ Writing(v) /\ NextWrite(v).reg = "data"
  /\ cfg' = [cfg EXCEPT ![Peer(v)][sel[v]][NextWrite(v).field] = NextWrite(v).val]
  /\ Proceed(v)
  /\ UNCHANGED <<sel, acc, mapped>>

\* BARLIMIT, BARLTBASE and BARUTBASE store a word of the guest's own.
WriteOwn(v) ==
  /\ acc[v] = NoAccess
  /\ \E r \in OwnWrites[v] :
       /\ cfg' = [cfg EXCEPT ![v][r.bar][r.field] = r.val]
       /\ tr'  = [tr EXCEPT ![v][r.bar] = Unknown]
  /\ UNCHANGED <<sel, call, acc, mapped>>

-----------------------------------------------------------------------------
(* An access to a window.                                                  *)

Access(v) ==
  /\ acc[v] = NoAccess
  /\ \E a \in Touches[v] :
       acc' = [acc EXCEPT ![v] = [bar |-> a[1], off |-> a[2], copy |-> Zero,
                                  have |-> {}, under |-> tr[v][a[1]]]]
  /\ UNCHANGED <<cfg, sel, call, mapped, tr>>

Copy(v) ==
  /\ acc[v] # NoAccess
  /\ \E f \in Fields \ acc[v].have :
       acc' = [acc EXCEPT ![v].have    = @ \cup {f},
                          ![v].copy[f] = cfg[v][acc[v].bar][f]]
  /\ UNCHANGED <<cfg, sel, call, mapped, tr>>

Copied(v) == acc[v] # NoAccess /\ acc[v].have = Fields

\* Mutant: the offset is compared with the limit, which is a bus address.
MutPasses(v) == acc[v].copy["limit"] # 0 /\ acc[v].off <= acc[v].copy["limit"]

\* The window is active and the address not past its limit.
Passes(v) ==
  /\ acc[v].copy["limit"] # 0
  /\ BarAddr[v][acc[v].bar] + acc[v].off <= acc[v].copy["limit"]

\* The address of the peer's RAM that is read or written.
Target(v) == acc[v].copy["hi"] * W + acc[v].copy["lo"] + acc[v].off

Finish(v) == acc' = [acc EXCEPT ![v] = NoAccess]

Refuse(v) ==
  /\ Copied(v) /\ ~Passes(v)
  /\ Finish(v)
  /\ UNCHANGED <<cfg, sel, call, mapped, tr>>

\* The peer's RAM is mapped for the first access that needs it; where it is
\* not a file in /dev/shm that fails, and will be tried again.
MapPeerShm(v) ==
  \/ mapped' = [mapped EXCEPT ![v] = TRUE]
  \/ ~mapped[v] /\ UNCHANGED mapped

Land(v) ==
  /\ Copied(v) /\ Passes(v)
  /\ MapPeerShm(v)
  /\ Finish(v)
  /\ UNCHANGED <<cfg, sel, call, tr>>

-----------------------------------------------------------------------------

\* The process of v is killed and started again.  The translations are not
\* reset: those of its peer still point to the RAM of the guest that is gone.
Restart(v) ==
  /\ v \in Restartable
  /\ sel'    = [sel EXCEPT ![v] = 0]
  /\ call'   = [call EXCEPT ![v] = NoCall]
  /\ mapped' = [mapped EXCEPT ![v] = FALSE]
  /\ tr'     = [tr EXCEPT ![Peer(v)] = [b \in Bars |-> IF @[b] = Closed THEN Closed ELSE Unknown]]
  /\ LET p == Peer(v)
         void == acc[p] # NoAccess /\ acc[p].under # Closed
     IN acc' = [u \in VM |->
                  IF u = v THEN NoAccess
                  ELSE IF void THEN [acc[p] EXCEPT !.under = Unknown] ELSE acc[p]]
  /\ UNCHANGED cfg

Next ==
  \E v \in VM :
    \/ Begin(v) \/ WriteLutoff(v) \/ WriteData(v) \/ WriteOwn(v)
    \/ Access(v) \/ Copy(v) \/ Refuse(v) \/ Land(v)
    \/ Restart(v)

Spec == Init /\ [][Next]_vars

-----------------------------------------------------------------------------
(* What a window does.                                                     *)

\* Both guests gave the BAR one address.
SameAddress(b) == \A v \in VM : BarAddr[v][b] = BarAddr[Peer(v)][b]

\* An access to a BAR nobody changed meanwhile goes by the call that returned
\* last, whatever was interrupted, restarted or done to other BARs before: a
\* closed window refuses it; an open one takes it, if anywhere, to the same
\* offset of the buffer offered, and where both guests gave the BAR the same
\* address it takes every offset inside the size and none beyond it.  The
\* driver adds its own BAR's address to the size and the device its own to the
\* offset: with two addresses the code promises no more than the target.  The
\* first offset outside, the size itself, is left open: the code takes it.
SettledAccess ==
  \A v \in VM :
    Copied(v) =>
      /\ acc[v].under = Closed => ~Passes(v)
      /\ acc[v].under \in Translations =>
           /\ Passes(v) => Target(v) = acc[v].under.base + acc[v].off
           /\ SameAddress(acc[v].bar) =>
                /\ acc[v].off < acc[v].under.size => Passes(v)
                /\ acc[v].off > acc[v].under.size => ~Passes(v)

-----------------------------------------------------------------------------
(* Why it holds: an inductive invariant.                                   *)

Config(v, b, t) ==
  [f \in Fields |-> CASE f = "limit" -> LimitOf(v, b, t)
                      [] f = "lo"    -> Low(t.base)
                      [] f = "hi"    -> High(t.base)]

\* The words a call has written by its n-th write.
WordsDone(n) == CASE n < 2 -> {} [] n = 2 -> {"lo"} [] n > 2 -> {"lo", "hi"}

\* A call in progress has selected its BAR and written the words before.
CallFits(v) ==
  /\ <<call[v].bar, call[v].goal>> \in Requests[v]
  /\ call[v].done < Len(Program(v))
  /\ tr[Peer(v)][call[v].bar] \in {Moving, Unknown}
  /\ call[v].done > 0 => sel[v] = call[v].bar
  /\ call[v].goal # Closed /\ tr[Peer(v)][call[v].bar] = Moving =>
       \A f \in WordsDone(call[v].done) :
         cfg[Peer(v)][call[v].bar][f] = Config(v, call[v].bar, call[v].goal)[f]

CallOK == \A v \in VM : call[v] # NoCall => CallFits(v)

\* A BAR is what is known of it.
BarFits(v, b) ==
  /\ tr[v][b] = Closed => cfg[v][b]["limit"] = 0
  /\ tr[v][b] \in Translations => cfg[v][b] = Config(Peer(v), b, tr[v][b])
  /\ tr[v][b] = Moving => call[Peer(v)] # NoCall /\ call[Peer(v)].bar = b

WindowsOK == \A v \in VM, b \in Bars : BarFits(v, b)

\* An access not disturbed has copied what is known.
AccessFits(v) ==
  /\ acc[v].under = Closed =>
       /\ tr[v][acc[v].bar] = Closed
       /\ "limit" \in acc[v].have => acc[v].copy["limit"] = 0
  /\ acc[v].under \in Translations =>
       /\ tr[v][acc[v].bar] = acc[v].under
       /\ \A f \in acc[v].have :
            acc[v].copy[f] = Config(Peer(v), acc[v].bar, acc[v].under)[f]

AccessOK == \A v \in VM : acc[v] # NoAccess => AccessFits(v)

WindowInv ==
  /\ TypeOK
  /\ CallOK
  /\ WindowsOK
  /\ AccessOK

-----------------------------------------------------------------------------
(* What the driver's comments say and the code does not do.                *)

\* idt_ntb_mw_set_trans: addr is "the dma address of the shared memory to
\* access".  An access that passes goes to an address offered.
BaseOffered ==
  \A v \in VM :
    Copied(v) /\ Passes(v) =>
      \E r \in Requests[Peer(v)] :
        r[2] # Closed /\ Target(v) = r[2].base + acc[v].off

=============================================================================
