---------------------------- MODULE MCNtbDevice ----------------------------
(***************************************************************************)
(* Guests for the register file: what each of the two writes in a run.     *)
(***************************************************************************)
EXTENDS NtbDevice

CONSTANTS w1, w2   \* words

Sends(is, ws) == [reg : {"OUTMSG"}, idx : is, val : ws]
Puts(r, sets) == [reg : {r}, bits : sets]
UnmaskInts    == Puts("NTINTMSK", {{}})
Signals       == Puts("NTGSIGNAL", {Partitions})
BadSignals    == Puts("NTGSIGNAL", {{}})

\* VM 0 sends two words on one register and one on the other, and rings; VM 1
\* answers on one.  Each clears what it is shown, interrupts stay masked.
Messages ==
  [v \in VM |->
     IF v = 0
     THEN Sends({0}, {w1, w2}) \cup Sends({1}, {w1}) \cup Puts("MSGSTS", {{Out(0)}})
            \cup Puts("OUTDBELLSET", {{0}})
     ELSE Sends({0}, {w1}) \cup Puts("MSGSTS", {{In(0)}, {In(0), In(1)}})
            \cup Puts("MSGSTSMSK", {{In(0)}}) \cup Puts("INDBELLMSK", {{0}})
            \cup Puts("INDBELLSTS", {{0}})]

\* VM 0 sends, interrupts unmasked, to a guest that does not read.
Unread ==
  [v \in VM |-> IF v = 0 THEN Sends({0}, {w1}) \cup UnmaskInts ELSE {}]

\* VM 0 rings, signals and clears its causes; VM 1, its writes refused for want of a reader,
\* interrupts itself meanwhile, and clears and masks what it receives.
Interrupts ==
  [v \in VM |->
     IF v = 0
     THEN Puts("OUTDBELLSET", {{0}}) \cup Signals \cup BadSignals \cup Puts("NTINTSTS", {{MSG}})
     ELSE Sends({0}, {w1})
            \cup Puts("MSGSTSMSK", {{In(0)}})
            \cup Puts("SEGSIGSTS", {Partitions})
            \cup UnmaskInts]

=============================================================================
