------------------------------ MODULE Mailbox ------------------------------
(***************************************************************************)
(* What the message registers of the bridge promise, without saying how.   *)
(*                                                                         *)
(* Every receiver owns one mailbox per message register.  A mailbox holds  *)
(* the last word deposited in it and is flagged while the receiver is to   *)
(* read it.  The promises are:                                             *)
(*                                                                         *)
(*   - a word is deposited only in an unflagged mailbox, so the word under *)
(*     a flag never changes;                                               *)
(*   - a flag is only ever put on a mailbox that has been written;         *)
(*   - the sending side never takes a flag away, the receiving side never  *)
(*     puts one on.                                                        *)
(*                                                                         *)
(* It deliberately does not promise that a flag lasts until the receiver   *)
(* asks for its removal, nor that it is put on only once per deposit: the  *)
(* status word is updated by both sides without atomicity, so Withdraw may *)
(* drop flags nobody read and Publish may put back flags already served.   *)
(***************************************************************************)

CONSTANTS
  Receivers,   \* the ends of the bridge that own mailboxes
  MsgIdx,      \* the message registers of one end
  MsgVals,     \* the words that can be sent
  NoMsg        \* content of a register nobody has written

VARIABLES
  val,         \* val[r][i]: the word in mailbox i of receiver r
  full         \* full[r]: the mailboxes of r that are flagged

vars == <<val, full>>

Init ==
  /\ val  = [r \in Receivers |-> [i \in MsgIdx |-> NoMsg]]
  /\ full = [r \in Receivers |-> {}]

\* The sender fills an unflagged mailbox.
Deposit(r, i, m) ==
  /\ i \notin full[r]
  /\ val' = [val EXCEPT ![r][i] = m]
  /\ UNCHANGED full

\* The sender flags mailboxes; it takes no flag away.
Publish(r) ==
  /\ \E F \in SUBSET MsgIdx :
       /\ full[r] \subseteq F
       /\ \A i \in F : val[r][i] # NoMsg
       /\ full' = [full EXCEPT ![r] = F]
  /\ UNCHANGED val

\* The receiver takes flags away; it puts none on.
Withdraw(r) ==
  /\ \E F \in SUBSET full[r] : full' = [full EXCEPT ![r] = F]
  /\ UNCHANGED val

Next ==
  \E r \in Receivers :
    \/ \E i \in MsgIdx, m \in MsgVals : Deposit(r, i, m)
    \/ Publish(r)
    \/ Withdraw(r)

Spec == Init /\ [][Next]_vars

=============================================================================
