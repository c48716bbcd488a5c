--------------------------- MODULE MessageStream ---------------------------
(***************************************************************************)
(* What a device expects of its connection to the ivshmem-server: whole    *)
(* messages, each with the file descriptor it was sent with, handled one   *)
(* by one in the order in which the server sent them.                      *)
(***************************************************************************)
EXTENDS Integers, Sequences

VARIABLES
  sent,      \* the messages the server has sent
  handled    \* the messages the device has acted upon

Init == sent = <<>> /\ handled = <<>>

Send ==
  /\ Len(sent') = Len(sent) + 1
  /\ SubSeq(sent', 1, Len(sent)) = sent
  /\ UNCHANGED handled

Handle ==
  /\ Len(handled) < Len(sent)
  /\ handled' = Append(handled, sent[Len(handled) + 1])
  /\ UNCHANGED sent

Spec == Init /\ [][Send \/ Handle]_<<sent, handled>>

=============================================================================
