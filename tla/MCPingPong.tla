----------------------------- MODULE MCPingPong -----------------------------
(***************************************************************************)
(* Two guests that play.                                                   *)
(***************************************************************************)
EXTENDS PingPong

Rings ==
  [v \in VM |->
    [reg : {"OUTDBELLSET", "INDBELLSTS"}, bits : {{0}}]
      \cup [reg : {"NTGSIGNAL", "SEGSIGSTS"}, bits : {Partitions}]
      \cup [reg : {"NTINTMSK"}, bits : {{}}] \cup [reg : {"NTINTSTS"}, bits : {{SEVENT}}]]

ASSUME Played == 1 \in Patient /\ OpenMasks

=============================================================================
