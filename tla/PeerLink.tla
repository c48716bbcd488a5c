------------------------------ MODULE PeerLink ------------------------------
(***************************************************************************)
(* What the two ends of the bridge promise each other, before any register *)
(* is written: an end comes to know its peer's id and to hold its          *)
(* eventfds, one announces itself, and a signal sent with id and eventfds  *)
(* at hand is there for the peer to take.  A process may end, by a kill or *)
(* by its own fault, and what both ends knew of each other ends with it.   *)
(***************************************************************************)
EXTENDS Integers

VARIABLES
  up,      \* the ends whose process runs
  known,   \* the ends that know the id of their peer as it runs
  wired,   \* the ends that hold the eventfds of their peer as it runs
  told,    \* the ends told that their peer has announced itself
  rung     \* the ends whose guest is to be interrupted

vars == <<up, known, wired, told, rung>>

VM        == {0, 1}
Peer(v)   == 1 - v
Announcer == 1

Init == up = {} /\ known = {} /\ wired = {} /\ told = {} /\ rung = {}

Start(v) ==
  /\ v \notin up
  /\ up' = up \cup {v}
  /\ UNCHANGED <<known, wired, told, rung>>

End(v) ==
  /\ v \in up
  /\ up'    = up \ {v}
  /\ known' = {} /\ wired' = {}
  /\ told'  = told \ {v} /\ rung' = rung \ {v}

Wire(v) ==
  /\ VM \subseteq up
  /\ wired' = wired \cup {v}
  /\ UNCHANGED <<up, known, told, rung>>

\* The announcer has its peer's eventfds when it takes its id.
Announce ==
  /\ Announcer \in wired
  /\ known' = known \cup {Announcer}
  /\ told'  = told \cup {Peer(Announcer)}
  /\ UNCHANGED <<up, wired, rung>>

\* An announcement of the peer as it runs makes it known; one of an instance
\* that has ended does not.
Hear(v) ==
  /\ v \in told
  /\ told'  = told \ {v}
  /\ known' = IF Peer(v) \in known THEN known \cup {v} ELSE known
  /\ UNCHANGED <<up, wired, rung>>

Ring(v) ==
  /\ v \in known \cap wired
  /\ rung' = rung \cup {Peer(v)}
  /\ UNCHANGED <<up, known, wired, told>>

Take(v) ==
  /\ v \in rung
  /\ rung' = rung \ {v}
  /\ UNCHANGED <<up, known, wired, told>>

Next ==
  \/ \E v \in VM : Start(v) \/ End(v) \/ Wire(v) \/ Hear(v) \/ Ring(v) \/ Take(v)
  \/ Announce

Spec == Init /\ [][Next]_vars

=============================================================================
