-------------------------- MODULE MCServerChannel --------------------------
(***************************************************************************)
(* Servers for the channel of a device that gets id 1; its peer, VM 0, has *)
(* id 2, for which the first peer table has no entry.                      *)
(***************************************************************************)
EXTENDS ServerChannel

FdFor(p) == [val |-> p, fd |-> TRUE]
Word0(n) == [val |-> n, fd |-> FALSE]

Hello   == <<Word0(Version), Word0(1)>>
Memory  == <<FdFor(Shm)>>
Of(p)   == <<FdFor(p), FdFor(p)>>

PeerIds == {2}

\* The order of ivshmem-server, a peer that joins and one that leaves.
Usual == Hello \o Memory \o Of(2) \o Of(1) \o Of(0) \o <<Word0(2)>>

\* Peers before the shared memory, one with too many eventfds; messages that
\* name nothing, repeat the shared memory, or report the device itself gone.
Others ==
  { Hello \o Of(2) \o Memory \o Of(1) \o <<FdFor(3), FdFor(2), Word0(1), Word0(3)>>,
    Hello \o <<FdFor(2)>> \o Memory \o <<FdFor(1), FdFor(2), FdFor(1), FdFor(Shm), Word0(4), FdFor(4), Word0(Shm)>>,
    Hello \o <<FdFor(2), Word0(0)>> \o Memory \o Of(1),
    Hello \o <<Word0(Shm)>>, Hello \o <<FdFor(2), FdFor(4)>>, Hello \o Of(2) \o <<FdFor(2)>>,
    <<Word0(1)>>, <<FdFor(Version)>>, <<Word0(Version), Word0(4)>>, <<Word0(Version), FdFor(1)>> }

\* The device's own eventfds come before the shared memory.
OwnFirst == { Hello \o Of(1) \o Memory \o Of(2) }

\* An eventfd of a peer that has gone; the device's own eventfds before those of
\* the peer it announces itself to, and after that peer has gone.
Disorderly ==
  { Hello \o Memory \o <<FdFor(0), Word0(0), FdFor(0)>>,
    Hello \o Memory \o Of(1) \o Of(2),
    Hello \o Memory \o Of(2) \o <<FdFor(1), Word0(2), FdFor(1)>> }

ASSUME ServersOrderly ==
  /\ \A s \in {Usual} \cup Others : Orderly(s)
  /\ \A s \in OwnFirst \cup Disorderly : ~Orderly(s)

Servers == {Usual} \cup Others \cup OwnFirst \cup Disorderly

=============================================================================
