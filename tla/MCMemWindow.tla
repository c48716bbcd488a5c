---------------------------- MODULE MCMemWindow ----------------------------
(***************************************************************************)
(* Windows of VM 1 into the RAM of VM 0: two buffers that differ in both   *)
(* words of their address and in size, one smaller than the BAR.  BAR 2 is *)
(* opened, changed and closed; BAR 3, to which the two guests gave         *)
(* different addresses, is there to be mistaken for it.                    *)
(***************************************************************************)
EXTENDS MemWindow

MCBars == {2, 3}
MCAddr == [v \in VM |-> [b \in MCBars |-> IF b = 2 THEN 3 ELSE 6 + v]]

Small == [base |-> 5, size |-> 1]
Large == [base |-> 38, size |-> 2]

Vm0(S) == [v \in VM |-> IF v = 0 THEN S ELSE {}]
Vm1(S) == [v \in VM |-> IF v = 1 THEN S ELSE {}]

Remaps   == Vm0({<<2, Small>>, <<2, Large>>, <<2, Closed>>, <<3, Large>>})
OpenOnce == Vm0({<<2, Large>>})
Closes   == Vm0({<<2, Small>>, <<2, Closed>>})
Edges    == Vm1({<<2, 1>>, <<2, 2>>})
EdgesOfTwo == Vm1({<<2, 1>>, <<2, 2>>, <<3, 1>>})
OneLimit == Vm1({[bar |-> 2, field |-> "limit", val |-> 5]})
Nothing  == Vm1({})
Nobody   == {}
Both     == VM

=============================================================================
