--------------------------- MODULE MCInterconnect ---------------------------
(***************************************************************************)
(* The interconnect with VM 1 killed and started again at any moment.      *)
(***************************************************************************)
EXTENDS Interconnect

Second == {1}

=============================================================================
