----------------------------- MODULE MCSmppClient -----------------------------
(* Small instances of SmppClient for TLC. Connections are numbered in the order in which they *)
(* are made, so there is no symmetry to use.                                                  *)
EXTENDS SmppClient
=============================================================================
