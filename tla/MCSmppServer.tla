---------------------------- MODULE MCSmppServer ----------------------------
(* Small instances of SmppServer for TLC. *)
EXTENDS SmppServer, TLC

\* Connections are interchangeable: sound for the runs that check safety only.
ConnSymmetry == Permutations(Conns)

=============================================================================
