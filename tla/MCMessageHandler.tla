--------------------------- MODULE MCMessageHandler ---------------------------
(* Small instances of MessageHandler for TLC. *)
EXTENDS MessageHandler, TLC

\* Messages are interchangeable, and so are callers.
HandlerSymmetry == Permutations(Msgs) \cup Permutations(Callers)
=============================================================================
