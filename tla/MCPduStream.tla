------------------------------ MODULE MCPduStream ------------------------------
(* A small instance of PduStream for TLC: a byte with eight values, names that fill a field     *)
(* exactly and names that exceed it, and messages around the largest that one octet can count. *)
EXTENDS PduStream

NamesMC == {<<1>>, <<2, 1>>}
Content(n) == [i \in 1 .. n |-> i % ByteSize]
MessagesMC == {Content(0), Content(ByteSize - 1), Content(ByteSize)}
StartSeqsMC == {WordSize - 1}
=============================================================================
