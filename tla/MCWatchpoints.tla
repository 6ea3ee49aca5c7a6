---------------------------- MODULE MCWatchpoints ----------------------------
(* Two threads; watchpoints of two sizes and accesses, one of them at an odd *)
(* address, and one of a size no processor has.                              *)
EXTENDS Watchpoints

TwoThreads == {1, 2}
ByteRead == [address |-> 13, access |-> {"read"}, bytes |-> 1]
WordWritten == [address |-> 8, access |-> {"write"}, bytes |-> 8]
ThreeBytes == [address |-> 8, access |-> {"write"}, bytes |-> 3]
Kinds == {ByteRead, WordWritten, ThreeBytes}
=============================================================================
