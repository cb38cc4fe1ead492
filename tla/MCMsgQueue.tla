------------------------------ MODULE MCMsgQueue ------------------------------
(* People, and accounts of one kind, can change places.                        *)
EXTENDS MsgQueue, TLC
Symmetry == Permutations(People) \cup Permutations(Answered)
=============================================================================
