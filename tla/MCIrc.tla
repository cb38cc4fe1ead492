------------------------------- MODULE MCIrc -------------------------------
\* Irc with nicks that may be exchanged: the specification names none of them.
EXTENDS Irc, TLC

Symmetry == Permutations(Nicks)
=============================================================================
