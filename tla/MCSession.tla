---------------------------- MODULE MCSession ----------------------------
\* Two tabs of a browser, two users.
EXTENDS Session, TLC

MCSymmetry == Permutations(Tab) \cup Permutations(Request) \cup Permutations(User)
==========================================================================
