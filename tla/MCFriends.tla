----------------------------- MODULE MCFriends -----------------------------
\* Users and tasks are interchangeable; all properties checked are safety.
EXTENDS Friends, TLC

MCSymmetry == Permutations(User) \cup Permutations(Task)
=============================================================================
