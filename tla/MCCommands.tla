---------------------------- MODULE MCCommands ----------------------------
\* Two users: their topics may share a word, a room, both or nothing.
EXTENDS Commands, TLC

CONSTANTS u1, u2, w1, w2, r1, x1

MCTopic == {[user |-> u1, word |-> w1, room |-> r1],
            [user |-> u2, word |-> w1, room |-> NoRoom],
            [user |-> u2, word |-> w2, room |-> r1]}

\* A generation, both answers to the first candidate by its two users, one report.
MCCommand == {[kind |-> "generate"],
              [kind |-> "respond", id |-> 1, user |-> u1, to |-> "confirmed"],
              [kind |-> "respond", id |-> 1, user |-> u2, to |-> "dismissed"],
              [kind |-> "report", case |-> x1]}

MCContact == {{u1, u2}}

MCSymmetry == Permutations(Call) \cup Permutations(Key)
===========================================================================
