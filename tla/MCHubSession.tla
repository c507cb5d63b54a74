---------------------------- MODULE MCHubSession ----------------------------
\* Two users on two instances: alice with two connections (two tabs, or an old
\* connection that ends while its successor opens), bob with one.
EXTENDS HubSession

CONSTANTS a1, a2, b1, alice, bob, i1, i2

MCConn     == {a1, a2, b1}
MCUser     == {alice, bob}
MCInstance == {i1, i2}
MCOwner    == [c \in MCConn |-> IF c = b1 THEN bob ELSE alice]
MCHost     == [c \in MCConn |-> IF c = a1 THEN i1 ELSE i2]
=============================================================================
