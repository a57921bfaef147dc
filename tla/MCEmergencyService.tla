------------------------ MODULE MCEmergencyService ------------------------
(* Small instances of EmergencyService for TLC.                            *)
EXTENDS EmergencyService

CONSTANTS c1, c2, alice, bob, police

TwoClients == {c1, c2}
TwoUsers   == {alice, bob}
OneChannel == {police}
OnlyFirst  == {c1}

(* The first client comes and goes; the second tries either name, stays    *)
(* and reports.                                                            *)
Roles    == [c \in TwoClients |-> IF c = c1 THEN {"login", "join", "exit", "logout"}
                                            ELSE {"login", "join", "report"}]
Names    == [c \in TwoClients |-> IF c = c1 THEN {alice} ELSE {alice, bob}]
Commands == [c \in TwoClients |-> IF c = c1 THEN 4 ELSE 3]
=============================================================================
