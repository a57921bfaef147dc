--------------------------- MODULE MCLoginHandler ---------------------------
(* Small instances of LoginHandler for TLC.                                *)
EXTENDS LoginHandler, TLC

CONSTANTS c1, c2, alice, bob, p1, p2

TwoConns     == {c1, c2}
TwoUsers     == {alice, bob}
TwoPasswords == {p1, p2}

(* Connections, users and passwords are only compared for equality.        *)
Symmetry == Permutations(TwoConns) \cup Permutations(TwoUsers) \cup Permutations(TwoPasswords)
=============================================================================
