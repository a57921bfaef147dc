----------------------------- MODULE MCReactor ------------------------------
(* Small instances of Reactor for TLC.                                     *)
EXTENDS Reactor, TLC

CONSTANTS c1, c2, w1, w2

TwoConns    == {c1, c2}
OneWorker   == {w1}
TwoWorkers  == {w1, w2}

OneEach     == [c \in TwoConns |-> 1]
TwoAndOne   == [c \in TwoConns |-> IF c = c1 THEN 2 ELSE 1]

Talk        == {"subscribe", "send"}

(* Who stays, and who may go, and how.                                     *)
AllStay     == [c \in TwoConns |-> {}]
OneMayGo    == [c \in TwoConns |-> IF c = c1 THEN {"fin", "reset"} ELSE {}]
AllMayClose == [c \in TwoConns |-> {"fin"}]

(* Worker threads are only compared for equality.                          *)
SymmetryWorkers == Permutations(TwoWorkers)
=============================================================================
