------------------------- MODULE MCActorThreadPool -------------------------
(* Small instances of ActorThreadPool for TLC.                             *)
EXTENDS ActorThreadPool

CONSTANTS a1, a2, w1, w2

TwoActs    == {a1, a2}
TwoWorkers == {w1, w2}
=============================================================================
