----------------------------- MODULE ActorQueue -----------------------------
(***************************************************************************)
(* What the reactor relies on when it hands the reads of a connection to   *)
(* the worker pool: the tasks of one act (one connection's handler) run    *)
(* one at a time, each once, in the order they were submitted, while the   *)
(* tasks of different acts are independent.  The tasks of an act are       *)
(* numbered 1, 2, ... as they are submitted.                               *)
(*                                                                         *)
(* ActorThreadPool.tla models the code and is shown to implement this.     *)
(***************************************************************************)
EXTENDS Naturals

CONSTANT Act

VARIABLES
    accepted,  (* act -> number of tasks submitted                         *)
    started,   (* act -> number of tasks that have begun to run            *)
    running    (* acts one of whose tasks is running                       *)

vars == <<accepted, started, running>>

Init ==
    /\ accepted = [a \in Act |-> 0]
    /\ started = [a \in Act |-> 0]
    /\ running = {}

Submit(a) ==
    /\ accepted' = [accepted EXCEPT ![a] = @ + 1]
    /\ UNCHANGED <<started, running>>

Start(a) ==
    /\ a \notin running
    /\ started[a] < accepted[a]
    /\ started' = [started EXCEPT ![a] = @ + 1]
    /\ running' = running \cup {a}
    /\ UNCHANGED accepted

Finish(a) ==
    /\ a \in running
    /\ running' = running \ {a}
    /\ UNCHANGED <<accepted, started>>

Next == \E a \in Act : Submit(a) \/ Start(a) \/ Finish(a)

Spec == Init /\ [][Next]_vars
=============================================================================
