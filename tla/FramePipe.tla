----------------------------- MODULE FramePipe ------------------------------
(***************************************************************************)
(* What a connection promises in one direction: the items put in at one    *)
(* end are handed over at the other in the same order, each at most once,  *)
(* none skipped.  A pipe may stop handing over at any point (the           *)
(* connection is lost), hence no fairness.                                 *)
(*                                                                         *)
(* Reactor.tla and Wire.tla model the two servers' code and are shown to   *)
(* implement this twice each: for the frames of a client, and for the      *)
(* messages sent to a client.                                              *)
(***************************************************************************)
EXTENDS Naturals, Sequences

CONSTANTS Conn, Item

VARIABLES
    given,  (* connection -> items put in                                  *)
    taken   (* connection -> items handed over                             *)

vars == <<given, taken>>

Init ==
    /\ given = [c \in Conn |-> <<>>]
    /\ taken = [c \in Conn |-> <<>>]

Put(c, x) ==
    /\ given' = [given EXCEPT ![c] = Append(@, x)]
    /\ UNCHANGED taken

Take(c) ==
    /\ Len(taken[c]) < Len(given[c])
    /\ taken' = [taken EXCEPT ![c] = Append(@, given[c][Len(@) + 1])]
    /\ UNCHANGED given

Next == \E c \in Conn : Take(c) \/ \E x \in Item : Put(c, x)

Spec == Init /\ [][Next]_vars
=============================================================================
