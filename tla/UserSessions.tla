---------------------------- MODULE UserSessions ----------------------------
(***************************************************************************)
(* What the login table of the STOMP server promises: a user's first login *)
(* fixes the password, every later one needs it, and a user is logged in   *)
(* on at most one connection at a time, whose logout ends the session.     *)
(*                                                                         *)
(* LoginHandler.tla models the code; with one call at a time it implements *)
(* this specification.                                                     *)
(***************************************************************************)
CONSTANTS
    Conn,      (* connection ids                                           *)
    User,      (* user names                                               *)
    Password,  (* passwords                                                *)
    None       (* no password, no session                                  *)

VARIABLES
    password,  (* user -> its password, None before its first login        *)
    session    (* user -> the connection it is logged in on, and the       *)
               (* password that was given                                  *)

vars == <<password, session>>

Init ==
    /\ password = [u \in User |-> None]
    /\ session = [u \in User |-> None]

(* A connection has one session at most.                                   *)
Begin(c, u, p) ==
    /\ session[u] = None
    /\ \A v \in User : session[v] # None => session[v].conn # c
    /\ session' = [session EXCEPT ![u] = [conn |-> c, pass |-> p]]

Register(c, u, p) ==
    /\ password[u] = None
    /\ password' = [password EXCEPT ![u] = p]
    /\ Begin(c, u, p)

Login(c, u, p) ==
    /\ password[u] = p
    /\ Begin(c, u, p)
    /\ UNCHANGED password

Logout(c, u) ==
    /\ session[u] # None
    /\ session[u].conn = c
    /\ session' = [session EXCEPT ![u] = None]
    /\ UNCHANGED password

Next ==
    \E c \in Conn, u \in User :
        \/ \E p \in Password : Register(c, u, p) \/ Login(c, u, p)
        \/ Logout(c, u)

Spec == Init /\ [][Next]_vars
=============================================================================
