---------------------------- MODULE LoginHandler ----------------------------
(***************************************************************************)
(* The table of users of the STOMP server (api/LoginHandler.java): two     *)
(* static HashMaps that every connection's thread uses without any         *)
(* synchronization.                                                        *)
(*                                                                         *)
(* Each access of a map is a step of its own, so that the calls of         *)
(* different connections interleave as they do in the code.  A HashMap     *)
(* used by several threads promises little: of puts (and removals) that    *)
(* overlap some may be lost, and a lookup made while another thread's put  *)
(* rebuilds the table may miss an entry that is there.  A thread whose pc  *)
(* is at a put or a removal is inside it; clash remembers who overlapped.  *)
(*                                                                         *)
(* get(user).setSecond(flag) is one step: if a put replaces the pair       *)
(* between the two calls, the outcome is that of the put coming second.    *)
(***************************************************************************)
EXTENDS Naturals

CONSTANTS
    Conn,      (* connection ids                                           *)
    User,      (* user names                                               *)
    Password,  (* passwords                                                *)
    None,      (* no entry in a map                                        *)
    MaxCalls   (* bound: calls one connection makes                        *)

ASSUME LoginAssumption ==
    /\ None \notin Conn /\ None \notin User /\ None \notin Password
    /\ None \notin [password : Password, connected : BOOLEAN]
    /\ None \notin [conn : Conn, pass : Password \cup {None}]

ASSUME LoginBoundAssumption == MaxCalls \in Nat

VARIABLES
    users,               (* user -> (password, isConnected)                *)
    clientIdToUsername,  (* connection -> user                             *)
    pc,                  (* what each connection's thread does             *)
    call,                (* arguments and locals of the call in progress   *)
    clash,               (* threads whose put or removal overlapped one    *)
    result,              (* what each connection's last call returned      *)
    alive,               (* connections that have not dropped              *)
    calls,               (* number of calls each connection has made       *)
    letIn,               (* connection -> user -> the password it was let  *)
                         (* in with, None again when it has logged out     *)
    inTurn               (* history: every call so far was made alone, by  *)
                         (* a client that logs in and out in turn          *)

made == <<calls, inTurn>>
vars == <<users, clientIdToUsername, pc, call, clash, result, alive, made, letIn>>

Label == {"idle", "is_new", "put_user", "put_client", "is_connected", "is_correct",
          "set_connected", "remove_client", "clear_connected"}

Entry == [password : Password, connected : BOOLEAN]

Result == {"none", "connected", "already", "wrong", "receipt", "thrown"}

NoArguments == [user |-> None, pass |-> None]

Init ==
    /\ users = [u \in User |-> None]
    /\ clientIdToUsername = [c \in Conn |-> None]
    /\ pc = [c \in Conn |-> "idle"]
    /\ call = [c \in Conn |-> NoArguments]
    /\ clash = {}
    /\ result = [c \in Conn |-> "none"]
    /\ alive = Conn
    /\ calls = [c \in Conn |-> 0]
    /\ letIn = [c \in Conn |-> [u \in User |-> None]]
    /\ inTurn = TRUE

-----------------------------------------------------------------------------
Goto(c, label) == pc' = [pc EXCEPT ![c] = label]

Return(c, value) ==
    /\ pc' = [pc EXCEPT ![c] = "idle"]
    /\ call' = [call EXCEPT ![c] = NoArguments]
    /\ result' = [result EXCEPT ![c] = value]

Quiet == \A c \in Conn : pc[c] = "idle"

(* The client of this repository logs out if, and only if, it is logged in *)
(* (utils.cpp:26, StompClient.cpp:72).                                      *)
ItsTurn(c, label) == Quiet /\ (label = "is_new" <=> clientIdToUsername[c] = None)

Call(c, label, arguments) ==
    /\ pc[c] = "idle"
    /\ c \in alive
    /\ calls[c] < MaxCalls
    /\ calls' = [calls EXCEPT ![c] = @ + 1]
    /\ inTurn' = (inTurn /\ ItsTurn(c, label))
    /\ call' = [call EXCEPT ![c] = arguments]

(* Threads inside an operation that changes the structure of a map.        *)
UsersWriters   == {c \in Conn : pc[c] = "put_user"}
ClientsWriters == {c \in Conn : \/ pc[c] = "put_client"
                                \/ pc[c] = "remove_client" /\ clientIdToUsername[c] # None}

(* Thread c goes into such an operation, the others being in one.          *)
Overlap(c, writers) == clash' = IF writers \ {c} = {} THEN clash ELSE clash \cup writers \cup {c}

(* The change is made, or it may be lost.                                  *)
Effect(c, change, lost) ==
    /\ change \/ (c \in clash /\ lost)
    /\ clash' = clash \ {c}

Found(c)   == call[c].user # None /\ users[call[c].user] # None
MayMiss(c) == UsersWriters \ {c} # {}

-----------------------------------------------------------------------------
(* login(clientId, version, host, user, pass).                             *)

CallLogin(c, u, p) ==
    /\ Call(c, "is_new", [user |-> u, pass |-> p])
    /\ Goto(c, "is_new")
    /\ UNCHANGED <<users, clientIdToUsername, clash, result, alive, letIn>>

IsNewUser(c) ==
    /\ pc[c] = "is_new"
    /\ ~Found(c) \/ MayMiss(c)
    /\ Goto(c, "put_user")
    /\ Overlap(c, UsersWriters)
    /\ UNCHANGED <<users, clientIdToUsername, call, result, alive, made, letIn>>

IsKnownUser(c) ==
    /\ pc[c] = "is_new"
    /\ Found(c)
    /\ Goto(c, "is_connected")
    /\ UNCHANGED <<users, clientIdToUsername, call, clash, result, alive, made, letIn>>

(* users.put(user, (pass, true)), then into clientIdToUsername.put.        *)
PutUser(c) ==
    LET new == [password |-> call[c].pass, connected |-> TRUE]
    IN  /\ pc[c] = "put_user"
        /\ \/ users' = [users EXCEPT ![call[c].user] = new]
           \/ c \in clash /\ UNCHANGED users
        /\ letIn' = [letIn EXCEPT ![c][call[c].user] = call[c].pass]
        /\ Goto(c, "put_client")
        /\ clash' = (clash \ {c}) \cup
                    (IF ClientsWriters = {} THEN {} ELSE ClientsWriters \cup {c})
        /\ UNCHANGED <<clientIdToUsername, call, result, alive, made>>

(* Mistake: the connection is not recorded.                                *)
PutClientForgets(c) ==
    /\ pc[c] = "put_client"
    /\ Return(c, "connected")
    /\ UNCHANGED <<users, clientIdToUsername, clash, alive, made, letIn>>

PutClient(c) ==
    /\ pc[c] = "put_client"
    /\ Effect(c, clientIdToUsername' = [clientIdToUsername EXCEPT ![c] = call[c].user],
                 UNCHANGED clientIdToUsername)
    /\ Return(c, "connected")
    /\ UNCHANGED <<users, alive, made, letIn>>

IsConnected(c) ==
    /\ pc[c] = "is_connected"
    /\ Found(c)
    /\ IF users[call[c].user].connected
       THEN Return(c, "already")
       ELSE Goto(c, "is_correct") /\ UNCHANGED <<call, result>>
    /\ UNCHANGED <<users, clientIdToUsername, clash, alive, made, letIn>>

(* Mistake: any password will do.                                          *)
AnyLoginInfo(c) ==
    /\ pc[c] = "is_correct"
    /\ Found(c)
    /\ Goto(c, "set_connected")
    /\ UNCHANGED <<users, clientIdToUsername, call, clash, result, alive, made, letIn>>

IsCorrectLoginInfo(c) ==
    /\ pc[c] = "is_correct"
    /\ Found(c)
    /\ IF users[call[c].user].password = call[c].pass
       THEN Goto(c, "set_connected") /\ UNCHANGED <<call, result>>
       ELSE Return(c, "wrong")
    /\ UNCHANGED <<users, clientIdToUsername, clash, alive, made, letIn>>

SetConnected(c) ==
    /\ pc[c] = "set_connected"
    /\ Found(c)
    /\ users' = [users EXCEPT ![call[c].user].connected = TRUE]
    /\ letIn' = [letIn EXCEPT ![c][call[c].user] = call[c].pass]
    /\ Goto(c, "put_client")
    /\ Overlap(c, ClientsWriters)
    /\ UNCHANGED <<clientIdToUsername, call, result, alive, made>>

-----------------------------------------------------------------------------
(* logout(connectionId, receiptId).                                        *)

CallLogout(c) ==
    /\ Call(c, "remove_client", NoArguments)
    /\ Goto(c, "remove_client")
    /\ IF clientIdToUsername[c] = None THEN UNCHANGED clash ELSE Overlap(c, ClientsWriters)
    /\ UNCHANGED <<users, clientIdToUsername, result, alive, letIn>>

RemoveClient(c) ==
    /\ pc[c] = "remove_client"
    /\ call' = [call EXCEPT ![c].user = clientIdToUsername[c]]
    /\ Effect(c, clientIdToUsername' = [clientIdToUsername EXCEPT ![c] = None],
                 UNCHANGED clientIdToUsername)
    /\ Goto(c, "clear_connected")
    /\ UNCHANGED <<users, result, alive, made, letIn>>

(* Mistake: the flag stays up.                                             *)
ClearForgets(c) ==
    /\ pc[c] = "clear_connected"
    /\ Found(c)
    /\ letIn' = [letIn EXCEPT ![c][call[c].user] = None]
    /\ Return(c, "receipt")
    /\ UNCHANGED <<users, clientIdToUsername, clash, alive, made>>

ClearConnected(c) ==
    LET u == call[c].user
    IN  /\ pc[c] = "clear_connected"
        /\ Found(c)
        /\ users' = [users EXCEPT ![u].connected = FALSE]
        /\ letIn' = [letIn EXCEPT ![c][u] = None]
        /\ Return(c, "receipt")
        /\ UNCHANGED <<clientIdToUsername, clash, alive, made>>

(* users.get(user) is null: the user is missing, or not seen.              *)
NullUser(c) ==
    /\ pc[c] \in {"is_connected", "is_correct", "set_connected", "clear_connected"}
    /\ ~Found(c) \/ MayMiss(c)
    /\ Return(c, "thrown")
    /\ UNCHANGED <<users, clientIdToUsername, clash, alive, made, letIn>>

-----------------------------------------------------------------------------
(* The client goes away without DISCONNECT: the handlers see the end of    *)
(* the stream (or an exception), and none of them logs the user out.       *)
Drop(c) ==
    /\ pc[c] = "idle"
    /\ c \in alive
    /\ alive' = alive \ {c}
    /\ UNCHANGED <<users, clientIdToUsername, pc, call, clash, result, made, letIn>>

Step(c) ==
    \/ IsNewUser(c) \/ IsKnownUser(c) \/ PutUser(c) \/ PutClient(c)
    \/ IsConnected(c) \/ IsCorrectLoginInfo(c) \/ SetConnected(c)
    \/ RemoveClient(c) \/ ClearConnected(c) \/ NullUser(c)

AnyCall(c) ==
    \/ \E u \in User, p \in Password : CallLogin(c, u, p)
    \/ CallLogout(c)

Next == \E c \in Conn : AnyCall(c) \/ Step(c) \/ Drop(c)

Spec == Init /\ [][Next]_vars

-----------------------------------------------------------------------------
TypeOK ==
    /\ users \in [User -> Entry \cup {None}]
    /\ clientIdToUsername \in [Conn -> User \cup {None}]
    /\ pc \in [Conn -> Label]
    /\ call \in [Conn -> [user : User \cup {None}, pass : Password \cup {None}]]
    /\ clash \in SUBSET Conn
    /\ result \in [Conn -> Result]
    /\ alive \in SUBSET Conn
    /\ calls \in [Conn -> 0..MaxCalls]
    /\ letIn \in [Conn -> [User -> Password \cup {None}]]
    /\ inTurn \in BOOLEAN

LoggedIn(u) == users[u] # None /\ users[u].connected

(* Whatever the races do to the maps, they lock nobody out: a user marked  *)
(* as connected was let in on a connection that has not logged the user    *)
(* out since (LoginHandler.java:15, 28 and 62).                            *)
LockedOutByHolder == \A u \in User : LoggedIn(u) => \E c \in Conn : letIn[c][u] # None

(* "User is already logged in" (LoginHandler.java:22-23): while a user is  *)
(* logged in on one connection, no other connection is let in as that user.*)
OneSession ==
    \A u \in User, c, d \in Conn : letIn[c][u] # None /\ letIn[d][u] # None => c = d

(* One call at a time: whoever was answered CONNECTED is recorded as a     *)
(* user who is marked as connected, and nobody else is recorded as that    *)
(* user; whoever was refused or logged out is not recorded.                *)
AnswerMatches ==
    inTurn /\ Quiet => \A c \in Conn :
        IF result[c] = "connected"
        THEN /\ clientIdToUsername[c] # None
             /\ LoggedIn(clientIdToUsername[c])
             /\ \A d \in Conn : clientIdToUsername[d] = clientIdToUsername[c] => d = c
        ELSE clientIdToUsername[c] = None

(* One call at a time, the table keeps the promises of UserSessions.       *)
HasSession(c, u) ==
    \/ clientIdToUsername[c] = u
    \/ pc[c] \in {"put_client", "clear_connected"} /\ call[c].user = u

Nobody == [conn |-> None, pass |-> None]

SessionOf(u) ==
    IF ~LoggedIn(u) THEN None
    ELSE IF \A c \in Conn : ~HasSession(c, u) THEN Nobody
    ELSE LET c == CHOOSE c \in Conn : HasSession(c, u) IN [conn |-> c, pass |-> letIn[c][u]]

Sessions == INSTANCE UserSessions WITH
    password <- [u \in User |-> IF users[u] = None THEN None ELSE users[u].password],
    session <- [u \in User |-> SessionOf(u)]

ImplementsSessions == Sessions!Init /\ [][inTurn' => Sessions!Next]_<<Sessions!vars, inTurn>>

-----------------------------------------------------------------------------
(* The inductive invariant: a login in progress has the arguments it was   *)
(* called with.                                                            *)
LoggingIn == {"is_new", "put_user", "put_client", "is_connected", "is_correct", "set_connected"}

ArgumentsGood ==
    \A c \in Conn : pc[c] \in LoggingIn => call[c].user \in User /\ call[c].pass \in Password

LoginInv == TypeOK /\ ArgumentsGood /\ LockedOutByHolder

(* One call at a time: the call in progress has found what it goes by, ... *)
OneAtATime == \A c, d \in Conn : pc[c] # "idle" /\ pc[d] # "idle" => c = d

RecordFits(c) ==
    /\ pc[c] = "idle" => (result[c] = "connected" <=> clientIdToUsername[c] # None)
    /\ pc[c] \in LoggingIn \cup {"clear_connected"} => clientIdToUsername[c] = None
    /\ pc[c] = "remove_client" => clientIdToUsername[c] # None

LookupsFit(c) ==
    LET u == call[c].user
    IN  /\ pc[c] = "put_user" => users[u] = None
        /\ pc[c] \in {"is_connected", "is_correct", "set_connected", "clear_connected"} => Found(c)
        /\ pc[c] \in {"is_correct", "set_connected"} => ~users[u].connected
        /\ pc[c] = "set_connected" => users[u].password = call[c].pass

(* ... and whoever is logged in has one connection that holds the session. *)
OneHolder ==
    /\ \A u \in User : LoggedIn(u) <=> \E c \in Conn : HasSession(c, u)
    /\ \A u \in User, c, d \in Conn : HasSession(c, u) /\ HasSession(d, u) => c = d

TableFits ==
    /\ OneAtATime
    /\ clash = {}
    /\ \A c \in Conn : RecordFits(c) /\ LookupsFit(c)
    /\ OneHolder

TurnInv == inTurn => TableFits
=============================================================================
