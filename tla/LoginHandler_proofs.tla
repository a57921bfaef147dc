----------------------- MODULE LoginHandler_proofs -----------------------
(***************************************************************************)
(* Proofs about the login table: whatever the races on its HashMaps do,    *)
(* for any number of connections, users, passwords and calls.              *)
(***************************************************************************)
EXTENDS LoginHandler, TLAPS

USE DEF Label, LoggingIn, NoArguments, Result, Entry, made

LEMMA LoginInit == Init => LoginInv
  BY LoginAssumption, LoginBoundAssumption
  DEF Init, LoginInv, TypeOK, ArgumentsGood, LockedOutByHolder, LoggedIn

(* A call that returns and changes nothing of the table.                   *)
LEMMA ReturnTypes ==
    ASSUME TypeOK, NEW c \in Conn, NEW value \in Result, Return(c, value),
           UNCHANGED <<users, clientIdToUsername, clash, alive, made, letIn>>
    PROVE  TypeOK'
  BY DEF TypeOK, Return

(* The table and what is known of its sessions stay as they are.           *)
LEMMA SameSessions ==
    ASSUME LockedOutByHolder, UNCHANGED <<users, letIn>>
    PROVE  LockedOutByHolder'
  BY DEF LockedOutByHolder, LoggedIn

(* Somebody begins a session of user v: nobody else's ends.                *)
LEMMA SessionBegins ==
    ASSUME LoginInv, NEW c \in Conn, NEW v \in User, NEW p \in Password,
           letIn' = [letIn EXCEPT ![c][v] = p],
           \A u \in User \ {v} : users'[u] = users[u]
    PROVE  LockedOutByHolder'
<1>1. p # None
  BY LoginAssumption
<1>2. SUFFICES ASSUME NEW u \in User, LoggedIn(u)'
               PROVE  \E d \in Conn : letIn'[d][u] # None
  BY DEF LockedOutByHolder
<1>3. CASE u = v
  BY <1>1, <1>3 DEF LoginInv, TypeOK
<1>4. CASE u # v
  <2>1. LoggedIn(u)
    BY <1>2, <1>4 DEF LoggedIn
  <2>2. PICK d \in Conn : letIn[d][u] # None
    BY <2>1 DEF LoginInv, LockedOutByHolder
  <2>3. letIn'[d][u] = letIn[d][u]
    BY <1>4 DEF LoginInv, TypeOK
  <2>4. QED
    BY <2>2, <2>3
<1>5. QED
  BY <1>3, <1>4

-----------------------------------------------------------------------------
(* The calls.                                                              *)

LEMMA CallLoginKeeps ==
    ASSUME LoginInv, NEW c \in Conn, NEW u \in User, NEW p \in Password, CallLogin(c, u, p)
    PROVE  LoginInv'
<1> USE DEF CallLogin, Call, Goto
<1>1. TypeOK'
  BY LoginBoundAssumption DEF LoginInv, TypeOK, ItsTurn, Quiet
<1>2. ArgumentsGood'
  BY DEF LoginInv, TypeOK, ArgumentsGood
<1>3. LockedOutByHolder'
  BY SameSessions DEF LoginInv
<1>4. QED
  BY <1>1, <1>2, <1>3 DEF LoginInv

LEMMA CallLogoutKeeps ==
    ASSUME LoginInv, NEW c \in Conn, CallLogout(c)
    PROVE  LoginInv'
<1> USE DEF CallLogout, Call, Goto, Overlap
<1>1. TypeOK'
  BY LoginBoundAssumption DEF LoginInv, TypeOK, ItsTurn, Quiet, ClientsWriters
<1>2. ArgumentsGood'
  BY DEF LoginInv, TypeOK, ArgumentsGood
<1>3. LockedOutByHolder'
  BY SameSessions DEF LoginInv
<1>4. QED
  BY <1>1, <1>2, <1>3 DEF LoginInv

-----------------------------------------------------------------------------
(* The steps that begin or end no session.                                 *)

LEMMA LookupsKeep ==
    ASSUME LoginInv, NEW c \in Conn,
           \/ IsNewUser(c) \/ IsKnownUser(c)
           \/ IsConnected(c) \/ IsCorrectLoginInfo(c) \/ NullUser(c)
    PROVE  LoginInv'
<1> USE DEF IsNewUser, IsKnownUser, IsConnected, IsCorrectLoginInfo, NullUser, Return, Goto, Overlap
<1>1. TypeOK'
  <2>1. CASE IsNewUser(c)
    BY <2>1 DEF LoginInv, TypeOK, UsersWriters
  <2>2. CASE IsKnownUser(c)
    BY <2>2 DEF LoginInv, TypeOK
  <2>3. CASE IsConnected(c)
    <3>1. CASE users[call[c].user].connected
      BY <2>3, <3>1, ReturnTypes DEF LoginInv
    <3>2. CASE ~(users[call[c].user].connected)
      BY <2>3, <3>2 DEF LoginInv, TypeOK
    <3>3. QED
      BY <3>1, <3>2
  <2>4. CASE IsCorrectLoginInfo(c)
    <3>1. CASE users[call[c].user].password = call[c].pass
      BY <2>4, <3>1 DEF LoginInv, TypeOK
    <3>2. CASE ~(users[call[c].user].password = call[c].pass)
      BY <2>4, <3>2, ReturnTypes DEF LoginInv
    <3>3. QED
      BY <3>1, <3>2
  <2>5. CASE NullUser(c)
    BY <2>5 DEF LoginInv, TypeOK
  <2>6. QED
    BY <2>1, <2>2, <2>3, <2>4, <2>5
<1>2. ArgumentsGood'
  BY DEF LoginInv, TypeOK, ArgumentsGood
<1>3. LockedOutByHolder'
  BY SameSessions DEF LoginInv
<1>4. QED
  BY <1>1, <1>2, <1>3 DEF LoginInv

LEMMA PutClientKeeps ==
    ASSUME LoginInv, NEW c \in Conn, PutClient(c)
    PROVE  LoginInv'
<1> USE DEF PutClient, Return, Effect
<1>1. TypeOK'
  BY DEF LoginInv, TypeOK
<1>2. ArgumentsGood'
  BY DEF LoginInv, TypeOK, ArgumentsGood
<1>3. LockedOutByHolder'
  BY SameSessions DEF LoginInv
<1>4. QED
  BY <1>1, <1>2, <1>3 DEF LoginInv

LEMMA RemoveClientKeeps ==
    ASSUME LoginInv, NEW c \in Conn, RemoveClient(c)
    PROVE  LoginInv'
<1> USE DEF RemoveClient, Effect, Goto
<1>1. TypeOK'
  BY ZenonT(60) DEF LoginInv, TypeOK
<1>2. ArgumentsGood'
  BY DEF LoginInv, TypeOK, ArgumentsGood
<1>3. LockedOutByHolder'
  BY SameSessions DEF LoginInv
<1>4. QED
  BY <1>1, <1>2, <1>3 DEF LoginInv

LEMMA DropKeeps ==
    ASSUME LoginInv, NEW c \in Conn, Drop(c)
    PROVE  LoginInv'
<1> USE DEF Drop
<1>1. TypeOK'
  BY DEF LoginInv, TypeOK
<1>2. ArgumentsGood'
  BY DEF LoginInv, ArgumentsGood
<1>3. LockedOutByHolder'
  BY SameSessions DEF LoginInv
<1>4. QED
  BY <1>1, <1>2, <1>3 DEF LoginInv

-----------------------------------------------------------------------------
(* The steps that begin or end a session.                                  *)

LEMMA PutUserKeeps ==
    ASSUME LoginInv, NEW c \in Conn, PutUser(c)
    PROVE  LoginInv'
<1> USE DEF PutUser, Goto
<1>1. call[c].user \in User /\ call[c].pass \in Password
  BY DEF LoginInv, ArgumentsGood
<1>2. TypeOK'
  <2>1. users' \in [User -> Entry \cup {None}]
    <3>1. [password |-> call[c].pass, connected |-> TRUE] \in Entry
      BY <1>1
    <3>2. QED
      BY <1>1, <3>1 DEF LoginInv, TypeOK
  <2>2. letIn' \in [Conn -> [User -> Password \cup {None}]]
    BY <1>1 DEF LoginInv, TypeOK
  <2>3. clash' \in SUBSET Conn
    BY DEF LoginInv, TypeOK, ClientsWriters
  <2>4. QED
    BY <2>1, <2>2, <2>3 DEF LoginInv, TypeOK
<1>3. ArgumentsGood'
  BY DEF LoginInv, TypeOK, ArgumentsGood
<1>4. LockedOutByHolder'
  BY <1>1, SessionBegins DEF LoginInv, TypeOK
<1>5. QED
  BY <1>2, <1>3, <1>4 DEF LoginInv

LEMMA SetConnectedKeeps ==
    ASSUME LoginInv, NEW c \in Conn, SetConnected(c)
    PROVE  LoginInv'
<1> USE DEF SetConnected, Goto, Overlap, Found
<1>1. call[c].user \in User /\ call[c].pass \in Password
  BY DEF LoginInv, ArgumentsGood
<1>2. users[call[c].user] \in Entry
  BY <1>1 DEF LoginInv, TypeOK
<1>3. TypeOK'
  <2>1. users' \in [User -> Entry \cup {None}]
    BY <1>1, <1>2 DEF LoginInv, TypeOK
  <2>2. letIn' \in [Conn -> [User -> Password \cup {None}]]
    BY <1>1 DEF LoginInv, TypeOK
  <2>3. clash' \in SUBSET Conn
    BY DEF LoginInv, TypeOK, ClientsWriters
  <2>4. QED
    BY <2>1, <2>2, <2>3 DEF LoginInv, TypeOK
<1>4. ArgumentsGood'
  BY DEF LoginInv, TypeOK, ArgumentsGood
<1>5. LockedOutByHolder'
  BY <1>1, SessionBegins DEF LoginInv, TypeOK
<1>6. QED
  BY <1>3, <1>4, <1>5 DEF LoginInv

LEMMA ClearConnectedKeeps ==
    ASSUME LoginInv, NEW c \in Conn, ClearConnected(c)
    PROVE  LoginInv'
<1> DEFINE v == call[c].user
<1> USE DEF ClearConnected, Return, Found
<1>1. v \in User /\ users[v] \in Entry
  BY DEF LoginInv, TypeOK
<1>2. TypeOK'
  <2>1. users' \in [User -> Entry \cup {None}]
    BY <1>1 DEF LoginInv, TypeOK
  <2>2. letIn' \in [Conn -> [User -> Password \cup {None}]]
    BY <1>1 DEF LoginInv, TypeOK
  <2>3. QED
    BY <2>1, <2>2 DEF LoginInv, TypeOK
<1>3. ArgumentsGood'
  BY DEF LoginInv, TypeOK, ArgumentsGood
<1>4. LockedOutByHolder'
  <2>1. SUFFICES ASSUME NEW u \in User, LoggedIn(u)'
                 PROVE  \E d \in Conn : letIn'[d][u] # None
    BY DEF LockedOutByHolder
  <2>2. u # v
    BY <1>1, <2>1 DEF LoginInv, TypeOK, LoggedIn
  <2>3. LoggedIn(u)
    BY <1>1, <2>1, <2>2 DEF LoginInv, TypeOK, LoggedIn
  <2>4. PICK d \in Conn : letIn[d][u] # None
    BY <2>3 DEF LoginInv, LockedOutByHolder
  <2>5. letIn'[d][u] = letIn[d][u]
    BY <1>1, <2>2 DEF LoginInv, TypeOK
  <2>6. QED
    BY <2>4, <2>5
<1>5. QED
  BY <1>2, <1>3, <1>4 DEF LoginInv

-----------------------------------------------------------------------------
LEMMA LoginStep == LoginInv /\ [Next]_vars => LoginInv'
<1>1. SUFFICES ASSUME LoginInv, Next PROVE LoginInv'
  BY DEF LoginInv, TypeOK, ArgumentsGood, LockedOutByHolder, LoggedIn, vars
<1>2. PICK c \in Conn : AnyCall(c) \/ Step(c) \/ Drop(c)
  BY <1>1 DEF Next
<1>3. CASE AnyCall(c)
  BY <1>1, <1>3, CallLoginKeeps, CallLogoutKeeps DEF AnyCall
<1>4. CASE Step(c)
  BY <1>1, <1>4, LookupsKeep, PutUserKeeps, PutClientKeeps, SetConnectedKeeps,
     RemoveClientKeeps, ClearConnectedKeeps DEF Step
<1>5. CASE Drop(c)
  BY <1>1, <1>5, DropKeeps
<1>6. QED
  BY <1>2, <1>3, <1>4, <1>5

LEMMA LoginInvariant == Spec => []LoginInv
  BY LoginInit, LoginStep, PTL DEF Spec

(* The login table is well typed, however its calls interleave.            *)
THEOREM LoginTypes == Spec => []TypeOK
<1>1. LoginInv => TypeOK
  BY DEF LoginInv
<1>2. QED
  BY <1>1, LoginInvariant, PTL

(* Races alone lock nobody out: behind every user marked as connected      *)
(* (LoginHandler.java:15, 28) is a connection that was let in as that user *)
(* and has not logged it out since (62), whatever updates the HashMaps     *)
(* lose.                                                                   *)
THEOREM NobodyLockedOutByRaces == Spec => []LockedOutByHolder
<1>1. LoginInv => LockedOutByHolder
  BY DEF LoginInv
<1>2. QED
  BY <1>1, LoginInvariant, PTL

-----------------------------------------------------------------------------
(* One call at a time: the table keeps the promises of UserSessions.       *)

LEMMA TurnInit == Init => TableFits /\ Sessions!Init
<1> SUFFICES ASSUME Init PROVE TableFits /\ Sessions!Init
  OBVIOUS
<1> USE DEF Init
<1>1. \A u \in User : ~LoggedIn(u)
  BY DEF LoggedIn
<1>2. \A c \in Conn, u \in User : ~HasSession(c, u)
  BY LoginAssumption DEF HasSession
<1>3. TableFits
  BY <1>1, <1>2 DEF TableFits, OneAtATime, RecordFits, LookupsFit, OneHolder
<1>4. Sessions!Init
  <2>1. \A u \in User : SessionOf(u) = None
    BY <1>1 DEF SessionOf
  <2>2. \A u \in User : users[u] = None
    OBVIOUS
  <2>3. QED
    BY <2>1, <2>2 DEF Sessions!Init
<1>5. QED
  BY <1>3, <1>4

(* The session of a user is that of the one connection that holds it.      *)
LEMMA SessionHeld ==
    ASSUME NEW u \in User, NEW c \in Conn, LoggedIn(u), HasSession(c, u),
           \A d \in Conn : HasSession(d, u) => d = c
    PROVE  SessionOf(u) = [conn |-> c, pass |-> letIn[c][u]]
  BY DEF SessionOf

LEMMA SessionHeldNext ==
    ASSUME NEW u \in User, NEW c \in Conn, LoggedIn(u)', HasSession(c, u)',
           \A d \in Conn : HasSession(d, u)' => d = c
    PROVE  SessionOf(u)' = [conn |-> c, pass |-> letIn'[c][u]]
  BY DEF SessionOf

(* A user whose flag, holder and password stay has the same session.       *)
LEMMA SessionKept ==
    ASSUME TableFits, NEW u \in User, LoggedIn(u)' <=> LoggedIn(u),
           \A d \in Conn : HasSession(d, u)' <=> HasSession(d, u),
           \A d \in Conn : letIn'[d][u] = letIn[d][u]
    PROVE  SessionOf(u)' = SessionOf(u)
<1>1. CASE ~LoggedIn(u)
  BY <1>1 DEF SessionOf
<1>2. CASE LoggedIn(u)
  <2>1. PICK c \in Conn : HasSession(c, u) /\ \A d \in Conn : HasSession(d, u) => d = c
    BY <1>2 DEF TableFits, OneHolder
  <2>2. SessionOf(u) = [conn |-> c, pass |-> letIn[c][u]]
    BY <1>2, <2>1, SessionHeld
  <2>3. SessionOf(u)' = [conn |-> c, pass |-> letIn'[c][u]]
    BY <1>2, <2>1, SessionHeldNext
  <2>4. QED
    BY <2>2, <2>3
<1>3. QED
  BY <1>1, <1>2

(* Every thread but that of c stays where it is, outside of any call.      *)
OthersRest(c) ==
    \A d \in Conn \ {c} :
        /\ pc[d] = "idle" /\ pc'[d] = "idle"
        /\ result'[d] = result[d]
        /\ clientIdToUsername'[d] = clientIdToUsername[d]
        /\ call'[d] = call[d]

LEMMA AloneInCall ==
    ASSUME TableFits, NEW c \in Conn, pc[c] # "idle"
    PROVE  /\ \A d \in Conn \ {c} : pc[d] = "idle"
           /\ UsersWriters \ {c} = {}
           /\ ClientsWriters \ {c} = {}
           /\ ~MayMiss(c)
<1>1. \A d \in Conn \ {c} : pc[d] = "idle"
  BY DEF TableFits, OneAtATime
<1>2. QED
  BY <1>1 DEF UsersWriters, ClientsWriters, MayMiss

LEMMA CallsFit ==
    ASSUME TableFits, NEW c \in Conn, OthersRest(c), RecordFits(c)', LookupsFit(c)'
    PROVE  OneAtATime' /\ \A d \in Conn : RecordFits(d)' /\ LookupsFit(d)'
<1>1. OneAtATime'
  BY DEF OthersRest, OneAtATime
<1>2. SUFFICES ASSUME NEW d \in Conn \ {c} PROVE RecordFits(d)' /\ LookupsFit(d)'
  BY <1>1
<1>3. RecordFits(d) /\ pc[d] = "idle" /\ pc'[d] = "idle"
  BY DEF TableFits, OthersRest
<1>4. RecordFits(d)'
  BY <1>3 DEF RecordFits, OthersRest
<1>5. LookupsFit(d)'
  BY <1>3 DEF LookupsFit
<1>6. QED
  BY <1>4, <1>5

(* A step that begins and ends no session.                                 *)
LEMMA SessionsStay ==
    ASSUME LoginInv, TableFits, NEW c \in Conn, OthersRest(c), RecordFits(c)', LookupsFit(c)',
           clash' = {}, UNCHANGED <<users, letIn>>,
           \A u \in User : HasSession(c, u)' <=> HasSession(c, u)
    PROVE  TableFits' /\ UNCHANGED Sessions!vars
<1>1. \A d \in Conn, u \in User : HasSession(d, u)' <=> HasSession(d, u)
  <2>1. SUFFICES ASSUME NEW d \in Conn \ {c}, NEW u \in User
                 PROVE  HasSession(d, u)' <=> HasSession(d, u)
    OBVIOUS
  <2>2. QED
    BY DEF OthersRest, HasSession
<1>2. \A u \in User : LoggedIn(u)' <=> LoggedIn(u)
  BY DEF LoggedIn
<1>3. OneHolder'
  BY <1>1, <1>2 DEF TableFits, OneHolder
<1>4. TableFits'
  BY <1>3, CallsFit DEF TableFits
<1>5. \A u \in User : SessionOf(u)' = SessionOf(u)
  <2>1. TAKE u \in User
  <2>2. QED
    BY <1>1, <1>2, SessionKept
<1>6. UNCHANGED Sessions!vars
  BY <1>5 DEF Sessions!vars
<1>7. QED
  BY <1>4, <1>6

-----------------------------------------------------------------------------
(* Calls, look-ups and the second halves of calls leave the sessions be.   *)

LEMMA CallLoginFits ==
    ASSUME LoginInv, TableFits, NEW c \in Conn, NEW u \in User, NEW p \in Password,
           CallLogin(c, u, p), inTurn'
    PROVE  TableFits' /\ UNCHANGED Sessions!vars
<1> USE DEF CallLogin, Call, Goto, ItsTurn, Quiet
<1>1. OthersRest(c)
  BY DEF OthersRest, LoginInv, TypeOK
<1>2. pc[c] = "idle" /\ pc'[c] = "is_new" /\ clientIdToUsername[c] = None
  BY DEF LoginInv, TypeOK
<1>3. RecordFits(c)' /\ LookupsFit(c)'
  BY <1>2 DEF RecordFits, LookupsFit
<1>4. \A v \in User : HasSession(c, v)' <=> HasSession(c, v)
  BY <1>2 DEF HasSession
<1>5. clash' = {} /\ UNCHANGED <<users, letIn>>
  BY DEF TableFits
<1>6. QED
  BY <1>1, <1>3, <1>4, <1>5, SessionsStay

LEMMA CallLogoutFits ==
    ASSUME LoginInv, TableFits, NEW c \in Conn, CallLogout(c), inTurn'
    PROVE  TableFits' /\ UNCHANGED Sessions!vars
<1> USE DEF CallLogout, Call, Goto, ItsTurn, Quiet
<1>1. OthersRest(c)
  BY DEF OthersRest, LoginInv, TypeOK
<1>2. pc[c] = "idle" /\ pc'[c] = "remove_client" /\ clientIdToUsername[c] # None
  BY DEF LoginInv, TypeOK
<1>3. RecordFits(c)' /\ LookupsFit(c)'
  BY <1>2 DEF RecordFits, LookupsFit
<1>4. \A v \in User : HasSession(c, v)' <=> HasSession(c, v)
  BY <1>2 DEF HasSession
<1>5. clash' = {} /\ UNCHANGED <<users, letIn>>
  <2>1. ClientsWriters \ {c} = {}
    BY DEF ClientsWriters
  <2>2. QED
    BY <2>1 DEF TableFits, Overlap
<1>6. QED
  BY <1>1, <1>3, <1>4, <1>5, SessionsStay

LEMMA IsNewUserFits ==
    ASSUME LoginInv, TableFits, NEW c \in Conn, IsNewUser(c)
    PROVE  TableFits' /\ UNCHANGED Sessions!vars
<1> USE DEF IsNewUser, Goto
<1>1. /\ \A d \in Conn \ {c} : pc[d] = "idle"
      /\ UsersWriters \ {c} = {}
      /\ ~MayMiss(c)
  BY AloneInCall
<1>2. OthersRest(c)
  BY <1>1 DEF OthersRest, LoginInv, TypeOK
<1>3. pc[c] = "is_new" /\ pc'[c] = "put_user" /\ clientIdToUsername[c] = None
  BY DEF LoginInv, TypeOK, TableFits, RecordFits
<1>4. call[c].user \in User /\ users[call[c].user] = None
  BY <1>1, <1>3, LoginAssumption DEF LoginInv, ArgumentsGood, Found
<1>5. RecordFits(c)' /\ LookupsFit(c)'
  BY <1>3, <1>4 DEF RecordFits, LookupsFit
<1>6. \A v \in User : HasSession(c, v)' <=> HasSession(c, v)
  BY <1>3 DEF HasSession
<1>7. clash' = {} /\ UNCHANGED <<users, letIn>>
  BY <1>1 DEF TableFits, Overlap
<1>8. QED
  BY <1>2, <1>5, <1>6, <1>7, SessionsStay

LEMMA IsKnownUserFits ==
    ASSUME LoginInv, TableFits, NEW c \in Conn, IsKnownUser(c)
    PROVE  TableFits' /\ UNCHANGED Sessions!vars
<1> USE DEF IsKnownUser, Goto
<1>1. \A d \in Conn \ {c} : pc[d] = "idle"
  BY AloneInCall
<1>2. OthersRest(c)
  BY <1>1 DEF OthersRest, LoginInv, TypeOK
<1>3. pc[c] = "is_new" /\ pc'[c] = "is_connected" /\ clientIdToUsername[c] = None
  BY DEF LoginInv, TypeOK, TableFits, RecordFits
<1>4. RecordFits(c)' /\ LookupsFit(c)'
  BY <1>3 DEF RecordFits, LookupsFit, Found
<1>5. \A v \in User : HasSession(c, v)' <=> HasSession(c, v)
  BY <1>3 DEF HasSession
<1>6. clash' = {} /\ UNCHANGED <<users, letIn>>
  BY DEF TableFits
<1>7. QED
  BY <1>2, <1>4, <1>5, <1>6, SessionsStay

LEMMA IsConnectedFits ==
    ASSUME LoginInv, TableFits, NEW c \in Conn, IsConnected(c)
    PROVE  TableFits' /\ UNCHANGED Sessions!vars
<1> USE DEF IsConnected, Goto, Return
<1>1. \A d \in Conn \ {c} : pc[d] = "idle"
  BY AloneInCall
<1>2. OthersRest(c)
  BY <1>1 DEF OthersRest, LoginInv, TypeOK
<1>3. pc[c] = "is_connected" /\ clientIdToUsername[c] = None
  BY DEF TableFits, RecordFits
<1>4. RecordFits(c)' /\ LookupsFit(c)'
  <2>1. CASE users[call[c].user].connected
    <3>1. pc'[c] = "idle" /\ result'[c] = "already"
      BY <2>1 DEF LoginInv, TypeOK
    <3>2. QED
      BY <1>3, <3>1 DEF RecordFits, LookupsFit
  <2>2. CASE ~(users[call[c].user].connected)
    <3>1. pc'[c] = "is_correct" /\ UNCHANGED call
      BY <2>2 DEF LoginInv, TypeOK
    <3>2. QED
      BY <1>3, <2>2, <3>1 DEF RecordFits, LookupsFit, Found
  <2>3. QED
    BY <2>1, <2>2
<1>5. \A v \in User : HasSession(c, v)' <=> HasSession(c, v)
  BY <1>3 DEF HasSession, LoginInv, TypeOK
<1>6. clash' = {} /\ UNCHANGED <<users, letIn>>
  BY DEF TableFits
<1>7. QED
  BY <1>2, <1>4, <1>5, <1>6, SessionsStay

LEMMA IsCorrectFits ==
    ASSUME LoginInv, TableFits, NEW c \in Conn, IsCorrectLoginInfo(c)
    PROVE  TableFits' /\ UNCHANGED Sessions!vars
<1> USE DEF IsCorrectLoginInfo, Goto, Return
<1>1. \A d \in Conn \ {c} : pc[d] = "idle"
  BY AloneInCall
<1>2. OthersRest(c)
  BY <1>1 DEF OthersRest, LoginInv, TypeOK
<1>3. pc[c] = "is_correct" /\ clientIdToUsername[c] = None /\ LookupsFit(c)
  BY DEF TableFits, RecordFits
<1>4. RecordFits(c)' /\ LookupsFit(c)'
  <2>1. CASE ~(users[call[c].user].password = call[c].pass)
    <3>1. pc'[c] = "idle" /\ result'[c] = "wrong"
      BY <2>1 DEF LoginInv, TypeOK
    <3>2. QED
      BY <1>3, <3>1 DEF RecordFits, LookupsFit
  <2>2. CASE users[call[c].user].password = call[c].pass
    <3>1. pc'[c] = "set_connected" /\ UNCHANGED call
      BY <2>2 DEF LoginInv, TypeOK
    <3>2. QED
      BY <1>3, <2>2, <3>1 DEF RecordFits, LookupsFit, Found
  <2>3. QED
    BY <2>1, <2>2
<1>5. \A v \in User : HasSession(c, v)' <=> HasSession(c, v)
  BY <1>3 DEF HasSession, LoginInv, TypeOK
<1>6. clash' = {} /\ UNCHANGED <<users, letIn>>
  BY DEF TableFits
<1>7. QED
  BY <1>2, <1>4, <1>5, <1>6, SessionsStay

LEMMA PutClientFits ==
    ASSUME LoginInv, TableFits, NEW c \in Conn, PutClient(c)
    PROVE  TableFits' /\ UNCHANGED Sessions!vars
<1> USE DEF PutClient, Effect, Return
<1>1. \A d \in Conn \ {c} : pc[d] = "idle"
  BY AloneInCall
<1>2. clientIdToUsername' = [clientIdToUsername EXCEPT ![c] = call[c].user] /\ clash' = {}
  BY DEF TableFits
<1>3. OthersRest(c)
  BY <1>1, <1>2 DEF OthersRest, LoginInv, TypeOK
<1>4. /\ pc[c] = "put_client" /\ clientIdToUsername[c] = None
      /\ pc'[c] = "idle" /\ result'[c] = "connected"
      /\ call[c].user \in User /\ clientIdToUsername'[c] = call[c].user
  BY <1>2 DEF LoginInv, TypeOK, ArgumentsGood, TableFits, RecordFits
<1>5. RecordFits(c)' /\ LookupsFit(c)'
  BY <1>4, LoginAssumption DEF RecordFits, LookupsFit
<1>6. \A v \in User : HasSession(c, v)' <=> HasSession(c, v)
  BY <1>4, LoginAssumption DEF HasSession
<1>7. QED
  BY <1>2, <1>3, <1>5, <1>6, SessionsStay

LEMMA RemoveClientFits ==
    ASSUME LoginInv, TableFits, NEW c \in Conn, RemoveClient(c)
    PROVE  TableFits' /\ UNCHANGED Sessions!vars
<1> USE DEF RemoveClient, Effect, Goto
<1>1. \A d \in Conn \ {c} : pc[d] = "idle"
  BY AloneInCall
<1>2. clientIdToUsername' = [clientIdToUsername EXCEPT ![c] = None] /\ clash' = {}
  BY DEF TableFits
<1>3. OthersRest(c)
  BY <1>1, <1>2 DEF OthersRest, LoginInv, TypeOK
<1>4. /\ pc[c] = "remove_client" /\ clientIdToUsername[c] \in User
      /\ pc'[c] = "clear_connected" /\ clientIdToUsername'[c] = None
      /\ call'[c].user = clientIdToUsername[c]
  BY <1>2 DEF LoginInv, TypeOK, TableFits, RecordFits
<1>5. users[clientIdToUsername[c]] # None
  <2>1. HasSession(c, clientIdToUsername[c])
    BY DEF HasSession
  <2>2. LoggedIn(clientIdToUsername[c])
    BY <1>4, <2>1 DEF TableFits, OneHolder
  <2>3. QED
    BY <2>2 DEF LoggedIn
<1>6. RecordFits(c)' /\ LookupsFit(c)'
  BY <1>4, <1>5, LoginAssumption DEF RecordFits, LookupsFit, Found
<1>7. \A v \in User : HasSession(c, v)' <=> HasSession(c, v)
  BY <1>4, LoginAssumption DEF HasSession
<1>8. QED
  BY <1>2, <1>3, <1>6, <1>7, SessionsStay

(* The client logs in or out in turn: every look-up finds its user.        *)
LEMMA NoNullUser ==
    ASSUME TableFits, NEW c \in Conn, NullUser(c)
    PROVE  FALSE
<1>1. ~MayMiss(c) /\ Found(c)
  BY AloneInCall DEF NullUser, TableFits, LookupsFit
<1>2. QED
  BY <1>1 DEF NullUser

LEMMA DropFits ==
    ASSUME LoginInv, TableFits, NEW c \in Conn, Drop(c)
    PROVE  TableFits' /\ UNCHANGED Sessions!vars
<1> USE DEF Drop
<1>1. TableFits'
  BY DEF TableFits, OneAtATime, RecordFits, LookupsFit, OneHolder, LoggedIn, HasSession, Found
<1>2. UNCHANGED Sessions!vars
  BY DEF Sessions!vars, SessionOf, LoggedIn, HasSession
<1>3. QED
  BY <1>1, <1>2

-----------------------------------------------------------------------------
(* The steps that begin or end a session.                                  *)

(* The user is entered or found, and connection c lets him in.             *)
LEMMA SessionBegun ==
    ASSUME LoginInv, TableFits, NEW c \in Conn, NEW u \in User, NEW p \in Password,
           OthersRest(c), UNCHANGED <<clientIdToUsername, call>>, clash' = {},
           pc[c] \in {"put_user", "set_connected"}, pc'[c] = "put_client",
           call[c].user = u,
           users' = [users EXCEPT ![u] = [password |-> p, connected |-> TRUE]],
           letIn' = [letIn EXCEPT ![c][u] = p],
           \/ users[u] = None
           \/ users[u] # None /\ ~(users[u].connected) /\ users[u].password = p
    PROVE  TableFits' /\ (Sessions!Register(c, u, p) \/ Sessions!Login(c, u, p))
<1>1. clientIdToUsername[c] = None
  BY DEF TableFits, RecordFits
<1>2. RecordFits(c)' /\ LookupsFit(c)'
  BY <1>1 DEF RecordFits, LookupsFit
<1>3. ~LoggedIn(u) /\ \A d \in Conn : ~HasSession(d, u)
  BY DEF TableFits, OneHolder, LoggedIn
<1>4. HasSession(c, u)' /\ \A v \in User : ~HasSession(c, v) /\ (HasSession(c, v)' => v = u)
  BY <1>1, LoginAssumption DEF HasSession
<1>5. \A d \in Conn \ {c}, v \in User : HasSession(d, v)' <=> HasSession(d, v)
  BY DEF OthersRest, HasSession
<1>6. LoggedIn(u)'
  <2>1. users'[u] = [password |-> p, connected |-> TRUE]
    BY DEF LoginInv, TypeOK
  <2>2. [password |-> p, connected |-> TRUE] \in Entry
    OBVIOUS
  <2>3. users'[u] # None /\ users'[u].connected
    BY <2>1, <2>2, LoginAssumption
  <2>4. QED
    BY <2>3 DEF LoggedIn
<1>7. \A v \in User \ {u} : users'[v] = users[v] /\ (LoggedIn(v)' <=> LoggedIn(v))
  BY DEF LoginInv, TypeOK, LoggedIn
<1>8. OneHolder'
  <2>1. ASSUME NEW v \in User
        PROVE  /\ LoggedIn(v)' <=> \E d \in Conn : HasSession(d, v)'
               /\ \A d, e \in Conn : HasSession(d, v)' /\ HasSession(e, v)' => d = e
    <3>1. CASE v = u
      BY <1>3, <1>4, <1>5, <1>6, <3>1
    <3>2. CASE v # u
      <4>1. \A d \in Conn : HasSession(d, v)' <=> HasSession(d, v)
        BY <1>4, <1>5, <3>2
      <4>2. QED
        BY <1>7, <3>2, <4>1 DEF TableFits, OneHolder
    <3>3. QED
      BY <3>1, <3>2
  <2>2. QED
    BY <2>1 DEF OneHolder
<1>9. TableFits'
  BY <1>2, <1>8, CallsFit DEF TableFits
<1>10. SessionOf(u) = None /\ SessionOf(u)' = [conn |-> c, pass |-> p]
  <2>1. \A d \in Conn : HasSession(d, u)' => d = c
    BY <1>3, <1>5
  <2>2. letIn'[c][u] = p
    BY DEF LoginInv, TypeOK
  <2>3. QED
    BY <1>3, <1>4, <1>6, <2>1, <2>2, SessionHeldNext DEF SessionOf
<1>11. \A v \in User \ {u} : SessionOf(v)' = SessionOf(v)
  <2>1. TAKE v \in User \ {u}
  <2>2. \A d \in Conn : HasSession(d, v)' <=> HasSession(d, v)
    BY <1>4, <1>5
  <2>3. \A d \in Conn : letIn'[d][v] = letIn[d][v]
    BY DEF LoginInv, TypeOK
  <2>4. QED
    BY <1>7, <2>2, <2>3, SessionKept
<1>12. \A v \in User : SessionOf(v) # None => SessionOf(v).conn # c
  <2>1. SUFFICES ASSUME NEW v \in User, LoggedIn(v) PROVE SessionOf(v).conn # c
    BY DEF SessionOf
  <2>2. PICK d \in Conn : HasSession(d, v) /\ \A e \in Conn : HasSession(e, v) => e = d
    BY <2>1 DEF TableFits, OneHolder
  <2>3. SessionOf(v) = [conn |-> d, pass |-> letIn[d][v]] /\ d # c
    BY <1>4, <2>1, <2>2, SessionHeld
  <2>4. QED
    BY <2>3
<1>13. Sessions!Begin(c, u, p)
  BY <1>10, <1>11, <1>12 DEF Sessions!Begin
<1>14. CASE users[u] = None
  <2>1. \A v \in User : (IF users'[v] = None THEN None ELSE users'[v].password)
            = (IF v = u THEN p ELSE IF users[v] = None THEN None ELSE users[v].password)
    BY <1>6, <1>7 DEF LoginInv, TypeOK, LoggedIn
  <2>2. [v \in User |-> IF users'[v] = None THEN None ELSE users'[v].password]
            = [[v \in User |-> IF users[v] = None THEN None ELSE users[v].password]
                  EXCEPT ![u] = p]
    BY <2>1
  <2>3. Sessions!Register(c, u, p)
    BY <1>13, <1>14, <2>2 DEF Sessions!Register
  <2>4. QED
    BY <1>9, <2>3
<1>15. CASE users[u] # None
  <2>1. \A v \in User : (IF users'[v] = None THEN None ELSE users'[v].password)
            = (IF users[v] = None THEN None ELSE users[v].password)
    BY <1>6, <1>7, <1>15 DEF LoginInv, TypeOK, LoggedIn
  <2>2. Sessions!Login(c, u, p)
    BY <1>13, <1>15, <2>1 DEF Sessions!Login
  <2>3. QED
    BY <1>9, <2>2
<1>16. QED
  BY <1>14, <1>15

LEMMA PutUserFits ==
    ASSUME LoginInv, TableFits, NEW c \in Conn, PutUser(c)
    PROVE  TableFits' /\ Sessions!Next
<1> USE DEF PutUser, Goto
<1>1. PICK u \in User, p \in Password : u = call[c].user /\ p = call[c].pass
  BY DEF LoginInv, ArgumentsGood
<1>2. \A d \in Conn \ {c} : pc[d] = "idle"
  BY AloneInCall
<1>3. OthersRest(c)
  BY <1>2 DEF OthersRest, LoginInv, TypeOK
<1>4. clash' = {}
  BY <1>2 DEF TableFits, ClientsWriters
<1>5. /\ users' = [users EXCEPT ![u] = [password |-> p, connected |-> TRUE]]
      /\ letIn' = [letIn EXCEPT ![c][u] = p]
      /\ pc[c] = "put_user" /\ pc'[c] = "put_client"
      /\ users[u] = None
  BY <1>1 DEF LoginInv, TypeOK, TableFits, LookupsFit
<1>6. TableFits' /\ (Sessions!Register(c, u, p) \/ Sessions!Login(c, u, p))
  BY <1>1, <1>3, <1>4, <1>5, SessionBegun
<1>7. QED
  BY <1>6 DEF Sessions!Next

LEMMA FlagRaised ==
    ASSUME NEW e \in Entry
    PROVE  [e EXCEPT !.connected = TRUE] = [password |-> e.password, connected |-> TRUE]
<1> DEFINE raised == [e EXCEPT !.connected = TRUE]
<1>1. raised \in Entry
  OBVIOUS
<1>2. raised.connected = TRUE /\ raised.password = e.password
  OBVIOUS
<1> HIDE DEF raised
<1>3. raised = [password |-> raised.password, connected |-> raised.connected]
  BY <1>1
<1>4. QED
  BY <1>2, <1>3 DEF raised

LEMMA SetConnectedFits ==
    ASSUME LoginInv, TableFits, NEW c \in Conn, SetConnected(c)
    PROVE  TableFits' /\ Sessions!Next
<1> USE DEF SetConnected, Goto
<1>1. PICK u \in User, p \in Password : u = call[c].user /\ p = call[c].pass
  BY DEF LoginInv, ArgumentsGood
<1>2. (\A d \in Conn \ {c} : pc[d] = "idle") /\ ClientsWriters \ {c} = {}
  BY AloneInCall
<1>3. OthersRest(c)
  BY <1>2 DEF OthersRest, LoginInv, TypeOK
<1>4. clash' = {}
  BY <1>2 DEF TableFits, Overlap
<1>5. /\ users[u] \in Entry /\ users[u] # None /\ ~(users[u].connected) /\ users[u].password = p
      /\ letIn' = [letIn EXCEPT ![c][u] = p]
      /\ pc[c] = "set_connected" /\ pc'[c] = "put_client"
  BY <1>1 DEF LoginInv, TypeOK, TableFits, LookupsFit, Found
<1>6. users' = [users EXCEPT ![u] = [password |-> p, connected |-> TRUE]]
  <2>1. [users[u] EXCEPT !.connected = TRUE] = [password |-> p, connected |-> TRUE]
    BY <1>5, FlagRaised
  <2>2. QED
    BY <1>1, <2>1
<1>7. UNCHANGED <<clientIdToUsername, call>>
  OBVIOUS
<1> HIDE DEF SetConnected, Goto
<1>8. TableFits' /\ (Sessions!Register(c, u, p) \/ Sessions!Login(c, u, p))
  BY <1>1, <1>3, <1>4, <1>5, <1>6, <1>7, SessionBegun
<1>9. QED
  BY <1>8 DEF Sessions!Next

LEMMA ClearConnectedFits ==
    ASSUME LoginInv, TableFits, NEW c \in Conn, ClearConnected(c)
    PROVE  TableFits' /\ Sessions!Next
<1> USE DEF ClearConnected, Return
<1>1. PICK u \in User : u = call[c].user /\ users[u] \in Entry /\ users[u] # None
  BY DEF LoginInv, TypeOK, Found
<1>2. \A d \in Conn \ {c} : pc[d] = "idle"
  BY AloneInCall
<1>3. OthersRest(c)
  BY <1>2 DEF OthersRest, LoginInv, TypeOK
<1>4. /\ pc[c] = "clear_connected" /\ clientIdToUsername[c] = None
      /\ pc'[c] = "idle" /\ result'[c] = "receipt"
  BY DEF LoginInv, TypeOK, TableFits, RecordFits
<1>5. RecordFits(c)' /\ LookupsFit(c)'
  BY <1>4 DEF RecordFits, LookupsFit
<1>6. HasSession(c, u) /\ \A v \in User : ~HasSession(c, v)' /\ (HasSession(c, v) => v = u)
  BY <1>1, <1>4, LoginAssumption DEF HasSession
<1>7. \A d \in Conn \ {c}, v \in User : HasSession(d, v)' <=> HasSession(d, v)
  BY <1>2, <1>3 DEF OthersRest, HasSession
<1>8. LoggedIn(u) /\ \A d \in Conn : HasSession(d, u) => d = c
  BY <1>6 DEF TableFits, OneHolder
<1>9. ~LoggedIn(u)'
  <2>1. users'[u].connected = FALSE
    BY <1>1 DEF LoginInv, TypeOK
  <2>2. QED
    BY <2>1 DEF LoggedIn
<1>10. \A v \in User \ {u} : users'[v] = users[v] /\ (LoggedIn(v)' <=> LoggedIn(v))
  BY <1>1 DEF LoginInv, TypeOK, LoggedIn
<1>11. OneHolder'
  <2>1. ASSUME NEW v \in User
        PROVE  /\ LoggedIn(v)' <=> \E d \in Conn : HasSession(d, v)'
               /\ \A d, e \in Conn : HasSession(d, v)' /\ HasSession(e, v)' => d = e
    <3>1. CASE v = u
      BY <1>6, <1>7, <1>8, <1>9, <3>1
    <3>2. CASE v # u
      <4>1. \A d \in Conn : HasSession(d, v)' <=> HasSession(d, v)
        BY <1>6, <1>7, <3>2
      <4>2. QED
        BY <1>10, <3>2, <4>1 DEF TableFits, OneHolder
    <3>3. QED
      BY <3>1, <3>2
  <2>2. QED
    BY <2>1 DEF OneHolder
<1>12. TableFits'
  BY <1>3, <1>5, <1>11, CallsFit DEF TableFits
<1> HIDE DEF ClearConnected, Return
<1>13. SessionOf(u) = [conn |-> c, pass |-> letIn[c][u]] /\ SessionOf(u)' = None
  BY <1>6, <1>8, <1>9, SessionHeld DEF SessionOf
<1>14. \A v \in User \ {u} : SessionOf(v)' = SessionOf(v)
  <2>1. TAKE v \in User \ {u}
  <2>2. \A d \in Conn : HasSession(d, v)' <=> HasSession(d, v)
    BY <1>6, <1>7
  <2>3. \A d \in Conn : letIn'[d][v] = letIn[d][v]
    BY <1>1 DEF LoginInv, TypeOK, ClearConnected
  <2>4. QED
    BY <1>10, <2>2, <2>3, SessionKept
<1>15. \A v \in User : (IF users'[v] = None THEN None ELSE users'[v].password)
            = (IF users[v] = None THEN None ELSE users[v].password)
  <2>1. TAKE v \in User
  <2>2. CASE v # u
    BY <1>10, <2>2
  <2>3. CASE v = u
    <3>1. users'[u] \in Entry /\ users'[u].password = users[u].password
      BY <1>1 DEF LoginInv, TypeOK, ClearConnected
    <3>2. QED
      BY <1>1, <2>3, <3>1, LoginAssumption
  <2>4. QED
    BY <2>2, <2>3
<1>16. [conn |-> c, pass |-> letIn[c][u]] # None
  <2>1. letIn[c][u] \in Password \cup {None}
    BY DEF LoginInv, TypeOK
  <2>2. QED
    BY <2>1, LoginAssumption
<1>17. Sessions!Logout(c, u)
  <2>1. [v \in User |-> SessionOf(v)]' = [[v \in User |-> SessionOf(v)] EXCEPT ![u] = None]
    BY <1>13, <1>14
  <2>2. SessionOf(u) # None /\ SessionOf(u).conn = c
    BY <1>13, <1>16
  <2>3. QED
    BY <1>15, <2>1, <2>2 DEF Sessions!Logout
<1>18. QED
  BY <1>12, <1>17 DEF Sessions!Next

-----------------------------------------------------------------------------
LEMMA TurnStep ==
    ASSUME LoginInv, TableFits, Next, inTurn'
    PROVE  TableFits' /\ (Sessions!Next \/ UNCHANGED Sessions!vars)
<1>1. PICK c \in Conn : AnyCall(c) \/ Step(c) \/ Drop(c)
  BY DEF Next
<1>2. CASE AnyCall(c)
  BY <1>2, CallLoginFits, CallLogoutFits DEF AnyCall
<1>3. CASE Step(c)
  BY <1>3, IsNewUserFits, IsKnownUserFits, IsConnectedFits, IsCorrectFits, PutClientFits,
     RemoveClientFits, NoNullUser, PutUserFits, SetConnectedFits, ClearConnectedFits DEF Step
<1>4. CASE Drop(c)
  BY <1>4, DropFits
<1>5. QED
  BY <1>1, <1>2, <1>3, <1>4

(* Once some call was not made in turn, inTurn stays down.                 *)
LEMMA TurnLost ==
    ASSUME Next, inTurn' PROVE inTurn
  BY ZenonT(60) DEF Next, AnyCall, CallLogin, CallLogout, Call, Step, IsNewUser, IsKnownUser, PutUser,
     PutClient, IsConnected, IsCorrectLoginInfo, SetConnected, RemoveClient, ClearConnected,
     NullUser, Drop

LEMMA TurnKept == LoginInv /\ TurnInv /\ [Next]_vars => TurnInv'
<1>1. CASE UNCHANGED vars
  BY <1>1 DEF TurnInv, TableFits, OneAtATime, RecordFits, LookupsFit, OneHolder, LoggedIn,
     HasSession, Found, vars
<1>2. CASE Next
  BY <1>2, TurnStep, TurnLost DEF TurnInv
<1>3. QED
  BY <1>1, <1>2

LEMMA TurnInvariant == Spec => [](LoginInv /\ TurnInv)
<1>1. Init => TurnInv
  BY TurnInit DEF TurnInv
<1>2. QED
  BY <1>1, LoginInit, LoginStep, TurnKept, PTL DEF Spec

(* With one call at a time, an answer means what it says: whoever was      *)
(* answered CONNECTED (LoginHandler.java:19, 32) is recorded as a user who *)
(* is marked as connected, and as nobody else's; whoever was refused, or   *)
(* has logged out, is not recorded.                                        *)
THEOREM AnswersMatch == Spec => []AnswerMatches
<1>1. LoginInv /\ TurnInv => AnswerMatches
  <2>1. SUFFICES ASSUME LoginInv, TurnInv, inTurn, Quiet PROVE AnswerMatches
    BY Zenon DEF AnswerMatches
  <2>2. TableFits
    BY <2>1 DEF TurnInv
  <2>3. ASSUME NEW c \in Conn
        PROVE  (result[c] = "connected") <=> (clientIdToUsername[c] # None)
    <3>1. RecordFits(c) /\ pc[c] = "idle"
      BY <2>1, <2>2 DEF TableFits, Quiet
    <3>2. QED
      BY <3>1 DEF RecordFits
  <2>4. ASSUME NEW c \in Conn, clientIdToUsername[c] # None
        PROVE  /\ LoggedIn(clientIdToUsername[c])
               /\ \A d \in Conn : clientIdToUsername[d] = clientIdToUsername[c] => d = c
    <3>1. PICK u \in User : clientIdToUsername[c] = u
      BY <2>1, <2>4 DEF LoginInv, TypeOK
    <3>2. \A d \in Conn : clientIdToUsername[d] = u => HasSession(d, u)
      BY DEF HasSession
    <3>3. LoggedIn(u) /\ \A d \in Conn : clientIdToUsername[d] = u => d = c
      BY <2>2, <3>1, <3>2 DEF TableFits, OneHolder
    <3>4. QED
      BY <3>1, <3>3
  <2>5. QED
    BY <2>3, <2>4, Zenon DEF AnswerMatches
<1>2. QED
  BY <1>1, TurnInvariant, PTL

(* With one call at a time the two HashMaps keep the promises of           *)
(* UserSessions: the first login fixes a user's password, every later one  *)
(* needs it, and a user has one session at a time (LoginHandler.java:9-41, *)
(* 54-66).                                                                 *)
THEOREM SessionsImplemented == Spec => ImplementsSessions
<1>1. Init => Sessions!Init
  BY TurnInit
<1>2. LoginInv /\ TurnInv /\ [Next]_vars =>
          [inTurn' => Sessions!Next]_<<Sessions!vars, inTurn>>
  <2>1. SUFFICES ASSUME LoginInv, TurnInv, [Next]_vars
                 PROVE  (inTurn' => Sessions!Next) \/ UNCHANGED <<Sessions!vars, inTurn>>
    OBVIOUS
  <2>2. CASE UNCHANGED vars
    BY <2>2 DEF vars, made, Sessions!vars, SessionOf, LoggedIn, HasSession
  <2>3. CASE Next /\ inTurn'
    <3>1. inTurn
      BY <2>3, TurnLost
    <3>2. inTurn' = inTurn
      BY <2>1, <2>3, <3>1, LoginStep DEF LoginInv, TypeOK
    <3>3. Sessions!Next \/ UNCHANGED Sessions!vars
      BY <2>1, <2>3, <3>1, TurnStep DEF TurnInv
    <3>4. QED
      BY <3>2, <3>3
  <2>4. QED
    BY <2>1, <2>2, <2>3
<1>3. QED
  BY <1>1, <1>2, TurnInvariant, PTL DEF Spec, ImplementsSessions
=============================================================================
