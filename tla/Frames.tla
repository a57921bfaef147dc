------------------------------- MODULE Frames -------------------------------
(***************************************************************************)
(* What the STOMP client and the STOMP server share: the two streams of    *)
(* frames of each connection, and the frames.  A stream is kept whole,     *)
(* with a count of the frames that were taken from it, so that properties  *)
(* can speak of the past.  Wire.tla models the bytes below the frames and  *)
(* shows when the streams are indeed pipes.                                *)
(***************************************************************************)
EXTENDS Integers, Sequences, FiniteSets

CONSTANTS
    Client,  (* the clients, each with one connection                      *)
    User,    (* user names                                                 *)
    Channel, (* channel names                                              *)
    None     (* no user, no channel, no subscription id                    *)

ASSUME FramesAssumption ==
    None \notin Client /\ None \notin User /\ None \notin Channel /\ None \notin Nat

VARIABLES
    toServer,   (* frames each client has sent                             *)
    processed,  (* how many of them the server has taken up                *)
    toClient,   (* frames the server has sent to each client               *)
    received,   (* how many of them the client has read                    *)
    alive,      (* clients whose program runs                              *)
    cut         (* connections whose thread on the server has ended, which *)
                (* closes the socket                                       *)

links == <<toServer, processed, toClient, received, alive, cut>>

LinksInit ==
    /\ toServer = [c \in Client |-> <<>>]
    /\ processed = [c \in Client |-> 0]
    /\ toClient = [c \in Client |-> <<>>]
    /\ received = [c \in Client |-> 0]
    /\ alive = Client
    /\ cut = {}

(* What a frame says that anybody looks at.                                *)
ConnectFrame(u)         == [type |-> "CONNECT", login |-> u]
SubscribeFrame(ch, s, n) ==
    [type |-> "SUBSCRIBE", destination |-> ch, id |-> s, receipt |-> n]
UnsubscribeFrame(s, n)  == [type |-> "UNSUBSCRIBE", id |-> s, receipt |-> n]
SendFrame(ch, report)   == [type |-> "SEND", destination |-> ch, report |-> report]
DisconnectFrame(n)      == [type |-> "DISCONNECT", receipt |-> n]

ConnectedFrame == [type |-> "CONNECTED"]
ErrorFrame     == [type |-> "ERROR"]
ReceiptFrame(n) == [type |-> "RECEIPT", receipt |-> n]
MessageFrame(s, n, ch, report) ==
    [type |-> "MESSAGE", subscription |-> s, number |-> n, destination |-> ch,
     report |-> report]

(* A report names the client and the user it comes from; a client numbers  *)
(* its reports.                                                            *)
Report == [author : Client, owner : User \cup {None}, count : Nat]

Request ==
    [type : {"CONNECT"}, login : User]
    \cup [type : {"SUBSCRIBE"}, destination : Channel, id : Nat, receipt : Nat]
    \cup [type : {"UNSUBSCRIBE"}, id : Nat, receipt : Nat]
    \cup [type : {"SEND"}, destination : Channel, report : Report]
    \cup [type : {"DISCONNECT"}, receipt : Nat]

Answer ==
    {ConnectedFrame, ErrorFrame}
    \cup [type : {"RECEIPT"}, receipt : Nat]
    \cup [type : {"MESSAGE"}, subscription : Nat, number : Nat, destination : Channel,
           report : Report]

LinksTypeOK ==
    /\ toServer \in [Client -> Seq(Request)]
    /\ toClient \in [Client -> Seq(Answer)]
    /\ processed \in [Client -> Nat]
    /\ received \in [Client -> Nat]
    /\ \A c \in Client : processed[c] <= Len(toServer[c]) /\ received[c] <= Len(toClient[c])
    /\ alive \in SUBSET Client
    /\ cut \in SUBSET Client

IsMessage(f)   == f.type = "MESSAGE"
WantsAnswer(f) == f.type # "SEND"

(* How many of the first n frames ask for an answer, and how many are one. *)
Asking(frames, n)    == Cardinality({k \in 1..n : WantsAnswer(frames[k])})
Answering(frames, n) == Cardinality({k \in 1..n : ~IsMessage(frames[k])})

(* Answers the client has asked for and not read yet.                      *)
Awaited(c) == Asking(toServer[c], Len(toServer[c])) - Answering(toClient[c], received[c])
=============================================================================
