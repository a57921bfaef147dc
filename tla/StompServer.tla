---------------------------- MODULE StompServer ----------------------------
(***************************************************************************)
(* The server's handling of frames, thread per client: the loop of         *)
(* BlockingConnectionHandler.run, process of StompMessagingProtocolImpl    *)
(* with every call it makes, and what becomes of a connection.             *)
(*                                                                         *)
(* Each call of the login table and of the registry is one step: that the  *)
(* registry's look like that is the theorem RegistryImplemented about      *)
(* Connections; the table's races are in LoginHandler.  Every user has one *)
(* password and knows it (a wrong one is answered like a second login,     *)
(* with an ERROR and no effect).                                           *)
(*                                                                         *)
(* An exception ends the thread, which closes the socket and tells nobody. *)
(* Two that the code can throw are left out, because the frames of this    *)
(* repository's client cannot lead to them: an UNSUBSCRIBE of an unknown   *)
(* id and a SEND to an unknown channel leave the thread without a step,    *)
(* which AnswersComeIn would show.                                         *)
(***************************************************************************)
EXTENDS Frames

VARIABLES
    thread,                     (* where the thread of a connection is     *)
    response,                   (* the answer it has to send               *)
    messageId,                  (* the id it has drawn                     *)
    messageIdCounter,
    connectedUsers,             (* users whose isConnected is true         *)
    clientIdToUsername,
    connectionIdToClient,       (* the keys of that map                    *)
    knownChannels,              (* the keys of channelToSubscribedClients  *)
    channelToSubscribedClients, (* channel -> client -> subscription id    *)
    subscriptionToTopic         (* client -> set of (subscription id,      *)
                                (* channel)                                *)

table    == <<connectedUsers, clientIdToUsername>>
registry == <<connectionIdToClient, knownChannels, channelToSubscribedClients,
              subscriptionToTopic>>
server   == <<thread, response, messageId, messageIdCounter, table, registry>>

ServerInit ==
    /\ thread = [c \in Client |-> "start"]
    /\ response = [c \in Client |-> None]
    /\ messageId = [c \in Client |-> 0]
    /\ messageIdCounter = 0
    /\ connectedUsers = {}
    /\ clientIdToUsername = [c \in Client |-> None]
    /\ connectionIdToClient = {}
    /\ knownChannels = {}
    /\ channelToSubscribedClients = [ch \in Channel |-> [c \in Client |-> None]]
    /\ subscriptionToTopic = [c \in Client |-> {}]

-----------------------------------------------------------------------------
Continue(c, place) == thread' = [thread EXCEPT ![c] = place]

Respond(c, frame) ==
    /\ response' = [response EXCEPT ![c] = frame]
    /\ Continue(c, "answer")

(* A NullPointerException: run is left, its try closes the socket.         *)
Throw(c) ==
    /\ Continue(c, "over")
    /\ cut' = cut \cup {c}

(* The next frame of a connection is taken up.                             *)
NextFrame(c) == toServer[c][processed[c] + 1]

Take(c, type) ==
    /\ thread[c] = "read"
    /\ processed[c] < Len(toServer[c])
    /\ NextFrame(c).type = type
    /\ processed' = [processed EXCEPT ![c] = @ + 1]

(* The frame in hand, once it has been taken up.                           *)
Frame(c) == toServer[c][processed[c]]

-----------------------------------------------------------------------------
(* run registers every connection before it reads its first frame.         *)
Start(c) ==
    /\ thread[c] = "start"
    /\ connectionIdToClient' = connectionIdToClient \cup {c}
    /\ Continue(c, "read")
    /\ UNCHANGED <<links, response, messageId, messageIdCounter, table, knownChannels,
                   channelToSubscribedClients, subscriptionToTopic>>

(* The end of the stream, after the frames that were sent or, when the     *)
(* connection is reset, before.                                            *)
EndOfStream(c) ==
    /\ thread[c] = "read"
    /\ c \notin alive
    /\ Continue(c, "over")
    /\ cut' = cut \cup {c}
    /\ UNCHANGED <<toServer, processed, toClient, received, alive, response, messageId,
                   messageIdCounter, table, registry>>

(* connectionHandler.send of an answer; a broken socket is not noticed.    *)
SendAnswer(c) ==
    /\ thread[c] = "answer"
    /\ toClient' = [toClient EXCEPT ![c] = Append(@, response[c])]
    /\ response' = [response EXCEPT ![c] = None]
    /\ Continue(c, "read")
    /\ UNCHANGED <<toServer, processed, received, alive, cut, messageId,
                   messageIdCounter, table, registry>>

-----------------------------------------------------------------------------
(* CONNECT.                                                                *)
LoginRefused(c) ==
    /\ Take(c, "CONNECT")
    /\ NextFrame(c).login \in connectedUsers
    /\ Respond(c, ErrorFrame)
    /\ UNCHANGED <<toServer, toClient, received, alive, cut, messageId, messageIdCounter,
                   table, registry>>

LoginAccepted(c) ==
    /\ Take(c, "CONNECT")
    /\ NextFrame(c).login \notin connectedUsers
    /\ connectedUsers' = connectedUsers \cup {NextFrame(c).login}
    /\ clientIdToUsername' = [clientIdToUsername EXCEPT ![c] = NextFrame(c).login]
    /\ Continue(c, "connect")
    /\ UNCHANGED <<toServer, toClient, received, alive, cut, response, messageId,
                   messageIdCounter, registry>>

(* Mistake: the connection is not registered again.                        *)
ConnectForgets(c) ==
    /\ thread[c] = "connect"
    /\ Respond(c, ConnectedFrame)
    /\ UNCHANGED <<links, messageId, messageIdCounter, table, registry>>

Connect(c) ==
    /\ thread[c] = "connect"
    /\ connectionIdToClient' = connectionIdToClient \cup {c}
    /\ Respond(c, ConnectedFrame)
    /\ UNCHANGED <<links, messageId, messageIdCounter, table, knownChannels,
                   channelToSubscribedClients, subscriptionToTopic>>

-----------------------------------------------------------------------------
(* SUBSCRIBE and UNSUBSCRIBE.                                              *)

(* Mistake: no receipt is sent.                                            *)
SubscribeUnanswered(c) ==
    LET f == NextFrame(c)
    IN  /\ Take(c, "SUBSCRIBE")
        /\ knownChannels' = knownChannels \cup {f.destination}
        /\ channelToSubscribedClients' =
              [channelToSubscribedClients EXCEPT ![f.destination][c] = f.id]
        /\ subscriptionToTopic' = [subscriptionToTopic EXCEPT ![c] = @ \cup {<<f.id, f.destination>>}]
        /\ Continue(c, "read")
        /\ UNCHANGED <<toServer, toClient, received, alive, cut, response, messageId,
                       messageIdCounter, table, connectionIdToClient>>

Subscribe(c) ==
    LET f == NextFrame(c)
    IN  /\ Take(c, "SUBSCRIBE")
        /\ knownChannels' = knownChannels \cup {f.destination}
        /\ channelToSubscribedClients' =
              [channelToSubscribedClients EXCEPT ![f.destination][c] = f.id]
        /\ subscriptionToTopic' =
              [subscriptionToTopic EXCEPT
                  ![c] = {e \in @ : e[1] # f.id} \cup {<<f.id, f.destination>>}]
        /\ Respond(c, ReceiptFrame(f.receipt))
        /\ UNCHANGED <<toServer, toClient, received, alive, cut, messageId, messageIdCounter,
                       table, connectionIdToClient>>

(* The entry of the index that an UNSUBSCRIBE removes, if there is one.    *)
Entries(c, s) == {e \in subscriptionToTopic[c] : e[1] = s}

Unsubscribe(c) ==
    LET f == NextFrame(c)
    IN  /\ Take(c, "UNSUBSCRIBE")
        /\ \E e \in Entries(c, f.id) :
              /\ subscriptionToTopic' = [subscriptionToTopic EXCEPT ![c] = @ \ {e}]
              /\ channelToSubscribedClients' =
                    [channelToSubscribedClients EXCEPT ![e[2]][c] = None]
        /\ Respond(c, ReceiptFrame(f.receipt))
        /\ UNCHANGED <<toServer, toClient, received, alive, cut, messageId, messageIdCounter,
                       table, connectionIdToClient, knownChannels>>

-----------------------------------------------------------------------------
(* SEND: the id is drawn, then the message goes to every subscriber but    *)
(* its author.                                                             *)
DrawId(c) ==
    /\ Take(c, "SEND")
    /\ messageIdCounter' = messageIdCounter + 1
    /\ messageId' = [messageId EXCEPT ![c] = messageIdCounter + 1]
    /\ Continue(c, "broadcast")
    /\ UNCHANGED <<toServer, toClient, received, alive, cut, response, table, registry>>

Recipients(c, ch) == {r \in Client \ {c} : channelToSubscribedClients[ch][r] # None}

(* The handler of a closed socket swallows the exception.                  *)
Deliver(c, to) ==
    LET f == Frame(c)
    IN  toClient' = [r \in Client |->
            IF r \in to \ cut
            THEN Append(toClient[r], MessageFrame(channelToSubscribedClients[f.destination][r],
                                                  messageId[c], f.destination, f.report))
            ELSE toClient[r]]

(* Mistake: the loop is left, not continued, when it comes to the author.  *)
BroadcastBreaks(c) ==
    /\ thread[c] = "broadcast"
    /\ Frame(c).destination \in knownChannels
    /\ \E to \in SUBSET Recipients(c, Frame(c).destination) : Deliver(c, to)
    /\ messageId' = [messageId EXCEPT ![c] = 0]
    /\ Continue(c, "read")
    /\ UNCHANGED <<toServer, processed, received, alive, cut, response,
                   messageIdCounter, table, registry>>

Broadcast(c) ==
    LET to == Recipients(c, Frame(c).destination)
    IN  /\ thread[c] = "broadcast"
        /\ Frame(c).destination \in knownChannels
        /\ to \subseteq connectionIdToClient
        /\ Deliver(c, to)
        /\ messageId' = [messageId EXCEPT ![c] = 0]
        /\ Continue(c, "read")
        /\ UNCHANGED <<toServer, processed, received, alive, cut, response,
                       messageIdCounter, table, registry>>

(* A recipient without a handler ends the loop; some have been served.     *)
BroadcastThrows(c) ==
    LET to == Recipients(c, Frame(c).destination)
    IN  /\ thread[c] = "broadcast"
        /\ ~(to \subseteq connectionIdToClient)
        /\ \E served \in SUBSET (to \cap connectionIdToClient) : Deliver(c, served)
        /\ Throw(c)
        /\ UNCHANGED <<toServer, processed, received, alive, response, messageId,
                       messageIdCounter, table, registry>>

-----------------------------------------------------------------------------
(* DISCONNECT: logout, then disconnect, then the receipt.                  *)
LogoutThrows(c) ==
    /\ Take(c, "DISCONNECT")
    /\ clientIdToUsername[c] = None
    /\ Throw(c)
    /\ UNCHANGED <<toServer, toClient, received, alive, response, messageId,
                   messageIdCounter, table, registry>>

(* Mistake: the receipt is sent before the registry is told.               *)
LogoutAnswers(c) ==
    /\ Take(c, "DISCONNECT")
    /\ clientIdToUsername[c] # None
    /\ connectedUsers' = connectedUsers \ {clientIdToUsername[c]}
    /\ clientIdToUsername' = [clientIdToUsername EXCEPT ![c] = None]
    /\ toClient' = [toClient EXCEPT ![c] = Append(@, ReceiptFrame(NextFrame(c).receipt))]
    /\ Continue(c, "disconnect")
    /\ UNCHANGED <<toServer, received, alive, cut, response, messageId, messageIdCounter,
                   registry>>

LogoutUser(c) ==
    /\ Take(c, "DISCONNECT")
    /\ clientIdToUsername[c] # None
    /\ connectedUsers' = connectedUsers \ {clientIdToUsername[c]}
    /\ clientIdToUsername' = [clientIdToUsername EXCEPT ![c] = None]
    /\ Continue(c, "disconnect")
    /\ UNCHANGED <<toServer, toClient, received, alive, cut, response, messageId,
                   messageIdCounter, registry>>

Disconnect(c) ==
    LET held == {channelToSubscribedClients[ch][c] : ch \in knownChannels}
    IN  /\ thread[c] = "disconnect"
        /\ connectionIdToClient' = connectionIdToClient \ {c}
        /\ channelToSubscribedClients' =
              [ch \in Channel |-> [channelToSubscribedClients[ch] EXCEPT ![c] = None]]
        /\ subscriptionToTopic' =
              [subscriptionToTopic EXCEPT ![c] = {e \in @ : e[1] \notin held}]
        /\ Respond(c, ReceiptFrame(Frame(c).receipt))
        /\ UNCHANGED <<links, messageId, messageIdCounter, table, knownChannels>>

-----------------------------------------------------------------------------
ServerStep(c) ==
    \/ Start(c) \/ EndOfStream(c) \/ SendAnswer(c)
    \/ LoginRefused(c) \/ LoginAccepted(c) \/ Connect(c)
    \/ Subscribe(c) \/ Unsubscribe(c)
    \/ DrawId(c) \/ Broadcast(c) \/ BroadcastThrows(c)
    \/ LogoutThrows(c) \/ LogoutUser(c) \/ Disconnect(c)

ServerTypeOK ==
    /\ thread \in [Client -> {"start", "read", "connect", "answer", "broadcast",
                              "disconnect", "over"}]
    /\ response \in [Client -> Answer \cup {None}]
    /\ messageId \in [Client -> Nat]
    /\ messageIdCounter \in Nat
    /\ connectedUsers \in SUBSET User
    /\ clientIdToUsername \in [Client -> User \cup {None}]
    /\ connectionIdToClient \in SUBSET Client
    /\ knownChannels \in SUBSET Channel
    /\ channelToSubscribedClients \in [Channel -> [Client -> Nat \cup {None}]]
    /\ subscriptionToTopic \in [Client -> SUBSET (Nat \X Channel)]
=============================================================================
