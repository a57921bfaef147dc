---------------------------- MODULE Connections ----------------------------
(***************************************************************************)
(* The registry shared by all connections of the STOMP server              *)
(* (srv/ConnectionsImpl.java): which connections can be delivered to, who  *)
(* is subscribed to which channel under which id, and the index from a     *)
(* subscription back to its channel.                                       *)
(*                                                                         *)
(* Every connection's frames are processed one after the other, by its own *)
(* thread (threadPerClient) or by one worker at a time (reactor), so a     *)
(* connection id also names the thread of control that calls the registry. *)
(* The monitors of the code's synchronized blocks are taken one by one, in *)
(* the order the code takes them, and are all held until the block is left,*)
(* normally or by an exception.  Publishing delivers to one recipient per  *)
(* step.                                                                   *)
(***************************************************************************)
EXTENDS Naturals, Sequences

CONSTANTS
    Conn,      (* connection ids                                           *)
    Channel,   (* channel (topic) names                                    *)
    SubId,     (* subscription ids, chosen by the clients                  *)
    None,      (* absence of a key in a map, and of an owner of a monitor  *)
    MaxCalls   (* bound: calls one connection makes                        *)

ASSUME NoneAssumption == None \notin Conn /\ None \notin Channel /\ None \notin SubId
ASSUME MaxCallsAssumption == MaxCalls \in Nat

VARIABLES
    connectionIdToClient,       (* the keys of that map: deliverable ids   *)
    knownChannels,              (* keys of channelToSubscribedClients      *)
    channelToSubscribedClients, (* channel -> connection -> sub. id        *)
    subscriptionToTopic,        (* connection -> sub. id -> channel        *)
    owner,                      (* monitor -> its owner                    *)
    pc,                         (* what each connection's thread does      *)
    call,                       (* arguments of the call in progress       *)
    todo,                       (* recipients the loop has not reached     *)
    sent,                       (* frames handed to each client's handler  *)
    calls,                      (* number of calls each connection made    *)
    raised                      (* connections whose call has thrown       *)

registry == <<connectionIdToClient, knownChannels,
              channelToSubscribedClients, subscriptionToTopic>>
vars == <<registry, owner, pc, call, todo, sent, calls, raised>>

Monitor == {"clients", "channels", "topics"}

Label == {"idle", "connect",
          "subscribe", "subscribe_topics", "subscribe_put",
          "unsubscribe", "unsubscribe_topics", "unsubscribe_remove",
          "send", "send_clients", "send_start", "send_loop",
          "disconnect", "disconnect_channels", "disconnect_topics", "disconnect_remove"}

NoArguments == [channel |-> None, sub |-> None]

Arguments == [channel : Channel \cup {None}, sub : SubId \cup {None}]

Message == [from : Conn, number : 1..MaxCalls, channel : Channel, sub : SubId]

Init ==
    /\ connectionIdToClient = {}
    /\ knownChannels = {}
    /\ channelToSubscribedClients = [ch \in Channel |-> [c \in Conn |-> None]]
    /\ subscriptionToTopic = [c \in Conn |-> [s \in SubId |-> None]]
    /\ owner = [m \in Monitor |-> None]
    /\ pc = [c \in Conn |-> "idle"]
    /\ call = [c \in Conn |-> NoArguments]
    /\ todo = [c \in Conn |-> {}]
    /\ sent = [c \in Conn |-> <<>>]
    /\ calls = [c \in Conn |-> 0]
    /\ raised = {}

-----------------------------------------------------------------------------
(* Control of one call.                                                    *)

Subscribed(c, ch) == channelToSubscribedClients[ch][c] # None

Call(c, label, ch, s) ==
    /\ pc[c] = "idle"
    /\ calls[c] < MaxCalls
    /\ pc' = [pc EXCEPT ![c] = label]
    /\ call' = [call EXCEPT ![c] = [channel |-> ch, sub |-> s]]
    /\ calls' = [calls EXCEPT ![c] = @ + 1]
    /\ UNCHANGED <<registry, owner, todo, sent, raised>>

(* Mistake: the blocks are not synchronized.                               *)
FreeAlways(m) == owner[m] = None \/ owner[m] # None

Free(m) == owner[m] = None

(* Entering one synchronized block on the way to the body.                 *)
Enter(c, from, m, to) ==
    /\ pc[c] = from
    /\ Free(m)
    /\ owner' = [owner EXCEPT ![m] = c]
    /\ pc' = [pc EXCEPT ![c] = to]
    /\ UNCHANGED <<registry, call, todo, sent, calls, raised>>

(* Mistake: the outermost monitor is not given back.                       *)
LeaveKeepsClients(c) ==
    /\ pc' = [pc EXCEPT ![c] = "idle"]
    /\ call' = [call EXCEPT ![c] = NoArguments]
    /\ owner' = [m \in Monitor |-> IF owner[m] = c /\ m # "clients" THEN None ELSE owner[m]]

(* Leaving every synchronized block, and the call.                         *)
Leave(c) ==
    /\ pc' = [pc EXCEPT ![c] = "idle"]
    /\ call' = [call EXCEPT ![c] = NoArguments]
    /\ owner' = [m \in Monitor |-> IF owner[m] = c THEN None ELSE owner[m]]

Return(c) == Leave(c) /\ UNCHANGED raised

Throw(c) == Leave(c) /\ raised' = raised \cup {c}

-----------------------------------------------------------------------------
(* connect(connectionId, handler): one put under one monitor.              *)

CallConnect(c) == Call(c, "connect", None, None)

Connect(c) ==
    /\ pc[c] = "connect"
    /\ Free("clients")
    /\ connectionIdToClient' = connectionIdToClient \cup {c}
    /\ Return(c)
    /\ UNCHANGED <<knownChannels, channelToSubscribedClients, subscriptionToTopic,
                   todo, sent, calls>>

-----------------------------------------------------------------------------
(* subscribe(connectionId, channel, subscriptionId): a put overwrites.     *)

CallSubscribe(c, ch, s) == Call(c, "subscribe", ch, s)

SubscribeChannels(c) == Enter(c, "subscribe", "channels", "subscribe_topics")
SubscribeTopics(c)   == Enter(c, "subscribe_topics", "topics", "subscribe_put")

SubscribePut(c) ==
    LET ch == call[c].channel
        s  == call[c].sub
    IN  /\ pc[c] = "subscribe_put"
        /\ knownChannels' = knownChannels \cup {ch}
        /\ channelToSubscribedClients' = [channelToSubscribedClients EXCEPT ![ch][c] = s]
        /\ subscriptionToTopic' = [subscriptionToTopic EXCEPT ![c][s] = ch]
        /\ Return(c)
        /\ UNCHANGED <<connectionIdToClient, todo, sent, calls>>

-----------------------------------------------------------------------------
(* unsubscribe(connectionId, subscriptionId): the channel comes from the   *)
(* index; an id the index does not know makes get(null) throw.             *)

CallUnsubscribe(c, s) == Call(c, "unsubscribe", None, s)

UnsubscribeChannels(c) == Enter(c, "unsubscribe", "channels", "unsubscribe_topics")
UnsubscribeTopics(c)   == Enter(c, "unsubscribe_topics", "topics", "unsubscribe_remove")

UnsubscribeUnknown(c) ==
    /\ pc[c] = "unsubscribe_remove"
    /\ subscriptionToTopic[c][call[c].sub] = None
    /\ Throw(c)
    /\ UNCHANGED <<registry, todo, sent, calls>>

(* Mistake: the index is read with get where it should be removed from.    *)
UnsubscribeKeepsIndex(c) ==
    LET topic == subscriptionToTopic[c][call[c].sub]
    IN  /\ pc[c] = "unsubscribe_remove"
        /\ topic # None
        /\ channelToSubscribedClients' = [channelToSubscribedClients EXCEPT ![topic][c] = None]
        /\ Return(c)
        /\ UNCHANGED <<connectionIdToClient, knownChannels, subscriptionToTopic,
                       todo, sent, calls>>

UnsubscribeRemove(c) ==
    LET s     == call[c].sub
        topic == subscriptionToTopic[c][s]
    IN  /\ pc[c] = "unsubscribe_remove"
        /\ topic # None
        /\ subscriptionToTopic' = [subscriptionToTopic EXCEPT ![c][s] = None]
        /\ channelToSubscribedClients' = [channelToSubscribedClients EXCEPT ![topic][c] = None]
        /\ Return(c)
        /\ UNCHANGED <<connectionIdToClient, knownChannels, todo, sent, calls>>

-----------------------------------------------------------------------------
(* send(channel, senderConnectionId, createMessageFunc): deliver to every  *)
(* other subscriber, in an order that the map chooses.  The order of the   *)
(* monitors is the reverse of the one disconnect takes them in.            *)

CallSend(c, ch) == Call(c, "send", ch, None)

SendChannels(c) == Enter(c, "send", "channels", "send_clients")
SendClients(c)  == Enter(c, "send_clients", "clients", "send_start")

(* A channel nobody ever subscribed to has no map: get(channel) is null.   *)
SendUnknown(c) ==
    /\ pc[c] = "send_start"
    /\ call[c].channel \notin knownChannels
    /\ Throw(c)
    /\ UNCHANGED <<registry, todo, sent, calls>>

(* Mistake: the message goes to every connection.                          *)
SendStartToAll(c) ==
    /\ pc[c] = "send_start"
    /\ call[c].channel \in knownChannels
    /\ todo' = [todo EXCEPT ![c] = connectionIdToClient \ {c}]
    /\ pc' = [pc EXCEPT ![c] = "send_loop"]
    /\ UNCHANGED <<registry, owner, call, sent, calls, raised>>

(* Mistake: the author is not skipped.                                     *)
SendStartEchoes(c) ==
    /\ pc[c] = "send_start"
    /\ call[c].channel \in knownChannels
    /\ todo' = [todo EXCEPT ![c] = {r \in Conn : Subscribed(r, call[c].channel)}]
    /\ pc' = [pc EXCEPT ![c] = "send_loop"]
    /\ UNCHANGED <<registry, owner, call, sent, calls, raised>>

SendStart(c) ==
    /\ pc[c] = "send_start"
    /\ call[c].channel \in knownChannels
    /\ todo' = [todo EXCEPT ![c] = {r \in Conn \ {c} : Subscribed(r, call[c].channel)}]
    /\ pc' = [pc EXCEPT ![c] = "send_loop"]
    /\ UNCHANGED <<registry, owner, call, sent, calls, raised>>

MessageTo(c, r) ==
    [from |-> c, number |-> calls[c], channel |-> call[c].channel,
     sub |-> channelToSubscribedClients[call[c].channel][r]]

(* Mistake: the loop does not move on.                                     *)
SendOneAgain(c, r) ==
    /\ pc[c] = "send_loop"
    /\ r \in todo[c]
    /\ r \in connectionIdToClient
    /\ sent' = [sent EXCEPT ![r] = Append(@, MessageTo(c, r))]
    /\ UNCHANGED <<registry, owner, pc, call, todo, calls, raised>>

SendOne(c, r) ==
    /\ pc[c] = "send_loop"
    /\ r \in todo[c]
    /\ r \in connectionIdToClient
    /\ sent' = [sent EXCEPT ![r] = Append(@, MessageTo(c, r))]
    /\ todo' = [todo EXCEPT ![c] = @ \ {r}]
    /\ UNCHANGED <<registry, owner, pc, call, calls, raised>>

(* A subscriber without a handler: the loop ends with the exception, and   *)
(* the recipients it has not reached get nothing.                          *)
SendOneMissing(c, r) ==
    /\ pc[c] = "send_loop"
    /\ r \in todo[c]
    /\ r \notin connectionIdToClient
    /\ todo' = [todo EXCEPT ![c] = {}]
    /\ Throw(c)
    /\ UNCHANGED <<registry, sent, calls>>

SendDone(c) ==
    /\ pc[c] = "send_loop"
    /\ todo[c] = {}
    /\ Return(c)
    /\ UNCHANGED <<registry, todo, sent, calls>>

-----------------------------------------------------------------------------
(* disconnect(connectionId): forget the connection and its subscriptions.  *)
(* Only the index entries of the ids found in the channel maps are removed.*)

CallDisconnect(c) == Call(c, "disconnect", None, None)

(* Mistake: the monitor of the index comes first.                          *)
DisconnectTopicsFirst(c) == Enter(c, "disconnect", "topics", "disconnect_channels")

DisconnectClients(c)  == Enter(c, "disconnect", "clients", "disconnect_channels")
DisconnectChannels(c) == Enter(c, "disconnect_channels", "channels", "disconnect_topics")
DisconnectTopics(c)   == Enter(c, "disconnect_topics", "topics", "disconnect_remove")

(* Mistake: the subscriptions survive.                                     *)
DisconnectClientOnly(c) ==
    /\ pc[c] = "disconnect_remove"
    /\ connectionIdToClient' = connectionIdToClient \ {c}
    /\ Return(c)
    /\ UNCHANGED <<knownChannels, channelToSubscribedClients, subscriptionToTopic,
                   todo, sent, calls>>

DisconnectRemove(c) ==
    LET held == {channelToSubscribedClients[ch][c] : ch \in knownChannels}
    IN  /\ pc[c] = "disconnect_remove"
        /\ connectionIdToClient' = connectionIdToClient \ {c}
        /\ channelToSubscribedClients' =
              [ch \in Channel |-> [channelToSubscribedClients[ch] EXCEPT ![c] = None]]
        /\ subscriptionToTopic' =
              [subscriptionToTopic EXCEPT ![c] =
                  [s \in SubId |-> IF s \in held THEN None ELSE @[s]]]
        /\ Return(c)
        /\ UNCHANGED <<knownChannels, todo, sent, calls>>

-----------------------------------------------------------------------------
(* The steps a call takes by itself, once made.                            *)
Step(c) ==
    \/ Connect(c)
    \/ SubscribeChannels(c) \/ SubscribeTopics(c) \/ SubscribePut(c)
    \/ UnsubscribeChannels(c) \/ UnsubscribeTopics(c)
    \/ UnsubscribeUnknown(c) \/ UnsubscribeRemove(c)
    \/ SendChannels(c) \/ SendClients(c) \/ SendUnknown(c) \/ SendStart(c)
    \/ \E r \in Conn : SendOne(c, r) \/ SendOneMissing(c, r)
    \/ SendDone(c)
    \/ DisconnectClients(c) \/ DisconnectChannels(c) \/ DisconnectTopics(c)
    \/ DisconnectRemove(c)

(* The calls that frames of an arbitrary STOMP client lead to: the server  *)
(* checks neither logins nor ids before it calls the registry.             *)
AnyCall(c) ==
    \/ CallConnect(c)
    \/ \E ch \in Channel, s \in SubId : CallSubscribe(c, ch, s)
    \/ \E s \in SubId : CallUnsubscribe(c, s)
    \/ \E ch \in Channel : CallSend(c, ch)
    \/ CallDisconnect(c)

(* The calls the client of this repository leads to: it asks for a login   *)
(* before anything else, joins a channel it has not joined under an id it  *)
(* has not used, and leaves or reports to channels it has joined.          *)
MaySubscribe(c, ch, s) ==
    /\ c \in connectionIdToClient
    /\ ~Subscribed(c, ch)
    /\ subscriptionToTopic[c][s] = None

Join(c, ch, s) == MaySubscribe(c, ch, s) /\ CallSubscribe(c, ch, s)
Exit(c, s)     == subscriptionToTopic[c][s] # None /\ CallUnsubscribe(c, s)
Report(c, ch)  == Subscribed(c, ch) /\ CallSend(c, ch)
Logout(c)      == c \in connectionIdToClient /\ CallDisconnect(c)

OrderlyCall(c) ==
    \/ CallConnect(c)
    \/ \E ch \in Channel, s \in SubId : Join(c, ch, s)
    \/ \E s \in SubId : Exit(c, s)
    \/ \E ch \in Channel : Report(c, ch)
    \/ Logout(c)

Next == \E c \in Conn : OrderlyCall(c) \/ Step(c)

Spec == Init /\ [][Next]_vars

AnyNext == \E c \in Conn : AnyCall(c) \/ Step(c)

AnySpec == Init /\ [][AnyNext]_vars

(* Every thread keeps being scheduled; nobody is obliged to make a call.   *)
Fairness == \A c \in Conn : WF_vars(Step(c))

FairSpec == Spec /\ Fairness

-----------------------------------------------------------------------------
TypeOK ==
    /\ connectionIdToClient \in SUBSET Conn
    /\ knownChannels \in SUBSET Channel
    /\ channelToSubscribedClients \in [Channel -> [Conn -> SubId \cup {None}]]
    /\ subscriptionToTopic \in [Conn -> [SubId -> Channel \cup {None}]]
    /\ owner \in [Monitor -> Conn \cup {None}]
    /\ pc \in [Conn -> Label]
    /\ call \in [Conn -> Arguments]
    /\ todo \in [Conn -> SUBSET Conn]
    /\ sent \in [Conn -> Seq(Message)]
    /\ calls \in [Conn -> 0..MaxCalls]
    /\ raised \in SUBSET Conn

-----------------------------------------------------------------------------
(* Safety for every client (AnySpec).                                      *)

(* Broadcasts are totally ordered: no two clients see two broadcasts in    *)
(* opposite orders and none sees one twice, because send holds the         *)
(* monitors for the whole loop (ConnectionsImpl.java:47-53).               *)
SameBroadcast(m1, m2) == m1.from = m2.from /\ m1.number = m2.number

SameOrder ==
    \A r1, r2 \in Conn :
        \A i1, j1 \in DOMAIN sent[r1], i2, j2 \in DOMAIN sent[r2] :
            /\ SameBroadcast(sent[r1][i1], sent[r2][i2])
            /\ SameBroadcast(sent[r1][j1], sent[r2][j2])
            /\ i1 < j1
            => i2 < j2

(* A frame reaches a handler only while its client is connected and        *)
(* subscribed to the frame's channel, carries the id the client holds at   *)
(* that very moment, and never goes back to its author: the loop's view of *)
(* the subscribers cannot become stale (ConnectionsImpl.java:49-53).       *)
LastOf(seq) == seq[Len(seq)]

OnlyToSubscribers ==
    [][\A r \in Conn : sent'[r] # sent[r] =>
          LET m == LastOf(sent'[r])
          IN  /\ m.from # r
              /\ m.sub # None
              /\ r \in connectionIdToClient'
              /\ channelToSubscribedClients'[m.channel][r] = m.sub]_vars

(* The monitors can only ever be stuck in one way: a send that holds the   *)
(* channels and wants the clients, against a disconnect that holds the     *)
(* clients and wants the channels (ConnectionsImpl.java:47-48 and 61-62).  *)
WaitingFor ==
    [clients  |-> {"connect", "send_clients", "disconnect"},
     channels |-> {"subscribe", "unsubscribe", "send", "disconnect_channels"},
     topics   |-> {"subscribe_topics", "unsubscribe_topics", "disconnect_topics"}]

Stuck(c) == \E m \in Monitor : pc[c] \in WaitingFor[m] /\ ~Free(m)

OnlyInversionBlocks ==
    (\E c \in Conn : pc[c] # "idle") /\ (\A c \in Conn : pc[c] # "idle" => Stuck(c))
    => \E s, d \in Conn : pc[s] = "send_clients" /\ pc[d] = "disconnect_channels"

-----------------------------------------------------------------------------
(* Safety when the clients are this repository's (Spec).                   *)

(* The two maps describe the same subscriptions: the index of subscription *)
(* ids (ConnectionsImpl.java:18-20) is the inverse of the subscribers of   *)
(* the channels (16-17), at every moment another thread can look.          *)
IndexMatches ==
    \A c \in Conn, ch \in Channel, s \in SubId :
        channelToSubscribedClients[ch][c] = s <=> subscriptionToTopic[c][s] = ch

(* Whoever is subscribed can be delivered to: disconnect removes a client  *)
(* together with all its subscriptions (ConnectionsImpl.java:65-69), so    *)
(* the lookup of the handler in line 53 finds one.                         *)
SubscribersConnected ==
    \A c \in Conn, ch \in Channel : Subscribed(c, ch) => c \in connectionIdToClient

(* No call of the registry ends with a NullPointerException, in particular *)
(* no broadcast stops half-way (ConnectionsImpl.java:49, 53 and 101).      *)
NoException == raised = {}

(* Every operation takes effect at one instant, and a broadcast reaches    *)
(* exactly the subscribers of that instant: what a client was handed, and  *)
(* what the broadcast in progress still owes it, is its inbox.             *)
Owed(r) ==
    LET c == owner["channels"]
    IN  c # None /\ pc[c] = "send_loop" /\ r \in todo[c]

Inbox ==
    [r \in Conn |-> IF Owed(r) THEN Append(sent[r], MessageTo(owner["channels"], r))
                    ELSE sent[r]]

Registry == INSTANCE TopicRegistry WITH
    connected <- connectionIdToClient, subscription <- channelToSubscribedClients,
    inbox <- Inbox, Number <- 1..MaxCalls

ImplementsRegistry == Registry!Spec

-----------------------------------------------------------------------------
(* Liveness.                                                               *)

(* Every call of the registry returns, unless a send and a disconnect have *)
(* met between their monitors (ConnectionsImpl.java:47-48 and 61-62).      *)
Inversion == \E s, d \in Conn : pc[s] = "send_clients" /\ pc[d] = "disconnect_channels"

EveryCallReturns == \A c \in Conn : pc[c] # "idle" ~> (pc[c] = "idle" \/ Inversion)

(* "The main loop of the server, Starts listening and handling new         *)
(* clients." (Server.java:13): a login gets as far as being registered.    *)
NewClientsHandled == \A c \in Conn : pc[c] = "connect" ~> pc[c] = "idle"

-----------------------------------------------------------------------------
(* The inductive invariants.                                               *)

(* Who is inside which synchronized block.                                 *)
Inside ==
    [clients  |-> {"send_start", "send_loop",
                   "disconnect_channels", "disconnect_topics", "disconnect_remove"},
     channels |-> {"subscribe_topics", "subscribe_put",
                   "unsubscribe_topics", "unsubscribe_remove",
                   "send_clients", "send_start", "send_loop",
                   "disconnect_topics", "disconnect_remove"},
     topics   |-> {"subscribe_put", "unsubscribe_remove", "disconnect_remove"}]

MonitorsHeld == \A c \in Conn, m \in Monitor : owner[m] = c <=> pc[c] \in Inside[m]

Subscribing   == {"subscribe", "subscribe_topics", "subscribe_put"}
Unsubscribing == {"unsubscribe", "unsubscribe_topics", "unsubscribe_remove"}
Sending       == {"send", "send_clients", "send_start", "send_loop"}

(* A call in progress has been counted and has the arguments it needs.     *)
CallsGood ==
    \A c \in Conn :
        /\ pc[c] # "idle" => calls[c] \in 1..MaxCalls
        /\ pc[c] \in Subscribing \cup Sending => call[c].channel \in Channel
        /\ pc[c] \in Subscribing \cup Unsubscribing => call[c].sub \in SubId

(* What a broadcast still has to reach is subscribed, and never its author.*)
LoopGood ==
    \A c \in Conn :
        /\ pc[c] # "send_loop" => todo[c] = {}
        /\ \A r \in todo[c] : r # c /\ Subscribed(r, call[c].channel)

AnyInv == TypeOK /\ MonitorsHeld /\ CallsGood /\ LoopGood

(* What was handed out has the number of a call that was made.  Where the  *)
(* broadcast in progress has been it is the last frame, and it has not been*)
(* where it still has to go.                                               *)
LastSent ==
    \A r \in Conn : \A i \in DOMAIN sent[r] :
        LET m == sent[r][i]
        IN  /\ m.number <= calls[m.from]
            /\ m.number = calls[m.from] =>
                  \/ pc[m.from] = "idle"
                  \/ pc[m.from] = "send_loop" /\ r \notin todo[m.from] /\ i = Len(sent[r])

OrderInv == LastSent /\ SameOrder

(* What an orderly client checked before its call is still so: only its    *)
(* own calls change its subscriptions.                                     *)
StillOrderly ==
    \A c \in Conn :
        /\ pc[c] \in Subscribing => MaySubscribe(c, call[c].channel, call[c].sub)
        /\ pc[c] \in Unsubscribing => subscriptionToTopic[c][call[c].sub] # None
        /\ pc[c] \in Sending => Subscribed(c, call[c].channel)

ChannelsKnown == \A c \in Conn, ch \in Channel : Subscribed(c, ch) => ch \in knownChannels

OrderlyInv ==
    /\ AnyInv
    /\ StillOrderly
    /\ ChannelsKnown
    /\ IndexMatches
    /\ SubscribersConnected
    /\ NoException
=============================================================================
