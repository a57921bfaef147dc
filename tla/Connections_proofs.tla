------------------------ MODULE Connections_proofs ------------------------
(***************************************************************************)
(* Proofs about the connection registry: for any number of connections,    *)
(* channels, subscription ids and calls.                                   *)
(***************************************************************************)
EXTENDS Connections, TLAPS

USE DEF Monitor, Label, NoArguments, Arguments, Subscribing, Unsubscribing, Sending

-----------------------------------------------------------------------------
(* Every client: types, monitors, arguments.                               *)

LEMMA AnyInit == Init => AnyInv
  BY NoneAssumption, MaxCallsAssumption
  DEF Init, AnyInv, TypeOK, MonitorsHeld, CallsGood, LoopGood, Inside

(* A call that starts.                                                     *)
LEMMA CallAny ==
    ASSUME AnyInv, NEW c \in Conn,
           NEW l \in {"connect", "subscribe", "unsubscribe", "send", "disconnect"},
           NEW ch \in Channel \cup {None}, NEW s \in SubId \cup {None},
           l \in {"subscribe", "send"} => ch \in Channel,
           l \in {"subscribe", "unsubscribe"} => s \in SubId,
           Call(c, l, ch, s)
    PROVE  AnyInv'
<1> USE DEF Call, registry
<1>1. TypeOK'
  BY SMTT(30), MaxCallsAssumption DEF AnyInv, TypeOK
<1>2. MonitorsHeld'
  <2>1. \A m \in Monitor : {"idle", l} \cap Inside[m] = {}
    BY DEF Inside
  <2>2. QED
    BY <2>1 DEF AnyInv, TypeOK, MonitorsHeld
<1>3. CallsGood'
  BY MaxCallsAssumption DEF AnyInv, TypeOK, CallsGood
<1>4. LoopGood'
  BY DEF AnyInv, TypeOK, LoopGood, Subscribed
<1>5. QED
  BY <1>1, <1>2, <1>3, <1>4 DEF AnyInv

(* A synchronized block that is entered.                                   *)
SameCall(from, to) ==
    /\ from # "idle" /\ to # "idle" /\ from # "send_loop" /\ to # "send_loop"
    /\ to \in Subscribing <=> from \in Subscribing
    /\ to \in Unsubscribing <=> from \in Unsubscribing
    /\ to \in Sending <=> from \in Sending

LEMMA EnterAny ==
    ASSUME AnyInv, NEW c \in Conn, NEW from \in Label, NEW to \in Label, NEW m \in Monitor,
           SameCall(from, to),
           \A n \in Monitor : to \in Inside[n] <=> (from \in Inside[n] \/ n = m),
           Enter(c, from, m, to)
    PROVE  AnyInv'
<1> USE DEF Enter, Free, registry, SameCall
<1>1. TypeOK'
  BY DEF AnyInv, TypeOK
<1>2. MonitorsHeld'
  BY NoneAssumption DEF AnyInv, TypeOK, MonitorsHeld
<1>3. CallsGood'
  BY DEF AnyInv, TypeOK, CallsGood
<1>4. LoopGood'
  BY DEF AnyInv, TypeOK, LoopGood, Subscribed
<1>5. QED
  BY <1>1, <1>2, <1>3, <1>4 DEF AnyInv

(* The blocks of every method, left at the end of its call.                *)
LEMMA LeaveMonitors ==
    ASSUME AnyInv, NEW c \in Conn, Leave(c)
    PROVE  /\ MonitorsHeld'
           /\ owner' \in [Monitor -> Conn \cup {None}]
           /\ pc' \in [Conn -> Label]
           /\ call' \in [Conn -> Arguments]
<1>1. \A m \in Monitor : "idle" \notin Inside[m]
  BY DEF Inside
<1>2. QED
  BY <1>1, NoneAssumption DEF AnyInv, TypeOK, MonitorsHeld, Leave

LEMMA LeaveCalls ==
    ASSUME AnyInv, NEW c \in Conn, Leave(c), UNCHANGED calls
    PROVE  CallsGood'
BY DEF AnyInv, TypeOK, CallsGood, Leave

(* Only the thread that is inside the channels' block reaches recipients.  *)
LEMMA OneSender ==
    ASSUME AnyInv, NEW c \in Conn, NEW d \in Conn,
           pc[c] \in Inside["channels"], pc[d] = "send_loop"
    PROVE  c = d
BY DEF AnyInv, MonitorsHeld, Inside

LEMMA LoopInside == \A m \in Monitor : "send_start" \in Inside[m] <=> "send_loop" \in Inside[m]
BY DEF Inside

LEMMA StepAny == ASSUME AnyInv, NEW c \in Conn, Step(c) PROVE AnyInv'
<1> USE DEF SameCall
<1>1. CASE Connect(c)
  <2>1. TypeOK'
    BY <1>1, LeaveMonitors DEF Connect, Return, AnyInv, TypeOK
  <2>2. LoopGood'
    BY <1>1 DEF Connect, Return, Leave, AnyInv, TypeOK, LoopGood, Subscribed
  <2>3. QED
    BY <1>1, <2>1, <2>2, LeaveMonitors, LeaveCalls DEF Connect, Return, AnyInv
<1>2. CASE SubscribeChannels(c)
  BY <1>2, EnterAny DEF SubscribeChannels, Inside
<1>3. CASE SubscribeTopics(c)
  BY <1>3, EnterAny DEF SubscribeTopics, Inside
<1>4. CASE SubscribePut(c)
  <2>1. TypeOK'
    BY <1>4, LeaveMonitors DEF SubscribePut, Return, AnyInv, TypeOK, CallsGood
  <2>2. LoopGood'
    <3>1. pc[c] \in Inside["channels"]
      BY <1>4 DEF SubscribePut, Inside
    <3>2. \A d \in Conn : pc'[d] # "send_loop" /\ todo'[d] = {}
      BY <1>4, <3>1, OneSender DEF SubscribePut, Return, Leave, AnyInv, TypeOK, LoopGood
    <3>3. QED
      BY <3>2 DEF LoopGood
  <2>3. QED
    BY <1>4, <2>1, <2>2, LeaveMonitors, LeaveCalls DEF SubscribePut, Return, AnyInv
<1>5. CASE UnsubscribeChannels(c)
  BY <1>5, EnterAny DEF UnsubscribeChannels, Inside
<1>6. CASE UnsubscribeTopics(c)
  BY <1>6, EnterAny DEF UnsubscribeTopics, Inside
<1>7. CASE UnsubscribeUnknown(c)
  <2>1. TypeOK'
    BY <1>7, LeaveMonitors DEF UnsubscribeUnknown, Throw, AnyInv, TypeOK, registry
  <2>2. LoopGood'
    BY <1>7 DEF UnsubscribeUnknown, Throw, Leave, AnyInv, TypeOK, LoopGood, Subscribed, registry
  <2>3. QED
    BY <1>7, <2>1, <2>2, LeaveMonitors, LeaveCalls DEF UnsubscribeUnknown, Throw, AnyInv
<1>8. CASE UnsubscribeRemove(c)
  <2>1. TypeOK'
    BY <1>8, LeaveMonitors DEF UnsubscribeRemove, Return, AnyInv, TypeOK, CallsGood
  <2>2. LoopGood'
    <3>1. pc[c] \in Inside["channels"]
      BY <1>8 DEF UnsubscribeRemove, Inside
    <3>2. \A d \in Conn : pc'[d] # "send_loop" /\ todo'[d] = {}
      BY <1>8, <3>1, OneSender DEF UnsubscribeRemove, Return, Leave, AnyInv, TypeOK, LoopGood
    <3>3. QED
      BY <3>2 DEF LoopGood
  <2>3. QED
    BY <1>8, <2>1, <2>2, LeaveMonitors, LeaveCalls DEF UnsubscribeRemove, Return, AnyInv
<1>9. CASE SendChannels(c)
  BY <1>9, EnterAny DEF SendChannels, Inside
<1>10. CASE SendClients(c)
  BY <1>10, EnterAny DEF SendClients, Inside
<1>11. CASE SendUnknown(c)
  <2>1. TypeOK'
    BY <1>11, LeaveMonitors DEF SendUnknown, Throw, AnyInv, TypeOK, registry
  <2>2. LoopGood'
    BY <1>11 DEF SendUnknown, Throw, Leave, AnyInv, TypeOK, LoopGood, Subscribed, registry
  <2>3. QED
    BY <1>11, <2>1, <2>2, LeaveMonitors, LeaveCalls DEF SendUnknown, Throw, AnyInv
<1>12. CASE SendStart(c)
  <2> USE <1>12 DEF SendStart, AnyInv, TypeOK, registry
  <2>1. TypeOK'
    OBVIOUS
  <2>2. MonitorsHeld'
    BY LoopInside DEF MonitorsHeld
  <2>3. CallsGood'
    BY DEF CallsGood
  <2>4. LoopGood'
    BY DEF LoopGood, Subscribed
  <2>5. QED
    BY <2>1, <2>2, <2>3, <2>4
<1>13. ASSUME NEW r \in Conn, SendOne(c, r)
       PROVE  AnyInv'
  <2> USE <1>13 DEF SendOne, AnyInv, TypeOK, registry
  <2>1. TypeOK'
    <3>1. MessageTo(c, r) \in Message
      <4>1. channelToSubscribedClients[call[c].channel][r] \in SubId
        BY DEF LoopGood, CallsGood, Subscribed
      <4>2. calls[c] \in 1..MaxCalls /\ call[c].channel \in Channel
        BY DEF CallsGood
      <4>3. QED
        BY <4>1, <4>2 DEF MessageTo, Message
    <3>2. QED
      BY <3>1
  <2>2. MonitorsHeld' /\ CallsGood'
    BY DEF MonitorsHeld, CallsGood
  <2>3. LoopGood'
    BY DEF LoopGood, Subscribed
  <2>4. QED
    BY <2>1, <2>2, <2>3
<1>14. ASSUME NEW r \in Conn, SendOneMissing(c, r)
       PROVE  AnyInv'
  <2>1. TypeOK'
    BY <1>14, LeaveMonitors DEF SendOneMissing, Throw, AnyInv, TypeOK, registry
  <2>2. LoopGood'
    BY <1>14 DEF SendOneMissing, Throw, Leave, AnyInv, TypeOK, LoopGood, Subscribed, registry
  <2>3. QED
    BY <1>14, <2>1, <2>2, LeaveMonitors, LeaveCalls DEF SendOneMissing, Throw, AnyInv
<1>15. CASE SendDone(c)
  <2>1. TypeOK'
    BY <1>15, LeaveMonitors DEF SendDone, Return, AnyInv, TypeOK, registry
  <2>2. LoopGood'
    BY <1>15 DEF SendDone, Return, Leave, AnyInv, TypeOK, LoopGood, Subscribed, registry
  <2>3. QED
    BY <1>15, <2>1, <2>2, LeaveMonitors, LeaveCalls DEF SendDone, Return, AnyInv
<1>16. CASE DisconnectClients(c)
  BY <1>16, EnterAny DEF DisconnectClients, Inside
<1>17. CASE DisconnectChannels(c)
  BY <1>17, EnterAny DEF DisconnectChannels, Inside
<1>18. CASE DisconnectTopics(c)
  BY <1>18, EnterAny DEF DisconnectTopics, Inside
<1>19. CASE DisconnectRemove(c)
  <2>1. TypeOK'
    <3>1. channelToSubscribedClients' \in [Channel -> [Conn -> SubId \cup {None}]]
      BY <1>19 DEF DisconnectRemove, AnyInv, TypeOK
    <3>2. subscriptionToTopic' \in [Conn -> [SubId -> Channel \cup {None}]]
      BY <1>19 DEF DisconnectRemove, AnyInv, TypeOK
    <3>3. QED
      BY <1>19, <3>1, <3>2, LeaveMonitors DEF DisconnectRemove, Return, AnyInv, TypeOK
  <2>2. LoopGood'
    <3>1. pc[c] \in Inside["channels"]
      BY <1>19 DEF DisconnectRemove, Inside
    <3>2. \A d \in Conn : pc'[d] # "send_loop" /\ todo'[d] = {}
      BY <1>19, <3>1, OneSender DEF DisconnectRemove, Return, Leave, AnyInv, TypeOK, LoopGood
    <3>3. QED
      BY <3>2 DEF LoopGood
  <2>3. QED
    BY <1>19, <2>1, <2>2, LeaveMonitors, LeaveCalls DEF DisconnectRemove, Return, AnyInv
<1>20. QED
  BY <1>1, <1>2, <1>3, <1>4, <1>5, <1>6, <1>7, <1>8, <1>9, <1>10, <1>11, <1>12, <1>13,
     <1>14, <1>15, <1>16, <1>17, <1>18, <1>19 DEF Step

LEMMA AnyStep == AnyInv /\ [AnyNext]_vars => AnyInv'
<1>1. ASSUME AnyInv, NEW c \in Conn, AnyCall(c)
      PROVE  AnyInv'
  BY <1>1, CallAny
  DEF AnyCall, CallConnect, CallSubscribe, CallUnsubscribe, CallSend, CallDisconnect
<1>2. ASSUME AnyInv, UNCHANGED vars
      PROVE  AnyInv'
  BY <1>2 DEF vars, registry, AnyInv, TypeOK, MonitorsHeld, CallsGood, LoopGood, Subscribed
<1>3. QED
  BY <1>1, <1>2, StepAny DEF AnyNext

(* Every state of the registry, whatever the clients do, is well typed,    *)
(* and its monitors are held by exactly the threads inside their blocks.   *)
THEOREM AnyInvariant == AnySpec => []AnyInv
<1>1. QED
  BY AnyInit, AnyStep, PTL DEF AnySpec

(* The registry's maps, its monitors and the calls in progress are well    *)
(* typed, whatever frames the clients send (ConnectionsImpl.java:11-105).  *)
THEOREM TypeCorrect == AnySpec => []TypeOK
<1>1. AnyInv => TypeOK
  BY DEF AnyInv
<1>2. QED
  BY <1>1, AnyInvariant, PTL

(* If every call in progress waits for a monitor another one holds, then a *)
(* send waits for a disconnect and the disconnect for the send: no other   *)
(* combination of the five operations can block.                           *)
LEMMA InversionOnly == AnyInv => OnlyInversionBlocks
<1> SUFFICES ASSUME AnyInv,
                    NEW w \in Conn, pc[w] # "idle",
                    \A c \in Conn : pc[c] # "idle" => Stuck(c)
             PROVE  \E s, d \in Conn : pc[s] = "send_clients" /\ pc[d] = "disconnect_channels"
  BY DEF OnlyInversionBlocks
<1>1. ASSUME NEW m \in Monitor, owner[m] # None
      PROVE  /\ owner[m] \in Conn /\ pc[owner[m]] \in Inside[m]
             /\ pc[owner[m]] # "idle"
  <2>1. owner[m] \in Conn /\ pc[owner[m]] \in Inside[m]
    BY <1>1 DEF AnyInv, TypeOK, MonitorsHeld
  <2>2. "idle" \notin Inside[m]
    BY DEF Inside
  <2>3. QED
    BY <2>1, <2>2
<1>2. owner["topics"] = None
  <2> SUFFICES ASSUME owner["topics"] # None
               PROVE  FALSE
    OBVIOUS
  <2>1. pc[owner["topics"]] \in Inside["topics"] /\ Stuck(owner["topics"])
    BY <1>1
  <2>2. QED
    BY <2>1 DEF Stuck, WaitingFor, Inside
<1>3. ASSUME NEW c \in Conn, pc[c] # "idle"
      PROVE  \/ pc[c] \in WaitingFor["clients"] /\ owner["clients"] # None
             \/ pc[c] \in WaitingFor["channels"] /\ owner["channels"] # None
  <2>1. Stuck(c)
    BY <1>3
  <2>2. QED
    BY <1>2, <2>1 DEF Stuck, Free
<1>4. ASSUME owner["clients"] # None
      PROVE  /\ owner["clients"] \in Conn /\ pc[owner["clients"]] = "disconnect_channels"
             /\ owner["channels"] # None
  <2>1. /\ owner["clients"] \in Conn /\ pc[owner["clients"]] # "idle"
        /\ pc[owner["clients"]] \in Inside["clients"]
    BY <1>1, <1>4
  <2>2. QED
    BY <2>1, <1>3 DEF WaitingFor, Inside
<1>5. ASSUME owner["channels"] # None
      PROVE  /\ owner["channels"] \in Conn /\ pc[owner["channels"]] = "send_clients"
             /\ owner["clients"] # None
  <2>1. /\ owner["channels"] \in Conn /\ pc[owner["channels"]] # "idle"
        /\ pc[owner["channels"]] \in Inside["channels"]
    BY <1>1, <1>5
  <2>2. QED
    BY <2>1, <1>3 DEF WaitingFor, Inside
<1>6. owner["clients"] # None /\ owner["channels"] # None
  BY <1>3, <1>4, <1>5
<1>7. QED
  BY <1>4, <1>5, <1>6

(* Whatever the clients send, threads can block one another in one way     *)
(* only: a send that has the channels' monitor and wants the clients'      *)
(* against a disconnect that has the clients' and wants the channels'      *)
(* (ConnectionsImpl.java:47-48, 61-62).                                    *)
THEOREM BlockingCorrect == AnySpec => []OnlyInversionBlocks
BY AnyInvariant, InversionOnly, PTL

(* Whatever the clients do, a frame is handed to a handler only while its  *)
(* client is connected and subscribed under the frame's id, and never to   *)
(* the author's own.                                                       *)
LEMMA OneDelivery ==
    ASSUME AnyInv, NEW c \in Conn, NEW q \in Conn, SendOne(c, q), NEW r \in Conn,
           sent'[r] # sent[r]
    PROVE  LET m == LastOf(sent'[r])
           IN  /\ m.from # r
               /\ m.sub # None
               /\ r \in connectionIdToClient'
               /\ channelToSubscribedClients'[m.channel][r] = m.sub
<1> USE DEF SendOne, registry
<1>1. sent \in [Conn -> Seq(Message)]
  BY DEF AnyInv, TypeOK
<1>2. r = q /\ sent'[r] = Append(sent[r], MessageTo(c, r))
  BY <1>1
<1>3. LastOf(sent'[r]) = MessageTo(c, r)
  BY <1>1, <1>2 DEF LastOf
<1>4. c # r /\ MessageTo(c, r).sub # None
  BY <1>2 DEF AnyInv, LoopGood, MessageTo, Subscribed
<1>5. QED
  BY <1>2, <1>3, <1>4 DEF MessageTo

(* Whatever the clients send, a broadcast hands its frame to connected     *)
(* clients other than its author only, each under the id it is subscribed  *)
(* with at that moment (ConnectionsImpl.java:49-53).                       *)
THEOREM DeliveryCorrect == AnySpec => OnlyToSubscribers
<1> DEFINE P == \A r \in Conn : sent'[r] # sent[r] =>
                  LET m == LastOf(sent'[r])
                  IN  /\ m.from # r
                      /\ m.sub # None
                      /\ r \in connectionIdToClient'
                      /\ channelToSubscribedClients'[m.channel][r] = m.sub
<1>1. AnyInv /\ [AnyNext]_vars => [P]_vars
  <2> SUFFICES ASSUME AnyInv, NEW c \in Conn, AnyCall(c) \/ Step(c)
               PROVE  P
    BY DEF AnyNext
  <2>1. CASE sent' = sent
    BY <2>1
  <2>2. CASE \E q \in Conn : SendOne(c, q)
    BY <2>2, OneDelivery
  <2>3. sent' = sent \/ \E q \in Conn : SendOne(c, q)
    BY ZenonT(60) DEF AnyCall, CallConnect, CallSubscribe, CallUnsubscribe, CallSend, CallDisconnect,
           Call, Step, Connect, SubscribeChannels, SubscribeTopics, SubscribePut,
           UnsubscribeChannels, UnsubscribeTopics, UnsubscribeUnknown, UnsubscribeRemove,
           SendChannels, SendClients, SendUnknown, SendStart, SendOneMissing, SendDone,
           DisconnectClients, DisconnectChannels, DisconnectTopics, DisconnectRemove, Enter
  <2>4. QED
    BY <2>1, <2>2, <2>3
<1>2. QED
  BY <1>1, AnyInvariant, PTL DEF AnySpec, OnlyToSubscribers

-----------------------------------------------------------------------------
(* Broadcasts are totally ordered, whatever the clients do.                *)

LEMMA OrderInit == Init => OrderInv
  BY DEF Init, OrderInv, LastSent, SameOrder

(* A step that hands out nothing: a call that starts, ends or goes on.     *)
Quiet(d) ==
    \/ calls'[d] = calls[d] + 1
    \/ /\ calls'[d] = calls[d]
       /\ \/ pc'[d] = "idle"
          \/ pc'[d] = pc[d] /\ todo'[d] = todo[d]
          \/ pc[d] \notin {"idle", "send_loop"}

LEMMA QuietOrder ==
    ASSUME AnyInv, OrderInv, UNCHANGED sent, \A d \in Conn : Quiet(d)
    PROVE  OrderInv'
<1>1. SameOrder'
  BY DEF OrderInv, SameOrder
<1>2. ASSUME NEW r \in Conn, NEW i \in DOMAIN sent[r]
      PROVE  /\ sent[r][i].number <= calls'[sent[r][i].from]
             /\ sent[r][i].number = calls'[sent[r][i].from] =>
                   \/ pc'[sent[r][i].from] = "idle"
                   \/ /\ pc'[sent[r][i].from] = "send_loop" /\ r \notin todo'[sent[r][i].from]
                      /\ i = Len(sent[r])
  <2>1. PICK m \in Message, d \in Conn, n \in Nat, k \in Nat :
          m = sent[r][i] /\ d = m.from /\ n = m.number /\ k = calls[d]
    <3>1. sent[r][i] \in Message /\ calls \in [Conn -> 0..MaxCalls]
      BY DEF AnyInv, TypeOK
    <3>2. sent[r][i].from \in Conn /\ sent[r][i].number \in Nat
      BY <3>1, MaxCallsAssumption DEF Message
    <3>3. calls[sent[r][i].from] \in Nat
      BY <3>1, <3>2, MaxCallsAssumption
    <3>4. QED
      BY <3>1, <3>2, <3>3
  <2>2. /\ n <= k
        /\ n = k => \/ pc[d] = "idle"
                    \/ pc[d] = "send_loop" /\ r \notin todo[d] /\ i = Len(sent[r])
    BY <2>1 DEF OrderInv, LastSent
  <2>3. \/ calls'[d] = k + 1
        \/ /\ calls'[d] = k
           /\ \/ pc'[d] = "idle"
              \/ pc'[d] = pc[d] /\ todo'[d] = todo[d]
              \/ pc[d] \notin {"idle", "send_loop"}
    BY <2>1 DEF Quiet
  <2>4. CASE calls'[d] = k + 1
    <3>1. n <= k + 1 /\ n # k + 1
      BY <2>2
    <3>2. QED
      BY <2>1, <2>4, <3>1
  <2>5. CASE /\ calls'[d] = k
             /\ \/ pc'[d] = "idle"
                \/ pc'[d] = pc[d] /\ todo'[d] = todo[d]
                \/ pc[d] \notin {"idle", "send_loop"}
    BY <2>1, <2>2, <2>5
  <2>6. QED
    BY <2>3, <2>4, <2>5
<1>3. LastSent'
  BY <1>2 DEF LastSent
<1>4. QED
  BY <1>1, <1>3 DEF OrderInv

(* The broadcast in progress and what others have of it.                   *)
LEMMA InProgress ==
    ASSUME AnyInv, OrderInv, NEW c \in Conn, pc[c] = "send_loop", NEW r \in Conn,
           NEW i \in DOMAIN sent[r], sent[r][i].from = c, sent[r][i].number = calls[c]
    PROVE  r \notin todo[c] /\ i = Len(sent[r])
  BY DEF OrderInv, LastSent

(* One more frame of it goes to the end of an inbox that has none yet.     *)
LEMMA SendOneOrder ==
    ASSUME AnyInv, OrderInv, NEW c \in Conn, NEW q \in Conn, SendOne(c, q)
    PROVE  OrderInv'
<1>1. PICK frame \in Message :
        /\ frame = MessageTo(c, q) /\ frame.from = c /\ frame.number = calls[c]
        /\ sent' = [sent EXCEPT ![q] = Append(@, frame)]
        /\ pc[c] = "send_loop" /\ q \in todo[c]
        /\ todo' = [todo EXCEPT ![c] = @ \ {q}] /\ UNCHANGED <<pc, calls>>
  <2>1. channelToSubscribedClients[call[c].channel][q] \in SubId
    BY DEF SendOne, AnyInv, TypeOK, LoopGood, CallsGood, Subscribed, registry
  <2>2. calls[c] \in 1..MaxCalls /\ call[c].channel \in Channel
    BY DEF SendOne, AnyInv, TypeOK, CallsGood
  <2>3. MessageTo(c, q) \in Message /\ MessageTo(c, q).from = c /\ MessageTo(c, q).number = calls[c]
    BY <2>1, <2>2 DEF MessageTo, Message
  <2>4. QED
    BY <2>3 DEF SendOne
<1>2. PICK n \in Nat : n = Len(sent[q])
  BY DEF AnyInv, TypeOK
<1>3. /\ sent \in [Conn -> Seq(Message)] /\ todo \in [Conn -> SUBSET Conn]
      /\ \A r \in Conn : Len(sent[r]) \in Nat /\ DOMAIN sent[r] = 1..Len(sent[r])
  BY DEF AnyInv, TypeOK
<1>4. /\ \A r \in Conn \ {q} : sent'[r] = sent[r]
      /\ sent'[q] = Append(sent[q], frame)
      /\ DOMAIN sent'[q] = 1..n + 1 /\ Len(sent'[q]) = n + 1 /\ sent'[q][n + 1] = frame
      /\ \A i \in 1..n : sent'[q][i] = sent[q][i]
      /\ DOMAIN sent[q] = 1..n
  BY <1>1, <1>2, <1>3
<1>positions. \A r \in Conn : DOMAIN sent'[r] \subseteq Nat
  <2>1. \A r \in Conn : sent'[r] \in Seq(Message)
    BY <1>1, <1>3
  <2>2. QED
    BY <2>1
<1>5. \A i \in 1..n : ~SameBroadcast(sent[q][i], frame)
  BY <1>1, <1>2, <1>3, InProgress DEF SameBroadcast
<1>6. \A r \in Conn \ {q} : \A i \in DOMAIN sent[r] :
        SameBroadcast(sent[r][i], frame) => i = Len(sent[r])
  BY <1>1, <1>3, InProgress DEF SameBroadcast
<1> HIDE DEF SameBroadcast
<1>7. \A m1, m2, m3 : SameBroadcast(m1, m2) /\ SameBroadcast(m1, m3) => SameBroadcast(m2, m3)
  BY DEF SameBroadcast
<1>8. \A m1, m2 : SameBroadcast(m1, m2) => SameBroadcast(m2, m1)
  BY DEF SameBroadcast
<1>9. SameOrder'
  <2> SUFFICES ASSUME NEW r1 \in Conn, NEW r2 \in Conn,
                      NEW i1 \in DOMAIN sent'[r1], NEW j1 \in DOMAIN sent'[r1],
                      NEW i2 \in DOMAIN sent'[r2], NEW j2 \in DOMAIN sent'[r2],
                      SameBroadcast(sent'[r1][i1], sent'[r2][i2]),
                      SameBroadcast(sent'[r1][j1], sent'[r2][j2]), i1 < j1
               PROVE  i2 < j2
    BY DEF SameOrder, SameBroadcast
  <2>1. ASSUME NEW r \in Conn, NEW i \in DOMAIN sent'[r]
        PROVE  \/ r = q /\ i = n + 1 /\ sent'[r][i] = frame
               \/ i \in DOMAIN sent[r] /\ sent'[r][i] = sent[r][i] /\ (r = q => i \in 1..n)
    BY <1>4
  <2>2. ASSUME NEW r \in Conn, NEW i \in DOMAIN sent'[r], SameBroadcast(sent'[r][i], frame)
        PROVE  \A j \in DOMAIN sent'[r] : j <= i
    <3>1. CASE r = q
      <4>1. i = n + 1
        BY <1>4, <1>5, <2>1, <2>2, <3>1
      <4>2. QED
        BY <1>4, <3>1, <4>1
    <3>2. CASE r # q
      <4>1. sent'[r] = sent[r] /\ i = Len(sent[r])
        BY <1>4, <1>6, <2>2, <3>2
      <4>2. QED
        BY <1>3, <4>1
    <3>3. QED
      BY <3>1, <3>2
  <2>3. ASSUME NEW r \in Conn, NEW i \in DOMAIN sent'[r], NEW j \in DOMAIN sent'[r], i < j
        PROVE  /\ i \in DOMAIN sent[r] /\ sent'[r][i] = sent[r][i]
               /\ ~SameBroadcast(sent'[r][i], frame)
    <3>1. i \in Nat /\ j \in Nat
      BY <1>positions
    <3>2. ~SameBroadcast(sent'[r][i], frame)
      BY <2>2, <2>3, <3>1
    <3>3. ~(r = q /\ i = n + 1)
      BY <1>4, <2>3, <3>1
    <3>4. QED
      BY <2>1, <3>2, <3>3
  <2>4. ~SameBroadcast(sent'[r2][i2], frame)
    BY <1>7, <1>8, <2>3
  <2>5. i2 \in Nat /\ j2 \in Nat
    BY <1>positions
  <2>6. CASE SameBroadcast(sent'[r1][j1], frame)
    <3>1. SameBroadcast(sent'[r2][j2], frame)
      BY <1>7, <1>8, <2>6
    <3>2. i2 <= j2
      BY <2>2, <3>1
    <3>3. i2 # j2
      BY <2>4, <3>1
    <3>4. QED
      BY <2>5, <3>2, <3>3
  <2>7. CASE ~SameBroadcast(sent'[r1][j1], frame)
    <3>1. ~SameBroadcast(sent'[r2][j2], frame)
      BY <1>7, <1>8, <2>7
    <3>2. SameBroadcast(frame, frame)
      BY DEF SameBroadcast
    <3>3. /\ i1 \in DOMAIN sent[r1] /\ sent'[r1][i1] = sent[r1][i1]
          /\ j1 \in DOMAIN sent[r1] /\ sent'[r1][j1] = sent[r1][j1]
          /\ i2 \in DOMAIN sent[r2] /\ sent'[r2][i2] = sent[r2][i2]
          /\ j2 \in DOMAIN sent[r2] /\ sent'[r2][j2] = sent[r2][j2]
      BY <2>1, <2>3, <2>4, <2>7, <3>1, <3>2
    <3>4. QED
      BY <3>3 DEF OrderInv, SameOrder
  <2>8. QED
    BY <2>6, <2>7
<1>10. LastSent'
  <2> SUFFICES ASSUME NEW r \in Conn, NEW i \in DOMAIN sent'[r], NEW m, m = sent'[r][i]
               PROVE  /\ m.number <= calls[m.from]
                      /\ m.number = calls[m.from] =>
                            \/ pc[m.from] = "idle"
                            \/ /\ pc[m.from] = "send_loop" /\ r \notin todo'[m.from]
                               /\ i = Len(sent'[r])
    BY <1>1 DEF LastSent
  <2>1. CASE r = q /\ i = n + 1
    <3>1. m = frame /\ i = Len(sent'[r]) /\ calls[c] \in Nat /\ r \notin todo'[c]
      BY <1>1, <1>3, <1>4, <2>1, MaxCallsAssumption DEF AnyInv, TypeOK
    <3>2. QED
      BY <1>1, <3>1
  <2>2. CASE ~(r = q /\ i = n + 1)
    <3>1. i \in DOMAIN sent[r] /\ m = sent[r][i]
      <4>1. CASE r = q
        <5>1. i \in 1..n
          BY <1>4, <2>2, <4>1
        <5>2. QED
          BY <1>4, <4>1, <5>1
      <4>2. CASE r # q
        BY <1>4, <4>2
      <4>3. QED
        BY <4>1, <4>2
    <3>2. /\ m.number <= calls[m.from]
          /\ m.number = calls[m.from] =>
                \/ pc[m.from] = "idle"
                \/ pc[m.from] = "send_loop" /\ r \notin todo[m.from] /\ i = Len(sent[r])
      BY <3>1 DEF OrderInv, LastSent
    <3>3. m.from \in Conn
      <4>1. m \in Message
        BY <1>3, <3>1
      <4>2. QED
        BY <4>1 DEF Message
    <3>4. r \notin todo[m.from] => r \notin todo'[m.from]
      BY <1>1, <1>3, <3>3
    <3>5. ASSUME m.number = calls[m.from], pc[m.from] = "send_loop" PROVE r # q
      <4>1. pc[c] \in Inside["channels"] /\ m.from = c
        BY <1>1, <3>3, <3>5, OneSender DEF Inside
      <4>2. QED
        BY <1>1, <1>4, <1>5, <3>1, <3>5, <4>1 DEF SameBroadcast
    <3>6. r # q => Len(sent'[r]) = Len(sent[r])
      BY <1>4
    <3>7. QED
      BY <3>2, <3>4, <3>5, <3>6
  <2>3. QED
    BY <2>1, <2>2
<1>11. QED
  BY <1>9, <1>10 DEF OrderInv

LEMMA OrderNext == AnyInv /\ OrderInv /\ [AnyNext]_vars => OrderInv'
<1> SUFFICES ASSUME AnyInv, OrderInv, [AnyNext]_vars PROVE OrderInv'
  OBVIOUS
<1>1. CASE UNCHANGED vars
  BY <1>1, QuietOrder DEF vars, Quiet
<1>2. ASSUME NEW c \in Conn, AnyCall(c) PROVE OrderInv'
  <2>1. UNCHANGED <<sent, todo>> /\ calls' = [calls EXCEPT ![c] = @ + 1]
        /\ \A d \in Conn \ {c} : pc'[d] = pc[d]
    BY <1>2 DEF AnyCall, CallConnect, CallSubscribe, CallUnsubscribe, CallSend, CallDisconnect, Call,
                AnyInv, TypeOK
  <2>2. \A d \in Conn : Quiet(d)
    BY <2>1 DEF Quiet, AnyInv, TypeOK
  <2>3. QED
    BY <2>1, <2>2, QuietOrder
<1>3. ASSUME NEW c \in Conn, Step(c), ~\E q \in Conn : SendOne(c, q) PROVE OrderInv'
  <2>1. UNCHANGED <<sent, calls>> /\ \A d \in Conn \ {c} : pc'[d] = pc[d] /\ todo'[d] = todo[d]
    BY SMTT(30), <1>3 DEF Step, Connect, SubscribeChannels, SubscribeTopics, SubscribePut,
           UnsubscribeChannels, UnsubscribeTopics, UnsubscribeUnknown, UnsubscribeRemove,
           SendChannels, SendClients, SendUnknown, SendStart, SendOneMissing, SendDone,
           DisconnectClients, DisconnectChannels, DisconnectTopics, DisconnectRemove, Enter,
           Return, Throw, Leave, AnyInv, TypeOK
  <2>2. pc'[c] = "idle" \/ pc[c] \notin {"idle", "send_loop"}
    BY SMTT(30), <1>3 DEF Step, Connect, SubscribeChannels, SubscribeTopics, SubscribePut,
           UnsubscribeChannels, UnsubscribeTopics, UnsubscribeUnknown, UnsubscribeRemove,
           SendChannels, SendClients, SendUnknown, SendStart, SendOneMissing, SendDone,
           DisconnectClients, DisconnectChannels, DisconnectTopics, DisconnectRemove, Enter,
           Return, Throw, Leave, AnyInv, TypeOK
  <2>3. \A d \in Conn : Quiet(d)
    BY <2>1, <2>2 DEF Quiet
  <2>4. QED
    BY <2>1, <2>3, QuietOrder
<1>4. QED
  BY <1>1, <1>2, <1>3, SendOneOrder DEF AnyNext

(* No two clients see two broadcasts in opposite orders and none sees one  *)
(* twice, because send holds the monitors for the whole loop               *)
(* (ConnectionsImpl.java:47-53).                                           *)
THEOREM OrderCorrect == AnySpec => []SameOrder
<1>1. OrderInv => SameOrder
  BY DEF OrderInv
<1>2. QED
  BY <1>1, AnyInit, AnyStep, OrderInit, OrderNext, PTL DEF AnySpec

-----------------------------------------------------------------------------
(* The clients of this repository: the two maps agree, nothing throws.     *)

LEMMA OrderlyInit == Init => OrderlyInv
  BY AnyInit, NoneAssumption
  DEF Init, OrderlyInv, StillOrderly, ChannelsKnown, IndexMatches, SubscribersConnected,
      NoException, Subscribed

LEMMA OrderlyIsAny == ASSUME NEW c \in Conn, OrderlyCall(c) PROVE AnyCall(c)
BY DEF OrderlyCall, AnyCall, Join, Exit, Report, Logout

LEMMA OrderlyNextIsAny == [Next]_vars => [AnyNext]_vars
BY OrderlyIsAny DEF Next, AnyNext

(* A step that leaves the maps alone leaves what is known of them alone.   *)
LEMMA MapsKept ==
    ASSUME OrderlyInv, UNCHANGED <<registry, raised>>
    PROVE  ChannelsKnown' /\ IndexMatches' /\ SubscribersConnected' /\ NoException'
BY DEF OrderlyInv, registry, ChannelsKnown, IndexMatches, SubscribersConnected, NoException,
       Subscribed

LEMMA EnterOrderly ==
    ASSUME OrderlyInv, NEW c \in Conn, NEW from \in Label, NEW to \in Label,
           NEW m \in Monitor, SameCall(from, to), Enter(c, from, m, to)
    PROVE  StillOrderly' /\ UNCHANGED <<registry, raised>>
BY DEF SameCall, Enter, registry, OrderlyInv, AnyInv, TypeOK, StillOrderly, MaySubscribe,
       Subscribed

(* The end of a call that changed no other connection's subscriptions.     *)
LEMMA LeaveOrderly ==
    ASSUME OrderlyInv, NEW c \in Conn, Leave(c),
           \A d \in Conn \ {c} :
              /\ d \in connectionIdToClient' <=> d \in connectionIdToClient
              /\ subscriptionToTopic'[d] = subscriptionToTopic[d]
              /\ \A ch \in Channel : channelToSubscribedClients'[ch][d]
                                      = channelToSubscribedClients[ch][d]
    PROVE  StillOrderly'
<1>1. \A d \in Conn \ {c} : pc'[d] = pc[d] /\ call'[d] = call[d]
  BY DEF Leave, OrderlyInv, AnyInv, TypeOK
<1>2. pc'[c] = "idle"
  BY DEF Leave, OrderlyInv, AnyInv, TypeOK
<1>3. ASSUME NEW d \in Conn \ {c}, pc[d] \in Subscribing \cup Sending
      PROVE  call[d].channel \in Channel
  BY <1>3 DEF OrderlyInv, AnyInv, CallsGood
<1>4. QED
  BY <1>1, <1>2, <1>3 DEF OrderlyInv, StillOrderly, MaySubscribe, Subscribed

LEMMA CallOrderly ==
    ASSUME OrderlyInv, NEW c \in Conn, OrderlyCall(c)
    PROVE  StillOrderly' /\ UNCHANGED <<registry, raised>>
<1> USE DEF Call, registry, OrderlyInv, AnyInv, TypeOK, StillOrderly, MaySubscribe, Subscribed
<1>1. CASE CallConnect(c)
  BY <1>1 DEF CallConnect
<1>2. ASSUME NEW ch \in Channel, NEW s \in SubId, Join(c, ch, s)
      PROVE  StillOrderly' /\ UNCHANGED <<registry, raised>>
  BY <1>2 DEF Join, CallSubscribe
<1>3. ASSUME NEW s \in SubId, Exit(c, s)
      PROVE  StillOrderly' /\ UNCHANGED <<registry, raised>>
  BY <1>3 DEF Exit, CallUnsubscribe
<1>4. ASSUME NEW ch \in Channel, Report(c, ch)
      PROVE  StillOrderly' /\ UNCHANGED <<registry, raised>>
  BY <1>4 DEF Report, CallSend
<1>5. CASE Logout(c)
  BY <1>5 DEF Logout, CallDisconnect
<1>6. QED
  BY <1>1, <1>2, <1>3, <1>4, <1>5 DEF OrderlyCall

LEMMA SubscribeOrderly ==
    ASSUME OrderlyInv, NEW c \in Conn, SubscribePut(c)
    PROVE  StillOrderly' /\ ChannelsKnown' /\ IndexMatches' /\ SubscribersConnected' /\ NoException'
<1> DEFINE ch == call[c].channel
           s  == call[c].sub
<1>1. ch \in Channel /\ s \in SubId
  BY DEF SubscribePut, OrderlyInv, AnyInv, CallsGood
<1>2. /\ c \in connectionIdToClient
      /\ channelToSubscribedClients[ch][c] = None
      /\ subscriptionToTopic[c][s] = None
  BY DEF SubscribePut, OrderlyInv, StillOrderly, MaySubscribe, Subscribed
<1>3. /\ channelToSubscribedClients \in [Channel -> [Conn -> SubId \cup {None}]]
      /\ subscriptionToTopic \in [Conn -> [SubId -> Channel \cup {None}]]
  BY DEF OrderlyInv, AnyInv, TypeOK
<1>4. /\ knownChannels' = knownChannels \cup {ch}
      /\ channelToSubscribedClients' = [channelToSubscribedClients EXCEPT ![ch][c] = s]
      /\ subscriptionToTopic' = [subscriptionToTopic EXCEPT ![c][s] = ch]
      /\ UNCHANGED <<connectionIdToClient, raised>>
      /\ Leave(c)
  BY DEF SubscribePut, Return
<1> HIDE DEF ch, s
<1>5. StillOrderly'
  BY <1>1, <1>3, <1>4, LeaveOrderly
<1>6. ChannelsKnown' /\ SubscribersConnected' /\ NoException'
  BY <1>1, <1>2, <1>3, <1>4
  DEF OrderlyInv, ChannelsKnown, SubscribersConnected, NoException, Subscribed
<1>7. IndexMatches'
  BY <1>1, <1>2, <1>3, <1>4, NoneAssumption DEF OrderlyInv, IndexMatches
<1>8. QED
  BY <1>5, <1>6, <1>7

LEMMA UnsubscribeOrderly ==
    ASSUME OrderlyInv, NEW c \in Conn, UnsubscribeRemove(c)
    PROVE  StillOrderly' /\ ChannelsKnown' /\ IndexMatches' /\ SubscribersConnected' /\ NoException'
<1> DEFINE s     == call[c].sub
           topic == subscriptionToTopic[c][s]
<1>1. s \in SubId /\ topic # None
  BY DEF UnsubscribeRemove, OrderlyInv, AnyInv, CallsGood
<1>2. /\ channelToSubscribedClients \in [Channel -> [Conn -> SubId \cup {None}]]
      /\ subscriptionToTopic \in [Conn -> [SubId -> Channel \cup {None}]]
  BY DEF OrderlyInv, AnyInv, TypeOK
<1>3. topic \in Channel /\ channelToSubscribedClients[topic][c] = s
  BY <1>1, <1>2 DEF OrderlyInv, IndexMatches
<1>4. /\ channelToSubscribedClients' = [channelToSubscribedClients EXCEPT ![topic][c] = None]
      /\ subscriptionToTopic' = [subscriptionToTopic EXCEPT ![c][s] = None]
      /\ UNCHANGED <<connectionIdToClient, knownChannels, raised>>
      /\ Leave(c)
  BY DEF UnsubscribeRemove, Return
<1>5. topic = subscriptionToTopic[c][s]
  OBVIOUS
<1> HIDE DEF topic, s
<1>6. StillOrderly'
  BY <1>1, <1>2, <1>3, <1>4, LeaveOrderly
<1>7. ChannelsKnown' /\ SubscribersConnected' /\ NoException'
  BY <1>1, <1>2, <1>3, <1>4
  DEF OrderlyInv, ChannelsKnown, SubscribersConnected, NoException, Subscribed
<1>8. IndexMatches'
  BY <1>1, <1>2, <1>3, <1>4, <1>5, NoneAssumption DEF OrderlyInv, IndexMatches
<1>9. QED
  BY <1>6, <1>7, <1>8

LEMMA DisconnectOrderly ==
    ASSUME OrderlyInv, NEW c \in Conn, DisconnectRemove(c)
    PROVE  StillOrderly' /\ ChannelsKnown' /\ IndexMatches' /\ SubscribersConnected' /\ NoException'
<1> DEFINE held == {channelToSubscribedClients[ch][c] : ch \in knownChannels}
<1>1. /\ channelToSubscribedClients \in [Channel -> [Conn -> SubId \cup {None}]]
      /\ subscriptionToTopic \in [Conn -> [SubId -> Channel \cup {None}]]
      /\ knownChannels \in SUBSET Channel
  BY DEF OrderlyInv, AnyInv, TypeOK
<1>2. /\ connectionIdToClient' = connectionIdToClient \ {c}
      /\ \A ch \in Channel, d \in Conn :
            channelToSubscribedClients'[ch][d]
              = IF d = c THEN None ELSE channelToSubscribedClients[ch][d]
      /\ \A d \in Conn : d # c => subscriptionToTopic'[d] = subscriptionToTopic[d]
      /\ \A s \in SubId :
            subscriptionToTopic'[c][s]
              = IF s \in held THEN None ELSE subscriptionToTopic[c][s]
      /\ UNCHANGED <<knownChannels, raised>>
      /\ Leave(c)
  BY <1>1 DEF DisconnectRemove, Return
<1>3. \A s \in SubId : subscriptionToTopic'[c][s] = None
  <2> SUFFICES ASSUME NEW s \in SubId, subscriptionToTopic[c][s] # None
               PROVE  s \in held
    BY <1>2
  <2>1. /\ subscriptionToTopic[c][s] \in Channel
        /\ channelToSubscribedClients[subscriptionToTopic[c][s]][c] = s
    BY <1>1 DEF OrderlyInv, IndexMatches
  <2>2. subscriptionToTopic[c][s] \in knownChannels
    BY <2>1, NoneAssumption DEF OrderlyInv, ChannelsKnown, Subscribed
  <2>3. QED
    BY <2>1, <2>2
<1> HIDE DEF held
<1>4. StillOrderly'
  BY <1>2, LeaveOrderly
<1>5. ChannelsKnown' /\ SubscribersConnected' /\ NoException'
  BY <1>2 DEF OrderlyInv, ChannelsKnown, SubscribersConnected, NoException, Subscribed
<1>6. IndexMatches'
  BY <1>2, <1>3, NoneAssumption DEF OrderlyInv, IndexMatches
<1>7. QED
  BY <1>4, <1>5, <1>6

LEMMA OrderlyStep == OrderlyInv /\ [Next]_vars => OrderlyInv'
<1> SUFFICES ASSUME OrderlyInv, [Next]_vars
             PROVE  OrderlyInv'
  OBVIOUS
<1> USE DEF SameCall
<1>1. AnyInv'
  BY OrderlyNextIsAny, AnyStep DEF OrderlyInv
<1>2. CASE UNCHANGED vars
  <2>1. StillOrderly'
    BY <1>2 DEF vars, registry, OrderlyInv, StillOrderly, MaySubscribe, Subscribed
  <2>2. QED
    BY <1>1, <1>2, <2>1, MapsKept DEF vars, OrderlyInv
<1>3. ASSUME NEW c \in Conn, OrderlyCall(c)
      PROVE  OrderlyInv'
  BY <1>1, <1>3, CallOrderly, MapsKept DEF OrderlyInv
<1>4. ASSUME NEW c \in Conn, NEW from \in Label, NEW to \in Label, NEW m \in Monitor,
             SameCall(from, to), Enter(c, from, m, to)
      PROVE  OrderlyInv'
  BY <1>1, <1>4, EnterOrderly, MapsKept DEF OrderlyInv
<1>5. ASSUME NEW c \in Conn, Step(c)
      PROVE  OrderlyInv'
  <2>1. CASE Connect(c)
    <3>1. StillOrderly'
      BY <2>1, LeaveOrderly DEF Connect, Return
    <3>2. ChannelsKnown' /\ IndexMatches' /\ SubscribersConnected' /\ NoException'
      BY <2>1 DEF Connect, Return, OrderlyInv, ChannelsKnown, IndexMatches,
                  SubscribersConnected, NoException, Subscribed
    <3>3. QED
      BY <1>1, <3>1, <3>2 DEF OrderlyInv
  <2>2. CASE SubscribeChannels(c)
    BY <2>2, <1>4 DEF SubscribeChannels
  <2>3. CASE SubscribeTopics(c)
    BY <2>3, <1>4 DEF SubscribeTopics
  <2>4. CASE SubscribePut(c)
    BY <1>1, <2>4, SubscribeOrderly DEF OrderlyInv
  <2>5. CASE UnsubscribeChannels(c)
    BY <2>5, <1>4 DEF UnsubscribeChannels
  <2>6. CASE UnsubscribeTopics(c)
    BY <2>6, <1>4 DEF UnsubscribeTopics
  <2>7. ~UnsubscribeUnknown(c)
    BY DEF UnsubscribeUnknown, OrderlyInv, StillOrderly
  <2>8. CASE UnsubscribeRemove(c)
    BY <1>1, <2>8, UnsubscribeOrderly DEF OrderlyInv
  <2>9. CASE SendChannels(c)
    BY <2>9, <1>4 DEF SendChannels
  <2>10. CASE SendClients(c)
    BY <2>10, <1>4 DEF SendClients
  <2>11. ~SendUnknown(c)
    BY DEF SendUnknown, OrderlyInv, AnyInv, CallsGood, StillOrderly, ChannelsKnown
  <2>12. CASE SendStart(c)
    <3>1. StillOrderly'
      BY <2>12 DEF SendStart, registry, OrderlyInv, AnyInv, TypeOK, StillOrderly, MaySubscribe,
                   Subscribed
    <3>2. QED
      BY <1>1, <2>12, <3>1, MapsKept DEF SendStart, OrderlyInv
  <2>13. ASSUME NEW r \in Conn, SendOne(c, r)
         PROVE  OrderlyInv'
    <3>1. StillOrderly'
      BY <2>13 DEF SendOne, registry, OrderlyInv, StillOrderly, MaySubscribe, Subscribed
    <3>2. QED
      BY <1>1, <2>13, <3>1, MapsKept DEF SendOne, OrderlyInv
  <2>14. ASSUME NEW r \in Conn, SendOneMissing(c, r)
         PROVE  FALSE
    BY <2>14 DEF SendOneMissing, OrderlyInv, AnyInv, LoopGood, CallsGood, SubscribersConnected
  <2>15. CASE SendDone(c)
    <3>1. StillOrderly'
      BY <2>15, LeaveOrderly DEF SendDone, Return, registry
    <3>2. QED
      BY <1>1, <2>15, <3>1, MapsKept DEF SendDone, Return, OrderlyInv
  <2>16. CASE DisconnectClients(c)
    BY <2>16, <1>4 DEF DisconnectClients
  <2>17. CASE DisconnectChannels(c)
    BY <2>17, <1>4 DEF DisconnectChannels
  <2>18. CASE DisconnectTopics(c)
    BY <2>18, <1>4 DEF DisconnectTopics
  <2>19. CASE DisconnectRemove(c)
    BY <1>1, <2>19, DisconnectOrderly DEF OrderlyInv
  <2>20. QED
    BY <1>5, <2>1, <2>2, <2>3, <2>4, <2>5, <2>6, <2>7, <2>8, <2>9, <2>10, <2>11, <2>12,
       <2>13, <2>14, <2>15, <2>16, <2>17, <2>18, <2>19 DEF Step
<1>6. QED
  BY <1>2, <1>3, <1>5 DEF Next

(* In every reachable state of orderly clients the parts of the invariant  *)
(* hold.                                                                   *)
THEOREM OrderlyInvariant == Spec => []OrderlyInv
BY OrderlyInit, OrderlyStep, PTL DEF Spec

(* The index of subscription ids and the subscribers of the channels       *)
(* always describe the same subscriptions.                                 *)
THEOREM IndexCorrect == Spec => []IndexMatches
<1>1. OrderlyInv => IndexMatches
  BY DEF OrderlyInv
<1>2. QED
  BY <1>1, OrderlyInvariant, PTL

(* Every subscriber can be delivered to.                                   *)
THEOREM SubscribersCorrect == Spec => []SubscribersConnected
<1>1. OrderlyInv => SubscribersConnected
  BY DEF OrderlyInv
<1>2. QED
  BY <1>1, OrderlyInvariant, PTL

(* No registry operation throws when the clients are this repository's.    *)
THEOREM NeverThrows == Spec => []NoException
<1>1. OrderlyInv => NoException
  BY DEF OrderlyInv
<1>2. QED
  BY <1>1, OrderlyInvariant, PTL

-----------------------------------------------------------------------------
(* The implementation of the atomic registry.                              *)

LEMMA InboxInLoop ==
    ASSUME AnyInv, NEW x \in Conn, pc[x] = "send_loop"
    PROVE  Inbox = [r \in Conn |-> IF r \in todo[x] THEN Append(sent[r], MessageTo(x, r))
                                   ELSE sent[r]]
<1>1. owner["channels"] = x
  BY DEF AnyInv, MonitorsHeld, Inside
<1>2. QED
  BY <1>1, NoneAssumption DEF Inbox, Owed

LEMMA InboxInLoopPrime ==
    ASSUME AnyInv', NEW x \in Conn, pc'[x] = "send_loop"
    PROVE  Inbox' = [r \in Conn |-> IF r \in todo'[x] THEN Append(sent'[r], MessageTo(x, r)')
                                    ELSE sent'[r]]
<1>1. owner'["channels"] = x
  BY DEF AnyInv, MonitorsHeld, Inside
<1>2. QED
  BY <1>1, NoneAssumption DEF Inbox, Owed

LEMMA InboxOutside ==
    ASSUME AnyInv, \A x \in Conn : pc[x] # "send_loop"
    PROVE  Inbox = sent
BY DEF AnyInv, TypeOK, Inbox, Owed

LEMMA InboxOutsidePrime ==
    ASSUME AnyInv', \A x \in Conn : pc'[x] # "send_loop"
    PROVE  Inbox' = sent'
BY DEF AnyInv, TypeOK, Inbox, Owed

(* A step of a thread outside the loop owes nobody anything.               *)
LEMMA InboxKept ==
    ASSUME AnyInv, AnyInv', NEW c \in Conn,
           pc[c] # "send_loop", pc'[c] # "send_loop",
           \A d \in Conn \ {c} : pc'[d] = pc[d] /\ call'[d] = call[d] /\ calls'[d] = calls[d],
           UNCHANGED <<todo, sent>>,
           (\E x \in Conn : pc[x] = "send_loop") => UNCHANGED channelToSubscribedClients
    PROVE  Inbox' = Inbox
<1>1. CASE \A x \in Conn : pc[x] # "send_loop"
  BY <1>1, InboxOutside, InboxOutsidePrime
<1>2. CASE \E x \in Conn : pc[x] = "send_loop"
  <2>1. PICK x \in Conn : pc[x] = "send_loop"
    BY <1>2
  <2>2. x # c /\ pc'[x] = "send_loop"
    BY <2>1
  <2>3. \A r \in Conn : MessageTo(x, r)' = MessageTo(x, r)
    BY <2>1, <2>2 DEF MessageTo
  <2>4. QED
    BY SMTT(30), <2>1, <2>2, <2>3, InboxInLoop, InboxInLoopPrime
<1>3. QED
  BY <1>1, <1>2

(* ... and if it is inside the channels' block, nobody is in the loop.     *)
LEMMA InboxSent ==
    ASSUME AnyInv, AnyInv', NEW c \in Conn,
           pc[c] \in Inside["channels"] \ {"send_loop"}, Leave(c), UNCHANGED sent
    PROVE  Inbox' = Inbox
<1>1. \A x \in Conn : pc[x] # "send_loop" /\ pc'[x] # "send_loop"
  BY OneSender DEF AnyInv, TypeOK, Leave
<1>2. QED
  BY <1>1, InboxOutside, InboxOutsidePrime

LEMMA RegistryInit == Init => Registry!Init
  BY NoneAssumption DEF Init, Registry!Init, Inbox, Owed

LEMMA RegistryStep ==
    ASSUME OrderlyInv, AnyInv', NEW c \in Conn, Step(c)
    PROVE  Registry!Next \/ UNCHANGED Registry!vars
<1> USE DEF Registry!vars
<1>1. ASSUME NEW from \in Label \ {"send_loop"}, NEW to \in Label \ {"send_loop"},
             NEW m \in Monitor, Enter(c, from, m, to)
      PROVE  UNCHANGED Registry!vars
  <2>1. Inbox' = Inbox
    BY <1>1, InboxKept DEF Enter, registry, OrderlyInv, AnyInv, TypeOK
  <2>2. QED
    BY <1>1, <2>1 DEF Enter, registry
<1>2. CASE Connect(c)
  <2>1. Inbox' = Inbox
    BY <1>2, InboxKept DEF Connect, Return, Leave, OrderlyInv, AnyInv, TypeOK
  <2>2. Registry!Connect(c)
    BY <1>2, <2>1 DEF Connect, Registry!Connect
  <2>3. QED
    BY <2>2 DEF Registry!Next
<1>3. CASE SubscribeChannels(c)
  BY <1>1, <1>3 DEF SubscribeChannels
<1>4. CASE SubscribeTopics(c)
  BY <1>1, <1>4 DEF SubscribeTopics
<1>5. CASE SubscribePut(c)
  <2> DEFINE ch == call[c].channel
             s  == call[c].sub
  <2>1. ch \in Channel /\ s \in SubId
    BY <1>5 DEF SubscribePut, OrderlyInv, AnyInv, CallsGood
  <2>2. /\ c \in connectionIdToClient
        /\ channelToSubscribedClients[ch][c] = None
        /\ subscriptionToTopic[c][s] = None
    BY <1>5 DEF SubscribePut, OrderlyInv, StillOrderly, MaySubscribe, Subscribed
  <2>3. \A other \in Channel : channelToSubscribedClients[other][c] # s
    BY <2>1, <2>2, NoneAssumption DEF OrderlyInv, IndexMatches
  <2>4. Inbox' = Inbox
    BY <1>5, InboxSent DEF SubscribePut, Return, Inside, OrderlyInv
  <2>5. Registry!Subscribe(c, ch, s)
    BY <1>5, <2>2, <2>3, <2>4 DEF SubscribePut, Registry!Subscribe
  <2>6. QED
    BY <2>1, <2>5 DEF Registry!Next
<1>6. CASE UnsubscribeChannels(c)
  BY <1>1, <1>6 DEF UnsubscribeChannels
<1>7. CASE UnsubscribeTopics(c)
  BY <1>1, <1>7 DEF UnsubscribeTopics
<1>8. ~UnsubscribeUnknown(c)
  BY DEF UnsubscribeUnknown, OrderlyInv, StillOrderly
<1>9. CASE UnsubscribeRemove(c)
  <2> DEFINE s     == call[c].sub
             topic == subscriptionToTopic[c][s]
  <2>1. s \in SubId /\ topic # None
    BY SMTT(30), <1>9 DEF UnsubscribeRemove, OrderlyInv, AnyInv, CallsGood
  <2>2. topic \in Channel
    BY <2>1 DEF OrderlyInv, AnyInv, TypeOK
  <2>3. channelToSubscribedClients[topic][c] # None
    BY <2>1, <2>2, NoneAssumption DEF OrderlyInv, IndexMatches
  <2>4. Inbox' = Inbox
    BY <1>9, InboxSent DEF UnsubscribeRemove, Return, Inside, OrderlyInv
  <2>5. Registry!Unsubscribe(c, topic)
    BY <1>9, <2>3, <2>4 DEF UnsubscribeRemove, Registry!Unsubscribe
  <2>6. QED
    BY <2>2, <2>5 DEF Registry!Next
<1>10. CASE SendChannels(c)
  BY <1>1, <1>10 DEF SendChannels
<1>11. CASE SendClients(c)
  BY <1>1, <1>11 DEF SendClients
<1>12. ~SendUnknown(c)
  BY DEF SendUnknown, OrderlyInv, AnyInv, CallsGood, StillOrderly, ChannelsKnown
<1>13. CASE SendStart(c)
  <2> DEFINE ch == call[c].channel
  <2>1. ch \in Channel /\ calls[c] \in 1..MaxCalls
    BY <1>13 DEF SendStart, OrderlyInv, AnyInv, CallsGood
  <2>2. \A x \in Conn : pc[x] # "send_loop"
    BY <1>13, OneSender DEF SendStart, Inside, OrderlyInv
  <2>3. Inbox = sent
    BY <2>2, InboxOutside DEF OrderlyInv
  <2>4. pc'[c] = "send_loop"
    BY <1>13 DEF SendStart, OrderlyInv, AnyInv, TypeOK
  <2>5. Inbox' = [r \in Conn |-> IF r \in todo'[c] THEN Append(sent'[r], MessageTo(c, r)')
                                 ELSE sent'[r]]
    BY <2>4, InboxInLoopPrime
  <2>6. todo'[c] = {r \in Conn \ {c} : channelToSubscribedClients[ch][r] # None}
    BY <1>13 DEF SendStart, Subscribed, OrderlyInv, AnyInv, TypeOK
  <2>7. \A r \in Conn : MessageTo(c, r)' = [from |-> c, number |-> calls[c], channel |-> ch,
                                           sub |-> channelToSubscribedClients[ch][r]]
    BY <1>13 DEF SendStart, MessageTo, registry
  <2>8. UNCHANGED <<connectionIdToClient, channelToSubscribedClients, sent>>
    BY <1>13 DEF SendStart, registry
  <2>9. Registry!Publish(c, ch, calls[c])
    BY <2>3, <2>5, <2>6, <2>7, <2>8 DEF Registry!Publish
  <2>10. QED
    BY <2>1, <2>9 DEF Registry!Next
<1>14. ASSUME NEW q \in Conn, SendOne(c, q)
       PROVE  UNCHANGED Registry!vars
  <2> USE <1>14 DEF SendOne, OrderlyInv, AnyInv, TypeOK
  <2>1. pc[c] = "send_loop" /\ pc'[c] = "send_loop"
    OBVIOUS
  <2>2. /\ Inbox = [r \in Conn |-> IF r \in todo[c] THEN Append(sent[r], MessageTo(c, r))
                                   ELSE sent[r]]
        /\ Inbox' = [r \in Conn |-> IF r \in todo'[c] THEN Append(sent'[r], MessageTo(c, r)')
                                    ELSE sent'[r]]
    BY <2>1, InboxInLoop, InboxInLoopPrime
  <2>3. \A r \in Conn : MessageTo(c, r)' = MessageTo(c, r)
    BY DEF MessageTo, registry
  <2>4. todo'[c] = todo[c] \ {q}
    OBVIOUS
  <2>5. \A r \in Conn : sent'[r] = IF r = q THEN Append(sent[r], MessageTo(c, q)) ELSE sent[r]
    OBVIOUS
  <2>6. Inbox' = Inbox
    BY <2>2, <2>3, <2>4, <2>5
  <2>7. QED
    BY <2>6 DEF registry
<1>15. ASSUME NEW r \in Conn, SendOneMissing(c, r)
       PROVE  FALSE
  BY <1>15 DEF SendOneMissing, OrderlyInv, AnyInv, LoopGood, CallsGood, SubscribersConnected
<1>16. CASE SendDone(c)
  <2>1. Inbox = sent
    BY <1>16, InboxInLoop DEF SendDone, OrderlyInv, AnyInv, TypeOK
  <2>2. \A x \in Conn : pc'[x] # "send_loop"
    BY <1>16, OneSender DEF SendDone, Return, Leave, Inside, OrderlyInv, AnyInv, TypeOK
  <2>3. Inbox' = sent'
    BY <2>2, InboxOutsidePrime
  <2>4. QED
    BY <1>16, <2>1, <2>3 DEF SendDone, registry
<1>17. CASE DisconnectClients(c)
  BY <1>1, <1>17 DEF DisconnectClients
<1>18. CASE DisconnectChannels(c)
  BY <1>1, <1>18 DEF DisconnectChannels
<1>19. CASE DisconnectTopics(c)
  BY <1>1, <1>19 DEF DisconnectTopics
<1>20. CASE DisconnectRemove(c)
  <2>1. Inbox' = Inbox
    BY <1>20, InboxSent DEF DisconnectRemove, Return, Inside, OrderlyInv
  <2>2. Registry!Disconnect(c)
    BY <1>20, <2>1 DEF DisconnectRemove, Registry!Disconnect
  <2>3. QED
    BY <2>2 DEF Registry!Next
<1>21. QED
  BY <1>2, <1>3, <1>4, <1>5, <1>6, <1>7, <1>8, <1>9, <1>10, <1>11, <1>12, <1>13,
     <1>14, <1>15, <1>16, <1>17, <1>18, <1>19, <1>20 DEF Step

LEMMA RegistryNext == OrderlyInv /\ AnyInv' /\ [Next]_vars => [Registry!Next]_Registry!vars
<1>1. ASSUME OrderlyInv, AnyInv', NEW c \in Conn, OrderlyCall(c)
      PROVE  UNCHANGED Registry!vars
  <2>1. PICK l \in {"connect", "subscribe", "unsubscribe", "send", "disconnect"},
             ch \in Channel \cup {None}, s \in SubId \cup {None} : Call(c, l, ch, s)
    BY <1>1 DEF OrderlyCall, Join, Exit, Report, Logout, CallConnect, CallSubscribe,
                CallUnsubscribe, CallSend, CallDisconnect
  <2>2. Inbox' = Inbox
    BY <1>1, <2>1, InboxKept DEF Call, registry, OrderlyInv, AnyInv, TypeOK
  <2>3. QED
    BY <2>1, <2>2 DEF Call, registry, Registry!vars
<1>2. ASSUME UNCHANGED vars
      PROVE  UNCHANGED Registry!vars
  BY <1>2 DEF vars, registry, Registry!vars, Inbox, Owed, MessageTo
<1>3. QED
  BY <1>1, <1>2, RegistryStep DEF Next

(* The code with its three monitors and its delivery loop implements the   *)
(* registry in which every operation, a broadcast included, is one step.   *)
THEOREM RegistryImplemented == Spec => ImplementsRegistry
<1>1. OrderlyInv => AnyInv
  BY DEF OrderlyInv
<1>2. QED
  BY <1>1, RegistryInit, RegistryNext, OrderlyInvariant, PTL
  DEF Spec, ImplementsRegistry, Registry!Spec
=============================================================================
