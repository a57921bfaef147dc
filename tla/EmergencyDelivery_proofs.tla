---------------------- MODULE EmergencyDelivery_proofs ----------------------
(***************************************************************************)
(* Proofs about what the service delivers: nothing under a subscription    *)
(* whose end has been confirmed, and the reports of an author in order     *)
(* and without a gap.                                                      *)
(***************************************************************************)
EXTENDS EmergencyService_proofs

USE DEF links, client, history, session, joined, server, table, registry

-----------------------------------------------------------------------------
(* The ids that are held after p frames: each is one that a SUBSCRIBE gave *)
(* to its channel, and none that was given up.                             *)

Ordered(frames) ==
    \A l \in 1..Len(frames) : \A k \in 1..l - 1 :
        frames[l].type = "SUBSCRIBE" /\ NamesId(frames[k]) => frames[k].id < frames[l].id

GivenTo(ch, s, frames, p) ==
    \E k \in 1..p : /\ frames[k].type = "SUBSCRIBE"
                    /\ frames[k].id = s
                    /\ frames[k].destination = ch

GivenUp(s, frames, p) ==
    \E k \in 1..p :
        \/ frames[k].type = "UNSUBSCRIBE" /\ frames[k].id = s
        \/ /\ frames[k].type = "DISCONNECT"
           /\ \E i \in 1..k - 1 : frames[i].type = "SUBSCRIBE" /\ frames[i].id = s

SoFar(held, frames, p) ==
    \A ch \in Channel : held[ch] # None =>
        GivenTo(ch, held[ch], frames, p) /\ ~GivenUp(held[ch], frames, p)

LEMMA ChangedEither ==
    ASSUME NEW held \in Holding, NEW f \in Request, NEW ch \in Channel,
           Changed(held, f)[ch] # None
    PROVE  \/ /\ Changed(held, f)[ch] = held[ch] /\ f.type # "DISCONNECT"
              /\ f.type = "UNSUBSCRIBE" => f.id # held[ch]
           \/ f.type = "SUBSCRIBE" /\ f.destination = ch /\ Changed(held, f)[ch] = f.id
<1>1. f.type \in {"CONNECT", "SUBSCRIBE", "UNSUBSCRIBE", "SEND", "DISCONNECT"}
  BY RequestFields
<1>2. CASE f.type = "SUBSCRIBE"
  <2>1. Changed(held, f) = [held EXCEPT ![f.destination] = f.id]
    BY <1>2 DEF Changed
  <2>2. QED
    BY <1>2, <2>1 DEF Holding
<1>3. CASE f.type = "UNSUBSCRIBE"
  <2>1. Changed(held, f)[ch] = IF held[ch] = f.id THEN None ELSE held[ch]
    BY <1>3 DEF Changed
  <2>2. QED
    BY <1>3, <2>1
<1>4. CASE f.type = "DISCONNECT"
  BY <1>4 DEF Changed, NoSubscriptions
<1>5. CASE f.type \in {"CONNECT", "SEND"}
  BY <1>5 DEF Changed
<1>6. QED
  BY <1>1, <1>2, <1>3, <1>4, <1>5

(* A SUBSCRIBE has an id of its own.                                       *)
LEMMA FreshId ==
    ASSUME NEW frames \in Seq(Request), Ordered(frames), NEW l \in 1..Len(frames),
           frames[l].type = "SUBSCRIBE", NEW k \in 1..l - 1, NamesId(frames[k])
    PROVE  frames[k].id # frames[l].id
<1>1. k \in 1..Len(frames)
  OBVIOUS
<1>2. frames[k] \in Request /\ frames[l] \in Request
  BY <1>1
<1>3. frames[k].id \in Nat /\ frames[l].id \in Nat
  BY <1>2, RequestFields DEF NamesId
<1>4. frames[k].id < frames[l].id
  BY DEF Ordered
<1>5. QED
  BY <1>3, <1>4

LEMMA SoFarNext ==
    ASSUME NEW frames \in Seq(Request), Ordered(frames), NEW p \in Nat, p < Len(frames),
           NEW held \in Holding, SoFar(held, frames, p)
    PROVE  SoFar(Changed(held, frames[p + 1]), frames, p + 1)
<1>0. PICK n \in Nat : n = Len(frames) /\ p < n
  OBVIOUS
<1>1. PICK f \in Request : f = frames[p + 1]
  BY <1>0
<1>2. PICK next \in Holding : next = Changed(held, f)
  BY ChangedType
<1> SUFFICES ASSUME NEW ch \in Channel, next[ch] # None
             PROVE  GivenTo(ch, next[ch], frames, p + 1) /\ ~GivenUp(next[ch], frames, p + 1)
  BY <1>1, <1>2 DEF SoFar
<1>3. \/ next[ch] = held[ch] /\ f.type # "DISCONNECT" /\ (f.type = "UNSUBSCRIBE" => f.id # held[ch])
      \/ f.type = "SUBSCRIBE" /\ f.destination = ch /\ next[ch] = f.id
  BY <1>2, ChangedEither
<1>4. CASE next[ch] = held[ch] /\ f.type # "DISCONNECT" /\ (f.type = "UNSUBSCRIBE" => f.id # held[ch])
  <2>1. GivenTo(ch, held[ch], frames, p) /\ ~GivenUp(held[ch], frames, p)
    BY <1>4 DEF SoFar
  <2>2. GivenTo(ch, held[ch], frames, p + 1)
    BY <2>1 DEF GivenTo
  <2>3. \A k \in 1..p + 1 : k \in 1..p \/ k = p + 1
    OBVIOUS
  <2>4. ~GivenUp(held[ch], frames, p + 1)
    BY <1>1, <1>4, <2>1, <2>3 DEF GivenUp
  <2>5. QED
    BY <1>4, <2>2, <2>4
<1>5. CASE f.type = "SUBSCRIBE" /\ f.destination = ch /\ next[ch] = f.id
  <2>1. GivenTo(ch, f.id, frames, p + 1)
    <3>1. p + 1 \in 1..p + 1
      OBVIOUS
    <3>2. QED
      BY <1>1, <1>5, <3>1 DEF GivenTo
  <2>2. \A k \in 1..p : NamesId(frames[k]) => frames[k].id # f.id
    <3> SUFFICES ASSUME NEW k \in 1..p, NamesId(frames[k]) PROVE frames[k].id # f.id
      OBVIOUS
    <3>1. p + 1 \in 1..Len(frames) /\ k \in 1..(p + 1) - 1
      BY <1>0
    <3>2. QED
      BY <1>1, <1>5, <3>1, FreshId
  <2>3. \A k \in 1..p + 1 : (k \in 1..p \/ k = p + 1) /\ \A i \in 1..k - 1 : i \in 1..p
    OBVIOUS
  <2>4. ~GivenUp(f.id, frames, p + 1)
    BY <1>1, <1>5, <2>2, <2>3 DEF GivenUp, NamesId
  <2>5. QED
    BY <1>5, <2>1, <2>4
<1>6. QED
  BY <1>3, <1>4, <1>5

LEMMA HeldSoFar ==
    ASSUME LinksTypeOK, NEW c \in Client, Ordered(toServer[c]), NEW p \in 0..Len(toServer[c])
    PROVE  SoFar(Subscriptions(toServer[c])[p], toServer[c], p)
<1>0. PICK frames \in Seq(Request), n \in Nat :
        /\ frames = toServer[c] /\ n = Len(frames) /\ Follows(Subscriptions(frames), frames, n)
  BY HeldAre DEF LinksTypeOK
<1>1. PICK held :
        /\ frames = toServer[c] /\ n = Len(frames)
        /\ held = Subscriptions(frames) /\ Follows(held, frames, n)
  BY <1>0
<1> DEFINE S == {i \in Nat : i <= n => SoFar(held[i], frames, i)}
<1>2. 0 \in S
  BY <1>1 DEF Follows, SoFar, NoSubscriptions
<1>3. ASSUME NEW i \in S, i < n PROVE i + 1 \in S
  <2>1. i \in 0..n /\ i + 1 \in 1..n /\ (i + 1) - 1 = i /\ SoFar(held[i], frames, i)
    BY <1>3
  <2>2. held[i + 1] = Changed(held[i], frames[i + 1]) /\ held[i] \in Holding
    BY <1>1, <2>1 DEF Follows
  <2>3. SoFar(held[i + 1], frames, i + 1)
    BY <1>1, <1>3, <2>1, <2>2, SoFarNext
  <2>4. QED
    BY <2>3
<1> HIDE DEF S
<1>4. 0..n \subseteq S
  <2>1. S \in SUBSET Nat
    BY DEF S
  <2>2. QED
    BY <1>2, <1>3, <2>1, Induction
<1>5. p \in S /\ p <= n
  BY <1>1, <1>4
<1>6. QED
  BY <1>1, <1>5 DEF S

-----------------------------------------------------------------------------
(* What comes to a client: the answers of its own thread, and the reports  *)
(* of the others'.                                                         *)

NewReport(b, d) ==
    MessageFrame(channelToSubscribedClients[Frame(b).destination][d], messageId[b],
                 Frame(b).destination, Frame(b).report)

IsSentTo(b, d) ==
    /\ thread[b] = "broadcast" /\ d # b /\ d \notin cut
    /\ channelToSubscribedClients[Frame(b).destination][d] # None

LEMMA WhatComes ==
    ASSUME Shape, NEW b \in Client, ServerStep(b), UNCHANGED client, NEW d \in Client
    PROVE  /\ \/ toClient'[d] = toClient[d]
              \/ IsSentTo(b, d) /\ toClient'[d] = Append(toClient[d], NewReport(b, d))
              \/ d = b /\ thread[d] = "answer" /\ toClient'[d] = Append(toClient[d], response[d])
           /\ Broadcast(b) /\ IsSentTo(b, d) => toClient'[d] = Append(toClient[d], NewReport(b, d))
<1>0. LinksTypeOK
  BY DEF Shape, TypeOK
<1>1. ASSUME NEW to, to \subseteq Recipients(b, Frame(b).destination), thread[b] = "broadcast",
             Deliver(b, to)
      PROVE  IF d \in to \ cut
             THEN IsSentTo(b, d) /\ toClient'[d] = Append(toClient[d], NewReport(b, d))
             ELSE toClient'[d] = toClient[d]
  <2>1. CASE d \in to \ cut
    <3>1. toClient'[d] = Append(toClient[d], NewReport(b, d))
      BY <1>1, <2>1 DEF Deliver, NewReport
    <3>2. IsSentTo(b, d)
      BY <1>1, <2>1 DEF Recipients, IsSentTo
    <3>3. QED
      BY <2>1, <3>1, <3>2
  <2>2. CASE d \notin to \ cut
    BY <1>1, <2>2 DEF Deliver
  <2>3. QED
    BY <2>1, <2>2
<1>2. CASE Broadcast(b)
  <2>1. thread[b] = "broadcast" /\ Deliver(b, Recipients(b, Frame(b).destination))
    BY <1>2 DEF Broadcast
  <2>2. IsSentTo(b, d) => d \in Recipients(b, Frame(b).destination) \ cut
    BY DEF IsSentTo, Recipients
  <2>3. QED
    BY <1>1, <2>1, <2>2
<1>3. CASE BroadcastThrows(b)
  <2>1. PICK served \in SUBSET (Recipients(b, Frame(b).destination) \cap connectionIdToClient) :
          Deliver(b, served) /\ thread[b] = "broadcast"
    BY <1>3 DEF BroadcastThrows
  <2>2. ~Broadcast(b)
    BY <1>3 DEF BroadcastThrows, Broadcast
  <2>3. QED
    BY <1>1, <2>1, <2>2
<1>4. CASE SendAnswer(b)
  <2>1. ~Broadcast(b)
    BY <1>4 DEF SendAnswer, Broadcast
  <2>2. QED
    BY <1>0, <1>4, <2>1 DEF SendAnswer, LinksTypeOK
<1>5. CASE ~(Broadcast(b) \/ BroadcastThrows(b) \/ SendAnswer(b))
  BY <1>5 DEF ServerStep, Start, EndOfStream, LoginRefused, LoginAccepted, Connect, Subscribe,
              Unsubscribe, DrawId, LogoutThrows, LogoutUser, Disconnect
<1>6. QED
  BY <1>2, <1>3, <1>4, <1>5

LEMMA NewReportFields ==
    ASSUME Shape, NEW b \in Client, NEW d \in Client, IsSentTo(b, d)
    PROVE  /\ NewReport(b, d) \in Answer /\ IsMessage(NewReport(b, d))
           /\ NewReport(b, d).subscription = channelToSubscribedClients[Frame(b).destination][d]
           /\ NewReport(b, d).destination = Frame(b).destination
           /\ NewReport(b, d).report = Frame(b).report
           /\ NewReport(b, d).subscription \in Nat /\ NewReport(b, d).destination \in Channel
           /\ processed[b] \in 1..Len(toServer[b]) /\ Frame(b) = toServer[b][processed[b]]
           /\ Frame(b).type = "SEND" /\ b \notin cut
<1>1. /\ Frame(b).destination \in Channel /\ Frame(b).report \in Report /\ messageId[b] \in Nat
      /\ channelToSubscribedClients[Frame(b).destination][d] \in Nat
  BY FrameInHand DEF Shape, TypeOK, ServerTypeOK, IsSentTo
<1>2. NewReport(b, d) \in Answer /\ IsMessage(NewReport(b, d))
  BY <1>1, AnswersMade DEF NewReport
<1>3. /\ NewReport(b, d).subscription = channelToSubscribedClients[Frame(b).destination][d]
      /\ NewReport(b, d).destination = Frame(b).destination
      /\ NewReport(b, d).report = Frame(b).report
  BY DEF NewReport, MessageFrame
<1>4. ServerHand(b) /\ LinksTypeOK
  BY DEF Shape, TypeOK
<1>5. processed[b] \in 1..Len(toServer[b])
  BY <1>4 DEF ServerHand, LinksTypeOK, IsSentTo
<1>6. QED
  BY <1>1, <1>2, <1>3, <1>4, <1>5 DEF ServerHand, IsSentTo, Frame

(* Nothing comes to a connection that was ended, or from it.               *)
LEMMA CutIsStill ==
    ASSUME Shape, [Next]_vars, NEW d \in Client, d \in cut
    PROVE  toServer'[d] = toServer[d] /\ toClient'[d] = toClient[d]
<1>1. CASE UNCHANGED vars
  BY <1>1 DEF vars
<1>2. ASSUME NEW b \in Client, ServerStep(b), UNCHANGED client
      PROVE  toServer'[d] = toServer[d] /\ toClient'[d] = toClient[d]
  <2>1. thread[d] = "over"
    BY DEF Shape, ServerHand
  <2>2. ~IsSentTo(b, d)
    BY DEF IsSentTo
  <2>3. QED
    BY <1>2, <2>1, <2>2, WhatComes, ServerShape
<1>3. ASSUME NEW b \in Client, ClientAct(b), UNCHANGED server
      PROVE  toServer'[d] = toServer[d] /\ toClient'[d] = toClient[d]
  <2>1. toClient' = toClient /\ (b # d => toServer'[d] = toServer[d])
    BY <1>3, ClientShape DEF Undisturbed
  <2>2. CASE b = d
    BY <1>3, <2>1, <2>2, ClientSteps
       DEF ReadCommand, Ignore, Wait, LoginDone, Login, Join, Exit, ReportOne, Logout, SendTo,
           ReadFrame, Notify, Crash
  <2>3. QED
    BY <2>1, <2>2
<1>4. QED
  BY <1>1, <1>2, <1>3 DEF Next, ClientAct

(* The frames sent before stay what they were.                             *)
LEMMA RequestsStay ==
    ASSUME Shape, [Next]_vars, NEW d \in Client
    PROVE  /\ Len(toServer[d]) \in Nat /\ Len(toServer'[d]) \in Nat
           /\ Len(toServer[d]) <= Len(toServer'[d])
           /\ \A k \in 1..Len(toServer[d]) : toServer'[d][k] = toServer[d][k]
<1>0. toServer[d] \in Seq(Request) /\ toServer'[d] \in Seq(Request)
  BY ShapeNext DEF Shape, TypeOK, LinksTypeOK
<1>1. CASE toServer'[d] = toServer[d]
  BY <1>0, <1>1
<1>2. CASE toServer'[d] # toServer[d]
  <2>1. ClientAct(d) /\ UNCHANGED server
    BY <1>2, ClientShape, ServerShape DEF Next, ClientAct, Undisturbed, vars
  <2>2. PICK f \in Request, ok \in BOOLEAN : SendTo(d, f, ok)
    BY <1>2, <2>1, ClientSteps, CommandsSend
       DEF Sends, ReadCommand, Ignore, Wait, LoginDone, ReadFrame, Notify, Crash
  <2>3. toServer'[d] = Append(toServer[d], f)
    BY <1>2, <2>2, SendToLinks DEF Shape, TypeOK
  <2>4. QED
    BY <1>0, <2>3
<1>3. QED
  BY <1>1, <1>2

-----------------------------------------------------------------------------
(* Receipts and ids are numbers never used before.                         *)

LEMMA NumbersType ==
    ASSUME Shape, NEW c \in Client, NEW k \in 1..Len(toServer[c])
    PROVE  /\ toServer[c][k] \in Request
           /\ WantsReceipt(toServer[c][k]) => toServer[c][k].receipt \in Nat
           /\ NamesId(toServer[c][k]) => toServer[c][k].id \in Nat
<1>1. toServer[c][k] \in Request
  BY DEF Shape, TypeOK, LinksTypeOK
<1>2. QED
  BY <1>1, RequestFields DEF WantsReceipt, NamesId

LEMMA NumberedSent ==
    ASSUME Shape, NEW c \in Client, Numbered(c), NEW f \in Request,
           toServer'[c] = Append(toServer[c], f),
           receiptCount'[c] \in Nat, subscriptionId'[c] \in Nat,
           receiptCount[c] <= receiptCount'[c], subscriptionId[c] <= subscriptionId'[c],
           WantsReceipt(f) => f.receipt = receiptCount[c] /\ receiptCount[c] < receiptCount'[c],
           NamesId(f) => f.id < subscriptionId'[c],
           f.type = "SUBSCRIBE" => f.id = subscriptionId[c],
           f.type = "SEND" => f.report.author = c
    PROVE  Numbered(c)'
<1>1. PICK n \in Nat : n = Len(toServer[c])
  BY DEF Shape, TypeOK, LinksTypeOK
<1>2. /\ Len(toServer'[c]) = n + 1 /\ toServer'[c][n + 1] = f
      /\ \A k \in 1..n : toServer'[c][k] = toServer[c][k]
  BY <1>1 DEF Shape, TypeOK, LinksTypeOK
<1>3. receiptCount[c] \in Nat /\ subscriptionId[c] \in Nat
  BY DEF Shape, TypeOK, ClientTypeOK
<1>4. ASSUME NEW l \in 1..n + 1
      PROVE  LET g == toServer'[c][l]
             IN  /\ WantsReceipt(g) => g.receipt < receiptCount'[c]
                 /\ NamesId(g) => g.id < subscriptionId'[c]
                 /\ g.type = "SEND" => g.report.author = c
                 /\ \A k \in 1..l - 1 :
                       /\ WantsReceipt(g) /\ WantsReceipt(toServer'[c][k])
                             => toServer'[c][k].receipt < g.receipt
                       /\ g.type = "SUBSCRIBE" /\ NamesId(toServer'[c][k])
                             => toServer'[c][k].id < g.id
  <2>1. CASE l = n + 1
    <3>1. \A k \in 1..n : /\ WantsReceipt(toServer[c][k]) => toServer[c][k].receipt < receiptCount[c]
                          /\ NamesId(toServer[c][k]) => toServer[c][k].id < subscriptionId[c]
      BY <1>1 DEF Numbered
    <3>2. 1..l - 1 = 1..n
      BY <2>1
    <3>3. f.type = "SUBSCRIBE" => NamesId(f)
      BY DEF NamesId
    <3>4. QED
      BY <1>2, <1>3, <2>1, <3>1, <3>2, <3>3
  <2>2. CASE l # n + 1
    <3>1. l \in 1..n /\ \A k \in 1..l - 1 : k \in 1..n
      BY <2>2
    <3>2. toServer'[c][l] = toServer[c][l] /\ \A k \in 1..l - 1 : toServer'[c][k] = toServer[c][k]
      BY <1>2, <3>1
    <3>3. /\ WantsReceipt(toServer[c][l]) => toServer[c][l].receipt \in Nat
          /\ NamesId(toServer[c][l]) => toServer[c][l].id \in Nat
      BY <1>1, <3>1, NumbersType
    <3>4. LET g == toServer[c][l]
          IN  /\ WantsReceipt(g) => g.receipt < receiptCount[c]
              /\ NamesId(g) => g.id < subscriptionId[c]
              /\ g.type = "SEND" => g.report.author = c
              /\ \A k \in 1..l - 1 :
                    /\ WantsReceipt(g) /\ WantsReceipt(toServer[c][k])
                          => toServer[c][k].receipt < g.receipt
                    /\ g.type = "SUBSCRIBE" /\ NamesId(toServer[c][k])
                          => toServer[c][k].id < g.id
      BY <1>1, <3>1 DEF Numbered
    <3>5. \A m, x, y \in Nat : m < x /\ x <= y => m < y
      OBVIOUS
    <3>6. WantsReceipt(toServer[c][l]) => toServer[c][l].receipt < receiptCount'[c]
      BY <1>3, <3>3, <3>4, <3>5
    <3>7. NamesId(toServer[c][l]) => toServer[c][l].id < subscriptionId'[c]
      BY <1>3, <3>3, <3>4, <3>5
    <3>8. QED
      BY <3>2, <3>4, <3>6, <3>7
  <2>3. QED
    BY <2>1, <2>2
<1>5. QED
  BY <1>2, <1>4 DEF Numbered

LEMMA NumberedNext ==
    ASSUME Shape, [Next]_vars, NEW c \in Client, c \notin cut', SubscriptionsFit(c), Numbered(c)
    PROVE  Numbered(c)'
<1>0. c \notin cut /\ LinksTypeOK /\ ClientTypeOK /\ ClientTypeOK'
  BY CutGrows, ShapeNext DEF Shape, TypeOK
<1>1. ASSUME toServer'[c] = toServer[c], receiptCount'[c] = receiptCount[c],
             subscriptionId'[c] = subscriptionId[c]
      PROVE  Numbered(c)'
  BY <1>1 DEF Numbered
<1>2. CASE UNCHANGED vars
  BY <1>1, <1>2 DEF vars
<1>3. CASE Undisturbed(c)
  BY <1>1, <1>3 DEF Undisturbed
<1>4. ASSUME ServerStep(c), UNCHANGED client PROVE Numbered(c)'
  BY <1>1, <1>4, ServerShape
<1>5. ASSUME NEW f, NEW ok \in BOOLEAN, Sends(c, f, ok)
      PROVE  f \in Request /\ toServer'[c] = Append(toServer[c], f)
  BY <1>0, <1>5, SendToLinks DEF Sends
<1>6. /\ receiptCount[c] \in Nat /\ subscriptionId[c] \in Nat
      /\ receiptCount'[c] \in Nat /\ subscriptionId'[c] \in Nat
  BY <1>0 DEF ClientTypeOK
<1> USE DEF WantsReceipt, NamesId
<1>7. ASSUME ClientAct(c), UNCHANGED server PROVE Numbered(c)'
  <2>1. CASE \/ \E cmd \in Command : ReadCommand(c, cmd)
             \/ Ignore(c) \/ Wait(c) \/ LoginDone(c) \/ ReadFrame(c) \/ Notify(c) \/ Crash(c)
    BY <1>1, <2>1 DEF ReadCommand, Ignore, Wait, LoginDone, ReadFrame, Notify, Crash
  <2>2. ASSUME NEW ok \in BOOLEAN, Login(c, ok) PROVE Numbered(c)'
    <3>1. PICK f : f = ConnectFrame(command[c].user)
      OBVIOUS
    <3>2. Sends(c, f, ok) /\ f.type = "CONNECT"
      BY <2>2, <3>1, CommandsSend DEF ConnectFrame
    <3>3. UNCHANGED joined
      BY <2>2 DEF Login
    <3>4. QED
      BY <1>5, <1>6, <3>2, <3>3, NumberedSent
  <2>3. ASSUME NEW ok \in BOOLEAN, Join(c, ok) PROVE Numbered(c)'
    <3>1. PICK f : f = SubscribeFrame(command[c].channel, subscriptionId[c], receiptCount[c])
      OBVIOUS
    <3>2. /\ Sends(c, f, ok) /\ f.type = "SUBSCRIBE"
          /\ f.id = subscriptionId[c] /\ f.receipt = receiptCount[c]
      BY <2>3, <3>1, CommandsSend DEF SubscribeFrame
    <3>3. receiptCount'[c] = receiptCount[c] + 1 /\ subscriptionId'[c] = subscriptionId[c] + 1
      BY <1>0, <2>3 DEF Join, ClientTypeOK
    <3>4. QED
      BY SMTT(30), <1>5, <1>6, <3>2, <3>3, NumberedSent
  <2>4. ASSUME NEW ok \in BOOLEAN, Exit(c, ok) PROVE Numbered(c)'
    <3>1. PICK f : f = UnsubscribeFrame(subscriptionToSubId[c][command[c].channel], receiptCount[c])
      OBVIOUS
    <3>2. /\ Sends(c, f, ok) /\ f.type = "UNSUBSCRIBE"
          /\ f.id = subscriptionToSubId[c][command[c].channel] /\ f.receipt = receiptCount[c]
          /\ command[c].channel \in Channel /\ f.id \in Nat
      BY <2>4, <3>1, CommandsSend DEF UnsubscribeFrame
    <3>3. receiptCount'[c] = receiptCount[c] + 1 /\ subscriptionId'[c] = subscriptionId[c]
      BY <1>0, <2>4 DEF Exit, ClientTypeOK
    <3>4. Last(c)[command[c].channel] = f.id
      BY <2>4, <3>2 DEF Exit, Joined, SubscriptionsFit, Believes, Last
    <3>5. Proper(Last(c), subscriptionId[c])
      <4>1. Len(toServer[c]) \in 0..Len(toServer[c])
        BY <1>0 DEF LinksTypeOK
      <4>2. QED
        BY <4>1 DEF SubscriptionsFit, Last
    <3>6. f.id < subscriptionId[c]
      BY <3>2, <3>4, <3>5, FramesAssumption DEF Proper
    <3>7. QED
      BY SMTT(30), <1>5, <1>6, <3>2, <3>3, <3>6, NumberedSent
  <2>5. ASSUME NEW ok \in BOOLEAN, ReportOne(c, ok) PROVE Numbered(c)'
    <3>1. PICK f : f = SendFrame(command[c].channel, [author |-> c, owner |-> currentUser[c],
                                                      count |-> entered[c] + 1])
      OBVIOUS
    <3>2. Sends(c, f, ok) /\ f.type = "SEND" /\ f.report.author = c
      BY <2>5, <3>1, CommandsSend DEF SendFrame
    <3>3. UNCHANGED joined
      BY <2>5 DEF ReportOne
    <3>4. QED
      BY <1>5, <1>6, <3>2, <3>3, NumberedSent
  <2>6. ASSUME NEW ok \in BOOLEAN, Logout(c, ok) PROVE Numbered(c)'
    <3>1. PICK f : f = DisconnectFrame(receiptCount[c])
      OBVIOUS
    <3>2. Sends(c, f, ok) /\ f.type = "DISCONNECT" /\ f.receipt = receiptCount[c]
      BY <2>6, <3>1, CommandsSend DEF DisconnectFrame
    <3>3. receiptCount'[c] = receiptCount[c] + 1 /\ subscriptionId'[c] = subscriptionId[c]
      BY <1>0, <2>6 DEF Logout, ClientTypeOK
    <3>4. QED
      BY <1>5, <1>6, <3>2, <3>3, NumberedSent
  <2>7. QED
    BY <1>7, <2>1, <2>2, <2>3, <2>4, <2>5, <2>6, ClientSteps
<1>8. QED
  BY <1>2, <1>3, <1>4, <1>7, ClientShape, ServerShape DEF Next, ClientAct

-----------------------------------------------------------------------------
(* How far a step of the server gets with the frames of its connection.    *)

LEMMA HowFar ==
    ASSUME Shape, NEW c \in Client
    PROVE  /\ Len(toServer[c]) \in Nat /\ processed[c] \in 0..Len(toServer[c])
           /\ Applied(c) \in 0..Len(toServer[c]) /\ Delivered(c) \in 0..Len(toServer[c])
<1>1. /\ Len(toServer[c]) \in Nat /\ processed[c] \in Nat /\ processed[c] <= Len(toServer[c])
      /\ ServerHand(c)
  BY DEF Shape, TypeOK, LinksTypeOK
<1>2. thread[c] \in {"broadcast", "disconnect"} => processed[c] > 0
  BY <1>1 DEF ServerHand
<1>3. QED
  BY <1>1, <1>2 DEF Applied, Delivered

(* An answer is a receipt for the frame that was just applied, or none.    *)
LEMMA StepForward ==
    ASSUME Shape, NEW c \in Client, ServerStep(c), UNCHANGED client, c \notin cut'
    PROVE  /\ Applied(c)' \in {Applied(c), Applied(c) + 1}
           /\ thread'[c] = "answer" =>
                 \/ response'[c].type # "RECEIPT"
                 \/ /\ Applied(c)' > 0
                    /\ WantsReceipt(toServer[c][Applied(c)'])
                    /\ response'[c].receipt = toServer[c][Applied(c)'].receipt
           /\ \/ Delivered(c)' = Delivered(c)
              \/ Delivered(c)' = Delivered(c) + 1 /\ toServer[c][Delivered(c) + 1].type # "SEND"
              \/ /\ Broadcast(c)
                 /\ Delivered(c)' = Delivered(c) + 1 /\ Delivered(c) + 1 = processed[c]
<1> DEFINE Goal == /\ Applied(c)' \in {Applied(c), Applied(c) + 1}
                   /\ thread'[c] = "answer" =>
                         \/ response'[c].type # "RECEIPT"
                         \/ /\ Applied(c)' > 0
                            /\ WantsReceipt(toServer[c][Applied(c)'])
                            /\ response'[c].receipt = toServer[c][Applied(c)'].receipt
                   /\ \/ Delivered(c)' = Delivered(c)
                      \/ /\ Delivered(c)' = Delivered(c) + 1
                         /\ toServer[c][Delivered(c) + 1].type # "SEND"
                      \/ /\ Broadcast(c)
                         /\ Delivered(c)' = Delivered(c) + 1 /\ Delivered(c) + 1 = processed[c]
<1>0. /\ LinksTypeOK /\ ServerTypeOK /\ ServerHand(c)
      /\ processed[c] \in Nat /\ Len(toServer[c]) \in Nat
  BY DEF Shape, TypeOK, LinksTypeOK
<1> USE DEF Applied, Delivered, Continue
<1>1. ASSUME processed'[c] = processed[c], thread[c] \notin {"broadcast", "disconnect"},
             thread'[c] \notin {"broadcast", "disconnect"},
             thread'[c] = "answer" => response'[c].type # "RECEIPT"
      PROVE  Goal
  BY <1>1
<1>2. ASSUME NEW type, Take(c, type)
      PROVE  /\ processed'[c] = processed[c] + 1 /\ toServer[c][processed[c] + 1].type = type
             /\ thread[c] = "read" /\ NextFrame(c) = toServer[c][processed[c] + 1]
  BY <1>0, <1>2 DEF Take, NextFrame, LinksTypeOK
<1>3. CASE Start(c) \/ SendAnswer(c) \/ Connect(c)
  <2>1. /\ processed'[c] = processed[c] /\ thread[c] \in {"start", "answer", "connect"}
        /\ thread'[c] \in {"read", "answer"}
        /\ thread'[c] = "answer" => response'[c] = ConnectedFrame
    BY <1>0, <1>3 DEF Start, SendAnswer, Connect, Respond, ServerTypeOK
  <2>2. ConnectedFrame.type # "RECEIPT"
    BY DEF ConnectedFrame
  <2>3. QED
    BY <1>1, <2>1, <2>2
<1>4. CASE LoginRefused(c) \/ LoginAccepted(c)
  <2>1. /\ Take(c, "CONNECT") /\ thread'[c] \in {"connect", "answer"}
        /\ thread'[c] = "answer" => response'[c] = ErrorFrame
    BY <1>0, <1>4 DEF LoginRefused, LoginAccepted, Respond, ServerTypeOK
  <2>2. ErrorFrame.type # "RECEIPT"
    BY DEF ErrorFrame
  <2>3. QED
    BY <1>0, <1>2, <2>1, <2>2
<1>5. CASE Subscribe(c) \/ Unsubscribe(c)
  <2>1. PICK type \in {"SUBSCRIBE", "UNSUBSCRIBE"} : Take(c, type)
    BY <1>5 DEF Subscribe, Unsubscribe
  <2>2. thread'[c] = "answer" /\ response'[c] = ReceiptFrame(NextFrame(c).receipt)
    BY <1>0, <1>5 DEF Subscribe, Unsubscribe, Respond, ServerTypeOK
  <2>3. response'[c].receipt = NextFrame(c).receipt
    BY <2>2 DEF ReceiptFrame
  <2>4. QED
    BY <1>0, <1>2, <2>1, <2>2, <2>3 DEF WantsReceipt
<1>6. CASE DrawId(c)
  <2>1. Take(c, "SEND") /\ thread'[c] = "broadcast"
    BY <1>0, <1>6 DEF DrawId, ServerTypeOK
  <2>2. QED
    BY SMTT(30), <1>0, <1>2, <2>1
<1>7. CASE Broadcast(c)
  <2>1. thread[c] = "broadcast" /\ thread'[c] = "read" /\ processed'[c] = processed[c]
    BY <1>0, <1>7 DEF Broadcast, ServerTypeOK
  <2>2. QED
    BY <1>0, <1>7, <2>1
<1>8. CASE LogoutUser(c)
  <2>1. Take(c, "DISCONNECT") /\ thread'[c] = "disconnect"
    BY <1>0, <1>8 DEF LogoutUser, ServerTypeOK
  <2>2. Applied(c)' = Applied(c)
    BY <1>0, <1>2, <2>1
  <2>3. Delivered(c)' = Delivered(c) + 1 /\ toServer[c][Delivered(c) + 1].type # "SEND"
    BY <1>0, <1>2, <2>1
  <2>4. QED
    BY <2>1, <2>2, <2>3
<1>9. CASE Disconnect(c)
  <2>1. /\ thread[c] = "disconnect" /\ thread'[c] = "answer" /\ processed'[c] = processed[c]
        /\ response'[c] = ReceiptFrame(Frame(c).receipt)
    BY <1>0, <1>9 DEF Disconnect, Respond, ServerTypeOK
  <2>2. response'[c].receipt = toServer[c][processed[c]].receipt
    BY <2>1 DEF ReceiptFrame, Frame
  <2>3. toServer[c][processed[c]].type = "DISCONNECT" /\ processed[c] > 0
    BY <1>0, <2>1 DEF ServerHand, Frame
  <2>4. QED
    BY <1>0, <2>1, <2>2, <2>3 DEF WantsReceipt
<1>10. CASE EndOfStream(c) \/ BroadcastThrows(c) \/ LogoutThrows(c)
  BY <1>10 DEF EndOfStream, BroadcastThrows, LogoutThrows, Throw
<1>11. QED
  BY SMTT(30), <1>3, <1>4, <1>5, <1>6, <1>7, <1>8, <1>9, <1>10 DEF ServerStep

(* What others do leaves it.                                               *)
LEMMA StepElsewhere ==
    ASSUME Shape, [Next]_vars, NEW c \in Client
    PROVE  \/ ServerStep(c) /\ UNCHANGED client
           \/ /\ processed'[c] = processed[c] /\ thread'[c] = thread[c] /\ response'[c] = response[c]
              /\ Applied(c)' = Applied(c) /\ Delivered(c)' = Delivered(c)
              /\ \A ch \in Channel :
                    channelToSubscribedClients'[ch][c] = channelToSubscribedClients[ch][c]
<1> SUFFICES ASSUME ~(ServerStep(c) /\ UNCHANGED client)
             PROVE  /\ processed'[c] = processed[c] /\ thread'[c] = thread[c]
                    /\ response'[c] = response[c]
                    /\ Applied(c)' = Applied(c) /\ Delivered(c)' = Delivered(c)
                    /\ \A ch \in Channel :
                          channelToSubscribedClients'[ch][c] = channelToSubscribedClients[ch][c]
  OBVIOUS
<1>1. /\ processed'[c] = processed[c] /\ thread'[c] = thread[c] /\ response'[c] = response[c]
      /\ \A ch \in Channel :
            channelToSubscribedClients'[ch][c] = channelToSubscribedClients[ch][c]
  <2>1. CASE UNCHANGED vars
    BY <2>1 DEF vars
  <2>2. CASE Undisturbed(c)
    BY <2>2 DEF Undisturbed
  <2>3. CASE ClientAct(c) /\ UNCHANGED server
    BY <2>3, ClientShape
  <2>4. QED
    BY <2>1, <2>2, <2>3, ClientShape, ServerShape DEF Next, ClientAct
<1>2. QED
  BY <1>1 DEF Applied, Delivered

-----------------------------------------------------------------------------
(* Receipts and reports.                                                   *)

LEMMA ReportComes ==
    ASSUME Shape, NEW b \in Client, NEW d \in Client, IsSentTo(b, d),
           Numbered(b), Numbered(d), SubscriptionsFit(d)
    PROVE  /\ NewReport(b, d).report.author = b
           /\ CameUnder(d, NewReport(b, d))
           /\ ~GivenUp(NewReport(b, d).subscription, toServer[d], Applied(d))
<1>1. PICK f \in Answer, s \in Nat, ch \in Channel :
        /\ f = NewReport(b, d) /\ s = f.subscription /\ ch = f.destination
        /\ s = channelToSubscribedClients[ch][d]
  BY NewReportFields
<1>2. f.report.author = b
  BY <1>1, NewReportFields DEF Numbered
<1>3. PICK held : held = Subscriptions(toServer[d])[Applied(d)]
  OBVIOUS
<1>4. held[ch] = s /\ held[ch] # None
  BY <1>1, <1>3, FramesAssumption DEF SubscriptionsFit, Has
<1>5. SoFar(held, toServer[d], Applied(d))
  <2>1. Ordered(toServer[d]) /\ LinksTypeOK
    BY DEF Numbered, Ordered, Shape, TypeOK
  <2>2. QED
    BY <1>3, <2>1, HowFar, HeldSoFar
<1>6. GivenTo(ch, s, toServer[d], Applied(d)) /\ ~GivenUp(s, toServer[d], Applied(d))
  BY <1>4, <1>5 DEF SoFar
<1>7. CameUnder(d, f)
  BY <1>1, <1>2, <1>6 DEF CameUnder, GivenTo, IsSentTo
<1>8. QED
  BY <1>1, <1>2, <1>6, <1>7

(* What a client has at a place it has for good; the rest is new.          *)
LEMMA AnswersStay ==
    ASSUME Shape, [Next]_vars, NEW c \in Client, NEW i \in 1..Len(toClient'[c])
    PROVE  /\ Len(toClient[c]) \in Nat
           /\ \A j \in 1..Len(toClient[c]) :
                 toClient'[c][j] = toClient[c][j] /\ j \in 1..Len(toClient'[c])
           /\ \/ i \in 1..Len(toClient[c])
              \/ /\ i = Len(toClient[c]) + 1 /\ i = Len(toClient'[c]) /\ toServer'[c] = toServer[c]
                 /\ \/ \E b \in Client : /\ ServerStep(b) /\ UNCHANGED client /\ IsSentTo(b, c)
                                         /\ toClient'[c][i] = NewReport(b, c)
                    \/ /\ ServerStep(c) /\ UNCHANGED client /\ thread[c] = "answer"
                       /\ toClient'[c][i] = response[c]
<1>0. toClient[c] \in Seq(Answer)
  BY DEF Shape, TypeOK, LinksTypeOK
<1>1. CASE toClient'[c] = toClient[c]
  BY <1>0, <1>1
<1>2. CASE toClient'[c] # toClient[c]
  <2>1. PICK b \in Client : ServerStep(b) /\ UNCHANGED client
    BY <1>2, ClientShape DEF Next, ClientAct, vars
  <2>2. PICK f : /\ toClient'[c] = Append(toClient[c], f)
                 /\ \/ IsSentTo(b, c) /\ f = NewReport(b, c)
                    \/ b = c /\ thread[c] = "answer" /\ f = response[c]
    BY <1>2, <2>1, WhatComes
  <2>3. toServer'[c] = toServer[c]
    BY <2>1, ServerShape
  <2>4. /\ Len(toClient'[c]) = Len(toClient[c]) + 1 /\ toClient'[c][Len(toClient[c]) + 1] = f
        /\ \A j \in 1..Len(toClient[c]) : toClient'[c][j] = toClient[c][j]
    BY <1>0, <2>2
  <2>5. i \in 1..Len(toClient[c]) \/ i = Len(toClient[c]) + 1
    BY <1>0, <2>4
  <2>6. QED
    BY <1>0, <2>1, <2>2, <2>3, <2>4, <2>5
<1>3. QED
  BY <1>1, <1>2

LEMMA AppliedGrows ==
    ASSUME Shape, [Next]_vars, NEW c \in Client, c \notin cut'
    PROVE  \A k \in 1..Applied(c) : k \in 1..Applied(c)' /\ toServer'[c][k] = toServer[c][k]
<1>1. Applied(c)' \in {Applied(c), Applied(c) + 1}
  BY StepForward, StepElsewhere
<1>2. Applied(c) \in 0..Len(toServer[c]) /\ Len(toServer[c]) \in Nat
  BY HowFar
<1>3. \A k \in 1..Applied(c) : k \in 1..Applied(c)' /\ k \in 1..Len(toServer[c])
  BY <1>1, <1>2
<1>4. QED
  BY <1>3, RequestsStay

LEMMA AccountedNext ==
    ASSUME Shape, [Next]_vars, NEW c \in Client, c \notin cut', SubscriptionsFit(c), Accounted(c),
           \A b \in Client \ cut : Numbered(b)
    PROVE  Accounted(c)'
<1>1. c \notin cut /\ \A k \in 1..Applied(c) : k \in 1..Applied(c)' /\ toServer'[c][k] = toServer[c][k]
  BY CutGrows, AppliedGrows
<1>2. ASSUME NEW f, NEW g, g = f, Receipted(c, f)
      PROVE  g.type = "RECEIPT" => \E k \in 1..Applied(c)' :
                WantsReceipt(toServer'[c][k]) /\ toServer'[c][k].receipt = g.receipt
  BY <1>1, <1>2 DEF Receipted
<1>3. ASSUME NEW f, NEW g, g = f, CameUnder(c, f)
      PROVE  IsMessage(g) => /\ g.report.author # c
                             /\ \E k \in 1..Applied(c)' :
                                   /\ toServer'[c][k].type = "SUBSCRIBE"
                                   /\ toServer'[c][k].id = g.subscription
                                   /\ toServer'[c][k].destination = g.destination
  BY <1>1, <1>3 DEF CameUnder
<1>4. ASSUME NEW i \in 1..Len(toClient'[c])
      PROVE  Receipted(c, toClient[c][i])' /\ CameUnder(c, toClient[c][i])'
  <2>1. PICK f : f = toClient'[c][i] /\ Receipted(c, f) /\ CameUnder(c, f)
    <3>1. CASE i \in 1..Len(toClient[c])
      BY <3>1, AnswersStay DEF Accounted
    <3>2. ASSUME NEW b \in Client, IsSentTo(b, c), toClient'[c][i] = NewReport(b, c)
          PROVE  Receipted(c, NewReport(b, c)) /\ CameUnder(c, NewReport(b, c))
      <4>1. b \notin cut /\ IsMessage(NewReport(b, c))
        BY <3>2, NewReportFields
      <4>2. CameUnder(c, NewReport(b, c))
        BY <1>1, <3>2, <4>1, ReportComes
      <4>3. QED
        BY <4>1, <4>2 DEF Receipted, IsMessage
    <3>3. ASSUME thread[c] = "answer", toClient'[c][i] = response[c]
          PROVE  Receipted(c, response[c]) /\ CameUnder(c, response[c])
      BY <3>3 DEF Accounted, Shape, ServerHand, CameUnder
    <3>4. QED
      BY <3>1, <3>2, <3>3, AnswersStay
  <2>2. QED
    BY <1>2, <1>3, <2>1 DEF Receipted, CameUnder
<1>5. ASSUME thread'[c] = "answer" PROVE Receipted(c, response[c])'
  <2>1. CASE ServerStep(c) /\ UNCHANGED client
    <3>1. /\ toServer' = toServer
          /\ \/ response'[c].type # "RECEIPT"
             \/ /\ Applied(c)' > 0 /\ WantsReceipt(toServer[c][Applied(c)'])
                /\ response'[c].receipt = toServer[c][Applied(c)'].receipt
      BY <1>5, <2>1, StepForward, ServerShape
    <3>2. Applied(c)' \in Nat
      BY HowFar, StepForward, <2>1
    <3>3. Applied(c)' > 0 => Applied(c)' \in 1..Applied(c)'
      BY <3>2
    <3>4. QED
      BY <3>1, <3>3 DEF Receipted
  <2>2. CASE ~(ServerStep(c) /\ UNCHANGED client)
    <3>1. thread[c] = "answer" /\ response'[c] = response[c]
      BY <1>5, <2>2, StepElsewhere
    <3>2. Receipted(c, response[c])
      BY <3>1 DEF Accounted
    <3>3. QED
      BY <1>2, <3>1, <3>2 DEF Receipted
  <2>3. QED
    BY <2>1, <2>2
<1>6. QED
  BY <1>4, <1>5 DEF Accounted

-----------------------------------------------------------------------------
(* The last report from an author under a subscription that holds.         *)

(* A subscription under which something came was there all the time.       *)
LEMMA HeldBefore ==
    ASSUME Shape, [Next]_vars, NEW c \in Client, c \notin cut', SubscriptionsFit(c), Numbered(c),
           NEW ch \in Channel, NEW s \in Nat, GivenTo(ch, s, toServer[c], Applied(c)),
           channelToSubscribedClients'[ch][c] = s
    PROVE  channelToSubscribedClients[ch][c] = s
<1>1. CASE ServerStep(c) /\ UNCHANGED client
  <2>0. /\ toServer[c] \in Seq(Request) /\ Applied(c) \in 0..Len(toServer[c])
        /\ Follows(Subscriptions(toServer[c]), toServer[c], Len(toServer[c]))
    BY HeldAre, HowFar DEF Shape, TypeOK, LinksTypeOK
  <2>1a. PICK n \in Nat, p \in Nat : n = Len(toServer[c]) /\ p = Applied(c) /\ p <= n
    BY <2>0
  <2>1. PICK frames, held :
          /\ frames \in Seq(Request)
          /\ frames = toServer[c] /\ n = Len(frames) /\ p = Applied(c) /\ p <= n
          /\ held = Subscriptions(frames) /\ Follows(held, frames, n)
    BY <2>0, <2>1a
  <2>2. SubscriptionsFit(c)' /\ toServer'[c] = frames
    BY <1>1, <2>1, FitsNext, ServerShape
  <2>3. channelToSubscribedClients[ch][c] = held[p][ch]
    BY <2>1 DEF SubscriptionsFit, Has
  <2>4. channelToSubscribedClients'[ch][c] = held[Applied(c)'][ch]
    BY <2>1, <2>2 DEF SubscriptionsFit, Has
  <2>5. CASE Applied(c)' = p
    BY <2>3, <2>4, <2>5
  <2>6. CASE Applied(c)' = p + 1
    <3>1. p + 1 \in 1..n
      <4>1. /\ processed'[c] \in Nat /\ Len(toServer'[c]) \in Nat
            /\ processed'[c] <= Len(toServer'[c])
        BY ShapeNext DEF Shape, TypeOK, LinksTypeOK
      <4>2. Applied(c)' <= Len(toServer'[c])
        BY SMTT(30), <4>1 DEF Applied
      <4>3. QED
        BY <2>1, <2>2, <2>6, <4>2
    <3>2. held[p + 1] = Changed(held[p], frames[p + 1]) /\ held[p] \in Holding
      <4>1. p \in 0..n /\ (p + 1) - 1 = p
        BY <2>1
      <4>2. QED
        BY <2>1, <3>1, <4>1 DEF Follows
    <3>3. Changed(held[p], frames[p + 1])[ch] = s /\ s # None
      BY <2>4, <2>6, <3>2, FramesAssumption
    <3>4. frames[p + 1] \in Request
      BY <2>1, <3>1
    <3>5. ~(frames[p + 1].type = "SUBSCRIBE" /\ frames[p + 1].id = s)
      <4>1. PICK k \in 1..p : NamesId(frames[k]) /\ frames[k].id = s
        BY <2>1 DEF GivenTo, NamesId
      <4>2. Ordered(frames) /\ k \in 1..(p + 1) - 1
        BY <2>1 DEF Numbered, Ordered
      <4>3. QED
        BY <2>1, <3>1, <4>1, <4>2, FreshId
    <3>6. held[p][ch] = s
      BY <3>2, <3>3, <3>4, <3>5, ChangedEither
    <3>7. QED
      BY <2>3, <3>6
  <2>7. QED
    BY <1>1, <2>1, <2>5, <2>6, StepForward
<1>2. CASE ~(ServerStep(c) /\ UNCHANGED client)
  BY <1>2, StepElsewhere
<1>3. QED
  BY <1>1, <1>2

LEMMA MessageFields ==
    ASSUME NEW f \in Answer, IsMessage(f)
    PROVE  f.report.author \in Client /\ f.destination \in Channel /\ f.subscription \in Nat
<1>1. f \in [type : {"MESSAGE"}, subscription : Nat, number : Nat, destination : Channel,
             report : Report]
  BY DEF Answer, IsMessage, ConnectedFrame, ErrorFrame
<1>2. QED
  BY <1>1 DEF Report

(* The server delivers a report, or gets past a frame that is none to the  *)
(* channel.                                                                *)
LEMMA DeliversOn ==
    ASSUME Shape, [Next]_vars, NEW a \in Client, a \notin cut', NEW c \in Client, a # c,
           c \notin cut, NEW ch \in Channel, channelToSubscribedClients[ch][c] # None
    PROVE  \/ Delivered(a)' = Delivered(a)
           \/ /\ Delivered(a)' = Delivered(a) + 1 /\ Delivered(a) + 1 \in 1..Len(toServer[a])
              /\ \/ toServer[a][Delivered(a) + 1].type # "SEND"
                 \/ toServer[a][Delivered(a) + 1].destination # ch
                 \/ /\ IsSentTo(a, c) /\ Frame(a).destination = ch
                    /\ toClient'[c] = Append(toClient[c], NewReport(a, c))
<1>1. CASE ServerStep(a) /\ UNCHANGED client
  <2>1. /\ toServer' = toServer /\ processed'[a] \in Nat /\ Len(toServer'[a]) \in Nat
        /\ processed'[a] <= Len(toServer'[a])
    <3>1. toServer' = toServer
      BY <1>1, ServerShape
    <3>2. LinksTypeOK'
      BY ShapeNext DEF Shape, TypeOK
    <3>3. QED
      BY <3>1, <3>2 DEF LinksTypeOK
  <2>2. Delivered(a)' <= Len(toServer[a]) /\ Delivered(a) \in Nat
    BY <2>1, HowFar DEF Delivered
  <2>3. Delivered(a)' = Delivered(a) + 1 => Delivered(a) + 1 \in 1..Len(toServer[a])
    BY <2>1, <2>2
  <2>4. ASSUME Broadcast(a), Delivered(a) + 1 = processed[a],
               toServer[a][Delivered(a) + 1].destination = ch
        PROVE  /\ IsSentTo(a, c) /\ Frame(a).destination = ch
               /\ toClient'[c] = Append(toClient[c], NewReport(a, c))
    <3>1. Frame(a).destination = ch
      BY <2>4 DEF Frame
    <3>2. IsSentTo(a, c)
      BY <2>4, <3>1 DEF IsSentTo, Broadcast
    <3>3. QED
      BY <1>1, <2>4, <3>1, <3>2, WhatComes
  <2>5. QED
    BY <1>1, <2>3, <2>4, StepForward
<1>2. CASE ~(ServerStep(a) /\ UNCHANGED client)
  BY <1>2, StepElsewhere
<1>3. QED
  BY <1>1, <1>2

LEMMA CaughtUpNext ==
    ASSUME Shape, [Next]_vars, NEW c \in Client, c \notin cut', SubscriptionsFit(c), Accounted(c),
           CaughtUp(c), \A b \in Client \ cut : Numbered(b)
    PROVE  CaughtUp(c)'
<1>0. c \notin cut
  BY CutGrows
<1> SUFFICES ASSUME NEW i \in 1..Len(toClient'[c]), IsMessage(toClient'[c][i]),
                    channelToSubscribedClients'[toClient'[c][i].destination][c]
                        = toClient'[c][i].subscription,
                    toClient'[c][i].report.author \notin cut',
                    \A j \in i + 1..Len(toClient'[c]) : ~Alike(c, i, j)'
             PROVE  \E k \in 1..Delivered(toClient[c][i].report.author)' :
                       /\ Entered(toClient[c][i].report.author, k, toClient[c][i].report)'
                       /\ NoneTo(toClient[c][i].report.author, toClient[c][i].destination,
                                 k + 1..Delivered(toClient[c][i].report.author))'
  BY DEF CaughtUp
<1>1. PICK f \in Answer, a \in Client, ch \in Channel, s \in Nat :
        /\ f = toClient'[c][i] /\ a = f.report.author /\ ch = f.destination /\ s = f.subscription
  <2>1. toClient'[c][i] \in Answer
    BY ShapeNext DEF Shape, TypeOK, LinksTypeOK
  <2>2. QED
    BY <2>1, MessageFields
<1>2. ASSUME NEW k \in 1..Delivered(a)', toServer'[a][k].type = "SEND",
             toServer'[a][k].report = f.report,
             \A m \in k + 1..Delivered(a)' :
                toServer'[a][m].type = "SEND" => toServer'[a][m].destination # ch
      PROVE  \E n \in 1..Delivered(toClient[c][i].report.author)' :
                       /\ Entered(toClient[c][i].report.author, n, toClient[c][i].report)'
                       /\ NoneTo(toClient[c][i].report.author, toClient[c][i].destination,
                                 n + 1..Delivered(toClient[c][i].report.author))'
  <2>1. /\ toClient'[c][i].report.author = a /\ toClient'[c][i].report = f.report
        /\ toClient'[c][i].destination = ch
    BY <1>1
  <2>2. Delivered(toClient[c][i].report.author)' = Delivered(a)'
    BY <2>1 DEF Delivered
  <2>3. Entered(toClient[c][i].report.author, k, toClient[c][i].report)'
    BY <1>2, <2>1 DEF Entered
  <2>4. NoneTo(toClient[c][i].report.author, toClient[c][i].destination,
               k + 1..Delivered(toClient[c][i].report.author))'
    BY <1>2, <2>1, <2>2 DEF NoneTo
  <2>5. QED
    BY <2>2, <2>3, <2>4
<1>3. CASE i \in 1..Len(toClient[c])
  <2>1. /\ toClient[c][i] = f /\ Len(toClient[c]) \in Nat /\ a \notin cut
        /\ \A j \in i + 1..Len(toClient[c]) : ~Alike(c, i, j)
    <3>1. \A j \in 1..Len(toClient[c]) :
             toClient'[c][j] = toClient[c][j] /\ j \in 1..Len(toClient'[c])
      BY AnswersStay
    <3>2. \A j \in i + 1..Len(toClient[c]) : j \in 1..Len(toClient[c]) /\ j \in i + 1..Len(toClient'[c])
      BY <1>3, <3>1
    <3>3. \A j \in i + 1..Len(toClient[c]) : ~Alike(c, i, j)
      BY <1>3, <3>1, <3>2 DEF Alike
    <3>4. QED
      BY <1>1, <1>3, <3>1, <3>3, AnswersStay, CutGrows
  <2>2. a # c /\ GivenTo(ch, s, toServer[c], Applied(c))
    BY SMTT(30), <1>1, <1>3, <2>1 DEF Accounted, CameUnder, GivenTo
  <2>3. channelToSubscribedClients[ch][c] = s /\ s # None
    BY <1>0, <1>1, <2>2, HeldBefore, FramesAssumption
  <2>4. PICK k \in 1..Delivered(a) : /\ Entered(a, k, f.report)
                                     /\ NoneTo(a, ch, k + 1..Delivered(a))
    BY <1>1, <1>3, <2>1, <2>3 DEF CaughtUp
  <2>5. PICK d \in Nat, n \in Nat : d = Delivered(a) /\ n = Len(toServer[a]) /\ d <= n
    BY SMTT(30), HowFar
  <2>6. \A m \in 1..n : toServer'[a][m] = toServer[a][m]
    BY <2>5, RequestsStay
  <2>7. /\ k \in 1..n /\ toServer'[a][k].type = "SEND" /\ toServer'[a][k].report = f.report
        /\ \A m \in k + 1..d :
              toServer'[a][m].type = "SEND" => toServer'[a][m].destination # ch
    <3>1. k \in 1..n /\ \A m \in k + 1..d : m \in 1..n
      BY <2>5
    <3>2. QED
      BY <2>4, <2>5, <2>6, <3>1 DEF Entered, NoneTo
  <2>8. CASE Delivered(a)' = d
    BY <1>2, <2>5, <2>7, <2>8
  <2>9. CASE /\ Delivered(a)' = d + 1 /\ d + 1 \in 1..n
             /\ toServer[a][d + 1].type # "SEND" \/ toServer[a][d + 1].destination # ch
    <3>1. \A m \in k + 1..d + 1 : m \in k + 1..d \/ m = d + 1
      BY <2>5
    <3>2. k \in 1..d + 1
      BY <2>5
    <3>3. QED
      BY <1>2, <2>6, <2>7, <2>9, <3>1, <3>2
  <2>10. CASE /\ IsSentTo(a, c) /\ Frame(a).destination = ch
              /\ toClient'[c] = Append(toClient[c], NewReport(a, c))
    <3>1. PICK j : j = Len(toClient[c]) + 1
      OBVIOUS
    <3>2. toClient[c] \in Seq(Answer)
      BY DEF Shape, TypeOK, LinksTypeOK
    <3>3. j \in i + 1..Len(toClient'[c]) /\ toClient'[c][j] = NewReport(a, c)
      BY <1>3, <2>10, <3>1, <3>2
    <3>4. /\ IsMessage(NewReport(a, c)) /\ NewReport(a, c).subscription = s
          /\ NewReport(a, c).report.author = a
      BY <1>0, <2>1, <2>3, <2>10, NewReportFields, ReportComes
    <3>5. Alike(c, i, j)'
      BY <1>1, <3>3, <3>4 DEF Alike
    <3>6. QED
      BY <3>3, <3>5
  <2>11. a \notin cut'
    BY <1>1
  <2>12. QED
    BY <1>0, <2>2, <2>3, <2>5, <2>8, <2>9, <2>10, <2>11, DeliversOn
<1>4. ASSUME NEW b \in Client, ServerStep(b), UNCHANGED client, IsSentTo(b, c), f = NewReport(b, c)
      PROVE  \E k \in 1..Delivered(a)' :
                /\ toServer'[a][k].type = "SEND" /\ toServer'[a][k].report = f.report
                /\ \A m \in k + 1..Delivered(a)' :
                      toServer'[a][m].type = "SEND" => toServer'[a][m].destination # ch
  <2>1. b = a
    BY <1>0, <1>1, <1>4, NewReportFields, ReportComes
  <2>2. /\ processed[b] \in 1..Len(toServer[b]) /\ toServer' = toServer
        /\ toServer[b][processed[b]].type = "SEND" /\ toServer[b][processed[b]].report = f.report
    BY <1>4, NewReportFields, ServerShape
  <2>3. thread'[b] = "read" /\ processed' = processed
    <3>1. thread[b] = "broadcast"
      BY <1>4 DEF IsSentTo
    <3>2. b \notin cut'
      BY <1>1, <2>1
    <3>3. Broadcast(b)
      BY <1>4, <3>1, <3>2 DEF ServerStep, Start, EndOfStream, SendAnswer, LoginRefused, LoginAccepted,
         Connect, Subscribe, Unsubscribe, DrawId, LogoutThrows, LogoutUser, Disconnect, Take,
         BroadcastThrows, Throw
    <3>4. QED
      BY <3>3 DEF Broadcast, Continue, Shape, TypeOK, ServerTypeOK
  <2>4. PICK p \in Nat : p = processed[b] /\ p > 0
    BY <2>2
  <2>5. Delivered(b)' = p /\ p \in 1..p /\ p + 1..p = {}
    BY <2>3, <2>4 DEF Delivered
  <2>6. QED
    BY <2>1, <2>2, <2>4, <2>5
<1>5. CASE i \notin 1..Len(toClient[c])
  <2>1. \A b \in Client : thread[c] = "answer" => ~IsMessage(response[c])
    BY DEF Shape, ServerHand
  <2>2. PICK b \in Client : ServerStep(b) /\ UNCHANGED client /\ IsSentTo(b, c) /\ f = NewReport(b, c)
    BY <1>1, <1>5, <2>1, AnswersStay
  <2>3. QED
    BY <1>2, <1>4, <2>2
<1>6. QED
  BY <1>3, <1>5

-----------------------------------------------------------------------------
(* No gaps.                                                                *)

Fits(c) == SubscriptionsFit(c) /\ Numbered(c) /\ Accounted(c) /\ CaughtUp(c)

(* What comes under one subscription comes from one channel.               *)
LEMMA OneChannel ==
    ASSUME Shape, NEW c \in Client, Numbered(c), NEW s, NEW ch, NEW other,
           GivenTo(ch, s, toServer[c], Applied(c)), GivenTo(other, s, toServer[c], Applied(c))
    PROVE  ch = other
<1>1. PICK frames \in Seq(Request), n \in Nat, p \in Nat :
        frames = toServer[c] /\ n = Len(frames) /\ p = Applied(c) /\ p <= n /\ Ordered(frames)
  <2>1. /\ toServer[c] \in Seq(Request) /\ Applied(c) \in Nat /\ Applied(c) <= Len(toServer[c])
        /\ Len(toServer[c]) \in Nat
    BY HowFar DEF Shape, TypeOK, LinksTypeOK
  <2>2. QED
    BY <2>1 DEF Numbered, Ordered
<1>2. PICK k \in 1..p, l \in 1..p :
        /\ frames[k].type = "SUBSCRIBE" /\ frames[k].id = s /\ frames[k].destination = ch
        /\ frames[l].type = "SUBSCRIBE" /\ frames[l].id = s /\ frames[l].destination = other
  BY <1>1 DEF GivenTo
<1>3. ASSUME NEW x \in 1..p, NEW y \in 1..p, x < y, frames[x].type = "SUBSCRIBE",
             frames[y].type = "SUBSCRIBE"
      PROVE  frames[x].id # frames[y].id
  <2>1. y \in 1..Len(frames) /\ x \in 1..y - 1
    BY <1>1, <1>3
  <2>2. QED
    BY <1>1, <1>3, <2>1, FreshId DEF NamesId
<1>4. k = l
  <2>1. ~(k < l) /\ ~(l < k)
    BY <1>2, <1>3
  <2>2. QED
    BY <2>1
<1>5. QED
  BY <1>2, <1>4

LEMMA GaplessNext ==
    ASSUME Shape, [Next]_vars, Gapless, \A b \in Client \ cut : Fits(b)
    PROVE  Gapless'
<1> SUFFICES ASSUME NEW c \in Client, NEW i \in DOMAIN toClient'[c], NEW j \in DOMAIN toClient'[c],
                    i < j, Alike(c, i, j)', \A m \in i + 1..j - 1 : ~Alike(c, i, m)'
             PROVE  \E k, l \in DOMAIN toServer'[toClient'[c][i].report.author] :
                       /\ k < l
                       /\ Entered(toClient[c][i].report.author, k, toClient[c][i].report)'
                       /\ Entered(toClient[c][i].report.author, l, toClient[c][j].report)'
                       /\ NoneTo(toClient[c][i].report.author, toClient[c][i].destination,
                                 k + 1..l - 1)'
  BY DEF Gapless
<1>1. PICK f \in Answer, g \in Answer, a \in Client, ch \in Channel, s \in Nat :
        /\ f = toClient'[c][i] /\ g = toClient'[c][j] /\ IsMessage(f) /\ IsMessage(g)
        /\ a = f.report.author /\ a = g.report.author /\ ch = f.destination
        /\ s = f.subscription /\ s = g.subscription
  <2>1. toClient'[c] \in Seq(Answer)
    BY ShapeNext DEF Shape, TypeOK, LinksTypeOK
  <2>2. toClient'[c][i] \in Answer /\ toClient'[c][j] \in Answer
    BY <2>1
  <2>3. QED
    BY <2>2, MessageFields DEF Alike
<1>2. ASSUME NEW k \in 1..Len(toServer[a]), NEW l \in 1..Len(toServer[a]), k < l,
             Entered(a, k, f.report), Entered(a, l, g.report), NoneTo(a, ch, k + 1..l - 1)
      PROVE  \E x, y \in DOMAIN toServer'[toClient'[c][i].report.author] :
                       /\ x < y
                       /\ Entered(toClient[c][i].report.author, x, toClient[c][i].report)'
                       /\ Entered(toClient[c][i].report.author, y, toClient[c][j].report)'
                       /\ NoneTo(toClient[c][i].report.author, toClient[c][i].destination,
                                 x + 1..y - 1)'
  <2>1. /\ \A m \in 1..Len(toServer[a]) : toServer'[a][m] = toServer[a][m]
        /\ Len(toServer[a]) \in Nat /\ Len(toServer'[a]) \in Nat
        /\ Len(toServer[a]) <= Len(toServer'[a])
    BY RequestsStay
  <2>2. DOMAIN toServer'[a] = 1..Len(toServer'[a])
    BY ShapeNext DEF Shape, TypeOK, LinksTypeOK
  <2>3. k \in DOMAIN toServer'[a] /\ l \in DOMAIN toServer'[a]
    BY <2>1, <2>2
  <2>4. \A m \in k + 1..l - 1 : m \in 1..Len(toServer[a])
    BY <2>1
  <2>5. /\ toClient'[c][i].report.author = a /\ toClient'[c][i].report = f.report
        /\ toClient'[c][j].report = g.report /\ toClient'[c][i].destination = ch
    BY <1>1
  <2>6. /\ Entered(toClient[c][i].report.author, k, toClient[c][i].report)'
        /\ Entered(toClient[c][i].report.author, l, toClient[c][j].report)'
    BY <1>2, <2>1, <2>5 DEF Entered
  <2>7. NoneTo(toClient[c][i].report.author, toClient[c][i].destination, k + 1..l - 1)'
    BY <1>2, <2>1, <2>4, <2>5 DEF NoneTo
  <2>8. QED
    BY <1>2, <2>3, <2>5, <2>6, <2>7
<1>3. /\ i \in 1..Len(toClient'[c]) /\ j \in 1..Len(toClient'[c])
      /\ toClient[c] \in Seq(Answer) /\ Len(toClient[c]) \in Nat
      /\ DOMAIN toClient[c] = 1..Len(toClient[c])
  <2>1. LinksTypeOK /\ LinksTypeOK'
    BY ShapeNext DEF Shape, TypeOK
  <2>2. toClient[c] \in Seq(Answer) /\ toClient'[c] \in Seq(Answer)
    BY <2>1 DEF LinksTypeOK
  <2>3. DOMAIN toClient[c] = 1..Len(toClient[c]) /\ DOMAIN toClient'[c] = 1..Len(toClient'[c])
    BY <2>2
  <2>4. QED
    BY <2>2, <2>3
<1>4. /\ \A m \in 1..Len(toClient[c]) : toClient'[c][m] = toClient[c][m]
      /\ j \in 1..Len(toClient[c]) \/ j = Len(toClient[c]) + 1
  BY <1>3, AnswersStay
<1>5. i \in 1..Len(toClient[c]) /\ toClient[c][i] = f
  BY <1>1, <1>3, <1>4
<1>6. CASE j \in 1..Len(toClient[c])
  <2>1. Alike(c, i, j) /\ \A m \in i + 1..j - 1 : ~Alike(c, i, m)
    <3>1. \A m \in i + 1..j - 1 : m \in 1..Len(toClient[c])
      BY <1>3, <1>5, <1>6
    <3>2. QED
      BY <1>4, <1>5, <1>6, <3>1 DEF Alike
  <2>2. toClient[c][j] = g
    BY <1>1, <1>4, <1>6
  <2>3. PICK k, l \in DOMAIN toServer[a] :
          k < l /\ Entered(a, k, f.report) /\ Entered(a, l, g.report) /\ NoneTo(a, ch, k + 1..l - 1)
    <3>1. i \in DOMAIN toClient[c] /\ j \in DOMAIN toClient[c]
      BY <1>3, <1>5, <1>6
    <3>2. \E k, l \in DOMAIN toServer[toClient[c][i].report.author] :
             /\ k < l
             /\ Entered(toClient[c][i].report.author, k, toClient[c][i].report)
             /\ Entered(toClient[c][i].report.author, l, toClient[c][j].report)
             /\ NoneTo(toClient[c][i].report.author, toClient[c][i].destination, k + 1..l - 1)
      BY <2>1, <3>1 DEF Gapless
    <3>3. QED
      BY ZenonT(60), <1>1, <1>5, <2>2, <3>2
  <2>4. DOMAIN toServer[a] = 1..Len(toServer[a])
    BY DEF Shape, TypeOK, LinksTypeOK
  <2>5. QED
    BY <1>2, <2>3, <2>4
<1>7. CASE j \notin 1..Len(toClient[c])
  <2>1. thread[c] = "answer" => ~IsMessage(response[c])
    BY DEF Shape, ServerHand
  <2>2. PICK b \in Client : IsSentTo(b, c) /\ g = NewReport(b, c)
    BY <1>1, <1>3, <1>7, <2>1, AnswersStay
  <2>3. b \notin cut /\ c \notin cut
    BY <2>2, NewReportFields DEF IsSentTo
  <2>4. Numbered(b) /\ Fits(c)
    BY <2>3 DEF Fits
  <2>5. b = a /\ CameUnder(c, g)
    BY <1>1, <2>2, <2>4, ReportComes DEF Fits
  <2>6. ch = g.destination
    <3>1. GivenTo(g.destination, s, toServer[c], Applied(c))
      BY <1>1, <2>5 DEF CameUnder, GivenTo
    <3>2. CameUnder(c, f)
      BY <1>5, <2>4 DEF Fits, Accounted
    <3>3. GivenTo(ch, s, toServer[c], Applied(c))
      BY <1>1, <3>2 DEF CameUnder, GivenTo
    <3>4. QED
      BY <1>1, <2>4, <3>1, <3>3, OneChannel DEF Fits
  <2>7. channelToSubscribedClients[ch][c] = s
    BY <1>1, <2>2, <2>6, NewReportFields
  <2>8. \A m \in i + 1..Len(toClient[c]) : ~Alike(c, i, m)
    <3>1. \A m \in i + 1..Len(toClient[c]) : m \in i + 1..j - 1 /\ m \in 1..Len(toClient[c])
      BY <1>3, <1>4, <1>5, <1>7
    <3>2. QED
      BY <1>4, <1>5, <3>1 DEF Alike
  <2>9. PICK k \in 1..Delivered(a) : /\ Entered(a, k, f.report)
                                     /\ NoneTo(a, ch, k + 1..Delivered(a))
    BY ZenonT(60), <1>1, <1>5, <2>3, <2>4, <2>5, <2>7, <2>8 DEF Fits, CaughtUp
  <2>10. PICK l \in 1..Len(toServer[a]) : l = processed[a] /\ Entered(a, l, g.report)
    BY <2>2, <2>5, NewReportFields DEF Entered
  <2>11. Delivered(a) = l - 1 /\ Len(toServer[a]) \in Nat
    BY <2>2, <2>5, <2>10, HowFar DEF Delivered, IsSentTo
  <2>12. k \in 1..Len(toServer[a]) /\ k < l
    BY <2>9, <2>10, <2>11
  <2>13. QED
    BY <1>2, <2>9, <2>10, <2>11, <2>12
<1>8. QED
  BY <1>6, <1>7

-----------------------------------------------------------------------------
(* Silence after the receipt.                                              *)

(* A receipt names one frame, be there a frame more.                       *)
LEMMA OneReceipt ==
    ASSUME Shape, [Next]_vars, NEW c \in Client, c \notin cut, SubscriptionsFit(c), Numbered(c),
           NEW k \in 1..Len(toServer[c]), NEW l \in 1..Len(toServer'[c]),
           WantsReceipt(toServer[c][k]), WantsReceipt(toServer'[c][l]),
           toServer'[c][l].receipt = toServer[c][k].receipt
    PROVE  l = k
<1>1. PICK n, m, frames, more :
        /\ n \in Nat /\ m \in Nat
        /\ frames = toServer[c] /\ more = toServer'[c] /\ n = Len(frames) /\ m = Len(more) /\ n <= m
        /\ \A i \in 1..n : more[i] = frames[i]
  BY RequestsStay
<1>2. k \in 1..m /\ l \in 1..m /\ more[k] = frames[k]
  BY <1>1
<1>3. \A y \in 1..m : \A x \in 1..y - 1 :
        WantsReceipt(more[y]) /\ WantsReceipt(more[x]) => more[x].receipt < more[y].receipt
  <2>1. CASE more = frames
    BY <1>1, <2>1 DEF Numbered
  <2>2. CASE more # frames
    <3>1. c \notin cut'
      BY <1>1, <2>2, ClientShape, ServerShape DEF Next, ClientAct, Undisturbed, vars
    <3>2. Numbered(c)'
      BY <3>1, NumberedNext
    <3>3. QED
      BY <1>1, <3>2 DEF Numbered, WantsReceipt
  <2>3. QED
    BY <2>1, <2>2
<1>4. frames[k].receipt \in Nat
  BY <1>1, NumbersType
<1>5. CASE k < l
  <2>1. k \in 1..l - 1
    BY <1>2, <1>5
  <2>2. more[k].receipt < more[l].receipt
    BY <1>1, <1>2, <1>3, <2>1
  <2>3. QED
    BY <1>1, <1>2, <1>4, <2>2
<1>6. CASE l < k
  <2>1. l \in 1..k - 1
    BY <1>2, <1>6
  <2>2. more[l].receipt < more[k].receipt
    BY <1>1, <1>2, <1>3, <2>1
  <2>3. QED
    BY <1>1, <1>2, <1>4, <2>2
<1>7. QED
  BY <1>2, <1>5, <1>6

(* The frame a receipt that was sent confirms has been applied: it ended   *)
(* then what it ends now.                                                  *)
LEMMA EndedBefore ==
    ASSUME Shape, [Next]_vars, NEW c \in Client, c \notin cut, SubscriptionsFit(c), Numbered(c),
           NEW r, NEW s, NEW k \in 1..Applied(c), WantsReceipt(toServer[c][k]),
           toServer[c][k].receipt = r, NEW l \in 1..Len(toServer'[c]), Ends(toServer[c][l], c, r, s)'
    PROVE  Ends(toServer[c][k], c, r, s) /\ GivenUp(s, toServer[c], Applied(c))
<1>1. PICK n, m, p, frames, more :
        /\ n \in Nat /\ m \in Nat /\ p \in Nat
        /\ frames = toServer[c] /\ more = toServer'[c] /\ n = Len(frames) /\ m = Len(more)
        /\ p = Applied(c) /\ p <= n /\ n <= m /\ \A i \in 1..n : more[i] = frames[i]
  <2>1. Applied(c) \in 0..Len(toServer[c]) /\ Len(toServer[c]) \in Nat
    BY HowFar
  <2>2. Applied(c) \in Nat /\ Applied(c) <= Len(toServer[c])
    BY <2>1
  <2>3. /\ Len(toServer[c]) \in Nat /\ Len(toServer'[c]) \in Nat
        /\ Len(toServer[c]) <= Len(toServer'[c])
        /\ \A i \in 1..Len(toServer[c]) : toServer'[c][i] = toServer[c][i]
    BY RequestsStay
  <2>4. PICK n \in Nat, m \in Nat, p \in Nat :
          n = Len(toServer[c]) /\ m = Len(toServer'[c]) /\ p = Applied(c)
    BY <2>2, <2>3
  <2>5. QED
    BY SMTT(30), <2>2, <2>3, <2>4
<1> n \in Nat /\ m \in Nat /\ p \in Nat
  BY <1>1
<1>2. k \in 1..n /\ k \in 1..p
  BY <1>1
<1>3. DOMAIN frames = 1..n /\ DOMAIN more = 1..m
  <2>1. LinksTypeOK /\ LinksTypeOK'
    BY ShapeNext DEF Shape, TypeOK
  <2>2. toServer[c] \in Seq(Request) /\ toServer'[c] \in Seq(Request)
    BY <2>1 DEF LinksTypeOK
  <2>3. QED
    BY <1>1, <2>2
<1>4. /\ more[l].type \in {"UNSUBSCRIBE", "DISCONNECT"} /\ more[l].receipt = r
      /\ IF more[l].type = "UNSUBSCRIBE" THEN more[l].id = s
         ELSE \E i, j \in DOMAIN more : /\ i < j /\ more[j] = more[l]
                                        /\ more[i].type = "SUBSCRIBE" /\ more[i].id = s
  BY <1>1 DEF Ends
<1>5. l = k
  BY <1>1, <1>2, <1>4, OneReceipt DEF WantsReceipt
<1>6. frames[k] = more[l]
  BY <1>1, <1>2, <1>5
<1>7. CASE more[l].type = "UNSUBSCRIBE"
  <2>1. frames[k].type = "UNSUBSCRIBE" /\ frames[k].receipt = r /\ frames[k].id = s
    BY <1>4, <1>6, <1>7
  <2>2. Ends(frames[k], c, r, s)
    BY <2>1 DEF Ends
  <2>3. GivenUp(s, frames, p)
    BY <1>2, <2>1 DEF GivenUp
  <2>4. QED
    BY <1>1, <2>2, <2>3
<1>8. CASE more[l].type = "DISCONNECT"
  <2>1. PICK i \in 1..m, j \in 1..m : /\ i < j /\ more[j] = more[l]
                                      /\ more[i].type = "SUBSCRIBE" /\ more[i].id = s
    BY <1>3, <1>4, <1>8
  <2>2. j = k
    BY SMTT(30), <1>1, <1>2, <1>4, <1>8, <2>1, OneReceipt DEF WantsReceipt
  <2>3. i \in 1..n /\ i \in 1..k - 1 /\ i < k
    BY <1>2, <2>1, <2>2
  <2>4. /\ frames[k].type = "DISCONNECT" /\ frames[k].receipt = r
        /\ frames[i].type = "SUBSCRIBE" /\ frames[i].id = s
    BY <1>1, <1>4, <1>6, <1>8, <2>1, <2>3
  <2>5. Ends(frames[k], c, r, s)
    <3>1. i \in DOMAIN toServer[c] /\ k \in DOMAIN toServer[c]
      BY <1>1, <1>2, <1>3, <2>3
    <3>2. QED
      BY <1>1, <2>3, <2>4, <3>1 DEF Ends
  <2>6. GivenUp(s, frames, p)
    BY <1>2, <2>3, <2>4 DEF GivenUp
  <2>7. QED
    BY <1>1, <2>5, <2>6
<1>9. QED
  BY <1>4, <1>7, <1>8

LEMMA SilentNext ==
    ASSUME Shape, [Next]_vars, SilentAfterReceipt, \A b \in Client \ cut : Fits(b)
    PROVE  SilentAfterReceipt'
<1> SUFFICES ASSUME NEW c \in Client, NEW i \in DOMAIN toClient'[c], NEW j \in DOMAIN toClient'[c],
                    i < j, toClient'[c][i].type = "RECEIPT", IsMessage(toClient'[c][j]),
                    NEW l \in DOMAIN toServer'[c],
                    Ends(toServer[c][l], c, toClient[c][i].receipt, toClient[c][j].subscription)'
             PROVE  FALSE
  BY DEF SilentAfterReceipt
<1>1. PICK f, g, r, s : /\ f = toClient'[c][i] /\ g = toClient'[c][j]
                        /\ r = f.receipt /\ s = g.subscription
  OBVIOUS
<1>2. Ends(toServer[c][l], c, r, s)'
  BY <1>1 DEF Ends
<1>3. /\ i \in 1..Len(toClient'[c]) /\ j \in 1..Len(toClient'[c]) /\ l \in 1..Len(toServer'[c])
      /\ Len(toClient[c]) \in Nat /\ DOMAIN toClient[c] = 1..Len(toClient[c])
      /\ DOMAIN toServer[c] = 1..Len(toServer[c]) /\ Len(toServer[c]) \in Nat
  <2>1. LinksTypeOK /\ LinksTypeOK'
    BY ShapeNext DEF Shape, TypeOK
  <2>2. /\ toClient[c] \in Seq(Answer) /\ toClient'[c] \in Seq(Answer)
        /\ toServer[c] \in Seq(Request) /\ toServer'[c] \in Seq(Request)
    BY <2>1 DEF LinksTypeOK
  <2>3. /\ DOMAIN toClient[c] = 1..Len(toClient[c]) /\ DOMAIN toClient'[c] = 1..Len(toClient'[c])
        /\ DOMAIN toServer[c] = 1..Len(toServer[c]) /\ DOMAIN toServer'[c] = 1..Len(toServer'[c])
    BY <2>2
  <2>4. QED
    BY <2>2, <2>3
<1>4. /\ \A m \in 1..Len(toClient[c]) : toClient'[c][m] = toClient[c][m]
      /\ j \in 1..Len(toClient[c]) \/ j = Len(toClient[c]) + 1
  BY <1>3, AnswersStay
<1>5. i \in 1..Len(toClient[c]) /\ toClient[c][i] = f
  BY SMTT(30), <1>1, <1>3, <1>4
<1>6. c \notin cut
  <2> SUFFICES ASSUME c \in cut PROVE FALSE
    OBVIOUS
  <2>1. toServer'[c] = toServer[c] /\ toClient'[c] = toClient[c]
    BY CutIsStill
  <2>2. Ends(toServer[c][l], c, r, s)
    BY <1>2, <2>1 DEF Ends
  <2>3. QED
    BY <1>1, <1>3, <2>1, <2>2 DEF SilentAfterReceipt
<1>7. SubscriptionsFit(c) /\ Numbered(c) /\ Accounted(c)
  BY <1>6 DEF Fits
<1>8. PICK k \in 1..Applied(c) : WantsReceipt(toServer[c][k]) /\ toServer[c][k].receipt = r
  <2>1. Receipted(c, f)
    BY <1>5, <1>7 DEF Accounted
  <2>2. QED
    BY <1>1, <2>1 DEF Receipted
<1>9. Ends(toServer[c][k], c, r, s) /\ GivenUp(s, toServer[c], Applied(c))
  BY <1>2, <1>3, <1>6, <1>7, <1>8, EndedBefore
<1>10. CASE j \in 1..Len(toClient[c])
  <2>1. toClient[c][j] = g /\ toClient[c][i] = f
    BY <1>1, <1>4, <1>5, <1>10
  <2>2. k \in DOMAIN toServer[c]
    BY <1>3, HowFar
  <2>3. i \in DOMAIN toClient[c] /\ j \in DOMAIN toClient[c]
    BY <1>3, <1>5, <1>10
  <2>4. ~Ends(toServer[c][k], c, toClient[c][i].receipt, toClient[c][j].subscription)
    BY <1>1, <2>1, <2>2, <2>3 DEF SilentAfterReceipt
  <2>5. QED
    BY <1>1, <1>9, <2>1, <2>4
<1>11. CASE j \notin 1..Len(toClient[c])
  <2>1. thread[c] = "answer" => ~IsMessage(response[c])
    BY DEF Shape, ServerHand
  <2>2. PICK b \in Client : IsSentTo(b, c) /\ g = NewReport(b, c)
    BY <1>1, <1>3, <1>11, <2>1, AnswersStay
  <2>3. b \notin cut
    BY <2>2, NewReportFields
  <2>4. Numbered(b)
    BY <2>3 DEF Fits
  <2>5. ~GivenUp(s, toServer[c], Applied(c))
    BY <1>1, <1>7, <2>2, <2>4, ReportComes
  <2>6. QED
    BY <1>9, <2>5
<1>12. QED
  BY <1>10, <1>11

-----------------------------------------------------------------------------
(* What is delivered.                                                      *)

LEMMA DeliveryInit == Init => DeliveryInv
  BY DEF Init, LinksInit, ClientInit, ServerInit, DeliveryInv, Numbered, Accounted, CaughtUp,
         SilentAfterReceipt, Gapless

LEMMA DeliveryNext == ServiceInv /\ DeliveryInv /\ [Next]_vars => DeliveryInv'
<1> SUFFICES ASSUME ServiceInv, DeliveryInv, [Next]_vars PROVE DeliveryInv'
  OBVIOUS
<1>1. Shape
  BY DEF ServiceInv, Shape
<1>2. \A c \in Client \ cut : Fits(c)
  BY DEF ServiceInv, DeliveryInv, Fits
<1>3. \A c \in Client \ cut : Numbered(c) /\ Accounted(c) /\ SubscriptionsFit(c)
  BY <1>2 DEF Fits
<1>4. ASSUME NEW c \in Client, c \notin cut'
      PROVE  Numbered(c)' /\ Accounted(c)' /\ CaughtUp(c)'
  <2>1. c \notin cut
    BY <1>1, <1>4, CutGrows
  <2>2. SubscriptionsFit(c) /\ Numbered(c) /\ Accounted(c) /\ CaughtUp(c)
    BY <1>2, <2>1 DEF Fits
  <2>3. Numbered(c)'
    BY <1>1, <1>4, <2>2, NumberedNext
  <2>4. Accounted(c)'
    BY <1>1, <1>3, <1>4, <2>2, AccountedNext
  <2>5. CaughtUp(c)'
    BY <1>1, <1>3, <1>4, <2>2, CaughtUpNext
  <2>6. QED
    BY <2>3, <2>4, <2>5
<1>5. SilentAfterReceipt'
  BY <1>1, <1>2, SilentNext DEF DeliveryInv
<1>6. Gapless'
  BY <1>1, <1>2, GaplessNext DEF DeliveryInv
<1>7. QED
  BY <1>4, <1>5, <1>6 DEF DeliveryInv

(* What was delivered is accounted for throughout: the numbers on a        *)
(* connection are fresh, every receipt and report on it has its request,   *)
(* and a subscription that holds has the last report of each author.       *)
THEOREM DeliveryKept == Spec => []DeliveryInv
  BY ServiceInit, DeliveryInit, ServiceNext, DeliveryNext, PTL DEF Spec

(* Once a client has the receipt of an UNSUBSCRIBE or of its logout, it    *)
(* gets nothing more under the subscriptions that ended, whoever was       *)
(* broadcasting at the time (StompMessagingProtocolImpl.java:63-71).       *)
THEOREM SilenceKept == Spec => []SilentAfterReceipt
<1>1. DeliveryInv => SilentAfterReceipt
  BY DEF DeliveryInv
<1>2. QED
  BY <1>1, DeliveryKept, PTL

(* Under a subscription a client gets the reports of each author in the    *)
(* order they were entered, from some report on and with none left out     *)
(* (utils.cpp:132-142 to StompClient.cpp:155), although each is sent while *)
(* others subscribe, leave, vanish and report.                             *)
THEOREM NoneLeftOut == Spec => []Gapless
<1>1. DeliveryInv => Gapless
  BY DEF DeliveryInv
<1>2. QED
  BY <1>1, DeliveryKept, PTL
=============================================================================
