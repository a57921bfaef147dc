----------------------- MODULE EmergencyService_proofs -----------------------
(***************************************************************************)
(* Proofs about the whole service, for any number of clients, users and    *)
(* channels, any commands, any number of them, and files of any size.      *)
(***************************************************************************)
EXTENDS EmergencyService, FiniteSetTheorems, WellFoundedInduction, TLAPS

-----------------------------------------------------------------------------
(* Induction.  The theorems of the library take a predicate, which the     *)
(* provers cannot instantiate; that a set of naturals has a least element  *)
(* says the same of sets.                                                  *)

LEMMA LeastOf ==
    ASSUME NEW T \in SUBSET Nat, T # {}, NEW R, IsWellFoundedOn(R, Nat),
           \A x, y \in Nat : y < x => <<y, x>> \in R
    PROVE  \E x \in T : \A y \in T : x <= y
<1>1. \E x \in T : \A y \in T : ~(<<y, x>> \in R)
  BY WFMin, Zenon
<1>2. PICK x \in T : \A y \in T : ~(<<y, x>> \in R)
  BY <1>1, Zenon
<1>3. ASSUME NEW y \in T PROVE x <= y
  <2>1. ~(<<y, x>> \in R)
    BY <1>2, Zenon
  <2>2. y \in Nat /\ x \in Nat
    OBVIOUS
  <2>3. ~(y < x)
    BY <2>1, <2>2, Zenon
  <2>4. QED
    BY <2>2, <2>3
<1>4. QED
  BY <1>3

LEMMA LessIsWellFounded ==
    /\ IsWellFoundedOn(OpToRel(<, Nat), Nat)
    /\ \A x, y \in Nat : y < x => <<y, x>> \in OpToRel(<, Nat)
<1>1. \A x, y \in Nat : y < x => <<y, x>> \in OpToRel(<, Nat)
  BY DEF OpToRel
<1>2. QED
  BY <1>1, NatLessThanWellFounded, Zenon

LEMMA Least ==
    ASSUME NEW T \in SUBSET Nat, T # {}
    PROVE  \E x \in T : \A y \in T : x <= y
  BY LessIsWellFounded, LeastOf, Zenon

(* A set of naturals that has 0, and with every n up to some bound n + 1.  *)
LEMMA Induction ==
    ASSUME NEW S \in SUBSET Nat, NEW last \in Nat, 0 \in S,
           \A n \in S : n < last => n + 1 \in S
    PROVE  0..last \subseteq S
<1>1. SUFFICES ASSUME (0..last) \ S # {} PROVE FALSE
  OBVIOUS
<1>2. PICK m \in (0..last) \ S : \A y \in (0..last) \ S : m <= y
  <2>1. (0..last) \ S \in SUBSET Nat
    OBVIOUS
  <2>2. QED
    BY <1>1, <2>1, Least, Zenon
<1>3. m # 0 /\ m - 1 \in 0..last /\ m - 1 \notin (0..last) \ S
  BY <1>2
<1>4. QED
  BY <1>3

-----------------------------------------------------------------------------
(* How many of the numbers up to n are in a set.                           *)

LEMMA CountType ==
    ASSUME NEW P, NEW n \in Nat
    PROVE  IsFiniteSet({k \in 1..n : k \in P}) /\ Cardinality({k \in 1..n : k \in P}) \in Nat
<1>1. IsFiniteSet(1..n)
  BY FS_Interval
<1>2. {k \in 1..n : k \in P} \in SUBSET (1..n)
  OBVIOUS
<1>3. IsFiniteSet({k \in 1..n : k \in P})
  BY <1>1, <1>2, FS_Subset
<1>4. QED
  BY <1>3, FS_CardinalityType

LEMMA CountNext ==
    ASSUME NEW P, NEW n \in Nat
    PROVE  Cardinality({k \in 1..n + 1 : k \in P})
               = Cardinality({k \in 1..n : k \in P}) + IF n + 1 \in P THEN 1 ELSE 0
<1>1. IsFiniteSet({k \in 1..n : k \in P}) /\ n + 1 \notin {k \in 1..n : k \in P}
  BY CountType
<1>2. CASE n + 1 \in P
  <2>1. {k \in 1..n + 1 : k \in P} = {k \in 1..n : k \in P} \cup {n + 1}
    BY <1>2
  <2>2. QED
    BY <1>1, <1>2, <2>1, FS_AddElement
<1>3. CASE n + 1 \notin P
  <2>1. {k \in 1..n + 1 : k \in P} = {k \in 1..n : k \in P}
    BY <1>3
  <2>2. Cardinality({k \in 1..n : k \in P}) \in Nat
    BY CountType
  <2>3. QED
    BY <1>3, <2>1, <2>2
<1>4. QED
  BY <1>2, <1>3

LEMMA CountMonotone ==
    ASSUME NEW P, NEW m \in Nat, NEW n \in Nat, m <= n
    PROVE  Cardinality({k \in 1..m : k \in P}) <= Cardinality({k \in 1..n : k \in P})
<1>1. {k \in 1..m : k \in P} \in SUBSET {k \in 1..n : k \in P}
  OBVIOUS
<1>2. QED
  BY <1>1, CountType, FS_Subset

LEMMA NothingCounted == \A frames : Asking(frames, 0) = 0 /\ Answering(frames, 0) = 0
<1>1. \A frames : /\ {k \in 1..0 : WantsAnswer(frames[k])} = {}
                  /\ {k \in 1..0 : ~IsMessage(frames[k])} = {}
  OBVIOUS
<1>2. Cardinality({}) = 0
  BY FS_EmptySet
<1>3. QED
  BY <1>1, <1>2 DEF Asking, Answering

-----------------------------------------------------------------------------
(* How many frames ask for an answer.                                      *)

LEMMA AskingType ==
    ASSUME NEW frames, NEW n \in Nat
    PROVE  Asking(frames, n) \in Nat
<1> DEFINE P == {k \in Nat : WantsAnswer(frames[k])}
<1>1. {k \in 1..n : WantsAnswer(frames[k])} = {k \in 1..n : k \in P}
  OBVIOUS
<1> HIDE DEF P
<1>2. QED
  BY <1>1, CountType DEF Asking

LEMMA AskingNext ==
    ASSUME NEW frames, NEW n \in Nat
    PROVE  Asking(frames, n + 1) = Asking(frames, n) + IF WantsAnswer(frames[n + 1]) THEN 1 ELSE 0
<1> DEFINE P == {k \in Nat : WantsAnswer(frames[k])}
<1>1. \A m \in Nat : {k \in 1..m : WantsAnswer(frames[k])} = {k \in 1..m : k \in P}
  OBVIOUS
<1>2. n + 1 \in P <=> WantsAnswer(frames[n + 1])
  OBVIOUS
<1> HIDE DEF P
<1>3. Cardinality({k \in 1..n + 1 : k \in P})
               = Cardinality({k \in 1..n : k \in P}) + IF n + 1 \in P THEN 1 ELSE 0
  BY CountNext
<1>4. /\ Asking(frames, n + 1) = Cardinality({k \in 1..n + 1 : k \in P})
      /\ Asking(frames, n) = Cardinality({k \in 1..n : k \in P})
  BY <1>1 DEF Asking
<1>5. QED
  BY <1>2, <1>3, <1>4

LEMMA AskingMonotone ==
    ASSUME NEW frames, NEW m \in Nat, NEW n \in Nat, m <= n
    PROVE  Asking(frames, m) <= Asking(frames, n)
<1> DEFINE P == {k \in Nat : WantsAnswer(frames[k])}
<1>1. \A i \in Nat : {k \in 1..i : WantsAnswer(frames[k])} = {k \in 1..i : k \in P}
  OBVIOUS
<1> HIDE DEF P
<1>2. QED
  BY <1>1, CountMonotone DEF Asking

LEMMA AskingMore ==
    ASSUME NEW frames, NEW m \in Nat, NEW n \in Nat, NEW k \in m + 1..n, WantsAnswer(frames[k])
    PROVE  Asking(frames, m) < Asking(frames, n)
<1>1. PICK i \in Nat : k = i + 1 /\ m <= i /\ i + 1 <= n
  <2>1. k - 1 \in Nat /\ k = (k - 1) + 1 /\ m <= k - 1 /\ (k - 1) + 1 <= n
    OBVIOUS
  <2>2. QED
    BY <2>1
<1>2. Asking(frames, i + 1) = Asking(frames, i) + 1
  BY <1>1, AskingNext
<1>3. Asking(frames, m) <= Asking(frames, i) /\ Asking(frames, i + 1) <= Asking(frames, n)
  BY <1>1, AskingMonotone
<1>4. /\ Asking(frames, m) \in Nat /\ Asking(frames, i) \in Nat
      /\ Asking(frames, i + 1) \in Nat /\ Asking(frames, n) \in Nat
  BY AskingType
<1>5. QED
  BY <1>2, <1>3, <1>4

LEMMA AskingPrefix ==
    ASSUME NEW s, NEW t, NEW n \in Nat, \A k \in 1..n : s[k] = t[k]
    PROVE  Asking(s, n) = Asking(t, n)
<1>1. {k \in 1..n : WantsAnswer(s[k])} = {k \in 1..n : WantsAnswer(t[k])}
  OBVIOUS
<1>2. QED
  BY <1>1 DEF Asking

LEMMA AskingAppend ==
    ASSUME NEW S, NEW frames \in Seq(S), NEW f \in S
    PROVE  /\ \A n \in 0..Len(frames) : Asking(Append(frames, f), n) = Asking(frames, n)
           /\ Asking(Append(frames, f), Len(frames) + 1)
                = Asking(frames, Len(frames)) + IF WantsAnswer(f) THEN 1 ELSE 0
<1>1. ASSUME NEW n \in 0..Len(frames)
      PROVE  Asking(Append(frames, f), n) = Asking(frames, n)
  <2>1. \A k \in 1..n : Append(frames, f)[k] = frames[k]
    OBVIOUS
  <2>2. {k \in 1..n : WantsAnswer(Append(frames, f)[k])} = {k \in 1..n : WantsAnswer(frames[k])}
    BY <2>1
  <2>3. QED
    BY <2>2 DEF Asking
<1>2. PICK n \in Nat : n = Len(frames) /\ Append(frames, f)[n + 1] = f
  OBVIOUS
<1>3. Asking(Append(frames, f), n + 1)
        = Asking(Append(frames, f), n) + IF WantsAnswer(f) THEN 1 ELSE 0
  <2>1. Asking(Append(frames, f), n + 1) = Asking(Append(frames, f), n)
          + IF WantsAnswer(Append(frames, f)[n + 1]) THEN 1 ELSE 0
    BY AskingNext
  <2>2. QED
    BY <1>2, <2>1
<1>4. QED
  BY <1>1, <1>2, <1>3

-----------------------------------------------------------------------------
(* How many frames are an answer.                                          *)

LEMMA AnsweringType ==
    ASSUME NEW frames, NEW n \in Nat
    PROVE  Answering(frames, n) \in Nat
<1> DEFINE P == {k \in Nat : ~IsMessage(frames[k])}
<1>1. {k \in 1..n : ~IsMessage(frames[k])} = {k \in 1..n : k \in P}
  OBVIOUS
<1> HIDE DEF P
<1>2. QED
  BY <1>1, CountType DEF Answering

LEMMA AnsweringNext ==
    ASSUME NEW frames, NEW n \in Nat
    PROVE  Answering(frames, n + 1)
               = Answering(frames, n) + IF IsMessage(frames[n + 1]) THEN 0 ELSE 1
<1> DEFINE P == {k \in Nat : ~IsMessage(frames[k])}
<1>1. \A m \in Nat : {k \in 1..m : ~IsMessage(frames[k])} = {k \in 1..m : k \in P}
  OBVIOUS
<1>2. n + 1 \in P <=> ~IsMessage(frames[n + 1])
  OBVIOUS
<1> HIDE DEF P
<1>3. Cardinality({k \in 1..n + 1 : k \in P})
               = Cardinality({k \in 1..n : k \in P}) + IF n + 1 \in P THEN 1 ELSE 0
  BY CountNext
<1>4. /\ Answering(frames, n + 1) = Cardinality({k \in 1..n + 1 : k \in P})
      /\ Answering(frames, n) = Cardinality({k \in 1..n : k \in P})
  BY <1>1 DEF Answering
<1>5. QED
  BY <1>2, <1>3, <1>4

LEMMA AnsweringMonotone ==
    ASSUME NEW frames, NEW m \in Nat, NEW n \in Nat, m <= n
    PROVE  Answering(frames, m) <= Answering(frames, n)
<1> DEFINE P == {k \in Nat : ~IsMessage(frames[k])}
<1>1. \A i \in Nat : {k \in 1..i : ~IsMessage(frames[k])} = {k \in 1..i : k \in P}
  OBVIOUS
<1> HIDE DEF P
<1>2. QED
  BY <1>1, CountMonotone DEF Answering

LEMMA AnsweringMore ==
    ASSUME NEW frames, NEW m \in Nat, NEW n \in Nat, NEW k \in m + 1..n, ~IsMessage(frames[k])
    PROVE  Answering(frames, m) < Answering(frames, n)
<1>1. PICK i \in Nat : k = i + 1 /\ m <= i /\ i + 1 <= n
  <2>1. k - 1 \in Nat /\ k = (k - 1) + 1 /\ m <= k - 1 /\ (k - 1) + 1 <= n
    OBVIOUS
  <2>2. QED
    BY <2>1
<1>2. Answering(frames, i + 1) = Answering(frames, i) + 1
  BY <1>1, AnsweringNext
<1>3. Answering(frames, m) <= Answering(frames, i) /\ Answering(frames, i + 1) <= Answering(frames, n)
  BY <1>1, AnsweringMonotone
<1>4. /\ Answering(frames, m) \in Nat /\ Answering(frames, i) \in Nat
      /\ Answering(frames, i + 1) \in Nat /\ Answering(frames, n) \in Nat
  BY AnsweringType
<1>5. QED
  BY <1>2, <1>3, <1>4

LEMMA AnsweringPrefix ==
    ASSUME NEW s, NEW t, NEW n \in Nat, \A k \in 1..n : s[k] = t[k]
    PROVE  Answering(s, n) = Answering(t, n)
<1>1. {k \in 1..n : ~IsMessage(s[k])} = {k \in 1..n : ~IsMessage(t[k])}
  OBVIOUS
<1>2. QED
  BY <1>1 DEF Answering

LEMMA AnsweringAppend ==
    ASSUME NEW S, NEW frames \in Seq(S), NEW f \in S
    PROVE  /\ \A n \in 0..Len(frames) : Answering(Append(frames, f), n) = Answering(frames, n)
           /\ Answering(Append(frames, f), Len(frames) + 1)
                = Answering(frames, Len(frames)) + IF IsMessage(f) THEN 0 ELSE 1
<1>1. ASSUME NEW n \in 0..Len(frames)
      PROVE  Answering(Append(frames, f), n) = Answering(frames, n)
  <2>1. \A k \in 1..n : Append(frames, f)[k] = frames[k]
    OBVIOUS
  <2>2. {k \in 1..n : ~IsMessage(Append(frames, f)[k])} = {k \in 1..n : ~IsMessage(frames[k])}
    BY <2>1
  <2>3. QED
    BY <2>2 DEF Answering
<1>2. PICK n \in Nat : n = Len(frames) /\ Append(frames, f)[n + 1] = f
  OBVIOUS
<1>3. Answering(Append(frames, f), n + 1)
        = Answering(Append(frames, f), n) + IF IsMessage(f) THEN 0 ELSE 1
  <2>1. Answering(Append(frames, f), n + 1) = Answering(Append(frames, f), n)
          + IF IsMessage(Append(frames, f)[n + 1]) THEN 0 ELSE 1
    BY AnsweringNext
  <2>2. QED
    BY <1>2, <2>1
<1>4. QED
  BY <1>1, <1>2, <1>3

-----------------------------------------------------------------------------
(* The fields of a frame.                                                  *)

LEMMA RequestFields ==
    ASSUME NEW f \in Request
    PROVE  /\ f.type \in {"CONNECT", "SUBSCRIBE", "UNSUBSCRIBE", "SEND", "DISCONNECT"}
           /\ f.type = "CONNECT" => f.login \in User
           /\ f.type = "SUBSCRIBE" => f.destination \in Channel /\ f.id \in Nat /\ f.receipt \in Nat
           /\ f.type = "UNSUBSCRIBE" => f.id \in Nat /\ f.receipt \in Nat
           /\ f.type = "SEND" => f.destination \in Channel /\ f.report \in Report
           /\ f.type = "DISCONNECT" => f.receipt \in Nat
  BY DEF Request

LEMMA AnswerFields ==
    ASSUME NEW f \in Answer
    PROVE  /\ f.type \in {"CONNECTED", "ERROR", "RECEIPT", "MESSAGE"}
           /\ f.type = "CONNECTED" => f = ConnectedFrame
           /\ f.type = "ERROR" => f = ErrorFrame
           /\ ConnectedFrame.type = "CONNECTED" /\ ErrorFrame.type = "ERROR"
  BY DEF Answer, ConnectedFrame, ErrorFrame

LEMMA RequestsMade ==
    /\ \A u \in User : ConnectFrame(u) \in Request /\ ConnectFrame(u).type = "CONNECT"
                       /\ ConnectFrame(u).login = u
    /\ \A ch \in Channel, s, n \in Nat :
          SubscribeFrame(ch, s, n) \in Request /\ SubscribeFrame(ch, s, n).type = "SUBSCRIBE"
          /\ SubscribeFrame(ch, s, n).destination = ch /\ SubscribeFrame(ch, s, n).id = s
    /\ \A s, n \in Nat :
          UnsubscribeFrame(s, n) \in Request /\ UnsubscribeFrame(s, n).type = "UNSUBSCRIBE"
          /\ UnsubscribeFrame(s, n).id = s
    /\ \A ch \in Channel, report \in Report :
          SendFrame(ch, report) \in Request /\ SendFrame(ch, report).type = "SEND"
          /\ SendFrame(ch, report).destination = ch
    /\ \A n \in Nat : DisconnectFrame(n) \in Request /\ DisconnectFrame(n).type = "DISCONNECT"
  BY DEF Request, ConnectFrame, SubscribeFrame, UnsubscribeFrame, SendFrame, DisconnectFrame

LEMMA AnswersMade ==
    /\ ConnectedFrame \in Answer /\ ErrorFrame \in Answer
    /\ ~IsMessage(ConnectedFrame) /\ ~IsMessage(ErrorFrame) /\ ConnectedFrame # ErrorFrame
    /\ \A n \in Nat : /\ ReceiptFrame(n) \in Answer /\ ~IsMessage(ReceiptFrame(n))
                      /\ ReceiptFrame(n) # ErrorFrame
    /\ \A s, n \in Nat, ch \in Channel, report \in Report :
          /\ MessageFrame(s, n, ch, report) \in Answer
          /\ IsMessage(MessageFrame(s, n, ch, report))
  BY DEF Answer, ConnectedFrame, ErrorFrame, ReceiptFrame, MessageFrame, IsMessage

-----------------------------------------------------------------------------
USE DEF links, client, history, session, joined, server, table, registry

Shape == TypeOK /\ \A c \in Client : ClientHand(c) /\ ServerHand(c)

ClientAct(c) == UserCommand(c) \/ MainStep(c) \/ SocketStep(c) \/ Crash(c)

-----------------------------------------------------------------------------
(* Types, and what each thread has in hand.                                *)

LEMMA ShapeInit == Init => Shape
<1> SUFFICES ASSUME Init PROVE Shape
  OBVIOUS
<1> USE DEF Init, LinksInit, ClientInit, ServerInit
<1>1. LinksTypeOK
  BY DEF LinksTypeOK
<1>2. ClientTypeOK
  BY DEF ClientTypeOK
<1>3. ServerTypeOK
  BY DEF ServerTypeOK
<1>4. \A c \in Client : ClientHand(c) /\ ServerHand(c)
  BY DEF ClientHand, ServerHand, InLogin, Joined
<1>5. QED
  BY <1>1, <1>2, <1>3, <1>4 DEF Shape, TypeOK

(* What a step of the connection c leaves of another, d: everything, but   *)
(* that a report may come to it.                                           *)
Undisturbed(d) ==
    /\ main'[d] = main[d] /\ command'[d] = command[d]
    /\ notifying'[d] = notifying[d] /\ isError'[d] = isError[d]
    /\ loggedIn'[d] = loggedIn[d] /\ currentUser'[d] = currentUser[d]
    /\ subscribedChannels'[d] = subscribedChannels[d]
    /\ subscriptionToSubId'[d] = subscriptionToSubId[d]
    /\ subscriptionId'[d] = subscriptionId[d] /\ receiptCount'[d] = receiptCount[d]
    /\ patient'[d] = patient[d] /\ (d \in missed' <=> d \in missed)
    /\ toServer'[d] = toServer[d] /\ processed'[d] = processed[d]
    /\ received'[d] = received[d]
    /\ \/ toClient'[d] = toClient[d]
       \/ \E f \in Answer : IsMessage(f) /\ toClient'[d] = Append(toClient[d], f)
    /\ (d \in cut' <=> d \in cut)
    /\ thread'[d] = thread[d] /\ response'[d] = response[d]
    /\ clientIdToUsername'[d] = clientIdToUsername[d]
    /\ (d \in connectionIdToClient' <=> d \in connectionIdToClient)
    /\ \A ch \in Channel : channelToSubscribedClients'[ch][d] = channelToSubscribedClients[ch][d]
    /\ subscriptionToTopic'[d] = subscriptionToTopic[d] /\ knownChannels \subseteq knownChannels'

(* A client sends a frame: it comes at the end, or is lost.                *)
LEMMA SendToLinks ==
    ASSUME LinksTypeOK, NEW c \in Client, NEW f \in Request, NEW ok \in BOOLEAN, SendTo(c, f, ok)
    PROVE  /\ LinksTypeOK'
           /\ \A d \in Client \ {c} : toServer'[d] = toServer[d]
           /\ IF c \in cut THEN toServer'[c] = toServer[c]
                           ELSE ok /\ toServer'[c] = Append(toServer[c], f)
           /\ \A k \in 1..Len(toServer[c]) : toServer'[c][k] = toServer[c][k]
           /\ UNCHANGED <<processed, toClient, received, alive, cut>>
<1> USE DEF SendTo, LinksTypeOK
<1>1. CASE c \in cut
  BY <1>1
<1>2. CASE c \notin cut
  <2>1. toServer' = [toServer EXCEPT ![c] = Append(toServer[c], f)]
    BY <1>2
  <2>2. Append(toServer[c], f) \in Seq(Request) /\ Len(Append(toServer[c], f)) = Len(toServer[c]) + 1
    OBVIOUS
  <2>3. \A d \in Client : Len(toServer[d]) \in Nat
    OBVIOUS
  <2>4. toServer' \in [Client -> Seq(Request)]
    BY <2>1, <2>2
  <2>5. \A d \in Client : processed[d] <= Len(toServer'[d])
    BY <2>1, <2>2, <2>3
  <2>6. \A k \in 1..Len(toServer[c]) : Append(toServer[c], f)[k] = toServer[c][k]
    OBVIOUS
  <2>7. QED
    BY <1>2, <2>1, <2>4, <2>5, <2>6
<1>3. QED
  BY <1>1, <1>2

(* What the commands send.                                                 *)
LEMMA CommandFields ==
    ASSUME ClientTypeOK, NEW c \in Client
    PROVE  /\ command[c].name = "login" => command[c].user \in User
           /\ command[c].name \in {"join", "exit", "report"} => command[c].channel \in Channel
           /\ command[c].name = "report" => command[c].left \in Nat
<1>1. command[c] \in Command \cup {NoCommand} \cup [name : {"report"}, channel : Channel, left : Nat]
  BY DEF ClientTypeOK
<1>2. PICK cmd : cmd = command[c]
  OBVIOUS
<1>3. cmd \in Command \cup {NoCommand} \cup [name : {"report"}, channel : Channel, left : Nat]
  BY <1>1, <1>2
<1>4. CASE cmd \in [name : {"report"}, channel : Channel, left : Nat]
  BY <1>2, <1>4
<1>5. CASE cmd = NoCommand
  BY <1>2, <1>5 DEF NoCommand
<1>6. CASE cmd \in Command
  BY <1>2, <1>6, ClientAssumption DEF Command
<1>7. QED
  BY <1>3, <1>4, <1>5, <1>6

Sends(c, f, ok) == f \in Request /\ SendTo(c, f, ok)

LEMMA CommandsSend ==
    ASSUME Shape, NEW c \in Client, NEW ok \in BOOLEAN
    PROVE  /\ Login(c, ok) => Sends(c, ConnectFrame(command[c].user), ok)
           /\ Join(c, ok) => /\ command[c].channel \in Channel
                             /\ Sends(c, SubscribeFrame(command[c].channel, subscriptionId[c],
                                                        receiptCount[c]), ok)
           /\ Exit(c, ok) => /\ command[c].channel \in Channel
                             /\ subscriptionToSubId[c][command[c].channel] \in Nat
                             /\ Sends(c, UnsubscribeFrame(subscriptionToSubId[c][command[c].channel],
                                                          receiptCount[c]), ok)
           /\ ReportOne(c, ok) =>
                 /\ command[c].channel \in Channel
                 /\ command[c].left \in Nat
                 /\ command[c].name = "report"
                 /\ Sends(c, SendFrame(command[c].channel,
                                       [author |-> c, owner |-> currentUser[c],
                                        count |-> entered[c] + 1]), ok)
           /\ Logout(c, ok) => Sends(c, DisconnectFrame(receiptCount[c]), ok)
<1> USE DEF Sends, Admitted, Shape, TypeOK
<1>1. ASSUME Login(c, ok) PROVE Sends(c, ConnectFrame(command[c].user), ok)
  <2>1. command[c].user \in User
    BY <1>1, CommandFields DEF Login
  <2>2. QED
    BY <1>1, <2>1, RequestsMade DEF Login
<1>2. ASSUME Join(c, ok)
      PROVE  /\ command[c].channel \in Channel
             /\ Sends(c, SubscribeFrame(command[c].channel, subscriptionId[c], receiptCount[c]), ok)
  <2>1. command[c].channel \in Channel /\ subscriptionId[c] \in Nat /\ receiptCount[c] \in Nat
    BY <1>2, CommandFields DEF Join, ClientTypeOK
  <2>2. QED
    BY <1>2, <2>1, RequestsMade DEF Join
<1>3. ASSUME Exit(c, ok)
      PROVE  /\ command[c].channel \in Channel
             /\ subscriptionToSubId[c][command[c].channel] \in Nat
             /\ Sends(c, UnsubscribeFrame(subscriptionToSubId[c][command[c].channel],
                                          receiptCount[c]), ok)
  <2>1. command[c].channel \in Channel /\ receiptCount[c] \in Nat
    BY <1>3, CommandFields DEF Exit, ClientTypeOK
  <2>2. subscriptionToSubId[c][command[c].channel] \in Nat
    BY <1>3, <2>1 DEF Exit, Joined, ClientHand, ClientTypeOK
  <2>3. QED
    BY <1>3, <2>1, <2>2, RequestsMade DEF Exit
<1>4. ASSUME ReportOne(c, ok)
      PROVE  /\ command[c].channel \in Channel
             /\ command[c].left \in Nat
             /\ command[c].name = "report"
             /\ Sends(c, SendFrame(command[c].channel, [author |-> c, owner |-> currentUser[c],
                                                        count |-> entered[c] + 1]), ok)
  <2>1. command[c].name = "report"
    BY <1>4 DEF ReportOne, ClientHand
  <2>2. command[c].channel \in Channel /\ command[c].left \in Nat
    BY <2>1, CommandFields
  <2>3. [author |-> c, owner |-> currentUser[c], count |-> entered[c] + 1] \in Report
    BY DEF Report, ClientTypeOK
  <2>4. QED
    BY <1>4, <2>1, <2>2, <2>3, RequestsMade DEF ReportOne
<1>5. ASSUME Logout(c, ok) PROVE Sends(c, DisconnectFrame(receiptCount[c]), ok)
  BY <1>5, RequestsMade DEF Logout, ClientTypeOK
<1>6. QED
  BY <1>1, <1>2, <1>3, <1>4, <1>5

(* The steps of a client.                                                  *)
LEMMA ClientSteps ==
    ASSUME NEW c \in Client, ClientAct(c)
    PROVE  \/ \E cmd \in Command : ReadCommand(c, cmd)
           \/ Ignore(c) \/ Wait(c) \/ LoginDone(c)
           \/ \E ok \in BOOLEAN :
                 Login(c, ok) \/ Join(c, ok) \/ Exit(c, ok) \/ ReportOne(c, ok) \/ Logout(c, ok)
           \/ ReadFrame(c) \/ Notify(c) \/ Crash(c)
  BY DEF ClientAct, UserCommand, MainStep, SocketStep

LEMMA ClientShape ==
    ASSUME Shape, NEW c \in Client, ClientAct(c), UNCHANGED server
    PROVE  /\ LinksTypeOK' /\ ClientTypeOK'
           /\ \A d \in Client \ {c} : Undisturbed(d)
           /\ \A k \in 1..Len(toServer[c]) : toServer'[c][k] = toServer[c][k]
           /\ ClientHand(c)' /\ UNCHANGED <<processed, toClient, cut>>
<1> DEFINE Goal == /\ LinksTypeOK' /\ ClientTypeOK'
                   /\ \A d \in Client \ {c} : Undisturbed(d)
                   /\ \A k \in 1..Len(toServer[c]) : toServer'[c][k] = toServer[c][k]
                   /\ ClientHand(c)' /\ UNCHANGED <<processed, toClient, cut>>
<1>0. LinksTypeOK /\ ClientTypeOK /\ ClientHand(c)
  BY DEF Shape, TypeOK
<1> USE DEF Done, Goto, After
<1>1. ASSUME NEW cmd \in Command, ReadCommand(c, cmd) PROVE Goal
  <2>1. LinksTypeOK' /\ ClientTypeOK'
    BY <1>0, <1>1 DEF LinksTypeOK, ClientTypeOK, ReadCommand
  <2>2. ClientHand(c)'
    BY <1>0, <1>1 DEF ClientHand, Joined, InLogin, ClientTypeOK, ReadCommand
  <2>3. \A d \in Client \ {c} : Undisturbed(d)
    BY <1>0, <1>1 DEF Undisturbed, ClientTypeOK, ReadCommand
  <2>4. QED
    BY <1>1, <2>1, <2>2, <2>3 DEF ReadCommand
<1>2. ASSUME Ignore(c) PROVE Goal
  <2>1. LinksTypeOK' /\ ClientTypeOK'
    BY <1>0, <1>2 DEF LinksTypeOK, ClientTypeOK, Ignore
  <2>2. ClientHand(c)'
    BY <1>0, <1>2 DEF ClientHand, Joined, InLogin, ClientTypeOK, Ignore
  <2>3. \A d \in Client \ {c} : Undisturbed(d)
    BY <1>0, <1>2 DEF Undisturbed, ClientTypeOK, Ignore
  <2>4. QED
    BY <1>2, <2>1, <2>2, <2>3 DEF Ignore
<1>3. ASSUME Wait(c) PROVE Goal
  <2>1. LinksTypeOK' /\ ClientTypeOK'
    BY <1>0, <1>3 DEF LinksTypeOK, ClientTypeOK, Wait
  <2>2. ClientHand(c)'
    BY <1>0, <1>3 DEF ClientHand, Joined, InLogin, ClientTypeOK, Wait
  <2>3. \A d \in Client \ {c} : Undisturbed(d)
    BY <1>0, <1>3 DEF Undisturbed, ClientTypeOK, Wait
  <2>4. QED
    BY <1>3, <2>1, <2>2, <2>3 DEF Wait
<1>4. ASSUME LoginDone(c) PROVE Goal
  <2>1. command[c].user \in User
    BY <1>0, <1>4, CommandFields DEF LoginDone, ClientHand, InLogin
  <2>2. LinksTypeOK' /\ ClientTypeOK'
    BY <1>0, <1>4, <2>1 DEF LinksTypeOK, ClientTypeOK, LoginDone
  <2>3. ClientHand(c)'
    BY <1>0, <1>4 DEF ClientHand, Joined, InLogin, ClientTypeOK, LoginDone
  <2>4. \A d \in Client \ {c} : Undisturbed(d)
    BY <1>0, <1>4 DEF Undisturbed, ClientTypeOK, LoginDone
  <2>5. QED
    BY <1>4, <2>2, <2>3, <2>4 DEF LoginDone
<1>5. ASSUME NEW ok \in BOOLEAN, Login(c, ok) PROVE Goal
  <2>1. Sends(c, ConnectFrame(command[c].user), ok)
    BY <1>5, CommandsSend
  <2>2. /\ LinksTypeOK' /\ UNCHANGED <<processed, toClient, received, alive, cut>>
        /\ \A d \in Client \ {c} : toServer'[d] = toServer[d]
        /\ \A k \in 1..Len(toServer[c]) : toServer'[c][k] = toServer[c][k]
    BY <1>0, <2>1, SendToLinks DEF Sends
  <2>3. ClientTypeOK'
    BY <1>0, <1>5 DEF ClientTypeOK, Login
  <2>4. ClientHand(c)'
    BY <1>0, <1>5 DEF ClientHand, Joined, InLogin, ClientTypeOK, Login
  <2>5. \A d \in Client \ {c} : Undisturbed(d)
    BY <1>0, <1>5, <2>2 DEF Undisturbed, ClientTypeOK, Login
  <2>6. QED
    BY <2>2, <2>3, <2>4, <2>5
<1>6. ASSUME NEW ok \in BOOLEAN, Join(c, ok) PROVE Goal
  <2>1. PICK f : Sends(c, f, ok)
    BY <1>6, CommandsSend
  <2>2. /\ LinksTypeOK' /\ UNCHANGED <<processed, toClient, received, alive, cut>>
        /\ \A d \in Client \ {c} : toServer'[d] = toServer[d]
        /\ \A k \in 1..Len(toServer[c]) : toServer'[c][k] = toServer[c][k]
    BY <1>0, <2>1, SendToLinks DEF Sends
  <2>3. command[c].channel \in Channel
    BY <1>6, CommandsSend
  <2>4. ClientTypeOK'
    BY <1>0, <1>6, <2>3 DEF ClientTypeOK, Join
  <2>5. ClientHand(c)'
    BY <1>0, <1>6, <2>3, FramesAssumption DEF ClientHand, Joined, InLogin, ClientTypeOK, Join
  <2>6. \A d \in Client \ {c} : Undisturbed(d)
    BY <1>0, <1>6, <2>2 DEF Undisturbed, ClientTypeOK, Join
  <2>7. QED
    BY <2>2, <2>4, <2>5, <2>6
<1>7. ASSUME NEW ok \in BOOLEAN, Exit(c, ok) PROVE Goal
  <2>1. PICK f : Sends(c, f, ok)
    BY <1>7, CommandsSend
  <2>2. /\ LinksTypeOK' /\ UNCHANGED <<processed, toClient, received, alive, cut>>
        /\ \A d \in Client \ {c} : toServer'[d] = toServer[d]
        /\ \A k \in 1..Len(toServer[c]) : toServer'[c][k] = toServer[c][k]
    BY <1>0, <2>1, SendToLinks DEF Sends
  <2>3. ClientTypeOK'
    BY <1>0, <1>7 DEF ClientTypeOK, Exit
  <2>4. ClientHand(c)'
    BY <1>0, <1>7 DEF ClientHand, Joined, InLogin, ClientTypeOK, Exit
  <2>5. \A d \in Client \ {c} : Undisturbed(d)
    BY <1>0, <1>7, <2>2 DEF Undisturbed, ClientTypeOK, Exit
  <2>6. QED
    BY <2>2, <2>3, <2>4, <2>5
<1>8. ASSUME NEW ok \in BOOLEAN, ReportOne(c, ok) PROVE Goal
  <2>1. PICK f : Sends(c, f, ok)
    BY <1>8, CommandsSend
  <2>2. /\ LinksTypeOK' /\ UNCHANGED <<processed, toClient, received, alive, cut>>
        /\ \A d \in Client \ {c} : toServer'[d] = toServer[d]
        /\ \A k \in 1..Len(toServer[c]) : toServer'[c][k] = toServer[c][k]
    BY <1>0, <2>1, SendToLinks DEF Sends
  <2>3. /\ command[c].name = "report" /\ command[c].left \in Nat
        /\ command[c] \in Command \cup {NoCommand}
                             \cup [name : {"report"}, channel : Channel, left : Nat]
    BY <1>0, <1>8, CommandsSend DEF ClientTypeOK
  <2>4. command[c] \in [name : {"report"}, channel : Channel, left : Nat]
    BY <2>3, ClientAssumption DEF Command, NoCommand
  <2>5. command[c].left > 0
    BY <1>8 DEF ReportOne
  <2>6. PICK less : /\ less = [command[c] EXCEPT !.left = @ - 1]
                    /\ less \in [name : {"report"}, channel : Channel, left : Nat]
                    /\ less.channel = command[c].channel
    <3>1. PICK n \in Nat, ch \in Channel : command[c] = [name |-> "report", channel |-> ch, left |-> n]
      BY <2>4
    <3>2. n > 0
      BY <2>5, <3>1
    <3>3. [command[c] EXCEPT !.left = @ - 1] = [name |-> "report", channel |-> ch, left |-> n - 1]
      BY <3>1
    <3>4. n - 1 \in Nat
      BY <3>2
    <3>5. QED
      BY <3>1, <3>3, <3>4
  <2>7. \/ Done(c)
        \/ main' = [main EXCEPT ![c] = "reporting"] /\ command' = [command EXCEPT ![c] = less]
    BY <1>8, <2>6 DEF ReportOne
  <2>8. ClientTypeOK'
    <3> DEFINE Some == Command \cup {NoCommand}
                           \cup [name : {"report"}, channel : Channel, left : Nat]
    <3>0. command \in [Client -> Some] /\ NoCommand \in Some /\ less \in Some
      BY <1>0, <2>6 DEF ClientTypeOK
    <3> HIDE DEF Some
    <3>1. command' \in [Client -> Some]
      BY <2>7, <3>0
    <3>2. main' \in [Client -> {"ready", "dispatch", "sent", "waiting", "woken", "reporting"}]
      <4>1. CASE Done(c)
        BY <1>0, <4>1 DEF ClientTypeOK
      <4>2. CASE main' = [main EXCEPT ![c] = "reporting"]
        BY <1>0, <4>2 DEF ClientTypeOK
      <4>3. QED
        BY <2>7, <4>1, <4>2
    <3>3. entered' \in [Client -> Nat]
      BY <1>0, <1>8 DEF ClientTypeOK, ReportOne
    <3>4. QED
      BY <1>0, <1>8, <3>1, <3>2, <3>3 DEF ClientTypeOK, ReportOne, Some
  <2>9. ClientHand(c)'
    <3>1. /\ Joined(c)
          /\ subscribedChannels' = subscribedChannels /\ subscriptionToSubId' = subscriptionToSubId
      BY <1>0, <1>8 DEF ReportOne, ClientHand
    <3>2. CASE Done(c)
      BY <1>0, <3>1, <3>2 DEF ClientHand, InLogin, ClientTypeOK
    <3>3. CASE main' = [main EXCEPT ![c] = "reporting"] /\ command' = [command EXCEPT ![c] = less]
      <4>1. main'[c] = "reporting" /\ command'[c] = less
        BY <1>0, <3>3 DEF ClientTypeOK
      <4>2. QED
        BY <1>0, <2>6, <3>1, <4>1 DEF ClientHand, Joined, InLogin
    <3>4. QED
      BY <2>7, <3>2, <3>3
  <2>10. \A d \in Client \ {c} : Undisturbed(d)
    BY <1>0, <1>8, <2>2, <2>7 DEF Undisturbed, ClientTypeOK, ReportOne
  <2>11. QED
    BY <2>2, <2>8, <2>9, <2>10
<1>9. ASSUME NEW ok \in BOOLEAN, Logout(c, ok) PROVE Goal
  <2>1. PICK f : Sends(c, f, ok)
    BY <1>9, CommandsSend
  <2>2. /\ LinksTypeOK' /\ UNCHANGED <<processed, toClient, received, alive, cut>>
        /\ \A d \in Client \ {c} : toServer'[d] = toServer[d]
        /\ \A k \in 1..Len(toServer[c]) : toServer'[c][k] = toServer[c][k]
    BY <1>0, <2>1, SendToLinks DEF Sends
  <2>3. ClientTypeOK'
    <3>1. /\ loggedIn' \in [Client -> BOOLEAN]
          /\ subscribedChannels' \in [Client -> SUBSET Channel]
      BY <1>0, <1>9 DEF ClientTypeOK, Logout
    <3>2. receiptCount' \in [Client -> Nat]
      BY <1>0, <1>9 DEF ClientTypeOK, Logout
    <3>3. QED
      BY <1>0, <1>9, <3>1, <3>2 DEF ClientTypeOK, Logout
  <2>4. ClientHand(c)'
    BY <1>0, <1>9 DEF ClientHand, Joined, InLogin, ClientTypeOK, Logout
  <2>5. \A d \in Client \ {c} : Undisturbed(d)
    BY <1>0, <1>9, <2>2 DEF Undisturbed, ClientTypeOK, Logout
  <2>6. QED
    BY <2>2, <2>3, <2>4, <2>5
<1>10. ASSUME ReadFrame(c) PROVE Goal
  <2>1. LinksTypeOK' /\ ClientTypeOK'
    BY SMTT(30), <1>0, <1>10 DEF LinksTypeOK, ClientTypeOK, ReadFrame
  <2>2. ClientHand(c)'
    BY <1>0, <1>10 DEF ClientHand, Joined, InLogin, ReadFrame
  <2>3. \A d \in Client \ {c} : Undisturbed(d)
    BY <1>0, <1>10 DEF Undisturbed, LinksTypeOK, ClientTypeOK, ReadFrame
  <2>4. QED
    BY <1>10, <2>1, <2>2, <2>3 DEF ReadFrame
<1>11. ASSUME Notify(c) PROVE Goal
  <2>1. LinksTypeOK' /\ ClientTypeOK'
    BY <1>0, <1>11 DEF LinksTypeOK, ClientTypeOK, Notify
  <2>2. ClientHand(c)'
    BY <1>0, <1>11 DEF ClientHand, Joined, InLogin, ClientTypeOK, Notify
  <2>3. \A d \in Client \ {c} : Undisturbed(d)
    BY <1>0, <1>11 DEF Undisturbed, ClientTypeOK, Notify
  <2>4. QED
    BY <1>11, <2>1, <2>2, <2>3 DEF Notify
<1>12. ASSUME Crash(c) PROVE Goal
  BY <1>0, <1>12 DEF Crash, LinksTypeOK, ClientTypeOK, Undisturbed, ClientHand, Joined, InLogin
<1>13. QED
  BY <1>1, <1>2, <1>3, <1>4, <1>5, <1>6, <1>7, <1>8, <1>9, <1>10, <1>11, <1>12, ClientSteps

-----------------------------------------------------------------------------
LEMMA FrameInHand ==
    ASSUME Shape, NEW c \in Client
    PROVE  /\ processed[c] > 0 => Frame(c) \in Request
           /\ processed[c] < Len(toServer[c]) => NextFrame(c) \in Request
           /\ thread[c] = "broadcast" => Frame(c).destination \in Channel /\ Frame(c).report \in Report
           /\ thread[c] = "disconnect" => Frame(c).receipt \in Nat
<1>1. /\ toServer[c] \in Seq(Request) /\ processed[c] \in Nat
      /\ processed[c] <= Len(toServer[c]) /\ ServerHand(c)
  BY DEF Shape, TypeOK, LinksTypeOK
<1>2. /\ processed[c] > 0 => Frame(c) \in Request
      /\ processed[c] < Len(toServer[c]) => NextFrame(c) \in Request
  BY <1>1 DEF Frame, NextFrame
<1>3. QED
  BY <1>1, <1>2, RequestFields DEF ServerHand

(* A broadcast brings a message to some, and nothing to the rest.          *)
LEMMA DeliverLinks ==
    ASSUME Shape, NEW c \in Client, thread[c] = "broadcast", NEW to,
           to \subseteq Recipients(c, Frame(c).destination), Deliver(c, to)
    PROVE  /\ toClient' \in [Client -> Seq(Answer)]
           /\ \A d \in Client : \/ toClient'[d] = toClient[d]
                                \/ \E f \in Answer : /\ IsMessage(f)
                                                     /\ toClient'[d] = Append(toClient[d], f)
           /\ toClient'[c] = toClient[c]
           /\ \A d \in Client : Len(toClient[d]) <= Len(toClient'[d])
<1> DEFINE New(d) == MessageFrame(channelToSubscribedClients[Frame(c).destination][d],
                                  messageId[c], Frame(c).destination, Frame(c).report)
<1>1. Frame(c).destination \in Channel /\ Frame(c).report \in Report /\ messageId[c] \in Nat
  BY FrameInHand DEF Shape, TypeOK, ServerTypeOK
<1>2. ASSUME NEW d \in to
      PROVE  New(d) \in Answer /\ IsMessage(New(d)) /\ d \in Client
  <2>1. d \in Client /\ channelToSubscribedClients[Frame(c).destination][d] \in Nat
    BY <1>1, <1>2 DEF Recipients, Shape, TypeOK, ServerTypeOK
  <2>2. QED
    BY <1>1, <2>1, AnswersMade
<1>3. toClient' = [d \in Client |-> IF d \in to \ cut THEN Append(toClient[d], New(d))
                                                      ELSE toClient[d]]
  BY DEF Deliver
<1> HIDE DEF New
<1>4. toClient \in [Client -> Seq(Answer)]
  BY DEF Shape, TypeOK, LinksTypeOK
<1>5. ASSUME NEW d \in Client
      PROVE  /\ toClient'[d] \in Seq(Answer)
             /\ \/ toClient'[d] = toClient[d]
                \/ \E f \in Answer : IsMessage(f) /\ toClient'[d] = Append(toClient[d], f)
             /\ Len(toClient[d]) <= Len(toClient'[d])
  <2>1. CASE d \in to \ cut
    BY <1>2, <1>3, <1>4, <2>1
  <2>2. CASE d \notin to \ cut
    BY <1>3, <1>4, <2>2
  <2>3. QED
    BY <2>1, <2>2
<1>6. toClient'[c] = toClient[c]
  BY <1>3 DEF Recipients
<1>7. QED
  BY <1>3, <1>5, <1>6

LEMMA ServerShape ==
    ASSUME Shape, NEW c \in Client, ServerStep(c), UNCHANGED client
    PROVE  /\ LinksTypeOK' /\ ServerTypeOK'
           /\ \A d \in Client \ {c} : Undisturbed(d)
           /\ ServerHand(c)' /\ UNCHANGED <<toServer, received, alive>>
<1> DEFINE Goal == /\ LinksTypeOK' /\ ServerTypeOK'
                   /\ \A d \in Client \ {c} : Undisturbed(d)
                   /\ ServerHand(c)' /\ UNCHANGED <<toServer, received, alive>>
<1>0. /\ LinksTypeOK /\ ServerTypeOK /\ ServerHand(c)
      /\ processed[c] < Len(toServer[c]) => NextFrame(c) \in Request
  BY FrameInHand DEF Shape, TypeOK
<1> USE DEF Continue, Take, Throw
<1>1. ASSUME Start(c) PROVE Goal
  <2>1. LinksTypeOK' /\ ServerTypeOK'
    BY <1>0, <1>1 DEF LinksTypeOK, ServerTypeOK, Start
  <2>2. ServerHand(c)'
    BY <1>0, <1>1 DEF ServerHand, ServerTypeOK, Start, Frame
  <2>3. \A d \in Client \ {c} : Undisturbed(d)
    BY <1>0, <1>1 DEF Undisturbed, ServerTypeOK, Start
  <2>4. QED
    BY <1>1, <2>1, <2>2, <2>3 DEF Start
<1>2. ASSUME EndOfStream(c) PROVE Goal
  <2>1. LinksTypeOK' /\ ServerTypeOK'
    BY <1>0, <1>2 DEF LinksTypeOK, ServerTypeOK, EndOfStream
  <2>2. ServerHand(c)'
    BY <1>0, <1>2 DEF ServerHand, ServerTypeOK, EndOfStream, Frame
  <2>3. \A d \in Client \ {c} : Undisturbed(d)
    BY <1>0, <1>2 DEF Undisturbed, ServerTypeOK, EndOfStream
  <2>4. QED
    BY <1>2, <2>1, <2>2, <2>3 DEF EndOfStream
<1>3. ASSUME SendAnswer(c) PROVE Goal
  <2>1. toClient[c] \in Seq(Answer) /\ response[c] \in Answer
    BY <1>0, <1>3 DEF LinksTypeOK, ServerHand, SendAnswer
  <2>2. toClient' = [toClient EXCEPT ![c] = Append(toClient[c], response[c])]
    BY <1>3 DEF SendAnswer
  <2>3. Append(toClient[c], response[c]) \in Seq(Answer)
        /\ Len(Append(toClient[c], response[c])) = Len(toClient[c]) + 1
    BY <2>1
  <2>4. LinksTypeOK'
    BY <1>0, <1>3, <2>1, <2>2, <2>3 DEF LinksTypeOK, SendAnswer
  <2>5. ServerTypeOK'
    BY <1>0, <1>3 DEF ServerTypeOK, SendAnswer
  <2>6. ServerHand(c)'
    BY <1>0, <1>3 DEF ServerHand, ServerTypeOK, SendAnswer, Frame
  <2>7. \A d \in Client \ {c} : Undisturbed(d)
    BY <1>0, <1>3, <2>2 DEF Undisturbed, ServerTypeOK, LinksTypeOK, SendAnswer
  <2>8. QED
    BY <1>3, <2>4, <2>5, <2>6, <2>7 DEF SendAnswer
<1>4. ASSUME LoginRefused(c) PROVE Goal
  <2>1. LinksTypeOK'
    BY <1>0, <1>4 DEF LinksTypeOK, LoginRefused
  <2>2. ServerTypeOK'
    BY <1>0, <1>4, AnswersMade DEF ServerTypeOK, LoginRefused, Respond
  <2>3. ServerHand(c)'
    BY <1>0, <1>4, AnswersMade DEF ServerHand, ServerTypeOK, LoginRefused, Respond, Frame
  <2>4. \A d \in Client \ {c} : Undisturbed(d)
    BY <1>0, <1>4 DEF Undisturbed, ServerTypeOK, LinksTypeOK, LoginRefused, Respond
  <2>5. QED
    BY <1>4, <2>1, <2>2, <2>3, <2>4 DEF LoginRefused
<1>5. ASSUME LoginAccepted(c) PROVE Goal
  <2>1. LinksTypeOK'
    BY <1>0, <1>5 DEF LinksTypeOK, LoginAccepted
  <2>2. NextFrame(c).login \in User
    BY <1>0, <1>5, RequestFields DEF LoginAccepted
  <2>3. ServerTypeOK'
    BY <1>0, <1>5, <2>2 DEF ServerTypeOK, LoginAccepted
  <2>4. ServerHand(c)'
    BY <1>0, <1>5 DEF ServerHand, ServerTypeOK, LoginAccepted, Frame
  <2>5. \A d \in Client \ {c} : Undisturbed(d)
    BY <1>0, <1>5 DEF Undisturbed, ServerTypeOK, LinksTypeOK, LoginAccepted
  <2>6. QED
    BY <1>5, <2>1, <2>3, <2>4, <2>5 DEF LoginAccepted
<1>6. ASSUME Connect(c) PROVE Goal
  <2>1. LinksTypeOK'
    BY <1>0, <1>6 DEF LinksTypeOK, Connect
  <2>2. ServerTypeOK'
    BY <1>0, <1>6, AnswersMade DEF ServerTypeOK, Connect, Respond
  <2>3. ServerHand(c)'
    BY <1>0, <1>6, AnswersMade DEF ServerHand, ServerTypeOK, Connect, Respond, Frame
  <2>4. \A d \in Client \ {c} : Undisturbed(d)
    BY <1>0, <1>6 DEF Undisturbed, ServerTypeOK, Connect, Respond
  <2>5. QED
    BY <1>6, <2>1, <2>2, <2>3, <2>4 DEF Connect
<1>7. ASSUME Subscribe(c) PROVE Goal
  <2>1. LinksTypeOK'
    BY <1>0, <1>7 DEF LinksTypeOK, Subscribe
  <2>2. PICK f \in Request : f = NextFrame(c) /\ f.type = "SUBSCRIBE"
    BY <1>0, <1>7 DEF Subscribe
  <2>3. /\ f.destination \in Channel /\ f.id \in Nat
        /\ ReceiptFrame(f.receipt) \in Answer /\ ~IsMessage(ReceiptFrame(f.receipt))
    BY <2>2, RequestFields, AnswersMade
  <2>4. ServerTypeOK'
    <3>1. /\ channelToSubscribedClients' \in [Channel -> [Client -> Nat \cup {None}]]
          /\ knownChannels' \in SUBSET Channel
      BY <1>0, <1>7, <2>2, <2>3 DEF ServerTypeOK, Subscribe
    <3>2. subscriptionToTopic' \in [Client -> SUBSET (Nat \X Channel)]
      BY <1>0, <1>7, <2>2, <2>3 DEF ServerTypeOK, Subscribe
    <3>3. QED
      BY <1>0, <1>7, <2>2, <2>3, <3>1, <3>2 DEF ServerTypeOK, Subscribe, Respond
  <2>5. ServerHand(c)'
    BY <1>0, <1>7, <2>2, <2>3 DEF ServerHand, ServerTypeOK, Subscribe, Respond, Frame
  <2>6. \A d \in Client \ {c} : Undisturbed(d)
    BY <1>0, <1>7, <2>2, <2>3 DEF Undisturbed, ServerTypeOK, LinksTypeOK, Subscribe, Respond
  <2>7. QED
    BY <1>7, <2>1, <2>4, <2>5, <2>6 DEF Subscribe
<1>8. ASSUME Unsubscribe(c) PROVE Goal
  <2>1. LinksTypeOK'
    BY <1>0, <1>8 DEF LinksTypeOK, Unsubscribe
  <2>2. PICK f \in Request : f = NextFrame(c) /\ f.type = "UNSUBSCRIBE"
    BY <1>0, <1>8 DEF Unsubscribe
  <2>3. ReceiptFrame(f.receipt) \in Answer /\ ~IsMessage(ReceiptFrame(f.receipt))
    BY <2>2, RequestFields, AnswersMade
  <2>4. PICK e \in Entries(c, f.id) :
              /\ subscriptionToTopic' = [subscriptionToTopic EXCEPT ![c] = @ \ {e}]
              /\ channelToSubscribedClients' =
                    [channelToSubscribedClients EXCEPT ![e[2]][c] = None]
    BY <1>8, <2>2 DEF Unsubscribe
  <2>5. e[2] \in Channel
    BY <1>0 DEF ServerTypeOK, Entries
  <2>6. ServerTypeOK'
    <3>1. channelToSubscribedClients' \in [Channel -> [Client -> Nat \cup {None}]]
      BY <1>0, <2>4, <2>5 DEF ServerTypeOK
    <3>2. subscriptionToTopic' \in [Client -> SUBSET (Nat \X Channel)]
      BY <1>0, <2>4 DEF ServerTypeOK
    <3>3. QED
      BY <1>0, <1>8, <2>2, <2>3, <3>1, <3>2 DEF ServerTypeOK, Unsubscribe, Respond
  <2>7. ServerHand(c)'
    BY <1>0, <1>8, <2>2, <2>3 DEF ServerHand, ServerTypeOK, Unsubscribe, Respond, Frame
  <2>8. \A d \in Client \ {c} : Undisturbed(d)
    BY <1>0, <1>8, <2>4, <2>5 DEF Undisturbed, ServerTypeOK, LinksTypeOK, Unsubscribe, Respond
  <2>9. QED
    BY <1>8, <2>1, <2>6, <2>7, <2>8 DEF Unsubscribe
<1>9. ASSUME DrawId(c) PROVE Goal
  <2>1. LinksTypeOK'
    BY <1>0, <1>9 DEF LinksTypeOK, DrawId
  <2>2. ServerTypeOK'
    BY <1>0, <1>9 DEF ServerTypeOK, DrawId
  <2>3. ServerHand(c)'
    BY <1>0, <1>9 DEF ServerHand, ServerTypeOK, LinksTypeOK, DrawId, Frame, NextFrame
  <2>4. \A d \in Client \ {c} : Undisturbed(d)
    BY <1>0, <1>9 DEF Undisturbed, ServerTypeOK, LinksTypeOK, DrawId
  <2>5. QED
    BY <1>9, <2>1, <2>2, <2>3, <2>4 DEF DrawId
<1>10. ASSUME Broadcast(c) PROVE Goal
  <2>1. /\ toClient' \in [Client -> Seq(Answer)]
        /\ \A d \in Client : \/ toClient'[d] = toClient[d]
                             \/ \E f \in Answer : /\ IsMessage(f)
                                                  /\ toClient'[d] = Append(toClient[d], f)
        /\ \A d \in Client : Len(toClient[d]) <= Len(toClient'[d])
    BY <1>10, DeliverLinks DEF Broadcast
  <2>2. LinksTypeOK'
    BY <1>0, <1>10, <2>1 DEF LinksTypeOK, Broadcast
  <2>3. ServerTypeOK'
    BY <1>0, <1>10 DEF ServerTypeOK, Broadcast
  <2>4. ServerHand(c)'
    BY <1>0, <1>10 DEF ServerHand, ServerTypeOK, Broadcast, Frame
  <2>5. \A d \in Client \ {c} : Undisturbed(d)
    BY <1>0, <1>10, <2>1 DEF Undisturbed, ServerTypeOK, Broadcast
  <2>6. QED
    BY <1>10, <2>2, <2>3, <2>4, <2>5 DEF Broadcast
<1>11. ASSUME BroadcastThrows(c) PROVE Goal
  <2>1. /\ toClient' \in [Client -> Seq(Answer)]
        /\ \A d \in Client : \/ toClient'[d] = toClient[d]
                             \/ \E f \in Answer : /\ IsMessage(f)
                                                  /\ toClient'[d] = Append(toClient[d], f)
        /\ \A d \in Client : Len(toClient[d]) <= Len(toClient'[d])
    BY <1>11, DeliverLinks DEF BroadcastThrows
  <2>2. LinksTypeOK'
    BY <1>0, <1>11, <2>1 DEF LinksTypeOK, BroadcastThrows
  <2>3. ServerTypeOK'
    BY <1>0, <1>11 DEF ServerTypeOK, BroadcastThrows
  <2>4. ServerHand(c)'
    BY <1>0, <1>11 DEF ServerHand, ServerTypeOK, BroadcastThrows, Frame
  <2>5. \A d \in Client \ {c} : Undisturbed(d)
    BY <1>0, <1>11, <2>1 DEF Undisturbed, ServerTypeOK, BroadcastThrows
  <2>6. QED
    BY <1>11, <2>2, <2>3, <2>4, <2>5 DEF BroadcastThrows
<1>12. ASSUME LogoutThrows(c) PROVE Goal
  <2>1. LinksTypeOK' /\ ServerTypeOK'
    BY <1>0, <1>12 DEF LinksTypeOK, ServerTypeOK, LogoutThrows
  <2>2. ServerHand(c)'
    BY <1>0, <1>12 DEF ServerHand, ServerTypeOK, LogoutThrows, Frame
  <2>3. \A d \in Client \ {c} : Undisturbed(d)
    BY <1>0, <1>12 DEF Undisturbed, ServerTypeOK, LinksTypeOK, LogoutThrows
  <2>4. QED
    BY <1>12, <2>1, <2>2, <2>3 DEF LogoutThrows
<1>13. ASSUME LogoutUser(c) PROVE Goal
  <2>1. LinksTypeOK'
    BY <1>0, <1>13 DEF LinksTypeOK, LogoutUser
  <2>2. ServerTypeOK'
    BY <1>0, <1>13 DEF ServerTypeOK, LogoutUser
  <2>3. ServerHand(c)'
    BY <1>0, <1>13 DEF ServerHand, ServerTypeOK, LinksTypeOK, LogoutUser, Frame, NextFrame
  <2>4. \A d \in Client \ {c} : Undisturbed(d)
    BY <1>0, <1>13 DEF Undisturbed, ServerTypeOK, LinksTypeOK, LogoutUser
  <2>5. QED
    BY <1>13, <2>1, <2>2, <2>3, <2>4 DEF LogoutUser
<1>14. ASSUME Disconnect(c) PROVE Goal
  <2>1. LinksTypeOK'
    BY <1>0, <1>14 DEF LinksTypeOK, Disconnect
  <2>2. ReceiptFrame(Frame(c).receipt) \in Answer /\ ~IsMessage(ReceiptFrame(Frame(c).receipt))
    BY <1>14, FrameInHand, AnswersMade DEF Disconnect
  <2>3. ServerTypeOK'
    <3>1. channelToSubscribedClients' \in [Channel -> [Client -> Nat \cup {None}]]
      BY <1>0, <1>14 DEF ServerTypeOK, Disconnect
    <3>2. subscriptionToTopic' \in [Client -> SUBSET (Nat \X Channel)]
      BY <1>0, <1>14 DEF ServerTypeOK, Disconnect
    <3>3. QED
      BY <1>0, <1>14, <2>2, <3>1, <3>2 DEF ServerTypeOK, Disconnect, Respond
  <2>4. ServerHand(c)'
    BY <1>0, <1>14, <2>2 DEF ServerHand, ServerTypeOK, Disconnect, Respond, Frame
  <2>5. \A d \in Client \ {c} : Undisturbed(d)
    BY <1>0, <1>14 DEF Undisturbed, ServerTypeOK, Disconnect, Respond
  <2>6. QED
    BY <1>14, <2>1, <2>3, <2>4, <2>5 DEF Disconnect
<1>15. QED
  BY <1>1, <1>2, <1>3, <1>4, <1>5, <1>6, <1>7, <1>8, <1>9, <1>10, <1>11, <1>12, <1>13, <1>14
     DEF ServerStep

LEMMA ShapeNext == Shape /\ [Next]_vars => Shape'
<1> SUFFICES ASSUME Shape, [Next]_vars PROVE Shape'
  OBVIOUS
<1>1. ASSUME NEW d \in Client, Undisturbed(d) PROVE ClientHand(d)' /\ ServerHand(d)'
  <2>1. ClientHand(d) /\ ServerHand(d)
    BY DEF Shape
  <2>2. ClientHand(d)'
    BY <1>1, <2>1 DEF ClientHand, Joined, InLogin, Undisturbed
  <2>3. ServerHand(d)'
    BY <1>1, <2>1 DEF ServerHand, Frame, Undisturbed
  <2>4. QED
    BY <2>2, <2>3
<1>2. ASSUME NEW c \in Client, ClientAct(c), UNCHANGED server PROVE Shape'
  <2>1. /\ LinksTypeOK' /\ ClientTypeOK' /\ ClientHand(c)'
        /\ \A d \in Client \ {c} : Undisturbed(d)
        /\ \A k \in 1..Len(toServer[c]) : toServer'[c][k] = toServer[c][k]
        /\ UNCHANGED <<processed, cut>>
    BY <1>2, ClientShape
  <2>2. ServerTypeOK'
    BY <1>2 DEF Shape, TypeOK, ServerTypeOK
  <2>3. ServerHand(c)'
    <3>1. processed[c] > 0 => Frame(c)' = Frame(c)
      BY <2>1 DEF Frame, Shape, TypeOK, LinksTypeOK
    <3>2. ServerHand(c)
      BY DEF Shape
    <3>3. QED
      BY <1>2, <2>1, <3>1, <3>2 DEF ServerHand
  <2>4. QED
    BY <1>1, <2>1, <2>2, <2>3 DEF Shape, TypeOK
<1>3. ASSUME NEW c \in Client, ServerStep(c), UNCHANGED client PROVE Shape'
  <2>1. /\ LinksTypeOK' /\ ServerTypeOK' /\ ServerHand(c)'
        /\ \A d \in Client \ {c} : Undisturbed(d)
    BY <1>3, ServerShape
  <2>2. ClientTypeOK'
    BY <1>3 DEF Shape, TypeOK, ClientTypeOK
  <2>3. ClientHand(c)'
    BY <1>3 DEF Shape, ClientHand, Joined, InLogin
  <2>4. QED
    BY <1>1, <2>1, <2>2, <2>3 DEF Shape, TypeOK
<1>4. CASE UNCHANGED vars
  BY SMTT(30), <1>4 DEF vars, Shape, TypeOK, LinksTypeOK, ClientTypeOK, ServerTypeOK, ClientHand, ServerHand,
              Joined, InLogin, Frame
<1>5. QED
  BY <1>2, <1>3, <1>4 DEF Next, ClientAct

(* Every variable keeps its type, whatever the clients do and in whatever  *)
(* order the threads run.                                                  *)
THEOREM TypesKept == Spec => []TypeOK
<1>1. Shape => TypeOK
  BY DEF Shape
<1>2. QED
  BY <1>1, ShapeInit, ShapeNext, PTL DEF Spec

-----------------------------------------------------------------------------
(* Every request taken up has its answer, or is about to.                  *)

Busy == {"connect", "answer", "disconnect"}

(* What a step of the server does to its connection's counts.              *)
LEMMA ServerCounts ==
    ASSUME Shape, NEW c \in Client, ServerStep(c), c \notin cut'
    PROVE  \/ /\ processed[c] < Len(toServer[c])
              /\ processed'[c] = processed[c] + 1
              /\ toClient'[c] = toClient[c]
              /\ thread[c] = "read"
              /\ thread'[c] \in Busy <=> WantsAnswer(NextFrame(c))
           \/ /\ processed'[c] = processed[c]
              /\ toClient'[c] = toClient[c]
              /\ thread'[c] \in Busy <=> thread[c] \in Busy
           \/ /\ processed'[c] = processed[c]
              /\ thread[c] = "answer" /\ thread'[c] = "read"
              /\ response[c] \in Answer /\ ~IsMessage(response[c])
              /\ toClient'[c] = Append(toClient[c], response[c])
<1> DEFINE Goal == \/ /\ processed[c] < Len(toServer[c])
                      /\ processed'[c] = processed[c] + 1
                      /\ toClient'[c] = toClient[c]
                      /\ thread[c] = "read"
                      /\ thread'[c] \in Busy <=> WantsAnswer(NextFrame(c))
                   \/ /\ processed'[c] = processed[c]
                      /\ toClient'[c] = toClient[c]
                      /\ thread'[c] \in Busy <=> thread[c] \in Busy
                   \/ /\ processed'[c] = processed[c]
                      /\ thread[c] = "answer" /\ thread'[c] = "read"
                      /\ response[c] \in Answer /\ ~IsMessage(response[c])
                      /\ toClient'[c] = Append(toClient[c], response[c])
<1>0. LinksTypeOK /\ ServerTypeOK /\ ServerHand(c)
  BY DEF Shape, TypeOK
<1> USE DEF Continue, Take, Throw, Respond, Busy, WantsAnswer
<1>1. CASE Start(c)
  BY <1>0, <1>1 DEF Start, ServerTypeOK
<1>2. CASE SendAnswer(c)
  BY <1>0, <1>2 DEF SendAnswer, ServerTypeOK, LinksTypeOK, ServerHand
<1>3. CASE LoginRefused(c)
  BY <1>0, <1>3 DEF LoginRefused, ServerTypeOK, LinksTypeOK
<1>4. CASE LoginAccepted(c)
  BY <1>0, <1>4 DEF LoginAccepted, ServerTypeOK, LinksTypeOK
<1>5. CASE Connect(c)
  BY <1>0, <1>5 DEF Connect, ServerTypeOK
<1>6. CASE Subscribe(c)
  BY <1>0, <1>6 DEF Subscribe, ServerTypeOK, LinksTypeOK
<1>7. CASE Unsubscribe(c)
  BY <1>0, <1>7 DEF Unsubscribe, ServerTypeOK, LinksTypeOK
<1>8. CASE DrawId(c)
  BY <1>0, <1>8 DEF DrawId, ServerTypeOK, LinksTypeOK
<1>9. CASE Broadcast(c)
  <2>1. toClient'[c] = toClient[c]
    BY <1>9, DeliverLinks DEF Broadcast
  <2>2. QED
    BY <1>0, <1>9, <2>1 DEF Broadcast, ServerTypeOK
<1>10. CASE LogoutUser(c)
  BY <1>0, <1>10 DEF LogoutUser, ServerTypeOK, LinksTypeOK
<1>11. CASE Disconnect(c)
  BY <1>0, <1>11 DEF Disconnect, ServerTypeOK
<1>12. CASE EndOfStream(c) \/ BroadcastThrows(c) \/ LogoutThrows(c)
  BY <1>12 DEF EndOfStream, BroadcastThrows, LogoutThrows
<1>13. QED
  BY <1>1, <1>2, <1>3, <1>4, <1>5, <1>6, <1>7, <1>8, <1>9, <1>10, <1>11, <1>12 DEF ServerStep

LEMMA AnswersFitNext ==
    ASSUME Shape, [Next]_vars, NEW d \in Client, d \notin cut', d \notin cut => AnswersFit(d)
    PROVE  AnswersFit(d)'
<1>0. /\ toClient[d] \in Seq(Answer) /\ toServer[d] \in Seq(Request)
      /\ processed[d] \in Nat /\ processed[d] <= Len(toServer[d])
  BY DEF Shape, TypeOK, LinksTypeOK
<1>1. CASE UNCHANGED vars
  BY <1>1 DEF vars, AnswersFit
<1>2. ASSUME NEW c \in Client \ {d}, Undisturbed(d) PROVE AnswersFit(d)'
  <2>1. AnswersFit(d)
    BY <1>2 DEF Undisturbed
  <2>2. CASE toClient'[d] = toClient[d]
    BY <1>2, <2>1, <2>2 DEF Undisturbed, AnswersFit
  <2>3. ASSUME NEW f \in Answer, IsMessage(f), toClient'[d] = Append(toClient[d], f)
        PROVE  AnswersFit(d)'
    <3>1. Answering(toClient'[d], Len(toClient[d]) + 1) = Answering(toClient[d], Len(toClient[d])) + 0
      BY <1>0, <2>3, AnsweringAppend
    <3>2. Len(toClient'[d]) = Len(toClient[d]) + 1
      BY <1>0, <2>3
    <3>3. Answering(toClient[d], Len(toClient[d])) \in Nat
      BY <1>0, AnsweringType
    <3>4. QED
      BY <1>2, <2>1, <3>1, <3>2, <3>3 DEF Undisturbed, AnswersFit
  <2>4. QED
    BY <1>2, <2>2, <2>3 DEF Undisturbed
<1>3. CASE ClientAct(d) /\ UNCHANGED server
  <2>1. /\ \A k \in 1..Len(toServer[d]) : toServer'[d][k] = toServer[d][k]
        /\ UNCHANGED <<processed, toClient, cut>>
    BY <1>3, ClientShape
  <2>2. Asking(toServer'[d], processed[d]) = Asking(toServer[d], processed[d])
    BY <1>0, <2>1, AskingPrefix
  <2>3. QED
    BY <1>3, <2>1, <2>2 DEF AnswersFit
<1>4. CASE ServerStep(d) /\ UNCHANGED client
  <2>0. d \notin cut /\ AnswersFit(d) /\ toServer' = toServer
    <3>1. toServer' = toServer
      BY <1>4, ServerShape
    <3>2. ServerHand(d) /\ cut \subseteq cut'
      BY <1>4 DEF Shape, ServerStep, Start, EndOfStream, SendAnswer, LoginRefused, LoginAccepted,
              Connect, Subscribe, Unsubscribe, DrawId, Broadcast, BroadcastThrows, LogoutThrows,
              LogoutUser, Disconnect, Throw
    <3>3. QED
      BY <3>1, <3>2
  <2>1. PICK n \in Nat, m \in Nat, a \in Nat, b \in Nat :
              /\ n = processed[d] /\ m = Len(toClient[d])
              /\ a = Asking(toServer[d], n) /\ b = Answering(toClient[d], m)
              /\ a = b + IF thread[d] \in Busy THEN 1 ELSE 0
    BY <1>0, <2>0, AskingType, AnsweringType DEF AnswersFit, Busy
  <2>2. CASE /\ processed'[d] = processed[d] + 1
             /\ toClient'[d] = toClient[d]
             /\ thread[d] = "read"
             /\ thread'[d] \in Busy <=> WantsAnswer(NextFrame(d))
    <3>1. Asking(toServer[d], n + 1) = a + IF WantsAnswer(NextFrame(d)) THEN 1 ELSE 0
      BY <2>1, AskingNext DEF NextFrame
    <3>2. a = b
      BY <2>1, <2>2 DEF Busy
    <3>3. QED
      BY <2>0, <2>1, <2>2, <3>1, <3>2 DEF AnswersFit, Busy
  <2>3. CASE /\ processed'[d] = processed[d]
             /\ toClient'[d] = toClient[d]
             /\ thread'[d] \in Busy <=> thread[d] \in Busy
    BY <2>0, <2>3 DEF AnswersFit, Busy
  <2>4. CASE /\ processed'[d] = processed[d]
             /\ thread[d] = "answer" /\ thread'[d] = "read"
             /\ response[d] \in Answer /\ ~IsMessage(response[d])
             /\ toClient'[d] = Append(toClient[d], response[d])
    <3>1. Answering(toClient'[d], m + 1) = b + 1 /\ Len(toClient'[d]) = m + 1
      BY <1>0, <2>1, <2>4, AnsweringAppend
    <3>2. a = b + 1
      BY <2>1, <2>4 DEF Busy
    <3>3. QED
      BY <2>0, <2>1, <2>4, <3>1, <3>2 DEF AnswersFit
  <2>5. QED
    BY <1>4, <2>2, <2>3, <2>4, ServerCounts
<1>5. QED
  BY <1>1, <1>2, <1>3, <1>4, ClientShape, ServerShape DEF Next, ClientAct

-----------------------------------------------------------------------------
(* The answers a client waits for.                                         *)

(* They are owed by frames not taken up, by the frame in hand, or on the   *)
(* way.                                                                    *)
LEMMA AwaitedFrom ==
    ASSUME LinksTypeOK, NEW c \in Client, AnswersFit(c)
    PROVE  /\ Awaited(c) \in Nat
           /\ Awaited(c) = 0 =>
                 /\ \A k \in processed[c] + 1..Len(toServer[c]) : ~WantsAnswer(toServer[c][k])
                 /\ thread[c] \notin Busy
                 /\ \A k \in received[c] + 1..Len(toClient[c]) : IsMessage(toClient[c][k])
           /\ Awaited(c) = 1 /\ thread[c] \in Busy =>
                 \A k \in received[c] + 1..Len(toClient[c]) : IsMessage(toClient[c][k])
           /\ \A k \in processed[c] + 1..Len(toServer[c]) :
                 Awaited(c) = 1 /\ WantsAnswer(toServer[c][k]) =>
                    /\ thread[c] \notin Busy
                    /\ \A i \in received[c] + 1..Len(toClient[c]) : IsMessage(toClient[c][i])
<1>1. PICK n \in Nat, m \in Nat, p \in Nat, r \in Nat :
            /\ n = Len(toServer[c]) /\ m = Len(toClient[c])
            /\ p = processed[c] /\ r = received[c] /\ p <= n /\ r <= m
  BY DEF LinksTypeOK
<1>2. PICK an \in Nat, ap \in Nat, bm \in Nat, br \in Nat :
            /\ an = Asking(toServer[c], n) /\ ap = Asking(toServer[c], p)
            /\ bm = Answering(toClient[c], m) /\ br = Answering(toClient[c], r)
  BY AskingType, AnsweringType
<1>3. ap <= an /\ br <= bm
  BY <1>1, <1>2, AskingMonotone, AnsweringMonotone
<1>4. ap = bm + IF thread[c] \in Busy THEN 1 ELSE 0
  BY <1>1, <1>2 DEF AnswersFit, Busy
<1>5. Awaited(c) = an - br
  BY <1>1, <1>2 DEF Awaited
<1>6. \A k \in p + 1..n : WantsAnswer(toServer[c][k]) => ap < an
  BY <1>1, <1>2, AskingMore
<1>7. \A k \in r + 1..m : ~IsMessage(toClient[c][k]) => br < bm
  BY <1>1, <1>2, AnsweringMore
<1>8. Awaited(c) \in Nat
  BY <1>3, <1>4, <1>5
<1>9. ASSUME Awaited(c) = 0
      PROVE  ap = an /\ br = bm /\ thread[c] \notin Busy
  BY <1>3, <1>4, <1>5, <1>9
<1>10. ASSUME Awaited(c) = 1, thread[c] \in Busy \/ ap < an
       PROVE  br = bm
  BY <1>3, <1>4, <1>5, <1>10
<1>11. ASSUME Awaited(c) = 1, ap < an PROVE thread[c] \notin Busy
  BY <1>3, <1>4, <1>5, <1>11
<1>12. /\ \A k \in processed[c] + 1..Len(toServer[c]) : WantsAnswer(toServer[c][k]) => ap < an
       /\ \A k \in received[c] + 1..Len(toClient[c]) : ~IsMessage(toClient[c][k]) => br < bm
       /\ ~(ap < ap) /\ ~(br < br)
  BY <1>1, <1>6, <1>7
<1>13. QED
  BY <1>8, <1>9, <1>10, <1>11, <1>12

(* Nothing but the client's own sends and reads changes them.              *)
LEMMA AwaitedSame ==
    ASSUME LinksTypeOK, NEW c \in Client, toServer'[c] = toServer[c], received'[c] = received[c],
           \A k \in 1..Len(toClient[c]) : toClient'[c][k] = toClient[c][k]
    PROVE  Awaited(c)' = Awaited(c)
<1>1. Answering(toClient'[c], received[c]) = Answering(toClient[c], received[c])
  BY SMTT(30), AnsweringPrefix DEF LinksTypeOK
<1>2. QED
  BY <1>1 DEF Awaited

LEMMA AwaitedUndisturbed ==
    ASSUME LinksTypeOK, NEW c \in Client, Undisturbed(c)
    PROVE  Awaited(c)' = Awaited(c)
<1>1. toClient[c] \in Seq(Answer)
  BY DEF LinksTypeOK
<1>2. \A k \in 1..Len(toClient[c]) : toClient'[c][k] = toClient[c][k]
  BY <1>1 DEF Undisturbed
<1>3. QED
  BY <1>2, AwaitedSame DEF Undisturbed

LEMMA AwaitedServer ==
    ASSUME Shape, NEW c \in Client, ServerStep(c), UNCHANGED client, c \notin cut'
    PROVE  Awaited(c)' = Awaited(c)
<1>1. LinksTypeOK /\ toClient[c] \in Seq(Answer)
  BY DEF Shape, TypeOK, LinksTypeOK
<1>2. toServer' = toServer /\ received' = received
  BY ServerShape
<1>3. \A k \in 1..Len(toClient[c]) : toClient'[c][k] = toClient[c][k]
  BY <1>1, ServerCounts
<1>4. QED
  BY <1>1, <1>2, <1>3, AwaitedSame

LEMMA AwaitedSent ==
    ASSUME LinksTypeOK, NEW c \in Client, NEW f \in Request, c \notin cut, NEW ok \in BOOLEAN,
           SendTo(c, f, ok), AnswersFit(c)
    PROVE  Awaited(c)' = Awaited(c) + IF WantsAnswer(f) THEN 1 ELSE 0
<1>1. toServer[c] \in Seq(Request) /\ toServer'[c] = Append(toServer[c], f)
      /\ received' = received /\ toClient' = toClient
  BY SendToLinks DEF LinksTypeOK
<1>2. PICK n \in Nat, a \in Nat, b \in Nat :
          n = Len(toServer[c]) /\ a = Asking(toServer[c], n) /\ b = Answering(toClient[c], received[c])
  <2>1. Len(toServer[c]) \in Nat /\ received[c] \in Nat
    BY <1>1 DEF LinksTypeOK
  <2>2. /\ Asking(toServer[c], Len(toServer[c])) \in Nat
        /\ Answering(toClient[c], received[c]) \in Nat
    BY <2>1, AskingType, AnsweringType
  <2>3. QED
    BY <2>1, <2>2
<1>3. Asking(toServer'[c], n + 1) = a + IF WantsAnswer(f) THEN 1 ELSE 0
  BY <1>1, <1>2, AskingAppend
<1>4. Len(toServer'[c]) = n + 1
  BY <1>1, <1>2
<1>5. QED
  BY <1>1, <1>2, <1>3, <1>4 DEF Awaited

LEMMA AwaitedRead ==
    ASSUME LinksTypeOK, NEW c \in Client, ReadFrame(c)
    PROVE  Awaited(c)' = Awaited(c) - IF IsMessage(toClient[c][received[c] + 1]) THEN 0 ELSE 1
<1>1. /\ toServer' = toServer /\ toClient' = toClient /\ received'[c] = received[c] + 1
      /\ toServer[c] \in Seq(Request)
  BY DEF ReadFrame, LinksTypeOK
<1>2. PICK r \in Nat, a \in Nat, b \in Nat :
         /\ r = received[c] /\ a = Asking(toServer[c], Len(toServer[c])) /\ b = Answering(toClient[c], r)
  <2>1. Len(toServer[c]) \in Nat /\ received[c] \in Nat
    BY <1>1 DEF LinksTypeOK
  <2>2. /\ Asking(toServer[c], Len(toServer[c])) \in Nat
        /\ Answering(toClient[c], received[c]) \in Nat
    BY <2>1, AskingType, AnsweringType
  <2>3. QED
    BY <2>1, <2>2
<1>3. Answering(toClient[c], r + 1) = b + IF IsMessage(toClient[c][r + 1]) THEN 0 ELSE 1
  BY <1>2, AnsweringNext
<1>4. QED
  BY <1>1, <1>2, <1>3 DEF Awaited

-----------------------------------------------------------------------------
(* Logins that hang.                                                       *)

LEMMA CutGrows ==
    ASSUME Shape, [Next]_vars, NEW d \in Client, d \in cut
    PROVE  d \in cut'
<1>1. CASE UNCHANGED vars
  BY <1>1 DEF vars
<1>2. ASSUME NEW c \in Client, ClientAct(c), UNCHANGED server PROVE d \in cut'
  BY <1>2, ClientShape
<1>3. ASSUME NEW c \in Client, ServerStep(c) PROVE d \in cut'
  BY <1>3 DEF ServerStep, Start, EndOfStream, SendAnswer, LoginRefused, LoginAccepted, Connect,
              Subscribe, Unsubscribe, DrawId, Broadcast, BroadcastThrows, LogoutThrows, LogoutUser,
              Disconnect, Throw, Take
<1>4. QED
  BY <1>1, <1>2, <1>3 DEF Next, ClientAct

LEMMA HearsNext ==
    ASSUME Shape, [Next]_vars, NEW d \in Client, d \notin cut', AnswersFit(d), Hears(d)
    PROVE  Hears(d)'
<1>0. /\ LinksTypeOK /\ ClientTypeOK /\ d \notin cut
      /\ Awaited(d) \in Nat
  BY CutGrows, AwaitedFrom DEF Shape, TypeOK
<1>1. CASE UNCHANGED vars
  BY <1>1 DEF vars, Hears, Awaited
<1>2. ASSUME Undisturbed(d) PROVE Hears(d)'
  <2>1. Awaited(d)' = Awaited(d)
    BY <1>0, <1>2, AwaitedUndisturbed
  <2>2. QED
    BY <1>2, <2>1 DEF Undisturbed, Hears
<1>3. CASE ServerStep(d) /\ UNCHANGED client
  <2>1. Awaited(d)' = Awaited(d)
    BY <1>3, AwaitedServer
  <2>2. QED
    BY <1>3, <2>1 DEF Hears
<1>4. CASE ClientAct(d) /\ UNCHANGED server
  <2> USE DEF Hears, Done, Goto, After
  <2>1. CASE \E cmd \in Command : ReadCommand(d, cmd)
    BY <1>0, <2>1 DEF ReadCommand, ClientTypeOK
  <2>2. CASE Ignore(d)
    BY <1>0, <2>2 DEF Ignore, ClientTypeOK
  <2>3. CASE Wait(d)
    BY <1>0, <2>3 DEF Wait, ClientTypeOK, Awaited
  <2>4. CASE LoginDone(d)
    BY <1>0, <2>4 DEF LoginDone, ClientTypeOK
  <2>5. ASSUME NEW ok \in BOOLEAN, Login(d, ok) PROVE Hears(d)'
    <3>1. /\ ConnectFrame(command[d].user) \in Request
          /\ SendTo(d, ConnectFrame(command[d].user), ok)
          /\ WantsAnswer(ConnectFrame(command[d].user))
      BY <2>5, CommandsSend DEF Sends, WantsAnswer, ConnectFrame
    <3>2. Awaited(d)' = Awaited(d) + 1
      BY <1>0, <3>1, AwaitedSent
    <3>3. QED
      BY <1>0, <3>2
  <2>6. ASSUME NEW ok \in BOOLEAN, Join(d, ok) \/ Exit(d, ok) \/ ReportOne(d, ok) \/ Logout(d, ok)
        PROVE  Hears(d)'
    <3>1. main'[d] \in {"ready", "reporting"}
      BY <1>0, <2>6 DEF Join, Exit, ReportOne, Logout, ClientTypeOK
    <3>2. QED
      BY <3>1
  <2>7. CASE ReadFrame(d)
    <3>1. Awaited(d)' = Awaited(d) - IF IsMessage(toClient[d][received[d] + 1]) THEN 0 ELSE 1
      BY <1>0, <2>7, AwaitedRead
    <3>2. notifying'[d] = ~IsMessage(toClient[d][received[d] + 1]) /\ ~notifying[d]
      BY <1>0, <2>7 DEF ReadFrame, ClientTypeOK
    <3>3. main' = main /\ missed' = missed
      BY <2>7 DEF ReadFrame
    <3>4. CASE IsMessage(toClient[d][received[d] + 1])
      BY <1>0, <3>1, <3>2, <3>3, <3>4
    <3>5. CASE ~IsMessage(toClient[d][received[d] + 1])
      <4>1. notifying'[d]
        BY <3>2, <3>5
      <4>2. QED
        BY <4>1
    <3>6. QED
      BY <3>4, <3>5
  <2>8. CASE Notify(d)
    BY <1>0, <2>8 DEF Notify, ClientTypeOK
  <2>9. CASE Crash(d)
    BY <2>9 DEF Crash, Awaited
  <2>10. QED
    BY <1>4, <2>1, <2>2, <2>3, <2>4, <2>5, <2>6, <2>7, <2>8, <2>9, ClientSteps
<1>5. QED
  BY <1>1, <1>2, <1>3, <1>4, ClientShape, ServerShape DEF Next, ClientAct

AnswersInv == Shape /\ \A c \in Client : c \notin cut => AnswersFit(c) /\ Hears(c)

LEMMA AnswersInvInit == Init => AnswersInv
<1> SUFFICES ASSUME Init PROVE AnswersInv
  OBVIOUS
<1>1. ASSUME NEW c \in Client PROVE AnswersFit(c) /\ Hears(c)
  <2>1. /\ toServer[c] = <<>> /\ toClient[c] = <<>> /\ processed[c] = 0 /\ thread[c] = "start"
        /\ main[c] = "ready"
    BY <1>1 DEF Init, LinksInit, ServerInit, ClientInit
  <2>2. Asking(<<>>, 0) = 0 /\ Answering(<<>>, 0) = 0
    BY NothingCounted
  <2>3. QED
    BY <2>1, <2>2 DEF AnswersFit, Hears
<1>2. QED
  BY <1>1, ShapeInit DEF AnswersInv

LEMMA AnswersInvNext == AnswersInv /\ [Next]_vars => AnswersInv'
<1> SUFFICES ASSUME AnswersInv, [Next]_vars PROVE AnswersInv'
  OBVIOUS
<1>1. Shape /\ Shape'
  BY ShapeNext DEF AnswersInv
<1>2. ASSUME NEW c \in Client, c \notin cut' PROVE AnswersFit(c)' /\ Hears(c)'
  <2>1. AnswersFit(c) /\ Hears(c)
    BY <1>1, <1>2, CutGrows DEF AnswersInv
  <2>2. QED
    BY <1>1, <1>2, <2>1, AnswersFitNext, HearsNext
<1>3. QED
  BY <1>1, <1>2 DEF AnswersInv

(* A login hangs for ever on a connection that holds only if the client    *)
(* was notified between its CONNECT and the wait (utils.cpp:37-44): in     *)
(* every other case its answer is owed, on the way, or read and about to   *)
(* notify.                                                                 *)
THEOREM HangsOnlyIfMissed == Spec => []LoginHangsIfMissed
<1>1. AnswersInv => LoginHangsIfMissed
  BY DEF AnswersInv, Hears, LoginHangsIfMissed, Talking
<1>2. QED
  BY <1>1, AnswersInvInit, AnswersInvNext, PTL DEF Spec

-----------------------------------------------------------------------------
(* The subscriptions along a stream of requests.                           *)

Holding == [Channel -> Nat \cup {None}]

LEMMA ChangedType ==
    ASSUME NEW held \in Holding, NEW f \in Request
    PROVE  Changed(held, f) \in Holding
  BY RequestFields DEF Changed, Holding, NoSubscriptions

(* A function that follows the first n frames.                             *)
Follows(held, frames, n) ==
    /\ held \in [0..n -> Holding]
    /\ held[0] = NoSubscriptions
    /\ \A k \in 1..n : held[k] = Changed(held[k - 1], frames[k])

LEMMA SomethingFollows ==
    ASSUME NEW frames \in Seq(Request), NEW n \in 0..Len(frames)
    PROVE  \E held : Follows(held, frames, n)
<1> DEFINE S == {i \in Nat : i <= Len(frames) => \E held : Follows(held, frames, i)}
<1>1. 0 \in S
  <2>1. Follows([k \in 0..0 |-> NoSubscriptions], frames, 0)
    BY DEF Follows, Holding, NoSubscriptions
  <2>2. QED
    BY <2>1
<1>2. ASSUME NEW i \in S, i < Len(frames) PROVE i + 1 \in S
  <2>1. PICK held : Follows(held, frames, i)
    BY <1>2
  <2>2. frames[i + 1] \in Request
    BY <1>2
  <2>3. PICK next : next = Changed(held[i], frames[i + 1])
    OBVIOUS
  <2>4. next \in Holding
    BY <2>1, <2>2, <2>3, ChangedType DEF Follows
  <2>5. PICK more : more = [k \in 0..i + 1 |-> IF k = i + 1 THEN next ELSE held[k]]
    OBVIOUS
  <2>6. more \in [0..i + 1 -> Holding]
    BY <2>1, <2>4, <2>5 DEF Follows
  <2>7. more[0] = NoSubscriptions
    BY <2>1, <2>5 DEF Follows
  <2>8. ASSUME NEW k \in 1..i + 1 PROVE more[k] = Changed(more[k - 1], frames[k])
    <3>1. CASE k = i + 1
      BY <2>3, <2>5, <3>1
    <3>2. CASE k # i + 1
      <4>1. k \in 1..i /\ more[k] = held[k] /\ more[k - 1] = held[k - 1]
        BY <2>5, <3>2
      <4>2. QED
        BY <2>1, <4>1 DEF Follows
    <3>3. QED
      BY <3>1, <3>2
  <2>9. Follows(more, frames, i + 1)
    BY <2>6, <2>7, <2>8 DEF Follows
  <2>10. QED
    BY <2>9
<1> HIDE DEF S
<1>3. 0..Len(frames) \subseteq S
  <2>1. S \in SUBSET Nat /\ Len(frames) \in Nat
    BY DEF S
  <2>2. QED
    BY <1>1, <1>2, <2>1, Induction
<1>4. QED
  BY <1>3 DEF S

LEMMA SubscriptionsFollow ==
    ASSUME NEW frames \in Seq(Request)
    PROVE  Follows(Subscriptions(frames), frames, Len(frames))
<1>1. PICK held : Follows(held, frames, Len(frames))
  <2>1. Len(frames) \in 0..Len(frames)
    OBVIOUS
  <2>2. QED
    BY <2>1, SomethingFollows
<1>2. held = [k \in 0..Len(frames) |-> IF k = 0 THEN NoSubscriptions
                                                ELSE Changed(held[k - 1], frames[k])]
  BY <1>1 DEF Follows
<1>3. PICK all : all = Subscriptions(frames)
  OBVIOUS
<1>4. all = [k \in 0..Len(frames) |-> IF k = 0 THEN NoSubscriptions
                                              ELSE Changed(all[k - 1], frames[k])]
  BY <1>2, <1>3, Zenon DEF Subscriptions
<1> DEFINE S == {i \in Nat : i <= Len(frames) => all[i] = held[i]}
<1>5. 0 \in S
  BY <1>2, <1>4
<1>6. ASSUME NEW i \in S, i < Len(frames) PROVE i + 1 \in S
  <2>1. /\ all[i + 1] = Changed(all[i], frames[i + 1])
        /\ held[i + 1] = Changed(held[i], frames[i + 1])
    <3>1. i + 1 \in 0..Len(frames) /\ i + 1 # 0 /\ (i + 1) - 1 = i
      BY <1>6
    <3>2. QED
      BY <1>2, <1>4, <3>1
  <2>2. all[i] = held[i]
    BY <1>6
  <2>3. QED
    BY <2>1, <2>2
<1> HIDE DEF S
<1>7. 0..Len(frames) \subseteq S
  <2>1. S \in SUBSET Nat /\ Len(frames) \in Nat
    BY DEF S
  <2>2. QED
    BY <1>5, <1>6, <2>1, Induction
<1>8. \A k \in 0..Len(frames) : all[k] = held[k]
  BY <1>7 DEF S
<1>9. all = held
  <2>1. all = [k \in 0..Len(frames) |-> all[k]] /\ held = [k \in 0..Len(frames) |-> held[k]]
    BY <1>2, <1>4, Zenon
  <2>2. QED
    BY <1>8, <2>1
<1>10. QED
  BY <1>1, <1>3, <1>9

(* A frame more leaves what was before.                                    *)
LEMMA SubscriptionsAppend ==
    ASSUME NEW frames \in Seq(Request), NEW f \in Request
    PROVE  /\ \A k \in 0..Len(frames) :
                Subscriptions(Append(frames, f))[k] = Subscriptions(frames)[k]
           /\ Subscriptions(Append(frames, f))[Len(frames) + 1]
                = Changed(Subscriptions(frames)[Len(frames)], f)
<1>0. PICK held, more, longer :
          /\ held = Subscriptions(frames)
          /\ more = Append(frames, f) /\ longer = Subscriptions(Append(frames, f))
  OBVIOUS
<1>1. PICK n \in Nat : n = Len(frames)
  OBVIOUS
<1>2. /\ more \in Seq(Request) /\ Len(more) = n + 1 /\ more[n + 1] = f
      /\ \A k \in 1..n : more[k] = frames[k]
  BY <1>0, <1>1
<1>3. Follows(held, frames, n) /\ Follows(longer, more, n + 1)
  <2>1. Follows(Subscriptions(more), more, Len(more))
    BY <1>2, SubscriptionsFollow
  <2>2. QED
    BY <1>0, <1>1, <1>2, <2>1, SubscriptionsFollow
<1> DEFINE S == {i \in Nat : i <= n => longer[i] = held[i]}
<1>4. 0 \in S
  BY <1>3 DEF Follows
<1>5. ASSUME NEW i \in S, i < n PROVE i + 1 \in S
  <2>1. i + 1 \in 1..n /\ i + 1 \in 1..n + 1 /\ (i + 1) - 1 = i
    BY <1>5
  <2>2. /\ longer[i + 1] = Changed(longer[i], more[i + 1])
        /\ held[i + 1] = Changed(held[i], frames[i + 1])
    BY <1>3, <2>1 DEF Follows
  <2>3. longer[i] = held[i] /\ more[i + 1] = frames[i + 1]
    BY <1>2, <1>5, <2>1
  <2>4. QED
    BY <2>2, <2>3
<1> HIDE DEF S
<1>6. 0..n \subseteq S
  <2>1. S \in SUBSET Nat
    BY DEF S
  <2>2. QED
    BY <1>4, <1>5, <2>1, Induction
<1>7. \A k \in 0..n : longer[k] = held[k]
  BY <1>6 DEF S
<1>8. longer[n + 1] = Changed(held[n], f)
  <2>1. longer[n + 1] = Changed(longer[n], more[n + 1])
    BY <1>3 DEF Follows
  <2>2. QED
    BY <1>2, <1>7, <2>1
<1>9. QED
  BY <1>0, <1>1, <1>7, <1>8

-----------------------------------------------------------------------------
(* The client's subscriptions and the registry's.                          *)

LEMMA HeldAre ==
    ASSUME LinksTypeOK, NEW c \in Client
    PROVE  Follows(Subscriptions(toServer[c]), toServer[c], Len(toServer[c]))
  BY SubscriptionsFollow DEF LinksTypeOK

LEMMA ProperMore ==
    ASSUME NEW held \in Holding, NEW m \in Nat, NEW n \in Nat, m <= n, Proper(held, m)
    PROVE  Proper(held, n)
<1>1. ASSUME NEW ch \in Channel, held[ch] # None
      PROVE  held[ch] < n /\ \A other \in Channel \ {ch} : held[other] # held[ch]
  <2>1. held[ch] \in Nat
    BY <1>1 DEF Holding
  <2>2. QED
    BY <1>1, <2>1 DEF Proper
<1>2. QED
  BY <1>1 DEF Proper

(* A frame that fits is sent.                                              *)
Last(c) == Subscriptions(toServer[c])[Len(toServer[c])]

LEMMA LastType ==
    ASSUME LinksTypeOK, NEW c \in Client
    PROVE  Last(c) \in Holding
<1>1. Len(toServer[c]) \in 0..Len(toServer[c])
  BY DEF LinksTypeOK
<1>2. QED
  BY <1>1, HeldAre DEF Follows, Last

LEMMA FitsSent ==
    ASSUME Shape, ClientTypeOK', NEW c \in Client, NEW f \in Request, SubscriptionsFit(c),
           toServer'[c] = Append(toServer[c], f), UNCHANGED <<server, processed>>,
           Sound(Last(c), f), Proper(Changed(Last(c), f), subscriptionId'[c]),
           subscriptionId[c] <= subscriptionId'[c],
           \A ch \in Channel : Changed(Last(c), f)[ch] =
              IF ch \in subscribedChannels'[c] THEN subscriptionToSubId'[c][ch] ELSE None
    PROVE  SubscriptionsFit(c)'
<1>0. LinksTypeOK /\ ClientTypeOK /\ ServerHand(c)
  BY DEF Shape, TypeOK
<1>1. PICK frames, more, held, longer :
          /\ frames = toServer[c] /\ more = toServer'[c]
          /\ held = Subscriptions(frames) /\ longer = Subscriptions(more)
  OBVIOUS
<1>2. frames \in Seq(Request) /\ more = Append(frames, f)
  BY <1>0, <1>1 DEF LinksTypeOK
<1>3. PICK n \in Nat : n = Len(frames)
  BY <1>2
<1>4. /\ Len(more) = n + 1 /\ more[n + 1] = f
      /\ \A k \in 1..n : more[k] = frames[k]
  BY <1>2, <1>3
<1>5. /\ \A k \in 0..n : longer[k] = held[k] /\ held[k] \in Holding
      /\ longer[n + 1] = Changed(held[n], f)
  <2>1. Follows(held, frames, n)
    BY <1>1, <1>2, <1>3, SubscriptionsFollow
  <2>2. QED
    BY <1>1, <1>2, <1>3, <2>1, SubscriptionsAppend DEF Follows
<1>6. Last(c) = held[n]
  BY <1>1, <1>3 DEF Last
<1>7. /\ \A k \in 1..n : Sound(held[k - 1], frames[k])
      /\ \A k \in 0..n : Proper(held[k], subscriptionId[c])
      /\ Has(c, held[Applied(c)])
  BY <1>1, <1>3 DEF SubscriptionsFit
<1>8. ASSUME NEW k \in 1..n + 1 PROVE Sound(longer[k - 1], more[k])
  <2>1. CASE k = n + 1
    BY <1>4, <1>5, <1>6, <2>1
  <2>2. CASE k # n + 1
    <3>1. k \in 1..n /\ k - 1 \in 0..n
      BY <2>2
    <3>2. QED
      BY <1>4, <1>5, <1>7, <3>1
  <2>3. QED
    BY <2>1, <2>2
<1>9. ASSUME NEW k \in 0..n + 1 PROVE Proper(longer[k], subscriptionId'[c])
  <2>1. CASE k = n + 1
    BY <1>5, <1>6, <2>1
  <2>2. CASE k # n + 1
    <3>1. k \in 0..n
      BY <2>2
    <3>2. Proper(held[k], subscriptionId[c]) /\ held[k] \in Holding /\ longer[k] = held[k]
      BY <1>5, <1>7, <3>1
    <3>3. subscriptionId[c] \in Nat /\ subscriptionId'[c] \in Nat
      BY <1>0 DEF ClientTypeOK
    <3>4. QED
      BY <3>2, <3>3, ProperMore
  <2>3. QED
    BY <2>1, <2>2
<1>10. Believes(c, longer[n + 1])'
  <2>1. \A ch \in Channel : longer[n + 1][ch] =
              IF ch \in subscribedChannels'[c] THEN subscriptionToSubId'[c][ch] ELSE None
    BY <1>5, <1>6
  <2>2. QED
    BY <2>1 DEF Believes
<1>11. Applied(c)' = Applied(c) /\ Applied(c) \in 0..n
  <2>1. processed[c] \in 0..n
    BY <1>0, <1>1, <1>3 DEF LinksTypeOK
  <2>2. processed'[c] = processed[c] /\ thread'[c] = thread[c]
    OBVIOUS
  <2>3. QED
    BY <1>0, <2>1, <2>2 DEF Applied, ServerHand
<1>12. Has(c, longer[Applied(c)])'
  <2>1. longer[Applied(c)] = held[Applied(c)]
    BY <1>5, <1>11
  <2>2. QED
    BY <1>7, <1>11, <2>1 DEF Has
<1>13. QED
  BY <1>1, <1>4, <1>8, <1>9, <1>10, <1>12 DEF SubscriptionsFit

LEMMA FitsSame ==
    ASSUME NEW c \in Client, SubscriptionsFit(c),
           toServer'[c] = toServer[c], processed'[c] = processed[c],
           thread'[c] = "disconnect" <=> thread[c] = "disconnect",
           subscribedChannels'[c] = subscribedChannels[c],
           subscriptionToSubId'[c] = subscriptionToSubId[c],
           subscriptionId'[c] = subscriptionId[c],
           \A ch \in Channel : channelToSubscribedClients'[ch][c] = channelToSubscribedClients[ch][c],
           subscriptionToTopic'[c] = subscriptionToTopic[c], knownChannels \subseteq knownChannels'
    PROVE  SubscriptionsFit(c)'
<1>1. PICK held : held = Subscriptions(toServer[c])
  OBVIOUS
<1>2. Applied(c)' = Applied(c)
  BY DEF Applied
<1>3. Believes(c, held[Len(toServer[c])])'
  BY <1>1 DEF SubscriptionsFit, Believes
<1>4. Has(c, held[Applied(c)])'
  BY <1>1, <1>2 DEF SubscriptionsFit, Has
<1>5. QED
  BY <1>1, <1>2, <1>3, <1>4 DEF SubscriptionsFit

LEMMA LoginFitsIn ==
    ASSUME Shape, ClientTypeOK', NEW c \in Client, NEW ok \in BOOLEAN, Login(c, ok),
           UNCHANGED server, c \notin cut, SubscriptionsFit(c)
    PROVE  SubscriptionsFit(c)'
<1>1. PICK f \in Request : f = ConnectFrame(command[c].user) /\ SendTo(c, f, ok)
  BY CommandsSend DEF Sends
<1>2. toServer'[c] = Append(toServer[c], f) /\ processed' = processed
  BY <1>1, SendToLinks DEF Shape, TypeOK
<1>3. f.type = "CONNECT"
  BY <1>1 DEF ConnectFrame
<1>4. Sound(Last(c), f) /\ Changed(Last(c), f) = Last(c)
  BY <1>3 DEF Sound, Changed
<1>5. /\ subscribedChannels' = subscribedChannels /\ subscriptionToSubId' = subscriptionToSubId
      /\ subscriptionId' = subscriptionId
  BY DEF Login
<1>6. /\ Proper(Last(c), subscriptionId[c]) /\ Believes(c, Last(c))
      /\ subscriptionId[c] \in Nat
  BY DEF SubscriptionsFit, Last, Shape, TypeOK, LinksTypeOK, ClientTypeOK
<1>7. QED
  BY <1>2, <1>4, <1>5, <1>6, FitsSent DEF Believes

LEMMA ReportFitsIn ==
    ASSUME Shape, ClientTypeOK', NEW c \in Client, NEW ok \in BOOLEAN, ReportOne(c, ok),
           UNCHANGED server, c \notin cut, SubscriptionsFit(c)
    PROVE  SubscriptionsFit(c)'
<1>1. PICK f \in Request : SendTo(c, f, ok) /\ \E report : f = SendFrame(command[c].channel, report)
  BY CommandsSend DEF Sends
<1>2. toServer'[c] = Append(toServer[c], f) /\ processed' = processed
  BY <1>1, SendToLinks DEF Shape, TypeOK
<1>3. f.type = "SEND" /\ f.destination = command[c].channel
  BY <1>1 DEF SendFrame
<1>4. /\ Proper(Last(c), subscriptionId[c]) /\ Believes(c, Last(c))
      /\ subscriptionId[c] \in Nat
  BY DEF SubscriptionsFit, Last, Shape, TypeOK, LinksTypeOK, ClientTypeOK
<1>5. Last(c)[command[c].channel] # None
  <2>1. command[c].channel \in Channel /\ Joined(c) /\ ClientHand(c)
    BY CommandsSend DEF ReportOne, Shape, ClientHand
  <2>2. QED
    BY <1>4, <2>1 DEF Believes, Joined, ClientHand
<1>6. Sound(Last(c), f) /\ Changed(Last(c), f) = Last(c)
  BY <1>3, <1>5 DEF Sound, Changed
<1>7. /\ subscribedChannels' = subscribedChannels /\ subscriptionToSubId' = subscriptionToSubId
      /\ subscriptionId' = subscriptionId
  BY DEF ReportOne
<1>8. QED
  BY <1>2, <1>4, <1>6, <1>7, FitsSent DEF Believes

LEMMA JoinFitsIn ==
    ASSUME Shape, ClientTypeOK', NEW c \in Client, NEW ok \in BOOLEAN, Join(c, ok),
           UNCHANGED server, c \notin cut, SubscriptionsFit(c)
    PROVE  SubscriptionsFit(c)'
<1>1. PICK ch \in Channel, f \in Request :
          /\ ch = command[c].channel
          /\ f = SubscribeFrame(ch, subscriptionId[c], receiptCount[c]) /\ SendTo(c, f, ok)
  BY CommandsSend DEF Sends
<1>2. toServer'[c] = Append(toServer[c], f) /\ processed' = processed /\ ok
  BY <1>1, SendToLinks DEF Shape, TypeOK
<1>3. f.type = "SUBSCRIBE" /\ f.destination = ch /\ f.id = subscriptionId[c]
  BY <1>1 DEF SubscribeFrame
<1>4. /\ Proper(Last(c), subscriptionId[c]) /\ Believes(c, Last(c))
      /\ subscriptionId[c] \in Nat /\ Last(c) \in Holding
  BY SMTT(30), LastType DEF SubscriptionsFit, Last, Shape, TypeOK, LinksTypeOK, ClientTypeOK
<1>5. ch \notin subscribedChannels[c]
  BY <1>1 DEF Join, Joined
<1>6. PICK s \in Nat, held \in Holding : s = subscriptionId[c] /\ held = Last(c)
  BY <1>4
<1>7. \A x \in Channel : held[x] # None => held[x] \in Nat /\ held[x] < s
  BY <1>4, <1>6 DEF Proper, Holding
<1>8. Sound(held, f)
  BY <1>3, <1>4, <1>5, <1>6, <1>7, FramesAssumption DEF Sound, Believes
<1>9. Changed(held, f) = [held EXCEPT ![ch] = s]
  BY <1>3, <1>6 DEF Changed
<1>10. Proper(Changed(held, f), s + 1)
  <2>1. ASSUME NEW x \in Channel, NEW y \in Channel \ {x}, Changed(held, f)[x] # None
        PROVE  Changed(held, f)[x] < s + 1 /\ Changed(held, f)[y] # Changed(held, f)[x]
    <3>1. CASE x = ch
      BY <1>6, <1>7, <1>9, <2>1, <3>1, FramesAssumption DEF Holding
    <3>2. CASE y = ch
      BY <1>6, <1>7, <1>9, <2>1, <3>2, FramesAssumption DEF Holding
    <3>3. CASE x # ch /\ y # ch
      <4>1. held[x] # None /\ Changed(held, f)[x] = held[x] /\ Changed(held, f)[y] = held[y]
        BY <1>9, <2>1, <3>3 DEF Holding
      <4>2. held[y] # held[x]
        BY <1>4, <1>6, <4>1 DEF Proper
      <4>3. QED
        BY <1>7, <4>1, <4>2
    <3>4. QED
      BY <3>1, <3>2, <3>3
  <2>2. ASSUME NEW x \in Channel, Changed(held, f)[x] # None PROVE Changed(held, f)[x] < s + 1
    <3>1. CASE x = ch
      BY <1>9, <3>1 DEF Holding
    <3>2. CASE x # ch
      BY <1>7, <1>9, <2>2, <3>2 DEF Holding
    <3>3. QED
      BY <3>1, <3>2
  <2>3. QED
    BY <2>1, <2>2 DEF Proper
<1>11. /\ subscribedChannels'[c] = subscribedChannels[c] \cup {ch}
       /\ subscriptionToSubId'[c] = [subscriptionToSubId[c] EXCEPT ![ch] = s]
       /\ subscriptionId'[c] = s + 1
  BY <1>1, <1>2, <1>6 DEF Join, Shape, TypeOK, ClientTypeOK
<1>12. \A x \in Channel : Changed(held, f)[x] =
              IF x \in subscribedChannels'[c] THEN subscriptionToSubId'[c][x] ELSE None
  <2>1. subscriptionToSubId[c] \in [Channel -> Nat \cup {None}]
    BY DEF Shape, TypeOK, ClientTypeOK
  <2>2. \A x \in Channel : held[x] =
              IF x \in subscribedChannels[c] THEN subscriptionToSubId[c][x] ELSE None
    BY <1>4, <1>6 DEF Believes
  <2>3. QED
    BY <1>9, <1>11, <2>1, <2>2 DEF Holding
<1>13. /\ Sound(Last(c), f) /\ Proper(Changed(Last(c), f), subscriptionId'[c])
       /\ subscriptionId[c] <= subscriptionId'[c]
  <2>1. s <= s + 1
    OBVIOUS
  <2>2. QED
    BY <1>6, <1>8, <1>10, <1>11, <2>1
<1>14. QED
  BY <1>2, <1>6, <1>12, <1>13, FitsSent

LEMMA ExitFitsIn ==
    ASSUME Shape, ClientTypeOK', NEW c \in Client, NEW ok \in BOOLEAN, Exit(c, ok),
           UNCHANGED server, c \notin cut, SubscriptionsFit(c)
    PROVE  SubscriptionsFit(c)'
<1>1. PICK ch \in Channel, f \in Request :
          /\ ch = command[c].channel
          /\ f = UnsubscribeFrame(subscriptionToSubId[c][ch], receiptCount[c]) /\ SendTo(c, f, ok)
  BY CommandsSend DEF Sends
<1>2. toServer'[c] = Append(toServer[c], f) /\ processed' = processed /\ ok
  BY <1>1, SendToLinks DEF Shape, TypeOK
<1>3. f.type = "UNSUBSCRIBE" /\ f.id = subscriptionToSubId[c][ch]
  BY <1>1 DEF UnsubscribeFrame
<1>4. /\ Proper(Last(c), subscriptionId[c]) /\ Believes(c, Last(c))
      /\ subscriptionId[c] \in Nat /\ Last(c) \in Holding
  BY SMTT(30), LastType DEF SubscriptionsFit, Last, Shape, TypeOK, LinksTypeOK, ClientTypeOK
<1>5. ch \in subscribedChannels[c] /\ subscriptionToSubId[c][ch] # None
  BY <1>1 DEF Exit, Joined, Shape, ClientHand
<1>6. PICK held \in Holding : held = Last(c)
  BY <1>4
<1>7. held[ch] = f.id /\ held[ch] # None
  BY <1>3, <1>4, <1>5, <1>6 DEF Believes
<1>8. Sound(held, f)
  BY <1>3, <1>7 DEF Sound
<1>9. Changed(held, f) = [held EXCEPT ![ch] = None]
  <2>1. \A x \in Channel \ {ch} : held[x] # f.id
    BY <1>4, <1>6, <1>7 DEF Proper
  <2>2. Changed(held, f) = [x \in Channel |-> IF held[x] = f.id THEN None ELSE held[x]]
    BY <1>3 DEF Changed
  <2>3. QED
    BY <1>7, <2>1, <2>2 DEF Holding
<1>10. Proper(Changed(held, f), subscriptionId[c])
  <2>1. ASSUME NEW x \in Channel, Changed(held, f)[x] # None
        PROVE  /\ Changed(held, f)[x] < subscriptionId[c]
               /\ \A y \in Channel \ {x} : Changed(held, f)[y] # Changed(held, f)[x]
    <3>1. x # ch /\ Changed(held, f)[x] = held[x]
      BY <1>9, <2>1 DEF Holding
    <3>2. \A y \in Channel \ {x} : Changed(held, f)[y] \in {held[y], None}
      BY <1>9 DEF Holding
    <3>3. held[x] < subscriptionId[c] /\ \A y \in Channel \ {x} : held[y] # held[x]
      BY <1>4, <1>6, <2>1, <3>1 DEF Proper
    <3>4. QED
      BY <2>1, <3>1, <3>2, <3>3
  <2>2. QED
    BY <2>1 DEF Proper
<1>11. /\ subscribedChannels'[c] = subscribedChannels[c] \ {ch}
       /\ subscriptionToSubId'[c] = subscriptionToSubId[c]
       /\ subscriptionId'[c] = subscriptionId[c]
  BY <1>1, <1>2 DEF Exit, Shape, TypeOK, ClientTypeOK
<1>12. \A x \in Channel : Changed(held, f)[x] =
              IF x \in subscribedChannels'[c] THEN subscriptionToSubId'[c][x] ELSE None
  <2>1. \A x \in Channel : held[x] =
              IF x \in subscribedChannels[c] THEN subscriptionToSubId[c][x] ELSE None
    BY <1>4, <1>6 DEF Believes
  <2>2. QED
    BY <1>9, <1>11, <2>1 DEF Holding
<1>13. QED
  BY <1>2, <1>4, <1>6, <1>8, <1>10, <1>11, <1>12, FitsSent

LEMMA LogoutFitsIn ==
    ASSUME Shape, ClientTypeOK', NEW c \in Client, NEW ok \in BOOLEAN, Logout(c, ok),
           UNCHANGED server, c \notin cut, SubscriptionsFit(c)
    PROVE  SubscriptionsFit(c)'
<1>1. PICK f \in Request : f = DisconnectFrame(receiptCount[c]) /\ SendTo(c, f, ok)
  BY CommandsSend DEF Sends
<1>2. toServer'[c] = Append(toServer[c], f) /\ processed' = processed /\ ok
  BY <1>1, SendToLinks DEF Shape, TypeOK
<1>3. f.type = "DISCONNECT"
  BY <1>1 DEF DisconnectFrame
<1>4. Sound(Last(c), f) /\ Changed(Last(c), f) = NoSubscriptions
  BY <1>3 DEF Sound, Changed
<1>5. Proper(NoSubscriptions, subscriptionId[c])
  BY DEF Proper, NoSubscriptions
<1>6. subscribedChannels'[c] = {} /\ subscriptionId' = subscriptionId
  BY <1>2 DEF Logout, Shape, TypeOK, ClientTypeOK
<1>7. \A x \in Channel : NoSubscriptions[x] =
              IF x \in subscribedChannels'[c] THEN subscriptionToSubId'[c][x] ELSE None
  BY <1>6 DEF NoSubscriptions
<1>8. subscriptionId[c] \in Nat
  BY DEF Shape, TypeOK, ClientTypeOK
<1>9. QED
  BY <1>2, <1>4, <1>5, <1>6, <1>7, <1>8, FitsSent

LEMMA FitsClient ==
    ASSUME Shape, NEW c \in Client, ClientAct(c), UNCHANGED server, c \notin cut, SubscriptionsFit(c)
    PROVE  SubscriptionsFit(c)'
<1>0. ClientTypeOK'
  BY ClientShape
<1>1. CASE \E ok \in BOOLEAN :
              Login(c, ok) \/ Join(c, ok) \/ Exit(c, ok) \/ ReportOne(c, ok) \/ Logout(c, ok)
  BY <1>0, <1>1, LoginFitsIn, JoinFitsIn, ExitFitsIn, ReportFitsIn, LogoutFitsIn
<1>2. CASE \/ \E cmd \in Command : ReadCommand(c, cmd)
           \/ Ignore(c) \/ Wait(c) \/ LoginDone(c) \/ ReadFrame(c) \/ Notify(c) \/ Crash(c)
  <2>1. UNCHANGED <<toServer, processed, joined>>
    BY <1>2 DEF ReadCommand, Ignore, Wait, LoginDone, ReadFrame, Notify, Crash
  <2>2. QED
    BY <2>1, FitsSame
<1>3. QED
  BY <1>1, <1>2, ClientSteps

(* The server's steps: what the registry has moves along the stream.       *)
HasNext(c, held) ==
    /\ \A ch \in Channel : /\ channelToSubscribedClients'[ch][c] = held[ch]
                           /\ held[ch] # None => ch \in knownChannels'
    /\ subscriptionToTopic'[c] = {<<held[ch], ch>> : ch \in {x \in Channel : held[x] # None}}

LEMMA FitsMoved ==
    ASSUME Shape, NEW c \in Client, SubscriptionsFit(c), UNCHANGED <<toServer, client>>,
           HasNext(c, Subscriptions(toServer[c])[Applied(c)'])
    PROVE  SubscriptionsFit(c)'
<1>1. PICK held : held = Subscriptions(toServer[c])
  OBVIOUS
<1>2. Believes(c, held[Len(toServer[c])])'
  BY <1>1 DEF SubscriptionsFit, Believes
<1>3. Has(c, held[Applied(c)])'
  BY <1>1 DEF HasNext, Has
<1>4. QED
  BY <1>1, <1>2, <1>3 DEF SubscriptionsFit

(* A frame is taken up: the next of the stream.                            *)
LEMMA NextTaken ==
    ASSUME Shape, NEW c \in Client, SubscriptionsFit(c), NEW type, Take(c, type)
    PROVE  /\ NextFrame(c) \in Request /\ NextFrame(c).type = type
           /\ Applied(c) = processed[c] /\ Applied(c) \in Nat /\ processed'[c] = Applied(c) + 1
           /\ Subscriptions(toServer[c])[Applied(c)] \in Holding
           /\ Subscriptions(toServer[c])[Applied(c) + 1]
                = Changed(Subscriptions(toServer[c])[Applied(c)], NextFrame(c))
           /\ Sound(Subscriptions(toServer[c])[Applied(c)], NextFrame(c))
           /\ Proper(Subscriptions(toServer[c])[Applied(c)], subscriptionId[c])
<1>0. /\ LinksTypeOK /\ Len(toServer[c]) \in Nat
      /\ NextFrame(c) \in Request
  BY SMTT(30), FrameInHand DEF Shape, TypeOK, LinksTypeOK, Take
<1>1. PICK p \in Nat, n \in Nat : p = processed[c] /\ n = Len(toServer[c]) /\ p < n
  BY <1>0 DEF LinksTypeOK, Take
<1>2. Applied(c) = p
  BY <1>1 DEF Applied, Take
<1>3. PICK held : held = Subscriptions(toServer[c])
  OBVIOUS
<1>4. Follows(held, toServer[c], n)
  BY <1>0, <1>1, <1>3, HeldAre
<1>5. p \in 0..n /\ p + 1 \in 1..n /\ (p + 1) - 1 = p
  BY <1>1
<1>6. held[p] \in Holding /\ held[p + 1] = Changed(held[p], toServer[c][p + 1])
  BY <1>4, <1>5 DEF Follows
<1>7. Sound(held[p], toServer[c][p + 1]) /\ Proper(held[p], subscriptionId[c])
  BY <1>1, <1>3, <1>5 DEF SubscriptionsFit
<1>8. processed'[c] = p + 1 /\ NextFrame(c) = toServer[c][p + 1] /\ NextFrame(c).type = type
  BY <1>0, <1>1 DEF Take, NextFrame, LinksTypeOK
<1>9. QED
  BY <1>0, <1>1, <1>2, <1>3, <1>6, <1>7, <1>8

LEMMA SubscribeFitsIn ==
    ASSUME Shape, NEW c \in Client, Subscribe(c), UNCHANGED client, SubscriptionsFit(c)
    PROVE  SubscriptionsFit(c)'
<1>1. PICK f \in Request : f = NextFrame(c)
  BY FrameInHand DEF Subscribe, Take
<1>2. PICK p \in Nat, held \in Holding :
        p = Applied(c) /\ held = Subscriptions(toServer[c])[p]
  BY NextTaken DEF Subscribe
<1>3. /\ processed'[c] = p + 1 /\ f.type = "SUBSCRIBE"
      /\ Subscriptions(toServer[c])[p + 1] = Changed(held, f)
      /\ Sound(held, f)
  BY <1>1, <1>2, NextTaken DEF Subscribe
<1>4. /\ \A ch \in Channel : /\ channelToSubscribedClients[ch][c] = held[ch]
                             /\ held[ch] # None => ch \in knownChannels
      /\ subscriptionToTopic[c] = {<<held[ch], ch>> : ch \in {x \in Channel : held[x] # None}}
  <2>1. Has(c, held)
    BY <1>2 DEF SubscriptionsFit
  <2>2. QED
    BY <2>1 DEF Has
<1>5. PICK d \in Channel, s \in Nat : d = f.destination /\ s = f.id
  BY <1>3, RequestFields
<1>6. held[d] = None /\ \A ch \in Channel : held[ch] # s
  BY <1>3, <1>5 DEF Sound
<1>7. Changed(held, f) = [held EXCEPT ![d] = s]
  BY <1>3, <1>5 DEF Changed
<1>8. ServerTypeOK
  BY DEF Shape, TypeOK
<1>9. Applied(c)' = p + 1
  BY <1>3, <1>8 DEF Applied, Subscribe, Respond, Continue, ServerTypeOK
<1>10. ASSUME NEW ch \in Channel
       PROVE  /\ channelToSubscribedClients'[ch][c] = Changed(held, f)[ch]
              /\ Changed(held, f)[ch] # None => ch \in knownChannels'
  <2>1. /\ channelToSubscribedClients' = [channelToSubscribedClients EXCEPT ![d][c] = s]
        /\ knownChannels' = knownChannels \cup {d}
    BY <1>1, <1>5 DEF Subscribe
  <2>2. channelToSubscribedClients'[ch][c] = IF ch = d THEN s ELSE channelToSubscribedClients[ch][c]
    BY <1>8, <2>1 DEF ServerTypeOK
  <2>3. Changed(held, f)[ch] = IF ch = d THEN s ELSE held[ch]
    BY <1>7 DEF Holding
  <2>4. QED
    BY <1>4, <2>1, <2>2, <2>3
<1>11. subscriptionToTopic'[c] =
            {<<Changed(held, f)[ch], ch>> : ch \in {x \in Channel : Changed(held, f)[x] # None}}
  <2>1. subscriptionToTopic'[c] = {e \in subscriptionToTopic[c] : e[1] # s} \cup {<<s, d>>}
    BY <1>1, <1>5, <1>8 DEF Subscribe, ServerTypeOK
  <2>2. {e \in subscriptionToTopic[c] : e[1] # s} = subscriptionToTopic[c]
    BY <1>4, <1>6
  <2>3. \A ch \in Channel : Changed(held, f)[ch] = IF ch = d THEN s ELSE held[ch]
    BY <1>7 DEF Holding
  <2>4. s # None
    BY FramesAssumption
  <2>5. QED
    BY <1>4, <1>6, <2>1, <2>2, <2>3, <2>4
<1>12. HasNext(c, Subscriptions(toServer[c])[Applied(c)'])
  BY <1>3, <1>9, <1>10, <1>11 DEF HasNext
<1>13. QED
  BY <1>12, FitsMoved DEF Subscribe

LEMMA UnsubscribeFitsIn ==
    ASSUME Shape, NEW c \in Client, Unsubscribe(c), UNCHANGED client, SubscriptionsFit(c)
    PROVE  SubscriptionsFit(c)'
<1>1. PICK f \in Request : f = NextFrame(c)
  BY FrameInHand DEF Unsubscribe, Take
<1>2. PICK p \in Nat, held \in Holding :
        p = Applied(c) /\ held = Subscriptions(toServer[c])[p]
  BY NextTaken DEF Unsubscribe
<1>3. /\ processed'[c] = p + 1 /\ f.type = "UNSUBSCRIBE"
      /\ Subscriptions(toServer[c])[p + 1] = Changed(held, f)
      /\ Sound(held, f) /\ Proper(held, subscriptionId[c])
  BY <1>1, <1>2, NextTaken DEF Unsubscribe
<1>4. /\ \A ch \in Channel : /\ channelToSubscribedClients[ch][c] = held[ch]
                             /\ held[ch] # None => ch \in knownChannels
      /\ subscriptionToTopic[c] = {<<held[ch], ch>> : ch \in {x \in Channel : held[x] # None}}
  <2>1. Has(c, held)
    BY <1>2 DEF SubscriptionsFit
  <2>2. QED
    BY <2>1 DEF Has
<1>5. PICK e \in Entries(c, f.id) :
              /\ subscriptionToTopic' = [subscriptionToTopic EXCEPT ![c] = @ \ {e}]
              /\ channelToSubscribedClients' =
                    [channelToSubscribedClients EXCEPT ![e[2]][c] = None]
  BY <1>1 DEF Unsubscribe
<1>6. PICK d \in Channel : held[d] # None /\ held[d] = f.id /\ e = <<held[d], d>>
  BY <1>4, <1>5 DEF Entries
<1>7. \A ch \in Channel \ {d} : held[ch] # f.id
  BY <1>3, <1>6 DEF Proper
<1>8. \A ch \in Channel : Changed(held, f)[ch] = IF ch = d THEN None ELSE held[ch]
  <2>1. Changed(held, f) = [ch \in Channel |-> IF held[ch] = f.id THEN None ELSE held[ch]]
    BY <1>3 DEF Changed
  <2>2. QED
    BY <1>6, <1>7, <2>1
<1>9. ServerTypeOK
  BY DEF Shape, TypeOK
<1>10. Applied(c)' = p + 1
  BY <1>3, <1>9 DEF Applied, Unsubscribe, Respond, Continue, ServerTypeOK
<1>11. ASSUME NEW ch \in Channel
       PROVE  /\ channelToSubscribedClients'[ch][c] = Changed(held, f)[ch]
              /\ Changed(held, f)[ch] # None => ch \in knownChannels'
  <2>1. /\ channelToSubscribedClients' = [channelToSubscribedClients EXCEPT ![d][c] = None]
        /\ knownChannels' = knownChannels
    BY <1>5, <1>6 DEF Unsubscribe
  <2>2. channelToSubscribedClients'[ch][c] = IF ch = d THEN None ELSE channelToSubscribedClients[ch][c]
    BY <1>9, <2>1 DEF ServerTypeOK
  <2>3. QED
    BY <1>4, <1>8, <2>1, <2>2
<1>12. subscriptionToTopic'[c] =
            {<<Changed(held, f)[ch], ch>> : ch \in {x \in Channel : Changed(held, f)[x] # None}}
  <2>1. subscriptionToTopic'[c] = subscriptionToTopic[c] \ {<<held[d], d>>}
    BY <1>5, <1>6, <1>9 DEF ServerTypeOK
  <2>2. QED
    BY <1>4, <1>8, <2>1
<1>13. HasNext(c, Subscriptions(toServer[c])[Applied(c)'])
  BY <1>3, <1>10, <1>11, <1>12 DEF HasNext
<1>14. QED
  BY <1>13, FitsMoved DEF Unsubscribe

LEMMA DisconnectFitsIn ==
    ASSUME Shape, NEW c \in Client, Disconnect(c), UNCHANGED client, SubscriptionsFit(c)
    PROVE  SubscriptionsFit(c)'
<1>1. LinksTypeOK /\ ServerTypeOK /\ ServerHand(c)
  BY DEF Shape, TypeOK
<1>2. PICK p \in Nat : p + 1 = processed[c] /\ p + 1 \in 1..Len(toServer[c]) /\ Applied(c) = p
  <2>1. processed[c] > 0 /\ processed[c] \in Nat /\ processed[c] <= Len(toServer[c])
        /\ Applied(c) = processed[c] - 1
    BY <1>1 DEF ServerHand, Disconnect, LinksTypeOK, Applied
  <2>2. Len(toServer[c]) \in Nat
    BY <1>1 DEF LinksTypeOK
  <2>3. processed[c] - 1 \in Nat /\ (processed[c] - 1) + 1 = processed[c]
        /\ processed[c] \in 1..Len(toServer[c])
    BY <2>1, <2>2
  <2>4. QED
    BY <2>1, <2>3
<1>3. Subscriptions(toServer[c])[p + 1] = NoSubscriptions
  <2>1. Frame(c).type = "DISCONNECT" /\ Frame(c) = toServer[c][p + 1]
    BY <1>1, <1>2 DEF ServerHand, Disconnect, Frame
  <2>2. (p + 1) - 1 = p
    OBVIOUS
  <2>3. Subscriptions(toServer[c])[p + 1]
          = Changed(Subscriptions(toServer[c])[p], toServer[c][p + 1])
    BY <1>1, <1>2, <2>2, HeldAre DEF Follows
  <2>4. QED
    BY <2>1, <2>3 DEF Changed
<1>4. PICK held : held = Subscriptions(toServer[c])[p]
  OBVIOUS
<1>5. /\ \A ch \in Channel : /\ channelToSubscribedClients[ch][c] = held[ch]
                             /\ held[ch] # None => ch \in knownChannels
      /\ subscriptionToTopic[c] = {<<held[ch], ch>> : ch \in {x \in Channel : held[x] # None}}
  <2>1. Has(c, held)
    BY <1>2, <1>4 DEF SubscriptionsFit
  <2>2. QED
    BY <2>1 DEF Has
<1>6. Applied(c)' = p + 1
  BY <1>1, <1>2 DEF Applied, Disconnect, Respond, Continue, ServerTypeOK
<1>7. \A ch \in Channel : channelToSubscribedClients'[ch][c] = None
  BY <1>1 DEF Disconnect, ServerTypeOK
<1>8. subscriptionToTopic'[c] = {}
  <2>1. subscriptionToTopic'[c] = {e \in subscriptionToTopic[c] :
            e[1] \notin {channelToSubscribedClients[ch][c] : ch \in knownChannels}}
    BY <1>1 DEF Disconnect, ServerTypeOK
  <2>2. ASSUME NEW e \in subscriptionToTopic[c]
        PROVE  e[1] \in {channelToSubscribedClients[ch][c] : ch \in knownChannels}
    <3>1. PICK ch \in Channel : held[ch] # None /\ e = <<held[ch], ch>>
      BY <1>5
    <3>2. e[1] = channelToSubscribedClients[ch][c] /\ ch \in knownChannels
      BY <1>5, <3>1
    <3>3. QED
      BY <3>2
  <2>3. QED
    BY <2>1, <2>2
<1>9. HasNext(c, NoSubscriptions)
  BY <1>7, <1>8 DEF HasNext, NoSubscriptions
<1>10. QED
  BY <1>3, <1>6, <1>9, FitsMoved DEF Disconnect

LEMMA FitsServer ==
    ASSUME Shape, NEW c \in Client, ServerStep(c), UNCHANGED client, c \notin cut',
           SubscriptionsFit(c)
    PROVE  SubscriptionsFit(c)'
<1>0. ServerTypeOK /\ toServer' = toServer
  BY ServerShape DEF Shape, TypeOK
<1>1. CASE Start(c) \/ SendAnswer(c) \/ Connect(c) \/ Broadcast(c)
  <2>1. thread'[c] # "disconnect" /\ thread[c] # "disconnect"
    BY <1>0, <1>1 DEF Start, SendAnswer, Connect, Broadcast, Continue, Respond, ServerTypeOK
  <2>2. UNCHANGED <<processed, knownChannels, channelToSubscribedClients, subscriptionToTopic>>
    BY <1>1 DEF Start, SendAnswer, Connect, Broadcast
  <2>3. QED
    BY <1>0, <2>1, <2>2, FitsSame
<1>2. ASSUME NEW type \in {"CONNECT", "SEND"}, Take(c, type), UNCHANGED registry,
             thread'[c] # "disconnect"
      PROVE  SubscriptionsFit(c)'
  <2>1. PICK p \in Nat, held \in Holding :
          /\ p = Applied(c) /\ held = Subscriptions(toServer[c])[p]
          /\ Subscriptions(toServer[c])[p + 1] = held
          /\ processed'[c] = p + 1
    <3>1. Changed(Subscriptions(toServer[c])[Applied(c)], NextFrame(c))
            = Subscriptions(toServer[c])[Applied(c)]
      BY <1>2, NextTaken DEF Changed
    <3>2. QED
      BY <1>2, <3>1, NextTaken
  <2>2. Has(c, held)
    BY <2>1 DEF SubscriptionsFit
  <2>3. HasNext(c, held)
    BY <1>2, <2>2 DEF Has, HasNext
  <2>4. Applied(c)' = p + 1
    BY <1>2, <2>1 DEF Applied
  <2>5. QED
    BY <1>0, <2>1, <2>3, <2>4, FitsMoved
<1>3. CASE LoginRefused(c)
  <2>1. thread'[c] # "disconnect"
    BY <1>0, <1>3 DEF LoginRefused, Respond, Continue, ServerTypeOK
  <2>2. QED
    BY <1>2, <1>3, <2>1 DEF LoginRefused
<1>4. CASE LoginAccepted(c)
  <2>1. thread'[c] # "disconnect"
    BY <1>0, <1>4 DEF LoginAccepted, Continue, ServerTypeOK
  <2>2. QED
    BY <1>2, <1>4, <2>1 DEF LoginAccepted
<1>5. CASE DrawId(c)
  <2>1. thread'[c] # "disconnect"
    BY <1>0, <1>5 DEF DrawId, Continue, ServerTypeOK
  <2>2. QED
    BY <1>2, <1>5, <2>1 DEF DrawId
<1>6. CASE LogoutUser(c)
  <2>1. PICK p \in Nat : p = Applied(c) /\ processed'[c] = p + 1
    BY <1>6, NextTaken DEF LogoutUser
  <2>2. thread'[c] = "disconnect"
    BY <1>0, <1>6 DEF LogoutUser, Continue, ServerTypeOK
  <2>3. Applied(c)' = p
    BY <2>1, <2>2 DEF Applied
  <2>4. Has(c, Subscriptions(toServer[c])[p])
    BY <2>1 DEF SubscriptionsFit
  <2>5. UNCHANGED registry
    BY <1>6 DEF LogoutUser
  <2>6. HasNext(c, Subscriptions(toServer[c])[p])
    BY <2>4, <2>5 DEF Has, HasNext
  <2>7. QED
    BY <1>0, <2>3, <2>6, FitsMoved
<1>7. CASE EndOfStream(c) \/ BroadcastThrows(c) \/ LogoutThrows(c)
  BY <1>7 DEF EndOfStream, BroadcastThrows, LogoutThrows, Throw
<1>8. QED
  BY <1>1, <1>3, <1>4, <1>5, <1>6, <1>7, SubscribeFitsIn, UnsubscribeFitsIn, DisconnectFitsIn
     DEF ServerStep

LEMMA FitsNext ==
    ASSUME Shape, [Next]_vars, NEW d \in Client, d \notin cut', SubscriptionsFit(d)
    PROVE  SubscriptionsFit(d)'
<1>0. d \notin cut
  BY CutGrows
<1>1. CASE UNCHANGED vars
  BY <1>1, FitsSame DEF vars
<1>2. ASSUME Undisturbed(d) PROVE SubscriptionsFit(d)'
  BY <1>2, FitsSame DEF Undisturbed
<1>3. QED
  BY <1>0, <1>1, <1>2, FitsClient, FitsServer, ClientShape, ServerShape DEF Next, ClientAct

LEMMA FitsInit == Init => \A c \in Client : SubscriptionsFit(c)
<1> SUFFICES ASSUME Init, NEW c \in Client PROVE SubscriptionsFit(c)
  OBVIOUS
<1>1. /\ toServer[c] = <<>> /\ processed[c] = 0 /\ thread[c] = "start"
      /\ subscribedChannels[c] = {} /\ subscriptionToTopic[c] = {}
      /\ \A ch \in Channel : channelToSubscribedClients[ch][c] = None
  BY DEF Init, LinksInit, ServerInit, ClientInit
<1>2. <<>> \in Seq(Request) /\ Len(<<>>) = 0
  OBVIOUS
<1>3. Subscriptions(<<>>)[0] = NoSubscriptions
  BY <1>2, SubscriptionsFollow DEF Follows
<1>4. PICK held : held = Subscriptions(<<>>)
  OBVIOUS
<1>5. Applied(c) = 0
  BY <1>1 DEF Applied
<1>6. Believes(c, NoSubscriptions) /\ Has(c, NoSubscriptions) /\ Proper(NoSubscriptions, subscriptionId[c])
  BY <1>1 DEF Believes, Has, Proper, NoSubscriptions
<1>7. QED
  BY <1>1, <1>2, <1>3, <1>4, <1>5, <1>6 DEF SubscriptionsFit

ViewsInv == Shape /\ \A c \in Client : c \notin cut => SubscriptionsFit(c)

LEMMA ViewsInvNext == ViewsInv /\ [Next]_vars => ViewsInv'
  BY ShapeNext, FitsNext, CutGrows DEF ViewsInv

(* Once the server has caught up with a client, it has the subscriptions   *)
(* the client believes to have, under the ids it would unsubscribe with    *)
(* (utils.cpp:83-108, 225; ConnectionsImpl.java:59-101), however its       *)
(* commands, the answers and the reports of others ran into each other.    *)
THEOREM ViewsMeet == Spec => []ViewsAgree
<1>1. ViewsInv => ViewsAgree
  <2> SUFFICES ASSUME ViewsInv, NEW c \in Client, NEW ch \in Channel, Talking(c), Settled(c)
               PROVE  channelToSubscribedClients[ch][c] =
                          IF ch \in subscribedChannels[c] THEN subscriptionToSubId[c][ch] ELSE None
    BY DEF ViewsAgree
  <2>1. SubscriptionsFit(c)
    BY DEF ViewsInv, Talking
  <2>2. Applied(c) = Len(toServer[c])
    BY DEF Settled, Applied
  <2>3. Believes(c, Subscriptions(toServer[c])[Len(toServer[c])])
    BY <2>1 DEF SubscriptionsFit
  <2>4. Has(c, Subscriptions(toServer[c])[Len(toServer[c])])
    BY <2>1, <2>2 DEF SubscriptionsFit
  <2>5. QED
    BY <2>3, <2>4 DEF Believes, Has
<1>2. Init => ViewsInv
  BY ShapeInit, FitsInit DEF ViewsInv
<1>3. QED
  BY <1>1, <1>2, ViewsInvNext, PTL DEF Spec

-----------------------------------------------------------------------------
(* Logins of patient clients.                                              *)

(* A report that comes in, or a step of another connection, disturbs none. *)
LEMMA UnreadUndisturbed ==
    ASSUME LinksTypeOK, NEW d \in Client, Undisturbed(d), NEW k \in Unread(d)'
    PROVE  \/ k \in Unread(d) /\ toClient'[d][k] = toClient[d][k]
           \/ IsMessage(toClient'[d][k]) /\ toClient'[d][k] # ErrorFrame
<1>1. toClient[d] \in Seq(Answer) /\ received'[d] = received[d] /\ received[d] \in Nat
  BY DEF LinksTypeOK, Undisturbed
<1>2. CASE toClient'[d] = toClient[d]
  BY <1>1, <1>2 DEF Unread
<1>3. ASSUME NEW f \in Answer, IsMessage(f), toClient'[d] = Append(toClient[d], f)
      PROVE  \/ k \in Unread(d) /\ toClient'[d][k] = toClient[d][k]
             \/ IsMessage(toClient'[d][k]) /\ toClient'[d][k] # ErrorFrame
  <2>1. CASE k = Len(toClient[d]) + 1
    BY <1>1, <1>3, <2>1, AnswersMade
  <2>2. CASE k # Len(toClient[d]) + 1
    BY SMTT(30), <1>1, <1>3, <2>2 DEF Unread
  <2>3. QED
    BY <2>1, <2>2
<1>4. QED
  BY <1>2, <1>3 DEF Undisturbed

LEMMA LoginUndisturbed ==
    ASSUME Shape, NEW d \in Client, Undisturbed(d), LoginFits(d)
    PROVE  LoginFits(d)'
<1>1. Awaited(d)' = Awaited(d)
  BY AwaitedUndisturbed DEF Shape, TypeOK
<1>2. \A k \in Unread(d)' : \/ k \in Unread(d) /\ toClient'[d][k] = toClient[d][k]
                            \/ IsMessage(toClient'[d][k]) /\ toClient'[d][k] # ErrorFrame
  BY UnreadUndisturbed DEF Shape, TypeOK
<1>3. CASE InLogin(d)
  <2>1. LoginUnderWay(d) /\ InLogin(d)'
    BY <1>3 DEF LoginFits, InLogin, Undisturbed
  <2>2. command'[d] = command[d] /\ clientIdToUsername'[d] = clientIdToUsername[d]
    BY DEF Undisturbed
  <2>3. ASSUME NEW k \in Unread(d)', ~IsMessage(toClient'[d][k])
        PROVE  Verdict(d, toClient[d][k])'
    <3>1. toClient'[d][k] = toClient[d][k] /\ Verdict(d, toClient[d][k])
      BY <1>2, <2>1, <2>3 DEF LoginUnderWay
    <3>2. QED
      BY <2>2, <3>1 DEF Verdict
  <2>4. thread'[d] = "answer" => Verdict(d, response[d])'
    BY <2>1, <2>2 DEF LoginUnderWay, Undisturbed, Verdict
  <2>5. LoginUnderWay(d)'
    BY <1>1, <2>1, <2>3, <2>4 DEF LoginUnderWay, Undisturbed
  <2>6. QED
    BY <2>1, <2>5 DEF LoginFits
<1>4. CASE ~InLogin(d)
  <2>1. NoLogin(d) /\ ~InLogin(d)'
    BY <1>4 DEF LoginFits, InLogin, Undisturbed
  <2>2. NoErrorAbout(d)'
    BY <1>2, <2>1 DEF NoLogin, NoErrorAbout, Undisturbed
  <2>3. InDispatch(d)'
    BY <1>1, <2>1 DEF NoLogin, InDispatch, Undisturbed
  <2>4. IF loggedIn'[d] THEN KnownIn(d)' ELSE KnownOut(d)'
    BY <2>1 DEF NoLogin, KnownIn, KnownOut, Undisturbed
  <2>5. QED
    BY <2>1, <2>2, <2>3, <2>4 DEF LoginFits, NoLogin
<1>5. QED
  BY <1>3, <1>4

(* Nothing is owed: the server has taken up the last frame, if it asks for *)
(* an answer, and the answers are in.                                      *)
LEMMA NothingOwed ==
    ASSUME Shape, NEW c \in Client, AnswersFit(c), Awaited(c) = 0
    PROVE  /\ thread[c] \notin {"connect", "answer", "disconnect"}
           /\ \A k \in processed[c] + 1..Len(toServer[c]) : toServer[c][k].type = "SEND"
           /\ \A k \in Unread(c) : IsMessage(toClient[c][k]) /\ toClient[c][k] # ErrorFrame
           /\ toServer[c] # <<>> /\ toServer[c][Len(toServer[c])].type # "SEND"
                => processed[c] = Len(toServer[c])
           /\ toServer[c] = <<>> => processed[c] = Len(toServer[c])
<1>1. /\ LinksTypeOK /\ toServer[c] \in Seq(Request) /\ processed[c] \in Nat
      /\ processed[c] <= Len(toServer[c])
  BY DEF Shape, TypeOK, LinksTypeOK
<1>2. /\ thread[c] \notin {"connect", "answer", "disconnect"}
      /\ \A k \in processed[c] + 1..Len(toServer[c]) : toServer[c][k].type = "SEND"
      /\ \A k \in Unread(c) : IsMessage(toClient[c][k])
  BY <1>1, AwaitedFrom DEF Busy, WantsAnswer, Unread
<1>3. ~IsMessage(ErrorFrame)
  BY AnswersMade
<1>4. Len(toServer[c]) \in processed[c] + 1..Len(toServer[c]) \/ processed[c] = Len(toServer[c])
  BY <1>1
<1>5. toServer[c] = <<>> => processed[c] = Len(toServer[c])
  BY <1>1
<1>6. QED
  BY <1>2, <1>3, <1>4, <1>5

LEMMA LoginStarts ==
    ASSUME Shape, NEW c \in Client, NEW ok \in BOOLEAN, Login(c, ok), UNCHANGED server,
           c \notin cut, AnswersFit(c), LoginFits(c)
    PROVE  LoginFits(c)'
<1>0. LinksTypeOK /\ ClientTypeOK
  BY DEF Shape, TypeOK
<1>1. PICK f \in Request : /\ f = ConnectFrame(command[c].user) /\ f.type = "CONNECT"
                           /\ SendTo(c, f, ok)
  BY CommandsSend DEF Sends, ConnectFrame
<1>2. /\ toServer'[c] = Append(toServer[c], f)
      /\ UNCHANGED <<processed, toClient, received>> /\ ok
  BY <1>0, <1>1, SendToLinks
<1>3. main[c] = "dispatch" /\ command[c].name = "login" /\ ~loggedIn[c]
  BY DEF Login
<1>4. NoLogin(c) /\ KnownOut(c) /\ Awaited(c) = 0 /\ ~notifying[c] /\ ~isError[c]
  BY <1>3 DEF LoginFits, InLogin, NoLogin, InDispatch
<1>5. processed[c] = Len(toServer[c]) /\ clientIdToUsername[c] = None
  BY <1>4, NothingOwed DEF KnownOut, Ordinary
<1>6. Awaited(c)' = 1
  BY <1>0, <1>1, <1>4, AwaitedSent DEF WantsAnswer
<1>7. /\ main'[c] = "sent" /\ command'[c] = command[c]
      /\ loggedIn'[c] = loggedIn[c] /\ isError'[c] = isError[c] /\ notifying'[c] = notifying[c]
  BY <1>0, <1>2 DEF Login, After, Goto, ClientTypeOK
<1>8. PICK n \in Nat : n = Len(toServer[c])
  BY <1>0 DEF LinksTypeOK
<1>9. /\ toServer'[c] # <<>> /\ Len(toServer'[c]) = n + 1 /\ toServer'[c][n + 1] = f
      /\ processed'[c] = n
  BY <1>0, <1>2, <1>5, <1>8 DEF LinksTypeOK
<1>10. /\ thread'[c] \notin {"connect", "answer"}
       /\ \A k \in Unread(c)' : IsMessage(toClient'[c][k])
       /\ clientIdToUsername'[c] = None
  BY <1>2, <1>4, <1>5, NothingOwed DEF Unread
<1>11. LoginUnderWay(c)'
  <2>1. /\ ~loggedIn'[c] /\ toServer'[c] # <<>>
        /\ toServer'[c][Len(toServer'[c])] = ConnectFrame(command'[c].user)
        /\ processed'[c] = Len(toServer'[c]) - 1
    BY <1>1, <1>3, <1>7, <1>9
  <2>2. Awaited(c)' + (IF notifying'[c] THEN 1 ELSE 0) <= IF main'[c] = "woken" THEN 0 ELSE 1
    BY <1>4, <1>6, <1>7
  <2>3. Awaited(c)' > 0 /\ ~isError'[c]
    BY <1>4, <1>6, <1>7
  <2>4. QED
    BY <1>10, <2>1, <2>2, <2>3 DEF LoginUnderWay
<1>12. QED
  BY <1>7, <1>11 DEF LoginFits, InLogin

LEMMA LoginEnds ==
    ASSUME Shape, NEW c \in Client, LoginDone(c), UNCHANGED server, AnswersFit(c), LoginFits(c)
    PROVE  LoginFits(c)'
<1>0. LinksTypeOK /\ ClientTypeOK /\ Awaited(c) \in Nat
  BY AwaitedFrom DEF Shape, TypeOK
<1>1. main[c] = "woken" /\ LoginUnderWay(c)
  BY DEF LoginDone, LoginFits, InLogin
<1>2. Awaited(c) = 0
  BY <1>0, <1>1 DEF LoginUnderWay
<1>3. toServer[c][Len(toServer[c])].type = "CONNECT"
  BY <1>1 DEF LoginUnderWay, ConnectFrame
<1>4. processed[c] = Len(toServer[c]) /\ toServer[c] # <<>>
  BY <1>1, <1>2, <1>3, NothingOwed DEF LoginUnderWay
<1>5. clientIdToUsername[c] = IF isError[c] THEN None ELSE command[c].user
  BY <1>2, <1>1 DEF LoginUnderWay
<1>6. command[c].user \in User
  BY <1>0, <1>1, CommandFields DEF Shape, ClientHand, InLogin
<1>7. main'[c] = "ready" /\ UNCHANGED links
  BY <1>0 DEF LoginDone, Done, ClientTypeOK
<1>8. NoErrorAbout(c)' /\ InDispatch(c)'
  BY <1>2, <1>7, NothingOwed DEF NoErrorAbout, InDispatch, Unread
<1>9. CASE isError[c]
  <2>1. ~loggedIn'[c]
    BY <1>1, <1>9 DEF LoginDone, LoginUnderWay
  <2>2. KnownOut(c)'
    BY <1>0, <1>3, <1>4, <1>5, <1>7, <1>9 DEF KnownOut, Ordinary, LinksTypeOK
  <2>3. QED
    BY <1>7, <1>8, <2>1, <2>2 DEF LoginFits, InLogin, NoLogin
<1>10. CASE ~isError[c]
  <2>1. loggedIn'[c] /\ currentUser'[c] = command[c].user
    BY <1>0, <1>10 DEF LoginDone, ClientTypeOK
  <2>2. \A k \in processed[c] + 1..Len(toServer[c]) : Ordinary(toServer[c][k])
    BY <1>2, NothingOwed DEF Ordinary
  <2>3. thread[c] # "disconnect" /\ clientIdToUsername'[c] = command[c].user
    BY <1>2, <1>5, <1>10, NothingOwed
  <2>4. KnownIn(c)'
    BY <1>6, <1>7, <2>1, <2>2, <2>3, FramesAssumption DEF KnownIn
  <2>5. QED
    BY <1>7, <1>8, <2>1, <2>4 DEF LoginFits, InLogin, NoLogin
<1>11. QED
  BY <1>9, <1>10

LEMMA LoginReads ==
    ASSUME Shape, NEW c \in Client, ReadFrame(c), UNCHANGED server, AnswersFit(c), LoginFits(c)
    PROVE  LoginFits(c)'
<1>0. /\ LinksTypeOK /\ ClientTypeOK /\ Awaited(c) \in Nat
      /\ received[c] \in Nat /\ toClient[c] \in Seq(Answer)
  BY AwaitedFrom DEF Shape, TypeOK, LinksTypeOK
<1>1. /\ UNCHANGED <<toServer, processed, toClient, cut, main, command, loggedIn, currentUser>>
      /\ ~notifying[c] /\ received'[c] = received[c] + 1
  BY <1>0 DEF ReadFrame, LinksTypeOK
<1>2. PICK f \in Answer : f = toClient[c][received[c] + 1]
  BY <1>0 DEF ReadFrame
<1>3. received[c] + 1 \in Unread(c) /\ \A k \in Unread(c)' : k \in Unread(c)
  BY <1>0, <1>1 DEF Unread, ReadFrame
<1>4. /\ isError'[c] <=> isError[c] \/ f.type = "ERROR"
      /\ notifying'[c] <=> ~IsMessage(f)
  BY <1>0, <1>2 DEF ReadFrame, ClientTypeOK
<1>5. /\ IsMessage(f) => Awaited(c)' = Awaited(c)
      /\ ~IsMessage(f) => Awaited(c)' = Awaited(c) - 1
  BY <1>0, <1>2, AwaitedRead
<1>6. ~IsMessage(f) => Awaited(c) > 0
  BY <1>0, <1>2, <1>3, NothingOwed
<1>7. f.type = "ERROR" => f = ErrorFrame
  BY <1>2, AnswerFields
<1>8. IsMessage(f) => f.type # "ERROR"
  BY DEF IsMessage
<1>9. CASE InLogin(c)
  <2>1. LoginUnderWay(c) /\ InLogin(c)'
    BY <1>1, <1>9 DEF LoginFits, InLogin
  <2>2. \A k \in Unread(c)' : ~IsMessage(toClient'[c][k]) => Verdict(c, toClient[c][k])'
    BY <1>1, <1>3, <2>1 DEF LoginUnderWay, Verdict
  <2>3. thread'[c] = "answer" => Verdict(c, response[c])'
    BY <1>1, <2>1 DEF LoginUnderWay, Verdict
  <2>4. /\ Awaited(c)' + (IF notifying'[c] THEN 1 ELSE 0) <= IF main'[c] = "woken" THEN 0 ELSE 1
        /\ IF Awaited(c)' > 0 THEN ~isError'[c]
           ELSE clientIdToUsername'[c] = IF isError'[c] THEN None ELSE command'[c].user
    <3>1. CASE IsMessage(f)
      <4>1. Awaited(c)' = Awaited(c) /\ ~notifying'[c] /\ (isError'[c] <=> isError[c])
        BY <1>0, <1>4, <1>5, <1>8, <3>1
      <4>2. /\ Awaited(c) + 0 <= IF main[c] = "woken" THEN 0 ELSE 1
            /\ IF Awaited(c) > 0 THEN ~isError[c]
               ELSE clientIdToUsername[c] = IF isError[c] THEN None ELSE command[c].user
        BY <1>1, <2>1 DEF LoginUnderWay
      <4>3. QED
        BY <1>1, <4>1, <4>2
    <3>2. CASE ~IsMessage(f)
      <4>1. Awaited(c) = 1 /\ main[c] # "woken" /\ ~isError[c] /\ Verdict(c, f)
        BY <1>0, <1>1, <1>2, <1>3, <1>6, <2>1, <3>2 DEF LoginUnderWay
      <4>2. Awaited(c)' = 0 /\ notifying'[c] /\ (isError'[c] <=> f.type = "ERROR")
        BY <1>4, <1>5, <3>2, <4>1
      <4>3. clientIdToUsername[c] = IF isError'[c] THEN None ELSE command[c].user
        <5>1. CASE f = ErrorFrame
          <6>1. isError'[c] /\ f # ConnectedFrame
            BY <4>2, <5>1, AnswersMade, AnswerFields
          <6>2. QED
            BY <4>1, <6>1 DEF Verdict
        <5>2. CASE f # ErrorFrame
          BY <1>7, <4>1, <4>2, <5>2 DEF Verdict
        <5>3. QED
          BY <5>1, <5>2
      <4>4. QED
        BY <1>1, <4>1, <4>2, <4>3
    <3>3. QED
      BY <3>1, <3>2
  <2>5. LoginUnderWay(c)'
    BY <1>1, <2>1, <2>2, <2>3, <2>4 DEF LoginUnderWay
  <2>6. QED
    BY <2>1, <2>5 DEF LoginFits
<1>10. CASE ~InLogin(c)
  <2>1. NoLogin(c) /\ ~InLogin(c)'
    BY <1>1, <1>10 DEF LoginFits, InLogin
  <2>2. NoErrorAbout(c)'
    BY <1>1, <1>3, <2>1 DEF NoLogin, NoErrorAbout
  <2>3. InDispatch(c)'
    <3>1. f.type # "ERROR"
      BY <1>2, <1>3, <1>7, <2>1 DEF NoLogin, NoErrorAbout
    <3>2. isError'[c] <=> isError[c]
      BY <1>4, <3>1
    <3>3. ASSUME Awaited(c) = 0 PROVE Awaited(c)' = 0 /\ ~notifying'[c]
      <4>1. IsMessage(f)
        BY <1>6, <3>3
      <4>2. Awaited(c)' = 0
        BY <1>5, <3>3, <4>1
      <4>3. QED
        BY <1>4, <4>1, <4>2
    <3>4. QED
      BY <1>1, <2>1, <3>2, <3>3 DEF NoLogin, InDispatch
  <2>4. IF loggedIn'[c] THEN KnownIn(c)' ELSE KnownOut(c)'
    BY <1>1, <2>1 DEF NoLogin, KnownIn, KnownOut
  <2>5. QED
    BY <2>1, <2>2, <2>3, <2>4 DEF LoginFits, NoLogin
<1>11. QED
  BY <1>9, <1>10

(* The frames of a session, and the one that ends it.                      *)
LEMMA LoginGoesOn ==
    ASSUME Shape, NEW c \in Client, NEW ok \in BOOLEAN,
           Join(c, ok) \/ Exit(c, ok) \/ ReportOne(c, ok), UNCHANGED server,
           c \notin cut, AnswersFit(c), LoginFits(c)
    PROVE  LoginFits(c)'
<1>0. LinksTypeOK /\ ClientTypeOK /\ toServer[c] \in Seq(Request)
      /\ processed[c] \in Nat /\ processed[c] <= Len(toServer[c])
  BY DEF Shape, TypeOK, LinksTypeOK
<1>1. PICK f \in Request : Ordinary(f) /\ SendTo(c, f, ok)
  <2>1. CASE Join(c, ok)
    BY <2>1, CommandsSend DEF Sends, Ordinary, SubscribeFrame
  <2>2. CASE Exit(c, ok)
    BY <2>2, CommandsSend DEF Sends, Ordinary, UnsubscribeFrame
  <2>3. CASE ReportOne(c, ok)
    BY <2>3, CommandsSend DEF Sends, Ordinary, SendFrame
  <2>4. QED
    BY <2>1, <2>2, <2>3
<1>2. /\ toServer'[c] = Append(toServer[c], f)
      /\ UNCHANGED <<processed, toClient, received>>
  BY <1>0, <1>1, SendToLinks
<1>3. /\ main[c] \in {"dispatch", "reporting"}
      /\ main[c] = "dispatch" => loggedIn[c] \/ isError[c]
      /\ main'[c] \in {"ready", "reporting"} /\ UNCHANGED <<loggedIn, currentUser>>
  BY <1>0 DEF Join, Exit, ReportOne, Admitted, Done, ClientTypeOK
<1>4. NoLogin(c) /\ loggedIn[c] /\ KnownIn(c)
  BY <1>3 DEF LoginFits, InLogin, NoLogin, InDispatch
<1>5. KnownIn(c)'
  <2>1. ASSUME NEW k \in processed'[c] + 1..Len(toServer'[c]) PROVE Ordinary(toServer'[c][k])
    <3>1. CASE k = Len(toServer[c]) + 1
      BY <1>0, <1>1, <1>2, <3>1
    <3>2. CASE k # Len(toServer[c]) + 1
      <4>1. k \in processed[c] + 1..Len(toServer[c]) /\ toServer'[c][k] = toServer[c][k]
        BY SMTT(30), <1>0, <1>2, <3>2
      <4>2. QED
        BY <1>4, <4>1 DEF KnownIn
    <3>3. QED
      BY <3>1, <3>2
  <2>2. QED
    BY <1>3, <1>4, <2>1 DEF KnownIn
<1>6. NoErrorAbout(c)' /\ InDispatch(c)'
  BY <1>2, <1>3, <1>4 DEF NoLogin, NoErrorAbout, InDispatch, Unread
<1>7. QED
  BY <1>3, <1>4, <1>5, <1>6 DEF LoginFits, InLogin, NoLogin

LEMMA LogoutSent ==
    ASSUME Shape, NEW c \in Client, NEW ok \in BOOLEAN, Logout(c, ok), UNCHANGED server,
           c \notin cut, AnswersFit(c), LoginFits(c)
    PROVE  LoginFits(c)'
<1>0. LinksTypeOK /\ ClientTypeOK /\ toServer[c] \in Seq(Request)
      /\ processed[c] \in Nat /\ processed[c] <= Len(toServer[c])
  BY DEF Shape, TypeOK, LinksTypeOK
<1>1. PICK f \in Request : f.type = "DISCONNECT" /\ SendTo(c, f, ok)
  BY CommandsSend DEF Sends, DisconnectFrame
<1>2. /\ toServer'[c] = Append(toServer[c], f) /\ ok
      /\ UNCHANGED <<processed, toClient, received>>
  BY <1>0, <1>1, SendToLinks
<1>3. /\ main[c] = "dispatch"
      /\ loggedIn[c] \/ isError[c]
      /\ main'[c] = "ready" /\ ~loggedIn'[c]
  BY <1>0, <1>2 DEF Logout, Admitted, Done, ClientTypeOK
<1>4. NoLogin(c) /\ KnownIn(c)
  BY <1>3 DEF LoginFits, InLogin, NoLogin, InDispatch
<1>5. PICK n \in Nat : n = Len(toServer[c])
  BY <1>0
<1>6. /\ toServer'[c] # <<>> /\ Len(toServer'[c]) = n + 1 /\ toServer'[c][n + 1] = f
      /\ \A k \in 1..n : toServer'[c][k] = toServer[c][k]
  <2>1. /\ Len(Append(toServer[c], f)) = n + 1 /\ Append(toServer[c], f)[n + 1] = f
        /\ Len(<<>>) = 0 /\ n + 1 # 0
    BY <1>0, <1>5
  <2>2. \A k \in 1..n : Append(toServer[c], f)[k] = toServer[c][k]
    BY <1>0, <1>5
  <2>3. QED
    BY <1>2, <2>1, <2>2
<1>7. KnownOut(c)'
  <2>1. \A k \in processed'[c] + 1..Len(toServer'[c]) - 1 : Ordinary(toServer'[c][k])
    BY <1>0, <1>2, <1>4, <1>5, <1>6 DEF KnownIn
  <2>2. clientIdToUsername'[c] # None /\ thread'[c] # "disconnect"
    BY <1>4 DEF KnownIn
  <2>3. processed'[c] # Len(toServer'[c])
    BY <1>0, <1>2, <1>5, <1>6
  <2>4. QED
    BY <1>1, <1>6, <2>1, <2>2, <2>3 DEF KnownOut, Ordinary
<1>8. NoErrorAbout(c)' /\ InDispatch(c)'
  BY <1>2, <1>3, <1>4 DEF NoLogin, NoErrorAbout, InDispatch, Unread
<1>9. QED
  BY <1>3, <1>7, <1>8 DEF LoginFits, InLogin, NoLogin

LEMMA LoginClient ==
    ASSUME Shape, NEW c \in Client, ClientAct(c), UNCHANGED server,
           c \notin cut, patient'[c], AnswersFit(c), LoginFits(c)
    PROVE  LoginFits(c)'
<1>0. ClientTypeOK
  BY DEF Shape, TypeOK
<1>1. ASSUME NEW cmd \in Command, ReadCommand(c, cmd) PROVE LoginFits(c)'
  <2>1. /\ main[c] = "ready" /\ main'[c] = "dispatch" /\ command'[c] = cmd /\ ~isError'[c]
        /\ UNCHANGED <<links, notifying, loggedIn, currentUser>>
        /\ cmd.name = "login" => Awaited(c) = 0 /\ ~notifying[c]
    BY <1>0, <1>1 DEF ReadCommand, ClientTypeOK
  <2>2. NoLogin(c) /\ ~InLogin(c)'
    BY <2>1 DEF LoginFits, InLogin
  <2>3. Awaited(c)' = Awaited(c)
    BY <2>1 DEF Awaited
  <2>4. InDispatch(c)'
    BY <2>1, <2>3 DEF InDispatch
  <2>5. NoErrorAbout(c)' /\ IF loggedIn'[c] THEN KnownIn(c)' ELSE KnownOut(c)'
    BY <2>1, <2>2 DEF NoLogin, NoErrorAbout, Unread, KnownIn, KnownOut
  <2>6. QED
    BY <2>2, <2>4, <2>5 DEF LoginFits, NoLogin
<1>2. ASSUME UNCHANGED <<links, session>>, main'[c] = "ready" /\ ~InLogin(c) PROVE LoginFits(c)'
  <2>1. NoLogin(c) /\ ~InLogin(c)'
    BY <1>2 DEF LoginFits, InLogin
  <2>2. InDispatch(c)'
    BY <1>2 DEF InDispatch
  <2>3. NoErrorAbout(c)' /\ IF loggedIn'[c] THEN KnownIn(c)' ELSE KnownOut(c)'
    BY <1>2, <2>1 DEF NoLogin, NoErrorAbout, Unread, KnownIn, KnownOut
  <2>4. QED
    BY <2>1, <2>2, <2>3 DEF LoginFits, NoLogin
<1>3. CASE Ignore(c)
  BY <1>0, <1>2, <1>3 DEF Ignore, Admitted, Done, InLogin, ClientTypeOK
<1>4. ASSUME UNCHANGED <<toServer, processed, toClient, received, session, command>>,
             (InLogin(c) => (InLogin(c)' /\ (main'[c] = "woken" =>
                                main[c] = "woken" \/ (notifying[c] /\ ~notifying'[c])))),
             (~InLogin(c) => main'[c] = main[c]),
             notifying'[c] => notifying[c]
      PROVE  LoginFits(c)'
  <2>1. Awaited(c)' = Awaited(c)
    BY <1>4 DEF Awaited
  <2>2. CASE InLogin(c)
    <3>1. LoginUnderWay(c) /\ InLogin(c)'
      BY <1>4, <2>2 DEF LoginFits
    <3>2. Awaited(c)' + (IF notifying'[c] THEN 1 ELSE 0) <= IF main'[c] = "woken" THEN 0 ELSE 1
      <4>1. Awaited(c) \in Nat
        BY AwaitedFrom DEF Shape, TypeOK
      <4>2. Awaited(c) + (IF notifying[c] THEN 1 ELSE 0) <= IF main[c] = "woken" THEN 0 ELSE 1
        BY <3>1 DEF LoginUnderWay
      <4>3. QED
        BY <1>4, <2>1, <2>2, <4>1, <4>2
    <3>3. thread'[c] = "answer" => Verdict(c, response[c])'
      BY <1>4, <3>1 DEF LoginUnderWay, Verdict
    <3>4. \A k \in Unread(c)' : ~IsMessage(toClient'[c][k]) => Verdict(c, toClient[c][k])'
      BY <1>4, <3>1 DEF LoginUnderWay, Verdict, Unread
    <3>5. LoginUnderWay(c)'
      BY <1>4, <2>1, <3>1, <3>2, <3>3, <3>4 DEF LoginUnderWay
    <3>6. QED
      BY <3>1, <3>5 DEF LoginFits
  <2>3. CASE ~InLogin(c)
    <3>1. NoLogin(c) /\ ~InLogin(c)'
      BY <1>4, <2>3 DEF LoginFits, InLogin
    <3>2. InDispatch(c)'
      BY <1>4, <2>1, <2>3, <3>1 DEF NoLogin, InDispatch
    <3>3. NoErrorAbout(c)' /\ IF loggedIn'[c] THEN KnownIn(c)' ELSE KnownOut(c)'
      BY <1>4, <3>1 DEF NoLogin, NoErrorAbout, Unread, KnownIn, KnownOut
    <3>4. QED
      BY <3>1, <3>2, <3>3 DEF LoginFits, NoLogin
  <2>4. QED
    BY <2>2, <2>3
<1>5. CASE Wait(c)
  BY <1>0, <1>4, <1>5 DEF Wait, Goto, InLogin, ClientTypeOK
<1>6. CASE Notify(c)
  BY <1>0, <1>4, <1>6 DEF Notify, InLogin, ClientTypeOK
<1>7. CASE Crash(c)
  <2>1. /\ UNCHANGED <<toServer, processed, toClient, received, session, command>>
        /\ main'[c] = main[c] /\ notifying'[c] = notifying[c]
    BY <1>7 DEF Crash
  <2>2. InLogin(c)' <=> InLogin(c)
    BY <2>1 DEF InLogin
  <2>3. QED
    BY <1>4, <2>1, <2>2
<1>8. QED
  BY <1>1, <1>3, <1>5, <1>6, <1>7, LoginStarts, LoginEnds, LoginReads, LoginGoesOn, LogoutSent,
     ClientSteps

(* The server answers a login, ...                                         *)
VerdictNext(c, f) ==
    \/ f = ConnectedFrame /\ clientIdToUsername'[c] = command[c].user
    \/ f = ErrorFrame /\ clientIdToUsername'[c] = None

StillUnderWay(c, n) ==
    /\ processed'[c] \in {n - 1, n}
    /\ processed'[c] < n => clientIdToUsername'[c] = None
    /\ thread'[c] = "connect" => clientIdToUsername'[c] = command[c].user
    /\ thread'[c] = "answer" => VerdictNext(c, response'[c])
    /\ \A k \in Unread(c)' : ~IsMessage(toClient'[c][k]) => VerdictNext(c, toClient'[c][k])
    /\ Awaited(c) = 0 => clientIdToUsername'[c] = IF isError[c] THEN None ELSE command[c].user

LEMMA LoginAnswered ==
    ASSUME Shape, NEW c \in Client, ServerStep(c), UNCHANGED client, c \notin cut',
           AnswersFit(c), InLogin(c), LoginUnderWay(c)
    PROVE  LoginUnderWay(c)'
<1>0. /\ LinksTypeOK /\ ServerTypeOK /\ ServerHand(c)
      /\ toServer[c] \in Seq(Request) /\ toClient[c] \in Seq(Answer)
      /\ processed[c] \in Nat /\ received[c] \in Nat /\ Awaited(c) \in Nat
      /\ received[c] <= Len(toClient[c])
  BY AwaitedFrom DEF Shape, TypeOK, LinksTypeOK
<1>1. Awaited(c)' = Awaited(c) /\ toServer' = toServer /\ received' = received
  BY AwaitedServer, ServerShape
<1>2. PICK n \in Nat : n = Len(toServer[c])
  BY <1>0
<1>3. /\ toServer[c][n] = ConnectFrame(command[c].user) /\ n > 0
      /\ processed[c] \in {n - 1, n}
      /\ Awaited(c) <= 1 /\ (Awaited(c) > 0 => ~isError[c])
      /\ Awaited(c) = 0 => clientIdToUsername[c] = IF isError[c] THEN None ELSE command[c].user
  <2>1. Awaited(c) <= 1
    BY <1>0 DEF LoginUnderWay
  <2>2. n > 0
    BY <1>0, <1>2 DEF LoginUnderWay
  <2>3. QED
    BY <1>0, <1>2, <2>1, <2>2 DEF LoginUnderWay
<1>4. toServer[c][n].type = "CONNECT" /\ toServer[c][n].login = command[c].user
  BY <1>3 DEF ConnectFrame
<1>5. StillUnderWay(c, n) => LoginUnderWay(c)'
  <2>1. ASSUME StillUnderWay(c, n) PROVE LoginUnderWay(c)'
    <3>1. /\ ~loggedIn'[c] /\ toServer'[c] # <<>>
          /\ toServer'[c][Len(toServer'[c])] = ConnectFrame(command'[c].user)
          /\ Awaited(c)' + (IF notifying'[c] THEN 1 ELSE 0) <= IF main'[c] = "woken" THEN 0 ELSE 1
      BY <1>1 DEF LoginUnderWay
    <3>2. IF Awaited(c)' > 0 THEN ~isError'[c]
          ELSE clientIdToUsername'[c] = IF isError'[c] THEN None ELSE command'[c].user
      <4>1. CASE Awaited(c) > 0
        BY <1>1, <1>3, <4>1
      <4>2. CASE Awaited(c) = 0
        BY <1>1, <2>1, <4>2 DEF StillUnderWay
      <4>3. QED
        BY <1>0, <4>1, <4>2
    <3>3. /\ processed'[c] \in {Len(toServer'[c]) - 1, Len(toServer'[c])}
          /\ processed'[c] < Len(toServer'[c]) => clientIdToUsername'[c] = None
          /\ thread'[c] = "connect" => clientIdToUsername'[c] = command'[c].user
      BY <1>1, <1>2, <2>1 DEF StillUnderWay
    <3>4. /\ thread'[c] = "answer" => Verdict(c, response[c])'
          /\ \A k \in Unread(c)' : ~IsMessage(toClient'[c][k]) => Verdict(c, toClient[c][k])'
      BY <2>1 DEF StillUnderWay, Verdict, VerdictNext
    <3>5. QED
      BY <3>1, <3>2, <3>3, <3>4 DEF LoginUnderWay
  <2>2. QED
    BY <2>1
<1> SUFFICES StillUnderWay(c, n)
  BY <1>5
(* Nothing changes but where the thread is.                                *)
<1>6. ASSUME processed'[c] = processed[c], clientIdToUsername'[c] = clientIdToUsername[c],
             toClient'[c] = toClient[c], thread'[c] = "read"
      PROVE  StillUnderWay(c, n)
  <2>1. \A f : VerdictNext(c, f) <=> Verdict(c, f)
    BY <1>6 DEF VerdictNext, Verdict
  <2>2. \A k \in Unread(c)' : ~IsMessage(toClient'[c][k]) => VerdictNext(c, toClient'[c][k])
    BY <1>1, <1>6, <2>1 DEF LoginUnderWay, Unread
  <2>3. processed'[c] < n => clientIdToUsername'[c] = None
    BY <1>2, <1>6 DEF LoginUnderWay
  <2>4. QED
    BY <1>3, <1>6, <2>2, <2>3 DEF StillUnderWay
(* A frame that is taken up is the CONNECT, and no answer is about.        *)
<1>7. ASSUME NEW type, Take(c, type)
      PROVE  /\ processed[c] = n - 1 /\ processed'[c] = n
             /\ NextFrame(c) = toServer[c][n] /\ type = "CONNECT"
             /\ Awaited(c) = 1 /\ clientIdToUsername[c] = None
             /\ \A k \in Unread(c) : IsMessage(toClient[c][k])
  <2>1. processed[c] < n /\ NextFrame(c).type = type /\ processed'[c] = processed[c] + 1
    BY <1>0, <1>2, <1>7 DEF Take, LinksTypeOK
  <2>2. processed[c] = n - 1 /\ (n - 1) + 1 = n
    BY <1>2, <1>3, <2>1
  <2>3. NextFrame(c) = toServer[c][n]
    BY <2>2 DEF NextFrame
  <2>4. n \in processed[c] + 1..Len(toServer[c]) /\ WantsAnswer(toServer[c][n])
    BY <1>2, <1>4, <2>2 DEF WantsAnswer
  <2>5. Awaited(c) # 0
    BY <1>0, <2>4, AwaitedFrom
  <2>6. Awaited(c) = 1
    BY <1>0, <1>3, <2>5
  <2>7. \A k \in Unread(c) : IsMessage(toClient[c][k])
    BY <1>0, <2>4, <2>6, AwaitedFrom DEF Unread
  <2>8. clientIdToUsername[c] = None
    BY <1>2, <2>1 DEF LoginUnderWay
  <2>9. QED
    BY <1>4, <2>1, <2>2, <2>3, <2>6, <2>7, <2>8
<1>8. CASE Start(c)
  <2>1. /\ processed' = processed /\ clientIdToUsername' = clientIdToUsername
        /\ toClient' = toClient /\ thread'[c] = "read"
    BY <1>0, <1>8 DEF Start, Continue, ServerTypeOK
  <2>2. QED
    BY <1>6, <2>1
<1>9. CASE SendAnswer(c)
  <2>1. /\ response[c] \in Answer /\ Verdict(c, response[c])
        /\ toClient' = [toClient EXCEPT ![c] = Append(toClient[c], response[c])]
        /\ thread'[c] = "read" /\ UNCHANGED <<processed, clientIdToUsername>>
    BY <1>0, <1>9 DEF SendAnswer, ServerHand, LoginUnderWay, Continue, ServerTypeOK
  <2>2. toClient'[c] = Append(toClient[c], response[c])
    BY <1>0, <2>1 DEF LinksTypeOK
  <2>3. ASSUME NEW k \in Unread(c)', ~IsMessage(toClient'[c][k])
        PROVE  VerdictNext(c, toClient'[c][k])
    <3>1. CASE k = Len(toClient[c]) + 1
      <4>1. toClient'[c][k] = response[c]
        BY <1>0, <2>1, <2>2, <3>1
      <4>2. QED
        BY <2>1, <4>1 DEF Verdict, VerdictNext
    <3>2. CASE k # Len(toClient[c]) + 1
      <4>1. k \in Unread(c) /\ toClient'[c][k] = toClient[c][k]
        <5>1. k \in received[c] + 1..Len(toClient[c]) + 1 /\ Len(toClient[c]) \in Nat
          BY <1>0, <1>1, <2>1, <2>2 DEF Unread
        <5>2. k \in received[c] + 1..Len(toClient[c]) /\ k \in 1..Len(toClient[c])
          BY SMTT(30), <1>0, <3>2, <5>1
        <5>3. QED
          BY <1>0, <2>1, <2>2, <5>2 DEF Unread
      <4>2. Verdict(c, toClient[c][k])
        BY <2>3, <4>1 DEF LoginUnderWay
      <4>3. QED
        BY <2>1, <4>1, <4>2 DEF Verdict, VerdictNext
    <3>3. QED
      BY <3>1, <3>2
  <2>4. QED
    <3>1. processed'[c] < n => clientIdToUsername'[c] = None
      BY <1>2, <2>1 DEF LoginUnderWay
    <3>2. QED
      BY <1>3, <2>1, <2>3, <3>1 DEF StillUnderWay
<1>10. CASE LoginRefused(c)
  <2>1. Take(c, "CONNECT")
    BY <1>10 DEF LoginRefused
  <2>2. /\ thread'[c] = "answer" /\ response'[c] = ErrorFrame
        /\ UNCHANGED <<toClient, clientIdToUsername>>
    BY <1>0, <1>10 DEF LoginRefused, Respond, Continue, ServerTypeOK
  <2>3. \A k \in Unread(c)' : IsMessage(toClient'[c][k])
    BY <1>1, <1>7, <2>1, <2>2 DEF Unread
  <2>4. QED
    <3>1. processed'[c] = n /\ Awaited(c) = 1 /\ clientIdToUsername'[c] = None
      BY <1>7, <2>1, <2>2
    <3>2. ~(n < n)
      OBVIOUS
    <3>3. QED
      BY <2>2, <2>3, <3>1, <3>2 DEF StillUnderWay, VerdictNext
<1>11. CASE LoginAccepted(c)
  <2>1. Take(c, "CONNECT")
    BY <1>11 DEF LoginAccepted
  <2>2. /\ thread'[c] = "connect" /\ toClient' = toClient
        /\ clientIdToUsername'[c] = command[c].user
    BY <1>0, <1>4, <1>7, <1>11, <2>1 DEF LoginAccepted, Continue, ServerTypeOK
  <2>3. \A k \in Unread(c)' : IsMessage(toClient'[c][k])
    BY <1>1, <1>7, <2>1, <2>2 DEF Unread
  <2>4. QED
    <3>1. processed'[c] = n /\ Awaited(c) = 1
      BY <1>7, <2>1, <2>2
    <3>2. ~(n < n)
      OBVIOUS
    <3>3. QED
      BY <2>2, <2>3, <3>1, <3>2 DEF StillUnderWay
<1>12. CASE Connect(c)
  <2>1. /\ thread[c] = "connect" /\ thread'[c] = "answer" /\ response'[c] = ConnectedFrame
        /\ UNCHANGED <<links, clientIdToUsername>>
    BY <1>0, <1>12 DEF Connect, Respond, Continue, ServerTypeOK
  <2>2. clientIdToUsername[c] = command[c].user
    BY <2>1 DEF LoginUnderWay
  <2>3. \A k \in Unread(c)' : ~IsMessage(toClient'[c][k]) => VerdictNext(c, toClient'[c][k])
    BY <2>1 DEF LoginUnderWay, Unread, Verdict, VerdictNext
  <2>4. processed'[c] < n => clientIdToUsername'[c] = None
    BY <1>2, <2>1 DEF LoginUnderWay
  <2>5. QED
    BY <1>3, <2>1, <2>2, <2>3, <2>4 DEF StillUnderWay, VerdictNext
<1>13. CASE Subscribe(c) \/ Unsubscribe(c) \/ DrawId(c) \/ LogoutUser(c)
  BY <1>7, <1>13 DEF Subscribe, Unsubscribe, DrawId, LogoutUser
<1>14. CASE Broadcast(c)
  <2>1. toClient'[c] = toClient[c]
    BY <1>14, DeliverLinks DEF Broadcast
  <2>2. /\ processed' = processed /\ clientIdToUsername' = clientIdToUsername
        /\ thread'[c] = "read"
    BY <1>0, <1>14 DEF Broadcast, Continue, ServerTypeOK
  <2>3. QED
    BY <1>6, <2>1, <2>2
<1>15. CASE Disconnect(c)
  <2>1. thread[c] = "disconnect" /\ Frame(c).type = "DISCONNECT"
    BY <1>0, <1>15 DEF Disconnect, ServerHand
  <2>2. processed[c] # n
    BY <1>4, <2>1 DEF Frame
  <2>3. processed[c] = n - 1 /\ (n - 1) + 1 = n
    BY <1>3, <2>2
  <2>4. n \in processed[c] + 1..Len(toServer[c]) /\ WantsAnswer(toServer[c][n])
    BY <1>2, <1>4, <2>3 DEF WantsAnswer
  <2>5. Awaited(c) # 0
    BY <1>0, <2>4, AwaitedFrom
  <2>6. Awaited(c) = 1
    BY <1>0, <1>3, <2>5
  <2>7. thread[c] \notin Busy
    BY <1>0, <2>4, <2>6, AwaitedFrom
  <2>8. QED
    BY <2>1, <2>7 DEF Busy
<1>16. CASE EndOfStream(c) \/ BroadcastThrows(c) \/ LogoutThrows(c)
  BY <1>16 DEF EndOfStream, BroadcastThrows, LogoutThrows, Throw
<1>17. QED
  BY <1>8, <1>9, <1>10, <1>11, <1>12, <1>13, <1>14, <1>15, <1>16 DEF ServerStep

(* ... and takes up the frames of a client that is not about to log in.    *)
LEMMA TakenInOrder ==
    ASSUME Shape, NEW c \in Client, NoLogin(c), processed[c] < Len(toServer[c])
    PROVE  /\ NextFrame(c).type # "CONNECT"
           /\ NextFrame(c).type = "DISCONNECT" => /\ ~loggedIn[c]
                                                  /\ processed[c] + 1 = Len(toServer[c])
           /\ NextFrame(c).type # "DISCONNECT" /\ ~loggedIn[c]
                => processed[c] + 1 < Len(toServer[c])
           /\ clientIdToUsername[c] # None
<1>1. PICK n \in Nat, p \in Nat : n = Len(toServer[c]) /\ p = processed[c] /\ p < n
  BY DEF Shape, TypeOK, LinksTypeOK
<1>2. NextFrame(c) = toServer[c][p + 1] /\ p + 1 \in p + 1..n
  BY <1>1 DEF NextFrame
<1>3. CASE loggedIn[c]
  BY <1>1, <1>2, <1>3 DEF NoLogin, KnownIn, Ordinary
<1>4. CASE ~loggedIn[c]
  <2>1. /\ clientIdToUsername[c] # None
        /\ toServer[c][n].type = "DISCONNECT"
        /\ \A k \in p + 1..n - 1 : Ordinary(toServer[c][k])
    BY <1>1, <1>4 DEF NoLogin, KnownOut
  <2>2. CASE p + 1 = n
    BY <1>1, <1>2, <1>4, <2>1, <2>2
  <2>3. CASE p + 1 # n
    <3>1. p + 1 < n /\ p + 1 \in p + 1..n - 1
      BY <1>1, <2>3
    <3>2. QED
      BY <1>1, <1>2, <2>1, <3>1 DEF Ordinary
  <2>4. QED
    BY <2>2, <2>3
<1>5. QED
  BY <1>3, <1>4

LEMMA OthersServed ==
    ASSUME Shape, NEW c \in Client, ServerStep(c), UNCHANGED client, c \notin cut', NoLogin(c)
    PROVE  NoLogin(c)'
<1>0. /\ LinksTypeOK /\ ServerTypeOK /\ ServerHand(c)
      /\ toClient[c] \in Seq(Answer) /\ received[c] \in Nat
  BY DEF Shape, TypeOK, LinksTypeOK
<1>1. Awaited(c)' = Awaited(c) /\ toServer' = toServer /\ received' = received
  BY AwaitedServer, ServerShape
<1>2. PICK n \in Nat, p \in Nat : n = Len(toServer[c]) /\ p = processed[c] /\ p <= n
  BY <1>0 DEF LinksTypeOK
<1>3. InDispatch(c)'
  BY <1>1 DEF NoLogin, InDispatch
<1> DEFINE Known == IF loggedIn'[c] THEN KnownIn(c)' ELSE KnownOut(c)'
<1> SUFFICES NoErrorAbout(c)' /\ Known
  BY <1>3 DEF NoLogin
(* Nothing is taken up.                                                    *)
<1>4. ASSUME processed'[c] = processed[c], clientIdToUsername'[c] = clientIdToUsername[c],
             thread'[c] # "disconnect"
      PROVE  Known
  BY <1>1, <1>4 DEF NoLogin, KnownIn, KnownOut
(* A frame is taken up that changes nothing in the table.                  *)
<1>5. ASSUME NEW type, Take(c, type), type # "DISCONNECT", thread'[c] # "disconnect",
             clientIdToUsername'[c] = clientIdToUsername[c]
      PROVE  Known
  <2>1. p < n /\ processed'[c] = p + 1 /\ NextFrame(c).type = type
    BY <1>0, <1>2, <1>5 DEF Take, LinksTypeOK
  <2>2. \A k \in p + 2..n : k \in p + 1..n
    BY <1>2
  <2>3. CASE loggedIn[c]
    BY <1>1, <1>2, <1>5, <2>1, <2>3 DEF NoLogin, KnownIn
  <2>4. CASE ~loggedIn[c]
    <3>1. p + 1 < n
      BY <1>2, <1>5, <2>1, <2>4, TakenInOrder
    <3>2. /\ clientIdToUsername[c] # None /\ toServer[c] # <<>>
          /\ toServer[c][n].type = "DISCONNECT"
          /\ \A k \in p + 1..n - 1 : Ordinary(toServer[c][k])
      BY <1>2, <2>1, <2>4 DEF NoLogin, KnownOut
    <3>3. \A k \in (p + 1) + 1..n - 1 : k \in p + 1..n - 1
      BY <1>2
    <3>4. KnownOut(c)'
      BY <1>1, <1>2, <1>5, <2>1, <3>1, <3>2, <3>3 DEF KnownOut, Ordinary
    <3>5. QED
      BY <2>4, <3>4
  <2>5. QED
    BY <2>3, <2>4
<1>6. ASSUME toClient'[c] = toClient[c], thread'[c] # "connect",
             thread'[c] = "answer" => response'[c] # ErrorFrame
      PROVE  NoErrorAbout(c)'
  BY <1>1, <1>6 DEF NoLogin, NoErrorAbout, Unread
<1>7. \A k \in Nat : ReceiptFrame(k) # ErrorFrame
  BY DEF ReceiptFrame, ErrorFrame
<1>8. CASE Start(c)
  <2>1. thread'[c] = "read"
    BY <1>0, <1>8 DEF Start, Continue, ServerTypeOK
  <2>2. QED
    BY <1>4, <1>6, <1>8, <2>1 DEF Start
<1>9. CASE SendAnswer(c)
  <2>1. /\ response[c] \in Answer /\ response[c] # ErrorFrame
        /\ toClient'[c] = Append(toClient[c], response[c])
        /\ thread'[c] = "read" /\ UNCHANGED <<processed, clientIdToUsername>>
    BY <1>0, <1>9 DEF SendAnswer, ServerHand, NoLogin, NoErrorAbout, Continue, ServerTypeOK, LinksTypeOK
  <2>2. \A k \in Unread(c)' : toClient'[c][k] # ErrorFrame
    <3> SUFFICES ASSUME NEW k \in Unread(c)' PROVE toClient'[c][k] # ErrorFrame
      OBVIOUS
    <3>1. PICK m \in Nat, r \in Nat :
              m = Len(toClient[c]) /\ r = received[c] /\ k \in r + 1..m + 1
      BY <1>0, <1>1, <2>1 DEF Unread
    <3>2. CASE k = m + 1
      BY <1>0, <2>1, <3>1, <3>2
    <3>3. CASE k # m + 1
      <4>1. k \in received[c] + 1..Len(toClient[c]) /\ k \in 1..Len(toClient[c])
        BY SMTT(30), <3>1, <3>3
      <4>2. toClient'[c][k] = toClient[c][k] /\ k \in Unread(c)
        BY <1>0, <2>1, <4>1 DEF Unread
      <4>3. QED
        BY <4>2 DEF NoLogin, NoErrorAbout
    <3>4. QED
      BY <3>2, <3>3
  <2>3. NoErrorAbout(c)'
    BY <2>1, <2>2 DEF NoErrorAbout
  <2>4. QED
    BY <1>4, <2>1, <2>3
<1>10. CASE LoginRefused(c) \/ LoginAccepted(c)
  BY <1>2, <1>10, TakenInOrder DEF LoginRefused, LoginAccepted, Take
<1>11. CASE Connect(c)
  BY <1>11 DEF Connect, NoLogin, NoErrorAbout
<1>12. CASE Subscribe(c) \/ Unsubscribe(c)
  <2>1. PICK type \in {"SUBSCRIBE", "UNSUBSCRIBE"} : Take(c, type)
    BY <1>12 DEF Subscribe, Unsubscribe
  <2>2. NextFrame(c).receipt \in Nat
    BY <1>0, <1>2, <2>1, FrameInHand, RequestFields DEF Take
  <2>3. /\ thread'[c] = "answer" /\ response'[c] = ReceiptFrame(NextFrame(c).receipt)
        /\ UNCHANGED <<toClient, clientIdToUsername>>
    BY <1>0, <1>12 DEF Subscribe, Unsubscribe, Respond, Continue, ServerTypeOK
  <2>4. QED
    BY <1>5, <1>6, <1>7, <2>1, <2>2, <2>3
<1>13. CASE DrawId(c)
  <2>1. thread'[c] = "broadcast"
    BY <1>0, <1>13 DEF DrawId, Continue, ServerTypeOK
  <2>2. QED
    BY <1>5, <1>6, <1>13, <2>1 DEF DrawId
<1>14. CASE Broadcast(c)
  <2>1. toClient'[c] = toClient[c]
    BY <1>14, DeliverLinks DEF Broadcast
  <2>2. thread'[c] = "read"
    BY <1>0, <1>14 DEF Broadcast, Continue, ServerTypeOK
  <2>3. QED
    BY <1>4, <1>6, <1>14, <2>1, <2>2 DEF Broadcast
<1>15. CASE LogoutUser(c)
  <2>1. /\ Take(c, "DISCONNECT") /\ thread'[c] = "disconnect"
        /\ clientIdToUsername'[c] = None /\ toClient' = toClient
    BY <1>0, <1>15 DEF LogoutUser, Continue, ServerTypeOK
  <2>2. ~loggedIn[c] /\ processed'[c] = n
    BY <1>0, <1>2, <2>1, TakenInOrder DEF Take, LinksTypeOK
  <2>3. ~(n < n)
    BY <1>2
  <2>4. KnownOut(c)'
    BY <1>1, <1>2, <2>1, <2>2, <2>3 DEF KnownOut, NoLogin
  <2>5. QED
    BY <1>6, <2>1, <2>2, <2>4
<1>16. CASE Disconnect(c)
  <2>1. Frame(c).receipt \in Nat
    BY <1>16, FrameInHand DEF Disconnect
  <2>2. /\ thread'[c] = "answer" /\ response'[c] = ReceiptFrame(Frame(c).receipt)
        /\ UNCHANGED <<toClient, processed, clientIdToUsername>>
    BY <1>0, <1>16 DEF Disconnect, Respond, Continue, ServerTypeOK
  <2>3. QED
    BY <1>4, <1>6, <1>7, <2>1, <2>2
<1>17. CASE EndOfStream(c) \/ BroadcastThrows(c) \/ LogoutThrows(c)
  BY <1>17 DEF EndOfStream, BroadcastThrows, LogoutThrows, Throw
<1>18. QED
  BY <1>8, <1>9, <1>10, <1>11, <1>12, <1>13, <1>14, <1>15, <1>16, <1>17 DEF ServerStep

LEMMA LoginFitsNext ==
    ASSUME Shape, [Next]_vars, NEW d \in Client, d \notin cut', patient'[d],
           AnswersFit(d), LoginFits(d)
    PROVE  LoginFits(d)'
<1>0. d \notin cut
  BY CutGrows
<1>1. CASE UNCHANGED vars
  <2>1. Undisturbed(d)
    BY <1>1 DEF vars, Undisturbed
  <2>2. QED
    BY <2>1, LoginUndisturbed
<1>2. ASSUME Undisturbed(d) PROVE LoginFits(d)'
  BY <1>2, LoginUndisturbed
<1>3. ASSUME ServerStep(d), UNCHANGED client PROVE LoginFits(d)'
  <2>1. InLogin(d)' <=> InLogin(d)
    BY <1>3 DEF InLogin
  <2>2. QED
    BY <1>3, <2>1, LoginAnswered, OthersServed DEF LoginFits
<1>4. QED
  BY <1>0, <1>1, <1>2, <1>3, LoginClient, ClientShape, ServerShape DEF Next, ClientAct

LEMMA LoginFitsInit == Init => \A c \in Client : LoginFits(c)
<1> SUFFICES ASSUME Init, NEW c \in Client PROVE LoginFits(c)
  OBVIOUS
<1>1. /\ toServer[c] = <<>> /\ toClient[c] = <<>> /\ processed[c] = 0 /\ received[c] = 0
      /\ thread[c] = "start" /\ main[c] = "ready" /\ ~loggedIn[c] /\ clientIdToUsername[c] = None
  BY DEF Init, LinksInit, ServerInit, ClientInit
<1>2. Len(<<>>) = 0 /\ ~(0 < 0) /\ Unread(c) = {}
  BY <1>1 DEF Unread
<1>3. NoErrorAbout(c) /\ InDispatch(c) /\ KnownOut(c)
  BY <1>1, <1>2 DEF NoErrorAbout, InDispatch, KnownOut
<1>4. QED
  BY <1>1, <1>3 DEF LoginFits, InLogin, NoLogin

-----------------------------------------------------------------------------
(* Who can be sent to, and whom the server cuts off.                       *)

(* The frames of a patient client meet the table as they should.           *)
LEMMA NextOfPatient ==
    ASSUME Shape, NEW c \in Client, LoginFits(c), processed[c] < Len(toServer[c])
    PROVE  NextFrame(c).type = "CONNECT" <=> clientIdToUsername[c] = None
<1>1. PICK n \in Nat, p \in Nat : n = Len(toServer[c]) /\ p = processed[c] /\ p < n
  BY DEF Shape, TypeOK, LinksTypeOK
<1>2. CASE InLogin(c)
  <2>1. /\ toServer[c][n] = ConnectFrame(command[c].user) /\ p \in {n - 1, n}
        /\ clientIdToUsername[c] = None
    BY <1>1, <1>2 DEF LoginFits, LoginUnderWay
  <2>2. p + 1 = n
    BY <1>1, <2>1
  <2>3. QED
    BY <1>1, <2>1, <2>2 DEF NextFrame, ConnectFrame
<1>3. CASE ~InLogin(c)
  BY <1>1, <1>3, TakenInOrder DEF LoginFits
<1>4. QED
  BY <1>2, <1>3

(* An impatient client stays that.                                         *)
LEMMA PatientFalls ==
    ASSUME Shape, [Next]_vars, NEW d \in Client, patient'[d]
    PROVE  patient[d]
<1>1. ASSUME ClientAct(d) PROVE patient[d]
  <2>1. CASE \E cmd \in Command : ReadCommand(d, cmd)
    BY <2>1 DEF ReadCommand, Shape, TypeOK, ClientTypeOK
  <2>2. CASE ~\E cmd \in Command : ReadCommand(d, cmd)
    BY <1>1, <2>2, ClientSteps DEF Ignore, Wait, LoginDone, Login, Join, Exit, ReportOne, Logout,
                                   ReadFrame, Notify, Crash
  <2>3. QED
    BY <2>1, <2>2
<1>2. ASSUME Undisturbed(d) PROVE patient[d]
  BY <1>2 DEF Undisturbed
<1>3. CASE UNCHANGED vars
  BY <1>3 DEF vars
<1>4. QED
  BY <1>1, <1>2, <1>3, ClientShape, ServerShape DEF Next, ClientAct

LEMMA RegisteredNext ==
    ASSUME Shape, [Next]_vars, NEW d \in Client, Registered(d),
           d \notin cut /\ patient[d] => LoginFits(d)
    PROVE  Registered(d)'
<1>0. /\ ServerTypeOK /\ ServerHand(d)
      /\ processed[d] < Len(toServer[d]) => NextFrame(d) \in Request
  BY FrameInHand DEF Shape, TypeOK
<1>1. CASE UNCHANGED vars
  BY <1>1 DEF vars, Registered
<1>2. ASSUME Undisturbed(d) PROVE Registered(d)'
  BY <1>2 DEF Undisturbed, Registered
<1>3. ASSUME ClientAct(d), UNCHANGED server PROVE Registered(d)'
  <2>1. patient'[d] => patient[d]
    BY PatientFalls
  <2>2. QED
    BY <1>3, <2>1 DEF Registered
<1>4. ASSUME ServerStep(d), UNCHANGED client PROVE Registered(d)'
  (* Table and registry stay as they are, or lose entries of d.            *)
  <2>1. ASSUME thread[d] # "connect", thread'[d] # "disconnect",
               clientIdToUsername'[d] = clientIdToUsername[d],
               d \in connectionIdToClient => d \in connectionIdToClient',
               \A ch \in Channel : \/ channelToSubscribedClients'[ch][d] = channelToSubscribedClients[ch][d]
                                   \/ channelToSubscribedClients'[ch][d] = None
        PROVE  Registered(d)'
    BY <1>4, <2>1 DEF Registered
  <2> USE DEF Continue, Respond, Take, Throw
  <2>2. CASE Start(d)
    BY <1>0, <2>1, <2>2 DEF Start, ServerTypeOK
  <2>3. CASE SendAnswer(d) \/ LoginRefused(d) \/ DrawId(d) \/ Broadcast(d)
    BY <1>0, <2>1, <2>3 DEF SendAnswer, LoginRefused, DrawId, Broadcast, ServerTypeOK
  <2>4. CASE EndOfStream(d) \/ BroadcastThrows(d) \/ LogoutThrows(d)
    BY <1>0, <2>1, <2>4 DEF EndOfStream, BroadcastThrows, LogoutThrows, ServerTypeOK
  <2>5. CASE Unsubscribe(d)
    <3>1. PICK e \in Entries(d, NextFrame(d).id) :
            channelToSubscribedClients' = [channelToSubscribedClients EXCEPT ![e[2]][d] = None]
      BY <2>5 DEF Unsubscribe
    <3>2. e[2] \in Channel
      BY <1>0, <3>1 DEF Entries, ServerTypeOK
    <3>3. \A ch \in Channel : \/ channelToSubscribedClients'[ch][d] = channelToSubscribedClients[ch][d]
                              \/ channelToSubscribedClients'[ch][d] = None
      BY <1>0, <3>1, <3>2 DEF ServerTypeOK
    <3>4. /\ thread[d] = "read" /\ thread'[d] = "answer"
          /\ UNCHANGED <<table, connectionIdToClient>>
      BY <1>0, <2>5 DEF Unsubscribe, ServerTypeOK
    <3>5. QED
      BY <2>1, <3>3, <3>4
  <2>6. CASE Subscribe(d)
    <3>1. /\ thread[d] = "read" /\ thread'[d] = "answer" /\ d \notin cut
          /\ UNCHANGED <<table, connectionIdToClient>>
          /\ processed[d] < Len(toServer[d]) /\ NextFrame(d).type = "SUBSCRIBE"
      BY <1>0, <2>6 DEF Subscribe, ServerTypeOK, ServerHand
    <3>2. patient[d] => d \in connectionIdToClient
      BY <3>1, NextOfPatient DEF Registered
    <3>3. QED
      BY <1>4, <3>1, <3>2 DEF Registered
  <2>7. CASE LoginAccepted(d)
    <3>1. /\ thread[d] = "read" /\ thread'[d] = "connect" /\ UNCHANGED registry
      BY <1>0, <2>7 DEF LoginAccepted, ServerTypeOK
    <3>2. QED
      BY <1>4, <3>1 DEF Registered
  <2>8. CASE Connect(d)
    <3>1. d \in connectionIdToClient' /\ thread'[d] = "answer"
      BY <1>0, <2>8 DEF Connect, ServerTypeOK
    <3>2. QED
      BY <3>1 DEF Registered
  <2>9. CASE LogoutUser(d)
    <3>1. clientIdToUsername'[d] = None /\ UNCHANGED registry
      BY <1>0, <2>9 DEF LogoutUser, ServerTypeOK
    <3>2. QED
      BY <1>4, <3>1 DEF Registered
  <2>10. CASE Disconnect(d)
    <3>1. /\ thread[d] = "disconnect" /\ thread'[d] = "answer" /\ UNCHANGED table
          /\ \A ch \in Channel : channelToSubscribedClients'[ch][d] = None
      BY <1>0, <2>10 DEF Disconnect, ServerTypeOK
    <3>2. QED
      BY <3>1 DEF Registered
  <2>11. QED
    BY <1>4, <2>2, <2>3, <2>4, <2>5, <2>6, <2>7, <2>8, <2>9, <2>10 DEF ServerStep
<1>5. QED
  BY <1>1, <1>2, <1>3, <1>4, ClientShape, ServerShape DEF Next, ClientAct

(* The steps that end the thread of a connection.                          *)
LEMMA CutBy ==
    ASSUME Shape, NEW c \in Client, ServerStep(c), UNCHANGED client
    PROVE  \/ cut' = cut
           \/ cut' = cut \cup {c} /\ (EndOfStream(c) \/ BroadcastThrows(c) \/ LogoutThrows(c))
  BY DEF ServerStep, Start, EndOfStream, SendAnswer, LoginRefused, LoginAccepted, Connect,
         Subscribe, Unsubscribe, DrawId, Broadcast, BroadcastThrows, LogoutThrows, LogoutUser,
         Disconnect, Throw

LEMMA NobodyCutOffNext ==
    ASSUME Shape, [Next]_vars, NobodyCutOff,
           \A c \in Client : Registered(c) /\ (c \notin cut /\ patient[c] => LoginFits(c))
    PROVE  NobodyCutOff'
<1> SUFFICES ASSUME \A c \in Client : patient'[c] PROVE cut' \cap alive' = {}
  BY DEF NobodyCutOff
<1>0. ServerTypeOK /\ ClientTypeOK /\ \A c \in Client : ServerHand(c)
  BY DEF Shape, TypeOK
<1>1. CASE UNCHANGED vars
  BY <1>1 DEF vars, NobodyCutOff
<1>2. ASSUME NEW c \in Client, ClientAct(c), UNCHANGED server PROVE cut' \cap alive' = {}
  <2>1. cut' = cut
    BY <1>2, ClientShape
  <2>2. \A d \in Client : patient[d]
    BY PatientFalls
  <2>3. alive' \subseteq alive
    BY <1>2, ClientSteps DEF ReadCommand, Ignore, Wait, LoginDone, Login, Join, Exit, ReportOne,
                             Logout, SendTo, ReadFrame, Notify, Crash
  <2>4. QED
    BY <2>1, <2>2, <2>3 DEF NobodyCutOff
<1>3. ASSUME NEW c \in Client, ServerStep(c), UNCHANGED client PROVE cut' \cap alive' = {}
  <2>1. (\A d \in Client : patient[d]) /\ cut \cap alive = {} /\ alive' = alive
    BY <1>3, ServerShape DEF NobodyCutOff
  <2>2. CASE cut' = cut
    BY <2>1, <2>2
  <2>3. CASE EndOfStream(c)
    BY <2>1, <2>3 DEF EndOfStream
  (* Every recipient is patient, and hence registered.                     *)
  <2>4. CASE BroadcastThrows(c)
    <3>1. Frame(c).destination \in Channel
      BY <2>4, FrameInHand DEF BroadcastThrows
    <3>2. Recipients(c, Frame(c).destination) \subseteq connectionIdToClient
      BY <2>1, <3>1 DEF Recipients, Registered
    <3>3. QED
      BY <2>4, <3>2 DEF BroadcastThrows
  (* Who logs out is logged in.                                            *)
  <2>5. CASE LogoutThrows(c)
    <3>1. /\ thread[c] = "read" /\ processed[c] < Len(toServer[c])
          /\ NextFrame(c).type = "DISCONNECT" /\ clientIdToUsername[c] = None
      BY <2>5 DEF LogoutThrows, Take
    <3>2. LoginFits(c)
      BY <1>0, <2>1, <3>1 DEF ServerHand
    <3>3. QED
      BY <3>1, <3>2, NextOfPatient
  <2>6. QED
    BY <1>3, <2>2, <2>3, <2>4, <2>5, CutBy
<1>4. QED
  BY <1>1, <1>2, <1>3 DEF Next, ClientAct

-----------------------------------------------------------------------------
LEMMA ServiceInit == Init => ServiceInv
<1> SUFFICES ASSUME Init PROVE ServiceInv
  OBVIOUS
<1>1. ASSUME NEW c \in Client PROVE Registered(c)
  BY DEF Init, ClientInit, ServerInit, Registered
<1>2. NobodyCutOff
  BY DEF Init, LinksInit, NobodyCutOff
<1>3. QED
  BY <1>1, <1>2, ShapeInit, AnswersInvInit, FitsInit, LoginFitsInit DEF ServiceInv, Shape, AnswersInv

LEMMA ServiceNext == ServiceInv /\ [Next]_vars => ServiceInv'
<1> SUFFICES ASSUME ServiceInv, [Next]_vars PROVE ServiceInv'
  OBVIOUS
<1>1. Shape /\ Shape'
  BY ShapeNext DEF ServiceInv, Shape
<1>2. ASSUME NEW c \in Client, c \notin cut'
      PROVE  AnswersFit(c)' /\ Hears(c)' /\ SubscriptionsFit(c)' /\ (patient'[c] => LoginFits(c)')
  <2>1. c \notin cut
    BY <1>1, <1>2, CutGrows
  <2>2. AnswersFit(c) /\ Hears(c) /\ SubscriptionsFit(c) /\ (patient[c] => LoginFits(c))
    BY <2>1 DEF ServiceInv
  <2>3. AnswersFit(c)' /\ Hears(c)' /\ SubscriptionsFit(c)'
    BY <1>1, <1>2, <2>2, AnswersFitNext, HearsNext, FitsNext
  <2>4. patient'[c] => LoginFits(c)'
    BY <1>1, <1>2, <2>2, LoginFitsNext, PatientFalls
  <2>5. QED
    BY <2>3, <2>4
<1>3. \A c \in Client : Registered(c)'
  BY <1>1, RegisteredNext DEF ServiceInv
<1>4. NobodyCutOff'
  BY <1>1, NobodyCutOffNext DEF ServiceInv
<1>5. QED
  BY <1>1, <1>2, <1>3, <1>4 DEF ServiceInv, Shape

(* The invariant holds throughout: what each side has in hand, which       *)
(* answers are owed, what the registry has of the subscriptions each client*)
(* believes in, and what the table has of its login.                       *)
THEOREM ServiceKept == Spec => []ServiceInv
  BY ServiceInit, ServiceNext, PTL DEF Spec

(* A patient client that has dealt with its answers knows whether it is    *)
(* logged in and as whom (utils.cpp:45-54, 224), although it never asks,   *)
(* and takes an ERROR to be about its login whatever it was about.         *)
THEOREM LoginsMeet == Spec => []LoginTruth
<1>1. ServiceInv => LoginTruth
  <2> SUFFICES ASSUME ServiceInv, NEW c \in Client, Talking(c), Settled(c), patient[c]
               PROVE  clientIdToUsername[c] = IF loggedIn[c] THEN currentUser[c] ELSE None
    BY DEF LoginTruth
  <2>1. NoLogin(c)
    BY DEF ServiceInv, Talking, Settled, LoginFits, InLogin
  <2>2. QED
    BY <2>1 DEF NoLogin, KnownIn, KnownOut, Settled
<1>2. QED
  BY <1>1, ServiceKept, PTL

(* Every call the server makes for a patient client finds the state it is  *)
(* meant for (StompMessagingProtocolImpl.java:39-71): a login nobody of    *)
(* that connection, a logout its user, a subscription no other under its   *)
(* channel or id, the end of one an entry, and a report a subscription.    *)
THEOREM CallsOrderly == Spec => []OrderlyCalls
<1>1. ServiceInv => OrderlyCalls
  <2> SUFFICES ASSUME ServiceInv, NEW c \in Client, patient[c], thread[c] = "read",
                      processed[c] < Len(toServer[c])
               PROVE  OrderlyFrame(c, NextFrame(c))
    BY DEF OrderlyCalls
  <2>0. Shape /\ c \notin cut
    BY DEF ServiceInv, Shape, ServerHand
  <2>1. SubscriptionsFit(c) /\ LoginFits(c) /\ Registered(c)
    BY <2>0 DEF ServiceInv
  <2>2. PICK f \in Request : f = NextFrame(c)
    BY <2>0, FrameInHand
  <2>3. f.type = "CONNECT" <=> clientIdToUsername[c] = None
    BY <2>0, <2>1, <2>2, NextOfPatient
  <2>4. f.type # "CONNECT" => c \in connectionIdToClient
    BY <2>1, <2>3 DEF Registered
  <2>5. PICK p \in Nat, n \in Nat : p = processed[c] /\ n = Len(toServer[c]) /\ p < n
    BY <2>0 DEF Shape, TypeOK, LinksTypeOK
  <2>6. PICK held : held = Subscriptions(toServer[c])[p]
    OBVIOUS
  <2>7. Sound(held, f)
    <3>1. p + 1 \in 1..n /\ (p + 1) - 1 = p
      BY <2>5
    <3>2. QED
      BY <2>1, <2>2, <2>5, <2>6, <3>1 DEF SubscriptionsFit, NextFrame
  <2>8. Has(c, held)
    BY <2>1, <2>5, <2>6 DEF SubscriptionsFit, Applied
  <2>9. CASE f.type = "SUBSCRIBE"
    <3>1. f.destination \in Channel
      BY <2>9, RequestFields
    <3>2. channelToSubscribedClients[f.destination][c] = None
      BY <2>7, <2>8, <2>9, <3>1 DEF Sound, Has
    <3>3. Entries(c, f.id) = {}
      BY <2>7, <2>8, <2>9 DEF Sound, Has, Entries
    <3>4. QED
      BY <2>2, <2>4, <2>9, <3>2, <3>3 DEF OrderlyFrame
  <2>10. CASE f.type = "UNSUBSCRIBE"
    <3>1. f.id \in Nat
      BY <2>10, RequestFields
    <3>2. PICK ch \in Channel : held[ch] = f.id /\ held[ch] # None
      BY <2>7, <2>10, <3>1, FramesAssumption DEF Sound
    <3>3. <<f.id, ch>> \in Entries(c, f.id)
      BY <2>8, <3>2 DEF Has, Entries
    <3>4. QED
      BY <2>2, <2>10, <3>3 DEF OrderlyFrame
  <2>11. CASE f.type = "SEND"
    <3>1. f.destination \in Channel
      BY <2>11, RequestFields
    <3>2. QED
      BY <2>2, <2>7, <2>8, <2>11, <3>1 DEF OrderlyFrame, Sound, Has
  <2>12. CASE f.type = "DISCONNECT"
    BY <2>2, <2>3, <2>4, <2>12 DEF OrderlyFrame
  <2>13. CASE f.type = "CONNECT"
    BY <2>2, <2>3, <2>13 DEF OrderlyFrame
  <2>14. QED
    BY <2>2, <2>9, <2>10, <2>11, <2>12, <2>13, RequestFields
<1>2. QED
  BY <1>1, ServiceKept, PTL

(* The server cuts no patient client off, whoever logs out, comes back or  *)
(* vanishes (ConnectionsImpl.java:53, LoginHandler.java:60-62).            *)
THEOREM NobodyIsCutOff == Spec => []NobodyCutOff
<1>1. ServiceInv => NobodyCutOff
  BY DEF ServiceInv
<1>2. QED
  BY <1>1, ServiceKept, PTL
=============================================================================
