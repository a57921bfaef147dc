-------------------------- MODULE EmergencyService --------------------------
(***************************************************************************)
(* The whole service: clients and the thread-per-client server over pairs  *)
(* of streams, any of which may break off.                                 *)
(***************************************************************************)
EXTENDS StompClient, StompServer

vars == <<links, client, server>>

Init == LinksInit /\ ClientInit /\ ServerInit

Next ==
    \E c \in Client :
        \/ (UserCommand(c) \/ MainStep(c) \/ SocketStep(c) \/ Crash(c)) /\ UNCHANGED server
        \/ ServerStep(c) /\ UNCHANGED client

Spec == Init /\ [][Next]_vars

TypeOK ==
    /\ LinksTypeOK
    /\ ClientTypeOK
    /\ ServerTypeOK

-----------------------------------------------------------------------------
Talking(c) == c \in alive /\ c \notin cut

(* The client waits for a command and the server for a frame.              *)
Settled(c) == main[c] = "ready" /\ thread[c] = "read" /\ processed[c] = Len(toServer[c])

(* Once the server has caught up, the channels a client believes to be     *)
(* subscribed to (utils.cpp:83, 108, 225) are those the registry has, under*)
(* the ids the client would unsubscribe with (100): no receipt is ever     *)
(* waited for, so the two can only agree because the frames stay in order. *)
ViewsAgree ==
    \A c \in Client, ch \in Channel : Talking(c) /\ Settled(c) =>
        channelToSubscribedClients[ch][c] =
            IF ch \in subscribedChannels[c] THEN subscriptionToSubId[c][ch] ELSE None

(* A patient client whose answers are all in knows whether it is logged in *)
(* and as whom (utils.cpp:45-54, 224).                                     *)
LoginTruth ==
    \A c \in Client : Talking(c) /\ Settled(c) /\ patient[c] /\ Awaited(c) = 0 /\ ~notifying[c] =>
        clientIdToUsername[c] = IF loggedIn[c] THEN currentUser[c] ELSE None

(* The calls the server makes for patient clients are the orderly ones     *)
(* that Connections assumes, and a logout finds its user                   *)
(* (LoginHandler.java:60-62).                                              *)
OrderlyFrame(c, f) ==
    CASE f.type = "SUBSCRIBE" ->
            /\ c \in connectionIdToClient
            /\ channelToSubscribedClients[f.destination][c] = None
            /\ Entries(c, f.id) = {}
      [] f.type = "UNSUBSCRIBE" -> Entries(c, f.id) # {}
      [] f.type = "SEND" -> channelToSubscribedClients[f.destination][c] # None
      [] f.type = "DISCONNECT" -> c \in connectionIdToClient /\ clientIdToUsername[c] # None
      [] OTHER -> clientIdToUsername[c] = None

OrderlyCalls ==
    \A c \in Client :
        patient[c] /\ thread[c] = "read" /\ processed[c] < Len(toServer[c])
        => OrderlyFrame(c, NextFrame(c))

(* As long as every client is patient, the server ends the connection of   *)
(* none: no broadcast meets a subscriber without a handler                 *)
(* (ConnectionsImpl.java:53), whoever logs out, comes back or vanishes.    *)
NobodyCutOff == (\A c \in Client : patient[c]) => cut \cap alive = {}

(* Once the receipt of an UNSUBSCRIBE or a DISCONNECT is sent, nothing more*)
(* arrives for the subscriptions it ended, although a broadcast may have   *)
(* been under way (StompMessagingProtocolImpl.java:63-71).                 *)
Ends(f, c, receipt, s) ==
    /\ f.type \in {"UNSUBSCRIBE", "DISCONNECT"}
    /\ f.receipt = receipt
    /\ IF f.type = "UNSUBSCRIBE" THEN f.id = s
       ELSE \E i, j \in DOMAIN toServer[c] :
               /\ i < j
               /\ toServer[c][j] = f
               /\ toServer[c][i].type = "SUBSCRIBE"
               /\ toServer[c][i].id = s

SilentAfterReceipt ==
    \A c \in Client : \A i, j \in DOMAIN toClient[c] :
        /\ i < j
        /\ toClient[c][i].type = "RECEIPT"
        /\ IsMessage(toClient[c][j])
        => ~\E k \in DOMAIN toServer[c] :
                Ends(toServer[c][k], c, toClient[c][i].receipt, toClient[c][j].subscription)

(* Under one subscription a client gets the reports of each author in the  *)
(* order they were entered, from some report on and with none left out     *)
(* (utils.cpp:132-142 to StompClient.cpp:155).                             *)
Alike(c, i, j) ==
    /\ IsMessage(toClient[c][i]) /\ IsMessage(toClient[c][j])
    /\ toClient[c][i].subscription = toClient[c][j].subscription
    /\ toClient[c][i].report.author = toClient[c][j].report.author

Entered(a, k, report) == toServer[a][k].type = "SEND" /\ toServer[a][k].report = report

NoneTo(a, ch, frames) ==
    \A k \in frames : toServer[a][k].type = "SEND" => toServer[a][k].destination # ch

Gapless ==
    \A c \in Client : \A i, j \in DOMAIN toClient[c] :
        i < j /\ Alike(c, i, j) /\ (\A m \in i + 1..j - 1 : ~Alike(c, i, m)) =>
            LET a == toClient[c][i].report.author
            IN  \E k, l \in DOMAIN toServer[a] :
                    /\ k < l
                    /\ Entered(a, k, toClient[c][i].report)
                    /\ Entered(a, l, toClient[c][j].report)
                    /\ NoneTo(a, toClient[c][i].destination, k + 1..l - 1)

-----------------------------------------------------------------------------
(* No thread waits for another connection's: as long as an answer is       *)
(* awaited, the connection's thread on the server or the client's socket   *)
(* thread can move.  Each of their steps takes a frame further and a       *)
(* request makes finitely many, so every answer comes in if the threads    *)
(* are scheduled and both ends hold.                                       *)
AnswersComeIn ==
    \A c \in Client : Talking(c) /\ (Awaited(c) > 0 \/ notifying[c])
        => ENABLED (SocketStep(c) \/ ServerStep(c))

(* A login that waits although no answer is to come any more has been      *)
(* notified when it had sent its frame and was not yet in the wait, which  *)
(* has no predicate to look at (utils.cpp:37-44).  There is no other way   *)
(* to hang.                                                                *)
LoginHangsIfMissed ==
    \A c \in Client : Talking(c) /\ main[c] = "waiting"
        => Awaited(c) > 0 \/ notifying[c] \/ c \in missed

-----------------------------------------------------------------------------
(* The inductive invariant of the proofs.                                  *)

(* What each thread has in hand.                                           *)
InLogin(c) == main[c] \in {"sent", "waiting", "woken"}

ClientHand(c) ==
    /\ main[c] = "reporting" => command[c].name = "report" /\ Joined(c)
    /\ InLogin(c) => command[c].name = "login"
    /\ \A ch \in subscribedChannels[c] : subscriptionToSubId[c][ch] # None

ServerHand(c) ==
    /\ thread[c] \in {"broadcast", "disconnect"} => processed[c] > 0
    /\ thread[c] = "broadcast" => Frame(c).type = "SEND"
    /\ thread[c] = "disconnect" => Frame(c).type = "DISCONNECT"
    /\ thread[c] = "answer" => response[c] \in Answer /\ ~IsMessage(response[c])
    /\ thread[c] = "over" <=> c \in cut

(* Every request taken up has its answer, or is about to.                  *)
AnswersFit(c) ==
    Asking(toServer[c], processed[c])
        = Answering(toClient[c], Len(toClient[c]))
          + IF thread[c] \in {"connect", "answer", "disconnect"} THEN 1 ELSE 0

(* A login that is to wait has an answer to come, unless it missed it.     *)
Hears(c) ==
    main[c] \in {"sent", "waiting"} => Awaited(c) > 0 \/ notifying[c] \/ c \in missed

(* The subscriptions of a client after each of its frames: channel -> id.  *)
NoSubscriptions == [ch \in Channel |-> None]

Changed(held, f) ==
    CASE f.type = "SUBSCRIBE" -> [held EXCEPT ![f.destination] = f.id]
      [] f.type = "UNSUBSCRIBE" -> [ch \in Channel |-> IF held[ch] = f.id THEN None ELSE held[ch]]
      [] f.type = "DISCONNECT" -> NoSubscriptions
      [] OTHER -> held

Subscriptions(frames) ==
    LET held[k \in 0..Len(frames)] ==
            IF k = 0 THEN NoSubscriptions ELSE Changed(held[k - 1], frames[k])
    IN  held

(* Under ids that were given out, and differ.                              *)
Proper(held, next) ==
    \A ch \in Channel : held[ch] # None =>
        held[ch] < next /\ \A other \in Channel \ {ch} : held[other] # held[ch]

(* A frame that fits the subscriptions there are.                          *)
Sound(held, f) ==
    /\ f.type = "SUBSCRIBE" => held[f.destination] = None /\ \A ch \in Channel : held[ch] # f.id
    /\ f.type = "UNSUBSCRIBE" => \E ch \in Channel : held[ch] = f.id
    /\ f.type = "SEND" => held[f.destination] # None

Applied(c) == IF thread[c] = "disconnect" THEN processed[c] - 1 ELSE processed[c]

(* What the client believes, and what the registry has.                    *)
Believes(c, held) ==
    \A ch \in Channel :
        held[ch] = IF ch \in subscribedChannels[c] THEN subscriptionToSubId[c][ch] ELSE None

Has(c, held) ==
    /\ \A ch \in Channel : /\ channelToSubscribedClients[ch][c] = held[ch]
                           /\ held[ch] # None => ch \in knownChannels
    /\ subscriptionToTopic[c] = {<<held[ch], ch>> : ch \in {x \in Channel : held[x] # None}}

SubscriptionsFit(c) ==
    LET held == Subscriptions(toServer[c])
    IN  /\ \A k \in 1..Len(toServer[c]) : Sound(held[k - 1], toServer[c][k])
        /\ \A k \in 0..Len(toServer[c]) : Proper(held[k], subscriptionId[c])
        /\ Believes(c, held[Len(toServer[c])])
        /\ Has(c, held[Applied(c)])

(* A login that is under way: the server has not got to it, or its answer  *)
(* says who is logged in.                                                  *)
Verdict(c, f) ==
    \/ f = ConnectedFrame /\ clientIdToUsername[c] = command[c].user
    \/ f = ErrorFrame /\ clientIdToUsername[c] = None

Unread(c) == received[c] + 1..Len(toClient[c])

LoginUnderWay(c) ==
    /\ ~loggedIn[c]
    /\ toServer[c] # <<>>
    /\ toServer[c][Len(toServer[c])] = ConnectFrame(command[c].user)
    /\ processed[c] \in {Len(toServer[c]) - 1, Len(toServer[c])}
    /\ Awaited(c) + (IF notifying[c] THEN 1 ELSE 0) <= IF main[c] = "woken" THEN 0 ELSE 1
    /\ processed[c] < Len(toServer[c]) => clientIdToUsername[c] = None
    /\ thread[c] = "connect" => clientIdToUsername[c] = command[c].user
    /\ thread[c] = "answer" => Verdict(c, response[c])
    /\ \A k \in Unread(c) : ~IsMessage(toClient[c][k]) => Verdict(c, toClient[c][k])
    /\ IF Awaited(c) > 0 THEN ~isError[c]
       ELSE clientIdToUsername[c] = IF isError[c] THEN None ELSE command[c].user

(* ... and one that is not: no ERROR is about, and the frames that were    *)
(* not taken up yet lead from what the table says to what the client knows.*)
Ordinary(f) == f.type \notin {"CONNECT", "DISCONNECT"}

NoErrorAbout(c) ==
    /\ thread[c] # "connect"
    /\ thread[c] = "answer" => response[c] # ErrorFrame
    /\ \A k \in Unread(c) : toClient[c][k] # ErrorFrame

InDispatch(c) ==
    /\ main[c] = "dispatch" => ~isError[c]
    /\ main[c] = "dispatch" /\ command[c].name = "login" => Awaited(c) = 0 /\ ~notifying[c]
    /\ main[c] = "reporting" => loggedIn[c]

KnownIn(c) ==
    /\ clientIdToUsername[c] = currentUser[c]
    /\ currentUser[c] # None
    /\ thread[c] # "disconnect"
    /\ \A k \in processed[c] + 1..Len(toServer[c]) : Ordinary(toServer[c][k])

KnownOut(c) ==
    /\ toServer[c] # <<>> => ~Ordinary(toServer[c][Len(toServer[c])])
    /\ processed[c] = Len(toServer[c]) => clientIdToUsername[c] = None
    /\ processed[c] < Len(toServer[c]) =>
          /\ clientIdToUsername[c] # None
          /\ thread[c] # "disconnect"
          /\ toServer[c][Len(toServer[c])].type = "DISCONNECT"
          /\ \A k \in processed[c] + 1..Len(toServer[c]) - 1 : Ordinary(toServer[c][k])

NoLogin(c) ==
    /\ NoErrorAbout(c)
    /\ InDispatch(c)
    /\ IF loggedIn[c] THEN KnownIn(c) ELSE KnownOut(c)

LoginFits(c) == IF InLogin(c) THEN LoginUnderWay(c) ELSE NoLogin(c)

(* Whoever is logged in, or subscribed, can be sent to.                    *)
Registered(c) ==
    /\ thread[c] = "disconnect" => clientIdToUsername[c] = None
    /\ clientIdToUsername[c] # None => c \in connectionIdToClient \/ thread[c] = "connect"
    /\ patient[c] => \A ch \in Channel :
          channelToSubscribedClients[ch][c] # None => c \in connectionIdToClient

ServiceInv ==
    /\ TypeOK
    /\ \A c \in Client :
          /\ ClientHand(c)
          /\ ServerHand(c)
          /\ Registered(c)
          /\ c \notin cut => AnswersFit(c) /\ Hears(c) /\ SubscriptionsFit(c)
          /\ c \notin cut /\ patient[c] => LoginFits(c)
    /\ NobodyCutOff

(* What was delivered.  A client numbers its receipts and subscriptions,   *)
(* and signs its reports.                                                  *)
WantsReceipt(f) == f.type \in {"SUBSCRIBE", "UNSUBSCRIBE", "DISCONNECT"}
NamesId(f)      == f.type \in {"SUBSCRIBE", "UNSUBSCRIBE"}

Numbered(c) ==
    \A l \in 1..Len(toServer[c]) :
        LET f == toServer[c][l]
        IN  /\ WantsReceipt(f) => f.receipt < receiptCount[c]
            /\ NamesId(f) => f.id < subscriptionId[c]
            /\ f.type = "SEND" => f.report.author = c
            /\ \A k \in 1..l - 1 :
                  /\ WantsReceipt(f) /\ WantsReceipt(toServer[c][k])
                        => toServer[c][k].receipt < f.receipt
                  /\ f.type = "SUBSCRIBE" /\ NamesId(toServer[c][k])
                        => toServer[c][k].id < f.id

(* An answer that is a receipt is one for a frame that has been applied, a *)
(* report came in under a subscription that had been.                      *)
Receipted(c, f) ==
    f.type = "RECEIPT" =>
        \E k \in 1..Applied(c) :
            WantsReceipt(toServer[c][k]) /\ toServer[c][k].receipt = f.receipt

CameUnder(c, f) ==
    IsMessage(f) =>
        /\ f.report.author # c
        /\ \E k \in 1..Applied(c) :
              /\ toServer[c][k].type = "SUBSCRIBE"
              /\ toServer[c][k].id = f.subscription
              /\ toServer[c][k].destination = f.destination

Accounted(c) ==
    /\ \A i \in 1..Len(toClient[c]) : Receipted(c, toClient[c][i]) /\ CameUnder(c, toClient[c][i])
    /\ thread[c] = "answer" => Receipted(c, response[c])

(* The last report that came from an author under a subscription that      *)
(* holds is the last that he has sent to the channel.                      *)
Delivered(a) == IF thread[a] = "broadcast" THEN processed[a] - 1 ELSE processed[a]

CaughtUp(c) ==
    \A i \in 1..Len(toClient[c]) :
        LET f == toClient[c][i]
        IN  /\ IsMessage(f) /\ channelToSubscribedClients[f.destination][c] = f.subscription
            /\ f.report.author \notin cut
            /\ \A j \in i + 1..Len(toClient[c]) : ~Alike(c, i, j)
            => \E k \in 1..Delivered(f.report.author) :
                  /\ Entered(f.report.author, k, f.report)
                  /\ NoneTo(f.report.author, f.destination, k + 1..Delivered(f.report.author))

DeliveryInv ==
    /\ \A c \in Client : c \notin cut => Numbered(c) /\ Accounted(c) /\ CaughtUp(c)
    /\ SilentAfterReceipt
    /\ Gapless
=============================================================================
