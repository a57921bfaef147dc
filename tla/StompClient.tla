---------------------------- MODULE StompClient ----------------------------
(***************************************************************************)
(* The C++ client (client/src/StompClient.cpp, utils.cpp): a main thread   *)
(* that reads commands and sends frames, and a socket thread that reads    *)
(* frames.  They share isError, the reports, a mutex and a condition       *)
(* variable, and nothing but the wait in handle_login takes the mutex.     *)
(*                                                                         *)
(* The main thread reads a command (which resets isError), decides what to *)
(* do with it, and after a CONNECT goes into the wait: three steps, between*)
(* any two of which the socket thread may run.  The socket thread sets     *)
(* isError in one step and notifies in another.  The variables of the main *)
(* thread alone change in the step that sends the frame.                   *)
(*                                                                         *)
(* The map of reports is a function of the two streams (what was read, and *)
(* what was entered, which gets numbers); EventReports.tla models its      *)
(* contents.  Both threads use it without a lock: Crash stands for what    *)
(* that may do to the program, and for the user who stops it.  Spurious    *)
(* wakeups of the wait are left out.                                       *)
(***************************************************************************)
EXTENDS Frames

CONSTANTS
    Uses,         (* client -> names of the commands it is given           *)
    Knows,        (* client -> users it logs in as                         *)
    MaxCommands,  (* bound: client -> number of commands it is given       *)
    FileSize,     (* how many events a file may have                       *)
    Mortal        (* clients that may crash                                *)

ASSUME ClientAssumption ==
    /\ Mortal \subseteq Client
    /\ FileSize \subseteq Nat \ {0}

VARIABLES
    main,                (* where the main thread is                       *)
    command,             (* the command it read                            *)
    notifying,           (* the socket thread is about to notify           *)
    isError,
    loggedIn,
    currentUser,
    subscribedChannels,
    subscriptionToSubId,
    subscriptionId,      (* the next one                                   *)
    receiptCount,        (* the next one                                   *)
    entered,             (* reports entered so far                         *)
    commands,            (* commands read so far                           *)
    patient,             (* clients that logged in only when every answer  *)
                         (* to an earlier command had been dealt with      *)
    missed               (* clients notified between CONNECT and the wait  *)

history == <<commands, patient, missed>>
session == <<isError, loggedIn, currentUser>>
joined  == <<subscribedChannels, subscriptionToSubId, subscriptionId, receiptCount>>
client  == <<main, command, notifying, session, joined, entered, history>>

Command ==
    [name : {"login"}, user : User]
    \cup [name : {"join", "exit"}, channel : Channel]
    \cup [name : {"report"}, channel : Channel, left : FileSize]
    \cup [name : {"logout"}]

NoCommand == [name |-> "none"]

ClientInit ==
    /\ main = [c \in Client |-> "ready"]
    /\ command = [c \in Client |-> NoCommand]
    /\ notifying = [c \in Client |-> FALSE]
    /\ isError = [c \in Client |-> FALSE]
    /\ loggedIn = [c \in Client |-> FALSE]
    /\ currentUser = [c \in Client |-> None]
    /\ subscribedChannels = [c \in Client |-> {}]
    /\ subscriptionToSubId = [c \in Client |-> [ch \in Channel |-> None]]
    /\ subscriptionId = [c \in Client |-> 0]
    /\ receiptCount = [c \in Client |-> 0]
    /\ entered = [c \in Client |-> 0]
    /\ commands = [c \in Client |-> 0]
    /\ patient = [c \in Client |-> TRUE]
    /\ missed = {}

-----------------------------------------------------------------------------
(* The main thread.                                                        *)

Goto(c, place) == main' = [main EXCEPT ![c] = place] /\ UNCHANGED command

(* The loop starts again, without the command it had.                      *)
Done(c) ==
    /\ main' = [main EXCEPT ![c] = "ready"]
    /\ command' = [command EXCEPT ![c] = NoCommand]

After(c, sent) == IF sent THEN Goto(c, "sent") ELSE Done(c)

(* sendFrameAscii: on a closed socket the frame is lost, noticed or not.   *)
SendTo(c, frame, ok) ==
    /\ ok \/ c \in cut
    /\ toServer' = IF c \in cut THEN toServer
                   ELSE [toServer EXCEPT ![c] = Append(@, frame)]
    /\ UNCHANGED <<processed, toClient, received, alive, cut>>

ReadCommand(c, cmd) ==
    /\ main[c] = "ready"
    /\ commands[c] < MaxCommands[c]
    /\ commands' = [commands EXCEPT ![c] = @ + 1]
    /\ command' = [command EXCEPT ![c] = cmd]
    /\ main' = [main EXCEPT ![c] = "dispatch"]
    /\ isError' = [isError EXCEPT ![c] = FALSE]
    /\ patient' = [patient EXCEPT ![c] =
                      @ /\ (cmd.name = "login" => Awaited(c) = 0 /\ ~notifying[c])]
    /\ UNCHANGED <<links, notifying, loggedIn, currentUser, joined, entered, missed>>

(* Mistake: nobody asks for a login.                                       *)
AdmittedAlways(c, name) == main[c] = "dispatch" /\ command[c].name = name

(* Line 72 lets a command through when an ERROR has just come in.          *)
Admitted(c, name) ==
    /\ main[c] = "dispatch"
    /\ command[c].name = name
    /\ loggedIn[c] \/ isError[c]

Joined(c) == command[c].channel \in subscribedChannels[c]

(* The commands that are answered by a line on the screen and no more.     *)
Ignore(c) ==
    /\ \/ /\ main[c] = "dispatch"
          /\ \/ command[c].name = "login" /\ loggedIn[c]
             \/ command[c].name # "login" /\ ~loggedIn[c] /\ ~isError[c]
       \/ Admitted(c, "join") /\ Joined(c)
       \/ Admitted(c, "exit") /\ ~Joined(c)
       \/ Admitted(c, "report") /\ ~Joined(c)
    /\ Done(c)
    /\ UNCHANGED <<links, notifying, session, joined, entered, history>>

Login(c, ok) ==
    /\ main[c] = "dispatch"
    /\ command[c].name = "login"
    /\ ~loggedIn[c]
    /\ SendTo(c, ConnectFrame(command[c].user), ok)
    /\ After(c, ok)
    /\ UNCHANGED <<notifying, session, joined, entered, history>>

(* cv.wait, without a predicate.                                           *)
Wait(c) ==
    /\ main[c] = "sent"
    /\ Goto(c, "waiting")
    /\ UNCHANGED <<links, notifying, session, joined, entered, history>>

(* Mistake: every answer is taken for a CONNECTED.                         *)
LoginDoneAnyway(c) ==
    /\ main[c] = "woken"
    /\ loggedIn' = [loggedIn EXCEPT ![c] = TRUE]
    /\ currentUser' = [currentUser EXCEPT ![c] = command[c].user]
    /\ Done(c)
    /\ UNCHANGED <<links, notifying, isError, joined, entered, history>>

LoginDone(c) ==
    /\ main[c] = "woken"
    /\ IF isError[c]
       THEN UNCHANGED <<loggedIn, currentUser>>
       ELSE /\ loggedIn' = [loggedIn EXCEPT ![c] = TRUE]
            /\ currentUser' = [currentUser EXCEPT ![c] = command[c].user]
    /\ Done(c)
    /\ UNCHANGED <<links, notifying, isError, joined, entered, history>>

(* Mistake: the id is not noted.                                           *)
JoinForgetsId(c, ok) ==
    LET ch == command[c].channel
    IN  /\ Admitted(c, "join")
        /\ ~Joined(c)
        /\ SendTo(c, SubscribeFrame(ch, subscriptionId[c], receiptCount[c]), ok)
        /\ subscriptionId' = [subscriptionId EXCEPT ![c] = @ + 1]
        /\ receiptCount' = [receiptCount EXCEPT ![c] = @ + 1]
        /\ subscribedChannels' =
              [subscribedChannels EXCEPT ![c] = IF ok THEN @ \cup {ch} ELSE @]
        /\ Done(c)
        /\ UNCHANGED <<notifying, session, subscriptionToSubId, entered, history>>

(* A join that fails has used up an id and a receipt.                      *)
Join(c, ok) ==
    LET ch == command[c].channel
    IN  /\ Admitted(c, "join")
        /\ ~Joined(c)
        /\ SendTo(c, SubscribeFrame(ch, subscriptionId[c], receiptCount[c]), ok)
        /\ subscriptionToSubId' = [subscriptionToSubId EXCEPT ![c][ch] = subscriptionId[c]]
        /\ subscriptionId' = [subscriptionId EXCEPT ![c] = @ + 1]
        /\ receiptCount' = [receiptCount EXCEPT ![c] = @ + 1]
        /\ subscribedChannels' =
              [subscribedChannels EXCEPT ![c] = IF ok THEN @ \cup {ch} ELSE @]
        /\ Done(c)
        /\ UNCHANGED <<notifying, session, entered, history>>

Exit(c, ok) ==
    LET ch == command[c].channel
    IN  /\ Admitted(c, "exit")
        /\ Joined(c)
        /\ SendTo(c, UnsubscribeFrame(subscriptionToSubId[c][ch], receiptCount[c]), ok)
        /\ receiptCount' = [receiptCount EXCEPT ![c] = @ + 1]
        /\ subscribedChannels' =
              [subscribedChannels EXCEPT ![c] = IF ok THEN @ \ {ch} ELSE @]
        /\ Done(c)
        /\ UNCHANGED <<notifying, session, subscriptionToSubId, subscriptionId,
                       entered, history>>

(* One turn of the loop over the events of the file; the frame may fail,   *)
(* and the loop goes on.                                                   *)
ReportOne(c, ok) ==
    LET report == [author |-> c, owner |-> currentUser[c], count |-> entered[c] + 1]
    IN  /\ (Admitted(c, "report") /\ Joined(c)) \/ main[c] = "reporting"
        /\ command[c].left > 0
        /\ entered' = [entered EXCEPT ![c] = @ + 1]
        /\ SendTo(c, SendFrame(command[c].channel, report), ok)
        /\ IF command[c].left = 1
           THEN Done(c)
           ELSE /\ main' = [main EXCEPT ![c] = "reporting"]
                /\ command' = [command EXCEPT ![c].left = @ - 1]
        /\ UNCHANGED <<notifying, session, joined, history>>

(* Mistake: the channels are remembered.                                   *)
LogoutKeepsChannels(c, ok) ==
    /\ Admitted(c, "logout")
    /\ SendTo(c, DisconnectFrame(receiptCount[c]), ok)
    /\ receiptCount' = [receiptCount EXCEPT ![c] = @ + 1]
    /\ loggedIn' = [loggedIn EXCEPT ![c] = IF ok THEN FALSE ELSE @]
    /\ Done(c)
    /\ UNCHANGED <<notifying, isError, currentUser, subscribedChannels,
                   subscriptionToSubId, subscriptionId, entered, history>>

Logout(c, ok) ==
    /\ Admitted(c, "logout")
    /\ SendTo(c, DisconnectFrame(receiptCount[c]), ok)
    /\ receiptCount' = [receiptCount EXCEPT ![c] = @ + 1]
    /\ loggedIn' = [loggedIn EXCEPT ![c] = IF ok THEN FALSE ELSE @]
    /\ subscribedChannels' = [subscribedChannels EXCEPT ![c] = IF ok THEN {} ELSE @]
    /\ Done(c)
    /\ UNCHANGED <<notifying, isError, currentUser, subscriptionToSubId,
                   subscriptionId, entered, history>>

-----------------------------------------------------------------------------
(* The socket thread.                                                      *)

(* A MESSAGE goes into the map of reports.  On a closed socket the read    *)
(* fails and the loop tries again for ever, which changes nothing.         *)
ReadFrame(c) ==
    LET f == toClient[c][received[c] + 1]
    IN  /\ ~notifying[c]
        /\ received[c] < Len(toClient[c])
        /\ received' = [received EXCEPT ![c] = @ + 1]
        /\ isError' = [isError EXCEPT ![c] = @ \/ f.type = "ERROR"]
        /\ notifying' = [notifying EXCEPT ![c] = ~IsMessage(f)]
        /\ UNCHANGED <<toServer, processed, toClient, alive, cut, main, command,
                       loggedIn, currentUser, joined, entered, history>>

(* Mistake: an ERROR wakes nobody.                                         *)
NotifyUnlessError(c) ==
    /\ notifying[c]
    /\ notifying' = [notifying EXCEPT ![c] = FALSE]
    /\ main' = [main EXCEPT ![c] = IF @ = "waiting" /\ ~isError[c] THEN "woken" ELSE @]
    /\ missed' = IF main[c] = "sent" THEN missed \cup {c} ELSE missed
    /\ UNCHANGED <<links, command, session, joined, entered, commands, patient>>

(* notify_all: whoever is not in the wait yet has missed it.               *)
Notify(c) ==
    /\ notifying[c]
    /\ notifying' = [notifying EXCEPT ![c] = FALSE]
    /\ main' = [main EXCEPT ![c] = IF @ = "waiting" THEN "woken" ELSE @]
    /\ missed' = IF main[c] = "sent" THEN missed \cup {c} ELSE missed
    /\ UNCHANGED <<links, command, session, joined, entered, commands, patient>>

-----------------------------------------------------------------------------
MainStep(c) ==
    /\ c \in alive
    /\ \/ Ignore(c) \/ Wait(c) \/ LoginDone(c)
       \/ \E ok \in BOOLEAN :
             Login(c, ok) \/ Join(c, ok) \/ Exit(c, ok) \/ ReportOne(c, ok) \/ Logout(c, ok)

SocketStep(c) == c \in alive /\ (ReadFrame(c) \/ Notify(c))

UserCommand(c) ==
    /\ c \in alive
    /\ \E cmd \in Command :
          /\ cmd.name \in Uses[c]
          /\ cmd.name = "login" => cmd.user \in Knows[c]
          /\ ReadCommand(c, cmd)

Crash(c) ==
    /\ c \in alive \cap Mortal
    /\ alive' = alive \ {c}
    /\ UNCHANGED <<toServer, processed, toClient, received, cut, client>>

ClientTypeOK ==
    /\ main \in [Client -> {"ready", "dispatch", "sent", "waiting", "woken", "reporting"}]
    /\ command \in [Client -> Command \cup {NoCommand}
                          \cup [name : {"report"}, channel : Channel, left : Nat]]
    /\ notifying \in [Client -> BOOLEAN]
    /\ isError \in [Client -> BOOLEAN]
    /\ loggedIn \in [Client -> BOOLEAN]
    /\ currentUser \in [Client -> User \cup {None}]
    /\ subscribedChannels \in [Client -> SUBSET Channel]
    /\ subscriptionToSubId \in [Client -> [Channel -> Nat \cup {None}]]
    /\ subscriptionId \in [Client -> Nat]
    /\ receiptCount \in [Client -> Nat]
    /\ entered \in [Client -> Nat]
    /\ commands \in [Client -> Nat]
    /\ patient \in [Client -> BOOLEAN]
    /\ missed \in SUBSET Client
=============================================================================
