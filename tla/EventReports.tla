---------------------------- MODULE EventReports ----------------------------
(***************************************************************************)
(* What the clients know of each other's reports: the map                  *)
(* reports_by_user_and_channel of the C++ client, filled by the report     *)
(* command and by the MESSAGEs that come in, and read and sorted by the    *)
(* summary command (client/src/utils.cpp, StompClient.cpp).  The texts are *)
(* those of EventText.tla.                                                 *)
(*                                                                         *)
(* A command is one step here, and so is a broadcast: StompClient.tla and  *)
(* Connections.tla model how they interleave.  The names in the files have *)
(* no newline in them, the descriptions may.                               *)
(***************************************************************************)
EXTENDS EventText

CONSTANTS
    Client,    (* the clients, all logged in                               *)
    UserOf,    (* client -> the name of its user                           *)
    Channel,   (* names of channels, as users type them                    *)
    File,      (* event files: a channel and a sequence of events          *)
    MaxFiles   (* bound: client -> number of files it reports              *)

ASSUME ReportsAssumption ==
    /\ DOMAIN UserOf = Client
    /\ \A c, d \in Client : UserOf[c] = UserOf[d] => c = d
    /\ MaxFiles \in [Client -> Nat]

Text == Seq(STRING)

(* A user's name is a word of the command line that logs in; names with a  *)
(* colon are left out.                                                     *)
ASSUME UserAssumption ==
    \A c \in Client :
        UserOf[c] \in Text /\ \A i \in DOMAIN UserOf[c] : UserOf[c][i] \notin Blank \cup {":"}

(* What parseEventsFile reads without an exception, and no name with a     *)
(* newline in it.                                                          *)
ASSUME FileAssumption ==
    \A file \in File :
        /\ file.channel \in Channel
        /\ file.events \in Seq(Range(file.events))
        /\ \A i \in DOMAIN file.events :
              LET item == file.events[i]
              IN  /\ item.city \in Text /\ ~Has(item.city, "\n")
                  /\ item.name \in Text /\ ~Has(item.name, "\n")
                  /\ item.description \in Text
                  /\ item.date \in Date

VARIABLES
    alive,               (* clients whose program has not been ended by an *)
                         (* exception                                      *)
    subscribedChannels,  (* client -> the channels it has joined           *)
    reports,             (* client -> (user, channel) -> sequence of Events*)
    inbox,               (* MESSAGEs on their way to each client           *)
    summary,             (* what the last step wrote, if it was a summary  *)
    reported,            (* history: what each client has reported         *)
    due                  (* history: what was sent to each client, of whom *)

vars == <<alive, subscribedChannels, reports, inbox, summary, reported, due>>

Topic == {Destination(ch) : ch \in Channel}

(* Keys of the map: a user and a channel.  A report that comes in has the  *)
(* blank after the colon in its user.                                      *)
User     == {UserOf[c] : c \in Client}
OfOthers == {<<" ">> \o u : u \in User}
Key      == (User \cup OfOthers) \X (Channel \cup Topic)

NoSummary == [by |-> None]

Init ==
    /\ alive = Client
    /\ subscribedChannels = [c \in Client |-> {}]
    /\ reports = [c \in Client |-> [k \in Key |-> <<>>]]
    /\ inbox = [c \in Client |-> <<>>]
    /\ summary = NoSummary
    /\ reported = [c \in Client |-> <<>>]
    /\ due = [c \in Client |-> <<>>]

-----------------------------------------------------------------------------
(* join                                                                    *)

Join(c, ch) ==
    /\ c \in alive
    /\ ch \notin subscribedChannels[c]
    /\ subscribedChannels' = [subscribedChannels EXCEPT ![c] = @ \cup {ch}]
    /\ summary' = NoSummary
    /\ UNCHANGED <<alive, reports, inbox, reported, due>>

Subscribers(topic) ==
    {c \in alive : \E ch \in subscribedChannels[c] : Destination(ch) = topic}

-----------------------------------------------------------------------------
(* report                                                                  *)

Message(event) == [destination |-> Destination(event.channel), body |-> PassedOn(SendBody(event))]

(* What is stored and what is sent of a file's events: the loop ends with  *)
(* the first incomplete event, which is stored and not sent.               *)
Incomplete(events) == {i \in DOMAIN events : ~Complete(events[i])}

Stored(events) ==
    IF Incomplete(events) = {} THEN events ELSE SubSeq(events, 1, Min(Incomplete(events)))

Sent(events) ==
    IF Incomplete(events) = {} THEN events ELSE SubSeq(events, 1, Min(Incomplete(events)) - 1)

(* createSendMessage throws for an incomplete event, in the main thread,   *)
(* where nobody catches it.                                                *)
Report(c, file) ==
    LET events == [i \in DOMAIN file.events |->
                      EventFrom(UserOf[c], file.channel, file.events[i])]
        key    == <<UserOf[c], file.channel>>
        sent   == Sent(events)
        topic  == Destination(file.channel)
        others == Subscribers(topic) \ {c}
    IN  /\ c \in alive
        /\ Len(reported[c]) < MaxFiles[c]
        /\ file.channel \in subscribedChannels[c]
        /\ reports' = [reports EXCEPT ![c][key] = @ \o Stored(events)]
        /\ inbox' = [r \in Client |->
                        IF r \in others
                        THEN inbox[r] \o [i \in DOMAIN sent |-> Message(sent[i])]
                        ELSE inbox[r]]
        /\ alive' = IF Incomplete(events) = {} THEN alive ELSE alive \ {c}
        /\ reported' = [reported EXCEPT ![c] = Append(@, file)]
        /\ due' = [r \in Client |->
                      IF r \in others
                      THEN due[r] \o [i \in DOMAIN sent |->
                                         [author |-> c, topic |-> topic, item |-> file.events[i]]]
                      ELSE due[r]]
        /\ summary' = NoSummary
        /\ UNCHANGED subscribedChannels

-----------------------------------------------------------------------------
(* A MESSAGE comes in (socketHandler).                                     *)

(* stoi throws when the text has no number, in the socket thread.          *)
Receive(c) ==
    LET message == Head(inbox[c])
        event   == EventOf(message.body, message.destination)
        key     == <<event.owner, event.channel>>
    IN  /\ c \in alive
        /\ inbox[c] # <<>>
        /\ inbox' = [inbox EXCEPT ![c] = Tail(@)]
        /\ IF event.date = None
           THEN alive' = alive \ {c} /\ UNCHANGED reports
           ELSE reports' = [reports EXCEPT ![c][key] = Append(@, event)] /\ UNCHANGED alive
        /\ summary' = NoSummary
        /\ UNCHANGED <<subscribedChannels, reported, due>>

-----------------------------------------------------------------------------
(* summary                                                                 *)

(* Mistake: the second test, for a later event, is missing.               *)
LessUntested(e1, e2) == e1.date < e2.date \/ e1.name # e2.name

(* lessThanEventComparator returns compare(), which is not 0 for any two   *)
(* different names: of two events of one time and different names each is  *)
(* less than the other.                                                    *)
Less(e1, e2) == e1.date < e2.date \/ (e1.date = e2.date /\ e1.name # e2.name)

(* std::sort as the library does it for up to so many elements: each       *)
(* element goes to the front if it is less than the first one, and else    *)
(* moves down as long as it is less than its neighbour.                    *)
ByInsertion == 16

Insert(sorted, e) ==
    LET stops == {i \in DOMAIN sorted : ~Less(e, sorted[i])}
        place == IF sorted = <<>> \/ Less(e, sorted[1]) THEN 1 ELSE Max(stops) + 1
    IN  InsertAt(sorted, place, e)

Sorted(events) ==
    LET sorted[i \in 0..Len(events)] ==
            IF i = 0 THEN <<>> ELSE Insert(sorted[i - 1], events[i])
    IN  sorted[Len(events)]

CountTrue(events, key) == Cardinality({i \in DOMAIN events : IsTrue(events[i].info[key])})

(* The user and the channel are words of the command line, without blanks. *)
(* at() throws for a report without the two entries, in the main thread.   *)
Summary(c, user, ch) ==
    LET events == reports[c][<<user, ch>>]
    IN  /\ c \in alive
        /\ Len(events) <= ByInsertion
        /\ IF \E i \in DOMAIN events : ~Complete(events[i])
           THEN /\ alive' = alive \ {c}
                /\ summary' = NoSummary
                /\ UNCHANGED reports
           ELSE /\ summary' =
                      [by |-> c, user |-> user, channel |-> ch,
                       active |-> CountTrue(events, Active), forces |-> CountTrue(events, Forces),
                       rows |-> Sorted(events)]
                /\ reports' = [reports EXCEPT ![c][<<user, ch>>] = Sorted(events)]
                /\ UNCHANGED alive
        /\ UNCHANGED <<subscribedChannels, inbox, reported, due>>

-----------------------------------------------------------------------------
Next ==
    \E c \in Client :
        \/ \E ch \in Channel : Join(c, ch)
        \/ \E file \in File : Report(c, file)
        \/ Receive(c)
        \/ \E user \in User, ch \in Channel : Summary(c, user, ch)

Spec == Init /\ [][Next]_vars

-----------------------------------------------------------------------------
(* What is left of a report at a reader: every value gets the blank after  *)
(* the colon of its line, or is lost if it has a colon of its own; the     *)
(* description loses the blanks at its end and gets one newline; the       *)
(* general information is reduced to two truth values and gets an entry    *)
(* for the line "description:" (StompMessageCreator.cpp:24-33,             *)
(* StompMessageDetails.java:20, event.cpp:70-108).                         *)
FieldBack(text) == IF Has(text, ":") THEN <<>> ELSE <<" ">> \o text

TruthBack(value) == <<" ">> \o Truth(value.text)

DescriptionBack(text) ==
    LET ink == {i \in DOMAIN text : text[i] \notin Blank}
    IN  IF ink = {} THEN <<>> ELSE Append(SubSeq(text, 1, Max(ink)), "\n")

Back(author, topic, item) ==
    [owner       |-> FieldBack(UserOf[author]),
     channel     |-> topic,
     city        |-> FieldBack(item.city),
     name        |-> FieldBack(item.name),
     date        |-> item.date,
     description |-> DescriptionBack(item.description),
     info        |-> [key \in {Active, Forces, <<"escription">>} |->
                         IF key = <<"escription">> THEN <<>> ELSE TruthBack(item.info[key])]]

(* The elements of a sequence at some places, in order.                    *)
At(seq, places) ==
    LET picked[i \in 0..Len(seq)] ==
            IF i = 0 THEN <<>>
            ELSE IF i \in places THEN Append(picked[i - 1], seq[i]) ELSE picked[i - 1]
    IN  picked[Len(seq)]

(* What r has read of a's reports to a topic.                              *)
Came(r, a, topic) ==
    LET read == SubSeq(due[r], 1, Len(due[r]) - Len(inbox[r]))
    IN  At(read, {i \in DOMAIN read : read[i].author = a /\ read[i].topic = topic})

(* What a client knows of another one's reports to a topic is that, report *)
(* by report, in the order they were made, from its own join on, whatever  *)
(* it reports and summarises itself.                                       *)
ComesBack ==
    \A r \in alive, a \in Client, topic \in Topic :
        LET came == Came(r, a, topic)
        IN  reports[r][<<FieldBack(UserOf[a]), topic>>]
               = [i \in DOMAIN came |-> Back(a, topic, came[i].item)]

(* A client is ended by a file of its own that has an incomplete event     *)
(* (StompMessageCreator.cpp:29-31), and by nothing else: what it receives  *)
(* has a date to read (event.cpp:92), and what it can summarise has the    *)
(* entries a summary asks for (utils.cpp:179-182).                         *)
DiesOfOwnFile ==
    \A c \in Client \ alive :
        /\ reported[c] # <<>>
        /\ \E i \in DOMAIN Last(reported[c]).events :
              ~({Active, Forces} \subseteq DOMAIN Last(reported[c]).events[i].info)

(* The events in the files of a channel.                                   *)
ItemsOf(files, ch) ==
    LET items[i \in 0..Len(files)] ==
            IF i = 0 THEN <<>>
            ELSE IF files[i].channel = ch THEN items[i - 1] \o files[i].events
            ELSE items[i - 1]
    IN  items[Len(files)]

Items(c, user, ch) == IF user = UserOf[c] THEN ItemsOf(reported[c], ch) ELSE <<>>

Says(item, key) == item.info[key].text = <<"true">>

Names(e) == [name |-> e.name, date |-> e.date, description |-> e.description]

Times(seq, x) == Cardinality({i \in DOMAIN seq : Names(seq[i]) = Names(x)})

(* A summary of the client's own user counts what its files said and lists *)
(* each of their events once; one of another user is empty, because what   *)
(* came in is filed under a name with a blank in front, which no command   *)
(* line can ask for (utils.cpp:170-192, StompClient.cpp:63 and 150).       *)
SummaryCoversOwn ==
    summary # NoSummary =>
        LET items == Items(summary.by, summary.user, summary.channel)
        IN  /\ summary.active = Cardinality({i \in DOMAIN items : Says(items[i], Active)})
            /\ summary.forces = Cardinality({i \in DOMAIN items : Says(items[i], Forces)})
            /\ Len(summary.rows) = Len(items)
            /\ \A i \in DOMAIN items : Times(summary.rows, items[i]) = Times(items, items[i])

(* A summary is in the order of time, although its comparator is no order: *)
(* it holds each of two events of one time less than the other             *)
(* (utils.cpp:152-159 and 192).                                            *)
InOrderOfTime ==
    summary # NoSummary =>
        \A i, j \in DOMAIN summary.rows : i < j => summary.rows[i].date <= summary.rows[j].date
=============================================================================
