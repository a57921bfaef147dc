----------------------------- MODULE EventText -----------------------------
(***************************************************************************)
(* How a report travels (client/src/event.cpp, StompMessageCreator.cpp):   *)
(* from an event file into an Event, from the Event into the body of a     *)
(* SEND, through the server into the body of a MESSAGE, and back into an   *)
(* Event at the reader.                                                    *)
(*                                                                         *)
(* A text is a sequence of tokens: words, and the characters that the code *)
(* looks at, ":", "/", blank, tab and newline, each a token of its own.    *)
(***************************************************************************)
EXTENDS Naturals, Sequences, SequencesExt

CONSTANTS
    Date,   (* the times of the events                                     *)
    None    (* what is no number                                           *)

ASSUME DateAssumption == Date \subseteq Nat /\ 0 \in Date /\ None \notin Nat

Blank == {" ", "\t", "\n"}

Has(text, token) == \E i \in DOMAIN text : text[i] = token

-----------------------------------------------------------------------------
(* Texts.                                                                  *)

(* split of utils.cpp and split_str of event.cpp: the parts between the    *)
(* delimiters, one more than there are delimiters.                         *)
Split(text, delimiter) ==
    LET parts[i \in 0..Len(text)] ==
            IF i = 0 THEN << <<>> >>
            ELSE LET before == parts[i - 1]
                 IN  IF text[i] = delimiter THEN Append(before, <<>>)
                     ELSE [before EXCEPT ![Len(before)] = Append(@, text[i])]
    IN  parts[Len(text)]

(* What getline returns call after call: no empty line after the last      *)
(* newline.                                                                *)
Lines(text) ==
    LET lines == Split(text, "\n")
    IN  IF Last(lines) = <<>> THEN Front(lines) ELSE lines

(* String.trim of Java.                                                    *)
Trim(text) ==
    LET ink == {i \in DOMAIN text : text[i] \notin Blank}
    IN  IF ink = {} THEN <<>> ELSE SubSeq(text, Min(ink), Max(ink))

(* std::to_string and std::stoi, which skips blanks and throws when there  *)
(* is no number.                                                           *)
Numeral(n) == <<ToString(n)>>

ASSUME NumeralAssumption ==
    \A m, n \in Date :
        /\ ToString(m) \in STRING \ (Blank \cup {":"})
        /\ ToString(m) = ToString(n) => m = n

Stoi(text) ==
    LET numbers == {n \in Date : Trim(text) = Numeral(n)}
    IN  IF numbers = {} THEN None ELSE CHOOSE n \in numbers : TRUE

-----------------------------------------------------------------------------
(* From a file to an Event.                                                *)

(* Mistake: strings are dumped, too, which puts them into quotes.          *)
DumpAll(value) == IF value.string THEN <<"\"">> \o value.text \o <<"\"">> ELSE value.text

(* A string is taken as it is, any other value as JSON writes it.          *)
TextOf(value) == value.text

(* parseEventsFile and setEventOwnerUser.                                  *)
EventFrom(user, channel, item) ==
    [owner       |-> user,
     channel     |-> channel,
     city        |-> item.city,
     name        |-> item.name,
     date        |-> item.date,
     description |-> item.description,
     info        |-> [key \in DOMAIN item.info |-> TextOf(item.info[key])]]

(* The entries createSendMessage and handle_summary ask for with at(),     *)
(* which throws when there is none.                                        *)
Active == <<"active">>
Forces == <<"forces_arrival_at_scene">>

Complete(event) == {Active, Forces} \subseteq DOMAIN event.info

IsTrue(text) == text = <<"true">>

-----------------------------------------------------------------------------
(* From an Event to the body of a SEND.                                    *)

Line(key, value) == key \o <<":", " ">> \o value \o <<"\n">>

Truth(text) == IF IsTrue(text) THEN <<"true">> ELSE <<"false">>

(* createSendMessage, for a complete event.                                *)
SendBody(event) ==
    Line(<<"user">>, event.owner)
    \o Line(<<"city">>, event.city)
    \o Line(<<"event name">>, event.name)
    \o Line(<<"date time">>, Numeral(event.date))
    \o <<"general information", ":", "\n">>
    \o Line(<<"\t">> \o Active, Truth(event.info[Active]))
    \o Line(<<"\t">> \o Forces, Truth(event.info[Forces]))
    \o <<"d", "escription", ":", "\n">>
    \o event.description \o <<"\n">>

-----------------------------------------------------------------------------
(* Through the server.                                                     *)

(* The destination header: what follows the first ":" up to the next, less *)
(* the slash in front.                                                     *)
Destination(channel) ==
    LET name == Trim(Split(<<"destination", ":">> \o channel, ":")[2])
    IN  IF Head(name) = "/" THEN Tail(name) ELSE name

(* The body is trimmed when it comes in; the client's body begins with the *)
(* newlines that end the headers.                                          *)
PassedOn(body) == <<"\n", "\n">> \o Trim(body) \o <<"\n">>

-----------------------------------------------------------------------------
(* From the body of a MESSAGE to an Event.                                 *)

NoEvent ==
    [owner |-> <<>>, channel |-> <<>>, city |-> <<>>, name |-> <<>>, date |-> 0,
     description |-> <<>>, info |-> <<>>]

Start == [event |-> NoEvent, general |-> FALSE, describing |-> FALSE]

(* The field a key sets.                                                   *)
Set(event, key, value) ==
    CASE key = <<"user">>         -> [event EXCEPT !.owner = value]
      [] key = <<"channel name">> -> [event EXCEPT !.channel = value]
      [] key = <<"city">>         -> [event EXCEPT !.city = value]
      [] key = <<"event name">>   -> [event EXCEPT !.name = value]
      [] key = <<"date time">>    -> [event EXCEPT !.date = Stoi(value)]
      [] OTHER                    -> event

(* The map of general information, with the key less its first character.  *)
Put(info, key, value) ==
    [k \in DOMAIN info \cup {Tail(key)} |-> IF k = Tail(key) THEN value ELSE info[k]]

(* Mistake: a value may have a colon in it, and ends there.                *)
ValueUpToColon(arguments) == arguments[2]

(* Mistake: the parts are counted from 0.                                  *)
ValueOfThree(arguments) == IF Len(arguments) = 3 THEN arguments[2] ELSE <<>>

(* A value with a ":" in it makes three arguments, and is dropped.         *)
Value(arguments) == IF Len(arguments) = 2 THEN arguments[2] ELSE <<>>

(* One turn of the loop; describing stands for the loop inside it, which   *)
(* reads the rest of the body.  That loop leaves general as it is, so that *)
(* the line "description:" becomes an entry of the general information.    *)
ReadLine(s, line) ==
    LET arguments == Split(line, ":")
        key       == Head(arguments)
        value     == Value(arguments)
        known     == Set(s.event, key, value)
    IN  IF s.describing
        THEN [s EXCEPT !.event.description = @ \o line \o <<"\n">>]
        ELSE IF ~Has(line, ":") THEN s
        ELSE IF key = <<"general information">> THEN [s EXCEPT !.general = TRUE]
        ELSE [event      |-> IF s.general THEN [known EXCEPT !.info = Put(@, key, value)] ELSE known,
              general    |-> s.general,
              describing |-> key = <<"d", "escription">>]

(* Event(frame_body) and setChannelName.                                   *)
EventOf(body, channel) ==
    LET lines == Lines(body)
        after[i \in 0..Len(lines)] == IF i = 0 THEN Start ELSE ReadLine(after[i - 1], lines[i])
    IN  [after[Len(lines)].event EXCEPT !.channel = channel]
=============================================================================
