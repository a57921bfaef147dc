--------------------------- MODULE MCEventReports ---------------------------
(* A small instance of EventReports for TLC.                               *)
EXTENDS EventReports

CONSTANTS c1, c2

TwoClients == {c1, c2}

Users == [c \in TwoClients |-> IF c = c1 THEN <<"alice">> ELSE <<"bob">>]

TwoAndOne == [c \in TwoClients |-> IF c = c1 THEN 2 ELSE 1]

Police   == <<"/", "police">>
South    == <<"fire", ":", "south">>
Channels == {Police, South}

Times3 == {0, 10, 20}

(* JSON values.                                                            *)
Yes    == [string |-> FALSE, text |-> <<"true">>]
No     == [string |-> FALSE, text |-> <<"false">>]
YesStr == [string |-> TRUE, text |-> <<"true">>]
Maybe  == [string |-> TRUE, text |-> <<"maybe">>]

Info(active, forces) == [k \in {Active, Forces} |-> IF k = Active THEN active ELSE forces]

Theft == [city |-> <<"Los", " ", "Alamos">>, name |-> <<"theft">>, date |-> 20,
          description |-> <<"red", ":", "van", "\n", "seen", " ", "\n">>,
          info |-> Info(Yes, No)]
Blaze == [city |-> <<"Vice">>, name |-> <<"blaze", ":", "big">>, date |-> 10,
          description |-> <<" ", "\n">>, info |-> Info(YesStr, Maybe)]
Crash == [city |-> <<"a", ":", "b">>, name |-> <<"crash">>, date |-> 10,
          description |-> <<"\n", "two", " ", "cars">>, info |-> Info(No, Yes)]
Half == [city |-> <<"Vice">>, name |-> <<"blaze", ":", "big">>, date |-> 0,
         description |-> <<>>, info |-> [k \in {Active} |-> Yes]]

Files ==
    {[channel |-> Police, events |-> <<Theft, Blaze, Crash>>],
     [channel |-> South, events |-> <<Crash, Blaze>>],
     [channel |-> Police, events |-> <<Crash, Half, Theft>>]}
=============================================================================
