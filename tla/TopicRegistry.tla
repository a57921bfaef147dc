--------------------------- MODULE TopicRegistry ---------------------------
(***************************************************************************)
(* What the connection registry of the STOMP server promises to the        *)
(* protocol above it, with every operation a single step: connections come *)
(* and go, each holds at most one subscription per channel, and a          *)
(* publication reaches, all at once, every subscriber of the channel       *)
(* except its author, tagged with the subscriber's own subscription id.    *)
(*                                                                         *)
(* Connections.tla models the code of ConnectionsImpl, with its monitors   *)
(* and its one-recipient-at-a-time delivery loop, and is shown to          *)
(* implement this specification.                                           *)
(***************************************************************************)
CONSTANTS
    Conn,      (* connection ids                                           *)
    Channel,   (* channel (topic) names                                    *)
    SubId,     (* subscription ids, chosen by the clients                  *)
    Number,    (* numbers an author may give to its publications           *)
    None       (* "no subscription"                                        *)

LOCAL INSTANCE Sequences

VARIABLES
    connected,     (* connections the registry can deliver to              *)
    subscription,  (* channel -> connection -> subscription id or None     *)
    inbox          (* connection -> sequence of messages delivered to it   *)

vars == <<connected, subscription, inbox>>

Message == [from : Conn, number : Number, channel : Channel, sub : SubId]

Init ==
    /\ connected = {}
    /\ subscription = [ch \in Channel |-> [c \in Conn |-> None]]
    /\ inbox = [c \in Conn |-> <<>>]

Connect(c) ==
    /\ connected' = connected \cup {c}
    /\ UNCHANGED <<subscription, inbox>>

(* A connection subscribes once per channel, under an id it does not use   *)
(* for another channel.                                                    *)
Subscribe(c, ch, s) ==
    /\ c \in connected
    /\ subscription[ch][c] = None
    /\ \A other \in Channel : subscription[other][c] # s
    /\ subscription' = [subscription EXCEPT ![ch][c] = s]
    /\ UNCHANGED <<connected, inbox>>

Unsubscribe(c, ch) ==
    /\ subscription[ch][c] # None
    /\ subscription' = [subscription EXCEPT ![ch][c] = None]
    /\ UNCHANGED <<connected, inbox>>

Publish(c, ch, n) ==
    /\ inbox' = [r \in Conn |->
                    IF r # c /\ subscription[ch][r] # None
                    THEN Append(inbox[r], [from |-> c, number |-> n, channel |-> ch,
                                           sub |-> subscription[ch][r]])
                    ELSE inbox[r]]
    /\ UNCHANGED <<connected, subscription>>

Disconnect(c) ==
    /\ connected' = connected \ {c}
    /\ subscription' = [ch \in Channel |-> [subscription[ch] EXCEPT ![c] = None]]
    /\ UNCHANGED inbox

Next ==
    \E c \in Conn :
        \/ Connect(c)
        \/ Disconnect(c)
        \/ \E ch \in Channel :
              \/ Unsubscribe(c, ch)
              \/ \E s \in SubId : Subscribe(c, ch, s)
              \/ \E n \in Number : Publish(c, ch, n)

Spec == Init /\ [][Next]_vars
=============================================================================
