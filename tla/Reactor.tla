------------------------------ MODULE Reactor -------------------------------
(***************************************************************************)
(* The reactor (srv/Reactor.java) with its connection handlers             *)
(* (srv/NonBlockingConnectionHandler.java): one selector thread accepts,   *)
(* reads and writes; workers of the pool process what was read and, in     *)
(* send, queue answers and ask the selector's thread for OP_WRITE.         *)
(*                                                                         *)
(* Two parts are taken as other modules have shown them to be: the pool    *)
(* runs the tasks of a handler one at a time and in order (ActorQueue),    *)
(* and the registry's operations exclude one another (TopicRegistry, with  *)
(* one channel: joined are its subscribers).                               *)
(*                                                                         *)
(* close() is called by nothing in the repository and shouldTerminate()    *)
(* is never true (StompMessagingProtocolImpl); neither is modelled.  Only  *)
(* the selector's thread closes channels, each key is visited once in a    *)
(* round, and so the test !key.isValid() of serve never succeeds.          *)
(***************************************************************************)
EXTENDS Naturals, Sequences

CONSTANTS
    Conn,       (* connections, with their channels and handlers           *)
    Worker,     (* threads of the pool                                     *)
    None,       (* no connection                                           *)
    Kinds,      (* the kinds of frames the clients send                    *)
    Leaving,    (* how each client may go: "fin" closes, "reset" aborts    *)
    Polite,     (* clients go away only after the answer to a disconnect   *)
    MaxFrames   (* bound: frames each client sends                         *)

ASSUME NoneAssumption == None \notin Conn
ASSUME KindsAssumption == Kinds \subseteq {"subscribe", "send", "disconnect", "bad"}
ASSUME LeavingAssumption == Leaving \in [Conn -> SUBSET {"fin", "reset"}]
ASSUME PoliteAssumption == Polite \in BOOLEAN
ASSUME MaxFramesAssumption == MaxFrames \in [Conn -> Nat]

VARIABLES
    (* The clients and the network.                                        *)
    peer,           (* each client's end: off, up, fin, reset              *)
    issued,         (* history: the frames the client has sent             *)
    inbound,        (* frames that have not been read from the channel     *)
    room,           (* the channel's send buffer has room                  *)
    received,       (* history: messages written to the channel            *)
    (* The selector's thread.                                              *)
    phase,          (* where the thread is in serve                        *)
    selected,       (* selected keys still to be handled                   *)
    current,        (* the key being handled                               *)
    chan,           (* none (not accepted), open, closed                   *)
    interest,       (* the key's interest set                              *)
    selectorTasks,  (* connections for which OP_WRITE was asked            *)
    wakeup,         (* wakeup() was called since the last select()         *)
    (* The handlers.                                                       *)
    writeQueue,     (* messages queued                                     *)
    half,           (* the top of writeQueue has been written in part      *)
    content,        (* buffer -> frames in it                              *)
    bufferPool,     (* BUFFER_POOL, the queue of free buffers              *)
    (* The pool, the protocol and the registry.                            *)
    acts,           (* buffers with read frames, per handler               *)
    wpc,            (* what each worker does                               *)
    act,            (* the handler whose task the worker runs              *)
    buf,            (* the buffer of that task                             *)
    to,             (* the handlers the worker still has to send to        *)
    at,             (* the handler it is sending to                        *)
    message,        (* what it sends                                       *)
    joined,         (* connections a broadcast reaches                     *)
    processed,      (* history: frames processed                           *)
    sends           (* history: messages given to send of the handler      *)

net      == <<peer, issued, inbound, room>>
selector == <<phase, selected, current, chan, interest>>
buffers  == <<content, bufferPool>>
workers  == <<wpc, act, buf, to, at, message, joined, processed>>
output   == <<writeQueue, half, received>>

vars == <<net, selector, selectorTasks, wakeup, buffers, acts, workers, output, sends>>

Phase == {"select", "tasks", "keys", "read", "write", "check", "update", "dead"}
Ops == {"read", "write"}
Message == [kind : Kinds, from : Conn]
NoMessage == [kind |-> "none", from |-> None]

(* The selection keys: those of the channels and the listening one.        *)
Key == [conn : Conn, ops : SUBSET Ops]
AcceptKey == [conn |-> None, ops |-> {}]

Init ==
    /\ peer = [c \in Conn |-> "off"]
    /\ issued = [c \in Conn |-> <<>>]
    /\ inbound = [c \in Conn |-> <<>>]
    /\ room = [c \in Conn |-> TRUE]
    /\ received = [c \in Conn |-> <<>>]
    /\ phase = "select"
    /\ selected = {}
    /\ current = None
    /\ chan = [c \in Conn |-> "none"]
    /\ interest = [c \in Conn |-> {}]
    /\ selectorTasks = <<>>
    /\ wakeup = FALSE
    /\ writeQueue = [c \in Conn |-> <<>>]
    /\ half = [c \in Conn |-> FALSE]
    /\ content = <<>>
    /\ bufferPool = <<>>
    /\ acts = [c \in Conn |-> <<>>]
    /\ wpc = [w \in Worker |-> "idle"]
    /\ act = [w \in Worker |-> None]
    /\ buf = [w \in Worker |-> 0]
    /\ to = [w \in Worker |-> {}]
    /\ at = [w \in Worker |-> None]
    /\ message = [w \in Worker |-> NoMessage]
    /\ joined = {}
    /\ processed = [c \in Conn |-> <<>>]
    /\ sends = [c \in Conn |-> <<>>]

-----------------------------------------------------------------------------
(* The clients.  A bad frame is one whose processing throws: a header that *)
(* does not parse, a send to a channel that nobody ever joined.            *)

Arrive(c) ==
    /\ peer[c] = "off"
    /\ peer' = [peer EXCEPT ![c] = "up"]
    /\ UNCHANGED <<issued, inbound, room, selector, selectorTasks, wakeup, buffers, acts,
                   workers, output, sends>>

Issue(c, k) ==
    /\ peer[c] = "up"
    /\ Len(issued[c]) < MaxFrames[c]
    /\ issued' = [issued EXCEPT ![c] = Append(@, k)]
    /\ inbound' = [inbound EXCEPT ![c] = Append(@, k)]
    /\ UNCHANGED <<peer, room, selector, selectorTasks, wakeup, buffers, acts, workers,
                   output, sends>>

(* The client reads what has arrived.                                      *)
Drain(c) ==
    /\ peer[c] = "up"
    /\ ~room[c]
    /\ room' = [room EXCEPT ![c] = TRUE]
    /\ UNCHANGED <<peer, issued, inbound, selector, selectorTasks, wakeup, buffers, acts,
                   workers, output, sends>>

(* A polite client has logged out, and has every answer to that.           *)
Count(s, k) == Len(SelectSeq(s, LAMBDA x : x = k))

Done(c) ==
    /\ issued[c] # <<>>
    /\ issued[c][Len(issued[c])] = "disconnect"
    /\ Count(issued[c], "disconnect") = Count(received[c], [kind |-> "disconnect", from |-> c])

(* The client goes away; a closed socket answers what is still sent to it  *)
(* with a reset, which also discards what has not been read.               *)
Leave(c, how) ==
    /\ \/ peer[c] = "up"
       \/ peer[c] = "fin" /\ how = "reset"
    /\ Polite => Done(c)
    /\ peer' = [peer EXCEPT ![c] = how]
    /\ inbound' = IF how = "reset" THEN [inbound EXCEPT ![c] = <<>>] ELSE inbound
    /\ UNCHANGED <<issued, room, selector, selectorTasks, wakeup, buffers, acts, workers,
                   output, sends>>

-----------------------------------------------------------------------------
(* The selector's thread.                                                  *)

Readable(c) == inbound[c] # <<>> \/ peer[c] \in {"fin", "reset"}
Writable(c) == room[c] \/ peer[c] = "reset"

Ready(c) ==
    {op \in interest[c] : \/ op = "read" /\ Readable(c)
                          \/ op = "write" /\ Writable(c)}

Waiting == {c \in Conn : peer[c] # "off" /\ chan[c] = "none"}

ReadyKeys ==
    {[conn |-> c, ops |-> Ready(c)] : c \in {d \in Conn : chan[d] = "open" /\ Ready(d) # {}}}
    \cup (IF Waiting = {} THEN {} ELSE {AcceptKey})

Select ==
    /\ phase = "select"
    /\ wakeup \/ ReadyKeys # {}
    /\ selected' = ReadyKeys
    /\ wakeup' = FALSE
    /\ phase' = "tasks"
    /\ UNCHANGED <<net, current, chan, interest, selectorTasks, buffers, acts, workers,
                   output, sends>>

(* interestOps throws if the channel was closed meanwhile (its key is      *)
(* cancelled, or keyFor found none), which serve does not catch.           *)
RunTask ==
    /\ phase = "tasks"
    /\ selectorTasks # <<>>
    /\ LET c == Head(selectorTasks)
       IN  \/ /\ chan[c] = "open"
              /\ interest' = [interest EXCEPT ![c] = {"read", "write"}]
              /\ UNCHANGED phase
           \/ /\ chan[c] # "open"
              /\ phase' = "dead"
              /\ UNCHANGED interest
    /\ selectorTasks' = Tail(selectorTasks)
    /\ UNCHANGED <<net, selected, current, chan, wakeup, buffers, acts, workers, output, sends>>

(* Mistake: one task is run in a round.                                    *)
TasksDoneOne ==
    /\ phase = "tasks"
    /\ phase' = "keys"
    /\ UNCHANGED <<net, selected, current, chan, interest, selectorTasks, wakeup, buffers,
                   acts, workers, output, sends>>

TasksDone ==
    /\ phase = "tasks"
    /\ selectorTasks = <<>>
    /\ phase' = "keys"
    /\ UNCHANGED <<net, selected, current, chan, interest, selectorTasks, wakeup, buffers,
                   acts, workers, output, sends>>

(* Mistake: the channel is registered for nothing.                         *)
HandleAcceptDeaf(c) ==
    /\ phase = "keys"
    /\ AcceptKey \in selected
    /\ c \in Waiting
    /\ selected' = selected \ {AcceptKey}
    /\ chan' = [chan EXCEPT ![c] = "open"]
    /\ interest' = [interest EXCEPT ![c] = {}]
    /\ UNCHANGED <<net, phase, current, selectorTasks, wakeup, buffers, acts, workers, output,
                   sends>>

HandleAccept(c) ==
    /\ phase = "keys"
    /\ AcceptKey \in selected
    /\ c \in Waiting
    /\ selected' = selected \ {AcceptKey}
    /\ chan' = [chan EXCEPT ![c] = "open"]
    /\ interest' = [interest EXCEPT ![c] = {"read"}]
    /\ UNCHANGED <<net, phase, current, selectorTasks, wakeup, buffers, acts, workers, output,
                   sends>>

HandleReadWrite(k) ==
    /\ phase = "keys"
    /\ k \in selected \ {AcceptKey}
    /\ selected' = selected \ {k}
    /\ current' = k
    /\ phase' = IF "read" \in k.ops THEN "read" ELSE "write"
    /\ UNCHANGED <<net, chan, interest, selectorTasks, wakeup, buffers, acts, workers, output,
                   sends>>

KeysDone ==
    /\ phase = "keys"
    /\ selected = {}
    /\ phase' = "select"
    /\ UNCHANGED <<net, selected, current, chan, interest, selectorTasks, wakeup, buffers, acts,
                   workers, output, sends>>

-----------------------------------------------------------------------------
(* The key in hand is done, or its handler goes on.                        *)
NextKey == phase' = "keys" /\ current' = None
Proceed(p) == phase' = p /\ UNCHANGED current

(* continueRead: what the channel holds goes, in a leased buffer, to the   *)
(* pool; at the end of the stream, or if reading fails, the channel is     *)
(* closed (and the buffer released at once).                               *)

(* leaseBuffer: a free buffer, cleared, or a new one.                      *)
Leased == IF bufferPool = <<>> THEN Len(content) + 1 ELSE Head(bufferPool)

Lease(frames) ==
    \/ /\ bufferPool # <<>>
       /\ bufferPool' = Tail(bufferPool)
       /\ content' = [content EXCEPT ![Leased] = frames]
    \/ /\ bufferPool = <<>>
       /\ content' = Append(content, frames)
       /\ UNCHANGED bufferPool

ContinueRead ==
    LET c == current.conn
    IN  /\ phase = "read"
        /\ inbound[c] # <<>>
        /\ \E n \in 1..Len(inbound[c]) :
               /\ Lease(SubSeq(inbound[c], 1, n))
               /\ inbound' = [inbound EXCEPT ![c] = SubSeq(@, n + 1, Len(@))]
        /\ acts' = [acts EXCEPT ![c] = Append(@, Leased)]
        /\ IF "write" \in current.ops THEN Proceed("write") ELSE NextKey
        /\ UNCHANGED <<peer, issued, room, selected, chan, interest, selectorTasks,
                       wakeup, workers, output, sends>>

(* Mistake: a channel at its end is not closed.                            *)
ReadEndOpen ==
    /\ phase = "read"
    /\ inbound[current.conn] = <<>>
    /\ NextKey
    /\ UNCHANGED <<net, selected, chan, interest, selectorTasks, wakeup, buffers, acts,
                   workers, output, sends>>

ReadEnd ==
    LET c == current.conn
    IN  /\ phase = "read"
        /\ inbound[c] = <<>>
        /\ chan' = [chan EXCEPT ![c] = "closed"]
        /\ \/ /\ bufferPool # <<>>
              /\ bufferPool' = Append(Tail(bufferPool), Leased)
              /\ UNCHANGED content
           \/ /\ bufferPool = <<>>
              /\ bufferPool' = <<Leased>>
              /\ content' = Append(content, <<>>)
        /\ NextKey
        /\ UNCHANGED <<net, selected, interest, selectorTasks, wakeup, acts, workers,
                       output, sends>>

-----------------------------------------------------------------------------
(* continueWrite: the loop over writeQueue, the test of the queue after    *)
(* it, and updateInterestedOps on the selector's own thread.               *)

(* A message is written as a whole, and may fill the send buffer, ...      *)
WriteWhole ==
    LET c == current.conn
    IN  /\ phase = "write"
        /\ writeQueue[c] # <<>>
        /\ chan[c] = "open" /\ peer[c] # "reset" /\ room[c]
        /\ received' = [received EXCEPT ![c] = Append(@, Head(writeQueue[c]))]
        /\ writeQueue' = [writeQueue EXCEPT ![c] = Tail(@)]
        /\ half' = [half EXCEPT ![c] = FALSE]
        /\ \E r \in BOOLEAN : room' = [room EXCEPT ![c] = r]
        /\ UNCHANGED <<peer, issued, inbound, selector, selectorTasks, wakeup, buffers, acts,
                       workers, sends>>

(* Mistake: what was written in part is removed.                           *)
WritePartRemoves ==
    LET c == current.conn
    IN  /\ phase = "write"
        /\ writeQueue[c] # <<>>
        /\ chan[c] = "open" /\ peer[c] # "reset"
        /\ room' = [room EXCEPT ![c] = FALSE]
        /\ writeQueue' = [writeQueue EXCEPT ![c] = Tail(@)]
        /\ NextKey
        /\ UNCHANGED <<peer, issued, inbound, received, half, selected, chan, interest,
                       selectorTasks, wakeup, buffers, acts, workers, sends>>

(* ... or in part, or not at all: the method returns.                      *)
WritePart ==
    LET c == current.conn
    IN  /\ phase = "write"
        /\ writeQueue[c] # <<>>
        /\ chan[c] = "open" /\ peer[c] # "reset"
        /\ room[c] => ~half[c]
        /\ half' = [half EXCEPT ![c] = half[c] \/ room[c]]
        /\ room' = [room EXCEPT ![c] = FALSE]
        /\ NextKey
        /\ UNCHANGED <<peer, issued, inbound, received, writeQueue, selected, chan,
                       interest, selectorTasks, wakeup, buffers, acts, workers, sends>>

(* Writing throws: the handler closes the channel and the loop goes on.    *)
(* The queue keeps its top, so every further write throws as well: the     *)
(* thread is Spinning for ever, a step that changes nothing.               *)
WriteFails ==
    LET c == current.conn
    IN  /\ phase = "write"
        /\ writeQueue[c] # <<>>
        /\ chan[c] = "open" /\ peer[c] = "reset"
        /\ chan' = [chan EXCEPT ![c] = "closed"]
        /\ UNCHANGED <<net, phase, selected, current, interest, selectorTasks, wakeup, buffers,
                       acts, workers, output, sends>>

Spinning == phase = "write" /\ chan[current.conn] = "closed" /\ writeQueue[current.conn] # <<>>

WriteDone ==
    /\ phase = "write"
    /\ writeQueue[current.conn] = <<>>
    /\ Proceed("check")
    /\ UNCHANGED <<net, selected, chan, interest, selectorTasks, wakeup, buffers, acts,
                   workers, output, sends>>

WriteCheck ==
    /\ phase = "check"
    /\ IF writeQueue[current.conn] = <<>> THEN Proceed("update") ELSE NextKey
    /\ UNCHANGED <<net, selected, chan, interest, selectorTasks, wakeup, buffers, acts,
                   workers, output, sends>>

WriteUpdate ==
    /\ phase = "update"
    /\ interest' = [interest EXCEPT ![current.conn] = {"read"}]
    /\ NextKey
    /\ UNCHANGED <<net, selected, chan, selectorTasks, wakeup, buffers, acts, workers,
                   output, sends>>

-----------------------------------------------------------------------------
(* The workers.                                                            *)

Busy == {act[w] : w \in {v \in Worker : wpc[v] # "idle"}}

(* Mistake: a handler's tasks may run at the same time.                    *)
StartAny(w, c) ==
    /\ wpc[w] = "idle"
    /\ acts[c] # <<>>
    /\ act' = [act EXCEPT ![w] = c]
    /\ buf' = [buf EXCEPT ![w] = Head(acts[c])]
    /\ acts' = [acts EXCEPT ![c] = Tail(@)]
    /\ wpc' = [wpc EXCEPT ![w] = "process"]
    /\ UNCHANGED <<net, selector, selectorTasks, wakeup, buffers, to, at, message, joined,
                   processed, output, sends>>

Start(w, c) ==
    /\ wpc[w] = "idle"
    /\ acts[c] # <<>>
    /\ c \notin Busy
    /\ act' = [act EXCEPT ![w] = c]
    /\ buf' = [buf EXCEPT ![w] = Head(acts[c])]
    /\ acts' = [acts EXCEPT ![c] = Tail(@)]
    /\ wpc' = [wpc EXCEPT ![w] = "process"]
    /\ UNCHANGED <<net, selector, selectorTasks, wakeup, buffers, to, at, message, joined,
                   processed, output, sends>>

(* A broadcast holds the registry's monitors until its last send returns.  *)
Broadcasting(w) == wpc[w] \in {"send", "update", "wakeup"} /\ message[w].kind = "send"
RegistryFree == \A w \in Worker : ~Broadcasting(w)

(* Who is sent something, and who is joined, after a frame of c.  A        *)
(* subscribe stands for the CONNECT before it, too.                        *)
Recipients(k, c) == IF k = "send" THEN joined \ {c} ELSE {c}

JoinedAfter(k, c) ==
    CASE k = "subscribe"  -> joined \cup {c}
      [] k = "disconnect" -> joined \ {c}
      [] OTHER            -> joined

(* The next frame of the buffer is decoded and processed ...               *)
Process(w) ==
    LET c == act[w]
        k == Head(content[buf[w]])
    IN  /\ wpc[w] = "process"
        /\ content[buf[w]] # <<>>
        /\ k # "bad"
        /\ RegistryFree
        /\ content' = [content EXCEPT ![buf[w]] = Tail(@)]
        /\ processed' = [processed EXCEPT ![c] = Append(@, k)]
        /\ joined' = JoinedAfter(k, c)
        /\ to' = [to EXCEPT ![w] = Recipients(k, c)]
        /\ \/ /\ Recipients(k, c) = {}
              /\ UNCHANGED <<wpc, message>>
           \/ /\ Recipients(k, c) # {}
              /\ wpc' = [wpc EXCEPT ![w] = "send"]
              /\ message' = [message EXCEPT ![w] = [kind |-> k, from |-> c]]
        /\ UNCHANGED <<net, selector, selectorTasks, wakeup, bufferPool, acts, act, buf, at,
                       output, sends>>

(* The worker leaves the task, whose locals are gone.                      *)
Idle(w) ==
    /\ wpc' = [wpc EXCEPT ![w] = "idle"]
    /\ act' = [act EXCEPT ![w] = None]
    /\ buf' = [buf EXCEPT ![w] = 0]

(* Mistake: the buffer is only released when all went well.                *)
ProcessThrowsKeeps(w) ==
    /\ wpc[w] = "process"
    /\ content[buf[w]] # <<>>
    /\ Head(content[buf[w]]) = "bad"
    /\ Idle(w)
    /\ UNCHANGED <<net, selector, selectorTasks, wakeup, buffers, acts, to, at, message, joined,
                   processed, output, sends>>

(* ... unless that throws: the buffer is released, what is left in it is   *)
(* never looked at.                                                        *)
ProcessThrows(w) ==
    /\ wpc[w] = "process"
    /\ content[buf[w]] # <<>>
    /\ Head(content[buf[w]]) = "bad"
    /\ bufferPool' = Append(bufferPool, buf[w])
    /\ content' = [content EXCEPT ![buf[w]] = <<>>]
    /\ Idle(w)
    /\ UNCHANGED <<net, selector, selectorTasks, wakeup, acts, to, at, message, joined,
                   processed, output, sends>>

(* The end of the task, and with it of the act (see ActorThreadPool).      *)
Release(w) ==
    /\ wpc[w] = "process"
    /\ content[buf[w]] = <<>>
    /\ bufferPool' = Append(bufferPool, buf[w])
    /\ content' = [content EXCEPT ![buf[w]] = <<>>]
    /\ Idle(w)
    /\ UNCHANGED <<net, selector, selectorTasks, wakeup, acts, to, at, message, joined,
                   processed, output, sends>>

(* send of the handler of c: queue the message, ...                        *)
SendAdd(w, c) ==
    /\ wpc[w] = "send"
    /\ c \in to[w]
    /\ writeQueue' = [writeQueue EXCEPT ![c] = Append(@, message[w])]
    /\ sends' = [sends EXCEPT ![c] = Append(@, message[w])]
    /\ at' = [at EXCEPT ![w] = c]
    /\ to' = [to EXCEPT ![w] = @ \ {c}]
    /\ wpc' = [wpc EXCEPT ![w] = "update"]
    /\ UNCHANGED <<net, selector, selectorTasks, wakeup, buffers, acts, act, buf, message,
                   joined, processed, half, received>>

(* Mistake: OP_WRITE is only asked for when the key does not have it.      *)
SendUpdateUnlessWriting(w) ==
    /\ wpc[w] = "update"
    /\ selectorTasks' = IF "write" \in interest[at[w]] THEN selectorTasks
                        ELSE Append(selectorTasks, at[w])
    /\ wpc' = [wpc EXCEPT ![w] = "wakeup"]
    /\ at' = [at EXCEPT ![w] = None]
    /\ UNCHANGED <<net, selector, wakeup, buffers, acts, act, buf, to, message, joined,
                   processed, output, sends>>

(* ... leave a task for the selector's thread, ...                         *)
SendUpdate(w) ==
    /\ wpc[w] = "update"
    /\ selectorTasks' = Append(selectorTasks, at[w])
    /\ wpc' = [wpc EXCEPT ![w] = "wakeup"]
    /\ at' = [at EXCEPT ![w] = None]
    /\ UNCHANGED <<net, selector, wakeup, buffers, acts, act, buf, to, message, joined,
                   processed, output, sends>>

(* Mistake: the selector is not woken.                                     *)
SendNoWakeup(w) ==
    /\ wpc[w] = "wakeup"
    /\ \/ /\ to[w] = {}
          /\ wpc' = [wpc EXCEPT ![w] = "process"]
          /\ message' = [message EXCEPT ![w] = NoMessage]
       \/ /\ to[w] # {}
          /\ wpc' = [wpc EXCEPT ![w] = "send"]
          /\ UNCHANGED message
    /\ UNCHANGED <<net, selector, selectorTasks, wakeup, buffers, acts, act, buf, to, at, joined,
                   processed, output, sends>>

(* ... and wake it.                                                        *)
SendWakeup(w) ==
    /\ wpc[w] = "wakeup"
    /\ wakeup' = TRUE
    /\ \/ /\ to[w] = {}
          /\ wpc' = [wpc EXCEPT ![w] = "process"]
          /\ message' = [message EXCEPT ![w] = NoMessage]
       \/ /\ to[w] # {}
          /\ wpc' = [wpc EXCEPT ![w] = "send"]
          /\ UNCHANGED message
    /\ UNCHANGED <<net, selector, selectorTasks, buffers, acts, act, buf, to, at, joined,
                   processed, output, sends>>

-----------------------------------------------------------------------------
ClientStep(c) ==
    \/ Arrive(c)
    \/ \E k \in Kinds : Issue(c, k)
    \/ Drain(c)
    \/ \E how \in Leaving[c] : Leave(c, how)

WriteStep ==
    WriteWhole \/ WritePart \/ WriteFails \/ WriteDone \/ WriteCheck \/ WriteUpdate

SelectorStep ==
    \/ Select \/ RunTask \/ TasksDone \/ KeysDone
    \/ \E c \in Conn : HandleAccept(c)
    \/ \E k \in selected : HandleReadWrite(k)
    \/ ContinueRead \/ ReadEnd
    \/ WriteStep

WorkerStep(w) ==
    \/ \E c \in Conn : Start(w, c) \/ SendAdd(w, c)
    \/ Process(w) \/ ProcessThrows(w) \/ Release(w)
    \/ SendUpdate(w) \/ SendWakeup(w)

Next ==
    \/ \E c \in Conn : ClientStep(c)
    \/ SelectorStep
    \/ \E w \in Worker : WorkerStep(w)

Spec == Init /\ [][Next]_vars

(* The selector's thread and the workers are scheduled, and clients read   *)
(* what they are sent.  Nobody has to send anything, or to leave.          *)
Fairness ==
    /\ WF_vars(SelectorStep)
    /\ \A w \in Worker : WF_vars(WorkerStep(w))
    /\ \A c \in Conn : WF_vars(Drain(c))

FairSpec == Spec /\ Fairness

-----------------------------------------------------------------------------
Buffer == 1..Len(content)

TypeOK ==
    /\ peer \in [Conn -> {"off", "up", "fin", "reset"}]
    /\ issued \in [Conn -> Seq(Kinds)]
    /\ inbound \in [Conn -> Seq(Kinds)]
    /\ room \in [Conn -> BOOLEAN]
    /\ received \in [Conn -> Seq(Message)]
    /\ phase \in Phase
    /\ selected \in SUBSET (Key \cup {AcceptKey})
    /\ current \in Key \cup {None}
    /\ phase \in {"read", "write", "check", "update"} => current \in Key
    /\ chan \in [Conn -> {"none", "open", "closed"}]
    /\ interest \in [Conn -> SUBSET Ops]
    /\ selectorTasks \in Seq(Conn)
    /\ wakeup \in BOOLEAN
    /\ writeQueue \in [Conn -> Seq(Message)]
    /\ half \in [Conn -> BOOLEAN]
    /\ content \in Seq(Seq(Kinds))
    /\ bufferPool \in Seq(Buffer)
    /\ acts \in [Conn -> Seq(Buffer)]
    /\ wpc \in [Worker -> {"idle", "process", "send", "update", "wakeup"}]
    /\ act \in [Worker -> Conn \cup {None}]
    /\ buf \in [Worker -> Buffer \cup {0}]
    /\ to \in [Worker -> SUBSET Conn]
    /\ at \in [Worker -> Conn \cup {None}]
    /\ message \in [Worker -> Message \cup {NoMessage}]
    /\ joined \in SUBSET Conn
    /\ processed \in [Conn -> Seq(Kinds)]
    /\ sends \in [Conn -> Seq(Message)]

(* What was queued for a client is not forgotten: the key of an open       *)
(* channel with queued messages wants OP_WRITE, or a task that makes it so *)
(* is queued or about to be.  The selector's thread takes OP_WRITE away    *)
(* after looking at the queue (NonBlockingConnectionHandler.java:106-108)  *)
(* while workers add to it (128-129).                                      *)
Asked(c) ==
    \/ \E i \in 1..Len(selectorTasks) : selectorTasks[i] = c
    \/ \E w \in Worker : wpc[w] = "update" /\ at[w] = c

NoneForgotten ==
    \A c \in Conn :
        writeQueue[c] # <<>> /\ chan[c] = "open" /\ phase # "dead" =>
            "write" \in interest[c] \/ Asked(c)

(* The selector's thread does not sleep on tasks: outside of               *)
(* runSelectionThreadTasks, tasks in the queue come with a wakeup, given   *)
(* or about to be given (Reactor.java:94-97 against 60-61).                *)
WokenForTasks ==
    phase \notin {"tasks", "dead"} /\ selectorTasks # <<>> =>
        wakeup \/ \E w \in Worker : wpc[w] = "wakeup"

(* Every buffer is in one place: free, in one task that waits, or in the   *)
(* hands of one worker, so that no two tasks share one and none is lost,   *)
(* even if a task throws (NonBlockingConnectionHandler.java:66-68).        *)
Free(b)  == {<<"free", i>> : i \in {j \in 1..Len(bufferPool) : bufferPool[j] = b}}
Waits(b) == UNION {{<<"waits", c, i>> : i \in {j \in 1..Len(acts[c]) : acts[c][j] = b}} : c \in Conn}
Held(b)  == {<<"held", w>> : w \in {v \in Worker : wpc[v] # "idle" /\ buf[v] = b}}

BuffersAccounted ==
    \A b \in Buffer : \E p \in Free(b) \cup Waits(b) \cup Held(b) :
        Free(b) \cup Waits(b) \cup Held(b) = {p}

(* Frames reach the protocol in the order the client sent them, each once, *)
(* whatever the interleaving of reads and workers, as long as none throws. *)
Inbound == INSTANCE FramePipe WITH Item <- Kinds, given <- issued, taken <- processed
InboundPipe == Inbound!Spec

(* Messages are written to a client in the order of the sends, each once,  *)
(* whatever the channel takes at a time.                                   *)
Outbound == INSTANCE FramePipe WITH Item <- Message, given <- sends, taken <- received
OutboundPipe == Outbound!Spec

(* The selector's thread no longer serves: it ended, or it spins.          *)
Lost == phase = "dead" \/ Spinning

(* Everything queued for a client that stays is written to it, however the *)
(* selector's thread and the workers race for OP_WRITE, the tasks and the  *)
(* wakeup (Reactor.java:89-99, NonBlockingConnectionHandler.java:90-110).  *)
EveryMessageWritten ==
    \A c \in Conn :
        writeQueue[c] # <<>> ~> writeQueue[c] = <<>> \/ peer[c] # "up" \/ Lost

(* Every frame of a client that stays is processed, unless one of them     *)
(* throws: what is in the same buffer behind it is dropped.                *)
Throws(c) == \E i \in 1..Len(issued[c]) : issued[c][i] = "bad"

EveryFrameProcessed ==
    \A c \in Conn :
        processed[c] # issued[c] ~>
            processed[c] = issued[c] \/ Throws(c) \/ peer[c] # "up" \/ Lost

(* The channel of a client that went away is closed some time, unless the  *)
(* selector's thread has come to an end or spins.                          *)
GoneAreClosed ==
    \A c \in Conn :
        peer[c] \in {"fin", "reset"} /\ chan[c] = "open" ~>
            chan[c] = "closed" \/ Lost

(* Server.java:13 says of serve: "The main loop of the server, Starts      *)
(* listening and handling new clients."  What clients do does not end it.  *)
KeepsServing == phase # "dead"

-----------------------------------------------------------------------------
(* The invariant from which the proofs follow (Reactor_proofs.tla).        *)

(* Only accepted connections take part in anything.                        *)
Accepted == {c \in Conn : chan[c] # "none"}

OnlyAccepted ==
    /\ \A k \in selected : k # AcceptKey => k.conn \in Accepted
    /\ phase \in {"read", "write", "check", "update"} => current.conn \in Accepted
    /\ joined \subseteq Accepted
    /\ \A w \in Worker : to[w] \subseteq Accepted
    /\ \A w \in Worker : wpc[w] # "idle" => act[w] \in Accepted
    /\ \A c \in Conn : chan[c] = "none" => writeQueue[c] = <<>> /\ acts[c] = <<>>

(* A worker has the locals its place in the code needs.                    *)
Locals ==
    \A w \in Worker :
        /\ wpc[w] # "idle" => buf[w] \in Buffer
        /\ wpc[w] \in {"send", "update", "wakeup"} => message[w] \in Message
        /\ wpc[w] = "update" => at[w] \in Conn

(* While the selector's thread is about to take OP_WRITE away, whatever    *)
(* was added since it looked is asked for again.                           *)
AskedAgain ==
    phase = "update" /\ writeQueue[current.conn] # <<>> => Asked(current.conn)

(* What was sent is what has been written and what is queued.              *)
OnItsWay(s, r, q) ==
    /\ Len(s) = Len(r) + Len(q)
    /\ \A i \in 1..Len(q) : s[Len(r) + i] = q[i]

Conserved == \A c \in Conn : OnItsWay(sends[c], received[c], writeQueue[c])

ReactorInv ==
    TypeOK /\ OnlyAccepted /\ Locals /\ NoneForgotten /\ AskedAgain /\ WokenForTasks /\ Conserved

(* No buffer is twice in the pool, among the tasks or with the workers, or *)
(* in two of these.                                                        *)
Elements(s) == {s[i] : i \in 1..Len(s)}
NoTwice(s)  == \A i, j \in 1..Len(s) : s[i] = s[j] => i = j

BuffersSeparate ==
    /\ NoTwice(bufferPool)
    /\ \A c \in Conn : NoTwice(acts[c]) /\ Elements(acts[c]) \cap Elements(bufferPool) = {}
    /\ \A c, d \in Conn : c # d => Elements(acts[c]) \cap Elements(acts[d]) = {}
    /\ \A w \in Worker : wpc[w] # "idle" =>
          /\ buf[w] \notin Elements(bufferPool)
          /\ \A c \in Conn : buf[w] \notin Elements(acts[c])
          /\ \A v \in Worker \ {w} : wpc[v] # "idle" => buf[v] # buf[w]

BuffersKept ==
    \A b \in Buffer :
        \/ b \in Elements(bufferPool)
        \/ \E c \in Conn : b \in Elements(acts[c])
        \/ \E w \in Worker : wpc[w] # "idle" /\ buf[w] = b

BuffersInv == BuffersSeparate /\ BuffersKept

(* From some place in what a client sent to another is a piece of it.  The *)
(* frames a worker has in hand follow those processed, then come the       *)
(* waiting buffers one after the other, and then what is in the channel:   *)
(* all the rest, unless the client has reset it.                           *)
OneTaskEach ==
    \A w, v \in Worker : wpc[w] # "idle" /\ wpc[v] # "idle" /\ act[w] = act[v] => w = v

Piece(all, s, from, upto) ==
    upto = from + Len(s) /\ \A i \in 1..Len(s) : all[from + i] = s[i]

InOrder(c, from, last) ==
    /\ Piece(issued[c], processed[c], 0, from[0])
    /\ c \notin Busy => from[1] = from[0]
    /\ \A w \in Worker : wpc[w] # "idle" /\ act[w] = c =>
          Piece(issued[c], content[buf[w]], from[0], from[1])
    /\ \A k \in 1..Len(acts[c]) : Piece(issued[c], content[acts[c][k]], from[k], from[k + 1])
    /\ Piece(issued[c], inbound[c], from[Len(acts[c]) + 1], last)
    /\ peer[c] # "reset" => last = Len(issued[c])

FramesInOrder(c) ==
    \E last \in 0..Len(issued[c]) :
    \E from \in [0..Len(acts[c]) + 1 -> 0..Len(issued[c])] : InOrder(c, from, last)

InboundInv ==
    OneTaskEach /\ ("bad" \notin Kinds => \A c \in Conn : FramesInOrder(c))
=============================================================================
