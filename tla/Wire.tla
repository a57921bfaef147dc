-------------------------------- MODULE Wire --------------------------------
(***************************************************************************)
(* The bytes below the frames of one connection: the client's main thread  *)
(* writes frames and its socket thread reads them                          *)
(* (client/src/ConnectionHandler.cpp), the server's thread of the          *)
(* connection reads, decodes and answers, and threads of other connections *)
(* broadcast to it, one at a time, because the registry's monitors are     *)
(* held (BlockingConnectionHandler.java, LineMessageEncoderDecoder.java).  *)
(*                                                                         *)
(* A socket holds a bounded number of bytes each way, takes and gives as   *)
(* many as it likes at a time, and may break, which loses an end of what   *)
(* it holds.  send uses a field of the handler, out, three times; two      *)
(* threads may be in it at once.  A stream of its own per thread is enough:*)
(* the one a thread made before cannot be reached any more.  The buffers   *)
(* of the streams are large enough for what is put in (8192 bytes), so     *)
(* that only flush touches the socket, which takes a buffer in one piece,  *)
(* the write lock of the socket being held.                                *)
(***************************************************************************)
EXTENDS Naturals, Sequences, FiniteSets

CONSTANTS
    MaxFrames,      (* bound: frames the client sends                      *)
    MaxBroadcasts,  (* bound: messages others broadcast to it              *)
    UpRoom,         (* bytes the socket holds on the way to the server     *)
    DownRoom,       (* ... and to the client: two messages at least        *)
    MayBreak        (* the connection may break                            *)

ASSUME WireAssumption ==
    /\ MaxFrames \in Nat /\ MaxBroadcasts \in Nat
    /\ UpRoom \in Nat \ {0}
    /\ DownRoom \in Nat /\ DownRoom >= 8
    /\ MayBreak \in BOOLEAN

VARIABLES
    up, down,   (* bytes in the socket, to the server and to the client    *)
    broken,
    writing,    (* bytes the client's main thread has to write yet         *)
    submitted,  (* frames it was given                                     *)
    decoder,    (* bytes of the frame the server is reading                *)
    processed,  (* frames the server has processed                         *)
    place,      (* where each of the server's threads is in send           *)
    out,        (* the thread that made the stream out refers to           *)
    buffer,     (* the bytes in each thread's stream                       *)
    sent,       (* messages send was called with                           *)
    overlapped, (* two threads have been in send at once                   *)
    frame,      (* bytes of the frame the client is reading                *)
    got         (* frames the client has taken apart                       *)

socket == <<up, down, broken>>
main   == <<writing, submitted>>
input  == <<decoder, processed>>
output == <<place, out, buffer, sent, overlapped>>
reader == <<frame, got>>
vars   == <<socket, main, input, output, reader>>

Thread == {"own", "other"}

NUL == <<"nul", 0, 0>>
LF  == <<"lf", 0, 0>>

(* Frames and messages are two bytes long, and no two share a byte.        *)
FrameBytes(n)      == << <<"frame", n, 1>>, <<"frame", n, 2>> >>
MessageBytes(t, n) == << <<t, n, 1>>, <<t, n, 2>> >>

Frames   == {FrameBytes(n) : n \in 1..MaxFrames}
Messages == {MessageBytes("own", n) : n \in 1..MaxFrames}
            \cup {MessageBytes("other", n) : n \in 1..MaxBroadcasts}

Init ==
    /\ up = <<>> /\ down = <<>> /\ broken = FALSE
    /\ writing = <<>> /\ submitted = <<>>
    /\ decoder = <<>> /\ processed = <<>>
    /\ place = [t \in Thread |-> "idle"]
    /\ out = "own"
    /\ buffer = [t \in Thread |-> <<>>]
    /\ sent = <<>>
    /\ overlapped = FALSE
    /\ frame = <<>> /\ got = <<>>

-----------------------------------------------------------------------------
(* The client's main thread.                                               *)

(* sendFrameAscii(frame, NUL).                                             *)
SendFrame ==
    /\ writing = <<>>
    /\ Len(submitted) < MaxFrames
    /\ LET f == FrameBytes(Len(submitted) + 1)
       IN  /\ submitted' = Append(submitted, f)
           /\ writing' = Append(f, NUL)
    /\ UNCHANGED <<socket, input, output, reader>>

(* Mistake: every piece is taken from the front.                           *)
WriteSomeFromStart ==
    /\ ~broken
    /\ \E n \in 1..Len(writing) :
          /\ Len(up) + n <= UpRoom
          /\ up' = up \o SubSeq(writing, 1, n)
          /\ writing' = SubSeq(writing, 1, Len(writing) - n)
    /\ UNCHANGED <<down, broken, submitted, input, output, reader>>

(* write_some takes what there is room for, or less.                       *)
WriteSome ==
    /\ ~broken
    /\ \E n \in 1..Len(writing) :
          /\ Len(up) + n <= UpRoom
          /\ up' = up \o SubSeq(writing, 1, n)
          /\ writing' = SubSeq(writing, n + 1, Len(writing))
    /\ UNCHANGED <<down, broken, submitted, input, output, reader>>

(* ... or fails: the rest of the frame is given up.                        *)
WriteFails ==
    /\ broken
    /\ writing # <<>>
    /\ writing' = <<>>
    /\ UNCHANGED <<socket, submitted, input, output, reader>>

-----------------------------------------------------------------------------
(* The server's thread of the connection.                                  *)

Calls(t, message) ==
    /\ place' = [place EXCEPT ![t] = "new"]
    /\ sent' = Append(sent, message)
    /\ overlapped' = (overlapped \/ \E other \in Thread \ {t} : place[other] # "idle")
    /\ UNCHANGED <<out, buffer>>

PushByte ==
    /\ place["own"] = "idle"
    /\ up # <<>> /\ up[1] # NUL
    /\ up' = Tail(up)
    /\ decoder' = Append(decoder, up[1])
    /\ UNCHANGED <<down, broken, main, processed, output, reader>>

(* Mistake: the length is not set back.                                    *)
PopStringKeeps ==
    /\ place["own"] = "idle"
    /\ up # <<>> /\ up[1] = NUL
    /\ up' = Tail(up)
    /\ processed' = Append(processed, decoder)
    /\ Calls("own", MessageBytes("own", Len(processed) + 1))
    /\ UNCHANGED <<down, broken, main, decoder, reader>>

(* popString, and process, which ends with the answer.                     *)
PopString ==
    /\ place["own"] = "idle"
    /\ up # <<>> /\ up[1] = NUL
    /\ up' = Tail(up)
    /\ decoder' = <<>>
    /\ processed' = Append(processed, decoder)
    /\ Calls("own", MessageBytes("own", Len(processed) + 1))
    /\ UNCHANGED <<down, broken, main, reader>>

(* Another connection's thread broadcasts.                                 *)
Called(t) == Cardinality({i \in DOMAIN sent : sent[i][1][1] = t})

Broadcast ==
    /\ place["other"] = "idle"
    /\ Called("other") < MaxBroadcasts
    /\ Calls("other", MessageBytes("other", Called("other") + 1))
    /\ UNCHANGED <<socket, main, input, reader>>

(* What the thread called send with.                                       *)
LastOf(t) ==
    sent[CHOOSE i \in DOMAIN sent :
            sent[i][1][1] = t /\ \A j \in DOMAIN sent : j > i => sent[j][1][1] # t]

(* out = new BufferedOutputStream(sock.getOutputStream()).                 *)
SendNew(t) ==
    /\ place[t] = "new"
    /\ out' = t
    /\ buffer' = [buffer EXCEPT ![t] = <<>>]
    /\ place' = [place EXCEPT ![t] = "write"]
    /\ UNCHANGED <<socket, main, input, sent, overlapped, reader>>

(* The message ends with a NUL of its own; encode adds a newline.          *)
Encode(message) == message \o <<NUL, LF>>

(* out.write(encdec.encode(msg)).                                          *)
SendWrite(t) ==
    /\ place[t] = "write"
    /\ buffer' = [buffer EXCEPT ![out] = @ \o Encode(LastOf(t))]
    /\ place' = [place EXCEPT ![t] = "flush"]
    /\ UNCHANGED <<socket, main, input, out, sent, overlapped, reader>>

(* Mistake: what was flushed stays in the buffer.                          *)
SendFlushKeeps(t) ==
    /\ place[t] = "flush"
    /\ ~broken
    /\ Len(down) + Len(buffer[out]) <= DownRoom
    /\ down' = down \o buffer[out]
    /\ place' = [place EXCEPT ![t] = "idle"]
    /\ UNCHANGED <<up, broken, main, input, out, buffer, sent, overlapped, reader>>

(* out.flush(): waits for room in the socket; of a broken one it throws,   *)
(* and send only prints that.                                              *)
SendFlush(t) ==
    /\ place[t] = "flush"
    /\ IF broken
       THEN UNCHANGED <<down, buffer>>
       ELSE /\ Len(down) + Len(buffer[out]) <= DownRoom
            /\ down' = down \o buffer[out]
            /\ buffer' = [buffer EXCEPT ![out] = <<>>]
    /\ place' = [place EXCEPT ![t] = "idle"]
    /\ UNCHANGED <<up, broken, main, input, out, sent, overlapped, reader>>

-----------------------------------------------------------------------------
(* The client's socket thread: getFrameAscii(frame, NUL).                  *)

(* Mistake: one thread for both, which reads when it has nothing to write. *)
GetByteBetween ==
    /\ writing = <<>>
    /\ down # <<>> /\ down[1] # NUL
    /\ down' = Tail(down)
    /\ frame' = Append(frame, down[1])
    /\ UNCHANGED <<up, broken, main, input, output, got>>

GetByte ==
    /\ down # <<>> /\ down[1] # NUL
    /\ down' = Tail(down)
    /\ frame' = Append(frame, down[1])
    /\ UNCHANGED <<up, broken, main, input, output, got>>

(* Mistake: nothing is skipped.                                            *)
Untrimmed(bytes) == bytes

(* What comes before the first capital letter is skipped: the newline that *)
(* ended the message before.                                               *)
Trimmed(bytes) == IF bytes # <<>> /\ bytes[1] = LF THEN Tail(bytes) ELSE bytes

GetFrame ==
    /\ down # <<>> /\ down[1] = NUL
    /\ down' = Tail(down)
    /\ frame' = <<>>
    /\ got' = Append(got, Trimmed(frame))
    /\ UNCHANGED <<up, broken, main, input, output>>

Break ==
    /\ MayBreak
    /\ ~broken
    /\ broken' = TRUE
    /\ \E m \in 0..Len(up), n \in 0..Len(down) :
          /\ up' = SubSeq(up, 1, m)
          /\ down' = SubSeq(down, 1, n)
    /\ UNCHANGED <<main, input, output, reader>>

-----------------------------------------------------------------------------
MainStep   == WriteSome \/ WriteFails
ServerStep(t) == SendNew(t) \/ SendWrite(t) \/ SendFlush(t)
RunStep    == PushByte \/ PopString
SocketStep == GetByte \/ GetFrame

Next ==
    \/ SendFrame \/ MainStep \/ RunStep \/ Broadcast
    \/ \E t \in Thread : ServerStep(t)
    \/ SocketStep \/ Break

(* All threads that have something to do go on; the socket thread is one of*)
(* its own, so that the client reads whatever its main thread is up to.    *)
Fairness ==
    /\ WF_vars(MainStep) /\ WF_vars(RunStep) /\ WF_vars(SocketStep)
    /\ \A t \in Thread : WF_vars(ServerStep(t))

Spec == Init /\ [][Next]_vars /\ Fairness

TypeOK ==
    /\ Len(up) <= UpRoom /\ Len(down) <= DownRoom
    /\ broken \in BOOLEAN
    /\ submitted \in Seq(Frames)
    /\ Len(decoder) <= 2 /\ Len(frame) <= 3
    /\ place \in [Thread -> {"idle", "new", "write", "flush"}]
    /\ out \in Thread
    /\ sent \in Seq(Messages)
    /\ overlapped \in BOOLEAN

-----------------------------------------------------------------------------
(* Frames come out of the server's decoder as they went into               *)
(* sendFrameAscii, in order, none skipped, none twice, in whatever pieces  *)
(* the sockets take them and wherever the connection breaks                *)
(* (ConnectionHandler.cpp:51-65, 95-99).                                   *)
Up == INSTANCE FramePipe WITH
    Conn <- {"client"}, Item <- Frames,
    given <- [c \in {"client"} |-> submitted], taken <- [c \in {"client"} |-> processed]

InboundFrames == Up!Spec

(* So do messages on the way to the client, as long as no two threads were *)
(* ever in send at once (BlockingConnectionHandler.java:66-68).            *)
Down == INSTANCE FramePipe WITH
    Conn <- {"client"}, Item <- Messages,
    given <- [c \in {"client"} |-> sent], taken <- [c \in {"client"} |-> got]

OutboundUnlessOverlapped == Down!Init /\ [][overlapped' \/ Down!Next]_<<sent, got>>

(* When they were, messages can be lost, but no more than that: what the   *)
(* client takes apart are whole messages, each once, and those of one      *)
(* thread in order.                                                        *)
LostAtWorst ==
    /\ \A i \in DOMAIN got : \E k \in DOMAIN sent : got[i] = sent[k]
    /\ \A i, j \in DOMAIN got :
          i < j /\ got[i][1][1] = got[j][1][1] => got[i][1][2] < got[j][1][2]

(* Nobody blocks for ever on a full socket: not the client that writes     *)
(* while the server answers, and not a broadcast, which would keep the     *)
(* registry locked meanwhile (BlockingConnectionHandler.java:67-68).       *)
EveryWriteReturns ==
    /\ writing # <<>> ~> writing = <<>>
    /\ \A t \in Thread : place[t] # "idle" ~> place[t] = "idle"

-----------------------------------------------------------------------------
(* The invariants from which the proofs follow (Wire_proofs.tla).          *)

(* Texts of one size, one after the other: the number of the j-th byte of  *)
(* the n-th, and a piece of them that follows the byte of a number.        *)
Byte == {"nul", "lf", "frame", "own", "other"} \X Nat \X Nat

Number(n, j, size) == size * (n - 1) + j

Spells(bytes, from, texts, size) ==
    \A i \in 1..Len(bytes), n \in DOMAIN texts, j \in 1..size :
        from + i = Number(n, j, size) => bytes[i] = texts[n][j]

(* The server has read some bytes of the frames, the socket holds the      *)
(* following ones, and while it is whole the rest of what was submitted is *)
(* what the main thread has to write yet.                                  *)
Framed == [n \in 1..MaxFrames |-> Append(FrameBytes(n), NUL)]

Read == 3 * Len(processed) + Len(decoder)

UpTypes ==
    /\ up \in Seq(Byte) /\ writing \in Seq(Byte) /\ decoder \in Seq(Byte)
    /\ submitted \in Seq(Frames) /\ processed \in Seq(Frames)
    /\ Len(submitted) <= MaxFrames

UpInv ==
    /\ UpTypes
    /\ \A n \in 1..Len(submitted) : submitted[n] = FrameBytes(n)
    /\ \A n \in 1..Len(processed) : processed[n] = FrameBytes(n)
    /\ Len(decoder) <= 2
    /\ \A j \in 1..Len(decoder) : decoder[j] = FrameBytes(Len(processed) + 1)[j]
    /\ Spells(up, Read, Framed, 3)
    /\ Read + Len(up) <= 3 * Len(submitted)
    /\ ~broken =>
          /\ Spells(writing, Read + Len(up), Framed, 3)
          /\ Read + Len(up) + Len(writing) = 3 * Len(submitted)

(* What the threads called send with.                                      *)
CalledInOrder ==
    /\ sent \in Seq(Messages)
    /\ Called("own") = Len(processed)
    /\ \A t \in Thread, i \in 1..Len(sent) :
          sent[i][1][1] = t => sent[i][1][2] <= Called(t)
    /\ \A t \in Thread : place[t] # "idle" =>
          \E i \in 1..Len(sent) :
              /\ sent[i] = MessageBytes(t, Called(t))
              /\ \A j \in 1..Len(sent) : j > i => sent[j][1][1] # t

(* Some messages get as far as the stream that out refers to: those the    *)
(* client has taken apart and those it is reading, that the socket holds,  *)
(* or that are in the stream, unless the socket is broken.  They are whole *)
(* when they get there.                                                    *)
Encoded(q) == [n \in DOMAIN q |-> Encode(q[n])]

Skipped == IF got = <<>> THEN 0 ELSE 4 * Len(got) - 1

OnTheWay(q) ==
    /\ Len(got) <= Len(q) /\ \A n \in 1..Len(got) : got[n] = q[n]
    /\ Spells(frame, Skipped, Encoded(q), 4)
    /\ Spells(down, Skipped + Len(frame), Encoded(q), 4)
    /\ \A i \in 1..Len(frame) : frame[i] # NUL
    /\ Skipped + Len(frame) + Len(down) <= 4 * Len(q)
    /\ ~broken =>
          /\ Spells(buffer[out], Skipped + Len(frame) + Len(down), Encoded(q), 4)
          /\ \E b \in 0..Len(q) :
                /\ Len(buffer[out]) = 4 * b
                /\ Skipped + Len(frame) + Len(down) + 4 * b = 4 * Len(q)

(* They were given to send, and those of one thread in that order.         *)
OneAfterTheOther(q) ==
    /\ \A n \in 1..Len(q) : \E k \in 1..Len(sent) : q[n] = sent[k]
    /\ \A n, l \in 1..Len(q) : n < l /\ q[n][1][1] = q[l][1][1] => q[n][1][2] < q[l][1][2]
    /\ \A t \in Thread, n \in 1..Len(q) :
          place[t] \in {"new", "write"} /\ q[n][1][1] = t => q[n][1][2] < Called(t)

(* As long as no two threads were in send at once, none was left out.      *)
Underway == {t \in Thread : place[t] \in {"new", "write"}}

InTurn(q) ==
    /\ \A t, u \in Thread : t # u => place[t] = "idle" \/ place[u] = "idle"
    /\ \A t \in Thread : place[t] \in {"write", "flush"} => out = t
    /\ \A t \in Thread : place[t] # "idle" => sent # <<>> /\ sent[Len(sent)][1][1] = t
    /\ ~broken /\ buffer[out] # <<>> => place[out] = "flush"
    /\ Len(q) <= Len(sent) /\ \A n \in 1..Len(q) : q[n] = sent[n]
    /\ ~broken => Len(sent) = Len(q) + (IF Underway = {} THEN 0 ELSE 1)

(* What does not fit waits.                                                *)
InRoom == Len(up) <= UpRoom /\ Len(down) <= DownRoom

DownTypes ==
    /\ down \in Seq(Byte) /\ frame \in Seq(Byte) /\ buffer \in [Thread -> Seq(Byte)]
    /\ place \in [Thread -> {"idle", "new", "write", "flush"}]
    /\ out \in Thread /\ broken \in BOOLEAN /\ overlapped \in BOOLEAN
    /\ got \in Seq(Messages)

DownInv ==
    /\ DownTypes
    /\ CalledInOrder
    /\ \E q \in Seq(Messages) :
          OnTheWay(q) /\ OneAfterTheOther(q) /\ (~overlapped => InTurn(q))
=============================================================================
