--------------------------- MODULE Reactor_proofs ---------------------------
(***************************************************************************)
(* Proofs about the reactor: for any number of connections, workers and    *)
(* frames, and whatever the clients do.                                    *)
(***************************************************************************)
EXTENDS Reactor, TLAPS

USE DEF Phase, Ops, Message, NoMessage, Key, AcceptKey, Buffer, net, selector, buffers, workers, output,
        NextKey, Proceed, Idle, Leased, Lease

(* A sequence of a connection that grows at its end, or loses its head.    *)
LEMMA AppendType ==
    ASSUME NEW S, NEW f \in [Conn -> Seq(S)], NEW c \in Conn, NEW x \in S
    PROVE  [f EXCEPT ![c] = Append(@, x)] \in [Conn -> Seq(S)]
  OBVIOUS

LEMMA TailType ==
    ASSUME NEW S, NEW f \in [Conn -> Seq(S)], NEW c \in Conn, f[c] # <<>>
    PROVE  /\ Head(f[c]) \in S
           /\ [f EXCEPT ![c] = Tail(@)] \in [Conn -> Seq(S)]
  OBVIOUS

LEMMA HeadTail ==
    ASSUME NEW S, NEW s \in Seq(S), s # <<>>
    PROVE  /\ Head(s) = s[1] /\ Head(s) \in S
           /\ Tail(s) \in Seq(S) /\ Len(Tail(s)) = Len(s) - 1 /\ Len(s) > 0
           /\ \A i \in 1..(Len(s) - 1) : Tail(s)[i] = s[i + 1]
  OBVIOUS

(* An item is put into a pipe: s was given, r taken, q is on its way.      *)
LEMMA PutOnItsWay ==
    ASSUME NEW S, NEW s \in Seq(S), NEW r \in Seq(S), NEW q \in Seq(S), NEW x \in S,
           OnItsWay(s, r, q)
    PROVE  OnItsWay(Append(s, x), r, Append(q, x))
<1>1. Len(Append(s, x)) = Len(r) + Len(Append(q, x))
  BY DEF OnItsWay
<1>2. ASSUME NEW i \in 1..Len(Append(q, x))
      PROVE  Append(s, x)[Len(r) + i] = Append(q, x)[i]
  <2>1. CASE i = Len(q) + 1
    <3>1. Len(r) + i = Len(s) + 1 /\ Len(s) \in Nat /\ Len(q) \in Nat
      BY <2>1 DEF OnItsWay
    <3>2. Append(s, x)[Len(s) + 1] = x /\ Append(q, x)[Len(q) + 1] = x
      OBVIOUS
    <3>3. QED
      BY <2>1, <3>1, <3>2
  <2>2. CASE i # Len(q) + 1
    <3>1. i \in 1..Len(q) /\ Len(r) + i \in 1..Len(s)
      BY <2>2 DEF OnItsWay
    <3>2. QED
      BY <3>1 DEF OnItsWay
  <2>3. QED
    BY <2>1, <2>2
<1>3. QED
  BY <1>1, <1>2 DEF OnItsWay

LEMMA TakeOnItsWay ==
    ASSUME NEW S, NEW s \in Seq(S), NEW r \in Seq(S), NEW q \in Seq(S), q # <<>>,
           OnItsWay(s, r, q)
    PROVE  /\ OnItsWay(s, Append(r, Head(q)), Tail(q))
           /\ Len(r) < Len(s)
           /\ s[Len(r) + 1] = Head(q)
<1>1. Head(q) = q[1] /\ Len(Tail(q)) = Len(q) - 1 /\ Len(q) > 0
  BY HeadTail
<1>2. ASSUME NEW i \in 1..(Len(q) - 1)
      PROVE  s[(Len(r) + 1) + i] = Tail(q)[i]
  <2>1. i + 1 \in 1..Len(q) /\ Tail(q)[i] = q[i + 1]
    BY HeadTail
  <2>2. s[Len(r) + (i + 1)] = q[i + 1]
    BY <2>1 DEF OnItsWay
  <2>3. Len(r) + (i + 1) = (Len(r) + 1) + i
    OBVIOUS
  <2>4. QED
    BY <2>1, <2>2, <2>3
<1>3. Len(Append(r, Head(q))) = Len(r) + 1
  BY HeadTail
<1>4. QED
  BY <1>1, <1>2, <1>3 DEF OnItsWay

(* A buffer is leased.                                                     *)
LEMMA BufferLeased ==
    ASSUME NEW S, content \in Seq(S), bufferPool \in Seq(1..Len(content)), NEW frames \in S,
           Lease(frames)
    PROVE  /\ content' \in Seq(S) /\ Len(content) <= Len(content')
           /\ Leased \in 1..Len(content')
           /\ bufferPool' \in Seq(1..Len(content'))
<1>1. CASE bufferPool # <<>>
  <2>1. Leased \in 1..Len(content) /\ Tail(bufferPool) \in Seq(1..Len(content))
    BY <1>1, HeadTail
  <2>2. content' = [content EXCEPT ![Leased] = frames] /\ bufferPool' = Tail(bufferPool)
    BY <1>1
  <2>3. content' \in Seq(S) /\ Len(content') = Len(content)
    BY <2>1, <2>2
  <2> HIDE DEF Lease, Leased
  <2>4. QED
    BY <2>1, <2>2, <2>3
<1>2. CASE bufferPool = <<>>
  <2>1. content' = Append(content, frames) /\ bufferPool' = <<>> /\ Leased = Len(content) + 1
    BY <1>2
  <2>2. content' \in Seq(S) /\ Len(content') = Len(content) + 1 /\ Len(content) \in Nat
    BY <2>1
  <2>3. QED
    BY <2>1, <2>2
<1>3. QED
  BY <1>1, <1>2

(* A buffer is leased and released at once.                                *)
LEMMA BufferRotated ==
    ASSUME NEW S, content \in Seq(S), bufferPool \in Seq(1..Len(content)), <<>> \in S,
           \/ /\ bufferPool # <<>>
              /\ bufferPool' = Append(Tail(bufferPool), Leased)
              /\ UNCHANGED content
           \/ /\ bufferPool = <<>>
              /\ bufferPool' = <<Leased>>
              /\ content' = Append(content, <<>>)
    PROVE  /\ content' \in Seq(S) /\ Len(content) <= Len(content')
           /\ bufferPool' \in Seq(1..Len(content'))
<1>1. CASE bufferPool # <<>>
  <2>1. Leased \in 1..Len(content) /\ Tail(bufferPool) \in Seq(1..Len(content))
    BY <1>1, HeadTail
  <2>2. bufferPool' = Append(Tail(bufferPool), Leased) /\ content' = content
    BY <1>1
  <2>3. QED
    BY <2>1, <2>2
<1>2. CASE bufferPool = <<>>
  <2>1. content' = Append(content, <<>>) /\ bufferPool' = <<Len(content) + 1>>
    BY <1>2
  <2>2. content' \in Seq(S) /\ Len(content') = Len(content) + 1 /\ Len(content) \in Nat
    BY <2>1
  <2>3. QED
    BY <2>1, <2>2
<1>3. QED
  BY <1>1, <1>2

LEMMA SubSeqType ==
    ASSUME NEW S, NEW s \in Seq(S), NEW n \in 1..Len(s)
    PROVE  SubSeq(s, 1, n) \in Seq(S) /\ SubSeq(s, n + 1, Len(s)) \in Seq(S)
<1>1. Len(s) \in Nat /\ n \in Nat /\ \A i \in 1..Len(s) : s[i] \in S
  OBVIOUS
<1>2. SubSeq(s, 1, n) \in Seq(S)
  BY <1>1
<1>3. SubSeq(s, n + 1, Len(s)) \in Seq(S)
  BY <1>1
<1>4. QED
  BY <1>2, <1>3

(* Buffers are only added.                                                 *)
LEMMA MoreBuffers ==
    ASSUME NEW m \in Nat, NEW n \in Nat, m <= n
    PROVE  /\ 1..m \subseteq 1..n
           /\ Seq(1..m) \subseteq Seq(1..n)
  OBVIOUS

LEMMA StillBuffers ==
    ASSUME TypeOK, Len(content') \in Nat, Len(content) <= Len(content')
    PROVE  /\ acts \in [Conn -> Seq(1..Len(content'))]
           /\ buf \in [Worker -> 1..Len(content') \cup {0}]
           /\ \A w \in Worker : buf[w] \in 1..Len(content) => buf[w] \in 1..Len(content')
<1>1. Len(content) \in Nat
  BY DEF TypeOK
<1>2. 1..Len(content) \subseteq 1..Len(content') /\ Seq(1..Len(content)) \subseteq Seq(1..Len(content'))
  BY <1>1, MoreBuffers
<1>3. acts \in [Conn -> Seq(1..Len(content))] /\ buf \in [Worker -> 1..Len(content) \cup {0}]
  BY DEF TypeOK
<1>4. QED
  BY <1>2, <1>3

LEMMA ArriveKeeps ==
    ASSUME ReactorInv, NEW c \in Conn, Arrive(c)
    PROVE  ReactorInv'
<1> USE NoneAssumption, KindsAssumption DEF ReactorInv, Arrive
<1>1. TypeOK'
  BY DEF TypeOK
<1>2. OnlyAccepted'
  BY DEF OnlyAccepted, Accepted, TypeOK
<1>3. Locals'
  BY DEF TypeOK, Locals
<1>4. NoneForgotten'
  BY DEF TypeOK, NoneForgotten, Asked
<1>5. AskedAgain'
  BY DEF TypeOK, AskedAgain, Asked
<1>6. WokenForTasks'
  BY DEF TypeOK, WokenForTasks
<1>7. Conserved'
  BY DEF TypeOK, Conserved
<1> HIDE DEF Arrive, ReactorInv
<1>8. QED
  BY <1>1, <1>2, <1>3, <1>4, <1>5, <1>6, <1>7 DEF ReactorInv

LEMMA IssueKeeps ==
    ASSUME ReactorInv, NEW c \in Conn, NEW k \in Kinds, Issue(c, k)
    PROVE  ReactorInv'
<1> USE NoneAssumption, KindsAssumption DEF ReactorInv, Issue
<1>1. TypeOK'
  <2>1. issued' \in [Conn -> Seq(Kinds)]
    BY AppendType DEF TypeOK
  <2>2. inbound' \in [Conn -> Seq(Kinds)]
    BY AppendType DEF TypeOK
  <2>3. QED
    BY <2>1, <2>2 DEF TypeOK
<1>2. OnlyAccepted'
  BY DEF OnlyAccepted, Accepted, TypeOK
<1>3. Locals'
  BY DEF TypeOK, Locals
<1>4. NoneForgotten'
  BY DEF TypeOK, NoneForgotten, Asked
<1>5. AskedAgain'
  BY DEF TypeOK, AskedAgain, Asked
<1>6. WokenForTasks'
  BY DEF TypeOK, WokenForTasks
<1>7. Conserved'
  BY DEF TypeOK, Conserved
<1> HIDE DEF Issue, ReactorInv
<1>8. QED
  BY <1>1, <1>2, <1>3, <1>4, <1>5, <1>6, <1>7 DEF ReactorInv

LEMMA DrainKeeps ==
    ASSUME ReactorInv, NEW c \in Conn, Drain(c)
    PROVE  ReactorInv'
<1> USE NoneAssumption, KindsAssumption DEF ReactorInv, Drain
<1>1. TypeOK'
  BY DEF TypeOK
<1>2. OnlyAccepted'
  BY DEF OnlyAccepted, Accepted, TypeOK
<1>3. Locals'
  BY DEF TypeOK, Locals
<1>4. NoneForgotten'
  BY ZenonT(60) DEF TypeOK, NoneForgotten, Asked
<1>5. AskedAgain'
  BY DEF TypeOK, AskedAgain, Asked
<1>6. WokenForTasks'
  BY DEF TypeOK, WokenForTasks
<1>7. Conserved'
  BY DEF TypeOK, Conserved
<1> HIDE DEF Drain, ReactorInv
<1>8. QED
  BY <1>1, <1>2, <1>3, <1>4, <1>5, <1>6, <1>7 DEF ReactorInv

LEMMA LeaveKeeps ==
    ASSUME ReactorInv, NEW c \in Conn, NEW how \in Leaving[c], Leave(c, how)
    PROVE  ReactorInv'
<1> USE NoneAssumption, KindsAssumption, LeavingAssumption DEF ReactorInv, Leave
<1>1. TypeOK'
  <2>1. inbound' \in [Conn -> Seq(Kinds)]
    BY DEF TypeOK
  <2>2. peer' \in [Conn -> {"off", "up", "fin", "reset"}]
    BY DEF TypeOK
  <2>3. QED
    BY <2>1, <2>2 DEF TypeOK
<1>2. OnlyAccepted'
  BY DEF OnlyAccepted, Accepted, TypeOK
<1>3. Locals'
  BY DEF TypeOK, Locals
<1>4. NoneForgotten'
  BY ZenonT(60) DEF TypeOK, NoneForgotten, Asked
<1>5. AskedAgain'
  BY DEF TypeOK, AskedAgain, Asked
<1>6. WokenForTasks'
  BY DEF TypeOK, WokenForTasks
<1>7. Conserved'
  BY DEF TypeOK, Conserved
<1> HIDE DEF Leave, ReactorInv
<1>8. QED
  BY <1>1, <1>2, <1>3, <1>4, <1>5, <1>6, <1>7 DEF ReactorInv

LEMMA SelectKeeps ==
    ASSUME ReactorInv, Select
    PROVE  ReactorInv'
<1> USE NoneAssumption, KindsAssumption DEF ReactorInv, Select
<1>1. TypeOK'
  <2>1. ReadyKeys \subseteq Key \cup {AcceptKey}
    BY DEF TypeOK, ReadyKeys, Ready
  <2>2. QED
    BY <2>1 DEF TypeOK
<1>2. OnlyAccepted'
  <2>1. \A k \in ReadyKeys : k # AcceptKey => k.conn \in Accepted
    BY DEF ReadyKeys, Accepted
  <2>2. QED
    BY <2>1 DEF OnlyAccepted, Accepted, TypeOK
<1>3. Locals'
  BY DEF TypeOK, Locals
<1>4. NoneForgotten'
  BY DEF TypeOK, NoneForgotten, Asked
<1>5. AskedAgain'
  BY DEF TypeOK, AskedAgain, Asked
<1>6. WokenForTasks'
  BY DEF TypeOK, WokenForTasks
<1>7. Conserved'
  BY DEF TypeOK, Conserved
<1> HIDE DEF Select, ReactorInv
<1>8. QED
  BY <1>1, <1>2, <1>3, <1>4, <1>5, <1>6, <1>7 DEF ReactorInv

LEMMA RunTaskKeeps ==
    ASSUME ReactorInv, RunTask
    PROVE  ReactorInv'
<1> USE NoneAssumption, KindsAssumption DEF ReactorInv, RunTask
<1>1. TypeOK'
  <2>1. Head(selectorTasks) \in Conn /\ selectorTasks' \in Seq(Conn)
    BY HeadTail DEF TypeOK
  <2>2. interest' \in [Conn -> SUBSET Ops]
    <3>1. \/ interest' = [interest EXCEPT ![Head(selectorTasks)] = {"read", "write"}]
          \/ interest' = interest
      OBVIOUS
    <3>2. interest \in [Conn -> SUBSET Ops]
      BY DEF TypeOK
    <3> HIDE DEF ReactorInv, RunTask
    <3>3. QED
      BY <3>1, <3>2, <2>1
  <2>3. QED
    BY <2>1, <2>2 DEF TypeOK
<1>2. OnlyAccepted'
  BY DEF OnlyAccepted, Accepted, TypeOK
<1>3. Locals'
  BY DEF TypeOK, Locals
<1>4. NoneForgotten'
  <2> SUFFICES ASSUME NEW d \in Conn, writeQueue[d] # <<>>, chan[d] = "open", phase' # "dead"
               PROVE  "write" \in interest'[d] \/ Asked(d)'
    BY DEF NoneForgotten
  <2>1. /\ interest' = [interest EXCEPT ![Head(selectorTasks)] = {"read", "write"}]
        /\ Head(selectorTasks) \in Conn
        /\ selectorTasks \in Seq(Conn) /\ selectorTasks # <<>> /\ selectorTasks' = Tail(selectorTasks)
    BY HeadTail DEF TypeOK
  <2>2. CASE d = Head(selectorTasks)
    BY SMTT(30), <2>1, <2>2 DEF TypeOK
  <2>3. CASE d # Head(selectorTasks)
    <3>1. CASE \E i \in 1..Len(selectorTasks) : selectorTasks[i] = d
      <4>1. PICK i \in 1..Len(selectorTasks) : selectorTasks[i] = d
        BY <3>1
      <4>2. i # 1 /\ Len(selectorTasks) \in Nat /\ Len(selectorTasks') = Len(selectorTasks) - 1
        <5> HIDE DEF ReactorInv, RunTask
        <5>1. QED
          BY <4>1, <2>1, <2>3, HeadTail
      <4>3. i - 1 \in 1..Len(selectorTasks') /\ i - 1 \in 1..(Len(selectorTasks) - 1)
        BY <4>2
      <4>4. selectorTasks'[i - 1] = d
        BY <4>1, <4>3, HeadTail DEF TypeOK
      <4>5. QED
        BY <4>3, <4>4 DEF Asked
    <3>2. CASE ~ \E i \in 1..Len(selectorTasks) : selectorTasks[i] = d
      <4>1. "write" \in interest[d] \/ \E w \in Worker : wpc[w] = "update" /\ at[w] = d
        BY <3>2 DEF NoneForgotten, Asked
      <4>2. QED
        BY <4>1, <2>1, <2>3 DEF TypeOK, Asked
    <3>3. QED
      BY <3>1, <3>2
  <2>4. QED
    BY <2>2, <2>3
<1>5. AskedAgain'
  BY DEF TypeOK, AskedAgain, Asked
<1>6. WokenForTasks'
  BY DEF TypeOK, WokenForTasks
<1>7. Conserved'
  BY DEF TypeOK, Conserved
<1> HIDE DEF RunTask, ReactorInv
<1>8. QED
  BY <1>1, <1>2, <1>3, <1>4, <1>5, <1>6, <1>7 DEF ReactorInv

LEMMA TasksDoneKeeps ==
    ASSUME ReactorInv, TasksDone
    PROVE  ReactorInv'
<1> USE NoneAssumption, KindsAssumption DEF ReactorInv, TasksDone
<1>1. TypeOK'
  BY DEF TypeOK
<1>2. OnlyAccepted'
  BY DEF OnlyAccepted, Accepted, TypeOK
<1>3. Locals'
  BY DEF TypeOK, Locals
<1>4. NoneForgotten'
  BY DEF TypeOK, NoneForgotten, Asked
<1>5. AskedAgain'
  BY DEF TypeOK, AskedAgain, Asked
<1>6. WokenForTasks'
  BY DEF TypeOK, WokenForTasks
<1>7. Conserved'
  BY DEF TypeOK, Conserved
<1> HIDE DEF TasksDone, ReactorInv
<1>8. QED
  BY <1>1, <1>2, <1>3, <1>4, <1>5, <1>6, <1>7 DEF ReactorInv

LEMMA KeysDoneKeeps ==
    ASSUME ReactorInv, KeysDone
    PROVE  ReactorInv'
<1> USE NoneAssumption, KindsAssumption DEF ReactorInv, KeysDone
<1>1. TypeOK'
  BY DEF TypeOK
<1>2. OnlyAccepted'
  BY DEF OnlyAccepted, Accepted, TypeOK
<1>3. Locals'
  BY DEF TypeOK, Locals
<1>4. NoneForgotten'
  BY DEF TypeOK, NoneForgotten, Asked
<1>5. AskedAgain'
  BY DEF TypeOK, AskedAgain, Asked
<1>6. WokenForTasks'
  BY DEF TypeOK, WokenForTasks
<1>7. Conserved'
  BY DEF TypeOK, Conserved
<1> HIDE DEF KeysDone, ReactorInv
<1>8. QED
  BY <1>1, <1>2, <1>3, <1>4, <1>5, <1>6, <1>7 DEF ReactorInv

LEMMA HandleAcceptKeeps ==
    ASSUME ReactorInv, NEW c \in Conn, HandleAccept(c)
    PROVE  ReactorInv'
<1> USE NoneAssumption, KindsAssumption DEF ReactorInv, HandleAccept
<1>1. TypeOK'
  BY DEF TypeOK
<1>2. OnlyAccepted'
  BY DEF OnlyAccepted, Accepted, TypeOK
<1>3. Locals'
  BY DEF TypeOK, Locals
<1>4. NoneForgotten'
  <2> SUFFICES ASSUME NEW d \in Conn, writeQueue'[d] # <<>>, chan'[d] = "open", phase' # "dead"
               PROVE  "write" \in interest'[d] \/ Asked(d)'
    BY DEF NoneForgotten
  <2>1. Asked(d)' <=> Asked(d)
    BY DEF Asked
  <2>2. d # c
    BY DEF Waiting, OnlyAccepted
  <2>3. writeQueue[d] # <<>> /\ chan[d] = "open" /\ interest'[d] = interest[d]
    BY <2>2 DEF TypeOK
  <2>4. QED
    BY <2>1, <2>3 DEF NoneForgotten
<1>5. AskedAgain'
  BY DEF TypeOK, AskedAgain, Asked
<1>6. WokenForTasks'
  BY DEF TypeOK, WokenForTasks
<1>7. Conserved'
  BY DEF TypeOK, Conserved
<1> HIDE DEF HandleAccept, ReactorInv
<1>8. QED
  BY <1>1, <1>2, <1>3, <1>4, <1>5, <1>6, <1>7 DEF ReactorInv

LEMMA HandleReadWriteKeeps ==
    ASSUME ReactorInv, NEW k \in selected, HandleReadWrite(k)
    PROVE  ReactorInv'
<1> USE NoneAssumption, KindsAssumption DEF ReactorInv, HandleReadWrite
<1>1. TypeOK'
  BY DEF TypeOK
<1>2. OnlyAccepted'
  BY DEF OnlyAccepted, Accepted, TypeOK
<1>3. Locals'
  BY DEF TypeOK, Locals
<1>4. NoneForgotten'
  BY DEF TypeOK, NoneForgotten, Asked
<1>5. AskedAgain'
  BY DEF TypeOK, AskedAgain, Asked
<1>6. WokenForTasks'
  BY DEF TypeOK, WokenForTasks
<1>7. Conserved'
  BY DEF TypeOK, Conserved
<1> HIDE DEF HandleReadWrite, ReactorInv
<1>8. QED
  BY <1>1, <1>2, <1>3, <1>4, <1>5, <1>6, <1>7 DEF ReactorInv

LEMMA ContinueReadKeeps ==
    ASSUME ReactorInv, ContinueRead
    PROVE  ReactorInv'
<1> USE NoneAssumption, KindsAssumption DEF ReactorInv, ContinueRead
<1>1. TypeOK'
  <2> DEFINE c == current.conn
  <2>1. c \in Conn /\ inbound[c] \in Seq(Kinds) /\ content \in Seq(Seq(Kinds)) /\ bufferPool \in Seq(1..Len(content))
    BY DEF TypeOK
  <2>2. PICK n \in 1..Len(inbound[c]) :
            /\ Lease(SubSeq(inbound[c], 1, n))
            /\ inbound' = [inbound EXCEPT ![c] = SubSeq(@, n + 1, Len(@))]
    BY DEF Lease
  <2>3. SubSeq(inbound[c], 1, n) \in Seq(Kinds) /\ SubSeq(inbound[c], n + 1, Len(inbound[c])) \in Seq(Kinds)
    BY <2>1, <2>2, SubSeqType
  <2>4. /\ content' \in Seq(Seq(Kinds)) /\ Len(content) <= Len(content')
        /\ bufferPool' \in Seq(1..Len(content')) /\ Leased \in 1..Len(content')
    <3> HIDE DEF ReactorInv, ContinueRead, Lease, Leased
    <3>1. QED
      BY <2>1, <2>2, <2>3, BufferLeased
  <2>5. Len(content') \in Nat
    <3> HIDE DEF ReactorInv, ContinueRead, Lease, Leased
    <3>1. QED
      BY <2>4
  <2>6. /\ acts \in [Conn -> Seq(1..Len(content'))]
        /\ buf \in [Worker -> 1..Len(content') \cup {0}]
        /\ \A w \in Worker : buf[w] \in 1..Len(content) => buf[w] \in 1..Len(content')
    <3> HIDE DEF ContinueRead, Lease, Leased
    <3>1. QED
      BY <2>4, <2>5, StillBuffers
  <2>7. acts' \in [Conn -> Seq(1..Len(content'))]
    <3>1. acts' = [acts EXCEPT ![c] = Append(@, Leased)]
      OBVIOUS
    <3> HIDE DEF ReactorInv, ContinueRead, Lease, Leased, c
    <3>2. QED
      BY <3>1, <2>1, <2>4, <2>6, AppendType
  <2>8. inbound' \in [Conn -> Seq(Kinds)]
    BY <2>1, <2>2, <2>3 DEF TypeOK
  <2>9. phase' \in Phase /\ current' \in Key \cup {None}
        /\ (phase' \in {"read", "write", "check", "update"} => current' \in Key)
    BY DEF TypeOK
  <2>10. /\ buf' = buf /\ Leased \in 1..Len(content')
         /\ UNCHANGED <<peer, issued, room, selected, chan, interest, selectorTasks, wakeup,
                        workers, output, sends>>
    BY <2>4
  <2> HIDE DEF ContinueRead, Lease, Leased, c
  <2>11. QED
    BY <2>4, <2>6, <2>7, <2>8, <2>9, <2>10 DEF TypeOK
<1>2. OnlyAccepted'
  BY ZenonT(60) DEF OnlyAccepted, Accepted, TypeOK
<1>3. Locals'
  <2> DEFINE c == current.conn
  <2>1. c \in Conn /\ inbound[c] \in Seq(Kinds) /\ content \in Seq(Seq(Kinds)) /\ bufferPool \in Seq(1..Len(content))
    BY DEF TypeOK
  <2>2. PICK n \in 1..Len(inbound[c]) :
            /\ Lease(SubSeq(inbound[c], 1, n))
            /\ inbound' = [inbound EXCEPT ![c] = SubSeq(@, n + 1, Len(@))]
    BY DEF Lease
  <2>3. SubSeq(inbound[c], 1, n) \in Seq(Kinds) /\ SubSeq(inbound[c], n + 1, Len(inbound[c])) \in Seq(Kinds)
    BY <2>1, <2>2, SubSeqType
  <2>4. /\ content' \in Seq(Seq(Kinds)) /\ Len(content) <= Len(content')
        /\ bufferPool' \in Seq(1..Len(content')) /\ Leased \in 1..Len(content')
    <3> HIDE DEF ReactorInv, ContinueRead, Lease, Leased
    <3>1. QED
      BY <2>1, <2>2, <2>3, BufferLeased
  <2>5. Len(content') \in Nat
    <3> HIDE DEF ReactorInv, ContinueRead, Lease, Leased
    <3>1. QED
      BY <2>4
  <2>6. /\ acts \in [Conn -> Seq(1..Len(content'))]
        /\ buf \in [Worker -> 1..Len(content') \cup {0}]
        /\ \A w \in Worker : buf[w] \in 1..Len(content) => buf[w] \in 1..Len(content')
    <3> HIDE DEF ContinueRead, Lease, Leased
    <3>1. QED
      BY <2>4, <2>5, StillBuffers
  <2>7. QED
    BY <2>6 DEF Locals, TypeOK
<1>4. NoneForgotten'
  BY DEF TypeOK, NoneForgotten, Asked
<1>5. AskedAgain'
  BY DEF TypeOK, AskedAgain, Asked
<1>6. WokenForTasks'
  BY DEF TypeOK, WokenForTasks
<1>7. Conserved'
  BY DEF TypeOK, Conserved
<1> HIDE DEF ContinueRead, ReactorInv
<1>8. QED
  BY <1>1, <1>2, <1>3, <1>4, <1>5, <1>6, <1>7 DEF ReactorInv

LEMMA ReadEndKeeps ==
    ASSUME ReactorInv, ReadEnd
    PROVE  ReactorInv'
<1> USE NoneAssumption, KindsAssumption DEF ReactorInv, ReadEnd
<1>1. TypeOK'
  <2>1. content \in Seq(Seq(Kinds)) /\ bufferPool \in Seq(1..Len(content)) /\ <<>> \in Seq(Kinds)
    BY DEF TypeOK
  <2>2. /\ content' \in Seq(Seq(Kinds)) /\ Len(content) <= Len(content')
        /\ bufferPool' \in Seq(1..Len(content'))
    <3>1. \/ /\ bufferPool # <<>>
             /\ bufferPool' = Append(Tail(bufferPool), Leased)
             /\ UNCHANGED content
          \/ /\ bufferPool = <<>>
             /\ bufferPool' = <<Leased>>
             /\ content' = Append(content, <<>>)
      BY DEF Leased
    <3> HIDE DEF ReactorInv, ReadEnd, Leased
    <3>2. QED
      BY <2>1, <3>1, BufferRotated
  <2>3. Len(content') \in Nat
    <3> HIDE DEF ReactorInv, ReadEnd, Leased
    <3>1. QED
      BY <2>2
  <2>4. /\ acts \in [Conn -> Seq(1..Len(content'))]
        /\ buf \in [Worker -> 1..Len(content') \cup {0}]
        /\ \A w \in Worker : buf[w] \in 1..Len(content) => buf[w] \in 1..Len(content')
    <3> HIDE DEF ReadEnd, Leased
    <3>1. QED
      BY <2>2, <2>3, StillBuffers
  <2>5. chan' \in [Conn -> {"none", "open", "closed"}]
    BY DEF TypeOK
  <2>6. /\ phase' = "keys" /\ current' = None
        /\ UNCHANGED <<net, selected, interest, selectorTasks, wakeup, acts, workers, output, sends>>
    OBVIOUS
  <2> HIDE DEF ReadEnd, Leased
  <2>7. QED
    BY <2>2, <2>4, <2>5, <2>6 DEF TypeOK
<1>2. OnlyAccepted'
  BY ZenonT(60) DEF OnlyAccepted, Accepted, TypeOK
<1>3. Locals'
  <2>1. content \in Seq(Seq(Kinds)) /\ bufferPool \in Seq(1..Len(content)) /\ <<>> \in Seq(Kinds)
    BY DEF TypeOK
  <2>2. /\ content' \in Seq(Seq(Kinds)) /\ Len(content) <= Len(content')
        /\ bufferPool' \in Seq(1..Len(content'))
    <3>1. \/ /\ bufferPool # <<>>
             /\ bufferPool' = Append(Tail(bufferPool), Leased)
             /\ UNCHANGED content
          \/ /\ bufferPool = <<>>
             /\ bufferPool' = <<Leased>>
             /\ content' = Append(content, <<>>)
      BY DEF Leased
    <3> HIDE DEF ReactorInv, ReadEnd, Leased
    <3>2. QED
      BY <2>1, <3>1, BufferRotated
  <2>3. Len(content') \in Nat
    <3> HIDE DEF ReactorInv, ReadEnd, Leased
    <3>1. QED
      BY <2>2
  <2>4. /\ acts \in [Conn -> Seq(1..Len(content'))]
        /\ buf \in [Worker -> 1..Len(content') \cup {0}]
        /\ \A w \in Worker : buf[w] \in 1..Len(content) => buf[w] \in 1..Len(content')
    <3> HIDE DEF ReadEnd, Leased
    <3>1. QED
      BY <2>2, <2>3, StillBuffers
  <2>5. UNCHANGED workers
    OBVIOUS
  <2> HIDE DEF ReadEnd, Leased
  <2>6. QED
    BY <2>4, <2>5 DEF Locals, TypeOK
<1>4. NoneForgotten'
  <2> SUFFICES ASSUME NEW d \in Conn, writeQueue'[d] # <<>>, chan'[d] = "open", phase' # "dead"
               PROVE  "write" \in interest'[d] \/ Asked(d)'
    BY DEF NoneForgotten
  <2>1. Asked(d)' <=> Asked(d)
    BY DEF Asked
  <2>2. writeQueue[d] # <<>> /\ chan[d] = "open" /\ interest'[d] = interest[d] /\ phase # "dead"
    BY DEF TypeOK
  <2>3. QED
    BY <2>1, <2>2 DEF NoneForgotten
<1>5. AskedAgain'
  BY DEF TypeOK, AskedAgain, Asked
<1>6. WokenForTasks'
  BY DEF TypeOK, WokenForTasks
<1>7. Conserved'
  BY DEF TypeOK, Conserved
<1> HIDE DEF ReadEnd, ReactorInv
<1>8. QED
  BY <1>1, <1>2, <1>3, <1>4, <1>5, <1>6, <1>7 DEF ReactorInv

LEMMA WriteWholeKeeps ==
    ASSUME ReactorInv, WriteWhole
    PROVE  ReactorInv'
<1> USE NoneAssumption, KindsAssumption DEF ReactorInv, WriteWhole
<1>1. TypeOK'
  <2> DEFINE c == current.conn
  <2>1. c \in Conn
    BY DEF TypeOK
  <2>2. Head(writeQueue[c]) \in Message /\ writeQueue' \in [Conn -> Seq(Message)]
    BY <2>1, TailType DEF TypeOK
  <2>3. received' \in [Conn -> Seq(Message)]
    BY <2>1, <2>2, AppendType DEF TypeOK
  <2>4. half' \in [Conn -> BOOLEAN] /\ room' \in [Conn -> BOOLEAN]
    <3>1. half \in [Conn -> BOOLEAN] /\ room \in [Conn -> BOOLEAN]
      BY DEF TypeOK
    <3>2. half' = [half EXCEPT ![c] = FALSE] /\ \E r \in BOOLEAN : room' = [room EXCEPT ![c] = r]
      OBVIOUS
    <3> HIDE DEF ReactorInv, WriteWhole
    <3>3. QED
      BY <3>1, <3>2
  <2>5. QED
    BY <2>2, <2>3, <2>4 DEF TypeOK
<1>2. OnlyAccepted'
  BY ZenonT(60) DEF OnlyAccepted, Accepted, TypeOK
<1>3. Locals'
  BY DEF TypeOK, Locals
<1>4. NoneForgotten'
  <2> SUFFICES ASSUME NEW d \in Conn, writeQueue'[d] # <<>>, chan'[d] = "open", phase' # "dead"
               PROVE  "write" \in interest'[d] \/ Asked(d)'
    BY DEF NoneForgotten
  <2>1. Asked(d)' <=> Asked(d)
    BY DEF Asked
  <2>2. writeQueue[d] # <<>> /\ chan[d] = "open" /\ interest'[d] = interest[d] /\ phase # "dead"
    BY DEF TypeOK
  <2>3. QED
    BY <2>1, <2>2 DEF NoneForgotten
<1>5. AskedAgain'
  BY DEF TypeOK, AskedAgain, Asked
<1>6. WokenForTasks'
  BY DEF TypeOK, WokenForTasks
<1>7. Conserved'
  <2> DEFINE c == current.conn
  <2>1. /\ c \in Conn /\ writeQueue[c] \in Seq(Message) /\ received[c] \in Seq(Message)
        /\ sends[c] \in Seq(Message) /\ writeQueue[c] # <<>>
        /\ OnItsWay(sends[c], received[c], writeQueue[c])
    BY DEF TypeOK, Conserved
  <2>2. /\ received'[c] = Append(received[c], Head(writeQueue[c])) /\ sends' = sends
        /\ writeQueue'[c] = Tail(writeQueue[c])
        /\ \A d \in Conn \ {c} : writeQueue'[d] = writeQueue[d] /\ received'[d] = received[d]
    BY DEF TypeOK
  <2>3. \A d \in Conn : OnItsWay(sends[d], received[d], writeQueue[d])
    BY DEF Conserved
  <2> HIDE DEF ReactorInv, WriteWhole, c
  <2>4. OnItsWay(sends'[c], received'[c], writeQueue'[c])
    BY <2>1, <2>2, TakeOnItsWay
  <2>5. QED
    BY <2>2, <2>3, <2>4 DEF Conserved
<1> HIDE DEF WriteWhole, ReactorInv
<1>8. QED
  BY <1>1, <1>2, <1>3, <1>4, <1>5, <1>6, <1>7 DEF ReactorInv

LEMMA WritePartKeeps ==
    ASSUME ReactorInv, WritePart
    PROVE  ReactorInv'
<1> USE NoneAssumption, KindsAssumption DEF ReactorInv, WritePart
<1>1. TypeOK'
  BY DEF TypeOK
<1>2. OnlyAccepted'
  BY DEF OnlyAccepted, Accepted, TypeOK
<1>3. Locals'
  BY DEF TypeOK, Locals
<1>4. NoneForgotten'
  BY DEF TypeOK, NoneForgotten, Asked
<1>5. AskedAgain'
  BY DEF TypeOK, AskedAgain, Asked
<1>6. WokenForTasks'
  BY DEF TypeOK, WokenForTasks
<1>7. Conserved'
  BY DEF TypeOK, Conserved
<1> HIDE DEF WritePart, ReactorInv
<1>8. QED
  BY <1>1, <1>2, <1>3, <1>4, <1>5, <1>6, <1>7 DEF ReactorInv

LEMMA WriteFailsKeeps ==
    ASSUME ReactorInv, WriteFails
    PROVE  ReactorInv'
<1> USE NoneAssumption, KindsAssumption DEF ReactorInv, WriteFails
<1>1. TypeOK'
  BY DEF TypeOK
<1>2. OnlyAccepted'
  BY ZenonT(60) DEF OnlyAccepted, Accepted, TypeOK
<1>3. Locals'
  BY DEF TypeOK, Locals
<1>4. NoneForgotten'
  <2> SUFFICES ASSUME NEW d \in Conn, writeQueue'[d] # <<>>, chan'[d] = "open", phase' # "dead"
               PROVE  "write" \in interest'[d] \/ Asked(d)'
    BY DEF NoneForgotten
  <2>1. Asked(d)' <=> Asked(d)
    BY DEF Asked
  <2>2. writeQueue[d] # <<>> /\ chan[d] = "open" /\ interest'[d] = interest[d] /\ phase # "dead"
    BY DEF TypeOK
  <2>3. QED
    BY <2>1, <2>2 DEF NoneForgotten
<1>5. AskedAgain'
  BY DEF TypeOK, AskedAgain, Asked
<1>6. WokenForTasks'
  BY DEF TypeOK, WokenForTasks
<1>7. Conserved'
  BY DEF TypeOK, Conserved
<1> HIDE DEF WriteFails, ReactorInv
<1>8. QED
  BY <1>1, <1>2, <1>3, <1>4, <1>5, <1>6, <1>7 DEF ReactorInv

LEMMA WriteDoneKeeps ==
    ASSUME ReactorInv, WriteDone
    PROVE  ReactorInv'
<1> USE NoneAssumption, KindsAssumption DEF ReactorInv, WriteDone
<1>1. TypeOK'
  BY DEF TypeOK
<1>2. OnlyAccepted'
  BY DEF OnlyAccepted, Accepted, TypeOK
<1>3. Locals'
  BY DEF TypeOK, Locals
<1>4. NoneForgotten'
  BY DEF TypeOK, NoneForgotten, Asked
<1>5. AskedAgain'
  BY DEF TypeOK, AskedAgain, Asked
<1>6. WokenForTasks'
  BY DEF TypeOK, WokenForTasks
<1>7. Conserved'
  BY DEF TypeOK, Conserved
<1> HIDE DEF WriteDone, ReactorInv
<1>8. QED
  BY <1>1, <1>2, <1>3, <1>4, <1>5, <1>6, <1>7 DEF ReactorInv

LEMMA WriteCheckKeeps ==
    ASSUME ReactorInv, WriteCheck
    PROVE  ReactorInv'
<1> USE NoneAssumption, KindsAssumption DEF ReactorInv, WriteCheck
<1>1. TypeOK'
  BY DEF TypeOK
<1>2. OnlyAccepted'
  BY DEF OnlyAccepted, Accepted, TypeOK
<1>3. Locals'
  BY DEF TypeOK, Locals
<1>4. NoneForgotten'
  BY DEF TypeOK, NoneForgotten, Asked
<1>5. AskedAgain'
  BY DEF TypeOK, AskedAgain, Asked
<1>6. WokenForTasks'
  BY DEF TypeOK, WokenForTasks
<1>7. Conserved'
  BY DEF TypeOK, Conserved
<1> HIDE DEF WriteCheck, ReactorInv
<1>8. QED
  BY <1>1, <1>2, <1>3, <1>4, <1>5, <1>6, <1>7 DEF ReactorInv

LEMMA WriteUpdateKeeps ==
    ASSUME ReactorInv, WriteUpdate
    PROVE  ReactorInv'
<1> USE NoneAssumption, KindsAssumption DEF ReactorInv, WriteUpdate
<1>1. TypeOK'
  BY DEF TypeOK
<1>2. OnlyAccepted'
  BY DEF OnlyAccepted, Accepted, TypeOK
<1>3. Locals'
  BY DEF TypeOK, Locals
<1>4. NoneForgotten'
  <2> SUFFICES ASSUME NEW d \in Conn, writeQueue'[d] # <<>>, chan'[d] = "open", phase' # "dead"
               PROVE  "write" \in interest'[d] \/ Asked(d)'
    BY DEF NoneForgotten
  <2>1. Asked(d)' <=> Asked(d)
    BY DEF Asked
  <2>2. CASE d = current.conn
    BY <2>1, <2>2 DEF AskedAgain
  <2>3. CASE d # current.conn
    <3>1. interest'[d] = interest[d] /\ writeQueue[d] # <<>> /\ chan[d] = "open"
      BY <2>3 DEF TypeOK
    <3>2. QED
      BY <2>1, <3>1 DEF NoneForgotten
  <2>4. QED
    BY <2>2, <2>3
<1>5. AskedAgain'
  BY DEF TypeOK, AskedAgain, Asked
<1>6. WokenForTasks'
  BY DEF TypeOK, WokenForTasks
<1>7. Conserved'
  BY DEF TypeOK, Conserved
<1> HIDE DEF WriteUpdate, ReactorInv
<1>8. QED
  BY <1>1, <1>2, <1>3, <1>4, <1>5, <1>6, <1>7 DEF ReactorInv

LEMMA StartKeeps ==
    ASSUME ReactorInv, NEW w \in Worker, NEW c \in Conn, Start(w, c)
    PROVE  ReactorInv'
<1> USE NoneAssumption, KindsAssumption DEF ReactorInv, Start
<1>1. TypeOK'
  <2>1. Head(acts[c]) \in Buffer /\ acts' \in [Conn -> Seq(Buffer)]
    BY TailType DEF TypeOK
  <2>2. QED
    BY <2>1 DEF TypeOK
<1>2. OnlyAccepted'
  BY ZenonT(60) DEF OnlyAccepted, Accepted, TypeOK
<1>3. Locals'
  <2>1. Head(acts[c]) \in 1..Len(content) /\ content' = content
    BY TailType DEF TypeOK
  <2>2. /\ wpc' = [wpc EXCEPT ![w] = "process"] /\ buf' = [buf EXCEPT ![w] = Head(acts[c])]
        /\ UNCHANGED <<at, message>>
    OBVIOUS
  <2> HIDE DEF Start
  <2>3. QED
    BY <2>1, <2>2 DEF Locals, TypeOK
<1>4. NoneForgotten'
  BY DEF TypeOK, NoneForgotten, Asked
<1>5. AskedAgain'
  BY DEF TypeOK, AskedAgain, Asked
<1>6. WokenForTasks'
  BY DEF TypeOK, WokenForTasks
<1>7. Conserved'
  BY DEF TypeOK, Conserved
<1> HIDE DEF Start, ReactorInv
<1>8. QED
  BY <1>1, <1>2, <1>3, <1>4, <1>5, <1>6, <1>7 DEF ReactorInv

LEMMA SendAddKeeps ==
    ASSUME ReactorInv, NEW w \in Worker, NEW c \in Conn, SendAdd(w, c)
    PROVE  ReactorInv'
<1> USE NoneAssumption, KindsAssumption DEF ReactorInv, SendAdd
<1>1. TypeOK'
  <2>1. message[w] \in Message
    BY DEF Locals
  <2>2. writeQueue' \in [Conn -> Seq(Message)] /\ sends' \in [Conn -> Seq(Message)]
    BY <2>1, AppendType DEF TypeOK
  <2>3. at' \in [Worker -> Conn \cup {None}] /\ to' \in [Worker -> SUBSET Conn]
    BY DEF TypeOK
  <2>4. QED
    BY <2>2, <2>3 DEF TypeOK
<1>2. OnlyAccepted'
  BY DEF OnlyAccepted, Accepted, TypeOK
<1>3. Locals'
  BY SMTT(30) DEF TypeOK, Locals
<1>4. NoneForgotten'
  <2> SUFFICES ASSUME NEW d \in Conn, writeQueue'[d] # <<>>, chan'[d] = "open", phase' # "dead"
               PROVE  "write" \in interest'[d] \/ Asked(d)'
    BY DEF NoneForgotten
  <2>1. CASE d = c
    BY <2>1 DEF TypeOK, Asked
  <2>2. CASE d # c
    <3>1. Asked(d) => Asked(d)'
      BY DEF Asked, TypeOK
    <3>2. writeQueue[d] # <<>>
      BY <2>2 DEF TypeOK
    <3>3. QED
      BY <3>1, <3>2 DEF NoneForgotten
  <2>3. QED
    BY <2>1, <2>2
<1>5. AskedAgain'
  BY SMTT(30) DEF TypeOK, AskedAgain, Asked
<1>6. WokenForTasks'
  BY DEF TypeOK, WokenForTasks
<1>7. Conserved'
  <2>1. /\ writeQueue[c] \in Seq(Message) /\ sends[c] \in Seq(Message) /\ received[c] \in Seq(Message)
        /\ message[w] \in Message
        /\ OnItsWay(sends[c], received[c], writeQueue[c])
    BY DEF TypeOK, Locals, Conserved
  <2>2. /\ writeQueue'[c] = Append(writeQueue[c], message[w]) /\ sends'[c] = Append(sends[c], message[w])
        /\ received' = received
        /\ \A d \in Conn \ {c} : writeQueue'[d] = writeQueue[d] /\ sends'[d] = sends[d]
    BY DEF TypeOK
  <2>3. \A d \in Conn : OnItsWay(sends[d], received[d], writeQueue[d])
    BY DEF Conserved
  <2> HIDE DEF ReactorInv, SendAdd
  <2>4. OnItsWay(sends'[c], received'[c], writeQueue'[c])
    <3>1. OnItsWay(Append(sends[c], message[w]), received[c], Append(writeQueue[c], message[w]))
      <4> HIDE DEF Message
      <4>1. QED
        BY <2>1, PutOnItsWay
    <3>2. QED
      BY <2>2, <3>1
  <2>5. QED
    BY <2>2, <2>3, <2>4 DEF Conserved
<1> HIDE DEF SendAdd, ReactorInv
<1>8. QED
  BY <1>1, <1>2, <1>3, <1>4, <1>5, <1>6, <1>7 DEF ReactorInv

(* A frame makes only accepted connections take part.                      *)
LEMMA ReachesAccepted ==
    ASSUME NEW A, joined \subseteq A, NEW c \in A, NEW k
    PROVE  JoinedAfter(k, c) \subseteq A /\ Recipients(k, c) \subseteq A
<1>1. JoinedAfter(k, c) \subseteq joined \cup {c}
  BY DEF JoinedAfter
<1>2. Recipients(k, c) \subseteq joined \cup {c}
  BY DEF Recipients
<1>3. QED
  BY <1>1, <1>2

LEMMA ProcessKeeps ==
    ASSUME ReactorInv, NEW w \in Worker, Process(w)
    PROVE  ReactorInv'
<1> USE NoneAssumption, KindsAssumption DEF ReactorInv, Process
<1>1. TypeOK'
  <2> DEFINE c == act[w]
             k == Head(content[buf[w]])
  <2>1. c \in Accepted /\ c \in Conn /\ buf[w] \in 1..Len(content) /\ content[buf[w]] \in Seq(Kinds)
    BY DEF TypeOK, Locals, OnlyAccepted, Accepted
  <2>2. k \in Kinds /\ Tail(content[buf[w]]) \in Seq(Kinds)
    BY <2>1, HeadTail
  <2>3. content' \in Seq(Seq(Kinds)) /\ Len(content') = Len(content)
    BY <2>1, <2>2 DEF TypeOK
  <2>4. processed' \in [Conn -> Seq(Kinds)]
    BY <2>1, <2>2, AppendType DEF TypeOK
  <2>5. joined' \subseteq Conn /\ to' \in [Worker -> SUBSET Conn]
    <3>1. joined \subseteq Conn /\ to \in [Worker -> SUBSET Conn]
      BY DEF TypeOK
    <3>2. joined' = JoinedAfter(k, c) /\ to' = [to EXCEPT ![w] = Recipients(k, c)]
      OBVIOUS
    <3> HIDE DEF ReactorInv, Process, c, k
    <3>3. QED
      BY <2>1, <3>1, <3>2, ReachesAccepted
  <2>6. message' \in [Worker -> Message \cup {NoMessage}]
    <3>1. message \in [Worker -> Message \cup {NoMessage}]
      BY DEF TypeOK
    <3>2. message' = message \/ message' = [message EXCEPT ![w] = [kind |-> k, from |-> c]]
      OBVIOUS
    <3> HIDE DEF ReactorInv, Process, c, k
    <3>3. QED
      BY <2>1, <2>2, <3>1, <3>2
  <2>7. wpc' \in [Worker -> {"idle", "process", "send", "update", "wakeup"}]
    <3>1. wpc' = wpc \/ wpc' = [wpc EXCEPT ![w] = "send"]
      OBVIOUS
    <3>2. wpc \in [Worker -> {"idle", "process", "send", "update", "wakeup"}]
      BY DEF TypeOK
    <3> HIDE DEF ReactorInv, Process
    <3>3. QED
      BY <3>1, <3>2
  <2>8. QED
    BY <2>3, <2>4, <2>5, <2>6, <2>7 DEF TypeOK
<1>2. OnlyAccepted'
  <2>1. act[w] \in Accepted /\ Accepted' = Accepted
    BY DEF OnlyAccepted, Accepted
  <2>2. /\ JoinedAfter(Head(content[buf[w]]), act[w]) \subseteq Accepted
        /\ Recipients(Head(content[buf[w]]), act[w]) \subseteq Accepted
    BY SMTT(30), <2>1, ReachesAccepted DEF OnlyAccepted
  <2>3. joined' \subseteq Accepted /\ \A v \in Worker : to'[v] \subseteq Accepted
    BY <2>2 DEF OnlyAccepted, TypeOK
  <2>4. \A v \in Worker : wpc'[v] # "idle" => act[v] \in Accepted
    BY DEF OnlyAccepted, TypeOK
  <2>5. QED
    BY <2>1, <2>3, <2>4 DEF OnlyAccepted
<1>3. Locals'
  <2>1. act[w] \in Conn /\ Head(content[buf[w]]) \in Kinds
    BY SMTT(30), HeadTail DEF OnlyAccepted, Accepted, Locals, TypeOK
  <2>2. Len(content') = Len(content)
    BY DEF TypeOK
  <2>3. /\ wpc[w] = "process"
        /\ \/ wpc' = wpc /\ message' = message
           \/ /\ wpc' = [wpc EXCEPT ![w] = "send"]
              /\ message' = [message EXCEPT ![w] = [kind |-> Head(content[buf[w]]), from |-> act[w]]]
    OBVIOUS
  <2>4. \A v \in Worker : wpc'[v] \in {"send", "update", "wakeup"} => message'[v] \in Message
    <3>1. /\ message \in [Worker -> Message \cup {NoMessage}]
          /\ wpc \in [Worker -> {"idle", "process", "send", "update", "wakeup"}]
          /\ \A v \in Worker : wpc[v] \in {"send", "update", "wakeup"} => message[v] \in Message
      BY DEF TypeOK, Locals
    <3> HIDE DEF ReactorInv, Process
    <3>2. QED
      BY <2>1, <2>3, <3>1
  <2>5. QED
    BY SMTT(30), <2>2, <2>3, <2>4 DEF Locals, TypeOK
<1>4. NoneForgotten'
  <2>1. \A d \in Conn : Asked(d) => Asked(d)'
    BY DEF Asked, TypeOK
  <2>2. QED
    BY <2>1 DEF NoneForgotten
<1>5. AskedAgain'
  BY ZenonT(60) DEF TypeOK, AskedAgain, Asked
<1>6. WokenForTasks'
  BY SMTT(30) DEF TypeOK, WokenForTasks
<1>7. Conserved'
  BY DEF TypeOK, Conserved
<1> HIDE DEF Process, ReactorInv
<1>8. QED
  BY <1>1, <1>2, <1>3, <1>4, <1>5, <1>6, <1>7 DEF ReactorInv

LEMMA ThrowKeeps ==
    ASSUME ReactorInv, NEW w \in Worker, ProcessThrows(w)
    PROVE  ReactorInv'
<1> USE NoneAssumption, KindsAssumption DEF ReactorInv, ProcessThrows
<1>1. TypeOK'
  <2>1. buf[w] \in 1..Len(content)
    BY DEF Locals
  <2>2. content' \in Seq(Seq(Kinds)) /\ Len(content') = Len(content)
    BY <2>1 DEF TypeOK
  <2>3. bufferPool' \in Seq(1..Len(content))
    BY <2>1 DEF TypeOK
  <2>4. /\ wpc' \in [Worker -> {"idle", "process", "send", "update", "wakeup"}]
        /\ act' \in [Worker -> Conn \cup {None}] /\ buf' \in [Worker -> 1..Len(content) \cup {0}]
    BY DEF TypeOK
  <2>5. UNCHANGED <<net, selector, selectorTasks, wakeup, acts, to, at, message, joined,
                    processed, output, sends>>
    OBVIOUS
  <2> HIDE DEF ProcessThrows
  <2>6. QED
    BY <2>2, <2>3, <2>4, <2>5 DEF TypeOK
<1>2. OnlyAccepted'
  BY DEF OnlyAccepted, Accepted, TypeOK
<1>3. Locals'
  BY DEF TypeOK, Locals
<1>4. NoneForgotten'
  BY ZenonT(60) DEF TypeOK, NoneForgotten, Asked
<1>5. AskedAgain'
  BY DEF TypeOK, AskedAgain, Asked
<1>6. WokenForTasks'
  BY DEF TypeOK, WokenForTasks
<1>7. Conserved'
  BY DEF TypeOK, Conserved
<1> HIDE DEF ProcessThrows, ReactorInv
<1>8. QED
  BY <1>1, <1>2, <1>3, <1>4, <1>5, <1>6, <1>7 DEF ReactorInv

LEMMA ReleaseKeeps ==
    ASSUME ReactorInv, NEW w \in Worker, Release(w)
    PROVE  ReactorInv'
<1> USE NoneAssumption, KindsAssumption DEF ReactorInv, Release
<1>1. TypeOK'
  <2>1. buf[w] \in 1..Len(content)
    BY DEF Locals
  <2>2. content' \in Seq(Seq(Kinds)) /\ Len(content') = Len(content)
    BY <2>1 DEF TypeOK
  <2>3. bufferPool' \in Seq(1..Len(content))
    BY <2>1 DEF TypeOK
  <2>4. /\ wpc' \in [Worker -> {"idle", "process", "send", "update", "wakeup"}]
        /\ act' \in [Worker -> Conn \cup {None}] /\ buf' \in [Worker -> 1..Len(content) \cup {0}]
    BY DEF TypeOK
  <2>5. UNCHANGED <<net, selector, selectorTasks, wakeup, acts, to, at, message, joined,
                    processed, output, sends>>
    OBVIOUS
  <2> HIDE DEF Release
  <2>6. QED
    BY <2>2, <2>3, <2>4, <2>5 DEF TypeOK
<1>2. OnlyAccepted'
  BY DEF OnlyAccepted, Accepted, TypeOK
<1>3. Locals'
  BY DEF TypeOK, Locals
<1>4. NoneForgotten'
  BY ZenonT(60) DEF TypeOK, NoneForgotten, Asked
<1>5. AskedAgain'
  BY DEF TypeOK, AskedAgain, Asked
<1>6. WokenForTasks'
  BY DEF TypeOK, WokenForTasks
<1>7. Conserved'
  BY DEF TypeOK, Conserved
<1> HIDE DEF Release, ReactorInv
<1>8. QED
  BY <1>1, <1>2, <1>3, <1>4, <1>5, <1>6, <1>7 DEF ReactorInv

LEMMA SendUpdateKeeps ==
    ASSUME ReactorInv, NEW w \in Worker, SendUpdate(w)
    PROVE  ReactorInv'
<1> USE NoneAssumption, KindsAssumption DEF ReactorInv, SendUpdate
<1>1. TypeOK'
  <2>1. at[w] \in Conn /\ selectorTasks \in Seq(Conn)
    BY DEF Locals, TypeOK
  <2>2. /\ selectorTasks' \in Seq(Conn) /\ Len(selectorTasks') = Len(selectorTasks) + 1
        /\ selectorTasks'[Len(selectorTasks) + 1] = at[w]
        /\ \A i \in 1..Len(selectorTasks) : selectorTasks'[i] = selectorTasks[i]
    BY <2>1
  <2>3. QED
    BY <2>2 DEF TypeOK
<1>2. OnlyAccepted'
  BY DEF OnlyAccepted, Accepted, TypeOK
<1>3. Locals'
  BY SMTT(30) DEF TypeOK, Locals
<1>4. NoneForgotten'
  <2>1. at[w] \in Conn /\ selectorTasks \in Seq(Conn)
    BY DEF Locals, TypeOK
  <2>2. /\ selectorTasks' \in Seq(Conn) /\ Len(selectorTasks') = Len(selectorTasks) + 1
        /\ selectorTasks'[Len(selectorTasks) + 1] = at[w]
        /\ \A i \in 1..Len(selectorTasks) : selectorTasks'[i] = selectorTasks[i]
    BY <2>1
  <2>3. ASSUME NEW d \in Conn, Asked(d) PROVE Asked(d)'
    <3>1. CASE \E i \in 1..Len(selectorTasks) : selectorTasks[i] = d
      BY <3>1, <2>1, <2>2 DEF Asked
    <3>2. CASE \E v \in Worker : wpc[v] = "update" /\ at[v] = d
      <4>1. PICK v \in Worker : wpc[v] = "update" /\ at[v] = d
        BY <3>2
      <4>2. CASE v = w
        <5>1. Len(selectorTasks) + 1 \in 1..Len(selectorTasks') /\ selectorTasks'[Len(selectorTasks) + 1] = d
          BY <2>1, <2>2, <4>1, <4>2
        <5>2. QED
          BY <5>1 DEF Asked
      <4>3. CASE v # w
        BY <4>1, <4>3 DEF Asked, TypeOK
      <4>4. QED
        BY <4>2, <4>3
    <3>3. QED
      BY <2>3, <3>1, <3>2 DEF Asked
  <2>4. QED
    BY <2>3 DEF NoneForgotten
<1>5. AskedAgain'
  <2>1. at[w] \in Conn /\ selectorTasks \in Seq(Conn)
    BY DEF Locals, TypeOK
  <2>2. /\ selectorTasks' \in Seq(Conn) /\ Len(selectorTasks') = Len(selectorTasks) + 1
        /\ selectorTasks'[Len(selectorTasks) + 1] = at[w]
        /\ \A i \in 1..Len(selectorTasks) : selectorTasks'[i] = selectorTasks[i]
    BY <2>1
  <2>3. ASSUME NEW d \in Conn, Asked(d) PROVE Asked(d)'
    <3>1. CASE \E i \in 1..Len(selectorTasks) : selectorTasks[i] = d
      BY <3>1, <2>1, <2>2 DEF Asked
    <3>2. CASE \E v \in Worker : wpc[v] = "update" /\ at[v] = d
      <4>1. PICK v \in Worker : wpc[v] = "update" /\ at[v] = d
        BY <3>2
      <4>2. CASE v = w
        <5>1. Len(selectorTasks) + 1 \in 1..Len(selectorTasks') /\ selectorTasks'[Len(selectorTasks) + 1] = d
          BY <2>1, <2>2, <4>1, <4>2
        <5>2. QED
          BY <5>1 DEF Asked
      <4>3. CASE v # w
        BY <4>1, <4>3 DEF Asked, TypeOK
      <4>4. QED
        BY <4>2, <4>3
    <3>3. QED
      BY <2>3, <3>1, <3>2 DEF Asked
  <2>4. QED
    BY <2>3 DEF AskedAgain, TypeOK
<1>6. WokenForTasks'
  BY DEF TypeOK, WokenForTasks
<1>7. Conserved'
  BY DEF TypeOK, Conserved
<1> HIDE DEF SendUpdate, ReactorInv
<1>8. QED
  BY <1>1, <1>2, <1>3, <1>4, <1>5, <1>6, <1>7 DEF ReactorInv

LEMMA SendWakeupKeeps ==
    ASSUME ReactorInv, NEW w \in Worker, SendWakeup(w)
    PROVE  ReactorInv'
<1> USE NoneAssumption, KindsAssumption DEF ReactorInv, SendWakeup
<1>1. TypeOK'
  BY ZenonT(60) DEF TypeOK
<1>2. OnlyAccepted'
  BY DEF OnlyAccepted, Accepted, TypeOK
<1>3. Locals'
  <2>1. \/ wpc' = [wpc EXCEPT ![w] = "process"] /\ message' = [message EXCEPT ![w] = NoMessage]
        \/ wpc' = [wpc EXCEPT ![w] = "send"] /\ message' = message
    OBVIOUS
  <2>2. /\ wpc[w] = "wakeup" /\ content' = content /\ buf' = buf /\ at' = at
        /\ wpc \in [Worker -> {"idle", "process", "send", "update", "wakeup"}]
        /\ message \in [Worker -> Message \cup {NoMessage}]
    BY DEF TypeOK
  <2> HIDE DEF SendWakeup
  <2>3. QED
    BY <2>1, <2>2 DEF Locals
<1>4. NoneForgotten'
  <2>1. \A d \in Conn : Asked(d) => Asked(d)'
    BY DEF Asked, TypeOK
  <2>2. QED
    BY <2>1 DEF NoneForgotten
<1>5. AskedAgain'
  BY ZenonT(60) DEF TypeOK, AskedAgain, Asked
<1>6. WokenForTasks'
  BY DEF TypeOK, WokenForTasks
<1>7. Conserved'
  BY DEF TypeOK, Conserved
<1> HIDE DEF SendWakeup, ReactorInv
<1>8. QED
  BY <1>1, <1>2, <1>3, <1>4, <1>5, <1>6, <1>7 DEF ReactorInv

LEMMA ReactorInit == Init => ReactorInv
<1> SUFFICES ASSUME Init PROVE ReactorInv
  OBVIOUS
<1>1. TypeOK
  <2>1. \A S : <<>> \in Seq(S)
    OBVIOUS
  <2>2. /\ peer \in [Conn -> {"off", "up", "fin", "reset"}] /\ room \in [Conn -> BOOLEAN]
        /\ issued \in [Conn -> Seq(Kinds)] /\ inbound \in [Conn -> Seq(Kinds)]
        /\ received \in [Conn -> Seq(Message)]
    BY <2>1 DEF Init
  <2>3. /\ phase = "select" /\ selected = {} /\ current = None
        /\ chan \in [Conn -> {"none", "open", "closed"}] /\ interest \in [Conn -> SUBSET Ops]
        /\ selectorTasks \in Seq(Conn) /\ wakeup \in BOOLEAN
    BY <2>1 DEF Init
  <2>4. /\ writeQueue \in [Conn -> Seq(Message)] /\ half \in [Conn -> BOOLEAN]
        /\ content \in Seq(Seq(Kinds)) /\ bufferPool \in Seq(Buffer)
        /\ acts \in [Conn -> Seq(Buffer)]
    BY <2>1 DEF Init
  <2>5. /\ wpc \in [Worker -> {"idle", "process", "send", "update", "wakeup"}]
        /\ act \in [Worker -> Conn \cup {None}] /\ buf \in [Worker -> Buffer \cup {0}]
        /\ to \in [Worker -> SUBSET Conn] /\ at \in [Worker -> Conn \cup {None}]
        /\ message \in [Worker -> Message \cup {NoMessage}]
    BY DEF Init
  <2>6. /\ joined = {} /\ processed \in [Conn -> Seq(Kinds)] /\ sends \in [Conn -> Seq(Message)]
    BY <2>1 DEF Init
  <2>7. QED
    BY <2>2, <2>3, <2>4, <2>5, <2>6 DEF TypeOK
<1>2. OnlyAccepted /\ Locals /\ NoneForgotten /\ AskedAgain /\ WokenForTasks
  BY DEF Init, OnlyAccepted, Accepted, Locals, NoneForgotten, Asked, AskedAgain, WokenForTasks
<1>3. Conserved
  <2>1. OnItsWay(<<>>, <<>>, <<>>)
    BY DEF OnItsWay
  <2>2. QED
    BY ZenonT(60), <2>1 DEF Init, Conserved
<1>4. QED
  BY <1>1, <1>2, <1>3 DEF ReactorInv

LEMMA ReactorStutters == ReactorInv /\ UNCHANGED vars => ReactorInv'
<1> SUFFICES ASSUME ReactorInv, UNCHANGED vars PROVE ReactorInv'
  OBVIOUS
<1> USE DEF vars
<1>1. TypeOK'
  BY DEF ReactorInv, TypeOK
<1>2. OnlyAccepted' /\ Locals'
  BY DEF ReactorInv, OnlyAccepted, Accepted, Locals
<1>3. NoneForgotten' /\ AskedAgain' /\ WokenForTasks'
  BY DEF ReactorInv, NoneForgotten, Asked, AskedAgain, WokenForTasks
<1>4. Conserved'
  BY DEF ReactorInv, Conserved
<1>5. QED
  BY <1>1, <1>2, <1>3, <1>4 DEF ReactorInv

(* Every step is one of the actions, and each keeps the invariant.         *)
LEMMA ReactorStep == ReactorInv /\ [Next]_vars => ReactorInv'
<1> SUFFICES ASSUME ReactorInv, [Next]_vars PROVE ReactorInv'
  OBVIOUS
<1>1. ASSUME NEW c \in Conn, ClientStep(c) PROVE ReactorInv'
  BY <1>1, ArriveKeeps, IssueKeeps, DrainKeeps, LeaveKeeps DEF ClientStep
<1>2. ASSUME WriteStep PROVE ReactorInv'
  BY <1>2, WriteWholeKeeps, WritePartKeeps, WriteFailsKeeps, WriteDoneKeeps, WriteCheckKeeps,
     WriteUpdateKeeps DEF WriteStep
<1>3. ASSUME SelectorStep PROVE ReactorInv'
  BY <1>2, <1>3, SelectKeeps, RunTaskKeeps, TasksDoneKeeps, KeysDoneKeeps, HandleAcceptKeeps,
     HandleReadWriteKeeps, ContinueReadKeeps, ReadEndKeeps DEF SelectorStep
<1>4. ASSUME NEW w \in Worker, WorkerStep(w) PROVE ReactorInv'
  BY <1>4, StartKeeps, SendAddKeeps, ProcessKeeps, ThrowKeeps, ReleaseKeeps, SendUpdateKeeps,
     SendWakeupKeeps DEF WorkerStep
<1>5. QED
  BY <1>1, <1>3, <1>4, ReactorStutters DEF Next

(* In every reachable state the parts of the invariant hold.               *)
THEOREM ReactorInvariant == Spec => []ReactorInv
<1>1. Init => ReactorInv
  BY ReactorInit
<1>2. ReactorInv /\ [Next]_vars => ReactorInv'
  BY ReactorStep
<1>3. QED
  BY <1>1, <1>2, PTL DEF Spec

(* Every variable keeps its type, for any number of connections, workers   *)
(* and frames: buffers in use exist, a key in hand is one of the selector. *)
THEOREM ReactorTypes == Spec => []TypeOK
<1>1. ReactorInv => TypeOK
  BY DEF ReactorInv
<1>2. QED
  BY <1>1, ReactorInvariant, PTL

(* No message queued for an open channel is forgotten, although the        *)
(* selector's thread takes OP_WRITE away without any lock                  *)
(* (NonBlockingConnectionHandler.java:106-109 against 127-130).            *)
THEOREM NothingForgotten == Spec => []NoneForgotten
<1>1. ReactorInv => NoneForgotten
  BY DEF ReactorInv
<1>2. QED
  BY <1>1, ReactorInvariant, PTL

(* The selector's thread never sleeps on a task (Reactor.java:89-99        *)
(* against 60-61).                                                         *)
THEOREM AlwaysWoken == Spec => []WokenForTasks
<1>1. ReactorInv => WokenForTasks
  BY DEF ReactorInv
<1>2. QED
  BY <1>1, ReactorInvariant, PTL

-----------------------------------------------------------------------------
(* The messages sent to the clients go through pipes.                      *)

LEMMA OutboundInit == Init => Outbound!Init
  BY DEF Init, Outbound!Init

LEMMA OutboundTake == ReactorInv /\ WriteWhole => Outbound!Next
<1> SUFFICES ASSUME ReactorInv, WriteWhole PROVE Outbound!Next
  OBVIOUS
<1> DEFINE c == current.conn
<1>1. /\ c \in Conn /\ writeQueue[c] \in Seq(Message) /\ received[c] \in Seq(Message)
      /\ sends[c] \in Seq(Message) /\ writeQueue[c] # <<>>
      /\ OnItsWay(sends[c], received[c], writeQueue[c])
  BY DEF ReactorInv, TypeOK, Conserved, WriteWhole
<1>2. Len(received[c]) < Len(sends[c]) /\ sends[c][Len(received[c]) + 1] = Head(writeQueue[c])
  <2> HIDE DEF Message, c
  <2>1. QED
    BY <1>1, TakeOnItsWay
<1>3. received' = [received EXCEPT ![c] = Append(@, Head(writeQueue[c]))] /\ sends' = sends
  BY DEF WriteWhole
<1>4. received' = [received EXCEPT ![c] = Append(@, sends[c][Len(@) + 1])]
  BY <1>2, <1>3
<1>5. Outbound!Take(c)
  BY <1>2, <1>3, <1>4 DEF Outbound!Take
<1>6. QED
  BY <1>1, <1>5 DEF Outbound!Next

LEMMA OutboundPut ==
    ASSUME ReactorInv, NEW w \in Worker, NEW c \in Conn, SendAdd(w, c)
    PROVE  Outbound!Next
<1>1. message[w] \in Message
  BY DEF ReactorInv, Locals, SendAdd
<1>2. Outbound!Put(c, message[w])
  BY DEF SendAdd, Outbound!Put
<1>3. QED
  BY <1>1, <1>2 DEF Outbound!Next

LEMMA OutboundStep == ReactorInv /\ [Next]_vars => [Outbound!Next]_(Outbound!vars)
<1> SUFFICES ASSUME ReactorInv, [Next]_vars, UNCHANGED <<sends, received>> => FALSE
             PROVE  Outbound!Next
  BY DEF Outbound!vars
<1>1. ASSUME NEW c \in Conn, ClientStep(c) PROVE UNCHANGED <<sends, received>>
  BY <1>1 DEF ClientStep, Arrive, Issue, Drain, Leave
<1>2. ASSUME SelectorStep PROVE UNCHANGED <<sends, received>> \/ WriteWhole
  BY <1>2 DEF SelectorStep, WriteStep, Select, RunTask, TasksDone, KeysDone, HandleAccept,
              HandleReadWrite, ContinueRead, ReadEnd, WritePart, WriteFails, WriteDone,
              WriteCheck, WriteUpdate
<1>3. ASSUME NEW w \in Worker, WorkerStep(w)
      PROVE  UNCHANGED <<sends, received>> \/ \E c \in Conn : SendAdd(w, c)
  BY <1>3 DEF WorkerStep, Start, Process, ProcessThrows, Release, SendUpdate, SendWakeup
<1>4. UNCHANGED vars => UNCHANGED <<sends, received>>
  BY DEF vars
<1>5. QED
  BY <1>1, <1>2, <1>3, <1>4, OutboundTake, OutboundPut DEF Next

(* Whatever the channel takes at a time and however sends of several       *)
(* workers interleave, a client is written what was sent to it, in that    *)
(* order, nothing twice and nothing skipped (continueWrite).               *)
THEOREM OutboundImplemented == Spec => OutboundPipe
<1>1. Init => Outbound!Init
  BY OutboundInit
<1>2. ReactorInv /\ [Next]_vars => [Outbound!Next]_(Outbound!vars)
  BY OutboundStep
<1>3. QED
  BY <1>1, <1>2, ReactorInvariant, PTL DEF Spec, OutboundPipe, Outbound!Spec

-----------------------------------------------------------------------------
(* Every buffer is in one place.                                           *)

LEMMA ElementsOfNone == Elements(<<>>) = {} /\ NoTwice(<<>>)
  BY DEF Elements, NoTwice

LEMMA ElementsAppend ==
    ASSUME NEW S, NEW s \in Seq(S), NEW x \in S, NoTwice(s), x \notin Elements(s)
    PROVE  Elements(Append(s, x)) = Elements(s) \cup {x} /\ NoTwice(Append(s, x))
<1>1. PICK n \in Nat : n = Len(s)
  OBVIOUS
<1>2. PICK t : /\ t = Append(s, x) /\ Len(t) = n + 1 /\ t[n + 1] = x
               /\ \A i \in 1..n : t[i] = s[i]
  <2>1. /\ Len(Append(s, x)) = n + 1 /\ Append(s, x)[n + 1] = x
        /\ \A i \in 1..n : Append(s, x)[i] = s[i]
    BY <1>1
  <2>2. QED
    BY <2>1
<1>3. 1..n + 1 = (1..n) \cup {n + 1}
  BY <1>1
<1>4. Elements(t) = Elements(s) \cup {x}
  BY <1>1, <1>2, <1>3 DEF Elements
<1>5. \A i \in 1..n : s[i] # x
  BY <1>1 DEF Elements
<1>6. NoTwice(t)
  BY <1>1, <1>2, <1>3, <1>5 DEF NoTwice
<1>7. QED
  BY <1>2, <1>4, <1>6

LEMMA ElementsTail ==
    ASSUME NEW S, NEW s \in Seq(S), s # <<>>, NoTwice(s)
    PROVE  /\ Elements(Tail(s)) = Elements(s) \ {Head(s)} /\ NoTwice(Tail(s))
           /\ Head(s) \in Elements(s)
<1>0. PICK n \in Nat : n = Len(s)
  OBVIOUS
<1>1. PICK t : /\ n = Len(s) /\ n > 0 /\ t = Tail(s) /\ Len(t) = n - 1 /\ Head(s) = s[1]
               /\ \A i \in 1..n - 1 : t[i] = s[i + 1]
  <2>1. /\ Head(s) = s[1] /\ Len(Tail(s)) = n - 1 /\ n > 0
        /\ \A i \in 1..n - 1 : Tail(s)[i] = s[i + 1]
    BY <1>0, HeadTail
  <2>2. QED
    BY <1>0, <2>1
<1>2. \A i, j \in 1..n : s[i] = s[j] => i = j
  BY <1>1 DEF NoTwice
<1>3. ASSUME NEW x \in Elements(t) PROVE x \in Elements(s) \ {s[1]}
  <2>1. PICK i \in 1..n - 1 : x = t[i]
    BY <1>1, <1>3 DEF Elements
  <2>2. i + 1 \in 1..n /\ 1 \in 1..n /\ i + 1 # 1 /\ x = s[i + 1]
    BY <1>1, <2>1
  <2>3. QED
    BY <1>1, <1>2, <2>2 DEF Elements
<1>4. ASSUME NEW x \in Elements(s), x # s[1] PROVE x \in Elements(t)
  <2>1. PICK i \in 1..n : x = s[i]
    BY <1>1 DEF Elements
  <2>2. i - 1 \in 1..n - 1 /\ (i - 1) + 1 = i
    BY <1>4, <2>1
  <2>3. x = t[i - 1]
    BY <1>1, <2>1, <2>2
  <2>4. QED
    BY <1>1, <2>2, <2>3 DEF Elements
<1>5. NoTwice(t)
  <2> SUFFICES ASSUME NEW i \in 1..n - 1, NEW j \in 1..n - 1, t[i] = t[j] PROVE i = j
    BY <1>1 DEF NoTwice
  <2>1. i + 1 \in 1..n /\ j + 1 \in 1..n /\ s[i + 1] = s[j + 1]
    BY <1>1
  <2>2. i + 1 = j + 1
    BY <1>2, <2>1
  <2>3. QED
    BY <2>2
<1>6. 1 \in 1..n /\ s[1] \in Elements(s)
  BY <1>1 DEF Elements
<1>7. QED
  BY <1>1, <1>3, <1>4, <1>5, <1>6

(* The buffers where they are: free, with the tasks of c, with worker w.   *)
LEMMA Whereabouts ==
    ASSUME TypeOK, Locals
    PROVE  /\ Len(content) \in Nat /\ Elements(bufferPool) \subseteq Buffer
           /\ \A c \in Conn : Elements(acts[c]) \subseteq Buffer
           /\ \A w \in Worker : wpc[w] # "idle" => buf[w] \in Buffer
<1>1. bufferPool \in Seq(Buffer) /\ \A c \in Conn : acts[c] \in Seq(Buffer)
  BY DEF TypeOK
<1>2. Elements(bufferPool) \subseteq Buffer
  BY <1>1 DEF Elements
<1>3. ASSUME NEW c \in Conn PROVE Elements(acts[c]) \subseteq Buffer
  <2>1. acts[c] \in Seq(Buffer)
    BY <1>1
  <2>2. QED
    BY <2>1 DEF Elements
<1>4. QED
  BY <1>2, <1>3 DEF TypeOK, Locals

(* A step that leaves them there.                                          *)
LEMMA BuffersStay ==
    ASSUME BuffersInv, UNCHANGED <<bufferPool, acts, buf>>, Len(content') = Len(content),
           \A w \in Worker : wpc'[w] # "idle" <=> wpc[w] # "idle"
    PROVE  BuffersInv'
<1>1. BuffersSeparate'
  BY DEF BuffersInv, BuffersSeparate
<1>2. BuffersKept'
  BY DEF BuffersInv, BuffersKept
<1>3. QED
  BY <1>1, <1>2 DEF BuffersInv

(* A free or a new one goes with a task.                                   *)
LEMMA BufferWaits ==
    ASSUME BuffersInv, NEW c \in Conn, NEW b, UNCHANGED <<wpc, buf>>,
           \A d \in Conn : b \notin Elements(acts[d]),
           \A w \in Worker : wpc[w] # "idle" => buf[w] # b,
           Elements(bufferPool') = Elements(bufferPool) \ {b}, NoTwice(bufferPool'),
           Elements(acts'[c]) = Elements(acts[c]) \cup {b}, NoTwice(acts'[c]),
           \A d \in Conn \ {c} : acts'[d] = acts[d],
           \A x \in 1..Len(content') : x \in Buffer \/ x = b
    PROVE  BuffersInv'
<1>1. BuffersSeparate'
  <2>1. ASSUME NEW d \in Conn
        PROVE  NoTwice(acts'[d]) /\ Elements(acts'[d]) \cap Elements(bufferPool') = {}
    BY <2>1 DEF BuffersInv, BuffersSeparate
  <2>2. ASSUME NEW d \in Conn, NEW e \in Conn, d # e
        PROVE  Elements(acts'[d]) \cap Elements(acts'[e]) = {}
    BY <2>2 DEF BuffersInv, BuffersSeparate
  <2>3. ASSUME NEW w \in Worker, wpc'[w] # "idle"
        PROVE  /\ buf'[w] \notin Elements(bufferPool')
               /\ \A d \in Conn : buf'[w] \notin Elements(acts'[d])
               /\ \A v \in Worker \ {w} : wpc'[v] # "idle" => buf'[v] # buf'[w]
    BY <2>3 DEF BuffersInv, BuffersSeparate
  <2>4. QED
    BY <2>1, <2>2, <2>3 DEF BuffersSeparate
<1>2. BuffersKept'
  <2> SUFFICES ASSUME NEW x \in 1..Len(content')
               PROVE  \/ x \in Elements(bufferPool')
                      \/ \E d \in Conn : x \in Elements(acts'[d])
                      \/ \E w \in Worker : wpc'[w] # "idle" /\ buf'[w] = x
    BY DEF BuffersKept
  <2>1. CASE x = b
    BY <2>1
  <2>2. CASE x # b /\ x \in Buffer
    BY <2>2 DEF BuffersInv, BuffersKept
  <2>3. QED
    BY <2>1, <2>2
<1>3. QED
  BY <1>1, <1>2 DEF BuffersInv

(* One that nobody has, or has no more, is added to the pool.              *)
LEMMA BufferFreed ==
    ASSUME BuffersInv, NEW b, UNCHANGED <<acts>>,
           \A d \in Conn : b \notin Elements(acts[d]),
           \A w \in Worker : wpc'[w] # "idle" =>
              wpc[w] # "idle" /\ buf'[w] = buf[w] /\ buf[w] # b,
           \A w \in Worker : wpc[w] # "idle" => buf[w] = b \/ wpc'[w] # "idle",
           Elements(bufferPool') = Elements(bufferPool) \cup {b}, NoTwice(bufferPool'),
           \A x \in 1..Len(content') : x \in Buffer \/ x = b
    PROVE  BuffersInv'
<1>1. BuffersSeparate'
  BY DEF BuffersInv, BuffersSeparate
<1>2. BuffersKept'
  <2> SUFFICES ASSUME NEW x \in 1..Len(content')
               PROVE  \/ x \in Elements(bufferPool')
                      \/ \E d \in Conn : x \in Elements(acts'[d])
                      \/ \E w \in Worker : wpc'[w] # "idle" /\ buf'[w] = x
    BY DEF BuffersKept
  <2>1. CASE x = b
    BY <2>1
  <2>2. CASE x # b /\ x \in Buffer
    BY <2>2 DEF BuffersInv, BuffersKept
  <2>3. QED
    BY <2>1, <2>2
<1>3. QED
  BY <1>1, <1>2 DEF BuffersInv

(* A worker takes up a task.                                               *)
LEMMA BufferTaken ==
    ASSUME BuffersInv, NEW w \in Worker, NEW c \in Conn, NEW b, UNCHANGED <<bufferPool, content>>,
           wpc[w] = "idle", buf'[w] = b, wpc'[w] # "idle",
           \A v \in Worker \ {w} : wpc'[v] = wpc[v] /\ buf'[v] = buf[v],
           b \in Elements(acts[c]), Elements(acts'[c]) = Elements(acts[c]) \ {b}, NoTwice(acts'[c]),
           \A d \in Conn \ {c} : acts'[d] = acts[d]
    PROVE  BuffersInv'
<1>1. BuffersSeparate'
  BY DEF BuffersInv, BuffersSeparate
<1>2. BuffersKept'
  <2> SUFFICES ASSUME NEW x \in Buffer
               PROVE  \/ x \in Elements(bufferPool')
                      \/ \E d \in Conn : x \in Elements(acts'[d])
                      \/ \E v \in Worker : wpc'[v] # "idle" /\ buf'[v] = x
    BY DEF BuffersKept
  <2>1. CASE x = b
    BY <2>1
  <2>2. CASE x # b
    BY <2>2 DEF BuffersInv, BuffersKept
  <2>3. QED
    BY <2>1, <2>2
<1>3. QED
  BY <1>1, <1>2 DEF BuffersInv

LEMMA BuffersContinueRead ==
    ASSUME ReactorInv, BuffersInv, ContinueRead
    PROVE  BuffersInv'
<1>0. PICK c \in Conn : c = current.conn /\ inbound[c] \in Seq(Kinds)
  BY DEF ReactorInv, TypeOK, ContinueRead
<1>1. PICK frames \in Seq(Kinds) : Lease(frames)
  <2>1. PICK k \in 1..Len(inbound[c]) : Lease(SubSeq(inbound[c], 1, k))
    BY <1>0 DEF ContinueRead
  <2>2. SubSeq(inbound[c], 1, k) \in Seq(Kinds)
    BY <1>0, SubSeqType
  <2> HIDE DEF Lease
  <2>3. QED
    BY <2>1, <2>2
<1>b. PICK b : b = Leased
  OBVIOUS
<1>n. PICK n \in Nat : n = Len(content)
  BY DEF ReactorInv, TypeOK
<1>2. /\ content \in Seq(Seq(Kinds)) /\ bufferPool \in Seq(Buffer) /\ acts[c] \in Seq(Buffer)
      /\ acts'[c] = Append(acts[c], b) /\ \A d \in Conn \ {c} : acts'[d] = acts[d]
      /\ UNCHANGED <<wpc, buf>>
  <2>1. acts' = [acts EXCEPT ![c] = Append(@, b)] /\ UNCHANGED <<wpc, buf>>
    BY <1>0, <1>b DEF ContinueRead
  <2>2. acts \in [Conn -> Seq(Buffer)] /\ content \in Seq(Seq(Kinds)) /\ bufferPool \in Seq(Buffer)
    BY DEF ReactorInv, TypeOK
  <2>3. QED
    BY <2>1, <2>2
<1>3. /\ Elements(bufferPool) \subseteq Buffer /\ \A d \in Conn : Elements(acts[d]) \subseteq Buffer
      /\ \A w \in Worker : wpc[w] # "idle" => buf[w] \in Buffer
  BY Whereabouts DEF ReactorInv
<1>4. NoTwice(bufferPool) /\ NoTwice(acts[c])
  BY DEF BuffersInv, BuffersSeparate
<1>5. CASE bufferPool # <<>>
  <2>1. b = Head(bufferPool) /\ bufferPool' = Tail(bufferPool)
    BY <1>1, <1>b, <1>5
  <2>2. Len(content') = n
    <3>1. b \in 1..n /\ content' = [content EXCEPT ![b] = frames]
      BY SMTT(30), <1>1, <1>2, <1>b, <1>n, <1>5, <2>1, HeadTail
    <3>2. QED
      BY <1>2, <1>n, <3>1
  <2>3. /\ b \in Elements(bufferPool) /\ Elements(bufferPool') = Elements(bufferPool) \ {b}
        /\ NoTwice(bufferPool')
    BY <1>2, <1>4, <1>5, <2>1, ElementsTail
  <2>4. /\ \A d \in Conn : b \notin Elements(acts[d])
        /\ \A w \in Worker : wpc[w] # "idle" => buf[w] # b
    BY <2>3 DEF BuffersInv, BuffersSeparate
  <2>5. b \in Buffer
    BY <1>3, <2>3
  <2>6. Elements(acts'[c]) = Elements(acts[c]) \cup {b} /\ NoTwice(acts'[c])
    BY <1>2, <1>4, <2>4, <2>5, ElementsAppend
  <2>7. \A x \in 1..Len(content') : x \in Buffer \/ x = b
    BY <1>n, <2>2
  <2>8. QED
    BY <1>2, <2>3, <2>4, <2>6, <2>7, BufferWaits
<1>6. CASE bufferPool = <<>>
  <2>1. b = n + 1 /\ bufferPool' = <<>> /\ content' = Append(content, frames)
    BY <1>1, <1>b, <1>n, <1>6
  <2>2. Len(content') = n + 1
    BY <1>2, <1>n, <2>1
  <2>3. b \notin Buffer
    BY <1>n, <2>1
  <2>4. /\ Elements(bufferPool') = Elements(bufferPool) \ {b} /\ NoTwice(bufferPool')
    BY <1>6, <2>1, ElementsOfNone
  <2>5. /\ \A d \in Conn : b \notin Elements(acts[d])
        /\ \A w \in Worker : wpc[w] # "idle" => buf[w] # b
    BY <1>3, <2>3
  <2>6. Elements(acts'[c]) = Elements(acts[c]) \cup {b} /\ NoTwice(acts'[c])
    <3>1. PICK S : acts[c] \in Seq(S) /\ b \in S
      <4>1. Seq(1..n) \subseteq Seq(1..n + 1)
        BY MoreBuffers
      <4>2. acts[c] \in Seq(1..n + 1) /\ b \in 1..n + 1
        BY <1>2, <1>n, <2>1, <4>1
      <4>3. QED
        BY <4>2
    <3>2. Elements(Append(acts[c], b)) = Elements(acts[c]) \cup {b} /\ NoTwice(Append(acts[c], b))
      BY <1>4, <2>5, <3>1, ElementsAppend
    <3>3. QED
      BY <1>2, <3>2
  <2>7. \A x \in 1..Len(content') : x \in Buffer \/ x = b
    BY <1>n, <2>1, <2>2
  <2>8. QED
    BY <1>2, <2>4, <2>5, <2>6, <2>7, BufferWaits
<1>7. QED
  BY <1>5, <1>6

LEMMA BuffersReadEnd ==
    ASSUME ReactorInv, BuffersInv, ReadEnd
    PROVE  BuffersInv'
<1>1. PICK n \in Nat : n = Len(content)
  BY DEF ReactorInv, TypeOK
<1>2. /\ content \in Seq(Seq(Kinds)) /\ bufferPool \in Seq(Buffer) /\ NoTwice(bufferPool)
      /\ UNCHANGED <<wpc, buf, acts>>
  BY DEF ReactorInv, TypeOK, ReadEnd, BuffersInv, BuffersSeparate
<1>3. /\ Elements(bufferPool) \subseteq Buffer /\ \A d \in Conn : Elements(acts[d]) \subseteq Buffer
      /\ \A w \in Worker : wpc[w] # "idle" => buf[w] \in Buffer
  BY Whereabouts DEF ReactorInv
<1>4. CASE bufferPool # <<>>
  <2>1. PICK b \in Buffer : /\ b = Head(bufferPool) /\ bufferPool' = Append(Tail(bufferPool), b)
                            /\ content' = content
    <3>1. Head(bufferPool) \in Buffer
      BY <1>2, <1>4, HeadTail
    <3>2. QED
      BY <1>4, <3>1 DEF ReadEnd
  <2>2. /\ b \in Elements(bufferPool) /\ Elements(Tail(bufferPool)) = Elements(bufferPool) \ {b}
        /\ NoTwice(Tail(bufferPool)) /\ Tail(bufferPool) \in Seq(Buffer)
    BY <1>2, <1>4, <2>1, ElementsTail, HeadTail
  <2>3. Elements(bufferPool') = Elements(bufferPool) \cup {b} /\ NoTwice(bufferPool')
    <3>1. b \notin Elements(Tail(bufferPool))
      BY <2>2
    <3>2. PICK S, free : free = Tail(bufferPool) /\ free \in Seq(S) /\ b \in S
      <4>1. Tail(bufferPool) \in Seq(Buffer) /\ b \in Buffer
        BY <2>2
      <4> HIDE DEF Buffer
      <4>2. QED
        BY <4>1
    <3>3. NoTwice(free) /\ b \notin Elements(free) /\ free \in Seq(S) /\ b \in S
      BY <2>2, <3>1, <3>2
    <3>4. Elements(Append(free, b)) = Elements(free) \cup {b} /\ NoTwice(Append(free, b))
      BY <3>3, ElementsAppend
    <3>5. QED
      BY <2>1, <2>2, <3>2, <3>4
  <2>4. /\ \A d \in Conn : b \notin Elements(acts[d])
        /\ \A w \in Worker : wpc[w] # "idle" => buf[w] # b
    BY <2>2 DEF BuffersInv, BuffersSeparate
  <2>5. QED
    BY <1>2, <2>1, <2>3, <2>4, BufferFreed
<1>5. CASE bufferPool = <<>>
  <2>1. /\ bufferPool' = <<n + 1>> /\ content' = Append(content, <<>>)
    BY <1>1, <1>5 DEF ReadEnd
  <2>2. Elements(bufferPool') = Elements(bufferPool) \cup {n + 1} /\ NoTwice(bufferPool')
    BY <1>5, <2>1, ElementsOfNone DEF Elements, NoTwice
  <2>3. n + 1 \notin Buffer
    BY <1>1
  <2>4. Len(content') = n + 1
    BY <1>1, <1>2, <2>1
  <2>5. \A x \in 1..Len(content') : x \in Buffer \/ x = n + 1
    BY <1>1, <2>4
  <2>6. /\ \A d \in Conn : n + 1 \notin Elements(acts[d])
        /\ \A w \in Worker : wpc[w] # "idle" => buf[w] # n + 1
    BY <1>3, <2>3
  <2>7. QED
    BY <1>2, <2>2, <2>5, <2>6, BufferFreed
<1>6. QED
  BY <1>4, <1>5

LEMMA BuffersStart ==
    ASSUME ReactorInv, BuffersInv, NEW w \in Worker, NEW c \in Conn, Start(w, c)
    PROVE  BuffersInv'
<1>1. /\ acts[c] \in Seq(Buffer) /\ NoTwice(acts[c]) /\ acts[c] # <<>>
      /\ wpc[w] = "idle" /\ buf'[w] = Head(acts[c]) /\ wpc'[w] # "idle"
      /\ UNCHANGED <<bufferPool, content>>
      /\ \A v \in Worker \ {w} : wpc'[v] = wpc[v] /\ buf'[v] = buf[v]
      /\ acts'[c] = Tail(acts[c]) /\ \A d \in Conn \ {c} : acts'[d] = acts[d]
  BY DEF ReactorInv, TypeOK, BuffersInv, BuffersSeparate, Start
<1>2. /\ Head(acts[c]) \in Elements(acts[c])
      /\ Elements(acts'[c]) = Elements(acts[c]) \ {Head(acts[c])} /\ NoTwice(acts'[c])
  BY <1>1, ElementsTail
<1>3. QED
  BY <1>1, <1>2, BufferTaken

LEMMA BuffersReleased ==
    ASSUME ReactorInv, BuffersInv, NEW w \in Worker, ProcessThrows(w) \/ Release(w)
    PROVE  BuffersInv'
<1>1. /\ wpc[w] # "idle" /\ wpc'[w] = "idle" /\ \A v \in Worker \ {w} : wpc'[v] = wpc[v]
      /\ \A v \in Worker \ {w} : buf'[v] = buf[v]
      /\ bufferPool \in Seq(Buffer) /\ bufferPool' = Append(bufferPool, buf[w])
      /\ NoTwice(bufferPool) /\ UNCHANGED acts /\ Len(content') = Len(content)
  BY DEF ReactorInv, TypeOK, BuffersInv, BuffersSeparate, ProcessThrows, Release
<1>2. buf[w] \in Buffer
  BY <1>1, Whereabouts DEF ReactorInv
<1>3. /\ buf[w] \notin Elements(bufferPool) /\ \A d \in Conn : buf[w] \notin Elements(acts[d])
      /\ \A v \in Worker \ {w} : wpc[v] # "idle" => buf[v] # buf[w]
  BY <1>1 DEF BuffersInv, BuffersSeparate
<1>4. Elements(bufferPool') = Elements(bufferPool) \cup {buf[w]} /\ NoTwice(bufferPool')
  BY <1>1, <1>2, <1>3, ElementsAppend
<1>5. \A v \in Worker : wpc'[v] # "idle" => wpc[v] # "idle" /\ buf'[v] = buf[v] /\ buf[v] # buf[w]
  BY <1>1, <1>3
<1>6. \A v \in Worker : wpc[v] # "idle" => buf[v] = buf[w] \/ wpc'[v] # "idle"
  BY <1>1
<1>7. \A x \in 1..Len(content') : x \in Buffer \/ x = buf[w]
  BY <1>1
<1>8. PICK b : b = buf[w]
  OBVIOUS
<1>9. QED
  BY <1>1, <1>3, <1>4, <1>5, <1>6, <1>7, <1>8, BufferFreed

LEMMA BuffersInit == Init => BuffersInv
  BY ElementsOfNone DEF Init, BuffersInv, BuffersSeparate, BuffersKept

LEMMA BuffersNext == ReactorInv /\ BuffersInv /\ [Next]_vars => BuffersInv'
<1> SUFFICES ASSUME ReactorInv, BuffersInv, [Next]_vars PROVE BuffersInv'
  OBVIOUS
<1>1. CASE UNCHANGED vars
  BY <1>1, BuffersStay DEF vars
<1>2. ASSUME NEW c \in Conn, ClientStep(c) PROVE BuffersInv'
  BY <1>2, BuffersStay DEF ClientStep, Arrive, Issue, Drain, Leave
<1>3. CASE SelectorStep
  <2>1. ASSUME \/ Select \/ RunTask \/ TasksDone \/ KeysDone
               \/ \E c \in Conn : HandleAccept(c)
               \/ \E k \in selected : HandleReadWrite(k)
        PROVE  BuffersInv'
    BY <2>1, BuffersStay DEF Select, RunTask, TasksDone, KeysDone, HandleAccept, HandleReadWrite
  <2>2. ASSUME WriteStep PROVE BuffersInv'
    BY <2>2, BuffersStay
       DEF WriteStep, WriteWhole, WritePart, WriteFails, WriteDone, WriteCheck, WriteUpdate
  <2>3. QED
    BY <1>3, <2>1, <2>2, BuffersContinueRead, BuffersReadEnd DEF SelectorStep
<1>4. ASSUME NEW w \in Worker, WorkerStep(w) PROVE BuffersInv'
  <2>1. ASSUME Process(w) \/ SendUpdate(w) \/ SendWakeup(w) \/ \E c \in Conn : SendAdd(w, c)
        PROVE  BuffersInv'
    <3>1. UNCHANGED <<bufferPool, acts, buf>>
      BY <2>1 DEF Process, SendAdd, SendUpdate, SendWakeup
    <3>2. \A v \in Worker : wpc'[v] # "idle" <=> wpc[v] # "idle"
      BY <2>1 DEF Process, SendAdd, SendUpdate, SendWakeup, ReactorInv, TypeOK
    <3>3. Len(content') = Len(content)
      BY <2>1 DEF Process, SendAdd, SendUpdate, SendWakeup, ReactorInv, TypeOK
    <3>4. QED
      BY <3>1, <3>2, <3>3, BuffersStay
  <2>2. QED
    BY <1>4, <2>1, BuffersStart, BuffersReleased DEF WorkerStep
<1>5. QED
  BY <1>1, <1>2, <1>3, <1>4 DEF Next

(* Every buffer is in one place: free, with one task that waits, or in the *)
(* hands of one worker, so that no two tasks share one and none is lost,   *)
(* even if a task throws (NonBlockingConnectionHandler.java:66-68).        *)
THEOREM BuffersKeptTrack == Spec => []BuffersAccounted
<1>1. ReactorInv /\ BuffersInv => BuffersAccounted
  <2> SUFFICES ASSUME BuffersInv, NEW b \in Buffer
               PROVE  \E p \in Free(b) \cup Waits(b) \cup Held(b) :
                        Free(b) \cup Waits(b) \cup Held(b) = {p}
    BY DEF BuffersAccounted
  <2>1. CASE b \in Elements(bufferPool)
    <3>1. PICK i \in 1..Len(bufferPool) : bufferPool[i] = b
      BY <2>1 DEF Elements
    <3>2. Free(b) = {<<"free", i>>}
      BY <3>1 DEF Free, BuffersInv, BuffersSeparate, NoTwice
    <3>3. Waits(b) = {}
      <4>1. ASSUME NEW c \in Conn PROVE b \notin Elements(acts[c])
        BY <2>1 DEF BuffersInv, BuffersSeparate
      <4>2. ASSUME NEW c \in Conn PROVE {j \in 1..Len(acts[c]) : acts[c][j] = b} = {}
        <5>1. b \notin Elements(acts[c])
          BY <4>1
        <5>2. QED
          BY <5>1 DEF Elements
      <4>3. QED
        BY <4>2 DEF Waits
    <3>4. Held(b) = {}
      BY <2>1 DEF Held, BuffersInv, BuffersSeparate
    <3>5. QED
      BY <3>2, <3>3, <3>4
  <2>2. ASSUME NEW c \in Conn, b \in Elements(acts[c])
        PROVE  \E p \in Free(b) \cup Waits(b) \cup Held(b) :
                 Free(b) \cup Waits(b) \cup Held(b) = {p}
    <3>1. PICK i \in 1..Len(acts[c]) : acts[c][i] = b
      BY <2>2 DEF Elements
    <3>2. Free(b) = {}
      BY ZenonT(60), <2>2 DEF Free, BuffersInv, BuffersSeparate, Elements
    <3>3. \A d \in Conn : \A j \in 1..Len(acts[d]) : acts[d][j] = b => d = c /\ j = i
      <4> SUFFICES ASSUME NEW d \in Conn, NEW j \in 1..Len(acts[d]), acts[d][j] = b
                   PROVE  d = c /\ j = i
        OBVIOUS
      <4>1. b \in Elements(acts[d])
        BY DEF Elements
      <4>2. d = c
        BY <2>2, <4>1 DEF BuffersInv, BuffersSeparate
      <4>3. NoTwice(acts[c])
        BY DEF BuffersInv, BuffersSeparate
      <4>4. QED
        BY <3>1, <4>2, <4>3 DEF NoTwice
    <3>4. Waits(b) = {<<"waits", c, i>>}
      BY <3>1, <3>3 DEF Waits
    <3>5. Held(b) = {}
      BY <2>2 DEF Held, BuffersInv, BuffersSeparate
    <3>6. QED
      BY <3>2, <3>4, <3>5
  <2>3. ASSUME NEW w \in Worker, wpc[w] # "idle", buf[w] = b
        PROVE  \E p \in Free(b) \cup Waits(b) \cup Held(b) :
                 Free(b) \cup Waits(b) \cup Held(b) = {p}
    <3>1. Free(b) = {}
      BY <2>3 DEF Free, BuffersInv, BuffersSeparate, Elements
    <3>2. Waits(b) = {}
      BY <2>3 DEF Waits, BuffersInv, BuffersSeparate, Elements
    <3>3. Held(b) = {<<"held", w>>}
      BY <2>3 DEF Held, BuffersInv, BuffersSeparate
    <3>4. QED
      BY <3>1, <3>2, <3>3
  <2>4. QED
    BY <2>1, <2>2, <2>3 DEF BuffersInv, BuffersKept
<1>2. QED
  BY <1>1, ReactorInvariant, BuffersInit, BuffersNext, PTL DEF Spec

-----------------------------------------------------------------------------
(* The frames of a client reach the protocol in their order.               *)

LEMMA PieceNone == ASSUME NEW all, NEW m \in Nat PROVE Piece(all, <<>>, m, m)
  BY DEF Piece

LEMMA PieceGrows ==
    ASSUME NEW S, NEW all \in Seq(S), NEW x \in S, NEW s \in Seq(S), NEW from \in Nat, NEW upto \in Nat,
           upto <= Len(all), Piece(all, s, from, upto)
    PROVE  Piece(Append(all, x), s, from, upto)
<1>1. PICK n, m, more :
        /\ n \in Nat /\ m \in Nat
        /\ n = Len(all) /\ m = Len(s) /\ more = Append(all, x)
        /\ upto = from + m /\ upto <= n
        /\ \A i \in 1..n : more[i] = all[i]
  <2>1. /\ Len(all) \in Nat /\ Len(s) \in Nat /\ upto = from + Len(s)
        /\ \A i \in 1..Len(all) : Append(all, x)[i] = all[i]
    BY DEF Piece
  <2>2. QED
    BY <2>1
<1>2. ASSUME NEW i \in 1..m PROVE more[from + i] = s[i]
  <2>1. from + i \in 1..n
    BY <1>1
  <2>2. QED
    BY <1>1, <2>1 DEF Piece
<1>3. QED
  BY <1>1, <1>2 DEF Piece

LEMMA PieceAppended ==
    ASSUME NEW S, NEW all \in Seq(S), NEW x \in S, NEW s \in Seq(S), NEW from \in Nat,
           Piece(all, s, from, Len(all))
    PROVE  Piece(Append(all, x), Append(s, x), from, Len(all) + 1)
<1>1. PICK n \in Nat, m \in Nat : n = Len(all) /\ m = Len(s) /\ n = from + m
  BY DEF Piece
<1>2. PICK more, t :
        /\ more = Append(all, x) /\ t = Append(s, x) /\ Len(t) = m + 1
        /\ more[n + 1] = x /\ t[m + 1] = x
        /\ (\A i \in 1..n : more[i] = all[i]) /\ (\A i \in 1..m : t[i] = s[i])
  <2>1. \A j \in Nat : j = Len(all) => /\ Append(all, x)[j + 1] = x
                                     /\ \A i \in 1..j : Append(all, x)[i] = all[i]
    OBVIOUS
  <2>3. Append(all, x)[n + 1] = x /\ \A i \in 1..n : Append(all, x)[i] = all[i]
    BY <1>1, <2>1
  <2>2. /\ Len(Append(s, x)) = m + 1 /\ Append(s, x)[m + 1] = x
        /\ \A i \in 1..m : Append(s, x)[i] = s[i]
    BY <1>1
  <2>4. QED
    BY ZenonT(60), <2>2, <2>3
<1>3. ASSUME NEW i \in 1..m + 1 PROVE more[from + i] = t[i]
  <2>1. CASE i = m + 1
    <3>1. from + i = n + 1
      BY <1>1, <2>1
    <3>2. QED
      BY <1>2, <2>1, <3>1
  <2>2. CASE i # m + 1
    <3>1. i \in 1..m /\ from + i \in 1..n
      BY <1>1, <2>2
    <3>2. QED
      BY <1>1, <1>2, <3>1 DEF Piece
  <2>3. QED
    BY <2>1, <2>2
<1>4. n + 1 = from + (m + 1)
  BY <1>1
<1>5. QED
  BY <1>1, <1>2, <1>3, <1>4 DEF Piece

LEMMA PieceSplit ==
    ASSUME NEW S, NEW all, NEW s \in Seq(S), NEW from \in Nat, NEW upto, NEW k \in 1..Len(s),
           Piece(all, s, from, upto)
    PROVE  /\ from + k \in Nat /\ from + k <= upto
           /\ Piece(all, SubSeq(s, 1, k), from, from + k)
           /\ Piece(all, SubSeq(s, k + 1, Len(s)), from + k, upto)
<1>1. PICK n \in Nat : n = Len(s) /\ k <= n /\ upto = from + n /\ \A i \in 1..n : all[from + i] = s[i]
  BY DEF Piece
<1>2. Len(SubSeq(s, 1, k)) = k /\ \A i \in 1..k : SubSeq(s, 1, k)[i] = s[i]
  BY <1>1
<1>3. Len(SubSeq(s, k + 1, n)) = n - k /\ \A i \in 1..n - k : SubSeq(s, k + 1, n)[i] = s[k + i]
  BY <1>1
<1>4. \A i \in 1..k : i \in 1..n
  BY <1>1
<1>5. \A i \in 1..n - k : k + i \in 1..n /\ from + (k + i) = (from + k) + i
  BY <1>1
<1>6. Piece(all, SubSeq(s, 1, k), from, from + k)
  BY <1>1, <1>2, <1>4 DEF Piece
<1>7. Piece(all, SubSeq(s, k + 1, n), from + k, upto)
  <2>1. upto = (from + k) + (n - k)
    BY <1>1
  <2>2. \A i \in 1..n - k : all[(from + k) + i] = SubSeq(s, k + 1, n)[i]
    BY <1>1, <1>3, <1>5
  <2>3. QED
    BY <1>3, <2>1, <2>2 DEF Piece
<1>8. QED
  BY <1>1, <1>6, <1>7

LEMMA PieceHead ==
    ASSUME NEW S, NEW all, NEW s \in Seq(S), s # <<>>, NEW from \in Nat, NEW upto, Piece(all, s, from, upto)
    PROVE  /\ all[from + 1] = Head(s) /\ from < upto
           /\ Piece(all, Tail(s), from + 1, upto)
<1>1. PICK n \in Nat : /\ n = Len(s) /\ n > 0 /\ upto = from + n
                       /\ \A i \in 1..n : all[from + i] = s[i]
  BY HeadTail DEF Piece
<1>2. /\ Head(s) = s[1] /\ Len(Tail(s)) = n - 1 /\ \A i \in 1..n - 1 : Tail(s)[i] = s[i + 1]
  BY <1>1, HeadTail
<1>3. \A i \in 1..n - 1 : i + 1 \in 1..n /\ from + (i + 1) = (from + 1) + i
  BY <1>1
<1>4. \A i \in 1..n - 1 : all[(from + 1) + i] = Tail(s)[i]
  BY <1>1, <1>2, <1>3
<1>5. upto = (from + 1) + (n - 1)
  BY <1>1
<1>6. QED
  BY <1>1, <1>2, <1>4, <1>5 DEF Piece

LEMMA PieceLonger ==
    ASSUME NEW S, NEW all, NEW s \in Seq(S), NEW x \in S, NEW m, Piece(all, s, 0, m),
           all[m + 1] = x
    PROVE  Piece(all, Append(s, x), 0, m + 1)
<1>1. PICK n \in Nat : n = Len(s) /\ m = n
  <2>1. Len(s) \in Nat /\ m = 0 + Len(s)
    BY DEF Piece
  <2>2. QED
    BY <2>1
<1>2. /\ Len(Append(s, x)) = n + 1 /\ Append(s, x)[n + 1] = x
      /\ \A i \in 1..n : Append(s, x)[i] = s[i]
  BY <1>1
<1>3. ASSUME NEW i \in 1..n + 1 PROVE all[0 + i] = Append(s, x)[i]
  <2>1. CASE i = n + 1
    BY <1>1, <1>2, <2>1
  <2>2. CASE i # n + 1
    <3>1. i \in 1..n
      BY <2>2
    <3>2. QED
      BY <1>1, <1>2, <3>1 DEF Piece
  <2>3. QED
    BY <2>1, <2>2
<1>4. QED
  BY <1>1, <1>2, <1>3 DEF Piece

(* What a client sent is untouched by a step.                              *)
Untouched(d) ==
    /\ issued'[d] = issued[d] /\ processed'[d] = processed[d] /\ inbound'[d] = inbound[d]
    /\ acts'[d] = acts[d]
    /\ peer[d] = "reset" => peer'[d] = "reset"
    /\ \A k \in 1..Len(acts[d]) : content'[acts[d][k]] = content[acts[d][k]]
    /\ \A w \in Worker : wpc'[w] # "idle" /\ act'[w] = d =>
          /\ wpc[w] # "idle" /\ act[w] = d
          /\ buf'[w] = buf[w] /\ content'[buf[w]] = content[buf[w]]
    /\ \A w \in Worker : wpc[w] # "idle" /\ act[w] = d => wpc'[w] # "idle" /\ act'[w] = d

LEMMA BusyWith ==
    \A c \in Conn : c \in Busy <=> \E w \in Worker : wpc[w] # "idle" /\ act[w] = c
  BY DEF Busy

LEMMA UntouchedInOrder ==
    ASSUME NEW d \in Conn, Untouched(d), FramesInOrder(d)
    PROVE  FramesInOrder(d)'
<1>0. PICK last \in 0..Len(issued[d]) :
        \E from \in [0..Len(acts[d]) + 1 -> 0..Len(issued[d])] : InOrder(d, from, last)
  BY DEF FramesInOrder
<1>1. PICK from \in [0..Len(acts[d]) + 1 -> 0..Len(issued[d])] : InOrder(d, from, last)
  BY <1>0
<1>2. d \notin Busy' => d \notin Busy
  BY BusyWith DEF Untouched, Busy
<1>3. InOrder(d, from, last)'
  BY <1>1, <1>2 DEF InOrder, Untouched
<1>4. QED
  BY <1>1, <1>3 DEF FramesInOrder, Untouched

(* What is known of one client's frames: how much it has sent, how many    *)
(* buffers of it wait, and where in it each of these begins.               *)
Known(c, m, n, last, from) ==
    /\ m \in Nat /\ n \in Nat /\ last \in Nat /\ from \in [0..n + 1 -> Nat]
    /\ m = Len(issued[c]) /\ n = Len(acts[c]) /\ last <= m
    /\ InOrder(c, from, last)
    /\ \A k \in 0..n + 1 : from[k] <= m

LEMMA InOrderKnown ==
    ASSUME TypeOK, NEW c \in Conn, FramesInOrder(c)
    PROVE  \E m, n, last, from : Known(c, m, n, last, from)
<1>0. PICK last \in 0..Len(issued[c]) :
        \E from \in [0..Len(acts[c]) + 1 -> 0..Len(issued[c])] : InOrder(c, from, last)
  BY DEF FramesInOrder
<1>1. PICK from \in [0..Len(acts[c]) + 1 -> 0..Len(issued[c])] : InOrder(c, from, last)
  BY <1>0
<1>2. Len(issued[c]) \in Nat /\ Len(acts[c]) \in Nat
  BY DEF TypeOK
<1>3. last \in Nat /\ last <= Len(issued[c])
  BY <1>2
<1>4. from \in [0..Len(acts[c]) + 1 -> Nat] /\ \A k \in 0..Len(acts[c]) + 1 : from[k] <= Len(issued[c])
  BY <1>3
<1>5. Known(c, Len(issued[c]), Len(acts[c]), last, from)
  BY <1>1, <1>2, <1>3, <1>4 DEF Known
<1>6. QED
  BY <1>5

LEMMA InOrderMade ==
    ASSUME NEW c \in Conn, NEW m, NEW n, NEW last, NEW from, Known(c, m, n, last, from)'
    PROVE  FramesInOrder(c)'
<1>1. /\ m \in Nat /\ n \in Nat /\ last \in Nat /\ from \in [0..n + 1 -> Nat]
      /\ m = Len(issued'[c]) /\ n = Len(acts'[c]) /\ last <= m
      /\ InOrder(c, from, last)' /\ \A k \in 0..n + 1 : from[k] <= m
  BY DEF Known
<1>2. last \in 0..m
  BY <1>1
<1>3. from \in [0..n + 1 -> 0..m]
  BY <1>1
<1>4. QED
  BY <1>1, <1>2, <1>3 DEF FramesInOrder

(* Every piece of it, wherever it is.                                      *)
LEMMA PiecesKnown ==
    ASSUME TypeOK, Locals, NEW c \in Conn, NEW m, NEW n, NEW last, NEW from, Known(c, m, n, last, from)
    PROVE  /\ processed[c] \in Seq(Kinds) /\ Piece(issued[c], processed[c], 0, from[0])
           /\ inbound[c] \in Seq(Kinds) /\ Piece(issued[c], inbound[c], from[n + 1], last)
           /\ from[0] \in Nat /\ from[1] \in Nat /\ from[n + 1] \in Nat
           /\ issued[c] \in Seq(Kinds)
           /\ \A k \in 1..n : /\ from[k] \in Nat /\ from[k + 1] \in Nat /\ from[k + 1] <= m
                              /\ content[acts[c][k]] \in Seq(Kinds)
                              /\ Piece(issued[c], content[acts[c][k]], from[k], from[k + 1])
           /\ \A w \in Worker : wpc[w] # "idle" /\ act[w] = c =>
                 /\ content[buf[w]] \in Seq(Kinds)
                 /\ Piece(issued[c], content[buf[w]], from[0], from[1])
<1>1. /\ content \in Seq(Seq(Kinds)) /\ acts[c] \in Seq(Buffer)
      /\ processed[c] \in Seq(Kinds) /\ inbound[c] \in Seq(Kinds) /\ issued[c] \in Seq(Kinds)
  BY DEF TypeOK
<1>2. /\ m \in Nat /\ n \in Nat /\ last \in Nat /\ from \in [0..n + 1 -> Nat]
      /\ n = Len(acts[c]) /\ \A k \in 0..n + 1 : from[k] <= m
  BY DEF Known
<1>3. InOrder(c, from, last)
  BY DEF Known
<1>4. \A k \in 1..n : acts[c][k] \in Buffer
  <2>1. PICK s, B : s = acts[c] /\ B = Buffer /\ s \in Seq(B) /\ Len(s) = n
    BY <1>1, <1>2
  <2>2. \A k \in 1..n : s[k] \in B
    BY SMTT(30), <1>2, <2>1
  <2>3. QED
    BY <2>1, <2>2
<1>5. \A b \in Buffer : content[b] \in Seq(Kinds)
  BY <1>1
<1>6. ASSUME NEW k \in 1..n PROVE from[k] \in Nat /\ from[k + 1] \in Nat /\ from[k + 1] <= m
  <2>1. k \in 0..n + 1 /\ k + 1 \in 0..n + 1
    BY <1>2
  <2>2. QED
    BY <1>2, <2>1
<1>7. from[0] \in Nat /\ from[1] \in Nat /\ from[n + 1] \in Nat
  BY <1>2
<1>8. \A w \in Worker : wpc[w] # "idle" => content[buf[w]] \in Seq(Kinds)
  BY <1>5 DEF Locals
<1>9. /\ \A k \in 1..n : Piece(issued[c], content[acts[c][k]], from[k], from[k + 1])
      /\ Piece(issued[c], processed[c], 0, from[0])
      /\ Piece(issued[c], inbound[c], from[n + 1], last)
      /\ \A w \in Worker : wpc[w] # "idle" /\ act[w] = c =>
            Piece(issued[c], content[buf[w]], from[0], from[1])
  BY <1>2, <1>3 DEF InOrder
<1>10. QED
  BY <1>1, <1>4, <1>5, <1>6, <1>7, <1>8, <1>9

LEMMA InOrderIssue ==
    ASSUME TypeOK, Locals, NEW c \in Conn, NEW x \in Kinds, Issue(c, x), FramesInOrder(c)
    PROVE  FramesInOrder(c)'
<1>1. PICK m, n, last, from : Known(c, m, n, last, from)
  BY InOrderKnown
<1>2. /\ m \in Nat /\ n \in Nat /\ last \in Nat /\ from \in [0..n + 1 -> Nat]
      /\ m = Len(issued[c]) /\ n = Len(acts[c]) /\ last = m
      /\ \A k \in 0..n + 1 : from[k] <= m
      /\ c \notin Busy => from[1] = from[0]
  BY <1>1 DEF Known, InOrder, Issue
<1>3. PICK all \in Seq(Kinds), more \in Seq(Kinds), rest \in Seq(Kinds) :
        /\ all = issued[c] /\ more = issued'[c] /\ rest = inbound[c] /\ more = Append(all, x)
        /\ inbound'[c] = Append(rest, x) /\ Len(all) = m /\ Len(more) = m + 1
  <2>1. issued[c] \in Seq(Kinds) /\ inbound[c] \in Seq(Kinds)
    BY DEF TypeOK
  <2>2. issued'[c] = Append(issued[c], x) /\ inbound'[c] = Append(inbound[c], x)
    BY DEF Issue, TypeOK
  <2>3. Append(issued[c], x) \in Seq(Kinds) /\ Len(Append(issued[c], x)) = m + 1
    BY <1>2, <2>1
  <2>4. QED
    BY <1>2, <2>1, <2>2, <2>3
<1>4. UNCHANGED <<peer, content, acts, wpc, act, buf, processed>>
  BY DEF Issue
<1>5. ASSUME NEW s \in Seq(Kinds), NEW a \in Nat, NEW b \in Nat, b <= m, Piece(all, s, a, b)
      PROVE  Piece(more, s, a, b)
  BY <1>2, <1>3, <1>5, PieceGrows
<1>6. Piece(more, processed[c], 0, from[0])
  <2>1. processed[c] \in Seq(Kinds) /\ Piece(all, processed[c], 0, from[0]) /\ from[0] \in Nat
    BY <1>1, <1>3, PiecesKnown
  <2>2. from[0] <= m
    BY <1>2
  <2>3. QED
    BY <1>5, <2>1, <2>2
<1>7. ASSUME NEW w \in Worker, wpc[w] # "idle", act[w] = c
      PROVE  Piece(more, content[buf[w]], from[0], from[1])
  <2>1. /\ content[buf[w]] \in Seq(Kinds) /\ Piece(all, content[buf[w]], from[0], from[1])
        /\ from[0] \in Nat /\ from[1] \in Nat
    BY <1>1, <1>3, <1>7, PiecesKnown
  <2>2. from[1] <= m
    BY <1>2
  <2>3. QED
    BY <1>5, <2>1, <2>2
<1>8. ASSUME NEW k \in 1..n
      PROVE  Piece(more, content[acts[c][k]], from[k], from[k + 1])
  <2>1. /\ from[k] \in Nat /\ from[k + 1] \in Nat /\ from[k + 1] <= m
        /\ content[acts[c][k]] \in Seq(Kinds) /\ Piece(all, content[acts[c][k]], from[k], from[k + 1])
    BY <1>1, <1>3, PiecesKnown
  <2>2. QED
    BY <1>5, <2>1
<1>9. Piece(more, Append(rest, x), from[n + 1], m + 1)
  <2>1. Piece(all, rest, from[n + 1], m) /\ from[n + 1] \in Nat
    BY <1>1, <1>2, <1>3, PiecesKnown
  <2>2. QED
    BY <1>3, <2>1, PieceAppended
<1>10. InOrder(c, from, m + 1)'
  BY <1>2, <1>3, <1>4, <1>6, <1>7, <1>8, <1>9 DEF InOrder, Busy
<1>11. Known(c, m + 1, n, m + 1, from)'
  <2>1. ASSUME NEW k \in 0..n + 1 PROVE from[k] <= m + 1
    <3>1. from[k] \in Nat /\ from[k] <= m
      BY <1>2
    <3>2. QED
      BY <1>2, <3>1
  <2>2. QED
    BY <1>2, <1>3, <1>4, <1>10, <2>1 DEF Known
<1>12. QED
  BY <1>11, InOrderMade

(* A reset discards what has not been read.                                *)
LEMMA InOrderReset ==
    ASSUME TypeOK, Locals, NEW c \in Conn, Leave(c, "reset"), FramesInOrder(c)
    PROVE  FramesInOrder(c)'
<1>1. PICK m, n, last, from : Known(c, m, n, last, from)
  BY InOrderKnown
<1>2. /\ m \in Nat /\ n \in Nat /\ from \in [0..n + 1 -> Nat]
      /\ m = Len(issued[c]) /\ n = Len(acts[c])
      /\ \A k \in 0..n + 1 : from[k] <= m
      /\ InOrder(c, from, last)
  BY <1>1 DEF Known
<1>3. from[n + 1] \in Nat /\ from[n + 1] <= m
  BY <1>2
<1>4. /\ UNCHANGED <<issued, content, acts, wpc, act, buf, processed>>
      /\ inbound'[c] = <<>> /\ peer'[c] = "reset"
  BY DEF Leave, TypeOK
<1>5. Piece(issued[c], <<>>, from[n + 1], from[n + 1])
  BY <1>3, PieceNone
<1>6. InOrder(c, from, from[n + 1])'
  BY <1>2, <1>4, <1>5 DEF InOrder, Busy
<1>7. Known(c, m, n, from[n + 1], from)'
  BY <1>2, <1>3, <1>4, <1>6 DEF Known
<1>8. QED
  BY <1>7, InOrderMade

(* The end of a task: its buffer is empty.                                 *)
LEMMA InOrderRelease ==
    ASSUME TypeOK, Locals, OneTaskEach, NEW w \in Worker, NEW c \in Conn, act[w] = c, Release(w),
           FramesInOrder(c)
    PROVE  FramesInOrder(c)'
<1>1. PICK m, n, last, from : Known(c, m, n, last, from)
  BY InOrderKnown
<1>2. /\ m \in Nat /\ n \in Nat /\ last \in Nat /\ last <= m /\ from \in [0..n + 1 -> Nat]
      /\ m = Len(issued[c]) /\ n = Len(acts[c])
      /\ \A k \in 0..n + 1 : from[k] <= m
      /\ InOrder(c, from, last)
  BY <1>1 DEF Known
<1>3. /\ UNCHANGED <<issued, acts, processed, inbound, peer>>
      /\ wpc[w] # "idle" /\ content[buf[w]] = <<>>
      /\ wpc'[w] = "idle" /\ \A v \in Worker \ {w} : wpc'[v] = wpc[v] /\ act'[v] = act[v]
      /\ content' = [content EXCEPT ![buf[w]] = <<>>]
  BY DEF Release, Idle, TypeOK
<1>4. from[1] = from[0]
  <2>1. /\ content[buf[w]] \in Seq(Kinds) /\ from[0] \in Nat
        /\ Piece(issued[c], content[buf[w]], from[0], from[1])
    BY <1>1, <1>3, PiecesKnown
  <2>2. QED
    BY <1>3, <2>1 DEF Piece
<1>5. ASSUME NEW k \in 1..n PROVE content'[acts[c][k]] = content[acts[c][k]]
  <2>1. acts[c][k] \in DOMAIN content
    <3>1. acts[c] \in Seq(Buffer) /\ DOMAIN content = Buffer
      BY DEF TypeOK
    <3>2. Elements(acts[c]) \subseteq Buffer
      BY Whereabouts
    <3>3. acts[c][k] \in Elements(acts[c])
      BY <1>2 DEF Elements
    <3>4. QED
      BY <3>1, <3>2, <3>3
  <2>2. QED
    BY <1>3, <2>1
<1>6. \A v \in Worker : wpc'[v] # "idle" => act'[v] # c
  BY <1>3 DEF OneTaskEach
<1>7. InOrder(c, from, last)'
  BY <1>2, <1>3, <1>4, <1>5, <1>6 DEF InOrder
<1>8. Known(c, m, n, last, from)'
  BY <1>2, <1>3, <1>7 DEF Known
<1>9. QED
  BY <1>8, InOrderMade

(* A worker takes the first buffer that waits.                             *)
LEMMA InOrderStart ==
    ASSUME TypeOK, Locals, NEW w \in Worker, NEW c \in Conn, Start(w, c), FramesInOrder(c)
    PROVE  FramesInOrder(c)'
<1>1. PICK m, n, last, from : Known(c, m, n, last, from)
  BY InOrderKnown
<1>2. /\ m \in Nat /\ n \in Nat /\ last \in Nat /\ last <= m /\ from \in [0..n + 1 -> Nat]
      /\ m = Len(issued[c]) /\ n = Len(acts[c])
      /\ \A k \in 0..n + 1 : from[k] <= m
      /\ InOrder(c, from, last)
  BY <1>1 DEF Known
<1>3. /\ UNCHANGED <<issued, content, processed, inbound, peer>>
      /\ c \notin Busy /\ acts[c] \in Seq(Buffer) /\ acts[c] # <<>>
      /\ wpc'[w] # "idle" /\ act'[w] = c /\ buf'[w] = Head(acts[c])
      /\ acts'[c] = Tail(acts[c])
      /\ \A v \in Worker \ {w} : wpc'[v] = wpc[v] /\ act'[v] = act[v]
  BY DEF Start, TypeOK
<1>4. from[1] = from[0]
  BY <1>2, <1>3 DEF InOrder
<1>5. /\ n > 0 /\ Head(acts[c]) = acts[c][1] /\ Len(Tail(acts[c])) = n - 1
      /\ \A k \in 1..n - 1 : Tail(acts[c])[k] = acts[c][k + 1]
  BY <1>2, <1>3, HeadTail
<1>6. PICK next : /\ next = [k \in 0..n |-> IF k = 0 THEN from[0] ELSE from[k + 1]]
  OBVIOUS
<1>7. /\ next \in [0..(n - 1) + 1 -> Nat] /\ \A k \in 0..(n - 1) + 1 : next[k] <= m
  <2>1. (n - 1) + 1 = n
    BY <1>2
  <2>2. ASSUME NEW k \in 0..n PROVE next[k] \in Nat /\ next[k] <= m
    <3>1. 0 \in 0..n + 1 /\ k + 1 \in 0..n + 1
      BY <1>2
    <3>2. QED
      BY <1>2, <1>6, <3>1
  <2>3. QED
    BY <1>6, <2>1, <2>2
<1>8. next[0] = from[0] /\ \A k \in 1..n : next[k] = from[k + 1]
  BY <1>2, <1>6
<1>9. ASSUME NEW k \in 1..n - 1
      PROVE  Piece(issued[c], content[Tail(acts[c])[k]], next[k], next[k + 1])
  <2>1. k + 1 \in 1..n /\ k \in 1..n
    BY <1>2
  <2>2. Piece(issued[c], content[acts[c][k + 1]], from[k + 1], from[(k + 1) + 1])
    BY <1>2, <2>1 DEF InOrder
  <2>3. next[k] = from[k + 1] /\ next[k + 1] = from[(k + 1) + 1]
    BY <1>8, <2>1
  <2>4. QED
    BY <1>5, <2>2, <2>3
<1>10. Piece(issued[c], content[Head(acts[c])], next[0], next[1])
  <2>1. 1 \in 1..n /\ next[1] = from[1 + 1]
    BY <1>2, <1>5, <1>8
  <2>2. Piece(issued[c], content[acts[c][1]], from[1], from[1 + 1])
    BY <1>2, <2>1 DEF InOrder
  <2>3. QED
    BY <1>4, <1>5, <1>8, <2>1, <2>2
<1>11. Piece(issued[c], inbound[c], next[(n - 1) + 1], last)
  <2>1. (n - 1) + 1 = n /\ n \in 1..n
    BY <1>2, <1>5
  <2>2. next[(n - 1) + 1] = from[n + 1]
    BY <1>8, <2>1
  <2>3. QED
    BY <1>2, <2>2 DEF InOrder
<1>12. ASSUME NEW v \in Worker, wpc'[v] # "idle", act'[v] = c PROVE v = w
  BY <1>3, <1>12, BusyWith
<1>13. c \in Busy'
  BY <1>3 DEF Busy
<1>14. InOrder(c, next, last)'
  <2>1. Len(acts'[c]) = n - 1
    BY <1>3, <1>5
  <2>2. Piece(issued'[c], processed'[c], 0, next[0]) /\ (peer'[c] # "reset" => last = Len(issued'[c]))
    BY <1>2, <1>3, <1>8 DEF InOrder
  <2>3. ASSUME NEW v \in Worker, wpc'[v] # "idle", act'[v] = c
        PROVE  Piece(issued'[c], content'[buf'[v]], next[0], next[1])
    BY <1>3, <1>10, <1>12, <2>3
  <2>4. \A k \in 1..n - 1 : Piece(issued'[c], content'[acts'[c][k]], next[k], next[k + 1])
    BY <1>3, <1>9
  <2>5. Piece(issued'[c], inbound'[c], next[(n - 1) + 1], last)
    BY <1>3, <1>11
  <2>6. QED
    BY <1>13, <2>1, <2>2, <2>3, <2>4, <2>5 DEF InOrder
<1>15. Known(c, m, n - 1, last, next)'
  <2>1. n - 1 \in Nat
    BY <1>2, <1>5
  <2>2. m = Len(issued'[c]) /\ n - 1 = Len(acts'[c])
    BY <1>2, <1>3, <1>5
  <2>3. QED
    BY <1>2, <1>7, <1>14, <2>1, <2>2 DEF Known
<1>16. QED
  BY <1>15, InOrderMade

(* The next frame of the buffer in hand is processed.                      *)
LEMMA InOrderProcess ==
    ASSUME ReactorInv, BuffersInv, OneTaskEach, NEW w \in Worker, NEW c \in Conn, act[w] = c,
           Process(w), FramesInOrder(c)
    PROVE  FramesInOrder(c)'
<1>0. TypeOK /\ Locals
  BY DEF ReactorInv
<1>1. PICK m, n, last, from : Known(c, m, n, last, from)
  BY <1>0, InOrderKnown
<1>2. /\ m \in Nat /\ n \in Nat /\ last \in Nat /\ last <= m /\ from \in [0..n + 1 -> Nat]
      /\ m = Len(issued[c]) /\ n = Len(acts[c])
      /\ \A k \in 0..n + 1 : from[k] <= m
      /\ InOrder(c, from, last)
  BY <1>1 DEF Known
<1>3. PICK k \in Kinds, s \in Seq(Kinds) :
        /\ s = content[buf[w]] /\ s # <<>> /\ k = Head(s)
        /\ content' = [content EXCEPT ![buf[w]] = Tail(s)]
        /\ processed' = [processed EXCEPT ![c] = Append(@, k)]
  <2>1. wpc[w] # "idle" /\ content[buf[w]] # <<>>
    BY DEF Process
  <2>2. content[buf[w]] \in Seq(Kinds)
    BY <1>0, <1>1, <2>1, PiecesKnown
  <2>3. Head(content[buf[w]]) \in Kinds
    BY <2>1, <2>2, HeadTail
  <2>4. QED
    BY <2>1, <2>2, <2>3 DEF Process
<1>4. /\ UNCHANGED <<issued, acts, inbound, peer, act, buf>>
      /\ wpc[w] # "idle" /\ wpc'[w] # "idle" /\ \A v \in Worker \ {w} : wpc'[v] = wpc[v]
  BY SMTT(30), <1>0 DEF Process, TypeOK
<1>5. /\ processed[c] \in Seq(Kinds) /\ Piece(issued[c], processed[c], 0, from[0])
      /\ Piece(issued[c], s, from[0], from[1]) /\ from[0] \in Nat /\ from[1] \in Nat
  BY <1>0, <1>1, <1>3, <1>4, PiecesKnown
<1>6. /\ issued[c][from[0] + 1] = k /\ from[0] < from[1]
      /\ Piece(issued[c], Tail(s), from[0] + 1, from[1])
  <2>1. s # <<>>
    BY <1>3
  <2>2. /\ issued[c][from[0] + 1] = Head(s) /\ from[0] < from[1]
        /\ Piece(issued[c], Tail(s), from[0] + 1, from[1])
    BY <1>5, <2>1, PieceHead
  <2>3. QED
    BY <1>3, <2>2
<1>7. Piece(issued[c], Append(processed[c], k), 0, from[0] + 1)
  BY <1>5, <1>6, PieceLonger
<1>8. PICK next : next = [from EXCEPT ![0] = from[0] + 1]
  OBVIOUS
<1>9. /\ next \in [0..n + 1 -> Nat] /\ next[0] = from[0] + 1
      /\ \A j \in 1..n + 1 : next[j] = from[j]
  BY <1>2, <1>5, <1>8
<1>10. \A j \in 0..n + 1 : next[j] <= m
  <2>1. from[0] + 1 <= m
    <3>1. from[1] <= m /\ m \in Nat
      BY <1>2
    <3>2. from[0] \in Nat /\ from[1] \in Nat /\ from[0] < from[1]
      BY <1>5, <1>6
    <3>3. QED
      BY <3>1, <3>2
  <2>2. ASSUME NEW j \in 0..n + 1 PROVE next[j] <= m
    <3>1. j = 0 \/ j \in 1..n + 1
      BY <1>2
    <3>2. QED
      BY <1>2, <1>9, <2>1, <3>1
  <2>3. QED
    BY <2>2
<1>11. ASSUME NEW j \in 1..n
       PROVE  Piece(issued[c], content'[acts[c][j]], next[j], next[j + 1])
  <2>1. Piece(issued[c], content[acts[c][j]], from[j], from[j + 1])
    BY <1>2 DEF InOrder
  <2>2. j \in 1..n + 1 /\ j + 1 \in 1..n + 1
    BY <1>2
  <2>3. acts[c][j] \in Elements(acts[c])
    BY <1>2 DEF Elements
  <2>4. acts[c][j] # buf[w]
    BY <1>4, <2>3 DEF BuffersInv, BuffersSeparate
  <2>5. content'[acts[c][j]] = content[acts[c][j]]
    <3>1. DOMAIN content = Buffer
      BY <1>0 DEF TypeOK
    <3>2. Elements(acts[c]) \subseteq Buffer
      BY <1>0, Whereabouts
    <3>3. QED
      BY <1>3, <2>3, <2>4, <3>1, <3>2
  <2>6. QED
    BY <1>9, <2>1, <2>2, <2>5
<1>12. Piece(issued[c], inbound[c], next[n + 1], last)
  <2>1. n + 1 \in 1..n + 1
    BY <1>2
  <2>2. QED
    BY <1>2, <1>9, <2>1 DEF InOrder
<1>13. Piece(issued[c], content'[buf[w]], next[0], next[1])
  <2>1. content'[buf[w]] = Tail(s)
    <3>1. DOMAIN content = Buffer
      BY <1>0 DEF TypeOK
    <3>2. buf[w] \in Buffer
      BY <1>0, <1>4, Whereabouts
    <3>3. QED
      BY <1>3, <3>1, <3>2
  <2>2. next[1] = from[1]
    BY <1>2, <1>9
  <2>3. QED
    BY <1>6, <1>9, <2>1, <2>2
<1>14. \A v \in Worker : wpc'[v] # "idle" /\ act'[v] = c => v = w
  BY <1>4 DEF OneTaskEach
<1>15. c \in Busy'
  BY <1>4 DEF Busy
<1>16. InOrder(c, next, last)'
  <2>1. Piece(issued'[c], processed'[c], 0, next[0])
    <3>1. processed'[c] = Append(processed[c], k)
      BY <1>0, <1>3 DEF TypeOK
    <3>2. QED
      BY <1>4, <1>7, <1>9, <3>1
  <2>2. peer'[c] # "reset" => last = Len(issued'[c])
    BY <1>2, <1>4 DEF InOrder
  <2>3. ASSUME NEW v \in Worker, wpc'[v] # "idle", act'[v] = c
        PROVE  Piece(issued'[c], content'[buf'[v]], next[0], next[1])
    BY <1>4, <1>13, <1>14, <2>3
  <2>4. \A j \in 1..Len(acts'[c]) : Piece(issued'[c], content'[acts'[c][j]], next[j], next[j + 1])
    BY <1>2, <1>4, <1>11
  <2>5. Piece(issued'[c], inbound'[c], next[Len(acts'[c]) + 1], last)
    BY <1>2, <1>4, <1>12
  <2>6. QED
    BY <1>15, <2>1, <2>2, <2>3, <2>4, <2>5 DEF InOrder
<1>17. Known(c, m, n, last, next)'
  BY <1>2, <1>4, <1>9, <1>10, <1>16 DEF Known
<1>18. QED
  BY <1>17, InOrderMade

(* A leased buffer is not one that waits or that a worker has.             *)
LEMMA LeasedElsewhere ==
    ASSUME ReactorInv, BuffersInv, NEW frames \in Seq(Kinds), Lease(frames), NEW b, b = Leased
    PROVE  /\ content'[b] = frames
           /\ \A d \in Conn : b \notin Elements(acts[d])
           /\ \A w \in Worker : wpc[w] # "idle" => buf[w] # b
           /\ \A x \in Buffer : x # b => content'[x] = content[x]
<1>1. PICK n \in Nat : n = Len(content)
  BY Whereabouts DEF ReactorInv
<1>2. /\ Elements(bufferPool) \subseteq Buffer /\ \A d \in Conn : Elements(acts[d]) \subseteq Buffer
      /\ \A w \in Worker : wpc[w] # "idle" => buf[w] \in Buffer
      /\ content \in Seq(Seq(Kinds)) /\ bufferPool \in Seq(Buffer) /\ NoTwice(bufferPool)
  BY Whereabouts DEF ReactorInv, TypeOK, BuffersInv, BuffersSeparate
<1>3. CASE bufferPool # <<>>
  <2>1. b = Head(bufferPool) /\ content' = [content EXCEPT ![b] = frames]
    BY <1>3 DEF Lease, Leased
  <2>2. Head(bufferPool) \in Elements(bufferPool)
    BY <1>2, <1>3, ElementsTail
  <2>3. b \in Elements(bufferPool)
    BY <2>1, <2>2
  <2>4. b \in Buffer /\ DOMAIN content = Buffer
    <3>1. DOMAIN content = Buffer
      BY DEF ReactorInv, TypeOK
    <3>2. QED
      BY <1>2, <2>3, <3>1
  <2>5. content'[b] = frames /\ \A x \in Buffer : x # b => content'[x] = content[x]
    BY ZenonT(60), <2>1, <2>4
  <2>6. QED
    BY <2>3, <2>5 DEF BuffersInv, BuffersSeparate
<1>4. CASE bufferPool = <<>>
  <2>1. b = n + 1 /\ content' = Append(content, frames)
    BY <1>1, <1>4 DEF Lease, Leased
  <2>2. content'[b] = frames
    BY <1>1, <1>2, <2>1
  <2>3. \A x \in Buffer : x # b => content'[x] = content[x]
    BY <1>1, <1>2, <2>1
  <2>4. b \notin Buffer
    BY <1>1, <2>1
  <2>5. QED
    BY <1>2, <2>2, <2>3, <2>4
<1>5. QED
  BY <1>3, <1>4

(* What is read goes behind the buffers that wait.                         *)
LEMMA InOrderRead ==
    ASSUME ReactorInv, BuffersInv, NEW c \in Conn, c = current.conn, ContinueRead, FramesInOrder(c)
    PROVE  FramesInOrder(c)'
<1>0. TypeOK /\ Locals
  BY DEF ReactorInv
<1>1. PICK m, n, last, from : Known(c, m, n, last, from)
  BY <1>0, InOrderKnown
<1>2. /\ m \in Nat /\ n \in Nat /\ last \in Nat /\ last <= m /\ from \in [0..n + 1 -> Nat]
      /\ m = Len(issued[c]) /\ n = Len(acts[c])
      /\ \A j \in 0..n + 1 : from[j] <= m
      /\ InOrder(c, from, last)
  BY <1>1 DEF Known
<1>3. PICK all, rest : all = issued[c] /\ rest = inbound[c]
  OBVIOUS
<1>4. /\ rest \in Seq(Kinds) /\ Piece(all, rest, from[n + 1], last) /\ from[n + 1] \in Nat
  BY <1>0, <1>1, <1>3, PiecesKnown
<1>5. PICK k \in 1..Len(rest) :
        /\ Lease(SubSeq(rest, 1, k))
        /\ inbound' = [inbound EXCEPT ![c] = SubSeq(rest, k + 1, Len(rest))]
  BY <1>3 DEF ContinueRead
<1>6. PICK upto : upto = from[n + 1] + k
  OBVIOUS
<1>7. /\ upto \in Nat /\ upto <= last
      /\ Piece(all, SubSeq(rest, 1, k), from[n + 1], upto)
      /\ Piece(all, SubSeq(rest, k + 1, Len(rest)), upto, last)
  BY <1>4, <1>6, PieceSplit
<1>8. PICK b : b = Leased
  OBVIOUS
<1>9. /\ content'[b] = SubSeq(rest, 1, k)
      /\ \A d \in Conn : b \notin Elements(acts[d])
      /\ \A w \in Worker : wpc[w] # "idle" => buf[w] # b
      /\ \A x \in Buffer : x # b => content'[x] = content[x]
  <2>1. SubSeq(rest, 1, k) \in Seq(Kinds)
    BY <1>4, SubSeqType
  <2>2. PICK frames \in Seq(Kinds) : frames = SubSeq(rest, 1, k) /\ Lease(frames)
    BY <1>5, <2>1
  <2>3. Lease(frames) /\ b = Leased
    BY <1>8, <2>2
  <2>4. /\ content'[b] = frames
        /\ \A d \in Conn : b \notin Elements(acts[d])
        /\ \A w \in Worker : wpc[w] # "idle" => buf[w] # b
        /\ \A x \in Buffer : x # b => content'[x] = content[x]
    BY <2>3, LeasedElsewhere
  <2>5. QED
    BY <2>2, <2>4
<1>10. /\ UNCHANGED <<issued, processed, peer, wpc, act, buf>>
       /\ acts' = [acts EXCEPT ![c] = Append(@, b)]
  BY <1>8 DEF ContinueRead
<1>11. /\ acts'[c] = Append(acts[c], b) /\ Len(acts'[c]) = n + 1 /\ acts'[c][n + 1] = b
       /\ \A j \in 1..n : acts'[c][j] = acts[c][j]
  <2>1. acts[c] \in Seq(Buffer) /\ acts'[c] = Append(acts[c], b)
    BY SMTT(30), <1>0, <1>10 DEF TypeOK
  <2>2. PICK s, B : s = acts[c] /\ B = Buffer /\ s \in Seq(B) /\ Len(s) = n
    BY <1>2, <2>1
  <2>3. s \in Seq(B) /\ n \in Nat /\ n = Len(s)
    BY <1>2, <2>2
  <2>4. \A j \in Nat : j = Len(s) => /\ Len(Append(s, b)) = j + 1 /\ Append(s, b)[j + 1] = b
                                     /\ \A i \in 1..j : Append(s, b)[i] = s[i]
    BY <2>3
  <2>5. QED
    BY <2>1, <2>2, <2>3, <2>4
<1>12. inbound'[c] = SubSeq(rest, k + 1, Len(rest))
  BY <1>0, <1>5 DEF TypeOK
<1>13. PICK next : next = [j \in 0..(n + 1) + 1 |-> IF j = n + 2 THEN upto ELSE from[j]]
  OBVIOUS
<1>14. /\ next[(n + 1) + 1] = upto
       /\ \A j \in 0..n + 1 : next[j] = from[j]
  <2>1. n \in Nat
    BY <1>2
  <2>2. (n + 1) + 1 \in 0..(n + 1) + 1 /\ (n + 1) + 1 = n + 2
    BY <2>1
  <2>3. \A j \in 0..n + 1 : j \in 0..(n + 1) + 1 /\ j # n + 2
    BY <2>1
  <2>4. QED
    BY <1>13, <2>2, <2>3
<1>15. /\ next \in [0..(n + 1) + 1 -> Nat] /\ \A j \in 0..(n + 1) + 1 : next[j] <= m
  <2>1. upto <= m
    BY SMTT(30), <1>2, <1>7
  <2>2. ASSUME NEW j \in 0..(n + 1) + 1 PROVE next[j] \in Nat /\ next[j] <= m
    <3>1. j \in 0..n + 1 \/ j = (n + 1) + 1
      BY <1>2
    <3>2. QED
      BY <1>2, <1>7, <1>14, <2>1, <3>1
  <2>3. QED
    BY <1>13, <2>2
<1>16. ASSUME NEW j \in 1..n
       PROVE  Piece(all, content'[acts'[c][j]], next[j], next[j + 1])
  <2>1. Piece(all, content[acts[c][j]], from[j], from[j + 1])
    BY <1>2, <1>3 DEF InOrder
  <2>2. j \in 0..n + 1 /\ j + 1 \in 0..n + 1
    BY <1>2
  <2>3. acts[c][j] \in Elements(acts[c]) /\ Elements(acts[c]) \subseteq Buffer
    BY <1>0, <1>2, Whereabouts DEF Elements
  <2>4. content'[acts[c][j]] = content[acts[c][j]]
    BY <1>9, <2>3
  <2>5. QED
    BY <1>11, <1>14, <2>1, <2>2, <2>4
<1>17. Piece(all, content'[acts'[c][n + 1]], next[n + 1], next[(n + 1) + 1])
  <2>1. n + 1 \in 0..n + 1
    BY <1>2
  <2>2. QED
    BY <1>7, <1>9, <1>11, <1>14, <2>1
<1>18. ASSUME NEW w \in Worker, wpc[w] # "idle", act[w] = c
       PROVE  Piece(all, content'[buf[w]], next[0], next[1])
  <2>1. Piece(all, content[buf[w]], from[0], from[1])
    BY <1>2, <1>3, <1>18 DEF InOrder
  <2>2. content'[buf[w]] = content[buf[w]]
    <3>1. buf[w] \in Buffer
      BY <1>0, <1>18, Whereabouts
    <3>2. QED
      BY <1>9, <1>18, <3>1
  <2>3. 0 \in 0..n + 1 /\ 1 \in 0..n + 1
    BY <1>2
  <2>4. QED
    BY <1>14, <2>1, <2>2, <2>3
<1>19. InOrder(c, next, last)'
  <2>1. next[0] = from[0] /\ next[1] = from[1]
    BY <1>2, <1>14
  <2>2. /\ Piece(issued'[c], processed'[c], 0, next[0]) /\ (peer'[c] # "reset" => last = Len(issued'[c]))
        /\ c \notin Busy' => next[1] = next[0]
    BY <1>2, <1>10, <2>1 DEF InOrder, Busy
  <2>3. ASSUME NEW w \in Worker, wpc'[w] # "idle", act'[w] = c
        PROVE  Piece(issued'[c], content'[buf'[w]], next[0], next[1])
    BY <1>3, <1>10, <1>18, <2>3
  <2>4. ASSUME NEW j \in 1..n + 1
        PROVE  Piece(issued'[c], content'[acts'[c][j]], next[j], next[j + 1])
    <3>1. j \in 1..n \/ j = n + 1
      BY <1>2
    <3>2. QED
      BY <1>3, <1>10, <1>16, <1>17, <3>1
  <2>5. Piece(issued'[c], inbound'[c], next[(n + 1) + 1], last)
    BY <1>3, <1>7, <1>10, <1>12, <1>14
  <2>6. QED
    BY <1>11, <2>2, <2>3, <2>4, <2>5 DEF InOrder
<1>20. Known(c, m, n + 1, last, next)'
  <2>1. m = Len(issued'[c]) /\ n + 1 = Len(acts'[c]) /\ n + 1 \in Nat
    BY <1>2, <1>10, <1>11
  <2>2. QED
    BY <1>2, <1>15, <1>19, <2>1 DEF Known
<1>21. QED
  BY <1>20, InOrderMade

(* What touches no connection, and what touches no other one.              *)
LEMMA NobodyTouched ==
    ASSUME NEW d \in Conn, UNCHANGED <<issued, processed, inbound, acts, content, act, buf>>,
           peer[d] = "reset" => peer'[d] = "reset",
           \A w \in Worker : wpc'[w] # "idle" <=> wpc[w] # "idle"
    PROVE  Untouched(d)
  BY DEF Untouched

LEMMA OthersUntouchedByClient ==
    ASSUME TypeOK, NEW c \in Conn, ClientStep(c), NEW d \in Conn
    PROVE  \/ Untouched(d)
           \/ d = c /\ ((\E k \in Kinds : Issue(c, k)) \/ Leave(c, "reset"))
<1>1. CASE Arrive(c) \/ Drain(c)
  BY ZenonT(60), <1>1, NobodyTouched DEF Arrive, Drain, TypeOK
<1>2. ASSUME NEW k \in Kinds, Issue(c, k), d # c PROVE Untouched(d)
  <2>1. issued'[d] = issued[d] /\ inbound'[d] = inbound[d]
    BY <1>2 DEF Issue, TypeOK
  <2>2. UNCHANGED <<peer, processed, acts, content, wpc, act, buf>>
    BY <1>2 DEF Issue
  <2>3. QED
    BY <2>1, <2>2 DEF Untouched
<1>3. ASSUME NEW how \in Leaving[c], Leave(c, how), how # "reset" \/ d # c PROVE Untouched(d)
  <2>1. inbound'[d] = inbound[d]
    BY <1>3 DEF Leave, TypeOK
  <2>2. UNCHANGED <<issued, processed, acts, content, wpc, act, buf>>
    BY <1>3 DEF Leave
  <2>3. peer[d] = "reset" => peer'[d] = "reset"
    BY <1>3 DEF Leave, TypeOK
  <2>4. QED
    BY <2>1, <2>2, <2>3 DEF Untouched
<1>4. QED
  BY <1>1, <1>2, <1>3 DEF ClientStep

LEMMA OthersUntouchedBySelector ==
    ASSUME ReactorInv, BuffersInv, SelectorStep, NEW d \in Conn
    PROVE  Untouched(d) \/ (ContinueRead /\ d = current.conn)
<1>1. ASSUME \/ Select \/ RunTask \/ TasksDone \/ KeysDone
             \/ \E c \in Conn : HandleAccept(c)
             \/ \E k \in selected : HandleReadWrite(k)
      PROVE  Untouched(d)
  BY <1>1, NobodyTouched DEF Select, RunTask, TasksDone, KeysDone, HandleAccept, HandleReadWrite
<1>2. ASSUME WriteStep PROVE Untouched(d)
  BY <1>2, NobodyTouched
     DEF WriteStep, WriteWhole, WritePart, WriteFails, WriteDone, WriteCheck, WriteUpdate
<1>3. ASSUME ContinueRead, d # current.conn PROVE Untouched(d)
  <2>1. PICK c \in Conn : c = current.conn /\ inbound[c] \in Seq(Kinds) /\ c # d
    BY <1>3 DEF ReactorInv, TypeOK, ContinueRead
  <2>2. PICK k \in 1..Len(inbound[c]) :
          /\ Lease(SubSeq(inbound[c], 1, k))
          /\ inbound' = [inbound EXCEPT ![c] = SubSeq(inbound[c], k + 1, Len(inbound[c]))]
    BY <1>3, <2>1 DEF ContinueRead
  <2>3. SubSeq(inbound[c], 1, k) \in Seq(Kinds)
    BY <2>1, SubSeqType
  <2>4. PICK frames \in Seq(Kinds) : Lease(frames)
    BY <2>2, <2>3
  <2>5. /\ \A e \in Conn : Leased \notin Elements(acts[e])
        /\ \A w \in Worker : wpc[w] # "idle" => buf[w] # Leased
        /\ \A x \in Buffer : x # Leased => content'[x] = content[x]
    BY <2>4, LeasedElsewhere
  <2>6. /\ UNCHANGED <<issued, processed, peer, wpc, act, buf>>
        /\ acts' = [acts EXCEPT ![c] = Append(@, Leased)]
    BY <1>3, <2>1 DEF ContinueRead
  <2>7. acts'[d] = acts[d] /\ inbound'[d] = inbound[d]
    BY <2>1, <2>2, <2>6 DEF ReactorInv, TypeOK
  <2>8. /\ Elements(acts[d]) \subseteq Buffer
        /\ \A w \in Worker : wpc[w] # "idle" => buf[w] \in Buffer
    BY Whereabouts DEF ReactorInv
  <2>9. \A j \in 1..Len(acts[d]) : content'[acts[d][j]] = content[acts[d][j]]
    BY <2>5, <2>8 DEF Elements
  <2>10. \A w \in Worker : wpc[w] # "idle" => content'[buf[w]] = content[buf[w]]
    BY <2>5, <2>8
  <2>11. QED
    BY <2>6, <2>7, <2>9, <2>10 DEF Untouched
<1>4. ASSUME ReadEnd PROVE Untouched(d)
  <2>1. \A x \in Buffer : content'[x] = content[x]
    <3>1. UNCHANGED content \/ content' = Append(content, <<>>)
      BY <1>4 DEF ReadEnd
    <3>2. content \in Seq(Seq(Kinds))
      BY DEF ReactorInv, TypeOK
    <3>3. \A x \in Buffer : Append(content, <<>>)[x] = content[x]
      BY <3>2
    <3>4. QED
      BY <3>1, <3>3
  <2>2. UNCHANGED <<issued, processed, inbound, acts, peer, wpc, act, buf>>
    BY <1>4 DEF ReadEnd
  <2>3. /\ Elements(acts[d]) \subseteq Buffer
        /\ \A w \in Worker : wpc[w] # "idle" => buf[w] \in Buffer
    BY Whereabouts DEF ReactorInv
  <2>4. \A k \in 1..Len(acts[d]) : content'[acts[d][k]] = content[acts[d][k]]
    BY <2>1, <2>3 DEF Elements
  <2>5. QED
    BY <2>1, <2>2, <2>3, <2>4 DEF Untouched
<1>5. QED
  BY <1>1, <1>2, <1>3, <1>4 DEF SelectorStep

LEMMA OthersUntouchedByWorker ==
    ASSUME ReactorInv, BuffersInv, "bad" \notin Kinds, NEW w \in Worker, WorkerStep(w), NEW d \in Conn
    PROVE  \/ Untouched(d)
           \/ Start(w, d)
           \/ act[w] = d /\ (Process(w) \/ Release(w))
<1>1. ASSUME SendUpdate(w) \/ SendWakeup(w) \/ \E c \in Conn : SendAdd(w, c)
      PROVE  Untouched(d)
  <2>1. UNCHANGED <<issued, processed, inbound, peer, acts, content, act, buf>>
    BY <1>1 DEF SendAdd, SendUpdate, SendWakeup
  <2>2. wpc[w] # "idle" /\ wpc'[w] # "idle"
    BY SMTT(30), <1>1 DEF SendAdd, SendUpdate, SendWakeup, ReactorInv, TypeOK
  <2>3. \A v \in Worker \ {w} : wpc'[v] = wpc[v]
    BY <1>1 DEF SendAdd, SendUpdate, SendWakeup, ReactorInv, TypeOK
  <2>4. QED
    BY <2>1, <2>2, <2>3, NobodyTouched
<1>2. ASSUME NEW c \in Conn, Start(w, c), c # d PROVE Untouched(d)
  <2>1. UNCHANGED <<issued, processed, inbound, peer, content>>
    BY <1>2 DEF Start
  <2>2. acts'[d] = acts[d] /\ wpc[w] = "idle" /\ act'[w] = c
    BY <1>2 DEF Start, ReactorInv, TypeOK
  <2>3. \A v \in Worker \ {w} : wpc'[v] = wpc[v] /\ act'[v] = act[v] /\ buf'[v] = buf[v]
    BY <1>2 DEF Start, ReactorInv, TypeOK
  <2>4. QED
    BY <1>2, <2>1, <2>2, <2>3 DEF Untouched
<1>3. ASSUME Process(w) \/ Release(w), act[w] # d PROVE Untouched(d)
  <2>1. UNCHANGED <<issued, inbound, peer, acts>>
    BY <1>3 DEF Process, Release
  <2>2. wpc[w] # "idle" /\ processed'[d] = processed[d]
    BY <1>3 DEF Process, Release, ReactorInv, TypeOK
  <2>3. \A v \in Worker \ {w} : wpc'[v] = wpc[v] /\ act'[v] = act[v] /\ buf'[v] = buf[v]
    BY <1>3 DEF Process, Release, Idle, ReactorInv, TypeOK
  <2>4. wpc'[w] # "idle" => act'[w] = act[w]
    BY <1>3 DEF Process, Release, Idle, ReactorInv, TypeOK
  <2>5. \A x \in Buffer : x # buf[w] => content'[x] = content[x]
    <3>1. PICK frames : content' = [content EXCEPT ![buf[w]] = frames]
      BY <1>3 DEF Process, Release
    <3>2. DOMAIN content = Buffer
      BY DEF ReactorInv, TypeOK
    <3>3. QED
      BY <3>1, <3>2
  <2>6. /\ Elements(acts[d]) \subseteq Buffer
        /\ \A v \in Worker : wpc[v] # "idle" => buf[v] \in Buffer
    BY Whereabouts DEF ReactorInv
  <2>7. /\ buf[w] \notin Elements(acts[d])
        /\ \A v \in Worker \ {w} : wpc[v] # "idle" => buf[v] # buf[w]
    BY <2>2 DEF BuffersInv, BuffersSeparate
  <2>8. \A k \in 1..Len(acts[d]) : content'[acts[d][k]] = content[acts[d][k]]
    BY <2>5, <2>6, <2>7 DEF Elements
  <2>9. \A v \in Worker \ {w} : wpc[v] # "idle" => content'[buf[v]] = content[buf[v]]
    BY <2>5, <2>6, <2>7
  <2>10. QED
    BY <1>3, <2>1, <2>2, <2>3, <2>4, <2>8, <2>9 DEF Untouched
<1>4. ~ProcessThrows(w)
  <2>1. SUFFICES ASSUME ProcessThrows(w) PROVE FALSE
    OBVIOUS
  <2>2. wpc[w] # "idle" /\ content[buf[w]] # <<>> /\ Head(content[buf[w]]) = "bad"
    BY <2>1 DEF ProcessThrows
  <2>3. content[buf[w]] \in Seq(Kinds)
    <3>1. buf[w] \in Buffer /\ content \in Seq(Seq(Kinds))
      BY <2>2, Whereabouts DEF ReactorInv, TypeOK
    <3>2. QED
      BY <3>1
  <2>4. Head(content[buf[w]]) \in Kinds
    BY <2>2, <2>3, HeadTail
  <2>5. QED
    BY <2>2, <2>4
<1>5. QED
  BY <1>1, <1>2, <1>3, <1>4 DEF WorkerStep

(* The tasks of a connection run one at a time.                            *)
LEMMA OneTaskNext == ReactorInv /\ OneTaskEach /\ [Next]_vars => OneTaskEach'
<1> SUFFICES ASSUME ReactorInv, OneTaskEach, [Next]_vars PROVE OneTaskEach'
  OBVIOUS
<1>1. ASSUME \A w \in Worker : wpc'[w] # "idle" => wpc[w] # "idle" /\ act'[w] = act[w]
      PROVE  OneTaskEach'
  BY <1>1 DEF OneTaskEach
<1>2. CASE UNCHANGED vars
  BY <1>1, <1>2 DEF vars
<1>3. ASSUME NEW c \in Conn, ClientStep(c) PROVE OneTaskEach'
  <2>1. UNCHANGED <<wpc, act>>
    BY <1>3 DEF ClientStep, Arrive, Issue, Drain, Leave
  <2>2. QED
    BY <1>1, <2>1
<1>4. CASE SelectorStep
  <2>1. UNCHANGED <<wpc, act>>
    BY ZenonT(60), <1>4 DEF SelectorStep, WriteStep, Select, RunTask, TasksDone, KeysDone, HandleAccept,
                HandleReadWrite, ContinueRead, ReadEnd, WriteWhole, WritePart, WriteFails,
                WriteDone, WriteCheck, WriteUpdate
  <2>2. QED
    BY <1>1, <2>1
<1>5. ASSUME NEW w \in Worker, NEW c \in Conn, Start(w, c) PROVE OneTaskEach'
  <2>1. /\ c \notin Busy /\ act'[w] = c
        /\ \A v \in Worker \ {w} : wpc'[v] = wpc[v] /\ act'[v] = act[v]
    BY <1>5 DEF Start, ReactorInv, TypeOK
  <2>2. \A v \in Worker \ {w} : wpc'[v] # "idle" => act'[v] # c
    BY <2>1, BusyWith
  <2>3. QED
    BY <2>1, <2>2 DEF OneTaskEach
<1>6. ASSUME NEW w \in Worker,
             \/ \E c \in Conn : SendAdd(w, c)
             \/ Process(w) \/ ProcessThrows(w) \/ Release(w) \/ SendUpdate(w) \/ SendWakeup(w)
      PROVE  OneTaskEach'
  <2>1. wpc[w] # "idle" /\ (wpc'[w] # "idle" => act'[w] = act[w])
    BY <1>6 DEF SendAdd, Process, ProcessThrows, Release, Idle, SendUpdate, SendWakeup,
                ReactorInv, TypeOK
  <2>2. \A v \in Worker \ {w} : wpc'[v] = wpc[v] /\ act'[v] = act[v]
    BY <1>6 DEF SendAdd, Process, ProcessThrows, Release, Idle, SendUpdate, SendWakeup,
                ReactorInv, TypeOK
  <2>3. QED
    BY <1>1, <2>1, <2>2
<1>7. QED
  BY <1>2, <1>3, <1>4, <1>5, <1>6 DEF Next, WorkerStep

LEMMA InboundInit == Init => InboundInv
<1> SUFFICES ASSUME Init, NEW c \in Conn PROVE FramesInOrder(c)
  BY ZenonT(60) DEF Init, InboundInv, OneTaskEach
<1>1. PICK none : none = <<>> /\ Len(none) = 0
  OBVIOUS
<1>2. PICK from : from = [k \in 0..1 |-> 0]
  OBVIOUS
<1>3. Piece(none, none, 0, 0)
  BY <1>1 DEF Piece
<1>4. /\ issued[c] = none /\ processed[c] = none /\ inbound[c] = none /\ acts[c] = none
      /\ \A w \in Worker : wpc[w] = "idle"
  BY <1>1 DEF Init
<1>5. from[0] = 0 /\ from[1] = 0
  BY <1>2
<1>6. InOrder(c, from, 0)
  BY <1>1, <1>3, <1>4, <1>5 DEF InOrder
<1>7. Known(c, 0, 0, 0, from)
  <2>1. from \in [0..0 + 1 -> Nat] /\ \A k \in 0..0 + 1 : from[k] <= 0
    BY <1>2
  <2>2. QED
    BY <1>1, <1>4, <1>6, <2>1 DEF Known
<1>8. from \in [0..Len(acts[c]) + 1 -> 0..Len(issued[c])] /\ 0 \in 0..Len(issued[c])
  BY <1>1, <1>2, <1>4
<1>9. QED
  BY <1>6, <1>8 DEF FramesInOrder

LEMMA InboundNext == ReactorInv /\ BuffersInv /\ InboundInv /\ [Next]_vars => InboundInv'
<1> SUFFICES ASSUME ReactorInv, BuffersInv, InboundInv, [Next]_vars, "bad" \notin Kinds,
                    NEW d \in Conn
             PROVE  FramesInOrder(d)'
  BY OneTaskNext DEF InboundInv
<1>0. TypeOK /\ Locals /\ OneTaskEach /\ FramesInOrder(d)
  BY DEF ReactorInv, InboundInv
<1>1. CASE UNCHANGED vars
  BY <1>0, <1>1, NobodyTouched, UntouchedInOrder DEF vars
<1>2. ASSUME NEW c \in Conn, ClientStep(c) PROVE FramesInOrder(d)'
  <2>1. CASE Untouched(d)
    BY <1>0, <2>1, UntouchedInOrder
  <2>2. ASSUME NEW k \in Kinds, Issue(d, k) PROVE FramesInOrder(d)'
    BY <1>0, <2>2, InOrderIssue
  <2>3. CASE Leave(d, "reset")
    BY <1>0, <2>3, InOrderReset
  <2>4. QED
    BY <1>0, <1>2, <2>1, <2>2, <2>3, OthersUntouchedByClient
<1>3. CASE SelectorStep
  <2>1. CASE Untouched(d)
    BY <1>0, <2>1, UntouchedInOrder
  <2>2. CASE ContinueRead /\ d = current.conn
    BY <1>0, <2>2, InOrderRead
  <2>3. QED
    BY <1>3, <2>1, <2>2, OthersUntouchedBySelector
<1>4. ASSUME NEW w \in Worker, WorkerStep(w) PROVE FramesInOrder(d)'
  <2>1. CASE Untouched(d)
    BY <1>0, <2>1, UntouchedInOrder
  <2>2. CASE Start(w, d)
    BY <1>0, <2>2, InOrderStart
  <2>3. CASE act[w] = d /\ Process(w)
    BY <1>0, <2>3, InOrderProcess
  <2>4. CASE act[w] = d /\ Release(w)
    BY <1>0, <2>4, InOrderRelease
  <2>5. QED
    BY <1>4, <2>1, <2>2, <2>3, <2>4, OthersUntouchedByWorker
<1>5. QED
  BY <1>1, <1>2, <1>3, <1>4 DEF Next

LEMMA InboundTake ==
    ASSUME ReactorInv, InboundInv, "bad" \notin Kinds, NEW w \in Worker, Process(w)
    PROVE  Inbound!Next
<1>0. TypeOK /\ Locals
  BY DEF ReactorInv
<1>1. PICK c \in Conn : act[w] = c /\ wpc[w] # "idle" /\ FramesInOrder(c)
  BY DEF ReactorInv, OnlyAccepted, Accepted, InboundInv, Process
<1>2. PICK m, n, last, from : Known(c, m, n, last, from)
  BY <1>0, <1>1, InOrderKnown
<1>3. m \in Nat /\ m = Len(issued[c]) /\ from[1] <= m
  BY <1>2 DEF Known
<1>4. PICK s \in Seq(Kinds) :
        /\ s = content[buf[w]] /\ s # <<>>
        /\ Piece(issued[c], s, from[0], from[1]) /\ from[0] \in Nat /\ from[1] \in Nat
        /\ processed[c] \in Seq(Kinds) /\ Piece(issued[c], processed[c], 0, from[0])
        /\ processed' = [processed EXCEPT ![c] = Append(@, Head(s))] /\ UNCHANGED issued
  <2>1. /\ content[buf[w]] \in Seq(Kinds) /\ Piece(issued[c], content[buf[w]], from[0], from[1])
        /\ from[0] \in Nat /\ from[1] \in Nat
        /\ processed[c] \in Seq(Kinds) /\ Piece(issued[c], processed[c], 0, from[0])
    BY <1>0, <1>1, <1>2, PiecesKnown
  <2>2. /\ processed' = [processed EXCEPT ![c] = Append(@, Head(content[buf[w]]))]
        /\ UNCHANGED issued /\ content[buf[w]] # <<>>
    BY <1>1 DEF Process
  <2>3. QED
    BY <2>1, <2>2
<1>5. issued[c][from[0] + 1] = Head(s) /\ from[0] < from[1]
  <2>1. s # <<>> /\ Piece(issued[c], s, from[0], from[1]) /\ from[0] \in Nat
    BY <1>4
  <2>2. QED
    BY <2>1, PieceHead
<1>6. from[0] = Len(processed[c])
  BY <1>4 DEF Piece
<1>7. Len(processed[c]) < Len(issued[c])
  BY <1>3, <1>4, <1>5, <1>6
<1>8. issued[c][Len(processed[c]) + 1] = Head(s)
  BY <1>5, <1>6
<1>9. processed' = [processed EXCEPT ![c] = Append(@, issued[c][Len(@) + 1])]
  BY <1>4, <1>8
<1>10. Inbound!Take(c)
  BY <1>4, <1>7, <1>9 DEF Inbound!Take
<1>11. QED
  BY <1>1, <1>10 DEF Inbound!Next

LEMMA InboundStep ==
    ASSUME "bad" \notin Kinds
    PROVE  ReactorInv /\ InboundInv /\ [Next]_vars => [Inbound!Next]_(Inbound!vars)
<1> SUFFICES ASSUME ReactorInv, InboundInv, [Next]_vars, UNCHANGED <<issued, processed>> => FALSE
             PROVE  Inbound!Next
  BY DEF Inbound!vars
<1>1. ASSUME NEW c \in Conn, ClientStep(c) PROVE Inbound!Next
  <2>1. UNCHANGED <<issued, processed>> \/ \E k \in Kinds : Issue(c, k)
    BY <1>1 DEF ClientStep, Arrive, Drain, Leave
  <2>2. ASSUME NEW k \in Kinds, Issue(c, k) PROVE Inbound!Next
    <3>1. Inbound!Put(c, k)
      BY <2>2 DEF Issue, Inbound!Put
    <3>2. QED
      BY <3>1 DEF Inbound!Next
  <2>3. QED
    BY <2>1, <2>2
<1>2. ASSUME SelectorStep PROVE UNCHANGED <<issued, processed>>
  BY ZenonT(60), <1>2 DEF SelectorStep, WriteStep, Select, RunTask, TasksDone, KeysDone, HandleAccept,
              HandleReadWrite, ContinueRead, ReadEnd, WriteWhole, WritePart, WriteFails,
              WriteDone, WriteCheck, WriteUpdate
<1>3. ASSUME NEW w \in Worker, WorkerStep(w)
      PROVE  UNCHANGED <<issued, processed>> \/ Process(w)
  BY <1>3 DEF WorkerStep, Start, SendAdd, ProcessThrows, Release, SendUpdate, SendWakeup
<1>4. UNCHANGED vars => UNCHANGED <<issued, processed>>
  BY DEF vars
<1>5. QED
  BY <1>1, <1>2, <1>3, <1>4, InboundTake DEF Next

(* However reads, tasks and workers interleave, the protocol is given the  *)
(* frames of a client in the order it sent them, none twice and none       *)
(* skipped, as long as no frame makes it throw                             *)
(* (NonBlockingConnectionHandler.java:55-66).                              *)
THEOREM InboundImplemented ==
    ASSUME "bad" \notin Kinds
    PROVE  Spec => InboundPipe
<1>1. Init => Inbound!Init
  BY DEF Init, Inbound!Init
<1>2. ReactorInv /\ InboundInv /\ [Next]_vars => [Inbound!Next]_(Inbound!vars)
  BY InboundStep
<1>3. QED
  BY <1>1, <1>2, ReactorInvariant, BuffersInit, BuffersNext, InboundInit, InboundNext, PTL
     DEF Spec, InboundPipe, Inbound!Spec
=============================================================================
