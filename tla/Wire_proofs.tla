---------------------------- MODULE Wire_proofs -----------------------------
(***************************************************************************)
(* Proofs about Wire, for any number of frames and broadcasts and sockets  *)
(* of any size, in whatever pieces these take bytes and wherever they      *)
(* break: the frames the server decodes are those the client submitted,    *)
(* the messages the client takes apart are those it was sent.              *)
(***************************************************************************)
EXTENDS Wire, FiniteSetTheorems, TLAPS

USE WireAssumption

-----------------------------------------------------------------------------
(* Frames as bytes.                                                        *)

LEMMA FrameOfBytes ==
    ASSUME NEW n \in Nat
    PROVE  /\ FrameBytes(n) \in Seq(Byte) /\ Len(FrameBytes(n)) = 2
           /\ FrameBytes(n)[1] = <<"frame", n, 1>> /\ FrameBytes(n)[2] = <<"frame", n, 2>>
<1>1. <<"frame", n, 1>> \in Byte /\ <<"frame", n, 2>> \in Byte
  BY DEF Byte
<1>2. QED
  BY <1>1 DEF FrameBytes

LEMMA AtTheEnd ==
    ASSUME NEW S, NEW s \in Seq(S), NEW x \in S
    PROVE  /\ Append(s, x) \in Seq(S) /\ Len(Append(s, x)) = Len(s) + 1
           /\ Append(s, x)[Len(s) + 1] = x
           /\ \A i \in 1..Len(s) : Append(s, x)[i] = s[i]
  OBVIOUS

LEMMA ThirdByte ==
    ASSUME NEW S, NEW f \in Seq(S), NEW x \in S
    PROVE  Len(f) = 2 => /\ Append(f, x) \in Seq(S) /\ Len(Append(f, x)) = 3
                         /\ Append(f, x)[3] = x
                         /\ Append(f, x)[1] = f[1] /\ Append(f, x)[2] = f[2]
<1>1. PICK n \in Nat : n = Len(f)
  OBVIOUS
<1>2. /\ Append(f, x) \in Seq(S) /\ Len(Append(f, x)) = n + 1 /\ Append(f, x)[n + 1] = x
      /\ \A i \in 1..n : Append(f, x)[i] = f[i]
  BY <1>1, AtTheEnd
<1>3. QED
  BY <1>1, <1>2

LEMMA FramedByte ==
    ASSUME NEW n \in 1..MaxFrames
    PROVE  /\ Framed[n] \in Seq(Byte) /\ Len(Framed[n]) = 3
           /\ \A j \in 1..2 : Framed[n][j] = FrameBytes(n)[j] /\ Framed[n][j] # NUL
           /\ Framed[n][3] = NUL
<1>1. FrameBytes(n) \in Seq(Byte) /\ Len(FrameBytes(n)) = 2
  BY FrameOfBytes
<1>2. NUL \in Byte
  BY DEF NUL, Byte
<1>3. /\ Framed[n] \in Seq(Byte) /\ Len(Framed[n]) = 3 /\ Framed[n][3] = NUL
      /\ Framed[n][1] = FrameBytes(n)[1] /\ Framed[n][2] = FrameBytes(n)[2]
  BY <1>1, <1>2, ThirdByte DEF Framed
<1>4. FrameBytes(n)[1] # NUL /\ FrameBytes(n)[2] # NUL
  BY FrameOfBytes DEF NUL
<1>5. QED
  BY <1>3, <1>4

LEMMA FrameMade ==
    ASSUME NEW n \in Nat, NEW s \in Seq(Byte), Len(s) = 2, \A j \in 1..2 : s[j] = FrameBytes(n)[j]
    PROVE  s = FrameBytes(n)
<1>1. FrameBytes(n) \in Seq(Byte) /\ Len(FrameBytes(n)) = 2
  BY FrameOfBytes
<1>2. QED
  BY <1>1

-----------------------------------------------------------------------------
(* Messages as bytes.                                                      *)

LEMMA MessageOfBytes ==
    ASSUME NEW t \in Thread, NEW n \in Nat
    PROVE  /\ MessageBytes(t, n) \in Seq(Byte) /\ Len(MessageBytes(t, n)) = 2
           /\ MessageBytes(t, n)[1] = <<t, n, 1>> /\ MessageBytes(t, n)[2] = <<t, n, 2>>
           /\ MessageBytes(t, n)[1][1] = t /\ MessageBytes(t, n)[1][2] = n
<1>1. <<t, n, 1>> \in Byte /\ <<t, n, 2>> \in Byte
  BY DEF Byte, Thread
<1>2. QED
  BY <1>1 DEF MessageBytes

LEMMA MessageMade ==
    /\ \A n \in 1..MaxFrames : MessageBytes("own", n) \in Messages
    /\ \A n \in 1..MaxBroadcasts : MessageBytes("other", n) \in Messages
  BY DEF Messages

LEMMA MessageKnown ==
    ASSUME NEW m \in Messages
    PROVE  \E t \in Thread, n \in Nat : m = MessageBytes(t, n)
  BY DEF Messages, Thread

LEMMA MessageByte ==
    ASSUME NEW m \in Messages
    PROVE  /\ m \in Seq(Byte) /\ Len(m) = 2
           /\ m[1][1] \in Thread /\ m[1][2] \in Nat
           /\ m[1] # NUL /\ m[1] # LF /\ m[2] # NUL
<1>1. PICK t \in Thread, n \in Nat : m = MessageBytes(t, n)
  BY MessageKnown
<1>2. <<t, n, 1>> # NUL /\ <<t, n, 1>> # LF /\ <<t, n, 2>> # NUL
  BY DEF NUL, LF, Thread
<1>3. QED
  BY ZenonT(60), <1>1, <1>2, MessageOfBytes

LEMMA FourBytes ==
    ASSUME NEW S, NEW s \in Seq(S), NEW x \in S, NEW y \in S
    PROVE  Len(s) = 2 => /\ s \o <<x, y>> \in Seq(S) /\ Len(s \o <<x, y>>) = 4
                         /\ (s \o <<x, y>>)[1] = s[1] /\ (s \o <<x, y>>)[2] = s[2]
                         /\ (s \o <<x, y>>)[3] = x /\ (s \o <<x, y>>)[4] = y
<1>1. PICK n \in Nat : n = Len(s)
  OBVIOUS
<1>2. PICK e : e = <<x, y>> /\ e \in Seq(S) /\ Len(e) = 2 /\ e[1] = x /\ e[2] = y
  <2>1. /\ <<x, y>> \in Seq(S) /\ Len(<<x, y>>) = 2
        /\ <<x, y>>[1] = x /\ <<x, y>>[2] = y
    OBVIOUS
  <2>2. QED
    BY <2>1
<1>3. /\ s \o e \in Seq(S) /\ Len(s \o e) = n + 2
      /\ \A i \in 1..n : (s \o e)[i] = s[i]
      /\ \A i \in 1..2 : (s \o e)[n + i] = e[i]
  BY <1>1, <1>2
<1>4. n = 2 => /\ (s \o e)[1] = s[1] /\ (s \o e)[2] = s[2]
               /\ (s \o e)[3] = x /\ (s \o e)[4] = y
  <2> SUFFICES ASSUME n = 2
               PROVE  /\ (s \o e)[1] = s[1] /\ (s \o e)[2] = s[2]
                      /\ (s \o e)[3] = x /\ (s \o e)[4] = y
    OBVIOUS
  <2>1. (s \o e)[n + 1] = x /\ (s \o e)[n + 2] = y /\ n + 1 = 3 /\ n + 2 = 4
    BY <1>2, <1>3
  <2>2. QED
    BY <1>3, <2>1
<1>5. QED
  BY <1>1, <1>2, <1>3, <1>4

LEMMA EncodedByte ==
    ASSUME NEW m \in Messages
    PROVE  /\ Encode(m) \in Seq(Byte) /\ Len(Encode(m)) = 4
           /\ Encode(m)[1] = m[1] /\ Encode(m)[2] = m[2]
           /\ Encode(m)[3] = NUL /\ Encode(m)[4] = LF
           /\ \A j \in 1..4 : Encode(m)[j] = NUL => j = 3
<1>1. NUL \in Byte /\ LF \in Byte /\ LF # NUL
  BY DEF NUL, LF, Byte
<1>2. m \in Seq(Byte) /\ Len(m) = 2 /\ m[1] # NUL /\ m[2] # NUL
  BY MessageByte
<1>3. /\ Encode(m) \in Seq(Byte) /\ Len(Encode(m)) = 4
      /\ Encode(m)[1] = m[1] /\ Encode(m)[2] = m[2]
      /\ Encode(m)[3] = NUL /\ Encode(m)[4] = LF
  BY <1>1, <1>2, FourBytes DEF Encode
<1>4. \A j \in 1..4 : j = 1 \/ j = 2 \/ j = 3 \/ j = 4
  OBVIOUS
<1>5. QED
  BY <1>1, <1>2, <1>3, <1>4

(* How often a thread has called send.                                     *)
LEMMA CalledTimes ==
    ASSUME sent \in Seq(Messages), NEW t
    PROVE  Called(t) \in Nat
<1>1. IsFiniteSet(1..Len(sent))
  BY FS_Interval
<1>2. DOMAIN sent = 1..Len(sent)
  OBVIOUS
<1>3. {i \in DOMAIN sent : sent[i][1][1] = t} \subseteq 1..Len(sent)
  BY <1>2
<1>4. QED
  BY <1>1, <1>3, FS_Subset, FS_CardinalityType DEF Called

LEMMA CalledOnce ==
    ASSUME sent \in Seq(Messages), NEW m \in Messages, sent' = Append(sent, m), NEW t
    PROVE  /\ Called(t) \in Nat
           /\ Called(t)' = IF m[1][1] = t THEN Called(t) + 1 ELSE Called(t)
<1>1. PICK s \in Seq(Messages), l \in Nat : s = sent /\ l = Len(s)
  OBVIOUS
<1>2. /\ DOMAIN s = 1..l /\ DOMAIN sent' = 1..l + 1 /\ sent'[l + 1] = m
      /\ \A i \in 1..l : sent'[i] = s[i]
  BY <1>1
<1> DEFINE Before == {i \in 1..l : s[i][1][1] = t}
           After  == {i \in 1..l + 1 : sent'[i][1][1] = t}
<1>3. Called(t) = Cardinality(Before) /\ Called(t)' = Cardinality(After)
  BY <1>1, <1>2 DEF Called
<1>4. IsFiniteSet(Before)
  <2>1. IsFiniteSet(1..l)
    BY FS_Interval
  <2>2. Before \subseteq 1..l
    OBVIOUS
  <2>3. QED
    BY <2>1, <2>2, FS_Subset
<1>5. Cardinality(Before) \in Nat
  BY <1>4, FS_CardinalityType
<1>6. l + 1 \notin Before /\ \A i \in 1..l + 1 : i \in 1..l \/ i = l + 1
  OBVIOUS
<1>7. CASE m[1][1] = t
  <2>1. After = Before \cup {l + 1}
    BY <1>2, <1>6, <1>7
  <2>2. Cardinality(Before \cup {l + 1}) = Cardinality(Before) + 1
    BY <1>4, <1>6, FS_AddElement
  <2>3. QED
    BY <1>3, <1>5, <1>7, <2>1, <2>2
<1>8. CASE m[1][1] # t
  <2>1. After = Before
    BY <1>2, <1>6, <1>8
  <2>2. QED
    BY <1>3, <1>5, <1>8, <2>1
<1>9. QED
  BY <1>7, <1>8

-----------------------------------------------------------------------------
(* Pieces of what is spelt.                                                *)

LEMMA SpellsNone == \A from, texts, size : Spells(<<>>, from, texts, size)
  BY DEF Spells

LEMMA SpellsSplit ==
    ASSUME NEW texts, NEW size, NEW s \in Seq(Byte), NEW from \in Nat, Spells(s, from, texts, size), NEW k \in 0..Len(s)
    PROVE  /\ SubSeq(s, 1, k) \in Seq(Byte) /\ SubSeq(s, k + 1, Len(s)) \in Seq(Byte)
           /\ Len(SubSeq(s, 1, k)) = k /\ Len(SubSeq(s, k + 1, Len(s))) = Len(s) - k
           /\ Spells(SubSeq(s, 1, k), from, texts, size)
           /\ Spells(SubSeq(s, k + 1, Len(s)), from + k, texts, size)
<1>1. PICK l \in Nat : l = Len(s) /\ k <= l /\ k \in Nat
  OBVIOUS
<1>2. /\ SubSeq(s, 1, k) \in Seq(Byte) /\ Len(SubSeq(s, 1, k)) = k
      /\ \A i \in 1..k : SubSeq(s, 1, k)[i] = s[i]
  BY <1>1
<1>3. /\ SubSeq(s, k + 1, l) \in Seq(Byte) /\ Len(SubSeq(s, k + 1, l)) = l - k
      /\ \A i \in 1..l - k : SubSeq(s, k + 1, l)[i] = s[k + i]
  BY <1>1
<1>4. Spells(SubSeq(s, 1, k), from, texts, size)
  <2>1. \A i \in 1..k : i \in 1..l
    BY <1>1
  <2>2. QED
    BY <1>1, <1>2, <2>1 DEF Spells
<1>5. Spells(SubSeq(s, k + 1, l), from + k, texts, size)
  <2> SUFFICES ASSUME NEW i \in 1..l - k, NEW n \in DOMAIN texts, NEW j \in 1..size,
                      (from + k) + i = Number(n, j, size)
               PROVE  SubSeq(s, k + 1, l)[i] = texts[n][j]
    BY <1>3 DEF Spells
  <2>1. k + i \in 1..l /\ from + (k + i) = Number(n, j, size)
    BY <1>1
  <2>2. s[k + i] = texts[n][j]
    BY <1>1, <2>1 DEF Spells
  <2>3. QED
    BY <1>3, <2>2
<1>6. QED
  BY <1>1, <1>2, <1>3, <1>4, <1>5

LEMMA SpellsJoined ==
    ASSUME NEW texts, NEW size, NEW s \in Seq(Byte), NEW t \in Seq(Byte), NEW from \in Nat, Spells(s, from, texts, size),
           Spells(t, from + Len(s), texts, size)
    PROVE  /\ s \o t \in Seq(Byte) /\ Len(s \o t) = Len(s) + Len(t)
           /\ Spells(s \o t, from, texts, size)
<1>1. PICK k \in Nat, l \in Nat : k = Len(s) /\ l = Len(t)
  OBVIOUS
<1>2. /\ s \o t \in Seq(Byte) /\ Len(s \o t) = k + l
      /\ \A i \in 1..k : (s \o t)[i] = s[i]
      /\ \A i \in 1..l : (s \o t)[k + i] = t[i]
  BY <1>1
<1>3. ASSUME NEW i \in 1..k + l, NEW n \in DOMAIN texts, NEW j \in 1..size,
             from + i = Number(n, j, size)
      PROVE  (s \o t)[i] = texts[n][j]
  <2>1. CASE i <= k
    <3>1. i \in 1..k
      BY <2>1
    <3>2. s[i] = texts[n][j]
      BY <1>1, <1>3, <3>1 DEF Spells
    <3>3. QED
      BY <1>2, <3>1, <3>2
  <2>2. CASE i > k
    <3>1. i - k \in 1..l /\ (from + k) + (i - k) = Number(n, j, size) /\ k + (i - k) = i
      BY <1>3, <2>2
    <3>2. t[i - k] = texts[n][j]
      BY ZenonT(60), <1>1, <3>1 DEF Spells
    <3>3. QED
      BY <1>2, <3>1, <3>2
  <2>3. i <= k \/ i > k
    BY <1>1
  <2>4. QED
    BY <2>1, <2>2, <2>3
<1>4. Spells(s \o t, from, texts, size)
  BY <1>2, <1>3 DEF Spells
<1>5. QED
  BY <1>1, <1>2, <1>4

LEMMA SpellsFrame ==
    ASSUME NEW n \in 1..MaxFrames
    PROVE  Spells(Framed[n], 3 * (n - 1), Framed, 3)
<1>1. Len(Framed[n]) = 3 /\ Framed[n] \in Seq(Byte)
  BY FramedByte
<1>2. ASSUME NEW i \in 1..3, NEW m \in 1..MaxFrames, NEW j \in 1..3,
             3 * (n - 1) + i = Number(m, j, 3)
      PROVE  m = n /\ j = i
  BY <1>2 DEF Number
<1>3. DOMAIN Framed = 1..MaxFrames
  BY DEF Framed
<1>4. QED
  BY <1>1, <1>2, <1>3 DEF Spells

LEMMA SpellsTail ==
    ASSUME NEW texts, NEW size, NEW s \in Seq(Byte), s # <<>>, NEW from \in Nat,
           Spells(s, from, texts, size)
    PROVE  /\ s[1] \in Byte /\ 1 \in 1..Len(s)
           /\ Tail(s) \in Seq(Byte) /\ Len(s) > 0 /\ Len(Tail(s)) = Len(s) - 1
           /\ Spells(Tail(s), from + 1, texts, size)
<1>1. PICK l \in Nat : l = Len(s) /\ l > 0
  OBVIOUS
<1>2. /\ Tail(s) \in Seq(Byte) /\ Len(Tail(s)) = l - 1 /\ s[1] \in Byte
      /\ \A i \in 1..l - 1 : Tail(s)[i] = s[i + 1]
  BY <1>1
<1>3. ASSUME NEW i \in 1..l - 1, NEW m \in DOMAIN texts, NEW h \in 1..size,
             (from + 1) + i = Number(m, h, size)
      PROVE  Tail(s)[i] = texts[m][h]
  <2>1. i + 1 \in 1..l /\ from + (i + 1) = Number(m, h, size)
    BY <1>1, <1>3
  <2>2. s[i + 1] = texts[m][h]
    BY <1>1, <2>1 DEF Spells
  <2>3. QED
    BY <1>2, <2>2
<1>4. Spells(Tail(s), from + 1, texts, size)
  BY <1>2, <1>3 DEF Spells
<1>5. QED
  BY <1>1, <1>2, <1>4

LEMMA SpellsAt ==
    ASSUME NEW texts, NEW size, NEW s \in Seq(Byte), NEW from \in Nat,
           Spells(s, from, texts, size), NEW i \in 1..Len(s),
           NEW n \in DOMAIN texts, NEW j \in 1..size, from + i = Number(n, j, size)
    PROVE  s[i] = texts[n][j]
  BY DEF Spells

LEMMA SpellsMore ==
    ASSUME NEW texts, NEW size, NEW s \in Seq(Byte), NEW t \in Seq(Byte), t # <<>>,
           NEW from \in Nat, Spells(s, from, texts, size), Spells(t, from + Len(s), texts, size)
    PROVE  /\ Append(s, t[1]) \in Seq(Byte) /\ Len(Append(s, t[1])) = Len(s) + 1
           /\ Spells(Append(s, t[1]), from, texts, size)
<1>1. PICK k \in Nat, l \in Nat : k = Len(s) /\ l = Len(t) /\ 1 \in 1..l /\ t[1] \in Byte
  OBVIOUS
<1>2. /\ Append(s, t[1]) \in Seq(Byte) /\ Len(Append(s, t[1])) = k + 1
      /\ Append(s, t[1])[k + 1] = t[1] /\ \A i \in 1..k : Append(s, t[1])[i] = s[i]
  BY <1>1, AtTheEnd
<1>3. ASSUME NEW i \in 1..k + 1, NEW n \in DOMAIN texts, NEW j \in 1..size,
             from + i = Number(n, j, size)
      PROVE  Append(s, t[1])[i] = texts[n][j]
  <2>1. CASE i \in 1..k
    <3>1. s[i] = texts[n][j]
      BY <1>1, <1>3, <2>1 DEF Spells
    <3>2. QED
      BY <1>2, <2>1, <3>1
  <2>2. CASE i = k + 1
    <3>1. (from + k) + 1 = Number(n, j, size)
      BY <1>3, <2>2
    <3>2. t[1] = texts[n][j]
      BY <1>1, <3>1 DEF Spells
    <3>3. QED
      BY <1>2, <2>2, <3>2
  <2>3. i \in 1..k \/ i = k + 1
    BY <1>1
  <2>4. QED
    BY <2>1, <2>2, <2>3
<1>4. Spells(Append(s, t[1]), from, texts, size)
  BY <1>2, <1>3 DEF Spells
<1>5. QED
  BY <1>1, <1>2, <1>4

(* Messages as texts.                                                      *)
LEMMA EncodedText ==
    ASSUME NEW q \in Seq(Messages)
    PROVE  /\ DOMAIN Encoded(q) = 1..Len(q)
           /\ \A n \in 1..Len(q) : Encoded(q)[n] = Encode(q[n]) /\ q[n] \in Messages
<1>1. DOMAIN q = 1..Len(q) /\ \A n \in 1..Len(q) : q[n] \in Messages
  OBVIOUS
<1>2. QED
  BY <1>1 DEF Encoded

LEMMA MessageSpelt ==
    ASSUME NEW q \in Seq(Messages), NEW s \in Seq(Byte), NEW from \in Nat,
           Spells(s, from, Encoded(q), 4)
    PROVE  \A i \in 1..Len(s), n \in 1..Len(q), j \in 1..4 :
              from + i = 4 * (n - 1) + j => s[i] = Encode(q[n])[j]
<1> SUFFICES ASSUME NEW i \in 1..Len(s), NEW n \in 1..Len(q), NEW j \in 1..4,
                    from + i = 4 * (n - 1) + j
             PROVE  s[i] = Encode(q[n])[j]
  OBVIOUS
<1>1. n \in DOMAIN Encoded(q) /\ Encoded(q)[n] = Encode(q[n])
  BY EncodedText
<1>2. from + i = Number(n, j, 4)
  BY DEF Number
<1>3. s[i] = Encoded(q)[n][j]
  BY <1>1, <1>2 DEF Spells
<1>4. QED
  BY <1>1, <1>3

(* What is spelt by messages is spelt by others that begin like them.      *)
LEMMA SpellsPart ==
    ASSUME NEW q \in Seq(Messages), NEW r \in Seq(Messages), NEW s \in Seq(Byte),
           NEW from \in Nat, Spells(s, from, Encoded(q), 4),
           NEW k \in Nat, k <= Len(q), k <= Len(r), \A n \in 1..k : r[n] = q[n],
           from + Len(s) <= 4 * k
    PROVE  Spells(s, from, Encoded(r), 4)
<1>1. PICK l \in Nat, a \in Nat, b \in Nat : l = Len(s) /\ a = Len(q) /\ b = Len(r)
  OBVIOUS
<1>2. ASSUME NEW i \in 1..l, NEW n \in 1..b, NEW j \in 1..4, from + i = Number(n, j, 4)
      PROVE  s[i] = Encoded(r)[n][j]
  <2>1. n \in 1..k /\ n \in 1..a
    <3>1. from + i = 4 * (n - 1) + j /\ from + l <= 4 * k
      BY <1>1, <1>2 DEF Number
    <3>2. n <= k
      BY <3>1
    <3>3. QED
      BY <1>1, <3>2
  <2>2. Encoded(r)[n] = Encode(r[n]) /\ Encoded(q)[n] = Encode(q[n]) /\ n \in DOMAIN Encoded(q)
    BY <1>1, <2>1, EncodedText
  <2>3. r[n] = q[n]
    BY <2>1
  <2>4. s[i] = Encoded(q)[n][j]
    BY <1>1, <1>2, <2>2 DEF Spells
  <2>5. QED
    BY <2>2, <2>3, <2>4
<1>3. DOMAIN Encoded(r) = 1..b
  BY <1>1, EncodedText
<1>4. QED
  BY SMTT(30), <1>1, <1>2, <1>3 DEF Spells

LEMMA SpellsMessage ==
    ASSUME NEW q \in Seq(Messages), NEW m \in Messages
    PROVE  Spells(Encode(m), 4 * Len(q), Encoded(Append(q, m)), 4)
<1>1. PICK l \in Nat : l = Len(q)
  OBVIOUS
<1>2. PICK r \in Seq(Messages) : r = Append(q, m) /\ Len(r) = l + 1 /\ r[l + 1] = m
  <2>1. /\ Append(q, m) \in Seq(Messages) /\ Len(Append(q, m)) = l + 1
        /\ Append(q, m)[l + 1] = m
    BY <1>1, AtTheEnd
  <2>2. QED
    BY <2>1
<1>3. Len(Encode(m)) = 4
  BY EncodedByte
<1>4. DOMAIN Encoded(r) = 1..l + 1 /\ Encoded(r)[l + 1] = Encode(m)
  <2>1. l + 1 \in 1..Len(r)
    BY <1>2
  <2>2. QED
    BY <1>2, <2>1, EncodedText
<1>5. ASSUME NEW i \in 1..4, NEW n \in 1..l + 1, NEW j \in 1..4, 4 * l + i = Number(n, j, 4)
      PROVE  n = l + 1 /\ j = i
  BY <1>5 DEF Number
<1>6. Spells(Encode(m), 4 * l, Encoded(r), 4)
  BY <1>3, <1>4, <1>5 DEF Spells
<1>7. QED
  BY <1>1, <1>2, <1>6

-----------------------------------------------------------------------------
(* The steps.                                                              *)

LEMMA UpInit == Init => UpInv
<1> SUFFICES ASSUME Init PROVE UpInv
  OBVIOUS
<1>1. PICK none : none = <<>> /\ Len(none) = 0 /\ none \in Seq(Byte) /\ none \in Seq(Frames)
  <2>1. Len(<<>>) = 0 /\ <<>> \in Seq(Byte) /\ <<>> \in Seq(Frames)
    OBVIOUS
  <2>2. QED
    BY <2>1
<1>2. /\ up = none /\ writing = none /\ decoder = none /\ submitted = none /\ processed = none
  BY <1>1 DEF Init
<1>3. Spells(none, 0, Framed, 3)
  BY <1>1, SpellsNone
<1>4. UpTypes
  BY <1>1, <1>2 DEF UpTypes
<1>5. QED
  BY <1>1, <1>2, <1>3, <1>4 DEF UpInv, Read

LEMMA UpSendFrame == UpInv /\ SendFrame => UpInv'
<1> SUFFICES ASSUME UpInv, SendFrame PROVE UpInv'
  OBVIOUS
<1>1. PICK m \in Nat, u \in Nat, r \in Nat : m = Len(submitted) /\ u = Len(up) /\ r = Read
  BY DEF UpInv, UpTypes, Read
<1>2. m + 1 \in 1..MaxFrames /\ m < MaxFrames /\ writing = <<>>
  BY <1>1 DEF SendFrame
<1>3. PICK f : /\ f = FrameBytes(m + 1) /\ f \in Frames
               /\ submitted' = Append(submitted, f) /\ writing' = Framed[m + 1]
  BY <1>1, <1>2 DEF SendFrame, Frames, Framed
<1>4. /\ submitted' \in Seq(Frames) /\ Len(submitted') = m + 1 /\ submitted'[m + 1] = f
      /\ \A n \in 1..m : submitted'[n] = submitted[n]
  <2>1. submitted \in Seq(Frames)
    BY DEF UpInv, UpTypes
  <2>2. QED
    BY <1>1, <1>3, <2>1, AtTheEnd
<1>5. writing' \in Seq(Byte) /\ Len(writing') = 3
  BY <1>2, <1>3, FramedByte
<1>6. UNCHANGED <<up, broken, decoder, processed>> /\ Read' = r
  BY <1>1 DEF SendFrame, socket, input, Read
<1>7. UpTypes'
  BY <1>2, <1>4, <1>5, <1>6 DEF UpInv, UpTypes
<1>8. \A n \in 1..Len(submitted') : submitted'[n] = FrameBytes(n)
  <2>1. \A n \in 1..m : submitted[n] = FrameBytes(n)
    BY <1>1 DEF UpInv
  <2>2. \A n \in 1..m + 1 : n \in 1..m \/ n = m + 1
    BY <1>1
  <2>3. QED
    BY <1>3, <1>4, <2>1, <2>2
<1>9. ~broken' => Spells(writing', r + u, Framed, 3) /\ r + u + 3 = 3 * (m + 1)
  <2> SUFFICES ASSUME ~broken PROVE Spells(Framed[m + 1], r + u, Framed, 3) /\ r + u + 3 = 3 * (m + 1)
    BY <1>3, <1>6
  <2>1. r + u = 3 * m
    BY <1>1, <1>2 DEF UpInv
  <2>2. r + u = 3 * ((m + 1) - 1) /\ r + u + 3 = 3 * (m + 1)
    BY <2>1
  <2>3. QED
    BY <1>2, <2>2, SpellsFrame
<1>10. Spells(up', Read', Framed, 3) /\ r + u <= 3 * (m + 1)
  BY <1>1, <1>6 DEF UpInv
<1>11. /\ \A n \in 1..Len(processed') : processed'[n] = FrameBytes(n)
       /\ Len(decoder') <= 2
       /\ \A j \in 1..Len(decoder') : decoder'[j] = FrameBytes(Len(processed') + 1)[j]
  BY <1>6 DEF UpInv
<1>12. QED
  BY <1>1, <1>4, <1>5, <1>6, <1>7, <1>8, <1>9, <1>10, <1>11 DEF UpInv

LEMMA UpWriteSome == UpInv /\ WriteSome => UpInv'
<1> SUFFICES ASSUME UpInv, WriteSome PROVE UpInv'
  OBVIOUS
<1>1. PICK r \in Nat, s \in Seq(Byte), t \in Seq(Byte) : r = Read /\ s = up /\ t = writing
  BY DEF UpInv, UpTypes, Read
<1>2. PICK k \in 1..Len(t) : up' = s \o SubSeq(t, 1, k) /\ writing' = SubSeq(t, k + 1, Len(t))
  BY <1>1 DEF WriteSome
<1>3. /\ Spells(s, r, Framed, 3) /\ Spells(t, r + Len(s), Framed, 3)
      /\ r + Len(s) + Len(t) = 3 * Len(submitted) /\ ~broken
  BY <1>1 DEF UpInv, WriteSome
<1>4. UNCHANGED <<broken, submitted, decoder, processed>> /\ Read' = r
  BY <1>1 DEF WriteSome, input, Read
<1>5. PICK head, rest :
        /\ head = SubSeq(t, 1, k) /\ rest = SubSeq(t, k + 1, Len(t))
        /\ head \in Seq(Byte) /\ rest \in Seq(Byte) /\ Len(head) = k /\ Len(rest) = Len(t) - k
        /\ Spells(head, r + Len(s), Framed, 3) /\ Spells(rest, (r + Len(s)) + k, Framed, 3)
  <2>1. PICK from \in Nat : from = r + Len(s)
    OBVIOUS
  <2>2. k \in 0..Len(t) /\ Spells(t, from, Framed, 3)
    BY <1>3, <2>1
  <2>3. /\ SubSeq(t, 1, k) \in Seq(Byte) /\ SubSeq(t, k + 1, Len(t)) \in Seq(Byte)
        /\ Len(SubSeq(t, 1, k)) = k /\ Len(SubSeq(t, k + 1, Len(t))) = Len(t) - k
        /\ Spells(SubSeq(t, 1, k), from, Framed, 3) /\ Spells(SubSeq(t, k + 1, Len(t)), from + k, Framed, 3)
    BY <2>2, SpellsSplit
  <2>4. QED
    BY <2>1, <2>3
<1>6. s \o head \in Seq(Byte) /\ Len(s \o head) = Len(s) + k /\ Spells(s \o head, r, Framed, 3)
  <2>1. head \in Seq(Byte) /\ Spells(s, r, Framed, 3) /\ Spells(head, r + Len(s), Framed, 3) /\ Len(head) = k
    BY <1>3, <1>5
  <2>2. QED
    BY SMTT(30), <2>1, SpellsJoined
<1>7. /\ up' \in Seq(Byte) /\ Len(up') = Len(s) + k /\ Spells(up', r, Framed, 3)
      /\ writing' \in Seq(Byte) /\ Len(writing') = Len(t) - k
      /\ Spells(writing', (r + Len(s)) + k, Framed, 3)
  BY <1>2, <1>5, <1>6
<1>8. /\ r + Len(up') + Len(writing') = 3 * Len(submitted) /\ r + Len(up') = (r + Len(s)) + k
      /\ r + Len(up') <= 3 * Len(submitted)
  <2>1. PICK a \in Nat, b \in Nat, m \in Nat : a = Len(s) /\ b = Len(t) /\ m = Len(submitted)
    BY DEF UpInv, UpTypes
  <2>2. k \in Nat /\ k <= b /\ r + a + b = 3 * m /\ Len(up') = a + k /\ Len(writing') = b - k
    BY <1>3, <1>7, <2>1
  <2>3. /\ r + (a + k) + (b - k) = 3 * m /\ r + (a + k) = (r + a) + k /\ r + (a + k) <= 3 * m
    BY <2>2
  <2>4. QED
    BY <2>1, <2>2, <2>3
<1>9. UpTypes'
  BY <1>4, <1>7 DEF UpInv, UpTypes
<1>10. Spells(writing', r + Len(up'), Framed, 3)
  BY <1>7, <1>8
<1>11. QED
  BY <1>4, <1>7, <1>8, <1>9, <1>10 DEF UpInv

(* The byte at the front of the socket, by its number.                     *)
LEMMA UpFront ==
    ASSUME UpInv, up # <<>>, NEW p, NEW k, p = Len(processed), k = Len(decoder)
    PROVE  /\ p \in Nat /\ k \in 0..2 /\ Read = 3 * p + k
           /\ p + 1 \in 1..MaxFrames /\ p < Len(submitted)
           /\ up[1] = Framed[p + 1][k + 1] /\ up[1] \in Byte
           /\ Tail(up) \in Seq(Byte) /\ Len(Tail(up)) = Len(up) - 1
           /\ Spells(Tail(up), Read + 1, Framed, 3)
<1>1. PICK m \in Nat, u \in Nat : /\ m = Len(submitted) /\ m <= MaxFrames /\ u = Len(up) /\ u > 0
                                  /\ up \in Seq(Byte)
  BY DEF UpInv, UpTypes
<1>2. p \in Nat /\ k \in Nat /\ k <= 2
  BY DEF UpInv, UpTypes
<1>3. Read = 3 * p + k
  BY DEF Read
<1>4. 3 * p + k + u <= 3 * m
  BY <1>1, <1>3 DEF UpInv
<1>5. p < m /\ p + 1 \in 1..MaxFrames /\ k + 1 \in 1..3 /\ (3 * p + k) + 1 = 3 * ((p + 1) - 1) + (k + 1)
  <2>1. p \in Nat /\ k \in Nat /\ k <= 2 /\ m \in Nat /\ u \in Nat /\ u > 0 /\ 3 * p + k + u <= 3 * m
    BY <1>1, <1>2, <1>4
  <2>2. p < m /\ k + 1 \in 1..3
    BY <2>1
  <2>3. (3 * p + k) + 1 = 3 * ((p + 1) - 1) + (k + 1)
    BY <2>1
  <2>4. p + 1 \in 1..MaxFrames
    BY <1>1, <2>1, <2>2
  <2>5. QED
    BY <2>2, <2>3, <2>4
<1>6. PICK from \in Nat : from = 3 * p + k
  BY <1>2
<1>7. Spells(up, from, Framed, 3) /\ from + 1 = Number(p + 1, k + 1, 3)
  BY <1>3, <1>5, <1>6 DEF UpInv, Number
<1>8. /\ up[1] = Framed[p + 1][k + 1] /\ up[1] \in Byte
      /\ Tail(up) \in Seq(Byte) /\ Len(Tail(up)) = Len(up) - 1 /\ Spells(Tail(up), from + 1, Framed, 3)
  <2>1. p + 1 \in DOMAIN Framed /\ k + 1 \in 1..3
    BY <1>5 DEF Framed
  <2>2. up \in Seq(Byte) /\ up # <<>>
    BY <1>1
  <2>3. /\ up[1] \in Byte /\ 1 \in 1..Len(up)
        /\ Tail(up) \in Seq(Byte) /\ Len(up) > 0 /\ Len(Tail(up)) = Len(up) - 1
        /\ Spells(Tail(up), from + 1, Framed, 3)
    BY <1>7, <2>2, SpellsTail
  <2>4. up[1] = Framed[p + 1][k + 1]
    BY <1>7, <2>1, <2>2, <2>3, SpellsAt
  <2>5. QED
    BY <2>3, <2>4
<1>9. k \in 0..2 /\ from + 1 = Read + 1 /\ p < Len(submitted)
  <2>1. k \in 0..2
    BY <1>2
  <2>2. from + 1 = Read + 1
    BY <1>3, <1>6
  <2>3. p < Len(submitted)
    BY <1>1, <1>5
  <2>4. QED
    BY <2>1, <2>2, <2>3
<1>10. QED
  BY <1>2, <1>3, <1>5, <1>8, <1>9

(* One byte more has been read.                                            *)
LEMMA UpRead ==
    ASSUME UpInv, up # <<>>, up' = Tail(up), UNCHANGED <<broken, writing, submitted>>,
           Read' = Read + 1
    PROVE  /\ Spells(up', Read', Framed, 3)
           /\ Read' + Len(up') <= 3 * Len(submitted)
           /\ ~broken' =>
                 /\ Spells(writing', Read' + Len(up'), Framed, 3)
                 /\ Read' + Len(up') + Len(writing') = 3 * Len(submitted')
<1>1. PICK r \in Nat, u \in Nat : r = Read /\ u = Len(up)
  BY DEF UpInv, UpTypes, Read
<1>2. Spells(Tail(up), r + 1, Framed, 3) /\ Len(Tail(up)) = u - 1
  BY <1>1, UpFront
<1>3. (r + 1) + (u - 1) = r + u
  OBVIOUS
<1>4. Spells(up', Read', Framed, 3) /\ Read' + Len(up') = r + u
  BY <1>1, <1>2, <1>3
<1>5. /\ r + u <= 3 * Len(submitted)
      /\ ~broken => Spells(writing, r + u, Framed, 3) /\ r + u + Len(writing) = 3 * Len(submitted)
  BY <1>1 DEF UpInv
<1>6. QED
  BY <1>4, <1>5

LEMMA UpPushByte == UpInv /\ PushByte => UpInv'
<1> SUFFICES ASSUME UpInv, PushByte PROVE UpInv'
  OBVIOUS
<1>1. PICK p, k : p = Len(processed) /\ k = Len(decoder)
  OBVIOUS
<1>2. /\ UNCHANGED <<broken, writing, submitted, processed>> /\ up # <<>> /\ up' = Tail(up)
      /\ up[1] # NUL /\ decoder' = Append(decoder, up[1])
  BY DEF PushByte, main
<1>3. /\ p \in Nat /\ k \in 0..2 /\ Read = 3 * p + k /\ p + 1 \in 1..MaxFrames
      /\ up[1] = Framed[p + 1][k + 1] /\ up[1] \in Byte /\ Tail(up) \in Seq(Byte)
  BY <1>1, <1>2, UpFront
<1>4. k + 1 \in 1..2 /\ up[1] = FrameBytes(p + 1)[k + 1]
  <2>1. k # 2
    BY <1>2, <1>3, FramedByte
  <2>2. k + 1 \in 1..2
    BY <1>3, <2>1
  <2>3. QED
    BY <1>3, <2>2, FramedByte
<1>5. /\ decoder' \in Seq(Byte) /\ Len(decoder') = k + 1 /\ decoder'[k + 1] = up[1]
      /\ \A j \in 1..k : decoder'[j] = decoder[j]
  <2>1. decoder \in Seq(Byte)
    BY DEF UpInv, UpTypes
  <2>2. QED
    BY <1>1, <1>2, <1>3, <2>1, AtTheEnd
<1>6. Read' = Read + 1
  <2>1. Read' = 3 * p + (k + 1)
    BY <1>1, <1>2, <1>5 DEF Read
  <2>2. QED
    BY SMTT(30), <1>3, <2>1
<1>7. \A j \in 1..k + 1 : decoder'[j] = FrameBytes(p + 1)[j]
  <2>1. \A j \in 1..k : decoder[j] = FrameBytes(p + 1)[j]
    BY <1>1 DEF UpInv
  <2>2. \A j \in 1..k + 1 : j \in 1..k \/ j = k + 1
    BY <1>3
  <2>3. QED
    BY <1>4, <1>5, <2>1, <2>2
<1>8. UpTypes'
  BY <1>2, <1>3, <1>5 DEF UpInv, UpTypes
<1>9. /\ \A n \in 1..Len(submitted') : submitted'[n] = FrameBytes(n)
      /\ \A n \in 1..Len(processed') : processed'[n] = FrameBytes(n)
      /\ Len(decoder') <= 2
  BY <1>2, <1>4, <1>5 DEF UpInv
<1>10. \A j \in 1..Len(decoder') : decoder'[j] = FrameBytes(Len(processed') + 1)[j]
  BY <1>1, <1>2, <1>5, <1>7
<1>11. Len(submitted') = Len(submitted)
  BY <1>2
<1>12. QED
  BY <1>2, <1>6, <1>8, <1>9, <1>10, <1>11, UpRead DEF UpInv

(* The NUL behind a frame is read: it is the next one, as submitted.       *)
LEMMA FrameRead ==
    ASSUME UpInv, PopString
    PROVE  /\ Len(processed) < Len(submitted) /\ Len(decoder) = 2
           /\ decoder = FrameBytes(Len(processed) + 1) /\ decoder \in Frames
           /\ decoder = submitted[Len(processed) + 1]
<1>1. PICK p, k : p = Len(processed) /\ k = Len(decoder)
  OBVIOUS
<1>2. up # <<>> /\ up[1] = NUL
  BY DEF PopString
<1>3. /\ p \in Nat /\ k \in 0..2 /\ p + 1 \in 1..MaxFrames /\ p < Len(submitted)
      /\ up[1] = Framed[p + 1][k + 1]
  BY <1>1, <1>2, UpFront
<1>4. k = 2
  <2>1. SUFFICES ASSUME k # 2 PROVE FALSE
    OBVIOUS
  <2>2. k + 1 \in 1..2
    BY <1>3, <2>1
  <2>3. QED
    BY <1>2, <1>3, <2>2, FramedByte
<1>5. decoder \in Seq(Byte) /\ Len(decoder) = 2 /\ \A j \in 1..2 : decoder[j] = FrameBytes(p + 1)[j]
  BY <1>1, <1>4 DEF UpInv, UpTypes
<1>6. decoder = FrameBytes(p + 1)
  BY <1>3, <1>5, FrameMade
<1>7. submitted[p + 1] = FrameBytes(p + 1)
  <2>1. p + 1 \in 1..Len(submitted)
    BY <1>3 DEF UpInv, UpTypes
  <2>2. QED
    BY <2>1 DEF UpInv
<1>8. QED
  BY <1>1, <1>3, <1>4, <1>6, <1>7 DEF Frames

LEMMA UpPopString == UpInv /\ PopString => UpInv'
<1> SUFFICES ASSUME UpInv, PopString PROVE UpInv'
  OBVIOUS
<1>1. PICK p \in Nat : p = Len(processed)
  BY DEF UpInv, UpTypes
<1>2. PICK f \in Frames : /\ f = decoder /\ Len(f) = 2 /\ f = FrameBytes(p + 1)
                          /\ processed' = Append(processed, f)
  BY <1>1, FrameRead DEF PopString
<1>3. /\ UNCHANGED <<broken, writing, submitted>> /\ up # <<>> /\ up' = Tail(up) /\ decoder' = <<>>
  BY DEF PopString, main
<1>4. Tail(up) \in Seq(Byte)
  BY <1>3, UpFront
<1>5. /\ processed' \in Seq(Frames) /\ Len(processed') = p + 1 /\ processed'[p + 1] = f
      /\ \A n \in 1..p : processed'[n] = processed[n]
  <2>1. processed \in Seq(Frames)
    BY DEF UpInv, UpTypes
  <2>2. QED
    BY <1>1, <1>2, <2>1, AtTheEnd
<1>6. decoder' \in Seq(Byte) /\ Len(decoder') = 0
  BY <1>3
<1>7. Read' = Read + 1
  <2>1. Read' = 3 * (p + 1) + 0 /\ Read = 3 * p + 2
    BY <1>1, <1>2, <1>5, <1>6 DEF Read
  <2>2. QED
    BY <2>1
<1>8. UpTypes'
  BY <1>3, <1>4, <1>5, <1>6 DEF UpInv, UpTypes
<1>9. \A n \in 1..Len(processed') : processed'[n] = FrameBytes(n)
  <2>1. \A n \in 1..p : processed[n] = FrameBytes(n)
    BY <1>1 DEF UpInv
  <2>2. \A n \in 1..p + 1 : n \in 1..p \/ n = p + 1
    OBVIOUS
  <2>3. QED
    BY <1>2, <1>5, <2>1, <2>2
<1>10. /\ \A n \in 1..Len(submitted') : submitted'[n] = FrameBytes(n)
       /\ Len(decoder') <= 2 /\ Len(submitted') = Len(submitted)
       /\ \A j \in 1..Len(decoder') : decoder'[j] = FrameBytes(Len(processed') + 1)[j]
  BY <1>3, <1>6 DEF UpInv
<1>11. QED
  BY <1>3, <1>7, <1>8, <1>9, <1>10, UpRead DEF UpInv

LEMMA UpBreak == UpInv /\ Break => UpInv'
<1> SUFFICES ASSUME UpInv, Break PROVE UpInv'
  OBVIOUS
<1>1. PICK r \in Nat, s \in Seq(Byte) : r = Read /\ s = up
  BY DEF UpInv, UpTypes, Read
<1>2. PICK k \in 0..Len(s) : up' = SubSeq(s, 1, k)
  BY <1>1 DEF Break
<1>3. Spells(s, r, Framed, 3) /\ r + Len(s) <= 3 * Len(submitted)
  BY <1>1 DEF UpInv
<1>4. SubSeq(s, 1, k) \in Seq(Byte) /\ Len(SubSeq(s, 1, k)) = k /\ Spells(SubSeq(s, 1, k), r, Framed, 3)
  BY <1>3, SpellsSplit
<1>5. /\ UNCHANGED <<writing, submitted, decoder, processed>> /\ broken' = TRUE /\ Read' = r
  BY <1>1 DEF Break, main, input, Read
<1>6. r + k <= 3 * Len(submitted)
  <2>1. Len(submitted) \in Nat
    BY DEF UpInv, UpTypes
  <2>2. QED
    BY <1>3, <2>1
<1>7. UpTypes'
  BY <1>2, <1>4, <1>5 DEF UpInv, UpTypes
<1>8. QED
  BY <1>2, <1>4, <1>5, <1>6, <1>7 DEF UpInv

LEMMA UpWriteFails == UpInv /\ WriteFails => UpInv'
<1> SUFFICES ASSUME UpInv, WriteFails PROVE UpInv'
  OBVIOUS
<1>1. /\ UNCHANGED <<up, broken, submitted, decoder, processed>> /\ broken /\ writing' = <<>>
  BY DEF WriteFails, socket, input
<1>2. writing' \in Seq(Byte)
  BY <1>1
<1>3. UpTypes' /\ Read' = Read
  BY <1>1, <1>2 DEF UpInv, UpTypes, Read
<1>4. QED
  BY <1>1, <1>3 DEF UpInv

LEMMA UpOthers ==
    UpInv /\ UNCHANGED <<up, broken, writing, submitted, decoder, processed>> => UpInv'
  BY DEF UpInv, UpTypes, Read

LEMMA UpNext == UpInv /\ [Next]_vars => UpInv'
<1> SUFFICES ASSUME UpInv, [Next]_vars PROVE UpInv'
  OBVIOUS
<1>1. ASSUME Broadcast \/ (\E t \in Thread : ServerStep(t)) \/ SocketStep \/ UNCHANGED vars
      PROVE  UNCHANGED <<up, broken, writing, submitted, decoder, processed>>
  BY <1>1 DEF Broadcast, Calls, ServerStep, SendNew, SendWrite, SendFlush, SocketStep, GetByte,
              GetFrame, vars, socket, main, input
<1>2. QED
  BY <1>1, UpSendFrame, UpWriteSome, UpWriteFails, UpPushByte, UpPopString, UpBreak, UpOthers
     DEF Next, MainStep, RunStep

-----------------------------------------------------------------------------
(* The way to the client: what send was called with.                       *)

LEMMA CalledKept ==
    ASSUME CalledInOrder, UNCHANGED <<sent, processed>>,
           \A t \in Thread : place'[t] # "idle" => place[t] # "idle"
    PROVE  CalledInOrder'
<1>1. \A t : Called(t)' = Called(t)
  BY DEF Called
<1>2. sent' \in Seq(Messages) /\ Called("own")' = Len(processed')
  BY <1>1 DEF CalledInOrder
<1>3. \A t \in Thread, i \in 1..Len(sent') : sent'[i][1][1] = t => sent'[i][1][2] <= Called(t)'
  BY <1>1 DEF CalledInOrder
<1>4. \A t \in Thread : place'[t] # "idle" =>
         \E i \in 1..Len(sent') :
             /\ sent'[i] = MessageBytes(t, Called(t)')
             /\ \A j \in 1..Len(sent') : j > i => sent'[j][1][1] # t
  BY <1>1 DEF CalledInOrder
<1>5. QED
  BY <1>2, <1>3, <1>4 DEF CalledInOrder

LEMMA LastCalled ==
    ASSUME CalledInOrder, NEW t \in Thread, place[t] # "idle"
    PROVE  \E i \in 1..Len(sent) :
              /\ LastOf(t) = sent[i] /\ sent[i] = MessageBytes(t, Called(t))
              /\ sent[i] \in Messages /\ sent[i][1][1] = t /\ sent[i][1][2] = Called(t)
              /\ \A j \in 1..Len(sent) : j > i => sent[j][1][1] # t
<1>1. PICK s \in Seq(Messages) : s = sent
  BY DEF CalledInOrder
<1>2. PICK i \in 1..Len(s) : /\ s[i] = MessageBytes(t, Called(t))
                             /\ \A j \in 1..Len(s) : j > i => s[j][1][1] # t
  BY <1>1 DEF CalledInOrder
<1>3. Called(t) \in Nat
  BY <1>1, CalledTimes
<1>4. s[i][1][1] = t /\ s[i][1][2] = Called(t) /\ s[i] \in Messages
  BY <1>2, <1>3, MessageOfBytes
<1>5. PICK k : k = CHOOSE l \in DOMAIN s :
                      s[l][1][1] = t /\ \A j \in DOMAIN s : j > l => s[j][1][1] # t
  OBVIOUS
<1>6. DOMAIN s = 1..Len(s)
  OBVIOUS
<1>7. \E l \in DOMAIN s : s[l][1][1] = t /\ \A j \in DOMAIN s : j > l => s[j][1][1] # t
  BY <1>2, <1>4, <1>6
<1>8. k \in DOMAIN s /\ s[k][1][1] = t /\ \A j \in DOMAIN s : j > k => s[j][1][1] # t
  BY <1>5, <1>7
<1>9. k = i
  BY <1>2, <1>4, <1>6, <1>8
<1>10. LastOf(t) = s[i]
  BY <1>1, <1>5, <1>9 DEF LastOf
<1>11. QED
  BY <1>1, <1>2, <1>4, <1>10

LEMMA CalledAgain ==
    ASSUME CalledInOrder, place \in [Thread -> {"idle", "new", "write", "flush"}],
           NEW t \in Thread, NEW m \in Messages, m = MessageBytes(t, Called(t) + 1), Calls(t, m),
           \/ t = "own" /\ Len(processed') = Len(processed) + 1
           \/ t = "other" /\ processed' = processed
    PROVE  /\ CalledInOrder'
           /\ Called(t)' = Called(t) + 1
           /\ \A u \in Thread : u # t => Called(u)' = Called(u)
<1>1. PICK s \in Seq(Messages), l \in Nat : s = sent /\ l = Len(s)
  BY DEF CalledInOrder
<1>2. /\ sent' \in Seq(Messages) /\ Len(sent') = l + 1 /\ sent'[l + 1] = m
      /\ \A i \in 1..l : sent'[i] = s[i]
  <2>1. sent' = Append(s, m)
    BY <1>1 DEF Calls
  <2>2. QED
    BY <1>1, <2>1, AtTheEnd
<1>3. \A u : Called(u) \in Nat
  BY <1>1, CalledTimes
<1>4. m[1][1] = t /\ m[1][2] = Called(t) + 1
  <2>1. Called(t) + 1 \in Nat
    BY <1>3
  <2>2. QED
    BY <2>1, MessageOfBytes
<1>5. \A u : Called(u)' = IF m[1][1] = u THEN Called(u) + 1 ELSE Called(u)
  <2>1. sent \in Seq(Messages) /\ sent' = Append(sent, m)
    BY <1>1 DEF Calls
  <2>2. QED
    BY <2>1, CalledOnce
<1>6. /\ Called(t)' = Called(t) + 1
      /\ \A u : u # t => Called(u)' = Called(u)
  BY <1>4, <1>5
<1>7. Called("own")' = Len(processed')
  <2>1. Called("own") = Len(processed)
    BY DEF CalledInOrder
  <2>2. QED
    BY <1>6, <2>1
<1>8. ASSUME NEW u \in Thread, NEW i \in 1..l + 1, sent'[i][1][1] = u
      PROVE  sent'[i][1][2] <= Called(u)'
  <2>1. CASE i \in 1..l
    <3>1. s[i] \in Messages /\ s[i][1][1] = u /\ sent'[i] = s[i]
      BY <1>1, <1>2, <1>8, <2>1
    <3>2. s[i][1][2] \in Nat /\ s[i][1][2] <= Called(u)
      BY <1>1, <2>1, <3>1, MessageByte DEF CalledInOrder
    <3>3. Called(u) \in Nat /\ (Called(u)' = Called(u) + 1 \/ Called(u)' = Called(u))
      BY <1>3, <1>6
    <3>4. s[i][1][2] <= Called(u)'
      BY <3>2, <3>3
    <3>5. QED
      BY <3>1, <3>4
  <2>2. CASE i = l + 1
    <3>1. u = t /\ sent'[i][1][2] = Called(t) + 1
      BY <1>2, <1>4, <1>8, <2>2
    <3>2. Called(t)' = Called(t) + 1 /\ Called(t) \in Nat
      BY <1>3, <1>6
    <3>3. QED
      BY <3>1, <3>2
  <2>3. QED
    BY <2>1, <2>2
<1>9. ASSUME NEW u \in Thread, place'[u] # "idle"
      PROVE  \E i \in 1..l + 1 :
                 /\ sent'[i] = MessageBytes(u, Called(u)')
                 /\ \A j \in 1..l + 1 : j > i => sent'[j][1][1] # u
  <2>1. CASE u = t
    <3>1. sent'[l + 1] = MessageBytes(u, Called(u)')
      BY <1>2, <1>6, <2>1
    <3>2. l + 1 \in 1..l + 1 /\ \A j \in 1..l + 1 : ~(j > l + 1)
      OBVIOUS
    <3>3. QED
      BY <3>1, <3>2
  <2>2. CASE u # t
    <3>1. place[u] # "idle"
      BY <1>9, <2>2 DEF Calls
    <3>2. PICK i \in 1..l : /\ s[i] = MessageBytes(u, Called(u))
                            /\ \A j \in 1..l : j > i => s[j][1][1] # u
      BY <1>1, <3>1 DEF CalledInOrder
    <3>3. i \in 1..l + 1 /\ sent'[i] = MessageBytes(u, Called(u)')
      BY <1>2, <1>6, <2>2, <3>2
    <3>4. ASSUME NEW j \in 1..l + 1, j > i PROVE sent'[j][1][1] # u
      <4>1. CASE j \in 1..l
        BY <1>2, <3>2, <3>4, <4>1
      <4>2. CASE j = l + 1
        BY <1>2, <1>4, <2>2, <4>2
      <4>3. QED
        BY <4>1, <4>2
    <3>5. QED
      BY <3>3, <3>4
  <2>3. QED
    BY <2>1, <2>2
<1>10. QED
  BY <1>2, <1>6, <1>7, <1>8, <1>9 DEF CalledInOrder

-----------------------------------------------------------------------------
(* The way to the client: the steps.                                       *)

LEMMA DownInit == Init => DownInv
<1> SUFFICES ASSUME Init PROVE DownInv
  OBVIOUS
<1>1. PICK none : /\ none = <<>> /\ Len(none) = 0 /\ DOMAIN none = 1..0
                  /\ none \in Seq(Byte) /\ none \in Seq(Frames) /\ none \in Seq(Messages)
  <2>1. /\ Len(<<>>) = 0 /\ DOMAIN <<>> = 1..0
        /\ <<>> \in Seq(Byte) /\ <<>> \in Seq(Frames) /\ <<>> \in Seq(Messages)
    OBVIOUS
  <2>2. QED
    BY <2>1
<1>2. /\ down = none /\ frame = none /\ got = none /\ sent = none /\ processed = none
      /\ buffer = [t \in Thread |-> none] /\ place = [t \in Thread |-> "idle"] /\ out = "own"
      /\ broken = FALSE /\ overlapped = FALSE
  BY <1>1 DEF Init
<1>3. DownTypes
  BY <1>1, <1>2 DEF DownTypes, Thread
<1>4. CalledInOrder
  <2>1. Called("own") = Cardinality({})
    BY <1>1, <1>2 DEF Called
  <2>2. Called("own") = 0
    BY <2>1, FS_EmptySet
  <2>3. QED
    BY <1>1, <1>2, <2>2 DEF CalledInOrder
<1>5. buffer[out] = none /\ Skipped = 0
  BY <1>1, <1>2 DEF Thread, Skipped
<1>6. \A from, texts, size : Spells(none, from, texts, size)
  BY <1>1, SpellsNone
<1>7. OnTheWay(none)
  <2>1. 0 \in 0..Len(none) /\ 0 + 0 + 0 <= 4 * Len(none) /\ 0 + 0 + 0 + 4 * 0 = 4 * Len(none) /\ 0 = 4 * 0
    BY <1>1
  <2>2. \E b \in 0..Len(none) : /\ Len(buffer[out]) = 4 * b
                                /\ Skipped + Len(frame) + Len(down) + 4 * b = 4 * Len(none)
    BY <1>1, <1>2, <1>5, <2>1
  <2>3. QED
    BY <1>1, <1>2, <1>5, <1>6, <2>1, <2>2 DEF OnTheWay
<1>8. OneAfterTheOther(none)
  BY <1>1 DEF OneAfterTheOther
<1>9. InTurn(none)
  <2>1. Underway = {}
    BY <1>2 DEF Underway
  <2>2. QED
    BY <1>1, <1>2, <1>5, <2>1 DEF InTurn
<1>10. QED
  BY <1>1, <1>3, <1>4, <1>7, <1>8, <1>9 DEF DownInv

LEMMA SkippedCounted ==
    ASSUME DownTypes
    PROVE  /\ Len(got) \in Nat /\ Len(frame) \in Nat /\ Len(down) \in Nat /\ Skipped \in Nat
           /\ \/ got = <<>> /\ Len(got) = 0 /\ Skipped = 0
              \/ got # <<>> /\ Len(got) > 0 /\ Skipped = 4 * Len(got) - 1
<1>1. Len(got) \in Nat /\ Len(frame) \in Nat /\ Len(down) \in Nat
  BY DEF DownTypes
<1>2. (got # <<>> => Len(got) > 0) /\ (got = <<>> => Len(got) = 0)
  BY DEF DownTypes
<1>3. QED
  BY <1>1, <1>2 DEF Skipped

LEMMA DownOthers ==
    DownInv /\ UNCHANGED <<down, broken, processed, output, reader>> => DownInv'
<1> SUFFICES ASSUME DownInv, UNCHANGED <<down, broken, processed, output, reader>> PROVE DownInv'
  OBVIOUS
<1>1. UNCHANGED <<place, out, buffer, sent, overlapped, frame, got>>
  BY DEF output, reader
<1>2. CalledInOrder'
  BY <1>1, CalledKept DEF DownInv
<1>3. DownTypes'
  BY <1>1 DEF DownInv, DownTypes
<1>4. PICK q \in Seq(Messages) :
        OnTheWay(q) /\ OneAfterTheOther(q) /\ (~overlapped => InTurn(q))
  BY DEF DownInv
<1>5. Skipped' = Skipped /\ Underway' = Underway
  BY <1>1 DEF Skipped, Underway
<1>6. OnTheWay(q)'
  BY <1>1, <1>4, <1>5 DEF OnTheWay
<1>7. OneAfterTheOther(q)'
  <2>1. \A t : Called(t)' = Called(t)
    BY <1>1 DEF Called
  <2>2. QED
    BY <1>1, <1>4, <2>1 DEF OneAfterTheOther
<1>8. ~overlapped' => InTurn(q)'
  BY <1>1, <1>4, <1>5 DEF InTurn
<1>9. QED
  BY <1>2, <1>3, <1>4, <1>6, <1>7, <1>8 DEF DownInv

(* A thread calls send.                                                    *)
LEMMA DownCalls ==
    ASSUME DownInv, NEW t \in Thread, NEW m \in Messages, m = MessageBytes(t, Called(t) + 1),
           place[t] = "idle", Calls(t, m), UNCHANGED <<down, broken, reader>>,
           \/ t = "own" /\ Len(processed') = Len(processed) + 1
           \/ t = "other" /\ processed' = processed
    PROVE  DownInv'
<1>1. DownTypes /\ CalledInOrder
  BY DEF DownInv
<1>2. /\ place' = [place EXCEPT ![t] = "new"] /\ sent' = Append(sent, m)
      /\ overlapped' = (overlapped \/ \E u \in Thread \ {t} : place[u] # "idle")
      /\ UNCHANGED <<down, broken, out, buffer, frame, got>>
  BY DEF Calls, reader
<1>3. /\ CalledInOrder' /\ Called(t)' = Called(t) + 1
      /\ \A u \in Thread : u # t => Called(u)' = Called(u)
  <2>1. place \in [Thread -> {"idle", "new", "write", "flush"}]
    BY <1>1 DEF DownTypes
  <2>2. QED
    BY <1>1, <2>1, CalledAgain
<1>4. DownTypes'
  BY <1>1, <1>2 DEF DownTypes
<1>5. PICK q \in Seq(Messages) :
        OnTheWay(q) /\ OneAfterTheOther(q) /\ (~overlapped => InTurn(q))
  BY DEF DownInv
<1>6. PICK s \in Seq(Messages), l \in Nat : s = sent /\ l = Len(s)
  BY <1>1 DEF CalledInOrder
<1>7. /\ sent' \in Seq(Messages) /\ Len(sent') = l + 1 /\ sent'[l + 1] = m
      /\ \A i \in 1..l : sent'[i] = s[i]
  <2>1. sent' = Append(s, m)
    BY <1>2, <1>6
  <2>2. QED
    BY <1>6, <2>1, AtTheEnd
<1>8. m[1][1] = t /\ Called(t) \in Nat
  <2>1. Called(t) \in Nat
    BY <1>6, CalledTimes
  <2>2. Called(t) + 1 \in Nat
    BY <2>1
  <2>3. QED
    BY <2>1, <2>2, MessageOfBytes
<1>9. OnTheWay(q)'
  <2>1. Skipped' = Skipped
    BY <1>2 DEF Skipped
  <2>2. QED
    BY <1>2, <1>5, <2>1 DEF OnTheWay
<1>10. OneAfterTheOther(q)'
  <2>1. ASSUME NEW n \in 1..Len(q) PROVE \E k \in 1..Len(sent') : q[n] = sent'[k]
    <3>1. PICK k \in 1..l : q[n] = s[k]
      BY <1>5, <1>6 DEF OneAfterTheOther
    <3>2. k \in 1..l + 1 /\ q[n] = sent'[k]
      BY <1>7, <3>1
    <3>3. QED
      BY <1>7, <3>2
  <2>2. \A n, h \in 1..Len(q) : n < h /\ q[n][1][1] = q[h][1][1] => q[n][1][2] < q[h][1][2]
    BY <1>5 DEF OneAfterTheOther
  <2>3. ASSUME NEW u \in Thread, NEW n \in 1..Len(q), place'[u] \in {"new", "write"}, q[n][1][1] = u
        PROVE  q[n][1][2] < Called(u)'
    <3>1. CASE u = t
      <4>1. PICK k \in 1..l : q[n] = s[k]
        BY <1>5, <1>6 DEF OneAfterTheOther
      <4>2. q[n][1][2] <= Called(t)
        BY <1>1, <1>6, <2>3, <3>1, <4>1 DEF CalledInOrder
      <4>3. q[n] \in Messages
        OBVIOUS
      <4>4. q[n][1][2] \in Nat
        BY <4>3, MessageByte
      <4>5. QED
        BY SMTT(30), <1>3, <1>8, <3>1, <4>2, <4>4
    <3>2. CASE u # t
      <4>1. place[u] \in {"new", "write"}
        BY <1>2, <2>3, <3>2
      <4>2. QED
        BY <1>3, <1>5, <2>3, <3>2, <4>1 DEF OneAfterTheOther
    <3>3. QED
      BY <3>1, <3>2
  <2>4. QED
    BY <2>1, <2>2, <2>3 DEF OneAfterTheOther
<1>11. ASSUME ~overlapped' PROVE InTurn(q)'
  <2>1. ~overlapped /\ \A u \in Thread : place[u] = "idle"
    BY <1>2, <1>11
  <2>2. InTurn(q)
    BY <1>5, <2>1
  <2>3. place'[t] = "new" /\ \A u \in Thread : u # t => place'[u] = "idle"
    BY <1>1, <1>2, <2>1 DEF DownTypes
  <2>4. Underway = {} /\ Underway' = {t}
    BY <2>1, <2>3 DEF Underway
  <2>5. out' = out /\ out \in Thread /\ buffer' = buffer /\ broken' = broken
    BY <1>1, <1>2 DEF DownTypes
  <2>6. ~broken => buffer[out] = <<>>
    BY <2>1, <2>2, <2>5 DEF InTurn
  <2>7. Len(q) <= l /\ \A n \in 1..Len(q) : q[n] = s[n]
    BY <1>6, <2>2 DEF InTurn
  <2>8. Len(q) <= l + 1 /\ \A n \in 1..Len(q) : q[n] = sent'[n]
    <3>1. Len(q) \in Nat
      OBVIOUS
    <3>2. \A n \in 1..Len(q) : n \in 1..l
      BY <2>7, <3>1
    <3>3. QED
      BY <1>7, <2>7, <3>1, <3>2
  <2>9. ~broken => l + 1 = Len(q) + 1
    BY <1>6, <2>2, <2>4 DEF InTurn
  <2>10. sent' # <<>> /\ sent'[Len(sent')][1][1] = t
    BY <1>7, <1>8
  <2>11. /\ \A u, v \in Thread : u # v => place'[u] = "idle" \/ place'[v] = "idle"
         /\ \A u \in Thread : place'[u] \in {"write", "flush"} => out' = u
         /\ \A u \in Thread : place'[u] # "idle" => sent' # <<>> /\ sent'[Len(sent')][1][1] = u
    BY <2>3, <2>10
  <2>12. ~broken' => Len(sent') = Len(q) + (IF Underway' = {} THEN 0 ELSE 1)
    BY <1>7, <2>4, <2>5, <2>9
  <2>13. ~broken' /\ buffer'[out'] # <<>> => place'[out'] = "flush"
    BY <2>5, <2>6
  <2>14. QED
    BY <1>7, <2>8, <2>11, <2>12, <2>13 DEF InTurn
<1>12. QED
  BY <1>3, <1>4, <1>5, <1>9, <1>10, <1>11 DEF DownInv

(* A thread makes a stream of its own: what the last one held is lost.     *)
LEMMA DownSendNew ==
    ASSUME DownInv, NEW t \in Thread, SendNew(t)
    PROVE  DownInv'
<1>1. DownTypes /\ CalledInOrder
  BY DEF DownInv
<1>2. /\ place[t] = "new" /\ place' = [place EXCEPT ![t] = "write"] /\ out' = t
      /\ buffer' = [buffer EXCEPT ![t] = <<>>]
      /\ UNCHANGED <<down, broken, processed, sent, overlapped, frame, got>>
  BY DEF SendNew, socket, input, reader
<1>3. CalledInOrder'
  <2>1. \A u \in Thread : place'[u] # "idle" => place[u] # "idle"
    BY <1>1, <1>2 DEF DownTypes
  <2>2. QED
    BY <1>1, <1>2, <2>1, CalledKept
<1>4. PICK none : /\ none = <<>> /\ none \in Seq(Byte) /\ Len(none) = 0
  <2>1. <<>> \in Seq(Byte) /\ Len(<<>>) = 0
    OBVIOUS
  <2>2. QED
    BY <2>1
<1>5. /\ buffer' \in [Thread -> Seq(Byte)] /\ buffer'[out'] = none
      /\ place' \in [Thread -> {"idle", "new", "write", "flush"}]
      /\ place'[t] = "write" /\ \A u \in Thread : u # t => place'[u] = place[u]
  BY <1>1, <1>2, <1>4 DEF DownTypes
<1>6. DownTypes'
  BY <1>1, <1>2, <1>5 DEF DownTypes
<1>7. PICK q \in Seq(Messages) :
        OnTheWay(q) /\ OneAfterTheOther(q) /\ (~overlapped => InTurn(q))
  BY DEF DownInv
<1>8. PICK k \in Nat, f \in Nat, d \in Nat, g \in Nat, a \in Nat :
        /\ k = Skipped /\ f = Len(frame) /\ d = Len(down) /\ g = Len(got) /\ a = Len(q)
        /\ g = 0 \/ k = 4 * g - 1
  <2>1. Len(q) \in Nat
    OBVIOUS
  <2>2. QED
    BY <1>1, <2>1, SkippedCounted
<1>9. k + f + d <= 4 * a /\ g <= a
  BY <1>7, <1>8 DEF OnTheWay
<1>10. PICK l \in 0..a : /\ k + f + d <= 4 * l /\ (~broken => k + f + d = 4 * l)
                         /\ buffer[out] = <<>> => l = a
  <2>1. CASE broken
    BY <1>9, <2>1
  <2>2. CASE ~broken
    <3>1. PICK b \in 0..a : Len(buffer[out]) = 4 * b /\ k + f + d + 4 * b = 4 * a
      BY <1>7, <1>8, <2>2 DEF OnTheWay
    <3>2. a - b \in 0..a /\ k + f + d = 4 * (a - b)
      BY <3>1
    <3>3. buffer[out] = <<>> => a - b = a
      <4>1. buffer[out] = <<>> => Len(buffer[out]) = 0
        BY <1>4
      <4>2. 4 * b = 0 => a - b = a
        BY <3>1
      <4>3. QED
        BY <3>1, <4>1, <4>2
    <3>4. k + f + d <= 4 * (a - b)
      BY <3>2
    <3>5. QED
      BY <3>2, <3>3, <3>4
  <2>3. QED
    BY <2>1, <2>2
<1>11. PICK r \in Seq(Messages) : Len(r) = l /\ \A n \in 1..l : r[n] = q[n]
  <2>1. l \in Nat /\ l <= Len(q)
    BY <1>8
  <2>2. /\ SubSeq(q, 1, l) \in Seq(Messages) /\ Len(SubSeq(q, 1, l)) = l
        /\ \A n \in 1..l : SubSeq(q, 1, l)[n] = q[n]
    BY <2>1
  <2>3. QED
    BY <2>2
<1>12. l \in Nat /\ l <= a /\ \A n \in 1..l : n \in 1..a
  OBVIOUS
<1>13. OnTheWay(r)'
  <2>1. Skipped' = k
    BY <1>2, <1>8 DEF Skipped
  <2>2. g <= l
    <3>1. (g = 0 \/ k = 4 * g - 1) /\ k + f + d <= 4 * l /\ l \in Nat
      BY <1>8, <1>10
    <3>2. QED
      BY <3>1
  <2>3. \A n \in 1..g : got[n] = r[n]
    <3>1. \A n \in 1..g : n \in 1..l /\ got[n] = q[n]
      BY SMTT(30), <1>7, <1>8, <2>2 DEF OnTheWay
    <3>2. QED
      BY <1>11, <3>1
  <2>4. frame \in Seq(Byte) /\ down \in Seq(Byte)
    BY <1>1 DEF DownTypes
  <2>5. Spells(frame, k, Encoded(r), 4)
    <3>1. Spells(frame, k, Encoded(q), 4) /\ k + Len(frame) <= 4 * l
      BY SMTT(30), <1>7, <1>8, <1>10 DEF OnTheWay
    <3>2. l <= Len(q) /\ l <= Len(r)
      BY <1>8, <1>11, <1>12
    <3>3. QED
      BY <1>11, <1>12, <2>4, <3>1, <3>2, SpellsPart
  <2>6. Spells(down, k + f, Encoded(r), 4)
    <3>1. Spells(down, k + f, Encoded(q), 4) /\ (k + f) + Len(down) <= 4 * l /\ k + f \in Nat
      BY <1>7, <1>8, <1>10 DEF OnTheWay
    <3>2. l <= Len(q) /\ l <= Len(r)
      BY <1>8, <1>11, <1>12
    <3>3. QED
      BY <1>11, <1>12, <2>4, <3>1, <3>2, SpellsPart
  <2>7. \A i \in 1..Len(frame) : frame[i] # NUL
    BY <1>7 DEF OnTheWay
  <2>8. Spells(none, k + f + d, Encoded(r), 4)
    BY <1>4, SpellsNone
  <2>9. ~broken => \E b \in 0..l : Len(none) = 4 * b /\ k + f + d + 4 * b = 4 * l
    <3>1. 0 \in 0..l /\ Len(none) = 4 * 0
      BY <1>4
    <3>2. ~broken => k + f + d + 4 * 0 = 4 * l
      BY <1>10
    <3>3. QED
      BY <3>1, <3>2
  <2>10. QED
    BY <1>2, <1>5, <1>8, <1>10, <1>11, <2>1, <2>2, <2>3, <2>5, <2>6, <2>7, <2>8, <2>9 DEF OnTheWay
<1>14. OneAfterTheOther(r)'
  <2>1. \A u : Called(u)' = Called(u)
    BY <1>2 DEF Called
  <2>2. \A u \in Thread : place'[u] \in {"new", "write"} => place[u] \in {"new", "write"}
    BY <1>2, <1>5
  <2>3. /\ \A n \in 1..a : \E i \in 1..Len(sent) : q[n] = sent[i]
        /\ \A n, h \in 1..a : n < h /\ q[n][1][1] = q[h][1][1] => q[n][1][2] < q[h][1][2]
        /\ \A u \in Thread, n \in 1..a :
              place[u] \in {"new", "write"} /\ q[n][1][1] = u => q[n][1][2] < Called(u)
    BY <1>7, <1>8 DEF OneAfterTheOther
  <2>4. \A n \in 1..l : \E i \in 1..Len(sent') : r[n] = sent'[i]
    BY ZenonT(60), <1>2, <1>11, <1>12, <2>3
  <2>5. ASSUME NEW n \in 1..l, NEW h \in 1..l, n < h, r[n][1][1] = r[h][1][1]
        PROVE  r[n][1][2] < r[h][1][2]
    <3>1. n \in 1..a /\ h \in 1..a /\ r[n] = q[n] /\ r[h] = q[h]
      BY <1>11, <1>12
    <3>2. QED
      BY <2>3, <2>5, <3>1
  <2>6. \A u \in Thread, n \in 1..l :
           place'[u] \in {"new", "write"} /\ r[n][1][1] = u => r[n][1][2] < Called(u)'
    BY <1>11, <1>12, <2>1, <2>2, <2>3
  <2>7. QED
    BY <1>11, <2>4, <2>5, <2>6 DEF OneAfterTheOther
<1>15. ASSUME ~overlapped' PROVE InTurn(r)'
  <2>1. InTurn(q)
    BY <1>2, <1>7, <1>15
  <2>2. \A u \in Thread : u # t => place[u] = "idle"
    BY <1>2, <2>1 DEF InTurn
  <2>3. ~broken => buffer[out] = <<>>
    BY <1>1, <1>2, <2>1, <2>2 DEF InTurn, DownTypes
  <2>4. ~broken => l = a
    BY <1>10, <2>3
  <2>5. /\ \A u, v \in Thread : u # v => place'[u] = "idle" \/ place'[v] = "idle"
        /\ \A u \in Thread : place'[u] \in {"write", "flush"} => out' = u
    BY <1>2, <1>5, <2>2
  <2>6. \A u \in Thread : place'[u] # "idle" => sent' # <<>> /\ sent'[Len(sent')][1][1] = u
    BY <1>2, <1>5, <2>1, <2>2 DEF InTurn
  <2>7. ~broken' /\ buffer'[out'] # <<>> => place'[out'] = "flush"
    BY <1>4, <1>5
  <2>8. l <= Len(sent) /\ \A n \in 1..l : r[n] = sent[n]
    <3>1. a <= Len(sent) /\ \A n \in 1..a : q[n] = sent[n]
      BY <1>8, <2>1 DEF InTurn
    <3>2. Len(sent) \in Nat
      BY <1>1 DEF CalledInOrder
    <3>3. l <= Len(sent)
      BY <1>12, <3>1, <3>2
    <3>4. QED
      BY <1>11, <1>12, <3>1, <3>3
  <2>9. t \in Underway /\ t \in Underway'
    BY <1>2, <1>5 DEF Underway
  <2>10. ~broken => Len(sent) = a + 1
    BY <1>8, <2>1, <2>9 DEF InTurn
  <2>11. ~broken' => Len(sent') = l + (IF Underway' = {} THEN 0 ELSE 1)
    BY <1>2, <2>4, <2>9, <2>10
  <2>12. QED
    BY <1>2, <1>11, <2>5, <2>6, <2>7, <2>8, <2>11 DEF InTurn
<1>16. QED
  BY <1>2, <1>3, <1>6, <1>13, <1>14, <1>15 DEF DownInv

(* A thread puts its message into the stream that out refers to.           *)
LEMMA DownSendWrite ==
    ASSUME DownInv, NEW t \in Thread, SendWrite(t)
    PROVE  DownInv'
<1>1. DownTypes /\ CalledInOrder
  BY DEF DownInv
<1>2. /\ place[t] = "write" /\ place' = [place EXCEPT ![t] = "flush"]
      /\ buffer' = [buffer EXCEPT ![out] = @ \o Encode(LastOf(t))]
      /\ UNCHANGED <<down, broken, processed, out, sent, overlapped, frame, got>>
  BY DEF SendWrite, socket, input, reader
<1>3. CalledInOrder'
  <2>1. \A u \in Thread : place'[u] # "idle" => place[u] # "idle"
    BY <1>1, <1>2 DEF DownTypes
  <2>2. QED
    BY <1>1, <1>2, <2>1, CalledKept
<1>4. PICK i \in 1..Len(sent) :
        /\ LastOf(t) = sent[i] /\ sent[i] \in Messages
        /\ sent[i][1][1] = t /\ sent[i][1][2] = Called(t)
        /\ \A j \in 1..Len(sent) : j > i => sent[j][1][1] # t
  BY <1>1, <1>2, LastCalled
<1>5. PICK m \in Messages : m = sent[i] /\ m = LastOf(t) /\ m[1][1] = t /\ m[1][2] = Called(t)
  BY <1>4
<1>6. PICK e, c \in Seq(Byte) : e = Encode(m) /\ e \in Seq(Byte) /\ Len(e) = 4 /\ c = buffer[out]
  BY <1>1, EncodedByte DEF DownTypes
<1>7. /\ c \o e \in Seq(Byte) /\ Len(c \o e) = Len(c) + 4 /\ Len(c) \in Nat
  <2>1. c \o e \in Seq(Byte) /\ Len(c \o e) = Len(c) + Len(e) /\ Len(c) \in Nat
    OBVIOUS
  <2>2. Len(e) = 4
    BY <1>6
  <2>3. QED
    BY <2>1, <2>2
<1>8. /\ buffer' \in [Thread -> Seq(Byte)] /\ buffer'[out] = c \o e
      /\ place' \in [Thread -> {"idle", "new", "write", "flush"}]
      /\ place'[t] = "flush" /\ \A u \in Thread : u # t => place'[u] = place[u]
  <2>1. buffer' = [buffer EXCEPT ![out] = c \o e]
    BY <1>2, <1>5, <1>6
  <2>2. QED
    BY <1>1, <1>2, <1>7, <2>1 DEF DownTypes
<1>9. DownTypes'
  BY <1>1, <1>2, <1>8 DEF DownTypes
<1>10. PICK q \in Seq(Messages) :
        OnTheWay(q) /\ OneAfterTheOther(q) /\ (~overlapped => InTurn(q))
  BY DEF DownInv
<1>11. PICK k \in Nat, f \in Nat, d \in Nat, g \in Nat, a \in Nat :
        k = Skipped /\ f = Len(frame) /\ d = Len(down) /\ g = Len(got) /\ a = Len(q)
  <2>1. Len(q) \in Nat
    OBVIOUS
  <2>2. QED
    BY <1>1, <2>1, SkippedCounted
<1>12. Skipped' = k
  BY <1>2, <1>11 DEF Skipped
<1>13. /\ \A u : Called(u)' = Called(u)
       /\ \A u \in Thread : place'[u] \in {"new", "write"} => u # t /\ place[u] \in {"new", "write"}
  <2>1. \A u : Called(u)' = Called(u)
    BY <1>2 DEF Called
  <2>2. QED
    BY <1>8, <2>1
<1>14. ASSUME ~overlapped
       PROVE  /\ InTurn(q)
              /\ \A u \in Thread : u # t => place[u] = "idle" /\ place'[u] = "idle"
              /\ out = t
  <2>1. InTurn(q)
    BY <1>10, <1>14
  <2>2. QED
    BY <1>2, <1>8, <2>1 DEF InTurn
<1>15. CASE broken
  <2>1. OnTheWay(q)'
    BY <1>2, <1>10, <1>11, <1>12, <1>15 DEF OnTheWay
  <2>2. OneAfterTheOther(q)'
    BY <1>2, <1>10, <1>13 DEF OneAfterTheOther
  <2>3. ASSUME ~overlapped' PROVE InTurn(q)'
    <3>1. InTurn(q) /\ out = t /\ \A u \in Thread : u # t => place'[u] = "idle"
      BY <1>2, <1>14, <2>3
    <3>2. sent # <<>> /\ sent[Len(sent)][1][1] = t
      BY <1>2, <3>1 DEF InTurn
    <3>3. /\ \A u, v \in Thread : u # v => place'[u] = "idle" \/ place'[v] = "idle"
          /\ \A u \in Thread : place'[u] \in {"write", "flush"} => out' = u
          /\ \A u \in Thread : place'[u] # "idle" => sent' # <<>> /\ sent'[Len(sent')][1][1] = u
      BY <1>2, <3>1, <3>2
    <3>4. Len(q) <= Len(sent') /\ \A n \in 1..Len(q) : q[n] = sent'[n]
      BY <1>2, <3>1 DEF InTurn
    <3>5. QED
      BY <1>2, <1>15, <3>3, <3>4 DEF InTurn
  <2>4. QED
    BY <1>3, <1>9, <2>1, <2>2, <2>3 DEF DownInv
<1>16. CASE ~broken
  <2>1. PICK r \in Seq(Messages) : /\ r = Append(q, m) /\ Len(r) = a + 1 /\ r[a + 1] = m
                                   /\ \A n \in 1..a : r[n] = q[n]
    <3>1. /\ Append(q, m) \in Seq(Messages) /\ Len(Append(q, m)) = a + 1
          /\ Append(q, m)[a + 1] = m /\ \A n \in 1..a : Append(q, m)[n] = q[n]
      BY <1>11, AtTheEnd
    <3>2. QED
      BY <3>1
  <2>2. PICK b \in 0..a : Len(c) = 4 * b /\ k + f + d + 4 * b = 4 * a
    BY <1>6, <1>10, <1>11, <1>16 DEF OnTheWay
  <2>3. /\ Spells(frame, k, Encoded(q), 4) /\ Spells(down, k + f, Encoded(q), 4)
        /\ Spells(c, k + f + d, Encoded(q), 4)
        /\ g <= a /\ \A n \in 1..g : got[n] = q[n]
        /\ \A h \in 1..f : frame[h] # NUL
    BY <1>6, <1>10, <1>11, <1>16 DEF OnTheWay
  <2>4. frame \in Seq(Byte) /\ down \in Seq(Byte)
    BY <1>1 DEF DownTypes
  <2>5. a <= Len(q) /\ a <= Len(r)
    BY <1>11, <2>1
  <2>6. Spells(frame, k, Encoded(r), 4)
    <3>1. k + Len(frame) <= 4 * a
      BY <1>11, <2>2
    <3>2. QED
      BY <2>1, <2>3, <2>4, <2>5, <3>1, SpellsPart
  <2>7. Spells(down, k + f, Encoded(r), 4)
    <3>1. k + f \in Nat /\ (k + f) + Len(down) <= 4 * a
      <4>1. k + f \in Nat /\ (k + f) + d <= 4 * a
        BY <2>2
      <4>2. QED
        BY <1>11, <4>1
    <3>2. QED
      BY <2>1, <2>3, <2>4, <2>5, <3>1, SpellsPart
  <2>8. Spells(c \o e, k + f + d, Encoded(r), 4)
    <3>1. PICK from \in Nat : from = k + f + d
      OBVIOUS
    <3>2. from + Len(c) = 4 * a /\ from + Len(c) <= 4 * a
      BY <2>2, <3>1
    <3>3. Spells(c, from, Encoded(r), 4)
      BY <1>6, <2>1, <2>3, <2>5, <3>1, <3>2, SpellsPart
    <3>4. Spells(e, from + Len(c), Encoded(r), 4)
      BY <1>6, <1>11, <2>1, <3>2, SpellsMessage
    <3>5. Spells(c \o e, from, Encoded(r), 4)
      BY <1>6, <3>3, <3>4, SpellsJoined
    <3>6. QED
      BY <3>1, <3>5
  <2>9. OnTheWay(r)'
    <3>1. g <= a + 1 /\ \A n \in 1..g : got[n] = r[n]
      <4>1. g <= a + 1 /\ \A n \in 1..g : n \in 1..a
        BY <2>3
      <4>2. \A n \in 1..g : got[n] = r[n]
        BY <2>1, <2>3, <4>1
      <4>3. QED
        BY <4>1, <4>2
    <3>2. b + 1 \in 0..a + 1 /\ Len(c \o e) = 4 * (b + 1) /\ k + f + d + 4 * (b + 1) = 4 * (a + 1)
      BY <1>7, <2>2
    <3>3. k + f + d <= 4 * (a + 1)
      BY <2>2
    <3>4. /\ Len(got') = g /\ Len(frame') = f /\ Len(down') = d /\ buffer'[out'] = c \o e
          /\ Len(r) = a + 1
      BY <1>2, <1>8, <1>11, <2>1
    <3>5. \E h \in 0..Len(r) : /\ Len(buffer'[out']) = 4 * h
                               /\ Skipped' + Len(frame') + Len(down') + 4 * h = 4 * Len(r)
      BY <1>12, <3>2, <3>4
    <3>6. /\ Len(got') <= Len(r) /\ \A n \in 1..Len(got') : got'[n] = r[n]
          /\ \A h \in 1..Len(frame') : frame'[h] # NUL
          /\ Skipped' + Len(frame') + Len(down') <= 4 * Len(r)
      BY <1>2, <1>12, <2>3, <3>1, <3>3, <3>4
    <3>7. /\ Spells(frame', Skipped', Encoded(r), 4)
          /\ Spells(down', Skipped' + Len(frame'), Encoded(r), 4)
          /\ Spells(buffer'[out'], Skipped' + Len(frame') + Len(down'), Encoded(r), 4)
      BY <1>2, <1>12, <2>6, <2>7, <2>8, <3>4
    <3>8. QED
      BY <3>5, <3>6, <3>7 DEF OnTheWay
  <2>10. OneAfterTheOther(r)'
    <3>1. /\ \A n \in 1..a : \E h \in 1..Len(sent) : q[n] = sent[h]
          /\ \A n, h \in 1..a : n < h /\ q[n][1][1] = q[h][1][1] => q[n][1][2] < q[h][1][2]
          /\ \A u \in Thread, n \in 1..a :
                place[u] \in {"new", "write"} /\ q[n][1][1] = u => q[n][1][2] < Called(u)
      BY <1>10, <1>11 DEF OneAfterTheOther
    <3>2. \A n \in 1..a + 1 : n \in 1..a \/ n = a + 1
      OBVIOUS
    <3>3. ASSUME NEW n \in 1..a + 1 PROVE \E h \in 1..Len(sent') : r[n] = sent'[h]
      <4>1. CASE n \in 1..a
        BY <1>2, <2>1, <3>1, <4>1
      <4>2. CASE n = a + 1
        BY <1>2, <1>5, <2>1, <4>2
      <4>3. QED
        BY <3>2, <4>1, <4>2
    <3>4. ASSUME NEW n \in 1..a + 1, NEW h \in 1..a + 1, n < h, r[n][1][1] = r[h][1][1]
          PROVE  r[n][1][2] < r[h][1][2]
      <4>1. n \in 1..a /\ r[n] = q[n]
        BY <2>1, <3>4
      <4>2. CASE h \in 1..a
        BY <2>1, <3>1, <3>4, <4>1, <4>2
      <4>3. CASE h = a + 1
        BY SMTT(30), <1>2, <1>5, <2>1, <3>1, <3>4, <4>1, <4>3
      <4>4. QED
        BY <3>2, <4>2, <4>3
    <3>5. ASSUME NEW u \in Thread, NEW n \in 1..a + 1, place'[u] \in {"new", "write"}, r[n][1][1] = u
          PROVE  r[n][1][2] < Called(u)'
      <4>1. u # t /\ place[u] \in {"new", "write"} /\ Called(u)' = Called(u)
        BY <1>13, <3>5
      <4>2. n \in 1..a /\ r[n] = q[n]
        BY <1>5, <2>1, <3>2, <3>5, <4>1
      <4>3. QED
        BY <3>1, <3>5, <4>1, <4>2
    <3>6. QED
      BY <2>1, <3>3, <3>4, <3>5 DEF OneAfterTheOther
  <2>11. ASSUME ~overlapped' PROVE InTurn(r)'
    <3>1. /\ InTurn(q) /\ out = t
          /\ \A u \in Thread : u # t => place[u] = "idle" /\ place'[u] = "idle"
      BY <1>2, <1>14, <2>11
    <3>2. PICK s \in Nat : s = Len(sent) /\ sent[s][1][1] = t /\ sent # <<>>
      <4>1. Len(sent) \in Nat
        BY <1>1 DEF CalledInOrder
      <4>2. sent[Len(sent)][1][1] = t /\ sent # <<>>
        BY <1>2, <3>1 DEF InTurn
      <4>3. QED
        BY <4>1, <4>2
    <3>3. t \in Underway /\ Underway' = {}
      BY <1>2, <1>8, <3>1 DEF Underway
    <3>4. s = a + 1 /\ \A n \in 1..a : q[n] = sent[n]
      BY <1>11, <1>16, <3>1, <3>2, <3>3 DEF InTurn
    <3>5. i = s
      <4>1. i \in 1..s /\ (s > i => sent[s][1][1] # t)
        <5>1. s \in 1..s
          BY <3>4
        <5>2. i \in 1..s /\ \A j \in 1..s : j > i => sent[j][1][1] # t
          BY <1>4, <3>2
        <5>3. QED
          BY <5>1, <5>2
      <4>2. QED
        BY <3>2, <4>1
    <3>6. \A n \in 1..a + 1 : r[n] = sent'[n]
      <4>1. r[a + 1] = sent[a + 1]
        BY <1>5, <2>1, <3>4, <3>5
      <4>2. \A n \in 1..a + 1 : n \in 1..a \/ n = a + 1
        OBVIOUS
      <4>3. QED
        BY <1>2, <2>1, <3>4, <4>1, <4>2
    <3>7. /\ \A u, v \in Thread : u # v => place'[u] = "idle" \/ place'[v] = "idle"
          /\ \A u \in Thread : place'[u] \in {"write", "flush"} => out' = u
          /\ \A u \in Thread : place'[u] # "idle" => sent' # <<>> /\ sent'[Len(sent')][1][1] = u
      BY <1>2, <3>1, <3>2
    <3>8. ~broken' /\ buffer'[out'] # <<>> => place'[out'] = "flush"
      BY <1>2, <1>8, <3>1
    <3>9. ~broken' => Len(sent') = Len(r) + (IF Underway' = {} THEN 0 ELSE 1)
      BY <1>2, <2>1, <3>2, <3>3, <3>4
    <3>10. Len(r) <= Len(sent') /\ \A n \in 1..Len(r) : r[n] = sent'[n]
      BY SMTT(30), <1>2, <2>1, <3>2, <3>4, <3>6
    <3>11. QED
      BY <3>7, <3>8, <3>9, <3>10 DEF InTurn
  <2>12. QED
    BY <1>3, <1>9, <2>9, <2>10, <2>11 DEF DownInv
<1>17. QED
  BY <1>15, <1>16

(* A thread gives what the stream that out refers to holds to the socket.  *)
LEMMA DownSendFlush ==
    ASSUME DownInv, NEW t \in Thread, SendFlush(t)
    PROVE  DownInv'
<1>1. DownTypes /\ CalledInOrder
  BY DEF DownInv
<1>2. /\ place[t] = "flush" /\ place' = [place EXCEPT ![t] = "idle"]
      /\ \/ broken /\ UNCHANGED <<down, buffer>>
         \/ /\ ~broken /\ down' = down \o buffer[out]
            /\ buffer' = [buffer EXCEPT ![out] = <<>>]
      /\ UNCHANGED <<broken, processed, out, sent, overlapped, frame, got>>
  BY DEF SendFlush, input, reader
<1>3. CalledInOrder'
  <2>1. \A u \in Thread : place'[u] # "idle" => place[u] # "idle"
    BY <1>1, <1>2 DEF DownTypes
  <2>2. QED
    BY <1>1, <1>2, <2>1, CalledKept
<1>4. PICK none : /\ none = <<>> /\ none \in Seq(Byte) /\ Len(none) = 0
  <2>1. <<>> \in Seq(Byte) /\ Len(<<>>) = 0
    OBVIOUS
  <2>2. QED
    BY <2>1
<1>5. PICK c \in Seq(Byte), w \in Seq(Byte) : c = buffer[out] /\ w = down
  BY <1>1 DEF DownTypes
<1>6. /\ place' \in [Thread -> {"idle", "new", "write", "flush"}]
      /\ place'[t] = "idle" /\ \A u \in Thread : u # t => place'[u] = place[u]
  BY <1>1, <1>2 DEF DownTypes
<1>7. w \o c \in Seq(Byte) /\ Len(w \o c) = Len(w) + Len(c)
  OBVIOUS
<1>8. ~broken => /\ down' = w \o c /\ buffer' \in [Thread -> Seq(Byte)] /\ buffer'[out] = none
  BY <1>1, <1>2, <1>4, <1>5 DEF DownTypes
<1>9. DownTypes'
  BY <1>1, <1>2, <1>6, <1>7, <1>8 DEF DownTypes
<1>10. PICK q \in Seq(Messages) :
        OnTheWay(q) /\ OneAfterTheOther(q) /\ (~overlapped => InTurn(q))
  BY DEF DownInv
<1>11. PICK k \in Nat, f \in Nat, d \in Nat, g \in Nat, a \in Nat :
        k = Skipped /\ f = Len(frame) /\ d = Len(w) /\ g = Len(got) /\ a = Len(q)
  <2>1. Len(q) \in Nat /\ Len(w) \in Nat
    OBVIOUS
  <2>2. QED
    BY <1>1, <2>1, SkippedCounted
<1>12. Skipped' = k
  BY <1>2, <1>11 DEF Skipped
<1>13. OnTheWay(q)'
  <2>1. CASE broken
    BY <1>2, <1>10, <1>11, <1>12, <2>1 DEF OnTheWay
  <2>2. CASE ~broken
    <3>1. PICK b \in 0..a : Len(c) = 4 * b /\ k + f + d + 4 * b = 4 * a
      BY <1>5, <1>10, <1>11, <2>2 DEF OnTheWay
    <3>2. Spells(w, k + f, Encoded(q), 4) /\ Spells(c, k + f + d, Encoded(q), 4)
      BY <1>5, <1>10, <1>11, <2>2 DEF OnTheWay
    <3>3. Spells(w \o c, k + f, Encoded(q), 4)
      <4>1. PICK from \in Nat : from = k + f
        OBVIOUS
      <4>2. Spells(w, from, Encoded(q), 4) /\ Spells(c, from + Len(w), Encoded(q), 4)
        BY <1>11, <3>2, <4>1
      <4>3. QED
        BY <4>1, <4>2, SpellsJoined
    <3>4. Len(w \o c) = d + 4 * b /\ k + f + (d + 4 * b) = 4 * a
      BY <1>7, <1>11, <3>1
    <3>5. /\ Len(down') = d + 4 * b /\ Len(frame') = f /\ buffer'[out'] = none
          /\ Spells(down', Skipped' + Len(frame'), Encoded(q), 4)
      BY <1>2, <1>8, <1>11, <1>12, <2>2, <3>3, <3>4
    <3>6. Spells(buffer'[out'], Skipped' + Len(frame') + Len(down'), Encoded(q), 4)
      BY <1>4, <3>5, SpellsNone
    <3>7. \E h \in 0..Len(q) : /\ Len(buffer'[out']) = 4 * h
                               /\ Skipped' + Len(frame') + Len(down') + 4 * h = 4 * Len(q)
      <4>1. 0 \in 0..a /\ 0 = 4 * 0 /\ k + f + (d + 4 * b) + 4 * 0 = 4 * a
        BY <3>4
      <4>2. QED
        BY <1>4, <1>11, <1>12, <3>5, <4>1
    <3>8. Skipped' + Len(frame') + Len(down') <= 4 * Len(q)
      <4>1. k + f + (d + 4 * b) <= 4 * a
        BY <3>4
      <4>2. QED
        BY <1>11, <1>12, <3>5, <4>1
    <3>9. /\ Len(got') <= Len(q) /\ \A n \in 1..Len(got') : got'[n] = q[n]
          /\ Spells(frame', Skipped', Encoded(q), 4)
          /\ \A h \in 1..Len(frame') : frame'[h] # NUL
      BY <1>2, <1>10, <1>11, <1>12 DEF OnTheWay
    <3>10. QED
      BY <3>5, <3>6, <3>7, <3>8, <3>9 DEF OnTheWay
  <2>3. QED
    BY <2>1, <2>2
<1>14. OneAfterTheOther(q)'
  <2>1. \A u : Called(u)' = Called(u)
    BY <1>2 DEF Called
  <2>2. \A u \in Thread : place'[u] \in {"new", "write"} => place[u] \in {"new", "write"}
    BY <1>6
  <2>3. QED
    BY <1>2, <1>10, <2>1, <2>2 DEF OneAfterTheOther
<1>15. ASSUME ~overlapped' PROVE InTurn(q)'
  <2>1. InTurn(q)
    BY <1>2, <1>10, <1>15
  <2>2. out = t /\ \A u \in Thread : u # t => place[u] = "idle"
    BY <1>2, <2>1 DEF InTurn
  <2>3. \A u \in Thread : place'[u] = "idle"
    BY <1>6, <2>2
  <2>4. Underway = {} /\ Underway' = {}
    BY <1>2, <2>2, <2>3 DEF Underway
  <2>5. ~broken' /\ buffer'[out'] # <<>> => place'[out'] = "flush"
    BY <1>2, <1>4, <1>8
  <2>6. /\ Len(q) <= Len(sent') /\ \A n \in 1..Len(q) : q[n] = sent'[n]
        /\ ~broken' => Len(sent') = Len(q) + (IF Underway' = {} THEN 0 ELSE 1)
    BY <1>2, <2>1, <2>4 DEF InTurn
  <2>7. QED
    BY <2>3, <2>5, <2>6 DEF InTurn
<1>16. QED
  BY <1>3, <1>9, <1>10, <1>13, <1>14, <1>15 DEF DownInv

(* The byte at the front of the socket moves to the frame.                 *)
LEMMA DownGetByte == DownInv /\ GetByte => DownInv'
<1> SUFFICES ASSUME DownInv, GetByte PROVE DownInv'
  OBVIOUS
<1>1. DownTypes /\ CalledInOrder
  BY DEF DownInv
<1>2. /\ down # <<>> /\ down[1] # NUL /\ down' = Tail(down) /\ frame' = Append(frame, down[1])
      /\ UNCHANGED <<broken, processed, place, out, buffer, sent, overlapped, got>>
  BY DEF GetByte, input, output
<1>3. CalledInOrder'
  BY <1>1, <1>2, CalledKept
<1>4. PICK q \in Seq(Messages) :
        OnTheWay(q) /\ OneAfterTheOther(q) /\ (~overlapped => InTurn(q))
  BY DEF DownInv
<1>5. PICK s \in Seq(Byte), w \in Seq(Byte) : s = frame /\ w = down
  BY <1>1 DEF DownTypes
<1>6. PICK k \in Nat, f \in Nat, d \in Nat, a \in Nat :
        k = Skipped /\ f = Len(s) /\ d = Len(w) /\ a = Len(q)
  <2>1. Len(q) \in Nat /\ Len(w) \in Nat /\ Len(s) \in Nat
    OBVIOUS
  <2>2. QED
    BY <1>1, <2>1, SkippedCounted
<1>7. /\ Spells(s, k, Encoded(q), 4) /\ Spells(w, k + Len(s), Encoded(q), 4)
      /\ \A i \in 1..f : s[i] # NUL
      /\ k + f + d <= 4 * a
  BY <1>4, <1>5, <1>6 DEF OnTheWay
<1>8. w # <<>> /\ w[1] # NUL /\ down' = Tail(w) /\ frame' = Append(s, w[1])
  BY <1>2, <1>5
<1>9. /\ Append(s, w[1]) \in Seq(Byte) /\ Len(Append(s, w[1])) = Len(s) + 1
      /\ Spells(Append(s, w[1]), k, Encoded(q), 4)
  BY <1>7, <1>8, SpellsMore
<1>10. /\ w[1] \in Byte /\ Tail(w) \in Seq(Byte) /\ Len(w) > 0 /\ Len(Tail(w)) = Len(w) - 1
       /\ Spells(Tail(w), (k + Len(s)) + 1, Encoded(q), 4)
  <2>1. PICK from \in Nat : from = k + Len(s)
    OBVIOUS
  <2>2. Spells(w, from, Encoded(q), 4)
    BY <1>7, <2>1
  <2>3. /\ w[1] \in Byte /\ Tail(w) \in Seq(Byte) /\ Len(w) > 0 /\ Len(Tail(w)) = Len(w) - 1
        /\ Spells(Tail(w), from + 1, Encoded(q), 4)
    BY <1>8, <2>2, SpellsTail
  <2>4. QED
    BY <2>1, <2>3
<1>11. /\ Append(s, w[1])[f + 1] = w[1] /\ \A i \in 1..f : Append(s, w[1])[i] = s[i]
  BY <1>6, <1>10, AtTheEnd
<1>12. DownTypes'
  BY <1>1, <1>2, <1>8, <1>9, <1>10 DEF DownTypes
<1>13. Skipped' = k /\ Underway' = Underway
  BY <1>2, <1>6 DEF Skipped, Underway
<1>14. OnTheWay(q)'
  <2>1. Len(frame') = f + 1 /\ Len(down') = d - 1 /\ d > 0
    BY <1>6, <1>8, <1>9, <1>10
  <2>2. k + (f + 1) + (d - 1) = k + f + d /\ (k + f) + 1 = k + (f + 1)
    OBVIOUS
  <2>3. Skipped' + Len(frame') + Len(down') = k + f + d /\ Skipped' + Len(frame') = (k + f) + 1
    BY <1>13, <2>1, <2>2
  <2>4. Spells(frame', Skipped', Encoded(q), 4) /\ Spells(down', Skipped' + Len(frame'), Encoded(q), 4)
    BY <1>6, <1>8, <1>9, <1>10, <1>13, <2>3
  <2>5. \A i \in 1..Len(frame') : frame'[i] # NUL
    <3>1. \A i \in 1..f + 1 : i \in 1..f \/ i = f + 1
      OBVIOUS
    <3>2. QED
      BY <1>7, <1>8, <1>11, <2>1, <3>1
  <2>6. /\ Len(got') <= Len(q) /\ \A n \in 1..Len(got') : got'[n] = q[n]
        /\ ~broken' =>
              /\ Spells(buffer'[out'], k + f + d, Encoded(q), 4)
              /\ \E b \in 0..Len(q) : /\ Len(buffer'[out']) = 4 * b
                                      /\ k + f + d + 4 * b = 4 * Len(q)
    BY <1>2, <1>4, <1>5, <1>6 DEF OnTheWay
  <2>7. Skipped' + Len(frame') + Len(down') <= 4 * Len(q)
    BY <1>6, <1>7, <2>3
  <2>8. QED
    BY <2>3, <2>4, <2>5, <2>6, <2>7 DEF OnTheWay
<1>15. OneAfterTheOther(q)'
  <2>1. \A u : Called(u)' = Called(u)
    BY <1>2 DEF Called
  <2>2. QED
    BY <1>2, <1>4, <2>1 DEF OneAfterTheOther
<1>16. ~overlapped' => InTurn(q)'
  BY <1>2, <1>4, <1>13 DEF InTurn
<1>17. QED
  BY <1>3, <1>12, <1>14, <1>15, <1>16 DEF DownInv

(* Where the NULs are.                                                     *)
LEMMA NoneInside ==
    ASSUME DownTypes, NEW q \in Seq(Messages), OnTheWay(q), NEW n \in 1..Len(q),
           NEW i \in 1..Len(frame)
    PROVE  Skipped + i # 4 * (n - 1) + 3
<1> SUFFICES ASSUME Skipped + i = 4 * (n - 1) + 3 PROVE FALSE
  OBVIOUS
<1>1. PICK k \in Nat : k = Skipped
  BY SkippedCounted
<1>2. frame \in Seq(Byte) /\ Spells(frame, k, Encoded(q), 4) /\ frame[i] # NUL
  BY <1>1 DEF OnTheWay, DownTypes
<1>3. PICK j \in 1..4 : j = 3
  OBVIOUS
<1>4. k + i = 4 * (n - 1) + j
  BY <1>1, <1>3
<1>5. \A h \in 1..Len(frame), m \in 1..Len(q), l \in 1..4 :
         k + h = 4 * (m - 1) + l => frame[h] = Encode(q[m])[l]
  BY SMTT(30), <1>2, MessageSpelt
<1>6. frame[i] = Encode(q[n])[j]
  BY <1>4, <1>5, Zenon
<1>7. q[n] \in Messages
  OBVIOUS
<1>8. QED
  BY <1>2, <1>3, <1>6, <1>7, EncodedByte

LEMMA FrameShort ==
    ASSUME DownTypes, NEW q \in Seq(Messages), OnTheWay(q)
    PROVE  Len(frame) <= 3
<1> SUFFICES ASSUME ~(Len(frame) <= 3) PROVE FALSE
  OBVIOUS
<1>1. PICK k \in Nat, f \in Nat, d \in Nat, g \in Nat, a \in Nat :
        /\ k = Skipped /\ f = Len(frame) /\ d = Len(down) /\ g = Len(got) /\ a = Len(q)
        /\ \/ g = 0 /\ k = 0
           \/ g > 0 /\ k = 4 * g - 1
  <2>1. Len(q) \in Nat
    OBVIOUS
  <2>2. QED
    BY <2>1, SkippedCounted
<1>2. f > 3 /\ k + f + d <= 4 * a
  BY <1>1 DEF OnTheWay
<1>3. ASSUME NEW n \in 1..a, NEW i \in 1..f PROVE k + i # 4 * (n - 1) + 3
  BY <1>1, NoneInside
<1>4. CASE g = 0 /\ k = 0
  <2>1. 1 \in 1..a /\ 3 \in 1..f /\ k + 3 = 4 * (1 - 1) + 3
    BY <1>2, <1>4
  <2>2. QED
    BY <1>3, <2>1
<1>5. CASE g > 0 /\ k = 4 * g - 1
  <2>1. g + 1 \in 1..a /\ 4 \in 1..f /\ k + 4 = 4 * ((g + 1) - 1) + 3
    BY <1>2, <1>5
  <2>2. QED
    BY <1>3, <2>1
<1>6. QED
  BY <1>1, <1>4, <1>5

LEMMA ByFours == \A x \in Nat : \E h \in Nat, z \in 0..3 : x = 4 * h + z
<1> TAKE x \in Nat
<1>1. x \div 4 \in Nat /\ x % 4 \in 0..3 /\ x = 4 * (x \div 4) + (x % 4)
  OBVIOUS
<1>2. QED
  BY <1>1

LEMMA MessageWhole ==
    ASSUME NEW s \in Seq(Byte), NEW m \in Messages, Len(s) = 2, s[1] = m[1], s[2] = m[2]
    PROVE  s = m
<1>1. m \in Seq(Byte) /\ Len(m) = 2
  BY MessageByte
<1>2. QED
  BY <1>1

(* The NUL at the front of the socket ends the next message.               *)
LEMMA MessageRead ==
    ASSUME DownTypes, NEW q \in Seq(Messages), OnTheWay(q), down # <<>>, down[1] = NUL
    PROVE  /\ Len(got) < Len(q)
           /\ Trimmed(frame) = q[Len(got) + 1]
           /\ Skipped + Len(frame) = 4 * Len(got) + 2
<1>1. PICK k \in Nat, f \in Nat, d \in Nat, g \in Nat, a \in Nat :
        /\ k = Skipped /\ f = Len(frame) /\ d = Len(down) /\ g = Len(got) /\ a = Len(q)
        /\ \/ g = 0 /\ k = 0
           \/ g > 0 /\ k = 4 * g - 1
  <2>1. Len(q) \in Nat
    OBVIOUS
  <2>2. QED
    BY <2>1, SkippedCounted
<1>2. PICK s \in Seq(Byte), w \in Seq(Byte) : s = frame /\ w = down
  BY DEF DownTypes
<1>3. /\ Spells(s, k, Encoded(q), 4) /\ Spells(w, k + f, Encoded(q), 4)
      /\ k + f + d <= 4 * a /\ d = Len(w) /\ f = Len(s)
  BY <1>1, <1>2 DEF OnTheWay
<1>4. d > 0 /\ 1 \in 1..Len(w)
  BY SMTT(30), <1>2, <1>3
<1>5. PICK h \in Nat, z \in 0..3 : k + f = 4 * h + z
  <2>1. k + f \in Nat
    OBVIOUS
  <2>2. QED
    BY <2>1, ByFours
<1>6. h + 1 \in 1..a /\ z + 1 \in 1..4 /\ (k + f) + 1 = 4 * ((h + 1) - 1) + (z + 1)
  <2>1. (k + f) + 1 = 4 * ((h + 1) - 1) + (z + 1) /\ z + 1 \in 1..4
    BY <1>5
  <2>2. 4 * h + z + d <= 4 * a
    BY <1>3, <1>5
  <2>3. h + 1 <= a
    BY <1>4, <2>2
  <2>4. QED
    BY <2>1, <2>3
<1>7. \A n \in 1..a : q[n] \in Messages
  BY <1>1
<1>8. z = 2
  <2>1. PICK from \in Nat, n \in 1..a, j \in 1..4 : /\ from = k + f /\ n = h + 1 /\ j = z + 1
                                                   /\ from + 1 = 4 * (n - 1) + j
    <3>1. k + f \in Nat
      OBVIOUS
    <3>2. QED
      BY <1>6, <3>1
  <2>2. PICK i \in 1..Len(w) : i = 1
    BY <1>4
  <2>3. Spells(w, from, Encoded(q), 4) /\ from + i = 4 * (n - 1) + j /\ n \in 1..Len(q)
    BY <1>1, <1>3, <2>1, <2>2
  <2>4. w[i] = Encode(q[n])[j]
    <3>1. \A p \in 1..Len(w), m \in 1..Len(q), l \in 1..4 :
             from + p = 4 * (m - 1) + l => w[p] = Encode(q[m])[l]
      BY <2>3, MessageSpelt
    <3>2. QED
      BY <2>3, <3>1
  <2>5. Encode(q[n])[j] = NUL /\ q[n] \in Messages
    BY <1>2, <1>7, <2>2, <2>4
  <2>6. j = 3
    BY <2>5, EncodedByte
  <2>7. QED
    BY <2>1, <2>6
<1>9. ASSUME NEW n \in 1..a, NEW i \in 1..f PROVE k + i # 4 * (n - 1) + 3
  BY <1>1, NoneInside
<1>10. h = g
  <2>1. CASE g = 0 /\ k = 0
    <3>1. f = 4 * h + 2
      BY <1>5, <1>8, <2>1
    <3>2. SUFFICES ASSUME h > 0 PROVE FALSE
      BY <2>1
    <3>3. 1 \in 1..a /\ 3 \in 1..f /\ k + 3 = 4 * (1 - 1) + 3
      BY <1>6, <2>1, <3>1, <3>2
    <3>4. QED
      BY <1>9, <3>3
  <2>2. CASE g > 0 /\ k = 4 * g - 1
    <3>1. (4 * g - 1) + f = 4 * h + 2 /\ h >= g
      BY <1>5, <1>8, <2>2
    <3>2. SUFFICES ASSUME h > g PROVE FALSE
      BY <3>1
    <3>3. g + 1 \in 1..a /\ 4 \in 1..f /\ k + 4 = 4 * ((g + 1) - 1) + 3
      BY <1>6, <2>2, <3>1, <3>2
    <3>4. QED
      BY <1>9, <3>3
  <2>3. QED
    BY <1>1, <2>1, <2>2
<1>11. k + f = 4 * g + 2 /\ g + 1 \in 1..a
  BY <1>5, <1>6, <1>8, <1>10
<1>12. PICK m \in Messages : m = q[g + 1]
  BY <1>7, <1>11
<1>13. ASSUME NEW i \in 1..f, NEW n \in 1..a, NEW j \in 1..4, k + i = 4 * (n - 1) + j
       PROVE  s[i] = Encode(q[n])[j]
  <2>1. n \in 1..Len(q) /\ i \in 1..Len(s) /\ Spells(s, k, Encoded(q), 4)
    BY <1>1, <1>3
  <2>2. \A p \in 1..Len(s), y \in 1..Len(q), l \in 1..4 :
           k + p = 4 * (y - 1) + l => s[p] = Encode(q[y])[l]
    BY ZenonT(60), <2>1, MessageSpelt
  <2>3. QED
    BY <1>13, <2>1, <2>2, Zenon
<1>14. Trimmed(s) = m
  <2>1. CASE g = 0 /\ k = 0
    <3>1. f = 2 /\ k + 1 = 4 * ((g + 1) - 1) + 1 /\ k + 2 = 4 * ((g + 1) - 1) + 2
      BY <1>11, <2>1
    <3>2. 1 \in 1..f /\ 2 \in 1..f
      BY <3>1
    <3>3. s[1] = Encode(m)[1] /\ s[2] = Encode(m)[2]
      BY <1>11, <1>12, <1>13, <3>1, <3>2
    <3>4. s[1] = m[1] /\ s[2] = m[2] /\ s[1] # LF
      BY <3>3, EncodedByte, MessageByte
    <3>5. s = m
      <4>1. Len(s) = 2
        BY <1>3, <3>1
      <4>2. QED
        BY <3>4, <4>1, MessageWhole
    <3>6. QED
      BY <3>4, <3>5 DEF Trimmed
  <2>2. CASE g > 0 /\ k = 4 * g - 1
    <3>1. f = 3 /\ g \in 1..a
      BY <1>11, <2>2
    <3>2. /\ k + 1 = 4 * (g - 1) + 4
          /\ k + 2 = 4 * ((g + 1) - 1) + 1 /\ k + 3 = 4 * ((g + 1) - 1) + 2
      BY <2>2
    <3>3. 1 \in 1..f /\ 2 \in 1..f /\ 3 \in 1..f
      BY <3>1
    <3>4. s[1] = Encode(q[g])[4]
      BY <1>13, <3>1, <3>2, <3>3
    <3>5. s[2] = Encode(m)[1] /\ s[3] = Encode(m)[2]
      BY <1>11, <1>12, <1>13, <3>2, <3>3
    <3>6. s[1] = LF /\ s[2] = m[1] /\ s[3] = m[2]
      BY <1>7, <3>1, <3>4, <3>5, EncodedByte
    <3>7. s # <<>> /\ Tail(s) \in Seq(Byte) /\ Len(Tail(s)) = 2 /\ Tail(s)[1] = s[2] /\ Tail(s)[2] = s[3]
      <4>1. PICK l \in Nat : l = Len(s) /\ l = 3
        BY <1>3, <3>1
      <4>2. /\ s # <<>> /\ Tail(s) \in Seq(Byte) /\ Len(Tail(s)) = l - 1
            /\ \A i \in 1..l - 1 : Tail(s)[i] = s[i + 1]
        <5>1. s # <<>> /\ Tail(s) \in Seq(Byte)
          <6>1. s = <<>> => Len(s) = 0
            OBVIOUS
          <6>2. s # <<>>
            BY <4>1, <6>1
          <6>3. QED
            BY <6>2
        <5>2. Len(Tail(s)) = l - 1 /\ \A i \in 1..l - 1 : Tail(s)[i] = s[i + 1]
          <6>1. /\ Len(Tail(s)) = Len(s) - 1
                /\ \A i \in 1..Len(s) - 1 : Tail(s)[i] = s[i + 1]
            BY <5>1
          <6>2. l = Len(s)
            BY <4>1
          <6>3. QED
            BY <6>1, <6>2
        <5>3. QED
          BY <5>1, <5>2
      <4>3. 1 \in 1..l - 1 /\ 2 \in 1..l - 1
        BY <4>1
      <4>4. Tail(s)[1] = s[1 + 1] /\ Tail(s)[2] = s[2 + 1]
        BY <4>2, <4>3
      <4>5. s[1 + 1] = s[2] /\ s[2 + 1] = s[3] /\ Len(Tail(s)) = 2
        BY <4>1, <4>2
      <4>6. QED
        BY <4>2, <4>4, <4>5
    <3>8. Tail(s) = m
      BY <3>6, <3>7, MessageWhole
    <3>9. QED
      BY <3>6, <3>7, <3>8 DEF Trimmed
  <2>3. QED
    BY <1>1, <2>1, <2>2
<1>15. g < a
  BY <1>11
<1>16. QED
  BY <1>1, <1>2, <1>11, <1>12, <1>14, <1>15

LEMMA DownGetFrame == DownInv /\ GetFrame => DownInv'
<1> SUFFICES ASSUME DownInv, GetFrame PROVE DownInv'
  OBVIOUS
<1>1. DownTypes /\ CalledInOrder
  BY DEF DownInv
<1>2. /\ down # <<>> /\ down[1] = NUL /\ down' = Tail(down) /\ frame' = <<>>
      /\ got' = Append(got, Trimmed(frame))
      /\ UNCHANGED <<broken, processed, place, out, buffer, sent, overlapped>>
  BY DEF GetFrame, input, output
<1>3. CalledInOrder'
  BY <1>1, <1>2, CalledKept
<1>4. PICK q \in Seq(Messages) :
        OnTheWay(q) /\ OneAfterTheOther(q) /\ (~overlapped => InTurn(q))
  BY DEF DownInv
<1>5. PICK v \in Seq(Messages), w \in Seq(Byte) : v = got /\ w = down
  BY <1>1 DEF DownTypes
<1>6. PICK k \in Nat, f \in Nat, d \in Nat, g \in Nat, a \in Nat :
        k = Skipped /\ f = Len(frame) /\ d = Len(w) /\ g = Len(v) /\ a = Len(q)
  <2>1. Len(q) \in Nat /\ Len(w) \in Nat /\ Len(v) \in Nat
    OBVIOUS
  <2>2. QED
    BY <1>1, <2>1, SkippedCounted
<1>7. g < a /\ Trimmed(frame) = q[g + 1] /\ k + f = 4 * g + 2
  BY <1>1, <1>2, <1>4, <1>5, <1>6, MessageRead
<1>8. PICK m \in Messages : m = q[g + 1] /\ got' = Append(v, m)
  <2>1. q[g + 1] \in Messages
    BY <1>6, <1>7
  <2>2. QED
    BY <1>2, <1>5, <1>7, <2>1
<1>9. /\ got' \in Seq(Messages) /\ Len(got') = g + 1 /\ got'[g + 1] = m
      /\ \A n \in 1..g : got'[n] = v[n]
  BY <1>6, <1>8, AtTheEnd
<1>10. PICK none : /\ none = <<>> /\ none \in Seq(Byte) /\ Len(none) = 0
  <2>1. <<>> \in Seq(Byte) /\ Len(<<>>) = 0
    OBVIOUS
  <2>2. QED
    BY <2>1
<1>11. frame' = none /\ w # <<>> /\ down' = Tail(w)
  BY <1>2, <1>5, <1>10
<1>12. /\ Spells(w, k + f, Encoded(q), 4) /\ k + f + d <= 4 * a
       /\ \A n \in 1..g : v[n] = q[n]
  BY <1>4, <1>5, <1>6 DEF OnTheWay
<1>13. /\ Tail(w) \in Seq(Byte) /\ Len(w) > 0 /\ Len(Tail(w)) = Len(w) - 1
       /\ Spells(Tail(w), (k + f) + 1, Encoded(q), 4)
  <2>1. PICK from \in Nat : from = k + f
    <3>1. k + f \in Nat
      OBVIOUS
    <3>2. QED
      BY <3>1
  <2>2. Spells(w, from, Encoded(q), 4)
    BY <1>12, <2>1
  <2>3. /\ Tail(w) \in Seq(Byte) /\ Len(w) > 0 /\ Len(Tail(w)) = Len(w) - 1
        /\ Spells(Tail(w), from + 1, Encoded(q), 4)
    BY <1>11, <2>2, SpellsTail
  <2>4. QED
    BY <2>1, <2>3
<1>14. DownTypes'
  BY <1>1, <1>2, <1>9, <1>10, <1>11, <1>13 DEF DownTypes
<1>15. Skipped' = (k + f) + 1 /\ Underway' = Underway
  <2>1. got' # <<>>
    <3>1. got' = <<>> => Len(got') = 0
      OBVIOUS
    <3>2. g + 1 # 0
      OBVIOUS
    <3>3. QED
      BY <1>9, <3>1, <3>2
  <2>2. Skipped' = 4 * (g + 1) - 1
    BY <1>9, <2>1 DEF Skipped
  <2>3. 4 * (g + 1) - 1 = (k + f) + 1
    BY <1>7
  <2>4. QED
    BY <1>2, <2>2, <2>3 DEF Underway
<1>16. OnTheWay(q)'
  <2>1. Len(frame') = 0 /\ Len(down') = d - 1 /\ d > 0
    BY <1>6, <1>10, <1>11, <1>13
  <2>2. ((k + f) + 1) + 0 + (d - 1) = k + f + d /\ ((k + f) + 1) + 0 = (k + f) + 1
    OBVIOUS
  <2>3. Skipped' + Len(frame') + Len(down') = k + f + d /\ Skipped' + Len(frame') = (k + f) + 1
    BY <1>15, <2>1, <2>2
  <2>4. Spells(frame', Skipped', Encoded(q), 4) /\ Spells(down', Skipped' + Len(frame'), Encoded(q), 4)
    BY <1>10, <1>11, <1>13, <2>3, SpellsNone
  <2>5. \A i \in 1..Len(frame') : frame'[i] # NUL
    BY <2>1
  <2>6. Len(got') <= Len(q) /\ \A n \in 1..Len(got') : got'[n] = q[n]
    <3>1. g + 1 <= a /\ \A n \in 1..g + 1 : n \in 1..g \/ n = g + 1
      BY <1>7
    <3>2. \A n \in 1..g + 1 : got'[n] = q[n]
      BY <1>8, <1>9, <1>12, <3>1
    <3>3. QED
      BY <1>6, <1>9, <3>1, <3>2
  <2>7. ~broken' =>
           /\ Spells(buffer'[out'], k + f + d, Encoded(q), 4)
           /\ \E b \in 0..Len(q) : /\ Len(buffer'[out']) = 4 * b
                                   /\ k + f + d + 4 * b = 4 * Len(q)
    BY <1>2, <1>4, <1>5, <1>6 DEF OnTheWay
  <2>8. Skipped' + Len(frame') + Len(down') <= 4 * Len(q)
    BY <1>6, <1>12, <2>3
  <2>9. QED
    BY <2>3, <2>4, <2>5, <2>6, <2>7, <2>8 DEF OnTheWay
<1>17. OneAfterTheOther(q)'
  <2>1. \A u : Called(u)' = Called(u)
    BY <1>2 DEF Called
  <2>2. QED
    BY <1>2, <1>4, <2>1 DEF OneAfterTheOther
<1>18. ~overlapped' => InTurn(q)'
  BY <1>2, <1>4, <1>15 DEF InTurn
<1>19. QED
  BY <1>3, <1>14, <1>16, <1>17, <1>18 DEF DownInv

LEMMA DownBreak == DownInv /\ Break => DownInv'
<1> SUFFICES ASSUME DownInv, Break PROVE DownInv'
  OBVIOUS
<1>1. DownTypes /\ CalledInOrder
  BY DEF DownInv
<1>2. /\ broken' = TRUE
      /\ UNCHANGED <<processed, place, out, buffer, sent, overlapped, frame, got>>
  BY DEF Break, input, output, reader
<1>3. CalledInOrder'
  BY <1>1, <1>2, CalledKept
<1>4. PICK q \in Seq(Messages) :
        OnTheWay(q) /\ OneAfterTheOther(q) /\ (~overlapped => InTurn(q))
  BY DEF DownInv
<1>5. PICK w \in Seq(Byte) : w = down
  BY <1>1 DEF DownTypes
<1>6. PICK n \in 0..Len(w) : down' = SubSeq(w, 1, n)
  BY <1>5 DEF Break
<1>7. PICK from \in Nat, d \in Nat, a \in Nat :
        from = Skipped + Len(frame) /\ d = Len(w) /\ a = Len(q)
  <2>1. Len(q) \in Nat /\ Len(w) \in Nat
    OBVIOUS
  <2>2. Skipped \in Nat /\ Len(frame) \in Nat
    BY <1>1, SkippedCounted
  <2>3. Skipped + Len(frame) \in Nat
    BY <2>2
  <2>4. QED
    BY <2>1, <2>3
<1>8. Spells(w, from, Encoded(q), 4) /\ from + d <= 4 * a
  BY <1>4, <1>5, <1>7 DEF OnTheWay
<1>9. SubSeq(w, 1, n) \in Seq(Byte) /\ Len(SubSeq(w, 1, n)) = n
      /\ Spells(SubSeq(w, 1, n), from, Encoded(q), 4)
  BY <1>8, SpellsSplit
<1>10. DownTypes'
  BY <1>1, <1>2, <1>6, <1>9 DEF DownTypes
<1>11. Skipped' = Skipped /\ Underway' = Underway
  BY <1>2 DEF Skipped, Underway
<1>12. OnTheWay(q)'
  <2>1. Skipped' + Len(frame') = from /\ Len(down') = n
    BY <1>2, <1>6, <1>7, <1>9, <1>11
  <2>2. from + n <= 4 * a
    <3>1. n \in Nat /\ n <= d
      BY <1>7
    <3>2. QED
      BY <1>8, <3>1
  <2>3. /\ Spells(down', Skipped' + Len(frame'), Encoded(q), 4)
        /\ Skipped' + Len(frame') + Len(down') <= 4 * Len(q)
    BY <1>6, <1>7, <1>9, <2>1, <2>2
  <2>4. /\ Len(got') <= Len(q) /\ \A i \in 1..Len(got') : got'[i] = q[i]
        /\ Spells(frame', Skipped', Encoded(q), 4)
        /\ \A i \in 1..Len(frame') : frame'[i] # NUL
    BY <1>2, <1>4, <1>11 DEF OnTheWay
  <2>5. QED
    BY <1>2, <2>3, <2>4 DEF OnTheWay
<1>13. OneAfterTheOther(q)'
  <2>1. \A u : Called(u)' = Called(u)
    BY <1>2 DEF Called
  <2>2. QED
    BY <1>2, <1>4, <2>1 DEF OneAfterTheOther
<1>14. ~overlapped' => InTurn(q)'
  BY <1>2, <1>4, <1>11 DEF InTurn
<1>15. QED
  BY <1>3, <1>10, <1>12, <1>13, <1>14 DEF DownInv

LEMMA DownPopString == UpInv /\ DownInv /\ PopString => DownInv'
<1> SUFFICES ASSUME UpInv, DownInv, PopString PROVE DownInv'
  OBVIOUS
<1>1. PICK p \in Nat : p = Len(processed) /\ p + 1 \in 1..MaxFrames
  BY UpFront DEF PopString
<1>2. Called("own") = p
  BY <1>1 DEF DownInv, CalledInOrder
<1>3. PICK m \in Messages : m = MessageBytes("own", p + 1)
  BY <1>1, MessageMade
<1>4. /\ place["own"] = "idle" /\ Calls("own", m) /\ UNCHANGED <<down, broken, reader>>
      /\ "own" \in Thread /\ m = MessageBytes("own", Called("own") + 1)
  BY <1>1, <1>2, <1>3 DEF PopString, Thread
<1>5. Len(processed') = p + 1
  <2>1. decoder \in Frames /\ processed \in Seq(Frames)
    BY FrameRead DEF UpInv, UpTypes
  <2>2. QED
    BY <1>1, <2>1, AtTheEnd DEF PopString
<1>6. QED
  BY <1>1, <1>4, <1>5, DownCalls

LEMMA DownBroadcast == DownInv /\ Broadcast => DownInv'
<1> SUFFICES ASSUME DownInv, Broadcast PROVE DownInv'
  OBVIOUS
<1>1. Called("other") \in Nat /\ Called("other") < MaxBroadcasts
  BY CalledTimes DEF DownInv, CalledInOrder, Broadcast
<1>2. Called("other") + 1 \in 1..MaxBroadcasts
  BY <1>1
<1>3. PICK m \in Messages : m = MessageBytes("other", Called("other") + 1)
  BY <1>2, MessageMade
<1>4. /\ place["other"] = "idle" /\ Calls("other", m) /\ UNCHANGED <<down, broken, reader>>
      /\ "other" \in Thread /\ processed' = processed
  BY <1>3 DEF Broadcast, Thread, socket, input
<1>5. QED
  BY <1>3, <1>4, DownCalls

LEMMA DownNext == UpInv /\ DownInv /\ [Next]_vars => DownInv'
<1> SUFFICES ASSUME UpInv, DownInv, [Next]_vars PROVE DownInv'
  OBVIOUS
<1>1. ASSUME SendFrame \/ MainStep \/ PushByte \/ UNCHANGED vars
      PROVE  UNCHANGED <<down, broken, processed, output, reader>>
  BY <1>1 DEF SendFrame, MainStep, WriteSome, WriteFails, PushByte, vars, socket, input
<1>2. QED
  BY <1>1, DownOthers, DownPopString, DownBroadcast, DownSendNew, DownSendWrite, DownSendFlush,
     DownGetByte, DownGetFrame, DownBreak DEF Next, RunStep, ServerStep, SocketStep

-----------------------------------------------------------------------------
(* The socket holds no more than it has room for.                          *)

LEMMA RoomInit == Init => InRoom
<1> SUFFICES ASSUME Init PROVE InRoom
  OBVIOUS
<1>1. Len(up) = 0 /\ Len(down) = 0
  BY DEF Init
<1>2. QED
  BY <1>1 DEF InRoom

LEMMA RoomNext == UpInv /\ DownInv /\ InRoom /\ [Next]_vars => InRoom'
<1> SUFFICES ASSUME UpInv, DownInv, InRoom, [Next]_vars PROVE InRoom'
  OBVIOUS
<1>1. PICK s \in Seq(Byte), w \in Seq(Byte), x \in Seq(Byte), c \in Seq(Byte) :
        s = up /\ w = down /\ x = writing /\ c = buffer[out]
  BY DEF UpInv, UpTypes, DownInv, DownTypes
<1>2. PICK u \in Nat, d \in Nat : /\ u = Len(s) /\ d = Len(w) /\ u <= UpRoom /\ d <= DownRoom
  BY <1>1 DEF InRoom
<1>3. CASE WriteSome
  <2>1. PICK n \in 1..Len(x) : u + n <= UpRoom /\ up' = s \o SubSeq(x, 1, n) /\ down' = w
    BY <1>1, <1>2, <1>3 DEF WriteSome
  <2>2. SubSeq(x, 1, n) \in Seq(Byte) /\ Len(SubSeq(x, 1, n)) = n
    OBVIOUS
  <2>3. Len(s \o SubSeq(x, 1, n)) = Len(s) + Len(SubSeq(x, 1, n))
    BY <2>2
  <2>4. Len(up') = u + n
    BY <1>2, <2>1, <2>2, <2>3
  <2>5. QED
    BY <1>2, <2>1, <2>4 DEF InRoom
<1>4. ASSUME NEW t \in Thread, SendFlush(t) PROVE InRoom'
  <2>1. CASE broken
    BY <1>1, <1>2, <1>4, <2>1 DEF SendFlush, InRoom
  <2>2. CASE ~broken
    <3>1. d + Len(c) <= DownRoom /\ down' = w \o c /\ up' = s
      BY <1>1, <1>2, <1>4, <2>2 DEF SendFlush
    <3>2. Len(w \o c) = Len(w) + Len(c)
      OBVIOUS
    <3>3. Len(down') = d + Len(c)
      BY <1>2, <3>1, <3>2
    <3>4. QED
      BY <1>2, <3>1, <3>3 DEF InRoom
  <2>3. QED
    BY <2>1, <2>2
<1>5. CASE RunStep
  <2>1. up' = Tail(s) /\ s # <<>> /\ down' = w
    BY <1>1, <1>5 DEF RunStep, PushByte, PopString
  <2>2. Len(Tail(s)) = Len(s) - 1
    BY <2>1
  <2>3. Len(up') = u - 1
    BY <1>2, <2>1, <2>2
  <2>4. u - 1 <= UpRoom
    BY <1>2
  <2>5. QED
    BY <1>2, <2>1, <2>3, <2>4 DEF InRoom
<1>6. CASE SocketStep
  <2>1. down' = Tail(w) /\ w # <<>> /\ up' = s
    BY <1>1, <1>6 DEF SocketStep, GetByte, GetFrame
  <2>2. Len(Tail(w)) = Len(w) - 1
    BY <2>1
  <2>3. Len(down') = d - 1
    BY <1>2, <2>1, <2>2
  <2>4. d - 1 <= DownRoom
    BY <1>2
  <2>5. QED
    BY <1>2, <2>1, <2>3, <2>4 DEF InRoom
<1>7. CASE Break
  <2>1. PICK m \in 0..Len(s), n \in 0..Len(w) : up' = SubSeq(s, 1, m) /\ down' = SubSeq(w, 1, n)
    BY <1>1, <1>7 DEF Break
  <2>2. Len(SubSeq(s, 1, m)) = m /\ Len(SubSeq(w, 1, n)) = n
    OBVIOUS
  <2>3. m <= UpRoom /\ n <= DownRoom
    BY <1>2
  <2>4. QED
    BY <2>1, <2>2, <2>3 DEF InRoom
<1>8. ASSUME \/ SendFrame \/ WriteFails \/ Broadcast \/ UNCHANGED vars
             \/ \E t \in Thread : SendNew(t) \/ SendWrite(t)
      PROVE  up' = up /\ down' = down
  BY <1>8 DEF SendFrame, WriteFails, Broadcast, SendNew, SendWrite, vars, socket
<1>9. QED
  BY <1>3, <1>4, <1>5, <1>6, <1>7, <1>8 DEF Next, MainStep, ServerStep, InRoom

-----------------------------------------------------------------------------
(* What follows from the invariants.                                       *)

(* In whatever pieces the socket takes them and wherever it breaks, the    *)
(* frames come out of the server's decoder as they went into               *)
(* sendFrameAscii, in order, none skipped and none twice                   *)
(* (ConnectionHandler.cpp:51-65, 95-99; LineMessageEncoderDecoder.java).   *)
THEOREM FramesArrive == Spec => InboundFrames
<1>1. Init => Up!Init
  BY DEF Init, Up!Init
<1>2. UpInv /\ [Next]_vars => [Up!Next]_(Up!vars)
  <2> SUFFICES ASSUME UpInv, [Next]_vars, UNCHANGED <<submitted, processed>> => FALSE
               PROVE  Up!Next
    BY DEF Up!vars
  <2> DEFINE given == [c \in {"client"} |-> submitted]
             taken == [c \in {"client"} |-> processed]
  <2>1. CASE SendFrame
    <3>1. PICK f \in Frames : submitted' = Append(submitted, f) /\ processed' = processed
      <4>1. Len(submitted) + 1 \in 1..MaxFrames
        BY SMTT(30), <2>1 DEF SendFrame, UpInv, UpTypes
      <4>2. QED
        BY <2>1, <4>1 DEF SendFrame, Frames, input
    <3>2. Up!Put("client", f)
      BY <3>1 DEF Up!Put
    <3>3. QED
      BY <3>2 DEF Up!Next
  <2>2. CASE PopString
    <3>1. /\ Len(processed) < Len(submitted)
          /\ processed' = Append(processed, submitted[Len(processed) + 1])
          /\ submitted' = submitted
      BY <2>2, FrameRead DEF PopString, main
    <3>2. Up!Take("client")
      BY <3>1 DEF Up!Take
    <3>3. QED
      BY <3>2 DEF Up!Next
  <2>3. ASSUME \/ MainStep \/ PushByte \/ Broadcast \/ (\E t \in Thread : ServerStep(t))
               \/ SocketStep \/ Break \/ UNCHANGED vars
        PROVE  UNCHANGED <<submitted, processed>>
    BY <2>3 DEF MainStep, WriteSome, WriteFails, PushByte, Broadcast, ServerStep, SendNew,
                SendWrite, SendFlush, SocketStep, GetByte, GetFrame, Break, vars, main, input
  <2>4. QED
    BY <2>1, <2>2, <2>3 DEF Next, RunStep
<1>3. QED
  BY <1>1, <1>2, UpInit, UpNext, PTL DEF Spec, InboundFrames, Up!Spec

LEMMA WireInvariant == Spec => [](UpInv /\ DownInv /\ InRoom)
  BY UpInit, UpNext, DownInit, DownNext, RoomInit, RoomNext, PTL DEF Spec

(* The socket holds no more than it has room for, the server's decoder     *)
(* never more than the two bytes of a frame and the client's frame never   *)
(* more than a newline and a message: NUL is found where it was put        *)
(* (ConnectionHandler.cpp:76-93, LineMessageEncoderDecoder.java:13-22).    *)
THEOREM TypesKept == Spec => []TypeOK
<1>1. UpInv /\ DownInv /\ InRoom => TypeOK
  <2> SUFFICES ASSUME UpInv, DownInv, InRoom PROVE TypeOK
    OBVIOUS
  <2>1. PICK q \in Seq(Messages) : OnTheWay(q)
    BY DEF DownInv
  <2>2. Len(frame) <= 3
    BY <2>1, FrameShort DEF DownInv
  <2>3. QED
    BY <2>2 DEF TypeOK, UpInv, UpTypes, DownInv, DownTypes, CalledInOrder, InRoom
<1>2. QED
  BY <1>1, WireInvariant, PTL

(* Whoever overlaps with whom in send, what the client takes apart are     *)
(* whole messages, each once, and those of one thread in order: a stream   *)
(* that is replaced takes whole messages with it                           *)
(* (BlockingConnectionHandler.java:64-72).                                 *)
THEOREM WholeOrLost == Spec => []LostAtWorst
<1>1. DownInv => LostAtWorst
  <2> SUFFICES ASSUME DownInv PROVE LostAtWorst
    OBVIOUS
  <2>1. PICK q \in Seq(Messages) : OnTheWay(q) /\ OneAfterTheOther(q)
    BY DEF DownInv
  <2>2. PICK v \in Seq(Messages), s \in Seq(Messages) : v = got /\ s = sent
    BY DEF DownInv, DownTypes, CalledInOrder
  <2>3. PICK g \in Nat, a \in Nat : g = Len(v) /\ a = Len(q)
    OBVIOUS
  <2>4. g <= a /\ \A n \in 1..g : v[n] = q[n]
    BY <2>1, <2>2, <2>3 DEF OnTheWay
  <2>5. /\ \A n \in 1..a : \E k \in 1..Len(s) : q[n] = s[k]
        /\ \A n, l \in 1..a : n < l /\ q[n][1][1] = q[l][1][1] => q[n][1][2] < q[l][1][2]
    BY <2>1, <2>2, <2>3 DEF OneAfterTheOther
  <2>6. \A n \in 1..g : n \in 1..a
    BY <2>4
  <2>7. \A i \in 1..g : \E k \in 1..Len(s) : v[i] = s[k]
    BY <2>4, <2>5, <2>6
  <2>8. ASSUME NEW i \in 1..g, NEW j \in 1..g, i < j, v[i][1][1] = v[j][1][1]
        PROVE  v[i][1][2] < v[j][1][2]
    <3>1. v[i] = q[i] /\ v[j] = q[j] /\ i \in 1..a /\ j \in 1..a
      BY <2>4, <2>6
    <3>2. QED
      BY <2>5, <2>8, <3>1
  <2>9. DOMAIN v = 1..g /\ DOMAIN s = 1..Len(s)
    BY <2>3
  <2>10. QED
    BY <2>2, <2>7, <2>8, <2>9 DEF LostAtWorst
<1>2. QED
  BY <1>1, WireInvariant, PTL

(* As long as no two threads were ever in send at once, messages come out  *)
(* at the client as send was called with them, in order, none skipped and  *)
(* none twice (BlockingConnectionHandler.java:64-72,                       *)
(* ConnectionHandler.cpp:76-93).                                           *)
THEOREM MessagesArrive == Spec => OutboundUnlessOverlapped
<1>1. Init => Down!Init
  BY DEF Init, Down!Init
<1>2. UpInv /\ DownInv /\ [Next]_vars => [overlapped' \/ Down!Next]_<<sent, got>>
  <2> SUFFICES ASSUME UpInv, DownInv, [Next]_vars, ~overlapped', UNCHANGED <<sent, got>> => FALSE
               PROVE  Down!Next
    OBVIOUS
  <2>1. ASSUME NEW t, NEW m \in Messages, Calls(t, m), got' = got PROVE Down!Next
    <3>1. sent' = Append(sent, m) /\ got' = got
      BY <2>1 DEF Calls
    <3>2. Down!Put("client", m)
      BY <3>1 DEF Down!Put
    <3>3. QED
      BY <3>2 DEF Down!Next
  <2>2. CASE PopString
    <3>1. PICK p \in Nat : p = Len(processed) /\ p + 1 \in 1..MaxFrames
      BY <2>2, UpFront DEF PopString
    <3>2. MessageBytes("own", p + 1) \in Messages
      BY <3>1, MessageMade
    <3>3. Calls("own", MessageBytes("own", p + 1)) /\ got' = got
      BY <2>2, <3>1 DEF PopString, reader
    <3>4. QED
      BY <2>1, <3>2, <3>3
  <2>3. CASE Broadcast
    <3>1. Called("other") \in Nat /\ Called("other") < MaxBroadcasts
      BY <2>3, CalledTimes DEF DownInv, CalledInOrder, Broadcast
    <3>2. Called("other") + 1 \in 1..MaxBroadcasts
      BY <3>1
    <3>3. MessageBytes("other", Called("other") + 1) \in Messages
      BY <3>2, MessageMade
    <3>4. Calls("other", MessageBytes("other", Called("other") + 1)) /\ got' = got
      BY <2>3 DEF Broadcast, reader
    <3>5. QED
      BY <2>1, <3>3, <3>4
  <2>4. CASE GetFrame
    <3>1. /\ down # <<>> /\ down[1] = NUL /\ got' = Append(got, Trimmed(frame)) /\ sent' = sent
          /\ ~overlapped
      BY <2>4 DEF GetFrame, output
    <3>2. PICK q \in Seq(Messages) : OnTheWay(q) /\ InTurn(q)
      BY <3>1 DEF DownInv
    <3>3. Len(got) < Len(q) /\ Trimmed(frame) = q[Len(got) + 1]
      BY <3>1, <3>2, MessageRead DEF DownInv
    <3>4. PICK g \in Nat, a \in Nat, s \in Nat : g = Len(got) /\ a = Len(q) /\ s = Len(sent)
      BY DEF DownInv, DownTypes, CalledInOrder
    <3>5. a <= s /\ \A n \in 1..a : q[n] = sent[n]
      BY <3>2, <3>4 DEF InTurn
    <3>6. g < s /\ q[g + 1] = sent[g + 1]
      <4>1. g < a
        BY <3>3, <3>4
      <4>2. g + 1 \in 1..a /\ g < s
        BY <3>5, <4>1
      <4>3. QED
        BY <3>5, <4>2
    <3>7. Len(got) < Len(sent) /\ got' = Append(got, sent[Len(got) + 1])
      BY <3>1, <3>3, <3>4, <3>6
    <3>8. Down!Take("client")
      BY <3>1, <3>7 DEF Down!Take
    <3>9. QED
      BY <3>8 DEF Down!Next
  <2>5. ASSUME \/ SendFrame \/ MainStep \/ PushByte \/ (\E t \in Thread : ServerStep(t))
               \/ GetByte \/ Break \/ UNCHANGED vars
        PROVE  UNCHANGED <<sent, got>>
    BY <2>5 DEF SendFrame, MainStep, WriteSome, WriteFails, PushByte, ServerStep, SendNew,
                SendWrite, SendFlush, GetByte, Break, vars, output, reader
  <2>6. QED
    BY <2>2, <2>3, <2>4, <2>5 DEF Next, RunStep, SocketStep
<1>3. QED
  BY <1>1, <1>2, WireInvariant, PTL DEF Spec, OutboundUnlessOverlapped
=============================================================================
