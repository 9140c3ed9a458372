---------------------------- MODULE FramingProofs ----------------------------
(***************************************************************************)
(* For any messages, any size of the header and any number of messages sent:  *)
(* whatever the portions in which the bytes of a connection arrive, the slot  *)
(* delivers a prefix of the messages sent, each whole and in order, and it    *)
(* never returns with a message in the socket that nothing will wake it for.  *)
(* That the digits of a size are read as they were written is Qt's promise.   *)
(***************************************************************************)
EXTENDS Framing, TLAPS

\* What the stream is made of: the bytes and the digits of the sizes.
Data == Byte \cup {Encode(Len(m))[i] : m \in Messages, i \in 1 .. HeaderLen}

TypeInv ==
  /\ up \in BOOLEAN /\ sent \in Seq(Messages) /\ delivered \in Seq(Messages)
  /\ wire \in Seq(Data) /\ avail \in Seq(Data) /\ inBuffer \in Seq(Data)
  /\ inSize \in Nat /\ at \in {"idle", "read", "readData"}

\* all is everything that was written to the connection: the frame of the i-th
\* message begins behind off[i - 1] and ends at off[i].
Laid(all, off) ==
  /\ all \in Seq(Data) /\ off \in [0 .. Len(sent) -> Nat] /\ Len(all) = off[Len(sent)]
  /\ \A i \in 1 .. Len(sent) :
        /\ off[i] = off[i - 1] + HeaderLen + Len(sent[i]) /\ off[i] <= Len(all)
        /\ \A j \in 1 .. HeaderLen : all[off[i - 1] + j] = Encode(Len(sent[i]))[j]
        /\ \A j \in 1 .. Len(sent[i]) : all[off[i - 1] + HeaderLen + j] = sent[i][j]

\* The first p bytes have been read. The socket holds the next ones; the others are
\* under way while the connection lasts.
Placed(all, p) ==
  /\ p + Len(avail) <= Len(all)
  /\ \A i \in 1 .. Len(avail) : avail[i] = all[p + i]
  /\ up => /\ p + Len(avail) + Len(wire) = Len(all)
           /\ \A i \in 1 .. Len(wire) : wire[i] = all[p + Len(avail) + i]

\* The parser stands in front of a frame, or inside a message.
Parsed(off, p) ==
  LET k == Len(delivered)
  IN  IF inSize = 0
      THEN inBuffer = << >> /\ p = off[k]
      ELSE /\ k < Len(sent) /\ inSize = Len(sent[k + 1]) /\ Len(inBuffer) < inSize
           /\ p = off[k] + HeaderLen + Len(inBuffer)
           /\ \A i \in 1 .. Len(inBuffer) : inBuffer[i] = sent[k + 1][i]

StreamInv == \E all, off : \E p \in Nat : Laid(all, off) /\ Placed(all, p) /\ Parsed(off, p)

DoneInv ==
  /\ Len(delivered) <= Len(sent)
  /\ \A i \in 1 .. Len(delivered) : delivered[i] = sent[i]

\* The slot returns only when it can do nothing with the bytes in the socket.
IdleInv == at = "idle" => IF inSize = 0 THEN Len(avail) < HeaderLen ELSE avail = << >>

IInv == TypeInv /\ StreamInv /\ DoneInv /\ IdleInv /\ (~ up => wire = << >>)
-----------------------------------------------------------------------------
\* A message and its header are of the stream's data.
LEMMA FrameFacts ==
  ASSUME NEW m \in Messages
  PROVE  /\ m \in Seq(Data) /\ Len(m) \in Nat \ {0}
         /\ Encode(Len(m)) \in Seq(Data) /\ Len(Encode(Len(m))) = HeaderLen
<1>1. m \in Seq(Byte) /\ m # << >>
  BY MessagesAssumption
<1>2. m \in Seq(Data) /\ Len(m) \in Nat \ {0}
  BY <1>1 DEF Data
<1>3. \A i \in 1 .. HeaderLen : Encode(Len(m))[i] \in Data
  BY DEF Data
<1>4. Encode(Len(m)) \in [1 .. HeaderLen -> Data]
  BY <1>3 DEF Encode
<1>5. Encode(Len(m)) \in Seq(Data) /\ Len(Encode(Len(m))) = HeaderLen
  BY <1>4, HeaderAssumption
<1>6. QED
  BY <1>2, <1>5

\* The first n elements of a sequence.
LEMMA Beginning ==
  ASSUME NEW S, NEW a \in Seq(S), NEW n \in Nat, n <= Len(a)
  PROVE  /\ SubSeq(a, 1, n) \in Seq(S) /\ Len(SubSeq(a, 1, n)) = n
         /\ \A i \in 1 .. n : SubSeq(a, 1, n)[i] = a[i]
  OBVIOUS

\* The others.
LEMMA Remainder ==
  ASSUME NEW S, NEW a \in Seq(S), NEW n \in Nat, n <= Len(a)
  PROVE  /\ SubSeq(a, n + 1, Len(a)) \in Seq(S) /\ Len(SubSeq(a, n + 1, Len(a))) = Len(a) - n
         /\ \A i \in 1 .. (Len(a) - n) : SubSeq(a, n + 1, Len(a))[i] = a[n + i]
  OBVIOUS

\* Two sequences, one behind the other.
LEMMA Joined ==
  ASSUME NEW S, NEW s \in Seq(S), NEW t \in Seq(S)
  PROVE  /\ s \o t \in Seq(S) /\ Len(s \o t) = Len(s) + Len(t)
         /\ \A i \in 1 .. Len(s) : (s \o t)[i] = s[i]
         /\ \A i \in 1 .. Len(t) : (s \o t)[Len(s) + i] = t[i]
  OBVIOUS

LEMMA Appended ==
  ASSUME NEW S, NEW s \in Seq(S), NEW e \in S
  PROVE  /\ Append(s, e) \in Seq(S) /\ Len(Append(s, e)) = Len(s) + 1
         /\ \A i \in 1 .. Len(s) : Append(s, e)[i] = s[i]
         /\ Append(s, e)[Len(s) + 1] = e
  OBVIOUS

LEMMA Same ==
  ASSUME NEW S, NEW s \in Seq(S), NEW t \in Seq(S), Len(s) = Len(t),
         \A i \in 1 .. Len(s) : s[i] = t[i]
  PROVE  s = t
  OBVIOUS

LEMMA Lengths ==
  ASSUME TypeInv, NEW all, NEW off, Laid(all, off)
  PROVE  /\ Len(delivered) \in Nat /\ Len(sent) \in Nat /\ Len(wire) \in Nat
         /\ Len(avail) \in Nat /\ Len(inBuffer) \in Nat /\ Len(all) \in Nat
<1>1. all \in Seq(Data)
  BY DEF Laid
<1>2. QED
  BY <1>1 DEF TypeInv
-----------------------------------------------------------------------------
LEMMA Initially ==
  ASSUME Init
  PROVE  IInv
<1>. DEFINE off == [i \in 0 .. 0 |-> 0]
<1>1. TypeInv
  BY DEF Init, TypeInv
<1>2. Laid(<< >>, off) /\ Placed(<< >>, 0) /\ Parsed(off, 0)
  BY DEF Init, Laid, Placed, Parsed
<1>3. QED
  BY <1>1, <1>2, HeaderAssumption DEF Init, IInv, StreamInv, DoneInv, IdleInv

\* Reads all the bytes the frame of the next message can be read from.
LEMMA Header ==
  ASSUME TypeInv, NEW all, NEW off, NEW p \in Nat, Laid(all, off), Placed(all, p), DoneInv,
         inSize = 0, Parsed(off, p), Len(avail) >= HeaderLen
  PROVE  /\ Len(delivered) < Len(sent)
         /\ Decode(SubSeq(avail, 1, HeaderLen)) = Len(sent[Len(delivered) + 1])
<1>1. PICK k \in Nat, n \in Nat, l \in Nat : k = Len(delivered) /\ n = Len(sent) /\ l = Len(avail)
  BY DEF TypeInv
<1>2. p = off[k] /\ p + l <= Len(all) /\ k <= n /\ l >= HeaderLen /\ Len(all) = off[n]
  BY <1>1 DEF Parsed, Placed, DoneInv, Laid
<1>3. k < n
  <2>1. k = n => p + l <= p
    BY <1>2
  <2>2. QED
    BY <1>1, <1>2, <2>1, HeaderAssumption
<1>4. k + 1 \in 1 .. n /\ (k + 1) - 1 = k
  BY <1>3
<1>5. PICK m \in Messages : m = sent[k + 1]
  BY <1>1, <1>4 DEF TypeInv
<1>6. PICK h \in Seq(Data) : h = SubSeq(avail, 1, HeaderLen) /\ Len(h) = HeaderLen
                             /\ \A j \in 1 .. HeaderLen : h[j] = avail[j]
  <2>1. avail \in Seq(Data) /\ HeaderLen \in Nat /\ HeaderLen <= Len(avail)
    BY HeaderAssumption DEF TypeInv
  <2>2. /\ SubSeq(avail, 1, HeaderLen) \in Seq(Data) /\ Len(SubSeq(avail, 1, HeaderLen)) = HeaderLen
        /\ \A i \in 1 .. HeaderLen : SubSeq(avail, 1, HeaderLen)[i] = avail[i]
    BY <2>1, Beginning
  <2>3. QED
    BY <2>2
<1>7. \A j \in 1 .. HeaderLen : h[j] = Encode(Len(m))[j]
  <2>1. \A j \in 1 .. HeaderLen : all[off[k] + j] = Encode(Len(m))[j]
    BY <1>1, <1>4, <1>5 DEF Laid
  <2>2. \A j \in 1 .. HeaderLen : j \in 1 .. l
    BY <1>1, <1>2, HeaderAssumption
  <2>3. \A j \in 1 .. HeaderLen : avail[j] = all[p + j]
    BY <1>1, <2>2 DEF Placed
  <2>4. QED
    BY <1>2, <1>6, <2>1, <2>3
<1>8. h = Encode(Len(m))
  BY <1>6, <1>7, FrameFacts, Same
<1>9. QED
  BY <1>1, <1>3, <1>5, <1>6, <1>8, RoundTripAssumption
-----------------------------------------------------------------------------
\* A frame is written behind all there is.
LEMMA SendStep ==
  ASSUME IInv, Send
  PROVE  IInv'
<1>1. PICK m \in Messages : sent' = Append(sent, m) /\ wire' = (wire \o Encode(Len(m))) \o m
  BY DEF Send
<1>2. up /\ TypeInv /\ UNCHANGED <<up, avail, inSize, inBuffer, at, delivered>>
  BY DEF Send, IInv
<1>3. PICK all, off : \E p \in Nat : Laid(all, off) /\ Placed(all, p) /\ Parsed(off, p)
  BY DEF IInv, StreamInv
<1>4. PICK p \in Nat : Laid(all, off) /\ Placed(all, p) /\ Parsed(off, p)
  BY <1>3
<1>5. PICK n \in Nat, l \in Nat, w \in Nat, e \in Seq(Data) :
         /\ n = Len(sent) /\ l = Len(all) /\ w = Len(wire) /\ e = Encode(Len(m))
         /\ Len(e) = HeaderLen
  BY <1>2, <1>4, FrameFacts, Lengths
<1>6. PICK s \in Nat \ {0} : s = Len(m) /\ m \in Seq(Data)
  BY FrameFacts
<1>7. HeaderLen \in Nat \ {0}
  BY HeaderAssumption
<1>8. /\ sent' \in Seq(Messages) /\ Len(sent') = n + 1
      /\ \A i \in 1 .. n : sent'[i] = sent[i]
      /\ sent'[n + 1] = m
  BY <1>1, <1>2, <1>5, Appended DEF TypeInv
<1>9. PICK frame \in Seq(Data) :
         /\ Len(frame) = HeaderLen + s
         /\ \A j \in 1 .. HeaderLen : frame[j] = e[j]
         /\ \A j \in 1 .. s : frame[HeaderLen + j] = m[j]
  <2>1. /\ e \o m \in Seq(Data) /\ Len(e \o m) = Len(e) + Len(m)
        /\ \A j \in 1 .. Len(e) : (e \o m)[j] = e[j]
        /\ \A j \in 1 .. Len(m) : (e \o m)[Len(e) + j] = m[j]
    BY <1>6, Joined
  <2>2. QED
    BY <1>5, <1>6, <2>1
<1>10. PICK longer \in Seq(Data) :
         /\ Len(longer) = l + HeaderLen + s
         /\ \A i \in 1 .. l : longer[i] = all[i]
         /\ \A i \in 1 .. (HeaderLen + s) : longer[l + i] = frame[i]
  <2>1. all \in Seq(Data)
    BY <1>4 DEF Laid
  <2>2. /\ all \o frame \in Seq(Data) /\ Len(all \o frame) = l + Len(frame)
        /\ \A i \in 1 .. l : (all \o frame)[i] = all[i]
        /\ \A i \in 1 .. Len(frame) : (all \o frame)[l + i] = frame[i]
    BY <1>5, <2>1, Joined
  <2>3. /\ Len(all \o frame) = l + (HeaderLen + s)
        /\ \A i \in 1 .. (HeaderLen + s) : (all \o frame)[l + i] = frame[i]
    BY <1>9, <2>2
  <2>4. l + (HeaderLen + s) = l + HeaderLen + s
    BY <1>7
  <2>5. QED
    BY <2>2, <2>3, <2>4
<1>11. /\ wire' \in Seq(Data) /\ Len(wire') = w + HeaderLen + s
       /\ \A i \in 1 .. w : wire'[i] = wire[i]
       /\ \A i \in 1 .. (HeaderLen + s) : wire'[w + i] = frame[i]
  <2>1. wire \in Seq(Data)
    BY <1>2 DEF TypeInv
  <2>2. PICK x \in Seq(Data) :
           /\ wire' = x \o m /\ Len(x) = w + HeaderLen
           /\ \A i \in 1 .. w : x[i] = wire[i]
           /\ \A i \in 1 .. HeaderLen : x[w + i] = e[i]
    <3>1. /\ wire \o e \in Seq(Data) /\ Len(wire \o e) = Len(wire) + Len(e)
          /\ \A i \in 1 .. Len(wire) : (wire \o e)[i] = wire[i]
          /\ \A i \in 1 .. Len(e) : (wire \o e)[Len(wire) + i] = e[i]
      BY <2>1, Joined
    <3>2. wire' = (wire \o e) \o m
      BY <1>1, <1>5
    <3>3. QED
      BY <1>5, <3>1, <3>2
  <2>3. /\ wire' \in Seq(Data) /\ Len(wire') = Len(x) + s
        /\ \A i \in 1 .. Len(x) : wire'[i] = x[i]
        /\ \A i \in 1 .. s : wire'[Len(x) + i] = m[i]
    <3>1. /\ x \o m \in Seq(Data) /\ Len(x \o m) = Len(x) + Len(m)
          /\ \A i \in 1 .. Len(x) : (x \o m)[i] = x[i]
          /\ \A i \in 1 .. Len(m) : (x \o m)[Len(x) + i] = m[i]
      BY <1>6, Joined
    <3>2. QED
      BY <1>6, <2>2, <3>1
  <2>4. ASSUME NEW i \in 1 .. w
        PROVE  wire'[i] = wire[i]
    <3>1. i \in 1 .. (w + HeaderLen)
      BY <1>7
    <3>2. QED
      BY <2>2, <2>3, <3>1
  <2>5. ASSUME NEW i \in 1 .. (HeaderLen + s)
        PROVE  wire'[w + i] = frame[i]
    <3>1. CASE i \in 1 .. HeaderLen
      <4>1. w + i \in 1 .. (w + HeaderLen)
        BY <1>7, <3>1
      <4>2. QED
        BY <1>9, <2>2, <2>3, <3>1, <4>1
    <3>2. CASE i \notin 1 .. HeaderLen
      <4>1. PICK j \in 1 .. s : i = HeaderLen + j /\ w + i = (w + HeaderLen) + j
        <5>1. i - HeaderLen \in 1 .. s /\ i = HeaderLen + (i - HeaderLen)
              /\ w + i = (w + HeaderLen) + (i - HeaderLen)
          BY <1>7, <3>2
        <5>2. QED
          BY <5>1
      <4>2. QED
        BY <1>9, <2>2, <2>3, <4>1
    <3>3. QED
      BY <3>1, <3>2
  <2>6. QED
    BY <2>2, <2>3, <2>4, <2>5
<1>. DEFINE next == [i \in 0 .. (n + 1) |-> IF i = n + 1 THEN l + HeaderLen + s ELSE off[i]]
<1>12. \A i \in 0 .. n : off[i] \in Nat /\ next[i] = off[i]
  <2>1. off \in [0 .. n -> Nat]
    BY <1>4, <1>5 DEF Laid
  <2>2. \A i \in 0 .. n : i \in 0 .. (n + 1) /\ i # n + 1
    OBVIOUS
  <2>3. QED
    BY <2>1, <2>2
<1>13. next[n + 1] = l + HeaderLen + s /\ off[n] = l
  BY <1>4, <1>5 DEF Laid
<1>14. next \in [0 .. (n + 1) -> Nat]
  <2>1. \A i \in 0 .. (n + 1) : i = n + 1 \/ i \in 0 .. n
    OBVIOUS
  <2>2. l + HeaderLen + s \in Nat
    BY <1>7
  <2>3. \A i \in 0 .. (n + 1) : next[i] \in Nat
    <3>. HIDE DEF next
    <3>1. QED
      BY <1>12, <1>13, <2>1, <2>2
  <2>4. QED
    BY <2>3
<1>. HIDE DEF next
<1>15. Laid(longer, next)'
  <2>1. next \in [0 .. (n + 1) -> Nat]
    BY <1>14
  <2>2. ASSUME NEW i \in 1 .. n
        PROVE  /\ next[i] = next[i - 1] + HeaderLen + Len(sent'[i]) /\ next[i] <= Len(longer)
               /\ \A j \in 1 .. HeaderLen : longer[next[i - 1] + j] = Encode(Len(sent'[i]))[j]
               /\ \A j \in 1 .. Len(sent'[i]) : longer[next[i - 1] + HeaderLen + j] = sent'[i][j]
    <3>1. i - 1 \in 0 .. n /\ i \in 0 .. n /\ sent'[i] = sent[i]
      BY <1>8
    <3>2. PICK a \in Nat, b \in Nat, c \in Nat :
             /\ a = off[i - 1] /\ b = off[i] /\ c = Len(sent[i])
             /\ next[i - 1] = a /\ next[i] = b
      <4>1. sent[i] \in Messages
        BY <1>2, <1>5 DEF TypeInv
      <4>2. QED
        BY <1>12, <3>1, <4>1, FrameFacts
    <3>3. /\ b = a + HeaderLen + c /\ b <= l
          /\ \A j \in 1 .. HeaderLen : all[a + j] = Encode(Len(sent[i]))[j]
          /\ \A j \in 1 .. c : all[a + HeaderLen + j] = sent[i][j]
      <4>1. /\ off[i] = off[i - 1] + HeaderLen + Len(sent[i]) /\ off[i] <= Len(all)
            /\ \A j \in 1 .. HeaderLen : all[off[i - 1] + j] = Encode(Len(sent[i]))[j]
            /\ \A j \in 1 .. Len(sent[i]) : all[off[i - 1] + HeaderLen + j] = sent[i][j]
        BY <1>4, <1>5 DEF Laid
      <4>2. QED
        BY <1>5, <3>2, <4>1
    <3>4. /\ \A j \in 1 .. HeaderLen : a + j \in 1 .. l
          /\ \A j \in 1 .. c : a + HeaderLen + j \in 1 .. l
          /\ b <= l + HeaderLen + s
      BY <1>7, <3>3
    <3>5. /\ \A j \in 1 .. HeaderLen : longer[a + j] = Encode(Len(sent[i]))[j]
          /\ \A j \in 1 .. c : longer[a + HeaderLen + j] = sent[i][j]
      BY <1>10, <3>3, <3>4
    <3>6. QED
      BY <1>10, <3>1, <3>2, <3>3, <3>4, <3>5
  <2>3. /\ next[n + 1] = next[(n + 1) - 1] + HeaderLen + Len(sent'[n + 1])
        /\ next[n + 1] <= Len(longer)
        /\ \A j \in 1 .. HeaderLen : longer[next[(n + 1) - 1] + j] = Encode(Len(sent'[n + 1]))[j]
        /\ \A j \in 1 .. Len(sent'[n + 1]) :
              longer[next[(n + 1) - 1] + HeaderLen + j] = sent'[n + 1][j]
    <3>1. (n + 1) - 1 = n /\ n \in 0 .. n /\ next[n] = l
      BY <1>12, <1>13
    <3>2. \A j \in 1 .. HeaderLen : j \in 1 .. (HeaderLen + s)
      BY <1>7
    <3>3. \A j \in 1 .. s : /\ HeaderLen + j \in 1 .. (HeaderLen + s)
                           /\ l + HeaderLen + j = l + (HeaderLen + j)
      BY <1>7
    <3>4. \A j \in 1 .. HeaderLen : longer[l + j] = e[j]
      BY <1>9, <1>10, <3>2
    <3>5. \A j \in 1 .. s : longer[l + HeaderLen + j] = m[j]
      BY <1>9, <1>10, <3>3
    <3>6. l + HeaderLen + s = next[(n + 1) - 1] + HeaderLen + Len(sent'[n + 1])
      BY <1>6, <1>8, <3>1
    <3>7. \A j \in 1 .. HeaderLen : longer[next[(n + 1) - 1] + j] = Encode(Len(sent'[n + 1]))[j]
      <4>1. Encode(Len(sent'[n + 1])) = e /\ next[(n + 1) - 1] = l
        BY <1>5, <1>8, <3>1
      <4>2. QED
        BY <3>4, <4>1
    <3>8. \A j \in 1 .. Len(sent'[n + 1]) :
             longer[next[(n + 1) - 1] + HeaderLen + j] = sent'[n + 1][j]
      BY <1>6, <1>8, <3>1, <3>5
    <3>9. next[n + 1] <= Len(longer)
      BY <1>7, <1>10, <1>13
    <3>10. QED
      BY <1>13, <3>6, <3>7, <3>8, <3>9
  <2>4. \A i \in 1 .. (n + 1) : i \in 1 .. n \/ i = n + 1
    OBVIOUS
  <2>5. QED
    BY <1>8, <1>10, <1>13, <2>1, <2>2, <2>3, <2>4 DEF Laid
<1>16. Placed(longer, p)'
  <2>1. PICK v \in Nat : v = Len(avail)
    BY <1>2 DEF TypeInv
  <2>2. /\ p + v + w = l
        /\ \A i \in 1 .. v : avail[i] = all[p + i]
        /\ \A i \in 1 .. w : wire[i] = all[p + v + i]
    BY <1>2, <1>4, <1>5, <2>1 DEF Placed
  <2>3. /\ p + v <= l + HeaderLen + s
        /\ p + v + (w + HeaderLen + s) = l + HeaderLen + s
        /\ \A i \in 1 .. v : p + i \in 1 .. l
        /\ \A i \in 1 .. w : p + v + i \in 1 .. l
    BY <1>7, <2>2
  <2>4. ASSUME NEW i \in 1 .. (w + HeaderLen + s)
        PROVE  wire'[i] = longer[p + v + i]
    <3>1. CASE i \in 1 .. w
      BY <1>10, <1>11, <2>2, <2>3, <3>1
    <3>2. CASE i \notin 1 .. w
      <4>1. PICK j \in 1 .. (HeaderLen + s) : i = w + j /\ p + v + i = l + j
        <5>1. i - w \in 1 .. (HeaderLen + s) /\ i = w + (i - w) /\ p + v + i = l + (i - w)
          BY <1>7, <2>2, <3>2
        <5>2. QED
          BY <5>1
      <4>2. QED
        BY <1>10, <1>11, <4>1
    <3>3. QED
      BY <3>1, <3>2
  <2>5. QED
    BY <1>2, <1>10, <1>11, <2>1, <2>2, <2>3, <2>4 DEF Placed
<1>17. Parsed(next, p)' /\ DoneInv'
  <2>1. PICK k \in Nat : k = Len(delivered) /\ k <= n
    BY <1>2, <1>5 DEF TypeInv, IInv, DoneInv
  <2>2. next[k] = off[k] /\ k <= n + 1 /\ \A i \in 1 .. k : i \in 1 .. n
    BY <1>12, <2>1
  <2>3. k < n => k + 1 \in 1 .. n /\ k < n + 1
    OBVIOUS
  <2>4. Parsed(next, p)'
    BY <1>2, <1>4, <1>5, <1>8, <2>1, <2>2, <2>3 DEF Parsed
  <2>5. DoneInv'
    BY <1>2, <1>5, <1>8, <2>1, <2>2 DEF IInv, DoneInv
  <2>6. QED
    BY <2>4, <2>5
<1>18. TypeInv'
  BY <1>2, <1>8, <1>11 DEF TypeInv
<1>19. StreamInv'
  BY <1>15, <1>16, <1>17 DEF StreamInv
<1>20. IdleInv' /\ up'
  BY <1>2 DEF IInv, IdleInv
<1>21. QED
  BY <1>17, <1>18, <1>19, <1>20 DEF IInv

\* Bytes move from the connection into the socket.
LEMMA ArriveStep ==
  ASSUME IInv, Arrive
  PROVE  IInv'
<1>1. /\ TypeInv /\ at = "idle" /\ at' = "read"
      /\ UNCHANGED <<up, sent, inSize, inBuffer, delivered>>
  BY DEF Arrive, IInv
<1>2. PICK c \in 1 .. Len(wire) : /\ avail' = avail \o SubSeq(wire, 1, c)
                                 /\ wire' = SubSeq(wire, c + 1, Len(wire))
  BY DEF Arrive
<1>3. PICK all, off : \E p \in Nat : Laid(all, off) /\ Placed(all, p) /\ Parsed(off, p)
  BY DEF IInv, StreamInv
<1>4. PICK p \in Nat : Laid(all, off) /\ Placed(all, p) /\ Parsed(off, p)
  BY <1>3
<1>5. PICK v \in Nat, w \in Nat, l \in Nat : v = Len(avail) /\ w = Len(wire) /\ l = Len(all)
  BY <1>1, <1>4, Lengths
<1>6. c \in Nat /\ c <= w /\ w > 0
  BY <1>2, <1>5
<1>7. up
  <2>1. wire = << >> => w = 0
    BY <1>5
  <2>2. QED
    BY <1>6, <2>1 DEF IInv
<1>8. PICK f \in Seq(Data) : /\ f = SubSeq(wire, 1, c) /\ Len(f) = c
                             /\ \A i \in 1 .. c : f[i] = wire[i]
  <2>1. wire \in Seq(Data) /\ c \in Nat /\ c <= Len(wire)
    BY <1>1, <1>5, <1>6 DEF TypeInv
  <2>2. /\ SubSeq(wire, 1, c) \in Seq(Data) /\ Len(SubSeq(wire, 1, c)) = c
        /\ \A i \in 1 .. c : SubSeq(wire, 1, c)[i] = wire[i]
    BY <2>1, Beginning
  <2>3. QED
    BY <2>2
<1>9. /\ avail' \in Seq(Data) /\ Len(avail') = v + c
      /\ \A i \in 1 .. v : avail'[i] = avail[i]
      /\ \A i \in 1 .. c : avail'[v + i] = wire[i]
  <2>1. avail \in Seq(Data)
    BY <1>1 DEF TypeInv
  <2>2. /\ avail \o f \in Seq(Data) /\ Len(avail \o f) = Len(avail) + Len(f)
        /\ \A i \in 1 .. Len(avail) : (avail \o f)[i] = avail[i]
        /\ \A i \in 1 .. Len(f) : (avail \o f)[Len(avail) + i] = f[i]
    BY <2>1, Joined
  <2>3. avail' = avail \o f
    BY <1>2, <1>8
  <2>4. QED
    BY <1>5, <1>8, <2>2, <2>3
<1>10. /\ wire' \in Seq(Data) /\ Len(wire') = w - c
       /\ \A i \in 1 .. (w - c) : wire'[i] = wire[c + i]
  <2>1. wire \in Seq(Data) /\ c \in Nat /\ c <= Len(wire)
    BY <1>1, <1>5, <1>6 DEF TypeInv
  <2>2. /\ SubSeq(wire, c + 1, Len(wire)) \in Seq(Data)
        /\ Len(SubSeq(wire, c + 1, Len(wire))) = Len(wire) - c
        /\ \A i \in 1 .. (Len(wire) - c) : SubSeq(wire, c + 1, Len(wire))[i] = wire[c + i]
    BY <2>1, Remainder
  <2>3. QED
    BY <1>2, <1>5, <2>2
<1>11. Placed(all, p)'
  <2>1. /\ p + v + w = l
        /\ \A i \in 1 .. v : avail[i] = all[p + i]
        /\ \A i \in 1 .. w : wire[i] = all[p + v + i]
    BY <1>4, <1>5, <1>7 DEF Placed
  <2>2. p + (v + c) <= l /\ p + (v + c) + (w - c) = l
    BY <1>6, <2>1
  <2>3. ASSUME NEW i \in 1 .. (v + c)
        PROVE  avail'[i] = all[p + i]
    <3>1. CASE i \in 1 .. v
      BY <1>9, <2>1, <3>1
    <3>2. CASE i \notin 1 .. v
      <4>1. PICK j \in 1 .. c : i = v + j /\ p + i = p + v + j /\ j \in 1 .. w
        <5>1. /\ i - v \in 1 .. c /\ i = v + (i - v) /\ p + i = p + v + (i - v)
              /\ i - v \in 1 .. w
          BY <1>6, <3>2
        <5>2. QED
          BY <5>1
      <4>2. QED
        BY <1>9, <2>1, <4>1
    <3>3. QED
      BY <3>1, <3>2
  <2>4. ASSUME NEW i \in 1 .. (w - c)
        PROVE  wire'[i] = all[p + (v + c) + i]
    <3>1. c + i \in 1 .. w /\ p + (v + c) + i = p + v + (c + i)
      BY <1>6
    <3>2. QED
      BY <1>10, <2>1, <3>1
  <2>5. QED
    BY <1>5, <1>9, <1>10, <2>2, <2>3, <2>4 DEF Placed
<1>12. Laid(all, off)' /\ Parsed(off, p)' /\ DoneInv'
  BY <1>1, <1>4 DEF Laid, Parsed, IInv, DoneInv
<1>13. TypeInv'
  BY <1>1, <1>9, <1>10 DEF TypeInv
<1>14. StreamInv'
  BY <1>11, <1>12 DEF StreamInv
<1>15. QED
  BY <1>1, <1>7, <1>12, <1>13, <1>14 DEF IInv, IdleInv

\* The connection is lost.
LEMMA CutStep ==
  ASSUME IInv, Cut
  PROVE  IInv'
<1>1. /\ TypeInv /\ up' = FALSE /\ wire' = << >>
      /\ UNCHANGED <<sent, avail, inSize, inBuffer, at, delivered>>
  BY DEF Cut, IInv
<1>2. PICK all, off : \E p \in Nat : Laid(all, off) /\ Placed(all, p) /\ Parsed(off, p)
  BY DEF IInv, StreamInv
<1>3. PICK p \in Nat : Laid(all, off) /\ Placed(all, p) /\ Parsed(off, p)
  BY <1>2
<1>4. Laid(all, off)' /\ Placed(all, p)' /\ Parsed(off, p)'
  BY <1>1, <1>3 DEF Laid, Placed, Parsed
<1>5. StreamInv'
  BY <1>4 DEF StreamInv
<1>6. wire' \in Seq(Data)
  <2>1. << >> \in Seq(Data)
    OBVIOUS
  <2>2. QED
    BY <1>1, <2>1
<1>7. TypeInv'
  BY <1>1, <1>6 DEF TypeInv
<1>8. QED
  BY <1>1, <1>5, <1>7 DEF IInv, DoneInv, IdleInv

\* The slot takes the first c bytes out of the socket.
LEMMA Take ==
  ASSUME TypeInv, NEW all, NEW off, NEW p \in Nat, Laid(all, off), Placed(all, p),
         NEW c \in Nat, c <= Len(avail), avail' = SubSeq(avail, c + 1, Len(avail)),
         UNCHANGED <<up, sent, wire>>
  PROVE  /\ avail' \in Seq(Data) /\ Len(avail') = Len(avail) - c
         /\ Laid(all, off)' /\ Placed(all, p + c)'
<1>1. PICK v \in Nat, w \in Nat, l \in Nat : v = Len(avail) /\ w = Len(wire) /\ l = Len(all)
  BY Lengths
<1>2. /\ avail' \in Seq(Data) /\ Len(avail') = v - c
      /\ \A i \in 1 .. (v - c) : avail'[i] = avail[c + i]
  <2>1. avail \in Seq(Data)
    BY DEF TypeInv
  <2>2. /\ SubSeq(avail, c + 1, Len(avail)) \in Seq(Data)
        /\ Len(SubSeq(avail, c + 1, Len(avail))) = Len(avail) - c
        /\ \A i \in 1 .. (Len(avail) - c) : SubSeq(avail, c + 1, Len(avail))[i] = avail[c + i]
    BY <2>1, Remainder
  <2>3. QED
    BY <1>1, <2>2
<1>3. Laid(all, off)'
  BY DEF Laid
<1>4. Placed(all, p + c)'
  <2>1. /\ p + v <= l
        /\ \A i \in 1 .. v : avail[i] = all[p + i]
        /\ up => p + v + w = l /\ \A i \in 1 .. w : wire[i] = all[p + v + i]
    BY <1>1 DEF Placed
  <2>2. p + c + (v - c) = p + v
    BY <1>1
  <2>3. ASSUME NEW i \in 1 .. (v - c)
        PROVE  avail'[i] = all[p + c + i]
    <3>1. c + i \in 1 .. v /\ p + c + i = p + (c + i)
      BY <1>1
    <3>2. QED
      BY <1>2, <2>1, <3>1
  <2>4. QED
    BY <1>1, <1>2, <2>1, <2>2, <2>3 DEF Placed
<1>5. QED
  BY <1>1, <1>2, <1>3, <1>4

\* The size of the next message is read, once all its bytes are there.
LEMMA ReadStep ==
  ASSUME IInv, Read
  PROVE  IInv' /\ UNCHANGED <<up, sent, delivered>>
<1>1. TypeInv /\ DoneInv /\ UNCHANGED <<up, sent, wire, inBuffer, delivered>>
  BY DEF Read, IInv
<1>2. PICK all, off : \E p \in Nat : Laid(all, off) /\ Placed(all, p) /\ Parsed(off, p)
  BY DEF IInv, StreamInv
<1>3. PICK p \in Nat : Laid(all, off) /\ Placed(all, p) /\ Parsed(off, p)
  BY <1>2
<1>4. DoneInv' /\ (~ up => wire = << >>)'
  BY <1>1 DEF IInv, DoneInv
<1>5. at' = (IF inSize' > 0 THEN "readData" ELSE "idle")
  BY DEF Read
<1>6. CASE inSize = 0 /\ Len(avail) >= HeaderLen
  <2>1. /\ inSize' = Decode(SubSeq(avail, 1, HeaderLen))
        /\ avail' = SubSeq(avail, HeaderLen + 1, Len(avail))
    BY <1>6 DEF Read
  <2>2. Len(delivered) < Len(sent) /\ inSize' = Len(sent[Len(delivered) + 1])
    BY <1>1, <1>3, <1>6, <2>1, Header
  <2>3. PICK k \in Nat : k = Len(delivered) /\ k < Len(sent) /\ k + 1 \in 1 .. Len(sent)
    BY <1>1, <2>2 DEF TypeInv
  <2>4. inSize' \in Nat \ {0}
    <3>1. sent[k + 1] \in Messages
      BY <1>1, <2>3 DEF TypeInv
    <3>2. QED
      BY <2>2, <2>3, <3>1, FrameFacts
  <2>5. at' = "readData"
    BY <1>5, <2>4
  <2>6. HeaderLen \in Nat /\ HeaderLen <= Len(avail)
    BY <1>6, HeaderAssumption
  <2>7. avail' \in Seq(Data) /\ Laid(all, off)' /\ Placed(all, p + HeaderLen)'
    BY <1>1, <1>3, <2>1, <2>6, Take
  <2>8. Parsed(off, p + HeaderLen)'
    <3>1. p = off[k] /\ inBuffer = << >>
      BY <1>3, <1>6, <2>3 DEF Parsed
    <3>2. p + HeaderLen = off[k] + HeaderLen + 0 /\ Len(inBuffer') = 0
      BY <1>1, <1>3, <2>6, <3>1
    <3>3. Len(inBuffer') < inSize' /\ inSize' # 0
      BY <2>4, <3>2
    <3>4. Len(delivered') = k /\ k < Len(sent') /\ inSize' = Len(sent'[k + 1])
      BY <1>1, <2>2, <2>3
    <3>5. \A i \in 1 .. Len(inBuffer') : inBuffer'[i] = sent'[k + 1][i]
      BY <3>2
    <3>6. QED
      BY <3>2, <3>3, <3>4, <3>5 DEF Parsed
  <2>9. StreamInv'
    BY <2>6, <2>7, <2>8 DEF StreamInv
  <2>10. TypeInv'
    BY <1>1, <2>4, <2>5, <2>7 DEF TypeInv
  <2>11. QED
    BY <1>1, <1>4, <2>5, <2>9, <2>10 DEF IInv, IdleInv
<1>7. CASE ~ (inSize = 0 /\ Len(avail) >= HeaderLen)
  <2>1. UNCHANGED <<inSize, avail>>
    BY <1>7 DEF Read
  <2>2. Laid(all, off)' /\ Placed(all, p)' /\ Parsed(off, p)'
    BY <1>1, <1>3, <2>1 DEF Laid, Placed, Parsed
  <2>3. StreamInv'
    BY <2>2 DEF StreamInv
  <2>4. TypeInv'
    BY <1>1, <1>5, <2>1 DEF TypeInv
  <2>5. IdleInv'
    <3>1. Len(avail) \in Nat /\ HeaderLen \in Nat /\ inSize \in Nat
      BY <1>1, HeaderAssumption DEF TypeInv
    <3>2. at' = "idle" => inSize = 0
      BY <1>5, <2>1, <3>1
    <3>3. inSize = 0 => Len(avail) < HeaderLen
      BY <1>7, <3>1
    <3>4. QED
      BY <2>1, <3>2, <3>3 DEF IdleInv
  <2>6. QED
    BY <1>1, <1>4, <2>3, <2>4, <2>5 DEF IInv
<1>8. QED
  BY <1>6, <1>7

\* The next message goes over to the other side.
Handed ==
  /\ Len(delivered) < Len(sent)
  /\ delivered' = Append(delivered, sent[Len(delivered) + 1])

\* The message is read on, never past its end, and delivered when it is whole.
LEMMA ReadDataStep ==
  ASSUME IInv, ReadData
  PROVE  IInv' /\ UNCHANGED <<up, sent>> /\ (Handed \/ UNCHANGED delivered)
<1>1. /\ TypeInv /\ DoneInv /\ UNCHANGED <<up, sent, wire, at>>
      /\ at = "readData" /\ avail # << >> /\ inSize > Len(inBuffer)
  BY DEF ReadData, IInv
<1>2. PICK all, off : \E p \in Nat : Laid(all, off) /\ Placed(all, p) /\ Parsed(off, p)
  BY DEF IInv, StreamInv
<1>3. PICK p \in Nat : Laid(all, off) /\ Placed(all, p) /\ Parsed(off, p)
  BY <1>2
<1>4. PICK k \in Nat, n \in Nat, v \in Nat, b \in Nat, z \in Nat :
         k = Len(delivered) /\ n = Len(sent) /\ v = Len(avail) /\ b = Len(inBuffer) /\ z = inSize
  BY <1>1 DEF TypeInv
<1>5. v > 0 /\ z > b /\ z # 0
  <2>1. v # 0
    BY <1>1, <1>4 DEF TypeInv
  <2>2. QED
    BY <1>1, <1>4, <2>1
<1>6. /\ k < n /\ z = Len(sent[k + 1]) /\ p = off[k] + HeaderLen + b
      /\ \A i \in 1 .. b : inBuffer[i] = sent[k + 1][i]
  BY <1>3, <1>4, <1>5 DEF Parsed
<1>7. k + 1 \in 1 .. n /\ (k + 1) - 1 = k /\ k \in 0 .. n
  BY <1>6
<1>8. PICK m \in Messages : m = sent[k + 1] /\ m \in Seq(Data) /\ Len(m) = z
  <2>1. sent[k + 1] \in Messages
    BY <1>1, <1>4, <1>7 DEF TypeInv
  <2>2. QED
    BY <1>6, <2>1, FrameFacts
<1>9. PICK o \in Nat : o = off[k] /\ off[k + 1] = o + HeaderLen + z
                       /\ \A j \in 1 .. z : all[o + HeaderLen + j] = m[j]
  <2>1. off[k] \in Nat
    BY <1>3, <1>4, <1>7 DEF Laid
  <2>2. /\ off[k + 1] = off[k] + HeaderLen + Len(sent[k + 1])
        /\ \A j \in 1 .. Len(sent[k + 1]) : all[off[k] + HeaderLen + j] = sent[k + 1][j]
    BY <1>3, <1>4, <1>7 DEF Laid
  <2>3. QED
    BY <1>6, <1>8, <2>1, <2>2
<1>10. HeaderLen \in Nat \ {0}
  BY HeaderAssumption
<1>11. PICK c \in Nat : c = Least(v, z - b)
  BY <1>5 DEF Least
<1>12. c >= 1 /\ c <= v /\ b + c <= z /\ (c = v \/ b + c = z)
  BY <1>5, <1>11 DEF Least
<1>13. p = o + HeaderLen + b
  BY <1>6, <1>9
<1>14. PICK first \in Seq(Data) : first = SubSeq(avail, 1, c) /\ Len(first) = c
                                  /\ \A i \in 1 .. c : first[i] = avail[i]
  <2>1. avail \in Seq(Data) /\ c <= Len(avail)
    BY <1>1, <1>4, <1>12 DEF TypeInv
  <2>2. /\ SubSeq(avail, 1, c) \in Seq(Data) /\ Len(SubSeq(avail, 1, c)) = c
        /\ \A i \in 1 .. c : SubSeq(avail, 1, c)[i] = avail[i]
    BY <2>1, Beginning
  <2>3. QED
    BY <2>2
<1>15. PICK buffer \in Seq(Data) :
          /\ buffer = inBuffer \o first /\ Len(buffer) = b + c
          /\ \A i \in 1 .. b : buffer[i] = inBuffer[i]
          /\ \A i \in 1 .. c : buffer[b + i] = first[i]
  <2>1. inBuffer \in Seq(Data)
    BY <1>1 DEF TypeInv
  <2>2. /\ inBuffer \o first \in Seq(Data) /\ Len(inBuffer \o first) = Len(inBuffer) + Len(first)
        /\ \A i \in 1 .. Len(inBuffer) : (inBuffer \o first)[i] = inBuffer[i]
        /\ \A i \in 1 .. Len(first) : (inBuffer \o first)[Len(inBuffer) + i] = first[i]
    BY <2>1, Joined
  <2>3. QED
    BY <1>4, <1>14, <2>2
<1>16. /\ avail' = SubSeq(avail, c + 1, Len(avail))
       /\ IF Len(buffer) >= inSize
          THEN inSize' = 0 /\ inBuffer' = << >> /\ delivered' = Append(delivered, buffer)
          ELSE inBuffer' = buffer /\ UNCHANGED <<inSize, delivered>>
  BY <1>4, <1>11, <1>14, <1>15 DEF ReadData
<1>17. \A i \in 1 .. (b + c) : buffer[i] = m[i]
  <2>1. \A i \in 1 .. v : avail[i] = all[p + i]
    BY <1>3, <1>4 DEF Placed
  <2>2. ASSUME NEW i \in 1 .. c
        PROVE  buffer[b + i] = m[b + i]
    <3>1. i \in 1 .. v /\ b + i \in 1 .. z /\ p + i = o + HeaderLen + (b + i)
      BY <1>10, <1>12, <1>13
    <3>2. avail[i] = all[p + i] /\ all[o + HeaderLen + (b + i)] = m[b + i]
      BY <1>9, <2>1, <3>1
    <3>3. QED
      BY <1>14, <1>15, <3>1, <3>2
  <2>3. ASSUME NEW i \in 1 .. (b + c)
        PROVE  buffer[i] = m[i]
    <3>1. CASE i \in 1 .. b
      BY <1>6, <1>8, <1>15, <3>1
    <3>2. CASE i \notin 1 .. b
      <4>1. PICK j \in 1 .. c : i = b + j
        <5>1. i - b \in 1 .. c /\ i = b + (i - b)
          BY <3>2
        <5>2. QED
          BY <5>1
      <4>2. QED
        BY <2>2, <4>1
    <3>3. QED
      BY <3>1, <3>2
  <2>4. QED
    BY <2>3
<1>18. avail' \in Seq(Data) /\ Laid(all, off)' /\ Placed(all, p + c)'
  <2>1. c <= Len(avail)
    BY <1>4, <1>12
  <2>2. QED
    BY <1>1, <1>3, <1>16, <2>1, Take
<1>19. IdleInv' /\ (~ up => wire = << >>)'
  BY <1>1 DEF IInv, IdleInv
<1>20. CASE b + c = z
  <2>1. inSize' = 0 /\ inBuffer' = << >> /\ delivered' = Append(delivered, buffer)
    <3>1. Len(buffer) >= inSize
      BY <1>4, <1>15, <1>20
    <3>2. QED
      BY <1>16, <3>1
  <2>2. buffer = m
    <3>1. Len(buffer) = Len(m) /\ \A i \in 1 .. Len(buffer) : buffer[i] = m[i]
      BY <1>8, <1>15, <1>17, <1>20
    <3>2. m \in Seq(Data)
      BY <1>8
    <3>3. QED
      BY <3>1, <3>2, Same
  <2>3. Handed
    BY <1>4, <1>6, <1>8, <2>1, <2>2 DEF Handed
  <2>4. /\ delivered' \in Seq(Messages) /\ Len(delivered') = k + 1
        /\ \A i \in 1 .. k : delivered'[i] = delivered[i]
        /\ delivered'[k + 1] = sent[k + 1]
    BY <1>1, <1>4, <1>8, <2>1, <2>2, Appended DEF TypeInv
  <2>5. Parsed(off, p + c)'
    <3>1. p + c = off[k + 1]
      BY <1>6, <1>9, <1>10, <1>20
    <3>2. QED
      BY <2>1, <2>4, <3>1 DEF Parsed
  <2>6. DoneInv'
    <3>1. \A i \in 1 .. (k + 1) : i \in 1 .. k \/ i = k + 1
      OBVIOUS
    <3>2. \A i \in 1 .. k : delivered[i] = sent[i]
      BY <1>1, <1>4 DEF DoneInv
    <3>3. k + 1 <= n
      BY <1>6
    <3>4. QED
      BY <1>1, <1>4, <2>4, <3>1, <3>2, <3>3 DEF DoneInv
  <2>7. TypeInv'
    <3>1. inBuffer' \in Seq(Data)
      <4>1. << >> \in Seq(Data)
        OBVIOUS
      <4>2. QED
        BY <2>1, <4>1
    <3>2. QED
      BY <1>1, <1>18, <2>1, <2>4, <3>1 DEF TypeInv
  <2>8. StreamInv'
    BY <1>18, <2>5 DEF StreamInv
  <2>9. QED
    BY <1>1, <1>19, <2>3, <2>6, <2>7, <2>8 DEF IInv
<1>21. CASE b + c # z
  <2>1. inBuffer' = buffer /\ UNCHANGED <<inSize, delivered>>
    <3>1. ~ (Len(buffer) >= inSize)
      <4>1. ~ (b + c >= z)
        BY <1>12, <1>21
      <4>2. Len(buffer) = b + c /\ inSize = z
        BY <1>4, <1>15
      <4>3. QED
        BY <4>1, <4>2
    <3>2. QED
      BY <1>16, <3>1
  <2>2. Parsed(off, p + c)'
    <3>1. p + c = off[k] + HeaderLen + (b + c)
      BY <1>6, <1>9, <1>10
    <3>2. b + c < z
      BY <1>12, <1>21
    <3>3. /\ Len(delivered') = k /\ Len(sent') = n /\ inSize' = z /\ Len(inBuffer') = b + c
          /\ sent'[k + 1] = m
      BY <1>1, <1>4, <1>8, <1>15, <2>1
    <3>4. \A i \in 1 .. Len(inBuffer') : inBuffer'[i] = sent'[k + 1][i]
      BY <1>17, <2>1, <3>3
    <3>5. inSize' # 0 /\ k < Len(sent') /\ inSize' = Len(sent'[k + 1]) /\ Len(inBuffer') < inSize'
      BY <1>5, <1>6, <1>8, <3>2, <3>3
    <3>6. QED
      BY <3>1, <3>3, <3>4, <3>5 DEF Parsed
  <2>3. TypeInv'
    BY <1>1, <1>18, <2>1 DEF TypeInv
  <2>4. StreamInv'
    BY <1>18, <2>2 DEF StreamInv
  <2>5. DoneInv'
    BY <1>1, <2>1 DEF DoneInv
  <2>6. QED
    BY <1>1, <1>19, <2>1, <2>3, <2>4, <2>5 DEF IInv
<1>22. QED
  BY <1>20, <1>21

\* Only the slot's place has changed.
LEMMA Unmoved ==
  ASSUME IInv, UNCHANGED <<up, sent, wire, avail, inSize, inBuffer, delivered>>
  PROVE  StreamInv' /\ DoneInv' /\ (~ up => wire = << >>)'
<1>1. PICK all, off : \E p \in Nat : Laid(all, off) /\ Placed(all, p) /\ Parsed(off, p)
  BY DEF IInv, StreamInv
<1>2. PICK p \in Nat : Laid(all, off) /\ Placed(all, p) /\ Parsed(off, p)
  BY <1>1
<1>3. Laid(all, off)'
  BY <1>2 DEF Laid
<1>4. Placed(all, p)'
  BY <1>2 DEF Placed
<1>5. Parsed(off, p)'
  BY <1>2 DEF Parsed
<1>6. StreamInv'
  BY <1>3, <1>4, <1>5 DEF StreamInv
<1>7. QED
  BY <1>6 DEF IInv, DoneInv

\* The loop of readData ends, or goes back to read.
LEMMA ReadEnds ==
  ASSUME IInv, ReadAgain \/ ReadReturns
  PROVE  IInv' /\ UNCHANGED <<up, sent, delivered>>
<1>1. /\ TypeInv /\ UNCHANGED <<up, sent, wire, avail, inSize, inBuffer, delivered>>
      /\ at' = "read" \/ (at' = "idle" /\ avail = << >>)
  BY DEF ReadAgain, ReadReturns, IInv
<1>2. StreamInv' /\ DoneInv' /\ (~ up => wire = << >>)'
  BY <1>1, Unmoved DEF IInv
<1>3. IdleInv'
  <2>1. avail = << >> => Len(avail) < HeaderLen
    BY HeaderAssumption
  <2>2. QED
    BY <1>1, <2>1 DEF IdleInv
<1>4. TypeInv'
  BY <1>1 DEF TypeInv
<1>5. QED
  BY <1>1, <1>2, <1>3, <1>4 DEF IInv
-----------------------------------------------------------------------------
LEMMA Inductive ==
  ASSUME IInv, [Next]_vars
  PROVE  IInv'
<1>1. CASE UNCHANGED vars
  BY <1>1, Unmoved DEF vars, IInv, TypeInv, IdleInv
<1>2. CASE Next
  BY <1>2, SendStep, ArriveStep, ReadStep, ReadDataStep, ReadEnds, CutStep DEF Next, Parse
<1>3. QED
  BY <1>1, <1>2

LEMMA Invariant == Spec => []IInv
<1>1. Init => IInv
  BY Initially
<1>2. IInv /\ [Next]_vars => IInv'
  BY Inductive
<1>3. QED
  BY <1>1, <1>2, PTL DEF Spec

\* No wake-up is missed: at rest, with nothing under way on a connection that
\* lasts, every message sent has been delivered (Client::read and readData).
THEOREM NoWakeUpMissed == Spec => []NothingLeftBehind
<1>1. ASSUME IInv, at = "idle", up, wire = << >>
      PROVE  delivered = sent
  <2>1. TypeInv /\ DoneInv /\ IdleInv
    BY <1>1 DEF IInv
  <2>2. PICK all, off : \E p \in Nat : Laid(all, off) /\ Placed(all, p) /\ Parsed(off, p)
    BY <1>1 DEF IInv, StreamInv
  <2>3. PICK p \in Nat : Laid(all, off) /\ Placed(all, p) /\ Parsed(off, p)
    BY <2>2
  <2>4. PICK k \in Nat, n \in Nat, v \in Nat, l \in Nat :
           k = Len(delivered) /\ n = Len(sent) /\ v = Len(avail) /\ l = Len(all)
    BY <2>1, <2>3, Lengths
  <2>5. p + v = l /\ k <= n /\ HeaderLen \in Nat
    <3>1. Len(wire) = 0
      BY <1>1
    <3>2. p + v + 0 = l
      BY <1>1, <2>3, <2>4, <3>1 DEF Placed
    <3>3. QED
      BY <2>1, <2>4, <3>2, HeaderAssumption DEF DoneInv
  <2>6. ASSUME k < n
        PROVE  FALSE
    <3>1. k + 1 \in 1 .. n /\ (k + 1) - 1 = k /\ k \in 0 .. n
      BY <2>6
    <3>2. PICK o \in Nat, z \in Nat \ {0} : o = off[k] /\ z = Len(sent[k + 1])
      <4>1. sent[k + 1] \in Messages /\ off[k] \in Nat
        BY <2>1, <2>3, <2>4, <3>1 DEF TypeInv, Laid
      <4>2. QED
        BY <4>1, FrameFacts
    <3>3. o + HeaderLen + z <= l
      <4>1. off[k + 1] = off[k] + HeaderLen + Len(sent[k + 1]) /\ off[k + 1] <= Len(all)
        BY <2>3, <2>4, <3>1 DEF Laid
      <4>2. QED
        BY <2>4, <3>2, <4>1
    <3>4. CASE inSize = 0
      <4>1. p = o /\ v < HeaderLen
        BY <1>1, <2>1, <2>3, <2>4, <3>2, <3>4 DEF Parsed, IdleInv
      <4>2. QED
        BY <2>5, <3>3, <4>1
    <3>5. CASE inSize # 0
      <4>1. v = 0
        BY <1>1, <2>1, <2>4, <3>5 DEF IdleInv
      <4>2. PICK b \in Nat : b < z /\ p = o + HeaderLen + b
        BY <2>1, <2>3, <2>4, <3>2, <3>5 DEF Parsed, TypeInv
      <4>3. QED
        BY <2>5, <3>3, <4>1, <4>2
    <3>6. QED
      BY <3>4, <3>5
  <2>7. k = n
    BY <2>5, <2>6
  <2>8. QED
    BY <2>1, <2>4, <2>7, Same DEF TypeInv, DoneInv
<1>2. IInv => NothingLeftBehind
  BY <1>1 DEF NothingLeftBehind
<1>3. QED
  BY <1>2, Invariant, PTL

\* Every step of the parser is a step of the queue of messages or none: what
\* dataReady is emitted with is what was given to send, each message once,
\* whole and in order, for every way of cutting the stream.
THEOREM DeliveredInOrder == Spec => Queue!InOrder
<1>1. Init => Queue!Init
  BY DEF Init, Queue!Init
<1>2. ASSUME IInv, [Next]_vars
      PROVE  [Queue!Next]_(Queue!vars)
  <2>1. CASE UNCHANGED vars
    BY <2>1 DEF vars, Queue!vars
  <2>2. CASE Send
    <3>1. Queue!Send
      BY <2>2 DEF Send, Queue!Send
    <3>2. QED
      BY <3>1 DEF Queue!Next
  <2>3. CASE Cut
    <3>1. Queue!Cut
      BY <2>3 DEF Cut, Queue!Cut
    <3>2. QED
      BY <3>1 DEF Queue!Next
  <2>4. CASE Arrive \/ Read \/ ReadAgain \/ ReadReturns
    <3>1. UNCHANGED <<up, sent, delivered>>
      BY <2>4 DEF Arrive, Read, ReadAgain, ReadReturns
    <3>2. QED
      BY <3>1 DEF Queue!vars
  <2>5. CASE ReadData
    <3>1. UNCHANGED <<up, sent>> /\ (Handed \/ UNCHANGED delivered)
      BY <1>2, <2>5, ReadDataStep
    <3>2. CASE Handed
      <4>1. Queue!Deliver
        BY <3>1, <3>2 DEF Handed, Queue!Deliver
      <4>2. QED
        BY <4>1 DEF Queue!Next
    <3>3. CASE UNCHANGED delivered
      BY <3>1, <3>3 DEF Queue!vars
    <3>4. QED
      BY <3>1, <3>2, <3>3
  <2>6. QED
    BY <1>2, <2>1, <2>2, <2>3, <2>4, <2>5 DEF Next, Parse
<1>3. QED
  BY <1>1, <1>2, Invariant, PTL DEF Spec, Queue!InOrder
=============================================================================
