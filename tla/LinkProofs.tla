----------------------------- MODULE LinkProofs -----------------------------
(***************************************************************************)
(* Link implements Channel in both directions, whatever the sizes of the   *)
(* messages and of the TCP buffers and however many messages are sent.     *)
(***************************************************************************)
EXTENDS Link, SequenceTheorems, TLAPS

Most(d) == IF d = "up" THEN MaxUp ELSE MaxDown

Message == [id : Nat, size : Nat]

-----------------------------------------------------------------------------
(* A stream s of the pieces of messages m. *)

\* Each piece is one of a message sent, and the next one follows it.
Chained(s, m) ==
  /\ \A i \in 1 .. Len(m) : m[i].id = i
  /\ \A k \in 1 .. Len(s) :
       s[k].id \in 1 .. Len(m) /\ s[k].size = m[s[k].id].size /\ s[k].part <= s[k].size
  /\ \A k \in 1 .. Len(s) : k > 1 =>
       IF s[k - 1].part < s[k - 1].size
       THEN s[k].id = s[k - 1].id /\ s[k].part = s[k - 1].part + 1
       ELSE s[k].id = s[k - 1].id + 1 /\ s[k].part = 0
  /\ Len(s) > 0 => s[1].id = 1 /\ s[1].part = 0

\* The stream ends with the last message.
Ended(s, m) ==
  IF Len(s) = 0 THEN Len(m) = 0 ELSE s[Len(s)].id = Len(m) /\ s[Len(s)].part = s[Len(s)].size

LEMMA FramedPieces ==
  ASSUME NEW id \in Nat, NEW size \in Nat
  PROVE  /\ Framed(id, size) \in Seq(Pieces) /\ Len(Framed(id, size)) = size + 1
         /\ \A k \in 1 .. size + 1 :
              Framed(id, size)[k] = [id |-> id, part |-> k - 1, size |-> size]
<1>1. \A k \in 1 .. size + 1 : [id |-> id, part |-> k - 1, size |-> size] \in Pieces
  BY DEF Pieces
<1>2. Framed(id, size) \in [1 .. size + 1 -> Pieces] /\ size + 1 \in Nat
  BY <1>1 DEF Framed
<1> QED
  BY <1>2 DEF Framed

\* t and mm are s and m with message number id added, after n pieces.
Longer(s, m, t, mm, n, id, size) ==
  /\ n = Len(s) /\ Len(t) = n + size + 1 /\ Len(mm) = id /\ Len(m) = id - 1
  /\ \A k \in 1 .. n : t[k] = s[k]
  /\ \A k \in n + 1 .. n + size + 1 : t[k].id = id /\ t[k].part = k - n - 1 /\ t[k].size = size
  /\ \A i \in 1 .. id - 1 : mm[i] = m[i]
  /\ mm[id].id = id /\ mm[id].size = size

LEMMA AppendedChain ==
  ASSUME NEW s \in Seq(Pieces), NEW m \in Seq(Message), Chained(s, m), Ended(s, m),
         NEW t \in Seq(Pieces), NEW mm \in Seq(Message), NEW n \in Nat, NEW size \in Nat, NEW id \in Nat,
         Longer(s, m, t, mm, n, id, size)
  PROVE  Chained(t, mm) /\ Ended(t, mm)
<1> USE DEF Longer
<1>0. id >= 1
  <2>1. Len(m) \in Nat
    OBVIOUS
  <2> QED
    BY <2>1
<1>1. ASSUME NEW i \in 1 .. id
      PROVE  mm[i].id = i
  <2>1. CASE i = id
    BY <2>1
  <2>2. CASE i # id
    <3>1. i \in 1 .. id - 1 /\ i \in 1 .. Len(m)
      BY <1>0, <2>2
    <3>2. m[i].id = i
      BY <3>1 DEF Chained
    <3> QED
      BY <3>1, <3>2
  <2> QED
    BY <2>1, <2>2
<1>2. ASSUME NEW k \in 1 .. Len(t)
      PROVE  t[k].id \in 1 .. id /\ t[k].size = mm[t[k].id].size /\ t[k].part <= t[k].size
  <2>1. CASE k \in 1 .. n
    <3>1. s[k].id \in 1 .. Len(m) /\ s[k].size = m[s[k].id].size /\ s[k].part <= s[k].size
      BY <2>1 DEF Chained
    <3>2. s[k].id \in 1 .. id - 1 /\ s[k].id \in 1 .. id /\ t[k] = s[k]
      BY <1>0, <2>1, <3>1
    <3>3. mm[s[k].id] = m[s[k].id]
      BY <3>2
    <3> QED
      BY <3>1, <3>2, <3>3
  <2>2. CASE k \in n + 1 .. n + size + 1
    <3>1. t[k].id = id /\ t[k].part = k - n - 1 /\ t[k].size = size
      BY <2>2
    <3>2. k - n - 1 <= size /\ id \in 1 .. id
      BY <1>0, <2>2
    <3>3. mm[t[k].id].size = size
      BY <3>1
    <3> QED
      BY <3>1, <3>2, <3>3
  <2> QED
    BY <2>1, <2>2
<1>3. ASSUME NEW k \in 1 .. Len(t), k > 1
      PROVE  IF t[k - 1].part < t[k - 1].size
             THEN t[k].id = t[k - 1].id /\ t[k].part = t[k - 1].part + 1
             ELSE t[k].id = t[k - 1].id + 1 /\ t[k].part = 0
  <2>1. CASE k \in 1 .. n
    <3>0. k - 1 \in 1 .. n
      BY <1>3, <2>1
    <3>1. k - 1 \in 1 .. n /\ t[k] = s[k] /\ t[k - 1] = s[k - 1]
      BY <2>1, <3>0
    <3>2. IF s[k - 1].part < s[k - 1].size
          THEN s[k].id = s[k - 1].id /\ s[k].part = s[k - 1].part + 1
          ELSE s[k].id = s[k - 1].id + 1 /\ s[k].part = 0
      <4>1. k \in 1 .. Len(s)
        BY <2>1
      <4> QED
        BY <1>3, <4>1 DEF Chained
    <3> QED
      BY <3>1, <3>2
  <2>2. CASE k = n + 1
    <3>1. n > 0 /\ k - 1 = n /\ n \in 1 .. n /\ t[n] = s[n]
      BY <1>3, <2>2
    <3>2. s[n].id = id - 1 /\ s[n].part = s[n].size
      BY <3>1 DEF Ended
    <3>3. s[n].size \in Nat
      <4>1. s[n] \in Pieces
        BY <3>1
      <4> QED
        BY <4>1 DEF Pieces
    <3>4. t[k].id = id /\ t[k].part = 0
      <4>1. k \in n + 1 .. n + size + 1 /\ k - n - 1 = 0
        BY <2>2
      <4> QED
        BY <4>1
    <3>5. ~(s[n].part < s[n].size) /\ id = s[n].id + 1
      BY <3>2, <3>3
    <3> QED
      BY <3>1, <3>4, <3>5
  <2>3. CASE k \in n + 2 .. n + size + 1
    <3>1. k - 1 \in n + 1 .. n + size + 1 /\ k \in n + 1 .. n + size + 1
      BY <2>3
    <3>2. /\ t[k].id = id /\ t[k].part = k - n - 1
          /\ t[k - 1].id = id /\ t[k - 1].part = k - 1 - n - 1 /\ t[k - 1].size = size
      BY <3>1
    <3>3. k - 1 - n - 1 < size /\ k - n - 1 = (k - 1 - n - 1) + 1
      BY <2>3
    <3> QED
      BY <3>2, <3>3
  <2> QED
    BY <1>3, <2>1, <2>2, <2>3
<1>4. t[1].id = 1 /\ t[1].part = 0
  <2>1. CASE n = 0
    <3>1. id = 1
      BY <2>1 DEF Ended
    <3>2. 1 \in n + 1 .. n + size + 1 /\ 1 - n - 1 = 0
      BY <2>1
    <3> QED
      BY <2>1, <3>1, <3>2
  <2>2. CASE n > 0
    BY <2>2 DEF Chained
  <2> QED
    BY <2>1, <2>2
<1>5. Ended(t, mm)
  <2>1. Len(t) \in n + 1 .. n + size + 1 /\ Len(t) # 0 /\ Len(t) - n - 1 = size
    OBVIOUS
  <2>2. t[Len(t)].id = id /\ t[Len(t)].part = size /\ t[Len(t)].size = size
    BY <2>1
  <2> QED
    BY <2>1, <2>2 DEF Ended
<1> QED
  BY <1>1, <1>2, <1>3, <1>4, <1>5 DEF Chained

LEMMA Joined ==
  ASSUME NEW s \in Seq(Pieces), NEW f \in Seq(Pieces), NEW n \in Nat, NEW c \in Nat,
         n = Len(s), c = Len(f)
  PROVE  /\ s \o f \in Seq(Pieces) /\ Len(s \o f) = n + c
         /\ \A k \in 1 .. n : (s \o f)[k] = s[k]
         /\ \A k \in n + 1 .. n + c : (s \o f)[k] = f[k - n]
<1> DEFINE t == s \o f
<1>1. /\ t \in Seq(Pieces) /\ Len(t) = n + c
      /\ \A k \in 1 .. n + c : t[k] = IF k <= n THEN s[k] ELSE f[k - n]
  <2>1. /\ t \in Seq(Pieces) /\ Len(t) = Len(s) + Len(f)
        /\ \A k \in 1 .. Len(s) + Len(f) : t[k] = IF k <= Len(s) THEN s[k] ELSE f[k - Len(s)]
    BY ConcatProperties
  <2> QED
    BY <2>1
<1> HIDE DEF t
<1>2. ASSUME NEW k \in 1 .. n PROVE t[k] = s[k]
  <2>1. k \in 1 .. n + c /\ k <= n
    OBVIOUS
  <2> QED
    BY <1>1, <2>1
<1>3. ASSUME NEW k \in n + 1 .. n + c PROVE t[k] = f[k - n]
  <2>1. k \in 1 .. n + c /\ ~(k <= n)
    OBVIOUS
  <2> QED
    BY <1>1, <2>1
<1> QED
  BY <1>1, <1>2, <1>3 DEF t

LEMMA Appended ==
  ASSUME NEW m \in Seq(Message), NEW id \in Nat, id = Len(m) + 1, NEW x \in Message
  PROVE  /\ Append(m, x) \in Seq(Message) /\ Len(Append(m, x)) = id /\ Len(m) = id - 1
         /\ \A i \in 1 .. id - 1 : Append(m, x)[i] = m[i]
         /\ Append(m, x)[id] = x
<1>1. Len(m) \in Nat /\ Len(m) = id - 1
  OBVIOUS
<1> QED
  BY <1>1, AppendProperties

LEMMA FramedChain ==
  ASSUME NEW s \in Seq(Pieces), NEW m \in Seq(Message), Chained(s, m), Ended(s, m), NEW size \in Nat
  PROVE  LET t == s \o Framed(Len(m) + 1, size)
             mm == Append(m, [id |-> Len(m) + 1, size |-> size])
         IN  /\ t \in Seq(Pieces) /\ Len(t) >= Len(s) /\ \A k \in 1 .. Len(s) : t[k] = s[k]
             /\ mm \in Seq(Message) /\ Chained(t, mm) /\ Ended(t, mm)
<1>1. PICK n \in Nat, id \in Nat : n = Len(s) /\ id = Len(m) + 1
  OBVIOUS
<1>2. PICK f \in Seq(Pieces) :
        /\ f = Framed(id, size) /\ Len(f) = size + 1
        /\ \A k \in 1 .. size + 1 : f[k] = [id |-> id, part |-> k - 1, size |-> size]
  BY FramedPieces
<1>3. PICK c \in Nat : c = size + 1
  OBVIOUS
<1>4. PICK t \in Seq(Pieces) :
        /\ t = s \o f /\ Len(t) = n + c
        /\ \A k \in 1 .. n : t[k] = s[k]
        /\ \A k \in n + 1 .. n + c : t[k] = f[k - n]
  <2>1. c = Len(f)
    BY <1>2, <1>3
  <2>2. /\ s \o f \in Seq(Pieces) /\ Len(s \o f) = n + c
        /\ \A k \in 1 .. n : (s \o f)[k] = s[k]
        /\ \A k \in n + 1 .. n + c : (s \o f)[k] = f[k - n]
    BY <1>1, <2>1, Joined
  <2> QED
    BY <2>2, Zenon
<1>5. PICK x \in Message : x = [id |-> id, size |-> size]
  BY DEF Message
<1>6. PICK mm \in Seq(Message) :
        /\ mm = Append(m, x) /\ Len(mm) = id /\ Len(m) = id - 1
        /\ \A i \in 1 .. id - 1 : mm[i] = m[i]
        /\ mm[id] = x
  BY <1>1, Appended
<1>7. x.id = id /\ x.size = size
  BY <1>5
<1>8. Len(t) = n + size + 1
  <2>1. Len(t) = n + c
    BY <1>4
  <2> QED
    BY <2>1, <1>3
<1>9. ASSUME NEW k \in n + 1 .. n + size + 1
      PROVE  t[k].id = id /\ t[k].part = k - n - 1 /\ t[k].size = size
  <2>1. k \in n + 1 .. n + c /\ k - n \in 1 .. size + 1
    BY <1>3
  <2>2. t[k] = f[k - n]
    BY <1>4, <2>1
  <2>3. f[k - n] = [id |-> id, part |-> k - n - 1, size |-> size]
    BY <1>2, <2>1
  <2> QED
    BY <2>2, <2>3
<1>10. Chained(t, mm) /\ Ended(t, mm)
  <2>1. mm[id].id = id /\ mm[id].size = size
    BY <1>6, <1>7
  <2>2. n = Len(s) /\ \A k \in 1 .. n : t[k] = s[k]
    BY <1>1, <1>4
  <2>3. Len(mm) = id /\ Len(m) = id - 1 /\ \A i \in 1 .. id - 1 : mm[i] = m[i]
    BY <1>6
  <2>4. Longer(s, m, t, mm, n, id, size)
    BY <1>8, <1>9, <2>1, <2>2, <2>3 DEF Longer
  <2> QED
    BY <2>4, AppendedChain
<1>11. t = s \o Framed(Len(m) + 1, size)
  BY <1>1, <1>2, <1>4
<1>12. mm = Append(m, [id |-> Len(m) + 1, size |-> size])
  BY <1>1, <1>5, <1>6
<1>13. Len(t) >= Len(s) /\ \A k \in 1 .. Len(s) : t[k] = s[k]
  <2>1. \A k \in 1 .. Len(s) : t[k] = s[k]
    BY <1>1, <1>4
  <2>2. n + c >= n /\ Len(t) = n + c /\ n = Len(s)
    BY <1>1, <1>4
  <2> QED
    BY <2>1, <2>2
<1> QED
  BY <1>10, <1>11, <1>12, <1>13

-----------------------------------------------------------------------------
(* One direction: stream s, written w, read r, message_length l with mi pieces *)
(* missing, messages m sent and g received.                                *)

Dir(d, s, w, r, l, mi, m, g) ==
  /\ s \in Seq(Pieces) /\ m \in Seq(Messages(d)) /\ g \in Seq(Messages(d))
  /\ w \in Nat /\ r \in Nat /\ r <= w /\ w <= Len(s) /\ w - r <= Room[d]
  /\ l \in Nat /\ mi \in Nat /\ mi <= l /\ (d = "up" => l <= RecvLimit)
  /\ Chained(s, m)

\* Where the receiver is: after a message, or inside one.
Placed(s, r, l, mi, g) ==
  IF mi = 0
  THEN IF r = 0 THEN Len(g) = 0 ELSE s[r].id = Len(g) /\ s[r].part = s[r].size
  ELSE r > 0 /\ s[r].id = Len(g) + 1 /\ s[r].size = l /\ s[r].part + mi = l

LEMMA MessageIs ==
  ASSUME NEW d \in Dirs, NEW x \in Messages(d)
  PROVE  x \in Message /\ x = [id |-> x.id, size |-> x.size]
<1>1. ASSUME NEW n \in Nat, NEW S \in SUBSET Nat, x \in [id : 1 .. n, size : S]
      PROVE  x \in Message /\ x = [id |-> x.id, size |-> x.size]
  <2>1. x.id \in Nat /\ x.size \in Nat
    <3>1. x.id \in 1 .. n /\ x.size \in S
      BY <1>1
    <3>2. S \subseteq Nat /\ 1 .. n \subseteq Nat
      OBVIOUS
    <3> QED
      BY <3>1, <3>2
  <2>2. x = [id |-> x.id, size |-> x.size]
    BY <1>1
  <2> QED
    BY <2>1, <2>2 DEF Message
<1>2. CASE d = "up"
  BY <1>1, <1>2, SizesAssumption, LimitAssumption DEF Messages
<1>3. CASE d # "up"
  BY <1>1, <1>3, SizesAssumption, LimitAssumption DEF Messages
<1> QED
  BY <1>2, <1>3

LEMMA MessagesAre ==
  ASSUME NEW d \in Dirs, NEW m \in Seq(Messages(d))
  PROVE  m \in Seq(Message)
<1>1. Messages(d) \subseteq Message
  BY MessageIs
<1> QED
  BY <1>1, SeqMonotonic

LEMMA PieceIs ==
  ASSUME NEW s \in Seq(Pieces), NEW k \in 1 .. Len(s)
  PROVE  s[k].id \in Nat /\ s[k].part \in Nat /\ s[k].size \in Nat
<1>1. s[k] \in Pieces
  OBVIOUS
<1> QED
  BY <1>1 DEF Pieces

\* The receiver has something to read.
Ahead(s, m, r, l, mi, g) ==
  /\ s \in Seq(Pieces) /\ m \in Seq(Message) /\ Chained(s, m) /\ r \in Nat /\ r < Len(s)
  /\ l \in Nat /\ mi \in Nat /\ Len(g) \in Nat /\ Placed(s, r, l, mi, g)

LEMMA NextPiece ==
  ASSUME NEW s, NEW m, NEW r, NEW l, NEW g, Ahead(s, m, r, l, 0, g), NEW q, q = s[r + 1]
  PROVE  /\ q.id = Len(g) + 1 /\ q.part = 0 /\ q.size \in Nat
         /\ q.id \in 1 .. Len(m) /\ q.size = m[q.id].size /\ m[q.id].id = q.id
<1> USE DEF Ahead
<1>1. r + 1 \in 1 .. Len(s)
  OBVIOUS
<1>2. q.size \in Nat /\ q.id \in Nat
  BY <1>1, PieceIs
<1>3. q.id \in 1 .. Len(m) /\ q.size = m[q.id].size
  BY <1>1 DEF Chained
<1>4. m[q.id].id = q.id
  BY <1>3 DEF Chained
<1>5. q.id = Len(g) + 1 /\ q.part = 0
  <2>1. CASE r = 0
    <3>1. s[1].id = 1 /\ s[1].part = 0
      BY <1>1, <2>1 DEF Chained
    <3>2. Len(g) = 0
      BY <2>1 DEF Placed
    <3> QED
      BY <2>1, <3>1, <3>2
  <2>2. CASE r > 0
    <3>1. s[r].id = Len(g) /\ s[r].part = s[r].size
      BY <2>2 DEF Placed
    <3>2. r \in 1 .. Len(s)
      BY <2>2
    <3>3. s[r].size \in Nat
      BY <3>2, PieceIs
    <3>4. ~(s[r].part < s[r].size)
      BY <3>1, <3>3
    <3>5. IF s[r + 1 - 1].part < s[r + 1 - 1].size
          THEN s[r + 1].id = s[r + 1 - 1].id /\ s[r + 1].part = s[r + 1 - 1].part + 1
          ELSE s[r + 1].id = s[r + 1 - 1].id + 1 /\ s[r + 1].part = 0
      <4>1. r + 1 > 1
        BY <2>2
      <4> QED
        BY <1>1, <4>1 DEF Chained
    <3>6. r + 1 - 1 = r
      OBVIOUS
    <3> QED
      BY <3>1, <3>4, <3>5, <3>6
  <2> QED
    BY <2>1, <2>2
<1> QED
  BY <1>2, <1>3, <1>4, <1>5

LEMMA BodyPiece ==
  ASSUME NEW s, NEW m, NEW r, NEW l, NEW mi, NEW g, Ahead(s, m, r, l, mi, g), mi > 0,
         NEW q, q = s[r + 1]
  PROVE  /\ q.id = Len(g) + 1 /\ q.size = l /\ q.part + (mi - 1) = l
         /\ q.id \in 1 .. Len(m) /\ m[q.id].size = l /\ m[q.id].id = q.id
<1> USE DEF Ahead
<1>1. r + 1 \in 1 .. Len(s) /\ r \in 1 .. Len(s) /\ r > 0
  BY DEF Placed
<1>2. q.id \in 1 .. Len(m) /\ q.size = m[q.id].size
  BY <1>1 DEF Chained
<1>3. m[q.id].id = q.id
  BY <1>2 DEF Chained
<1>4. s[r].id = Len(g) + 1 /\ s[r].size = l /\ s[r].part + mi = l
  BY DEF Placed
<1>5. s[r].part \in Nat
  BY <1>1, PieceIs
<1>6. s[r].part < s[r].size /\ s[r].part + 1 + (mi - 1) = l
  BY <1>4, <1>5
<1>7. q.id = s[r].id /\ q.part = s[r].part + 1
  <2>1. IF s[r + 1 - 1].part < s[r + 1 - 1].size
        THEN s[r + 1].id = s[r + 1 - 1].id /\ s[r + 1].part = s[r + 1 - 1].part + 1
        ELSE s[r + 1].id = s[r + 1 - 1].id + 1 /\ s[r + 1].part = 0
    <3>1. r + 1 > 1
      BY <1>1
    <3> QED
      BY <1>1, <3>1 DEF Chained
  <2>2. r + 1 - 1 = r
    OBVIOUS
  <2> QED
    BY <1>6, <2>1, <2>2
<1>8. s[r].size = m[s[r].id].size
  BY <1>1 DEF Chained
<1>9. m[q.id].size = l
  BY <1>4, <1>7, <1>8
<1> QED
  BY <1>2, <1>3, <1>4, <1>6, <1>7, <1>9

LEMMA SentPiece ==
  ASSUME NEW d \in Dirs, NEW m \in Seq(Messages(d)), NEW i \in 1 .. Len(m), m[i].id = i
  PROVE  m[i] \in Messages(d) /\ m[i] = [id |-> i, size |-> m[i].size]
<1>1. m[i] \in Messages(d)
  OBVIOUS
<1> QED
  BY <1>1, MessageIs

\* A message is received: the next one of those sent.
Received(d, m, g, gg) ==
  gg = g \/ (Len(g) < Len(m) /\ gg = Append(g, m[Len(g) + 1]) /\ gg \in Seq(Messages(d)))

\* The next message to receive is number id, x.
Turn(d, m, g, id, x) ==
  /\ m \in Seq(Messages(d)) /\ g \in Seq(Messages(d))
  /\ id = Len(g) + 1 /\ id \in 1 .. Len(m) /\ m[id].id = id /\ x = [id |-> id, size |-> m[id].size]

LEMMA ReceivedNext ==
  ASSUME NEW d \in Dirs, NEW m, NEW g, NEW id, NEW x, Turn(d, m, g, id, x)
  PROVE  /\ Received(d, m, g, Append(g, x)) /\ Append(g, x) \in Seq(Messages(d))
         /\ Len(Append(g, x)) = id
<1> USE DEF Turn
<1>1. x = m[id] /\ x \in Messages(d)
  BY SentPiece
<1>2. Append(g, x) \in Seq(Messages(d)) /\ Len(Append(g, x)) = Len(g) + 1
  BY <1>1, AppendProperties
<1>3. Len(g) < Len(m)
  <2>1. Len(g) \in Nat /\ Len(m) \in Nat
    OBVIOUS
  <2> QED
    BY <2>1
<1> QED
  BY <1>1, <1>2, <1>3 DEF Received

\* What has been received once prefix q is read.
AfterPrefix(g, q) == IF q.size = 0 THEN Append(g, [id |-> q.id, size |-> 0]) ELSE g

Fits(d, q) == d = "up" => q.size <= RecvLimit

LEMMA PrefixRead ==
  ASSUME NEW d \in Dirs, NEW s, NEW w, NEW r, NEW l, NEW m, NEW g,
         Dir(d, s, w, r, l, 0, m, g), Placed(s, r, l, 0, g), r < w,
         NEW q, q = s[r + 1], Fits(d, q), NEW gg, gg = AfterPrefix(g, q)
  PROVE  /\ Dir(d, s, w, r + 1, q.size, q.size, m, gg) /\ Placed(s, r + 1, q.size, q.size, gg)
         /\ Received(d, m, g, gg)
<1> USE DEF AfterPrefix, Fits
<1>1. /\ s \in Seq(Pieces) /\ m \in Seq(Messages(d)) /\ g \in Seq(Messages(d))
      /\ w \in Nat /\ r \in Nat /\ w <= Len(s) /\ w - r <= Room[d] /\ l \in Nat /\ Chained(s, m)
  BY DEF Dir
<1>2. m \in Seq(Message) /\ r < Len(s) /\ Len(g) \in Nat /\ Len(s) \in Nat /\ Room[d] \in Nat
  <2>1. m \in Seq(Message)
    BY <1>1, MessagesAre
  <2>2. Len(s) \in Nat /\ Len(g) \in Nat /\ Room[d] \in Nat
    BY <1>1, RoomAssumption
  <2> QED
    BY <1>1, <2>1, <2>2
<1>3. /\ q.id = Len(g) + 1 /\ q.part = 0 /\ q.size \in Nat
      /\ q.id \in 1 .. Len(m) /\ q.size = m[q.id].size /\ m[q.id].id = q.id
  <2>1. Ahead(s, m, r, l, 0, g)
    BY <1>1, <1>2 DEF Ahead
  <2> QED
    BY <2>1, NextPiece
<1>4. r + 1 \in Nat /\ r + 1 <= w /\ w - (r + 1) <= Room[d] /\ r + 1 # 0 /\ r + 1 > 0
  BY <1>1, <1>2
<1>5. CASE q.size = 0
  <2>1. /\ Received(d, m, g, gg) /\ gg \in Seq(Messages(d)) /\ Len(gg) = q.id
    <3>1. PICK x : x = [id |-> q.id, size |-> m[q.id].size]
      OBVIOUS
    <3>2. Turn(d, m, g, q.id, x)
      BY <1>1, <1>3, <3>1 DEF Turn
    <3>3. gg = Append(g, x)
      BY <1>3, <1>5, <3>1
    <3> QED
      BY <3>2, <3>3, ReceivedNext
  <2>2. Placed(s, r + 1, q.size, q.size, gg)
    BY <1>3, <1>4, <1>5, <2>1 DEF Placed
  <2>3. Dir(d, s, w, r + 1, q.size, q.size, m, gg)
    BY <1>1, <1>3, <1>4, <2>1 DEF Dir
  <2> QED
    BY <2>1, <2>2, <2>3
<1>6. CASE q.size # 0
  <2>1. gg = g /\ Received(d, m, g, gg)
    BY <1>6 DEF Received
  <2>2. Placed(s, r + 1, q.size, q.size, gg)
    BY <1>3, <1>4, <1>6, <2>1 DEF Placed
  <2>3. Dir(d, s, w, r + 1, q.size, q.size, m, gg)
    BY <1>1, <1>3, <1>4, <2>1 DEF Dir
  <2> QED
    BY <2>1, <2>2, <2>3
<1> QED
  BY <1>5, <1>6

LEMMA BodyRead ==
  ASSUME NEW d \in Dirs, NEW s, NEW w, NEW r, NEW l, NEW mi, NEW m, NEW g,
         Dir(d, s, w, r, l, mi, m, g), Placed(s, r, l, mi, g), r < w, mi > 0,
         NEW q, q = s[r + 1],
         NEW gg, gg = IF mi = 1 THEN Append(g, [id |-> q.id, size |-> l]) ELSE g
  PROVE  /\ Dir(d, s, w, r + 1, l, mi - 1, m, gg) /\ Placed(s, r + 1, l, mi - 1, gg)
         /\ Received(d, m, g, gg)
<1>1. /\ s \in Seq(Pieces) /\ m \in Seq(Messages(d)) /\ g \in Seq(Messages(d))
      /\ w \in Nat /\ r \in Nat /\ w <= Len(s) /\ w - r <= Room[d]
      /\ l \in Nat /\ mi \in Nat /\ mi <= l /\ (d = "up" => l <= RecvLimit) /\ Chained(s, m)
  BY DEF Dir
<1>2. m \in Seq(Message) /\ r < Len(s) /\ Len(g) \in Nat /\ Len(s) \in Nat /\ Room[d] \in Nat
  <2>1. m \in Seq(Message)
    BY <1>1, MessagesAre
  <2>2. Len(s) \in Nat /\ Len(g) \in Nat /\ Room[d] \in Nat
    BY <1>1, RoomAssumption
  <2> QED
    BY <1>1, <2>1, <2>2
<1>3. /\ q.id = Len(g) + 1 /\ q.size = l /\ q.part + (mi - 1) = l
      /\ q.id \in 1 .. Len(m) /\ m[q.id].size = l /\ m[q.id].id = q.id
  <2>1. Ahead(s, m, r, l, mi, g)
    BY <1>1, <1>2 DEF Ahead
  <2> QED
    BY <2>1, BodyPiece
<1>4. /\ r + 1 \in Nat /\ r + 1 <= w /\ w - (r + 1) <= Room[d] /\ r + 1 # 0 /\ r + 1 > 0
      /\ mi - 1 \in Nat /\ mi - 1 <= l
  BY <1>1, <1>2
<1>5. CASE mi = 1
  <2>1. /\ Received(d, m, g, gg) /\ gg \in Seq(Messages(d)) /\ Len(gg) = q.id
    <3>1. PICK x : x = [id |-> q.id, size |-> m[q.id].size]
      OBVIOUS
    <3>2. Turn(d, m, g, q.id, x)
      BY <1>1, <1>3, <3>1 DEF Turn
    <3>3. gg = Append(g, x)
      BY <1>3, <1>5, <3>1
    <3> QED
      BY <3>2, <3>3, ReceivedNext
  <2>2. Placed(s, r + 1, l, mi - 1, gg)
    <3>1. r + 1 \in 1 .. Len(s)
      BY <1>1, <1>2
    <3>2. q.part \in Nat
      BY <1>1, <3>1, PieceIs
    <3>3. mi - 1 = 0 /\ q.part = l
      BY <1>3, <1>5, <3>2
    <3> QED
      BY <1>3, <1>4, <2>1, <3>3 DEF Placed
  <2>3. Dir(d, s, w, r + 1, l, mi - 1, m, gg)
    BY <1>1, <1>4, <2>1 DEF Dir
  <2> QED
    BY <2>1, <2>2, <2>3
<1>6. CASE mi # 1
  <2>1. gg = g /\ Received(d, m, g, gg)
    BY <1>6 DEF Received
  <2>2. mi - 1 # 0
    BY <1>1, <1>6
  <2>3. Placed(s, r + 1, l, mi - 1, gg)
    BY <1>3, <1>4, <2>1, <2>2 DEF Placed
  <2>4. Dir(d, s, w, r + 1, l, mi - 1, m, gg)
    BY <1>1, <1>4, <2>1 DEF Dir
  <2> QED
    BY <2>1, <2>3, <2>4
<1> QED
  BY <1>5, <1>6

\* The receiver's place in s is its place in t.
SamePlace(s, t, r, l, mi, g) == Placed(s, r, l, mi, g) => Placed(t, r, l, mi, g)

LEMMA PlacedKept ==
  ASSUME NEW s, NEW t, NEW r \in Nat, NEW l, NEW mi, NEW g,
         \A k \in 1 .. r : t[k] = s[k], Placed(s, r, l, mi, g)
  PROVE  Placed(t, r, l, mi, g)
<1>1. CASE r = 0
  BY <1>1 DEF Placed
<1>2. CASE r # 0
  <2>1. r \in 1 .. r
    BY <1>2
  <2> QED
    BY <2>1 DEF Placed
<1> QED
  BY <1>1, <1>2

LEMMA Sized ==
  ASSUME NEW d \in Dirs, NEW id \in 1 .. Most(d), NEW size,
         size \in (IF d = "up" THEN UpSizes ELSE DownSizes)
  PROVE  [id |-> id, size |-> size] \in Messages(d) /\ size \in Nat
<1>1. CASE d = "up"
  BY <1>1, SizesAssumption DEF Messages, Most
<1>2. CASE d # "up"
  BY <1>2, SizesAssumption DEF Messages, Most
<1> QED
  BY <1>1, <1>2

\* A message of this size may be begun.
MayBegin(d, s, w, r, l, mi, m, g, size) ==
  /\ Dir(d, s, w, r, l, mi, m, g) /\ Ended(s, m) /\ Len(m) < Most(d)
  /\ size \in (IF d = "up" THEN UpSizes ELSE DownSizes)

LEMMA Begun ==
  ASSUME NEW d \in Dirs, NEW s, NEW w, NEW r, NEW l, NEW mi, NEW m, NEW g, NEW size,
         MayBegin(d, s, w, r, l, mi, m, g, size),
         NEW t, t = s \o Framed(Len(m) + 1, size),
         NEW mm, mm = Append(m, [id |-> Len(m) + 1, size |-> size])
  PROVE  /\ Dir(d, t, w, r, l, mi, mm, g) /\ Ended(t, mm)
         /\ SamePlace(s, t, r, l, mi, g)
         /\ [id |-> Len(m) + 1, size |-> size] \in Messages(d)
<1> USE DEF MayBegin
<1>1. /\ s \in Seq(Pieces) /\ m \in Seq(Messages(d)) /\ g \in Seq(Messages(d))
      /\ w \in Nat /\ r \in Nat /\ r <= w /\ w <= Len(s) /\ w - r <= Room[d]
      /\ l \in Nat /\ mi \in Nat /\ mi <= l /\ (d = "up" => l <= RecvLimit) /\ Chained(s, m)
  BY DEF Dir
<1>2. m \in Seq(Message)
  BY <1>1, MessagesAre
<1>3. Len(m) + 1 \in 1 .. Most(d)
  <2>1. Len(m) \in Nat /\ Most(d) \in Nat
    BY <1>1, LimitAssumption DEF Most
  <2> QED
    BY <2>1
<1>4. [id |-> Len(m) + 1, size |-> size] \in Messages(d) /\ size \in Nat
  BY <1>3, Sized
<1>5. mm \in Seq(Messages(d))
  BY <1>1, <1>4, AppendProperties
<1>6. /\ t \in Seq(Pieces) /\ Len(t) >= Len(s) /\ \A k \in 1 .. Len(s) : t[k] = s[k]
      /\ Chained(t, mm) /\ Ended(t, mm)
  BY <1>1, <1>2, <1>4, FramedChain
<1>7. w <= Len(t) /\ r \in 0 .. Len(s)
  <2>1. Len(s) \in Nat /\ Len(t) \in Nat
    BY <1>1, <1>6
  <2>2. Len(t) >= Len(s)
    BY <1>6
  <2> QED
    BY <1>1, <2>1, <2>2
<1>8. Dir(d, t, w, r, l, mi, mm, g)
  BY <1>1, <1>5, <1>6, <1>7 DEF Dir
<1>9. ASSUME Placed(s, r, l, mi, g) PROVE Placed(t, r, l, mi, g)
  <2>1. 1 .. r \subseteq 1 .. Len(s)
    BY <1>7
  <2>2. \A k \in 1 .. r : t[k] = s[k]
    BY <1>6, <2>1
  <2> QED
    BY <1>1, <1>9, <2>2, PlacedKept
<1> QED
  BY <1>4, <1>6, <1>8, <1>9 DEF SamePlace

LEMMA CutShort ==
  ASSUME NEW d \in Dirs, NEW s, NEW w, NEW r, NEW l, NEW mi, NEW m, NEW g,
         Dir(d, s, w, r, l, mi, m, g), NEW t, t = SubSeq(s, 1, w)
  PROVE  /\ Dir(d, t, w, r, l, mi, m, g)
         /\ SamePlace(s, t, r, l, mi, g)
<1>1. /\ s \in Seq(Pieces) /\ m \in Seq(Messages(d)) /\ g \in Seq(Messages(d))
      /\ w \in Nat /\ r \in Nat /\ r <= w /\ w <= Len(s) /\ w - r <= Room[d]
      /\ l \in Nat /\ mi \in Nat /\ mi <= l /\ (d = "up" => l <= RecvLimit) /\ Chained(s, m)
  BY DEF Dir
<1>2. PICK n \in Nat : n = Len(s)
  BY <1>1
<1>3. 1 .. w \subseteq 1 .. n
  BY <1>1, <1>2
<1>4. t \in Seq(Pieces) /\ Len(t) = w /\ \A k \in 1 .. w : t[k] = s[k]
  <2>1. \A k \in 1 .. w : s[k] \in Pieces
    BY <1>1, <1>2, <1>3
  <2>2. /\ SubSeq(s, 1, w) \in Seq(Pieces)
        /\ Len(SubSeq(s, 1, w)) = IF 1 <= w THEN w - 1 + 1 ELSE 0
        /\ \A k \in 1 .. w - 1 + 1 : SubSeq(s, 1, w)[k] = s[1 + k - 1]
    BY <1>1, <2>1, SubSeqProperties
  <2>3. w - 1 + 1 = w /\ \A k \in 1 .. w : 1 + k - 1 = k
    BY <1>1
  <2>4. (IF 1 <= w THEN w - 1 + 1 ELSE 0) = w
    BY <1>1
  <2> QED
    BY <2>2, <2>3, <2>4
<1>5. Chained(t, m)
  <2>1. \A i \in 1 .. Len(m) : m[i].id = i
    BY <1>1 DEF Chained
  <2>2. ASSUME NEW k \in 1 .. w
        PROVE  t[k].id \in 1 .. Len(m) /\ t[k].size = m[t[k].id].size /\ t[k].part <= t[k].size
    <3>1. k \in 1 .. Len(s) /\ t[k] = s[k]
      BY <1>2, <1>3, <1>4
    <3> QED
      BY <1>1, <3>1 DEF Chained
  <2>3. ASSUME NEW k \in 1 .. w, k > 1
        PROVE  IF t[k - 1].part < t[k - 1].size
               THEN t[k].id = t[k - 1].id /\ t[k].part = t[k - 1].part + 1
               ELSE t[k].id = t[k - 1].id + 1 /\ t[k].part = 0
    <3>1. k \in 1 .. Len(s)
      BY <1>2, <1>3
    <3>2. k - 1 \in 1 .. w
      BY <1>1, <2>3
    <3>3. t[k] = s[k] /\ t[k - 1] = s[k - 1]
      BY <1>4, <3>2
    <3>4. IF s[k - 1].part < s[k - 1].size
          THEN s[k].id = s[k - 1].id /\ s[k].part = s[k - 1].part + 1
          ELSE s[k].id = s[k - 1].id + 1 /\ s[k].part = 0
      BY <1>1, <2>3, <3>1 DEF Chained
    <3> QED
      BY <3>3, <3>4
  <2>4. w > 0 => t[1].id = 1 /\ t[1].part = 0
    <3>1. ASSUME w > 0 PROVE t[1].id = 1 /\ t[1].part = 0
      <4>1. 1 \in 1 .. w /\ Len(s) > 0
        BY <1>1, <1>2, <3>1
      <4>2. t[1] = s[1] /\ s[1].id = 1 /\ s[1].part = 0
        BY <1>1, <1>4, <4>1 DEF Chained
      <4> QED
        BY <4>2
    <3> QED
      BY <3>1
  <2> QED
    BY <1>4, <2>1, <2>2, <2>3, <2>4 DEF Chained
<1>6. Dir(d, t, w, r, l, mi, m, g)
  BY <1>1, <1>4, <1>5 DEF Dir
<1>7. ASSUME Placed(s, r, l, mi, g) PROVE Placed(t, r, l, mi, g)
  <2>1. 1 .. r \subseteq 1 .. w
    BY <1>1
  <2>2. \A k \in 1 .. r : t[k] = s[k]
    BY <1>4, <2>1
  <2> QED
    BY <1>1, <1>7, <2>2, PlacedKept
<1> QED
  BY <1>6, <1>7 DEF SamePlace

-----------------------------------------------------------------------------
(* The inductive invariant, and the step of Channel each step is.          *)

Shape ==
  /\ stream \in [Dirs -> Seq(Pieces)]
  /\ written \in [Dirs -> Nat] /\ read \in [Dirs -> Nat]
  /\ length \in [Dirs -> Nat] /\ missing \in [Dirs -> Nat]
  /\ sent \in [Dirs -> Seq(Message)] /\ got \in [Dirs -> Seq(Message)]

Ends ==
  /\ left \in Nat /\ queued \in Nat
  /\ alive \in BOOLEAN /\ closed \in BOOLEAN /\ gone \in BOOLEAN

Typed(d) == Dir(d, stream[d], written[d], read[d], length[d], missing[d], sent[d], got[d])

\* Only what the plugin sends may be cut short, when the session has ended.
Whole(d) == (d = "down" /\ (gone \/ closed)) \/ Ended(stream[d], sent[d])

\* Only a message from the client may have been refused, and it ended the session.
InPlace(d) == (d = "up" /\ closed) \/ Placed(stream[d], read[d], length[d], missing[d], got[d])

IInv == Shape /\ Ends /\ \A d \in Dirs : Typed(d) /\ Whole(d) /\ InPlace(d)

Stays(d) == sent'[d] = sent[d] /\ got'[d] = got[d]

\* The step of Channel in direction d.
StepOf(d) ==
  \/ Stays(d)
  \/ got'[d] = got[d] /\ \E m \in Messages(d) : sent'[d] = Append(sent[d], m)
  \/ sent'[d] = sent[d] /\ Received(d, sent[d], got[d], got'[d])

Good == IInv' /\ \A d \in Dirs : StepOf(d)

\* Direction e is not touched, and the session does not start again.
Still(e) ==
  /\ stream'[e] = stream[e] /\ written'[e] = written[e] /\ read'[e] = read[e]
  /\ length'[e] = length[e] /\ missing'[e] = missing[e]
  /\ sent'[e] = sent[e] /\ got'[e] = got[e]
  /\ (gone => gone') /\ (closed => closed')

LEMMA StillGood ==
  ASSUME NEW e \in Dirs, Typed(e), Whole(e), InPlace(e), Still(e)
  PROVE  Typed(e)' /\ Whole(e)' /\ InPlace(e)' /\ StepOf(e)
<1>1. Typed(e)'
  BY DEF Typed, Still
<1>2. Whole(e)'
  BY DEF Whole, Still
<1>3. InPlace(e)'
  BY DEF InPlace, Still
<1>4. StepOf(e)
  BY DEF Still, StepOf, Stays
<1> QED
  BY <1>1, <1>2, <1>3, <1>4

\* One direction changes.
LEMMA OneGood ==
  ASSUME IInv, NEW d \in Dirs, Shape', Ends',
         Typed(d)', Whole(d)', InPlace(d)', StepOf(d),
         \A e \in Dirs \ {d} : Still(e)
  PROVE  Good
<1>1. ASSUME NEW e \in Dirs
      PROVE  Typed(e)' /\ Whole(e)' /\ InPlace(e)' /\ StepOf(e)
  <2>1. CASE e = d
    BY <2>1
  <2>2. CASE e # d
    <3>1. Typed(e) /\ Whole(e) /\ InPlace(e) /\ Still(e)
      BY <2>2 DEF IInv
    <3> QED
      BY <3>1, StillGood
  <2> QED
    BY <2>1, <2>2
<1>2. IInv'
  BY <1>1 DEF IInv
<1> QED
  BY <1>1, <1>2 DEF Good

\* Nothing but the ends changes.
LEMMA EndsGood ==
  ASSUME IInv, UNCHANGED <<wire, length, missing, sent, got>>, Ends',
         gone => gone', closed => closed'
  PROVE  Good
<1>1. Shape'
  BY DEF IInv, Shape, wire
<1>2. ASSUME NEW e \in Dirs
      PROVE  Typed(e)' /\ Whole(e)' /\ InPlace(e)' /\ StepOf(e)
  <2>1. Typed(e) /\ Whole(e) /\ InPlace(e)
    BY DEF IInv
  <2>2. Still(e)
    BY DEF Still, wire
  <2> QED
    BY <2>1, <2>2, StillGood
<1>3. IInv'
  BY <1>1, <1>2 DEF IInv
<1> QED
  BY <1>2, <1>3 DEF Good

LEMMA WriteGood ==
  ASSUME IInv, NEW d \in Dirs, Write(d)
  PROVE  Good
<1>1. /\ Shape /\ Ends /\ Typed(d) /\ Whole(d) /\ InPlace(d)
  BY DEF IInv
<1>2. /\ stream' = stream /\ read' = read /\ length' = length /\ missing' = missing
      /\ sent' = sent /\ got' = got /\ left' = left /\ queued' = queued
      /\ alive' = alive /\ closed' = closed /\ gone' = gone
  BY DEF Write, ends
<1>3. /\ written[d] < Len(stream[d]) /\ written[d] - read[d] < Room[d]
      /\ written' = [written EXCEPT ![d] = written[d] + 1]
  BY DEF Write, Writing
<1>4. /\ written' \in [Dirs -> Nat] /\ written'[d] = written[d] + 1
      /\ \A e \in Dirs \ {d} : written'[e] = written[e]
  BY <1>1, <1>3 DEF Shape
<1>5. Shape' /\ Ends'
  BY <1>1, <1>2, <1>4 DEF Shape, Ends
<1>6. Typed(d)'
  <2>1. /\ written[d] \in Nat /\ read[d] \in Nat /\ read[d] <= written[d] /\ Len(stream[d]) \in Nat
        /\ Room[d] \in Nat
    BY <1>1, RoomAssumption DEF Typed, Dir
  <2>2. /\ written[d] + 1 \in Nat /\ read[d] <= written[d] + 1 /\ written[d] + 1 <= Len(stream[d])
        /\ written[d] + 1 - read[d] <= Room[d]
    BY <1>3, <2>1
  <2> QED
    BY <1>1, <1>2, <1>4, <2>2, SMTT(30) DEF Typed, Dir
<1>7. Whole(d)' /\ InPlace(d)' /\ StepOf(d)
  BY <1>1, <1>2 DEF Whole, InPlace, StepOf, Stays
<1>8. \A e \in Dirs \ {d} : Still(e)
  BY <1>2, <1>4 DEF Still
<1> QED
  BY <1>5, <1>6, <1>7, <1>8, OneGood

\* A step of the receiver in direction d.
Took(d, l, mi, g) ==
  /\ stream' = stream /\ written' = written /\ sent' = sent
  /\ read' = [read EXCEPT ![d] = read[d] + 1]
  /\ length' = [length EXCEPT ![d] = l] /\ missing' = [missing EXCEPT ![d] = mi]
  /\ got' = [got EXCEPT ![d] = g]
  /\ (gone => gone') /\ (closed => closed')

LEMMA TookGood ==
  ASSUME IInv, NEW d \in Dirs, Ends', NEW l, NEW mi, NEW g, Took(d, l, mi, g),
         Dir(d, stream[d], written[d], read[d] + 1, l, mi, sent[d], g),
         Placed(stream[d], read[d] + 1, l, mi, g), Received(d, sent[d], got[d], g)
  PROVE  Good
<1>1. /\ Shape /\ Ends /\ Typed(d) /\ Whole(d) /\ InPlace(d)
  BY DEF IInv
<1>2. /\ read[d] + 1 \in Nat /\ l \in Nat /\ mi \in Nat /\ g \in Seq(Message)
  BY MessagesAre DEF Dir
<1>3. /\ read' \in [Dirs -> Nat] /\ read'[d] = read[d] + 1
      /\ \A e \in Dirs \ {d} : read'[e] = read[e]
  BY <1>1, <1>2 DEF Shape, Took
<1>4. /\ length' \in [Dirs -> Nat] /\ length'[d] = l
      /\ \A e \in Dirs \ {d} : length'[e] = length[e]
  BY <1>1, <1>2 DEF Shape, Took
<1>5. /\ missing' \in [Dirs -> Nat] /\ missing'[d] = mi
      /\ \A e \in Dirs \ {d} : missing'[e] = missing[e]
  BY <1>1, <1>2 DEF Shape, Took
<1>6. /\ got' \in [Dirs -> Seq(Message)] /\ got'[d] = g
      /\ \A e \in Dirs \ {d} : got'[e] = got[e]
  BY <1>1, <1>2 DEF Shape, Took
<1>7. /\ stream' = stream /\ written' = written /\ sent' = sent
      /\ (gone => gone') /\ (closed => closed')
  BY DEF Took
<1>8. Shape'
  BY <1>1, <1>3, <1>4, <1>5, <1>6, <1>7 DEF Shape
<1>9. Typed(d)'
  BY <1>3, <1>4, <1>5, <1>6, <1>7 DEF Typed
<1>10. Whole(d)'
  BY <1>1, <1>7 DEF Whole
<1>11. InPlace(d)'
  BY <1>3, <1>4, <1>5, <1>6, <1>7 DEF InPlace
<1>12. StepOf(d)
  BY <1>6, <1>7 DEF StepOf
<1>13. \A e \in Dirs \ {d} : Still(e)
  BY <1>3, <1>4, <1>5, <1>6, <1>7 DEF Still
<1> QED
  BY <1>8, <1>9, <1>10, <1>11, <1>12, <1>13, OneGood

LEMMA PrefixGood ==
  ASSUME IInv, NEW d \in Dirs, ReadPrefix(d), ~(d = "up" /\ closed)
  PROVE  Good
<1>1. /\ Shape /\ Ends /\ Typed(d) /\ InPlace(d)
  BY DEF IInv
<1>2. PICK q : q = stream[d][read[d] + 1]
  OBVIOUS
<1>3. Piece(d) = q
  BY <1>2 DEF Piece
<1>4. PICK g : g = AfterPrefix(got[d], q)
  OBVIOUS
<1>5. /\ read[d] < written[d] /\ missing[d] = 0 /\ Takes(d, q.size)
      /\ read' = [read EXCEPT ![d] = read[d] + 1] /\ length' = [length EXCEPT ![d] = q.size]
      /\ missing' = [missing EXCEPT ![d] = q.size]
      /\ got' = IF q.size = 0
                THEN [got EXCEPT ![d] = Append(got[d], [id |-> q.id, size |-> 0])] ELSE got
      /\ UNCHANGED <<stream, written, ends, sent>>
  BY <1>3 DEF ReadPrefix, Readable
<1>6. got' = [got EXCEPT ![d] = g]
  <2>1. CASE q.size = 0
    BY <1>4, <1>5, <2>1 DEF AfterPrefix
  <2>2. CASE q.size # 0
    <3>1. g = got[d] /\ got' = got
      BY <1>4, <1>5, <2>2 DEF AfterPrefix
    <3> QED
      BY <1>1, <3>1 DEF Shape
  <2> QED
    BY <2>1, <2>2
<1>7. Fits(d, q)
  BY <1>5 DEF Takes, Fits
<1>8. Dir(d, stream[d], written[d], read[d], length[d], 0, sent[d], got[d])
  BY <1>1, <1>5 DEF Typed
<1>9. Placed(stream[d], read[d], length[d], 0, got[d])
  BY <1>1, <1>5 DEF InPlace
<1>10. /\ Dir(d, stream[d], written[d], read[d] + 1, q.size, q.size, sent[d], g)
       /\ Placed(stream[d], read[d] + 1, q.size, q.size, g)
       /\ Received(d, sent[d], got[d], g)
  <2>1. read[d] < written[d]
    BY <1>5
  <2> QED
    BY <1>2, <1>4, <1>7, <1>8, <1>9, <2>1, PrefixRead
<1>11. Took(d, q.size, q.size, g) /\ Ends'
  BY <1>1, <1>5, <1>6 DEF Took, Ends, ends
<1> QED
  BY <1>10, <1>11, TookGood

LEMMA BodyGood ==
  ASSUME IInv, NEW d \in Dirs, ReadBody(d), ~(d = "up" /\ closed),
         Ends', gone => gone', closed => closed'
  PROVE  Good
<1>1. /\ Shape /\ Ends /\ Typed(d) /\ InPlace(d)
  BY DEF IInv
<1>2. PICK q : q = stream[d][read[d] + 1]
  OBVIOUS
<1>3. Piece(d) = q
  BY <1>2 DEF Piece
<1>4. PICK g : g = IF missing[d] = 1 THEN Append(got[d], [id |-> q.id, size |-> length[d]]) ELSE got[d]
  OBVIOUS
<1>5. /\ read[d] < written[d] /\ missing[d] > 0
      /\ read' = [read EXCEPT ![d] = read[d] + 1]
      /\ missing' = [missing EXCEPT ![d] = missing[d] - 1]
      /\ got' = IF missing[d] = 1
                THEN [got EXCEPT ![d] = Append(got[d], [id |-> q.id, size |-> length[d]])] ELSE got
      /\ stream' = stream /\ written' = written /\ length' = length /\ sent' = sent
  BY <1>3 DEF ReadBody, Readable
<1>6. got' = [got EXCEPT ![d] = g]
  <2>1. CASE missing[d] = 1
    BY <1>4, <1>5, <2>1
  <2>2. CASE missing[d] # 1
    <3>1. g = got[d] /\ got' = got
      BY <1>4, <1>5, <2>2
    <3> QED
      BY <1>1, <3>1 DEF Shape
  <2> QED
    BY <2>1, <2>2
<1>7. length' = [length EXCEPT ![d] = length[d]]
  BY <1>1, <1>5 DEF Shape
<1>8. Dir(d, stream[d], written[d], read[d], length[d], missing[d], sent[d], got[d])
  BY <1>1 DEF Typed
<1>9. Placed(stream[d], read[d], length[d], missing[d], got[d])
  BY <1>1 DEF InPlace
<1>10. /\ Dir(d, stream[d], written[d], read[d] + 1, length[d], missing[d] - 1, sent[d], g)
       /\ Placed(stream[d], read[d] + 1, length[d], missing[d] - 1, g)
       /\ Received(d, sent[d], got[d], g)
  <2>1. read[d] < written[d] /\ missing[d] > 0
    BY <1>5
  <2> QED
    BY <1>2, <1>4, <1>8, <1>9, <2>1, BodyRead
<1>11. Took(d, length[d], missing[d] - 1, g)
  BY <1>5, <1>6, <1>7 DEF Took
<1> QED
  BY <1>10, <1>11, TookGood

LEMMA BeginGood ==
  ASSUME IInv, NEW d \in Dirs, NEW size, size \in (IF d = "up" THEN UpSizes ELSE DownSizes),
         Begin(d, size), Len(sent[d]) < Most(d), d = "down" => ~gone /\ ~closed,
         UNCHANGED <<written, read, length, missing, queued, alive, closed, gone, got>>, left' \in Nat
  PROVE  Good
<1>1. /\ Shape /\ Ends /\ Typed(d) /\ InPlace(d) /\ Whole(d)
  BY DEF IInv
<1>2. PICK t : t = stream[d] \o Framed(Len(sent[d]) + 1, size)
  OBVIOUS
<1>3. PICK x : x = [id |-> Len(sent[d]) + 1, size |-> size]
  OBVIOUS
<1>4. PICK mm : mm = Append(sent[d], x)
  OBVIOUS
<1>5. stream' = [stream EXCEPT ![d] = t] /\ sent' = [sent EXCEPT ![d] = mm]
  BY <1>2, <1>3, <1>4 DEF Begin
<1>6. Ended(stream[d], sent[d])
  BY <1>1 DEF Whole, Dirs
<1>7. /\ Dir(d, t, written[d], read[d], length[d], missing[d], mm, got[d]) /\ Ended(t, mm)
      /\ SamePlace(stream[d], t, read[d], length[d], missing[d], got[d])
      /\ x \in Messages(d)
  <2>1. mm = Append(sent[d], [id |-> Len(sent[d]) + 1, size |-> size])
    BY <1>3, <1>4
  <2>2. Dir(d, stream[d], written[d], read[d], length[d], missing[d], sent[d], got[d])
    BY <1>1 DEF Typed
  <2>3. MayBegin(d, stream[d], written[d], read[d], length[d], missing[d], sent[d], got[d], size)
    BY <1>6, <2>2 DEF MayBegin
  <2> QED
    BY <1>2, <1>3, <2>1, <2>3, Begun
<1>8. t \in Seq(Pieces) /\ mm \in Seq(Message)
  BY <1>7, MessagesAre DEF Dir
<1>9. stream' \in [Dirs -> Seq(Pieces)] /\ stream'[d] = t /\ \A e \in Dirs \ {d} : stream'[e] = stream[e]
  BY <1>1, <1>5, <1>8 DEF Shape
<1>10. sent' \in [Dirs -> Seq(Message)] /\ sent'[d] = mm /\ \A e \in Dirs \ {d} : sent'[e] = sent[e]
  BY <1>1, <1>5, <1>8 DEF Shape
<1>11. Shape' /\ Ends'
  BY <1>1, <1>9, <1>10 DEF Shape, Ends
<1>12. Typed(d)' /\ Whole(d)'
  BY <1>7, <1>9, <1>10 DEF Typed, Whole
<1>13. InPlace(d)'
  BY <1>1, <1>7, <1>9 DEF InPlace, SamePlace
<1>14. StepOf(d)
  BY <1>4, <1>7, <1>10 DEF StepOf
<1>15. \A e \in Dirs \ {d} : Still(e)
  BY <1>9, <1>10 DEF Still
<1> QED
  BY <1>11, <1>12, <1>13, <1>14, <1>15, OneGood

LEMMA RefuseGood ==
  ASSUME IInv, Refuse
  PROVE  Good
<1> DEFINE d == "up"
<1>0. d \in Dirs
  BY DEF Dirs
<1>1. /\ Shape /\ Ends /\ Typed(d) /\ InPlace(d) /\ Whole(d)
  BY <1>0 DEF IInv
<1>2. /\ read[d] < written[d] /\ read' = [read EXCEPT ![d] = read[d] + 1] /\ closed' = TRUE
      /\ UNCHANGED <<stream, written, length, missing, left, queued, alive, gone, sent, got>>
  BY DEF Refuse, Readable
<1>3. /\ read' \in [Dirs -> Nat] /\ read'[d] = read[d] + 1
      /\ \A e \in Dirs \ {d} : read'[e] = read[e]
  BY <1>0, <1>1, <1>2 DEF Shape
<1>4. Shape' /\ Ends'
  BY <1>1, <1>2, <1>3 DEF Shape, Ends
<1>5. Typed(d)'
  <2>1. /\ written[d] \in Nat /\ read[d] \in Nat /\ written[d] - read[d] <= Room[d] /\ Room[d] \in Nat
    BY <1>0, <1>1, RoomAssumption DEF Typed, Dir
  <2>2. read[d] + 1 \in Nat /\ read[d] + 1 <= written[d] /\ written[d] - (read[d] + 1) <= Room[d]
    BY <1>2, <2>1
  <2> QED
    BY <1>1, <1>2, <1>3, <2>2 DEF Typed, Dir
<1>6. Whole(d)' /\ InPlace(d)' /\ StepOf(d)
  BY <1>1, <1>2 DEF Whole, InPlace, StepOf, Stays
<1>7. \A e \in Dirs \ {d} : Still(e)
  BY <1>1, <1>2, <1>3 DEF Still
<1> HIDE DEF d
<1> QED
  BY <1>0, <1>4, <1>5, <1>6, <1>7, OneGood

LEMMA WriteFailsGood ==
  ASSUME IInv, WriteFails
  PROVE  Good
<1> DEFINE d == "down"
<1>0. d \in Dirs
  BY DEF Dirs
<1>1. /\ Shape /\ Ends /\ Typed(d) /\ InPlace(d)
  BY <1>0 DEF IInv
<1>2. PICK t : t = SubSeq(stream[d], 1, written[d])
  OBVIOUS
<1>3. /\ stream' = [stream EXCEPT ![d] = t] /\ (gone \/ closed) /\ alive' = FALSE
      /\ UNCHANGED <<written, read, length, missing, left, queued, closed, gone, sent, got>>
  BY <1>2 DEF WriteFails
<1>4. /\ Dir(d, t, written[d], read[d], length[d], missing[d], sent[d], got[d])
      /\ SamePlace(stream[d], t, read[d], length[d], missing[d], got[d])
  <2>1. Dir(d, stream[d], written[d], read[d], length[d], missing[d], sent[d], got[d])
    BY <1>1 DEF Typed
  <2> HIDE DEF d
  <2> QED
    BY <1>0, <1>2, <2>1, CutShort
<1>5. t \in Seq(Pieces)
  BY <1>4 DEF Dir
<1>6. stream' \in [Dirs -> Seq(Pieces)] /\ stream'[d] = t /\ \A e \in Dirs \ {d} : stream'[e] = stream[e]
  BY <1>0, <1>1, <1>3, <1>5 DEF Shape
<1>7. Shape' /\ Ends'
  BY <1>1, <1>3, <1>6 DEF Shape, Ends
<1>8. Typed(d)' /\ InPlace(d)'
  BY <1>1, <1>3, <1>4, <1>6 DEF Typed, InPlace, SamePlace
<1>9. Whole(d)' /\ StepOf(d)
  BY <1>3 DEF Whole, StepOf, Stays
<1>10. \A e \in Dirs \ {d} : Still(e)
  BY <1>3, <1>6 DEF Still
<1> HIDE DEF d
<1> QED
  BY <1>0, <1>7, <1>8, <1>9, <1>10, OneGood

-----------------------------------------------------------------------------

LEMMA InitGood ==
  Init => IInv
<1> SUFFICES ASSUME Init PROVE IInv
  OBVIOUS
<1>1. <<>> \in Seq(Pieces) /\ <<>> \in Seq(Message) /\ Len(<<>>) = 0
  BY EmptySeq
<1>2. Shape /\ Ends
  BY <1>1 DEF Init, Each, Shape, Ends
<1>3. ASSUME NEW d \in Dirs
      PROVE  Typed(d) /\ Whole(d) /\ InPlace(d)
  <2>1. /\ stream[d] = <<>> /\ written[d] = 0 /\ read[d] = 0 /\ length[d] = 0 /\ missing[d] = 0
        /\ sent[d] = <<>> /\ got[d] = <<>>
    BY DEF Init, Each
  <2>2. /\ \A k \in 1 .. Len(<<>>) : FALSE
        /\ ~(Len(<<>>) > 0) /\ <<>> \in Seq(Messages(d)) /\ Room[d] \in Nat /\ RecvLimit \in Nat
    BY <1>1, EmptySeq, RoomAssumption, LimitAssumption
  <2>3. Chained(<<>>, <<>>)
    BY <2>2 DEF Chained
  <2>4. Typed(d)
    BY <1>1, <2>1, <2>2, <2>3 DEF Typed, Dir
  <2>5. Whole(d) /\ InPlace(d)
    BY <1>1, <2>1 DEF Whole, InPlace, Ended, Placed
  <2> QED
    BY <2>4, <2>5
<1> QED
  BY <1>2, <1>3 DEF IInv

LEMMA StepGood ==
  ASSUME IInv, [Next]_vars
  PROVE  Good
<1>0. Ends /\ "up" \in Dirs /\ "down" \in Dirs
  BY DEF IInv, Dirs
<1>1. ASSUME NEW d \in Dirs, Write(d) PROVE Good
  BY <1>1, WriteGood
<1>2. CASE ReceivePrefix
  BY <1>0, <1>2, PrefixGood DEF ReceivePrefix
<1>3. CASE ReceiveBody
  <2>1. ReadBody("up") /\ ~closed /\ gone' = gone
    BY <1>3 DEF ReceiveBody
  <2>2. left' = left /\ alive' = alive /\ gone' = gone
    BY <1>3 DEF ReceiveBody
  <2>3. closed' \in BOOLEAN
    BY <1>0, <1>3 DEF ReceiveBody, Ends
  <2>4. queued' \in Nat
    <3>1. queued' = queued + 1 \/ queued' = queued
      BY <1>3 DEF ReceiveBody, QueueCallback
    <3> QED
      BY <1>0, <3>1 DEF Ends
  <2>5. Ends'
    BY <1>0, <2>2, <2>3, <2>4 DEF Ends
  <2> QED
    BY <1>0, <2>1, <2>5, BodyGood
<1>4. CASE Refuse
  BY <1>4, RefuseGood
<1>5. CASE ReceiveFails
  <2>1. Ends' /\ (gone => gone') /\ (closed => closed')
    BY <1>0, <1>5 DEF ReceiveFails, Ends
  <2> QED
    BY <1>5, <2>1, EndsGood DEF ReceiveFails
<1>6. CASE ParseFails
  <2>1. ReadBody("up") /\ ~closed /\ gone' = gone
    BY <1>6 DEF ParseFails
  <2>2. Ends'
    BY <1>0, <1>6 DEF ParseFails, Ends
  <2> QED
    BY <1>0, <2>1, <2>2, BodyGood
<1>7. CASE EnterFrame
  <2>1. queued + 1 \in Nat /\ 1 .. queued + 1 \subseteq Nat
    BY <1>0 DEF Ends
  <2>2. Ends' /\ (gone => gone') /\ (closed => closed')
    BY <1>0, <1>7, <2>1 DEF EnterFrame, Ends
  <2> QED
    BY <1>7, <2>2, EndsGood DEF EnterFrame
<1>8. CASE SendNothing
  <2>1. Ends' /\ (gone => gone') /\ (closed => closed')
    BY <1>0, <1>8 DEF SendNothing, Ends
  <2> QED
    BY <1>8, <2>1, EndsGood DEF SendNothing
<1>9. CASE WriteFails
  BY <1>9, WriteFailsGood
<1>10. ASSUME NEW size \in DownSizes, Send(size) PROVE Good
  <2>1. left' \in Nat /\ Begin("down", size) /\ ~gone /\ ~closed /\ Len(sent["down"]) < Most("down")
    BY <1>0, <1>10 DEF Send, Ends, Most
  <2>2. UNCHANGED <<written, read, length, missing, queued, alive, closed, gone, got>>
    BY <1>10 DEF Send
  <2> QED
    BY <1>0, <2>1, <2>2, BeginGood
<1>11. ASSUME NEW size \in DownSizes, SendFails(size) PROVE Good
  <2>1. /\ left > 0 /\ left' = left - 1 /\ alive' = FALSE
        /\ queued' = queued /\ closed' = closed /\ gone' = gone
    BY <1>11 DEF SendFails
  <2>2. left' \in Nat
    <3>1. left \in Nat
      BY <1>0 DEF Ends
    <3> QED
      BY <2>1, <3>1
  <2>3. Ends' /\ (gone => gone') /\ (closed => closed')
    BY <1>0, <2>1, <2>2 DEF Ends
  <2> QED
    BY <1>11, <2>3, EndsGood DEF SendFails
<1>12. ASSUME NEW size \in UpSizes, ClientBegins(size) PROVE Good
  <2>1. Begin("up", size) /\ Len(sent["up"]) < Most("up")
    BY <1>12 DEF ClientBegins, Most
  <2>2. UNCHANGED <<written, read, length, missing, queued, alive, closed, gone, got>> /\ left' \in Nat
    BY <1>0, <1>12 DEF ClientBegins, ends, Ends
  <2> QED
    BY <1>0, <2>1, <2>2, BeginGood
<1>13. CASE ClientReads
  <2>1. CASE ReadPrefix("down")
    BY <1>0, <2>1, PrefixGood
  <2>2. CASE ReadBody("down") /\ UNCHANGED ends
    <3>1. Ends' /\ (gone => gone') /\ (closed => closed')
      BY <1>0, <2>2 DEF ends, Ends
    <3> QED
      BY <1>0, <2>2, <3>1, BodyGood
  <2> QED
    BY <1>13, <2>1, <2>2 DEF ClientReads
<1>14. CASE ClientLeaves
  <2>1. Ends' /\ (gone => gone') /\ (closed => closed')
    BY <1>0, <1>14 DEF ClientLeaves, Ends
  <2> QED
    BY <1>14, <2>1, EndsGood DEF ClientLeaves
<1>15. CASE UNCHANGED vars
  <2>1. Ends' /\ (gone => gone') /\ (closed => closed')
    BY <1>0, <1>15 DEF vars, ends, Ends
  <2>2. UNCHANGED <<wire, length, missing, sent, got>>
    BY <1>15 DEF vars
  <2> QED
    BY <2>1, <2>2, EndsGood
<1> QED
  BY <1>1, <1>2, <1>3, <1>4, <1>5, <1>6, <1>7, <1>8, <1>9, <1>10, <1>11, <1>12, <1>13, <1>14, <1>15 DEF Next

LEMMA AlwaysIInv ==
  Spec => []IInv
<1>1. Init => IInv
  BY InitGood
<1>2. IInv /\ [Next]_vars => IInv'
  BY StepGood DEF Good
<1> QED
  BY <1>1, <1>2, PTL DEF Spec

LEMMA IInvTyped ==
  IInv => TypeOK
<1> SUFFICES ASSUME IInv PROVE TypeOK
  OBVIOUS
<1>1. Shape /\ Ends
  BY DEF IInv
<1>2. ASSUME NEW d \in Dirs
      PROVE  /\ read[d] <= written[d] /\ written[d] <= Len(stream[d])
             /\ written[d] - read[d] <= Room[d] /\ missing[d] <= length[d]
             /\ sent[d] \in Seq(Messages(d)) /\ got[d] \in Seq(Messages(d))
             /\ d = "up" => length[d] <= RecvLimit
  BY DEF IInv, Typed, Dir
<1>3. length["up"] <= RecvLimit
  BY <1>2 DEF Dirs
<1>4. DOMAIN sent = Dirs /\ DOMAIN got = Dirs
  BY <1>1 DEF Shape
<1> QED
  BY <1>1, <1>2, <1>3, <1>4 DEF Shape, Ends, TypeOK

\* Types and room: recv_message never allocates more than its limit, and no stream is
\* read further than it was written.
THEOREM LinkTypeCorrect ==
  Spec => []TypeOK
BY AlwaysIInv, IInvTyped, PTL

LEMMA UpStep ==
  ASSUME StepOf("up")
  PROVE  [Up!Next]_(Up!vars)
<1>1. CASE Stays("up")
  BY <1>1 DEF Stays, Up!vars
<1>2. ASSUME NEW m \in Messages("up"), sent'["up"] = Append(sent["up"], m), got'["up"] = got["up"]
      PROVE  [Up!Next]_(Up!vars)
  BY <1>2 DEF Up!Next, Up!Send
<1>3. CASE sent'["up"] = sent["up"] /\ Received("up", sent["up"], got["up"], got'["up"])
  BY <1>3 DEF Received, Up!Next, Up!Receive, Up!vars
<1> QED
  BY <1>1, <1>2, <1>3 DEF StepOf

LEMMA DownStep ==
  ASSUME StepOf("down")
  PROVE  [Down!Next]_(Down!vars)
<1>1. CASE Stays("down")
  BY <1>1 DEF Stays, Down!vars
<1>2. ASSUME NEW m \in Messages("down"), sent'["down"] = Append(sent["down"], m),
             got'["down"] = got["down"]
      PROVE  [Down!Next]_(Down!vars)
  BY <1>2 DEF Down!Next, Down!Send
<1>3. CASE sent'["down"] = sent["down"] /\ Received("down", sent["down"], got["down"], got'["down"])
  BY <1>3 DEF Received, Down!Next, Down!Receive, Down!vars
<1> QED
  BY <1>1, <1>2, <1>3 DEF StepOf

\* Whatever the sizes, the limits and the room, both directions of a session are
\* channels: what is received is what was sent, whole and in order (send_message,
\* recv_message).
THEOREM ChannelKept ==
  Spec => ImplementsChannel
<1>1. Init => Up!Init /\ Down!Init
  BY DEF Init, Each, Up!Init, Down!Init, Dirs
<1>2. IInv /\ [Next]_vars => [Up!Next]_(Up!vars) /\ [Down!Next]_(Down!vars)
  <2>1. ASSUME IInv, [Next]_vars PROVE StepOf("up") /\ StepOf("down")
    BY <2>1, StepGood DEF Good, Dirs
  <2> QED
    BY <2>1, UpStep, DownStep
<1> QED
  BY <1>1, <1>2, AlwaysIInv, PTL DEF Spec, ImplementsChannel, Up!Spec, Down!Spec

\* What a channel does keeps what has come out the beginning of what went in.
Begins(r, s) == Len(r) <= Len(s) /\ \A i \in 1 .. Len(r) : r[i] = s[i]

ChannelStep(M, s, r, ss, rr) ==
  \/ ss = s /\ rr = r
  \/ \E x \in M : ss = Append(s, x) /\ rr = r
  \/ Len(r) < Len(s) /\ rr = Append(r, s[Len(r) + 1]) /\ ss = s

LEMMA InOrderKept ==
  ASSUME NEW M, NEW s \in Seq(M), NEW r \in Seq(M), NEW ss, NEW rr,
         Begins(r, s), ChannelStep(M, s, r, ss, rr)
  PROVE  Begins(rr, ss)
<1>1. CASE ss = s /\ rr = r
  BY <1>1
<1>2. ASSUME NEW x \in M, ss = Append(s, x), rr = r
      PROVE  Begins(rr, ss)
  BY <1>2 DEF Begins
<1>3. CASE Len(r) < Len(s) /\ rr = Append(r, s[Len(r) + 1]) /\ ss = s
  BY <1>3 DEF Begins
<1> QED
  BY <1>1, <1>2, <1>3 DEF ChannelStep

\* At any moment what an end of the session has been given is the beginning of what the
\* other end has sent: no message is lost, doubled, overtaken or torn (send_message,
\* recv_message), in either direction.
THEOREM WholeInOrder ==
  Spec => [](Up!InOrder /\ Down!InOrder)
<1>1. Init => Up!InOrder /\ Down!InOrder
  BY DEF Init, Each, Up!InOrder, Down!InOrder, Dirs
<1>2. TypeOK /\ Up!InOrder /\ [Up!Next]_(Up!vars) => Up!InOrder'
  <2> SUFFICES ASSUME TypeOK, Up!InOrder, [Up!Next]_(Up!vars) PROVE Up!InOrder'
    OBVIOUS
  <2>1. sent["up"] \in Seq(Messages("up")) /\ got["up"] \in Seq(Messages("up"))
    BY DEF TypeOK, Dirs
  <2>2. ChannelStep(Messages("up"), sent["up"], got["up"], sent'["up"], got'["up"])
    BY Zenon DEF ChannelStep, Up!Next, Up!Send, Up!Receive, Up!vars
  <2>3. Begins(got["up"], sent["up"])
    BY DEF Begins, Up!InOrder
  <2>4. Begins(got'["up"], sent'["up"])
    BY <2>1, <2>2, <2>3, InOrderKept
  <2> QED
    BY <2>4 DEF Begins, Up!InOrder
<1>3. TypeOK /\ Down!InOrder /\ [Down!Next]_(Down!vars) => Down!InOrder'
  <2> SUFFICES ASSUME TypeOK, Down!InOrder, [Down!Next]_(Down!vars) PROVE Down!InOrder'
    OBVIOUS
  <2>1. sent["down"] \in Seq(Messages("down")) /\ got["down"] \in Seq(Messages("down"))
    BY DEF TypeOK, Dirs
  <2>2. ChannelStep(Messages("down"), sent["down"], got["down"], sent'["down"], got'["down"])
    BY Zenon DEF ChannelStep, Down!Next, Down!Send, Down!Receive, Down!vars
  <2>3. Begins(got["down"], sent["down"])
    BY DEF Begins, Down!InOrder
  <2>4. Begins(got'["down"], sent'["down"])
    BY <2>1, <2>2, <2>3, InOrderKept
  <2> QED
    BY <2>4 DEF Begins, Down!InOrder
<1> QED
  BY <1>1, <1>2, <1>3, ChannelKept, LinkTypeCorrect, PTL
     DEF Spec, ImplementsChannel, Up!Spec, Down!Spec
=============================================================================
