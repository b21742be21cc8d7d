---------------------------- MODULE FrameProofs -----------------------------
(***************************************************************************)
(* What ReadFrame makes of the stream WriteFrame writes, for frames of any *)
(* size and any number of them.                                            *)
(***************************************************************************)
EXTENDS FrameIO, ListLemmas

-----------------------------------------------------------------------------
(* Bytes and their escapes.                                                *)

\* The two bytes with a meaning and the two codes they are escaped with.
LEMMA Marks ==
  /\ flagByte \in Byte /\ escapeByte \in Byte /\ flagByte # escapeByte
  /\ 1 \notin {flagByte, escapeByte} /\ 2 \notin {flagByte, escapeByte}
BY DEF flagByte, escapeByte, Byte

\* Every byte is escaped one of three ways.
LEMMA Escapes ==
  ASSUME NEW b \in Nat
  PROVE  /\ EscapeByte(b) \in Seq(Nat)
         /\ b = flagByte => EscapeByte(b) = <<escapeByte, 2>>
         /\ b = escapeByte => EscapeByte(b) = <<escapeByte, 1>>
         /\ b \notin {flagByte, escapeByte} => EscapeByte(b) = <<b>>
BY Marks DEF EscapeByte, Byte

\* The result is a byte.
LEMMA XorType ==
  ASSUME NEW a \in Byte, NEW b \in Byte
  PROVE  Xor(a, b) \in Byte
<1> DEFINE bit(d) == (a \div d + b \div d) % 2
<1>1. ASSUME NEW d \in Nat, d # 0 PROVE bit(d) \in 0..1
  <2>1. a \div d \in Int /\ b \div d \in Int
    BY <1>1 DEF Byte
  <2> QED  BY <2>1
<1>2. Xor(a, b) = 1 * bit(1) + 2 * bit(2) + 4 * bit(4) + 8 * bit(8)
                   + 16 * bit(16) + 32 * bit(32) + 64 * bit(64) + 128 * bit(128)
  BY SMT DEF Xor
<1>3. /\ bit(1) \in 0..1 /\ bit(2) \in 0..1 /\ bit(4) \in 0..1 /\ bit(8) \in 0..1
      /\ bit(16) \in 0..1 /\ bit(32) \in 0..1 /\ bit(64) \in 0..1 /\ bit(128) \in 0..1
  <2> HIDE DEF bit
  <2> QED  BY <1>1
<1> HIDE DEF bit
<1> QED  BY <1>2, <1>3 DEF Byte
\* The checksum of bytes is a byte.
LEMMA ChecksumType ==
  ASSUME NEW data \in Seq(Byte)
  PROVE  xorChecksum(data) \in Byte
<1> DEFINE n == Len(data)
           step(w, k) == IF k = 0 THEN 0 ELSE Xor(w[k - 1], data[k])
           cs == CHOOSE w : w = [k \in 0..n |-> step(w, k)]
           F == [k \in 1..n |-> [x \in Byte |-> Xor(x, data[k])]]
<1>a. 0 \in Byte
  BY DEF Byte
<1>1. n \in Nat /\ (\A k \in 1..n : data[k] \in Byte) /\ 0 \in Byte
  BY <1>a
<1>2. xorChecksum(data) = cs[n]
  BY DEF xorChecksum
<1>3. F \in [1..n -> [Byte -> Byte]]
  BY <1>1, XorType
<1>4. PICK g \in [0..n -> Byte] : Rounds(g, F, 0, n)
  <2> HIDE DEF F, n
  <2> QED  BY <1>1, <1>3, RoundsExist
<1> HIDE DEF n
<1>5. ASSUME NEW k \in 0..n PROVE g[k] = step(g, k)
  <2>1. CASE k = 0
    BY <1>4, <2>1 DEF Rounds
  <2>2. CASE k # 0
    <3>1. k \in 1..n /\ g[k - 1] \in Byte
      BY <1>1, <2>2
    <3>2. g[k] = F[k][g[k - 1]]
      BY <1>4, <3>1 DEF Rounds
    <3> QED  BY <2>2, <3>1, <3>2
  <2> QED  BY <2>1, <2>2
<1>6. g = [k \in 0..n |-> step(g, k)]
  BY <1>5
<1>7. cs = [k \in 0..n |-> step(cs, k)]
  <2> HIDE DEF step
  <2> QED  BY <1>6
<1> HIDE DEF cs
<1>8. \A k \in 0..n : cs[k] = step(cs, k)
  <2> HIDE DEF step
  <2> QED  BY <1>7
<1> DEFINE S == {k \in Nat : k <= n => cs[k] \in Byte}
<1>9. 0 \in S
  BY <1>1, <1>8
<1>10. ASSUME NEW k \in Nat, k \in S PROVE k + 1 \in S
  <2> SUFFICES ASSUME k + 1 <= n PROVE cs[k + 1] \in Byte
    OBVIOUS
  <2>1. k + 1 \in 1..n /\ k + 1 \in 0..n /\ (k + 1) - 1 = k /\ k <= n /\ k + 1 # 0
    BY <1>1
  <2>2. cs[k] \in Byte /\ data[k + 1] \in Byte
    BY <1>1, <1>10, <2>1
  <2>3. cs[k + 1] = Xor(cs[k], data[k + 1])
    BY <1>8, <2>1, Zenon
  <2> QED  BY <2>2, <2>3, XorType
<1> HIDE DEF S, step
<1>11. n \in S
  BY <1>1, <1>9, <1>10, SetInduction
<1> QED  BY <1>1, <1>2, <1>11 DEF S

-----------------------------------------------------------------------------
(* Escaped sequences.                                                      *)

LEMMA EscapeEmpty == Escape(<<>>) = <<>>
<1>1. [i \in DOMAIN <<>> |-> EscapeByte(<<>>[i])] = <<>>
  OBVIOUS
<1> QED  BY <1>1, FlattenEmpty DEF Escape

\* The sequence of the escapes.
LEMMA EscapedEach ==
  ASSUME NEW r \in Seq(Nat)
  PROVE  LET s == [i \in DOMAIN r |-> EscapeByte(r[i])]
         IN /\ s \in Seq(Seq(Nat)) /\ Len(s) = Len(r)
            /\ \A i \in 1..Len(r) : s[i] = EscapeByte(r[i])
<1>1. DOMAIN r = 1..Len(r) /\ Len(r) \in Nat /\ \A i \in 1..Len(r) : r[i] \in Nat
  OBVIOUS
<1>2. \A i \in 1..Len(r) : EscapeByte(r[i]) \in Seq(Nat)
  BY <1>1, Escapes
<1> QED  BY <1>1, <1>2

LEMMA EscapeType ==
  ASSUME NEW r \in Seq(Nat)
  PROVE  Escape(r) \in Seq(Nat)
BY EscapedEach, FlattenType, Zenon DEF Escape

\* Bytes are escaped one after the other.
LEMMA EscapeCons ==
  ASSUME NEW r \in Seq(Nat), r # <<>>
  PROVE  Escape(r) = EscapeByte(Head(r)) \o Escape(Tail(r))
<1> DEFINE s == [i \in DOMAIN Tail(r) |-> EscapeByte(Tail(r)[i])]
           t == [i \in DOMAIN r |-> EscapeByte(r[i])]
<1>1. /\ Tail(r) \in Seq(Nat) /\ Len(r) = Len(Tail(r)) + 1
      /\ Head(r) \in Nat /\ Head(r) = r[1]
      /\ \A i \in 1..Len(Tail(r)) : Tail(r)[i] = r[i + 1] /\ i + 1 \in 1..Len(r)
      /\ 1 \in 1..Len(r)
  OBVIOUS
<1>2. /\ s \in Seq(Seq(Nat)) /\ Len(s) = Len(Tail(r))
      /\ \A i \in 1..Len(Tail(r)) : s[i] = EscapeByte(Tail(r)[i])
  BY <1>1, EscapedEach, Zenon
<1>3. /\ t \in Seq(Seq(Nat)) /\ Len(t) = Len(r)
      /\ \A i \in 1..Len(r) : t[i] = EscapeByte(r[i])
  BY EscapedEach, Zenon
<1>4. Escape(r) = FlattenSeq(t) /\ Escape(Tail(r)) = FlattenSeq(s)
  BY DEF Escape
<1>5. EscapeByte(Head(r)) \in Seq(Nat)
  BY <1>1, Escapes
<1> HIDE DEF s, t
<1>6. /\ Len(t) = Len(s) + 1 /\ t[1] = EscapeByte(Head(r))
      /\ \A k \in 1..Len(s) : t[k + 1] = s[k]
  BY <1>1, <1>2, <1>3
<1>7. FlattenSeq(t) = EscapeByte(Head(r)) \o FlattenSeq(s)
  BY <1>2, <1>3, <1>5, <1>6, FlattenCons
<1> QED  BY <1>4, <1>7

-----------------------------------------------------------------------------
(* Phone numbers.                                                          *)

\* Two digits in a byte.
LEMMA Nibbles ==
  ASSUME NEW x \in 0..15, NEW y \in 0..15
  PROVE  (16 * x + y) \div 16 = x /\ (16 * x + y) % 16 = y
OBVIOUS

\* A header keeps the first twelve digits.
LEMMA PhoneRoundTrip ==
  ASSUME NEW phone \in Seq(0..9), NEW b, \A i \in 1..6 : b[i] = encodeBCD(phone)[i]
  PROVE  decodeBCD(b) = SubSeq(phone, 1, Min({12, Len(phone)}))
<1> DEFINE n == Len(phone)
           nib(k) == IF k <= n THEN phone[k] ELSE 15
           out(k) == IF k % 2 = 1 THEN b[(k + 1) \div 2] \div 16
                     ELSE b[k \div 2] % 16
           s == [k \in 1..12 |-> IF out(k) = 15 THEN <<>> ELSE <<out(k)>>]
           low(k) == IF k <= n THEN k ELSE n
           g == [k \in 0..12 |-> SubSeq(phone, 1, low(k))]
<1>1. n \in Nat /\ \A k \in 1..n : phone[k] \in 0..9
  OBVIOUS
<1>2. \A k \in 1..12 : nib(k) \in 0..15
  BY <1>1
<1>3. \A i \in 1..6 : b[i] = 16 * nib(2 * i - 1) + nib(2 * i)
  BY DEF encodeBCD
<1>4. decodeBCD(b) = FlattenSeq(s)
  BY DEF decodeBCD
<1> HIDE DEF n
<1>5. ASSUME NEW k \in 1..12 PROVE out(k) = nib(k)
  <2>1. CASE k % 2 = 1
    <3> DEFINE i == (k + 1) \div 2
    <3>1. i \in 1..6 /\ k = 2 * i - 1 /\ 2 * i \in 1..12
      BY <2>1
    <3>2. b[i] = 16 * nib(k) + nib(2 * i)
      BY <1>3, <3>1
    <3>3. nib(k) \in 0..15 /\ nib(2 * i) \in 0..15
      <4> HIDE DEF nib, i
      <4> QED  BY <1>2, <3>1
    <3>4. out(k) = b[i] \div 16
      BY <2>1
    <3> HIDE DEF nib, out, i
    <3> QED  BY <3>2, <3>3, <3>4, Nibbles, ZenonT(60)
  <2>2. CASE k % 2 # 1
    <3> DEFINE i == k \div 2
    <3>1. i \in 1..6 /\ k = 2 * i /\ 2 * i - 1 \in 1..12
      BY <2>2
    <3>2. b[i] = 16 * nib(2 * i - 1) + nib(k)
      BY <1>3, <3>1
    <3>3. nib(k) \in 0..15 /\ nib(2 * i - 1) \in 0..15
      <4> HIDE DEF nib, i
      <4> QED  BY <1>2, <3>1
    <3>4. out(k) = b[i] % 16
      BY <2>2
    <3> HIDE DEF nib, out, i
    <3> QED  BY <3>2, <3>3, <3>4, Nibbles, ZenonT(60)
  <2> QED  BY <2>1, <2>2
<1>6. /\ \A k \in 1..12 : k <= n => s[k] = <<phone[k]>>
      /\ \A k \in 1..12 : ~(k <= n) => s[k] = <<>>
  <2>3. ASSUME NEW k \in 1..12, k <= n PROVE s[k] = <<phone[k]>>
    <3>1. phone[k] \in 0..9
      BY <1>1, <2>3
    <3>2. out(k) = phone[k]
      BY <1>5, <2>3
    <3>3. out(k) # 15
      BY <3>1, <3>2, SMTT(60)
    <3>4. s[k] = <<out(k)>>
      BY <3>3, Zenon
    <3> HIDE DEF s, out
    <3> QED  BY <3>2, <3>4, Zenon
  <2>4. ASSUME NEW k \in 1..12, ~(k <= n) PROVE s[k] = <<>>
    <3>1. out(k) = 15
      BY <1>5, <2>4
    <3> QED  BY <3>1, Zenon
  <2> HIDE DEF s
  <2> QED  BY <2>3, <2>4, Zenon
<1>7. s \in Seq(Seq(Nat)) /\ Len(s) = 12
  <2>1. ASSUME NEW k \in 1..12 PROVE s[k] \in Seq(Nat)
    <3> HIDE DEF s
    <3>1. CASE k <= n
      <4>1. phone[k] \in Nat
        BY <1>1, <3>1
      <4>2. <<phone[k]>> \in Seq(Nat)
        BY <4>1
      <4> QED  BY <1>6, <3>1, <4>2, Zenon
    <3>2. CASE ~(k <= n)
      <4>1. <<>> \in Seq(Nat)
        OBVIOUS
      <4> QED  BY <1>6, <3>2, <4>1, Zenon
    <3> QED  BY <3>1, <3>2
  <2>2. DOMAIN s = 1..12 /\ s = [k \in 1..12 |-> s[k]]
    OBVIOUS
  <2> HIDE DEF s
  <2> QED  BY <2>1, <2>2
<1> HIDE DEF s
<1>8. Sums(g, s)
  <2>1. \A k \in 0..12 : g[k] = SubSeq(phone, 1, low(k))
    BY Zenon
  <2>2. g[0] = <<>>
    BY <1>1
  <2> HIDE DEF g
  <2>3. ASSUME NEW k \in 1..12 PROVE g[k] = g[k - 1] \o s[k]
    <3>1. k - 1 \in 0..12 /\ k \in 0..12
      OBVIOUS
    <3>2. CASE k <= n
      <4>1. low(k) = k /\ low(k - 1) = k - 1 /\ k \in 1..n
        BY <1>1, <3>2
      <4>2. s[k] = <<phone[k]>>
        BY <1>6, <3>2, Zenon
      <4>3. SubSeq(phone, 1, k) = SubSeq(phone, 1, k - 1) \o <<phone[k]>>
        BY <4>1, PrefixNext DEF n
      <4> HIDE DEF low
      <4>4. g[k] = SubSeq(phone, 1, k) /\ g[k - 1] = SubSeq(phone, 1, k - 1)
        BY <2>1, <3>1, <4>1, Zenon
      <4> QED  BY <4>2, <4>3, <4>4, Zenon
    <3>3. CASE ~(k <= n)
      <4>1. low(k) = n /\ low(k - 1) = n
        BY <1>1, <3>3
      <4>2. s[k] = <<>>
        BY <1>6, <3>3, Zenon
      <4>3. SubSeq(phone, 1, n) \in Seq(0..9)
        BY <1>1 DEF n
      <4>4. SubSeq(phone, 1, n) = SubSeq(phone, 1, n) \o <<>>
        BY <4>3, JoinedEmpty
      <4> HIDE DEF low
      <4>5. g[k] = SubSeq(phone, 1, n) /\ g[k - 1] = SubSeq(phone, 1, n)
        BY <2>1, <3>1, <4>1, Zenon
      <4> QED  BY <4>2, <4>4, <4>5, Zenon
    <3> QED  BY <3>2, <3>3
  <2> QED  BY <1>7, <2>2, <2>3 DEF Sums
<1>9. FlattenSeq(s) = g[12]
  <2> HIDE DEF g
  <2> QED  BY <1>7, <1>8, FlattenSums, ZenonT(60)
<1>10. Min({12, n}) = low(12)
  BY <1>1 DEF Min
<1>11. 12 \in 0..12
  OBVIOUS
<1>12. g[12] = SubSeq(phone, 1, low(12))
  <2> HIDE DEF low
  <2> QED  BY <1>11, Zenon
<1> HIDE DEF g, low
<1> QED  BY <1>4, <1>9, <1>10, <1>12, Zenon DEF n

-----------------------------------------------------------------------------
(* Headers and bodies.                                                     *)

\* Two bytes that hold a word.
Holds(u, w) == u \in Seq(Byte) /\ Len(u) = 2 /\ 256 * u[1] + u[2] = w

LEMMA WordRoundTrip ==
  ASSUME NEW w \in Word
  PROVE  Holds(U16(w), w)
<1>1. w \div 256 \in Byte /\ w % 256 \in Byte /\ 256 * (w \div 256) + (w % 256) = w
  <2>1. w \in Int /\ 0 <= w /\ w <= 65535
    <3>1. MaxWord \in Int
      BY SMT DEF MaxWord
    <3>2. w \in Int /\ 0 <= w /\ w <= MaxWord
      BY <3>1, SMT DEF Word
    <3> QED  BY <3>2, SMT DEF MaxWord
  <2>2. w \div 256 \in Int /\ 0 <= w \div 256 /\ w \div 256 <= 255
    BY <2>1, SMT
  <2>3. w % 256 \in Int /\ 0 <= w % 256 /\ w % 256 <= 255
    BY <2>1, SMT
  <2>4. 256 * (w \div 256) + (w % 256) = w
    BY <2>1, SMT
  <2>5. w \div 256 \in Byte
    BY <2>2, SMT DEF Byte
  <2>6. w % 256 \in Byte
    BY <2>3, SMT DEF Byte
  <2> QED  BY <2>4, <2>5, <2>6
<1> QED  BY <1>1 DEF U16, Holds

LEMMA PackedDigits ==
  ASSUME NEW x \in 0..15, NEW y \in 0..15
  PROVE  16 * x + y \in Byte
BY DEF Byte

LEMMA DigitsType ==
  ASSUME NEW phone \in Seq(0..9)
  PROVE  encodeBCD(phone) \in Seq(Byte) /\ Len(encodeBCD(phone)) = 6
<1> DEFINE nib(k) == IF k <= Len(phone) THEN phone[k] ELSE 15
<1>1. \A k \in 1..12 : nib(k) \in 0..15
  OBVIOUS
<1>2. ASSUME NEW i \in 1..6 PROVE 16 * nib(2 * i - 1) + nib(2 * i) \in Byte
  <2>1. 2 * i - 1 \in 1..12 /\ 2 * i \in 1..12
    OBVIOUS
  <2>2. nib(2 * i - 1) \in 0..15 /\ nib(2 * i) \in 0..15
    <3> HIDE DEF nib
    <3> QED  BY <1>1, <2>1
  <2> QED  BY <2>2, PackedDigits
<1>3. encodeBCD(phone) = [i \in 1..6 |-> 16 * nib(2 * i - 1) + nib(2 * i)]
  BY DEF encodeBCD
<1> HIDE DEF nib
<1> QED  BY <1>2, <1>3

LEMMA FrameFields ==
  ASSUME NEW f \in Frames
  PROVE  /\ f.msg \in Word /\ f.seq \in Word /\ f.phone \in Seq(0..9)
         /\ f.sub \in Seq(Word) /\ Len(f.sub) \in {0, 2} /\ f.body \in Seq(Byte)
         /\ f = [msg |-> f.msg, phone |-> f.phone, seq |-> f.seq,
                 sub |-> f.sub, body |-> f.body]
<1>1. /\ f.msg \in MsgIDs /\ f.seq \in SeqNums /\ f.phone \in PhoneNumbers
      /\ f.sub \in Subpackages
      /\ f.body \in UNION {[1..n -> BodyBytes] : n \in 0..MaxBody}
      /\ f = [msg |-> f.msg, phone |-> f.phone, seq |-> f.seq,
              sub |-> f.sub, body |-> f.body]
  BY DEF Frames
<1>2. PICK n \in 0..MaxBody : f.body \in [1..n -> BodyBytes]
  BY <1>1
<1>3. f.body \in Seq(Byte)
  <2>1. n \in Nat /\ BodyBytes \subseteq Byte
    BY FrameAssumption
  <2> QED  BY <1>2, <2>1
<1> QED  BY <1>1, <1>3, FrameAssumption

\* The twelve bytes every header has.
HeaderBytes(h, T, a, b, c, d) ==
  /\ h \in Seq(T) /\ Len(h) = 12
  /\ h[1] = a[1] /\ h[2] = a[2] /\ h[3] = b[1] /\ h[4] = b[2]
  /\ \A i \in 1..6 : h[4 + i] = c[i]
  /\ h[11] = d[1] /\ h[12] = d[2]

LEMMA HeaderJoined ==
  ASSUME NEW T, NEW a \in Seq(T), Len(a) = 2, NEW b \in Seq(T), Len(b) = 2,
         NEW c \in Seq(T), Len(c) = 6, NEW d \in Seq(T), Len(d) = 2
  PROVE  HeaderBytes(((a \o b) \o c) \o d, T, a, b, c, d)
<1> DEFINE ab == a \o b
           abc == ab \o c
           h == abc \o d
<1>j. Joins(T)
  BY JoinsAll, Zenon
<1>1. /\ ab \in Seq(T) /\ Len(ab) = 4
      /\ ab[1] = a[1] /\ ab[2] = a[2] /\ ab[3] = b[1] /\ ab[4] = b[2]
  <2>1. ab \in Seq(T) /\ JoinOf(ab, a, b)
    BY <1>j, Zenon DEF Joins
  <2> HIDE DEF ab
  <2>2. /\ Len(ab) = 4
        /\ \A i \in 1..2 : ab[i] = a[i]
        /\ \A i \in 1..2 : ab[2 + i] = b[i]
    BY <2>1 DEF JoinOf
  <2>3. ab[2 + 1] = b[1] /\ ab[2 + 2] = b[2] /\ 2 + 1 = 3 /\ 2 + 2 = 4
    BY <2>2
  <2> QED  BY <2>1, <2>2, <2>3
<1> HIDE DEF ab
<1>2. /\ abc \in Seq(T) /\ Len(abc) = 10
      /\ \A i \in 1..4 : abc[i] = ab[i]
      /\ \A i \in 1..6 : abc[4 + i] = c[i]
  <2>1. abc \in Seq(T) /\ JoinOf(abc, ab, c)
    <3>1. ab \in Seq(T)
      BY <1>1
    <3> QED  BY <1>j, <3>1, Zenon DEF Joins
  <2> HIDE DEF abc
  <2> QED  BY <1>1, <2>1 DEF JoinOf
<1> HIDE DEF abc
<1>3. /\ h \in Seq(T) /\ Len(h) = 12
      /\ \A i \in 1..10 : h[i] = abc[i]
      /\ \A i \in 1..2 : h[10 + i] = d[i]
  <2>1. h \in Seq(T) /\ JoinOf(h, abc, d)
    <3>1. abc \in Seq(T)
      BY <1>2
    <3> QED  BY <1>j, <3>1, Zenon DEF Joins
  <2> HIDE DEF h
  <2> QED  BY <1>2, <2>1 DEF JoinOf
<1> HIDE DEF h
<1>4. h[1] = ab[1] /\ h[2] = ab[2] /\ h[3] = ab[3] /\ h[4] = ab[4]
  BY <1>2, <1>3
<1>5. ASSUME NEW i \in 1..6 PROVE h[4 + i] = c[i]
  BY <1>2, <1>3, SMTT(60)
<1>6. h[10 + 1] = d[1] /\ h[10 + 2] = d[2] /\ 10 + 1 = 11 /\ 10 + 2 = 12
  BY <1>3
<1>7. HeaderBytes(h, T, a, b, c, d)
  BY <1>1, <1>3, <1>4, <1>5, <1>6 DEF HeaderBytes
<1> QED  BY <1>7 DEF h, abc, ab

\* p begins with the twelve header bytes of f.
HasHeader(p, f, w) ==
  /\ p \in Seq(Byte) /\ Len(p) >= 12
  /\ 256 * p[1] + p[2] = f.msg /\ 256 * p[3] + p[4] = w
  /\ \A i \in 1..6 : p[4 + i] = encodeBCD(f.phone)[i]
  /\ 256 * p[11] + p[12] = f.seq

LEMMA HeaderOf ==
  ASSUME NEW f \in Frames, NEW w \in Word
  PROVE  LET h == U16(f.msg) \o U16(w) \o encodeBCD(f.phone) \o U16(f.seq)
         IN Len(h) = 12 /\ HasHeader(h, f, w)
<1> DEFINE a == U16(f.msg)
           b == U16(w)
           c == encodeBCD(f.phone)
           d == U16(f.seq)
           h == a \o b \o c \o d
<1>1. Holds(a, f.msg) /\ Holds(b, w) /\ Holds(d, f.seq)
  BY FrameFields, WordRoundTrip
<1>2. c \in Seq(Byte) /\ Len(c) = 6
  BY FrameFields, DigitsType
<1>3. /\ a \in Seq(Byte) /\ Len(a) = 2 /\ b \in Seq(Byte) /\ Len(b) = 2
      /\ d \in Seq(Byte) /\ Len(d) = 2
  <2> HIDE DEF a, b, d
  <2> QED  BY <1>1 DEF Holds
<1> HIDE DEF a, b, c, d
<1>4. HeaderBytes(h, Byte, a, b, c, d)
  BY <1>2, <1>3, HeaderJoined
<1> HIDE DEF h
<1>5. Len(h) = 12 /\ HasHeader(h, f, w)
  BY <1>1, <1>4 DEF HeaderBytes, HasHeader, Holds, c
<1> QED  BY <1>5 DEF h, a, b, c, d

\* What follows does not touch the header.
LEMMA HeaderStays ==
  ASSUME NEW f, NEW w, NEW h, HasHeader(h, f, w), NEW t \in Seq(Byte)
  PROVE  HasHeader(h \o t, f, w)
<1>1. h \in Seq(Byte) /\ Len(h) >= 12
  BY DEF HasHeader
<1> DEFINE p == h \o t
<1>2. p \in Seq(Byte) /\ JoinOf(p, h, t)
  <2>1. Joins(Byte)
    BY JoinsAll, Zenon
  <2>2. h \in Seq(Byte)
    BY <1>1
  <2> QED  BY <2>1, <2>2, Zenon DEF Joins
<1> HIDE DEF p
<1>3. Len(p) >= 12 /\ \A i \in 1..12 : p[i] = h[i]
  BY <1>1, <1>2, SMTT(60) DEF JoinOf
<1>4. \A i \in 1..6 : p[4 + i] = h[4 + i]
  BY <1>3
<1>5. /\ p[1] = h[1] /\ p[2] = h[2] /\ p[3] = h[3] /\ p[4] = h[4]
      /\ p[11] = h[11] /\ p[12] = h[12]
  BY <1>3
<1>6. HasHeader(p, f, w)
  BY <1>2, <1>3, <1>4, <1>5 DEF HasHeader
<1> QED  BY <1>6 DEF p

\* The fields ReadFrame parses are those of the header.
LEMMA HeaderParsed ==
  ASSUME NEW f \in Frames, NEW w, NEW p, HasHeader(p, f, w)
  PROVE  /\ U16At(p, 1) = f.msg /\ U16At(p, 3) = w /\ U16At(p, 11) = f.seq
         /\ decodeBCD(SubSeq(p, 5, 10)) = Received(f).phone
<1>1. U16At(p, 1) = f.msg /\ U16At(p, 3) = w /\ U16At(p, 11) = f.seq
  BY DEF HasHeader, U16At
<1> DEFINE b == SubSeq(p, 5, 10)
<1>2. \A i \in 1..6 : b[i] = p[4 + i]
  BY DEF HasHeader
<1> HIDE DEF b
<1>3. \A i \in 1..6 : b[i] = encodeBCD(f.phone)[i]
  BY <1>2 DEF HasHeader
<1>4. decodeBCD(b) = SubSeq(f.phone, 1, Min({12, Len(f.phone)}))
  BY <1>3, FrameFields, PhoneRoundTrip
<1>5. Received(f).phone = SubSeq(f.phone, 1, Min({12, Len(f.phone)}))
  BY DEF Received, Frames
<1> QED  BY <1>1, <1>4, <1>5 DEF b

LEMMA BelowMaxWord ==
  ASSUME NEW x \in Int, 0 <= x, x <= 10000
  PROVE  x \in Word
<1>1. x <= MaxWord /\ MaxWord \in Int
  BY DEF MaxWord
<1> QED  BY <1>1 DEF Word

\* The subpackage bit is set in the attributes of fragments.
LEMMA Attributes ==
  ASSUME NEW f \in Frames
  PROVE  attrs(f) \in Word /\ ((attrs(f) \div SubpackageBit) % 2 = 1 <=> f.sub # <<>>)
<1> DEFINE n == Len(f.body)
           m == n % 1024
<1>a. n \in Nat
  BY FrameFields
<1>2. /\ f.sub = <<>> => attrs(f) = m
      /\ f.sub # <<>> => attrs(f) = m + SubpackageBit
  <2>1. attrs(f) = IF f.sub = <<>> THEN m ELSE m + SubpackageBit
    BY Zenon DEF attrs
  <2> HIDE DEF m
  <2> QED  BY <2>1, Zenon
<1> HIDE DEF n
<1>1. m \in Int /\ 0 <= m /\ m <= 1023
  BY <1>a
<1> HIDE DEF m
<1>3. m \div 8192 = 0 /\ (m + 8192) \div 8192 = 1
  BY <1>1
<1>4. CASE f.sub = <<>>
  <2>1. attrs(f) = m
    BY <1>1, <1>2, <1>4
  <2>2. (attrs(f) \div 8192) % 2 # 1
    BY <1>3, <2>1
  <2>3. attrs(f) \in Word
    BY <1>1, <2>1, BelowMaxWord
  <2> QED  BY <1>4, <2>2, <2>3 DEF SubpackageBit
<1>5. CASE f.sub # <<>>
  <2>1. attrs(f) = m + 8192
    BY <1>2, <1>5 DEF SubpackageBit
  <2>2. (attrs(f) \div 8192) % 2 = 1
    BY <1>3, <2>1
  <2>3. attrs(f) \in Word
    <3>1. m + 8192 \in Word
      BY <1>1, BelowMaxWord
    <3> QED  BY <2>1, <3>1
  <2> QED  BY <1>5, <2>2, <2>3 DEF SubpackageBit
<1> QED  BY <1>4, <1>5

\* A record is its fields.
LEMMA ReceivedIs ==
  ASSUME NEW f \in Frames, NEW r,
         r = [msg |-> f.msg, phone |-> Received(f).phone, seq |-> f.seq,
              sub |-> f.sub, body |-> f.body]
  PROVE  r = Received(f)
<1> DEFINE p == SubSeq(f.phone, 1, Min({12, Len(f.phone)}))
<1>1. f = [msg |-> f.msg, phone |-> f.phone, seq |-> f.seq,
           sub |-> f.sub, body |-> f.body]
  BY FrameFields
<1>2. Received(f) = [f EXCEPT !.phone = p]
  BY DEF Received
<1> HIDE DEF p
<1>3. Received(f) = [msg |-> f.msg, phone |-> p, seq |-> f.seq,
                     sub |-> f.sub, body |-> f.body]
  BY <1>1, <1>2
<1>4. Received(f).phone = p
  BY <1>3
<1> QED  BY <1>3, <1>4

\* ReadFrame parses what WriteFrame put together.
LEMMA FrameParsed ==
  ASSUME NEW f \in Frames
  PROVE  /\ Unchecked(f) \in Seq(Byte) /\ Len(Unchecked(f)) >= 12
         /\ Parse(Unchecked(f)) = Received(f)
<1> DEFINE h == U16(f.msg) \o U16(attrs(f)) \o encodeBCD(f.phone) \o U16(f.seq)
           pkg == subpackage(f)
           hp == h \o pkg
           p == hp \o f.body
<1>0. /\ f.body \in Seq(Byte) /\ Len(f.body) \in Nat
      /\ f.sub \in Seq(Word) /\ Len(f.sub) \in {0, 2}
  BY FrameFields
<1>j. Joins(Byte)
  BY JoinsAll, Zenon
<1>1. Len(h) = 12 /\ HasHeader(h, f, attrs(f))
  BY Attributes, HeaderOf
<1>2. Unchecked(f) = p
  BY Zenon DEF Unchecked
<1> HIDE DEF h
<1>3. h \in Seq(Byte)
  BY <1>1 DEF HasHeader
<1>4. CASE f.sub = <<>>
  <2>1. pkg = <<>>
    BY <1>4 DEF subpackage
  <2>2. hp = h
    <3> HIDE DEF pkg
    <3> QED  BY <1>3, <2>1, JoinedEmpty
  <2> HIDE DEF hp
  <2>3. HasHeader(p, f, attrs(f))
    BY <1>0, <1>1, <2>2, HeaderStays
  <2>4. SubSeq(p, 13, Len(p)) = f.body
    <3>1. SubSeq(p, Len(hp) + 1, Len(p)) = f.body
      BY <1>0, <1>3, <2>2, JoinedRest
    <3>2. Len(hp) + 1 = 13
      <4>1. Len(hp) = Len(h)
        BY <2>2, Zenon
      <4>2. Len(h) = 12
        BY <1>1
      <4> QED  BY <4>1, <4>2
    <3> HIDE DEF p
    <3> QED  BY <3>1, <3>2, Zenon
  <2> HIDE DEF p
  <2>5. Parse(p) = [msg |-> f.msg, phone |-> Received(f).phone, seq |-> f.seq,
                    sub |-> f.sub, body |-> f.body]
    <3>1. ~((U16At(p, 3) \div SubpackageBit) % 2 = 1)
      BY <1>4, <2>3, HeaderParsed, Attributes
    <3>2. Parse(p) = [msg |-> U16At(p, 1), phone |-> decodeBCD(SubSeq(p, 5, 10)),
                      seq |-> U16At(p, 11), sub |-> <<>>,
                      body |-> SubSeq(p, 13, Len(p))]
      BY <3>1, Zenon DEF Parse
    <3> QED  BY <1>4, <2>3, <2>4, <3>2, HeaderParsed
  <2>6. Parse(p) = Received(f)
    BY <2>5, ReceivedIs
  <2> QED  BY <1>2, <2>3, <2>6 DEF HasHeader
<1>5. CASE f.sub # <<>>
  <2>a. f.sub[1] \in Word /\ f.sub[2] \in Word /\ f.sub = <<f.sub[1], f.sub[2]>>
    <3>1. Len(f.sub) = 2
      BY <1>0, <1>5
    <3> QED  BY <1>0, <3>1
  <2>5. /\ pkg \in Seq(Byte) /\ Len(pkg) = 4
        /\ 256 * pkg[1] + pkg[2] = f.sub[1] /\ 256 * pkg[3] + pkg[4] = f.sub[2]
    <3> DEFINE u == U16(f.sub[1])
               v == U16(f.sub[2])
    <3>1. Holds(u, f.sub[1]) /\ Holds(v, f.sub[2])
      BY <2>a, WordRoundTrip
    <3>2. u \in Seq(Byte) /\ v \in Seq(Byte)
      <4> HIDE DEF u, v
      <4> QED  BY <3>1 DEF Holds
    <3>3. pkg \in Seq(Byte) /\ JoinOf(pkg, u, v)
      <4>1. pkg = u \o v
        BY <1>5, Zenon DEF subpackage
      <4> HIDE DEF u, v, pkg
      <4> QED  BY <1>j, <3>2, <4>1, Zenon DEF Joins
    <3> HIDE DEF u, v, pkg
    <3>4. /\ Len(pkg) = 4 /\ \A i \in 1..2 : pkg[i] = u[i]
          /\ \A i \in 1..2 : pkg[2 + i] = v[i]
      BY <3>1, <3>3 DEF JoinOf, Holds
    <3>5. pkg[1] = u[1] /\ pkg[2] = u[2] /\ pkg[3] = v[1] /\ pkg[4] = v[2]
      <4>1. pkg[2 + 1] = v[1] /\ pkg[2 + 2] = v[2] /\ 2 + 1 = 3 /\ 2 + 2 = 4
        BY <3>4
      <4> QED  BY <3>4, <4>1
    <3> QED  BY <3>1, <3>3, <3>4, <3>5 DEF Holds
  <2> HIDE DEF pkg
  <2>6. /\ hp \in Seq(Byte) /\ Len(hp) = 16
        /\ 256 * hp[13] + hp[14] = f.sub[1] /\ 256 * hp[15] + hp[16] = f.sub[2]
    <3>1. hp \in Seq(Byte) /\ JoinOf(hp, h, pkg)
      <4>1. pkg \in Seq(Byte)
        BY <2>5
      <4> QED  BY <1>j, <1>3, <4>1, Zenon DEF Joins
    <3> HIDE DEF hp
    <3>2. Len(hp) = 16 /\ \A i \in 1..4 : hp[12 + i] = pkg[i]
      BY <1>1, <2>5, <3>1 DEF JoinOf
    <3>3. hp[13] = pkg[1] /\ hp[14] = pkg[2] /\ hp[15] = pkg[3] /\ hp[16] = pkg[4]
      <4>1. /\ hp[12 + 1] = pkg[1] /\ hp[12 + 2] = pkg[2] /\ hp[12 + 3] = pkg[3]
            /\ hp[12 + 4] = pkg[4] /\ 12 + 1 = 13 /\ 12 + 2 = 14 /\ 12 + 3 = 15
            /\ 12 + 4 = 16
        BY <3>2
      <4> QED  BY <4>1
    <3> QED  BY <2>5, <3>1, <3>2, <3>3
  <2>7. HasHeader(hp, f, attrs(f))
    BY <1>1, <2>5, HeaderStays
  <2> HIDE DEF hp
  <2>8. HasHeader(p, f, attrs(f))
    BY <1>0, <2>7, HeaderStays
  <2>9. SubSeq(p, 17, Len(p)) = f.body
    <3>1. SubSeq(p, Len(hp) + 1, Len(p)) = f.body
      BY <1>0, <2>6, JoinedRest
    <3> HIDE DEF p
    <3> QED  BY <2>6, <3>1
  <2>10. U16At(p, 13) = f.sub[1] /\ U16At(p, 15) = f.sub[2]
    <3>1. p \in Seq(Byte) /\ JoinOf(p, hp, f.body)
      <4>1. hp \in Seq(Byte) /\ f.body \in Seq(Byte)
        BY <1>0, <2>6
      <4> QED  BY <1>j, <4>1, Zenon DEF Joins
    <3> HIDE DEF p
    <3>2. Len(p) >= 16 /\ \A i \in 1..16 : p[i] = hp[i]
      BY <1>0, <2>6, <3>1 DEF JoinOf
    <3>3. p[13] = hp[13] /\ p[14] = hp[14] /\ p[15] = hp[15] /\ p[16] = hp[16]
      BY <3>2
    <3> QED  BY <2>6, <3>2, <3>3, SMTT(60) DEF U16At
  <2> HIDE DEF p
  <2>11. Parse(p) = [msg |-> f.msg, phone |-> Received(f).phone, seq |-> f.seq,
                     sub |-> f.sub, body |-> f.body]
    <3>1. (U16At(p, 3) \div SubpackageBit) % 2 = 1
      BY <1>5, <2>8, HeaderParsed, Attributes
    <3>2. Parse(p) = [msg |-> U16At(p, 1), phone |-> decodeBCD(SubSeq(p, 5, 10)),
                      seq |-> U16At(p, 11), sub |-> <<U16At(p, 13), U16At(p, 15)>>,
                      body |-> SubSeq(p, 17, Len(p))]
      BY <3>1, Zenon DEF Parse
    <3>3. <<U16At(p, 13), U16At(p, 15)>> = f.sub
      BY <2>a, <2>10
    <3> QED  BY <2>8, <2>9, <3>2, <3>3, HeaderParsed
  <2>12. Parse(p) = Received(f)
    BY <2>11, ReceivedIs
  <2> QED  BY <1>2, <2>8, <2>12 DEF HasHeader
<1> QED  BY <1>4, <1>5

\* The payload of a frame passes ReadFrame's checks and is read as the frame.
LEMMA PayloadRead ==
  ASSUME NEW f \in Frames
  PROVE  /\ Payload(f) \in Seq(Nat) /\ WellFormed(Payload(f))
         /\ Parse(Front(Payload(f))) = Received(f)
<1> DEFINE u == Unchecked(f)
           x == xorChecksum(u)
           p == Append(u, x)
<1>1. u \in Seq(Byte) /\ Len(u) >= 12 /\ Parse(u) = Received(f)
  BY FrameParsed
<1>2. Payload(f) = p
  BY DEF Payload
<1> HIDE DEF u
<1>3. x \in Byte
  BY <1>1, ChecksumType
<1>4. u \in Seq(Nat) /\ x \in Nat
  <2>1. Byte \subseteq Nat
    BY DEF Byte
  <2> HIDE DEF x
  <2> QED  BY <1>1, <1>3, <2>1, SeqWider
<1>5. p \in Seq(Nat) /\ Len(p) >= 13 /\ Last(p) = x /\ Front(p) = u
  <2> HIDE DEF x
  <2> QED  BY <1>1, <1>4 DEF Last, Front
<1>6. WellFormed(p)
  BY <1>5 DEF WellFormed
<1> QED  BY <1>1, <1>2, <1>5, <1>6

LEMMA WriteType ==
  ASSUME NEW f \in Frames
  PROVE  /\ WriteFrame(f) \in Seq(Nat) /\ Escape(Payload(f)) \in Seq(Nat)
         /\ <<flagByte>> \in Seq(Nat)
<1>1. Escape(Payload(f)) \in Seq(Nat)
  BY PayloadRead, EscapeType
<1>2. <<flagByte>> \in Seq(Nat)
  BY Marks DEF Byte
<1> QED  BY <1>1, <1>2 DEF WriteFrame

-----------------------------------------------------------------------------
(* What is left to read: garbage and whole frames.                         *)

\* R gives every sequence of bytes some numbers: to the empty one 0, and to
\* one with garbage or with the next frame of q in front what follows from
\* the numbers without it.
Closed(R, q) ==
  /\ 0 \in R[<<>>]
  /\ \A v \in Seq(Nat) : \A c \in R[v] :
       /\ \A b \in Noise : c \in R[<<b>> \o v]
       /\ c < Len(q) => c + 1 \in R[WriteFrame(q[Len(q) - c]) \o v]

\* The bytes w are the last c frames of q, with garbage before, between and
\* after them.
Stream(w, c, q) ==
  \A R \in [Seq(Nat) -> SUBSET Nat] : Closed(R, q) => c \in R[w]

LEMMA StreamNone ==
  ASSUME NEW q
  PROVE  Stream(<<>>, 0, q)
BY DEF Stream, Closed

LEMMA StreamNat ==
  ASSUME NEW q \in Seq(Frames), NEW w \in Seq(Nat), NEW c, Stream(w, c, q)
  PROVE  c \in Nat
<1> DEFINE R == [v \in Seq(Nat) |-> Nat]
<1>1. R \in [Seq(Nat) -> SUBSET Nat] /\ \A v \in Seq(Nat) : R[v] = Nat
  BY Zenon
<1>2. Closed(R, q)
  <2>1. 0 \in R[<<>>]
    BY <1>1
  <2>2. ASSUME NEW v \in Seq(Nat), NEW k \in R[v], NEW b \in Noise
        PROVE  k \in R[<<b>> \o v]
    <3>1. <<b>> \o v \in Seq(Nat)
      BY FrameAssumption DEF Byte
    <3> HIDE DEF R
    <3> QED  BY <1>1, <2>2, <3>1, Zenon
  <2>3. ASSUME NEW v \in Seq(Nat), NEW k \in R[v], k < Len(q)
        PROVE  k + 1 \in R[WriteFrame(q[Len(q) - k]) \o v]
    <3> HIDE DEF R
    <3>0. k \in Nat
      BY <1>1, <2>3, Zenon
    <3>1. q[Len(q) - k] \in Frames
      BY <2>3, <3>0
    <3>2. WriteFrame(q[Len(q) - k]) \in Seq(Nat)
      BY <3>1, WriteType
    <3>3. WriteFrame(q[Len(q) - k]) \o v \in Seq(Nat)
      BY <3>2
    <3>4. k + 1 \in Nat
      BY <3>0
    <3> QED  BY <1>1, <3>3, <3>4, Zenon
  <2> HIDE DEF R
  <2> QED  BY <2>1, <2>2, <2>3, Zenon DEF Closed
<1> HIDE DEF R
<1>3. c \in R[w]
  BY <1>1, <1>2, Zenon DEF Stream
<1> QED  BY <1>1, <1>3, Zenon

\* Garbage in front.
LEMMA StreamByte ==
  ASSUME NEW q, NEW v \in Seq(Nat), NEW c, Stream(v, c, q), NEW b \in Noise
  PROVE  Stream(<<b>> \o v, c, q)
<1> SUFFICES ASSUME NEW R \in [Seq(Nat) -> SUBSET Nat], Closed(R, q)
             PROVE  c \in R[<<b>> \o v]
  BY Zenon DEF Stream
<1>1. c \in R[v]
  BY Zenon DEF Stream
<1> QED  BY <1>1, Zenon DEF Closed

\* A frame in front.
LEMMA StreamNext ==
  ASSUME NEW q, NEW v \in Seq(Nat), NEW c, Stream(v, c, q), c < Len(q)
  PROVE  Stream(WriteFrame(q[Len(q) - c]) \o v, c + 1, q)
<1> SUFFICES ASSUME NEW R \in [Seq(Nat) -> SUBSET Nat], Closed(R, q)
             PROVE  c + 1 \in R[WriteFrame(q[Len(q) - c]) \o v]
  BY Zenon DEF Stream
<1>1. c \in R[v]
  BY Zenon DEF Stream
<1> QED  BY <1>1, Zenon DEF Closed

\* Induction over the garbage and the frames.
LEMMA StreamInduction ==
  ASSUME NEW q \in Seq(Frames), NEW R \in [Seq(Nat) -> SUBSET Nat],
         0 \in R[<<>>],
         \A v \in Seq(Nat), c \in Nat : Stream(v, c, q) /\ c \in R[v] =>
           /\ \A b \in Noise : c \in R[<<b>> \o v]
           /\ c < Len(q) => c + 1 \in R[WriteFrame(q[Len(q) - c]) \o v],
         NEW w \in Seq(Nat), NEW n, Stream(w, n, q)
  PROVE  n \in R[w]
<1> DEFINE Q == [v \in Seq(Nat) |-> {c \in R[v] : Stream(v, c, q)}]
<1>1. \A v \in Seq(Nat) : Q[v] = {c \in R[v] : Stream(v, c, q)}
  BY Zenon
<1>2. Q \in [Seq(Nat) -> SUBSET Nat]
  <2>1. \A v \in Seq(Nat) : {c \in R[v] : Stream(v, c, q)} \subseteq Nat
    OBVIOUS
  <2> QED  BY <2>1, Zenon
<1> HIDE DEF Q
<1>3. \A v \in Seq(Nat) : \A c : c \in Q[v] <=> c \in R[v] /\ Stream(v, c, q)
  BY <1>1, Zenon
<1>4. 0 \in Q[<<>>]
  <2>1. <<>> \in Seq(Nat)
    OBVIOUS
  <2> QED  BY <1>3, <2>1, StreamNone, Zenon
<1>5. ASSUME NEW v \in Seq(Nat), NEW c \in Q[v]
      PROVE  /\ \A b \in Noise : c \in Q[<<b>> \o v]
             /\ c < Len(q) => c + 1 \in Q[WriteFrame(q[Len(q) - c]) \o v]
  <2>1. c \in R[v] /\ Stream(v, c, q)
    BY <1>3, <1>5, Zenon
  <2>2. c \in Nat
    BY <2>1
  <2>3. ASSUME NEW b \in Noise PROVE c \in Q[<<b>> \o v]
    <3>1. <<b>> \o v \in Seq(Nat)
      BY FrameAssumption DEF Byte
    <3>2. c \in R[<<b>> \o v]
      BY <2>1, <2>2, Zenon
    <3>3. Stream(<<b>> \o v, c, q)
      BY <2>1, StreamByte, Zenon
    <3> QED  BY <1>3, <3>1, <3>2, <3>3, Zenon
  <2>4. ASSUME c < Len(q) PROVE c + 1 \in Q[WriteFrame(q[Len(q) - c]) \o v]
    <3>1. q[Len(q) - c] \in Frames
      BY <2>2, <2>4
    <3>2. WriteFrame(q[Len(q) - c]) \in Seq(Nat)
      BY <3>1, WriteType
    <3>3. WriteFrame(q[Len(q) - c]) \o v \in Seq(Nat)
      BY <3>2
    <3>4. c + 1 \in R[WriteFrame(q[Len(q) - c]) \o v]
      BY <2>1, <2>2, <2>4, Zenon
    <3>5. Stream(WriteFrame(q[Len(q) - c]) \o v, c + 1, q)
      BY <2>1, <2>4, StreamNext, Zenon
    <3> QED  BY <1>3, <3>3, <3>4, <3>5, Zenon
  <2> QED  BY <2>3, <2>4, Zenon
<1>6. Closed(Q, q)
  BY <1>4, <1>5, Zenon DEF Closed
<1>7. n \in Q[w]
  BY <1>2, <1>6, Zenon DEF Stream
<1> QED  BY <1>3, <1>7, Zenon

\* The three ways a stream can begin.
Begins(w, c, q) ==
  \/ w = <<>> /\ c = 0
  \/ \E b \in Noise, v \in Seq(Nat) : w = <<b>> \o v /\ Stream(v, c, q)
  \/ \E k \in Nat, v \in Seq(Nat) :
       /\ k < Len(q) /\ c = k + 1 /\ Stream(v, k, q)
       /\ w = WriteFrame(q[Len(q) - k]) \o v

LEMMA StreamBegins ==
  ASSUME NEW q \in Seq(Frames), NEW w \in Seq(Nat), NEW c, Stream(w, c, q)
  PROVE  Begins(w, c, q)
<1> DEFINE R == [v \in Seq(Nat) |-> {k \in Nat : Begins(v, k, q)}]
<1>1. \A v \in Seq(Nat) : \A k : k \in R[v] <=> k \in Nat /\ Begins(v, k, q)
  BY Zenon
<1>2. R \in [Seq(Nat) -> SUBSET Nat]
  <2>1. \A v \in Seq(Nat) : {k \in Nat : Begins(v, k, q)} \subseteq Nat
    BY Zenon
  <2> QED  BY <2>1, Zenon
<1> HIDE DEF R
<1>3. 0 \in R[<<>>]
  <2>1. <<>> \in Seq(Nat) /\ 0 \in Nat
    OBVIOUS
  <2> QED  BY <1>1, <2>1, Zenon DEF Begins
<1>4. ASSUME NEW v \in Seq(Nat), NEW k \in Nat, Stream(v, k, q)
      PROVE  /\ \A b \in Noise : k \in R[<<b>> \o v]
             /\ k < Len(q) => k + 1 \in R[WriteFrame(q[Len(q) - k]) \o v]
  <2>1. ASSUME NEW b \in Noise PROVE k \in R[<<b>> \o v]
    <3>1. <<b>> \o v \in Seq(Nat)
      BY FrameAssumption DEF Byte
    <3>2. Begins(<<b>> \o v, k, q)
      BY <1>4, Zenon DEF Begins
    <3> QED  BY <1>1, <3>1, <3>2, Zenon
  <2>2. ASSUME k < Len(q) PROVE k + 1 \in R[WriteFrame(q[Len(q) - k]) \o v]
    <3>1. q[Len(q) - k] \in Frames
      BY <2>2
    <3>2. WriteFrame(q[Len(q) - k]) \in Seq(Nat)
      BY <3>1, WriteType
    <3>3. WriteFrame(q[Len(q) - k]) \o v \in Seq(Nat)
      BY <3>2
    <3>4. Begins(WriteFrame(q[Len(q) - k]) \o v, k + 1, q)
      BY <1>4, <2>2, Zenon DEF Begins
    <3>5. k + 1 \in Nat
      OBVIOUS
    <3> QED  BY <1>1, <3>3, <3>4, <3>5, Zenon
  <2> QED  BY <2>1, <2>2, Zenon
<1>5. c \in R[w]
  BY <1>2, <1>3, <1>4, StreamInduction, Zenon
<1> QED  BY <1>1, <1>5, Zenon

\* Another frame at the end.
LEMMA StreamFrame ==
  ASSUME NEW q \in Seq(Frames), NEW w \in Seq(Nat), NEW c, Stream(w, c, q),
         NEW f \in Frames
  PROVE  Stream(w \o WriteFrame(f), c + 1, Append(q, f))
<1> DEFINE q2 == Append(q, f)
           F == WriteFrame(f)
           R == [v \in Seq(Nat) |-> {k \in Nat : Stream(v \o F, k + 1, q2)}]
<1>0. F \in Seq(Nat) /\ Assoc(Nat)
  BY WriteType, JoinedAssoc
<1>q. /\ q2 \in Seq(Frames) /\ Len(q2) = Len(q) + 1 /\ q2[Len(q2)] = f
      /\ \A i \in 1..Len(q) : q2[i] = q[i]
  OBVIOUS
<1> HIDE DEF F, q2
<1>1. \A v \in Seq(Nat) : \A k : k \in R[v] <=> k \in Nat /\ Stream(v \o F, k + 1, q2)
  BY Zenon
<1>2. R \in [Seq(Nat) -> SUBSET Nat]
  <2>1. \A v \in Seq(Nat) : {k \in Nat : Stream(v \o F, k + 1, q2)} \subseteq Nat
    BY Zenon
  <2> QED  BY <2>1, Zenon
<1> HIDE DEF R
<1>3. 0 \in R[<<>>]
  <2>1. <<>> \in Seq(Nat) /\ 0 \in Nat
    OBVIOUS
  <2>2. <<>> \o F = F \o <<>>
    BY <1>0, JoinedEmpty
  <2>3. 0 < Len(q2) /\ q2[Len(q2) - 0] = f
    BY <1>q
  <2>4. Stream(WriteFrame(q2[Len(q2) - 0]) \o <<>>, 0 + 1, q2)
    BY <2>1, <2>3, StreamNone, StreamNext, Zenon
  <2>5. Stream(F \o <<>>, 0 + 1, q2)
    BY <2>3, <2>4, Zenon DEF F
  <2> QED  BY <1>1, <2>1, <2>2, <2>5, Zenon
<1>4. ASSUME NEW v \in Seq(Nat), NEW k \in Nat, k \in R[v]
      PROVE  /\ \A b \in Noise : k \in R[<<b>> \o v]
             /\ k < Len(q) => k + 1 \in R[WriteFrame(q[Len(q) - k]) \o v]
  <2>0. Stream(v \o F, k + 1, q2)
    BY <1>1, <1>4, Zenon
  <2>a. v \o F \in Seq(Nat)
    BY <1>0
  <2>1. ASSUME NEW b \in Noise PROVE k \in R[<<b>> \o v]
    <3>1. <<b>> \o v \in Seq(Nat) /\ <<b>> \in Seq(Nat)
      BY FrameAssumption DEF Byte
    <3>2. (<<b>> \o v) \o F = <<b>> \o (v \o F)
      BY <1>0, <3>1, ZenonT(60) DEF Assoc
    <3>3. Stream(<<b>> \o (v \o F), k + 1, q2)
      BY <2>0, <2>a, StreamByte, Zenon
    <3> QED  BY <1>1, <3>1, <3>2, <3>3, Zenon
  <2>2. ASSUME k < Len(q) PROVE k + 1 \in R[WriteFrame(q[Len(q) - k]) \o v]
    <3> DEFINE W == WriteFrame(q[Len(q) - k])
    <3>1. q[Len(q) - k] \in Frames
      BY <2>2
    <3>2. W \in Seq(Nat)
      BY <3>1, WriteType
    <3>a. /\ k + 1 < Len(q2) /\ Len(q2) - (k + 1) = Len(q) - k
          /\ Len(q) - k \in 1..Len(q)
      BY <1>q, <2>2
    <3>3. k + 1 < Len(q2) /\ q2[Len(q2) - (k + 1)] = q[Len(q) - k]
      BY <1>q, <3>a
    <3>4. Stream(WriteFrame(q2[Len(q2) - (k + 1)]) \o (v \o F), (k + 1) + 1, q2)
      BY <2>0, <2>a, <3>3, StreamNext, Zenon
    <3>5. Stream(W \o (v \o F), (k + 1) + 1, q2)
      BY <3>3, <3>4, Zenon
    <3> HIDE DEF W
    <3>6. (W \o v) \o F = W \o (v \o F)
      BY <1>0, <3>2, ZenonT(60) DEF Assoc
    <3>7. W \o v \in Seq(Nat) /\ k + 1 \in Nat
      BY <3>2
    <3>8. k + 1 \in R[W \o v]
      BY <1>1, <3>5, <3>6, <3>7, Zenon
    <3> QED  BY <3>8 DEF W
  <2> QED  BY <2>1, <2>2, Zenon
<1>5. c \in R[w]
  BY <1>2, <1>3, <1>4, StreamInduction, Zenon
<1> QED  BY <1>1, <1>5, Zenon DEF F, q2

\* Another byte of garbage at the end.
LEMMA StreamNoise ==
  ASSUME NEW q \in Seq(Frames), NEW w \in Seq(Nat), NEW c, Stream(w, c, q),
         NEW x \in Noise
  PROVE  Stream(w \o <<x>>, c, q)
<1> DEFINE F == <<x>>
           R == [v \in Seq(Nat) |-> {k \in Nat : Stream(v \o F, k, q)}]
<1>0. F \in Seq(Nat) /\ Assoc(Nat)
  BY FrameAssumption, JoinedAssoc DEF Byte
<1>1. Stream(F \o <<>>, 0, q)
  <2>1. <<>> \in Seq(Nat)
    OBVIOUS
  <2> QED  BY <2>1, StreamNone, StreamByte, Zenon
<1> HIDE DEF F
<1>2. \A v \in Seq(Nat) : \A k : k \in R[v] <=> k \in Nat /\ Stream(v \o F, k, q)
  BY Zenon
<1>3. R \in [Seq(Nat) -> SUBSET Nat]
  <2>1. \A v \in Seq(Nat) : {k \in Nat : Stream(v \o F, k, q)} \subseteq Nat
    BY Zenon
  <2> QED  BY <2>1, Zenon
<1> HIDE DEF R
<1>4. 0 \in R[<<>>]
  <2>1. <<>> \in Seq(Nat) /\ 0 \in Nat
    OBVIOUS
  <2>2. <<>> \o F = F \o <<>>
    BY <1>0, JoinedEmpty
  <2> QED  BY <1>1, <1>2, <2>1, <2>2, Zenon
<1>5. ASSUME NEW v \in Seq(Nat), NEW k \in Nat, k \in R[v]
      PROVE  /\ \A b \in Noise : k \in R[<<b>> \o v]
             /\ k < Len(q) => k + 1 \in R[WriteFrame(q[Len(q) - k]) \o v]
  <2>0. Stream(v \o F, k, q)
    BY <1>2, <1>5, Zenon
  <2>a. v \o F \in Seq(Nat)
    BY <1>0
  <2>1. ASSUME NEW b \in Noise PROVE k \in R[<<b>> \o v]
    <3>1. <<b>> \o v \in Seq(Nat) /\ <<b>> \in Seq(Nat)
      BY FrameAssumption DEF Byte
    <3>2. (<<b>> \o v) \o F = <<b>> \o (v \o F)
      BY <1>0, <3>1, ZenonT(60) DEF Assoc
    <3>3. Stream(<<b>> \o (v \o F), k, q)
      BY <2>0, <2>a, StreamByte, Zenon
    <3> QED  BY <1>2, <3>1, <3>2, <3>3, Zenon
  <2>2. ASSUME k < Len(q) PROVE k + 1 \in R[WriteFrame(q[Len(q) - k]) \o v]
    <3> DEFINE W == WriteFrame(q[Len(q) - k])
    <3>1. q[Len(q) - k] \in Frames
      BY <2>2
    <3>2. W \in Seq(Nat)
      BY <3>1, WriteType
    <3>3. Stream(W \o (v \o F), k + 1, q)
      BY <2>0, <2>2, <2>a, StreamNext, Zenon
    <3> HIDE DEF W
    <3>4. (W \o v) \o F = W \o (v \o F)
      BY <1>0, <3>2, Zenon DEF Assoc
    <3>5. W \o v \in Seq(Nat) /\ k + 1 \in Nat
      BY <3>2
    <3>6. k + 1 \in R[W \o v]
      BY <1>2, <3>3, <3>4, <3>5, Zenon
    <3> QED  BY <3>6 DEF W
  <2> QED  BY <2>1, <2>2, Zenon
<1>6. c \in R[w]
  BY <1>3, <1>4, <1>5, StreamInduction, Zenon
<1> QED  BY <1>2, <1>6, Zenon DEF F

-----------------------------------------------------------------------------
(* Where ReadFrame is in the stream: d frames of q are read, r is collected *)
(* of the next one and w is what follows.                                   *)

\* The payload p is collected up to rest; after its closing flag comes v.
Inside(p, r, rest, v, d, q) ==
  /\ rest \in Seq(Nat) /\ v \in Seq(Nat)
  /\ d < Len(q) /\ p = Payload(q[d + 1])
  /\ r \o rest = p
  /\ Stream(v, Len(q) - (d + 1), q)

\* The code byte that stands for b after an escape byte.
Code(b) == IF b = flagByte THEN 2 ELSE 1

Outside(r, d, q, w) == r = <<>> /\ Stream(w, Len(q) - d, q)

Collecting(r, d, q, w) ==
  \E p, rest, v : /\ Inside(p, r, rest, v, d, q)
                  /\ w = Escape(rest) \o (<<flagByte>> \o v)

Escaping(r, d, q, w) ==
  \E p, rest, v : /\ Inside(p, r, rest, v, d, q)
                  /\ rest # <<>> /\ Head(rest) \in {flagByte, escapeByte}
                  /\ w = <<Code(Head(rest))>>
                           \o (Escape(Tail(rest)) \o (<<flagByte>> \o v))

Reading(m, r, d, q, w) ==
  \/ m = "skip" /\ Outside(r, d, q, w)
  \/ m = "collect" /\ Collecting(r, d, q, w)
  \/ m = "escape" /\ Escaping(r, d, q, w)

\* One byte and the rest.
LEMMA FirstByte ==
  ASSUME NEW b \in Nat, NEW v \in Seq(Nat)
  PROVE  /\ <<b>> \in Seq(Nat) /\ <<b>> \o v \in Seq(Nat) /\ <<b>> \o v # <<>>
         /\ Head(<<b>> \o v) = b /\ Tail(<<b>> \o v) = v
OBVIOUS

\* A frame is its flag, its escaped payload and its flag.
LEMMA FrameThen ==
  ASSUME NEW f \in Frames, NEW v \in Seq(Nat)
  PROVE  WriteFrame(f) \o v
           = <<flagByte>> \o (Escape(Payload(f)) \o (<<flagByte>> \o v))
<1> DEFINE a == <<flagByte>>
           e == Escape(Payload(f))
<1>1. a \in Seq(Nat) /\ e \in Seq(Nat) /\ Assoc(Nat)
  BY WriteType, JoinedAssoc
<1>2. WriteFrame(f) = (a \o e) \o a
  BY Zenon DEF WriteFrame
<1> HIDE DEF a, e
<1>3. e \o a \in Seq(Nat) /\ a \o v \in Seq(Nat) /\ a \o e \in Seq(Nat)
  BY <1>1
<1>4. ((a \o e) \o a) \o v = (a \o e) \o (a \o v)
  BY <1>1, <1>3, ZenonT(60) DEF Assoc
<1>5. (a \o e) \o (a \o v) = a \o (e \o (a \o v))
  BY <1>1, <1>3, ZenonT(60) DEF Assoc
<1> QED  BY <1>2, <1>4, <1>5, Zenon DEF a, e

\* Skip: garbage is skipped, and the flag that ends the skipping opens the
\* next frame.
LEMMA ReadSkip ==
  ASSUME flagByte \notin Noise, NEW q \in Seq(Frames), NEW d \in Nat,
         d <= Len(q), NEW w \in Seq(Nat), w # <<>>, NEW r, Outside(r, d, q, w)
  PROVE  \/ Head(w) # flagByte /\ Outside(r, d, q, Tail(w))
         \/ Head(w) = flagByte /\ Collecting(r, d, q, Tail(w))
<1>1. r = <<>> /\ Begins(w, Len(q) - d, q)
  BY StreamBegins DEF Outside
<1>2. CASE \E b \in Noise, v \in Seq(Nat) : w = <<b>> \o v /\ Stream(v, Len(q) - d, q)
  <2>1. PICK b \in Noise, v \in Seq(Nat) : w = <<b>> \o v /\ Stream(v, Len(q) - d, q)
    BY <1>2, Zenon
  <2>2. b \in Nat /\ b # flagByte
    BY FrameAssumption DEF Byte
  <2>3. Head(w) = b /\ Tail(w) = v
    BY <2>1, <2>2, FirstByte
  <2> QED  BY <1>1, <2>1, <2>2, <2>3, Zenon DEF Outside
<1>3. CASE \E k \in Nat, v \in Seq(Nat) :
             /\ k < Len(q) /\ Len(q) - d = k + 1 /\ Stream(v, k, q)
             /\ w = WriteFrame(q[Len(q) - k]) \o v
  <2>1. PICK k \in Nat, v \in Seq(Nat) :
             /\ k < Len(q) /\ Len(q) - d = k + 1 /\ Stream(v, k, q)
             /\ w = WriteFrame(q[Len(q) - k]) \o v
    BY <1>3, Zenon
  <2>2. d < Len(q) /\ d + 1 \in 1..Len(q) /\ Len(q) - k = d + 1 /\ k = Len(q) - (d + 1)
    BY <2>1
  <2> DEFINE f == q[d + 1]
             t == Escape(Payload(f)) \o (<<flagByte>> \o v)
  <2>3. f \in Frames
    BY <2>2
  <2>4. w = <<flagByte>> \o t
    <3>1. w = WriteFrame(f) \o v
      BY <2>1, <2>2, Zenon
    <3> HIDE DEF f
    <3> QED  BY <2>3, <3>1, FrameThen
  <2>5. t \in Seq(Nat) /\ Payload(f) \in Seq(Nat)
    <3> HIDE DEF f
    <3>1. Payload(f) \in Seq(Nat) /\ Escape(Payload(f)) \in Seq(Nat) /\ <<flagByte>> \in Seq(Nat)
      BY <2>3, WriteType, PayloadRead
    <3> QED  BY <3>1
  <2>6. Head(w) = flagByte /\ Tail(w) = t
    <3> HIDE DEF t
    <3>1. flagByte \in Nat
      BY Marks DEF Byte
    <3> QED  BY <2>4, <2>5, <3>1, FirstByte
  <2>7. Inside(Payload(f), r, Payload(f), v, d, q)
    <3>1. r \o Payload(f) = Payload(f)
      BY <1>1, <2>5, JoinedEmpty
    <3> QED  BY <2>1, <2>2, <2>5, <3>1, Zenon DEF Inside
  <2> QED  BY <2>6, <2>7, Zenon DEF Collecting
<1> QED  BY <1>1, <1>2, <1>3, Zenon DEF Begins

\* A byte moves from what is left to what is collected.
LEMMA OneMore ==
  ASSUME NEW r \in Seq(Nat), NEW rest \in Seq(Nat), rest # <<>>
  PROVE  Append(r, Head(rest)) \o Tail(rest) = r \o rest
<1>a. Head(rest) \in Nat /\ Tail(rest) \in Seq(Nat)
  OBVIOUS
<1>b. <<Head(rest)>> \in Seq(Nat)
  BY <1>a
<1>c. <<Head(rest)>> \o Tail(rest) = rest
  BY <1>a, <1>b
<1>d. ASSUME NEW x \in Nat PROVE Append(r, x) = r \o <<x>>
  OBVIOUS
<1>1. /\ Head(rest) \in Nat /\ Tail(rest) \in Seq(Nat)
      /\ <<Head(rest)>> \in Seq(Nat) /\ <<Head(rest)>> \o Tail(rest) = rest
      /\ Append(r, Head(rest)) = r \o <<Head(rest)>>
  BY <1>a, <1>b, <1>c, <1>d, Zenon
<1>2. Assoc(Nat)
  BY JoinedAssoc
<1>3. (r \o <<Head(rest)>>) \o Tail(rest) = r \o (<<Head(rest)>> \o Tail(rest))
  BY <1>1, <1>2, Zenon DEF Assoc
<1> QED  BY <1>1, <1>3, Zenon

\* Collect, Finish: a flag ends the payload, an escape byte announces a code,
\* any other byte is the next one of the payload.
LEMMA ReadCollect ==
  ASSUME NEW q \in Seq(Frames), NEW d \in Nat, NEW w \in Seq(Nat),
         NEW r \in Seq(Nat), Collecting(r, d, q, w)
  PROVE  \/ /\ Head(w) = flagByte
            /\ d < Len(q) /\ r = Payload(q[d + 1]) /\ Outside(<<>>, d + 1, q, Tail(w))
         \/ Head(w) = escapeByte /\ Escaping(r, d, q, Tail(w))
         \/ /\ Head(w) \notin {flagByte, escapeByte}
            /\ Collecting(Append(r, Head(w)), d, q, Tail(w))
<1>1. PICK p, rest, v : /\ Inside(p, r, rest, v, d, q)
                        /\ w = Escape(rest) \o (<<flagByte>> \o v)
  BY Zenon DEF Collecting
<1>2. /\ rest \in Seq(Nat) /\ v \in Seq(Nat) /\ d < Len(q)
      /\ p = Payload(q[d + 1]) /\ r \o rest = p /\ Stream(v, Len(q) - (d + 1), q)
  BY <1>1, Zenon DEF Inside
<1> DEFINE t == <<flagByte>> \o v
<1>3. t \in Seq(Nat) /\ Head(t) = flagByte /\ Tail(t) = v
  <2>1. flagByte \in Nat
    BY Marks DEF Byte
  <2> QED  BY <1>2, <2>1, FirstByte
<1> HIDE DEF t
<1>4. CASE rest = <<>>
  <2>1. w = t
    BY <1>1, <1>3, <1>4, EscapeEmpty, JoinedEmpty DEF t
  <2>2. r = p
    BY <1>2, <1>4, JoinedEmpty
  <2> QED  BY <1>2, <1>3, <2>1, <2>2, Zenon DEF Outside
<1>5. CASE rest # <<>>
  <2> DEFINE x == Head(rest)
             y == Tail(rest)
             e == Escape(y) \o t
  <2>1. x \in Nat /\ y \in Seq(Nat)
    BY <1>2, <1>5
  <2>2. Escape(rest) = EscapeByte(x) \o Escape(y)
    BY <1>2, <1>5, EscapeCons
  <2>3. Append(r, x) \o y = p
    BY <1>2, <1>5, OneMore
  <2>z. Head(rest) = x /\ Tail(rest) = y
    OBVIOUS
  <2> HIDE DEF x, y
  <2>4. Escape(y) \in Seq(Nat) /\ EscapeByte(x) \in Seq(Nat)
    BY <2>1, EscapeType, Escapes
  <2>5. w = EscapeByte(x) \o e /\ e \in Seq(Nat)
    <3>1. Assoc(Nat)
      BY JoinedAssoc
    <3>2. (EscapeByte(x) \o Escape(y)) \o t = EscapeByte(x) \o (Escape(y) \o t)
      BY <1>3, <2>4, <3>1, ZenonT(60) DEF Assoc
    <3>3. w = Escape(rest) \o t
      BY <1>1, Zenon DEF t
    <3>4. e \in Seq(Nat)
      BY <1>3, <2>4
    <3> QED  BY <2>2, <3>2, <3>3, <3>4, Zenon
  <2>6. CASE x \notin {flagByte, escapeByte}
    <3>1. w = <<x>> \o e
      BY <2>1, <2>5, <2>6, Escapes
    <3>2. Head(w) = x /\ Tail(w) = e
      <4> HIDE DEF e
      <4> QED  BY <2>1, <2>5, <3>1, FirstByte
    <3>3. Inside(p, Append(r, x), y, v, d, q)
      BY <1>2, <2>1, <2>3, Zenon DEF Inside
    <3>4. Collecting(Append(r, x), d, q, e)
      BY <3>3, Zenon DEF Collecting, t
    <3> HIDE DEF e
    <3> QED  BY <2>6, <3>2, <3>4, Zenon
  <2>7. CASE x \in {flagByte, escapeByte}
    <3>1. EscapeByte(x) = <<escapeByte, Code(x)>> /\ Code(x) \in Nat
      BY <2>7, Marks DEF EscapeByte, Code
    <3>2. w = <<escapeByte>> \o (<<Code(x)>> \o e)
      <4>1. escapeByte \in Nat
        BY Marks DEF Byte
      <4> DEFINE k == Code(x)
      <4>2. EscapeByte(x) = <<escapeByte, k>> /\ k \in Nat
        BY <3>1
      <4> HIDE DEF e, k
      <4>3. <<escapeByte>> \in Seq(Nat) /\ <<k>> \in Seq(Nat)
        BY <4>1, <4>2
      <4>4. <<escapeByte, k>> = <<escapeByte>> \o <<k>>
        BY <4>1, <4>2
      <4>5. Assoc(Nat)
        BY JoinedAssoc
      <4>6. e \in Seq(Nat)
        BY <2>5
      <4>7. (<<escapeByte>> \o <<k>>) \o e = <<escapeByte>> \o (<<k>> \o e)
        BY <4>3, <4>5, <4>6, ZenonT(60) DEF Assoc
      <4>8. w = EscapeByte(x) \o e
        BY <2>5
      <4> QED  BY <4>2, <4>4, <4>7, <4>8, Zenon DEF k
    <3>3. Head(w) = escapeByte /\ Tail(w) = <<Code(x)>> \o e
      <4>1. escapeByte \in Nat
        BY Marks DEF Byte
      <4> HIDE DEF e
      <4>2. <<Code(x)>> \o e \in Seq(Nat)
        BY <2>5, <3>1, FirstByte
      <4> QED  BY <3>2, <4>1, <4>2, FirstByte
    <3>4. Escaping(r, d, q, <<Code(x)>> \o e)
      BY <1>1, <1>5, <2>7, <2>z, Zenon DEF Escaping, t
    <3> HIDE DEF e
    <3> QED  BY <3>3, <3>4, Zenon
  <2> QED  BY <2>6, <2>7
<1> QED  BY <1>4, <1>5

\* Unescape: the code is one of the two, and stands for the next byte.
LEMMA ReadEscape ==
  ASSUME NEW q \in Seq(Frames), NEW d \in Nat, NEW w \in Seq(Nat),
         NEW r \in Seq(Nat), Escaping(r, d, q, w)
  PROVE  /\ Head(w) \in {1, 2}
         /\ Collecting(Append(r, IF Head(w) = 1 THEN escapeByte ELSE flagByte),
                       d, q, Tail(w))
<1>1. PICK p, rest, v : /\ Inside(p, r, rest, v, d, q)
                        /\ rest # <<>> /\ Head(rest) \in {flagByte, escapeByte}
                        /\ w = <<Code(Head(rest))>>
                                 \o (Escape(Tail(rest)) \o (<<flagByte>> \o v))
  BY Zenon DEF Escaping
<1>2. /\ rest \in Seq(Nat) /\ v \in Seq(Nat) /\ d < Len(q)
      /\ p = Payload(q[d + 1]) /\ r \o rest = p /\ Stream(v, Len(q) - (d + 1), q)
  BY <1>1, Zenon DEF Inside
<1> DEFINE x == Head(rest)
           y == Tail(rest)
           e == Escape(y) \o (<<flagByte>> \o v)
<1>3. x \in Nat /\ y \in Seq(Nat) /\ Append(r, x) \o y = p
  <2>1. x \in Nat /\ y \in Seq(Nat)
    BY <1>1, <1>2, SMTT(60)
  <2>2. Append(r, x) \o y = r \o rest
    BY <1>1, <1>2, OneMore, Zenon
  <2> QED  BY <1>2, <2>1, <2>2, Zenon
<1>4. Code(x) \in {1, 2} /\ x = IF Code(x) = 1 THEN escapeByte ELSE flagByte
  BY <1>1, Marks DEF Code
<1>5. e \in Seq(Nat)
  <2>1. flagByte \in Nat
    BY Marks DEF Byte
  <2> HIDE DEF y
  <2>2. Escape(y) \in Seq(Nat) /\ <<flagByte>> \o v \in Seq(Nat)
    BY <1>2, <1>3, <2>1, EscapeType, FirstByte
  <2> QED  BY <2>2
<1>6. w = <<Code(x)>> \o e
  BY <1>1, Zenon
<1>7. Inside(p, Append(r, x), y, v, d, q)
  BY <1>2, <1>3, Zenon DEF Inside
<1>8. Collecting(Append(r, x), d, q, e)
  BY <1>7, Zenon DEF Collecting
<1> HIDE DEF x, e
<1>9. Head(w) = Code(x) /\ Tail(w) = e
  BY <1>4, <1>5, <1>6, FirstByte
<1> QED  BY <1>4, <1>8, <1>9, Zenon

-----------------------------------------------------------------------------
(* More is written.                                                        *)

\* z is written: the frames q have become q2.
Extends(q, q2, z) ==
  /\ q \in Seq(Frames) /\ q2 \in Seq(Frames) /\ z \in Seq(Nat)
  /\ Len(q) <= Len(q2)
  /\ \A i \in 1..Len(q) : q2[i] = q[i]
  /\ \A v \in Seq(Nat), c \in Nat :
       Stream(v, c, q) => Stream(v \o z, c + (Len(q2) - Len(q)), q2)

LEMMA InsideExtends ==
  ASSUME NEW q, NEW q2, NEW z, Extends(q, q2, z), NEW d \in Nat,
         NEW p, NEW r, NEW rest, NEW v, Inside(p, r, rest, v, d, q)
  PROVE  Inside(p, r, rest, v \o z, d, q2)
<1>1. /\ rest \in Seq(Nat) /\ v \in Seq(Nat) /\ d < Len(q)
      /\ p = Payload(q[d + 1]) /\ r \o rest = p /\ Stream(v, Len(q) - (d + 1), q)
  BY Zenon DEF Inside
<1>2. /\ q \in Seq(Frames) /\ q2 \in Seq(Frames) /\ z \in Seq(Nat)
      /\ Len(q) <= Len(q2) /\ \A i \in 1..Len(q) : q2[i] = q[i]
  BY Zenon DEF Extends
<1> DEFINE c == Len(q) - (d + 1)
<1>3. /\ d < Len(q2) /\ q2[d + 1] = q[d + 1] /\ c \in Nat
      /\ c + (Len(q2) - Len(q)) = Len(q2) - (d + 1)
  <2>1. d < Len(q) /\ Len(q) <= Len(q2) /\ Len(q) \in Nat /\ Len(q2) \in Nat
    BY <1>1, <1>2
  <2>2. d + 1 \in 1..Len(q)
    BY <2>1, SMT
  <2>3. q2[d + 1] = q[d + 1]
    BY <1>2, <2>2, Zenon
  <2>4. /\ d < Len(q2) /\ c \in Nat
        /\ c + (Len(q2) - Len(q)) = Len(q2) - (d + 1)
    BY <2>1, SMT
  <2> QED  BY <2>3, <2>4, Zenon
<1> HIDE DEF c
<1>4. Stream(v, c, q)
  BY <1>1 DEF c
<1>5. Stream(v \o z, c + (Len(q2) - Len(q)), q2)
  BY <1>1, <1>3, <1>4, Zenon DEF Extends
<1>6. v \o z \in Seq(Nat)
  BY <1>1, <1>2
<1> QED  BY <1>1, <1>3, <1>5, <1>6, Zenon DEF Inside

\* What follows the collected bytes grows at its end.
Grows(a, v, z) ==
  /\ (a \o (<<flagByte>> \o v)) \o z = a \o (<<flagByte>> \o (v \o z))
  /\ a \o (<<flagByte>> \o v) \in Seq(Nat)

LEMMA TailExtends ==
  ASSUME NEW a \in Seq(Nat), NEW v \in Seq(Nat), NEW z \in Seq(Nat)
  PROVE  Grows(a, v, z)
<1> DEFINE g == <<flagByte>>
<1>1. g \in Seq(Nat)
  BY Marks DEF Byte
<1> HIDE DEF g
<1>a. Assoc(Nat)
  BY JoinedAssoc
<1>2. g \o v \in Seq(Nat) /\ a \o (g \o v) \in Seq(Nat)
  BY <1>1
<1>3. (a \o (g \o v)) \o z = a \o ((g \o v) \o z)
  BY <1>1, <1>2, <1>a, ZenonT(60) DEF Assoc
<1>4. (g \o v) \o z = g \o (v \o z)
  BY <1>1, <1>a, ZenonT(60) DEF Assoc
<1> QED  BY <1>2, <1>3, <1>4, Zenon DEF Grows, g

LEMMA ReadingExtends ==
  ASSUME NEW q, NEW q2, NEW z, Extends(q, q2, z), NEW d \in Nat, d <= Len(q),
         NEW m, NEW r, NEW w \in Seq(Nat), Reading(m, r, d, q, w)
  PROVE  Reading(m, r, d, q2, w \o z)
<1>0. /\ q \in Seq(Frames) /\ q2 \in Seq(Frames) /\ z \in Seq(Nat)
      /\ Len(q) <= Len(q2)
  BY Zenon DEF Extends
<1>1. CASE m = "skip" /\ Outside(r, d, q, w)
  <2> DEFINE c == Len(q) - d
  <2>1. c \in Nat /\ c + (Len(q2) - Len(q)) = Len(q2) - d
    BY <1>0
  <2> HIDE DEF c
  <2>2. r = <<>> /\ Stream(w, c, q)
    BY <1>1 DEF Outside, c
  <2>3. Stream(w \o z, c + (Len(q2) - Len(q)), q2)
    BY <2>1, <2>2, Zenon DEF Extends
  <2> QED  BY <1>1, <2>1, <2>2, <2>3, Zenon DEF Reading, Outside
<1>2. CASE m = "collect" /\ Collecting(r, d, q, w)
  <2>1. PICK p, rest, v : /\ Inside(p, r, rest, v, d, q)
                          /\ w = Escape(rest) \o (<<flagByte>> \o v)
    BY <1>2, Zenon DEF Collecting
  <2>2. Inside(p, r, rest, v \o z, d, q2)
    BY <2>1, InsideExtends
  <2>3. Escape(rest) \in Seq(Nat) /\ v \in Seq(Nat)
    BY <2>1, EscapeType DEF Inside
  <2>4. w \o z = Escape(rest) \o (<<flagByte>> \o (v \o z))
    <3>1. Grows(Escape(rest), v, z)
      BY <1>0, <2>3, TailExtends
    <3> QED  BY <2>1, <3>1, Zenon DEF Grows
  <2> QED  BY <1>2, <2>2, <2>4, Zenon DEF Reading, Collecting
<1>3. CASE m = "escape" /\ Escaping(r, d, q, w)
  <2>1. PICK p, rest, v : /\ Inside(p, r, rest, v, d, q)
                          /\ rest # <<>> /\ Head(rest) \in {flagByte, escapeByte}
                          /\ w = <<Code(Head(rest))>>
                                   \o (Escape(Tail(rest)) \o (<<flagByte>> \o v))
    BY <1>3, Zenon DEF Escaping
  <2>2. Inside(p, r, rest, v \o z, d, q2)
    BY <2>1, InsideExtends
  <2> DEFINE a == Escape(Tail(rest))
             t == a \o (<<flagByte>> \o v)
             k == <<Code(Head(rest))>>
  <2>3. a \in Seq(Nat) /\ v \in Seq(Nat)
    <3>1. Tail(rest) \in Seq(Nat) /\ v \in Seq(Nat)
      BY <2>1 DEF Inside
    <3> QED  BY <3>1, EscapeType
  <2>4. k \in Seq(Nat)
    BY DEF Code
  <2>5. t \in Seq(Nat) /\ t \o z = a \o (<<flagByte>> \o (v \o z))
    <3> HIDE DEF a
    <3>1. Grows(a, v, z)
      BY <1>0, <2>3, TailExtends
    <3> QED  BY <3>1, Zenon DEF Grows
  <2>6. w = k \o t
    BY <2>1, Zenon
  <2>7. (k \o t) \o z = k \o (t \o z)
    <3>1. Assoc(Nat)
      BY JoinedAssoc
    <3> HIDE DEF k, t
    <3> QED  BY <1>0, <2>4, <2>5, <3>1, Zenon DEF Assoc
  <2>8. w \o z = k \o (a \o (<<flagByte>> \o (v \o z)))
    <3> HIDE DEF k, t, a
    <3> QED  BY <2>5, <2>6, <2>7, Zenon
  <2> QED  BY <1>3, <2>1, <2>2, <2>8, Zenon DEF Reading, Escaping
<1> QED  BY <1>1, <1>2, <1>3, Zenon DEF Reading

\* Write.
LEMMA FrameExtends ==
  ASSUME NEW q \in Seq(Frames), NEW f \in Frames
  PROVE  Extends(q, Append(q, f), WriteFrame(f))
<1> DEFINE q2 == Append(q, f)
<1>1. /\ q2 \in Seq(Frames) /\ Len(q2) - Len(q) = 1 /\ Len(q) <= Len(q2)
      /\ \A i \in 1..Len(q) : q2[i] = q[i]
  OBVIOUS
<1>2. \A v \in Seq(Nat), c \in Nat : Stream(v, c, q) => Stream(v \o WriteFrame(f), c + 1, q2)
  BY StreamFrame, Zenon
<1>3. WriteFrame(f) \in Seq(Nat)
  BY WriteType
<1> HIDE DEF q2
<1>4. Extends(q, q2, WriteFrame(f))
  BY <1>1, <1>2, <1>3, Zenon DEF Extends
<1> QED  BY <1>4 DEF q2

\* WriteNoise.
LEMMA NoiseExtends ==
  ASSUME NEW q \in Seq(Frames), NEW b \in Noise
  PROVE  Extends(q, q, <<b>>)
<1>1. \A c \in Nat : c + (Len(q) - Len(q)) = c
  OBVIOUS
<1>2. ASSUME NEW v \in Seq(Nat), NEW c \in Nat, Stream(v, c, q)
      PROVE  Stream(v \o <<b>>, c + (Len(q) - Len(q)), q)
  BY <1>1, <1>2, StreamNoise, Zenon
<1>3. <<b>> \in Seq(Nat) /\ Len(q) <= Len(q)
  BY FrameAssumption DEF Byte
<1> QED  BY <1>2, <1>3, Zenon DEF Extends

-----------------------------------------------------------------------------
(* The inductive invariant.                                                *)

FrameType ==
  /\ sent \in Seq(Frames)
  /\ wire \in Seq(Nat)
  /\ closed \in BOOLEAN
  /\ raw \in Seq(Nat)
  /\ got \in Seq({Received(f) : f \in Frames})

\* What was returned are the first of the frames written.
InOrder ==
  /\ Len(got) <= Len(sent)
  /\ \A i \in 1..Len(got) : got[i] = Received(sent[i])

\* ReadFrame is somewhere in the stream of the frames that it has not
\* returned; z is the part of it that a disconnection took away.
Position ==
  \/ mode = "failed" /\ closed
  \/ \E z \in Seq(Nat) : /\ Reading(mode, raw, Len(got), sent, wire \o z)
                         /\ ~closed => z = <<>>

FrameInv == FrameType /\ InOrder /\ Position

LEMMA InitInv == Init => FrameInv
<1> SUFFICES ASSUME Init PROVE FrameInv
  OBVIOUS
<1>1. FrameType /\ InOrder
  <2>1. sent \in Seq(Frames) /\ wire \in Seq(Nat) /\ raw \in Seq(Nat)
    BY DEF Init
  <2>2. got \in Seq({Received(f) : f \in Frames})
    BY DEF Init
  <2>3. InOrder
    BY DEF Init, InOrder
  <2> QED  BY <2>1, <2>2, <2>3 DEF Init, FrameType
<1>2. Reading(mode, raw, Len(got), sent, wire \o <<>>)
  <2>1. mode = "skip" /\ raw = <<>> /\ Len(sent) - Len(got) = 0 /\ wire \o <<>> = <<>>
    BY DEF Init
  <2>2. Stream(wire \o <<>>, Len(sent) - Len(got), sent)
    BY <2>1, StreamNone, Zenon
  <2> QED  BY <2>1, <2>2, Zenon DEF Reading, Outside
<1>3. <<>> \in Seq(Nat)
  OBVIOUS
<1> QED  BY <1>1, <1>2, <1>3, Zenon DEF FrameInv, Position

\* As long as the peer is there nothing is lost.
LEMMA OpenPosition ==
  ASSUME FrameType, Position, ~closed
  PROVE  Reading(mode, raw, Len(got), sent, wire)
<1>1. PICK z \in Seq(Nat) : /\ Reading(mode, raw, Len(got), sent, wire \o z)
                            /\ ~closed => z = <<>>
  BY Zenon DEF Position
<1>2. wire \o <<>> = wire
  BY JoinedEmpty DEF FrameType
<1> QED  BY <1>1, <1>2, Zenon

LEMMA WriteInv ==
  ASSUME FrameInv, NEW f \in Frames, Write(f)
  PROVE  FrameInv'
<1>1. FrameType /\ InOrder /\ Position /\ ~closed
  BY Zenon DEF FrameInv, Write
<1>2. /\ sent' = Append(sent, f) /\ wire' = wire \o WriteFrame(f)
      /\ UNCHANGED <<closed, mode, raw, got>>
  BY DEF Write
<1>3. FrameType'
  <2>1. wire' \in Seq(Nat)
    BY <1>1, <1>2, WriteType DEF FrameType
  <2>2. sent' \in Seq(Frames)
    BY <1>1, <1>2 DEF FrameType
  <2> QED  BY <1>1, <1>2, <2>1, <2>2 DEF FrameType
<1>4. InOrder'
  <2>1. /\ sent \in Seq(Frames) /\ got' = got /\ Len(got) \in Nat
        /\ Len(got) <= Len(sent) /\ \A i \in 1..Len(got) : got[i] = Received(sent[i])
    BY <1>1, <1>2 DEF FrameType, InOrder
  <2>2. Len(got) <= Len(sent') /\ \A i \in 1..Len(got) : sent'[i] = sent[i]
    BY <1>2, <2>1
  <2> QED  BY <2>1, <2>2 DEF InOrder
<1>5. Position'
  <2>1. Reading(mode, raw, Len(got), sent, wire)
    BY <1>1, OpenPosition
  <2>2. /\ sent \in Seq(Frames) /\ wire \in Seq(Nat) /\ Len(got) \in Nat
        /\ Len(got) <= Len(sent)
    BY <1>1 DEF FrameType, InOrder
  <2>3. Reading(mode, raw, Len(got), sent', wire')
    BY <1>2, <2>1, <2>2, FrameExtends, ReadingExtends, Zenon
  <2>4. wire' \o <<>> = wire' /\ <<>> \in Seq(Nat)
    BY <1>3, JoinedEmpty DEF FrameType
  <2> QED  BY <1>2, <2>3, <2>4, Zenon DEF Position
<1> QED  BY <1>3, <1>4, <1>5 DEF FrameInv

LEMMA WriteNoiseInv ==
  ASSUME FrameInv, NEW b \in Noise, WriteNoise(b)
  PROVE  FrameInv'
<1>1. FrameType /\ InOrder /\ Position /\ ~closed
  BY Zenon DEF FrameInv, WriteNoise
<1>a. b \in Nat
  BY FrameAssumption DEF Byte
<1>2. wire' = wire \o <<b>> /\ UNCHANGED <<sent, closed, mode, raw, got>>
  BY <1>1, <1>a DEF WriteNoise, FrameType
<1>3. FrameType' /\ InOrder'
  BY <1>1, <1>2, <1>a DEF FrameType, InOrder
<1>4. Position'
  <2>1. Reading(mode, raw, Len(got), sent, wire)
    BY <1>1, OpenPosition
  <2>2. /\ sent \in Seq(Frames) /\ wire \in Seq(Nat) /\ Len(got) \in Nat
        /\ Len(got) <= Len(sent)
    BY <1>1 DEF FrameType, InOrder
  <2>3. Reading(mode, raw, Len(got), sent, wire')
    BY <1>2, <2>1, <2>2, NoiseExtends, ReadingExtends, Zenon
  <2>4. wire' \o <<>> = wire' /\ <<>> \in Seq(Nat)
    BY <1>3, JoinedEmpty DEF FrameType
  <2> QED  BY <1>2, <2>3, <2>4, Zenon DEF Position
<1> QED  BY <1>3, <1>4 DEF FrameInv

LEMMA DisconnectInv ==
  ASSUME FrameInv, NEW n \in 0..Len(wire), Disconnect(n)
  PROVE  FrameInv'
<1>1. FrameType /\ InOrder /\ Position /\ ~closed
  BY Zenon DEF FrameInv, Disconnect
<1>2. /\ wire' = SubSeq(wire, 1, n) /\ closed' = TRUE
      /\ UNCHANGED <<sent, mode, raw, got>>
  BY DEF Disconnect
<1> DEFINE z == SubSeq(wire, n + 1, Len(wire))
<1>3. wire' \in Seq(Nat) /\ z \in Seq(Nat) /\ wire' \o z = wire
  <2>1. wire \in Seq(Nat)
    BY <1>1 DEF FrameType
  <2> QED  BY <1>2, <2>1, CutInTwo
<1>4. FrameType' /\ InOrder'
  BY <1>1, <1>2, <1>3 DEF FrameType, InOrder
<1>5. Reading(mode', raw', Len(got'), sent', wire' \o z)
  BY <1>1, <1>2, <1>3, OpenPosition
<1> HIDE DEF z
<1> QED  BY <1>2, <1>3, <1>4, <1>5, Zenon DEF FrameInv, Position

\* A byte is read: what is ahead loses its first byte.
LEMMA Ahead ==
  ASSUME NEW s \in Seq(Nat), s # <<>>, NEW z \in Seq(Nat)
  PROVE  /\ s \o z \in Seq(Nat) /\ s \o z # <<>> /\ Head(s \o z) = Head(s)
         /\ Tail(s) \in Seq(Nat) /\ Tail(s \o z) = Tail(s) \o z
<1> DEFINE h == <<Head(s)>>
           y == Tail(s)
<1>1. Head(s) \in Nat /\ y \in Seq(Nat)
  OBVIOUS
<1>2. h \in Seq(Nat) /\ s = h \o y
  BY <1>1
<1>3. y \o z \in Seq(Nat)
  BY <1>1
<1>4. s \o z = h \o (y \o z)
  <2>1. Assoc(Nat)
    BY JoinedAssoc
  <2> HIDE DEF h, y
  <2> QED  BY <1>1, <1>2, <2>1, Zenon DEF Assoc
<1> HIDE DEF y
<1>5. /\ h \o (y \o z) \in Seq(Nat) /\ h \o (y \o z) # <<>>
      /\ Head(h \o (y \o z)) = Head(s) /\ Tail(h \o (y \o z)) = y \o z
  BY <1>1, <1>3, FirstByte
<1> QED  BY <1>1, <1>4, <1>5 DEF y

\* The state a step of ReadFrame starts from.
LEMMA ReadFrom ==
  ASSUME FrameInv, wire # <<>>, mode # "failed"
  PROVE  \E z \in Seq(Nat) :
           /\ Reading(mode, raw, Len(got), sent, wire \o z)
           /\ ~closed => z = <<>>
           /\ wire \o z \in Seq(Nat) /\ wire \o z # <<>>
           /\ Head(wire \o z) = Head(wire) /\ Tail(wire \o z) = Tail(wire) \o z
           /\ Tail(wire) \in Seq(Nat)
<1>1. PICK z \in Seq(Nat) : /\ Reading(mode, raw, Len(got), sent, wire \o z)
                            /\ ~closed => z = <<>>
  BY Zenon DEF FrameInv, Position
<1>2. wire \in Seq(Nat)
  BY DEF FrameInv, FrameType
<1> QED  BY <1>1, <1>2, Ahead, Zenon

LEMMA SkipInv ==
  ASSUME flagByte \notin Noise, FrameInv, wire # <<>>, Skip(Head(wire))
  PROVE  FrameInv'
<1>1. /\ mode = "skip" /\ wire' = Tail(wire)
      /\ mode' = IF Head(wire) = flagByte THEN "collect" ELSE "skip"
      /\ UNCHANGED <<sent, closed, raw, got>>
  BY DEF Skip, Take
<1>a. mode # "failed" /\ mode # "collect" /\ mode # "escape"
  BY <1>1
<1>2. PICK z \in Seq(Nat) :
           /\ Reading(mode, raw, Len(got), sent, wire \o z)
           /\ ~closed => z = <<>>
           /\ wire \o z \in Seq(Nat) /\ wire \o z # <<>>
           /\ Head(wire \o z) = Head(wire) /\ Tail(wire \o z) = Tail(wire) \o z
           /\ Tail(wire) \in Seq(Nat)
  BY <1>a, ReadFrom
<1>3. Outside(raw, Len(got), sent, wire \o z)
  BY <1>a, <1>2, Zenon DEF Reading
<1>4. sent \in Seq(Frames) /\ Len(got) \in Nat /\ Len(got) <= Len(sent)
  BY DEF FrameInv, FrameType, InOrder
<1> DEFINE w == wire \o z
<1>5. \/ Head(w) # flagByte /\ Outside(raw, Len(got), sent, Tail(w))
      \/ Head(w) = flagByte /\ Collecting(raw, Len(got), sent, Tail(w))
  BY <1>2, <1>3, <1>4, ReadSkip
<1>6. Reading(mode', raw, Len(got), sent, Tail(w))
  BY <1>1, <1>2, <1>5, Zenon DEF Reading
<1>7. Position'
  BY <1>1, <1>2, <1>6, Zenon DEF Position
<1>8. FrameType' /\ InOrder'
  BY <1>1, <1>2 DEF FrameInv, FrameType, InOrder
<1> QED  BY <1>7, <1>8 DEF FrameInv

LEMMA CollectInv ==
  ASSUME FrameInv, wire # <<>>, Collect(Head(wire))
  PROVE  FrameInv'
<1> DEFINE b == Head(wire)
<1>1. /\ mode = "collect" /\ b # flagByte /\ wire' = Tail(wire)
      /\ b = escapeByte => mode' = "escape" /\ raw' = raw
      /\ b # escapeByte => mode' = mode /\ raw' = Append(raw, b)
      /\ UNCHANGED <<sent, closed, got>>
  BY DEF Collect, Take
<1>a. mode # "failed" /\ mode # "skip" /\ mode # "escape"
  BY <1>1
<1>2. PICK z \in Seq(Nat) :
           /\ Reading(mode, raw, Len(got), sent, wire \o z)
           /\ ~closed => z = <<>>
           /\ wire \o z \in Seq(Nat) /\ wire \o z # <<>>
           /\ Head(wire \o z) = Head(wire) /\ Tail(wire \o z) = Tail(wire) \o z
           /\ Tail(wire) \in Seq(Nat)
  BY <1>a, ReadFrom
<1>3. Collecting(raw, Len(got), sent, wire \o z)
  BY <1>a, <1>2, Zenon DEF Reading
<1>4. sent \in Seq(Frames) /\ Len(got) \in Nat /\ raw \in Seq(Nat) /\ b \in Nat
  BY DEF FrameInv, FrameType
<1> DEFINE w == wire \o z
<1>5. \/ Head(w) = flagByte
      \/ Head(w) = escapeByte /\ Escaping(raw, Len(got), sent, Tail(w))
      \/ /\ Head(w) \notin {flagByte, escapeByte}
         /\ Collecting(Append(raw, Head(w)), Len(got), sent, Tail(w))
  BY <1>2, <1>3, <1>4, ReadCollect
<1>6. Reading(mode', raw', Len(got), sent, Tail(w))
  <2>1. CASE b = escapeByte
    BY <1>1, <1>2, <1>5, <2>1, Zenon DEF Reading
  <2>2. CASE b # escapeByte
    BY <1>1, <1>2, <1>5, <2>2, Zenon DEF Reading
  <2> QED  BY <2>1, <2>2
<1>7. Position'
  BY <1>1, <1>2, <1>6, Zenon DEF Position
<1>8. raw' \in Seq(Nat)
  <2>1. Append(raw, b) \in Seq(Nat)
    BY <1>4
  <2> QED  BY <1>1, <1>4, <2>1, Zenon
<1>9. FrameType' /\ InOrder'
  BY <1>1, <1>2, <1>8 DEF FrameInv, FrameType, InOrder
<1> QED  BY <1>7, <1>9 DEF FrameInv

LEMMA UnescapeInv ==
  ASSUME FrameInv, wire # <<>>, Unescape(Head(wire))
  PROVE  FrameInv'
<1> DEFINE b == Head(wire)
           x == IF b = 1 THEN escapeByte ELSE flagByte
<1>1. /\ mode = "escape" /\ wire' = Tail(wire)
      /\ b \in {1, 2} => mode' = "collect" /\ raw' = Append(raw, x)
      /\ UNCHANGED <<sent, closed, got>>
  BY DEF Unescape, Take
<1>a. mode # "failed" /\ mode # "skip" /\ mode # "collect"
  BY <1>1
<1>2. PICK z \in Seq(Nat) :
           /\ Reading(mode, raw, Len(got), sent, wire \o z)
           /\ ~closed => z = <<>>
           /\ wire \o z \in Seq(Nat) /\ wire \o z # <<>>
           /\ Head(wire \o z) = Head(wire) /\ Tail(wire \o z) = Tail(wire) \o z
           /\ Tail(wire) \in Seq(Nat)
  BY <1>a, ReadFrom
<1>3. Escaping(raw, Len(got), sent, wire \o z)
  BY <1>a, <1>2, Zenon DEF Reading
<1>4. sent \in Seq(Frames) /\ Len(got) \in Nat /\ raw \in Seq(Nat)
  BY DEF FrameInv, FrameType
<1> DEFINE w == wire \o z
<1>5. /\ Head(w) \in {1, 2}
      /\ Collecting(Append(raw, IF Head(w) = 1 THEN escapeByte ELSE flagByte),
                    Len(got), sent, Tail(w))
  BY <1>2, <1>3, <1>4, ReadEscape, Zenon
<1>6. mode' = "collect" /\ raw' = Append(raw, x) /\ Collecting(raw', Len(got), sent, Tail(w))
  BY <1>1, <1>2, <1>5, Zenon
<1>7. Position'
  BY <1>1, <1>2, <1>6, Zenon DEF Position, Reading
<1>8. raw' \in Seq(Nat)
  <2>1. x \in Nat
    BY Marks DEF Byte
  <2> HIDE DEF x
  <2> QED  BY <1>4, <1>6, <2>1
<1>9. FrameType' /\ InOrder'
  BY <1>1, <1>2, <1>8 DEF FrameInv, FrameType, InOrder
<1> QED  BY <1>7, <1>9 DEF FrameInv

LEMMA FinishInv ==
  ASSUME FrameInv, wire # <<>>, Finish(Head(wire))
  PROVE  FrameInv'
<1>1. /\ mode = "collect" /\ Head(wire) = flagByte /\ wire' = Tail(wire)
      /\ raw' = <<>>
      /\ WellFormed(raw) => got' = Append(got, Parse(Front(raw))) /\ mode' = "skip"
      /\ UNCHANGED <<sent, closed>>
  BY DEF Finish, Take
<1>a. mode # "failed" /\ mode # "skip" /\ mode # "escape"
  BY <1>1
<1>2. PICK z \in Seq(Nat) :
           /\ Reading(mode, raw, Len(got), sent, wire \o z)
           /\ ~closed => z = <<>>
           /\ wire \o z \in Seq(Nat) /\ wire \o z # <<>>
           /\ Head(wire \o z) = Head(wire) /\ Tail(wire \o z) = Tail(wire) \o z
           /\ Tail(wire) \in Seq(Nat)
  BY <1>a, ReadFrom
<1>3. Collecting(raw, Len(got), sent, wire \o z)
  BY <1>a, <1>2, Zenon DEF Reading
<1>4. /\ sent \in Seq(Frames) /\ Len(got) \in Nat /\ raw \in Seq(Nat)
      /\ got \in Seq({Received(f) : f \in Frames})
      /\ \A i \in 1..Len(got) : got[i] = Received(sent[i])
  BY DEF FrameInv, FrameType, InOrder
<1> DEFINE w == wire \o z
           d == Len(got)
           f == sent[d + 1]
<1>5. /\ d < Len(sent) /\ raw = Payload(f) /\ Outside(<<>>, d + 1, sent, Tail(w))
  <2>1. flagByte # escapeByte /\ flagByte \in {flagByte, escapeByte}
    BY Marks
  <2>2. \/ /\ Head(w) = flagByte
           /\ d < Len(sent) /\ raw = Payload(f) /\ Outside(<<>>, d + 1, sent, Tail(w))
        \/ Head(w) = escapeByte
        \/ Head(w) \notin {flagByte, escapeByte}
    BY <1>2, <1>3, <1>4, ReadCollect
  <2>3. Head(w) = flagByte
    BY <1>1, <1>2, Zenon
  <2> HIDE DEF w
  <2> QED  BY <2>1, <2>2, <2>3, Zenon
<1>6. f \in Frames
  BY <1>4, <1>5
<1>7. WellFormed(raw) /\ Parse(Front(raw)) = Received(f)
  <2> HIDE DEF f
  <2> QED  BY <1>5, <1>6, PayloadRead, Zenon
<1>8. got' = Append(got, Received(f)) /\ mode' = "skip"
  BY <1>1, <1>7, Zenon
<1>9. /\ got' \in Seq({Received(g) : g \in Frames}) /\ Len(got') = d + 1
      /\ got'[d + 1] = Received(f) /\ \A i \in 1..d : got'[i] = got[i]
  <2>1. Received(f) \in {Received(g) : g \in Frames}
    BY <1>6, Zenon
  <2> HIDE DEF f
  <2> QED  BY <1>4, <1>8, <2>1
<1>10. FrameType'
  <2>1. raw' \in Seq(Nat)
    BY <1>1
  <2> QED  BY <1>1, <1>2, <1>9, <2>1 DEF FrameInv, FrameType
<1>11. InOrder'
  <2>1. Len(got') <= Len(sent')
    BY <1>1, <1>4, <1>5, <1>9
  <2>2. ASSUME NEW i \in 1..Len(got') PROVE got'[i] = Received(sent'[i])
    <3>1. CASE i = d + 1
      BY <1>1, <1>9, <3>1
    <3>2. CASE i # d + 1
      <4>1. i \in 1..d
        BY <1>4, <1>9, <3>2
      <4> QED  BY <1>1, <1>4, <1>9, <4>1
    <3> QED  BY <3>1, <3>2
  <2> QED  BY <2>1, <2>2 DEF InOrder
<1>12. Position'
  <2>1. Outside(raw', Len(got'), sent', wire' \o z)
    BY <1>1, <1>2, <1>5, <1>9, Zenon
  <2> QED  BY <1>1, <1>2, <1>8, <2>1, Zenon DEF Position, Reading
<1> QED  BY <1>10, <1>11, <1>12 DEF FrameInv

LEMMA ReadErrorInv ==
  ASSUME FrameInv, ReadError
  PROVE  FrameInv'
BY DEF FrameInv, FrameType, InOrder, Position, ReadError

LEMMA NextInv ==
  ASSUME flagByte \notin Noise, FrameInv, [Next]_vars
  PROVE  FrameInv'
<1>1. CASE \E f \in Frames : Write(f)
  BY <1>1, WriteInv
<1>2. CASE \E b \in Noise : WriteNoise(b)
  BY <1>2, WriteNoiseInv
<1>3. CASE \E n \in 0..Len(wire) : Disconnect(n)
  BY <1>3, DisconnectInv
<1>4. CASE ReadByte
  BY <1>4, SkipInv, CollectInv, UnescapeInv, FinishInv, Zenon DEF ReadByte
<1>5. CASE ReadError
  BY <1>5, ReadErrorInv
<1>6. CASE UNCHANGED vars
  BY <1>6 DEF vars, FrameInv, FrameType, InOrder, Position
<1> QED  BY <1>1, <1>2, <1>3, <1>4, <1>5, <1>6 DEF Next

-----------------------------------------------------------------------------
(* The theorems.                                                           *)

\* The invariant holds as long as the garbage between frames has no flag
\* byte in it: a stray flag would be taken for an opening one, and from then
\* on ReadFrame would take every closing flag for an opening one.
THEOREM FrameInvariant ==
  ASSUME flagByte \notin Noise
  PROVE  Spec => []FrameInv
<1>1. FrameInv /\ [Next]_vars => FrameInv'
  BY NextInv
<1> QED  BY <1>1, InitInv, PTL DEF Spec

\* A dry stream has no frame left in it.
LEMMA DryStream ==
  ASSUME NEW q \in Seq(Frames), NEW c, Stream(<<>>, c, q)
  PROVE  c = 0
<1>1. <<>> \in Seq(Nat)
  OBVIOUS
<1>2. Begins(<<>>, c, q)
  BY <1>1, StreamBegins, Zenon
<1>3. ASSUME NEW b \in Noise, NEW v \in Seq(Nat) PROVE <<>> # <<b>> \o v
  <2>1. b \in Nat
    BY FrameAssumption DEF Byte
  <2> QED  BY <2>1, FirstByte, Zenon
<1>4. ASSUME NEW k \in Nat, NEW v \in Seq(Nat), k < Len(q)
      PROVE  <<>> # WriteFrame(q[Len(q) - k]) \o v
  <2> DEFINE f == q[Len(q) - k]
             t == Escape(Payload(f)) \o (<<flagByte>> \o v)
  <2>1. f \in Frames
    BY <1>4
  <2> HIDE DEF f
  <2>2. t \in Seq(Nat) /\ flagByte \in Nat
    <3>1. Escape(Payload(f)) \in Seq(Nat) /\ flagByte \in Nat
      BY <2>1, WriteType, Marks DEF Byte
    <3>2. <<flagByte>> \o v \in Seq(Nat)
      BY <3>1, FirstByte
    <3> QED  BY <3>1, <3>2
  <2>3. WriteFrame(f) \o v = <<flagByte>> \o t
    BY <2>1, FrameThen
  <2> HIDE DEF t
  <2>4. <<flagByte>> \o t # <<>>
    BY <2>2, FirstByte
  <2> QED  BY <2>3, <2>4, Zenon DEF f
<1> QED  BY <1>2, <1>3, <1>4, Zenon DEF Begins

LEMMA InvLossless == FrameInv => Lossless
<1> SUFFICES ASSUME FrameInv PROVE Lossless
  OBVIOUS
<1> DEFINE all == ReceivedAll
<1>1. /\ sent \in Seq(Frames) /\ got \in Seq({Received(f) : f \in Frames})
      /\ Len(got) <= Len(sent) /\ \A i \in 1..Len(got) : got[i] = Received(sent[i])
  BY DEF FrameInv, FrameType, InOrder
<1>2. /\ all \in Seq({Received(f) : f \in Frames}) /\ Len(all) = Len(sent)
      /\ \A i \in 1..Len(sent) : all[i] = Received(sent[i])
  <2>1. DOMAIN sent = 1..Len(sent) /\ Len(sent) \in Nat
    BY <1>1
  <2>2. \A i \in 1..Len(sent) : Received(sent[i]) \in {Received(f) : f \in Frames}
    BY <1>1
  <2> QED  BY <2>1, <2>2 DEF ReceivedAll
<1> HIDE DEF all
<1>3. IsPrefix(got, all)
  <2>1. Len(got) \in Nat /\ Len(got) <= Len(all)
    BY <1>1, <1>2
  <2>2. SubSeq(got, 1, Len(got)) = SubSeq(all, 1, Len(got))
    BY <1>1, <1>2
  <2> QED  BY <2>1, <2>2 DEF IsPrefix
<1>4. ASSUME mode = "skip", wire = <<>>, ~closed PROVE got = all
  <2>1. Reading(mode, raw, Len(got), sent, wire)
    BY <1>4, OpenPosition DEF FrameInv
  <2>2. mode # "collect" /\ mode # "escape"
    BY <1>4
  <2>3. Stream(<<>>, Len(sent) - Len(got), sent)
    BY <1>4, <2>1, <2>2, Zenon DEF Reading, Outside
  <2>4. Len(sent) - Len(got) = 0
    BY <1>1, <2>3, DryStream
  <2>5. Len(got) = Len(all)
    BY <1>1, <1>2, <2>4
  <2> QED  BY <1>1, <1>2, <2>5
<1> QED  BY <1>3, <1>4 DEF Lossless, all

LEMMA InvOnlyCutsFail == FrameInv => OnlyCutsFail
<1> SUFFICES ASSUME FrameInv, mode = "failed" PROVE closed
  BY DEF OnlyCutsFail
<1>1. mode # "skip" /\ mode # "collect" /\ mode # "escape"
  OBVIOUS
<1> QED  BY <1>1, Zenon DEF FrameInv, Position, Reading

\* ReadFrame returns the frames WriteFrame wrote, in order, whatever bytes
\* they hold, however long they are and wherever the stream is cut.
THEOREM FramesArrive ==
  ASSUME flagByte \notin Noise
  PROVE  Spec => []Lossless
BY FrameInvariant, InvLossless, PTL

\* ReadFrame refuses nothing that WriteFrame wrote.
THEOREM FramesAccepted ==
  ASSUME flagByte \notin Noise
  PROVE  Spec => []OnlyCutsFail
BY FrameInvariant, InvOnlyCutsFail, PTL
=============================================================================
