----------------------------- MODULE ListLemmas -----------------------------
(***************************************************************************)
(* Induction, and what the recursive functions on sequences compute that   *)
(* the encoders and decoders are written with.                             *)
(*                                                                         *)
(* The induction theorems of the library quantify over predicates, which   *)
(* no prover can instantiate.  An induction here is over a set of numbers: *)
(* the numbers for which a claim holds.                                    *)
(***************************************************************************)
EXTENDS Integers, SequencesExt, WellFoundedInduction, TLAPS

Below == {p \in Nat \X Nat : p[1] < p[2]}

\* Numbers do not descend for ever.
LEMMA BelowWellFounded == IsWellFoundedOn(Below, Nat)
BY NatLessThanWellFounded DEF OpToRel, Below

\* A set of numbers has a least one.
LEMMA Least ==
  ASSUME NEW T, T \subseteq Nat, T # {}
  PROVE  \E n \in T : \A m \in T : n <= m
<1>1. PICK n \in T : \A m \in T : <<m, n>> \notin Below
  BY BelowWellFounded, WFMin
<1>2. ASSUME NEW m \in T PROVE n <= m
  <2>1. n \in Nat /\ m \in Nat
    OBVIOUS
  <2>2. <<m, n>> \in Nat \X Nat /\ <<m, n>>[1] = m /\ <<m, n>>[2] = n
    BY <2>1
  <2>3. ~(m < n)
    BY <1>1, <2>2 DEF Below
  <2> QED  BY <2>1, <2>3
<1> QED  BY <1>2

\* Induction: a set that has 0 and with a number the next one has them all.
LEMMA SetInduction ==
  ASSUME NEW S, 0 \in S, \A n \in Nat : n \in S => n + 1 \in S
  PROVE  Nat \subseteq S
<1> SUFFICES ASSUME Nat \ S # {} PROVE FALSE
  OBVIOUS
<1>1. PICK n \in Nat \ S : \A m \in Nat \ S : n <= m
  BY Least, Nat \ S \subseteq Nat
<1>2. n # 0 /\ n - 1 \in Nat
  BY <1>1
<1>3. n - 1 \in S
  BY <1>1, <1>2
<1> QED  BY <1>1, <1>2, <1>3

\* Induction from the last of the numbers 1..n down.
LEMMA DownInduction ==
  ASSUME NEW S, NEW n \in Nat,
         \A i \in 1..n : (\A k \in 1..n : k > i => k \in S) => i \in S
  PROVE  \A i \in 1..n : i \in S
<1> DEFINE T == {m \in Nat : \A i \in 1..n : i > n - m => i \in S}
<1>1. 0 \in T
  OBVIOUS
<1>2. ASSUME NEW m \in Nat, m \in T PROVE m + 1 \in T
  <2>1. ASSUME NEW i \in 1..n, i > n - (m + 1) PROVE i \in S
    <3>1. \A k \in 1..n : k > i => k > n - m
      BY <2>1
    <3>2. \A k \in 1..n : k > i => k \in S
      BY <1>2, <3>1
    <3> QED  BY <3>2
  <2> QED  BY <2>1
<1> HIDE DEF T
<1>3. n \in T
  BY <1>1, <1>2, SetInduction
<1>4. \A i \in 1..n : i > n - n
  OBVIOUS
<1> QED  BY <1>3, <1>4 DEF T

-----------------------------------------------------------------------------
(* Loops.                                                                  *)

\* g[k] is what a loop has after k rounds, F[k] being its k-th round.
Rounds(g, F, v, n) ==
  g[0] = v /\ \A k \in 1..n : g[k] = F[k][g[k - 1]]

\* Every loop of n rounds computes something ...
LEMMA RoundsExist ==
  ASSUME NEW V, NEW v \in V, NEW n \in Nat, NEW F \in [1..n -> [V -> V]]
  PROVE  \E g \in [0..n -> V] : Rounds(g, F, v, n)
<1> DEFINE S == {m \in Nat : m <= n => \E g \in [0..m -> V] : Rounds(g, F, v, m)}
<1>1. 0 \in S
  <2>1. [k \in 0..0 |-> v] \in [0..0 -> V] /\ Rounds([k \in 0..0 |-> v], F, v, 0)
    BY DEF Rounds
  <2> QED  BY <2>1
<1>2. ASSUME NEW m \in Nat, m \in S PROVE m + 1 \in S
  <2> SUFFICES ASSUME m + 1 <= n
               PROVE  \E h \in [0..(m + 1) -> V] : Rounds(h, F, v, m + 1)
    OBVIOUS
  <2>1. PICK g \in [0..m -> V] : Rounds(g, F, v, m)
    BY <1>2
  <2> DEFINE h == [k \in 0..(m + 1) |-> IF k = m + 1 THEN F[k][g[m]] ELSE g[k]]
  <2>2. F[m + 1] \in [V -> V] /\ g[m] \in V
    OBVIOUS
  <2>3. h \in [0..(m + 1) -> V]
    BY <2>2
  <2>4. h[0] = v
    BY <2>1 DEF Rounds
  <2>5. ASSUME NEW k \in 1..(m + 1) PROVE h[k] = F[k][h[k - 1]]
    <3>1. CASE k = m + 1
      BY <3>1
    <3>2. CASE k # m + 1
      <4>1. k \in 1..m
        BY <3>2
      <4> QED  BY <2>1, <4>1 DEF Rounds
    <3> QED  BY <3>1, <3>2
  <2> HIDE DEF h
  <2> QED  BY <2>3, <2>4, <2>5 DEF Rounds
<1> HIDE DEF S
<1>3. n \in S
  BY <1>1, <1>2, SetInduction
<1> QED  BY <1>3 DEF S

\* ... and one thing only.
LEMMA RoundsUnique ==
  ASSUME NEW n \in Nat, NEW F, NEW v, NEW g, NEW h,
         Rounds(g, F, v, n), Rounds(h, F, v, n)
  PROVE  \A k \in 0..n : g[k] = h[k]
<1> DEFINE S == {m \in Nat : m <= n => g[m] = h[m]}
<1>1. 0 \in S
  BY DEF Rounds
<1>2. ASSUME NEW m \in Nat, m \in S PROVE m + 1 \in S
  <2> SUFFICES ASSUME m + 1 <= n PROVE g[m + 1] = h[m + 1]
    OBVIOUS
  <2>1. m + 1 \in 1..n /\ (m + 1) - 1 = m /\ m <= n
    OBVIOUS
  <2>2. g[m] = h[m]
    BY <1>2, <2>1
  <2> QED  BY <2>1, <2>2 DEF Rounds
<1> HIDE DEF S
<1>3. Nat \subseteq S
  BY <1>1, <1>2, SetInduction
<1> QED  BY <1>3 DEF S
-----------------------------------------------------------------------------
(* Sequences.                                                              *)

\* Sequences joined: where the elements are, and that joining associates.
LEMMA Joined ==
  ASSUME NEW T, NEW s \in Seq(T), NEW t \in Seq(T)
  PROVE  /\ s \o t \in Seq(T) /\ Len(s \o t) = Len(s) + Len(t)
         /\ \A i \in 1..Len(s) : (s \o t)[i] = s[i]
         /\ \A i \in 1..Len(t) : (s \o t)[Len(s) + i] = t[i]
OBVIOUS

\* The same in a form that is cited as it stands.
JoinOf(u, s, t) ==
  /\ Len(u) = Len(s) + Len(t)
  /\ \A i \in 1..Len(s) : u[i] = s[i]
  /\ \A i \in 1..Len(t) : u[Len(s) + i] = t[i]

Joins(T) == \A s, t \in Seq(T) : s \o t \in Seq(T) /\ JoinOf(s \o t, s, t)

LEMMA JoinsAll == ASSUME NEW T PROVE Joins(T)
<1> SUFFICES ASSUME NEW s \in Seq(T), NEW t \in Seq(T)
             PROVE  s \o t \in Seq(T) /\ JoinOf(s \o t, s, t)
  BY DEF Joins
<1> QED  BY Joined DEF JoinOf

Assoc(T) == \A s, t, u \in Seq(T) : (s \o t) \o u = s \o (t \o u)

LEMMA JoinedAssoc == ASSUME NEW T PROVE Assoc(T)
BY DEF Assoc

LEMMA JoinedEmpty ==
  ASSUME NEW T, NEW s \in Seq(T)
  PROVE  <<>> \o s = s /\ s \o <<>> = s
OBVIOUS

\* g[k] is the first k of the sequences in s, joined.
Sums(g, s) ==
  g[0] = <<>> /\ \A k \in 1..Len(s) : g[k] = g[k - 1] \o s[k]

\* The sums exist and there is one of each.
LEMMA SumsExist ==
  ASSUME NEW T, NEW s \in Seq(Seq(T))
  PROVE  \E g \in [0..Len(s) -> Seq(T)] : Sums(g, s)
<1> DEFINE V == Seq(T)
           F == [k \in 1..Len(s) |-> [x \in V |-> x \o s[k]]]
<1>1. <<>> \in V /\ Len(s) \in Nat
  OBVIOUS
<1>2. ASSUME NEW k \in 1..Len(s), NEW x \in V PROVE x \o s[k] \in V
  OBVIOUS
<1>3. F \in [1..Len(s) -> [V -> V]]
  BY <1>2
<1>4. PICK g \in [0..Len(s) -> V] : Rounds(g, F, <<>>, Len(s))
  <2> HIDE DEF F, V
  <2> QED  BY <1>1, <1>3, RoundsExist
<1>5. ASSUME NEW k \in 1..Len(s) PROVE g[k] = g[k - 1] \o s[k]
  <2>1. g[k - 1] \in V
    OBVIOUS
  <2>2. g[k] = F[k][g[k - 1]]
    BY <1>4 DEF Rounds
  <2> QED  BY <2>1, <2>2
<1>6. Sums(g, s)
  BY <1>4, <1>5 DEF Sums, Rounds
<1> QED  BY <1>6

LEMMA SumsUnique ==
  ASSUME NEW s, Len(s) \in Nat, NEW g, NEW h, Sums(g, s), Sums(h, s)
  PROVE  \A k \in 0..Len(s) : g[k] = h[k]
<1> DEFINE S == {m \in Nat : m <= Len(s) => g[m] = h[m]}
<1>1. 0 \in S
  BY DEF Sums
<1>2. ASSUME NEW m \in Nat, m \in S PROVE m + 1 \in S
  <2> SUFFICES ASSUME m + 1 <= Len(s) PROVE g[m + 1] = h[m + 1]
    OBVIOUS
  <2>1. m + 1 \in 1..Len(s) /\ (m + 1) - 1 = m /\ m <= Len(s)
    OBVIOUS
  <2>2. g[m] = h[m]
    BY <1>2, <2>1
  <2> QED  BY <2>1, <2>2 DEF Sums
<1> HIDE DEF S
<1>3. Nat \subseteq S
  BY <1>1, <1>2, SetInduction
<1> QED  BY <1>3 DEF S

\* What FlattenSeq computes.
LEMMA FlattenSums ==
  ASSUME NEW T, NEW s \in Seq(Seq(T)), NEW g, Sums(g, s)
  PROVE  FlattenSeq(s) = g[Len(s)]
<1>1. CASE Len(s) = 0
  <2>1. s = <<>>
    BY <1>1
  <2> QED  BY <1>1, <2>1 DEF FlattenSeq, Sums
<1>2. CASE Len(s) # 0
  <2> DEFINE n == Len(s)
             step(w, i) == IF i = 1 THEN s[i] ELSE w[i - 1] \o s[i]
             f == CHOOSE w : w = [i \in 1..n |-> step(w, i)]
             r == [i \in 1..n |-> g[i]]
  <2>0. n \in Nat /\ n >= 1 /\ \A i \in 1..n : s[i] \in Seq(T)
    BY <1>2
  <2>a. /\ g[0] = <<>>
        /\ \A i \in 1..n : g[i] = g[i - 1] \o s[i]
    BY DEF Sums
  <2>1. FlattenSeq(s) = f[n]
    BY <1>2 DEF FlattenSeq
  <2> HIDE DEF n
  <2>2. ASSUME NEW i \in 1..n PROVE r[i] = step(r, i)
    <3>1. g[i] = g[i - 1] \o s[i] /\ s[i] \in Seq(T)
      BY <2>0, <2>a
    <3>2. CASE i = 1
      <4>0. i - 1 = 0
        BY <3>2
      <4>1. g[1] = <<>> \o s[1]
        BY <2>a, <3>1, <3>2, <4>0, Zenon
      <4>2. g[1] = s[1]
        BY <3>1, <3>2, <4>1, JoinedEmpty
      <4> QED  BY <3>2, <4>2
    <3>3. CASE i # 1
      <4>1. i - 1 \in 1..n
        BY <2>0, <3>3
      <4> QED  BY <3>1, <3>3, <4>1
    <3> QED  BY <3>2, <3>3
  <2>3. r = [i \in 1..n |-> step(r, i)]
    BY <2>2
  <2>4. f = [i \in 1..n |-> step(f, i)]
    <3> HIDE DEF r, step
    <3> QED  BY <2>3
  <2> HIDE DEF f
  <2> DEFINE h == [i \in 0..n |-> IF i = 0 THEN <<>> ELSE f[i]]
  <2>5. ASSUME NEW k \in 1..n PROVE h[k] = h[k - 1] \o s[k]
    <3>1. s[k] \in Seq(T)
      BY <2>0
    <3>2. f[k] = step(f, k)
      BY <2>4
    <3>3. CASE k = 1
      <4>0. k - 1 = 0
        BY <3>3
      <4>1. h[1] = s[1] /\ h[0] = <<>>
        BY <2>0, <3>2, <3>3
      <4> HIDE DEF h
      <4> QED  BY <3>1, <3>3, <4>0, <4>1, JoinedEmpty
    <3>4. CASE k # 1
      <4>1. k - 1 \in 1..n
        BY <2>0, <3>4
      <4>2. h[k] = f[k] /\ h[k - 1] = f[k - 1]
        BY <2>0, <4>1
      <4>3. f[k] = f[k - 1] \o s[k]
        BY <3>2, <3>4, Zenon
      <4> QED  BY <4>2, <4>3, Zenon
    <3> QED  BY <3>3, <3>4
  <2>6. Sums(h, s)
    <3>1. h[0] = <<>>
      BY <2>0
    <3> HIDE DEF h
    <3> QED  BY <2>5, <3>1 DEF Sums, n
  <2>7. h[n] = g[n]
    <3> HIDE DEF h
    <3> QED  BY <2>0, <2>6, SumsUnique DEF n
  <2>8. h[n] = f[n]
    BY <2>0
  <2> QED  BY <2>1, <2>7, <2>8 DEF n
<1> QED  BY <1>1, <1>2

\* The joined sequence is one.
LEMMA FlattenType ==
  ASSUME NEW T, NEW s \in Seq(Seq(T))
  PROVE  FlattenSeq(s) \in Seq(T)
<1>1. PICK g \in [0..Len(s) -> Seq(T)] : Sums(g, s)
  BY SumsExist
<1>2. FlattenSeq(s) = g[Len(s)]
  BY <1>1, FlattenSums
<1>3. Len(s) \in 0..Len(s)
  OBVIOUS
<1> QED  BY <1>2, <1>3

\* Nothing gives nothing.
LEMMA FlattenEmpty == FlattenSeq(<<>>) = <<>>
BY DEF FlattenSeq

\* The first sequence comes first.
LEMMA FlattenCons ==
  ASSUME NEW T, NEW x \in Seq(T), NEW s \in Seq(Seq(T)),
         NEW t \in Seq(Seq(T)), Len(t) = Len(s) + 1, t[1] = x,
         \A k \in 1..Len(s) : t[k + 1] = s[k]
  PROVE  FlattenSeq(t) = x \o FlattenSeq(s)
<1>1. PICK g \in [0..Len(s) -> Seq(T)] : Sums(g, s)
  BY SumsExist
<1> DEFINE n == Len(s)
           h == [k \in 0..(n + 1) |-> IF k = 0 THEN <<>> ELSE x \o g[k - 1]]
<1>2. n \in Nat /\ Len(t) = n + 1
  OBVIOUS
<1>3. /\ g[0] = <<>>
      /\ \A k \in 1..n : g[k] = g[k - 1] \o s[k]
  BY <1>1 DEF Sums
<1>4. \A k \in 1..n : s[k] \in Seq(T) /\ t[k + 1] = s[k]
  OBVIOUS
<1>5. FlattenSeq(s) = g[n]
  BY <1>1, FlattenSums
<1> HIDE DEF n
<1>a. \A k \in 0..(n + 1) : k # 0 => h[k] = x \o g[k - 1]
  BY Zenon
<1>6. ASSUME NEW k \in 1..(n + 1) PROVE h[k] = h[k - 1] \o t[k]
  <2>1. CASE k = 1
    <3>1. k - 1 = 0
      BY <2>1
    <3>2. h[1] = x \o g[0] /\ h[0] = <<>>
      BY <1>2, SMTT(60)
    <3> HIDE DEF h
    <3>3. h[1] = x /\ <<>> \o x = x
      BY <1>3, <3>2, JoinedEmpty, Zenon
    <3> QED  BY <2>1, <3>1, <3>2, <3>3, Zenon
  <2>2. CASE k # 1
    <3> DEFINE j == k - 1
    <3>1. j \in 1..n /\ j - 1 \in 0..n /\ k = j + 1
      BY <1>2, <2>2
    <3>a. j \in 0..(n + 1) /\ j # 0 /\ k \in 0..(n + 1) /\ k # 0
      BY <1>2, <2>2
    <3>2. h[k] = x \o g[j] /\ h[j] = x \o g[j - 1]
      <4> HIDE DEF h
      <4> QED  BY <1>a, <3>a, Zenon
    <3> HIDE DEF h, j
    <3>3. g[j] = g[j - 1] \o s[j] /\ t[k] = s[j] /\ s[j] \in Seq(T)
      BY <1>3, <1>4, <3>1
    <3>4. g[j - 1] \in Seq(T)
      BY <3>1 DEF n
    <3>5. (x \o g[j - 1]) \o s[j] = x \o (g[j - 1] \o s[j])
      <4>1. s[j] \in Seq(T)
        BY <3>3
      <4>2. Assoc(T)
        BY JoinedAssoc, Zenon
      <4> QED  BY <3>4, <4>1, <4>2, Zenon DEF Assoc
    <3>6. h[k] = h[j] \o t[k]
      BY <3>2, <3>3, <3>5, Zenon
    <3> QED  BY <3>6 DEF j
  <2> QED  BY <2>1, <2>2
<1>7. h[0] = <<>> /\ h[n + 1] = x \o g[n]
  <2>1. 0 \in 0..(n + 1) /\ n + 1 \in 0..(n + 1) /\ n + 1 # 0 /\ (n + 1) - 1 = n
    BY <1>2
  <2>2. h[0] = <<>>
    BY <2>1, Zenon
  <2>3. h[n + 1] = x \o g[n]
    <3> HIDE DEF h
    <3> QED  BY <1>a, <2>1, Zenon
  <2> QED  BY <2>2, <2>3
<1> HIDE DEF h
<1>8. Sums(h, t)
  BY <1>2, <1>6, <1>7 DEF Sums
<1>9. FlattenSeq(t) = h[n + 1]
  BY <1>2, <1>8, FlattenSums
<1> QED  BY <1>5, <1>7, <1>9

\* The sums are what the first sequences give.
LEMMA FlattenPrefix ==
  ASSUME NEW T, NEW s \in Seq(Seq(T)), NEW g, Sums(g, s),
         NEW n \in 0..Len(s), NEW p \in Seq(Seq(T)), Len(p) = n,
         \A k \in 1..n : p[k] = s[k]
  PROVE  FlattenSeq(p) = g[n]
<1>1. \A k \in 1..n : k \in 1..Len(s)
  OBVIOUS
<1>2. Sums(g, p)
  BY <1>1 DEF Sums
<1> QED  BY <1>2, FlattenSums

\* A prefix, and one element more.
LEMMA PrefixNext ==
  ASSUME NEW T, NEW s \in Seq(T), NEW k \in 1..Len(s)
  PROVE  SubSeq(s, 1, k) = SubSeq(s, 1, k - 1) \o <<s[k]>>
<1>1. k - 1 \in Nat /\ k - 1 <= Len(s) /\ s[k] \in T
  OBVIOUS
<1> DEFINE p == SubSeq(s, 1, k - 1)
           q == SubSeq(s, 1, k)
<1>2. p \in Seq(T) /\ Len(p) = k - 1 /\ \A i \in 1..(k - 1) : p[i] = s[i]
  BY <1>1
<1>3. q \in Seq(T) /\ Len(q) = k /\ \A i \in 1..k : q[i] = s[i]
  OBVIOUS
<1>4. <<s[k]>> \in Seq(T)
  BY <1>1
<1> HIDE DEF p, q
<1>5. q = p \o <<s[k]>>
  BY <1>1, <1>2, <1>3, <1>4
<1> QED  BY <1>5 DEF p, q

\* What was joined is the rest.
LEMMA JoinedRest ==
  ASSUME NEW T, NEW s \in Seq(T), NEW t \in Seq(T)
  PROVE  SubSeq(s \o t, Len(s) + 1, Len(s \o t)) = t
<1> DEFINE u == s \o t
           r == SubSeq(u, Len(s) + 1, Len(u))
<1>1. u \in Seq(T) /\ JoinOf(u, s, t)
  <2>1. Joins(T)
    BY JoinsAll, Zenon
  <2> QED  BY <2>1, Zenon DEF Joins
<1> HIDE DEF u
<1>2. /\ Len(u) = Len(s) + Len(t) /\ Len(s) \in Nat /\ Len(t) \in Nat
      /\ \A i \in 1..Len(t) : u[Len(s) + i] = t[i]
  BY <1>1 DEF JoinOf
<1>3. r \in Seq(T) /\ Len(r) = Len(t) /\ \A i \in 1..Len(t) : r[i] = u[Len(s) + i]
  BY <1>1, <1>2
<1> HIDE DEF r
<1>4. r = t
  BY <1>2, <1>3, SMTT(60)
<1> QED  BY <1>4 DEF r, u

LEMMA SeqWider ==
  ASSUME NEW S, NEW T, S \subseteq T, NEW s \in Seq(S)
  PROVE  s \in Seq(T)
<1>1. \A i \in 1..Len(s) : s[i] \in T
  OBVIOUS
<1> QED  BY <1>1

\* A sequence cut in two.
LEMMA CutInTwo ==
  ASSUME NEW T, NEW s \in Seq(T), NEW n \in 0..Len(s)
  PROVE  /\ SubSeq(s, 1, n) \in Seq(T) /\ SubSeq(s, n + 1, Len(s)) \in Seq(T)
         /\ SubSeq(s, 1, n) \o SubSeq(s, n + 1, Len(s)) = s
<1> DEFINE p == SubSeq(s, 1, n)
           z == SubSeq(s, n + 1, Len(s))
           u == p \o z
<1>1. p \in Seq(T) /\ Len(p) = n /\ \A i \in 1..n : p[i] = s[i]
  OBVIOUS
<1>2. /\ z \in Seq(T) /\ Len(z) = Len(s) - n
      /\ \A i \in 1..(Len(s) - n) : z[i] = s[n + i]
  OBVIOUS
<1> HIDE DEF p, z
<1>3. u \in Seq(T) /\ JoinOf(u, p, z)
  <2>1. Joins(T)
    BY JoinsAll, Zenon
  <2>2. p \in Seq(T) /\ z \in Seq(T)
    BY <1>1, <1>2
  <2> QED  BY <2>1, <2>2, Zenon DEF Joins
<1> HIDE DEF u
<1>4. /\ Len(u) = Len(s) /\ \A i \in 1..n : u[i] = s[i]
      /\ \A i \in 1..(Len(s) - n) : u[n + i] = s[n + i]
  BY <1>1, <1>2, <1>3 DEF JoinOf
<1>5. ASSUME NEW i \in 1..Len(s) PROVE u[i] = s[i]
  <2>1. CASE i <= n
    BY <1>4, <2>1
  <2>2. CASE ~(i <= n)
    <3>1. i - n \in 1..(Len(s) - n) /\ n + (i - n) = i
      BY <2>2
    <3>2. u[n + (i - n)] = s[n + (i - n)]
      BY <1>4, <3>1
    <3> QED  BY <3>1, <3>2
  <2> QED  BY <2>1, <2>2
<1>6. u = s
  BY <1>3, <1>4, <1>5
<1> QED  BY <1>1, <1>2, <1>6 DEF u, p, z

\* A sum adds the next sequence to the one before it ...
LEMMA SumsGrow ==
  ASSUME NEW T, NEW s \in Seq(Seq(T)), NEW g \in [0..Len(s) -> Seq(T)], Sums(g, s),
         NEW k \in 1..Len(s)
  PROVE  JoinOf(g[k], g[k - 1], s[k])
<1> DEFINE a == g[k - 1]
           b == s[k]
           u == g[k]
<1>1. a \in Seq(T) /\ b \in Seq(T) /\ u = a \o b
  BY DEF Sums
<1> HIDE DEF a, b, u
<1>2. JoinOf(u, a, b)
  <2>1. Joins(T)
    BY JoinsAll, Zenon
  <2> QED  BY <1>1, <2>1, Zenon DEF Joins
<1> QED  BY <1>2 DEF a, b, u

\* ... and begins with the smaller ones.
Heads(a, b) == Len(a) <= Len(b) /\ \A i \in 1..Len(a) : b[i] = a[i]

LEMMA SumsPrefix ==
  ASSUME NEW T, NEW s \in Seq(Seq(T)), NEW g \in [0..Len(s) -> Seq(T)], Sums(g, s),
         NEW k \in 0..Len(s), NEW n \in k..Len(s)
  PROVE  Heads(g[k], g[n])
<1> DEFINE a == g[k]
           S == {m \in Nat : k + m <= Len(s) => Heads(a, g[k + m])}
<1>0. k \in Nat /\ Len(s) \in Nat /\ a \in Seq(T) /\ Len(a) \in Nat
  OBVIOUS
<1>1. 0 \in S
  <2>1. k + 0 = k
    BY <1>0
  <2>2. Heads(a, a)
    BY <1>0 DEF Heads
  <2> QED  BY <2>1, <2>2
<1> HIDE DEF a
<1>2. ASSUME NEW m \in Nat, m \in S PROVE m + 1 \in S
  <2> SUFFICES ASSUME k + (m + 1) <= Len(s) PROVE Heads(a, g[k + (m + 1)])
    OBVIOUS
  <2>1. Heads(a, g[k + m])
    <3>1. k + m <= Len(s)
      BY <1>0
    <3> QED  BY <1>2, <3>1
  <2> DEFINE j == k + (m + 1)
             b == g[k + m]
             c == g[j]
             d == s[j]
  <2>2. j \in 1..Len(s) /\ j - 1 = k + m /\ k + m \in 0..Len(s) /\ j \in 0..Len(s)
    BY <1>0
  <2>3. JoinOf(c, b, d)
    <3> HIDE DEF j
    <3>1. JoinOf(g[j], g[j - 1], s[j])
      BY <2>2, SumsGrow, Zenon
    <3> QED  BY <2>2, <3>1, Zenon
  <2>4. Len(b) \in Nat /\ Len(d) \in Nat
    BY <2>2
  <2>5. Heads(a, b)
    BY <2>1
  <2> HIDE DEF b, c, d, j
  <2>6. Heads(a, c)
    BY <1>0, <2>3, <2>4, <2>5 DEF Heads, JoinOf
  <2> QED  BY <2>6 DEF c, j
<1>a. n - k \in Nat
  BY <1>0
<1>3. n - k \in S
  <2> HIDE DEF S
  <2>1. Nat \subseteq S
    BY <1>1, <1>2, SetInduction, Zenon
  <2> QED  BY <1>a, <2>1
<1>5. k + (n - k) = n /\ n <= Len(s)
  BY <1>0
<1> QED  BY <1>3, <1>5, Zenon DEF a

\* Where the k-th sequence is in the whole.
Placed(g, s, k, t) ==
  /\ Len(g[k]) = Len(g[k - 1]) + Len(s[k]) /\ Len(g[k]) <= Len(t)
  /\ \A i \in 1..Len(s[k]) : t[Len(g[k - 1]) + i] = s[k][i]

LEMMA SumsAt ==
  ASSUME NEW T, NEW s \in Seq(Seq(T)), NEW g \in [0..Len(s) -> Seq(T)], Sums(g, s),
         NEW k \in 1..Len(s), NEW t, t = g[Len(s)]
  PROVE  Placed(g, s, k, t)
<1> DEFINE a == g[k - 1]
           b == s[k]
           c == g[k]
<1>1. JoinOf(c, a, b)
  BY SumsGrow, Zenon
<1>2. k \in 0..Len(s) /\ Len(s) \in k..Len(s)
  OBVIOUS
<1>3. Heads(c, t)
  BY <1>2, SumsPrefix, Zenon
<1>4. Len(a) \in Nat /\ Len(b) \in Nat
  OBVIOUS
<1> HIDE DEF a, b, c
<1>5. /\ Len(c) = Len(a) + Len(b)
      /\ \A i \in 1..Len(b) : c[Len(a) + i] = b[i]
  BY <1>1 DEF JoinOf
<1>6. Len(c) <= Len(t) /\ \A i \in 1..Len(c) : t[i] = c[i]
  BY <1>3 DEF Heads
<1>7. ASSUME NEW i \in 1..Len(b) PROVE t[Len(a) + i] = b[i]
  <2>1. Len(a) + i \in 1..Len(c)
    BY <1>4, <1>5
  <2> QED  BY <1>5, <1>6, <2>1
<1> QED  BY <1>5, <1>6, <1>7 DEF a, b, c, Placed

\* The end of a prefix, and one element more.
LEMMA SuffixNext ==
  ASSUME NEW T, NEW s \in Seq(T), NEW k \in 1..Len(s), NEW n \in k..Len(s)
  PROVE  <<s[k]>> \o SubSeq(s, k + 1, n) = SubSeq(s, k, n)
<1> DEFINE x == <<s[k]>>
           y == SubSeq(s, k + 1, n)
           z == SubSeq(s, k, n)
           u == x \o y
<1>1. s[k] \in T /\ k \in Nat /\ n \in Nat /\ k <= n /\ n <= Len(s)
  OBVIOUS
<1>2. x \in Seq(T) /\ Len(x) = 1 /\ x[1] = s[k]
  BY <1>1
<1>3. y \in Seq(T) /\ Len(y) = n - k /\ \A i \in 1..(n - k) : y[i] = s[k + i]
  BY <1>1
<1>4. /\ z \in Seq(T) /\ Len(z) = n - k + 1
      /\ \A i \in 1..(n - k + 1) : z[i] = s[k + i - 1]
  BY <1>1
<1> HIDE DEF x, y, z
<1>5. u \in Seq(T) /\ JoinOf(u, x, y)
  <2>1. Joins(T)
    BY JoinsAll, Zenon
  <2> QED  BY <1>2, <1>3, <2>1, Zenon DEF Joins
<1> HIDE DEF u
<1>6. /\ Len(u) = n - k + 1 /\ u[1] = s[k]
      /\ \A i \in 1..(n - k) : u[1 + i] = s[k + i]
  <2>1. /\ Len(u) = 1 + Len(y) /\ \A i \in 1..1 : u[i] = x[i]
        /\ \A i \in 1..Len(y) : u[1 + i] = y[i]
    BY <1>2, <1>5, Zenon DEF JoinOf
  <2>2. Len(u) = n - k + 1
    BY <1>1, <1>3, <2>1
  <2>3. u[1] = s[k]
    BY <1>2, <2>1
  <2>4. \A i \in 1..(n - k) : u[1 + i] = s[k + i]
    BY <1>3, <2>1
  <2> QED  BY <2>2, <2>3, <2>4
<1>7. ASSUME NEW i \in 1..(n - k + 1) PROVE u[i] = z[i]
  <2>1. CASE i = 1
    <3>1. k + i - 1 = k
      BY <1>1, <2>1
    <3> QED  BY <1>4, <1>6, <2>1, <3>1
  <2>2. CASE i # 1
    <3>1. i - 1 \in 1..(n - k) /\ 1 + (i - 1) = i /\ k + (i - 1) = k + i - 1
      BY <1>1, <2>2
    <3>2. u[1 + (i - 1)] = s[k + (i - 1)]
      BY <1>6, <3>1
    <3> QED  BY <1>4, <3>1, <3>2
  <2> QED  BY <2>1, <2>2
<1>8. u = z
  BY <1>4, <1>5, <1>6, <1>7
<1> QED  BY <1>8 DEF u, x, y, z
=============================================================================
