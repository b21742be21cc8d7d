-------------------------- MODULE TelemetryProofs ---------------------------
(***************************************************************************)
(* What a body says arrives, for every registration, clock, signal and     *)
(* drive: the decoders of pkg/protocol/decoder.go against the builders.    *)
(***************************************************************************)
EXTENDS Telemetry, ListLemmas, SequenceTheorems

\* A text that does not end in padding.
Plain(s) == s \in Seq(Nat) /\ (s # <<>> => s[Len(s)] \notin {0, 32})

-----------------------------------------------------------------------------
(* Fields of a body.                                                       *)

\* Cutting a concatenation where it was joined gives the parts.
LEMMA Cut ==
  ASSUME NEW s \in Seq(Nat), NEW t \in Seq(Nat), NEW n \in Nat, n = Len(s)
  PROVE  /\ s \o t \in Seq(Nat) /\ Len(s \o t) = n + Len(t)
         /\ SubSeq(s \o t, 1, n) = s
         /\ SubSeq(s \o t, n + 1, Len(s \o t)) = t
BY SMT

\* Concatenation is associative.
LEMMA Regroup ==
  ASSUME NEW s \in Seq(Nat), NEW t \in Seq(Nat), NEW u \in Seq(Nat)
  PROVE  (s \o t) \o u = s \o (t \o u)
BY SMTT(60)

\* Two sequences joined.
LEMMA Join ==
  ASSUME NEW s \in Seq(Nat), NEW t \in Seq(Nat)
  PROVE  s \o t \in Seq(Nat) /\ Len(s \o t) = Len(s) + Len(t)
BY SMT

\* The largest member of a set of numbers, once it is known.
LEMMA MaxIs ==
  ASSUME NEW S \in SUBSET Int, NEW m \in S, \A x \in S : x <= m
  PROVE  Max(S) = m
<1> DEFINE largest(x) == x \in S /\ \A y \in S : x >= y
<1>1. largest(m)
  BY SMT
<1>2. ASSUME NEW x, largest(x) PROVE x = m
  BY <1>2, SMT
<1>3. Max(S) = CHOOSE x \in S : \A y \in S : x >= y
  BY Zenon DEF Max
<1>4. largest(Max(S))
  BY <1>1, <1>3, Zenon
<1> QED  BY <1>2, <1>4

\* padRight fills a field to its width.
LEMMA Padded ==
  ASSUME NEW s \in Seq(Nat), NEW n \in Nat
  PROVE  PadRight(s, n) \in Seq(Nat) /\ Len(PadRight(s, n)) = n
BY SMT DEF PadRight

\* nullTrimmed takes exactly the padding off, whatever the text.
LEMMA TrimPadded ==
  ASSUME NEW s, Plain(s), NEW n \in Nat, Len(s) <= n
  PROVE  NullTrimmed(PadRight(s, n)) = s
<1> DEFINE b == PadRight(s, n)
           S == {0} \cup {i \in DOMAIN b : b[i] \notin {0, 32}}
<1>1. /\ s \in Seq(Nat) /\ Len(s) \in Nat
      /\ b \in Seq(Nat) /\ DOMAIN b = 1..n
      /\ \A i \in 1..n : b[i] = IF i <= Len(s) THEN s[i] ELSE 0
  BY SMT DEF PadRight, Plain
<1>2. S \in SUBSET Int /\ \A x \in S : x <= Len(s)
  BY <1>1, SMT
<1>3. Len(s) \in S
  BY <1>1, SMT DEF Plain
<1>4. Max(S) = Len(s)
  <2> HIDE DEF S
  <2> QED  BY <1>2, <1>3, MaxIs
<1>5. SubSeq(b, 1, Len(s)) = s
  <2> HIDE DEF b
  <2> QED  BY <1>1, SMT
<1> QED  BY <1>4, <1>5, Zenon DEF NullTrimmed

\* A text without padding is left alone.
LEMMA TrimPlain ==
  ASSUME NEW s, Plain(s)
  PROVE  NullTrimmed(s) = s
<1> DEFINE S == {0} \cup {i \in DOMAIN s : s[i] \notin {0, 32}}
<1>1. s \in Seq(Nat) /\ Len(s) \in Nat /\ DOMAIN s = 1..Len(s)
  BY SMT DEF Plain
<1>2. S \in SUBSET Int /\ \A x \in S : x <= Len(s)
  BY <1>1, SMT
<1>3. Len(s) \in S
  BY <1>1, SMT DEF Plain
<1>4. Max(S) = Len(s)
  <2> HIDE DEF S
  <2> QED  BY <1>2, <1>3, MaxIs
<1>5. SubSeq(s, 1, Len(s)) = s
  BY <1>1, SMT
<1> QED  BY <1>4, <1>5, Zenon DEF NullTrimmed

\* What is left behind m bytes.
LEMMA Rest ==
  ASSUME NEW s \in Seq(Nat), NEW m \in Nat, m <= Len(s), NEW t,
         t = SubSeq(s, 1 + m, Len(s))
  PROVE  /\ t \in Seq(Nat) /\ Len(t) = Len(s) - m
         /\ \A i \in 1..(Len(s) - m) : t[i] = s[m + i]
<1>1. Len(s) \in Nat
  OBVIOUS
<1>2. \A i \in (1 + m)..Len(s) : s[i] \in Nat
  BY <1>1, ElementOfSeq, SMT
<1>3. /\ t \in Seq(Nat)
      /\ Len(t) = IF 1 + m <= Len(s) THEN Len(s) - (1 + m) + 1 ELSE 0
      /\ \A i \in 1..(Len(s) - (1 + m) + 1) : t[i] = s[1 + m + i - 1]
  BY <1>1, <1>2, SubSeqProperties
<1> DEFINE u == t
<1> HIDE DEF u
<1>4. /\ Len(u) = Len(s) - m
      /\ \A i \in 1..(Len(s) - m) : u[i] = s[m + i]
  BY <1>1, <1>3, SMT DEF u
<1> QED  BY <1>3, <1>4 DEF u

\* The end of a text is a text.
LEMMA Suffix ==
  ASSUME NEW s, Plain(s), NEW m \in Nat, m <= Len(s)
  PROVE  Plain(SubSeq(s, 1 + m, Len(s))) /\ Len(SubSeq(s, 1 + m, Len(s))) = Len(s) - m
<1> DEFINE t == SubSeq(s, 1 + m, Len(s))
<1>1. s \in Seq(Nat) /\ Len(s) \in Nat
  BY DEF Plain
<1>2. /\ t \in Seq(Nat) /\ Len(t) = Len(s) - m
      /\ \A i \in 1..(Len(s) - m) : t[i] = s[m + i]
  BY <1>1, Rest, Zenon
<1> HIDE DEF t
<1>3. ASSUME t # <<>>
      PROVE  t[Len(t)] = s[Len(s)] /\ s # <<>>
  <2>1. Len(t) \in Nat /\ Len(t) # 0
    BY <1>2, <1>3, EmptySeq
  <2> QED  BY <1>1, <1>2, <2>1, SMTT(60)
<1>4. Plain(t)
  BY <1>2, <1>3 DEF Plain
<1> QED  BY <1>2, <1>4 DEF t

\* The end of an IMEI is a text of at most seven bytes.
LEMMA LastSevenPlain ==
  ASSUME NEW s, Plain(s)
  PROVE  Plain(LastSeven(s)) /\ Len(LastSeven(s)) <= 7
<1>1. Len(s) \in Nat
  BY DEF Plain
<1>2. PICK m \in Nat : m <= Len(s) /\ Len(s) - m <= 7 /\ Max({0, Len(s) - 7}) = m
  <2>1. CASE Len(s) > 7
    <3>1. Max({0, Len(s) - 7}) = Len(s) - 7
      BY <1>1, <2>1, MaxIs, SMT
    <3> QED  BY <1>1, <2>1, <3>1, SMT
  <2>2. CASE Len(s) <= 7
    <3>1. Max({0, Len(s) - 7}) = 0
      BY <1>1, <2>2, MaxIs, SMT
    <3> QED  BY <1>1, <2>2, <3>1, SMT
  <2>3. Len(s) > 7 \/ Len(s) <= 7
    BY <1>1, SMT
  <2> QED  BY <2>1, <2>2, <2>3, Zenon
<1>3. LastSeven(s) = SubSeq(s, 1 + m, Len(s))
  BY <1>2, Zenon DEF LastSeven
<1> QED  BY <1>1, <1>2, <1>3, Suffix

-----------------------------------------------------------------------------
(* Registrations.                                                          *)

\* The body of a registration, field by field: nine bytes before the model.
LEMMA RegFields ==
  ASSUME NEW r, Plain(r.model), Plain(r.id), Plain(r.plate),
         ModelField[r.layout] \in Nat
  PROVE  \E head \in Seq(Nat) :
           LET rest == PadRight(LastSeven(r.id), 7) \o (<<2>> \o r.plate) IN
           /\ Len(head) = 9
           /\ BuildRegBody(r) =
                head \o (PadRight(r.model, ModelField[r.layout]) \o rest)
           /\ rest \in Seq(Nat) /\ Len(rest) = 8 + Len(r.plate)
<1> DEFINE manuf == <<83, 73, 77, 67, 79>>
           color == <<2>>
           head == U16(6) \o U16(1) \o PadRight(manuf, 5)
           model == PadRight(r.model, ModelField[r.layout])
           id == PadRight(LastSeven(r.id), 7)
<1>1. head \in Seq(Nat) /\ Len(head) = 9
  <2>1. manuf \in Seq(Nat)
    BY SMT
  <2>2. PadRight(manuf, 5) \in Seq(Nat) /\ Len(PadRight(manuf, 5)) = 5
    <3> HIDE DEF manuf
    <3> QED  BY <2>1, Padded
  <2>3. U16(6) \in Seq(Nat) /\ Len(U16(6)) = 2 /\ U16(1) \in Seq(Nat) /\ Len(U16(1)) = 2
    BY SMT DEF U16
  <2> HIDE DEF manuf
  <2>4. U16(6) \o U16(1) \in Seq(Nat) /\ Len(U16(6) \o U16(1)) = 2 + 2
    BY <2>3, Join, Zenon
  <2>5. head \in Seq(Nat) /\ Len(head) = 2 + 2 + 5
    BY <2>2, <2>4, Join, Zenon
  <2> HIDE DEF head
  <2> QED  BY <2>5, SMT
<1>2. model \in Seq(Nat) /\ id \in Seq(Nat) /\ Len(id) = 7
  BY Padded, LastSevenPlain DEF Plain
<1>3. r.plate \in Seq(Nat) /\ color \in Seq(Nat) /\ Len(color) = 1
  BY SMT DEF Plain
<1>4. BuildRegBody(r) = (((head \o model) \o id) \o color) \o r.plate
  BY Zenon DEF BuildRegBody
<1> HIDE DEF color, head, model, id
<1>5. /\ head \o model \in Seq(Nat) /\ (head \o model) \o id \in Seq(Nat)
      /\ color \o r.plate \in Seq(Nat) /\ Len(color \o r.plate) = 1 + Len(r.plate)
  BY <1>1, <1>2, <1>3, Join, ZenonT(60)
<1>6. /\ id \o (color \o r.plate) \in Seq(Nat)
      /\ Len(id \o (color \o r.plate)) = 7 + (1 + Len(r.plate))
  BY <1>2, <1>5, Join, ZenonT(60)
<1>7. BuildRegBody(r) = head \o (model \o (id \o (color \o r.plate)))
  <2>1. BuildRegBody(r) = ((head \o model) \o id) \o (color \o r.plate)
    BY <1>3, <1>4, <1>5, Regroup, ZenonT(60)
  <2>2. @ = (head \o model) \o (id \o (color \o r.plate))
    BY <1>2, <1>5, Regroup, ZenonT(60)
  <2>3. @ = head \o (model \o (id \o (color \o r.plate)))
    BY <1>1, <1>2, <1>6, Regroup
  <2> QED  BY <2>1, <2>2, <2>3
<1>8. 7 + (1 + Len(r.plate)) = 8 + Len(r.plate)
  BY <1>3, SMT
<1> QED  BY <1>1, <1>6, <1>7, <1>8, Zenon DEF color, model, id

\* The decoder finds these fields, padding and all, in a body.
Finds(b, model, id, plate) ==
  LET d == DecodeRegistration(b) IN
  /\ d.model = NullTrimmed(model)
  /\ d.id = NullTrimmed(id)
  /\ d.plate = NullTrimmed(plate)

\* Reading a field that is there, and passing over it.
LEMMA TakeDrop ==
  ASSUME NEW s \in Seq(Nat), NEW t \in Seq(Nat), NEW n \in Nat, n = Len(s)
  PROVE  Take(s \o t, n) = s /\ Drop(s \o t, n) = t
<1>1. Len(s \o t) >= n
  BY SMT
<1> QED  BY <1>1, Cut DEF Take, Drop

\* The decoder finds the fields of any body whose model field is as wide as
\* it guesses from the number of bytes.
LEMMA DecodeFields ==
  ASSUME NEW head \in Seq(Nat), Len(head) = 9,
         NEW model \in Seq(Nat), NEW id \in Seq(Nat), Len(id) = 7,
         NEW color \in Seq(Nat), Len(color) = 1, NEW plate \in Seq(Nat),
         ModelLen(Len(model) + 8 + Len(plate)) = Len(model)
  PROVE  Finds(head \o (model \o (id \o (color \o plate))), model, id, plate)
<1> DEFINE b == head \o (model \o (id \o (color \o plate)))
           fromColor == color \o plate
           fromID == id \o fromColor
           fromModel == model \o fromID
<1>0. Len(model) \in Nat /\ Len(plate) \in Nat
  BY SMT
<1>1. fromColor \in Seq(Nat) /\ Len(fromColor) = 1 + Len(plate)
  BY Join, ZenonT(60)
<1>2. Drop(fromColor, 1) = plate
  BY TakeDrop
<1> HIDE DEF fromColor
<1>3. fromID \in Seq(Nat) /\ Len(fromID) = Len(id) + Len(fromColor)
  BY <1>1, Join, Zenon
<1>4. Take(fromID, 7) = id /\ Drop(fromID, 7) = fromColor
  BY <1>1, TakeDrop, ZenonT(60)
<1> HIDE DEF fromID
<1>5. fromModel \in Seq(Nat) /\ Len(fromModel) = Len(model) + Len(fromID)
  BY <1>3, Join
<1>6. /\ Take(fromModel, Len(model)) = model
      /\ Drop(fromModel, Len(model)) = fromID
  BY <1>0, <1>3, TakeDrop
<1> HIDE DEF fromModel
<1>7. ModelLen(Len(fromModel)) = Len(model)
  <2>1. Len(fromModel) = Len(model) + 8 + Len(plate)
    BY <1>0, <1>1, <1>3, <1>5, SMT
  <2> QED  BY <2>1, Zenon
<1>8. SubSeq(b, 10, Len(b)) = fromModel
  <2>1. b = head \o fromModel
    BY DEF fromModel, fromID, fromColor
  <2> HIDE DEF b
  <2>2. SubSeq(head \o fromModel, Len(head) + 1, Len(head \o fromModel)) = fromModel
    BY <1>5, Len(head) \in Nat, Cut, Zenon
  <2>3. Len(head) + 1 = 10
    BY SMT
  <2> QED  BY <2>1, <2>2, <2>3, Zenon
<1>9. DecodeRegistration(b) =
        [manuf |-> NullTrimmed(SubSeq(b, 5, 9)),
         model |-> NullTrimmed(model), id |-> NullTrimmed(id),
         color |-> IF fromColor = <<>> THEN 0 ELSE fromColor[1],
         plate |-> NullTrimmed(plate)]
  <2> HIDE DEF b
  <2> DEFINE fm == SubSeq(b, 10, Len(b))
             ml == ModelLen(Len(fm))
             fi == Drop(fm, ml)
             fc == Drop(fi, 7)
  <2>1. DecodeRegistration(b) =
          [manuf |-> NullTrimmed(SubSeq(b, 5, 9)),
           model |-> NullTrimmed(Take(fm, ml)), id |-> NullTrimmed(Take(fi, 7)),
           color |-> IF fc = <<>> THEN 0 ELSE fc[1],
           plate |-> NullTrimmed(Drop(fc, 1))]
    BY Zenon DEF DecodeRegistration
  <2>2. fm = fromModel
    BY <1>8
  <2>3. ml = Len(model)
    BY <1>7, <2>2, Zenon
  <2> HIDE DEF fm, ml
  <2>4. fi = fromID
    BY <1>6, <2>2, <2>3, Zenon
  <2> HIDE DEF fi
  <2>5. fc = fromColor
    BY <1>4, <2>4, Zenon
  <2> HIDE DEF fc
  <2>6. /\ Take(fm, ml) = model /\ Take(fi, 7) = id /\ Drop(fc, 1) = plate
    BY <1>2, <1>4, <1>6, <2>2, <2>3, <2>4, <2>5, Zenon
  <2> QED  BY <2>1, <2>5, <2>6, Zenon
<1> HIDE DEF b
<1>10. Finds(b, model, id, plate)
  BY <1>9 DEF Finds
<1> QED  BY <1>10 DEF b

\* DecodeRegistration undoes buildRegBody for every layout the number of
\* bytes gives away, whatever model, IMEI and plate.
LEMMA RegistrationRoundTrip ==
  ASSUME NEW r \in Registrations, r.layout # "stripped",
         r.layout = "compact" => Len(r.plate) <= 11
  PROVE  LET d == DecodeRegistration(BuildRegBody(r)) IN
         /\ d.model = r.model
         /\ d.id = LastSeven(r.id)
         /\ d.plate = r.plate
<1> DEFINE n == ModelField[r.layout]
           model == PadRight(r.model, n)
           id == PadRight(LastSeven(r.id), 7)
           color == <<2>>
           rest == id \o (color \o r.plate)
           d == DecodeRegistration(BuildRegBody(r))
<1>1. /\ Plain(r.model) /\ Plain(r.id) /\ Plain(r.plate)
      /\ Len(r.model) <= n /\ r.layout \in {"standard", "compact"}
  BY RegistrationAssumption DEF Plain
<1>2. /\ n \in Nat
      /\ r.layout = "standard" => n = 20
      /\ r.layout = "compact" => n = 8
  BY <1>1, SMT DEF ModelField
<1>3. Len(r.plate) \in Nat /\ r.plate \in Seq(Nat)
  BY <1>1 DEF Plain
<1>4. ModelLen(n + 8 + Len(r.plate)) = n
  <2> DEFINE p == Len(r.plate)
  <2>1. /\ p \in Nat
        /\ (n = 20) \/ (n = 8 /\ p <= 11)
    BY <1>1, <1>2, <1>3
  <2> HIDE DEF n, p
  <2>2. ModelLen(n + 8 + p) = n
    BY <2>1, SMT DEF ModelLen
  <2> QED  BY <2>2 DEF p
<1>5. Plain(LastSeven(r.id)) /\ Len(LastSeven(r.id)) <= 7
  BY <1>1, LastSevenPlain
<1>6. /\ model \in Seq(Nat) /\ Len(model) = n
      /\ id \in Seq(Nat) /\ Len(id) = 7
  BY <1>1, <1>2, <1>5, Padded DEF Plain
<1>7. color \in Seq(Nat) /\ Len(color) = 1
  BY SMT
<1>8. PICK head \in Seq(Nat) :
        Len(head) = 9 /\ BuildRegBody(r) = head \o (model \o rest)
  BY <1>1, <1>2, RegFields, Zenon
<1>9. NullTrimmed(model) = r.model /\ NullTrimmed(id) = LastSeven(r.id)
      /\ NullTrimmed(r.plate) = r.plate
  BY <1>1, <1>2, <1>5, TrimPadded, TrimPlain
<1> HIDE DEF n, model, id, color
<1>10. Finds(BuildRegBody(r), model, id, r.plate)
  <2>1. ModelLen(Len(model) + 8 + Len(r.plate)) = Len(model)
    BY <1>4, <1>6, Zenon
  <2>2. Finds(head \o (model \o (id \o (color \o r.plate))), model, id, r.plate)
    BY <1>3, <1>6, <1>7, <1>8, <2>1, DecodeFields
  <2> QED  BY <1>8, <2>2, Zenon
<1>11. /\ d.model = NullTrimmed(model) /\ d.id = NullTrimmed(id)
       /\ d.plate = NullTrimmed(r.plate)
  BY <1>10, Zenon DEF Finds
<1> HIDE DEF d
<1>12. d.model = r.model /\ d.id = LastSeven(r.id) /\ d.plate = r.plate
  BY <1>9, <1>11, Zenon
<1> QED  BY <1>12 DEF d

\* A registration is handled as it was built.
Registering ==
  msg.kind = "registration" =>
    /\ msg.reg \in Registrations /\ msg.body = BuildRegBody(msg.reg)
    /\ done => info = DecodeRegistration(msg.body)

\* Every step keeps it.
LEMMA RegisteringStep ==
  ASSUME Registering, Silent => ~done, [Next]_vars
  PROVE  Registering' /\ (Silent => ~done)'
<1>1. ASSUME UNCHANGED vars
      PROVE  Registering' /\ (Silent => ~done)'
  BY <1>1 DEF vars, Registering, Silent
<1>2. ASSUME Silent, NEW m \in Moves, Drive(m)
      PROVE  Registering' /\ (Silent => ~done)'
  BY <1>2 DEF Drive, Registering, Silent
<1>3. ASSUME Silent, NEW clock, NEW csq, SendLocation(clock, csq)
      PROVE  Registering' /\ (Silent => ~done)'
  BY <1>3 DEF SendLocation, Say, Registering, Silent
<1>4. ASSUME Silent, NEW h, NEW items, SendReport(h, items)
      PROVE  Registering' /\ (Silent => ~done)'
  BY <1>4 DEF SendReport, Say, Registering, Silent
<1>5. ASSUME Silent, NEW points, NEW count, SendBatch(points, count)
      PROVE  Registering' /\ (Silent => ~done)'
  BY <1>5 DEF SendBatch, Say, Registering, Silent
<1>6. ASSUME Silent, NEW r \in Registrations, SendRegistration(r)
      PROVE  Registering' /\ (Silent => ~done)'
  BY <1>6 DEF SendRegistration, Say, Registering, Silent
<1>7. ASSUME HandleLocation
      PROVE  Registering' /\ (Silent => ~done)'
  <2>0. msg' = msg /\ msg.kind \in {"p901", "report"}
    BY <1>7, Zenon DEF HandleLocation
  <2>1. msg' = msg /\ msg.kind # "registration" /\ msg # NoMessage
    BY <2>0 DEF NoMessage
  <2> QED  BY <2>1, Zenon DEF Registering, Silent
<1>8. ASSUME HandleBatchLocation
      PROVE  Registering' /\ (Silent => ~done)'
  BY <1>8 DEF HandleBatchLocation, Registering, Silent, NoMessage
<1>9. ASSUME HandleRegistration
      PROVE  Registering' /\ (Silent => ~done)'
  BY <1>9 DEF HandleRegistration, Registering, Silent, NoMessage
<1>10. ASSUME NEW g \in DOMAIN entries, XAdd(g)
       PROVE  Registering' /\ (Silent => ~done)'
  BY <1>10, Zenon DEF XAdd, Registering, Silent
<1> QED  BY <1>1, <1>2, <1>3, <1>4, <1>5, <1>6, <1>7, <1>8, <1>9, <1>10 DEF Next, Terminal

\* handleRegistration: whatever the model, the IMEI and the plate, a
\* registration in the standard layout, and one in the compact layout whose
\* plate has at most 11 bytes, is read as it was sent; the boundary between
\* the two is where ModelLen puts it.
THEOREM RegistrationCorrect == Spec => []RegistrationDecoded
<1>1. Init => Registering /\ (Silent => ~done)
  <2> SUFFICES ASSUME Init PROVE Registering /\ (Silent => ~done)
    OBVIOUS
  <2>1. msg.kind # "registration"
    BY DEF Init, NoMessage
  <2>2. ~done
    BY Zenon DEF Init
  <2> QED  BY <2>1, <2>2, Zenon DEF Registering
<1>2. (Registering /\ (Silent => ~done)) /\ [Next]_vars
        => (Registering /\ (Silent => ~done))'
  BY RegisteringStep
<1>3. Registering => RegistrationDecoded
  <2> SUFFICES ASSUME Registering, Handled("registration"),
                      msg.reg.layout # "stripped",
                      msg.reg.layout = "compact" => Len(msg.reg.plate) <= 11
               PROVE  AsSent
    BY DEF RegistrationDecoded
  <2> DEFINE r == msg.reg
             d == DecodeRegistration(BuildRegBody(r))
  <2>1. r \in Registrations /\ info = d
    BY DEF Registering, Handled
  <2>2. d.model = r.model /\ d.id = LastSeven(r.id) /\ d.plate = r.plate
    BY <2>1, RegistrationRoundTrip
  <2> QED  BY <2>1, <2>2, Zenon DEF AsSent
<1> QED  BY <1>1, <1>2, <1>3, PTL DEF Spec

-----------------------------------------------------------------------------
(* Numbers in a body.                                                      *)

\* The bytes of u are in b, behind n others.
In(b, n, u) ==
  /\ u \in Seq(Nat) /\ n + Len(u) <= Len(b)
  /\ \A i \in 1..Len(u) : b[n + i] = u[i]

\* What is joined is in the whole, and so is what was in its first part.
LEMMA InJoined ==
  ASSUME NEW s \in Seq(Nat), NEW t \in Seq(Nat)
  PROVE  /\ In(s \o t, Len(s), t)
         /\ \A n \in Nat : \A u : In(s, n, u) => In(s \o t, n, u)
<1>1. /\ s \o t \in Seq(Nat) /\ Len(s \o t) = Len(s) + Len(t)
      /\ \A i \in 1..(Len(s) + Len(t)) :
           (s \o t)[i] = IF i <= Len(s) THEN s[i] ELSE t[i - Len(s)]
      /\ Len(s) \in Nat /\ Len(t) \in Nat
  BY ConcatProperties
<1> DEFINE b == s \o t
<1> HIDE DEF b
<1>2. In(b, Len(s), t)
  BY <1>1, SMT DEF In, b
<1>3. ASSUME NEW n \in Nat, NEW u, In(s, n, u)
      PROVE  In(b, n, u)
  <2>1. Len(u) \in Nat
    BY <1>3 DEF In
  <2> QED  BY <1>1, <1>3, <2>1, SMT DEF In, b
<1> QED  BY <1>2, <1>3 DEF b

\* Two bytes.
LEMMA Bytes2 ==
  ASSUME NEW v \in Nat
  PROVE  /\ U16(v) \in Seq(Nat) /\ Len(U16(v)) = 2
         /\ U16(v)[1] = (v \div 256) % 256 /\ U16(v)[2] = v % 256
BY SMT DEF U16

\* Parts of what is in a body are in it.
LEMMA InParts ==
  ASSUME NEW b, NEW n \in Nat, NEW s \in Seq(Nat), NEW t \in Seq(Nat), In(b, n, s \o t)
  PROVE  In(b, n, s) /\ In(b, n + Len(s), t)
<1> DEFINE u == s \o t
           k == Len(s)
           l == Len(t)
<1>1. /\ Len(u) = k + l /\ k \in Nat /\ l \in Nat
      /\ \A i \in 1..(k + l) : u[i] = IF i <= k THEN s[i] ELSE t[i - k]
  BY ConcatProperties
<1>2. n + Len(u) <= Len(b) /\ \A i \in 1..Len(u) : b[n + i] = u[i]
  BY DEF In
<1> HIDE DEF u
<1>3. \A i \in 1..k : b[n + i] = s[i]
  BY <1>1, <1>2, SMTT(60)
<1>4. ASSUME NEW i \in 1..l
      PROVE  b[n + k + i] = t[i]
  <2>1. k + i \in 1..(k + l) /\ n + (k + i) = n + k + i /\ ~(k + i <= k) /\ k + i - k = i
    BY <1>1, <1>4, SMT
  <2>2. u[k + i] = IF k + i <= k THEN s[k + i] ELSE t[k + i - k]
    BY <1>1, <2>1, SMT
  <2>3. b[n + (k + i)] = u[k + i]
    BY <1>1, <1>2, <2>1, Zenon
  <2> QED  BY <2>1, <2>2, <2>3, Zenon
<1>5. n + k <= Len(b) /\ n + k + l <= Len(b)
  <2>1. n + (k + l) <= Len(b) /\ Len(b) = Len(b)
    BY <1>1, <1>2
  <2> QED  BY <1>1, <2>1, SMT
<1> QED  BY <1>3, <1>4, <1>5 DEF In

\* Numbers of 16 and of 32 bits.
Fits16(v) == v \in Nat /\ v < 2^16
Fits32(v) == v \in Nat /\ v < 2^16 * 2^16

\* A number of 16 bits is read back from its two bytes.
LEMMA Read16 ==
  ASSUME NEW b, NEW n \in Nat, NEW v, Fits16(v), In(b, n, U16(v))
  PROVE  U16At(b, n + 1) = v
<1> DEFINE u == U16(v)
<1>1. Len(u) = 2 /\ u[1] = (v \div 256) % 256 /\ u[2] = v % 256
  BY Bytes2 DEF Fits16
<1>2. \A i \in 1..Len(u) : b[n + i] = u[i]
  BY DEF In
<1> HIDE DEF u
<1>3. b[n + 1] = (v \div 256) % 256 /\ b[n + 2] = v % 256
  BY <1>1, <1>2, SMT
<1>4. U16At(b, n + 1) = 256 * b[n + 1] + b[n + 2]
  <2>1. n + 1 + 1 = n + 2
    BY SMT
  <2> QED  BY <2>1, Zenon DEF U16At
<1>5. 256 * ((v \div 256) % 256) + (v % 256) = v
  <2>1. 2^16 = 65536
    BY SMT
  <2> QED  BY <2>1, SMT DEF Fits16
<1> QED  BY <1>3, <1>4, <1>5, ZenonT(60)

\* The two halves of a number of 32 bits.
LEMMA Halves ==
  ASSUME NEW v, Fits32(v)
  PROVE  /\ Fits16(v \div 2^16) /\ Fits16(v % 2^16)
         /\ v = 2^16 * (v \div 2^16) + (v % 2^16)
<1>1. 2^16 = 65536
  BY SMT
<1> QED  BY <1>1, SMT DEF Fits16, Fits32

\* Four bytes.
LEMMA Bytes4 ==
  ASSUME NEW v, Fits32(v)
  PROVE  U32(v) \in Seq(Nat) /\ Len(U32(v)) = 4
<1> DEFINE hi == v \div 2^16
           lo == v % 2^16
<1>1. hi \in Nat /\ lo \in Nat
  BY Halves, Zenon DEF Fits16
<1>2. U32(v) = U16(hi) \o U16(lo)
  BY Zenon DEF U32
<1> HIDE DEF hi, lo
<1>3. /\ U16(hi) \in Seq(Nat) /\ Len(U16(hi)) = 2
      /\ U16(lo) \in Seq(Nat) /\ Len(U16(lo)) = 2
  BY <1>1, Bytes2, ZenonT(60)
<1>4. U32(v) \in Seq(Nat) /\ Len(U32(v)) = 2 + 2
  BY <1>2, <1>3, Join, Zenon
<1> QED  BY <1>4, SMT

\* A number of 32 bits is read back from its four bytes.
LEMMA Read32 ==
  ASSUME NEW b, NEW n \in Nat, NEW v, Fits32(v), In(b, n, U32(v))
  PROVE  U32At(b, n + 1) = v
<1> DEFINE hi == v \div 2^16
           lo == v % 2^16
<1>1. Fits16(hi) /\ Fits16(lo) /\ v = 2^16 * hi + lo
  BY Halves, Zenon
<1>2. In(b, n, U16(hi) \o U16(lo))
  BY Zenon DEF U32
<1> HIDE DEF hi, lo
<1>3. U16(hi) \in Seq(Nat) /\ Len(U16(hi)) = 2 /\ U16(lo) \in Seq(Nat)
  BY <1>1, Bytes2, ZenonT(60) DEF Fits16
<1>4. In(b, n, U16(hi)) /\ In(b, n + 2, U16(lo))
  BY <1>2, <1>3, InParts, Zenon
<1>5. n + 2 \in Nat /\ n + 1 + 2 = n + 2 + 1
  BY SMT
<1>6. U16At(b, n + 1) = hi /\ U16At(b, n + 2 + 1) = lo
  BY <1>1, <1>4, <1>5, Read16, Zenon
<1>7. U32At(b, n + 1) = 2^16 * U16At(b, n + 1) + U16At(b, n + 1 + 2)
  BY Zenon DEF U32At
<1> QED  BY <1>1, <1>5, <1>6, <1>7, Zenon

\* A block of n bytes, and two joined.
Block(s, n) == s \in Seq(Nat) /\ n \in Nat /\ Len(s) = n
Cat(s, t) == s \o t

\* A block is appended: it is behind what was there, which stays in place.
LEMMA Extend ==
  ASSUME NEW s, NEW n, Block(s, n), NEW t, NEW m, Block(t, m)
  PROVE  /\ Block(Cat(s, t), n + m)
         /\ In(Cat(s, t), n, t)
         /\ \A k \in Nat : \A u : In(s, k, u) => In(Cat(s, t), k, u)
<1>1. /\ s \in Seq(Nat) /\ n \in Nat /\ Len(s) = n
      /\ t \in Seq(Nat) /\ m \in Nat /\ Len(t) = m
  BY DEF Block
<1>2. s \o t \in Seq(Nat) /\ Len(s \o t) = n + m /\ n + m \in Nat
  BY <1>1, Join, SMTT(60)
<1>3. In(s \o t, n, t) /\ \A k \in Nat : \A u : In(s, k, u) => In(s \o t, k, u)
  BY <1>1, InJoined, Zenon
<1> QED  BY <1>2, <1>3, Zenon DEF Cat, Block

\* Blocks of the widths a location body has.
Blocks(p1, p2, p3, p4, p5, p6, p7, p8, p9, p10) ==
  /\ Block(p1, 4) /\ Block(p2, 4) /\ Block(p3, 4) /\ Block(p4, 4)
  /\ Block(p5, 2) /\ Block(p6, 2) /\ Block(p7, 2)
  /\ Block(p8, 6) /\ Block(p9, 3) /\ Block(p10, 3)

\* Where they are in a body.
LaidOut(b, p1, p2, p3, p4, p5, p6, p7, p8, p9, p10) ==
  /\ Block(b, 34)
  /\ In(b, 0, p1) /\ In(b, 4, p2) /\ In(b, 8, p3) /\ In(b, 12, p4)
  /\ In(b, 16, p5) /\ In(b, 18, p6) /\ In(b, 20, p7)
  /\ In(b, 22, p8) /\ In(b, 28, p9) /\ In(b, 31, p10)

\* The ten blocks of a location body and where they are.
LEMMA Layout ==
  ASSUME NEW p1, NEW p2, NEW p3, NEW p4, NEW p5, NEW p6, NEW p7, NEW p8, NEW p9, NEW p10,
         Blocks(p1, p2, p3, p4, p5, p6, p7, p8, p9, p10)
  PROVE  LaidOut(p1 \o p2 \o p3 \o p4 \o p5 \o p6 \o p7 \o p8 \o p9 \o p10,
                 p1, p2, p3, p4, p5, p6, p7, p8, p9, p10)
<1> DEFINE q1 == p1
           q2 == Cat(q1, p2)
           q3 == Cat(q2, p3)
           q4 == Cat(q3, p4)
           q5 == Cat(q4, p5)
           q6 == Cat(q5, p6)
           q7 == Cat(q6, p7)
           q8 == Cat(q7, p8)
           q9 == Cat(q8, p9)
           q10 == Cat(q9, p10)
<1>1. Block(q1, 4) /\ In(q1, 0, p1)
  BY SMT DEF Block, In, Blocks
<1> HIDE DEF q1
<1>2. /\ Block(q2, 8) /\ In(q2, 4, p2)
      /\ \A k \in Nat : \A u : In(q1, k, u) => In(q2, k, u)
  <2>1. Block(p2, 4)
    BY DEF Blocks
  <2>2. /\ Block(q2, 4 + 4) /\ In(q2, 4, p2)
        /\ \A k \in Nat : \A u : In(q1, k, u) => In(q2, k, u)
    BY <1>1, <2>1, Extend, Zenon
  <2> QED  BY <2>2, SMT
<1> HIDE DEF q2
<1>3. /\ Block(q3, 12) /\ In(q3, 8, p3)
      /\ \A k \in Nat : \A u : In(q2, k, u) => In(q3, k, u)
  <2>1. Block(p3, 4)
    BY DEF Blocks
  <2>2. /\ Block(q3, 8 + 4) /\ In(q3, 8, p3)
        /\ \A k \in Nat : \A u : In(q2, k, u) => In(q3, k, u)
    BY <1>2, <2>1, Extend, Zenon
  <2> QED  BY <2>2, SMT
<1> HIDE DEF q3
<1>4. /\ Block(q4, 16) /\ In(q4, 12, p4)
      /\ \A k \in Nat : \A u : In(q3, k, u) => In(q4, k, u)
  <2>1. Block(p4, 4)
    BY DEF Blocks
  <2>2. /\ Block(q4, 12 + 4) /\ In(q4, 12, p4)
        /\ \A k \in Nat : \A u : In(q3, k, u) => In(q4, k, u)
    BY <1>3, <2>1, Extend, Zenon
  <2> QED  BY <2>2, SMT
<1> HIDE DEF q4
<1>5. /\ Block(q5, 18) /\ In(q5, 16, p5)
      /\ \A k \in Nat : \A u : In(q4, k, u) => In(q5, k, u)
  <2>1. Block(p5, 2)
    BY DEF Blocks
  <2>2. /\ Block(q5, 16 + 2) /\ In(q5, 16, p5)
        /\ \A k \in Nat : \A u : In(q4, k, u) => In(q5, k, u)
    BY <1>4, <2>1, Extend, Zenon
  <2> QED  BY <2>2, SMT
<1> HIDE DEF q5
<1>6. /\ Block(q6, 20) /\ In(q6, 18, p6)
      /\ \A k \in Nat : \A u : In(q5, k, u) => In(q6, k, u)
  <2>1. Block(p6, 2)
    BY DEF Blocks
  <2>2. /\ Block(q6, 18 + 2) /\ In(q6, 18, p6)
        /\ \A k \in Nat : \A u : In(q5, k, u) => In(q6, k, u)
    BY <1>5, <2>1, Extend, Zenon
  <2> QED  BY <2>2, SMT
<1> HIDE DEF q6
<1>7. /\ Block(q7, 22) /\ In(q7, 20, p7)
      /\ \A k \in Nat : \A u : In(q6, k, u) => In(q7, k, u)
  <2>1. Block(p7, 2)
    BY DEF Blocks
  <2>2. /\ Block(q7, 20 + 2) /\ In(q7, 20, p7)
        /\ \A k \in Nat : \A u : In(q6, k, u) => In(q7, k, u)
    BY <1>6, <2>1, Extend, Zenon
  <2> QED  BY <2>2, SMT
<1> HIDE DEF q7
<1>8. /\ Block(q8, 28) /\ In(q8, 22, p8)
      /\ \A k \in Nat : \A u : In(q7, k, u) => In(q8, k, u)
  <2>1. Block(p8, 6)
    BY DEF Blocks
  <2>2. /\ Block(q8, 22 + 6) /\ In(q8, 22, p8)
        /\ \A k \in Nat : \A u : In(q7, k, u) => In(q8, k, u)
    BY <1>7, <2>1, Extend, Zenon
  <2> QED  BY <2>2, SMT
<1> HIDE DEF q8
<1>9. /\ Block(q9, 31) /\ In(q9, 28, p9)
      /\ \A k \in Nat : \A u : In(q8, k, u) => In(q9, k, u)
  <2>1. Block(p9, 3)
    BY DEF Blocks
  <2>2. /\ Block(q9, 28 + 3) /\ In(q9, 28, p9)
        /\ \A k \in Nat : \A u : In(q8, k, u) => In(q9, k, u)
    BY <1>8, <2>1, Extend, Zenon
  <2> QED  BY <2>2, SMT
<1> HIDE DEF q9
<1>10. /\ Block(q10, 34) /\ In(q10, 31, p10)
      /\ \A k \in Nat : \A u : In(q9, k, u) => In(q10, k, u)
  <2>1. Block(p10, 3)
    BY DEF Blocks
  <2>2. /\ Block(q10, 31 + 3) /\ In(q10, 31, p10)
        /\ \A k \in Nat : \A u : In(q9, k, u) => In(q10, k, u)
    BY <1>9, <2>1, Extend, Zenon
  <2> QED  BY <2>2, SMT
<1> HIDE DEF q10
<1>11. /\ In(q10, 0, p1) /\ In(q10, 4, p2) /\ In(q10, 8, p3) /\ In(q10, 12, p4)
       /\ In(q10, 16, p5) /\ In(q10, 18, p6) /\ In(q10, 20, p7)
       /\ In(q10, 22, p8) /\ In(q10, 28, p9) /\ In(q10, 31, p10)
  BY <1>1, <1>2, <1>3, <1>4, <1>5, <1>6, <1>7, <1>8, <1>9, <1>10, SMT
<1>12. LaidOut(q10, p1, p2, p3, p4, p5, p6, p7, p8, p9, p10)
  BY <1>10, <1>11, Zenon DEF LaidOut
<1> QED  BY <1>12 DEF Cat, q1, q2, q3, q4, q5, q6, q7, q8, q9, q10

\* One byte of a sequence.
LEMMA OneByte ==
  ASSUME NEW s \in Seq(Nat), NEW k \in Nat, 1 <= k, k <= Len(s)
  PROVE  SubSeq(s, k, k) = <<s[k]>>
<1> DEFINE t == SubSeq(s, k, k)
           u == <<s[k]>>
<1>1. s[k] \in Nat
  BY SMT
<1>2. \A i \in k..k : s[i] \in Nat
  BY <1>1, SMT
<1>3. /\ t \in Seq(Nat) /\ Len(t) = IF k <= k THEN k - k + 1 ELSE 0
      /\ \A i \in 1..(k - k + 1) : t[i] = s[k + i - 1]
  BY <1>2, SubSeqProperties
<1> HIDE DEF t
<1>4. Len(t) = 1 /\ t[1] = s[k]
  BY <1>3, SMT
<1>5. u \in Seq(Nat) /\ Len(u) = 1 /\ u[1] = s[k]
  BY <1>1, SMT
<1> HIDE DEF u
<1>6. t = u
  BY <1>3, <1>4, <1>5, SMT
<1> QED  BY <1>6 DEF t, u

\* The walk of Extras at byte i: where it stops, and what it does otherwise.
Stops(e, i) == Len(e) - i + 1 < 2 \/ ~TLVFits(Len(e) - i - 1, e[i + 1])
WalkStep(e, w, i) ==
  IF Stops(e, i) THEN <<>>
  ELSE Under(w[i + 2 + e[i + 1]], e[i], SubSeq(e, i + 2, i + 1 + e[i + 1]))
Walk(e) == CHOOSE w : w = [i \in 1..(Len(e) + 1) |-> WalkStep(e, w, i)]

\* A step looks only at what follows the item, within the body ...
LEMMA WalkSame ==
  ASSUME NEW e \in Seq(Nat), NEW w, NEW v, NEW i \in 1..(Len(e) + 1),
         \A k \in 1..(Len(e) + 1) : k > i => w[k] = v[k]
  PROVE  WalkStep(e, w, i) = WalkStep(e, v, i)
<1>1. CASE Stops(e, i)
  BY <1>1, Zenon DEF WalkStep
<1>2. CASE ~Stops(e, i)
  <2> DEFINE k == i + 2 + e[i + 1]
  <2>1. k \in 1..(Len(e) + 1) /\ k > i
    BY <1>2, SMTT(60) DEF Stops, TLVFits
  <2>2. w[k] = v[k]
    BY <2>1, SMT
  <2> QED  BY <1>2, <2>2, Zenon DEF WalkStep
<1> QED  BY <1>1, <1>2

\* ... so the recursive definition has a solution for every body, built from
\* its end.
LEMMA WalkExists ==
  ASSUME NEW e \in Seq(Nat)
  PROVE  Walk(e) = [i \in 1..(Len(e) + 1) |-> WalkStep(e, Walk(e), i)]
<1> DEFINE L == Len(e) + 1
           solves(w, n) == \A i \in 1..L : i > L - n => w[i] = WalkStep(e, w, i)
           S == {n \in Nat : n <= L => \E w : solves(w, n)}
<1>0. L \in Nat
  BY SMT
<1>1. 0 \in S
  <2>1. solves(<<>>, 0)
    BY <1>0, SMT
  <2> HIDE DEF L, solves
  <2> QED  BY <2>1, SMT
<1>2. ASSUME NEW n \in Nat, n \in S PROVE n + 1 \in S
  <2> SUFFICES ASSUME n + 1 <= L PROVE \E w : solves(w, n + 1)
    BY SMT
  <2>1. PICK w : solves(w, n)
    <3>1. n <= L
      BY <1>0, SMT
    <3> HIDE DEF L, solves
    <3> QED  BY <1>2, <3>1
  <2> DEFINE j == L - n
             v == [i \in 1..L |-> IF i = j THEN WalkStep(e, w, j) ELSE w[i]]
  <2>2. j \in 1..L
    BY <1>0, SMT
  <2>3. /\ v[j] = WalkStep(e, w, j)
        /\ \A i \in 1..L : i # j => v[i] = w[i]
    <3> HIDE DEF j, L
    <3> QED  BY <2>2, Zenon
  <2> HIDE DEF v
  <2>4. ASSUME NEW i \in 1..L, i >= j PROVE v[i] = WalkStep(e, v, i)
    <3>1. \A k \in 1..L : k > i => w[k] = v[k]
      <4>1. \A k \in 1..L : k > i => k # j
        BY <2>2, <2>4, <1>0, SMT
      <4> QED  BY <2>3, <4>1, Zenon
    <3>2. WalkStep(e, w, i) = WalkStep(e, v, i)
      BY <3>1, WalkSame, Zenon
    <3>3. v[i] = WalkStep(e, w, i)
      <4>1. CASE i = j
        BY <2>3, <4>1, Zenon
      <4>2. CASE i # j
        <5>1. i > L - n
          BY <1>0, <2>4, <4>2, SMTT(60)
        <5>2. w[i] = WalkStep(e, w, i)
          BY <2>1, <5>1, Zenon
        <5> QED  BY <2>3, <4>2, <5>2, Zenon
      <4> QED  BY <4>1, <4>2
    <3> QED  BY <3>2, <3>3, Zenon
  <2>5. \A i \in 1..L : i > L - (n + 1) => i >= j
    BY <1>0, SMT
  <2>6. solves(v, n + 1)
    <3> HIDE DEF L, j
    <3> QED  BY <2>4, <2>5, Zenon
  <2> QED  BY <2>6, Zenon
<1>3. L \in S
  <2> HIDE DEF S, L
  <2> QED  BY <1>0, <1>1, <1>2, SetInduction
<1>4. PICK w : solves(w, L)
  <2>1. L <= L
    BY <1>0, SMT
  <2> HIDE DEF L, solves
  <2> QED  BY <1>3, <2>1
<1> DEFINE W == [i \in 1..L |-> w[i]]
<1>5. ASSUME NEW i \in 1..L PROVE W[i] = WalkStep(e, W, i)
  <2>1. i > L - L
    BY <1>0, SMT
  <2>2. w[i] = WalkStep(e, w, i)
    BY <1>4, <2>1, Zenon
  <2>3. \A k \in 1..L : w[k] = W[k]
    BY Zenon
  <2> HIDE DEF W
  <2>4. WalkStep(e, w, i) = WalkStep(e, W, i)
    BY <2>3, WalkSame, Zenon
  <2> QED  BY <2>2, <2>3, <2>4, Zenon
<1>6. W = [i \in 1..L |-> WalkStep(e, W, i)]
  BY <1>5, Zenon
<1> HIDE DEF W
<1> QED  BY <1>6, Zenon DEF Walk

\* The walk from each byte of a body; the items are those from the first.
LEMMA WalkAt ==
  ASSUME NEW e \in Seq(Nat)
  PROVE  /\ Extras(e) = Walk(e)[1]
         /\ \A i \in 1..(Len(e) + 1) : Walk(e)[i] = WalkStep(e, Walk(e), i)
<1> DEFINE w == Walk(e)
<1>1. Extras(e) = w[1]
  BY DEF Extras, w, Walk, WalkStep, Stops
<1>2. w = [i \in 1..(Len(e) + 1) |-> WalkStep(e, w, i)]
  BY WalkExists
<1> HIDE DEF w
<1>3. \A i \in 1..(Len(e) + 1) : w[i] = WalkStep(e, w, i)
  BY <1>2, Zenon
<1> QED  BY <1>1, <1>3 DEF w

\* The two items p901 appends, both of one byte, with values too large to be
\* taken for the length of what follows.
Trailer(e, x, y) ==
  /\ e \in Seq(Nat) /\ Len(e) = 6
  /\ x \in Nat /\ x > 3 /\ y \in Nat /\ y > 0
  /\ e[1] = 235 /\ e[2] = 1 /\ e[3] = x /\ e[4] = 48 /\ e[5] = 1 /\ e[6] = y

\* Started inside an item the walk would stop at once.
LEMMA TrailerSteps ==
  ASSUME NEW e, NEW x, NEW y, Trailer(e, x, y), NEW w
  PROVE  /\ WalkStep(e, w, 1) = Under(w[4], e[1], <<x>>)
         /\ WalkStep(e, w, 2) = <<>> /\ WalkStep(e, w, 3) = <<>>
         /\ WalkStep(e, w, 4) = Under(w[7], e[4], <<y>>)
         /\ WalkStep(e, w, 5) = <<>> /\ WalkStep(e, w, 6) = <<>>
         /\ WalkStep(e, w, 7) = <<>>
<1>1. /\ ~Stops(e, 1) /\ Stops(e, 2) /\ Stops(e, 3) /\ ~Stops(e, 4)
      /\ Stops(e, 5) /\ Stops(e, 6) /\ Stops(e, 7)
  BY SMT DEF Stops, TLVFits, Trailer
<1>2. /\ 1 + 2 + e[1 + 1] = 4 /\ 1 + 2 = 3 /\ 1 + 1 + e[1 + 1] = 3
      /\ 4 + 2 + e[4 + 1] = 7 /\ 4 + 2 = 6 /\ 4 + 1 + e[4 + 1] = 6
  BY SMT DEF Trailer
<1>3. SubSeq(e, 6, 6) = <<y>> /\ SubSeq(e, 3, 3) = <<x>>
  <2>1. /\ e \in Seq(Nat) /\ e[3] = x /\ e[6] = y
        /\ 6 \in Nat /\ 1 <= 6 /\ 6 <= Len(e) /\ 3 \in Nat /\ 1 <= 3 /\ 3 <= Len(e)
    BY SMT DEF Trailer
  <2>2. SubSeq(e, 6, 6) = <<e[6]>>
    BY <2>1, OneByte, Zenon
  <2>3. SubSeq(e, 3, 3) = <<e[3]>>
    BY <2>1, OneByte, Zenon
  <2> QED  BY <2>1, <2>2, <2>3, Zenon
<1>4. WalkStep(e, w, 1) = Under(w[4], e[1], <<x>>)
  BY <1>1, <1>2, <1>3, Zenon DEF WalkStep
<1>5. WalkStep(e, w, 4) = Under(w[7], e[4], <<y>>)
  BY <1>1, <1>2, <1>3, Zenon DEF WalkStep
<1> QED  BY <1>1, <1>4, <1>5, Zenon DEF WalkStep

\* The two items are found.
LEMMA TwoItems ==
  ASSUME NEW e, NEW x, NEW y, Trailer(e, x, y)
  PROVE  Extras(e) = Under(Under(<<>>, e[4], <<y>>), e[1], <<x>>)
<1> DEFINE w == Walk(e)
<1>1. 1 \in 1..(Len(e) + 1) /\ 4 \in 1..(Len(e) + 1) /\ 7 \in 1..(Len(e) + 1)
  BY SMT DEF Trailer
<1>2. Extras(e) = w[1] /\ \A i \in 1..(Len(e) + 1) : w[i] = WalkStep(e, w, i)
  BY WalkAt, Zenon DEF Trailer
<1> HIDE DEF w
<1>3. /\ w[7] = WalkStep(e, w, 7) /\ w[4] = WalkStep(e, w, 4)
      /\ w[1] = WalkStep(e, w, 1)
  BY <1>1, <1>2, Zenon
<1>4. /\ WalkStep(e, w, 1) = Under(w[4], e[1], <<x>>)
      /\ WalkStep(e, w, 2) = <<>> /\ WalkStep(e, w, 3) = <<>>
      /\ WalkStep(e, w, 4) = Under(w[7], e[4], <<y>>)
      /\ WalkStep(e, w, 5) = <<>> /\ WalkStep(e, w, 6) = <<>>
      /\ WalkStep(e, w, 7) = <<>>
  BY TrailerSteps, Zenon
<1>5. w[4] = Under(<<>>, e[4], <<y>>)
  BY <1>3, <1>4, Zenon
<1>6. w[1] = Under(Under(<<>>, e[4], <<y>>), e[1], <<x>>)
  BY <1>3, <1>4, <1>5, Zenon
<1> QED  BY <1>2, <1>6, Zenon

\* The smallest member of a set of numbers, once it is known.
LEMMA MinIs ==
  ASSUME NEW S \in SUBSET Int, NEW m \in S, \A x \in S : m <= x
  PROVE  Min(S) = m
<1> DEFINE smallest(x) == x \in S /\ \A y \in S : x =< y
<1>1. smallest(m)
  BY SMT
<1>2. ASSUME NEW x, smallest(x) PROVE x = m
  BY <1>2, SMT
<1>3. Min(S) = CHOOSE x \in S : \A y \in S : x =< y
  BY Zenon DEF Min
<1>4. smallest(Min(S))
  BY <1>1, <1>3, Zenon
<1> QED  BY <1>2, <1>4

\* A CSQ of at most 31 as a percentage.
Percent(y) == (y * 100) \div 31

\* Battery level and signal strength of a report with these two items: the
\* level as it was sent, the signal from 0..31 to a percentage.
LEMMA Levels ==
  ASSUME NEW x \in 5..100, NEW y \in 5..28, NEW X,
         X = Under(Under(<<>>, 48, <<y>>), 235, <<x>>)
  PROVE  ExtractBattery(X) = x /\ ExtractSignal(X) = Percent(y)
<1>1. /\ 235 \in DOMAIN X /\ X[235] = <<x>>
      /\ 48 \in DOMAIN X /\ X[48] = <<y>>
  BY SMT DEF Under
<1>2. /\ HasItem(X, 235, 1) /\ X[235][1] = x
      /\ HasItem(X, 48, 1) /\ X[48][1] = y
  BY <1>1, SMT DEF HasItem
<1>3. ExtractBattery(X) = x
  <2> DEFINE ids == <<235, 99, 100>>
             usable == {i \in 1..3 : HasItem(X, ids[i], 1) /\ X[ids[i]][1] <= 100}
  <2>1. ids[1] = 235
    BY SMT
  <2>2. 1 \in usable
    <3>1. 1 \in 1..3 /\ x <= 100
      BY SMT
    <3>2. HasItem(X, ids[1], 1) /\ X[ids[1]][1] <= 100
      <4> HIDE DEF ids
      <4> QED  BY <1>2, <2>1, <3>1, ZenonT(60)
    <3> HIDE DEF ids
    <3> QED  BY <3>1, <3>2, Zenon
  <2>3. usable \in SUBSET Int /\ \A i \in usable : 1 <= i
    BY SMT
  <2>4. ExtractBattery(X) =
          IF usable # {} THEN X[ids[Min(usable)]][1]
          ELSE IF HasItem(X, 37, 2) THEN VoltageLevel(U16At(X[37], 1))
          ELSE -1
    BY SMT DEF ExtractBattery
  <2> HIDE DEF usable, ids
  <2>5. Min(usable) = 1 /\ usable # {}
    BY <2>2, <2>3, MinIs, Zenon
  <2>6. X[ids[Min(usable)]][1] = X[235][1]
    BY <2>1, <2>5, SMT
  <2> QED  BY <1>2, <2>4, <2>5, <2>6, SMT
<1>4. ExtractSignal(X) = Percent(y)
  <2>1. {y, 31} \in SUBSET Int /\ y \in {y, 31} /\ \A z \in {y, 31} : y <= z
    BY SMT
  <2>2. Min({y, 31}) = y
    BY <2>1, MinIs, Zenon
  <2>3. ExtractSignal(X) = (Min({X[48][1], 31}) * 100) \div 31
    BY <1>2, SMT DEF ExtractSignal
  <2>4. Percent(y) = (Min({y, 31}) * 100) \div 31
    BY <2>2, SMT DEF Percent
  <2> QED  BY <1>2, <2>3, <2>4, Zenon
<1> QED  BY <1>3, <1>4

\* The four status bits p901 sets and the decoder looks at.
LEMMA StatusBits ==
  ASSUME NEW south \in BOOLEAN, NEW west \in BOOLEAN, NEW status,
         status = 2^StatusLocated + 2^StatusACCOn
                    + (IF south THEN 2^StatusLatSouth ELSE 0)
                    + (IF west THEN 2^StatusLonWest ELSE 0)
  PROVE  /\ Fits32(status)
         /\ HasBit(status, StatusLocated) /\ HasBit(status, StatusACCOn)
         /\ HasBit(status, StatusLatSouth) <=> south
         /\ HasBit(status, StatusLonWest) <=> west
<1>1. 2^0 = 1 /\ 2^1 = 2 /\ 2^2 = 4 /\ 2^3 = 8 /\ 2^16 = 65536
  BY SMT
<1>2. CASE south /\ west
  BY <1>1, <1>2, SMT
  DEF Fits32, HasBit, StatusLocated, StatusACCOn, StatusLatSouth, StatusLonWest
<1>3. CASE south /\ ~west
  BY <1>1, <1>3, SMT
  DEF Fits32, HasBit, StatusLocated, StatusACCOn, StatusLatSouth, StatusLonWest
<1>4. CASE ~south /\ west
  BY <1>1, <1>4, SMT
  DEF Fits32, HasBit, StatusLocated, StatusACCOn, StatusLatSouth, StatusLonWest
<1>5. CASE ~south /\ ~west
  BY <1>1, <1>5, SMT
  DEF Fits32, HasBit, StatusLocated, StatusACCOn, StatusLatSouth, StatusLonWest
<1> QED  BY <1>2, <1>3, <1>4, <1>5

\* No alarm bit, no alarm.
LEMMA NoAlarms == ActiveAlarmNames(0) = {}
<1>1. ~HasBit(0, 0) /\ ~HasBit(0, 1) /\ ~HasBit(0, 7) /\ ~HasBit(0, 12) /\ ~HasBit(0, 16)
  BY SMT DEF HasBit
<1>2. \A a \in DOMAIN AlarmBits : AlarmBits[a] \in {0, 1, 7, 12, 16}
  BY SMT DEF AlarmBits
<1>3. \A a \in DOMAIN AlarmBits : ~HasBit(0, AlarmBits[a])
  BY <1>1, <1>2
<1> QED  BY <1>3, Zenon DEF ActiveAlarmNames

\* Two decimal digits in a byte.
LEMMA Digits ==
  ASSUME NEW c \in 0..99
  PROVE  /\ (16 * (c \div 10) + (c % 10)) \div 16 = c \div 10
         /\ (16 * (c \div 10) + (c % 10)) % 16 = c % 10
         /\ 10 * (c \div 10) + (c % 10) = c
BY SMT

\* A time of day survives the BCD digits.
LEMMA BcdRoundTrip ==
  ASSUME NEW clock \in Seq(0..99), Len(clock) = 6, NEW t,
         t = ParseBCDTimestamp(BcdTimestamp(clock))
  PROVE  \A i \in 1..6 : 10 * t[2 * i - 1] + t[2 * i] = clock[i]
<1> DEFINE c == BcdTimestamp(clock)
<1>1. \A i \in 1..6 : clock[i] \in 0..99
  BY ElementOfSeq, Zenon
<1>2. \A i \in 1..6 : c[i] = 16 * (clock[i] \div 10) + (clock[i] % 10)
  BY SMT DEF BcdTimestamp
<1>3. \A i \in 1..6 : /\ c[i] \div 16 = clock[i] \div 10 /\ c[i] % 16 = clock[i] % 10
                      /\ 10 * (clock[i] \div 10) + (clock[i] % 10) = clock[i]
  <2> HIDE DEF c
  <2> QED  BY <1>1, <1>2, Digits, Zenon
<1> HIDE DEF c
<1>4. \A k \in 1..12 :
        t[k] = IF k % 2 = 1 THEN c[(k + 1) \div 2] \div 16 ELSE c[k \div 2] % 16
  BY SMT DEF ParseBCDTimestamp, c
<1>5. ASSUME NEW i \in 1..6
      PROVE  t[2 * i - 1] = c[i] \div 16 /\ t[2 * i] = c[i] % 16
  <2>1. /\ 2 * i - 1 \in 1..12 /\ (2 * i - 1) % 2 = 1 /\ (2 * i - 1 + 1) \div 2 = i
        /\ 2 * i \in 1..12 /\ (2 * i) % 2 # 1 /\ (2 * i) \div 2 = i
    BY SMT
  <2> QED  BY <1>4, <2>1, Zenon
<1> QED  BY <1>3, <1>5, Zenon

-----------------------------------------------------------------------------
(* A drive and its reports.                                                *)

\* A coordinate that fits its field, and a raw value close to it, in 10^-6
\* degrees, that is not on the other side of zero.
OnMap(v) == v \in Int /\ -(10 * 2^16 * 2^16) < v /\ v < 10 * 2^16 * 2^16
Near(raw, v) ==
  /\ 10 * raw - v \in -9..9
  /\ v > 0 => raw >= 0
  /\ v < 0 => raw <= 0

\* The simulator's state after n steps.
OnRoute(s, n) ==
  /\ Within(s.lat, -900000000 - 100000 * n, 900000000 + 100000 * n)
  /\ Within(s.lon, -1800000000 - 1000000 * n, 1800000000 + 1000000 * n)
  /\ Within(s.heading, 0, 3599) /\ Within(s.speed, 1000, 9000)
  /\ Within(s.alt, 180, 300) /\ Within(s.battery, 500, 10000)

\* On no drive a coordinate leaves its field.
LEMMA RouteOnMap ==
  ASSUME NEW s, NEW n \in Nat, n <= MaxSteps, OnRoute(s, n)
  PROVE  OnMap(s.lat) /\ OnMap(s.lon)
<1>1. 2^16 = 65536
  BY SMT
<1>2. MaxSteps \in Nat /\ MaxSteps <= 40000
  BY SMT, TelemetryAssumption, DriveAssumption
<1> QED  BY <1>1, <1>2, SMT DEF OnRoute, OnMap, Within

\* A coordinate as magnitude and hemisphere, and back.
LEMMA Angle ==
  ASSUME NEW v, OnMap(v), NEW raw, raw = (IF v < 0 THEN -v ELSE v) \div 10
  PROVE  Fits32(raw) /\ Near(IF v < 0 THEN -raw ELSE raw, v)
<1>1. 2^16 = 65536
  BY SMT
<1>2. CASE v < 0
  BY <1>1, <1>2, SMT DEF OnMap, Fits32, Near
<1>3. CASE ~(v < 0)
  BY <1>1, <1>3, SMT DEF OnMap, Fits32, Near
<1> QED  BY <1>2, <1>3

\* The battery drains to its reserve.
LEMMA Drain ==
  ASSUME NEW v, Within(v, 500, 10000)
  PROVE  Within(Max({v - 5, 500}), 500, 10000)
<1>1. v \in Int /\ 500 <= v /\ v <= 10000
  BY SMT DEF Within
<1> DEFINE m == IF v >= 505 THEN v - 5 ELSE 500
<1>2. /\ {v - 5, 500} \in SUBSET Int /\ m \in {v - 5, 500}
      /\ \A x \in {v - 5, 500} : x <= m
  BY <1>1, SMT
<1>3. Within(m, 500, 10000)
  BY <1>1, SMT DEF Within
<1> DEFINE S == {v - 5, 500}
<1> HIDE DEF m, S
<1>4. Max(S) = m
  BY <1>2, MaxIs, SMT DEF S
<1> QED  BY <1>3, <1>4, SMT DEF S

\* advanceState stays on a route.
LEMMA AdvanceOnRoute ==
  ASSUME NEW s, NEW n \in Nat, OnRoute(s, n), NEW m \in Moves
  PROVE  OnRoute(AdvanceState(s, m), n + 1)
<1> DEFINE t == AdvanceState(s, m)
<1>1. /\ t.lat = s.lat + m.lat /\ t.lon = s.lon + m.lon
      /\ t.heading = (s.heading + m.heading + 3600) % 3600
      /\ t.speed = Clamp(s.speed + m.speed, 1000, 9000)
      /\ t.alt = Clamp(s.alt + m.alt, 180, 300)
      /\ t.battery = Max({s.battery - 5, 500})
  BY SMT DEF AdvanceState
<1>2. /\ Within(m.lat, -100000, 100000) /\ Within(m.lon, -1000000, 1000000)
      /\ m.heading \in Int /\ m.speed \in Int /\ m.alt \in Int
  BY DriveAssumption, SMT
<1> HIDE DEF t
<1>3. Within(t.battery, 500, 10000)
  <2>1. Within(s.battery, 500, 10000)
    BY SMT DEF OnRoute
  <2> QED  BY <1>1, <2>1, Drain, SMT
<1>4. Within(t.speed, 1000, 9000) /\ Within(t.alt, 180, 300)
  BY <1>1, <1>2, SMT DEF Clamp, Within, OnRoute
<1>5. Within(t.heading, 0, 3599)
  BY <1>1, <1>2, SMT DEF Within, OnRoute
<1>6. /\ Within(t.lat, -900000000 - 100000 * (n + 1), 900000000 + 100000 * (n + 1))
      /\ Within(t.lon, -1800000000 - 1000000 * (n + 1), 1800000000 + 1000000 * (n + 1))
  BY <1>1, <1>2, SMT DEF Within, OnRoute
<1>7. OnRoute(t, n + 1)
  BY <1>3, <1>4, <1>5, <1>6, SMT DEF OnRoute
<1> QED  BY <1>7, SMT DEF t

\* What is in a body is cut out of it again.
LEMMA InCut ==
  ASSUME NEW b \in Seq(Nat), NEW n \in Nat, NEW u, In(b, n, u)
  PROVE  SubSeq(b, n + 1, n + Len(u)) = u
<1> DEFINE lo == n + 1
           hi == n + Len(u)
           t == SubSeq(b, lo, hi)
<1>1. /\ u \in Seq(Nat) /\ Len(u) \in Nat /\ n + Len(u) <= Len(b) /\ Len(b) \in Nat
      /\ \A i \in 1..Len(u) : b[n + i] = u[i]
  BY DEF In
<1>2. lo \in Int /\ hi \in Int /\ \A i \in lo..hi : b[i] \in Nat
  BY <1>1, SMT
<1> HIDE DEF lo, hi
<1>3. /\ t \in Seq(Nat)
      /\ Len(t) = IF lo <= hi THEN hi - lo + 1 ELSE 0
      /\ \A i \in 1..(hi - lo + 1) : t[i] = b[lo + i - 1]
  BY <1>2, SubSeqProperties
<1> HIDE DEF t
<1>4. Len(t) = Len(u) /\ \A i \in 1..Len(u) : t[i] = u[i]
  BY <1>1, <1>3, SMT DEF lo, hi
<1>5. t = u
  BY <1>1, <1>3, <1>4, SeqEqual
<1> QED  BY <1>5 DEF t, lo, hi

\* An additional item of one byte.
ItemBytes(p, id, v) == Block(p, 3) /\ p[1] = id /\ p[2] = 1 /\ p[3] = v

\* What buildLocationBody appends for battery and signal.
LEMMA OneByteItem ==
  ASSUME NEW id \in Nat, NEW v \in Nat
  PROVE  ItemBytes(TLV([id |-> id, val |-> <<v>>]), id, v)
<1> DEFINE head == <<id, 1>>
           val == <<v>>
           t == head \o val
<1>1. TLV([id |-> id, val |-> val]) = t
  <2>1. /\ [id |-> id, val |-> val].id = id /\ [id |-> id, val |-> val].val = val
        /\ Len(val) = 1
    BY SMT
  <2> HIDE DEF val
  <2> QED  BY <2>1, Zenon DEF TLV
<1>2. /\ head \in Seq(Nat) /\ Len(head) = 2 /\ head[1] = id /\ head[2] = 1
      /\ val \in Seq(Nat) /\ Len(val) = 1 /\ val[1] = v
  BY SMT
<1> HIDE DEF head, val
<1>3. /\ t \in Seq(Nat) /\ Len(t) = Len(head) + Len(val)
      /\ \A i \in 1..(Len(head) + Len(val)) :
           t[i] = IF i <= Len(head) THEN head[i] ELSE val[i - Len(head)]
  BY <1>2, ConcatProperties
<1> HIDE DEF t
<1>4. ItemBytes(t, id, v)
  BY <1>2, <1>3, SMT DEF Block, ItemBytes
<1> QED  BY <1>1, <1>4 DEF val

\* The digits of the time are six bytes.
LEMMA ClockBytes ==
  ASSUME NEW clock \in Clocks
  PROVE  Block(BcdTimestamp(clock), 6)
<1>1. clock \in Seq(0..99) /\ Len(clock) = 6
  BY TelemetryAssumption
<1>2. \A i \in 1..6 : clock[i] \in 0..99
  BY <1>1, ElementOfSeq, Zenon
<1>3. ASSUME NEW c \in 0..99
      PROVE  16 * (c \div 10) + (c % 10) \in Nat
  BY SMT
<1>4. \A i \in 1..6 : 16 * (clock[i] \div 10) + (clock[i] % 10) \in Nat
  BY <1>2, <1>3, Zenon
<1> DEFINE t == BcdTimestamp(clock)
<1>5. t \in Seq(Nat) /\ Len(t) = 6
  BY <1>4, SMT DEF BcdTimestamp
<1> HIDE DEF t
<1>6. Block(t, 6)
  BY <1>5, SMT DEF Block
<1> QED  BY <1>6 DEF t

\* The trailer behind the 28 bytes every location has.
LEMMA TrailerAt ==
  ASSUME NEW b, Block(b, 34), NEW p, NEW q, In(b, 28, p), In(b, 31, q),
         NEW x \in 5..100, NEW y \in 5..28, ItemBytes(p, 235, x), ItemBytes(q, 48, y)
  PROVE  Trailer(SubSeq(b, 29, Len(b)), x, y)
<1> DEFINE e == SubSeq(b, 1 + 28, Len(b))
<1>1. b \in Seq(Nat) /\ Len(b) = 34 /\ 28 \in Nat /\ 28 <= Len(b) /\ 1 + 28 = 29
  BY SMT DEF Block
<1>2. /\ e \in Seq(Nat) /\ Len(e) = Len(b) - 28
      /\ \A i \in 1..(Len(b) - 28) : e[i] = b[28 + i]
  BY <1>1, Rest, ZenonT(60)
<1> HIDE DEF e
<1>3. /\ Len(p) = 3 /\ \A i \in 1..Len(p) : b[28 + i] = p[i]
      /\ Len(q) = 3 /\ \A i \in 1..Len(q) : b[31 + i] = q[i]
  BY Zenon DEF In, ItemBytes, Block
<1>4. /\ b[29] = p[1] /\ b[30] = p[2] /\ b[31] = p[3]
      /\ b[32] = q[1] /\ b[33] = q[2] /\ b[34] = q[3]
  BY <1>3, SMT
<1>5. /\ e[1] = b[29] /\ e[2] = b[30] /\ e[3] = b[31]
      /\ e[4] = b[32] /\ e[5] = b[33] /\ e[6] = b[34] /\ Len(e) = 6
  BY <1>1, <1>2, SMT
<1>6. x \in Nat /\ y \in Nat /\ x > 3 /\ y > 0
  BY SMT
<1>7. Trailer(e, x, y)
  <2>1. /\ p[1] = 235 /\ p[2] = 1 /\ p[3] = x
        /\ q[1] = 48 /\ q[2] = 1 /\ q[3] = y
    BY SMT DEF ItemBytes
  <2>2. /\ e[1] = 235 /\ e[2] = 1 /\ e[3] = x
        /\ e[4] = 48 /\ e[5] = 1 /\ e[6] = y
    BY <1>4, <1>5, <2>1, Zenon
  <2> QED  BY <1>2, <1>5, <1>6, <2>2, Zenon DEF Trailer
<1> QED  BY <1>1, <1>7, Zenon DEF e

\* What the decoder says of a report of p901.
Told(loc, s, clock, csq) ==
  /\ loc.alarm = 0 /\ loc.fixed /\ loc.acc
  /\ Near(loc.lat, s.lat) /\ Near(loc.lon, s.lon)
  /\ loc.speed = s.speed \div 10 /\ loc.direction = s.heading \div 10
  /\ loc.timestamp = ParseBCDTimestamp(BcdTimestamp(clock))
  /\ \E x \in 5..100 : /\ x = s.battery \div 100
                       /\ loc.extras = Under(Under(<<>>, 48, <<csq>>), 235, <<x>>)

\* DecodeLocation undoes buildLocationBody.
LEMMA LocationRoundTrip ==
  ASSUME NEW s, NEW n \in Nat, n <= MaxSteps, OnRoute(s, n),
         NEW clock \in Clocks, NEW csq \in Signals,
         NEW b, b = BuildLocationBody(s, clock, csq)
  PROVE  Decodable(b) /\ Told(DecodeLocation(b), s, clock, csq)
<1> DEFINE rawLat == (IF s.lat < 0 THEN -s.lat ELSE s.lat) \div 10
           rawLon == (IF s.lon < 0 THEN -s.lon ELSE s.lon) \div 10
           south == s.lat < 0
           west == s.lon < 0
           status == 2^StatusLocated + 2^StatusACCOn
                       + (IF south THEN 2^StatusLatSouth ELSE 0)
                       + (IF west THEN 2^StatusLonWest ELSE 0)
           x == Clamp(s.battery \div 100, 0, 100)
           p8 == BcdTimestamp(clock)
           p9 == TLV([id |-> 235, val |-> <<x>>])
           p10 == TLV([id |-> 48, val |-> <<csq>>])
<1>1. b = U32(0) \o U32(status) \o U32(rawLat) \o U32(rawLon) \o U16(s.alt)
            \o U16(s.speed \div 10) \o U16(s.heading \div 10) \o p8 \o p9 \o p10
  BY Zenon DEF BuildLocationBody
<1>2. OnMap(s.lat) /\ OnMap(s.lon)
  BY RouteOnMap
<1>3. /\ Fits32(rawLat) /\ Near(IF south THEN -rawLat ELSE rawLat, s.lat)
      /\ Fits32(rawLon) /\ Near(IF west THEN -rawLon ELSE rawLon, s.lon)
  BY <1>2, Angle, Zenon
<1>4. /\ Fits32(status)
      /\ HasBit(status, StatusLocated) /\ HasBit(status, StatusACCOn)
      /\ HasBit(status, StatusLatSouth) <=> south
      /\ HasBit(status, StatusLonWest) <=> west
  BY StatusBits, Zenon
<1>5. Fits32(0)
  BY SMT DEF Fits32
<1>6. /\ Fits16(s.alt) /\ Fits16(s.speed \div 10) /\ Fits16(s.heading \div 10)
  BY SMT DEF OnRoute, Within, Fits16
<1>7. x \in 5..100 /\ x \in Nat /\ x = s.battery \div 100
  BY SMT DEF OnRoute, Within, Clamp
<1>8. csq \in 5..28 /\ csq \in Nat
  BY TelemetryAssumption, SMT
<1>9. ItemBytes(p9, 235, x) /\ ItemBytes(p10, 48, csq)
  <2>1. 235 \in Nat /\ 48 \in Nat
    BY SMT
  <2> HIDE DEF x
  <2> QED  BY <1>7, <1>8, <2>1, OneByteItem, Zenon
<1>10. Block(p8, 6) /\ Block(p9, 3) /\ Block(p10, 3)
  BY <1>9, ClockBytes, Zenon DEF ItemBytes
<1> HIDE DEF rawLat, rawLon, south, west, status, x, p8, p9, p10
<1> DEFINE p1 == U32(0)
           p2 == U32(status)
           p3 == U32(rawLat)
           p4 == U32(rawLon)
           p5 == U16(s.alt)
           p6 == U16(s.speed \div 10)
           p7 == U16(s.heading \div 10)
<1>11. Blocks(p1, p2, p3, p4, p5, p6, p7, p8, p9, p10)
  <2>1. 4 \in Nat /\ 2 \in Nat
    BY SMT
  <2>2. Block(p1, 4) /\ Block(p2, 4) /\ Block(p3, 4) /\ Block(p4, 4)
    BY <1>3, <1>4, <1>5, <2>1, Bytes4, Zenon DEF Block
  <2>3. ASSUME NEW v, Fits16(v) PROVE Block(U16(v), 2)
    <3>1. v \in Nat
      BY <2>3, Zenon DEF Fits16
    <3>2. U16(v) \in Seq(Nat) /\ Len(U16(v)) = 2
      BY <3>1, Bytes2
    <3> QED  BY <2>1, <3>2, Zenon DEF Block
  <2>4. Block(p5, 2) /\ Block(p6, 2) /\ Block(p7, 2)
    BY <1>6, <2>3, Zenon
  <2> QED  BY <1>10, <2>2, <2>4, Zenon DEF Blocks
<1>12. /\ Block(b, 34)
       /\ In(b, 0, p1) /\ In(b, 4, p2) /\ In(b, 8, p3) /\ In(b, 12, p4)
       /\ In(b, 16, p5) /\ In(b, 18, p6) /\ In(b, 20, p7)
       /\ In(b, 22, p8) /\ In(b, 28, p9) /\ In(b, 31, p10)
  <2>1. b = p1 \o p2 \o p3 \o p4 \o p5 \o p6 \o p7 \o p8 \o p9 \o p10
    BY <1>1, Zenon
  <2> HIDE DEF p1, p2, p3, p4, p5, p6, p7
  <2>2. LaidOut(b, p1, p2, p3, p4, p5, p6, p7, p8, p9, p10)
    BY <1>11, <2>1, Layout, Zenon
  <2> QED  BY <2>2, Zenon DEF LaidOut
<1>13. b \in Seq(Nat) /\ Len(b) = 34
  BY <1>12 DEF Block
<1>14. /\ 0 \in Nat /\ 4 \in Nat /\ 8 \in Nat /\ 12 \in Nat /\ 18 \in Nat /\ 20 \in Nat
       /\ 0 + 1 = 1 /\ 4 + 1 = 5 /\ 8 + 1 = 9 /\ 12 + 1 = 13
       /\ 18 + 1 = 19 /\ 20 + 1 = 21
  BY SMT
<1>15. /\ U32At(b, 1) = 0 /\ U32At(b, 5) = status
       /\ U32At(b, 9) = rawLat /\ U32At(b, 13) = rawLon
  <2>1. U32At(b, 0 + 1) = 0
    BY <1>5, <1>12, <1>14, Read32, Zenon
  <2>2. U32At(b, 4 + 1) = status
    BY <1>4, <1>12, <1>14, Read32, Zenon
  <2>3. U32At(b, 8 + 1) = rawLat
    BY <1>3, <1>12, <1>14, Read32, Zenon
  <2>4. U32At(b, 12 + 1) = rawLon
    BY <1>3, <1>12, <1>14, Read32, Zenon
  <2> QED  BY <1>14, <2>1, <2>2, <2>3, <2>4, Zenon
<1>16. U16At(b, 19) = s.speed \div 10 /\ U16At(b, 21) = s.heading \div 10
  <2>1. U16At(b, 18 + 1) = s.speed \div 10
    BY <1>6, <1>12, <1>14, Read16, Zenon
  <2>2. U16At(b, 20 + 1) = s.heading \div 10
    BY <1>6, <1>12, <1>14, Read16, Zenon
  <2> QED  BY <1>14, <2>1, <2>2, Zenon
<1>17. SubSeq(b, 23, 28) = p8
  <2>1. 22 \in Nat /\ 22 + 1 = 23 /\ 22 + 6 = 28
    BY SMT
  <2>2. Len(p8) = 6
    BY <1>10, Zenon DEF Block
  <2>3. SubSeq(b, 22 + 1, 22 + Len(p8)) = p8
    BY <1>12, <1>13, <2>1, InCut, Zenon
  <2> QED  BY <2>1, <2>2, <2>3, Zenon
<1>18. Extras(SubSeq(b, 29, Len(b))) = Under(Under(<<>>, 48, <<csq>>), 235, <<x>>)
  <2> DEFINE e == SubSeq(b, 29, Len(b))
  <2>1. Trailer(e, x, csq)
    BY <1>7, <1>8, <1>9, <1>12, TrailerAt, Zenon
  <2> HIDE DEF e
  <2>2. Extras(e) = Under(Under(<<>>, e[4], <<csq>>), e[1], <<x>>)
    BY <2>1, TwoItems, Zenon
  <2>3. e[1] = 235 /\ e[4] = 48
    BY <2>1, Zenon DEF Trailer
  <2> QED  BY <2>2, <2>3, Zenon DEF e
<1> DEFINE loc == DecodeLocation(b)
<1>19. /\ loc.alarm = U32At(b, 1)
       /\ loc.lat = Signed(U32At(b, 9), U32At(b, 5), StatusLatSouth)
       /\ loc.lon = Signed(U32At(b, 13), U32At(b, 5), StatusLonWest)
       /\ loc.speed = U16At(b, 19) /\ loc.direction = U16At(b, 21)
       /\ loc.timestamp = ParseBCDTimestamp(SubSeq(b, 23, 28))
       /\ loc.fixed = HasBit(U32At(b, 5), StatusLocated)
       /\ loc.acc = HasBit(U32At(b, 5), StatusACCOn)
       /\ loc.extras = Extras(SubSeq(b, 29, Len(b)))
  BY SMT DEF DecodeLocation
<1> HIDE DEF loc
<1>20. /\ loc.lat = (IF south THEN -rawLat ELSE rawLat)
       /\ loc.lon = (IF west THEN -rawLon ELSE rawLon)
  BY <1>4, <1>15, <1>19, Zenon DEF Signed
<1>21. loc.fixed /\ loc.acc
  BY <1>4, <1>15, <1>19, Zenon
<1>22. Told(loc, s, clock, csq)
  <2> HIDE DEF x
  <2> QED
    BY <1>3, <1>7, <1>15, <1>16, <1>17, <1>18, <1>19, <1>20, <1>21, ZenonT(60)
    DEF Told, p8
<1>23. Decodable(b)
  BY <1>13, SMT DEF Decodable
<1> QED  BY <1>22, <1>23 DEF loc

\* The drive stays on its route, and a report of it is handled as it was
\* built: the state the report was built from is the state still, so the
\* entry can be compared with it.
Reporting ==
  /\ steps \in Nat /\ steps <= MaxSteps /\ OnRoute(st, steps)
  /\ phone \in {"", "known"}
  /\ Silent => ~done
  /\ msg.kind = "p901" =>
       /\ msg.clock \in Clocks /\ msg.csq \in Signals
       /\ msg.body = BuildLocationBody(st, msg.clock, msg.csq)
       /\ done => \E ph \in {"frame", "known"} :
                    entries = <<PublishLocation(ph, DecodeLocation(msg.body))>>

\* A message of another kind.
LEMMA SayOther ==
  ASSUME Reporting, Silent, NEW m, m.kind # "p901", m # NoMessage, Say(m)
  PROVE  Reporting'
<1>1. /\ msg' = m /\ st' = st /\ steps' = steps /\ phone' = phone
  BY Zenon DEF Say
<1> QED  BY <1>1, Zenon DEF Reporting, Silent

\* Init establishes it.
LEMMA ReportingInit == Init => Reporting
<1> SUFFICES ASSUME Init PROVE Reporting
  OBVIOUS
<1>1. steps \in Nat /\ steps <= MaxSteps /\ steps = 0
  <2>1. steps = 0 /\ MaxSteps \in Nat
    BY TelemetryAssumption, Zenon DEF Init
  <2> QED  BY <2>1, SMT
<1>2. OnRoute(st, 0)
  <2>1. st \in Starts
    BY Zenon DEF Init
  <2>2. -900000000 - 100000 * 0 = -900000000 /\ 900000000 + 100000 * 0 = 900000000
        /\ -1800000000 - 1000000 * 0 = -1800000000 /\ 1800000000 + 1000000 * 0 = 1800000000
    BY SMT
  <2> QED  BY <2>1, <2>2, DriveAssumption, SMT DEF OnRoute, Within
<1>3. phone \in {"", "known"} /\ ~done
  BY Zenon DEF Init
<1>4. msg.kind # "p901"
  <2>1. NoMessage.kind # "p901"
    BY SMT DEF NoMessage
  <2> QED  BY <2>1, Zenon DEF Init
<1> QED  BY <1>1, <1>2, <1>3, <1>4, Zenon DEF Reporting

\* Every step keeps it.
LEMMA ReportingStep ==
  ASSUME Reporting, [Next]_vars
  PROVE  Reporting'
<1>0. NoMessage.kind # "p901" /\ NoMessage.kind = "none"
  BY SMT DEF NoMessage
<1>1. ASSUME UNCHANGED vars PROVE Reporting'
  BY <1>1, Zenon DEF vars, Reporting, Silent
<1>2. ASSUME Silent, NEW m \in Moves, Drive(m) PROVE Reporting'
  <2>1. /\ steps < MaxSteps /\ st' = AdvanceState(st, m) /\ steps' = steps + 1
        /\ phone' = phone /\ msg' = msg /\ done' = done
    BY <1>2, Zenon DEF Drive
  <2>2. steps' \in Nat /\ steps' <= MaxSteps
    <3>1. steps \in Nat /\ MaxSteps \in Nat /\ steps < MaxSteps /\ steps' = steps + 1
      BY <2>1, TelemetryAssumption, Zenon DEF Reporting
    <3> QED  BY <3>1, SMT
  <2>3. OnRoute(st', steps')
    BY <1>2, <2>1, AdvanceOnRoute, Zenon DEF Reporting
  <2>4. msg.kind # "p901"
    BY <1>0, <1>2, Zenon DEF Silent
  <2> QED  BY <2>1, <2>2, <2>3, <2>4, Zenon DEF Reporting, Silent
<1>3. ASSUME Silent, NEW clock \in Clocks, NEW csq \in Signals, SendLocation(clock, csq)
      PROVE  Reporting'
  <2> DEFINE m == [kind |-> "p901", clock |-> clock, csq |-> csq,
                   body |-> BuildLocationBody(st, clock, csq)]
  <2>1. /\ msg' = m /\ st' = st /\ steps' = steps /\ phone' = phone /\ done' = done
    BY <1>3, Zenon DEF SendLocation, Say
  <2>2. m.clock = clock /\ m.csq = csq /\ m.body = BuildLocationBody(st, clock, csq)
    BY SMT
  <2>3. m.kind = "p901"
    BY SMT
  <2> HIDE DEF m
  <2>4. m # NoMessage
    BY <1>0, <2>3, Zenon
  <2>5. ~done
    BY <1>3, Zenon DEF Reporting
  <2> QED  BY <2>1, <2>2, <2>4, <2>5, Zenon DEF Reporting, Silent
<1>4. ASSUME Silent, NEW h, NEW items, SendReport(h, items)
      PROVE  Reporting'
  <2>1. PICK cut, body :
          Say([kind |-> "report", head |-> h, items |-> items, cut |-> cut, body |-> body])
    BY <1>4, Zenon DEF SendReport
  <2> DEFINE m == [kind |-> "report", head |-> h, items |-> items, cut |-> cut,
                   body |-> body]
  <2>2. m.kind = "report" /\ m.kind # "p901" /\ m.kind # "none"
    BY SMT
  <2> HIDE DEF m
  <2>3. m # NoMessage /\ Say(m)
    BY <1>0, <2>1, <2>2, Zenon DEF m
  <2> QED  BY <1>4, <2>2, <2>3, SayOther, Zenon
<1>5. ASSUME Silent, NEW points, NEW count, SendBatch(points, count)
      PROVE  Reporting'
  <2>1. PICK cut, body :
          Say([kind |-> "batch", points |-> points, count |-> count, cut |-> cut,
               body |-> body])
    BY <1>5, Zenon DEF SendBatch
  <2> DEFINE m == [kind |-> "batch", points |-> points, count |-> count, cut |-> cut,
                   body |-> body]
  <2>2. m.kind = "batch" /\ m.kind # "p901" /\ m.kind # "none"
    BY SMT
  <2> HIDE DEF m
  <2>3. m # NoMessage /\ Say(m)
    BY <1>0, <2>1, <2>2, Zenon DEF m
  <2> QED  BY <1>5, <2>2, <2>3, SayOther, Zenon
<1>6. ASSUME Silent, NEW r \in Registrations, SendRegistration(r)
      PROVE  Reporting'
  <2> DEFINE m == [kind |-> "registration", reg |-> r, body |-> BuildRegBody(r)]
  <2>1. Say(m)
    BY <1>6, Zenon DEF SendRegistration
  <2>2. m.kind = "registration" /\ m.kind # "p901" /\ m.kind # "none"
    BY SMT
  <2> HIDE DEF m
  <2>3. m # NoMessage
    BY <1>0, <2>2, Zenon
  <2> QED  BY <1>6, <2>1, <2>2, <2>3, SayOther, Zenon
<1>7. ASSUME HandleLocation PROVE Reporting'
  <2>1. /\ msg.kind \in {"p901", "report"} /\ ~done
        /\ entries' = IF Decodable(msg.body)
                      THEN <<PublishLocation(IF phone = "" THEN "frame" ELSE phone,
                                             DecodeLocation(msg.body))>>
                      ELSE <<>>
        /\ st' = st /\ steps' = steps /\ phone' = phone /\ msg' = msg
    BY <1>7, Zenon DEF HandleLocation
  <2>2. ~Silent
    <3>1. msg.kind \in {"p901", "report"}
      BY <2>1, Zenon
    <3>2. \A k \in {"p901", "report"} : k # "none"
      BY SMT
    <3> QED  BY <1>0, <3>1, <3>2, Zenon DEF Silent
  <2>3. ASSUME msg.kind = "p901"
        PROVE  \E ph \in {"frame", "known"} :
                 entries' = <<PublishLocation(ph, DecodeLocation(msg.body))>>
    <3>1. Decodable(msg.body)
      BY <2>3, LocationRoundTrip, Zenon DEF Reporting
    <3>2. (IF phone = "" THEN "frame" ELSE phone) \in {"frame", "known"}
      BY Zenon DEF Reporting
    <3> QED  BY <2>1, <3>1, <3>2, Zenon
  <2> QED  BY <2>1, <2>2, <2>3, Zenon DEF Reporting, Silent
<1>8. ASSUME HandleBatchLocation PROVE Reporting'
  <2>1. /\ msg.kind = "batch"
        /\ st' = st /\ steps' = steps /\ phone' = phone /\ msg' = msg
    BY <1>8, Zenon DEF HandleBatchLocation
  <2>2. msg.kind # "p901" /\ msg.kind # "none"
    BY <2>1, SMT
  <2> QED  BY <1>0, <2>1, <2>2, Zenon DEF Reporting, Silent
<1>9. ASSUME HandleRegistration PROVE Reporting'
  <2>1. /\ msg.kind = "registration"
        /\ st' = st /\ steps' = steps /\ phone' = "known" /\ msg' = msg
    BY <1>9, Zenon DEF HandleRegistration
  <2>2. msg.kind # "p901" /\ msg.kind # "none"
    BY <2>1, SMT
  <2> QED  BY <1>0, <2>1, <2>2, Zenon DEF Reporting, Silent
<1>10. ASSUME NEW g \in DOMAIN entries, XAdd(g) PROVE Reporting'
  BY <1>10, Zenon DEF XAdd, Reporting, Silent
<1> QED
  BY <1>1, <1>2, <1>3, <1>4, <1>5, <1>6, <1>7, <1>8, <1>9, <1>10, Zenon DEF Next, Terminal

\* An entry shows a location as decoded.
Shows(e, ph, loc) ==
  /\ e.phone = ph /\ e.gps_fixed /\ e.acc_on = loc.acc
  /\ e.active_alarms = ActiveAlarmNames(loc.alarm)
  /\ e.position[1] = loc.lat /\ e.position[2] = loc.lon
  /\ e.direction = loc.direction /\ e.speed = loc.speed
  /\ e.timestamp = loc.timestamp
  /\ e.battery_level = ExtractBattery(loc.extras)
  /\ e.signal_strength = ExtractSignal(loc.extras)

\* So does the entry of a location with a fix.
LEMMA Published ==
  ASSUME NEW ph, NEW loc, loc.fixed
  PROVE  Shows(PublishLocation(ph, loc), ph, loc)
<1> DEFINE e == PublishLocation(ph, loc)
<1>1. /\ e.phone = ph /\ e.gps_fixed = loc.fixed /\ e.acc_on = loc.acc
      /\ e.active_alarms = ActiveAlarmNames(loc.alarm)
      /\ e.position = IF loc.fixed THEN <<loc.lat, loc.lon>> ELSE <<>>
      /\ e.direction = loc.direction /\ e.speed = loc.speed
      /\ e.timestamp = loc.timestamp
      /\ e.battery_level = ExtractBattery(loc.extras)
      /\ e.signal_strength = ExtractSignal(loc.extras)
  BY DEF PublishLocation
<1> HIDE DEF e
<1>2. e.position = <<loc.lat, loc.lon>>
  BY <1>1, Zenon
<1>3. <<loc.lat, loc.lon>>[1] = loc.lat /\ <<loc.lat, loc.lon>>[2] = loc.lon
  BY SMT
<1>4. Shows(e, ph, loc)
  BY <1>1, <1>2, <1>3, Zenon DEF Shows
<1> QED  BY <1>4 DEF e

\* PublishLocation after handleLocation: after any drive, at any time of day
\* and with any signal, the entry shows what the simulator was at: the
\* position within a micro-degree and in the right hemisphere, the time digit
\* by digit, and level and signal from the items it appends.
THEOREM LocationCorrect == Spec => []LocationFaithful
<1>1. Reporting /\ [Next]_vars => Reporting'
  BY ReportingStep
<1>2. Reporting => LocationFaithful
  <2> SUFFICES ASSUME Reporting, Handled("p901")
               PROVE  LocationFaithful
    BY Zenon DEF LocationFaithful
  <2> DEFINE loc == DecodeLocation(msg.body)
  <2>1. /\ steps \in Nat /\ steps <= MaxSteps /\ OnRoute(st, steps)
        /\ msg.clock \in Clocks /\ msg.csq \in Signals
        /\ msg.body = BuildLocationBody(st, msg.clock, msg.csq)
    BY Zenon DEF Reporting, Handled
  <2>2. PICK ph \in {"frame", "known"} : entries = <<PublishLocation(ph, loc)>>
    BY Zenon DEF Reporting, Handled
  <2>3. Told(loc, st, msg.clock, msg.csq)
    BY <2>1, LocationRoundTrip, Zenon
  <2> HIDE DEF loc
  <2> DEFINE e == PublishLocation(ph, loc)
  <2>4. /\ e.phone = ph /\ e.gps_fixed /\ e.acc_on = loc.acc
        /\ e.active_alarms = ActiveAlarmNames(loc.alarm)
        /\ e.position[1] = loc.lat /\ e.position[2] = loc.lon
        /\ e.direction = loc.direction /\ e.speed = loc.speed
        /\ e.timestamp = loc.timestamp
        /\ e.battery_level = ExtractBattery(loc.extras)
        /\ e.signal_strength = ExtractSignal(loc.extras)
    <3>1. loc.fixed
      BY <2>3, Zenon DEF Told
    <3>2. Shows(e, ph, loc)
      BY <3>1, Published, Zenon
    <3> HIDE DEF e
    <3> QED  BY <3>2, Zenon DEF Shows
  <2> HIDE DEF e
  <2>5. Len(entries) = 1 /\ entries[1] = e
    BY <2>2, SMT DEF e
  <2>6. e.phone # ""
    <3>1. \A p \in {"frame", "known"} : p # ""
      BY Zenon
    <3> QED  BY <2>2, <2>4, <3>1, Zenon
  <2>7. e.gps_fixed /\ e.acc_on /\ e.active_alarms = {}
    BY <2>3, <2>4, NoAlarms, Zenon DEF Told
  <2>8. Near(e.position[1], st.lat) /\ Near(e.position[2], st.lon)
    BY <2>3, <2>4, Zenon DEF Told
  <2>9. /\ e.direction \in 0..359 /\ st.heading - 10 * e.direction \in 0..9
        /\ st.speed - 10 * e.speed \in 0..9
    <3>1. e.direction = st.heading \div 10 /\ e.speed = st.speed \div 10
      BY <2>3, <2>4, Zenon DEF Told
    <3> QED  BY <2>1, <3>1, SMT DEF OnRoute, Within
  <2>10. \A i \in 1..6 :
           10 * e.timestamp[2 * i - 1] + e.timestamp[2 * i] = msg.clock[i]
    <3>1. msg.clock \in Seq(0..99) /\ Len(msg.clock) = 6
      BY <2>1, TelemetryAssumption, Zenon
    <3>2. e.timestamp = ParseBCDTimestamp(BcdTimestamp(msg.clock))
      BY <2>3, <2>4, Zenon DEF Told
    <3> QED  BY <3>1, <3>2, BcdRoundTrip, Zenon
  <2>11. /\ e.battery_level \in 5..100
         /\ st.battery - 100 * e.battery_level \in 0..99
         /\ e.signal_strength \in 16..90
         /\ 100 * msg.csq - 31 * e.signal_strength \in 0..30
    <3>1. PICK x \in 5..100 :
            /\ x = st.battery \div 100
            /\ loc.extras = Under(Under(<<>>, 48, <<msg.csq>>), 235, <<x>>)
      BY <2>3, Zenon DEF Told
    <3>2. msg.csq \in 5..28
      BY <2>1, TelemetryAssumption, Zenon
    <3>3. /\ ExtractBattery(loc.extras) = x
          /\ ExtractSignal(loc.extras) = Percent(msg.csq)
      <4>1. loc.extras = Under(Under(<<>>, 48, <<msg.csq>>), 235, <<x>>)
        BY <3>1, SMT
      <4> QED  BY <3>2, <4>1, Levels, Zenon
    <3>4. e.battery_level = x /\ e.signal_strength = Percent(msg.csq)
      BY <2>4, <3>3, Zenon
    <3>5. st.battery - 100 * e.battery_level \in 0..99
      <4>1. st.battery \in Int
        BY <2>1, SMT DEF OnRoute, Within
      <4>2. e.battery_level = st.battery \div 100
        BY <3>1, <3>4, SMT
      <4> QED  BY <4>1, <4>2, SMT
    <3>6. /\ e.signal_strength \in 16..90
          /\ 100 * msg.csq - 31 * e.signal_strength \in 0..30
      BY <3>2, <3>4, SMT DEF Percent
    <3> QED  BY <3>4, <3>5, <3>6, Zenon
  <2> QED  BY <2>5, <2>6, <2>7, <2>8, <2>9, <2>10, <2>11, ZenonT(60) DEF LocationFaithful, Near
<1> QED  BY <1>1, <1>2, ReportingInit, PTL DEF Spec


-----------------------------------------------------------------------------
(* Reports of other terminals.                                             *)

\* Additional items by id.
ItemMap(x) == DOMAIN x \subseteq Nat /\ \A id \in DOMAIN x : x[id] \in Seq(Nat)

\* Whatever the bytes, the walk gives such items.
LEMMA ExtrasTyped ==
  ASSUME NEW e \in Seq(Nat)
  PROVE  ItemMap(Extras(e))
<1> DEFINE n == Len(e) + 1
           w == Walk(e)
           S == {i \in 1..n : ItemMap(w[i])}
<1>0. n \in Nat /\ 1 \in 1..n
  BY SMT
<1>1. Extras(e) = w[1] /\ \A i \in 1..n : w[i] = WalkStep(e, w, i)
  BY WalkAt, Zenon
<1>2. ASSUME NEW i \in 1..n, \A k \in 1..n : k > i => k \in S
      PROVE  i \in S
  <2>1. w[i] = WalkStep(e, w, i)
    BY <1>1, Zenon
  <2> HIDE DEF w
  <2>2. CASE Stops(e, i)
    <3>1. ItemMap(<<>>)
      BY SMT DEF ItemMap
    <3> QED  BY <2>1, <2>2, <3>1, Zenon DEF WalkStep
  <2>3. CASE ~Stops(e, i)
    <3> DEFINE k == i + 2 + e[i + 1]
               val == SubSeq(e, i + 2, i + 1 + e[i + 1])
    <3>1. k \in 1..n /\ k > i /\ e[i] \in Nat
      BY <2>3, SMTT(60) DEF Stops, TLVFits
    <3>2. val \in Seq(Nat)
      <4>1. i + 1 \in 1..Len(e) /\ e[i + 1] \in Nat /\ i + 1 + e[i + 1] <= Len(e)
        BY <2>3, SMT DEF Stops, TLVFits
      <4> DEFINE l == e[i + 1]
      <4>2. l \in Nat /\ i + 1 + l <= Len(e) /\ val = SubSeq(e, i + 2, i + 1 + l)
        BY <4>1
      <4> HIDE DEF l, val
      <4> QED  BY <4>2, SMT
    <3>3. ItemMap(w[k])
      BY <1>2, <3>1, Zenon
    <3>4. w[i] = Under(w[k], e[i], val)
      BY <2>1, <2>3, Zenon DEF WalkStep
    <3> HIDE DEF k, val
    <3>5. ItemMap(Under(w[k], e[i], val))
      <4> DEFINE x == w[k]
                 id == e[i]
      <4>1. ItemMap(x) /\ id \in Nat
        BY <3>1, <3>3, Zenon
      <4> HIDE DEF x, id
      <4>2. ItemMap(Under(x, id, val))
        BY <3>2, <4>1, Zenon DEF ItemMap, Under
      <4> QED  BY <4>2 DEF x, id
    <3> QED  BY <3>4, <3>5, Zenon
  <2> QED  BY <2>2, <2>3
<1> HIDE DEF w, n
<1>3. \A i \in 1..n : i \in S
  <2> HIDE DEF S
  <2> QED  BY <1>0, <1>2, DownInduction, Zenon
<1> QED  BY <1>0, <1>1, <1>3, Zenon

\* No item gives a level.
NoLevel(x) ==
  /\ \A id \in {235, 99, 100} \cap DOMAIN x : x[id] = <<>> \/ x[id][1] > 100
  /\ 37 \in DOMAIN x => Len(x[37]) < 2

\* An item of at least n bytes has them.
LEMMA ItemByte ==
  ASSUME NEW x, ItemMap(x), NEW id, NEW n \in Nat, HasItem(x, id, n), n >= 1
  PROVE  \A i \in 1..n : x[id][i] \in Nat
<1>1. x[id] \in Seq(Nat) /\ Len(x[id]) >= n
  BY Zenon DEF ItemMap, HasItem
<1> DEFINE s == x[id]
<1> HIDE DEF s
<1>2. \A i \in 1..n : s[i] \in Nat
  BY <1>1, SMT DEF s
<1> QED  BY <1>2 DEF s

\* extractBattery gives a percentage, from whatever items, and nothing only
\* if none of them can give one.
LEMMA BatteryLevel ==
  ASSUME NEW x, ItemMap(x)
  PROVE  /\ ExtractBattery(x) \in Int
         /\ -1 <= ExtractBattery(x) /\ ExtractBattery(x) <= 100
         /\ (ExtractBattery(x) = -1) <=> NoLevel(x)
<1> DEFINE ids == <<235, 99, 100>>
           usable == {i \in 1..3 : HasItem(x, ids[i], 1) /\ x[ids[i]][1] <= 100}
           b == ExtractBattery(x)
<1>1. b = IF usable # {} THEN x[ids[Min(usable)]][1]
          ELSE IF HasItem(x, 37, 2) THEN VoltageLevel(U16At(x[37], 1))
          ELSE -1
  BY SMT DEF ExtractBattery
<1>2. ids[1] = 235 /\ ids[2] = 99 /\ ids[3] = 100 /\ 1..3 = {1, 2, 3}
  BY SMT
<1> HIDE DEF b
<1>3. usable = {} <=>
        \A id \in {235, 99, 100} \cap DOMAIN x : x[id] = <<>> \/ x[id][1] > 100
  <2> DEFINE ok(id) == HasItem(x, id, 1) /\ x[id][1] <= 100
             no(id) == id \in DOMAIN x => x[id] = <<>> \/ x[id][1] > 100
  <2>1. \A id : ok(id) <=> ~no(id)
    <3> SUFFICES ASSUME NEW id PROVE ok(id) <=> ~no(id)
      OBVIOUS
    <3>1. CASE id \in DOMAIN x
      <4> DEFINE s == x[id]
      <4>1. s \in Seq(Nat)
        BY <3>1, Zenon DEF ItemMap
      <4> HIDE DEF s
      <4>2. (Len(s) >= 1 /\ s[1] <= 100) <=> ~(s = <<>> \/ s[1] > 100)
        <5>1. CASE s = <<>>
          BY <5>1, SMT
        <5>2. CASE s # <<>>
          <6>1. Len(s) >= 1 /\ s[1] \in Nat
            BY <4>1, <5>2, SMT
          <6>2. s[1] <= 100 <=> ~(s[1] > 100)
            BY <6>1, SMT
          <6> QED  BY <5>2, <6>1, <6>2, Zenon
        <5> QED  BY <5>1, <5>2
      <4> QED  BY <3>1, <4>2, Zenon DEF HasItem, s
    <3>2. CASE id \notin DOMAIN x
      BY <3>2, Zenon DEF HasItem
    <3> QED  BY <3>1, <3>2
  <2>2. usable = {} <=> ~ok(235) /\ ~ok(99) /\ ~ok(100)
    <3>1. usable = {i \in 1..3 : ok(ids[i])}
      OBVIOUS
    <3> DEFINE i1 == ids[1]
               i2 == ids[2]
               i3 == ids[3]
    <3>2. usable = {} <=> ~ok(i1) /\ ~ok(i2) /\ ~ok(i3)
      <4>1. 1..3 = {1, 2, 3}
        BY <1>2
      <4> HIDE DEF usable, ids, ok
      <4> QED  BY <3>1, <4>1, Zenon
    <3>3. i1 = 235 /\ i2 = 99 /\ i3 = 100
      BY <1>2
    <3> HIDE DEF usable, ok, i1, i2, i3
    <3> QED  BY <3>2, <3>3, SMT
  <2>3. (\A id \in {235, 99, 100} \cap DOMAIN x : x[id] = <<>> \/ x[id][1] > 100)
          <=> no(235) /\ no(99) /\ no(100)
    BY SMT
  <2> HIDE DEF usable, ok, no
  <2> QED  BY <2>1, <2>2, <2>3, ZenonT(60)
<1>4. CASE usable # {}
  <2>1. PICK m \in usable : Min(usable) = m
    <3>1. usable \subseteq Nat
      BY SMT
    <3> HIDE DEF usable
    <3>2. PICK m \in usable : \A k \in usable : m <= k
      BY <1>4, <3>1, Least
    <3>3. Min(usable) = m
      BY <3>1, <3>2, MinIs
    <3> QED  BY <3>2, <3>3
  <2> DEFINE id == ids[m]
  <2>2. HasItem(x, id, 1) /\ x[id][1] <= 100
    <3> HIDE DEF ids
    <3> QED  BY <2>1, Zenon
  <2>3. b = x[id][1]
    <3> HIDE DEF ids, usable
    <3> QED  BY <1>1, <1>4, <2>1, Zenon
  <2> HIDE DEF id, usable, ids
  <2>4. x[id][1] \in Nat
    BY <2>2, ItemByte, SMT
  <2>5. b \in Int /\ -1 <= b /\ b <= 100 /\ b # -1
    BY <2>2, <2>3, <2>4, SMT
  <2> QED  BY <1>3, <1>4, <2>5 DEF NoLevel, b
<1>5. CASE usable = {} /\ HasItem(x, 37, 2)
  <2>1. b = VoltageLevel(U16At(x[37], 1))
    <3> HIDE DEF usable
    <3> QED  BY <1>1, <1>5, Zenon
  <2>2. x[37][1] \in Nat /\ x[37][2] \in Nat
    BY <1>5, ItemByte, SMT
  <2>3. U16At(x[37], 1) \in Nat
    BY <2>2, SMT DEF U16At
  <2>4. b \in Int /\ 0 <= b /\ b <= 100
    <3> DEFINE v == U16At(x[37], 1)
               q == ((v - 3400) * 100) \div 800
    <3>1. q \in Int
      <4> HIDE DEF v
      <4> QED  BY <2>3, SMT DEF v
    <3>2. b = Clamp(q, 0, 100)
      BY <2>1 DEF VoltageLevel
    <3> HIDE DEF q
    <3> QED  BY <3>1, <3>2, SMT DEF Clamp
  <2>5. ~NoLevel(x)
    <3>1. 37 \in DOMAIN x /\ Len(x[37]) >= 2 /\ x[37] \in Seq(Nat)
      BY <1>5, Zenon DEF HasItem, ItemMap
    <3>2. ~(Len(x[37]) < 2)
      BY <3>1, SMT
    <3> QED  BY <3>1, <3>2, Zenon DEF NoLevel
  <2>6. -1 <= b /\ b # -1
    BY <2>4, SMT
  <2> QED  BY <2>4, <2>5, <2>6, Zenon DEF b
<1>6. CASE usable = {} /\ ~HasItem(x, 37, 2)
  <2>1. b = -1
    <3> HIDE DEF usable
    <3> QED  BY <1>1, <1>6, Zenon
  <2>2. 37 \in DOMAIN x => Len(x[37]) < 2
    <3>1. 37 \in DOMAIN x => x[37] \in Seq(Nat) /\ ~(Len(x[37]) >= 2)
      BY <1>6, Zenon DEF HasItem, ItemMap
    <3> QED  BY <3>1, SMT
  <2>3. NoLevel(x)
    <3> HIDE DEF usable
    <3> QED  BY <1>3, <1>6, <2>2, Zenon DEF NoLevel
  <2>4. b \in Int /\ -1 <= b /\ b <= 100
    BY <2>1, SMT
  <2> QED  BY <2>1, <2>3, <2>4, Zenon DEF b
<1> HIDE DEF usable
<1> QED  BY <1>4, <1>5, <1>6, Zenon

\* So does extractSignal, for any CSQ.
LEMMA SignalLevel ==
  ASSUME NEW x, ItemMap(x)
  PROVE  /\ ExtractSignal(x) \in Int
         /\ -1 <= ExtractSignal(x) /\ ExtractSignal(x) <= 100
<1>1. CASE HasItem(x, 48, 1)
  <2> DEFINE y == x[48][1]
             m == Min({y, 31})
  <2>1. y \in Nat
    BY <1>1, ItemByte, SMT
  <2>2. m \in Nat /\ m <= 31
    <3> HIDE DEF y
    <3>1. CASE y <= 31
      <4>1. Min({y, 31}) = y
        BY <2>1, <3>1, MinIs, SMT
      <4> QED  BY <2>1, <3>1, <4>1, SMT
    <3>2. CASE ~(y <= 31)
      <4>1. Min({y, 31}) = 31
        BY <2>1, <3>2, MinIs, SMT
      <4> QED  BY <4>1, SMT
    <3> QED  BY <3>1, <3>2
  <2>3. ExtractSignal(x) = (m * 100) \div 31
    BY <1>1, Zenon DEF ExtractSignal
  <2> HIDE DEF m
  <2> QED  BY <2>2, <2>3, SMT
<1>2. CASE ~HasItem(x, 48, 1)
  <2>1. ExtractSignal(x) = -1
    BY <1>2, Zenon DEF ExtractSignal
  <2> QED  BY <2>1, SMT
<1> QED  BY <1>1, <1>2

\* The report and the batch that were cut.
FullReport(m) == FixedPart(m.head) \o TLVs(m.items)
FullBatch(m) == BatchBody(m.points, m.count)

\* What was published for a batch.
BatchEntries(found) ==
  [i \in DOMAIN found |-> PublishLocation(phone, DecodeLocation(found[i]))]

\* A message of another terminal is handled as it was cut.
Relayed ==
  msg.kind = "report" =>
    /\ msg.head \in Headers /\ msg.items \in Seq(Items)
    /\ msg.cut \in 27..Len(FullReport(msg))
    /\ msg.body = SubSeq(FullReport(msg), 1, msg.cut)
    /\ done => \E ph : entries = IF Decodable(msg.body)
                                 THEN <<PublishLocation(ph, DecodeLocation(msg.body))>>
                                 ELSE <<>>

Batched ==
  msg.kind = "batch" =>
    /\ msg.points \in Seq(Points) /\ msg.count \in 0..(MaxPoints + 1)
    /\ msg.cut \in 2..Len(FullBatch(msg))
    /\ msg.body = SubSeq(FullBatch(msg), 1, msg.cut)
    /\ done => entries = BatchEntries(Located(BatchPoints(msg.body)))

Relaying == (Silent => ~done) /\ Relayed /\ Batched

\* A bounded sequence is a sequence.
LEMMA Bounded ==
  ASSUME NEW T, NEW n \in Nat, NEW s \in BoundedSeq(T, n)
  PROVE  s \in Seq(T)
<1>1. PICK m \in 0..n : s \in [1..m -> T]
  BY DEF BoundedSeq, SeqOf
<1> QED  BY <1>1, SMT

\* A message of a third kind.
LEMMA SayNeither ==
  ASSUME NEW m, Say(m), m.kind # "report", m.kind # "batch", m # NoMessage
  PROVE  Relaying'
<1>1. msg' = m
  BY Zenon DEF Say
<1> QED  BY <1>1, Zenon DEF Relaying, Relayed, Batched, Silent

\* Init establishes it ...
LEMMA RelayingInit == Init => Relaying
<1> SUFFICES ASSUME Init PROVE Relaying
  OBVIOUS
<1>1. NoMessage.kind # "report" /\ NoMessage.kind # "batch"
  BY SMT DEF NoMessage
<1>2. msg = NoMessage /\ ~done
  BY Zenon DEF Init
<1> QED  BY <1>1, <1>2, Zenon DEF Relaying, Relayed, Batched

\* ... and every step keeps it.
LEMMA RelayingStep ==
  ASSUME Relaying, [Next]_vars
  PROVE  Relaying'
<1>0. /\ NoMessage.kind = "none" /\ "none" # "report" /\ "none" # "batch"
      /\ "report" # "batch" /\ "p901" # "report" /\ "p901" # "batch"
      /\ "registration" # "report" /\ "registration" # "batch"
      /\ "p901" # "none" /\ "registration" # "none"
  BY SMT DEF NoMessage
<1>1. ASSUME UNCHANGED vars PROVE Relaying'
  BY <1>1, Zenon DEF vars, Relaying, Relayed, Batched, Silent, BatchEntries
<1>2. ASSUME Silent, NEW m \in Moves, Drive(m) PROVE Relaying'
  <2>1. msg' = msg /\ done' = done
    BY <1>2, Zenon DEF Drive
  <2> QED  BY <1>0, <1>2, <2>1, Zenon DEF Relaying, Relayed, Batched, Silent
<1>3. ASSUME Silent, NEW clock, NEW csq, SendLocation(clock, csq) PROVE Relaying'
  <2> DEFINE m == [kind |-> "p901", clock |-> clock, csq |-> csq,
                   body |-> BuildLocationBody(st, clock, csq)]
  <2>1. Say(m)
    BY <1>3, Zenon DEF SendLocation
  <2>2. m.kind = "p901"
    BY SMT
  <2> HIDE DEF m
  <2> QED  BY <1>0, <2>1, <2>2, SayNeither, Zenon
<1>4. ASSUME Silent, NEW h \in Headers, NEW items \in BoundedSeq(Items, MaxItems),
             SendReport(h, items)
      PROVE  Relaying'
  <2> DEFINE full == FixedPart(h) \o TLVs(items)
  <2>1. PICK cut \in 27..Len(full) :
          Say([kind |-> "report", head |-> h, items |-> items, cut |-> cut,
               body |-> SubSeq(full, 1, cut)])
    BY <1>4, Zenon DEF SendReport
  <2> DEFINE m == [kind |-> "report", head |-> h, items |-> items, cut |-> cut,
                   body |-> SubSeq(full, 1, cut)]
  <2> HIDE DEF full
  <2>2. /\ m.kind = "report" /\ m.head = h /\ m.items = items /\ m.cut = cut
        /\ m.body = SubSeq(full, 1, cut)
    BY SMT
  <2>3. items \in Seq(Items)
    BY <1>4, Bounded, TelemetryAssumption, Zenon
  <2>4. msg' = m /\ done' = done
    BY <2>1, Zenon DEF Say
  <2> HIDE DEF m
  <2>5. FullReport(m) = full
    BY <2>2, Zenon DEF FullReport, full
  <2>6. ~done
    BY <1>4, Zenon DEF Relaying
  <2>7. Relayed'
    BY <1>4, <2>1, <2>2, <2>3, <2>4, <2>5, <2>6, Zenon DEF Relayed
  <2> QED  BY <1>0, <2>2, <2>4, <2>6, <2>7, Zenon DEF Relaying, Batched
<1>5. ASSUME Silent, NEW points \in BoundedSeq(Points, MaxPoints),
             NEW count \in 0..(MaxPoints + 1), SendBatch(points, count)
      PROVE  Relaying'
  <2> DEFINE full == BatchBody(points, count)
  <2>1. PICK cut \in 2..Len(full) :
          Say([kind |-> "batch", points |-> points, count |-> count, cut |-> cut,
               body |-> SubSeq(full, 1, cut)])
    BY <1>5, Zenon DEF SendBatch
  <2> DEFINE m == [kind |-> "batch", points |-> points, count |-> count, cut |-> cut,
                   body |-> SubSeq(full, 1, cut)]
  <2> HIDE DEF full
  <2>2. /\ m.kind = "batch" /\ m.points = points /\ m.count = count /\ m.cut = cut
        /\ m.body = SubSeq(full, 1, cut)
    BY SMT
  <2>3. points \in Seq(Points)
    BY <1>5, Bounded, TelemetryAssumption, Zenon
  <2>4. msg' = m /\ done' = done
    BY <2>1, Zenon DEF Say
  <2> HIDE DEF m
  <2>5. FullBatch(m) = full
    BY <2>2, Zenon DEF FullBatch, full
  <2>6. ~done
    BY <1>5, Zenon DEF Relaying
  <2>7. Batched'
    BY <1>5, <2>1, <2>2, <2>3, <2>4, <2>5, <2>6, Zenon DEF Batched
  <2> QED  BY <1>0, <2>2, <2>4, <2>6, <2>7, Zenon DEF Relaying, Relayed
<1>6. ASSUME Silent, NEW r \in Registrations, SendRegistration(r) PROVE Relaying'
  <2> DEFINE m == [kind |-> "registration", reg |-> r, body |-> BuildRegBody(r)]
  <2>1. Say(m)
    BY <1>6, Zenon DEF SendRegistration
  <2>2. m.kind = "registration"
    BY SMT
  <2> HIDE DEF m
  <2> QED  BY <1>0, <2>1, <2>2, SayNeither, Zenon
<1>7. ASSUME HandleLocation PROVE Relaying'
  <2>1. /\ msg.kind \in {"p901", "report"} /\ ~done /\ msg' = msg
        /\ entries' = IF Decodable(msg.body)
                      THEN <<PublishLocation(IF phone = "" THEN "frame" ELSE phone,
                                             DecodeLocation(msg.body))>>
                      ELSE <<>>
    BY <1>7, Zenon DEF HandleLocation
  <2>2. ~Silent /\ msg.kind # "batch"
    BY <1>0, <2>1, Zenon DEF Silent
  <2>3. Relayed'
    BY <2>1, Zenon DEF Relaying, Relayed
  <2> QED  BY <2>1, <2>2, <2>3, Zenon DEF Relaying, Batched, Silent
<1>8. ASSUME HandleBatchLocation PROVE Relaying'
  <2>1. /\ msg.kind = "batch" /\ msg' = msg /\ phone' = phone
        /\ entries' = BatchEntries(Located(BatchPoints(msg.body)))
    BY <1>8, Zenon DEF HandleBatchLocation, BatchEntries
  <2>2. ~Silent /\ msg.kind # "report"
    BY <1>0, <2>1, Zenon DEF Silent
  <2>3. Batched'
    BY <2>1, Zenon DEF Relaying, Batched, BatchEntries
  <2> QED  BY <2>1, <2>2, <2>3, Zenon DEF Relaying, Relayed, Silent
<1>9. ASSUME HandleRegistration PROVE Relaying'
  <2>1. msg.kind = "registration" /\ msg' = msg
    BY <1>9, Zenon DEF HandleRegistration
  <2>2. ~Silent /\ msg.kind # "report" /\ msg.kind # "batch"
    BY <1>0, <2>1, Zenon DEF Silent
  <2> QED  BY <2>1, <2>2, Zenon DEF Relaying, Relayed, Batched, Silent
<1>10. ASSUME NEW g \in DOMAIN entries, XAdd(g) PROVE Relaying'
  BY <1>10, Zenon DEF XAdd, Relaying, Relayed, Batched, Silent, BatchEntries
<1> QED
  BY <1>1, <1>2, <1>3, <1>4, <1>5, <1>6, <1>7, <1>8, <1>9, <1>10, Zenon DEF Next, Terminal

\* The bytes of a report.
LEMMA ItemsTyped ==
  ASSUME NEW items \in Seq(Items), NEW n \in 0..Len(items)
  PROVE  [i \in 1..n |-> TLV(items[i])] \in Seq(Seq(Nat))
<1>1. ASSUME NEW i \in 1..n PROVE TLV(items[i]) \in Seq(Nat)
  <2> DEFINE item == items[i]
  <2>1. item \in Items
    BY SMT
  <2> HIDE DEF item
  <2>2. item.id \in Nat /\ item.val \in Seq(Nat)
    BY <2>1, ReportAssumption, Zenon
  <2> DEFINE head == <<item.id, Len(item.val)>>
  <2>3. head \in Seq(Nat)
    BY <2>2, SMT
  <2> HIDE DEF head
  <2>4. head \o item.val \in Seq(Nat)
    BY <2>2, <2>3, Join, Zenon
  <2> QED  BY <2>4 DEF TLV, head, item
<1>2. n \in Nat
  BY SMT
<1> QED  BY <1>1, <1>2, SMT

LEMMA TLVsTyped ==
  ASSUME NEW items \in Seq(Items)
  PROVE  TLVs(items) \in Seq(Nat)
<1>1. DOMAIN items = 1..Len(items) /\ Len(items) \in 0..Len(items)
  BY SMT
<1>2. [i \in DOMAIN items |-> TLV(items[i])] \in Seq(Seq(Nat))
  BY <1>1, ItemsTyped, Zenon
<1> QED  BY <1>2, FlattenType, Zenon DEF TLVs

LEMMA FixedBytes ==
  ASSUME NEW h \in Headers
  PROVE  FixedPart(h) \in Seq(Nat) /\ Len(FixedPart(h)) = 28
<1> DEFINE c == <<1, 2, 3, 4, 5, 6>>
           p1 == U32(h.alarm)
           p2 == U32(h.status)
           p3 == U32(100)
           p4 == U32(200)
           p5 == U16(7)
           p6 == U16(8)
           p7 == U16(9)
           p8 == BcdTimestamp(c)
<1>1. /\ Block(p1, 4) /\ Block(p2, 4) /\ Block(p3, 4) /\ Block(p4, 4)
      /\ Block(p5, 2) /\ Block(p6, 2) /\ Block(p7, 2) /\ Block(p8, 6)
  <2>1. \A v \in Nat : Block(U16(v), 2)
    BY SMT DEF U16, Block
  <2>2. \A v \in Nat : Block(U32(v), 4)
    <3> SUFFICES ASSUME NEW v \in Nat PROVE Block(U32(v), 4)
      OBVIOUS
    <3>1. v \div 2^16 \in Nat /\ v % 2^16 \in Nat
      BY SMT
    <3> DEFINE s == U16(v \div 2^16)
               t == U16(v % 2^16)
    <3>2. Block(s, 2) /\ Block(t, 2)
      BY <2>1, <3>1, Zenon
    <3> HIDE DEF s, t
    <3>3. s \o t \in Seq(Nat) /\ Len(s \o t) = 2 + 2
      BY <3>2, Join, Zenon DEF Block
    <3>4. 2 + 2 = 4 /\ 4 \in Nat
      BY SMT
    <3>5. Block(s \o t, 4)
      BY <3>3, <3>4, Zenon DEF Block
    <3> QED  BY <3>5 DEF U32, s, t
  <2>3. Block(p8, 6)
    <3>1. \A i \in 1..6 : c[i] \in Nat
      BY SMT
    <3> HIDE DEF c
    <3> QED  BY <3>1, SMT DEF BcdTimestamp, Block
  <2>4. h.alarm \in Nat /\ h.status \in Nat
    BY ReportAssumption, Zenon
  <2>5. 100 \in Nat /\ 200 \in Nat /\ 7 \in Nat /\ 8 \in Nat /\ 9 \in Nat
    BY SMT
  <2> HIDE DEF c
  <2>6. Block(p1, 4) /\ Block(p2, 4)
    BY <2>2, <2>4, Zenon
  <2>7. Block(p3, 4) /\ Block(p4, 4)
    BY <2>2, <2>5, SMT
  <2>8. Block(p5, 2) /\ Block(p6, 2) /\ Block(p7, 2)
    BY <2>1, <2>5, Zenon
  <2> QED  BY <2>3, <2>6, <2>7, <2>8
<1>2. FixedPart(h) = ((((((p1 \o p2) \o p3) \o p4) \o p5) \o p6) \o p7) \o p8
  BY Zenon DEF FixedPart
<1> HIDE DEF p1, p2, p3, p4, p5, p6, p7, p8
<1>3. \A s, t, m, n : Block(s, m) /\ Block(t, n) => Block(s \o t, m + n)
  <2> SUFFICES ASSUME NEW s, NEW t, NEW m, NEW n, Block(s, m), Block(t, n)
               PROVE  Block(s \o t, m + n)
    OBVIOUS
  <2>1. s \in Seq(Nat) /\ t \in Seq(Nat) /\ m \in Nat /\ n \in Nat /\ Len(s) = m /\ Len(t) = n
    BY Zenon DEF Block
  <2>2. s \o t \in Seq(Nat) /\ Len(s \o t) = m + n
    BY <2>1, Join, Zenon
  <2>3. m + n \in Nat
    BY <2>1, SMT
  <2> QED  BY <2>2, <2>3, Zenon DEF Block
<1>4. Block(FixedPart(h), 4 + 4 + 4 + 4 + 2 + 2 + 2 + 6)
  BY <1>1, <1>2, <1>3, Zenon
<1>5. 4 + 4 + 4 + 4 + 2 + 2 + 2 + 6 = 28
  BY SMT
<1> QED  BY <1>4, <1>5, Zenon DEF Block

\* A report, cut, and what the decoder takes for its additional items: what
\* of theirs was sent.
Additional(b) == SubSeq(b, 29, Len(b))
Arrived(body, cut, bytes) ==
  /\ body \in Seq(Nat) /\ (Decodable(body) <=> cut >= 28)
  /\ cut >= 28 =>
       /\ cut - 28 \in 0..Len(bytes)
       /\ Additional(body) = SubSeq(bytes, 1, cut - 28)

LEMMA ReportCut ==
  ASSUME NEW h \in Headers, NEW items \in Seq(Items),
         NEW cut \in 27..Len(FixedPart(h) \o TLVs(items)), NEW body,
         body = SubSeq(FixedPart(h) \o TLVs(items), 1, cut)
  PROVE  Arrived(body, cut, TLVs(items))
<1> DEFINE f == FixedPart(h)
           t == TLVs(items)
           u == f \o t
<1>1. f \in Seq(Nat) /\ Len(f) = 28 /\ t \in Seq(Nat) /\ Len(t) \in Nat
  <2>1. t \in Seq(Nat)
    BY TLVsTyped, Zenon
  <2> HIDE DEF t
  <2> QED  BY <2>1, FixedBytes
<1>2. cut \in 27..Len(u) /\ body = SubSeq(u, 1, cut)
  OBVIOUS
<1> HIDE DEF f, t
<1>3. u \in Seq(Nat) /\ JoinOf(u, f, t)
  <2>1. Joins(Nat)
    BY JoinsAll, Zenon
  <2> QED  BY <1>1, <2>1, Zenon DEF Joins
<1> HIDE DEF u
<1>4. /\ Len(u) = 28 + Len(t) /\ \A i \in 1..Len(t) : u[28 + i] = t[i]
  BY <1>1, <1>3, SMT DEF JoinOf
<1>a. cut \in Nat /\ cut <= 28 + Len(t) /\ cut <= Len(u)
  BY <1>1, <1>2, <1>4, SMT
<1>5. /\ body \in Seq(Nat) /\ Len(body) = cut
      /\ \A i \in 1..cut : body[i] = u[i]
  BY <1>2, <1>3, <1>a, SMTT(60)
<1>6. Decodable(body) <=> cut >= 28
  BY <1>5, <1>a, SMT DEF Decodable
<1>7. ASSUME cut >= 28
      PROVE  /\ cut - 28 \in 0..Len(t)
             /\ SubSeq(body, 29, Len(body)) = SubSeq(t, 1, cut - 28)
  <2> DEFINE x == SubSeq(body, 29, Len(body))
             y == SubSeq(t, 1, cut - 28)
             n == cut - 28
  <2>1. n \in Nat /\ n <= Len(t) /\ cut = 28 + n
    BY <1>1, <1>a, <1>7, SMT
  <2> HIDE DEF n
  <2>2. /\ x \in Seq(Nat) /\ Len(x) = n /\ \A i \in 1..n : x[i] = body[28 + i]
    BY <1>5, <2>1, SMT
  <2>3. y \in Seq(Nat) /\ Len(y) = n /\ \A i \in 1..n : y[i] = t[i]
    BY <1>1, <2>1, SMT DEF n
  <2> HIDE DEF x, y
  <2>4. ASSUME NEW i \in 1..n PROVE x[i] = y[i]
    <3>1. i \in 1..Len(t) /\ 28 + i \in 1..cut
      BY <1>1, <2>1, SMT
    <3>2. u[28 + i] = t[i] /\ body[28 + i] = u[28 + i]
      BY <1>4, <1>5, <3>1
    <3> QED  BY <2>2, <2>3, <3>2
  <2>5. x = y
    BY <2>2, <2>3, <2>4, SMT
  <2>6. n \in 0..Len(t)
    BY <1>1, <2>1, SMT
  <2> QED  BY <2>5, <2>6 DEF x, y, n
<1> QED  BY <1>5, <1>6, <1>7 DEF f, t, Arrived, Additional

\* What an entry shows of the items x and the altitude of a body.
ShowsItems(e, x, b) ==
  /\ e.extras = x /\ e.altitude = U16At(b, 17)
  /\ e.battery_level = ExtractBattery(x)
  /\ e.signal_strength = ExtractSignal(x)
  /\ ~(ExtractBattery(x) < 0) => e.battery_from_flags = -1

LEMMA EntryItems ==
  ASSUME NEW ph, NEW b, NEW e, e = PublishLocation(ph, DecodeLocation(b)),
         NEW x, x = Extras(Additional(b))
  PROVE  ShowsItems(e, x, b)
<1> DEFINE loc == DecodeLocation(b)
<1>1. loc.extras = x /\ loc.alt = U16At(b, 17)
  BY DEF DecodeLocation, Additional
<1> HIDE DEF loc
<1>2. /\ e.extras = loc.extras /\ e.altitude = loc.alt
      /\ e.battery_level = ExtractBattery(loc.extras)
      /\ e.signal_strength = ExtractSignal(loc.extras)
      /\ ~(ExtractBattery(loc.extras) < 0) => e.battery_from_flags = -1
  BY DEF PublishLocation, loc
<1> QED  BY <1>1, <1>2 DEF ShowsItems

\* PublishLocation: whatever additional items a terminal sends, in whatever
\* order and wherever the report is cut, battery level and signal strength
\* are percentages or absent, and the level is absent only if no item could
\* have given one.
THEOREM LevelsBounded == Spec => []LevelsArePercentages
<1>1. Relaying /\ [Next]_vars => Relaying'
  BY RelayingStep
<1>2. Relaying => LevelsArePercentages
  <2> SUFFICES ASSUME Relaying, Handled("report"), entries # <<>>
               PROVE  LevelsArePercentages
    BY Zenon DEF LevelsArePercentages
  <2> DEFINE b == msg.body
             x == Extras(Additional(b))
             e == entries[1]
  <2>1. /\ msg.head \in Headers /\ msg.items \in Seq(Items)
        /\ msg.cut \in 27..Len(FixedPart(msg.head) \o TLVs(msg.items))
        /\ b = SubSeq(FixedPart(msg.head) \o TLVs(msg.items), 1, msg.cut)
    BY Zenon DEF Relaying, Relayed, Handled, FullReport
  <2>2. PICK ph : entries = IF Decodable(b) THEN <<PublishLocation(ph, DecodeLocation(b))>>
                            ELSE <<>>
    BY Zenon DEF Relaying, Relayed, Handled
  <2>3. b \in Seq(Nat) /\ Len(b) \in Nat
    <3> HIDE DEF b
    <3>1. Arrived(b, msg.cut, TLVs(msg.items))
      BY <2>1, ReportCut, Zenon
    <3> QED  BY <3>1 DEF Arrived
  <2>4. Len(b) >= 28 /\ e = PublishLocation(ph, DecodeLocation(b))
    <3>1. Decodable(b) /\ entries = <<PublishLocation(ph, DecodeLocation(b))>>
      BY <2>2, Zenon
    <3> HIDE DEF b
    <3> QED  BY <3>1 DEF Decodable
  <2>5. ItemMap(x)
    <3> HIDE DEF b
    <3>1. Additional(b) \in Seq(Nat)
      BY <2>3, <2>4, SMT DEF Additional
    <3> QED  BY <3>1, ExtrasTyped, Zenon
  <2> HIDE DEF e, b
  <2>6. /\ e.extras = x
        /\ e.battery_level = ExtractBattery(x)
        /\ e.signal_strength = ExtractSignal(x)
        /\ ~(ExtractBattery(x) < 0) => e.battery_from_flags = -1
    <3>1. ShowsItems(e, x, b)
      BY <2>4, EntryItems, Zenon
    <3> HIDE DEF x
    <3> QED  BY <3>1 DEF ShowsItems
  <2> HIDE DEF x
  <2> DEFINE level == ExtractBattery(x)
             signal == ExtractSignal(x)
  <2>7. level \in Int /\ -1 <= level /\ level <= 100 /\ (level = -1 <=> NoLevel(x))
    BY <2>5, BatteryLevel, Zenon
  <2>8. signal \in Int /\ -1 <= signal /\ signal <= 100
    BY <2>5, SignalLevel, Zenon
  <2>9. /\ e.extras = x /\ e.battery_level = level /\ e.signal_strength = signal
        /\ ~(level < 0) => e.battery_from_flags = -1
    BY <2>6
  <2> HIDE DEF level, signal
  <2>10. level \in -1..100 /\ signal \in -1..100 /\ (level >= 0 => ~(level < 0))
    BY <2>7, <2>8, SMT
  <2>11. /\ e.battery_level \in -1..100 /\ e.signal_strength \in -1..100
         /\ (e.battery_level = -1) <=> NoLevel(e.extras)
         /\ e.battery_level >= 0 => e.battery_from_flags = -1
    BY <2>7, <2>9, <2>10, Zenon
  <2> QED  BY <2>11, Zenon DEF LevelsArePercentages, NoLevel, e
<1> QED  BY <1>1, <1>2, RelayingInit, PTL DEF Spec

\* The bytes of an item.
ItemAt(b, o, item) ==
  /\ b[o + 1] = item.id /\ b[o + 2] = Len(item.val)
  /\ \A i \in 1..Len(item.val) : b[o + 2 + i] = item.val[i]

LEMMA TLVBytes ==
  ASSUME NEW item \in Items
  PROVE  /\ TLV(item) \in Seq(Nat) /\ Len(TLV(item)) = 2 + Len(item.val)
         /\ ItemAt(TLV(item), 0, item)
         /\ item.id \in Nat /\ item.val \in Seq(Nat) /\ Len(item.val) \in Nat
<1>1. item.id \in Nat /\ item.val \in Seq(Nat) /\ Len(item.val) \in Nat
  <2>1. item.id \in Nat /\ item.val \in Seq(Nat)
    BY ReportAssumption, Zenon
  <2> QED  BY <2>1
<1> DEFINE id == item.id
           val == item.val
           n == Len(val)
           head == <<id, n>>
           u == head \o val
<1>2. TLV(item) = u
  BY Zenon DEF TLV
<1>3. id \in Nat /\ val \in Seq(Nat) /\ n \in Nat
  BY <1>1
<1> HIDE DEF id, val
<1>4. head \in Seq(Nat) /\ Len(head) = 2 /\ head[1] = id /\ head[2] = n
  BY <1>3, SMT
<1> HIDE DEF head
<1>5. u \in Seq(Nat) /\ JoinOf(u, head, val)
  <2>1. Joins(Nat)
    BY JoinsAll, Zenon
  <2> QED  BY <1>3, <1>4, <2>1, Zenon DEF Joins
<1> HIDE DEF u
<1>6. /\ Len(u) = 2 + n /\ u[1] = id /\ u[2] = n
      /\ \A i \in 1..n : u[2 + i] = val[i]
  BY <1>3, <1>4, <1>5, SMT DEF JoinOf
<1>7. 0 + 1 = 1 /\ 0 + 2 = 2
  BY SMT
<1>8. ItemAt(u, 0, item)
  BY <1>6, <1>7, Zenon DEF ItemAt, n, val, id
<1> QED  BY <1>1, <1>2, <1>5, <1>6, <1>8 DEF n, val

\* A byte position where an item begins: if the item is there as a whole the
\* walk finds it and goes on behind it, ...
LEMMA WalkItem ==
  ASSUME NEW e \in Seq(Nat), NEW w, NEW o \in Nat, NEW item \in Items,
         ItemAt(e, o, item), o + 2 + Len(item.val) <= Len(e)
  PROVE  WalkStep(e, w, o + 1) = Under(w[o + 2 + Len(item.val) + 1], item.id, item.val)
<1> DEFINE val == item.val
           n == Len(val)
           i == o + 1
<1>1. /\ val \in Seq(Nat) /\ n \in Nat /\ e[o + 1] = item.id /\ e[o + 2] = n
      /\ \A j \in 1..n : e[o + 2 + j] = val[j]
      /\ o + 2 + n <= Len(e) /\ Len(e) \in Nat
  <2>1. val \in Seq(Nat) /\ n \in Nat
    BY TLVBytes, Zenon
  <2>2. /\ e[o + 1] = item.id /\ e[o + 2] = n
        /\ \A j \in 1..n : e[o + 2 + j] = val[j]
    BY Zenon DEF ItemAt
  <2>3. o + 2 + n <= Len(e)
    BY Zenon
  <2>4. Len(e) \in Nat
    BY LenProperties, Zenon
  <2> QED  BY <2>1, <2>2, <2>3, <2>4, Zenon
<1> HIDE DEF val, n
<1>2. i + 1 = o + 2
  BY SMT
<1>a. e[i + 1] = n /\ e[i] = item.id
  BY <1>1, <1>2, Zenon
<1>3. ~Stops(e, i)
  BY <1>1, <1>a, SMT DEF Stops, TLVFits
<1>4. i + 2 + n = o + 2 + n + 1 /\ i + 2 = o + 2 + 1 /\ i + 1 + n = o + 2 + n
  BY <1>1, SMT
<1>5. SubSeq(e, o + 2 + 1, o + 2 + n) = val
  <2>1. In(e, o + 2, val)
    BY <1>1, Zenon DEF In, n
  <2>2. o + 2 \in Nat
    BY SMT
  <2> QED  BY <2>1, <2>2, InCut, Zenon DEF n
<1>6. WalkStep(e, w, i) = Under(w[i + 2 + e[i + 1]], e[i], SubSeq(e, i + 2, i + 1 + e[i + 1]))
  BY <1>3, Zenon DEF WalkStep
<1> HIDE DEF i
<1>7. WalkStep(e, w, i) = Under(w[o + 2 + n + 1], item.id, val)
  BY <1>a, <1>4, <1>5, <1>6, Zenon
<1> QED  BY <1>7 DEF i, n, val

\* ... and if it is cut the walk ends.
LEMMA WalkCut ==
  ASSUME NEW e \in Seq(Nat), NEW w, NEW o \in 0..Len(e), NEW item \in Items,
         NEW b, ItemAt(b, o, item), \A i \in 1..Len(e) : e[i] = b[i],
         o + 2 + Len(item.val) > Len(e)
  PROVE  WalkStep(e, w, o + 1) = <<>>
<1>1. Len(item.val) \in Nat /\ b[o + 2] = Len(item.val)
  BY TLVBytes DEF ItemAt
<1> DEFINE n == Len(item.val)
<1>2. n \in Nat /\ b[o + 2] = n /\ o + 2 + n > Len(e)
  BY <1>1
<1> HIDE DEF n
<1>3. Stops(e, o + 1)
  <2>1. CASE o + 2 > Len(e)
    BY <2>1, SMT DEF Stops
  <2>2. CASE ~(o + 2 > Len(e))
    <3>1. o + 2 \in 1..Len(e) /\ (o + 1) + 1 = o + 2
      BY <2>2, SMT
    <3>2. e[(o + 1) + 1] = n
      BY <1>2, <3>1, SMT
    <3> QED  BY <1>2, <3>2, SMT DEF Stops, TLVFits
  <2> QED  BY <2>1, <2>2
<1> QED  BY <1>3, Zenon DEF WalkStep

\* x holds the items from k + 1 to n, the later of two with one id.
Holds(x, items, k, n) ==
  /\ DOMAIN x = {items[i].id : i \in (k + 1)..n}
  /\ \A i \in (k + 1)..n :
       (\A j \in (k + 1)..n : j > i => items[j].id # items[i].id)
         => x[items[i].id] = items[i].val

\* An item before them.
LEMMA HoldsMore ==
  ASSUME NEW items, NEW k \in Nat, NEW n \in Nat, k + 1 <= n,
         NEW x, Holds(x, items, k + 1, n)
  PROVE  Holds(Under(x, items[k + 1].id, items[k + 1].val), items, k, n)
<1> DEFINE id == items[k + 1].id
           val == items[k + 1].val
           y == Under(x, id, val)
           m == k + 1
<1>1. /\ (k + 1)..n = {m} \cup (m + 1)..n /\ m \notin (m + 1)..n
      /\ \A i \in (m + 1)..n : i > m
  BY SMT
<1>2. /\ DOMAIN x = {items[i].id : i \in (m + 1)..n}
      /\ \A i \in (m + 1)..n :
           (\A j \in (m + 1)..n : j > i => items[j].id # items[i].id)
             => x[items[i].id] = items[i].val
  BY Zenon DEF Holds
<1>3. /\ DOMAIN y = DOMAIN x \cup {id}
      /\ \A a \in DOMAIN x : y[a] = x[a]
      /\ id \notin DOMAIN x => y[id] = val
  BY Zenon DEF Under
<1>4. id = items[m].id /\ val = items[m].val
  OBVIOUS
<1> HIDE DEF y, id, val, m
<1>5. DOMAIN y = {items[i].id : i \in (k + 1)..n}
  BY <1>1, <1>2, <1>3, <1>4, ZenonT(60)
<1>6. ASSUME NEW i \in (k + 1)..n,
             \A j \in (k + 1)..n : j > i => items[j].id # items[i].id
      PROVE  y[items[i].id] = items[i].val
  <2>1. CASE i = m
    <3>1. id \notin DOMAIN x
      BY <1>1, <1>2, <1>4, <1>6, <2>1, Zenon
    <3> QED  BY <1>3, <1>4, <2>1, <3>1, Zenon
  <2>2. CASE i # m
    <3>1. i \in (m + 1)..n
      BY <1>1, <2>2, Zenon
    <3>2. x[items[i].id] = items[i].val
      BY <1>1, <1>2, <1>6, <3>1, Zenon
    <3>3. items[i].id \in DOMAIN x
      BY <1>2, <3>1, Zenon
    <3> QED  BY <1>3, <3>2, <3>3, Zenon
  <2> QED  BY <2>1, <2>2
<1>7. Holds(y, items, k, n)
  BY <1>5, <1>6, Zenon DEF Holds
<1> QED  BY <1>7 DEF y, id, val

\* How far the first k items reach.
Reach(items, k) == Len(FlattenSeq([i \in 1..k |-> TLV(items[i])]))

\* Each item begins where the ones before it end.
LEMMA ItemsInPlace ==
  ASSUME NEW items \in Seq(Items)
  PROVE  /\ Reach(items, 0) = 0 /\ Reach(items, Len(items)) = Len(TLVs(items))
         /\ \A k \in 0..Len(items) : Reach(items, k) \in Nat
         /\ \A k \in 1..Len(items) :
              /\ Reach(items, k) = Reach(items, k - 1) + 2 + Len(items[k].val)
              /\ ItemAt(TLVs(items), Reach(items, k - 1), items[k])
<1> DEFINE N == Len(items)
           s == [i \in 1..N |-> TLV(items[i])]
           t == TLVs(items)
<1>0. N \in Nat /\ N \in 0..N /\ DOMAIN items = 1..N
  OBVIOUS
<1>1. s \in Seq(Seq(Nat)) /\ Len(s) = N /\ \A k \in 1..N : s[k] = TLV(items[k])
  <2>1. s \in Seq(Seq(Nat))
    BY <1>0, ItemsTyped, Zenon
  <2>2. Len(s) = N
    BY <1>0
  <2> QED  BY <2>1, <2>2
<1>2. PICK g \in [0..Len(s) -> Seq(Nat)] : Sums(g, s)
  <2> HIDE DEF s
  <2> QED  BY <1>1, SumsExist
<1>3. ASSUME NEW k \in 0..N PROVE Reach(items, k) = Len(g[k])
  <2> DEFINE p == [i \in 1..k |-> TLV(items[i])]
  <2>1. p \in Seq(Seq(Nat)) /\ Len(p) = k /\ \A i \in 1..k : p[i] = s[i]
    <3>1. p \in Seq(Seq(Nat))
      BY ItemsTyped, Zenon
    <3>2. Len(p) = k /\ \A i \in 1..k : i \in 1..N
      BY <1>0
    <3> QED  BY <3>1, <3>2
  <2> HIDE DEF p, s
  <2>2. k \in 0..Len(s)
    BY <1>1
  <2>3. FlattenSeq(p) = g[k]
    BY <1>1, <1>2, <2>1, <2>2, FlattenPrefix, SMTT(60)
  <2> QED  BY <2>3 DEF Reach, p
<1>4. t = g[N]
  <2>1. t = FlattenSeq(s)
    BY <1>0, Zenon DEF TLVs
  <2> HIDE DEF s, t
  <2> QED  BY <1>1, <1>2, <2>1, FlattenSums
<1> HIDE DEF s, t
<1>5. Reach(items, 0) = 0
  <2>1. 0 \in 0..N /\ g[0] = <<>>
    BY <1>0, <1>2 DEF Sums
  <2>2. Len(<<>>) = 0
    OBVIOUS
  <2> QED  BY <1>3, <2>1, <2>2, Zenon
<1>6. ASSUME NEW k \in 0..N PROVE Len(g[k]) \in Nat
  BY <1>1, <1>2
<1>7. ASSUME NEW k \in 1..N
      PROVE  /\ Reach(items, k) = Reach(items, k - 1) + 2 + Len(items[k].val)
             /\ ItemAt(t, Reach(items, k - 1), items[k])
  <2> DEFINE item == items[k]
             a == Len(g[k - 1])
             n == Len(item.val)
             b == TLV(item)
  <2>1. item \in Items
    BY <1>0
  <2>2. k \in 0..N /\ k - 1 \in 0..N
    BY <1>0
  <2>3. Reach(items, k) = Len(g[k]) /\ Reach(items, k - 1) = a /\ a \in Nat
    BY <1>3, <1>6, <2>2, Zenon
  <2>4. s[k] = b
    BY <1>1, Zenon
  <2> HIDE DEF item, a
  <2>5. /\ b \in Seq(Nat) /\ Len(b) = 2 + n /\ n \in Nat /\ ItemAt(b, 0, item)
    BY <2>1, TLVBytes, Zenon
  <2>6. /\ Len(g[k]) = a + Len(b)
        /\ \A i \in 1..Len(b) : t[a + i] = b[i]
    <3>1. Placed(g, s, k, t)
      <4>1. k \in 1..Len(s) /\ t = g[Len(s)] /\ s \in Seq(Seq(Nat))
        BY <1>1, <1>4, Zenon
      <4> QED  BY <1>2, <4>1, SumsAt, Zenon
    <3> HIDE DEF b
    <3> QED  BY <2>4, <3>1, Zenon DEF a, Placed
  <2>7. Len(g[k]) = a + 2 + n
    <3>1. a \in Nat /\ n \in Nat /\ Len(g[k]) = a + (2 + n)
      BY <2>3, <2>5, <2>6, Zenon
    <3> HIDE DEF n
    <3> QED  BY <3>1, SMT
  <2>8. ItemAt(t, a, item)
    <3> HIDE DEF b
    <3>1. b[1] = item.id /\ b[2] = n /\ \A i \in 1..n : b[2 + i] = item.val[i]
      <4>1. 0 + 1 = 1 /\ 0 + 2 = 2
        BY SMT
      <4> QED  BY <2>5, <4>1, Zenon DEF ItemAt
    <3>2. 1 \in 1..Len(b) /\ 2 \in 1..Len(b) /\ \A i \in 1..n : 2 + i \in 1..Len(b)
      <4> HIDE DEF n
      <4> QED  BY <2>5, SMT
    <3>3. t[a + 1] = item.id /\ t[a + 2] = n
      BY <2>6, <3>1, <3>2, Zenon
    <3>4. ASSUME NEW i \in 1..n PROVE t[a + 2 + i] = item.val[i]
      <4>1. a + 2 + i = a + (2 + i)
        <5> HIDE DEF n
        <5> QED  BY <2>3, <2>5, SMT
      <4>2. t[a + (2 + i)] = b[2 + i]
        BY <2>6, <3>2, Zenon
      <4> QED  BY <3>1, <4>1, <4>2, Zenon
    <3> QED  BY <3>3, <3>4, Zenon DEF ItemAt
  <2> QED  BY <2>3, <2>7, <2>8 DEF item
<1>8. \A k \in 0..N : Reach(items, k) \in Nat
  BY <1>3, <1>6, Zenon
<1>9. Reach(items, N) = Len(t)
  BY <1>0, <1>3, <1>4, Zenon
<1> QED  BY <1>5, <1>7, <1>8, <1>9, Zenon DEF t

\* parseExtras over the bytes of some items, cut after c of them: the items
\* there as a whole, and no other.
LEMMA ItemsWalked ==
  ASSUME NEW items \in Seq(Items), NEW c \in 0..Len(TLVs(items)), NEW e,
         e = SubSeq(TLVs(items), 1, c), NEW n \in 0..Len(items),
         Reach(items, n) <= c, n < Len(items) => Reach(items, n + 1) > c
  PROVE  Holds(Extras(e), items, 0, n)
<1> DEFINE t == TLVs(items)
           w == Walk(e)
           a(k) == Reach(items, k)
           N == Len(items)
<1>1. t \in Seq(Nat) /\ Len(t) \in Nat
  <2>1. t \in Seq(Nat)
    BY TLVsTyped, Zenon
  <2> HIDE DEF t
  <2> QED  BY <2>1
<1>2. e \in Seq(Nat) /\ Len(e) = c /\ c \in Nat /\ \A i \in 1..c : e[i] = t[i]
  <2> HIDE DEF t
  <2> QED  BY <1>1, SMT DEF t
<1>3. Extras(e) = w[1] /\ \A i \in 1..(c + 1) : w[i] = WalkStep(e, w, i)
  <2>1. e \in Seq(Nat) /\ Len(e) = c
    BY <1>2
  <2> QED  BY <2>1, WalkAt, Zenon
<1>4. /\ a(0) = 0 /\ a(N) = Len(t)
      /\ \A k \in 0..N : a(k) \in Nat
      /\ \A k \in 1..N : /\ a(k) = a(k - 1) + 2 + Len(items[k].val)
                         /\ ItemAt(t, a(k - 1), items[k])
  BY ItemsInPlace, Zenon
<1>5. N \in Nat /\ n \in Nat /\ n <= N /\ c <= Len(t) /\ a(n) <= c
  BY <1>1, SMT
<1>a. ASSUME NEW k \in 1..N PROVE items[k] \in Items /\ Len(items[k].val) \in Nat
  <2>1. items[k] \in Items
    OBVIOUS
  <2> QED  BY <2>1, TLVBytes, Zenon
<1> HIDE DEF t, w, a, N
<1>6. w[a(n) + 1] = <<>>
  <2>1. a(n) \in Nat /\ a(n) + 1 \in 1..(c + 1) /\ a(n) \in 0..c
    BY <1>2, <1>4, <1>5, SMT
  <2>2. WalkStep(e, w, a(n) + 1) = <<>>
    <3>1. CASE n = N
      <4>1. a(n) = c
        BY <1>1, <1>2, <1>4, <1>5, <2>1, <3>1, SMT
      <4>2. Stops(e, a(n) + 1)
        BY <1>2, <4>1, SMT DEF Stops
      <4> QED  BY <4>2, Zenon DEF WalkStep
    <3>2. CASE n # N
      <4> DEFINE item == items[n + 1]
                 o == a(n)
      <4>1. n + 1 \in 1..N /\ (n + 1) - 1 = n /\ n < N
        BY <1>5, <3>2, SMT
      <4>2. item \in Items
        BY <1>a, <4>1, Zenon
      <4>3. a(n + 1) = o + 2 + Len(item.val) /\ ItemAt(t, o, item)
        BY <1>4, <4>1, Zenon
      <4>4. a(n + 1) > c
        BY <4>1, Zenon DEF a, N
      <4> HIDE DEF item, o
      <4>5. o + 2 + Len(item.val) > Len(e) /\ o \in 0..Len(e)
        BY <1>2, <2>1, <4>3, <4>4, Zenon DEF o
      <4>6. \A i \in 1..Len(e) : e[i] = t[i]
        BY <1>2, Zenon
      <4>7. WalkStep(e, w, o + 1) = <<>>
        BY <1>2, <4>2, <4>3, <4>5, <4>6, WalkCut, Zenon
      <4> QED  BY <4>7 DEF o
    <3> QED  BY <3>1, <3>2
  <2> QED  BY <1>3, <2>1, <2>2, Zenon
<1> DEFINE S == {m \in Nat : m <= n =>
                   a(n - m) <= c /\ Holds(w[a(n - m) + 1], items, n - m, n)}
<1>7. 0 \in S
  <2>1. n - 0 = n /\ (n + 1)..n = {}
    BY <1>5, SMT
  <2>2. DOMAIN <<>> = {}
    BY SMT
  <2>3. Holds(<<>>, items, n, n)
    BY <2>1, <2>2, Zenon DEF Holds
  <2>4. a(n - 0) <= c /\ Holds(w[a(n - 0) + 1], items, n - 0, n)
    BY <1>5, <1>6, <2>1, <2>3, Zenon
  <2>5. 0 \in Nat
    BY SMT
  <2> QED  BY <2>4, <2>5, Zenon
<1>8. ASSUME NEW m \in Nat, m \in S PROVE m + 1 \in S
  <2> SUFFICES ASSUME m + 1 <= n
               PROVE  /\ a(n - (m + 1)) <= c
                      /\ Holds(w[a(n - (m + 1)) + 1], items, n - (m + 1), n)
    BY SMT
  <2> DEFINE k == n - (m + 1)
             o == a(k)
             item == items[k + 1]
             l == Len(item.val)
  <2>1. /\ k \in Nat /\ k + 1 = n - m /\ k + 1 \in 1..N /\ (k + 1) - 1 = k /\ k + 1 <= n
        /\ k \in 0..N /\ m <= n
    BY <1>5, SMT
  <2>2. a(n - m) <= c /\ Holds(w[a(n - m) + 1], items, n - m, n)
    BY <1>8, <2>1, Zenon
  <2> HIDE DEF k
  <2>3. a(k + 1) <= c /\ Holds(w[a(k + 1) + 1], items, k + 1, n)
    BY <2>1, <2>2, Zenon
  <2>4. a(k + 1) = o + 2 + l /\ ItemAt(t, o, item) /\ o \in Nat
    BY <1>4, <2>1, Zenon
  <2>5. item \in Items /\ l \in Nat
    BY <1>a, <2>1, Zenon
  <2> HIDE DEF item, o
  <2>6. o + 2 + l <= c
    BY <2>3, <2>4, Zenon
  <2>7. ItemAt(e, o, item)
    <3>1. t[o + 1] = item.id /\ t[o + 2] = l /\ \A i \in 1..l : t[o + 2 + i] = item.val[i]
      BY <2>4, Zenon DEF ItemAt
    <3>2. o + 1 \in 1..c /\ o + 2 \in 1..c /\ \A i \in 1..l : o + 2 + i \in 1..c
      <4> HIDE DEF l
      <4> QED  BY <1>2, <2>4, <2>5, <2>6, SMT
    <3>3. e[o + 1] = item.id /\ e[o + 2] = l /\ \A i \in 1..l : e[o + 2 + i] = item.val[i]
      BY <1>2, <3>1, <3>2, Zenon
    <3> QED  BY <3>3, Zenon DEF ItemAt
  <2>8. WalkStep(e, w, o + 1) = Under(w[o + 2 + l + 1], item.id, item.val)
    <3>1. o + 2 + l <= Len(e)
      BY <1>2, <2>6, Zenon
    <3>2. e \in Seq(Nat)
      BY <1>2, Zenon
    <3> QED  BY <2>4, <2>5, <2>7, <3>1, <3>2, WalkItem, ZenonT(60)
  <2>9. o + 1 \in 1..(c + 1) /\ o <= c
    <3> HIDE DEF l
    <3> QED  BY <1>2, <2>4, <2>5, <2>6, SMT
  <2>10. w[o + 1] = Under(w[a(k + 1) + 1], item.id, item.val)
    BY <1>3, <2>4, <2>8, <2>9, Zenon
  <2>11. Holds(Under(w[a(k + 1) + 1], items[k + 1].id, items[k + 1].val), items, k, n)
    BY <1>5, <2>1, <2>3, HoldsMore, Zenon
  <2>12. Holds(w[o + 1], items, k, n)
    BY <2>10, <2>11, Zenon DEF item
  <2> QED  BY <2>9, <2>12 DEF o, k
<1>9. n \in S
  <2> HIDE DEF S
  <2>1. Nat \subseteq S
    BY <1>7, <1>8, SetInduction, Zenon
  <2> QED  BY <1>5, <2>1, Zenon
<1>10. n - n = 0 /\ 0 + 1 = 1 /\ n <= n
  BY <1>5, SMT
<1>11. Holds(w[a(0) + 1], items, 0, n)
  BY <1>9, <1>10, Zenon
<1> QED  BY <1>3, <1>4, <1>10, <1>11, Zenon

\* The largest of some numbers up to n.
LEMMA MaxOf ==
  ASSUME NEW n \in Nat, NEW S, S \subseteq 0..n, 0 \in S
  PROVE  Max(S) \in S /\ \A k \in S : k <= Max(S)
<1> DEFINE R == {n - k : k \in S}
<1>a. ASSUME NEW k \in S PROVE n - k \in Nat
  <2>1. k \in 0..n
    OBVIOUS
  <2> QED  BY <2>1, SMT
<1>1. R \subseteq Nat /\ R # {}
  BY <1>a, Zenon
<1>2. PICK r \in R : \A q \in R : r <= q
  <2> HIDE DEF R
  <2> QED  BY <1>1, Least
<1>3. PICK m \in S : r = n - m
  OBVIOUS
<1>4. ASSUME NEW k \in S PROVE k <= m
  <2>1. n - k \in R /\ k \in Int /\ m \in Int
    BY SMT
  <2>2. r <= n - k
    BY <1>2, <2>1, Zenon
  <2> QED  BY <1>3, <2>1, <2>2, SMT
<1>5. S \in SUBSET Int
  BY SMT
<1>6. Max(S) = m
  BY <1>4, <1>5, MaxIs, Zenon
<1> QED  BY <1>4, <1>6, Zenon

\* The items Whole counts.
LEMMA WholeItems ==
  ASSUME NEW m, m.items \in Seq(Items), NEW c \in Nat, m.cut = c + 28
  PROVE  \E n \in 0..Len(m.items) :
           /\ Whole(m) = SubSeq(m.items, 1, n) /\ Reach(m.items, n) <= c
           /\ n < Len(m.items) => Reach(m.items, n + 1) > c
<1> DEFINE items == m.items
           N == Len(items)
           size(k) == 28 + Reach(items, k)
           S == {k \in 0..N : k = 0 \/ size(k) <= m.cut}
           n == Max(S)
<1>1. N \in Nat
  OBVIOUS
<1>2. Reach(items, 0) = 0 /\ \A k \in 0..N : Reach(items, k) \in Nat
  BY ItemsInPlace, Zenon
<1>3. Whole(m) = SubSeq(items, 1, n)
  BY DEF Whole, Reach
<1> HIDE DEF items, N
<1>4. \A k \in 0..N : k \in S <=> Reach(items, k) <= c
  BY <1>1, <1>2, SMT
<1>5. 0 \in S /\ S \subseteq 0..N
  BY <1>1, SMT
<1> HIDE DEF S
<1>6. n \in S /\ \A k \in S : k <= n
  BY <1>1, <1>5, MaxOf, Zenon
<1> HIDE DEF n
<1>7. n \in 0..N /\ Reach(items, n) <= c
  BY <1>4, <1>5, <1>6, Zenon
<1>8. ASSUME n < N PROVE Reach(items, n + 1) > c
  <2>1. n + 1 \in 0..N /\ ~(n + 1 <= n)
    BY <1>1, <1>7, <1>8, SMT
  <2>2. ~(Reach(items, n + 1) <= c) /\ Reach(items, n + 1) \in Nat
    BY <1>2, <1>4, <1>6, <2>1, Zenon
  <2> QED  BY <2>2, SMT
<1> QED  BY <1>3, <1>7, <1>8, Zenon DEF items, N

\* DecodeLocation and PublishLocation: a report of any items, cut anywhere,
\* gives the items it holds as a whole, the later of two with one id, and
\* nothing of the one that is cut; if the fixed part is cut, no entry.
THEOREM ExtrasCorrect == Spec => []ExtrasComplete
<1>1. Relaying /\ [Next]_vars => Relaying'
  BY RelayingStep
<1>2. Relaying => ExtrasComplete
  <2> SUFFICES ASSUME Relaying, Handled("report")
               PROVE  ExtrasComplete
    BY Zenon DEF ExtrasComplete
  <2> DEFINE b == msg.body
             items == msg.items
             t == TLVs(items)
             e == entries[1]
             whole == Whole(msg)
  <2>1. /\ msg.head \in Headers /\ items \in Seq(Items)
        /\ msg.cut \in 27..Len(FixedPart(msg.head) \o t)
        /\ b = SubSeq(FixedPart(msg.head) \o t, 1, msg.cut)
    BY Zenon DEF Relaying, Relayed, Handled, FullReport
  <2>2. PICK ph : entries = IF Decodable(b) THEN <<PublishLocation(ph, DecodeLocation(b))>>
                            ELSE <<>>
    BY Zenon DEF Relaying, Relayed, Handled
  <2>3. Arrived(b, msg.cut, t)
    <3> HIDE DEF b
    <3> QED  BY <2>1, ReportCut, Zenon
  <2>4. msg.cut \in Int
    <3> HIDE DEF t
    <3> QED  BY <2>1
  <2> HIDE DEF b, t
  <2>5. CASE msg.cut < 28
    <3>1. ~Decodable(b)
      BY <2>3, <2>4, <2>5 DEF Arrived
    <3>2. entries = <<>>
      BY <2>2, <3>1, Zenon
    <3> QED  BY <2>5, <3>2 DEF ExtrasComplete
  <2>6. CASE ~(msg.cut < 28)
    <3> DEFINE c == msg.cut - 28
               x == Extras(Additional(b))
    <3>1. /\ c \in 0..Len(t) /\ c \in Nat /\ Additional(b) = SubSeq(t, 1, c)
          /\ Decodable(b) /\ msg.cut = c + 28
      BY <2>3, <2>4, <2>6 DEF Arrived
    <3> HIDE DEF c
    <3>2. entries = <<PublishLocation(ph, DecodeLocation(b))>>
      BY <2>2, <3>1, Zenon
    <3>3. e = PublishLocation(ph, DecodeLocation(b))
      BY <3>2
    <3> HIDE DEF e
    <3>4. e.extras = x
      <4>1. ShowsItems(e, x, b)
        BY <3>3, EntryItems, Zenon
      <4> HIDE DEF x
      <4> QED  BY <4>1 DEF ShowsItems
    <3>5. PICK n \in 0..Len(items) :
            /\ whole = SubSeq(items, 1, n) /\ Reach(items, n) <= c
            /\ n < Len(items) => Reach(items, n + 1) > c
      BY <2>1, <3>1, WholeItems
    <3>6. Holds(x, items, 0, n)
      BY <2>1, <3>1, <3>5, ItemsWalked, Zenon DEF t
    <3> HIDE DEF x
    <3>7. DOMAIN whole = 1..n /\ \A i \in 1..n : whole[i] = items[i]
      <4> HIDE DEF whole, items
      <4> QED  BY <2>1, <3>5, SMT
    <3> HIDE DEF whole, items
    <3>8. 0 + 1 = 1
      BY SMT
    <3>9. /\ DOMAIN x = {items[i].id : i \in 1..n}
          /\ \A i \in 1..n :
               (\A j \in 1..n : j > i => items[j].id # items[i].id)
                 => x[items[i].id] = items[i].val
      BY <3>6, <3>8, Zenon DEF Holds
    <3>10. /\ DOMAIN e.extras = {whole[i].id : i \in DOMAIN whole}
           /\ \A i \in DOMAIN whole :
                (\A j \in DOMAIN whole : j > i => whole[j].id # whole[i].id)
                  => e.extras[whole[i].id] = whole[i].val
      <4>1. {whole[i].id : i \in 1..n} = {items[i].id : i \in 1..n}
        BY <3>7, Zenon
      <4>2. ASSUME NEW i \in 1..n, \A j \in 1..n : j > i => whole[j].id # whole[i].id
            PROVE  x[whole[i].id] = whole[i].val
        <5>1. \A j \in 1..n : j > i => items[j].id # items[i].id
          BY <3>7, <4>2, Zenon
        <5>2. x[items[i].id] = items[i].val
          BY <3>9, <5>1, Zenon
        <5> QED  BY <3>7, <5>2, Zenon
      <4> QED  BY <3>4, <3>7, <3>9, <4>1, <4>2, Zenon
    <3> QED  BY <2>6, <3>10 DEF ExtrasComplete, whole, e
  <2> QED  BY <2>5, <2>6
<1> QED  BY <1>1, <1>2, RelayingInit, PTL DEF Spec

-----------------------------------------------------------------------------
(* Batches.                                                                *)

\* The loop of handleBatchLocation at byte o: where it stops, the next
\* length field, the item, and a row of the recursive definition.
Quits(b, o) == o + 1 > Len(b) \/ ~PointFits(b, o, U16At(b, o))
Behind(b, o) == o + 2 + U16At(b, o)
PointAt(b, o) == SubSeq(b, o + 2, Behind(b, o) - 1)
BatchStep(b, n, w, i, o) ==
  IF i = n \/ Quits(b, o) THEN <<>> ELSE <<PointAt(b, o)>> \o w[i + 1][Behind(b, o)]
BatchWalk(b, n) ==
  CHOOSE w : w = [i \in 0..n |-> [o \in 4..(Len(b) + 1) |-> BatchStep(b, n, w, i, o)]]

\* An item that fits is followed by a position of the body.
LEMMA BatchStepTyped ==
  ASSUME NEW b \in Seq(Nat), NEW o \in 4..(Len(b) + 1), ~Quits(b, o)
  PROVE  /\ Behind(b, o) \in 4..(Len(b) + 1) /\ PointAt(b, o) \in Seq(Nat)
         /\ <<PointAt(b, o)>> \in Seq(Seq(Nat))
<1> DEFINE l == U16At(b, o)
<1>1. o \in 1..Len(b) /\ o + 1 \in 1..Len(b) /\ Len(b) \in Nat
  BY SMT DEF Quits
<1>2. b[o] \in Nat /\ b[o + 1] \in Nat
  BY <1>1
<1>3. l \in Nat
  BY <1>2, SMTT(60) DEF U16At
<1>4. o + 1 + l <= Len(b)
  BY Zenon DEF Quits, PointFits
<1>a. PointAt(b, o) = SubSeq(b, o + 2, (o + 2 + l) - 1) /\ Behind(b, o) = o + 2 + l
  BY Zenon DEF PointAt, Behind
<1> HIDE DEF l
<1>5. o + 2 + l \in 4..(Len(b) + 1)
  BY <1>1, <1>3, <1>4, SMT
<1>6. SubSeq(b, o + 2, (o + 2 + l) - 1) \in Seq(Nat)
  BY <1>1, <1>3, <1>4, SMT
<1>7. PointAt(b, o) \in Seq(Nat) /\ Behind(b, o) \in 4..(Len(b) + 1)
  BY <1>5, <1>6, <1>a, Zenon
<1> DEFINE p == PointAt(b, o)
<1> HIDE DEF p
<1>8. p \in Seq(Nat)
  BY <1>7 DEF p
<1>9. <<p>> \in Seq(Seq(Nat))
  BY <1>8
<1> QED  BY <1>7, <1>9 DEF p

\* The recursive definition has a solution: its rows, from the last, are the
\* rounds of a loop.
LEMMA BatchWalkExists ==
  ASSUME NEW b \in Seq(Nat), NEW n \in Nat
  PROVE  BatchWalk(b, n) =
           [i \in 0..n |-> [o \in 4..(Len(b) + 1) |-> BatchStep(b, n, BatchWalk(b, n), i, o)]]
<1> DEFINE O == 4..(Len(b) + 1)
           V == [O -> Seq(Seq(Nat))]
           row(r) == [o \in O |-> IF Quits(b, o) THEN <<>>
                                  ELSE <<PointAt(b, o)>> \o r[Behind(b, o)]]
           F == [k \in 1..n |-> [r \in V |-> row(r)]]
           v == [o \in O |-> <<>>]
<1>1. v \in V
  <2>1. <<>> \in Seq(Seq(Nat))
    OBVIOUS
  <2> QED  BY <2>1, Zenon
<1>2. ASSUME NEW r \in V PROVE row(r) \in V
  <2>1. ASSUME NEW o \in O
        PROVE  (IF Quits(b, o) THEN <<>> ELSE <<PointAt(b, o)>> \o r[Behind(b, o)])
                 \in Seq(Seq(Nat))
    <3>1. CASE Quits(b, o)
      BY <3>1
    <3>2. CASE ~Quits(b, o)
      <4> DEFINE x == <<PointAt(b, o)>>
                 y == r[Behind(b, o)]
      <4>1. Behind(b, o) \in O /\ x \in Seq(Seq(Nat))
        BY <3>2, BatchStepTyped, Zenon
      <4>2. y \in Seq(Seq(Nat))
        BY <4>1, Zenon
      <4> HIDE DEF x, y
      <4>3. x \o y \in Seq(Seq(Nat))
        BY <4>1, <4>2, Joined, Zenon
      <4> QED  BY <3>2, <4>3, Zenon DEF x, y
    <3> QED  BY <3>1, <3>2
  <2> QED  BY <2>1, Zenon
<1>3. F \in [1..n -> [V -> V]]
  <2> HIDE DEF V, row
  <2> QED  BY <1>2, Zenon
<1>4. PICK g \in [0..n -> V] : Rounds(g, F, v, n)
  <2> HIDE DEF V, F, v
  <2> QED  BY <1>1, <1>3, RoundsExist, Zenon
<1>5. g[0] = v /\ \A k \in 1..n : g[k] = F[k][g[k - 1]]
  BY <1>4, Zenon DEF Rounds
<1>6. \A k \in 1..n : g[k - 1] \in V
  <2>1. \A k \in 1..n : k - 1 \in 0..n
    BY SMT
  <2> HIDE DEF V
  <2> QED  BY <2>1, Zenon
<1>7. \A k \in 1..n : g[k] = row(g[k - 1])
  <2> HIDE DEF V, row
  <2> QED  BY <1>5, <1>6, Zenon
<1> DEFINE W == [i \in 0..n |-> g[n - i]]
<1>8. ASSUME NEW i \in 0..n PROVE W[i] = [o \in O |-> BatchStep(b, n, W, i, o)]
  <2>1. W[i] = g[n - i]
    BY Zenon
  <2>2. CASE i = n
    <3>1. n - i = 0
      BY <2>2, SMT
    <3>2. W[i] = v
      BY <1>5, <2>1, <3>1, Zenon
    <3> HIDE DEF W
    <3>3. \A o \in O : BatchStep(b, n, W, i, o) = <<>>
      BY <2>2, Zenon DEF BatchStep
    <3> QED  BY <3>2, <3>3, Zenon
  <2>3. CASE i # n
    <3> DEFINE k == n - i
    <3>1. k \in 1..n /\ i + 1 \in 0..n /\ n - (i + 1) = k - 1
      BY <2>3, SMT
    <3>2. W[i + 1] = g[k - 1]
      BY <3>1, Zenon
    <3>3. g[k] = row(g[k - 1])
      <4> HIDE DEF k, row
      <4> QED  BY <1>7, <3>1, Zenon
    <3>4. W[i] = row(W[i + 1])
      <4> HIDE DEF W, row, k
      <4> QED  BY <2>1, <3>2, <3>3, Zenon DEF k
    <3> HIDE DEF W
    <3>5. \A o \in O : BatchStep(b, n, W, i, o) =
            IF Quits(b, o) THEN <<>> ELSE <<PointAt(b, o)>> \o W[i + 1][Behind(b, o)]
      BY <2>3, Zenon DEF BatchStep
    <3> QED  BY <3>4, <3>5, Zenon
  <2> QED  BY <2>2, <2>3
<1>9. W = [i \in 0..n |-> [o \in O |-> BatchStep(b, n, W, i, o)]]
  <2>1. W = [i \in 0..n |-> W[i]]
    BY Zenon
  <2> HIDE DEF W
  <2> QED  BY <1>8, <2>1, Zenon
<1> HIDE DEF W
<1> QED  BY <1>9, Zenon DEF BatchWalk

LEMMA BatchWalkAt ==
  ASSUME NEW b \in Seq(Nat), NEW n \in Nat
  PROVE  \A i \in 0..n : \A o \in 4..(Len(b) + 1) :
           BatchWalk(b, n)[i][o] = BatchStep(b, n, BatchWalk(b, n), i, o)
<1> DEFINE w == BatchWalk(b, n)
           O == 4..(Len(b) + 1)
<1>1. w = [i \in 0..n |-> [o \in O |-> BatchStep(b, n, w, i, o)]]
  BY BatchWalkExists, Zenon
<1> HIDE DEF w, O
<1>2. ASSUME NEW u, w = [i \in 0..n |-> [o \in O |-> BatchStep(b, n, u, i, o)]],
             NEW i \in 0..n, NEW o \in O
      PROVE  w[i][o] = BatchStep(b, n, u, i, o)
  <2>1. w[i] = [p \in O |-> BatchStep(b, n, u, i, p)]
    BY <1>2, Zenon
  <2> QED  BY <2>1, Zenon
<1>3. \A i \in 0..n : \A o \in O : w[i][o] = BatchStep(b, n, w, i, o)
  BY <1>1, <1>2, Zenon
<1> QED  BY <1>3 DEF w, O

LEMMA BatchPointsWalk ==
  ASSUME NEW b, ~(Len(b) < 3), NEW n, n = U16At(b, 1)
  PROVE  BatchPoints(b) = BatchWalk(b, n)[0][4]
BY DEF BatchPoints, BatchWalk, BatchStep, Quits, Behind, PointAt

\* An item of a batch behind a bytes: its length field and its bytes.
PointIn(b, a, p) == In(b, a, U16(Len(p))) /\ In(b, a + 2, p)

LEMMA PointBytes ==
  ASSUME NEW p \in Points
  PROVE  /\ p \in Seq(Nat) /\ Len(p) \in Nat /\ Fits16(Len(p))
         /\ U16(Len(p)) \in Seq(Nat) /\ Len(U16(Len(p))) = 2
         /\ Prefixed(p) \in Seq(Nat) /\ Len(Prefixed(p)) = 2 + Len(p)
         /\ PointIn(Prefixed(p), 0, p)
<1>1. p \in Seq(Nat) /\ Len(p) < 2^16
  BY ReportAssumption, Zenon
<1>2. Len(p) \in Nat
  BY <1>1
<1> DEFINE n == Len(p)
           u == U16(n)
<1>3. Fits16(n)
  BY <1>1, <1>2, Zenon DEF Fits16
<1>4. u \in Seq(Nat) /\ Len(u) = 2
  BY <1>2, Bytes2, ZenonT(60)
<1>5. Prefixed(p) = u \o p
  BY Zenon DEF Prefixed
<1> HIDE DEF u
<1>6. u \o p \in Seq(Nat) /\ Len(u \o p) = 2 + n
  BY <1>1, <1>4, Join, Zenon
<1>7. In(u \o p, 2, p) /\ In(u \o p, 0, u)
  <2>1. In(u, 0, u)
    BY <1>4, SMT DEF In
  <2>2. 0 \in Nat
    BY SMT
  <2> QED  BY <1>1, <1>4, <2>1, <2>2, InJoined, Zenon
<1>8. 0 + 2 = 2
  BY SMT
<1>9. PointIn(u \o p, 0, p)
  BY <1>7, <1>8, Zenon DEF PointIn, u
<1> QED  BY <1>1, <1>2, <1>3, <1>4, <1>5, <1>6, <1>9, Zenon DEF u

\* What is in a part is in the whole.
LEMMA InWhole ==
  ASSUME NEW t, NEW a \in Nat, NEW x, Len(x) \in Nat, Len(t) \in Nat, a + Len(x) <= Len(t),
         \A i \in 1..Len(x) : t[a + i] = x[i],
         NEW m \in Nat, NEW u, In(x, m, u)
  PROVE  In(t, a + m, u)
<1>1. /\ u \in Seq(Nat) /\ Len(u) \in Nat /\ m + Len(u) <= Len(x)
      /\ \A i \in 1..Len(u) : x[m + i] = u[i]
  BY DEF In
<1>2. a + m + Len(u) <= Len(t)
  BY <1>1, SMT
<1>3. ASSUME NEW i \in 1..Len(u) PROVE t[a + m + i] = u[i]
  <2>1. m + i \in 1..Len(x) /\ a + m + i = a + (m + i)
    BY <1>1, SMT
  <2>2. t[a + (m + i)] = x[m + i] /\ x[m + i] = u[i]
    BY <1>1, <2>1, Zenon
  <2> QED  BY <2>1, <2>2, Zenon
<1> QED  BY <1>1, <1>2, <1>3, Zenon DEF In

\* How far the first k items reach, and the bytes of all.
PointsReach(points, k) == Len(FlattenSeq([i \in 1..k |-> Prefixed(points[i])]))
PointsBytes(points) == FlattenSeq([i \in DOMAIN points |-> Prefixed(points[i])])

LEMMA PointsTyped ==
  ASSUME NEW points \in Seq(Points), NEW n \in 0..Len(points)
  PROVE  [i \in 1..n |-> Prefixed(points[i])] \in Seq(Seq(Nat))
<1>1. ASSUME NEW i \in 1..n PROVE Prefixed(points[i]) \in Seq(Nat)
  <2>1. points[i] \in Points
    BY SMT
  <2> QED  BY <2>1, PointBytes, Zenon
<1>2. n \in Nat
  BY SMT
<1> QED  BY <1>1, <1>2, SMT

\* Each item begins where the ones before it end.
LEMMA PointsInPlace ==
  ASSUME NEW points \in Seq(Points)
  PROVE  /\ PointsBytes(points) \in Seq(Nat)
         /\ PointsReach(points, 0) = 0
         /\ PointsReach(points, Len(points)) = Len(PointsBytes(points))
         /\ \A k \in 0..Len(points) : PointsReach(points, k) \in Nat
         /\ \A k \in 1..Len(points) :
              /\ PointsReach(points, k) = PointsReach(points, k - 1) + 2 + Len(points[k])
              /\ PointIn(PointsBytes(points), PointsReach(points, k - 1), points[k])
<1> DEFINE N == Len(points)
           s == [i \in 1..N |-> Prefixed(points[i])]
           t == PointsBytes(points)
<1>0. N \in Nat /\ N \in 0..N /\ DOMAIN points = 1..N
  OBVIOUS
<1>1. s \in Seq(Seq(Nat)) /\ Len(s) = N /\ \A k \in 1..N : s[k] = Prefixed(points[k])
  <2>1. s \in Seq(Seq(Nat))
    BY <1>0, PointsTyped, Zenon
  <2>2. Len(s) = N
    BY <1>0
  <2> QED  BY <2>1, <2>2
<1>2. PICK g \in [0..Len(s) -> Seq(Nat)] : Sums(g, s)
  <2> HIDE DEF s
  <2> QED  BY <1>1, SumsExist
<1>3. ASSUME NEW k \in 0..N PROVE PointsReach(points, k) = Len(g[k])
  <2> DEFINE p == [i \in 1..k |-> Prefixed(points[i])]
  <2>1. p \in Seq(Seq(Nat)) /\ Len(p) = k /\ \A i \in 1..k : p[i] = s[i]
    <3>1. p \in Seq(Seq(Nat))
      BY PointsTyped, Zenon
    <3>2. Len(p) = k /\ \A i \in 1..k : i \in 1..N
      BY <1>0
    <3> QED  BY <3>1, <3>2
  <2> HIDE DEF p, s
  <2>2. k \in 0..Len(s)
    BY <1>1
  <2>3. FlattenSeq(p) = g[k]
    BY <1>1, <1>2, <2>1, <2>2, FlattenPrefix, SMTT(60)
  <2> QED  BY <2>3 DEF PointsReach, p
<1>4. t = g[N] /\ t \in Seq(Nat)
  <2>1. t = FlattenSeq(s)
    BY <1>0, Zenon DEF PointsBytes
  <2> HIDE DEF s, t
  <2>2. t = g[N]
    BY <1>1, <1>2, <2>1, FlattenSums
  <2>3. t \in Seq(Nat)
    BY <1>1, <2>1, FlattenType
  <2> QED  BY <2>2, <2>3
<1> HIDE DEF s, t
<1>5. PointsReach(points, 0) = 0
  <2>1. 0 \in 0..N /\ g[0] = <<>>
    BY <1>0, <1>2 DEF Sums
  <2>2. Len(<<>>) = 0
    OBVIOUS
  <2> QED  BY <1>3, <2>1, <2>2, Zenon
<1>6. ASSUME NEW k \in 0..N PROVE Len(g[k]) \in Nat
  BY <1>1, <1>2
<1>7. ASSUME NEW k \in 1..N
      PROVE  /\ PointsReach(points, k) = PointsReach(points, k - 1) + 2 + Len(points[k])
             /\ PointIn(t, PointsReach(points, k - 1), points[k])
  <2> DEFINE p == points[k]
             a == Len(g[k - 1])
             n == Len(p)
             b == Prefixed(p)
  <2>1. p \in Points
    BY <1>0
  <2>2. k \in 0..N /\ k - 1 \in 0..N
    BY <1>0
  <2>3. PointsReach(points, k) = Len(g[k]) /\ PointsReach(points, k - 1) = a /\ a \in Nat
    BY <1>3, <1>6, <2>2, Zenon
  <2>4. s[k] = b
    BY <1>1, Zenon
  <2> HIDE DEF p, a
  <2>5. b \in Seq(Nat) /\ Len(b) = 2 + n /\ n \in Nat /\ PointIn(b, 0, p)
    BY <2>1, PointBytes, Zenon
  <2>6. /\ Len(g[k]) = a + Len(b) /\ Len(g[k]) <= Len(t)
        /\ \A i \in 1..Len(b) : t[a + i] = b[i]
    <3>1. Placed(g, s, k, t)
      <4>1. k \in 1..Len(s) /\ t = g[Len(s)] /\ s \in Seq(Seq(Nat))
        BY <1>1, <1>4, Zenon
      <4> QED  BY <1>2, <4>1, SumsAt, Zenon
    <3> HIDE DEF b
    <3> QED  BY <2>4, <3>1, Zenon DEF a, Placed
  <2>7. Len(g[k]) = a + 2 + n
    <3>1. a \in Nat /\ n \in Nat /\ Len(g[k]) = a + (2 + n)
      BY <2>3, <2>5, <2>6, Zenon
    <3> HIDE DEF n
    <3> QED  BY <3>1, SMT
  <2>8. PointIn(t, a, p)
    <3>1. Len(b) \in Nat /\ Len(t) \in Nat /\ a + Len(b) <= Len(t)
      <4>1. b \in Seq(Nat) /\ t \in Seq(Nat) /\ Len(g[k]) = a + Len(b) /\ Len(g[k]) <= Len(t)
        BY <1>4, <2>5, <2>6, Zenon
      <4> HIDE DEF b
      <4> QED  BY <4>1
    <3>2. In(b, 0, U16(n)) /\ In(b, 0 + 2, p)
      BY <2>5, Zenon DEF PointIn
    <3>3. 0 \in Nat /\ 0 + 2 \in Nat /\ a + 0 = a /\ a + (0 + 2) = a + 2
      BY <2>3, SMT
    <3> HIDE DEF b
    <3>4. In(t, a + 0, U16(n)) /\ In(t, a + (0 + 2), p)
      BY <2>3, <2>6, <3>1, <3>2, <3>3, InWhole, Zenon
    <3> QED  BY <3>3, <3>4, Zenon DEF PointIn
  <2> QED  BY <2>3, <2>7, <2>8 DEF p
<1>8. \A k \in 0..N : PointsReach(points, k) \in Nat
  BY <1>3, <1>6, Zenon
<1>9. PointsReach(points, N) = Len(t)
  BY <1>0, <1>3, <1>4, Zenon
<1> QED  BY <1>4, <1>5, <1>7, <1>8, <1>9, Zenon DEF t

\* The body that arrives of a batch: the count, and each item that was not
\* cut, or at least its length field.
BatchArrived(b, cut, points, count) ==
  /\ b \in Seq(Nat) /\ Len(b) = cut /\ U16At(b, 1) = count
  /\ cut <= 3 + PointsReach(points, Len(points))
  /\ \A k \in 1..Len(points) :
       LET o == 3 + PointsReach(points, k - 1) IN
       /\ o + 2 <= cut => U16At(b, o + 1) = Len(points[k])
       /\ o + 2 + Len(points[k]) <= cut => In(b, o + 2, points[k])

LEMMA BatchCut ==
  ASSUME NEW points \in Seq(Points), NEW count \in 0..(MaxPoints + 1),
         NEW cut \in 2..Len(BatchBody(points, count)), NEW b,
         b = SubSeq(BatchBody(points, count), 1, cut)
  PROVE  BatchArrived(b, cut, points, count)
<1> DEFINE t == PointsBytes(points)
           zero == <<0>>
           h == U16(count) \o zero
           full == h \o t
           a(k) == PointsReach(points, k)
           N == Len(points)
<1>1. /\ t \in Seq(Nat) /\ a(0) = 0 /\ a(N) = Len(t)
      /\ \A k \in 0..N : a(k) \in Nat
      /\ \A k \in 1..N : a(k) = a(k - 1) + 2 + Len(points[k]) /\ PointIn(t, a(k - 1), points[k])
  BY PointsInPlace, Zenon
<1>2. BatchBody(points, count) = full
  BY Zenon DEF BatchBody, PointsBytes
<1>3. count \in Nat /\ Fits16(count)
  <2>1. MaxPoints + 1 < 2^16 /\ MaxPoints \in Nat
    BY ReportAssumption, TelemetryAssumption, Zenon
  <2>2. 2^16 = 65536
    BY SMT
  <2>3. count \in Nat /\ count < 65536
    BY <2>1, <2>2, SMT
  <2> QED  BY <2>2, <2>3, SMT DEF Fits16
<1>4. U16(count) \in Seq(Nat) /\ Len(U16(count)) = 2 /\ zero \in Seq(Nat) /\ Len(zero) = 1
  <2>1. zero \in Seq(Nat) /\ Len(zero) = 1
    BY SMT
  <2> QED  BY <1>3, <2>1, Bytes2, Zenon
<1> HIDE DEF zero, t
<1>5. h \in Seq(Nat) /\ Len(h) = 3 /\ In(h, 0, U16(count))
  <2>1. h \in Seq(Nat) /\ Len(h) = 2 + 1
    BY <1>4, Join, Zenon
  <2>2. In(U16(count), 0, U16(count))
    BY <1>4, SMT DEF In
  <2>3. 0 \in Nat /\ 2 + 1 = 3
    BY SMT
  <2>4. In(h, 0, U16(count))
    BY <1>4, <2>2, <2>3, InJoined, Zenon
  <2> QED  BY <2>1, <2>3, <2>4, Zenon
<1> HIDE DEF h
<1>6. full \in Seq(Nat) /\ JoinOf(full, h, t)
  <2>1. Joins(Nat)
    BY JoinsAll, Zenon
  <2> QED  BY <1>1, <1>5, <2>1, Zenon DEF Joins
<1>7. In(full, 0, U16(count))
  <2>1. 0 \in Nat
    BY SMT
  <2> QED  BY <1>1, <1>5, <2>1, InJoined, Zenon
<1> HIDE DEF full
<1>8. /\ Len(full) = 3 + Len(t) /\ Len(t) \in Nat /\ Len(full) \in Nat
      /\ \A i \in 1..Len(t) : full[3 + i] = t[i]
  BY <1>1, <1>5, <1>6, SMT DEF JoinOf
<1>9. cut \in Nat /\ 2 <= cut /\ cut <= Len(full) /\ b = SubSeq(full, 1, cut)
  <2>1. cut \in 2..Len(full) /\ b = SubSeq(full, 1, cut)
    BY <1>2, Zenon
  <2> QED  BY <1>8, <2>1, SMT
<1>10. b \in Seq(Nat) /\ Len(b) = cut /\ \A i \in 1..cut : b[i] = full[i]
  BY <1>6, <1>9, SMT
\* What is in the whole and not cut is in the body.
<1>11. ASSUME NEW m \in Nat, NEW u, In(full, m, u), m + Len(u) <= cut
       PROVE  In(b, m, u)
  <2>1. /\ u \in Seq(Nat) /\ Len(u) \in Nat
        /\ \A i \in 1..Len(u) : full[m + i] = u[i]
    BY <1>11 DEF In
  <2>2. \A i \in 1..Len(u) : m + i \in 1..cut
    BY <1>9, <1>11, <2>1, SMT
  <2>3. \A i \in 1..Len(u) : b[m + i] = u[i]
    BY <1>10, <2>1, <2>2, Zenon
  <2>4. m + Len(u) <= Len(b)
    BY <1>10, <1>11, Zenon
  <2> QED  BY <2>1, <2>3, <2>4, Zenon DEF In
<1>12. U16At(b, 1) = count
  <2>1. 0 \in Nat /\ 0 + Len(U16(count)) <= cut /\ 0 + 1 = 1
    BY <1>4, <1>9, SMT
  <2>2. In(b, 0, U16(count))
    BY <1>7, <1>11, <2>1, Zenon
  <2>3. U16At(b, 0 + 1) = count
    BY <1>3, <2>1, <2>2, Read16, Zenon
  <2> QED  BY <2>1, <2>3, Zenon
<1>13. cut <= 3 + a(N)
  BY <1>1, <1>8, <1>9, Zenon
<1>14. ASSUME NEW k \in 1..N
       PROVE  LET o == 3 + a(k - 1) IN
              /\ o + 2 <= cut => U16At(b, o + 1) = Len(points[k])
              /\ o + 2 + Len(points[k]) <= cut => In(b, o + 2, points[k])
  <2> DEFINE p == points[k]
             r == a(k - 1)
             o == 3 + r
  <2>1. p \in Points /\ k - 1 \in 0..N
    BY SMT
  <2>2. r \in Nat /\ PointIn(t, r, p)
    BY <1>1, <2>1, Zenon
  <2> HIDE DEF p, r
  <2>3. In(t, r, U16(Len(p))) /\ In(t, r + 2, p)
    BY <2>2, Zenon DEF PointIn
  <2>4. /\ p \in Seq(Nat) /\ Len(p) \in Nat /\ Fits16(Len(p))
        /\ Len(U16(Len(p))) = 2
    BY <2>1, PointBytes, Zenon
  <2>5. 3 \in Nat /\ o \in Nat /\ o + 2 \in Nat /\ r + 2 \in Nat /\ 3 + (r + 2) = o + 2
    BY <2>2, SMT
  <2>a. 3 + Len(t) <= Len(full)
    BY <1>8, SMT
  <2>6. In(full, o, U16(Len(p))) /\ In(full, 3 + (r + 2), p)
    BY <1>8, <2>2, <2>3, <2>5, <2>a, InWhole, Zenon
  <2> HIDE DEF o
  <2>7. ASSUME o + 2 <= cut PROVE U16At(b, o + 1) = Len(p)
    <3>1. In(b, o, U16(Len(p)))
      BY <1>11, <2>4, <2>5, <2>6, <2>7, Zenon
    <3> QED  BY <2>4, <2>5, <3>1, Read16, Zenon
  <2>8. ASSUME o + 2 + Len(p) <= cut PROVE In(b, o + 2, p)
    BY <1>11, <2>5, <2>6, <2>8, Zenon
  <2> QED  BY <2>7, <2>8 DEF o, r, p
<1> QED  BY <1>10, <1>12, <1>13, <1>14, Zenon DEF BatchArrived

\* The loop at the length field of item k: it takes the item exactly if all
\* of it arrived.
TakenIfWhole(b, cut, points, k) ==
  LET o == 4 + PointsReach(points, k - 1)
      q == PointsReach(points, k)
  IN /\ 3 + q > cut => Quits(b, o)
     /\ 3 + q <= cut =>
          ~Quits(b, o) /\ PointAt(b, o) = points[k] /\ Behind(b, o) = 4 + q

LEMMA PointRead ==
  ASSUME NEW points \in Seq(Points), NEW cut \in Nat, NEW count, NEW b,
         BatchArrived(b, cut, points, count), NEW k \in 1..Len(points)
  PROVE  TakenIfWhole(b, cut, points, k)
<1> DEFINE p == points[k]
           r == PointsReach(points, k - 1)
           q == PointsReach(points, k)
           l == Len(p)
           o == 4 + r
<1>1. p \in Points /\ k - 1 \in 0..Len(points)
  BY SMT
<1>2. r \in Nat /\ q = r + 2 + l
  BY <1>1, PointsInPlace, Zenon
<1>3. p \in Seq(Nat) /\ l \in Nat
  BY <1>1, PointBytes, Zenon
<1>4. /\ b \in Seq(Nat) /\ Len(b) = cut
      /\ 3 + r + 2 <= cut => U16At(b, 3 + r + 1) = l
      /\ 3 + r + 2 + l <= cut => In(b, 3 + r + 2, p)
  BY Zenon DEF BatchArrived
<1>a. o = 4 + r
  OBVIOUS
<1> HIDE DEF p, r, q, l, o
<1>5. 3 + r + 1 = o /\ 3 + r + 2 = o + 1 /\ o \in Nat /\ q \in Nat
  BY <1>2, <1>3, <1>a, SMT
<1>6. ASSUME 3 + q > cut PROVE Quits(b, o)
  <2>1. CASE o + 1 > cut
    BY <1>4, <2>1, Zenon DEF Quits
  <2>2. CASE ~(o + 1 > cut)
    <3>1. U16At(b, o) = l
      <4>1. o + 1 <= cut
        BY <1>5, <2>2, SMT
      <4> QED  BY <1>4, <1>5, <4>1, Zenon
    <3>2. ~(o + 1 + l <= Len(b))
      BY <1>2, <1>3, <1>4, <1>5, <1>6, <1>a, SMT
    <3> QED  BY <3>1, <3>2, Zenon DEF Quits, PointFits
  <2> QED  BY <2>1, <2>2
<1>7. ASSUME 3 + q <= cut
      PROVE  ~Quits(b, o) /\ PointAt(b, o) = p /\ Behind(b, o) = 4 + q
  <2>1. /\ 3 + r + 2 <= cut /\ 3 + r + 2 + l <= cut /\ ~(o + 1 > cut) /\ o + 1 + l <= cut
        /\ o + 2 + l = 4 + q /\ (4 + q) - 1 = (o + 1) + l /\ o + 2 = (o + 1) + 1 /\ o + 1 \in Nat
    <3>1. o \in Nat /\ l \in Nat /\ r \in Nat /\ o = 4 + r /\ q = r + 2 + l /\ 3 + q <= cut
      BY <1>2, <1>3, <1>5, <1>7, <1>a, Zenon
    <3>2. 3 + r + 2 <= cut /\ 3 + r + 2 + l <= cut /\ ~(o + 1 > cut) /\ o + 1 + l <= cut
      BY <3>1, SMT
    <3>3. o + 2 + l = 4 + q /\ (4 + q) - 1 = (o + 1) + l /\ o + 2 = (o + 1) + 1
      BY <3>1, SMT
    <3>4. o + 1 \in Nat
      BY <3>1, SMT
    <3> QED  BY <3>2, <3>3, <3>4, Zenon
  <2>2. U16At(b, o) = l /\ In(b, o + 1, p)
    BY <1>4, <1>5, <2>1, Zenon
  <2>3. ~Quits(b, o)
    BY <1>4, <2>1, <2>2, Zenon DEF Quits, PointFits
  <2>4. Behind(b, o) = 4 + q
    BY <2>1, <2>2, Zenon DEF Behind
  <2>5. SubSeq(b, (o + 1) + 1, (o + 1) + l) = p
    BY <1>4, <2>1, <2>2, InCut, Zenon DEF l
  <2>6. PointAt(b, o) = p
    BY <2>1, <2>4, <2>5, Zenon DEF PointAt
  <2> QED  BY <2>3, <2>4, <2>6, Zenon
<1> QED  BY <1>6, <1>7, Zenon DEF q, p, o, r, TakenIfWhole

\* handleBatchLocation over the items of a batch, cut: those that were
\* counted and arrived as a whole.
LEMMA BatchWalked ==
  ASSUME NEW points \in Seq(Points), NEW cut \in Nat, NEW count \in Nat, NEW b,
         BatchArrived(b, cut, points, count), cut >= 3,
         NEW n \in 0..Len(points), n <= count, 3 + PointsReach(points, n) <= cut,
         n < Len(points) /\ n < count => 3 + PointsReach(points, n + 1) > cut
  PROVE  BatchPoints(b) = SubSeq(points, 1, n)
<1> DEFINE w == BatchWalk(b, count)
           a(k) == PointsReach(points, k)
           N == Len(points)
           O == 4..(cut + 1)
<1>1. /\ b \in Seq(Nat) /\ Len(b) = cut /\ U16At(b, 1) = count
      /\ cut <= 3 + a(N)
  BY Zenon DEF BatchArrived
<1>2. BatchPoints(b) = w[0][4]
  <2>1. ~(Len(b) < 3) /\ count = U16At(b, 1)
    BY <1>1, SMT
  <2> QED  BY <2>1, BatchPointsWalk, Zenon
<1>3. \A i \in 0..count : \A o \in O : w[i][o] = BatchStep(b, count, w, i, o)
  BY <1>1, BatchWalkAt, Zenon
<1>4. /\ a(0) = 0 /\ \A k \in 0..N : a(k) \in Nat
      /\ \A k \in 1..N : a(k) = a(k - 1) + 2 + Len(points[k])
  BY PointsInPlace, Zenon
<1>5. N \in Nat /\ n \in Nat /\ n <= N /\ n <= count /\ 3 + a(n) <= cut
  BY SMT
<1>a. ASSUME NEW k \in 1..N
      PROVE  /\ 3 + a(k) > cut => Quits(b, 4 + a(k - 1))
             /\ 3 + a(k) <= cut =>
                  /\ ~Quits(b, 4 + a(k - 1)) /\ PointAt(b, 4 + a(k - 1)) = points[k]
                  /\ Behind(b, 4 + a(k - 1)) = 4 + a(k)
  <2>1. TakenIfWhole(b, cut, points, k)
    BY PointRead, Zenon
  <2> QED  BY <2>1, Zenon DEF TakenIfWhole
<1>b. n < N /\ n < count => 3 + a(n + 1) > cut
  OBVIOUS
<1>c. \A k \in 1..N : points[k] \in Points /\ Len(points[k]) \in Nat
  <2>1. \A k \in 1..N : points[k] \in Points
    OBVIOUS
  <2> QED  BY <2>1, PointBytes, Zenon
<1>d. SubSeq(points, n + 1, n) = <<>>
  <2> HIDE DEF N
  <2> QED  BY <1>5, SMT DEF N
<1> HIDE DEF w, a, N
<1>6. w[n][4 + a(n)] = <<>>
  <2> DEFINE o == 4 + a(n)
  <2>1. a(n) \in Nat /\ o \in O /\ n \in 0..count
    BY <1>4, <1>5, SMT
  <2>2. n = count \/ Quits(b, o)
    <3>1. CASE n = N
      <4>1. o + 1 > Len(b)
        BY <1>1, <1>5, <2>1, <3>1, SMT
      <4> QED  BY <4>1, Zenon DEF Quits
    <3>2. CASE n # N /\ n # count
      <4>1. n + 1 \in 1..N /\ (n + 1) - 1 = n /\ n < N /\ n < count
        BY <1>5, <3>2, SMT
      <4> QED  BY <1>a, <1>b, <4>1, Zenon
    <3> QED  BY <3>1, <3>2
  <2> HIDE DEF o
  <2>3. BatchStep(b, count, w, n, o) = <<>>
    BY <2>2, Zenon DEF BatchStep
  <2>4. w[n][o] = <<>>
    BY <1>3, <2>1, <2>3, Zenon
  <2> QED  BY <2>4 DEF o
<1> DEFINE S == {m \in Nat : m <= n =>
                   /\ 3 + a(n - m) <= cut
                   /\ w[n - m][4 + a(n - m)] = SubSeq(points, n - m + 1, n)}
<1>7. 0 \in S
  <2>1. n - 0 = n /\ 0 \in Nat
    BY <1>5, SMT
  <2> QED  BY <1>5, <1>6, <1>d, <2>1, Zenon
<1>8. ASSUME NEW m \in Nat, m \in S PROVE m + 1 \in S
  <2> SUFFICES ASSUME m + 1 <= n
               PROVE  /\ 3 + a(n - (m + 1)) <= cut
                      /\ w[n - (m + 1)][4 + a(n - (m + 1))] =
                           SubSeq(points, n - (m + 1) + 1, n)
    BY SMT
  <2> DEFINE k == n - (m + 1)
             j == k + 1
             o == 4 + a(k)
  <2>1. /\ k \in Nat /\ j = n - m /\ j \in 1..N /\ j - 1 = k /\ k \in 0..N /\ m <= n
        /\ k \in 0..count /\ k # count /\ j <= n /\ n \in j..N
    BY <1>5, SMT
  <2>2. 3 + a(n - m) <= cut /\ w[n - m][4 + a(n - m)] = SubSeq(points, n - m + 1, n)
    BY <1>8, <2>1, Zenon
  <2>3. 3 + a(j) <= cut /\ w[j][4 + a(j)] = SubSeq(points, j + 1, n)
    BY <2>1, <2>2, Zenon
  <2>4. a(j) = a(k) + 2 + Len(points[j]) /\ a(k) \in Nat /\ Len(points[j]) \in Nat
    <3> HIDE DEF k, j
    <3> QED  BY <1>4, <1>c, <2>1, Zenon
  <2>5. 3 + a(k) <= cut /\ o \in O
    <3> DEFINE l == Len(points[j])
               r == a(k)
    <3>1. a(j) = r + 2 + l /\ r \in Nat /\ l \in Nat /\ 3 + a(j) <= cut
      BY <2>3, <2>4, Zenon
    <3> HIDE DEF l, r, j
    <3>2. 3 + r <= cut /\ 4 + r \in O
      BY <3>1, SMT
    <3> QED  BY <3>2 DEF r
  <2> HIDE DEF k
  <2>6. ~Quits(b, o) /\ PointAt(b, o) = points[j] /\ Behind(b, o) = 4 + a(j)
    <3> HIDE DEF j
    <3> QED  BY <1>a, <2>1, <2>3, Zenon
  <2> HIDE DEF o
  <2>7. BatchStep(b, count, w, k, o) = <<points[j]>> \o w[j][4 + a(j)]
    BY <2>1, <2>6, Zenon DEF BatchStep
  <2>8. w[k][o] = <<points[j]>> \o SubSeq(points, j + 1, n)
    <3> HIDE DEF j
    <3> QED  BY <1>3, <2>1, <2>3, <2>5, <2>7, Zenon
  <2>9. <<points[j]>> \o SubSeq(points, j + 1, n) = SubSeq(points, j, n)
    <3> HIDE DEF j
    <3>1. j \in 1..Len(points) /\ n \in j..Len(points)
      BY <2>1, Zenon DEF N
    <3> QED  BY <3>1, SuffixNext, Zenon
  <2>10. w[k][o] = SubSeq(points, k + 1, n)
    BY <2>8, <2>9, Zenon
  <2> QED  BY <2>5, <2>10, Zenon DEF o, k
<1>9. n \in S
  <2> HIDE DEF S
  <2>1. Nat \subseteq S
    BY <1>7, <1>8, SetInduction, Zenon
  <2> QED  BY <1>5, <2>1, Zenon
<1>10. n - n = 0 /\ 0 + 1 = 1 /\ n <= n /\ 4 + 0 = 4
  BY <1>5, SMT
<1>11. w[0][4 + a(0)] = SubSeq(points, 0 + 1, n)
  BY <1>9, <1>10, Zenon
<1> QED  BY <1>2, <1>4, <1>10, <1>11, Zenon

\* How many items were counted and arrived as a whole.
Delivered(points, count, cut) ==
  Max({j \in 0..Len(points) :
         j = 0 \/ (j <= count /\ 3 + PointsReach(points, j) <= cut)})

\* Those are the items the loop finds.
FoundIn(b, points, n) == n \in 0..Len(points) /\ BatchPoints(b) = SubSeq(points, 1, n)

LEMMA BatchFound ==
  ASSUME NEW points \in Seq(Points), NEW count \in 0..(MaxPoints + 1),
         NEW cut \in 2..Len(BatchBody(points, count)), NEW b,
         b = SubSeq(BatchBody(points, count), 1, cut),
         NEW n, n = Delivered(points, count, cut)
  PROVE  FoundIn(b, points, n)
<1> DEFINE N == Len(points)
           a(k) == PointsReach(points, k)
           S == {j \in 0..N : j = 0 \/ (j <= count /\ 3 + a(j) <= cut)}
<1>1. BatchArrived(b, cut, points, count)
  BY BatchCut, Zenon
<1>2. count \in Nat /\ cut \in Nat /\ cut >= 2 /\ N \in Nat
  <2> DEFINE L == Len(BatchBody(points, count))
  <2>1. cut \in 2..L
    OBVIOUS
  <2>2. MaxPoints \in Nat
    BY TelemetryAssumption, Zenon
  <2> HIDE DEF L
  <2> QED  BY <2>1, <2>2, SMT
<1>3. a(0) = 0 /\ \A k \in 0..N : a(k) \in Nat
  BY PointsInPlace, Zenon
<1>4. n = Max(S)
  BY Zenon DEF Delivered
<1> HIDE DEF N, a
<1>5. 0 \in S /\ S \subseteq 0..N
  BY <1>2, SMT
<1>6. n \in S /\ \A k \in S : k <= n
  <2> HIDE DEF S
  <2> QED  BY <1>2, <1>4, <1>5, MaxOf, Zenon
<1>7. n \in 0..N
  BY <1>5, <1>6, Zenon
<1>8. CASE cut < 3
  <2>1. n = 0
    <3>1. ASSUME n # 0 PROVE FALSE
      <4>1. 3 + a(n) <= cut /\ a(n) \in Nat
        BY <1>3, <1>6, <1>7, <3>1, Zenon
      <4> QED  BY <1>2, <1>8, <4>1, SMT
    <3> QED  BY <3>1
  <2>2. Len(b) < 3
    BY <1>1, <1>8, Zenon DEF BatchArrived
  <2>3. BatchPoints(b) = <<>>
    BY <2>2, Zenon DEF BatchPoints
  <2>4. SubSeq(points, 1, 0) = <<>>
    BY SMT
  <2> QED  BY <1>7, <2>1, <2>3, <2>4, Zenon DEF N, FoundIn
<1>9. CASE ~(cut < 3)
  <2>1. cut >= 3 /\ n \in Nat
    BY <1>2, <1>7, <1>9, SMT
  <2>2. n <= count /\ 3 + a(n) <= cut
    <3>1. CASE n = 0
      <4>1. 0 <= count /\ 3 + 0 <= cut
        BY <1>2, <2>1, SMT
      <4> QED  BY <1>3, <3>1, <4>1, Zenon
    <3>2. CASE n # 0
      BY <1>6, <3>2, Zenon
    <3> QED  BY <3>1, <3>2
  <2>3. ASSUME n < N, n < count PROVE 3 + a(n + 1) > cut
    <3>1. n + 1 \in 0..N /\ ~(n + 1 <= n) /\ n + 1 <= count
      BY <1>2, <2>1, <2>3, SMT
    <3>2. ~(3 + a(n + 1) <= cut) /\ a(n + 1) \in Nat
      BY <1>3, <1>6, <3>1, Zenon
    <3> DEFINE r == a(n + 1)
    <3> HIDE DEF r
    <3>3. 3 + r > cut
      BY <1>2, <3>2, SMT DEF r
    <3> QED  BY <3>3 DEF r
  <2> HIDE DEF S
  <2>4. BatchPoints(b) = SubSeq(points, 1, n)
    BY <1>1, <1>2, <1>7, <2>1, <2>2, <2>3, BatchWalked, ZenonT(60) DEF N, a
  <2> QED  BY <1>7, <2>4, Zenon DEF N, FoundIn
<1> QED  BY <1>8, <1>9

\* The locations among the first n items of a batch.
Locations(points, n) ==
  FlattenSeq([i \in 1..n |-> IF Len(points[i]) < 28 THEN <<>> ELSE <<points[i]>>])

LEMMA LocatedThose ==
  ASSUME NEW points \in Seq(Points), NEW n \in 0..Len(points)
  PROVE  /\ Located(SubSeq(points, 1, n)) = Locations(points, n)
         /\ Locations(points, n) \in Seq(Seq(Nat))
<1> DEFINE found == SubSeq(points, 1, n)
           part(p) == IF Len(p) < 28 THEN <<>> ELSE <<p>>
           s == [i \in 1..n |-> part(points[i])]
<1>1. DOMAIN found = 1..n /\ \A i \in 1..n : found[i] = points[i]
  OBVIOUS
<1>2. ASSUME NEW i \in 1..n PROVE points[i] \in Seq(Nat) /\ Len(points[i]) \in Nat
  <2>1. points[i] \in Points
    OBVIOUS
  <2> QED  BY <2>1, PointBytes, Zenon
<1> HIDE DEF found
<1>3. ASSUME NEW i \in 1..n
      PROVE  /\ (IF Decodable(found[i]) THEN <<found[i]>> ELSE <<>>) = part(points[i])
             /\ part(points[i]) \in Seq(Seq(Nat))
  <2> DEFINE p == points[i]
  <2>1. found[i] = p /\ p \in Seq(Nat) /\ Len(p) \in Nat
    BY <1>1, <1>2, Zenon
  <2> HIDE DEF p
  <2>2. Decodable(p) <=> ~(Len(p) < 28)
    BY <2>1, SMT DEF Decodable
  <2>3. part(p) \in Seq(Seq(Nat))
    BY <2>1
  <2>4. CASE Len(p) < 28
    BY <2>1, <2>2, <2>3, <2>4 DEF p
  <2>5. CASE ~(Len(p) < 28)
    BY <2>1, <2>2, <2>3, <2>5 DEF p
  <2> QED  BY <2>4, <2>5
<1>4. [i \in DOMAIN found |-> IF Decodable(found[i]) THEN <<found[i]>> ELSE <<>>] = s
  <2> HIDE DEF part
  <2> QED  BY <1>1, <1>3, Zenon
<1>5. Located(found) = FlattenSeq(s)
  <2> HIDE DEF s
  <2> QED  BY <1>4, Zenon DEF Located
<1>6. s \in Seq(Seq(Seq(Nat)))
  <2> HIDE DEF part
  <2>1. \A i \in 1..n : part(points[i]) \in Seq(Seq(Nat))
    BY <1>3, Zenon
  <2>2. n \in Nat
    OBVIOUS
  <2> DEFINE B == Seq(Seq(Nat))
  <2>3. s \in [1..n -> B]
    BY <2>1, Zenon
  <2> HIDE DEF s, B
  <2>4. s \in Seq(B)
    BY <2>2, <2>3
  <2> QED  BY <2>4 DEF B
<1>7. Locations(points, n) = FlattenSeq(s)
  BY DEF Locations
<1> HIDE DEF s
<1>8. FlattenSeq(s) \in Seq(Seq(Nat))
  BY <1>6, FlattenType, Zenon
<1> QED  BY <1>5, <1>7, <1>8, Zenon DEF found

\* The stream holds entries of goroutines that were started, and nothing
\* while the message is not handled.
Streamed ==
  /\ ~done => entries = <<>> /\ stream = <<>>
  /\ stream \in Seq(DOMAIN entries)

\* Handling the message starts goroutines before any has got to the stream.
LEMMA StreamedHandled ==
  ASSUME Streamed, ~done, done', stream' = stream
  PROVE  Streamed'
<1>1. stream' = <<>>
  BY Zenon DEF Streamed
<1>2. <<>> \in Seq(DOMAIN entries')
  OBVIOUS
<1> QED  BY <1>1, <1>2, Zenon DEF Streamed

\* Every step keeps it.
LEMMA StreamedStep ==
  ASSUME Streamed, [Next]_vars
  PROVE  Streamed'
<1>1. ASSUME done' = done, entries' = entries, stream' = stream PROVE Streamed'
  BY <1>1, Zenon DEF Streamed
<1>2. ASSUME UNCHANGED vars PROVE Streamed'
  BY <1>1, <1>2, Zenon DEF vars
<1>3. ASSUME Terminal PROVE Streamed'
  <2>1. done' = done /\ entries' = entries /\ stream' = stream
    BY <1>3, Zenon DEF Terminal, Drive, SendLocation, SendReport, SendBatch,
                       SendRegistration, Say
  <2> QED  BY <1>1, <2>1, Zenon
<1>4. ASSUME HandleLocation \/ HandleBatchLocation \/ HandleRegistration
      PROVE  Streamed'
  <2>1. ~done /\ done' /\ stream' = stream
    BY <1>4, Zenon DEF HandleLocation, HandleBatchLocation, HandleRegistration
  <2> QED  BY <2>1, StreamedHandled, Zenon
<1>5. ASSUME NEW g \in DOMAIN entries, XAdd(g) PROVE Streamed'
  <2>1. stream' = Append(stream, g) /\ done' = done /\ entries' = entries
    BY <1>5, Zenon DEF XAdd
  <2>2. stream' \in Seq(DOMAIN entries')
    BY <1>5, <2>1 DEF Streamed
  <2>3. done
    <3>1. DOMAIN <<>> = {}
      OBVIOUS
    <3> QED  BY <1>5, <3>1, Zenon DEF Streamed
  <2> QED  BY <2>1, <2>2, <2>3, Zenon DEF Streamed
<1> QED  BY <1>2, <1>3, <1>4, <1>5, Zenon DEF Next

\* The n-th goroutine carries the n-th location: a one-to-one
\* correspondence.
LEMMA SamePlaces ==
  ASSUME NEW D
  PROVE  [i \in D |-> i] \in Bijection(D, D)
BY DEF Bijection, Injection, Surjection, IsInjective

\* handleBatchLocation: a batch of any items, cut anywhere and counted
\* rightly or not, starts one publication for every location that was counted
\* and arrived as a whole, and the stream holds no other entry, in whatever
\* order the goroutines get to it and however often.
THEOREM BatchCorrect == Spec => []BatchComplete
<1>1. Relaying /\ Streamed /\ [Next]_vars => Relaying' /\ Streamed'
  BY RelayingStep, StreamedStep
<1>2. Relaying /\ Streamed => BatchComplete
  <2> SUFFICES ASSUME Relaying, Streamed, Handled("batch")
               PROVE  BatchComplete
    BY Zenon DEF BatchComplete
  <2> DEFINE points == msg.points
             n == Delivered(points, msg.count, msg.cut)
             good == Locations(points, n)
  <2>1. /\ points \in Seq(Points) /\ msg.count \in 0..(MaxPoints + 1)
        /\ msg.cut \in 2..Len(BatchBody(points, msg.count))
        /\ msg.body = SubSeq(BatchBody(points, msg.count), 1, msg.cut)
        /\ entries = BatchEntries(Located(BatchPoints(msg.body)))
    BY Zenon DEF Relaying, Batched, Handled, FullBatch
  <2>2. n \in 0..Len(points) /\ BatchPoints(msg.body) = SubSeq(points, 1, n)
    <3> DEFINE count == msg.count
               cut == msg.cut
               b == msg.body
    <3>1. /\ points \in Seq(Points) /\ count \in 0..(MaxPoints + 1)
          /\ cut \in 2..Len(BatchBody(points, count))
          /\ b = SubSeq(BatchBody(points, count), 1, cut)
          /\ n = Delivered(points, count, cut)
      BY <2>1, Zenon
    <3> HIDE DEF points, n, count, cut, b
    <3>2. FoundIn(b, points, n)
      BY <3>1, BatchFound, Zenon
    <3> QED  BY <3>2, Zenon DEF b, FoundIn
  <2> HIDE DEF n, points
  <2>3. Located(BatchPoints(msg.body)) = good /\ good \in Seq(Seq(Nat))
    BY <2>1, <2>2, LocatedThose, Zenon
  <2> HIDE DEF good
  <2>4. entries = [i \in DOMAIN good |-> PublishLocation(phone, DecodeLocation(good[i]))]
    BY <2>1, <2>3, Zenon DEF BatchEntries
  <2>5. DOMAIN good = 1..Len(good) /\ Len(good) \in Nat
    BY <2>3
  <2>6. DOMAIN entries = DOMAIN good
    BY <2>4, Zenon
  <2>7. ASSUME NEW i \in DOMAIN good PROVE entries[i].altitude = U16At(good[i], 17)
    <3> DEFINE e == entries[i]
               b == good[i]
               x == Extras(Additional(b))
    <3>1. e = PublishLocation(phone, DecodeLocation(b))
      BY <2>4, <2>7, Zenon
    <3> HIDE DEF e, b
    <3>2. ShowsItems(e, x, b)
      BY <3>1, EntryItems, Zenon
    <3> HIDE DEF x
    <3>3. e.altitude = U16At(b, 17)
      BY <3>2 DEF ShowsItems
    <3> QED  BY <3>3 DEF e, b
  <2> DEFINE size(k) == 3 + Len(FlattenSeq([i \in 1..k |-> Prefixed(msg.points[i])]))
             K == Max({j \in 0..Len(msg.points) :
                         j = 0 \/ (j <= msg.count /\ size(j) <= msg.cut)})
             G == FlattenSeq([i \in 1..K |-> IF Len(msg.points[i]) < 28 THEN <<>>
                                             ELSE <<msg.points[i]>>])
  <2>8. K = n
    BY Zenon DEF n, Delivered, points, PointsReach
  <2> HIDE DEF K
  <2>9. G = good
    BY <2>8 DEF good, Locations, points
  <2> HIDE DEF G
  <2> DEFINE shows(g, i) == entries[g].altitude = U16At(G[i], 17)
             point == [i \in DOMAIN entries |-> i]
  <2>10. \A i \in DOMAIN G : shows(i, i)
    BY <2>7, <2>9, Zenon
  <2>11. DOMAIN entries = DOMAIN G
    BY <2>6, <2>9, Zenon
  <2> HIDE DEF shows
  <2>12. point \in Bijection(DOMAIN entries, DOMAIN G)
    BY <2>11, SamePlaces, Zenon
  <2>13. \A g \in DOMAIN entries : shows(g, point[g])
    BY <2>10, <2>11, Zenon
  <2> HIDE DEF point
  <2>14. \A k \in DOMAIN stream : \E i \in DOMAIN G : shows(stream[k], i)
    <3>1. \A k \in DOMAIN stream : stream[k] \in DOMAIN entries
      BY DEF Streamed
    <3> QED  BY <2>10, <2>11, <3>1, Zenon
  <2>15. /\ \E f \in Bijection(DOMAIN entries, DOMAIN G) :
              \A g \in DOMAIN entries : shows(g, f[g])
         /\ \A k \in DOMAIN stream : \E i \in DOMAIN G : shows(stream[k], i)
    BY <2>12, <2>13, <2>14, Zenon
  <2> QED  BY <2>15, Zenon DEF BatchComplete, G, K, shows
<1>3. Init => Streamed
  <2>1. <<>> \in Seq(DOMAIN <<>>)
    OBVIOUS
  <2> QED  BY <2>1, Zenon DEF Init, Streamed
<1> QED  BY <1>1, <1>2, <1>3, RelayingInit, PTL DEF Spec
=============================================================================
