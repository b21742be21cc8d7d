----------------------------- MODULE Telemetry ------------------------------
(***************************************************************************)
(* From a terminal's readings to what the server publishes: the bodies     *)
(* p901/main.go builds and those of other firmware, the decoders of        *)
(* pkg/protocol/decoder.go, the body handling of handler.go and the fields *)
(* PublishLocation of forwarder/stream.go puts into a stream entry.        *)
(*                                                                         *)
(* A behaviour is a drive of the simulator, then one message of it or of   *)
(* another terminal, the handling of that message and the goroutines that  *)
(* publish what it held.  Bytes are numbers and texts are byte sequences.  *)
(* The floats of State are fixed-point numbers: coordinates in 10^-7       *)
(* degrees, speed in 0.01 km/h, heading in 0.1 degrees, battery in 0.01 %. *)
(***************************************************************************)
EXTENDS Integers, SequencesExt

CONSTANTS
  Starts,     \* states the simulator starts in
  Moves,      \* random steps: [lat, lon, heading, speed, alt]
  MaxSteps,   \* bound on the steps of a drive
  Clocks,     \* times of day: <<yy, mo, dd, hh, mi, ss>>
  Signals,    \* what simSignal returns
  Headers,    \* other terminals' reports: [alarm, status]
  Items,      \* additional items of theirs: [id, val]
  MaxItems,   \* bound on the items of a report
  Points,     \* items of a batch: the body of a location, or garbage
  MaxPoints,  \* bound on the items of a batch
  MaxXAdds,   \* bound on the entries of the stream
  Registrations \* [layout, model, id, plate]

ASSUME TelemetryAssumption ==
  /\ MaxSteps \in Nat /\ MaxItems \in Nat /\ MaxPoints \in Nat
  /\ MaxXAdds \in Nat
  /\ \A c \in Clocks : c \in Seq(0..99) /\ Len(c) = 6
  /\ Signals \subseteq 5..28

\* Fields, items and lengths are as wide as they are on the wire.
ASSUME ReportAssumption ==
  /\ \A h \in Headers : h.alarm \in Nat /\ h.status \in Nat
  /\ \A item \in Items :
       item.id \in Nat /\ item.val \in Seq(Nat) /\ Len(item.val) <= 255
  /\ \A point \in Points : point \in Seq(Nat) /\ Len(point) < 2^16
  /\ MaxPoints + 1 < 2^16

Within(v, lo, hi) == v \in Int /\ lo <= v /\ v <= hi

\* A drive starts on the globe and within advanceState's clamps.  A step is
\* under a hundredth of a degree of latitude (90 km/h for 30 s are 0.0068)
\* and, below 86 degrees of it, a tenth of longitude, which the code never
\* wraps; 40000 steps are two weeks.
ASSUME DriveAssumption ==
  /\ MaxSteps <= 40000
  /\ \A s \in Starts :
       /\ Within(s.lat, -900000000, 900000000)
       /\ Within(s.lon, -1800000000, 1800000000)
       /\ Within(s.heading, 0, 3599) /\ Within(s.speed, 1000, 9000)
       /\ Within(s.alt, 180, 300) /\ Within(s.battery, 500, 10000)
  /\ \A m \in Moves :
       /\ Within(m.lat, -100000, 100000) /\ Within(m.lon, -1000000, 1000000)
       /\ m.heading \in Int /\ m.speed \in Int /\ m.alt \in Int

VARIABLES
  st,       \* the simulator's State
  steps,    \* steps of the drive
  phone,    \* Session.Phone: "" before a registration
  msg,      \* the message sent: what was meant, and its body
  done,     \* it was handled
  entries,  \* the PublishLocation goroutines started: the entry of each
  stream,   \* the Redis stream: whose entry was added, first to last
  info      \* the decoded registration

vars == <<st, steps, phone, msg, done, entries, stream, info>>

-----------------------------------------------------------------------------
(* Encoding helpers.                                                       *)

U16(v) == <<(v \div 256) % 256, v % 256>>
U32(v) == U16(v \div 2^16) \o U16(v % 2^16)
U16At(b, i) == 256 * b[i] + b[i + 1]
U32At(b, i) == 2^16 * U16At(b, i) + U16At(b, i + 2)

HasBit(flags, bit) == (flags \div 2^bit) % 2 = 1
StatusACCOn == 0
StatusLocated == 1
StatusLatSouth == 2
StatusLonWest == 3

Clamp(v, lo, hi) == IF v < lo THEN lo ELSE IF v > hi THEN hi ELSE v
PadRight(s, n) == [i \in 1..n |-> IF i <= Len(s) THEN s[i] ELSE 0]

\* TrimRight of NULs and blanks.
NullTrimmed(b) ==
  SubSeq(b, 1, Max({0} \cup {i \in DOMAIN b : b[i] \notin {0, 32}}))

BcdTimestamp(clock) == [i \in 1..6 |-> 16 * (clock[i] \div 10) + (clock[i] % 10)]

\* The twelve digits of the ISO-8601 text.
ParseBCDTimestamp(b) ==
  [k \in 1..12 |-> IF k % 2 = 1 THEN b[(k + 1) \div 2] \div 16 ELSE b[k \div 2] % 16]

TLV(item) == <<item.id, Len(item.val)>> \o item.val

-----------------------------------------------------------------------------
(* p901/main.go.                                                           *)

\* advanceState.  Where a step leads is sine and cosine of the heading; any
\* small step stands for it.
AdvanceState(s, m) ==
  [lat |-> s.lat + m.lat, lon |-> s.lon + m.lon,
   heading |-> (s.heading + m.heading + 3600) % 3600,
   speed |-> Clamp(s.speed + m.speed, 1000, 9000),
   alt |-> Clamp(s.alt + m.alt, 180, 300),
   battery |-> Max({s.battery - 5, 500})]

BuildLocationBody(s, clock, csq) ==
  LET abs(v) == IF v < 0 THEN -v ELSE v
      status == 2^StatusLocated + 2^StatusACCOn
                  + (IF s.lat < 0 THEN 2^StatusLatSouth ELSE 0)
                  + (IF s.lon < 0 THEN 2^StatusLonWest ELSE 0)
  IN U32(0) \o U32(status) \o U32(abs(s.lat) \div 10) \o U32(abs(s.lon) \div 10)
       \o U16(s.alt) \o U16(s.speed \div 10) \o U16(s.heading \div 10)
       \o BcdTimestamp(clock)
       \o TLV([id |-> 235, val |-> <<Clamp(s.battery \div 100, 0, 100)>>])
       \o TLV([id |-> 48, val |-> <<csq>>])

\* buildRegBody, for all layouts: province, city, manufacturer, model,
\* terminal id (the end of the IMEI), plate colour, plate.  The simulator's
\* layout is the standard one.
LastSeven(id) == SubSeq(id, 1 + Max({0, Len(id) - 7}), Len(id))
ModelField == [standard |-> 20, compact |-> 8, stripped |-> 0]

\* What a field padded with NULs can hold: a text that fits and does not
\* end in padding.
ASSUME RegistrationAssumption ==
  \A r \in Registrations :
    /\ r.layout \in {"standard", "compact", "stripped"}
    /\ Len(r.model) <= ModelField[r.layout]
    /\ \A text \in {r.model, r.id, r.plate} :
         /\ text \in Seq(Nat)
         /\ text # <<>> => text[Len(text)] \notin {0, 32}

BuildRegBody(r) ==
  U16(6) \o U16(1) \o PadRight(<<83, 73, 77, 67, 79>>, 5)
    \o PadRight(r.model, ModelField[r.layout]) \o PadRight(LastSeven(r.id), 7)
    \o <<2>> \o r.plate

-----------------------------------------------------------------------------
(* pkg/protocol/decoder.go.                                                *)

\* Mutant: the hemisphere is not looked at.
SignedNorthEast(v, status, bit) == v

Signed(v, status, bit) == IF HasBit(status, bit) THEN -v ELSE v

\* Mutant: an item that ends with the body counts as cut.
TLVFitsOffByOne(left, length) == left > length

TLVFits(left, length) == left >= length

\* The item under the ones that follow it.
Under(later, id, val) ==
  [x \in DOMAIN later \cup {id} |-> IF x \in DOMAIN later THEN later[x] ELSE val]

\* The additional items: the last of two with one id wins, and the first
\* that is cut ends the walk.
Extras(b) ==
  LET walk[i \in 1..(Len(b) + 1)] ==
        IF Len(b) - i + 1 < 2 \/ ~TLVFits(Len(b) - i - 1, b[i + 1]) THEN <<>>
        ELSE Under(walk[i + 2 + b[i + 1]], b[i], SubSeq(b, i + 2, i + 1 + b[i + 1]))
  IN walk[1]

Decodable(b) == Len(b) >= 28

DecodeLocation(b) ==
  LET status == U32At(b, 5) IN
  [alarm |-> U32At(b, 1), status |-> status,
   lat |-> Signed(U32At(b, 9), status, StatusLatSouth),
   lon |-> Signed(U32At(b, 13), status, StatusLonWest),
   alt |-> U16At(b, 17), speed |-> U16At(b, 19), direction |-> U16At(b, 21),
   timestamp |-> ParseBCDTimestamp(SubSeq(b, 23, 28)),
   fixed |-> HasBit(status, StatusLocated), acc |-> HasBit(status, StatusACCOn),
   extras |-> Extras(SubSeq(b, 29, Len(b)))]

\* Mutant: a standard body with an empty plate is taken for a compact one.
ModelLenOffByOne(left) == IF left > 28 THEN 20 ELSE 8

ModelLen(left) == IF left >= 28 THEN 20 ELSE 8

\* Each field is read, and passed over, if enough bytes are left for it.
Take(s, n) == IF Len(s) >= n THEN SubSeq(s, 1, n) ELSE <<>>
Drop(s, n) == IF Len(s) >= n THEN SubSeq(s, n + 1, Len(s)) ELSE s

DecodeRegistration(b) ==
  LET fromModel == SubSeq(b, 10, Len(b))
      modelLen == ModelLen(Len(fromModel))
      fromID == Drop(fromModel, modelLen)
      fromColor == Drop(fromID, 7)
  IN [manuf |-> NullTrimmed(SubSeq(b, 5, 9)),
      model |-> NullTrimmed(Take(fromModel, modelLen)),
      id |-> NullTrimmed(Take(fromID, 7)),
      color |-> IF fromColor = <<>> THEN 0 ELSE fromColor[1],
      plate |-> NullTrimmed(Drop(fromColor, 1))]

-----------------------------------------------------------------------------
(* forwarder/stream.go.  -1 is an absent field.                            *)

HasItem(extras, id, n) == id \in DOMAIN extras /\ Len(extras[id]) >= n

\* Mutant: a voltage outside the range of the battery gives a level outside
\* 0..100.
VoltageLevelUnclamped(mV) == ((mV - 3400) * 100) \div 800

VoltageLevel(mV) == Clamp(((mV - 3400) * 100) \div 800, 0, 100)

\* The first usable of the vendors' percentages, or else the voltage.
ExtractBattery(extras) ==
  LET ids == <<235, 99, 100>>
      usable == {i \in 1..3 : HasItem(extras, ids[i], 1) /\ extras[ids[i]][1] <= 100}
  IN IF usable # {} THEN extras[ids[Min(usable)]][1]
     ELSE IF HasItem(extras, 37, 2) THEN VoltageLevel(U16At(extras[37], 1))
     ELSE -1

ExtractSignal(extras) ==
  IF HasItem(extras, 48, 1) THEN (Min({extras[48][1], 31}) * 100) \div 31 ELSE -1

AlarmBits == [sos |-> 0, overspeed |-> 1, low_battery |-> 7,
              power_failure |-> 12, vibration |-> 16]
ActiveAlarmNames(flags) == {a \in DOMAIN AlarmBits : HasBit(flags, AlarmBits[a])}

\* The values of the entry.  Coordinates only with a fix; the battery from
\* an item or else from bits 16 to 19 of the status.
PublishLocation(ph, loc) ==
  LET battery == ExtractBattery(loc.extras)
      battCode == (loc.status \div 2^16) % 16
  IN [phone |-> ph, timestamp |-> loc.timestamp,
      position |-> IF loc.fixed THEN <<loc.lat, loc.lon>> ELSE <<>>,
      altitude |-> loc.alt, speed |-> loc.speed, direction |-> loc.direction,
      gps_fixed |-> loc.fixed, acc_on |-> loc.acc,
      alarm_flags |-> loc.alarm, status_flags |-> loc.status,
      battery_level |-> battery,
      battery_from_flags |-> IF battery < 0 /\ battCode > 0 THEN battCode * 25 ELSE -1,
      signal_strength |-> ExtractSignal(loc.extras),
      active_alarms |-> ActiveAlarmNames(loc.alarm),
      extras |-> loc.extras]

-----------------------------------------------------------------------------
(* The terminals.                                                          *)

NoMessage == [kind |-> "none"]
Silent == msg = NoMessage

Init ==
  /\ st \in Starts /\ steps = 0
  /\ phone \in {"", "known"}
  /\ msg = NoMessage /\ done = FALSE
  /\ entries = <<>> /\ stream = <<>>
  /\ info = <<>>

Say(m) ==
  /\ msg' = m
  /\ UNCHANGED <<st, steps, phone, done, entries, stream, info>>

Drive(m) ==
  /\ steps < MaxSteps
  /\ st' = AdvanceState(st, m)
  /\ steps' = steps + 1
  /\ UNCHANGED <<phone, msg, done, entries, stream, info>>

SendLocation(clock, csq) ==
  Say([kind |-> "p901", clock |-> clock, csq |-> csq,
       body |-> BuildLocationBody(st, clock, csq)])

\* Another terminal, whose firmware may cut a report that gets too long.
FixedPart(h) ==
  U32(h.alarm) \o U32(h.status) \o U32(100) \o U32(200) \o U16(7)
    \o U16(8) \o U16(9) \o BcdTimestamp(<<1, 2, 3, 4, 5, 6>>)

TLVs(items) == FlattenSeq([i \in DOMAIN items |-> TLV(items[i])])

SendReport(h, items) ==
  LET full == FixedPart(h) \o TLVs(items)
  IN /\ steps = 0
     /\ \E cut \in 27..Len(full) :
          Say([kind |-> "report", head |-> h, items |-> items, cut |-> cut,
               body |-> SubSeq(full, 1, cut)])

\* The same for a batch, whose count may be wrong as well.
Prefixed(point) == U16(Len(point)) \o point

BatchBody(points, count) ==
  U16(count) \o <<0>> \o FlattenSeq([i \in DOMAIN points |-> Prefixed(points[i])])

SendBatch(points, count) ==
  LET full == BatchBody(points, count)
  IN /\ steps = 0
     /\ \E cut \in 2..Len(full) :
          Say([kind |-> "batch", points |-> points, count |-> count, cut |-> cut,
               body |-> SubSeq(full, 1, cut)])

SendRegistration(r) ==
  /\ steps = 0
  /\ Say([kind |-> "registration", reg |-> r, body |-> BuildRegBody(r)])

-----------------------------------------------------------------------------
(* handler.go.                                                             *)

\* handleLocation: without a session phone the one of the frame counts.
HandleLocation ==
  /\ msg.kind \in {"p901", "report"} /\ ~done
  /\ done' = TRUE
  /\ entries' = IF Decodable(msg.body)
                THEN <<PublishLocation(IF phone = "" THEN "frame" ELSE phone,
                                       DecodeLocation(msg.body))>>
                ELSE <<>>
  /\ UNCHANGED <<st, steps, phone, msg, stream, info>>

\* Mutant: an item that ends with the body counts as cut.
PointFitsOffByOne(b, o, len) == o + 1 + len < Len(b)

\* The item of len bytes whose length field is at o.
PointFits(b, o, len) == o + 1 + len <= Len(b)

\* The bodies handleBatchLocation finds; o is the next length field.
BatchPoints(b) ==
  LET count == U16At(b, 1)
      walk[i \in 0..count] == [o \in 4..(Len(b) + 1) |->
        IF i = count \/ o + 1 > Len(b) \/ ~PointFits(b, o, U16At(b, o)) THEN <<>>
        ELSE LET next == o + 2 + U16At(b, o)
             IN <<SubSeq(b, o + 2, next - 1)>> \o walk[i + 1][next]]
  IN IF Len(b) < 3 THEN <<>> ELSE walk[0][4]

\* Items that cannot be decoded are left out.
Located(found) ==
  FlattenSeq([i \in DOMAIN found |-> IF Decodable(found[i]) THEN <<found[i]>> ELSE <<>>])

\* A goroutine for each of the others.
HandleBatchLocation ==
  LET good == Located(BatchPoints(msg.body)) IN
  /\ msg.kind = "batch" /\ ~done
  /\ done' = TRUE
  /\ entries' = [i \in DOMAIN good |-> PublishLocation(phone, DecodeLocation(good[i]))]
  /\ UNCHANGED <<st, steps, phone, msg, stream, info>>

\* handleRegistration, as far as the body goes.
HandleRegistration ==
  /\ msg.kind = "registration" /\ ~done
  /\ Len(msg.body) >= 17
  /\ done' = TRUE
  /\ info' = DecodeRegistration(msg.body)
  /\ phone' = "known"
  /\ UNCHANGED <<st, steps, msg, entries, stream>>

\* Redis executes the XADD of a PublishLocation goroutine: in any order, never
\* if it fails, twice if go-redis repeats one whose answer it did not get.
XAdd(g) ==
  /\ g \in DOMAIN entries
  /\ Len(stream) < MaxXAdds
  /\ stream' = Append(stream, g)
  /\ UNCHANGED <<st, steps, phone, msg, done, entries, info>>

Terminal ==
  \/ \E m \in Moves : Drive(m)
  \/ \E clock \in Clocks, csq \in Signals : SendLocation(clock, csq)
  \/ \E h \in Headers, items \in BoundedSeq(Items, MaxItems) : SendReport(h, items)
  \/ \E points \in BoundedSeq(Points, MaxPoints), count \in 0..(MaxPoints + 1) :
       SendBatch(points, count)
  \/ \E r \in Registrations : SendRegistration(r)

Next ==
  \/ Silent /\ Terminal
  \/ HandleLocation \/ HandleBatchLocation \/ HandleRegistration
  \/ \E g \in DOMAIN entries : XAdd(g)

Spec == Init /\ [][Next]_vars

-----------------------------------------------------------------------------
(* Properties.                                                             *)

Handled(kind) == done /\ msg.kind = kind

\* What the simulator reports is what the stream shows, through builder,
\* wire and decoder and after any drive: the position within a micro-degree
\* and in the right hemisphere, direction and speed rounded down, the
\* direction a compass reading, the time digit by digit, and battery and
\* signal from the items it appends, as percentages.
LocationFaithful ==
  Handled("p901") =>
    LET e == entries[1]
        near(raw, v) == /\ 10 * raw - v \in -9..9
                        /\ v > 0 => raw >= 0
                        /\ v < 0 => raw <= 0
    IN /\ Len(entries) = 1 /\ e.phone # ""
       /\ e.gps_fixed /\ e.acc_on /\ e.active_alarms = {}
       /\ near(e.position[1], st.lat) /\ near(e.position[2], st.lon)
       /\ e.direction \in 0..359 /\ st.heading - 10 * e.direction \in 0..9
       /\ st.speed - 10 * e.speed \in 0..9
       /\ \A i \in 1..6 :
            10 * e.timestamp[2 * i - 1] + e.timestamp[2 * i] = msg.clock[i]
       /\ e.battery_level \in 5..100
       /\ st.battery - 100 * e.battery_level \in 0..99
       /\ e.signal_strength \in 16..90
       /\ 100 * msg.csq - 31 * e.signal_strength \in 0..30

\* The items of a report that were sent as a whole.
Whole(m) ==
  LET size(k) == 28 + Len(FlattenSeq([i \in 1..k |-> TLV(m.items[i])]))
  IN SubSeq(m.items, 1, Max({k \in 0..Len(m.items) : k = 0 \/ size(k) <= m.cut}))

\* A report that is cut anywhere gives exactly the items it holds as a
\* whole, the later of two with one id, and nothing if the fixed part is
\* cut; no item is made up from the rest.
ExtrasComplete ==
  Handled("report") =>
    IF msg.cut < 28 THEN entries = <<>>
    ELSE LET whole == Whole(msg)
             extras == entries[1].extras
         IN /\ DOMAIN extras = {whole[i].id : i \in DOMAIN whole}
            /\ \A i \in DOMAIN whole :
                 (\A j \in DOMAIN whole : j > i => whole[j].id # whole[i].id)
                   => extras[whole[i].id] = whole[i].val

\* README.md promises percentages: whatever items a terminal sends,
\* battery_level and signal_strength are in 0..100 or absent, and a level is
\* absent only if no item could have given one.  Nothing is said of
\* battery_from_flags, which README.md calls a percentage as well and which
\* reaches 375, four bits times 25.
LevelsArePercentages ==
  Handled("report") /\ entries # <<>> =>
    LET e == entries[1]
        x == e.extras
    IN /\ e.battery_level \in -1..100 /\ e.signal_strength \in -1..100
       /\ (e.battery_level = -1) <=>
            /\ \A id \in {235, 99, 100} \cap DOMAIN x : x[id] = <<>> \/ x[id][1] > 100
            /\ 37 \in DOMAIN x => Len(x[37]) < 2
       /\ e.battery_level >= 0 => e.battery_from_flags = -1

\* A batch that is cut, or whose count is wrong, starts a publication for
\* every location that arrived as a whole and was counted, one for each and
\* none besides, garbage in between costs only itself, and the stream shows
\* nothing else.  The goroutines are independent: in which order they get to
\* the stream, and that all do, is not claimed.
BatchComplete ==
  Handled("batch") =>
    LET size(k) == 3 + Len(FlattenSeq([i \in 1..k |-> Prefixed(msg.points[i])]))
        k == Max({j \in 0..Len(msg.points) :
                    j = 0 \/ (j <= msg.count /\ size(j) <= msg.cut)})
        good == FlattenSeq([i \in 1..k |-> IF Len(msg.points[i]) < 28 THEN <<>>
                                           ELSE <<msg.points[i]>>])
        shows(g, i) == entries[g].altitude = U16At(good[i], 17)
    IN /\ \E point \in Bijection(DOMAIN entries, DOMAIN good) :
            \A g \in DOMAIN entries : shows(g, point[g])
       /\ \A n \in DOMAIN stream : \E i \in DOMAIN good : shows(stream[n], i)

AsSent ==
  /\ info.model = msg.reg.model
  /\ info.id = LastSeven(msg.reg.id)
  /\ info.plate = msg.reg.plate

\* A registration in the standard layout, the simulator's, is read as it
\* was sent, and so is a compact one whose plate has at most 11 bytes.
RegistrationDecoded ==
  /\ Handled("registration")
  /\ msg.reg.layout # "stripped"
  /\ msg.reg.layout = "compact" => Len(msg.reg.plate) <= 11
  => AsSent

\* The comments of DecodeRegistration: "We detect which layout the device
\* uses from the total body length", and "Model field and plate number may
\* be absent on severely stripped firmware".
DocumentedLayouts == Handled("registration") => AsSent
=============================================================================
