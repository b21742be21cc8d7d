------------------------------ MODULE FrameIO -------------------------------
(***************************************************************************)
(* pkg/protocol/frame.go: WriteFrame at one end of a TCP stream and        *)
(* ReadFrame at the other.  ReadFrame consumes one byte per step, so the   *)
(* stream may end, or grow, at every byte.  Any error makes the caller     *)
(* drop the connection (handleConn in tcp.go, runDevice in p901/main.go).  *)
(*                                                                         *)
(* Bytes are numbers.  A phone is the sequence of its digits; decodeBCD    *)
(* lets the nibbles 10..14 through as the characters ':' to '>'.           *)
(***************************************************************************)
EXTENDS Integers, SequencesExt

CONSTANTS
  MsgIDs,       \* message ids the peer sends
  PhoneNumbers, \* the phones it puts in the headers, as digit sequences
  SeqNums,      \* sequence numbers it uses
  BodyBytes,    \* the bytes bodies consist of ...
  MaxBody,      \* ... and how many there are, at most
  Subpackages,  \* fragment headers: <<>> for none, or <<total, number>>
  Noise,        \* the bytes of garbage a terminal sends between frames
  MaxNoise,     \* bound on the number of garbage bytes
  MaxFrames     \* bound on the number of frames

Byte == 0..255
MaxWord == 65535
Word == 0..MaxWord

ASSUME FrameAssumption ==
  /\ MsgIDs \subseteq Word /\ SeqNums \subseteq Word
  /\ BodyBytes \subseteq Byte /\ Noise \subseteq Byte
  /\ MaxBody \in Nat /\ MaxNoise \in Nat /\ MaxFrames \in Nat
  /\ \A phone \in PhoneNumbers : phone \in Seq(0..9)
  /\ \A sub \in Subpackages : sub \in Seq(Word) /\ Len(sub) \in {0, 2}

flagByte == 126      \* 0x7e
escapeByte == 125    \* 0x7d
SubpackageBit == 8192 \* 0x2000 of the attributes

Frames == [msg : MsgIDs, phone : PhoneNumbers, seq : SeqNums,
           sub : Subpackages,
           body : UNION {[1..n -> BodyBytes] : n \in 0..MaxBody}]

-----------------------------------------------------------------------------
(* The encodings.                                                          *)

\* Exclusive or of two bytes, bit by bit.
Xor(a, b) ==
  LET bit(d) == d * ((a \div d + b \div d) % 2)
  IN bit(1) + bit(2) + bit(4) + bit(8) + bit(16) + bit(32) + bit(64) + bit(128)

xorChecksum(data) ==
  LET cs[k \in 0..Len(data)] == IF k = 0 THEN 0 ELSE Xor(cs[k - 1], data[k])
  IN cs[Len(data)]

U16(w) == <<w \div 256, w % 256>>

\* encodeBCD: two digits per byte, at most twelve of them, 0xf for the rest.
encodeBCD(phone) ==
  LET nibble(k) == IF k <= Len(phone) THEN phone[k] ELSE 15
  IN [i \in 1..6 |-> 16 * nibble(2 * i - 1) + nibble(2 * i)]

\* decodeBCD: nibbles 0xf are dropped wherever they are.
decodeBCD(b) ==
  LET nibble(k) == IF k % 2 = 1 THEN b[(k + 1) \div 2] \div 16
                   ELSE b[k \div 2] % 16
  IN FlattenSeq([k \in 1..12 |-> IF nibble(k) = 15 THEN <<>> ELSE <<nibble(k)>>])

\* The escape rules of WriteFrame.
EscapeByte(b) ==
  IF b = flagByte THEN <<escapeByte, 2>>
  ELSE IF b = escapeByte THEN <<escapeByte, 1>>
  ELSE <<b>>

Escape(bytes) == FlattenSeq([i \in DOMAIN bytes |-> EscapeByte(bytes[i])])

\* The length is kept to ten bits.  A terminal that fragments a message also
\* sets the subpackage bit, which WriteFrame never does.
attrs(f) ==
  LET length == Len(f.body) % 1024
  IN IF f.sub = <<>> THEN length ELSE length + SubpackageBit

subpackage(f) ==
  IF f.sub = <<>> THEN <<>> ELSE U16(f.sub[1]) \o U16(f.sub[2])

Unchecked(f) ==
  U16(f.msg) \o U16(attrs(f)) \o encodeBCD(f.phone) \o U16(f.seq)
    \o subpackage(f) \o f.body

Payload(f) == Append(Unchecked(f), xorChecksum(Unchecked(f)))

WriteFrame(f) == <<flagByte>> \o Escape(Payload(f)) \o <<flagByte>>

\* binary.Read of a uint16 whose error is ignored: 0 when the bytes are
\* missing.
U16At(p, k) == IF k + 1 <= Len(p) THEN 256 * p[k] + p[k + 1] ELSE 0

\* The header fields and the body of a payload of at least twelve bytes.
\* The length in the attributes is not looked at.
Parse(p) ==
  LET frag == (U16At(p, 3) \div SubpackageBit) % 2 = 1
  IN [msg |-> U16At(p, 1), phone |-> decodeBCD(SubSeq(p, 5, 10)),
      seq |-> U16At(p, 11),
      sub |-> IF frag THEN <<U16At(p, 13), U16At(p, 15)>> ELSE <<>>,
      body |-> SubSeq(p, IF frag THEN 17 ELSE 13, Len(p))]

-----------------------------------------------------------------------------
VARIABLES
  sent,     \* frames written so far
  noise,    \* garbage bytes written so far
  wire,     \* bytes written and not yet read
  closed,   \* the peer has gone; what is on the wire is all there will be
  mode,     \* ReadFrame: "skip", "collect", "escape"; "failed": it returned an error
  raw,      \* the unescaped bytes collected so far
  got       \* the frames ReadFrame returned

vars == <<sent, noise, wire, closed, mode, raw, got>>

Init ==
  /\ sent = <<>>
  /\ noise = 0
  /\ wire = <<>>
  /\ closed = FALSE
  /\ mode = "skip"
  /\ raw = <<>>
  /\ got = <<>>

Write(f) ==
  /\ ~closed
  /\ Len(sent) < MaxFrames
  /\ sent' = Append(sent, f)
  /\ wire' = wire \o WriteFrame(f)
  /\ UNCHANGED <<noise, closed, mode, raw, got>>

\* "Devices can send garbage bytes on reconnect."
WriteNoise(b) ==
  /\ ~closed
  /\ noise < MaxNoise
  /\ noise' = noise + 1
  /\ wire' = Append(wire, b)
  /\ UNCHANGED <<sent, closed, mode, raw, got>>

\* The connection is lost, with any part of what was in flight.
Disconnect(n) ==
  /\ ~closed
  /\ closed' = TRUE
  /\ wire' = SubSeq(wire, 1, n)
  /\ UNCHANGED <<sent, noise, mode, raw, got>>

-----------------------------------------------------------------------------
(* ReadFrame, called in a loop.                                            *)

\* io.ReadFull of one byte, b.
Take == wire' = Tail(wire)

\* Bytes before the opening flag are skipped.
Skip(b) ==
  /\ mode = "skip"
  /\ Take
  /\ mode' = IF b = flagByte THEN "collect" ELSE "skip"
  /\ UNCHANGED <<sent, noise, closed, raw, got>>

Collect(b) ==
  /\ mode = "collect"
  /\ b # flagByte
  /\ Take
  /\ IF b = escapeByte THEN mode' = "escape" /\ UNCHANGED raw
     ELSE raw' = Append(raw, b) /\ UNCHANGED mode
  /\ UNCHANGED <<sent, noise, closed, got>>

\* Mutant: the two escape codes are mixed up.
UnescapeSwapped(b) ==
  /\ mode = "escape"
  /\ Take
  /\ \/ /\ b \in {1, 2}
        /\ raw' = Append(raw, IF b = 2 THEN escapeByte ELSE flagByte)
        /\ mode' = "collect"
     \/ /\ b \notin {1, 2}
        /\ mode' = "failed"
        /\ UNCHANGED raw
  /\ UNCHANGED <<sent, noise, closed, got>>

Unescape(b) ==
  /\ mode = "escape"
  /\ Take
  /\ \/ /\ b \in {1, 2}
        /\ raw' = Append(raw, IF b = 1 THEN escapeByte ELSE flagByte)
        /\ mode' = "collect"
     \/ /\ b \notin {1, 2}
        /\ mode' = "failed"
        /\ UNCHANGED raw
  /\ UNCHANGED <<sent, noise, closed, got>>

\* Mutant: the minimum forgets that the checksum is one of the 13 bytes.
WellFormedOffByOne(r) ==
  /\ Len(r) >= 14
  /\ Last(r) = xorChecksum(Front(r))

\* Twelve header bytes, a checksum byte, and the checksum is right.
WellFormed(r) ==
  /\ Len(r) >= 13
  /\ Last(r) = xorChecksum(Front(r))

\* The closing flag.
Finish(b) ==
  /\ mode = "collect"
  /\ b = flagByte
  /\ Take
  /\ raw' = <<>>
  /\ \/ WellFormed(raw) /\ got' = Append(got, Parse(Front(raw))) /\ mode' = "skip"
     \/ ~WellFormed(raw) /\ mode' = "failed" /\ UNCHANGED got
  /\ UNCHANGED <<sent, noise, closed>>

\* io.ReadFull fails: at the end of the stream, or when the read deadline
\* passes, which the model takes for a disconnection too.
ReadError ==
  /\ mode # "failed"
  /\ closed /\ wire = <<>>
  /\ mode' = "failed"
  /\ UNCHANGED <<sent, noise, wire, closed, raw, got>>

ReadByte ==
  /\ wire # <<>>
  /\ LET b == Head(wire) IN Skip(b) \/ Collect(b) \/ Unescape(b) \/ Finish(b)

Next ==
  \/ \E f \in Frames : Write(f)
  \/ \E b \in Noise : WriteNoise(b)
  \/ \E n \in 0..Len(wire) : Disconnect(n)
  \/ ReadByte
  \/ ReadError

Spec == Init /\ [][Next]_vars

-----------------------------------------------------------------------------
(* Properties.                                                             *)

\* What the receiver makes of a frame: a header has room for 12 digits.
Received(f) == [f EXCEPT !.phone = SubSeq(@, 1, Min({12, Len(@)}))]
ReceivedAll == [i \in DOMAIN sent |-> Received(sent[i])]

\* ReadFrame returns the frames WriteFrame wrote, unchanged and in order,
\* with flag and escape bytes in ids, numbers, bodies and checksums, with
\* garbage in between, and up to any point where the stream is cut; once
\* the stream has run dry none is missing.
Lossless ==
  /\ IsPrefix(got, ReceivedAll)
  /\ mode = "skip" /\ wire = <<>> /\ ~closed => got = ReceivedAll

\* ReadFrame refuses nothing that WriteFrame wrote: it fails only when the
\* stream is cut.  ReadFrame's comment: "Devices can send garbage bytes on
\* reconnect; this is resilient to that."
OnlyCutsFail == mode = "failed" => closed
=============================================================================
