---------------------------- MODULE BinaryStream ----------------------------
(***************************************************************************)
(* Frames of the binary format (src/src/binary.rs): a serialised payload   *)
(* between a header with its length and a CRC32, a medium that may cut it  *)
(* short or change it, and the two ways to read it: deserialize_* in one   *)
(* call, and BinaryStreamReader chunk by chunk.                            *)
(*                                                                         *)
(* A frame is its header and the sequence of four-byte units after it.     *)
(* The checksum stands for the very units it is computed from: different   *)
(* payloads have different checksums.  Slicing past the data is a panic.   *)
(***************************************************************************)
EXTENDS Integers, Sequences, SequencesExt

CONSTANT MaxUnits   \* bound on a payload

Kinds == {"mdoc", "doc", "batch"}
Unit(i) == <<"payload", i>>
Altered == <<"payload", 0>>
Crc(units) == <<"crc", units>>

VARIABLES
    sent,     \* the frame as serialize_* made it
    got,      \* the frame as it arrived
    reader    \* BinaryStreamReader, and the verdicts it gave

streamVars == <<sent, got, reader>>

Frame(kind, units) ==
    [payload_type |-> kind, length |-> Len(units), body |-> Append(units, Crc(units))]

Payload(n) == [i \in 1..n |-> Unit(i)]

NoReader == [pc |-> "none", position |-> 0, chunks |-> <<>>, checksum_validated |-> FALSE,
             verdict |-> "none"]

StreamInit ==
    /\ \E kind \in Kinds, n \in 0..MaxUnits : sent = Frame(kind, Payload(n))
    /\ got = sent
    /\ reader = NoReader

\* The medium: units lost at the end, a unit changed, a length changed.
Damage ==
    /\ reader.pc = "none" /\ got = sent
    /\ \/ \E n \in 0..Len(sent.body) - 1 : got' = [sent EXCEPT !.body = SubSeq(@, 1, n)]
       \/ \E i \in DOMAIN sent.body : got' = [sent EXCEPT !.body[i] = Altered]
       \/ \E n \in 0..MaxUnits : got' = [sent EXCEPT !.length = n]
       \/ \E kind \in Kinds : got' = [sent EXCEPT !.payload_type = kind]
    /\ UNCHANGED <<sent, reader>>

\* data.len() < size() + 4
TooShort == got.body = <<>>

\* The units that the header says are the payload, and the one after them.
Overrun == Len(got.body) <= got.length
Claimed == IF Overrun THEN got.body ELSE SubSeq(got.body, 1, got.length)

\* Mutant: the checksum is not compared.
DeserializeUnchecked(kind) ==
    IF TooShort THEN "too short"
    ELSE IF got.payload_type # kind THEN "invalid type"
    ELSE IF Overrun THEN "panic"
    ELSE "accepted"

\* deserialize_mdoc, deserialize_doc, deserialize_batch
Deserialize(kind) ==
    IF TooShort THEN "too short"
    ELSE IF got.payload_type # kind THEN "invalid type"
    ELSE IF Overrun THEN "panic"
    ELSE IF got.body[got.length + 1] # Crc(Claimed) THEN "checksum mismatch"
    ELSE "accepted"

-----------------------------------------------------------------------------
\* BinaryStreamReader::new
Open ==
    /\ reader.pc = "none" /\ ~TooShort
    /\ reader' = [reader EXCEPT !.pc = "open"]
    /\ UNCHANGED <<sent, got>>

\* Mutant: the payload is taken to end with the data.
ReadChunkToEnd(max) ==
    LET left == Len(got.body) - reader.position
        n == IF max < left THEN max ELSE left IN
    /\ reader.pc = "open" /\ n > 0
    /\ reader' = [reader EXCEPT !.position = @ + n,
                                !.chunks = @ \o SubSeq(got.body, reader.position + 1,
                                                       reader.position + n)]
    /\ UNCHANGED <<sent, got>>

\* read_chunk: at most max units, none when the payload is read.
ReadChunk(max) ==
    LET n == IF max < got.length - reader.position THEN max ELSE got.length - reader.position IN
    /\ reader.pc = "open" /\ n > 0
    /\ reader' = IF reader.position + n > Len(got.body) THEN [reader EXCEPT !.pc = "panicked"]
                 ELSE [reader EXCEPT !.position = @ + n,
                                     !.chunks = @ \o SubSeq(got.body, reader.position + 1,
                                                            reader.position + n)]
    /\ UNCHANGED <<sent, got>>

\* validate_checksum, at any time: it remembers that it ran and not what it
\* found, so that every later call is TRUE.
ValidateChecksum ==
    /\ reader.pc = "open"
    /\ reader' =
          IF reader.checksum_validated
          THEN [reader EXCEPT !.verdict = IF @ = "bad" THEN "bad, then good" ELSE @]
          ELSE IF Overrun THEN [reader EXCEPT !.pc = "panicked"]
          ELSE [reader EXCEPT !.checksum_validated = TRUE,
                              !.verdict = IF got.body[got.length + 1] = Crc(Claimed)
                                          THEN "good" ELSE "bad"]
    /\ UNCHANGED <<sent, got>>

IsComplete == reader.position >= got.length

StreamNext == Damage \/ Open \/ (\E max \in 1..MaxUnits : ReadChunk(max)) \/ ValidateChecksum

StreamSpec == StreamInit /\ [][StreamNext]_streamVars

-----------------------------------------------------------------------------
(* Properties.                                                             *)

\* What deserialize_* accepts is the payload that was serialised, whole; it
\* panics only on a frame whose length was changed or whose end is lost.
AcceptedIsSent ==
    \A kind \in Kinds :
        /\ Deserialize(kind) = "accepted" => Append(Claimed, Crc(Claimed)) = sent.body
        /\ Deserialize(kind) = "panic" =>
              got.length # sent.length \/ Len(got.body) < Len(sent.body)

\* However it is cut into chunks and whenever the checksum is asked for, what a
\* reader delivers is a prefix of what arrived; and when it is complete and its
\* first verdict was good, all of what was sent (BinaryStreamReader).
ChunksAreThePayload ==
    reader.pc = "open" =>
        /\ IsPrefix(reader.chunks, Claimed)
        /\ IsComplete /\ reader.verdict = "good" =>
              Append(reader.chunks, Crc(reader.chunks)) = sent.body
=============================================================================
