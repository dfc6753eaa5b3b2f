----------------------------- MODULE PacketCodec -----------------------------
(***************************************************************************)
(* A packet as bytes: CraftSendPacket (src/source/net/session.cpp) appends *)
(* the messages that wait, Packet::Read (src/source/net/packet.cpp) takes  *)
(* the messages out again.  The fields of a class of messages are written  *)
(* and read by the macros of src/source/net/message_factory.h, on the      *)
(* Buffer of src/source/net/net.cpp.                                       *)
(*                                                                         *)
(* Size() leaves out the header and the sequence number, and the writes    *)
(* that find no room are not noticed: a message may be cut.  A byte is     *)
(* named by the message, the field and the place in the field it was       *)
(* written for; field 0 is the header and the sequence number.             *)
(***************************************************************************)
EXTENDS Integers, Sequences, SequencesExt

CONSTANTS
    MAXBUFSIZE,    \* bytes in a packet; 1024
    Classes,       \* classes of messages
    reliable,      \* [Classes -> BOOLEAN], BASE_DEFAULT_RELIABLE
    fields,        \* [Classes -> Seq(Field)], FIELDS_...
    bytes_from,    \* bytes a class's fields from the k-th on take
    MaxQueue       \* bound: messages that wait when the packet is crafted

PACKET_HEADER_SIZE == 2

\* A string has size characters and a NUL.
Field == [kind : {"UINT8"}, size : {1}] \cup [kind : {"UINT16"}, size : {2}]
         \cup [kind : {"UINT32"}, size : {4}] \cup [kind : {"STRING", "OCTETS"}, size : Nat]

Width(f) == IF f.kind = "STRING" THEN f.size + 1 ELSE f.size

\* Message::Size.
SizeOf(class) == bytes_from[class][1]

\* The macro SUM_REQUIRED_FIELD_SIZE.
SumOfFields ==
    \A class \in Classes :
        LET n == Len(fields[class])
        IN  /\ bytes_from[class] \in [1..(n + 1) -> Nat]
            /\ bytes_from[class][n + 1] = 0
            /\ \A k \in 1..n :
                bytes_from[class][k] = Width(fields[class][k]) + bytes_from[class][k + 1]

\* The length is a Uint16, every message fits an empty packet, and octets are
\* not empty: a base has 8.
ASSUME CodecAssumption ==
    /\ MAXBUFSIZE \in Nat /\ MAXBUFSIZE >= PACKET_HEADER_SIZE /\ MAXBUFSIZE < 65536
    /\ MaxQueue \in Nat
    /\ reliable \in [Classes -> BOOLEAN]
    /\ fields \in [Classes -> Seq(Field)]
    /\ SumOfFields
    /\ \A class \in Classes :
        /\ fields[class] # <<>>
        /\ SizeOf(class) < MAXBUFSIZE - PACKET_HEADER_SIZE
        /\ \A k \in 1..Len(fields[class]) :
            fields[class][k].kind = "OCTETS" => fields[class][k].size > 0

VARIABLES
    phase,     \* "craft", "read", "done"
    queue,     \* classes of the messages in out_reliable, then in out_lossy
    next,      \* the message CraftSendPacket looks at
    field,     \* the field that is written next, 0 between messages
    data,      \* bytes of the packet so far; length is their number
    appended,  \* messages that were serialized
    cut,       \* those of them that a write failed for
    position,  \* of the reader
    instance,  \* the message it reads and the fields it has of it
    messages,  \* those it has returned
    astray     \* did the reader use bytes outside the buffer, or a byte that is
               \* no header as a header?

writerVars == <<queue, next, field, data, appended, cut>>
readerVars == <<position, instance, messages, astray>>
vars == <<phase, writerVars, readerVars>>

Header(m) == <<m, 0, 1>>
SeqNr(m) == <<m, 0, 2>>
SessionByte(b) == <<0, 0, b>>
Zero == <<0, 0, 0>>

FieldOf(m, k) == fields[queue[m]][k]
FieldBytes(m, k, n) == [b \in 1..n |-> <<m, k, b>>]

\* Between two messages.
NoMessage == [message |-> 0, seqnr |-> Zero, fields |-> <<>>]

\* Reliable messages come first.
Queues == {q \in SeqOf(Classes, MaxQueue) \ {<<>>} :
              \A i, j \in 1..Len(q) : i < j /\ reliable[q[j]] => reliable[q[i]]}

Init ==
    /\ phase = "craft"
    /\ queue \in Queues
    /\ next = 1
    /\ field = 0
    /\ data = <<SessionByte(1), SessionByte(2)>>
    /\ appended = {}
    /\ cut = {}
    /\ position = 0
    /\ instance = NoMessage
    /\ messages = <<>>
    /\ astray = FALSE

-----------------------------------------------------------------------------
(* The writer *)

\* Mutants, here and below, are the code with a plausible mistake in it: each is
\* what one of the properties tells from the code.

AvailableWrite == MAXBUFSIZE - Len(data)

\* Mutant: one byte too many is let in.
PutOneMore(d, bytes) ==
    IF MAXBUFSIZE - Len(d) >= Len(bytes) - 1 THEN d \o bytes ELSE d

\* Write8, Write16, Write32 and WriteOctets: all of the bytes or none.
Put(d, bytes) == IF MAXBUFSIZE - Len(d) >= Len(bytes) THEN d \o bytes ELSE d

\* The characters and the NUL are two writes.
WriteString(d, m, k) ==
    LET n == FieldOf(m, k).size
    IN  IF MAXBUFSIZE - Len(d) >= n
        THEN Put(d \o FieldBytes(m, k, n), <<<<m, k, n + 1>>>>)
        ELSE d

WriteField(d, m, k) ==
    IF FieldOf(m, k).kind = "STRING"
    THEN WriteString(d, m, k)
    ELSE Put(d, FieldBytes(m, k, Width(FieldOf(m, k))))

\* Mutant: a message that fits without its header is let in, reliable or not.
FitsWithoutHeader(m) == AvailableWrite >= SizeOf(queue[m])

\* CraftSendPacket asks for more than Size(), Serialize for Size() again.
Fits(m) == AvailableWrite > SizeOf(queue[m])

WriteHeader(d, m) ==
    IF reliable[queue[m]]
    THEN Put(Put(d, <<Header(m)>>), <<SeqNr(m)>>)
    ELSE Put(d, <<Header(m)>>)

\* The next message of the queue is skipped, or its header is written.
AppendMessage ==
    /\ phase = "craft" /\ field = 0 /\ next <= Len(queue)
    /\ IF Fits(next)
       THEN /\ data' = WriteHeader(data, next)
            /\ appended' = appended \cup {next}
            /\ field' = 1
            /\ UNCHANGED next
       ELSE /\ next' = next + 1
            /\ UNCHANGED <<data, appended, field>>
    /\ UNCHANGED <<phase, queue, cut, readerVars>>

SerializeField ==
    /\ phase = "craft" /\ field > 0
    /\ data' = WriteField(data, next, field)
    /\ cut' = IF Len(data') - Len(data) = Width(FieldOf(next, field)) THEN cut ELSE cut \cup {next}
    /\ IF field < Len(fields[queue[next]])
       THEN field' = field + 1 /\ UNCHANGED next
       ELSE field' = 0 /\ next' = next + 1
    /\ UNCHANGED <<phase, queue, appended, readerVars>>

\* The bytes up to length are sent and imported into a packet that is zero
\* behind them.
Transmit ==
    /\ phase = "craft" /\ field = 0 /\ next > Len(queue)
    /\ phase' = "read"
    /\ position' = PACKET_HEADER_SIZE
    /\ UNCHANGED <<writerVars, instance, messages, astray>>

-----------------------------------------------------------------------------
(* The reader *)

\* A Uint16: it wraps round when the position has passed the length.
AvailableRead(p) == (Len(data) - p) % 65536

ByteAt(p) == IF p < Len(data) THEN data[p + 1] ELSE Zero

IsHeader(byte) == \E m \in appended : byte = Header(m)

IsNul(byte) ==
    \/ byte = Zero
    \/ \E m \in appended : \E k \in 1..Len(fields[queue[m]]) :
        FieldOf(m, k).kind = "STRING" /\ byte = <<m, k, FieldOf(m, k).size + 1>>

\* The characters from p on, up to a NUL.  A string without one goes on to the
\* end of the buffer, and the byte behind it is taken for the NUL.
StringLength(p) ==
    LET nuls == {q \in p..MAXBUFSIZE : q = MAXBUFSIZE \/ IsNul(ByteAt(q))}
    IN  (CHOOSE q \in nuls : \A r \in nuls : q <= r) - p

ReadSize(f, p) == IF f.kind = "STRING" THEN StringLength(p) ELSE f.size

\* Mutant: the NUL is not consumed.
ReadLengthOfCharacters(f, p) == ReadSize(f, p)

\* The bytes Read8, Read16, Read32, ReadOctets or ReadString consumes.
ReadLength(f, p) == IF f.kind = "STRING" THEN ReadSize(f, p) + 1 ELSE ReadSize(f, p)

\* Mutant: fields are read whether there are bytes or not.
MinSizeNone(f) == 0

\* Strings and octets are read when there is a byte at least.
MinSize(f) == IF f.kind \in {"STRING", "OCTETS"} THEN 1 ELSE f.size

\* Mutant: the sequence number is not consumed.
HeaderLengthOne(m) == 1

HeaderLength(m) == IF reliable[queue[m]] THEN 2 ELSE 1

ReadSeqNr(m, p) == IF reliable[queue[m]] THEN ByteAt(p + 1) ELSE Zero

\* Packet::Read looks for a message at the position, and ends when there is none.
ReadHeader ==
    /\ phase = "read" /\ instance = NoMessage
    /\ LET byte == ByteAt(position)
       IN  IF AvailableRead(position) >= 1 /\ IsHeader(byte)
           THEN /\ instance' = [message |-> byte[1],
                                seqnr |-> ReadSeqNr(byte[1], position),
                                fields |-> <<>>]
                /\ position' = position + HeaderLength(byte[1])
                /\ UNCHANGED <<phase, astray>>
           ELSE /\ phase' = "done"
                /\ astray' = (AvailableRead(position) >= 1 /\ (byte # Zero \/ position >= MAXBUFSIZE))
                /\ UNCHANGED <<position, instance>>
    /\ UNCHANGED <<messages, writerVars>>

\* With too few bytes for a field the message is dropped, and Read ends.
DeserializeField ==
    /\ phase = "read" /\ instance # NoMessage
    /\ LET m == instance.message
           k == Len(instance.fields) + 1
           f == FieldOf(m, k)
           read == [instance EXCEPT !.fields =
                       Append(@, [b \in 1..ReadSize(f, position) |-> ByteAt(position + b - 1)])]
       IN  IF AvailableRead(position) < MinSize(f)
           THEN /\ phase' = "done"
                /\ instance' = NoMessage
                /\ UNCHANGED <<position, messages, astray>>
           ELSE /\ position' = position + ReadLength(f, position)
                /\ astray' = (position' > MAXBUFSIZE)
                /\ phase' = IF astray' THEN "done" ELSE "read"
                /\ IF k = Len(fields[queue[m]])
                   THEN messages' = Append(messages, read) /\ instance' = NoMessage
                   ELSE instance' = read /\ UNCHANGED messages
    /\ UNCHANGED writerVars

Next == AppendMessage \/ SerializeField \/ Transmit \/ ReadHeader \/ DeserializeField

Spec == Init /\ [][Next]_vars

-----------------------------------------------------------------------------
(* Properties *)

Byte == Nat \X Nat \X Nat

\* What is written never exceeds the buffer.
WriterOK ==
    /\ phase \in {"craft", "read", "done"}
    /\ queue \in Seq(Classes)
    /\ next \in 1..(Len(queue) + 1)
    /\ field \in Nat
    /\ field > 0 => next <= Len(queue) /\ field <= Len(fields[queue[next]])
    /\ data \in Seq(Byte)
    /\ Len(data) <= MAXBUFSIZE
    /\ appended \subseteq 1..Len(queue)
    /\ cut \subseteq appended

Instance == [message : Nat, seqnr : Byte, fields : Seq(Seq(Byte))]

\* The position stays in the buffer or is at once known to be outside of it.
ReaderOK ==
    /\ position \in Nat
    /\ position <= MAXBUFSIZE \/ astray
    /\ instance \in Instance
    /\ messages \in Seq(Instance)
    /\ astray \in BOOLEAN

TypeOK == WriterOK /\ ReaderOK

\* A message has the sequence number and the fields it was given.
Intact(r) ==
    LET m == r.message
    IN  /\ m \in appended
        /\ r.seqnr = IF reliable[queue[m]] THEN SeqNr(m) ELSE Zero
        /\ Len(r.fields) = Len(fields[queue[m]])
        /\ \A k \in 1..Len(r.fields) : r.fields[k] = FieldBytes(m, k, FieldOf(m, k).size)

\* A packet in which no message was cut is read as it was written: all messages,
\* in their order and byte by byte, and nothing else.
RoundTrip ==
    phase = "done" /\ cut = {} =>
        /\ ~ astray
        /\ \A r \in 1..Len(messages) : Intact(messages[r])
        /\ \A r, s \in 1..Len(messages) : r < s => messages[r].message < messages[s].message
        /\ \A m \in appended : \E r \in 1..Len(messages) : messages[r].message = m

\* Only a message with a sequence number is cut: one for which the room was a
\* byte more than its Size().
OnlyReliableCut == \A m \in cut : reliable[queue[m]]

\* A message that was cut spoils what is behind it, itself included, and nothing
\* before: every message that was read but the last one is what was written.
DamageIsLast ==
    \A r \in 1..Len(messages) :
        Intact(messages[r]) \/ (r = Len(messages) /\ messages[r].message \in cut)

\* A message that is cut in its last number is not handed out.
CutNumberDropped ==
    \A r \in 1..Len(messages) :
        messages[r].message \in cut =>
            FieldOf(messages[r].message, Len(fields[queue[messages[r].message]])).kind
                \in {"STRING", "OCTETS"}
=============================================================================
