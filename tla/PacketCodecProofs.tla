-------------------------- MODULE PacketCodecProofs --------------------------
(***************************************************************************)
(* Proofs about PacketCodec: the writer stays inside the buffer, what it   *)
(* cuts has a sequence number, and the reader returns what was written up  *)
(* to the first message that was cut.                                      *)
(***************************************************************************)
EXTENDS PacketCodec, DataLemmas, TLAPS

(* The bytes of the packet *)

LastField(m) == Len(fields[queue[m]])

\* Where field k of a message begins, counted from its header.
Offset(m, k) == HeaderLength(m) + SizeOf(queue[m]) - bytes_from[queue[m]][k]

\* The message whose header is at p has field k where it belongs.
HasField(p, m, k) ==
    /\ p + Offset(m, k + 1) <= Len(data)
    /\ \A b \in 1..Width(FieldOf(m, k)) : ByteAt(p + Offset(m, k) + b - 1) = <<m, k, b>>

HasFieldsBelow(p, m, n) ==
    /\ p + Offset(m, 1) <= Len(data)
    /\ reliable[queue[m]] => ByteAt(p + 1) = SeqNr(m)
    /\ \A k \in 1..(n - 1) : HasField(p, m, k)

\* The room ended one byte before its last field did.
IsCutAt(p, m) ==
    LET k == LastField(m)
        f == FieldOf(m, k)
        e == p + Offset(m, k)
    IN  /\ MAXBUFSIZE - e = Width(f) - 1
        /\ f.kind = "STRING" => \A b \in 1..f.size : ByteAt(e + b - 1) = <<m, k, b>>

Later(m) == {j \in appended : j > m}

\* The packet goes on at e with the message that was appended after m.
NextIsAt(m, e) ==
    \/ Later(m) = {} /\ e = Len(data)
    \/ \E j \in Later(m) : ByteAt(e) = Header(j) /\ \A i \in Later(m) : j <= i

IsWrittenAt(p, m) ==
    /\ HasFieldsBelow(p, m, LastField(m))
    /\ m \in cut => IsCutAt(p, m)
    /\ m \notin cut => HasField(p, m, LastField(m)) /\ NextIsAt(m, p + Offset(m, LastField(m) + 1))

(* The invariant of the writer *)

HeadersOK == \A p, m \in Nat : m > 0 /\ ByteAt(p) = Header(m) => m \in appended

WrittenOK == \A m \in appended : m # next => \A p \in Nat : ByteAt(p) = Header(m) => IsWrittenAt(p, m)

\* There is room for the fields that are left, but for a byte when there is a
\* sequence number.
WritingOK ==
    field > 0 =>
        /\ next \in appended
        /\ MAXBUFSIZE - Len(data) >= bytes_from[queue[next]][field] - (HeaderLength(next) - 1)
        /\ \A p \in Nat : ByteAt(p) = Header(next) =>
                HasFieldsBelow(p, next, field) /\ Len(data) = p + Offset(next, field)

ProgressOK ==
    /\ PACKET_HEADER_SIZE <= Len(data)
    /\ \A m \in appended : m < next \/ (m = next /\ field > 0)
    /\ \A m \in cut : m < next
    /\ phase # "craft" => field = 0 /\ next = Len(queue) + 1

WriterInv ==
    /\ WriterOK
    /\ ProgressOK
    /\ HeadersOK
    /\ WrittenOK
    /\ WritingOK
    /\ NextIsAt(0, PACKET_HEADER_SIZE)
    /\ OnlyReliableCut

(* The invariant of the reader *)

\* What was returned is what was written, up to this message.
ReadUpTo(last) ==
    /\ \A r \in 1..Len(messages) :
        Intact(messages[r]) /\ messages[r].message \notin cut /\ messages[r].message <= last
    /\ \A r, s \in 1..Len(messages) : r < s => messages[r].message < messages[s].message
    /\ \A j \in appended : j <= last => \E r \in 1..Len(messages) : messages[r].message = j

IsReading(m) ==
    /\ instance.seqnr = IF reliable[queue[m]] THEN SeqNr(m) ELSE Zero
    /\ Len(instance.fields) < LastField(m)
    /\ \A i \in 1..Len(instance.fields) : instance.fields[i] = FieldBytes(m, i, FieldOf(m, i).size)
    /\ \E p \in Nat : ByteAt(p) = Header(m) /\ position = p + Offset(m, Len(instance.fields) + 1)

IsBetween(last) ==
    IF instance = NoMessage
    THEN NextIsAt(last, position)
    ELSE /\ instance.message \in Later(last)
         /\ \A i \in Later(last) : instance.message <= i
         /\ IsReading(instance.message)

ReadingOK == phase = "read" => ~ astray /\ \E last \in Nat : ReadUpTo(last) /\ IsBetween(last)

CraftOK == phase = "craft" => position = 0 /\ instance = NoMessage /\ messages = <<>> /\ ~ astray

DoneOK == phase = "done" => RoundTrip /\ DamageIsLast /\ CutNumberDropped

Inv == WriterInv /\ ReaderOK /\ ReadingOK /\ CraftOK /\ DoneOK

-----------------------------------------------------------------------------
(* The layout of a message *)

LEMMA BufferSize == MAXBUFSIZE \in Nat /\ MAXBUFSIZE >= 2 /\ MAXBUFSIZE < 65536
BY CodecAssumption DEF PACKET_HEADER_SIZE

\* The layout of a class: what CodecAssumption says of one field.
LEMMA Layout ==
    ASSUME NEW class \in Classes, NEW k \in 1..Len(fields[class])
    PROVE  /\ Len(fields[class]) \in Nat
           /\ fields[class][k] \in Field
           /\ Width(fields[class][k]) \in Nat \ {0}
           /\ bytes_from[class][k] \in Nat
           /\ bytes_from[class][k + 1] \in Nat
           /\ bytes_from[class][k] = Width(fields[class][k]) + bytes_from[class][k + 1]
<1>1. fields[class] \in Seq(Field)
    BY CodecAssumption
<1>2. Len(fields[class]) \in Nat /\ fields[class][k] \in Field
    BY <1>1
<1>3. Width(fields[class][k]) \in Nat \ {0}
    <2>1. fields[class][k].kind = "OCTETS" => fields[class][k].size > 0
        BY CodecAssumption
    <2> QED
        BY <1>2, <2>1 DEF Field, Width
<1>4. /\ bytes_from[class] \in [1..(Len(fields[class]) + 1) -> Nat]
      /\ bytes_from[class][k] = Width(fields[class][k]) + bytes_from[class][k + 1]
    BY CodecAssumption DEF SumOfFields
<1>5. k \in 1..(Len(fields[class]) + 1) /\ k + 1 \in 1..(Len(fields[class]) + 1)
    BY <1>2
<1> QED
    BY <1>2, <1>3, <1>4, <1>5

\* Every class has a field, and its first field starts what Size() counts.
LEMMA FirstField ==
    ASSUME NEW class \in Classes
    PROVE  Len(fields[class]) \in Nat /\ 1 \in 1..Len(fields[class]) /\ SizeOf(class) \in Nat
<1>1. fields[class] \in Seq(Field) /\ fields[class] # <<>>
    BY CodecAssumption
<1>2. Len(fields[class]) \in Nat /\ 1 \in 1..Len(fields[class])
    BY <1>1
<1> QED
    BY <1>2, Layout DEF SizeOf

\* What a class's fields from the k-th on take is part of its size.
LEMMA PartOfSize ==
    ASSUME NEW class \in Classes, NEW k \in 1..Len(fields[class])
    PROVE  bytes_from[class][k] <= SizeOf(class)
<1> DEFINE bad == {i \in 1..Len(fields[class]) : ~ (bytes_from[class][i] <= SizeOf(class))}
<1>1. Len(fields[class]) \in Nat /\ SizeOf(class) \in Nat
    BY FirstField
<1>2. CASE bad = {}
    BY <1>2
<1>3. CASE bad # {}
    <2>1. bad \in SUBSET Nat
        BY <1>1
    <2> HIDE DEF bad
    <2>2. PICK least \in bad : \A i \in bad : least <= i
        BY <1>3, <2>1, LeastExists
    <2> USE DEF bad
    <2>3. least # 1
        BY <1>1 DEF SizeOf
    <2>4. least - 1 \in 1..Len(fields[class]) /\ least - 1 \notin bad
        BY <2>2, <2>3, <1>1
    <2>5. /\ bytes_from[class][least] \in Nat
          /\ bytes_from[class][least - 1] \in Nat
          /\ bytes_from[class][least] <= bytes_from[class][least - 1]
        <3>1. (least - 1) + 1 = least /\ least \in 1..Len(fields[class])
            BY <2>2, <1>1
        <3>2. /\ bytes_from[class][least - 1] \in Nat
              /\ bytes_from[class][(least - 1) + 1] \in Nat
              /\ Width(fields[class][least - 1]) \in Nat
              /\ bytes_from[class][least - 1]
                    = Width(fields[class][least - 1]) + bytes_from[class][(least - 1) + 1]
            BY <2>4, Layout
        <3>3. bytes_from[class][(least - 1) + 1] = bytes_from[class][least]
            BY <3>1
        <3> QED
            BY <3>2, <3>3
    <2> QED
        BY <2>2, <2>4, <2>5, <1>1
<1> QED
    BY <1>2, <1>3

\* Where the fields of a message are.
LEMMA Offsets ==
    ASSUME NEW m, queue[m] \in Classes, NEW k \in 1..LastField(m)
    PROVE  /\ LastField(m) \in Nat /\ 1 \in 1..LastField(m)
           /\ FieldOf(m, k) \in Field /\ Width(FieldOf(m, k)) \in Nat \ {0}
           /\ bytes_from[queue[m]][k] \in Nat /\ bytes_from[queue[m]][k + 1] \in Nat
           /\ bytes_from[queue[m]][k] = Width(FieldOf(m, k)) + bytes_from[queue[m]][k + 1]
           /\ HeaderLength(m) \in {1, 2}
           /\ reliable[queue[m]] <=> HeaderLength(m) = 2
           /\ Offset(m, 1) = HeaderLength(m)
           /\ Offset(m, k) \in Nat /\ Offset(m, k) >= HeaderLength(m)
           /\ Offset(m, k + 1) = Offset(m, k) + Width(FieldOf(m, k))
<1> DEFINE class == queue[m]
<1>1. LastField(m) \in Nat /\ 1 \in 1..LastField(m) /\ SizeOf(class) \in Nat
    BY FirstField DEF LastField
<1>2. k \in 1..Len(fields[class])
    BY DEF LastField
<1>3. /\ FieldOf(m, k) \in Field /\ Width(FieldOf(m, k)) \in Nat \ {0}
      /\ bytes_from[class][k] \in Nat /\ bytes_from[class][k + 1] \in Nat
      /\ bytes_from[class][k] = Width(FieldOf(m, k)) + bytes_from[class][k + 1]
    BY <1>2, Layout DEF FieldOf
<1>4. bytes_from[class][k] <= SizeOf(class)
    BY <1>2, PartOfSize
<1>5. HeaderLength(m) \in {1, 2} /\ (reliable[class] <=> HeaderLength(m) = 2)
    BY DEF HeaderLength
<1>6. Offset(m, 1) = HeaderLength(m)
    BY <1>1, <1>5 DEF Offset, SizeOf
<1>7. /\ Offset(m, k) \in Nat /\ Offset(m, k) >= HeaderLength(m)
      /\ Offset(m, k + 1) = Offset(m, k) + Width(FieldOf(m, k))
    BY <1>1, <1>3, <1>4, <1>5 DEF Offset
<1> QED
    BY <1>1, <1>3, <1>5, <1>6, <1>7

\* The last field is the one behind which nothing is left.
LEMMA NothingBehind ==
    ASSUME NEW m, queue[m] \in Classes
    PROVE  bytes_from[queue[m]][LastField(m) + 1] = 0
BY CodecAssumption DEF SumOfFields, LastField

-----------------------------------------------------------------------------
(* What a write leaves *)

\* e is d and behind it bytes of field k of message m, from the first one on.
Extends(d, e, m, k) ==
    /\ Len(d) <= Len(e)
    /\ \A i \in 1..Len(d) : e[i] = d[i]
    /\ \A i \in (Len(d) + 1)..Len(e) : e[i] = <<m, k, i - Len(d)>>

\* A write of bytes keeps to the buffer, and is whole when there is room.
LEMMA PutKeepsToBuffer ==
    ASSUME NEW d \in Seq(Byte), Len(d) <= MAXBUFSIZE, NEW bytes \in Seq(Byte)
    PROVE  /\ Put(d, bytes) \in Seq(Byte)
           /\ Len(Put(d, bytes)) <= MAXBUFSIZE
           /\ MAXBUFSIZE - Len(d) >= Len(bytes) =>
                  Len(Put(d, bytes)) = Len(d) + Len(bytes) /\ Put(d, bytes) = d \o bytes
           /\ ~ (MAXBUFSIZE - Len(d) >= Len(bytes)) => Put(d, bytes) = d
<1>1. Len(d) \in Nat /\ Len(bytes) \in Nat /\ MAXBUFSIZE \in Nat
    BY CodecAssumption
<1>2. d \o bytes \in Seq(Byte) /\ Len(d \o bytes) = Len(d) + Len(bytes)
    OBVIOUS
<1>3. CASE MAXBUFSIZE - Len(d) >= Len(bytes)
    BY <1>1, <1>2, <1>3 DEF Put
<1>4. CASE ~ (MAXBUFSIZE - Len(d) >= Len(bytes))
    BY <1>1, <1>4 DEF Put
<1> QED
    BY <1>3, <1>4

\* Appending the bytes from the b-th one on extends what ends before them.
LEMMA ConcatenationExtends ==
    ASSUME NEW d \in Seq(Byte), NEW e \in Seq(Byte), NEW bytes \in Seq(Byte),
           NEW m, NEW k, Extends(d, e, m, k),
           \A b \in 1..Len(bytes) : bytes[b] = <<m, k, Len(e) - Len(d) + b>>
    PROVE  Extends(d, e \o bytes, m, k)
<1> DEFINE all == e \o bytes
<1>1. Len(d) \in Nat /\ Len(e) \in Nat /\ Len(bytes) \in Nat /\ Len(all) = Len(e) + Len(bytes)
    OBVIOUS
<1>2. \A i \in 1..Len(e) : all[i] = e[i]
    OBVIOUS
<1>3. \A b \in 1..Len(bytes) : all[Len(e) + b] = bytes[b]
    OBVIOUS
<1> HIDE DEF all
<1>4. ASSUME NEW i \in (Len(d) + 1)..Len(all)
      PROVE  all[i] = <<m, k, i - Len(d)>>
    <2>1. CASE i <= Len(e)
        BY <1>1, <1>2, <2>1 DEF Extends
    <2>2. CASE i > Len(e)
        <3>1. i - Len(e) \in 1..Len(bytes) /\ Len(e) + (i - Len(e)) = i
            BY <1>1, <2>2
        <3>2. all[i] = <<m, k, Len(e) - Len(d) + (i - Len(e))>>
            BY <1>3, <3>1
        <3>3. Len(e) - Len(d) + (i - Len(e)) = i - Len(d)
            BY <1>1
        <3> QED
            BY <3>2, <3>3
    <2> QED
        BY <1>1, <2>1, <2>2
<1>5. Extends(d, all, m, k)
    BY <1>1, <1>2, <1>4 DEF Extends
<1> QED
    BY <1>5 DEF all

LEMMA BytesOfField ==
    ASSUME NEW m \in Nat, NEW k \in Nat, NEW n \in Nat
    PROVE  /\ FieldBytes(m, k, n) \in Seq(Byte) /\ Len(FieldBytes(m, k, n)) = n
           /\ \A b \in 1..n : FieldBytes(m, k, n)[b] = <<m, k, b>>
<1>1. \A b \in 1..n : <<m, k, b>> \in Byte
    BY DEF Byte
<1> QED
    BY <1>1 DEF FieldBytes

\* A field is written inside the buffer, whole when there is room; of a string
\* for which there is a byte too few the characters are written.
LEMMA WriteFieldExtends ==
    ASSUME NEW d \in Seq(Byte), Len(d) <= MAXBUFSIZE,
           NEW m \in Nat, NEW k \in Nat, FieldOf(m, k) \in Field
    PROVE  /\ WriteField(d, m, k) \in Seq(Byte)
           /\ Len(WriteField(d, m, k)) <= MAXBUFSIZE
           /\ Extends(d, WriteField(d, m, k), m, k)
           /\ MAXBUFSIZE - Len(d) >= Width(FieldOf(m, k)) =>
                  Len(WriteField(d, m, k)) = Len(d) + Width(FieldOf(m, k))
           /\ MAXBUFSIZE - Len(d) = Width(FieldOf(m, k)) - 1 /\ FieldOf(m, k).kind = "STRING" =>
                  Len(WriteField(d, m, k)) = MAXBUFSIZE
           /\ ~ (MAXBUFSIZE - Len(d) >= Width(FieldOf(m, k))) =>
                  Len(WriteField(d, m, k)) - Len(d) # Width(FieldOf(m, k))
<1> DEFINE f == FieldOf(m, k)
           n == f.size
<1>1. n \in Nat /\ Width(f) \in Nat
    BY DEF Field, Width
<1>2. Len(d) \in Nat /\ MAXBUFSIZE \in Nat
    BY CodecAssumption
<1>0. Extends(d, d, m, k)
    BY <1>2 DEF Extends
<1>3. CASE f.kind = "STRING"
    <2>1. WriteField(d, m, k) = WriteString(d, m, k) /\ Width(f) = n + 1
        BY <1>3 DEF WriteField, Width
    <2>2. CASE MAXBUFSIZE - Len(d) >= n
        <3> DEFINE chars == FieldBytes(m, k, n)
                   e == d \o chars
                   nul == <<<<m, k, n + 1>>>>
        <3>1. chars \in Seq(Byte) /\ Len(chars) = n /\ \A b \in 1..n : chars[b] = <<m, k, b>>
            BY <1>1, BytesOfField
        <3>2. nul \in Seq(Byte) /\ Len(nul) = 1 /\ nul[1] = <<m, k, n + 1>>
            BY <1>1 DEF Byte
        <3>3. WriteField(d, m, k) = Put(e, nul)
            BY <2>1, <2>2 DEF WriteString
        <3> HIDE DEF chars, nul
        <3>4. e \in Seq(Byte) /\ Len(e) = Len(d) + n
            <4>1. chars \in Seq(Byte)
                BY <3>1
            <4>2. d \o chars \in Seq(Byte) /\ Len(d \o chars) = Len(d) + Len(chars)
                BY <4>1
            <4> QED
                BY <4>2, <3>1
        <3>5. Extends(d, e, m, k)
            <4>1. \A b \in 1..Len(chars) : chars[b] = <<m, k, Len(d) - Len(d) + b>>
                BY <3>1, <1>1, <1>2
            <4> QED
                BY <4>1, <3>1, <1>0, ConcatenationExtends
        <3> HIDE DEF e
        <3>6. Len(e) <= MAXBUFSIZE
            BY <3>4, <2>2, <1>1, <1>2
        <3>7. Extends(d, e \o nul, m, k)
            <4>1. \A b \in 1..Len(nul) : nul[b] = <<m, k, Len(e) - Len(d) + b>>
                BY <3>2, <3>4, <1>1, <1>2
            <4> QED
                BY <4>1, <3>2, <3>4, <3>5, ConcatenationExtends
        <3>8. /\ Put(e, nul) \in Seq(Byte)
              /\ Len(Put(e, nul)) <= MAXBUFSIZE
              /\ MAXBUFSIZE - Len(e) >= 1 => Len(Put(e, nul)) = Len(e) + 1 /\ Put(e, nul) = e \o nul
              /\ ~ (MAXBUFSIZE - Len(e) >= 1) => Put(e, nul) = e
            BY <3>2, <3>4, <3>6, PutKeepsToBuffer
        <3>9. Extends(d, Put(e, nul), m, k)
            BY <3>5, <3>7, <3>8
        <3>10. Len(e) \in Nat
            BY <3>4
        <3>11. /\ MAXBUFSIZE - Len(d) >= Width(f) => Len(Put(e, nul)) = Len(d) + Width(f)
               /\ MAXBUFSIZE - Len(d) = Width(f) - 1 => Len(Put(e, nul)) = MAXBUFSIZE
               /\ ~ (MAXBUFSIZE - Len(d) >= Width(f)) => Len(Put(e, nul)) - Len(d) # Width(f)
            <4>3. /\ Len(d) \in Nat /\ MAXBUFSIZE \in Nat /\ n \in Nat /\ Width(f) = n + 1
                  /\ Len(e) = Len(d) + n /\ Len(e) <= MAXBUFSIZE
                BY <3>4, <3>6, <2>1, <1>1, <1>2
            <4> HIDE DEF n, f
            <4>1. CASE MAXBUFSIZE - Len(e) >= 1
                <5>1. Len(Put(e, nul)) = Len(e) + 1
                    BY <4>1, <3>8
                <5>2. Len(Put(e, nul)) = Len(d) + Width(f) /\ MAXBUFSIZE - Len(d) >= Width(f)
                    BY <4>1, <4>3, <5>1
                <5> QED
                    BY <4>3, <5>2
            <4>2. CASE ~ (MAXBUFSIZE - Len(e) >= 1)
                <5>1. Len(Put(e, nul)) = Len(e)
                    BY <4>2, <3>8
                <5> QED
                    BY <4>2, <4>3, <5>1
            <4> QED
                BY <4>1, <4>2
        <3> QED
            BY <3>3, <3>8, <3>9, <3>11
    <2>3. CASE ~ (MAXBUFSIZE - Len(d) >= n)
        <3>1. WriteField(d, m, k) = d
            BY <2>1, <2>3 DEF WriteString
        <3>2. ~ (MAXBUFSIZE - Len(d) >= Width(f)) /\ MAXBUFSIZE - Len(d) # Width(f) - 1
              /\ Len(d) - Len(d) # Width(f)
            BY <2>1, <2>3, <1>1, <1>2
        <3> QED
            BY <3>1, <3>2, <1>0
    <2> QED
        BY <2>2, <2>3
<1>4. CASE f.kind # "STRING"
    <2> DEFINE bytes == FieldBytes(m, k, Width(f))
    <2>1. WriteField(d, m, k) = Put(d, bytes)
        BY <1>4 DEF WriteField
    <2>2. /\ bytes \in Seq(Byte) /\ Len(bytes) = Width(f)
          /\ \A b \in 1..Width(f) : bytes[b] = <<m, k, b>>
        BY <1>1, BytesOfField
    <2> HIDE DEF bytes
    <2>3. Extends(d, d \o bytes, m, k)
        <3>1. \A b \in 1..Len(bytes) : bytes[b] = <<m, k, Len(d) - Len(d) + b>>
            BY <2>2, <1>1, <1>2
        <3> QED
            BY <3>1, <2>2, <1>0, ConcatenationExtends
    <2>4. /\ Put(d, bytes) \in Seq(Byte)
          /\ Len(Put(d, bytes)) <= MAXBUFSIZE
          /\ MAXBUFSIZE - Len(d) >= Width(f) => Len(Put(d, bytes)) = Len(d) + Width(f) /\ Put(d, bytes) = d \o bytes
          /\ ~ (MAXBUFSIZE - Len(d) >= Width(f)) => Put(d, bytes) = d
        BY <2>2, PutKeepsToBuffer
    <2>5. Extends(d, Put(d, bytes), m, k)
        BY <2>3, <2>4, <1>0
    <2> QED
        BY <2>1, <2>4, <2>5, <1>1, <1>2, <1>4
<1> QED
    BY <1>3, <1>4

\* A header is one byte, and a sequence number follows that of a reliable
\* message, when there is room for both.
LEMMA WriteHeaderExtends ==
    ASSUME NEW d \in Seq(Byte), MAXBUFSIZE - Len(d) >= 2, NEW m \in Nat
    PROVE  /\ WriteHeader(d, m) \in Seq(Byte)
           /\ Len(WriteHeader(d, m)) = Len(d) + HeaderLength(m)
           /\ Extends(d, WriteHeader(d, m), m, 0)
<1> DEFINE header == <<Header(m)>>
           seqnr == <<SeqNr(m)>>
           e == Put(d, header)
<1>1. /\ header \in Seq(Byte) /\ Len(header) = 1 /\ header[1] = <<m, 0, 1>>
      /\ seqnr \in Seq(Byte) /\ Len(seqnr) = 1 /\ seqnr[1] = <<m, 0, 2>>
    BY DEF Header, SeqNr, Byte
<1>2. Len(d) \in Nat /\ MAXBUFSIZE \in Nat /\ Len(d) <= MAXBUFSIZE
    BY CodecAssumption
<1>3. WriteHeader(d, m) = IF reliable[queue[m]] THEN Put(e, seqnr) ELSE e
    BY DEF WriteHeader
<1> HIDE DEF header, seqnr
<1>4. /\ e \in Seq(Byte) /\ Len(e) <= MAXBUFSIZE
      /\ Len(e) = Len(d) + 1 /\ e = d \o header
    <2>1. MAXBUFSIZE - Len(d) >= Len(header)
        BY <1>1, <1>2
    <2>2. header \in Seq(Byte)
        BY <1>1
    <2>3. /\ Put(d, header) \in Seq(Byte) /\ Len(Put(d, header)) <= MAXBUFSIZE
          /\ Len(Put(d, header)) = Len(d) + Len(header) /\ Put(d, header) = d \o header
        BY <2>1, <2>2, <1>2, PutKeepsToBuffer
    <2> QED
        BY <2>3, <1>1
<1>5. Extends(d, e, m, 0)
    <2>1. Extends(d, d, m, 0)
        BY <1>2 DEF Extends
    <2>2. \A b \in 1..Len(header) : header[b] = <<m, 0, Len(d) - Len(d) + b>>
        BY <1>1, <1>2
    <2> QED
        BY <2>1, <2>2, <1>1, <1>4, ConcatenationExtends
<1> HIDE DEF e
<1>6. MAXBUFSIZE - Len(e) >= Len(seqnr)
    <2>1. Len(e) = Len(d) + 1 /\ Len(seqnr) = 1
        BY <1>1, <1>4
    <2> QED
        BY <2>1, <1>2
<1>7. /\ Put(e, seqnr) \in Seq(Byte)
      /\ Len(Put(e, seqnr)) = Len(e) + 1 /\ Put(e, seqnr) = e \o seqnr
    <2>1. e \in Seq(Byte) /\ Len(e) <= MAXBUFSIZE /\ seqnr \in Seq(Byte)
        BY <1>1, <1>4
    <2>2. /\ Put(e, seqnr) \in Seq(Byte)
          /\ Len(Put(e, seqnr)) = Len(e) + Len(seqnr) /\ Put(e, seqnr) = e \o seqnr
        BY <2>1, <1>6, PutKeepsToBuffer
    <2> QED
        BY <2>2, <1>1
<1>8. Extends(d, Put(e, seqnr), m, 0)
    <2>1. \A b \in 1..Len(seqnr) : seqnr[b] = <<m, 0, Len(e) - Len(d) + b>>
        BY <1>1, <1>2, <1>4
    <2> QED
        BY <2>1, <1>1, <1>4, <1>5, <1>7, ConcatenationExtends
<1> QED
    BY <1>2, <1>3, <1>4, <1>5, <1>7, <1>8 DEF HeaderLength

\* What ByteAt makes of it.
LEMMA BytesKept ==
    ASSUME data \in Seq(Byte), data' \in Seq(Byte), NEW m, NEW k, Extends(data, data', m, k),
           NEW p \in Nat
    PROVE  /\ p < Len(data) => ByteAt(p)' = ByteAt(p)
           /\ ByteAt(p) # Zero => p < Len(data)
           /\ ByteAt(p)' # Zero => p < Len(data')
           /\ Len(data) <= p /\ p < Len(data') => ByteAt(p)' = <<m, k, p - Len(data) + 1>>
<1>1. Len(data) \in Nat /\ Len(data') \in Nat
    OBVIOUS
<1>2. p < Len(data) => p + 1 \in 1..Len(data)
    BY <1>1
<1>3. Len(data) <= p /\ p < Len(data') =>
          p + 1 \in (Len(data) + 1)..Len(data') /\ (p + 1) - Len(data) = p - Len(data) + 1
    BY <1>1
<1>4. p < Len(data) => p < Len(data')
    BY <1>1 DEF Extends
<1> QED
    BY <1>1, <1>2, <1>3, <1>4 DEF ByteAt, Extends, Zero
\* What is written stays where it is.
LEMMA KeptBytes ==
    ASSUME data \in Seq(Byte), data' \in Seq(Byte), NEW n, NEW i, Extends(data, data', n, i)
    PROVE  /\ Len(data) \in Nat /\ Len(data') \in Nat /\ Len(data) <= Len(data')
           /\ \A q \in Nat : ByteAt(q) # Zero => ByteAt(q)' = ByteAt(q)
<1>1. Len(data) \in Nat /\ Len(data') \in Nat /\ Len(data) <= Len(data')
    BY DEF Extends
<1>2. ASSUME NEW q \in Nat, ByteAt(q) # Zero
      PROVE  ByteAt(q)' = ByteAt(q)
    BY <1>2, BytesKept
<1> QED
    BY <1>1, <1>2

\* The layout depends on the queue alone.
LEMMA LayoutKept ==
    ASSUME queue' = queue, NEW m, NEW k
    PROVE  /\ Offset(m, k)' = Offset(m, k)
           /\ LastField(m)' = LastField(m)
           /\ FieldOf(m, k)' = FieldOf(m, k)
           /\ HeaderLength(m)' = HeaderLength(m)
BY DEF Offset, HeaderLength, SizeOf, LastField, FieldOf

LEMMA FieldKept ==
    ASSUME Len(data) \in Nat, Len(data') \in Nat, Len(data) <= Len(data'),
           \A q \in Nat : ByteAt(q) # Zero => ByteAt(q)' = ByteAt(q),
           queue' = queue, NEW m, queue[m] \in Classes, NEW k \in 1..LastField(m), NEW p \in Nat,
           HasField(p, m, k)
    PROVE  HasField(p, m, k)'
<1>1. /\ Offset(m, k) \in Nat /\ Width(FieldOf(m, k)) \in Nat
      /\ Offset(m, k + 1) = Offset(m, k) + Width(FieldOf(m, k))
    BY Offsets
<1>2. /\ Offset(m, k)' = Offset(m, k) /\ Offset(m, k + 1)' = Offset(m, k + 1)
      /\ FieldOf(m, k)' = FieldOf(m, k)
    BY LayoutKept
<1>3. p + Offset(m, k + 1) <= Len(data')
    BY <1>1 DEF HasField
<1>4. ASSUME NEW b \in 1..Width(FieldOf(m, k))
      PROVE  ByteAt(p + Offset(m, k) + b - 1)' = <<m, k, b>>
    <2>1. p + Offset(m, k) + b - 1 \in Nat
        BY <1>1
    <2>2. ByteAt(p + Offset(m, k) + b - 1) = <<m, k, b>> /\ <<m, k, b>> # Zero
        BY <1>1 DEF HasField, Zero
    <2>3. PICK q \in Nat : q = p + Offset(m, k) + b - 1
        BY <2>1
    <2>4. ByteAt(q)' = <<m, k, b>>
        BY <2>2, <2>3
    <2> QED
        BY <2>3, <2>4, <1>2 DEF ByteAt
<1> QED
    BY <1>2, <1>3, <1>4 DEF HasField

LEMMA FieldsBelowKept ==
    ASSUME Len(data) \in Nat, Len(data') \in Nat, Len(data) <= Len(data'),
           \A q \in Nat : ByteAt(q) # Zero => ByteAt(q)' = ByteAt(q),
           queue' = queue, NEW m, queue[m] \in Classes, NEW n \in 1..LastField(m), NEW p \in Nat,
           HasFieldsBelow(p, m, n)
    PROVE  HasFieldsBelow(p, m, n)'
<1>1. LastField(m) \in Nat /\ 1 \in 1..LastField(m) /\ Offset(m, 1) \in Nat
    <2>1. LastField(m) \in Nat /\ 1 \in 1..LastField(m)
        BY Offsets
    <2> QED
        BY <2>1, Offsets
<1>2. (p + Offset(m, 1) <= Len(data))'
    BY <1>1, LayoutKept DEF HasFieldsBelow
<1>3. (reliable[queue[m]] => ByteAt(p + 1) = SeqNr(m))'
    <2>1. SeqNr(m) # Zero /\ SeqNr(m)' = SeqNr(m) /\ p + 1 \in Nat
        BY DEF SeqNr, Zero
    <2> QED
        BY <2>1 DEF HasFieldsBelow
<1>4. ASSUME NEW k \in 1..(n - 1)
      PROVE  HasField(p, m, k)'
    <2>1. k \in 1..LastField(m)
        BY <1>1
    <2>2. HasField(p, m, k)
        BY DEF HasFieldsBelow
    <2> QED
        BY <2>1, <2>2, FieldKept
<1> QED
    BY <1>2, <1>3, <1>4 DEF HasFieldsBelow

LEMMA CutKept ==
    ASSUME \A q \in Nat : ByteAt(q) # Zero => ByteAt(q)' = ByteAt(q),
           queue' = queue, NEW m, queue[m] \in Classes, NEW p \in Nat,
           IsCutAt(p, m)
    PROVE  IsCutAt(p, m)'
<1> DEFINE k == LastField(m)
           f == FieldOf(m, k)
<1>1. k \in Nat /\ k \in 1..k
    <2>1. LastField(m) \in Nat /\ 1 \in 1..LastField(m)
        BY FirstField DEF LastField
    <2> QED
        BY <2>1
<1>2. Offset(m, k) \in Nat /\ f \in Field
    BY <1>1, Offsets
<1>3. Offset(m, k)' = Offset(m, k) /\ f' = f /\ k' = k
    BY LayoutKept
<1>4. ASSUME f.kind = "STRING", NEW b \in 1..f.size
      PROVE  ByteAt(p + Offset(m, k) + b - 1)' = <<m, k, b>>
    <2>1. p + Offset(m, k) + b - 1 \in Nat
        BY <1>2
    <2>2. ByteAt(p + Offset(m, k) + b - 1) = <<m, k, b>>
        BY <1>4 DEF IsCutAt
    <2>3. <<m, k, b>> # Zero
        BY <1>2 DEF Zero
    <2>4. PICK q \in Nat : q = p + Offset(m, k) + b - 1
        BY <2>1
    <2>5. PICK i : i = k
        OBVIOUS
    <2>6. ByteAt(q)' = <<m, i, b>>
        BY <2>2, <2>3, <2>4, <2>5
    <2> QED
        BY <2>4, <2>5, <2>6, <1>3 DEF ByteAt
<1>5. MAXBUFSIZE - (p + Offset(m, k)) = Width(f) - 1
    BY DEF IsCutAt
<1> HIDE DEF f, k
<1> QED
    BY <1>3, <1>4, <1>5 DEF IsCutAt, k, f

\* A message's bytes stay, what follows it being another matter.
LEMMA WrittenKept ==
    ASSUME Len(data) \in Nat, Len(data') \in Nat, Len(data) <= Len(data'),
           \A q \in Nat : ByteAt(q) # Zero => ByteAt(q)' = ByteAt(q),
           queue' = queue, NEW m, queue[m] \in Classes, NEW p \in Nat,
           IsWrittenAt(p, m), m \in cut' <=> m \in cut,
           m \notin cut => NextIsAt(m, p + Offset(m, LastField(m) + 1))'
    PROVE  IsWrittenAt(p, m)'
<1>1. LastField(m) \in 1..LastField(m)
    <2>1. LastField(m) \in Nat /\ 1 \in 1..LastField(m)
        BY FirstField DEF LastField
    <2> QED
        BY <2>1
<1>2. LastField(m)' = LastField(m) /\ Offset(m, LastField(m) + 1)' = Offset(m, LastField(m) + 1)
    BY LayoutKept
<1>3. HasFieldsBelow(p, m, LastField(m))'
    <2>1. HasFieldsBelow(p, m, LastField(m))
        BY DEF IsWrittenAt
    <2> QED
        BY <2>1, <1>1, <1>2, FieldsBelowKept
<1>4. CASE m \in cut
    <2>1. IsCutAt(p, m)'
        BY <1>4, CutKept DEF IsWrittenAt
    <2> QED
        BY <1>3, <1>4, <2>1 DEF IsWrittenAt
<1>5. CASE m \notin cut
    <2>1. HasField(p, m, LastField(m))
        BY <1>5 DEF IsWrittenAt
    <2>2. HasField(p, m, LastField(m))'
        BY <2>1, <1>1, <1>2, FieldKept
    <2>3. NextIsAt(m, p + Offset(m, LastField(m) + 1))'
        BY <1>5
    <2> QED
        BY <1>3, <1>5, <2>2, <2>3 DEF IsWrittenAt
<1> QED
    BY <1>4, <1>5
\* A message that is appended follows the newest one before it.
LEMMA ChainGrows ==
    ASSUME \A q \in Nat : ByteAt(q) # Zero => ByteAt(q)' = ByteAt(q),
           appended \subseteq Nat, NEW j \in Nat, \A i \in appended : i < j,
           appended' = appended \cup {j},
           NEW end \in Nat, end = Len(data), ByteAt(end)' = Header(j),
           NEW m \in Nat, m < j, NEW e \in Nat, NextIsAt(m, e)
    PROVE  NextIsAt(m, e)'
<1>1. Later(m)' = Later(m) \cup {j}
    BY DEF Later
<1>2. CASE Later(m) = {} /\ e = Len(data)
    <2>1. ByteAt(e)' = Header(j) /\ Header(j)' = Header(j)
        BY <1>2 DEF Header
    <2>2. j \in Later(m)' /\ \A i \in Later(m)' : j <= i
        BY <1>1, <1>2
    <2> QED
        BY <2>1, <2>2 DEF NextIsAt
<1>3. CASE \E i \in Later(m) : ByteAt(e) = Header(i) /\ \A h \in Later(m) : i <= h
    <2>1. PICK i \in Later(m) : ByteAt(e) = Header(i) /\ \A h \in Later(m) : i <= h
        BY <1>3
    <2>2. ByteAt(e)' = Header(i) /\ Header(i)' = Header(i)
        BY <2>1 DEF Header, Zero
    <2>3. i \in appended /\ i \in Nat /\ i < j
        BY DEF Later
    <2>4. i \in Later(m)' /\ \A h \in Later(m)' : i <= h
        <3>1. i <= j /\ \A h \in Later(m) : i <= h
            BY <2>1, <2>3
        <3> QED
            BY <1>1, <3>1
    <2> QED
        BY <2>2, <2>4 DEF NextIsAt
<1> QED
    BY <1>2, <1>3 DEF NextIsAt

\* What follows a message that is not the last one stays.
LEMMA ChainKept ==
    ASSUME \A q \in Nat : ByteAt(q) # Zero => ByteAt(q)' = ByteAt(q),
           appended' = appended, NEW m, Later(m) # {}, NEW e \in Nat, NextIsAt(m, e)
    PROVE  NextIsAt(m, e)'
<1>1. Later(m)' = Later(m)
    BY DEF Later
<1>2. PICK i \in Later(m) : ByteAt(e) = Header(i) /\ \A h \in Later(m) : i <= h
    BY DEF NextIsAt
<1>3. ByteAt(e)' = Header(i) /\ Header(i)' = Header(i)
    BY <1>2 DEF Header, Zero
<1> QED
    BY <1>1, <1>2, <1>3 DEF NextIsAt

\* What holds of the messages in the queue.
LEMMA MessageOf ==
    ASSUME WriterOK, NEW m \in appended \cup (IF next <= Len(queue) THEN {next} ELSE {})
    PROVE  m \in Nat /\ m > 0 /\ m \in 1..Len(queue) /\ queue[m] \in Classes
<1>1. Len(queue) \in Nat /\ next \in 1..(Len(queue) + 1) /\ appended \subseteq 1..Len(queue)
    BY DEF WriterOK
<1>2. m \in 1..Len(queue)
    BY <1>1
<1> QED
    BY <1>1, <1>2 DEF WriterOK

-----------------------------------------------------------------------------
(* The writer *)

LEMMA InitWriter == Init => WriterInv
<1> SUFFICES ASSUME Init
             PROVE  WriterInv
    OBVIOUS
<1>1. queue \in Seq(Classes) /\ Len(queue) \in Nat
    BY DEF Init, Queues, SeqOf
<1>2. data \in Seq(Byte) /\ Len(data) = 2 /\ data[1] = <<0, 0, 1>> /\ data[2] = <<0, 0, 2>>
    BY DEF Init, SessionByte, Byte
<1>3. WriterOK
    <2>1. Len(data) <= MAXBUFSIZE
        BY <1>2, BufferSize
    <2> QED
        BY <1>1, <1>2, <2>1 DEF Init, WriterOK
<1>4. HeadersOK
    <2>1. ASSUME NEW p \in Nat, NEW m \in Nat, m > 0
          PROVE  ByteAt(p) # Header(m)
        <3>1. p < 2 => p + 1 \in {1, 2}
            OBVIOUS
        <3>2. ByteAt(p) \in {Zero, <<0, 0, 1>>, <<0, 0, 2>>}
            BY <3>1, <1>2 DEF ByteAt
        <3> QED
            BY <3>2, <2>1 DEF Header, Zero
    <2> QED
        BY <2>1 DEF HeadersOK
<1>5. NextIsAt(0, PACKET_HEADER_SIZE)
    BY <1>2 DEF Init, NextIsAt, Later, PACKET_HEADER_SIZE
<1> QED
    BY <1>2, <1>3, <1>4, <1>5
    DEF Init, WriterInv, ProgressOK, WrittenOK, WritingOK, OnlyReliableCut, PACKET_HEADER_SIZE

LEMMA AppendMessageWriter == WriterInv /\ AppendMessage => WriterInv'
<1> SUFFICES ASSUME WriterInv, AppendMessage
             PROVE  WriterInv'
    OBVIOUS
<1>1. /\ Len(queue) \in Nat /\ data \in Seq(Byte) /\ Len(data) \in Nat /\ MAXBUFSIZE \in Nat
      /\ next \in 1..Len(queue) /\ next \in Nat /\ next > 0 /\ field = 0 /\ phase = "craft"
      /\ appended \subseteq 1..Len(queue) /\ appended \subseteq Nat /\ cut \subseteq appended
    BY BufferSize DEF WriterInv, WriterOK, AppendMessage
<1>2. \A i \in appended : i < next
    BY <1>1 DEF WriterInv, ProgressOK
<1>3. CASE ~ Fits(next)
    <2>1. next' = next + 1 /\ UNCHANGED <<phase, queue, data, appended, cut, field>>
        BY <1>3 DEF AppendMessage
    <2>2. WriterOK'
        BY <2>1, <1>1 DEF WriterInv, WriterOK
    <2>3. ProgressOK' /\ HeadersOK' /\ WritingOK' /\ NextIsAt(0, PACKET_HEADER_SIZE)' /\ OnlyReliableCut'
        <3>1. ProgressOK' /\ WritingOK'
            BY <2>1, <1>1, <1>2 DEF WriterInv, ProgressOK, WritingOK
        <3>2. HeadersOK' /\ NextIsAt(0, PACKET_HEADER_SIZE)' /\ OnlyReliableCut'
            BY <2>1 DEF WriterInv, HeadersOK, NextIsAt, Later, ByteAt, OnlyReliableCut
        <3> QED
            BY <3>1, <3>2
    <2>4. WrittenOK'
        <3> SUFFICES ASSUME NEW m \in appended', NEW p \in Nat, (ByteAt(p) = Header(m))'
                     PROVE  IsWrittenAt(p, m)'
            BY DEF WrittenOK
        <3>1. m \in appended /\ m # next /\ ByteAt(p) = Header(m)
            BY <2>1, <1>1, <1>2 DEF ByteAt, Header
        <3>2. IsWrittenAt(p, m)
            BY <3>1 DEF WriterInv, WrittenOK
        <3>3. IsWrittenAt(p, m)' = IsWrittenAt(p, m)
            BY <2>1 DEF IsWrittenAt, HasFieldsBelow, HasField, IsCutAt, NextIsAt, Later, ByteAt,
                        LastField, Offset, FieldOf, HeaderLength, SizeOf
        <3> QED
            BY <3>2, <3>3
    <2> QED
        BY <2>2, <2>3, <2>4 DEF WriterInv
<1>4. CASE Fits(next)
    <2> DEFINE class == queue[next]
    <2>1. /\ data' = WriteHeader(data, next) /\ appended' = appended \cup {next}
          /\ field' = 1 /\ next' = next /\ queue' = queue /\ cut' = cut /\ phase' = phase
        BY <1>4 DEF AppendMessage
    <2>2. class \in Classes
        BY <1>1 DEF WriterInv, WriterOK
    <2>3. PICK j \in Nat : j = next
        BY <1>1
    <2>4. /\ Len(fields[class]) \in Nat /\ 1 \in 1..Len(fields[class])
          /\ SizeOf(class) \in Nat /\ SizeOf(class) > 0 /\ SizeOf(class) = bytes_from[class][1]
          /\ HeaderLength(next) \in {1, 2} /\ (reliable[class] <=> HeaderLength(next) = 2)
          /\ Offset(next, 1) = HeaderLength(next)
        <3>1. Len(fields[class]) \in Nat /\ 1 \in 1..Len(fields[class]) /\ SizeOf(class) \in Nat
            BY <2>2, FirstField
        <3>2. 1 \in 1..LastField(next)
            BY <3>1 DEF LastField
        <3>3. /\ HeaderLength(next) \in {1, 2} /\ (reliable[class] <=> HeaderLength(next) = 2)
              /\ Offset(next, 1) = HeaderLength(next)
              /\ Width(FieldOf(next, 1)) \in Nat \ {0}
              /\ bytes_from[class][1] = Width(FieldOf(next, 1)) + bytes_from[class][2]
              /\ bytes_from[class][2] \in Nat
            <4>1. /\ HeaderLength(next) \in {1, 2} /\ (reliable[class] <=> HeaderLength(next) = 2)
                  /\ Offset(next, 1) = HeaderLength(next)
                  /\ Width(FieldOf(next, 1)) \in Nat \ {0}
                  /\ bytes_from[class][1] = Width(FieldOf(next, 1)) + bytes_from[class][1 + 1]
                  /\ bytes_from[class][1 + 1] \in Nat
                BY <3>2, <2>2, Offsets
            <4> QED
                BY <4>1
        <3> QED
            BY <3>1, <3>3 DEF SizeOf
    <2>5. MAXBUFSIZE - Len(data) > SizeOf(class)
        BY <1>4 DEF Fits, AvailableWrite
    <2>6. /\ data' \in Seq(Byte) /\ Len(data') = Len(data) + HeaderLength(next)
          /\ Extends(data, data', next, 0)
        <3>1. MAXBUFSIZE - Len(data) >= 2
            BY <2>4, <2>5, <1>1
        <3> QED
            BY <3>1, <2>1, <1>1, WriteHeaderExtends
    <2>7. /\ Len(data') \in Nat /\ Len(data) <= Len(data') /\ Len(data') <= MAXBUFSIZE
          /\ \A q \in Nat : ByteAt(q) # Zero => ByteAt(q)' = ByteAt(q)
        <3>1. Extends(data, data', j, 0)
            BY <2>3, <2>6
        <3>2. /\ Len(data') \in Nat /\ Len(data) <= Len(data')
              /\ \A q \in Nat : ByteAt(q) # Zero => ByteAt(q)' = ByteAt(q)
            BY <3>1, <2>6, <1>1, KeptBytes
        <3>3. Len(data') <= MAXBUFSIZE
            BY <2>4, <2>5, <2>6, <1>1
        <3> QED
            BY <3>2, <3>3
    <2>8. ASSUME NEW p \in Nat, NEW m \in Nat, m > 0, ByteAt(p)' = Header(m)
          PROVE  \/ p < Len(data) /\ ByteAt(p) = Header(m) /\ m \in appended /\ m # next
                 \/ m = next /\ p = Len(data)
        <3>1. /\ p < Len(data) => ByteAt(p)' = ByteAt(p)
              /\ ByteAt(p)' # Zero => p < Len(data')
              /\ Len(data) <= p /\ p < Len(data') => ByteAt(p)' = <<j, 0, p - Len(data) + 1>>
            <4>1. Extends(data, data', j, 0)
                BY <2>3, <2>6
            <4> QED
                BY <4>1, <2>6, <1>1, BytesKept
        <3>2. ByteAt(p)' = <<m, 0, 1>> /\ ByteAt(p)' # Zero
            BY <2>8 DEF Header, Zero
        <3>3. CASE p < Len(data)
            <4>1. ByteAt(p) = Header(m)
                BY <3>1, <3>3, <2>8
            <4>2. m \in appended
                BY <4>1, <2>8 DEF WriterInv, HeadersOK
            <4> QED
                BY <4>1, <4>2, <3>3, <1>2, <1>1
        <3>4. CASE ~ (p < Len(data))
            <4>1. p < Len(data') /\ Len(data) <= p
                BY <3>1, <3>2, <3>4, <1>1
            <4>2. <<m, 0, 1>> = <<j, 0, p - Len(data) + 1>>
                BY <4>1, <3>1, <3>2
            <4>3. m = j /\ 1 = p - Len(data) + 1
                BY <4>2
            <4> QED
                BY <4>3, <2>3, <1>1
        <3> QED
            BY <3>3, <3>4
    <2>9. PICK end \in Nat : end = Len(data)
        BY <1>1
    <2>10. ByteAt(end)' = Header(j)
        <3>1. Len(data) <= end /\ end < Len(data') => ByteAt(end)' = <<j, 0, end - Len(data) + 1>>
            <4>1. Extends(data, data', j, 0)
                BY <2>3, <2>6
            <4> QED
                BY <4>1, <2>6, <1>1, BytesKept
        <3>2. Len(data) <= end /\ end < Len(data') /\ end - Len(data) + 1 = 1
            BY <2>9, <2>6, <2>4, <1>1
        <3> QED
            BY <3>1, <3>2 DEF Header
    <2>11. ASSUME NEW m \in Nat, m < j, NEW e \in Nat, NextIsAt(m, e)
           PROVE  NextIsAt(m, e)'
        <3>1. (\A i \in appended : i < j) /\ appended' = appended \cup {j} /\ appended \subseteq Nat
            BY <2>1, <2>3, <1>1, <1>2
        <3>2. \A q \in Nat : ByteAt(q) # Zero => ByteAt(q)' = ByteAt(q)
            BY <2>7
        <3> QED
            <4>1. appended \subseteq Nat /\ j \in Nat /\ (\A i \in appended : i < j)
                BY <3>1
            <4>2. appended' = appended \cup {j}
                BY <3>1
            <4>3. end \in Nat /\ end = Len(data) /\ ByteAt(end)' = Header(j)
                BY <2>9, <2>10
            <4> QED
                BY <4>1, <4>2, <4>3, <3>2, <2>11, ChainGrows
    <2>12. WriterOK'
        BY <2>1, <2>6, <2>7, <2>4, <1>1 DEF WriterInv, WriterOK
    <2>13. ProgressOK' /\ OnlyReliableCut'
        <3>1. OnlyReliableCut'
            BY <2>1 DEF WriterInv, OnlyReliableCut
        <3>2. (PACKET_HEADER_SIZE <= Len(data))'
            BY <2>7, <1>1 DEF WriterInv, ProgressOK, PACKET_HEADER_SIZE
        <3>3. (\A m \in appended : m < next \/ (m = next /\ field > 0))'
            BY <2>1, <1>2
        <3>4. (\A m \in cut : m < next)'
            BY <2>1 DEF WriterInv, ProgressOK
        <3> QED
            BY <3>1, <3>2, <3>3, <3>4, <2>1, <1>1 DEF ProgressOK
    <2>14. HeadersOK'
        <3> SUFFICES ASSUME NEW p \in Nat, NEW m \in Nat, m > 0, ByteAt(p)' = Header(m)
                     PROVE  m \in appended'
            BY DEF HeadersOK, Header
        <3> QED
            BY <2>8, <2>1
    <2>15. WrittenOK'
        <3> SUFFICES ASSUME NEW m \in appended', m # next', NEW p \in Nat, ByteAt(p)' = Header(m)
                     PROVE  IsWrittenAt(p, m)'
            BY DEF WrittenOK, Header
        <3>1. m \in appended /\ m # next /\ m \in Nat /\ m > 0 /\ queue[m] \in Classes /\ m < j
            BY <2>1, <2>3, <1>1, <1>2, MessageOf DEF WriterInv
        <3>2. IsWrittenAt(p, m)
            BY <3>1, <2>8 DEF WriterInv, WrittenOK
        <3>3. m \notin cut => NextIsAt(m, p + Offset(m, LastField(m) + 1))'
            <4>1. p + Offset(m, LastField(m) + 1) \in Nat
                <5>1. LastField(m) \in Nat /\ LastField(m) \in 1..LastField(m)
                    BY <3>1, FirstField DEF LastField
                <5>2. Offset(m, LastField(m)) \in Nat
                      /\ Offset(m, LastField(m) + 1) = Offset(m, LastField(m)) + Width(FieldOf(m, LastField(m)))
                      /\ Width(FieldOf(m, LastField(m))) \in Nat
                    BY <5>1, <3>1, Offsets
                <5> QED
                    BY <5>2
            <4>2. PICK e \in Nat : e = p + Offset(m, LastField(m) + 1)
                BY <4>1
            <4>3. e = (p + Offset(m, LastField(m) + 1))'
                BY <4>2, <2>1, LayoutKept
            <4>4. m \notin cut => NextIsAt(m, e)'
                BY <3>1, <3>2, <4>2, <2>11 DEF IsWrittenAt
            <4> QED
                BY <4>3, <4>4 DEF NextIsAt, ByteAt
        <3> QED
            BY <3>1, <3>2, <3>3, <2>1, <2>7, <1>1, WrittenKept
    <2>16. WritingOK'
        <3>1. next' \in appended'
            BY <2>1
        <3>2. (MAXBUFSIZE - Len(data) >= bytes_from[queue[next]][field] - (HeaderLength(next) - 1))'
            <4>1. MAXBUFSIZE - Len(data') >= bytes_from[class][1] - (HeaderLength(next) - 1)
                BY <2>4, <2>5, <2>6, <1>1
            <4> QED
                BY <4>1, <2>1 DEF HeaderLength
        <3>3. ASSUME NEW p \in Nat, ByteAt(p)' = Header(j)
              PROVE  HasFieldsBelow(p, j, 1)' /\ Len(data') = p + Offset(j, 1)'
            <4>1. p = Len(data)
                BY <3>3, <2>3, <2>8, <1>1
            <4>2. Offset(j, 1)' = HeaderLength(j) /\ Len(data') = p + HeaderLength(j)
                BY <4>1, <2>1, <2>3, <2>4, <2>6, LayoutKept
            <4>3. (reliable[queue[j]] => ByteAt(p + 1) = SeqNr(j))'
                <5>1. Len(data) <= p + 1 /\ p + 1 < Len(data') => ByteAt(p + 1)' = <<j, 0, p + 1 - Len(data) + 1>>
                    <6>1. Extends(data, data', j, 0)
                        BY <2>3, <2>6
                    <6> QED
                        BY <6>1, <2>6, <1>1, BytesKept
                <5>2. reliable[queue[j]] => Len(data) <= p + 1 /\ p + 1 < Len(data') /\ p + 1 - Len(data) + 1 = 2
                    BY <4>1, <4>2, <2>3, <2>4, <1>1
                <5> QED
                    BY <5>1, <5>2, <2>1 DEF SeqNr
            <4> QED
                BY <4>2, <4>3, <2>7 DEF HasFieldsBelow
        <3>4. j = next' /\ field' = 1
            BY <2>1, <2>3
        <3> QED
            BY <3>1, <3>2, <3>3, <3>4 DEF WritingOK, Header
    <2>17. NextIsAt(0, PACKET_HEADER_SIZE)'
        BY <2>11, <2>3, <1>1 DEF WriterInv, PACKET_HEADER_SIZE
    <2> QED
        BY <2>12, <2>13, <2>14, <2>15, <2>16, <2>17 DEF WriterInv
<1> QED
    BY <1>3, <1>4
LEMMA SerializeFieldWriter == WriterInv /\ SerializeField => WriterInv'
<1> SUFFICES ASSUME WriterInv, SerializeField
             PROVE  WriterInv'
    OBVIOUS
<1> DEFINE class == queue[next]
           f == FieldOf(next, field)
           last == LastField(next)
<1>1. /\ Len(queue) \in Nat /\ data \in Seq(Byte) /\ Len(data) \in Nat /\ MAXBUFSIZE \in Nat
      /\ Len(data) <= MAXBUFSIZE
      /\ next \in 1..Len(queue) /\ next \in Nat /\ next > 0 /\ field \in Nat /\ field > 0
      /\ phase = "craft" /\ class \in Classes /\ field <= last
      /\ appended \subseteq 1..Len(queue) /\ appended \subseteq Nat /\ cut \subseteq appended
    BY BufferSize DEF WriterInv, WriterOK, SerializeField, LastField
<1>2. next \in appended /\ next \notin cut /\ \A m \in appended : m <= next
    <2>1. next \in appended
        BY <1>1 DEF WriterInv, WritingOK
    <2>2. \A m \in appended : m < next \/ m = next
        BY DEF WriterInv, ProgressOK
    <2>3. \A m \in cut : m < next
        BY DEF WriterInv, ProgressOK
    <2> QED
        BY <2>1, <2>2, <2>3, <1>1
<1>3. /\ last \in Nat /\ 1 \in 1..last /\ field \in 1..last
      /\ f \in Field /\ Width(f) \in Nat \ {0}
      /\ bytes_from[class][field] \in Nat /\ bytes_from[class][field + 1] \in Nat
      /\ bytes_from[class][field] = Width(f) + bytes_from[class][field + 1]
      /\ HeaderLength(next) \in {1, 2} /\ (reliable[class] <=> HeaderLength(next) = 2)
      /\ Offset(next, field) \in Nat
      /\ Offset(next, field + 1) = Offset(next, field) + Width(f)
    <2>1. last \in Nat
        BY <1>1, FirstField DEF LastField
    <2>2. field \in 1..last
        BY <2>1, <1>1
    <2> QED
        BY <2>1, <2>2, <1>1, Offsets
<1>4. /\ data' = WriteField(data, next, field)
      /\ UNCHANGED <<phase, queue, appended>>
      /\ cut' = IF Len(data') - Len(data) = Width(f) THEN cut ELSE cut \cup {next}
    BY DEF SerializeField
<1>5. PICK j \in Nat, k \in Nat : j = next /\ k = field
    BY <1>1
<1>6. /\ data' \in Seq(Byte) /\ Len(data') <= MAXBUFSIZE /\ Extends(data, data', j, k)
      /\ MAXBUFSIZE - Len(data) >= Width(f) => Len(data') = Len(data) + Width(f)
      /\ MAXBUFSIZE - Len(data) = Width(f) - 1 /\ f.kind = "STRING" => Len(data') = MAXBUFSIZE
      /\ ~ (MAXBUFSIZE - Len(data) >= Width(f)) => Len(data') - Len(data) # Width(f)
    BY <1>1, <1>3, <1>4, <1>5, WriteFieldExtends
<1>7. /\ Len(data') \in Nat /\ Len(data) <= Len(data')
      /\ \A q \in Nat : ByteAt(q) # Zero => ByteAt(q)' = ByteAt(q)
    <2>1. Extends(data, data', j, k) /\ data' \in Seq(Byte)
        BY <1>6
    <2> QED
        BY <2>1, <1>1, KeptBytes
<1>8. MAXBUFSIZE - Len(data) >= bytes_from[class][field] - (HeaderLength(next) - 1)
    BY <1>1 DEF WriterInv, WritingOK
\* No header is written here.
<1>9. ASSUME NEW p \in Nat, NEW m \in Nat, ByteAt(p)' = Header(m)
      PROVE  ByteAt(p) = Header(m)
    <2>1. /\ p < Len(data) => ByteAt(p)' = ByteAt(p)
          /\ ByteAt(p)' # Zero => p < Len(data')
          /\ Len(data) <= p /\ p < Len(data') => ByteAt(p)' = <<j, k, p - Len(data) + 1>>
        <3>1. Extends(data, data', j, k) /\ data' \in Seq(Byte)
            BY <1>6
        <3> QED
            BY <3>1, <1>1, BytesKept
    <2>2. ByteAt(p)' = <<m, 0, 1>> /\ ByteAt(p)' # Zero
        BY <1>9 DEF Header, Zero
    <2>3. CASE p < Len(data)
        BY <2>1, <2>3, <1>9
    <2>4. CASE ~ (p < Len(data))
        <3>1. <<m, 0, 1>> = <<j, k, p - Len(data) + 1>>
            BY <2>1, <2>2, <2>4, <1>1
        <3>2. k = 0
            BY <3>1
        <3> QED
            BY <3>2, <1>5, <1>1
    <2> QED
        BY <2>3, <2>4
<1>10. ASSUME NEW b \in Nat, b > 0, b <= Len(data') - Len(data), NEW q \in Nat, q = Len(data) + b - 1
       PROVE  ByteAt(q)' = <<j, k, b>>
    <2>1. Len(data) <= q /\ q < Len(data') => ByteAt(q)' = <<j, k, q - Len(data) + 1>>
        <3>1. Extends(data, data', j, k) /\ data' \in Seq(Byte)
            BY <1>6
        <3> QED
            BY <3>1, <1>1, BytesKept
    <2>2. Len(data) <= q /\ q < Len(data') /\ q - Len(data) + 1 = b
        BY <1>1, <1>7, <1>10
    <2> QED
        BY <2>1, <2>2
<1>11. ASSUME NEW p \in Nat, ByteAt(p)' = Header(j)
       PROVE  HasFieldsBelow(p, j, k)' /\ Len(data) = p + Offset(j, k)
    <2>1. ByteAt(p) = Header(next)
        BY <1>5, <1>9, <1>11
    <2>2. HasFieldsBelow(p, next, field) /\ Len(data) = p + Offset(next, field)
        BY <2>1, <1>1 DEF WriterInv, WritingOK
    <2>3. HasFieldsBelow(p, j, k) /\ k \in 1..LastField(j) /\ queue[j] \in Classes
        BY <2>2, <1>1, <1>3, <1>5
    <2>4. HasFieldsBelow(p, j, k)'
        BY <2>3, <1>1, <1>4, <1>7, FieldsBelowKept
    <2> QED
        BY <2>2, <2>4, <1>5
<1>12. ASSUME NEW m \in Nat, m < next, NEW e \in Nat, NextIsAt(m, e)
       PROVE  NextIsAt(m, e)'
    <2>1. Later(m) # {}
        BY <1>2, <1>12 DEF Later
    <2>2. appended' = appended
        BY <1>4
    <2> QED
        BY <2>1, <2>2, <1>7, <1>12, ChainKept
<1>13. NextIsAt(0, PACKET_HEADER_SIZE)'
    BY <1>12, <1>1 DEF WriterInv, PACKET_HEADER_SIZE
<1>14. HeadersOK'
    <2> SUFFICES ASSUME NEW p \in Nat, NEW m \in Nat, m > 0, ByteAt(p)' = Header(m)
                 PROVE  m \in appended'
        BY DEF HeadersOK, Header
    <2>1. ByteAt(p) = Header(m)
        BY <1>9
    <2> QED
        BY <2>1, <1>4 DEF WriterInv, HeadersOK
<1>15. ASSUME NEW m \in appended, m # next, NEW p \in Nat, ByteAt(p)' = Header(m)
       PROVE  IsWrittenAt(p, m)'
    <2>1. m \in Nat /\ m < next /\ queue[m] \in Classes
        BY <1>1, <1>2, <1>15, MessageOf DEF WriterInv
    <2>2. IsWrittenAt(p, m)
        <3>1. ByteAt(p) = Header(m)
            BY <2>1, <1>9, <1>15
        <3> QED
            BY <3>1, <1>15 DEF WriterInv, WrittenOK
    <2>3. m \in cut' <=> m \in cut
        BY <1>4, <1>15
    <2>4. m \notin cut => NextIsAt(m, p + Offset(m, LastField(m) + 1))'
        <3>1. p + Offset(m, LastField(m) + 1) \in Nat
            <4>1. LastField(m) \in Nat /\ LastField(m) \in 1..LastField(m)
                BY <2>1, FirstField DEF LastField
            <4>2. Offset(m, LastField(m)) \in Nat
                  /\ Offset(m, LastField(m) + 1) = Offset(m, LastField(m)) + Width(FieldOf(m, LastField(m)))
                  /\ Width(FieldOf(m, LastField(m))) \in Nat
                BY <4>1, <2>1, Offsets
            <4> QED
                BY <4>2
        <3>2. PICK e \in Nat : e = p + Offset(m, LastField(m) + 1)
            BY <3>1
        <3>3. e = (p + Offset(m, LastField(m) + 1))'
            BY <3>2, <1>4, LayoutKept
        <3>4. m \notin cut => NextIsAt(m, e)'
            BY <2>1, <2>2, <3>2, <1>12 DEF IsWrittenAt
        <3> QED
            BY <3>3, <3>4 DEF NextIsAt, ByteAt
    <2> QED
        BY <2>1, <2>2, <2>3, <2>4, <1>1, <1>4, <1>7, WrittenKept
\* When the field was written whole, the message has it.
<1>16. ASSUME Len(data') = Len(data) + Width(f), NEW p \in Nat, ByteAt(p)' = Header(j)
       PROVE  HasField(p, j, k)' /\ Len(data') = p + Offset(j, k + 1)
    <2>1. Len(data) = p + Offset(j, k)
        BY <1>11, <1>16
    <2>2. /\ Offset(j, k)' = Offset(j, k) /\ Offset(j, k + 1)' = Offset(j, k + 1)
          /\ FieldOf(j, k)' = FieldOf(j, k) /\ FieldOf(j, k) = f
        BY <1>4, <1>5, LayoutKept
    <2>3. Len(data') = p + Offset(j, k + 1)
        BY <2>1, <1>16, <1>3, <1>5
    <2>4. ASSUME NEW b \in 1..Width(f)
          PROVE  (ByteAt(p + Offset(j, k) + b - 1) = <<j, k, b>>)'
        <3>1. p + Offset(j, k) + b - 1 \in Nat
            BY <2>1, <1>1
        <3>2. PICK q \in Nat : q = p + Offset(j, k) + b - 1
            BY <3>1
        <3>3. ByteAt(q)' = <<j, k, b>>
            <4>1. b \in Nat /\ b > 0 /\ b <= Len(data') - Len(data)
                BY <1>1, <1>3, <1>16
            <4>2. q = Len(data) + b - 1
                BY <3>2, <2>1
            <4> QED
                BY <4>1, <4>2, <1>10
        <3> QED
            BY <3>2, <3>3, <2>2 DEF ByteAt
    <2> QED
        BY <2>2, <2>3, <2>4 DEF HasField
<1>17. CASE field < last
    <2>1. field' = field + 1 /\ next' = next
        BY <1>17 DEF SerializeField, LastField
    <2>2. Len(data') = Len(data) + Width(f) /\ cut' = cut
        <3>1. bytes_from[class][field + 1] >= 1
            <4>1. field + 1 \in 1..last
                BY <1>17, <1>3, <1>1
            <4>2. /\ Width(FieldOf(next, field + 1)) \in Nat \ {0}
                  /\ bytes_from[class][field + 1] = Width(FieldOf(next, field + 1)) + bytes_from[class][field + 1 + 1]
                  /\ bytes_from[class][field + 1 + 1] \in Nat
                BY <4>1, <1>1, Offsets
            <4> QED
                BY <4>2
        <3>2. MAXBUFSIZE - Len(data) >= Width(f)
            <4>1. /\ MAXBUFSIZE - Len(data) >= bytes_from[class][field] - (HeaderLength(next) - 1)
                  /\ bytes_from[class][field] = Width(f) + bytes_from[class][field + 1]
                BY <1>3, <1>8
            <4>2. /\ MAXBUFSIZE \in Nat /\ Len(data) \in Nat /\ Width(f) \in Nat
                  /\ bytes_from[class][field + 1] \in Nat /\ HeaderLength(next) \in {1, 2}
                BY <1>1, <1>3
            <4> HIDE DEF f, class
            <4> QED
                BY <4>1, <4>2, <3>1
        <3>3. Len(data') = Len(data) + Width(f)
            BY <3>2, <1>6
        <3>4. Len(data') - Len(data) = Width(f)
            BY <3>3, <1>1, <1>3
        <3> QED
            BY <3>3, <3>4, <1>4
    <2>3. WriterOK'
        <3>1. (phase \in {"craft", "read", "done"} /\ queue \in Seq(Classes) /\ next \in 1..(Len(queue) + 1))'
            BY <2>1, <1>4 DEF WriterInv, WriterOK
        <3>2. (field \in Nat /\ next <= Len(queue) /\ field <= Len(fields[queue[next]]))'
            BY <2>1, <1>1, <1>3, <1>4, <1>17 DEF LastField
        <3>3. (data \in Seq(Byte) /\ Len(data) <= MAXBUFSIZE)'
            BY <1>6
        <3>4. (appended \subseteq 1..Len(queue) /\ cut \subseteq appended)'
            BY <2>2, <1>1, <1>4
        <3> QED
            BY <3>1, <3>2, <3>3, <3>4 DEF WriterOK
    <2>4. ProgressOK' /\ OnlyReliableCut'
        <3>1. OnlyReliableCut'
            BY <2>2, <1>4 DEF WriterInv, OnlyReliableCut
        <3>2. (PACKET_HEADER_SIZE <= Len(data))'
            BY <1>1, <1>7 DEF WriterInv, ProgressOK, PACKET_HEADER_SIZE
        <3>3. (\A m \in appended : m < next \/ (m = next /\ field > 0))'
            BY <2>1, <1>1, <1>2, <1>4
        <3>4. (\A m \in cut : m < next)'
            BY <2>1, <2>2 DEF WriterInv, ProgressOK
        <3> QED
            BY <3>1, <3>2, <3>3, <3>4, <1>1, <1>4 DEF ProgressOK
    <2>5. WrittenOK'
        BY <2>1, <1>4, <1>15 DEF WrittenOK, Header
    <2>6. WritingOK'
        <3>1. next' \in appended'
            BY <2>1, <1>2, <1>4
        <3>2. (MAXBUFSIZE - Len(data) >= bytes_from[queue[next]][field] - (HeaderLength(next) - 1))'
            <4>1. MAXBUFSIZE - Len(data') >= bytes_from[class][field + 1] - (HeaderLength(next) - 1)
                <5>1. /\ HeaderLength(next) \in {1, 2} /\ Width(f) \in Nat
                      /\ MAXBUFSIZE \in Nat /\ Len(data) \in Nat
                      /\ bytes_from[class][field + 1] \in Nat
                    BY <1>1, <1>3
                <5>2. bytes_from[class][field] = Width(f) + bytes_from[class][field + 1]
                    BY <1>3
                <5>3. Len(data') = Len(data) + Width(f)
                    BY <2>2
                <5> HIDE DEF f, class
                <5> QED
                    BY <5>1, <5>2, <5>3, <1>8
            <4> QED
                BY <4>1, <2>1, <1>4 DEF HeaderLength
        <3>3. ASSUME NEW p \in Nat, ByteAt(p)' = Header(j)
              PROVE  HasFieldsBelow(p, j, k + 1)' /\ Len(data') = p + Offset(j, k + 1)'
            <4>1. HasFieldsBelow(p, j, k)' /\ HasField(p, j, k)' /\ Len(data') = p + Offset(j, k + 1)
                BY <3>3, <2>2, <1>11, <1>16
            <4>2. Offset(j, k + 1)' = Offset(j, k + 1)
                BY <1>4, LayoutKept
            <4>3. \A i \in 1..k : i = k \/ i \in 1..(k - 1)
                OBVIOUS
            <4>4. \A i \in 1..((k + 1) - 1) : HasField(p, j, i)'
                BY <4>1, <4>3 DEF HasFieldsBelow
            <4> QED
                BY <4>1, <4>2, <4>4 DEF HasFieldsBelow
        <3>4. j = next' /\ k + 1 = field'
            BY <2>1, <1>5
        <3> QED
            BY <3>1, <3>2, <3>3, <3>4 DEF WritingOK, Header
    <2> QED
        BY <2>3, <2>4, <2>5, <2>6, <1>13, <1>14 DEF WriterInv
<1>18. CASE ~ (field < last)
    <2>1. field' = 0 /\ next' = next + 1
        BY <1>18 DEF SerializeField, LastField
    <2>2. field = last /\ k = LastField(j) /\ bytes_from[class][field] = Width(f)
        <3>1. field = last
            BY <1>18, <1>1, <1>3
        <3>2. bytes_from[class][field + 1] = 0
            BY <3>1, <1>1, NothingBehind
        <3> QED
            BY <3>1, <3>2, <1>3, <1>5
    <2>3. WriterOK'
        <3>1. cut' \subseteq appended'
            BY <1>1, <1>2, <1>4
        <3> QED
            BY <3>1, <2>1, <1>1, <1>4, <1>6 DEF WriterInv, WriterOK
    <2>4. ProgressOK'
        <3>1. (PACKET_HEADER_SIZE <= Len(data))'
            BY <1>1, <1>7 DEF WriterInv, ProgressOK, PACKET_HEADER_SIZE
        <3>2. (\A m \in appended : m < next \/ (m = next /\ field > 0))'
            BY <2>1, <1>1, <1>2, <1>4
        <3>3. (\A m \in cut : m < next)'
            BY <2>1, <1>1, <1>2, <1>4
        <3> QED
            BY <3>1, <3>2, <3>3, <1>1, <1>4 DEF ProgressOK
    <2>5. WritingOK'
        BY <2>1 DEF WritingOK
    <2>6. CASE Len(data') = Len(data) + Width(f)
        <3>1. cut' = cut
            <4>1. Len(data') - Len(data) = Width(f)
                BY <2>6, <1>1, <1>3
            <4> QED
                BY <4>1, <1>4
        <3>2. OnlyReliableCut'
            BY <3>1, <1>4 DEF WriterInv, OnlyReliableCut
        <3>3. ASSUME NEW p \in Nat, ByteAt(p)' = Header(j)
              PROVE  IsWrittenAt(p, j)'
            <4>1. HasFieldsBelow(p, j, k)' /\ HasField(p, j, k)' /\ Len(data') = p + Offset(j, k + 1)
                BY <3>3, <2>6, <1>11, <1>16
            <4>2. LastField(j)' = k /\ Offset(j, k + 1)' = Offset(j, k + 1)
                BY <2>2, <1>4, LayoutKept
            <4>3. j \notin cut'
                BY <3>1, <1>2, <1>5
            <4>4. Later(j)' = {}
                <5>1. \A i \in appended' : ~ (i > j)
                    BY <1>1, <1>2, <1>4, <1>5
                <5> QED
                    BY <5>1 DEF Later
            <4>5. NextIsAt(j, p + Offset(j, LastField(j) + 1))'
                BY <4>1, <4>2, <4>4 DEF NextIsAt
            <4> QED
                BY <4>1, <4>2, <4>3, <4>5 DEF IsWrittenAt
        <3>4. WrittenOK'
            <4> SUFFICES ASSUME NEW m \in appended', NEW p \in Nat, ByteAt(p)' = Header(m)
                         PROVE  IsWrittenAt(p, m)'
                BY DEF WrittenOK, Header
            <4>1. CASE m = next
                BY <4>1, <3>3, <1>5
            <4>2. CASE m # next
                BY <4>2, <1>4, <1>15
            <4> QED
                BY <4>1, <4>2
        <3> QED
            BY <2>3, <2>4, <2>5, <3>2, <3>4, <1>13, <1>14 DEF WriterInv
    <2>7. CASE Len(data') # Len(data) + Width(f)
        <3>1. MAXBUFSIZE - Len(data) = Width(f) - 1 /\ HeaderLength(next) = 2
            <4>1. ~ (MAXBUFSIZE - Len(data) >= Width(f))
                BY <2>7, <1>6
            <4>2. MAXBUFSIZE - Len(data) >= Width(f) - (HeaderLength(next) - 1)
                BY <2>2, <1>8
            <4>3. /\ HeaderLength(next) \in {1, 2} /\ Width(f) \in Nat
                  /\ MAXBUFSIZE \in Nat /\ Len(data) \in Nat
                BY <1>1, <1>3
            <4> HIDE DEF f
            <4> QED
                BY <4>1, <4>2, <4>3
        <3>2. cut' = cut \cup {next}
            <4>1. Len(data) \in Nat /\ Len(data') \in Nat /\ Width(f) \in Nat
                BY <1>1, <1>3, <1>7
            <4>2. Len(data') - Len(data) # Width(f)
                BY <2>7, <4>1
            <4> QED
                BY <4>2, <1>4
        <3>3. OnlyReliableCut'
            BY <3>1, <3>2, <1>3, <1>4 DEF WriterInv, OnlyReliableCut
        <3>4. ASSUME NEW p \in Nat, ByteAt(p)' = Header(j)
              PROVE  IsWrittenAt(p, j)'
            <4>1. HasFieldsBelow(p, j, k)' /\ Len(data) = p + Offset(j, k)
                BY <3>4, <1>11
            <4>2. /\ LastField(j)' = k /\ Offset(j, k)' = Offset(j, k)
                  /\ FieldOf(j, k)' = FieldOf(j, k) /\ FieldOf(j, k) = f
                BY <2>2, <1>4, <1>5, LayoutKept
            <4>3. j \in cut'
                BY <3>2, <1>5
            <4>4. (MAXBUFSIZE - (p + Offset(j, k)) = Width(FieldOf(j, k)) - 1)'
                BY <4>1, <4>2, <3>1
            <4>5. ASSUME f.kind = "STRING", NEW b \in 1..f.size
                  PROVE  (ByteAt((p + Offset(j, k)) + b - 1) = <<j, k, b>>)'
                <5>1. Width(f) = f.size + 1 /\ f.size \in Nat
                    BY <4>5, <1>3 DEF Width, Field
                <5>2. Len(data') = MAXBUFSIZE
                    BY <4>5, <3>1, <1>6
                <5>3. b \in Nat /\ b > 0 /\ b <= Len(data') - Len(data)
                    BY <5>1, <5>2, <3>1, <1>1
                <5>4. PICK q \in Nat : q = (p + Offset(j, k)) + b - 1
                    BY <5>3, <4>1, <1>1
                <5>5. ByteAt(q)' = <<j, k, b>>
                    BY <5>3, <5>4, <4>1, <1>10
                <5> QED
                    BY <5>4, <5>5, <4>2 DEF ByteAt
            <4>6. IsCutAt(p, j)'
                BY <4>2, <4>4, <4>5 DEF IsCutAt
            <4> QED
                BY <4>1, <4>2, <4>3, <4>6 DEF IsWrittenAt
        <3>5. WrittenOK'
            <4> SUFFICES ASSUME NEW m \in appended', NEW p \in Nat, ByteAt(p)' = Header(m)
                         PROVE  IsWrittenAt(p, m)'
                BY DEF WrittenOK, Header
            <4>1. CASE m = next
                BY <4>1, <3>4, <1>5
            <4>2. CASE m # next
                BY <4>2, <1>4, <1>15
            <4> QED
                BY <4>1, <4>2
        <3> QED
            BY <2>3, <2>4, <2>5, <3>3, <3>5, <1>13, <1>14 DEF WriterInv
    <2> QED
        BY <2>6, <2>7
<1> QED
    BY <1>17, <1>18, <1>3

\* The reader, and time passing, leave the writer alone.
LEMMA OthersWriter ==
    ASSUME WriterInv, UNCHANGED writerVars, phase' \in {"craft", "read", "done"},
           phase' # "craft" => field = 0 /\ next = Len(queue) + 1
    PROVE  WriterInv'
<1>1. WriterOK'
    BY DEF WriterInv, WriterOK, writerVars
<1>2. ProgressOK'
    BY DEF WriterInv, ProgressOK, writerVars
<1>3. /\ HeadersOK' = HeadersOK /\ WrittenOK' = WrittenOK /\ WritingOK' = WritingOK
      /\ NextIsAt(0, PACKET_HEADER_SIZE)' = NextIsAt(0, PACKET_HEADER_SIZE)
      /\ OnlyReliableCut' = OnlyReliableCut
    BY DEF writerVars, HeadersOK, WrittenOK, WritingOK, OnlyReliableCut, IsWrittenAt, HasFieldsBelow,
           HasField, IsCutAt, NextIsAt, Later, ByteAt, LastField, Offset, FieldOf, HeaderLength, SizeOf
<1> QED
    BY <1>1, <1>2, <1>3 DEF WriterInv
-----------------------------------------------------------------------------
(* What a read finds *)

LEMMA AvailableInside ==
    ASSUME NEW p \in Nat, Len(data) \in Nat, p <= Len(data), Len(data) < 65536
    PROVE  AvailableRead(p) = Len(data) - p
<1>1. Len(data) - p \in Nat /\ Len(data) - p < 65536
    OBVIOUS
<1>2. \A n \in Nat : n < 65536 => n % 65536 = n
    OBVIOUS
<1> QED
    BY <1>1, <1>2 DEF AvailableRead

LEMMA ByteAtIsByte == ASSUME data \in Seq(Byte), NEW p \in Nat PROVE ByteAt(p) \in Byte
<1>1. Len(data) \in Nat /\ Zero \in Byte
    BY DEF Zero, Byte
<1>2. p < Len(data) => data[p + 1] \in Byte
    BY <1>1
<1> QED
    BY <1>1, <1>2 DEF ByteAt

\* The least number of a set, once it is known, is the one that is chosen.
LEMMA LeastIsChosen ==
    ASSUME NEW S, S \subseteq Nat, NEW least \in S, \A r \in S : least <= r
    PROVE  least = CHOOSE q \in S : \A r \in S : q <= r
<1> DEFINE chosen == CHOOSE q \in S : \A r \in S : q <= r
<1>1. \E q \in S : \A r \in S : q <= r
    OBVIOUS
<1>2. chosen \in S /\ \A r \in S : chosen <= r
    BY <1>1, Zenon
<1> HIDE DEF chosen
<1>3. chosen = least
    BY <1>2
<1> QED
    BY <1>3 DEF chosen

\* No character is taken for a NUL, and the NUL of a string is.
LEMMA Characters ==
    ASSUME WriterOK, NEW m \in appended, NEW k \in 1..LastField(m),
           FieldOf(m, k).kind = "STRING", NEW n \in Nat, FieldOf(m, k).size = n
    PROVE  /\ \A b \in 1..n : ~ IsNul(<<m, k, b>>)
           /\ IsNul(<<m, k, n + 1>>)
<1>1. ASSUME NEW b \in 1..n
      PROVE  ~ IsNul(<<m, k, b>>)
    <2>1. <<m, k, b>> # Zero
        BY DEF Zero
    <2>2. ASSUME NEW i \in appended, NEW h, <<m, k, b>> = <<i, h, FieldOf(i, h).size + 1>>
          PROVE  FALSE
        <3>1. m = i /\ k = h /\ b = FieldOf(i, h).size + 1
            BY <2>2
        <3>2. b = n + 1
            BY <3>1
        <3> QED
            BY <3>2
    <2> QED
        BY <2>1, <2>2 DEF IsNul
<1>2. IsNul(<<m, k, n + 1>>)
    BY DEF IsNul, LastField
<1> QED
    BY <1>1, <1>2

\* A field that is whole is read as it was written.
LEMMA WholeFieldIsRead ==
    ASSUME WriterInv, NEW m \in appended, NEW k \in 1..LastField(m), NEW p \in Nat, HasField(p, m, k),
           NEW at \in Nat, at = p + Offset(m, k)
    PROVE  /\ ~ (AvailableRead(at) < MinSize(FieldOf(m, k)))
           /\ at + ReadLength(FieldOf(m, k), at) = p + Offset(m, k + 1)
           /\ p + Offset(m, k + 1) \in Nat /\ p + Offset(m, k + 1) <= Len(data)
           /\ [b \in 1..ReadSize(FieldOf(m, k), at) |-> ByteAt(at + b - 1)]
                  = FieldBytes(m, k, FieldOf(m, k).size)
<1> DEFINE f == FieldOf(m, k)
           end == p + Offset(m, k + 1)
<1>1. /\ WriterOK /\ data \in Seq(Byte) /\ Len(data) \in Nat /\ Len(data) <= MAXBUFSIZE
      /\ MAXBUFSIZE \in Nat /\ MAXBUFSIZE < 65536 /\ queue[m] \in Classes
    BY BufferSize, MessageOf DEF WriterInv, WriterOK
<1>2. /\ f \in Field /\ Width(f) \in Nat \ {0} /\ Offset(m, k) \in Nat
      /\ Offset(m, k + 1) = Offset(m, k) + Width(f)
    BY <1>1, Offsets
<1>3. end \in Nat /\ end = at + Width(f) /\ end <= Len(data)
    BY <1>2 DEF HasField
<1>4. \A b \in 1..Width(f) : ByteAt(at + b - 1) = <<m, k, b>>
    BY DEF HasField
<1>5. f.size \in Nat /\ Width(f) = (IF f.kind = "STRING" THEN f.size + 1 ELSE f.size)
    BY <1>2 DEF Width, Field
<1>6. ~ (AvailableRead(at) < MinSize(f))
    <2>1. AvailableRead(at) = Len(data) - at
        <3>1. at <= Len(data) /\ Len(data) < 65536
            BY <1>1, <1>2, <1>3
        <3> QED
            BY <3>1, <1>1, AvailableInside
    <2>2. MinSize(f) \in Nat /\ MinSize(f) <= Width(f)
        BY <1>2, <1>5 DEF MinSize
    <2>3. Width(f) \in Nat /\ Len(data) - at \in Nat /\ Width(f) <= Len(data) - at
        BY <1>1, <1>2, <1>3
    <2> HIDE DEF f
    <2> QED
        BY <2>1, <2>2, <2>3
<1>7. ReadSize(f, at) = f.size
    <2>1. CASE f.kind = "STRING"
        <3> DEFINE nuls == {q \in at..MAXBUFSIZE : q = MAXBUFSIZE \/ IsNul(ByteAt(q))}
                   nul == at + f.size
        <3>1. /\ \A b \in 1..f.size : ~ IsNul(<<m, k, b>>)
              /\ IsNul(<<m, k, f.size + 1>>)
            BY <2>1, <1>1, <1>5, Characters
        <3>2. Width(f) = f.size + 1 /\ nul \in Nat /\ nul >= at /\ nul < MAXBUFSIZE
            BY <2>1, <1>1, <1>3, <1>5
        <3>3. ByteAt(nul) = <<m, k, f.size + 1>>
            <4>1. f.size + 1 \in 1..Width(f) /\ at + (f.size + 1) - 1 = nul
                BY <3>2, <1>5
            <4> QED
                BY <4>1, <1>4
        <3>4. nul \in nuls
            BY <3>1, <3>2, <3>3, <1>1
        <3>5. ASSUME NEW q \in nuls
              PROVE  nul <= q
            <4> SUFFICES ASSUME q < nul
                         PROVE  FALSE
                BY <3>2, <1>1
            <4>1. q \in Nat /\ q >= at /\ q # MAXBUFSIZE /\ IsNul(ByteAt(q))
                BY <3>2, <1>1
            <4>2. PICK b \in 1..f.size : q = at + b - 1
                <5>1. q - at + 1 \in 1..f.size /\ q = at + (q - at + 1) - 1
                    BY <4>1, <1>5
                <5> QED
                    BY <5>1
            <4>3. b \in 1..Width(f)
                BY <3>2, <1>5
            <4>4. ByteAt(q) = <<m, k, b>>
                BY <4>2, <4>3, <1>4
            <4> QED
                BY <4>1, <4>4, <3>1
        <3>6. nuls \in SUBSET Nat
            BY <1>1
        <3>7. StringLength(at) = (CHOOSE q \in nuls : \A r \in nuls : q <= r) - at
            BY DEF StringLength
        <3> HIDE DEF nuls
        <3>8. (CHOOSE q \in nuls : \A r \in nuls : q <= r) = nul
            <4> HIDE DEF nul
            <4>1. nuls \subseteq Nat /\ nul \in nuls /\ \A r \in nuls : nul <= r
                BY <3>4, <3>5, <3>6
            <4> QED
                BY <4>1, LeastIsChosen, Zenon
        <3>9. StringLength(at) = f.size
            <4>1. StringLength(at) = nul - at
                BY <3>7, <3>8, Zenon
            <4> QED
                BY <4>1, <1>5
        <3> QED
            BY <2>1, <3>9 DEF ReadSize
    <2>2. CASE f.kind # "STRING"
        BY <2>2 DEF ReadSize
    <2> QED
        BY <2>1, <2>2
<1>8. ReadLength(f, at) = Width(f)
    BY <1>5, <1>7 DEF ReadLength
<1>9. [b \in 1..ReadSize(f, at) |-> ByteAt(at + b - 1)] = FieldBytes(m, k, f.size)
    <2>1. \A b \in 1..f.size : b \in 1..Width(f)
        BY <1>5
    <2>2. \A b \in 1..f.size : ByteAt(at + b - 1) = <<m, k, b>>
        BY <2>1, <1>4
    <2> QED
        BY <2>2, <1>7 DEF FieldBytes
<1> QED
    BY <1>3, <1>6, <1>8, <1>9

\* Of the field that was cut a number is not read, and a string or octets go on
\* beyond the buffer.
LEMMA CutFieldIsRead ==
    ASSUME WriterInv, NEW m \in appended, NEW p \in Nat, IsCutAt(p, m),
           NEW k, k = LastField(m), NEW at \in Nat, at = p + Offset(m, k), at <= Len(data)
    PROVE  \/ AvailableRead(at) < MinSize(FieldOf(m, k))
           \/ /\ FieldOf(m, k).kind \in {"STRING", "OCTETS"}
              /\ ReadSize(FieldOf(m, k), at) \in Nat
              /\ at + ReadLength(FieldOf(m, k), at) = MAXBUFSIZE + 1
<1> DEFINE f == FieldOf(m, k)
<1>1. /\ WriterOK /\ data \in Seq(Byte) /\ Len(data) \in Nat /\ Len(data) <= MAXBUFSIZE
      /\ MAXBUFSIZE \in Nat /\ MAXBUFSIZE < 65536 /\ queue[m] \in Classes
    BY BufferSize, MessageOf DEF WriterInv, WriterOK
<1>2. k \in Nat /\ k \in 1..LastField(m)
    <2>1. LastField(m) \in Nat /\ 1 \in 1..LastField(m)
        BY <1>1, FirstField DEF LastField
    <2> QED
        BY <2>1
<1>3. f \in Field /\ Width(f) \in Nat \ {0}
    BY <1>1, <1>2, Offsets
<1>4. f.size \in Nat /\ Width(f) = (IF f.kind = "STRING" THEN f.size + 1 ELSE f.size)
    BY <1>3 DEF Width, Field
<1>5. /\ MAXBUFSIZE - at = Width(f) - 1
      /\ f.kind = "STRING" => \A b \in 1..f.size : ByteAt(at + b - 1) = <<m, k, b>>
    BY DEF IsCutAt
<1>6. CASE f.kind = "STRING"
    <2> DEFINE nuls == {q \in at..MAXBUFSIZE : q = MAXBUFSIZE \/ IsNul(ByteAt(q))}
    <2>1. MAXBUFSIZE = at + f.size
        BY <1>1, <1>4, <1>5, <1>6
    <2>2. \A b \in 1..f.size : ~ IsNul(<<m, k, b>>)
        <3>1. WriterOK /\ k \in 1..LastField(m) /\ f.size \in Nat
            BY <1>1, <1>2, <1>4
        <3> QED
            BY <3>1, <1>6, Characters
    <2>3. MAXBUFSIZE \in nuls
        BY <2>1, <1>1, <1>4
    <2>4. ASSUME NEW q \in nuls
          PROVE  MAXBUFSIZE <= q
        <3> SUFFICES ASSUME q < MAXBUFSIZE
                     PROVE  FALSE
            BY <1>1
        <3>1. q \in Nat /\ q >= at /\ q # MAXBUFSIZE /\ IsNul(ByteAt(q))
            BY <1>1
        <3>2. PICK b \in 1..f.size : q = at + b - 1
            <4>1. q - at + 1 \in 1..f.size /\ q = at + (q - at + 1) - 1
                BY <3>1, <2>1, <1>4
            <4> QED
                BY <4>1
        <3>3. ByteAt(q) = <<m, k, b>>
            BY <3>2, <1>5, <1>6
        <3> QED
            BY <3>1, <3>3, <2>2
    <2>5. nuls \in SUBSET Nat
        BY <1>1
    <2>6. StringLength(at) = (CHOOSE q \in nuls : \A r \in nuls : q <= r) - at
        BY DEF StringLength
    <2> HIDE DEF nuls
    <2>7. (CHOOSE q \in nuls : \A r \in nuls : q <= r) = MAXBUFSIZE
        <3>1. nuls \subseteq Nat /\ MAXBUFSIZE \in nuls /\ \A r \in nuls : MAXBUFSIZE <= r
            BY <2>3, <2>4, <2>5
        <3> QED
            BY <3>1, LeastIsChosen, Zenon
    <2>8. ReadSize(f, at) = f.size /\ ReadLength(f, at) = f.size + 1
        <3>1. StringLength(at) = MAXBUFSIZE - at
            BY <2>6, <2>7, Zenon
        <3>2. StringLength(at) = f.size
            BY <3>1, <2>1, <1>4
        <3> QED
            BY <3>2, <1>6 DEF ReadSize, ReadLength
    <2> QED
        BY <2>1, <2>8, <1>4, <1>6
<1>7. CASE f.kind = "OCTETS"
    <2>1. ReadSize(f, at) = f.size /\ ReadLength(f, at) = f.size
        BY <1>7 DEF ReadSize, ReadLength
    <2> QED
        BY <2>1, <1>1, <1>4, <1>5, <1>7
<1>8. CASE f.kind \notin {"STRING", "OCTETS"}
    <2>1. MinSize(f) = f.size /\ Width(f) = f.size
        BY <1>4, <1>8 DEF MinSize
    <2>2. AvailableRead(at) = Len(data) - at
        BY <1>1, AvailableInside
    <2>3. Len(data) - at < f.size
        BY <2>1, <1>1, <1>4, <1>5
    <2> QED
        BY <2>1, <2>2, <2>3
<1> QED
    BY <1>6, <1>7, <1>8
-----------------------------------------------------------------------------
(* The reader *)

\* What the reader does leaves what was written as it is.
LEMMA WrittenSame ==
    ASSUME UNCHANGED <<queue, appended, cut, data>>
    PROVE  /\ \A m, e : NextIsAt(m, e)' <=> NextIsAt(m, e)
           /\ \A p : ByteAt(p)' = ByteAt(p)
           /\ \A r : Intact(r)' <=> Intact(r)
BY DEF NextIsAt, Later, ByteAt, Intact, FieldOf, FieldBytes, Header, SeqNr, Zero

LEMMA IntactKept ==
    ASSUME UNCHANGED <<queue, appended, cut, data>>, NEW r, NEW x, messages'[r] = x, Intact(x)
    PROVE  Intact(messages[r])'
BY DEF Intact, FieldOf, FieldBytes, SeqNr, Zero

LEMMA ReadUpToKept ==
    ASSUME UNCHANGED <<queue, appended, cut, data, messages>>, NEW last, ReadUpTo(last)
    PROVE  ReadUpTo(last)'
<1>1. \A r : Intact(r)' <=> Intact(r)
    BY WrittenSame
<1> QED
    BY <1>1 DEF ReadUpTo, Intact, FieldOf, FieldBytes, SeqNr, Zero

\* The next message was read whole.
LEMMA ReadUpToGrows ==
    ASSUME UNCHANGED <<queue, appended, cut, data>>, messages \in Seq(Instance), appended \subseteq Nat,
           NEW last \in Nat, ReadUpTo(last),
           NEW m \in Later(last), \A i \in Later(last) : m <= i, m \notin cut,
           NEW read, read.message = m, Intact(read), messages' = Append(messages, read)
    PROVE  ReadUpTo(m)'
<1> DEFINE n == Len(messages)
<1>1. n \in Nat /\ Len(messages') = n + 1 /\ messages'[n + 1] = read
      /\ \A r \in 1..n : messages'[r] = messages[r] /\ messages[r].message \in Nat
    <2>1. \A r \in 1..n : messages[r] \in Instance
        OBVIOUS
    <2> QED
        BY <2>1 DEF Instance
<1>2. m \in appended /\ m \in Nat /\ last < m
    BY DEF Later
<1>4. \A r \in 1..(n + 1) : r = n + 1 \/ r \in 1..n
    BY <1>1
<1>5. ASSUME NEW r \in 1..(n + 1)
      PROVE  /\ Intact(messages[r])' /\ messages'[r].message \notin cut'
             /\ messages'[r].message <= m
    <2>1. CASE r = n + 1
        <3>1. messages'[r] = read
            BY <2>1, <1>1
        <3>2. Intact(messages[r])'
            BY <3>1, IntactKept
        <3> QED
            BY <3>1, <3>2, <1>2
    <2>2. CASE r \in 1..n
        <3>1. Intact(messages[r]) /\ messages[r].message \notin cut /\ messages[r].message <= last
            BY <2>2 DEF ReadUpTo
        <3>2. messages'[r] = messages[r] /\ messages[r].message \in Nat
            BY <2>2, <1>1
        <3>3. PICK x : x = messages[r]
            OBVIOUS
        <3>4. Intact(messages[r])'
            <4>1. messages'[r] = x /\ Intact(x)
                BY <3>1, <3>2, <3>3
            <4> QED
                BY <4>1, IntactKept
        <3> QED
            BY <3>1, <3>2, <3>4, <1>2
    <2> QED
        BY <2>1, <2>2, <1>4
<1>6. ASSUME NEW r \in 1..(n + 1), NEW s \in 1..(n + 1), r < s
      PROVE  messages'[r].message < messages'[s].message
    <2>1. r \in 1..n
        BY <1>1, <1>6
    <2>2. messages'[r] = messages[r] /\ messages[r].message \in Nat /\ messages[r].message <= last
        BY <2>1, <1>1 DEF ReadUpTo
    <2>3. CASE s = n + 1
        BY <2>2, <2>3, <1>1, <1>2
    <2>4. CASE s \in 1..n
        <3>1. messages[r].message < messages[s].message /\ messages'[s] = messages[s]
            BY <2>1, <2>4, <1>1, <1>6 DEF ReadUpTo
        <3> QED
            BY <3>1, <2>2
    <2> QED
        BY <2>3, <2>4, <1>4
<1>7. ASSUME NEW j \in appended, j <= m
      PROVE  \E r \in 1..(n + 1) : messages'[r].message = j
    <2>1. CASE j <= last
        <3>1. PICK r \in 1..n : messages[r].message = j
            BY <2>1 DEF ReadUpTo
        <3> QED
            BY <3>1, <1>1
    <2>2. CASE ~ (j <= last)
        <3>1. j \in Nat
            OBVIOUS
        <3>2. j \in Later(last)
            BY <3>1, <2>2 DEF Later
        <3>3. j = m
            BY <3>1, <3>2, <1>2, <1>7
        <3> QED
            BY <3>3, <1>1
    <2> QED
        BY <2>1, <2>2
<1> HIDE DEF n
<1>8. /\ (\A r \in 1..Len(messages) :
              Intact(messages[r]) /\ messages[r].message \notin cut /\ messages[r].message <= m)'
      /\ (\A r, s \in 1..Len(messages) : r < s => messages[r].message < messages[s].message)'
      /\ (\A j \in appended : j <= m => \E r \in 1..Len(messages) : messages[r].message = j)'
    BY <1>1, <1>5, <1>6, <1>7
<1> QED
    BY <1>8 DEF ReadUpTo

\* Read ends with nothing but whole messages.
LEMMA EndsWhole ==
    ASSUME UNCHANGED <<queue, appended, cut, data, messages>>, appended \subseteq Nat,
           NEW last \in Nat, ReadUpTo(last),
           cut = {} => ~ astray' /\ Later(last) = {}
    PROVE  DoneOK'
<1>2. \A r \in 1..Len(messages') : Intact(messages[r])' /\ messages'[r].message \notin cut'
    <2>1. ReadUpTo(last)'
        BY ReadUpToKept
    <2> QED
        BY <2>1 DEF ReadUpTo
<1>3. DamageIsLast' /\ CutNumberDropped'
    BY <1>2 DEF DamageIsLast, CutNumberDropped
<1>4. RoundTrip'
    <2> SUFFICES ASSUME cut' = {}
                 PROVE  RoundTrip'
        BY DEF RoundTrip
    <2>1. ~ astray' /\ Later(last) = {}
        OBVIOUS
    <2>2. \A m \in appended : m <= last
        BY <2>1 DEF Later
    <2>3. \A m \in appended' : \E r \in 1..Len(messages') : messages'[r].message = m
        BY <2>2 DEF ReadUpTo
    <2>4. \A r, s \in 1..Len(messages') : r < s => messages'[r].message < messages'[s].message
        BY DEF ReadUpTo
    <2> QED
        BY <2>1, <2>3, <2>4, <1>2 DEF RoundTrip
<1> QED
    BY <1>3, <1>4 DEF DoneOK

LEMMA TransmitInv == Inv /\ Transmit => Inv'
<1> SUFFICES ASSUME Inv, Transmit
             PROVE  Inv'
    OBVIOUS
<1>1. /\ phase = "craft" /\ field = 0 /\ next > Len(queue) /\ phase' = "read"
      /\ position' = PACKET_HEADER_SIZE
      /\ UNCHANGED <<writerVars, instance, messages, astray>>
    BY DEF Transmit
<1>2. next = Len(queue) + 1 /\ appended \subseteq 1..Len(queue) /\ Len(queue) \in Nat
    BY <1>1 DEF Inv, WriterInv, WriterOK
<1>3. WriterInv'
    BY <1>1, <1>2, OthersWriter DEF Inv
<1>4. ReaderOK'
    BY <1>1, BufferSize DEF Inv, ReaderOK, PACKET_HEADER_SIZE
<1>5. messages = <<>> /\ instance = NoMessage /\ ~ astray
    BY <1>1 DEF Inv, CraftOK
<1>6. ReadUpTo(0)'
    <2>1. Len(messages') = 0
        BY <1>1, <1>5
    <2>2. \A j \in appended' : ~ (j <= 0)
        BY <1>1, <1>2 DEF writerVars
    <2> QED
        BY <2>1, <2>2 DEF ReadUpTo
<1>7. IsBetween(0)'
    <2>1. NextIsAt(0, PACKET_HEADER_SIZE)'
        BY <1>3 DEF WriterInv
    <2>2. NextIsAt(0, position)'
        BY <2>1, <1>1 DEF NextIsAt, ByteAt, PACKET_HEADER_SIZE
    <2> QED
        BY <2>2, <1>1, <1>5 DEF IsBetween, NoMessage, Zero
<1> QED
    BY <1>1, <1>3, <1>4, <1>5, <1>6, <1>7 DEF Inv, ReadingOK, CraftOK, DoneOK

LEMMA ReadHeaderInv == Inv /\ ReadHeader => Inv'
<1> SUFFICES ASSUME Inv, ReadHeader
             PROVE  Inv'
    OBVIOUS
<1>1. /\ phase = "read" /\ instance = NoMessage
      /\ UNCHANGED <<queue, next, field, data, appended, cut, messages>>
    BY DEF ReadHeader, writerVars
<1>2. /\ data \in Seq(Byte) /\ Len(data) \in Nat /\ Len(data) <= MAXBUFSIZE /\ MAXBUFSIZE \in Nat
      /\ Len(data) < 65536 /\ position \in Nat /\ appended \subseteq Nat
      /\ WriterInv /\ WriterOK /\ field = 0 /\ next = Len(queue) + 1 /\ Len(queue) \in Nat
      /\ messages \in Seq(Instance) /\ instance \in Instance
    BY <1>1, BufferSize DEF Inv, WriterInv, WriterOK, ProgressOK, ReaderOK
<1>3. PICK last \in Nat : ~ astray /\ ReadUpTo(last) /\ NextIsAt(last, position)
    BY <1>1 DEF Inv, ReadingOK, IsBetween
<1>4. WriterInv'
    <2>1. UNCHANGED writerVars
        BY DEF ReadHeader
    <2>2. phase' \in {"craft", "read", "done"}
        BY <1>1, Zenon DEF ReadHeader
    <2> QED
        BY <2>1, <2>2, <1>2, OthersWriter
<1>5. CASE Later(last) = {} /\ position = Len(data)
    <2>1. AvailableRead(position) = 0
        <3>1. /\ position \in Nat /\ Len(data) \in Nat /\ Len(data) < 65536
              /\ position <= Len(data) /\ position = Len(data)
            BY <1>2, <1>5
        <3>2. AvailableRead(position) = Len(data) - position
            BY <3>1, AvailableInside
        <3> QED
            BY <3>1, <3>2
    <2>2. phase' = "done" /\ astray' = FALSE /\ UNCHANGED <<position, instance>>
        <3>1. ~ (AvailableRead(position) >= 1)
            BY <2>1
        <3>2. /\ phase' = "done" /\ UNCHANGED <<position, instance>>
              /\ astray' = (AvailableRead(position) >= 1
                           /\ (ByteAt(position) # Zero \/ position >= MAXBUFSIZE))
            BY <3>1, Zenon DEF ReadHeader
        <3> QED
            BY <3>1, <3>2, Zenon
    <2>3. DoneOK'
        <3>1. cut = {} => ~ astray' /\ Later(last) = {}
            BY <2>2, <1>5
        <3>2. UNCHANGED <<queue, appended, cut, data, messages>> /\ appended \subseteq Nat
            BY <1>1, <1>2
        <3> QED
            BY <3>1, <3>2, <1>3, EndsWhole
    <2>4. ReaderOK'
        <3>1. position' \in Nat /\ position' <= MAXBUFSIZE
            BY <2>2, <1>2, <1>5
        <3>2. instance' \in Instance
            BY <2>2, <1>2
        <3>3. messages' \in Seq(Instance)
            BY <1>1, <1>2
        <3>4. astray' \in BOOLEAN
            BY <2>2
        <3> QED
            BY <3>1, <3>2, <3>3, <3>4, Zenon DEF ReaderOK, Instance, Byte
    <2> QED
        BY <2>2, <2>3, <2>4, <1>4 DEF Inv, ReadingOK, CraftOK
<1>6. CASE \E j \in Later(last) : ByteAt(position) = Header(j) /\ \A i \in Later(last) : j <= i
    <2>1. PICK j \in Later(last) : ByteAt(position) = Header(j) /\ \A i \in Later(last) : j <= i
        BY <1>6
    <2>2. j \in appended /\ j \in Nat /\ j > 0 /\ j \in 1..Len(queue) /\ queue[j] \in Classes /\ j # next
        <3>1. j \in appended
            BY DEF Later
        <3>2. j \in Nat /\ j > 0 /\ j \in 1..Len(queue) /\ queue[j] \in Classes
            BY <3>1, <1>2, MessageOf
        <3> QED
            BY <3>1, <3>2, <1>2
    <2>3. ByteAt(position)[1] = j /\ ByteAt(position) # Zero
        BY <2>1, <2>2 DEF Header, Zero
    <2>4. position < Len(data)
        BY <2>3 DEF ByteAt
    <2>5. AvailableRead(position) >= 1
        BY <2>4, <1>2, AvailableInside
    <2>6. IsHeader(ByteAt(position))
        BY <2>1, <2>2 DEF IsHeader
    <2>7. /\ instance' = [message |-> j, seqnr |-> ReadSeqNr(j, position), fields |-> <<>>]
          /\ position' = position + HeaderLength(j)
          /\ UNCHANGED <<phase, astray>>
        BY <2>3, <2>5, <2>6 DEF ReadHeader
    <2>8. IsWrittenAt(position, j)
        BY <2>1, <2>2, <1>2 DEF WriterInv, WrittenOK
    <2>9. /\ LastField(j) \in Nat /\ LastField(j) > 0
          /\ Offset(j, 1) = HeaderLength(j) /\ HeaderLength(j) \in {1, 2}
        <3>1. LastField(j) \in Nat /\ 1 \in 1..LastField(j)
            BY <2>2, FirstField DEF LastField
        <3> QED
            BY <3>1, <2>2, Offsets
    <2>10. position' \in Nat /\ position' <= Len(data)
        BY <2>7, <2>8, <2>9, <1>2 DEF IsWrittenAt, HasFieldsBelow
    <2>11. ReadSeqNr(j, position) = IF reliable[queue[j]] THEN SeqNr(j) ELSE Zero
        BY <2>8 DEF IsWrittenAt, HasFieldsBelow, ReadSeqNr
    <2>12. instance' \in Instance
        <3>1. SeqNr(j) \in Byte /\ Zero \in Byte /\ <<>> \in Seq(Seq(Byte))
            BY <2>2 DEF SeqNr, Zero, Byte
        <3>2. PICK s : s = ReadSeqNr(j, position)
            OBVIOUS
        <3>3. s \in Byte
            BY <3>1, <3>2, <2>11
        <3>4. instance' = [message |-> j, seqnr |-> s, fields |-> <<>>]
            BY <3>2, <2>7
        <3>5. [message |-> j, seqnr |-> s, fields |-> <<>>] \in Instance
            BY <3>1, <3>3, <2>2 DEF Instance
        <3> QED
            BY <3>4, <3>5
    <2>13. ReaderOK'
        <3>1. position' \in Nat /\ position' <= MAXBUFSIZE
            BY <2>10, <1>2
        <3>2. messages' \in Seq(Instance)
            BY <1>1, <1>2
        <3>3. astray' = astray /\ astray \in BOOLEAN
            BY <2>7 DEF Inv, ReaderOK
        <3> QED
            BY <3>1, <3>2, <3>3, <2>12, Zenon DEF ReaderOK, Instance, Byte
    <2>14. ReadUpTo(last)'
        BY <1>1, <1>3, ReadUpToKept
    <2>15. IsReading(j)'
        <3>1. instance'.fields = <<>> /\ Len(instance'.fields) = 0 /\ instance'.message = j
            BY <2>7
        <3>2. (instance.seqnr = IF reliable[queue[j]] THEN SeqNr(j) ELSE Zero)'
            BY <2>7, <2>11, <1>1 DEF SeqNr, Zero
        <3>3. (Len(instance.fields) < LastField(j))'
            BY <3>1, <2>9, <1>1 DEF LastField
        <3>4. (\E p \in Nat : ByteAt(p) = Header(j) /\ position = p + Offset(j, Len(instance.fields) + 1))'
            <4>1. PICK p \in Nat : p = position
                BY <1>2
            <4>2. ByteAt(p)' = Header(j)
                BY <4>1, <2>1, <1>1 DEF ByteAt, Zero
            <4>3. Offset(j, 1)' = HeaderLength(j)
                BY <2>9, <1>1, LayoutKept
            <4>4. position' = p + Offset(j, 0 + 1)'
                BY <4>1, <4>3, <2>7
            <4> QED
                BY <4>2, <4>4, <3>1 DEF Header
        <3> QED
            BY <3>1, <3>2, <3>3, <3>4 DEF IsReading
    <2>16. IsBetween(last)'
        <3>1. instance' # NoMessage /\ instance'.message = j
            BY <2>2, <2>7 DEF NoMessage
        <3>2. Later(last)' = Later(last)
            BY <1>1 DEF Later
        <3>3. instance'.message \in Later(last)' /\ \A i \in Later(last)' : instance'.message <= i
            BY <3>1, <3>2, <2>1
        <3>4. IsReading(instance.message)'
            BY <3>1, <2>15 DEF IsReading, SeqNr, FieldBytes, Header, Offset, HeaderLength, SizeOf, LastField, FieldOf
        <3> QED
            BY <3>1, <3>3, <3>4 DEF IsBetween, NoMessage, Zero
    <2>17. ReadingOK'
        BY <2>7, <2>14, <2>16, <1>3 DEF ReadingOK
    <2> QED
        BY <2>7, <2>13, <2>17, <1>1, <1>4 DEF Inv, CraftOK, DoneOK
<1> QED
    BY <1>3, <1>5, <1>6 DEF NextIsAt

\* The instance once another field was read.
ReadWith(bytes) == [instance EXCEPT !.fields = Append(@, bytes)]

HasGrownBy(read, bytes) ==
    /\ read \in Instance
    /\ read.message = instance.message /\ read.seqnr = instance.seqnr
    /\ Len(read.fields) = Len(instance.fields) + 1
    /\ \A i \in 1..Len(instance.fields) : read.fields[i] = instance.fields[i]
    /\ read.fields[Len(instance.fields) + 1] = bytes

LEMMA InstanceGrows ==
    ASSUME instance \in Instance, NEW bytes \in Seq(Byte), NEW read, read = ReadWith(bytes)
    PROVE  HasGrownBy(read, bytes)
<1>1. /\ instance.message \in Nat /\ instance.seqnr \in Byte /\ instance.fields \in Seq(Seq(Byte))
      /\ instance = [message |-> instance.message, seqnr |-> instance.seqnr, fields |-> instance.fields]
    BY DEF Instance
<1>2. PICK grown : grown = Append(instance.fields, bytes)
    OBVIOUS
<1>3. grown \in Seq(Seq(Byte)) /\ Len(grown) = Len(instance.fields) + 1
      /\ (\A i \in 1..Len(instance.fields) : grown[i] = instance.fields[i])
      /\ grown[Len(instance.fields) + 1] = bytes
    BY <1>1, <1>2
<1>4. read = [message |-> instance.message, seqnr |-> instance.seqnr, fields |-> grown]
    BY <1>1, <1>2 DEF ReadWith
<1>5. read \in Instance
    <2>1. PICK i \in Nat, s \in Byte : i = instance.message /\ s = instance.seqnr
        BY <1>1
    <2>2. read = [message |-> i, seqnr |-> s, fields |-> grown]
        BY <2>1, <1>4
    <2>3. [message |-> i, seqnr |-> s, fields |-> grown] \in Instance
        BY <2>1, <1>3 DEF Instance
    <2> QED
        BY <2>2, <2>3
<1> QED
    BY <1>3, <1>4, <1>5 DEF HasGrownBy

LEMMA DeserializeFieldInv == Inv /\ DeserializeField => Inv'
<1> SUFFICES ASSUME Inv, DeserializeField
             PROVE  Inv'
    OBVIOUS
<1>1. /\ phase = "read" /\ instance # NoMessage
      /\ UNCHANGED <<queue, next, field, data, appended, cut>> /\ UNCHANGED writerVars
    BY DEF DeserializeField, writerVars
<1>2. /\ data \in Seq(Byte) /\ Len(data) \in Nat /\ Len(data) <= MAXBUFSIZE /\ MAXBUFSIZE \in Nat
      /\ Len(data) < 65536 /\ position \in Nat /\ appended \subseteq Nat
      /\ WriterInv /\ WriterOK /\ field = 0 /\ next = Len(queue) + 1 /\ Len(queue) \in Nat
      /\ messages \in Seq(Instance) /\ instance \in Instance
    BY <1>1, BufferSize DEF Inv, WriterInv, WriterOK, ProgressOK, ReaderOK
<1>3. PICK last \in Nat : ~ astray /\ ReadUpTo(last) /\ IsBetween(last)
    BY <1>1 DEF Inv, ReadingOK
<1>4. PICK m : /\ m = instance.message
               /\ m \in Later(last) /\ \A i \in Later(last) : m <= i
               /\ IsReading(m)
    BY <1>1, <1>3 DEF IsBetween
<1>5. m \in appended /\ m \in Nat /\ m > 0 /\ m \in 1..Len(queue) /\ queue[m] \in Classes /\ m # next
    <2>1. m \in appended
        BY <1>4 DEF Later
    <2>2. m \in Nat /\ m > 0 /\ m \in 1..Len(queue) /\ queue[m] \in Classes
        BY <2>1, <1>2, MessageOf
    <2> QED
        BY <2>1, <2>2, <1>2
<1>6. LastField(m) \in Nat /\ 1 \in 1..LastField(m)
    BY <1>5, FirstField DEF LastField
<1>7. PICK k \in 1..LastField(m) : k = Len(instance.fields) + 1
    <2>1. Len(instance.fields) \in Nat
        BY <1>2 DEF Instance
    <2>2. Len(instance.fields) < LastField(m)
        BY <1>4 DEF IsReading
    <2>3. Len(instance.fields) + 1 \in 1..LastField(m)
        BY <2>1, <2>2, <1>6
    <2> QED
        BY <2>3
<1>8. PICK p \in Nat : ByteAt(p) = Header(m) /\ position = p + Offset(m, k)
    BY <1>4, <1>7 DEF IsReading
<1>9. IsWrittenAt(p, m)
    BY <1>2, <1>5, <1>8 DEF WriterInv, WrittenOK
<1>10. position <= Len(data)
    <2>1. CASE k = 1
        BY <2>1, <1>8, <1>9 DEF IsWrittenAt, HasFieldsBelow
    <2>2. CASE k # 1
        <3>1. k - 1 \in 1..(LastField(m) - 1) /\ (k - 1) + 1 = k
            BY <2>2, <1>6
        <3>2. HasField(p, m, k - 1)
            BY <3>1, <1>9 DEF IsWrittenAt, HasFieldsBelow
        <3> QED
            BY <3>1, <3>2, <1>8 DEF HasField
    <2> QED
        BY <2>1, <2>2
<1>11. PICK bytes : bytes = [b \in 1..ReadSize(FieldOf(m, k), position) |-> ByteAt(position + b - 1)]
    OBVIOUS
<1>12. PICK read : read = ReadWith(bytes)
    OBVIOUS
<1>13. IF AvailableRead(position) < MinSize(FieldOf(m, k))
       THEN /\ phase' = "done"
            /\ instance' = NoMessage
            /\ UNCHANGED <<position, messages, astray>>
       ELSE /\ position' = position + ReadLength(FieldOf(m, k), position)
            /\ astray' \in BOOLEAN /\ (astray' <=> position' > MAXBUFSIZE)
            /\ phase' = IF astray' THEN "done" ELSE "read"
            /\ IF k = LastField(m)
               THEN messages' = Append(messages, read) /\ instance' = NoMessage
               ELSE instance' = read /\ UNCHANGED messages
    <2>1. IF AvailableRead(position) < MinSize(FieldOf(m, k))
          THEN /\ phase' = "done"
               /\ instance' = NoMessage
               /\ UNCHANGED <<position, messages, astray>>
          ELSE /\ position' = position + ReadLength(FieldOf(m, k), position)
               /\ astray' = (position' > MAXBUFSIZE)
               /\ phase' = IF astray' THEN "done" ELSE "read"
               /\ IF k = LastField(m)
                  THEN messages' = Append(messages, read) /\ instance' = NoMessage
                  ELSE instance' = read /\ UNCHANGED messages
        BY <1>4, <1>7, <1>11, <1>12, Zenon DEF DeserializeField, LastField, ReadWith
    <2>2. (position' > MAXBUFSIZE) \in BOOLEAN
        OBVIOUS
    <2>3. astray' = (position' > MAXBUFSIZE) =>
              astray' \in BOOLEAN /\ (astray' <=> position' > MAXBUFSIZE)
        BY <2>2, Zenon
    <2> QED
        BY <2>1, <2>3, Zenon
<1>14. WriterInv'
    <2>1. phase' \in {"craft", "read", "done"}
        BY <1>13
    <2> QED
        BY <2>1, <1>1, <1>2, OthersWriter
<1>15. NoMessage \in Instance
    BY DEF NoMessage, Instance, Zero, Byte
<1>16. CASE k # LastField(m) \/ m \notin cut
    <2>1. HasField(p, m, k)
        <3>1. CASE k # LastField(m)
            <4>1. k \in 1..(LastField(m) - 1)
                BY <3>1, <1>6
            <4> QED
                BY <4>1, <1>9 DEF IsWrittenAt, HasFieldsBelow
        <3>2. CASE k = LastField(m)
            BY <3>2, <1>9, <1>16 DEF IsWrittenAt
        <3> QED
            BY <3>1, <3>2
    <2>2. /\ ~ (AvailableRead(position) < MinSize(FieldOf(m, k)))
          /\ position + ReadLength(FieldOf(m, k), position) = p + Offset(m, k + 1)
          /\ p + Offset(m, k + 1) \in Nat /\ p + Offset(m, k + 1) <= Len(data)
          /\ bytes = FieldBytes(m, k, FieldOf(m, k).size)
        BY <2>1, <1>2, <1>5, <1>8, <1>11, WholeFieldIsRead
    <2>3. position' = p + Offset(m, k + 1) /\ position' \in Nat /\ position' <= Len(data)
        BY <2>2, <1>13
    <2>4. ~ (position' > MAXBUFSIZE)
        BY <2>3, <1>2
    <2>5. /\ astray' = FALSE /\ phase' = "read"
          /\ IF k = LastField(m)
             THEN messages' = Append(messages, read) /\ instance' = NoMessage
             ELSE instance' = read /\ UNCHANGED messages
        <3>1. /\ astray' \in BOOLEAN /\ (astray' <=> position' > MAXBUFSIZE)
              /\ phase' = IF astray' THEN "done" ELSE "read"
              /\ IF k = LastField(m)
                 THEN messages' = Append(messages, read) /\ instance' = NoMessage
                 ELSE instance' = read /\ UNCHANGED messages
            BY <2>2, <1>13, Zenon
        <3>2. astray' = FALSE
            BY <3>1, <2>4, Zenon
        <3> QED
            BY <3>1, <3>2, Zenon
    <2>6. bytes \in Seq(Byte)
        <3>1. FieldOf(m, k).size \in Nat
            <4>1. FieldOf(m, k) \in Field
                BY <1>5, Offsets
            <4> QED
                BY <4>1 DEF Field
        <3>2. \A b \in 1..FieldOf(m, k).size : <<m, k, b>> \in Byte
            BY <3>1, <1>5, <1>6 DEF Byte
        <3> QED
            BY <3>1, <3>2, <2>2 DEF FieldBytes
    <2>7. /\ read \in Instance
          /\ read.message = m /\ read.seqnr = instance.seqnr
          /\ Len(read.fields) = k
          /\ \A i \in 1..(k - 1) : read.fields[i] = instance.fields[i]
          /\ read.fields[k] = bytes
        <3>1. Len(instance.fields) = k - 1 /\ Len(instance.fields) + 1 = k
            <4>1. Len(instance.fields) \in Nat
                BY <1>2 DEF Instance
            <4> QED
                BY <4>1, <1>7
        <3>2. HasGrownBy(read, bytes)
            BY <2>6, <1>2, <1>12, InstanceGrows
        <3> QED
            BY <3>1, <3>2, <1>4 DEF HasGrownBy
    <2>8. \A i \in 1..k : read.fields[i] = FieldBytes(m, i, FieldOf(m, i).size)
        <3>1. \A i \in 1..Len(instance.fields) : instance.fields[i] = FieldBytes(m, i, FieldOf(m, i).size)
            BY <1>4 DEF IsReading
        <3>2. \A i \in 1..k : i = k \/ i \in 1..Len(instance.fields)
            <4>1. Len(instance.fields) \in Nat
                BY <1>2 DEF Instance
            <4> QED
                BY <4>1, <1>7
        <3>3. Len(instance.fields) = k - 1
            <4>1. Len(instance.fields) \in Nat
                BY <1>2 DEF Instance
            <4> QED
                BY <4>1, <1>7
        <3> QED
            BY <3>1, <3>2, <3>3, <2>2, <2>7
    <2>9. read.seqnr = IF reliable[queue[m]] THEN SeqNr(m) ELSE Zero
        BY <2>7, <1>4 DEF IsReading
    <2>10. CASE k = LastField(m)
        <3>1. messages' = Append(messages, read) /\ instance' = NoMessage
            BY <2>5, <2>10
        <3>2. ReaderOK'
            <4>1. messages' \in Seq(Instance)
                BY <3>1, <2>7, <1>2
            <4>2. instance' \in Instance /\ astray' \in BOOLEAN
                BY <3>1, <2>5, <1>15
            <4>3. position' \in Nat /\ position' <= MAXBUFSIZE
                BY <2>3, <1>2
            <4> QED
                BY <4>1, <4>2, <4>3, Zenon DEF ReaderOK, Instance, Byte
        <3>3. Intact(read)
            <4>1. Len(read.fields) = Len(fields[queue[m]])
                BY <2>7, <2>10 DEF LastField
            <4> QED
                BY <4>1, <2>7, <2>8, <2>9, <1>5 DEF Intact
        <3>4. ReadUpTo(m)'
            <4>1. messages \in Seq(Instance) /\ appended \subseteq Nat
                BY <1>2
            <4>2. m \notin cut /\ read.message = m
                BY <2>7, <2>10, <1>16
            <4>3. m \in Later(last) /\ \A i \in Later(last) : m <= i
                BY <1>4
            <4>4. ReadUpTo(last) /\ UNCHANGED <<queue, appended, cut, data>>
                BY <1>1, <1>3
            <4> QED
                BY <4>1, <4>2, <4>3, <4>4, <3>1, <3>3, ReadUpToGrows
        <3>5. NextIsAt(m, p + Offset(m, k + 1))
            BY <2>10, <1>9, <1>16 DEF IsWrittenAt
        <3>6. NextIsAt(m, position)'
            <4>1. PICK e : e = position'
                OBVIOUS
            <4>2. NextIsAt(m, e)
                BY <4>1, <3>5, <2>3
            <4>3. NextIsAt(m, e)'
                BY <4>2, <1>1, WrittenSame
            <4> QED
                BY <4>1, <4>3 DEF NextIsAt, ByteAt
        <3>7. IsBetween(m)'
            BY <3>1, <3>6 DEF IsBetween, NoMessage, Zero
        <3>8. ReadingOK'
            BY <3>4, <3>7, <2>5, <1>5 DEF ReadingOK
        <3> QED
            BY <3>2, <3>8, <2>5, <1>14 DEF Inv, CraftOK, DoneOK
    <2>11. CASE k # LastField(m)
        <3>1. instance' = read /\ UNCHANGED messages
            BY <2>5, <2>11
        <3>2. ReaderOK'
            <4>1. messages' \in Seq(Instance)
                BY <3>1, <1>2
            <4>2. instance' \in Instance /\ astray' \in BOOLEAN
                BY <3>1, <2>5, <2>7
            <4>3. position' \in Nat /\ position' <= MAXBUFSIZE
                BY <2>3, <1>2
            <4> QED
                BY <4>1, <4>2, <4>3, Zenon DEF ReaderOK, Instance, Byte
        <3>3. ReadUpTo(last)'
            BY <3>1, <1>1, <1>3, ReadUpToKept
        <3>4. /\ LastField(m)' = LastField(m)
              /\ Offset(m, k + 1)' = Offset(m, k + 1)
              /\ \A i : FieldOf(m, i)' = FieldOf(m, i)
            BY <1>1 DEF LastField, Offset, HeaderLength, SizeOf, FieldOf
        <3>5. IsReading(m)'
            <4>1. (instance.seqnr = IF reliable[queue[m]] THEN SeqNr(m) ELSE Zero)'
                BY <3>1, <2>9, <1>1 DEF SeqNr, Zero
            <4>2. Len(instance'.fields) = k /\ (Len(instance.fields) < LastField(m))'
                BY <3>1, <3>4, <2>7, <2>11, <1>6
            <4>3. (\A i \in 1..Len(instance.fields) :
                      instance.fields[i] = FieldBytes(m, i, FieldOf(m, i).size))'
                <5>1. \A i \in 1..k : read.fields[i] = FieldBytes(m, i, FieldOf(m, i)'.size)
                    BY <3>4, <2>8
                <5>2. \A i \in 1..Len(instance'.fields) :
                          instance'.fields[i] = FieldBytes(m, i, FieldOf(m, i)'.size)
                    BY <5>1, <4>2, <3>1
                <5> QED
                    BY <5>2 DEF FieldBytes
            <4>4. ByteAt(p)' = Header(m)
                BY <1>1, <1>8 DEF ByteAt, Zero
            <4>5. position' = p + Offset(m, k + 1)'
                BY <3>4, <2>3
            <4>6. (\E q \in Nat : ByteAt(q) = Header(m) /\ position = q + Offset(m, Len(instance.fields) + 1))'
                BY <4>2, <4>4, <4>5 DEF Header
            <4> QED
                BY <4>1, <4>2, <4>3, <4>6 DEF IsReading
        <3>6. IsBetween(last)'
            <4>1. instance'.message = m /\ instance' # NoMessage
                BY <3>1, <2>7, <1>5 DEF NoMessage
            <4>2. Later(last)' = Later(last)
                BY <1>1 DEF Later
            <4>3. instance'.message \in Later(last)' /\ \A i \in Later(last)' : instance'.message <= i
                BY <4>1, <4>2, <1>4
            <4>4. IsReading(instance.message)'
                BY <4>1, <3>5 DEF IsReading, SeqNr, FieldBytes, Header, Offset, HeaderLength, SizeOf, LastField, FieldOf
            <4> QED
                BY <4>1, <4>3, <4>4 DEF IsBetween, NoMessage, Zero
        <3>7. ReadingOK'
            BY <3>3, <3>6, <2>5, <1>3 DEF ReadingOK
        <3> QED
            BY <3>2, <3>7, <2>5, <1>14 DEF Inv, CraftOK, DoneOK
    <2> QED
        BY <2>10, <2>11
<1>17. CASE k = LastField(m) /\ m \in cut
    <2>1. IsCutAt(p, m)
        BY <1>9, <1>17 DEF IsWrittenAt
    <2>2. \/ AvailableRead(position) < MinSize(FieldOf(m, k))
          \/ /\ FieldOf(m, k).kind \in {"STRING", "OCTETS"}
             /\ ReadSize(FieldOf(m, k), position) \in Nat
             /\ position + ReadLength(FieldOf(m, k), position) = MAXBUFSIZE + 1
        BY <2>1, <1>2, <1>5, <1>8, <1>10, <1>17, CutFieldIsRead
    <2>3. CASE AvailableRead(position) < MinSize(FieldOf(m, k))
        <3>1. phase' = "done" /\ instance' = NoMessage /\ UNCHANGED <<position, messages, astray>>
            BY <2>3, <1>13
        <3>2. DoneOK'
            <4>1. cut = {} => ~ astray' /\ Later(last) = {}
                BY <1>17
            <4>2. UNCHANGED <<queue, appended, cut, data, messages>> /\ appended \subseteq Nat
                BY <3>1, <1>1, <1>2
            <4> QED
                BY <4>1, <4>2, <1>3, EndsWhole
        <3>3. ReaderOK'
            <4>1. messages' \in Seq(Instance)
                BY <3>1, <1>2
            <4>2. instance' \in Instance
                BY <3>1, <1>15
            <4>3. astray' = astray /\ astray \in BOOLEAN
                BY <3>1 DEF Inv, ReaderOK
            <4>4. position' \in Nat /\ position' <= MAXBUFSIZE
                BY <3>1, <1>2, <1>10
            <4> QED
                BY <4>1, <4>2, <4>3, <4>4, Zenon DEF ReaderOK, Instance, Byte
        <3> QED
            BY <3>1, <3>2, <3>3, <1>14 DEF Inv, ReadingOK, CraftOK
    <2>4. CASE ~ (AvailableRead(position) < MinSize(FieldOf(m, k)))
        <3>1. /\ FieldOf(m, k).kind \in {"STRING", "OCTETS"}
              /\ ReadSize(FieldOf(m, k), position) \in Nat
              /\ position' = MAXBUFSIZE + 1
            BY <2>2, <2>4, <1>13
        <3>2. position' \in Nat /\ position' > MAXBUFSIZE
            BY <3>1, <1>2
        <3>3. /\ astray' = TRUE /\ phase' = "done"
              /\ messages' = Append(messages, read) /\ instance' = NoMessage
            <4>1. /\ astray' \in BOOLEAN /\ (astray' <=> position' > MAXBUFSIZE)
                  /\ phase' = IF astray' THEN "done" ELSE "read"
                  /\ messages' = Append(messages, read) /\ instance' = NoMessage
                BY <2>4, <1>13, <1>17, Zenon
            <4>2. astray' = TRUE
                BY <4>1, <3>2, Zenon
            <4> QED
                BY <4>1, <4>2, Zenon
        <3>4. bytes \in Seq(Byte)
            <4>1. PICK n \in Nat : n = ReadSize(FieldOf(m, k), position)
                BY <3>1
            <4>2. ASSUME NEW b \in 1..n
                  PROVE  ByteAt(position + b - 1) \in Byte
                <5>1. PICK q \in Nat : q = position + b - 1
                    BY <1>2
                <5> QED
                    BY <5>1, <1>2, ByteAtIsByte
            <4>3. bytes = [b \in 1..n |-> ByteAt(position + b - 1)]
                BY <4>1, <1>11
            <4> QED
                BY <4>2, <4>3
        <3>5. read \in Instance /\ read.message = m
            <4>1. HasGrownBy(read, bytes)
                BY <3>4, <1>2, <1>12, InstanceGrows
            <4> QED
                BY <4>1, <1>4 DEF HasGrownBy
        <3>6. /\ Len(messages) \in Nat /\ Len(messages') = Len(messages) + 1
              /\ messages'[Len(messages) + 1] = read
              /\ \A r \in 1..Len(messages) : messages'[r] = messages[r]
            BY <3>3, <3>5, <1>2
        <3>7. ASSUME NEW r \in 1..Len(messages), r \in 1..Len(messages)
              PROVE  Intact(messages[r])' /\ messages'[r].message \notin cut'
            <4>1. Intact(messages[r]) /\ messages[r].message \notin cut
                BY <1>3 DEF ReadUpTo
            <4>2. PICK x : x = messages[r]
                OBVIOUS
            <4>3. messages'[r] = x /\ Intact(x)
                BY <4>1, <4>2, <3>6
            <4>4. Intact(messages[r])'
                BY <4>3, <1>1, IntactKept
            <4> QED
                BY <4>1, <4>3, <4>4, <4>2, <1>1
        <3>8. \A r \in 1..Len(messages') : r \in 1..Len(messages) \/ r = Len(messages')
            BY <3>6
        <3>9. messages'[Len(messages')].message = m /\ m \in cut'
            BY <3>5, <3>6, <1>1, <1>17
        <3>10. DamageIsLast'
            BY <3>7, <3>8, <3>9 DEF DamageIsLast
        <3>11. CutNumberDropped'
            <4>1. FieldOf(m, Len(fields[queue[m]]))'.kind \in {"STRING", "OCTETS"}
                BY <3>1, <1>1, <1>17 DEF LastField, FieldOf
            <4>2. ASSUME NEW r \in 1..Len(messages'), messages'[r].message \in cut'
                  PROVE  (FieldOf(messages[r].message, Len(fields[queue[messages[r].message]])).kind
                              \in {"STRING", "OCTETS"})'
                <5>1. messages'[r].message = m
                    BY <4>2, <3>7, <3>8, <3>9
                <5> QED
                    BY <5>1, <4>1 DEF FieldOf
            <4> QED
                BY <4>2 DEF CutNumberDropped
        <3>12. RoundTrip'
            BY <3>9 DEF RoundTrip
        <3>13. ReaderOK'
            <4>1. messages' \in Seq(Instance)
                BY <3>3, <3>5, <1>2
            <4>2. instance' \in Instance /\ astray' = TRUE
                BY <3>3, <1>15
            <4> QED
                BY <4>1, <4>2, <3>2, Zenon DEF ReaderOK, Instance, Byte
        <3> QED
            BY <3>3, <3>10, <3>11, <3>12, <3>13, <1>14 DEF Inv, ReadingOK, CraftOK, DoneOK
    <2> QED
        BY <2>3, <2>4
<1> QED
    BY <1>16, <1>17
-----------------------------------------------------------------------------
(* The theorems *)

LEMMA WriterKeepsReader ==
    ASSUME Inv, phase = "craft", phase' = "craft", UNCHANGED readerVars, WriterInv'
    PROVE  Inv'
<1>1. ReaderOK'
    BY DEF Inv, ReaderOK, readerVars
<1>2. CraftOK'
    BY DEF Inv, CraftOK, readerVars, NoMessage, Zero
<1> QED
    BY <1>1, <1>2 DEF Inv, ReadingOK, DoneOK

LEMMA InitInv == Init => Inv
<1> SUFFICES ASSUME Init
             PROVE  Inv
    OBVIOUS
<1>1. WriterInv
    BY InitWriter
<1>2. /\ phase = "craft" /\ position = 0 /\ instance = NoMessage
      /\ messages = <<>> /\ astray = FALSE
    BY DEF Init
<1>3. ReaderOK
    <2>1. NoMessage \in Instance
        BY DEF NoMessage, Instance, Zero, Byte
    <2>2. messages \in Seq(Instance)
        BY <1>2
    <2>3. position \in Nat /\ position <= MAXBUFSIZE
        BY <1>2, BufferSize
    <2> QED
        BY <2>1, <2>2, <2>3, <1>2, Zenon DEF ReaderOK
<1> QED
    BY <1>1, <1>2, <1>3 DEF Inv, ReadingOK, CraftOK, DoneOK

LEMMA StutterInv == Inv /\ UNCHANGED vars => Inv'
<1> SUFFICES ASSUME Inv, UNCHANGED vars
             PROVE  Inv'
    OBVIOUS
<1>1. /\ UNCHANGED writerVars /\ UNCHANGED readerVars /\ phase' = phase
      /\ UNCHANGED <<queue, appended, cut, data, messages, position, instance, astray>>
    BY DEF vars, writerVars, readerVars
<1>2. WriterInv'
    BY <1>1, OthersWriter DEF Inv, WriterInv, WriterOK, ProgressOK
<1>3. CASE phase = "craft"
    BY <1>1, <1>2, <1>3, WriterKeepsReader
<1>4. ReaderOK'
    BY <1>1 DEF Inv, ReaderOK
<1>5. CASE phase = "read"
    <2>1. PICK last \in Nat : ~ astray /\ ReadUpTo(last) /\ IsBetween(last)
        BY <1>5 DEF Inv, ReadingOK
    <2>2. ReadUpTo(last)'
        BY <2>1, <1>1, ReadUpToKept
    <2>3. /\ NextIsAt(last, position)' = NextIsAt(last, position)
          /\ IsReading(instance.message)' = IsReading(instance.message)
          /\ Later(last)' = Later(last)
        BY <1>1 DEF NextIsAt, Later, ByteAt, IsReading, FieldOf, FieldBytes, Header, SeqNr, Zero,
                    LastField, Offset, HeaderLength, SizeOf
    <2>4. IsBetween(last)'
        BY <2>1, <2>3, <1>1 DEF IsBetween, NoMessage, Zero
    <2>5. ReadingOK'
        BY <2>1, <2>2, <2>4, <1>1 DEF ReadingOK
    <2> QED
        BY <2>5, <1>1, <1>2, <1>4, <1>5 DEF Inv, CraftOK, DoneOK
<1>6. CASE phase = "done"
    <2>1. \A r : Intact(r)' <=> Intact(r)
        BY <1>1, WrittenSame
    <2>2. RoundTrip /\ DamageIsLast /\ CutNumberDropped
        BY <1>6 DEF Inv, DoneOK
    <2>3. \A r : Intact(messages[r])' <=> Intact(messages[r])
        BY <2>1, <1>1 DEF Intact, FieldOf, FieldBytes, SeqNr, Zero
    <2>4. RoundTrip'
        BY <2>2, <2>3, <1>1 DEF RoundTrip
    <2>5. DamageIsLast'
        BY <2>2, <2>3, <1>1 DEF DamageIsLast
    <2>6. CutNumberDropped'
        BY <2>2, <1>1 DEF CutNumberDropped, FieldOf
    <2>7. DoneOK'
        BY <2>4, <2>5, <2>6 DEF DoneOK
    <2> QED
        BY <2>7, <1>1, <1>2, <1>4, <1>6 DEF Inv, CraftOK, ReadingOK
<1>7. phase \in {"craft", "read", "done"}
    BY DEF Inv, WriterInv, WriterOK
<1> QED
    BY <1>3, <1>5, <1>6, <1>7

LEMMA SpecInv == Spec => []Inv
<1>1. ASSUME Inv, [Next]_vars
      PROVE  Inv'
    <2>1. CASE AppendMessage
        <3>1. WriterInv'
            BY <1>1, <2>1, AppendMessageWriter DEF Inv
        <3> QED
            BY <3>1, <1>1, <2>1, WriterKeepsReader DEF AppendMessage
    <2>2. CASE SerializeField
        <3>1. WriterInv'
            BY <1>1, <2>2, SerializeFieldWriter DEF Inv
        <3> QED
            BY <3>1, <1>1, <2>2, WriterKeepsReader DEF SerializeField
    <2>3. CASE Transmit
        BY <1>1, <2>3, TransmitInv
    <2>4. CASE ReadHeader
        BY <1>1, <2>4, ReadHeaderInv
    <2>5. CASE DeserializeField
        BY <1>1, <2>5, DeserializeFieldInv
    <2>6. CASE UNCHANGED vars
        BY <1>1, <2>6, StutterInv
    <2> QED
        BY <1>1, <2>1, <2>2, <2>3, <2>4, <2>5, <2>6 DEF Next
<1> QED
    BY InitInv, <1>1, PTL DEF Spec

\* No write exceeds the 1024 bytes of a Buffer, and the reader's position leaves
\* them only to be known as astray (Buffer::Write8 to WriteString and
\* Buffer::Read8 to ReadString), for any classes of messages whose Size() fits.
THEOREM TypeCorrect == Spec => []TypeOK
<1>1. Inv => TypeOK
    BY DEF Inv, WriterInv, TypeOK
<1> QED
    BY SpecInv, <1>1, PTL

\* A packet in which no message was cut is read as it was written: what
\* CraftSendPacket appended, Packet::Read returns, in its order and byte by byte.
THEOREM RoundTripHolds == Spec => []RoundTrip
<1>1. Inv => RoundTrip
    BY DEF Inv, DoneOK, RoundTrip
<1> QED
    BY SpecInv, <1>1, PTL

\* Only a message with a sequence number is cut by the end of the buffer: the
\* byte Size() forgets is that number.
THEOREM OnlyReliableMessagesAreCut == Spec => []OnlyReliableCut
<1>1. Inv => OnlyReliableCut
    BY DEF Inv, WriterInv
<1> QED
    BY SpecInv, <1>1, PTL

\* What precedes the message that was cut is returned as it was written; only the
\* message that was cut may be returned with other bytes.
THEOREM DamageIsTheLast == Spec => []DamageIsLast
<1>1. Inv => DamageIsLast
    <2> SUFFICES ASSUME Inv
                 PROVE  DamageIsLast
        OBVIOUS
    <2>1. phase \in {"craft", "read", "done"}
        BY DEF Inv, WriterInv, WriterOK
    <2>2. CASE phase = "craft"
        BY <2>2 DEF Inv, CraftOK, DamageIsLast
    <2>3. CASE phase = "read"
        BY <2>3 DEF Inv, ReadingOK, ReadUpTo, DamageIsLast
    <2>4. CASE phase = "done"
        BY <2>4 DEF Inv, DoneOK
    <2> QED
        BY <2>1, <2>2, <2>3, <2>4
<1> QED
    BY SpecInv, <1>1, PTL

\* A message that was cut in a number is not returned: Deserialize misses bytes
\* and the message is dropped.
THEOREM CutNumbersAreDropped == Spec => []CutNumberDropped
<1>1. Inv => CutNumberDropped
    <2> SUFFICES ASSUME Inv
                 PROVE  CutNumberDropped
        OBVIOUS
    <2>1. phase \in {"craft", "read", "done"}
        BY DEF Inv, WriterInv, WriterOK
    <2>2. CASE phase = "craft"
        BY <2>2 DEF Inv, CraftOK, CutNumberDropped
    <2>3. CASE phase = "read"
        BY <2>3 DEF Inv, ReadingOK, ReadUpTo, CutNumberDropped
    <2>4. CASE phase = "done"
        BY <2>4 DEF Inv, DoneOK
    <2> QED
        BY <2>1, <2>2, <2>3, <2>4
<1> QED
    BY SpecInv, <1>1, PTL
=============================================================================
