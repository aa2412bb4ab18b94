-------------------------- MODULE LoginCodecProofs --------------------------
(***************************************************************************)
(* Proofs about LoginCodec, for every size of a byte and of the length, any *)
(* width of size_t and bodies of any length it can count.  The integers on  *)
(* the wire are read and written by recursive functions: reading a byte     *)
(* undoes a shift and the other way round (WriteOfRead, ReadOfWrite), by    *)
(* induction on the number of bytes.  From there a field is what stands in  *)
(* a body at some offset (FieldAt), whether it was read or is to be read,   *)
(* and the two halves of DecodesExactlyRequests are invariants: the fields  *)
(* read so far are at their offsets, and if the body is a request they are  *)
(* its fields.                                                              *)
(***************************************************************************)
EXTENDS LoginCodec, SumsProofs

-----------------------------------------------------------------------------
(* Arithmetic                                                               *)

LEMMA SmallIsNotWrapped == ASSUME NEW n \in 0 .. SizeMax PROVE Wrap(n) = n
  BY CodecAssumption DEF Wrap

\* Putting a byte behind a value and taking it away.
LEMMA PushByte ==
    ASSUME NEW a \in Nat, NEW b \in Bytes
    PROVE  /\ a * Base + b \in Nat
           /\ (a * Base + b) \div Base = a
           /\ (a * Base + b) % Base = b
  BY CodecAssumption DEF Bytes

LEMMA PopByte ==
    ASSUME NEW a \in Nat
    PROVE  /\ a \div Base \in Nat /\ a % Base \in Bytes
           /\ (a \div Base) * Base + (a % Base) = a
  BY CodecAssumption DEF Bytes

-----------------------------------------------------------------------------
(* Integers on the wire                                                     *)

LEMMA ShiftSteps ==
    ASSUME NEW value \in Nat, NEW n \in Nat
    PROVE  /\ ShiftRight(value, n)[0] = value
           /\ \A k \in 1 .. n : ShiftRight(value, n)[k] = ShiftRight(value, n)[k - 1] \div Base
           /\ \A k \in 0 .. n : ShiftRight(value, n)[k] \in Nat
<1> DEFINE G == [k \in 1 .. n |-> [x \in Nat |-> x \div Base]]
           IsShift(f) == f = [k \in 0 .. n |-> IF k = 0 THEN value ELSE f[k - 1] \div Base]
           P == ShiftRight(value, n)
<1>1. G \in [1 .. n -> [Nat -> Nat]]
  BY PopByte
<1>2. \A k \in 1 .. n : \A x \in Nat : G[k][x] = x \div Base
  OBVIOUS
<1> HIDE DEF G
<1>3. PICK f \in [0 .. n -> Nat] : f[0] = value /\ \A k \in 1 .. n : f[k] = G[k][f[k - 1]]
  BY <1>1, RecursionExists
<1>4. \A k \in 0 .. n : f[k] = IF k = 0 THEN value ELSE f[k - 1] \div Base
  <2> TAKE k \in 0 .. n
  <2>1. k # 0 => k \in 1 .. n /\ f[k - 1] \in Nat
    OBVIOUS
  <2> QED
    BY <1>2, <1>3, <2>1
<1>5. IsShift(f)
  BY <1>4
<1>6. P = CHOOSE g : IsShift(g)
  BY DEF ShiftRight
<1>7. IsShift(P)
  <2> HIDE DEF IsShift, P
  <2> QED
    BY <1>5, <1>6
<1> HIDE DEF P
<1>8. \A k \in 0 .. n : P[k] = IF k = 0 THEN value ELSE P[k - 1] \div Base
  BY <1>7
<1>9. P[0] = value /\ \A k \in 1 .. n : P[k] = P[k - 1] \div Base
  BY <1>8
<1> DEFINE S == {k \in Nat : k <= n => P[k] \in Nat}
<1>10. 0 \in S
  BY <1>9
<1>11. ASSUME NEW k \in Nat, k \in S PROVE k + 1 \in S
  <2> SUFFICES ASSUME k + 1 <= n PROVE P[k + 1] \in Nat
    OBVIOUS
  <2>1. P[k] \in Nat /\ k + 1 \in 1 .. n /\ (k + 1) - 1 = k
    BY <1>11
  <2>2. P[k + 1] = P[k] \div Base
    BY <1>9, <2>1
  <2> QED
    BY <2>1, <2>2, PopByte
<1>12. Nat \subseteq S
  <2> HIDE DEF S
  <2> QED
    BY <1>10, <1>11, NatInductionOnSet
<1>13. \A k \in 0 .. n : P[k] \in Nat
  BY <1>12
<1> QED
  BY <1>9, <1>13 DEF P

\* The values ReadUnsigned has after each byte.
ReadPrefix(body, offset, n) ==
    LET value[i \in 0..n] == IF i = 0 THEN 0 ELSE value[i - 1] * Base + body[offset + i]
    IN  value

LEMMA ReadSteps ==
    ASSUME NEW body \in Seq(Bytes), NEW offset \in Nat, NEW n \in Nat, offset + n <= Len(body)
    PROVE  /\ ReadUnsigned(body, offset, n) = ReadPrefix(body, offset, n)[n]
           /\ ReadPrefix(body, offset, n)[0] = 0
           /\ \A i \in 1 .. n :
                /\ body[offset + i] \in Bytes
                /\ ReadPrefix(body, offset, n)[i]
                     = ReadPrefix(body, offset, n)[i - 1] * Base + body[offset + i]
           /\ \A i \in 0 .. n : ReadPrefix(body, offset, n)[i] \in Nat
<1> DEFINE G == [i \in 1 .. n |-> [x \in Nat |-> x * Base + body[offset + i]]]
           IsValue(f) == f = [i \in 0 .. n |-> IF i = 0 THEN 0 ELSE f[i - 1] * Base + body[offset + i]]
           P == ReadPrefix(body, offset, n)
<1>1. \A i \in 1 .. n : body[offset + i] \in Bytes
  <2> TAKE i \in 1 .. n
  <2>1. offset + i \in 1 .. Len(body)
    OBVIOUS
  <2> QED
    BY <2>1
<1>2. \A i \in 1 .. n : \A x \in Nat : x * Base + body[offset + i] \in Nat
  BY <1>1, PushByte
<1>3. G \in [1 .. n -> [Nat -> Nat]]
  BY <1>2
<1>4. \A i \in 1 .. n : \A x \in Nat : G[i][x] = x * Base + body[offset + i]
  OBVIOUS
<1> HIDE DEF G
<1>5. PICK f \in [0 .. n -> Nat] : f[0] = 0 /\ \A k \in 1 .. n : f[k] = G[k][f[k - 1]]
  <2>1. 0 \in Nat
    OBVIOUS
  <2> QED
    BY <1>3, <2>1, RecursionExists
<1>6. \A k \in 0 .. n : f[k] = IF k = 0 THEN 0 ELSE f[k - 1] * Base + body[offset + k]
  <2> TAKE k \in 0 .. n
  <2>1. k # 0 => k \in 1 .. n /\ f[k - 1] \in Nat
    OBVIOUS
  <2> QED
    BY <1>4, <1>5, <2>1
<1>7. IsValue(f)
  BY <1>6
<1>8. P = CHOOSE g : IsValue(g)
  BY DEF ReadPrefix
<1>9. IsValue(P)
  <2> HIDE DEF IsValue, P
  <2> QED
    BY <1>7, <1>8
<1>10. ReadUnsigned(body, offset, n) = P[n]
  BY DEF ReadUnsigned, ReadPrefix
<1> HIDE DEF P
<1>11. \A k \in 0 .. n : P[k] = IF k = 0 THEN 0 ELSE P[k - 1] * Base + body[offset + k]
  BY <1>9
<1>12. P[0] = 0 /\ \A k \in 1 .. n : P[k] = P[k - 1] * Base + body[offset + k]
  BY <1>11
<1> DEFINE S == {k \in Nat : k <= n => P[k] \in Nat}
<1>13. 0 \in S
  BY <1>12
<1>14. ASSUME NEW k \in Nat, k \in S PROVE k + 1 \in S
  <2> SUFFICES ASSUME k + 1 <= n PROVE P[k + 1] \in Nat
    OBVIOUS
  <2>1. P[k] \in Nat /\ k + 1 \in 1 .. n /\ (k + 1) - 1 = k
    BY <1>14
  <2>2. P[k + 1] = P[k] * Base + body[offset + (k + 1)]
    BY <1>12, <2>1
  <2> QED
    BY <1>2, <2>1, <2>2
<1>15. Nat \subseteq S
  <2> HIDE DEF S
  <2> QED
    BY <1>13, <1>14, NatInductionOnSet
<1>16. \A k \in 0 .. n : P[k] \in Nat
  BY <1>15
<1> QED
  BY <1>1, <1>10, <1>12, <1>16 DEF P

\* Writing what was read gives the bytes that were read, and its type has room
\* for it.
LEMMA WriteOfRead ==
    ASSUME NEW body \in Seq(Bytes), NEW offset \in Nat, NEW n \in Nat, offset + n <= Len(body)
    PROVE  /\ ReadUnsigned(body, offset, n) \in Nat
           /\ ShiftRight(ReadUnsigned(body, offset, n), n)[n] = 0
           /\ \A i \in 1 .. n : WriteUnsigned(ReadUnsigned(body, offset, n), n)[i] = body[offset + i]
<1> DEFINE R == ReadUnsigned(body, offset, n)
           P == ReadPrefix(body, offset, n)
           H == ShiftRight(R, n)
<1>1. /\ R = P[n] /\ P[0] = 0
      /\ \A i \in 0 .. n : P[i] \in Nat
      /\ \A i \in 1 .. n : body[offset + i] \in Bytes /\ P[i] = P[i - 1] * Base + body[offset + i]
  BY ReadSteps
<1>2. R \in Nat
  <2>1. n \in 0 .. n
    OBVIOUS
  <2> QED
    BY <1>1, <2>1
<1>3. H[0] = R /\ \A k \in 1 .. n : H[k] = H[k - 1] \div Base
  <2> HIDE DEF R
  <2> QED
    BY <1>2, ShiftSteps
<1>4. WriteUnsigned(R, n) = [i \in 1 .. n |-> H[n - i] % Base]
  BY DEF WriteUnsigned
<1> HIDE DEF R, P, H
<1>5. \A i \in 1 .. n : P[i] \div Base = P[i - 1] /\ P[i] % Base = body[offset + i]
  <2> TAKE i \in 1 .. n
  <2>1. i - 1 \in 0 .. n
    OBVIOUS
  <2>2. P[i - 1] \in Nat /\ body[offset + i] \in Bytes /\ P[i] = P[i - 1] * Base + body[offset + i]
    BY <1>1, <2>1
  <2>3. /\ (P[i - 1] * Base + body[offset + i]) \div Base = P[i - 1]
        /\ (P[i - 1] * Base + body[offset + i]) % Base = body[offset + i]
    BY <2>2, PushByte, Zenon
  <2> QED
    BY <2>2, <2>3, Zenon
<1> DEFINE S == {k \in Nat : k <= n => H[k] = P[n - k]}
<1>6. 0 \in S
  BY <1>1, <1>3
<1>7. ASSUME NEW k \in Nat, k \in S PROVE k + 1 \in S
  <2> SUFFICES ASSUME k + 1 <= n PROVE H[k + 1] = P[n - (k + 1)]
    OBVIOUS
  <2>1. /\ H[k] = P[n - k] /\ k + 1 \in 1 .. n /\ (k + 1) - 1 = k
        /\ n - k \in 1 .. n /\ (n - k) - 1 = n - (k + 1)
    BY <1>7
  <2>2. H[k + 1] = H[k] \div Base
    BY <1>3, <2>1
  <2>3. P[n - k] \div Base = P[n - (k + 1)]
    BY <1>5, <2>1
  <2> QED
    BY <2>1, <2>2, <2>3
<1>8. Nat \subseteq S
  <2> HIDE DEF S
  <2> QED
    BY <1>6, <1>7, NatInductionOnSet
<1>9. \A k \in 0 .. n : H[k] = P[n - k]
  BY <1>8
<1>10. H[n] = 0
  <2>1. n \in 0 .. n /\ n - n = 0
    OBVIOUS
  <2> QED
    BY <1>1, <1>9, <2>1
<1>11. \A i \in 1 .. n : WriteUnsigned(R, n)[i] = body[offset + i]
  <2> TAKE i \in 1 .. n
  <2>1. n - i \in 0 .. n /\ n - (n - i) = i
    OBVIOUS
  <2>2. H[n - i] = P[i]
    BY <1>9, <2>1
  <2>3. WriteUnsigned(R, n)[i] = H[n - i] % Base
    BY <1>4
  <2> QED
    BY <1>5, <2>2, <2>3
<1> QED
  BY <1>2, <1>10, <1>11 DEF R, H

\* Reading the bytes of a number its type has room for gives the number.
LEMMA ReadOfWrite ==
    ASSUME NEW body \in Seq(Bytes), NEW offset \in Nat, NEW n \in Nat, offset + n <= Len(body),
           NEW v \in Nat, ShiftRight(v, n)[n] = 0,
           \A i \in 1 .. n : body[offset + i] = WriteUnsigned(v, n)[i]
    PROVE  ReadUnsigned(body, offset, n) = v
<1> DEFINE P == ReadPrefix(body, offset, n)
           H == ShiftRight(v, n)
<1>1. /\ ReadUnsigned(body, offset, n) = P[n] /\ P[0] = 0
      /\ \A i \in 1 .. n : P[i] = P[i - 1] * Base + body[offset + i]
  BY ReadSteps
<1>2. /\ H[0] = v /\ \A k \in 1 .. n : H[k] = H[k - 1] \div Base
      /\ \A k \in 0 .. n : H[k] \in Nat
  BY ShiftSteps
<1>3. H[n] = 0
  OBVIOUS
<1>4. \A i \in 1 .. n : body[offset + i] = H[n - i] % Base
  BY DEF WriteUnsigned
<1> HIDE DEF P, H
<1> DEFINE S == {k \in Nat : k <= n => P[k] = H[n - k]}
<1>5. 0 \in S
  BY <1>1, <1>3
<1>6. ASSUME NEW k \in Nat, k \in S PROVE k + 1 \in S
  <2> SUFFICES ASSUME k + 1 <= n PROVE P[k + 1] = H[n - (k + 1)]
    OBVIOUS
  <2> DEFINE j == n - (k + 1)
  <2>1. /\ P[k] = H[n - k] /\ k + 1 \in 1 .. n /\ (k + 1) - 1 = k
        /\ n - k \in 1 .. n /\ (n - k) - 1 = j /\ j \in 0 .. n
    BY <1>6
  <2> HIDE DEF j
  <2>2. H[j] \in Nat
    BY <1>2, <2>1
  <2>3. H[n - k] = H[j] \div Base
    BY <1>2, <2>1
  <2>4. body[offset + (k + 1)] = H[j] % Base
    BY <1>4, <2>1 DEF j
  <2>5. P[k + 1] = P[k] * Base + body[offset + (k + 1)]
    BY <1>1, <2>1
  <2>6. P[k + 1] = (H[j] \div Base) * Base + (H[j] % Base)
    BY <2>1, <2>3, <2>4, <2>5, Zenon
  <2> QED
    BY <2>2, <2>6, PopByte DEF j
<1>7. Nat \subseteq S
  <2> HIDE DEF S
  <2> QED
    BY <1>5, <1>6, NatInductionOnSet
<1>8. P[n] = H[n - n]
  BY <1>7
<1> QED
  BY <1>1, <1>2, <1>8

LEMMA WrittenBytes ==
    ASSUME NEW v \in Nat, NEW n \in Nat
    PROVE  WriteUnsigned(v, n) \in Seq(Bytes) /\ Len(WriteUnsigned(v, n)) = n
<1>1. \A i \in 1 .. n : ShiftRight(v, n)[n - i] % Base \in Bytes
  <2> TAKE i \in 1 .. n
  <2>1. n - i \in 0 .. n
    OBVIOUS
  <2>2. ShiftRight(v, n)[n - i] \in Nat
    BY <2>1, ShiftSteps
  <2> QED
    BY <2>2, PopByte
<1>2. WriteUnsigned(v, n) \in [1 .. n -> Bytes]
  BY <1>1 DEF WriteUnsigned
<1> QED
  BY <1>2

-----------------------------------------------------------------------------
(* Fields of a body                                                         *)

\* The data and its length stand in the body behind the offset.
FieldAt(body, offset, data) ==
    /\ offset + LengthBytes + Len(data) <= Len(body)
    /\ CanWriteLenPrefixed(data)
    /\ \A i \in 1 .. LengthBytes : body[offset + i] = WriteUnsigned(Len(data), LengthBytes)[i]
    /\ \A i \in 1 .. Len(data) : body[offset + LengthBytes + i] = data[i]

\* Bodies that size_t can count.
Bodies == {body \in Seq(Bytes) : Len(body) <= SizeMax}

LEMMA CanReadFits ==
    ASSUME NEW body \in Bodies, NEW offset \in Nat, NEW length \in Nat
    PROVE  CanRead(body, offset, length) <=> offset + length <= Len(body)
<1>1. Len(body) \in Nat /\ Len(body) <= SizeMax /\ SizeMax \in Nat
  BY CodecAssumption DEF Bodies
<1>2. CASE offset <= Len(body)
  <2>1. Len(body) - offset \in 0 .. SizeMax
    BY <1>1, <1>2
  <2>2. Wrap(Len(body) - offset) = Len(body) - offset
    BY <2>1, SmallIsNotWrapped
  <2> QED
    BY <1>1, <1>2, <2>2 DEF CanRead
<1>3. CASE ~ offset <= Len(body)
  BY <1>1, <1>3 DEF CanRead
<1> QED
  BY <1>2, <1>3

\* What the reader finds is a field, and it stands behind it.
LEMMA ReadsField ==
    ASSUME NEW body \in Bodies, NEW offset \in Nat, CanReadLenPrefixed(body, offset)
    PROVE  LET read == LenPrefixedAt(body, offset)
           IN  /\ read.data \in Seq(Bytes)
               /\ FieldAt(body, offset, read.data)
               /\ read.offset = offset + LengthBytes + Len(read.data)
<1> DEFINE first == offset + LengthBytes
           length == ReadUnsigned(body, offset, LengthBytes)
           data == SubSeq(body, first + 1, first + length)
<1>1. Len(body) \in Nat /\ Len(body) <= SizeMax /\ SizeMax \in Nat /\ LengthBytes \in Nat /\ body \in Seq(Bytes)
  BY CodecAssumption DEF Bodies
<1>2. first <= Len(body)
  <2>1. CanRead(body, offset, LengthBytes)
    BY DEF CanReadLenPrefixed
  <2> QED
    BY <1>1, <2>1, CanReadFits
<1>3. /\ length \in Nat /\ ShiftRight(length, LengthBytes)[LengthBytes] = 0
      /\ \A i \in 1 .. LengthBytes : WriteUnsigned(length, LengthBytes)[i] = body[offset + i]
  BY <1>1, <1>2, WriteOfRead
<1>4. Wrap(offset + LengthBytes) = first
  <2>1. first \in 0 .. SizeMax
    BY <1>1, <1>2
  <2> QED
    BY <2>1, SmallIsNotWrapped
<1>5. CanRead(body, first, length)
  BY <1>4 DEF CanReadLenPrefixed
<1>6. LenPrefixedAt(body, offset) = [data |-> SubSeq(body, first + 1, Wrap(first + length)), offset |-> Wrap(first + length)]
  BY <1>4 DEF LenPrefixedAt
<1> HIDE DEF length
<1>7. first \in Nat /\ first + length <= Len(body)
  <2>1. first \in Nat
    BY <1>1
  <2> HIDE DEF first
  <2> QED
    BY <1>3, <1>5, <2>1, CanReadFits
<1>8. Wrap(first + length) = first + length
  <2>1. first + length \in 0 .. SizeMax
    BY <1>1, <1>3, <1>7
  <2> QED
    BY <2>1, SmallIsNotWrapped
<1>9. LenPrefixedAt(body, offset) = [data |-> data, offset |-> first + length]
  BY <1>6, <1>8
<1>10. data \in Seq(Bytes) /\ Len(data) = length /\ \A i \in 1 .. length : data[i] = body[first + i]
  <2> HIDE DEF first
  <2> QED
    BY <1>1, <1>3, <1>7
<1>11. FieldAt(body, offset, data)
  <2> HIDE DEF data
  <2> QED
    BY <1>3, <1>7, <1>10 DEF FieldAt, CanWriteLenPrefixed
<1> HIDE DEF data
<1> QED
  BY <1>9, <1>10, <1>11

\* A field is read as it is.
LEMMA FieldIsRead ==
    ASSUME NEW body \in Bodies, NEW offset \in Nat, NEW data \in Seq(Bytes), FieldAt(body, offset, data)
    PROVE  /\ CanReadLenPrefixed(body, offset)
           /\ LenPrefixedAt(body, offset).data = data
<1> DEFINE first == offset + LengthBytes
           length == Len(data)
<1>1. Len(body) \in Nat /\ Len(body) <= SizeMax /\ SizeMax \in Nat /\ LengthBytes \in Nat /\ body \in Seq(Bytes)
  BY CodecAssumption DEF Bodies
<1>2. length \in Nat /\ first \in Nat /\ first + length <= Len(body) /\ first <= Len(body)
  BY <1>1 DEF FieldAt
<1>3. /\ ShiftRight(length, LengthBytes)[LengthBytes] = 0
      /\ \A i \in 1 .. LengthBytes : body[offset + i] = WriteUnsigned(length, LengthBytes)[i]
      /\ \A i \in 1 .. length : body[first + i] = data[i]
  BY DEF FieldAt, CanWriteLenPrefixed
<1>4. ReadUnsigned(body, offset, LengthBytes) = length
  <2> HIDE DEF length
  <2> QED
    BY <1>1, <1>2, <1>3, ReadOfWrite
<1>5. Wrap(offset + LengthBytes) = first /\ Wrap(first + length) = first + length
  <2>1. first \in 0 .. SizeMax /\ first + length \in 0 .. SizeMax
    BY <1>1, <1>2
  <2> QED
    BY <2>1, SmallIsNotWrapped
<1>6. CanReadLenPrefixed(body, offset)
  <2>1. CanRead(body, offset, LengthBytes)
    BY <1>1, <1>2, CanReadFits
  <2>2. CanRead(body, first, length)
    <3> HIDE DEF first, length
    <3> QED
      BY <1>2, CanReadFits
  <2> QED
    BY <1>4, <1>5, <2>1, <2>2 DEF CanReadLenPrefixed
<1>7. LenPrefixedAt(body, offset).data = SubSeq(body, first + 1, first + length)
  BY <1>4, <1>5 DEF LenPrefixedAt
<1>8. SubSeq(body, first + 1, first + length) = data
  <2> HIDE DEF first
  <2> DEFINE sub == SubSeq(body, first + 1, first + length)
  <2>1. sub \in Seq(Bytes) /\ Len(sub) = length /\ \A i \in 1 .. length : sub[i] = body[first + i]
    BY <1>1, <1>2
  <2> HIDE DEF sub
  <2>2. \A i \in 1 .. length : sub[i] = data[i]
    BY <1>3, <2>1
  <2>3. sub = data
    BY <2>1, <2>2
  <2> QED
    BY <2>3 DEF sub
<1> QED
  BY <1>6, <1>7, <1>8

-----------------------------------------------------------------------------
(* Requests                                                                 *)

\* A body is a request when two fields fill it.
IsRequest(body, id, password) ==
    /\ FieldAt(body, 0, id)
    /\ FieldAt(body, LengthBytes + Len(id), password)
    /\ Len(body) = LengthBytes + Len(id) + LengthBytes + Len(password)

LEMMA ConcatElements ==
    ASSUME NEW s \in Seq(Bytes), NEW t \in Seq(Bytes)
    PROVE  /\ s \o t \in Seq(Bytes) /\ Len(s \o t) = Len(s) + Len(t)
           /\ \A i \in 1 .. Len(s) : (s \o t)[i] = s[i]
           /\ \A i \in 1 .. Len(t) : (s \o t)[Len(s) + i] = t[i]
  OBVIOUS

LEMMA LenPrefixedElements ==
    ASSUME NEW data \in Seq(Bytes)
    PROVE  LET written == WriteLenPrefixed(data)
           IN  /\ written \in Seq(Bytes) /\ Len(written) = LengthBytes + Len(data)
               /\ \A i \in 1 .. LengthBytes : written[i] = WriteUnsigned(Len(data), LengthBytes)[i]
               /\ \A i \in 1 .. Len(data) : written[LengthBytes + i] = data[i]
<1> DEFINE w == WriteUnsigned(Len(data), LengthBytes)
<1>1. w \in Seq(Bytes) /\ Len(w) = LengthBytes
  <2>1. Len(data) \in Nat /\ LengthBytes \in Nat
    BY CodecAssumption
  <2> QED
    BY <2>1, WrittenBytes
<1>2. WriteLenPrefixed(data) = w \o data
  BY DEF WriteLenPrefixed
<1> HIDE DEF w
<1>3. /\ w \o data \in Seq(Bytes) /\ Len(w \o data) = LengthBytes + Len(data)
      /\ \A i \in 1 .. LengthBytes : (w \o data)[i] = w[i]
      /\ \A i \in 1 .. Len(data) : (w \o data)[LengthBytes + i] = data[i]
  BY <1>1, ConcatElements
<1> QED
  BY <1>2, <1>3 DEF w

\* Two fields that fill a body are the encoding of a request, and the other way
\* round.
LEMMA RequestIsTwoFields ==
    ASSUME NEW body \in Seq(Bytes), NEW id \in Seq(Bytes), NEW password \in Seq(Bytes),
           CanWriteLenPrefixed(id), CanWriteLenPrefixed(password)
    PROVE  body = Request(id, password) <=> IsRequest(body, id, password)
<1> DEFINE a == WriteLenPrefixed(id)
           b == WriteLenPrefixed(password)
           c == a \o b
           n == LengthBytes + Len(id)
           wa == WriteUnsigned(Len(id), LengthBytes)
           wb == WriteUnsigned(Len(password), LengthBytes)
<1>1. /\ a \in Seq(Bytes) /\ Len(a) = n
      /\ \A i \in 1 .. LengthBytes : a[i] = wa[i]
      /\ \A i \in 1 .. Len(id) : a[LengthBytes + i] = id[i]
  BY LenPrefixedElements
<1>2. /\ b \in Seq(Bytes) /\ Len(b) = LengthBytes + Len(password)
      /\ \A i \in 1 .. LengthBytes : b[i] = wb[i]
      /\ \A i \in 1 .. Len(password) : b[LengthBytes + i] = password[i]
  BY LenPrefixedElements
<1>3. Request(id, password) = c
  BY DEF Request
<1>4. IsRequest(body, id, password) <=>
        /\ Len(body) = n + (LengthBytes + Len(password))
        /\ \A i \in 1 .. LengthBytes : body[i] = wa[i]
        /\ \A i \in 1 .. Len(id) : body[LengthBytes + i] = id[i]
        /\ \A i \in 1 .. LengthBytes : body[n + i] = wb[i]
        /\ \A i \in 1 .. Len(password) : body[n + LengthBytes + i] = password[i]
  BY CodecAssumption DEF IsRequest, FieldAt
<1>5. n \in Nat /\ LengthBytes \in Nat /\ Len(id) \in Nat /\ Len(password) \in Nat
  BY CodecAssumption
<1> HIDE DEF a, b, wa, wb
<1>6. /\ c \in Seq(Bytes) /\ Len(c) = n + (LengthBytes + Len(password))
      /\ \A i \in 1 .. n : c[i] = a[i]
      /\ \A i \in 1 .. LengthBytes + Len(password) : c[n + i] = b[i]
  <2> HIDE DEF n
  <2>1. /\ c \in Seq(Bytes) /\ Len(c) = Len(a) + Len(b)
        /\ \A i \in 1 .. Len(a) : c[i] = a[i]
        /\ \A i \in 1 .. Len(b) : c[Len(a) + i] = b[i]
    BY <1>1, <1>2, ConcatElements
  <2> QED
    BY <1>1, <1>2, <2>1, Zenon
<1> HIDE DEF c
<1>7. /\ \A i \in 1 .. LengthBytes : c[i] = wa[i]
      /\ \A i \in 1 .. Len(id) : c[LengthBytes + i] = id[i]
      /\ \A i \in 1 .. LengthBytes : c[n + i] = wb[i]
      /\ \A i \in 1 .. Len(password) : c[n + LengthBytes + i] = password[i]
  <2>1. ASSUME NEW i \in 1 .. LengthBytes PROVE c[i] = wa[i]
    BY <1>1, <1>5, <1>6, <2>1
  <2>2. ASSUME NEW i \in 1 .. Len(id) PROVE c[LengthBytes + i] = id[i]
    BY <1>1, <1>5, <1>6, <2>2
  <2>3. ASSUME NEW i \in 1 .. LengthBytes PROVE c[n + i] = wb[i]
    BY <1>2, <1>5, <1>6, <2>3
  <2>4. ASSUME NEW i \in 1 .. Len(password) PROVE c[n + LengthBytes + i] = password[i]
    <3>1. LengthBytes + i \in 1 .. LengthBytes + Len(password) /\ n + LengthBytes + i = n + (LengthBytes + i)
      BY <1>5
    <3> QED
      BY <1>2, <1>6, <3>1
  <2> QED
    BY <2>1, <2>2, <2>3, <2>4
<1>8. ASSUME IsRequest(body, id, password) PROVE body = c
  <2> HIDE DEF n
  <2>1. \A i \in 1 .. Len(body) : body[i] = c[i]
    <3> SUFFICES ASSUME NEW i \in 1 .. Len(body) PROVE body[i] = c[i]
      OBVIOUS
    <3>1. n = LengthBytes + Len(id) /\ Len(body) = n + (LengthBytes + Len(password)) /\ i \in Nat
      BY <1>4, <1>8 DEF n
    <3>2. /\ \A k \in 1 .. LengthBytes : body[k] = c[k]
          /\ \A k \in 1 .. Len(id) : body[LengthBytes + k] = c[LengthBytes + k]
          /\ \A k \in 1 .. LengthBytes : body[n + k] = c[n + k]
          /\ \A k \in 1 .. Len(password) : body[n + LengthBytes + k] = c[n + LengthBytes + k]
      BY <1>4, <1>7, <1>8, Zenon
    <3>3. CASE i \in 1 .. LengthBytes
      BY <3>2, <3>3
    <3>4. CASE i - LengthBytes \in 1 .. Len(id)
      <4>1. i = LengthBytes + (i - LengthBytes)
        BY <1>5
      <4> QED
        BY <3>2, <3>4, <4>1, Zenon
    <3>5. CASE i - n \in 1 .. LengthBytes
      <4>1. i = n + (i - n)
        BY <1>5
      <4> QED
        BY <3>2, <3>5, <4>1, Zenon
    <3>6. CASE i - (n + LengthBytes) \in 1 .. Len(password)
      <4>1. i = n + LengthBytes + (i - (n + LengthBytes))
        BY <1>5
      <4> QED
        BY <3>2, <3>6, <4>1, Zenon
    <3> QED
      BY <1>5, <3>1, <3>3, <3>4, <3>5, <3>6
  <2> QED
    BY <1>4, <1>6, <1>8, <2>1
<1> QED
  BY <1>3, <1>4, <1>6, <1>7, <1>8

\* A body is the request of one id and one password only.
LEMMA FieldsAreUnique ==
    ASSUME NEW body \in Bodies, NEW offset \in Nat, NEW d \in Seq(Bytes), NEW e \in Seq(Bytes),
           FieldAt(body, offset, d), FieldAt(body, offset, e)
    PROVE  d = e
  BY FieldIsRead

-----------------------------------------------------------------------------
(* The invariant                                                            *)

\* What a field may be.
ByteStrings == Seq(Bytes)

AfterFirst == LengthBytes + Len(fields[1])
AfterBoth == AfterFirst + LengthBytes + Len(fields[2])

\* The reader stands behind the fields it has read.
Standing ==
    \/ Len(fields) = 0 /\ m_offset = 0
    \/ Len(fields) = 1 /\ m_offset = AfterFirst
    \/ Len(fields) = 2 /\ m_offset = AfterBoth

\* Why a body was refused: a field is missing where the next one would stand, or
\* bytes are left behind the password.
NoField ==
    \/ Len(fields) = 0 /\ ~ CanReadLenPrefixed(payload, 0)
    \/ Len(fields) = 1 /\ ~ CanReadLenPrefixed(payload, AfterFirst)
    \/ Len(fields) = 2 /\ Len(payload) # AfterBoth

CodecTypeOK ==
    /\ payload \in Bodies
    /\ m_offset \in Nat /\ m_offset <= Len(payload)
    /\ fields \in Seq(ByteStrings) /\ Len(fields) <= 2
    /\ outcome \in {"reading", "decoded", "refused"}

FieldsInv ==
    /\ Len(fields) >= 1 => FieldAt(payload, 0, fields[1])
    /\ Len(fields) >= 2 => FieldAt(payload, AfterFirst, fields[2])

OutcomeInv ==
    /\ outcome = "reading" => Standing
    /\ outcome = "decoded" => Len(fields) = 2 /\ Len(payload) = AfterBoth
    /\ outcome = "refused" => NoField

CodecInv == CodecTypeOK /\ FieldsInv /\ OutcomeInv

-----------------------------------------------------------------------------
(* It is inductive                                                          *)

LEMMA CodecTypes ==
    ASSUME CodecTypeOK
    PROVE  /\ payload \in Seq(Bytes) /\ Len(payload) \in Nat /\ Len(payload) <= SizeMax
           /\ SizeMax \in Nat /\ LengthBytes \in Nat
           /\ Len(fields) \in {0, 1, 2}
           /\ Len(fields) \in {1, 2} => fields[1] \in Seq(Bytes) /\ Len(fields[1]) \in Nat
           /\ Len(fields) = 2 => fields[2] \in Seq(Bytes) /\ Len(fields[2]) \in Nat
<1>1. /\ payload \in Seq(Bytes) /\ Len(payload) \in Nat /\ Len(payload) <= SizeMax
      /\ SizeMax \in Nat /\ LengthBytes \in Nat
  BY CodecAssumption DEF CodecTypeOK, Bodies
<1>2. fields \in Seq(ByteStrings) /\ Len(fields) <= 2
  BY DEF CodecTypeOK
<1>3. Len(fields) \in {0, 1, 2}
  <2>1. Len(fields) \in Nat
    BY <1>2
  <2>2. \A n \in Nat : n <= 2 => n \in {0, 1, 2}
    OBVIOUS
  <2> QED
    BY <1>2, <2>1, <2>2, Zenon
<1>4. /\ Len(fields) \in {1, 2} => fields[1] \in ByteStrings
      /\ Len(fields) = 2 => fields[2] \in ByteStrings
  BY <1>2
<1>5. \A d \in ByteStrings : d \in Seq(Bytes) /\ Len(d) \in Nat
  BY DEF ByteStrings
<1> QED
  BY <1>1, <1>3, <1>4, <1>5

LEMMA InitCodecInv == Init => CodecInv
<1> SUFFICES ASSUME Init PROVE CodecInv
  OBVIOUS
<1>1. PICK n \in 0 .. MaxPayload : payload \in [1 .. n -> Bytes]
  BY DEF Init, Payloads
<1>2. payload \in Bodies
  <2>1. n \in Nat /\ n <= SizeMax
    BY CodecAssumption, PayloadAssumption
  <2>2. payload \in Seq(Bytes) /\ Len(payload) = n
    BY <1>1, <2>1
  <2> QED
    BY <2>1, <2>2 DEF Bodies
<1>3. Len(payload) \in Nat /\ fields = <<>> /\ m_offset = 0 /\ outcome = "reading"
  BY <1>2 DEF Bodies, Init
<1>4. CodecTypeOK
  BY <1>2, <1>3 DEF CodecTypeOK
<1>5. FieldsInv /\ OutcomeInv
  BY <1>3 DEF FieldsInv, OutcomeInv, Standing
<1> QED
  BY <1>4, <1>5 DEF CodecInv

LEMMA ReadFieldCodecInv == CodecInv /\ ReadField => CodecInv'
<1> SUFFICES ASSUME CodecInv, ReadField PROVE CodecInv'
  OBVIOUS
<1> DEFINE read == LenPrefixedAt(payload, m_offset)
<1>1. /\ payload \in Bodies /\ m_offset \in Nat
      /\ fields \in Seq(ByteStrings) /\ Len(fields) \in {0, 1}
      /\ outcome = "reading" /\ Standing /\ FieldsInv
  BY DEF CodecInv, CodecTypeOK, OutcomeInv, ReadField
<1>2. CanReadLenPrefixed(payload, m_offset)
  BY DEF ReadField
<1>3. /\ read.data \in Seq(Bytes) /\ FieldAt(payload, m_offset, read.data)
      /\ read.offset = m_offset + LengthBytes + Len(read.data)
  BY <1>1, <1>2, ReadsField
<1>4. /\ fields' = Append(fields, read.data) /\ m_offset' = read.offset
      /\ payload' = payload /\ outcome' = outcome
  BY DEF ReadField
<1> HIDE DEF read
<1>5. /\ fields' \in Seq(ByteStrings) /\ Len(fields') = Len(fields) + 1
      /\ fields'[Len(fields) + 1] = read.data
      /\ Len(fields) = 1 => fields'[1] = fields[1]
  <2> DEFINE d == read.data
  <2>1. d \in ByteStrings
    BY <1>3 DEF ByteStrings
  <2> HIDE DEF d
  <2>2. /\ Append(fields, d) \in Seq(ByteStrings) /\ Len(Append(fields, d)) = Len(fields) + 1
        /\ Append(fields, d)[Len(fields) + 1] = d
        /\ Len(fields) = 1 => Append(fields, d)[1] = fields[1]
    BY <1>1, <2>1
  <2> QED
    BY <1>4, <2>2 DEF d
<1>6. LengthBytes \in Nat /\ Len(read.data) \in Nat /\ m_offset' <= Len(payload)
  BY <1>3, <1>4, CodecAssumption DEF FieldAt
<1>7. CodecTypeOK'
  <2> DEFINE length == Len(read.data)
  <2>1. m_offset' = m_offset + LengthBytes + length
    BY <1>3, <1>4, Zenon
  <2>2. length \in Nat
    BY <1>6
  <2> HIDE DEF length
  <2>3. m_offset' \in Nat
    BY <1>1, <1>6, <2>1, <2>2
  <2> QED
    BY <1>1, <1>4, <1>5, <1>6, <2>3 DEF CodecTypeOK
<1>8. CASE Len(fields) = 0
  <2>1. m_offset = 0 /\ Len(fields') = 1 /\ fields'[1] = read.data
    BY <1>1, <1>5, <1>8 DEF Standing
  <2>2. FieldsInv'
    BY <1>3, <1>4, <2>1 DEF FieldsInv
  <2>3. Standing'
    BY <1>3, <1>4, <1>6, <2>1 DEF Standing, AfterFirst
  <2> QED
    BY <1>1, <1>4, <1>7, <2>2, <2>3 DEF CodecInv, OutcomeInv
<1>9. CASE Len(fields) = 1
  <2>1. /\ m_offset = AfterFirst /\ AfterFirst' = AfterFirst
        /\ Len(fields') = 2 /\ fields'[2] = read.data /\ fields'[1] = fields[1]
    BY <1>1, <1>5, <1>9 DEF Standing, AfterFirst
  <2>2. FieldsInv'
    BY <1>1, <1>3, <1>4, <1>9, <2>1 DEF FieldsInv
  <2>3. Standing'
    BY <1>3, <1>4, <2>1 DEF Standing, AfterBoth
  <2> QED
    BY <1>1, <1>4, <1>7, <2>2, <2>3 DEF CodecInv, OutcomeInv
<1> QED
  BY <1>1, <1>8, <1>9

LEMMA FieldMissingCodecInv == CodecInv /\ FieldMissing => CodecInv'
<1> SUFFICES ASSUME CodecInv, FieldMissing PROVE CodecInv'
  OBVIOUS
<1>1. /\ payload \in Bodies /\ m_offset \in Nat /\ m_offset <= Len(payload)
      /\ Len(fields) \in {0, 1} /\ Standing /\ CodecTypeOK /\ FieldsInv
      /\ ~ CanReadLenPrefixed(payload, m_offset)
      /\ outcome' = "refused" /\ payload' = payload /\ fields' = fields
  <2>1. CodecTypeOK /\ FieldsInv /\ OutcomeInv /\ outcome = "reading" /\ Len(fields) < 2
    BY DEF CodecInv, FieldMissing
  <2>2. Len(fields) \in {0, 1}
    BY <2>1, CodecTypes
  <2> QED
    BY <2>1, <2>2 DEF CodecTypeOK, OutcomeInv, FieldMissing
<1>2. m_offset' \in Nat /\ m_offset' <= Len(payload)
  <2>1. CASE CanRead(payload, m_offset, LengthBytes)
    <3>1. /\ m_offset + LengthBytes <= Len(payload)
          /\ LengthBytes \in Nat /\ Len(payload) \in Nat /\ Len(payload) <= SizeMax /\ SizeMax \in Nat
      <4>1. LengthBytes \in Nat /\ Len(payload) \in Nat /\ Len(payload) <= SizeMax /\ SizeMax \in Nat
        BY <1>1, CodecTypes
      <4> QED
        BY <1>1, <2>1, <4>1, CanReadFits
    <3>2. m_offset + LengthBytes \in 0 .. SizeMax
      BY <1>1, <3>1
    <3>3. m_offset' = m_offset + LengthBytes
      BY <2>1, <3>2, SmallIsNotWrapped DEF FieldMissing
    <3> QED
      BY <1>1, <3>1, <3>3
  <2>2. CASE ~ CanRead(payload, m_offset, LengthBytes)
    BY <1>1, <2>2 DEF FieldMissing
  <2> QED
    BY <2>1, <2>2
<1>3. CodecTypeOK' /\ FieldsInv'
  BY <1>1, <1>2 DEF CodecTypeOK, FieldsInv, AfterFirst
<1>4. NoField'
  BY <1>1 DEF NoField, Standing, AfterFirst
<1> QED
  BY <1>1, <1>3, <1>4 DEF CodecInv, OutcomeInv

LEMMA NextCodecInv == CodecInv /\ [Next]_vars => CodecInv'
<1> SUFFICES ASSUME CodecInv, [Next]_vars PROVE CodecInv'
  OBVIOUS
<1>1. CASE ReadField
  BY <1>1, ReadFieldCodecInv
<1>2. CASE FieldMissing
  BY <1>2, FieldMissingCodecInv
<1>3. CASE Finish
  <2>1. /\ CodecTypeOK /\ FieldsInv /\ Standing /\ Len(fields) = 2
        /\ outcome' = IF m_offset = Len(payload) THEN "decoded" ELSE "refused"
        /\ UNCHANGED <<payload, m_offset, fields>>
    BY <1>3 DEF CodecInv, OutcomeInv, Finish
  <2>2. m_offset = AfterBoth
    BY <2>1 DEF Standing
  <2>3. CodecTypeOK' /\ FieldsInv'
    BY <2>1 DEF CodecTypeOK, FieldsInv, AfterFirst
  <2>4. AfterBoth' = AfterBoth
    BY <2>1 DEF AfterBoth, AfterFirst
  <2>5. CASE m_offset = Len(payload)
    BY <2>1, <2>2, <2>3, <2>4, <2>5 DEF CodecInv, OutcomeInv
  <2>6. CASE m_offset # Len(payload)
    BY <2>1, <2>2, <2>3, <2>4, <2>6 DEF CodecInv, OutcomeInv, NoField
  <2> QED
    BY <2>5, <2>6
<1>4. CASE \E r \in LoginResults : EncodeResponse(r)
  BY <1>4 DEF EncodeResponse, CodecInv, CodecTypeOK, FieldsInv, OutcomeInv, NoField, Standing, AfterFirst, AfterBoth
<1>5. CASE UNCHANGED vars
  BY <1>5 DEF vars, CodecInv, CodecTypeOK, FieldsInv, OutcomeInv, NoField, Standing, AfterFirst, AfterBoth
<1> QED
  BY <1>1, <1>2, <1>3, <1>4, <1>5 DEF Next

LEMMA CodecInvHolds == Spec => []CodecInv
  BY InitCodecInv, NextCodecInv, PTL DEF Spec

-----------------------------------------------------------------------------
(* Results                                                                  *)

\* For every body, the reader stands inside it and behind the fields it has read
\* (Reader in ByteCodec.hpp, as DecodeRequest uses it).
THEOREM ReaderStaysInBody == Spec => []ReadsWithinBody
<1>1. CodecInv => ReadsWithinBody
  <2> SUFFICES ASSUME CodecInv PROVE ReadsWithinBody
    OBVIOUS
  <2>1. m_offset <= Len(payload) /\ (outcome = "reading" => Standing)
    BY DEF CodecInv, CodecTypeOK, OutcomeInv
  <2>2. /\ LengthBytes \in Nat /\ Len(fields) \in {0, 1, 2}
        /\ Len(fields) \in {1, 2} => Len(fields[1]) \in Nat
        /\ Len(fields) = 2 => Len(fields[2]) \in Nat
    BY CodecTypes DEF CodecInv
  <2>3. CASE Len(fields) = 0
    BY <2>1, <2>2, <2>3 DEF ReadsWithinBody, Standing
  <2>4. CASE Len(fields) = 1
    BY <2>1, <2>2, <2>4 DEF ReadsWithinBody, Standing, AfterFirst
  <2>5. CASE Len(fields) = 2
    BY <2>1, <2>2, <2>5 DEF ReadsWithinBody, Standing, AfterFirst, AfterBoth
  <2> QED
    BY <2>2, <2>3, <2>4, <2>5
<1> QED
  BY <1>1, CodecInvHolds, PTL

\* A refused body is the request of no id and password whatsoever.
LEMMA RefusesNoRequest ==
    ASSUME CodecInv, outcome = "refused", NEW id \in Seq(Bytes), NEW password \in Seq(Bytes),
           CanWriteLenPrefixed(id), CanWriteLenPrefixed(password)
    PROVE  payload # Request(id, password)
<1> SUFFICES ASSUME payload = Request(id, password) PROVE FALSE
  OBVIOUS
<1>1. payload \in Bodies /\ FieldsInv /\ NoField /\ CodecTypeOK
  BY DEF CodecInv, CodecTypeOK, OutcomeInv
<1>2. /\ payload \in Seq(Bytes) /\ LengthBytes \in Nat /\ Len(fields) \in {0, 1, 2}
      /\ Len(fields) \in {1, 2} => fields[1] \in Seq(Bytes)
      /\ Len(fields) = 2 => fields[2] \in Seq(Bytes)
  BY <1>1, CodecTypes
<1>3. /\ FieldAt(payload, 0, id) /\ FieldAt(payload, LengthBytes + Len(id), password)
      /\ Len(payload) = LengthBytes + Len(id) + LengthBytes + Len(password)
      /\ LengthBytes + Len(id) \in Nat /\ 0 \in Nat
  <2>1. IsRequest(payload, id, password)
    BY <1>2, RequestIsTwoFields
  <2>2. LengthBytes + Len(id) \in Nat
    BY <1>2
  <2> QED
    BY <2>1, <2>2 DEF IsRequest
<1>4. /\ CanReadLenPrefixed(payload, 0)
      /\ CanReadLenPrefixed(payload, LengthBytes + Len(id))
  BY <1>1, <1>3, FieldIsRead, Zenon
<1>5. CASE Len(fields) = 0
  BY <1>1, <1>4, <1>5 DEF NoField
<1>6. ASSUME Len(fields) \in {1, 2} PROVE fields[1] = id /\ AfterFirst = LengthBytes + Len(id)
  <2>1. fields[1] \in Seq(Bytes) /\ FieldAt(payload, 0, fields[1])
    BY <1>1, <1>2, <1>6 DEF FieldsInv
  <2>2. fields[1] = id
    BY <1>1, <1>3, <2>1, FieldsAreUnique, Zenon
  <2> QED
    BY <2>2 DEF AfterFirst
<1>7. CASE Len(fields) = 1
  BY <1>1, <1>4, <1>6, <1>7 DEF NoField
<1>8. CASE Len(fields) = 2
  <2>1. fields[2] \in Seq(Bytes) /\ FieldAt(payload, AfterFirst, fields[2]) /\ Len(payload) # AfterBoth
    BY <1>1, <1>2, <1>8 DEF FieldsInv, NoField
  <2>2. AfterFirst = LengthBytes + Len(id)
    BY <1>6, <1>8
  <2>3. fields[2] = password
    BY <1>1, <1>3, <2>1, <2>2, FieldsAreUnique, Zenon
  <2> QED
    BY <1>3, <2>1, <2>2, <2>3, Zenon DEF AfterBoth
<1> QED
  BY <1>2, <1>5, <1>7, <1>8

\* DecodeRequest inverts the encoding of a request and accepts nothing else, for
\* bodies of any length.
THEOREM DecoderInvertsEncoder == Spec => []DecodesExactlyRequests
<1>1. ASSUME CodecInv, outcome = "decoded" PROVE payload = Request(fields[1], fields[2])
  <2>1. CodecTypeOK /\ FieldsInv /\ Len(fields) = 2 /\ Len(payload) = AfterBoth
    BY <1>1 DEF CodecInv, OutcomeInv
  <2>2. payload \in Seq(Bytes) /\ fields[1] \in Seq(Bytes) /\ fields[2] \in Seq(Bytes)
    BY <2>1, CodecTypes
  <2>3. FieldAt(payload, 0, fields[1]) /\ FieldAt(payload, AfterFirst, fields[2])
    BY <2>1 DEF FieldsInv
  <2>4. IsRequest(payload, fields[1], fields[2])
    BY <2>1, <2>3, Zenon DEF IsRequest, AfterFirst, AfterBoth
  <2>5. CanWriteLenPrefixed(fields[1]) /\ CanWriteLenPrefixed(fields[2])
    BY <2>3 DEF FieldAt
  <2> QED
    BY <2>2, <2>4, <2>5, RequestIsTwoFields, Zenon
<1>2. ASSUME CodecInv, outcome = "refused",
             NEW id \in Parts(payload)
      PROVE  id \in Seq(Bytes)
  <2>1. payload \in Seq(Bytes)
    BY <1>2, CodecTypes DEF CodecInv
  <2>2. \A i \in 1 .. Len(payload) + 1, j \in 0 .. Len(payload) : SubSeq(payload, i, j) \in Seq(Bytes)
    BY <2>1
  <2>3. PICK i \in 1 .. Len(payload) + 1, j \in 0 .. Len(payload) : id = SubSeq(payload, i, j)
    BY <1>2 DEF Parts
  <2> QED
    BY <2>2, <2>3
<1>3. CodecInv => DecodesExactlyRequests
  <2> SUFFICES ASSUME CodecInv PROVE DecodesExactlyRequests
    OBVIOUS
  <2>1. ASSUME outcome = "refused", NEW id \in Parts(payload), NEW password \in Parts(payload),
               CanWriteLenPrefixed(id), CanWriteLenPrefixed(password)
        PROVE  payload # Request(id, password)
    <3>1. id \in Seq(Bytes) /\ password \in Seq(Bytes)
      BY <1>2, <2>1
    <3> QED
      BY <2>1, <3>1, RefusesNoRequest
  <2> QED
    BY <1>1, <2>1, Zenon DEF DecodesExactlyRequests
<1> QED
  BY <1>3, CodecInvHolds, PTL
=============================================================================
