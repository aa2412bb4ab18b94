------------------------------- MODULE ByteCodec -------------------------------
(***************************************************************************)
(* ByteCodec (Adapters/Inbound/Tcp/Protocol/Common/ByteCodec.hpp): unsigned *)
(* integers in network byte order and data with its length in front.  The   *)
(* size of a byte and of the length are parameters, small ones for TLC;     *)
(* the arithmetic on offsets is that of size_t and wraps at SizeMax.        *)
(***************************************************************************)
EXTENDS Integers, Sequences

CONSTANTS
    Base,            \* values of a byte (256)
    LengthBytes,     \* sizeof(DataLengthType) (4)
    SizeMax          \* largest value of size_t

ASSUME CodecAssumption ==
    /\ Base \in Nat \ {0, 1} /\ LengthBytes \in Nat \ {0} /\ SizeMax \in Nat
    /\ LengthBytes <= SizeMax

Bytes == 0 .. Base - 1

\* size_t arithmetic.
Wrap(n) == n % (SizeMax + 1)

(***************************************************************************)
(* Writer.                                                                 *)
(***************************************************************************)
\* The value shifted to the right by 0, 1, ..., n bytes.
ShiftRight(value, n) ==
    LET shifted[k \in 0..n] == IF k = 0 THEN value ELSE shifted[k - 1] \div Base
    IN  shifted

\* The n low bytes of a value, the most significant one first.
WriteUnsigned(value, n) == [i \in 1..n |-> ShiftRight(value, n)[n - i] % Base]

\* The length has room in its type: else WriteLenPrefixed writes nothing.
CanWriteLenPrefixed(data) == ShiftRight(Len(data), LengthBytes)[LengthBytes] = 0

WriteLenPrefixed(data) == WriteUnsigned(Len(data), LengthBytes) \o data

(***************************************************************************)
(* Reader.  m_offset bytes of the payload have been read.                  *)
(***************************************************************************)
\* Mutant: the sum is compared, and may wrap.
CanReadBySum(payload, offset, length) == Wrap(offset + length) <= Len(payload)

CanRead(payload, offset, length) ==
    offset <= Len(payload) /\ Wrap(Len(payload) - offset) >= length

\* The value of the n bytes after the offset.
ReadUnsigned(payload, offset, n) ==
    LET value[i \in 0..n] == IF i = 0 THEN 0 ELSE value[i - 1] * Base + payload[offset + i]
    IN  value[n]

CanReadLenPrefixed(payload, offset) ==
    /\ CanRead(payload, offset, LengthBytes)
    /\ CanRead(payload, Wrap(offset + LengthBytes), ReadUnsigned(payload, offset, LengthBytes))

\* What ReadLenPrefixed returns, and where it leaves the offset.
LenPrefixedAt(payload, offset) ==
    LET first == Wrap(offset + LengthBytes)
        last  == Wrap(first + ReadUnsigned(payload, offset, LengthBytes))
    IN  [data |-> SubSeq(payload, first + 1, last), offset |-> last]
=============================================================================
