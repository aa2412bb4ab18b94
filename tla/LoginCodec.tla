------------------------------- MODULE LoginCodec -------------------------------
(***************************************************************************)
(* The login messages (Adapters/Inbound/Tcp/Protocol/Login): DecodeRequest, *)
(* which reads the id and the password from a body a peer sent, and         *)
(* EncodeResponse, which writes the result.  Each read of the decoder is    *)
(* one action, for every body of at most MaxPayload bytes.                  *)
(***************************************************************************)
EXTENDS ByteCodec

CONSTANT MaxPayload

ASSUME PayloadAssumption == MaxPayload \in Nat /\ MaxPayload <= SizeMax

VARIABLES
    payload,         \* the body, as it came
    m_offset,        \* bytes the reader has consumed
    fields,          \* the id and then the password, once they are read
    outcome,         \* "reading", then "decoded" or "refused"
    result,          \* what the use case answered
    response         \* the body sent back

vars == <<payload, m_offset, fields, outcome, result, response>>

Payloads == UNION {[1..n -> Bytes] : n \in 0..MaxPayload}

LoginResults == {"Success", "InvalidCredentials", "AccountLocked"}

\* The values of the enumeration (LoginResult.hpp).
ResultCode(r) == CASE r = "Success" -> 0 [] r = "InvalidCredentials" -> 1 [] r = "AccountLocked" -> 2

Init ==
    /\ payload \in Payloads
    /\ m_offset = 0 /\ fields = <<>> /\ outcome = "reading"
    /\ result = "none" /\ response = <<>>

ReadField ==
    /\ outcome = "reading" /\ Len(fields) < 2
    /\ CanReadLenPrefixed(payload, m_offset)
    /\ LET read == LenPrefixedAt(payload, m_offset)
       IN  fields' = Append(fields, read.data) /\ m_offset' = read.offset
    /\ UNCHANGED <<payload, outcome, result, response>>

\* The length may have been read before the data is found to be missing.
FieldMissing ==
    /\ outcome = "reading" /\ Len(fields) < 2
    /\ ~ CanReadLenPrefixed(payload, m_offset)
    /\ m_offset' = IF CanRead(payload, m_offset, LengthBytes)
                   THEN Wrap(m_offset + LengthBytes) ELSE m_offset
    /\ outcome' = "refused"
    /\ UNCHANGED <<payload, fields, result, response>>

IgnoreRest ==                                         \* mutant: Empty is not asked
    /\ outcome = "reading" /\ Len(fields) = 2
    /\ outcome' = "decoded"
    /\ UNCHANGED <<payload, m_offset, fields, result, response>>

\* Empty: nothing may follow the password.
Finish ==
    /\ outcome = "reading" /\ Len(fields) = 2
    /\ outcome' = IF m_offset = Len(payload) THEN "decoded" ELSE "refused"
    /\ UNCHANGED <<payload, m_offset, fields, result, response>>

EncodeResponse(r) ==
    /\ outcome = "decoded" /\ result = "none"
    /\ result' = r
    /\ response' = WriteUnsigned(ResultCode(r), LengthBytes)
    /\ UNCHANGED <<payload, m_offset, fields, outcome>>

Next == ReadField \/ FieldMissing \/ Finish \/ \E r \in LoginResults : EncodeResponse(r)

Spec == Init /\ [][Next]_vars
-----------------------------------------------------------------------------
\* The bytes of a request, as a client writes them.
Request(id, password) == WriteLenPrefixed(id) \o WriteLenPrefixed(password)

\* The data that stands somewhere in a body.
Parts(body) == {SubSeq(body, i, j) : i \in 1..Len(body) + 1, j \in 0..Len(body)}

\* The reader never stands, nor has read, beyond the end of the body, whatever
\* length the peer wrote: the fields lie one after the other before m_offset.
ReadsWithinBody ==
    /\ m_offset <= Len(payload)
    /\ outcome = "reading" =>
           m_offset = Len(fields) * LengthBytes
                        + (IF Len(fields) > 0 THEN Len(fields[1]) ELSE 0)
                        + (IF Len(fields) > 1 THEN Len(fields[2]) ELSE 0)

\* The decoder accepts exactly the encodings of a request: what it decodes is what
\* was encoded, so no request is read in two ways, and it refuses a body only if
\* that is the encoding of no id and password, the empty ones included.
DecodesExactlyRequests ==
    /\ outcome = "decoded" => payload = Request(fields[1], fields[2])
    /\ outcome = "refused" =>
         \A id, password \in Parts(payload) :
             CanWriteLenPrefixed(id) /\ CanWriteLenPrefixed(password) => payload # Request(id, password)

\* "| Len (uint) | Login Result (uint) |" and "Success = 1" (api_specification.md:150
\* and :159): the body of an accepted login, and of no other, is that length and 1.
ResponseAsDocumented ==
    result # "none" =>
        (result = "Success" <=> response = WriteLenPrefixed(WriteUnsigned(1, LengthBytes)))
=============================================================================
