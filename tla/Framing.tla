------------------------------ MODULE Framing ------------------------------
(***************************************************************************)
(* One TLS connection between the client library and the tracker, seen as  *)
(* a stream of bytes.  A message is a header of four bytes, which declares *)
(* a length, and a body.  The writer hands the whole message to one        *)
(* async_write, TLS cuts it into records of RecordMax bytes, and an        *)
(* async_read_some returns what is left of one record, at most BufferSize  *)
(* bytes.  Only the numbers of bytes are kept, not the bytes.              *)
(*                                                                         *)
(* The two parsers differ.  The client's (NodeResponseParser) keeps what   *)
(* it has seen; the tracker's (RequestParser) keeps the declared length    *)
(* and forgets the bytes of every chunk it finds too short.                *)
(***************************************************************************)
EXTENDS Integers, FiniteSetsExt

CONSTANTS
    BufferSize,   \* buffer_ and recv_buf, 8192 bytes
    RecordMax,    \* the longest TLS record, 16384 bytes
    Requests,     \* what a client may send, see FramingAssumption
    ReplySizes    \* the sizes of the tracker's answers

HeaderSize == 4

ASSUME FramingAssumption ==
    /\ BufferSize \in Nat /\ BufferSize > HeaderSize
    /\ RecordMax \in Nat /\ RecordMax >= BufferSize
    /\ Requests \subseteq [len : Nat, body : Nat, wellFormed : BOOLEAN]
    /\ ReplySizes \subseteq Nat

VARIABLES
    request,      \* the message the client sends, wellFormed if protobuf reads it
    sent,         \* bytes of it that have arrived at the tracker
    taken,        \* bytes of it the tracker has read
    chunk,        \* bytes_transferred of the tracker's latest handle_read
    len,          \* RequestParser::len
    tracker,      \* what the tracker's Connection waits for
    handled,      \* what became of the request
    reply,        \* the size of the answer
    written,      \* bytes of the answer that have arrived at the client
    got,          \* bytes of the answer the client has read
    sb,           \* bytes NodeResponseParser::sb holds
    message_size, \* NodeResponseParser::message_size
    result,       \* how the client's readMessage ended
    up            \* the connection is there

trackerVars == <<taken, chunk, len, tracker, handled, reply>>
clientVars == <<got, sb, message_size, result>>
vars == <<request, sent, trackerVars, written, clientVars, up>>

NoLength == -1

TypeOK ==
    /\ request \in Requests
    /\ sent \in 0 .. HeaderSize + request.body
    /\ taken \in 0 .. sent
    /\ chunk \in 0 .. BufferSize
    /\ len \in {NoLength, request.len}
    /\ tracker \in {"handshake", "reading", "writing", "closed"}
    /\ handled \in {"no", "request", "bad"}
    /\ reply \in {0} \cup ReplySizes
    /\ written \in 0 .. HeaderSize + reply
    /\ got \in 0 .. written
    /\ sb \in 0 .. got
    /\ message_size \in {NoLength, reply}
    /\ result \in {"none", "GOOD", "BAD", "error"}
    /\ up \in BOOLEAN

Init ==
    /\ request \in Requests
    /\ sent = 0 /\ taken = 0 /\ chunk = 0
    /\ len = NoLength
    /\ tracker = "handshake" /\ handled = "no"
    /\ reply = 0 /\ written = 0
    /\ got = 0 /\ sb = 0 /\ message_size = NoLength
    /\ result = "none"
    /\ up = TRUE

Wire(size) == HeaderSize + size

(* The end of the record that begins at or before the byte at offset.      *)
RecordEnd(offset, total) == Min({total, (offset \div RecordMax + 1) * RecordMax})

(* Mutant: a read that does not stop at the end of the buffer.             *)
ReadSomeUnbounded(offset, total) == RecordEnd(offset, total) - offset

(* What one async_read_some returns.                                       *)
ReadSome(offset, total) == Min({BufferSize, RecordEnd(offset, total) - offset})

-----------------------------------------------------------------------------
(* The client writes, the tracker reads.                                   *)

(* Connection::send: the next record of the request arrives.               *)
send ==
    /\ up /\ tracker # "handshake"
    /\ sent < Wire(request.body)
    /\ sent' = RecordEnd(sent, Wire(request.body))
    /\ UNCHANGED <<request, trackerVars, written, clientVars, up>>

Whole(n) == taken = 0 /\ n = Wire(request.body) /\ request.len = request.body

(***************************************************************************)
(* Request::parseFromIstream: true for a whole message that is well        *)
(* formed; on the middle of a message either is possible.                  *)
(***************************************************************************)
parseFromIstream(n) == IF Whole(n) THEN {request.wellFormed} ELSE BOOLEAN

(* RequestParser::parse reads the length from the first four bytes it sees. *)
(* A declared length of 2^32-1 would read as NoLength; Requests has none.   *)
HeaderRead(n) == len = NoLength /\ n >= HeaderSize

LenAfter(n) == IF HeaderRead(n) THEN request.len ELSE len

Size(n) == IF HeaderRead(n) THEN n - HeaderSize ELSE n

(* Mutant: a chunk that is too short is a corrupted request.               *)
ParseRefusesShort(n) ==
    IF LenAfter(n) = NoLength THEN {"indeterminate"}
    ELSE IF Size(n) = LenAfter(n)
         THEN {IF b THEN "true" ELSE "false" : b \in parseFromIstream(n)}
         ELSE {"false"}

(* Mutant: the header is counted with the body.                            *)
ParseWithHeader(n) ==
    IF LenAfter(n) = NoLength \/ Size(n) < HeaderSize + LenAfter(n) THEN {"indeterminate"}
    ELSE {IF b THEN "true" ELSE "false" : b \in parseFromIstream(n)}

(* The values RequestParser::parse may return for a chunk of n bytes.      *)
parse(n) ==
    IF LenAfter(n) = NoLength \/ Size(n) < LenAfter(n) THEN {"indeterminate"}
    ELSE IF Size(n) = LenAfter(n)
         THEN {IF b THEN "true" ELSE "false" : b \in parseFromIstream(n)}
         ELSE {"false"}

(***************************************************************************)
(* Connection::handle_read without an error: answer, refuse, or read on.   *)
(***************************************************************************)
handle_read(n) ==
    /\ taken' = taken + n
    /\ chunk' = n
    /\ len' = LenAfter(n)
    /\ \E res \in parse(n) :
          \/ /\ res = "true"
             /\ handled' = "request" /\ tracker' = "writing"
             /\ reply' \in ReplySizes
          \/ /\ res = "false"
             /\ handled' = "bad" /\ tracker' = "writing"
             /\ reply' \in ReplySizes
          \/ /\ res = "indeterminate"
             /\ tracker' = "reading"
             /\ UNCHANGED <<handled, reply>>

(* Connection::start: the handshake completes into handle_read with 0.     *)
start ==
    /\ up /\ tracker = "handshake"
    /\ handle_read(0)
    /\ UNCHANGED <<request, sent, written, clientVars, up>>

read ==
    /\ up /\ tracker = "reading" /\ taken < sent
    /\ handle_read(ReadSome(taken, sent))
    /\ UNCHANGED <<request, sent, written, clientVars, up>>

(* handle_read or handle_write with an error: the Connection is released.  *)
release ==
    /\ ~up /\ tracker # "closed"
    /\ tracker' = "closed"
    /\ UNCHANGED <<request, sent, taken, chunk, len, handled, reply, written, clientVars, up>>

-----------------------------------------------------------------------------
(* The tracker writes, the client reads.                                   *)

(* The next record of the answer arrives (Response::parseIntoOstream).     *)
async_write ==
    /\ up /\ tracker = "writing"
    /\ written < Wire(reply)
    /\ written' = RecordEnd(written, Wire(reply))
    /\ UNCHANGED <<request, sent, trackerVars, clientVars, up>>

(* The answer is written: shutdown of both directions.                     *)
handle_write ==
    /\ up /\ tracker = "writing"
    /\ written = Wire(reply)
    /\ tracker' = "closed"
    /\ UNCHANGED <<request, sent, taken, chunk, len, handled, reply, written, clientVars, up>>

(* Mutant: the bytes of the header count as bytes of the message.          *)
EnoughWithHeader(size, bytes) == size # NoLength /\ size <= bytes + HeaderSize

Enough(size, bytes) == size # NoLength /\ size <= bytes

(***************************************************************************)
(* The client's readMessage with NodeResponseParser::parse: the header is  *)
(* taken out of sb as soon as it is there, and a message that is complete  *)
(* is taken out as a whole.  The tracker writes with                       *)
(* SerializePartialToOstream, which checks nothing, but its factory sets   *)
(* every required field: an answer is taken to be well formed.  Sizes of   *)
(* 2^31 and above, where the int message_size is negative and 2^32 - 1     *)
(* reads as NoLength, are out of the model.                                *)
(***************************************************************************)
readMessage ==
    /\ up /\ result = "none" /\ got < written
    /\ LET n == ReadSome(got, written)
           header == message_size = NoLength /\ sb + n >= HeaderSize
           size == IF header THEN reply ELSE message_size
           bytes == IF header THEN sb + n - HeaderSize ELSE sb + n
       IN  /\ got' = got + n
           /\ IF Enough(size, bytes)
              THEN /\ result' = IF bytes = reply THEN "GOOD" ELSE "BAD"
                   /\ sb' = 0
                   /\ message_size' = NoLength
              ELSE /\ sb' = bytes
                   /\ message_size' = size
                   /\ UNCHANGED result
    /\ UNCHANGED <<request, sent, trackerVars, written, up>>

(* readMessage with an error: the connection is gone or shut down.         *)
readError ==
    /\ result = "none"
    /\ ~up \/ (tracker = "closed" /\ got = written)
    /\ result' = "error"
    /\ UNCHANGED <<request, sent, trackerVars, written, got, sb, message_size, up>>

(* The network, the client's deadline or the end of a process.             *)
connectionLost ==
    /\ up
    /\ up' = FALSE
    /\ UNCHANGED <<request, sent, trackerVars, written, clientVars>>

Exchange == send \/ start \/ read \/ release \/ async_write \/ handle_write
            \/ readMessage \/ readError

Next == Exchange \/ connectionLost

Spec == Init /\ [][Next]_vars

(* Both sides keep running and TCP delivers; a connection may be lost.     *)
FairSpec == Spec /\ WF_vars(Exchange)

-----------------------------------------------------------------------------

Framed == request.len = request.body

(***************************************************************************)
(* However a request is cut into records and chunks, the tracker executes  *)
(* it only when the chunk in its buffer is the whole request, and refuses  *)
(* it only when protobuf cannot read it: the length that RequestParser     *)
(* keeps is never matched by, nor smaller than, a later part of the body.  *)
(***************************************************************************)
ExecutedWhole ==
    Framed /\ handled # "no" =>
        /\ chunk = Wire(request.body)
        /\ handled = (IF request.wellFormed THEN "request" ELSE "bad")

(***************************************************************************)
(* The client takes an answer for complete exactly when its last byte has  *)
(* been read, in however many chunks it came, and never for a bad one.     *)
(***************************************************************************)
AnswerWhole ==
    /\ result # "BAD"
    /\ result = "GOOD" => got = Wire(reply) /\ handled # "no"
    /\ result = "none" => got < Wire(reply)

(***************************************************************************)
(* A request that fits the tracker's buffer is answered, and an answer of  *)
(* any size arrives, unless the connection is lost.                        *)
(***************************************************************************)
ShortRequestAnswered ==
    Framed /\ Wire(request.body) <= BufferSize ~> result # "none" \/ ~up

=============================================================================
