--------------------------- MODULE Framing_proofs ---------------------------
(***************************************************************************)
(* The framing of requests and answers for any sizes of buffer, record and *)
(* message: a request is executed as a whole, and an answer is complete    *)
(* exactly when its last byte was read.                                    *)
(***************************************************************************)
EXTENDS Framing, TLAPS

(* The tracker has not yet seen a request: nothing was answered.           *)
Unanswered ==
    /\ tracker \in {"handshake", "reading"} => handled = "no" /\ message_size = NoLength
    /\ tracker = "handshake" => taken = 0
    /\ tracker = "writing" => handled # "no"
    /\ handled = "no" => written = 0

(***************************************************************************)
(* What the tracker's parser can rely on: data arrives in whole records or *)
(* to the end of the message, so that the first chunk holds the header;    *)
(* and a chunk it has forgotten held more than the header.                 *)
(***************************************************************************)
Chunks ==
    /\ sent = 0 \/ sent = Wire(request.body) \/ sent >= RecordMax
    /\ taken = 0 => len = NoLength
    /\ handled = "no" /\ taken > 0 => len = request.len /\ (Framed => taken > HeaderSize)

(* The client's parser: the header is kept in sb until it is complete, and *)
(* sb then holds what has come of the body.                                *)
Counted ==
    result = "none" =>
        \/ message_size = NoLength /\ sb = got /\ got < HeaderSize
        \/ message_size = reply /\ sb = got - HeaderSize /\ got >= HeaderSize

IInv == TypeOK /\ Unanswered /\ Chunks /\ Counted /\ ExecutedWhole /\ AnswerWhole

-----------------------------------------------------------------------------
(* Records and chunks.                                                     *)

(* The smaller of two numbers.                                             *)
LEMMA MinOfTwo ==
  ASSUME NEW a \in Int, NEW b \in Int
  PROVE  Min({a, b}) = IF a <= b THEN a ELSE b
  <1>1. \E x \in {a, b} : \A y \in {a, b} : x <= y
    OBVIOUS
  <1>2. /\ Min({a, b}) \in {a, b}
        /\ Min({a, b}) <= a /\ Min({a, b}) <= b
    BY <1>1 DEF Min
  <1> QED
    BY <1>2

(* A record ends after the byte at which it is looked for.                 *)
LEMMA NextRecord ==
  ASSUME NEW x \in Nat, NEW d \in Nat, d > 0
  PROVE  /\ (x \div d + 1) * d \in Nat
         /\ (x \div d + 1) * d > x
         /\ (x \div d + 1) * d >= d
  <1>1. x \div d \in Nat
    OBVIOUS
  <1>2. x = (x \div d) * d + (x % d)
    OBVIOUS
  <1>3. x % d \in Nat /\ x % d < d
    OBVIOUS
  <1> DEFINE q == x \div d
             r == x % d
  <1>4. q \in Nat /\ r \in Nat /\ r < d /\ x = q * d + r
    BY <1>1, <1>2, <1>3
  <1> HIDE DEF q, r
  <1>5. q * d \in Nat /\ (q + 1) * d = q * d + d
    BY <1>4
  <1>6. (q + 1) * d \in Nat /\ (q + 1) * d > x /\ (q + 1) * d >= d
    BY <1>4, <1>5
  <1> QED
    BY <1>6 DEF q

(* A write makes progress: the next record ends after what has arrived, at *)
(* the end of the message or after a whole record at least.                *)
LEMMA RecordProgress ==
  ASSUME NEW offset \in Nat, NEW total \in Nat, offset < total
  PROVE  /\ RecordEnd(offset, total) \in Nat
         /\ offset < RecordEnd(offset, total)
         /\ RecordEnd(offset, total) <= total
         /\ RecordEnd(offset, total) = total \/ RecordEnd(offset, total) >= RecordMax
  <1> DEFINE e == (offset \div RecordMax + 1) * RecordMax
  <1>1. RecordMax \in Nat /\ RecordMax > 0
    BY FramingAssumption DEF HeaderSize
  <1>2. e \in Nat /\ e > offset /\ e >= RecordMax
    BY <1>1, NextRecord
  <1>3. RecordEnd(offset, total) = Min({total, e})
    BY DEF RecordEnd
  <1> HIDE DEF e
  <1>4. RecordEnd(offset, total) = IF total <= e THEN total ELSE e
    BY <1>2, <1>3, MinOfTwo
  <1> QED
    BY <1>1, <1>2, <1>4

(* A read makes progress, within the buffer and within what has arrived.   *)
LEMMA ReadProgress ==
  ASSUME NEW offset \in Nat, NEW total \in Nat, offset < total
  PROVE  /\ ReadSome(offset, total) \in Nat
         /\ 0 < ReadSome(offset, total)
         /\ ReadSome(offset, total) <= BufferSize
         /\ offset + ReadSome(offset, total) <= total
  <1>1. /\ RecordEnd(offset, total) \in Nat
        /\ offset < RecordEnd(offset, total)
        /\ RecordEnd(offset, total) <= total
    BY RecordProgress
  <1>2. BufferSize \in Nat /\ BufferSize > 0
    BY FramingAssumption DEF HeaderSize
  <1>3. ReadSome(offset, total) =
          IF BufferSize <= RecordEnd(offset, total) - offset
          THEN BufferSize ELSE RecordEnd(offset, total) - offset
    BY <1>1, <1>2, MinOfTwo DEF ReadSome
  <1> QED
    BY <1>1, <1>2, <1>3

(* The first read fills the buffer or takes all there is.                  *)
LEMMA FirstRead ==
  ASSUME NEW total \in Nat, total > 0
  PROVE  ReadSome(0, total) = BufferSize \/ ReadSome(0, total) = total
  <1>1. /\ RecordEnd(0, total) \in Nat
        /\ RecordEnd(0, total) = total \/ RecordEnd(0, total) >= RecordMax
    BY RecordProgress
  <1>2. BufferSize \in Nat /\ RecordMax \in Nat /\ RecordMax >= BufferSize
    BY FramingAssumption
  <1>3. ReadSome(0, total) =
          IF BufferSize <= RecordEnd(0, total) - 0
          THEN BufferSize ELSE RecordEnd(0, total) - 0
    BY <1>1, <1>2, MinOfTwo DEF ReadSome
  <1> QED
    BY <1>1, <1>2, <1>3

-----------------------------------------------------------------------------
(* The invariant.                                                          *)

(* What the counters of a state are.                                       *)
LEMMA Numbers ==
  ASSUME TypeOK
  PROVE  /\ request.len \in Nat /\ request.body \in Nat /\ request.wellFormed \in BOOLEAN
         /\ sent \in Nat /\ sent <= HeaderSize + request.body
         /\ taken \in Nat /\ taken <= sent
         /\ reply \in Nat
         /\ written \in Nat /\ written <= HeaderSize + reply
         /\ got \in Nat /\ got <= written
         /\ sb \in Nat /\ sb <= got
         /\ len \in Int /\ message_size \in Int
  <1>1. request \in [len : Nat, body : Nat, wellFormed : BOOLEAN]
    BY FramingAssumption DEF TypeOK
  <1>2. request.len \in Nat /\ request.body \in Nat /\ request.wellFormed \in BOOLEAN
    BY <1>1
  <1>3. reply \in Nat
    BY FramingAssumption DEF TypeOK
  <1>4. sent \in Nat /\ sent <= HeaderSize + request.body
    BY <1>2 DEF TypeOK, HeaderSize
  <1>5. taken \in Nat /\ taken <= sent
    BY <1>4 DEF TypeOK
  <1>6. written \in Nat /\ written <= HeaderSize + reply
    BY <1>3 DEF TypeOK, HeaderSize
  <1>7. got \in Nat /\ got <= written
    BY <1>6 DEF TypeOK
  <1>8. sb \in Nat /\ sb <= got
    BY <1>7 DEF TypeOK
  <1>9. len \in Int /\ message_size \in Int
    BY <1>2, <1>3 DEF TypeOK, NoLength
  <1> QED
    BY <1>2, <1>3, <1>4, <1>5, <1>6, <1>7, <1>8, <1>9

(* The connection before its handshake satisfies the invariant.            *)
LEMMA InitInv ==
  Init => IInv
  <1> SUFFICES ASSUME Init PROVE IInv
    OBVIOUS
  <1>1. request \in [len : Nat, body : Nat, wellFormed : BOOLEAN]
    BY FramingAssumption DEF Init
  <1>2. request.body \in Nat
    BY <1>1
  <1>3. BufferSize \in Nat
    BY FramingAssumption
  <1>4. TypeOK
    BY <1>2, <1>3 DEF Init, TypeOK, HeaderSize
  <1>5. Unanswered /\ Chunks /\ Counted
    BY DEF Init, Unanswered, Chunks, Counted, HeaderSize
  <1>6. ExecutedWhole /\ AnswerWhole
    BY DEF Init, ExecutedWhole, AnswerWhole, Wire, HeaderSize
  <1> QED
    BY <1>4, <1>5, <1>6 DEF IInv

(* A record of the request arrives.                                        *)
LEMMA SendInv ==
  ASSUME IInv, send
  PROVE  IInv'
  <1> DEFINE e == RecordEnd(sent, Wire(request.body))
  <1>1. /\ sent' = e /\ sent < Wire(request.body) /\ tracker # "handshake"
        /\ request' = request /\ taken' = taken /\ chunk' = chunk /\ len' = len
        /\ tracker' = tracker /\ handled' = handled /\ reply' = reply
        /\ written' = written /\ got' = got /\ sb' = sb
        /\ message_size' = message_size /\ result' = result /\ up' = up
    BY DEF send, trackerVars, clientVars
  <1>2. TypeOK
    BY DEF IInv
  <1>3. Wire(request.body) \in Nat /\ sent \in Nat
    BY <1>2, Numbers DEF Wire, HeaderSize
  <1>4. /\ e \in Nat /\ sent < e /\ e <= Wire(request.body)
        /\ e = Wire(request.body) \/ e >= RecordMax
    BY <1>1, <1>3, RecordProgress
  <1> HIDE DEF e
  <1>5. sent' \in 0 .. HeaderSize + request.body /\ taken \in 0 .. sent'
    BY <1>1, <1>2, <1>4, Numbers DEF Wire, HeaderSize
  <1>6. TypeOK'
    BY <1>1, <1>2, <1>5 DEF TypeOK
  <1>7. Unanswered' /\ Counted'
    BY <1>1 DEF IInv, Unanswered, Counted
  <1>8. Chunks'
    BY <1>1, <1>4 DEF IInv, Chunks, Framed
  <1>9. ExecutedWhole' /\ AnswerWhole'
    BY <1>1 DEF IInv, ExecutedWhole, AnswerWhole, Framed
  <1> QED
    BY <1>6, <1>7, <1>8, <1>9 DEF IInv

(***************************************************************************)
(* RequestParser::parse after the handshake, and on every chunk of a       *)
(* request that has not been answered: the first chunk gives the length.   *)
(***************************************************************************)
LEMMA ParseLength ==
  ASSUME IInv, handled = "no", NEW n \in Nat, taken + n <= sent,
         taken = 0 /\ n > 0 => n = BufferSize \/ n = sent
  PROVE  /\ LenAfter(n) \in Int
         /\ taken = 0 /\ n > 0 => n >= HeaderSize /\ len = NoLength
         /\ taken + n > 0 => LenAfter(n) = request.len
         /\ taken + n = 0 => LenAfter(n) = NoLength
  <1>1. /\ request.len \in Nat /\ request.body \in Nat
        /\ taken \in Nat /\ sent \in Nat /\ len \in Int
    BY Numbers DEF IInv
  <1>2. /\ BufferSize \in Nat /\ BufferSize > 4
        /\ RecordMax \in Nat /\ RecordMax >= BufferSize
    BY FramingAssumption DEF HeaderSize
  <1>3. /\ sent = 0 \/ sent = 4 + request.body \/ sent >= RecordMax
        /\ taken = 0 => len = NoLength
        /\ taken > 0 => len = request.len
    BY DEF IInv, Chunks, Wire, HeaderSize
  <1>4. taken = 0 /\ n > 0 => n >= 4
    BY <1>1, <1>2, <1>3
  <1> QED
    BY <1>1, <1>3, <1>4 DEF LenAfter, HeaderRead, NoLength, HeaderSize

(***************************************************************************)
(* A framed request: the chunk that holds all of it is the first one, and  *)
(* parse decides it by protobuf; every other chunk is too short for the    *)
(* length that was kept, as at least the header was forgotten.             *)
(***************************************************************************)
LEMMA ParseFramed ==
  ASSUME IInv, handled = "no", Framed, NEW n \in Nat, taken + n <= sent,
         taken = 0 /\ n > 0 => n = BufferSize \/ n = sent
  PROVE  \/ parse(n) = {"indeterminate"} /\ (taken + n > 0 => taken + n > HeaderSize)
         \/ n = Wire(request.body) /\ parse(n) = {IF request.wellFormed THEN "true" ELSE "false"}
  <1>1. /\ request.body \in Nat /\ request.len = request.body
        /\ taken \in Nat /\ sent \in Nat /\ sent <= 4 + request.body
    BY Numbers DEF IInv, Framed, HeaderSize
  <1>2. /\ BufferSize \in Nat /\ BufferSize > 4
        /\ RecordMax \in Nat /\ RecordMax >= BufferSize
    BY FramingAssumption DEF HeaderSize
  <1>3. /\ sent = 0 \/ sent = 4 + request.body \/ sent >= RecordMax
        /\ taken > 0 => len = request.len /\ taken > 4
    BY DEF IInv, Chunks, Wire, HeaderSize
  <1>4. /\ taken = 0 /\ n > 0 => n >= 4 /\ len = NoLength
        /\ taken + n > 0 => LenAfter(n) = request.len
        /\ taken + n = 0 => LenAfter(n) = NoLength
    BY ParseLength DEF HeaderSize
  <1>5. CASE taken + n = 0
    <2>1. parse(n) = {"indeterminate"}
      BY <1>4, <1>5 DEF parse
    <2> QED
      BY <2>1, <1>5
  <1>6. CASE taken > 0
    <2>1. Size(n) = n
      BY <1>1, <1>3, <1>6 DEF Size, HeaderRead, NoLength
    <2>2. n < request.body
      BY <1>1, <1>3, <1>6
    <2>3. LenAfter(n) = request.body
      BY <1>1, <1>4, <1>6
    <2>4. parse(n) = {"indeterminate"}
      BY <2>1, <2>2, <2>3 DEF parse
    <2> QED
      BY <2>4, <1>1, <1>3, <1>6 DEF HeaderSize
  <1>7. CASE taken = 0 /\ n > 0
    <2>1. Size(n) = n - 4 /\ n >= 4
      BY <1>4, <1>7 DEF Size, HeaderRead, HeaderSize
    <2>2. LenAfter(n) = request.body /\ request.body # NoLength
      BY <1>1, <1>4, <1>7 DEF NoLength
    <2>3. CASE n = 4 + request.body
      <3>1. n = Wire(request.body)
        BY <2>3 DEF Wire, HeaderSize
      <3>2. Size(n) = request.body
        BY <1>1, <2>1, <2>3
      <3>3. Whole(n)
        BY <1>1, <1>7, <3>1 DEF Whole
      <3>4. parseFromIstream(n) = {request.wellFormed}
        BY <3>3 DEF parseFromIstream
      <3>5. ~(request.body < request.body)
        BY <1>1
      <3>6. parse(n) = {IF b THEN "true" ELSE "false" : b \in {request.wellFormed}}
        BY <2>2, <3>2, <3>4, <3>5 DEF parse
      <3>7. {IF b THEN "true" ELSE "false" : b \in {request.wellFormed}}
              = {IF request.wellFormed THEN "true" ELSE "false"}
        OBVIOUS
      <3> QED
        BY <3>1, <3>6, <3>7
    <2>4. CASE n # 4 + request.body
      <3>1. n < 4 + request.body /\ n > 4
        BY <1>1, <1>2, <1>3, <1>7, <2>4
      <3>2. Size(n) < request.body
        BY <1>1, <2>1, <3>1
      <3>3. parse(n) = {"indeterminate"}
        BY <2>2, <3>2 DEF parse
      <3> QED
        BY <3>1, <3>3, <1>7 DEF HeaderSize
    <2> QED
      BY <2>3, <2>4
  <1> QED
    BY <1>1, <1>5, <1>6, <1>7

(* A chunk of a request that has not been answered.                        *)
LEMMA HandleReadInv ==
  ASSUME IInv, tracker \in {"handshake", "reading"},
         NEW n \in 0 .. BufferSize, taken + n <= sent,
         taken = 0 /\ n > 0 => n = BufferSize \/ n = sent,
         handle_read(n), UNCHANGED <<request, sent, written, clientVars, up>>
  PROVE  IInv'
  <1>1. /\ request' = request /\ sent' = sent /\ written' = written /\ up' = up
        /\ got' = got /\ sb' = sb /\ message_size' = message_size /\ result' = result
    BY DEF clientVars
  <1>2. taken' = taken + n /\ chunk' = n /\ len' = LenAfter(n)
    BY DEF handle_read
  <1>3. PICK res \in parse(n) :
          \/ res = "true" /\ handled' = "request" /\ tracker' = "writing"
             /\ reply' \in ReplySizes
          \/ res = "false" /\ handled' = "bad" /\ tracker' = "writing"
             /\ reply' \in ReplySizes
          \/ res = "indeterminate" /\ tracker' = "reading"
             /\ handled' = handled /\ reply' = reply
    BY DEF handle_read
  <1>4. BufferSize \in Nat /\ n \in Nat
    BY FramingAssumption
  <1>5. TypeOK /\ handled = "no" /\ message_size = NoLength /\ written = 0
    BY DEF IInv, Unanswered
  <1>6. /\ taken \in Nat /\ sent \in Nat /\ request.len \in Nat
        /\ got = 0 /\ sb = 0
    BY <1>5, Numbers
  <1>answerWas. reply \in {0} \cup ReplySizes
    BY <1>5 DEF TypeOK
  <1>answerIs. reply' \in {0} \cup ReplySizes
    BY <1>3, <1>answerWas
  <1>7. reply' \in Nat
    BY <1>answerIs, FramingAssumption
  <1>naturals. \A k \in Nat : k \in Int /\ 0 \in 0 .. 4 + k /\ 0 < 4 + k
    OBVIOUS
  <1>unread. written' = 0 /\ got' = 0 /\ sb' = 0 /\ message_size' = NoLength
    BY <1>1, <1>5, <1>6
  <1>8. /\ taken + n > 0 => LenAfter(n) = request.len
        /\ taken + n = 0 => LenAfter(n) = NoLength
    BY <1>4, <1>5, ParseLength
  <1>9. TypeOK'
    <2>1. len' \in {NoLength, request'.len}
      BY <1>1, <1>2, <1>4, <1>6, <1>8
    <2>2. taken' \in 0 .. sent' /\ chunk' \in 0 .. BufferSize
      BY <1>1, <1>2, <1>4, <1>6
    <2>3. /\ written' \in 0 .. HeaderSize + reply' /\ got' \in 0 .. written'
          /\ sb' \in 0 .. got' /\ message_size' \in {NoLength, reply'}
      <3>1. 0 \in 0 .. HeaderSize + reply' /\ 0 \in 0 .. 0
        <4>1. HeaderSize + reply' = 4 + reply'
          BY DEF HeaderSize
        <4>2. 0 \in 0 .. 4 + reply'
          BY <1>7, <1>naturals
        <4>3. 0 \in 0 .. 0
          OBVIOUS
        <4> QED
          BY <4>1, <4>2, <4>3
      <3> QED
        BY <1>unread, <3>1
    <2>4. /\ tracker' \in {"handshake", "reading", "writing", "closed"}
          /\ handled' \in {"no", "request", "bad"}
      BY <1>3, <1>5
    <2>5. /\ request' \in Requests /\ sent' \in 0 .. HeaderSize + request'.body
          /\ result' \in {"none", "GOOD", "BAD", "error"} /\ up' \in BOOLEAN
      BY <1>1, <1>5 DEF TypeOK
    <2> QED
      BY <1>answerIs, <2>1, <2>2, <2>3, <2>4, <2>5 DEF TypeOK
  <1>10. Unanswered'
    BY <1>1, <1>3, <1>5 DEF Unanswered
  <1>11. ExecutedWhole' /\ (Framed' /\ handled' = "no" /\ taken' > 0 => taken' > HeaderSize)
    <2> SUFFICES ASSUME Framed' PROVE ExecutedWhole' /\ (handled' = "no" /\ taken' > 0 => taken' > HeaderSize)
      BY DEF ExecutedWhole
    <2>1. Framed
      BY <1>1 DEF Framed
    <2>2. CASE parse(n) = {"indeterminate"} /\ (taken + n > 0 => taken + n > HeaderSize)
      BY <1>2, <1>3, <1>5, <2>2 DEF ExecutedWhole
    <2>3. CASE n = Wire(request.body)
               /\ parse(n) = {IF request.wellFormed THEN "true" ELSE "false"}
      <3>1. handled' = (IF request.wellFormed THEN "request" ELSE "bad")
        BY <1>3, <2>3
      <3>2. chunk' = Wire(request'.body)
        BY <1>1, <1>2, <2>3
      <3> QED
        BY <1>1, <3>1, <3>2 DEF ExecutedWhole
    <2> QED
      BY <2>1, <2>2, <2>3, <1>4, <1>5, ParseFramed
  <1>12. Chunks'
    <2>1. sent' = 0 \/ sent' = Wire(request'.body) \/ sent' >= RecordMax
      BY <1>1 DEF IInv, Chunks
    <2>2. taken' = 0 => len' = NoLength
      BY <1>2, <1>8
    <2>3. taken' > 0 => len' = request'.len
      BY <1>1, <1>2, <1>8
    <2> QED
      BY <1>11, <2>1, <2>2, <2>3 DEF Chunks
  <1>13. Counted'
    BY <1>1, <1>5, <1>6 DEF Counted, HeaderSize
  <1>14. AnswerWhole'
    <2>1. result # "BAD" /\ result # "GOOD"
      BY <1>5 DEF IInv, AnswerWhole
    <2>2. got' < Wire(reply')
      <3>1. 0 < 4 + reply'
        BY <1>7, <1>naturals
      <3> QED
        BY <1>unread, <3>1 DEF Wire, HeaderSize
    <2> QED
      BY <1>1, <2>1, <2>2 DEF AnswerWhole
  <1> QED
    BY <1>9, <1>10, <1>11, <1>12, <1>13, <1>14 DEF IInv

(* The handshake completes.                                                *)
LEMMA StartInv ==
  ASSUME IInv, start
  PROVE  IInv'
  <1>1. /\ tracker = "handshake" /\ handle_read(0)
        /\ UNCHANGED <<request, sent, written, clientVars, up>>
    BY DEF start
  <1>2. taken = 0 /\ sent \in Nat
    BY <1>1, Numbers DEF IInv, Unanswered
  <1>3. 0 \in 0 .. BufferSize /\ taken + 0 <= sent
    BY <1>2, FramingAssumption
  <1>4. taken = 0 /\ 0 > 0 => 0 = BufferSize \/ 0 = sent
    OBVIOUS
  <1> QED
    BY <1>1, <1>3, <1>4, HandleReadInv

(* The tracker reads.                                                      *)
LEMMA ReadInv ==
  ASSUME IInv, read
  PROVE  IInv'
  <1> DEFINE n == ReadSome(taken, sent)
  <1>1. /\ tracker = "reading" /\ taken < sent /\ handle_read(n)
        /\ UNCHANGED <<request, sent, written, clientVars, up>>
    BY DEF read
  <1>2. taken \in Nat /\ sent \in Nat /\ BufferSize \in Nat
    BY Numbers, FramingAssumption DEF IInv
  <1>3. n \in Nat /\ n <= BufferSize /\ taken + n <= sent
    BY <1>1, <1>2, ReadProgress
  <1>4. taken = 0 => n = BufferSize \/ n = sent
    BY <1>1, <1>2, FirstRead
  <1> HIDE DEF n
  <1>5. n \in 0 .. BufferSize
    BY <1>2, <1>3
  <1> QED
    BY <1>1, <1>3, <1>4, <1>5, HandleReadInv

(* The steps that only close: nothing that was read or written changes.    *)
LEMMA CloseInv ==
  ASSUME IInv, release \/ handle_write
  PROVE  IInv'
  <1>1. /\ tracker' = "closed"
        /\ request' = request /\ sent' = sent /\ taken' = taken /\ chunk' = chunk
        /\ len' = len /\ handled' = handled /\ reply' = reply /\ written' = written
        /\ got' = got /\ sb' = sb /\ message_size' = message_size
        /\ result' = result /\ up' = up
    BY DEF release, handle_write, clientVars
  <1>2. TypeOK'
    BY <1>1 DEF IInv, TypeOK
  <1>3. Unanswered' /\ Counted'
    BY <1>1 DEF IInv, Unanswered, Counted
  <1>4. Chunks'
    BY <1>1 DEF IInv, Chunks, Framed
  <1>5. ExecutedWhole' /\ AnswerWhole'
    BY <1>1 DEF IInv, ExecutedWhole, AnswerWhole, Framed
  <1> QED
    BY <1>2, <1>3, <1>4, <1>5 DEF IInv

(* A record of the answer arrives.                                         *)
LEMMA WriteInv ==
  ASSUME IInv, async_write
  PROVE  IInv'
  <1> DEFINE e == RecordEnd(written, Wire(reply))
  <1>1. /\ tracker = "writing" /\ written < Wire(reply) /\ written' = e
        /\ request' = request /\ sent' = sent /\ taken' = taken /\ chunk' = chunk
        /\ len' = len /\ tracker' = tracker /\ handled' = handled /\ reply' = reply
        /\ got' = got /\ sb' = sb /\ message_size' = message_size
        /\ result' = result /\ up' = up
    BY DEF async_write, trackerVars, clientVars
  <1>2. TypeOK /\ handled # "no"
    BY <1>1 DEF IInv, Unanswered
  <1>3. Wire(reply) \in Nat /\ written \in Nat
    BY <1>2, Numbers DEF Wire, HeaderSize
  <1>4. e \in Nat /\ written < e /\ e <= Wire(reply)
    BY <1>1, <1>3, RecordProgress
  <1> HIDE DEF e
  <1>5. written' \in 0 .. HeaderSize + reply /\ got \in 0 .. written'
    BY <1>1, <1>2, <1>4, Numbers DEF Wire, HeaderSize
  <1>6. TypeOK'
    BY <1>1, <1>2, <1>5 DEF TypeOK
  <1>7. Unanswered'
    BY <1>1, <1>2 DEF Unanswered
  <1>8. Chunks' /\ Counted'
    BY <1>1 DEF IInv, Chunks, Counted, Framed
  <1>9. ExecutedWhole' /\ AnswerWhole'
    BY <1>1 DEF IInv, ExecutedWhole, AnswerWhole, Framed
  <1> QED
    BY <1>6, <1>7, <1>8, <1>9 DEF IInv

(***************************************************************************)
(* The client reads a chunk of the answer: what it has read is at most the *)
(* answer, so that "enough" can only mean "all of it".                     *)
(***************************************************************************)
LEMMA ReadMessageInv ==
  ASSUME IInv, readMessage
  PROVE  IInv'
  <1> DEFINE n == ReadSome(got, written)
             header == message_size = NoLength /\ sb + n >= HeaderSize
             size == IF header THEN reply ELSE message_size
             bytes == IF header THEN sb + n - HeaderSize ELSE sb + n
  <1>1. /\ result = "none" /\ got < written /\ got' = got + n
        /\ IF Enough(size, bytes)
           THEN /\ result' = IF bytes = reply THEN "GOOD" ELSE "BAD"
                /\ sb' = 0
                /\ message_size' = NoLength
           ELSE /\ sb' = bytes
                /\ message_size' = size
                /\ result' = result
    BY DEF readMessage
  <1>2. /\ request' = request /\ sent' = sent /\ taken' = taken /\ chunk' = chunk
        /\ len' = len /\ tracker' = tracker /\ handled' = handled /\ reply' = reply
        /\ written' = written /\ up' = up
    BY DEF readMessage, trackerVars
  <1>3. TypeOK
    BY DEF IInv
  <1>4. /\ got \in Nat /\ written \in Nat /\ written <= 4 + reply
        /\ reply \in Nat /\ sb \in Nat
    BY <1>3, Numbers DEF HeaderSize
  <1>5. n \in Nat /\ 0 < n /\ got + n <= written
    BY <1>1, <1>4, ReadProgress
  <1> HIDE DEF n
  <1>6. /\ handled # "no"
        /\ tracker \notin {"handshake", "reading"}
    BY <1>1, <1>4 DEF IInv, Unanswered
  <1>7. \/ size = NoLength /\ bytes = got' /\ got' < 4
        \/ size = reply /\ bytes = got' - 4 /\ got' >= 4
    <2>1. \/ message_size = NoLength /\ sb = got /\ got < 4
          \/ message_size = reply /\ sb = got - 4 /\ got >= 4
      BY <1>1 DEF IInv, Counted, HeaderSize
    <2> QED
      BY <1>1, <1>4, <1>5, <2>1 DEF NoLength, HeaderSize
  <1>8. got' \in Nat /\ got' <= written /\ got' <= 4 + reply
    BY <1>1, <1>4, <1>5
  <1>exact. \A g \in Nat : g <= 4 + reply =>
          /\ reply <= g - 4 => g = 4 + reply /\ g - 4 = reply
          /\ ~(reply <= g - 4) => g < 4 + reply
    BY <1>4
  <1>answerSize. reply # NoLength /\ reply \in Nat
    BY <1>4 DEF NoLength
  <1> HIDE DEF header, size, bytes
  <1>9. \/ /\ result' = "GOOD" /\ sb' = 0 /\ message_size' = NoLength
           /\ got' = 4 + reply
        \/ /\ result' = "none" /\ message_size' = NoLength
           /\ sb' = got' /\ got' < 4
        \/ /\ result' = "none" /\ message_size' = reply
           /\ sb' = got' - 4 /\ got' >= 4 /\ got' < 4 + reply
    <2>1. CASE Enough(size, bytes)
      <3>1. size = reply /\ bytes = got' - 4 /\ reply <= bytes
        BY <1>7, <2>1 DEF Enough
      <3>2. bytes = reply /\ got' = 4 + reply
        <4>1. reply <= got' - 4
          BY <3>1
        <4>2. got' = 4 + reply
          BY <4>1, <1>exact, <1>8
        <4> QED
          BY <3>1, <4>1, <1>exact, <1>8
      <3> QED
        BY <1>1, <2>1, <3>2
    <2>2. CASE ~Enough(size, bytes)
      <3>1. result' = "none" /\ sb' = bytes /\ message_size' = size
        BY <1>1, <2>2
      <3>2. CASE size = NoLength /\ bytes = got' /\ got' < 4
        BY <3>1, <3>2
      <3>3. CASE size = reply /\ bytes = got' - 4 /\ got' >= 4
        <4>1. got' < 4 + reply
          <5>1. ~(reply <= got' - 4)
            BY <1>answerSize, <2>2, <3>3 DEF Enough
          <5> QED
            BY <1>exact, <1>8, <5>1
        <4> QED
          BY <3>1, <3>3, <4>1
      <3> QED
        BY <1>7, <3>2, <3>3
    <2> QED
      BY <2>1, <2>2
  <1>10. TypeOK'
    <2>1. got' \in 0 .. written'
      BY <1>2, <1>4, <1>8
    <2>2. sb' \in 0 .. got' /\ message_size' \in {NoLength, reply'}
      BY <1>2, <1>4, <1>8, <1>9
    <2>3. result' \in {"none", "GOOD", "BAD", "error"}
      BY <1>9
    <2> QED
      BY <1>2, <1>3, <2>1, <2>2, <2>3 DEF TypeOK
  <1>11. Unanswered'
    BY <1>2, <1>6 DEF IInv, Unanswered
  <1>12. Chunks' /\ ExecutedWhole'
    BY <1>2 DEF IInv, Chunks, ExecutedWhole, Framed
  <1>13. Counted'
    BY <1>2, <1>9 DEF Counted, HeaderSize
  <1>14. AnswerWhole'
    <2>1. result' = "none" => got' < 4 + reply
      BY <1>4, <1>8, <1>9
    <2> QED
      BY <1>2, <1>6, <1>9, <2>1 DEF AnswerWhole, Wire, HeaderSize
  <1> QED
    BY <1>10, <1>11, <1>12, <1>13, <1>14 DEF IInv

(* The steps that end the connection for the client.                       *)
LEMMA LostInv ==
  ASSUME IInv, readError \/ connectionLost
  PROVE  IInv'
  <1>1. /\ request' = request /\ sent' = sent /\ taken' = taken /\ chunk' = chunk
        /\ len' = len /\ tracker' = tracker /\ handled' = handled /\ reply' = reply
        /\ written' = written /\ got' = got /\ sb' = sb /\ message_size' = message_size
        /\ result' \in {result, "error"}
    BY DEF readError, connectionLost, trackerVars, clientVars
  <1>2. up' \in BOOLEAN
    BY DEF IInv, TypeOK, readError, connectionLost
  <1>3. TypeOK'
    BY <1>1, <1>2 DEF IInv, TypeOK
  <1>4. Unanswered' /\ Counted'
    BY <1>1 DEF IInv, Unanswered, Counted
  <1>5. Chunks'
    BY <1>1 DEF IInv, Chunks, Framed
  <1>6. ExecutedWhole' /\ AnswerWhole'
    BY <1>1 DEF IInv, ExecutedWhole, AnswerWhole, Framed
  <1> QED
    BY <1>3, <1>4, <1>5, <1>6 DEF IInv

(* Every step preserves the invariant.                                     *)
LEMMA StepInv ==
  IInv /\ [Next]_vars => IInv'
  <1> SUFFICES ASSUME IInv, [Next]_vars PROVE IInv'
    OBVIOUS
  <1>1. CASE send
    BY <1>1, SendInv
  <1>2. CASE start
    BY <1>2, StartInv
  <1>3. CASE read
    BY <1>3, ReadInv
  <1>4. CASE release \/ handle_write
    BY <1>4, CloseInv
  <1>5. CASE async_write
    BY <1>5, WriteInv
  <1>6. CASE readMessage
    BY <1>6, ReadMessageInv
  <1>7. CASE readError \/ connectionLost
    BY <1>7, LostInv
  <1>8. CASE UNCHANGED vars
    BY <1>8 DEF vars, trackerVars, clientVars, IInv, TypeOK, Unanswered, Chunks,
                Counted, ExecutedWhole, AnswerWhole, Framed
  <1> QED
    BY <1>1, <1>2, <1>3, <1>4, <1>5, <1>6, <1>7, <1>8 DEF Next, Exchange

-----------------------------------------------------------------------------
(* The theorems.                                                           *)

(* IInv is an invariant of the connection.                                 *)
LEMMA Invariant ==
  Spec => []IInv
  BY InitInv, StepInv, PTL DEF Spec

(* Type correctness: no reader counts past what was written, and a length  *)
(* that a parser holds is the one of the message it reads.                 *)
THEOREM TypeCorrect ==
  Spec => []TypeOK
  <1>1. IInv => TypeOK
    BY DEF IInv
  <1> QED
    BY <1>1, Invariant, PTL

(***************************************************************************)
(* For every size of buffer and record and every request: RequestParser,   *)
(* which forgets what it cannot use, executes a request only from a chunk  *)
(* that holds it whole, and refuses it only when protobuf does.            *)
(***************************************************************************)
THEOREM ExecutedHolds ==
  Spec => []ExecutedWhole
  <1>1. IInv => ExecutedWhole
    BY DEF IInv
  <1> QED
    BY <1>1, Invariant, PTL

(***************************************************************************)
(* For every size of buffer and record and every answer: the client's      *)
(* readMessage ends well exactly at the last byte of the answer, and       *)
(* NodeResponseParser never finds a message that is too long.              *)
(***************************************************************************)
THEOREM AnswerHolds ==
  Spec => []AnswerWhole
  <1>1. IInv => AnswerWhole
    BY DEF IInv
  <1> QED
    BY <1>1, Invariant, PTL

=============================================================================
