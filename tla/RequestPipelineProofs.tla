------------------------- MODULE RequestPipelineProofs -------------------------
(* Theorems about RequestPipeline, for every limit, chunk size, declared      *)
(* length and set of statuses its assumptions allow.                          *)
EXTENDS RequestPipeline, TLAPS

(* The count agrees with what the server delivered, whichever path counts.    *)
BodyInv ==
    /\ total = bytes
    /\ capped /\ declared >= 0 => bytes <= declared
    /\ pc \in {"gate", "length"} => mode = "none"
    /\ mode = "none" => bytes = 0
    /\ pc = "drain" => mode = "eager" /\ bytes <= MaxBody
    /\ pc \in {"gate", "length", "drain"} => handler = "idle"
    /\ pc = "handler" => handler = "running"
    /\ handler # "idle" => mode # "none"
    /\ mode = "lazy" => declared \in 0..MaxBody
    /\ raised => mode = "lazy" /\ ~capped
    /\ HandlerWaitsForBody
    /\ BodyWithinLimit

(* Where control is, against what the wire got and what each layer noted.     *)
WireInv ==
    /\ starts \in {0, 1} /\ (starts = 0 <=> wireStatus = NoStatus)
    /\ ended => starts = 1
    /\ shielded \/ (pc = "done" /\ exc = "cancel")
    /\ pc \in {"gate", "length", "drain", "reply", "fail"} => starts = 0
    /\ pc \in {"replyBody", "failBody"} => starts = 1 /\ ~ended
    /\ FramesInOrder

FlagInv ==
    /\ pc \in {"handler", "size", "boundary"} => ebStarted = (starts = 1)
    /\ pc \in {"handler", "size"} /\ mode = "lazy" => sizeStarted = (starts = 1)
    /\ pc = "handler" /\ mode = "eager" => ~sizeStarted
    /\ pc \in {"gate", "length", "drain"} => ~ebStarted /\ ~sizeStarted
    /\ pc = "size" => mode = "lazy" /\ handler = "toolarge" /\ raised
    /\ pc = "fail" => ~ebStarted

ExcInv ==
    /\ exc = "toolarge" <=> pc = "size"
    /\ pc = "boundary" => exc = "error"
    /\ exc \in {"error", "cancel"} => pc \in {"boundary", "context", "outer", "done"}
    /\ exc = "cancel" => pc # "boundary"
    /\ pc \in {"context", "outer", "done"} /\ exc = "error" => starts = 1
    /\ pc \in {"context", "outer", "done"} /\ exc = "none" => starts = 1 \/ gone

StatusInv ==
    /\ starts = 1 /\ pc # "done" => status = wireStatus
    /\ starts = 0 /\ exc # "cancel" => status = NoStatus
    /\ reply \in GateStatuses \cup {413, NoStatus}
    /\ pc \in {"reply", "replyBody"} => reply # NoStatus
    /\ pc = "replyBody" => wireStatus = reply
    /\ line = NoLine <=> pc \notin {"outer", "done"}
    /\ pc \in {"outer", "done"} => line = status
    /\ pc = "done" /\ starts = 1 /\ exc # "cancel" => status = wireStatus

(* How a handler that crashed, or let the overflow through, is answered.      *)
FailureInv ==
    /\ handler = "crashed" =>
           /\ pc \in {"boundary", "fail", "failBody", "context", "outer", "done"}
           /\ ebStarted /\ pc # "boundary" => exc \in {"error", "cancel"}
           /\ ~ebStarted /\ pc = "failBody" => wireStatus = 500
           /\ ~ebStarted /\ pc \in {"context", "outer", "done"} /\ exc # "cancel" =>
                  wireStatus = 500 /\ ended
    /\ handler = "toolarge" /\ ~sizeStarted =>
           /\ pc \in {"size", "reply", "replyBody", "context", "outer", "done"}
           /\ pc # "size" => exc \in {"none", "cancel"} /\ reply = 413
           /\ pc \in {"context", "outer", "done"} /\ exc # "cancel" => wireStatus = 413

Oversize == declared > MaxBody \/ (mode = "eager" /\ total > MaxBody)

OversizeInv ==
    Oversize =>
        /\ handler = "idle" /\ exc \in {"none", "cancel"}
        /\ pc \in {"gate", "length", "reply", "replyBody", "context", "outer", "done"}
        /\ starts = 1 /\ exc # "cancel" => wireStatus = reply
        /\ mode = "eager" => reply = 413

Inv == /\ TypeOK /\ BodyInv /\ WireInv /\ FlagInv /\ ExcInv /\ StatusInv
       /\ FailureInv /\ OversizeInv

--------------------------------------------------------------------------------
(* What receive() returns is a message, never behind what the server gave.    *)
LEMMA IncomingMessages ==
    ASSUME TypeOK, NEW m \in Incoming
    PROVE  /\ m \in Message
           /\ m.upto >= bytes /\ Size(m) \in Nat /\ bytes + Size(m) = m.upto
           /\ m.no = msgs + 1
           /\ m.kind = "disconnect" <=> (gone \/ ended)
           /\ m.kind = "request" => ~bodyDone
<1>1. CASE gone \/ ended
  <2>1. m = Disconnect
    BY <1>1 DEF Incoming
  <2> QED
    BY <1>1, <2>1, SMT DEF TypeOK, Disconnect, Message, Size
<1>2. CASE ~(gone \/ ended)
  <2>1. PICK n \in ChunkSizes, more \in BOOLEAN : m = RequestMessage(n, more)
    BY <1>2 DEF Incoming
  <2>2. ~bodyDone
    BY <1>2 DEF Incoming
  <2>3. n \in Nat
    BY PipelineAssumptions
  <2> QED
    BY <1>2, <2>1, <2>2, <2>3, SMT DEF TypeOK, RequestMessage, Message, Size
<1> QED
  BY <1>1, <1>2

(* receive() keeps the server's bookkeeping, the count and the handler's view *)
(* well typed.                                                                *)
LEMMA TakeTypes ==
    ASSUME TypeOK, NEW m \in Incoming, Take(m)
    PROVE  msgs' \in Nat /\ bytes' \in Nat /\ bodyDone' \in BOOLEAN /\ gone' \in BOOLEAN
<1>1. m \in Message
  BY IncomingMessages
<1>2. CASE m.kind = "request"
  <2>1. msgs' = m.no /\ bytes' = m.upto /\ bodyDone' = ~m.more /\ gone' = gone
    BY <1>2 DEF Take
  <2> QED
    BY <1>1, <2>1 DEF Message, TypeOK
<1>3. CASE m.kind # "request"
  BY <1>3 DEF Take, TypeOK
<1> QED
  BY <1>2, <1>3

LEMMA HandTypes ==
    ASSUME TypeOK, NEW m \in Message, Hand(m)
    PROVE  appNo' \in Nat /\ appBytes' \in Nat
<1>1. m.no \in Nat /\ m.upto \in Nat
  BY DEF Message
<1> QED
  BY <1>1 DEF Hand, TypeOK

LEMMA CountTypes ==
    ASSUME TypeOK, NEW m \in Incoming
    PROVE  Counted(m) \in Nat
BY IncomingMessages, SMT DEF Counted, TypeOK

LEMMA StatusTypes ==
    /\ Statuses \subseteq 200..599 \cup {500}
    /\ AppStatuses \subseteq Statuses /\ GateStatuses \subseteq Statuses
    /\ 413 \in Statuses /\ 500 \in Statuses
    /\ NoStatus \notin Statuses /\ NoLine \notin Statuses
BY PipelineAssumptions, SMT DEF Statuses, GateStatuses, NoStatus, NoLine

--------------------------------------------------------------------------------
(* Typing.                                                                    *)

LEMMA InitTypes == Init => TypeOK
<1> SUFFICES ASSUME Init PROVE TypeOK
  OBVIOUS
<1>1. buffered \in Seq(Message)
  BY DEF Init
<1> QED
  BY <1>1 DEF Init, TypeOK

LEMMA StepTypes == TypeOK /\ [Next]_vars => TypeOK'
<1> SUFFICES ASSUME TypeOK, [Next]_vars PROVE TypeOK'
  OBVIOUS
<1> USE StatusTypes
<1>1. CASE StackStep
  <2>1. CASE Gate
    BY <2>1, SMT DEF Gate, AnswerWith, TypeOK, request, server, wire, control, size, inner
  <2>2. CASE RejectLength
    BY <2>2, SMT DEF RejectLength, AnswerWith, GateStatuses, TypeOK, request, server, wire, size, inner
  <2>3. CASE LengthError
    BY <2>3, SMT DEF LengthError, TypeOK, request, server, wire, size, inner
  <2>4. CASE ServeLazily
    BY <2>4, SMT DEF ServeLazily, TypeOK, request, server, wire
  <2>5. CASE ServeEagerly
    BY <2>5, SMT DEF ServeEagerly, FirstEager, TypeOK, request, server, wire
  <2>6. CASE DrainRefuses
    <3>1. PICK m \in Incoming : Take(m) /\ total' = Counted(m)
      BY <2>6 DEF DrainRefuses
    <3>2. msgs' \in Nat /\ bytes' \in Nat /\ bodyDone' \in BOOLEAN /\ gone' \in BOOLEAN
      BY <3>1, TakeTypes
    <3>3. total' \in Nat
      BY <3>1, CountTypes
    <3> QED
      BY <2>6, <3>2, <3>3, SMT
      DEF DrainRefuses, AnswerWith, TypeOK, request, wire, inner
  <2>7. CASE DrainKeeps
    <3>1. PICK m \in Incoming : /\ Take(m) /\ total' = Counted(m)
                                /\ buffered' = Append(buffered, m)
      BY <2>7 DEF DrainKeeps
    <3>2. msgs' \in Nat /\ bytes' \in Nat /\ bodyDone' \in BOOLEAN /\ gone' \in BOOLEAN
      BY <3>1, TakeTypes
    <3>3. total' \in Nat
      BY <3>1, CountTypes
    <3>4. buffered' \in Seq(Message)
      BY <3>1, IncomingMessages DEF TypeOK
    <3>5. /\ pc' \in {"drain", "handler"} /\ handler' \in {"running", handler}
          /\ UNCHANGED <<request, wire, exc, reply, status, line, ebStarted, mode,
                         sizeStarted, appNo, appBytes, raised>>
      BY <2>7 DEF DrainKeeps
    <3> QED
      BY <3>2, <3>3, <3>4, <3>5, SMT DEF TypeOK, request, wire
  <2>8. CASE ReplyStart
    BY <2>8, SMT DEF ReplyStart, WireStart, TypeOK, request, server, size, inner
  <2>9. CASE ReplyBody
    BY <2>9, SMT DEF ReplyBody, WireBody, TypeOK, request, server, size, inner
  <2>10. CASE SizeCatches
    BY <2>10, SMT DEF SizeCatches, TooLateFor413, AnswerWith, WireBody, BodySendRaises,
                      TypeOK, request, server, wire, size, inner
  <2>11. CASE BoundaryCatches
    BY <2>11, SMT DEF BoundaryCatches, ReRaises, Propagate, TypeOK, request, server, wire,
                      size, inner
  <2>12. CASE BoundaryStart
    BY <2>12, SMT DEF BoundaryStart, WireStart, TypeOK, request, server, size, inner
  <2>13. CASE BoundaryBody
    BY <2>13, SMT DEF BoundaryBody, WireBody, TypeOK, request, server, size, inner
  <2>14. CASE LogLine
    BY <2>14, SMT DEF LogLine, FinalStatus, TypeOK, request, server, wire, size, inner
  <2>15. CASE Outer
    <3>1. /\ starts' \in Nat /\ wireStatus' \in Statuses \cup {NoStatus}
          /\ shielded' \in BOOLEAN /\ ended' \in BOOLEAN /\ stray' \in BOOLEAN
      <4>1. CASE UNCHANGED wire
        BY <4>1 DEF TypeOK, wire
      <4>2. CASE ~UNCHANGED wire
        <5>1. /\ starts' = 1 /\ wireStatus' = 500 /\ shielded' = FALSE
              /\ ended' = TRUE /\ stray' = stray
          BY <2>15, <4>2 DEF Outer
        <5> QED
          <6>1. starts' \in Nat
            BY <5>1
          <6>2. wireStatus' \in Statuses \cup {NoStatus}
            BY <5>1
          <6>3. shielded' \in BOOLEAN
            BY <5>1
          <6>4. ended' \in BOOLEAN /\ stray' \in BOOLEAN
            BY <5>1 DEF TypeOK
          <6> QED
            BY <6>1, <6>2, <6>3, <6>4
      <4> QED
        BY <4>1, <4>2
    <3> QED
      BY <2>15, <3>1, SMT DEF Outer, TypeOK, request, server, size, inner
  <2> QED
    BY <1>1, <2>1, <2>2, <2>3, <2>4, <2>5, <2>6, <2>7, <2>8, <2>9, <2>10, <2>11,
       <2>12, <2>13, <2>14, <2>15 DEF StackStep
<1>2. CASE HandlerStep
  <2>1. CASE LazyReceive
    <3>1. PICK m \in Incoming :
             /\ Take(m) /\ total' = Counted(m)
             /\ IF OverLimit(m)
                THEN raised' = TRUE /\ UNCHANGED <<appNo, appBytes>>
                ELSE Hand(m) /\ UNCHANGED raised
      BY <2>1 DEF LazyReceive
    <3>2. msgs' \in Nat /\ bytes' \in Nat /\ bodyDone' \in BOOLEAN /\ gone' \in BOOLEAN
      BY <3>1, TakeTypes
    <3>3. total' \in Nat
      BY <3>1, CountTypes
    <3>4. appNo' \in Nat /\ appBytes' \in Nat /\ raised' \in BOOLEAN
      <4>1. CASE OverLimit(m)
        BY <3>1, <4>1 DEF TypeOK
      <4>2. CASE ~OverLimit(m)
        <5>1. Hand(m) /\ UNCHANGED raised
          BY <3>1, <4>2
        <5> QED
          BY <5>1, HandTypes, IncomingMessages DEF TypeOK
      <4> QED
        BY <4>1, <4>2
    <3> QED
      BY <2>1, <3>2, <3>3, <3>4, SMT DEF LazyReceive, TypeOK, request, wire, control
  <2>2. CASE ReplayReceive
    <3>1. CASE buffered # <<>> /\ PopLeft /\ UNCHANGED server
      <4>1. Head(buffered) \in Message /\ Tail(buffered) \in Seq(Message)
        BY <3>1 DEF TypeOK
      <4>2. appNo' \in Nat /\ appBytes' \in Nat /\ buffered' \in Seq(Message)
        BY <3>1, <4>1, HandTypes DEF PopLeft
      <4> QED
        BY <2>2, <3>1, <4>2, SMT
        DEF ReplayReceive, TypeOK, request, server, wire, control
    <3>2. CASE buffered = <<>> /\ (\E m \in Incoming : Take(m) /\ Hand(m)) /\ UNCHANGED buffered
      <4>1. PICK m \in Incoming : Take(m) /\ Hand(m)
        BY <3>2
      <4>2. msgs' \in Nat /\ bytes' \in Nat /\ bodyDone' \in BOOLEAN /\ gone' \in BOOLEAN
        BY <4>1, TakeTypes
      <4>3. appNo' \in Nat /\ appBytes' \in Nat
        BY <4>1, HandTypes, IncomingMessages
      <4> QED
        BY <2>2, <3>2, <4>2, <4>3, SMT DEF ReplayReceive, TypeOK, request, wire, control
    <3> QED
      BY <2>2, <3>1, <3>2 DEF ReplayReceive
  <2>3. CASE HandlerStart
    BY <2>3, SMT DEF HandlerStart, WireStart, TypeOK, request, server, control, inner
  <2>4. CASE HandlerBody
    BY <2>4, SMT DEF HandlerBody, WireBody, TypeOK, request, server, control, size, inner
  <2>5. CASE HandlerReturns
    BY <2>5, SMT DEF HandlerReturns, TypeOK, request, server, wire, size
  <2>6. CASE HandlerCrashes
    BY <2>6, SMT DEF HandlerCrashes, TypeOK, request, server, wire, size
  <2>7. CASE HandlerTooLarge
    BY <2>7, SMT DEF HandlerTooLarge, TypeOK, request, server, wire, size
  <2> QED
    BY <1>2, <2>1, <2>2, <2>3, <2>4, <2>5, <2>6, <2>7 DEF HandlerStep
<1>3. CASE ClientLeaves
  BY <1>3, SMT DEF ClientLeaves, TypeOK, request, wire, control, size, inner
<1>4. CASE Cancel
  BY <1>4, SMT DEF Cancel, Starting, TypeOK, request, server, wire, size, inner
<1>5. CASE UNCHANGED vars
  BY <1>5, SMT DEF vars, TypeOK, request, server, wire, control, size, inner
<1> QED
  BY <1>1, <1>2, <1>3, <1>4, <1>5 DEF Next, Terminated

(* Every reachable state is well typed.                                       *)
THEOREM TypeCorrect == Spec => []TypeOK
<1>1. Init => TypeOK
  BY InitTypes
<1>2. TypeOK /\ [Next]_vars => TypeOK'
  BY StepTypes
<1> QED
  BY <1>1, <1>2, PTL DEF Spec

--------------------------------------------------------------------------------
(* Counting: what the handler was given, and what is kept for it.             *)

(* A request message that passes the check is within the limit, and within    *)
(* the declared length when the server holds the body to it.                  *)
LEMMA TakeCounts ==
    ASSUME TypeOK, total = bytes, capped /\ declared >= 0 => bytes <= declared,
           NEW m \in Incoming, Take(m)
    PROVE  /\ Counted(m) = bytes'
           /\ capped /\ declared >= 0 => bytes' <= declared
           /\ m.kind = "request" => m.upto = bytes' /\ bodyDone' = ~m.more
           /\ m.kind # "request" => bytes' = bytes /\ bodyDone' = bodyDone /\ m.upto = bytes
           /\ m.kind # "request" => gone \/ ended
           /\ gone' = gone
<1>1. m \in Message /\ m.upto >= bytes /\ bytes + Size(m) = m.upto /\ Size(m) \in Nat
  BY IncomingMessages
<1>2. m.kind \in {"request", "disconnect"} /\ m.upto \in Nat
  BY <1>1 DEF Message
<1>3. CASE m.kind = "request"
  <2>1. bytes' = m.upto /\ bodyDone' = ~m.more /\ gone' = gone
    BY <1>3 DEF Take
  <2>2. ~(gone \/ ended)
    BY <1>3, IncomingMessages
  <2>3. capped /\ declared >= 0 => m.upto <= declared
    BY <2>2 DEF Incoming
  <2> QED
    BY <1>1, <1>3, <2>1, <2>3, SMT DEF Counted
<1>4. CASE m.kind # "request"
  <2>1. gone \/ ended
    BY <1>2, <1>4, IncomingMessages
  <2>2. m.upto = bytes
    BY <2>1 DEF Incoming, Disconnect
  <2> QED
    BY <1>4, <2>1, <2>2, SMT DEF Counted, Take
<1> QED
  BY <1>3, <1>4

LEMMA StepBody == Inv /\ [Next]_vars => BodyInv'
<1> SUFFICES ASSUME Inv, [Next]_vars PROVE BodyInv'
  OBVIOUS
<1> USE DEF Inv
<1>1. CASE DrainRefuses
  <2>1. PICK m \in Incoming : OverLimit(m) /\ Take(m) /\ total' = Counted(m)
    BY <1>1 DEF DrainRefuses
  <2>2. total' = bytes' /\ (capped /\ declared >= 0 => bytes' <= declared)
    BY <2>1, TakeCounts DEF BodyInv
  <2> QED
    BY <1>1, <2>2, SMT
    DEF DrainRefuses, AnswerWith, BodyInv, HandlerWaitsForBody, BodyWithinLimit, request,
        inner
<1>2. CASE DrainKeeps
  <2>1. PICK m \in Incoming :
           /\ ~OverLimit(m) /\ Take(m) /\ total' = Counted(m)
           /\ buffered' = Append(buffered, m)
           /\ IF DrainEnds(m) THEN pc' = "handler" /\ handler' = "running"
              ELSE UNCHANGED <<pc, handler>>
    BY <1>2 DEF DrainKeeps
  <2>2. /\ total' = bytes' /\ (capped /\ declared >= 0 => bytes' <= declared)
        /\ m.kind = "request" => m.upto = bytes' /\ bodyDone' = ~m.more
        /\ m.kind # "request" => bytes' = bytes /\ m.upto = bytes
        /\ m.kind # "request" => gone \/ ended
        /\ gone' = gone
    BY <2>1, TakeCounts DEF BodyInv
  <2>3. bytes' <= MaxBody /\ m.upto <= MaxBody
    <3>1. pc = "drain" /\ bytes <= MaxBody /\ Counted(m) = bytes'
      BY <1>2, <2>1, <2>2 DEF DrainKeeps, BodyInv
    <3>2. bytes' \in Nat /\ MaxBody \in Nat
      BY <2>1, TakeTypes, PipelineAssumptions
    <3>3. CASE m.kind = "request"
      BY <2>1, <2>2, <3>1, <3>2, <3>3, SMT DEF OverLimit
    <3>4. CASE m.kind # "request"
      BY <2>2, <3>1, <3>4
    <3> QED
      BY <3>3, <3>4
  <2>4. ~ended
    BY <1>2, SMT DEF DrainKeeps, WireInv
  <2>5. \A i \in DOMAIN buffered' : buffered'[i].upto <= MaxBody
    BY <2>1, <2>3, IncomingMessages, SMT DEF BodyInv, BodyWithinLimit, TypeOK
  <2>6. DrainEnds(m) => bodyDone' \/ gone'
    BY <2>2, <2>4 DEF DrainEnds
  <2>7. /\ pc = "drain" /\ mode' = mode /\ declared' = declared /\ capped' = capped
        /\ appBytes' = appBytes /\ raised' = raised
    BY <1>2 DEF DrainKeeps, request
  <2> QED
    BY <2>1, <2>2, <2>3, <2>5, <2>6, <2>7, SMT
    DEF BodyInv, HandlerWaitsForBody, BodyWithinLimit
<1>3. CASE LazyReceive
  <2>1. PICK m \in Incoming :
           /\ Take(m) /\ total' = Counted(m)
           /\ IF OverLimit(m) THEN raised' = TRUE /\ UNCHANGED <<appNo, appBytes>>
              ELSE Hand(m) /\ UNCHANGED raised
    BY <1>3 DEF LazyReceive
  <2>2. /\ total' = bytes' /\ (capped /\ declared >= 0 => bytes' <= declared)
        /\ m.kind = "request" => m.upto = bytes' /\ Counted(m) = bytes'
    BY <2>1, TakeCounts DEF BodyInv
  <2>3. m.upto \in Nat /\ bytes' \in Nat
    BY <2>1, TakeTypes, IncomingMessages DEF Message
  <2>4. /\ pc = "handler" /\ mode = "lazy" /\ declared \in 0..MaxBody
        /\ UNCHANGED <<declared, capped, pc, mode, buffered, handler>>
    BY <1>3, SMT DEF LazyReceive, BodyInv, request, control
  <2>5. appBytes' <= MaxBody /\ (raised' => ~capped)
    <3>1. CASE OverLimit(m)
      <4>1. bytes' > MaxBody
        BY <2>2, <3>1, SMT DEF OverLimit
      <4>2. ~capped
        BY <2>2, <2>3, <2>4, <4>1, PipelineAssumptions, SMT
      <4> QED
        BY <2>1, <3>1, <4>2, SMT DEF BodyInv, BodyWithinLimit
    <3>2. CASE ~OverLimit(m)
      <4>1. Hand(m) /\ raised' = raised
        BY <2>1, <3>2
      <4>2. m.kind = "request" => m.upto <= MaxBody
        BY <2>2, <2>3, <3>2, PipelineAssumptions, SMT DEF OverLimit
      <4> QED
        BY <4>1, <4>2, SMT DEF Hand, BodyInv, BodyWithinLimit
    <3> QED
      BY <3>1, <3>2
  <2> QED
    BY <2>2, <2>4, <2>5, SMT DEF BodyInv, HandlerWaitsForBody, BodyWithinLimit
<1>4. CASE ReplayReceive
  <2>1. /\ pc = "handler" /\ mode = "eager" /\ (bodyDone \/ gone)
        /\ UNCHANGED <<declared, capped, pc, mode, total, handler, raised>>
    BY <1>4, SMT DEF ReplayReceive, BodyInv, HandlerWaitsForBody, request, control
  <2>2. CASE buffered # <<>> /\ PopLeft /\ UNCHANGED server
    <3>1. /\ Head(buffered).upto <= MaxBody
          /\ \A i \in DOMAIN Tail(buffered) : Tail(buffered)[i].upto <= MaxBody
      BY <2>2, SMT DEF TypeOK, BodyInv, BodyWithinLimit
    <3> QED
      BY <2>1, <2>2, <3>1, SMT
      DEF PopLeft, Hand, BodyInv, HandlerWaitsForBody, BodyWithinLimit, server
  <2>3. CASE buffered = <<>> /\ (\E m \in Incoming : Take(m) /\ Hand(m)) /\ UNCHANGED buffered
    <3>1. PICK m \in Incoming : Take(m) /\ Hand(m)
      BY <2>3
    <3>2. m.kind # "request"
      BY <2>1, IncomingMessages, SMT DEF Message
    <3>3. bytes' = bytes /\ bodyDone' = bodyDone /\ gone' = gone /\ appBytes' = appBytes
      BY <3>1, <3>2 DEF Take, Hand
    <3> QED
      BY <2>1, <2>3, <3>3, SMT DEF BodyInv, HandlerWaitsForBody, BodyWithinLimit
  <2> QED
    BY <1>4, <2>2, <2>3 DEF ReplayReceive
<1>5. CASE RejectLength \/ LengthError \/ ServeLazily \/ ServeEagerly
  <2>1. UNCHANGED <<total, bytes, bodyDone, gone, declared, capped, buffered, appBytes, raised>>
    BY <1>5 DEF RejectLength, LengthError, ServeLazily, ServeEagerly, request, server,
                size, inner
  <2>2. total = 0 /\ bytes = 0 /\ mode = "none" /\ handler = "idle" /\ ~raised
    BY <1>5, <2>1
    DEF RejectLength, LengthError, ServeLazily, ServeEagerly, BodyInv
  <2>3. CASE RejectLength \/ LengthError
    BY <2>1, <2>2, <2>3, SMT
    DEF RejectLength, LengthError, AnswerWith, BodyInv, HandlerWaitsForBody,
        BodyWithinLimit, size, inner
  <2>4. CASE ServeLazily
    BY <2>1, <2>2, <2>4, SMT
    DEF ServeLazily, DeclaredFits, BodyInv, HandlerWaitsForBody, BodyWithinLimit
  <2>5. CASE ServeEagerly
    BY <2>1, <2>2, <2>5, PipelineAssumptions, SMT
    DEF ServeEagerly, FirstEager, BodyInv, HandlerWaitsForBody, BodyWithinLimit
  <2> QED
    BY <1>5, <2>3, <2>4, <2>5
<1>6. CASE \/ Gate \/ ReplyStart \/ ReplyBody \/ SizeCatches \/ BoundaryCatches
           \/ BoundaryStart \/ BoundaryBody \/ LogLine \/ Outer
  <2>1. UNCHANGED <<total, bytes, bodyDone, gone, declared, capped, buffered, appBytes,
                    raised, mode, handler>>
    BY <1>6 DEF Gate, ReplyStart, ReplyBody, SizeCatches, BoundaryCatches, BoundaryStart,
                BoundaryBody, LogLine, Outer, request, server, size, inner
  <2>2. /\ pc' = "length" => pc = "gate"
        /\ pc' \notin {"gate", "drain", "handler"}
    <3>1. CASE Gate
      BY <3>1 DEF Gate, AnswerWith
    <3>2. CASE SizeCatches \/ BoundaryCatches
      BY <3>2 DEF SizeCatches, BoundaryCatches, AnswerWith, Propagate
    <3>3. CASE \/ ReplyStart \/ ReplyBody \/ BoundaryStart \/ BoundaryBody \/ LogLine
               \/ Outer
      BY <3>3 DEF ReplyStart, ReplyBody, BoundaryStart, BoundaryBody, LogLine, Outer
    <3> QED
      BY <1>6, <3>1, <3>2, <3>3
  <2> QED
    BY <2>1, <2>2, SMT DEF BodyInv, HandlerWaitsForBody, BodyWithinLimit
<1>7. CASE \/ HandlerStart \/ HandlerBody \/ HandlerReturns \/ HandlerCrashes
           \/ HandlerTooLarge \/ Cancel
  <2>1. UNCHANGED <<total, bytes, bodyDone, gone, declared, capped, buffered, appBytes,
                    raised, mode>>
    BY <1>7 DEF HandlerStart, HandlerBody, HandlerReturns, HandlerCrashes,
                HandlerTooLarge, Cancel, request, server, size, inner
  <2>2. /\ pc' \notin {"gate", "length", "drain"}
        /\ pc' = "handler" => pc = "handler" /\ handler' = handler
        /\ handler' # "idle" => handler # "idle"
    <3>1. CASE HandlerStart \/ HandlerBody
      BY <3>1 DEF HandlerStart, HandlerBody, control, inner
    <3>2. CASE HandlerReturns \/ HandlerCrashes \/ HandlerTooLarge
      BY <3>2 DEF HandlerReturns, HandlerCrashes, HandlerTooLarge, BodyInv
    <3>3. CASE Cancel
      BY <3>3 DEF Cancel, inner
    <3> QED
      BY <1>7, <3>1, <3>2, <3>3
  <2> QED
    BY <2>1, <2>2, SMT DEF BodyInv, HandlerWaitsForBody, BodyWithinLimit
<1>8. CASE ClientLeaves
  BY <1>8, SMT DEF ClientLeaves, BodyInv, HandlerWaitsForBody, BodyWithinLimit, request,
                   control, size, inner
<1>9. CASE UNCHANGED vars
  BY <1>9, SMT DEF vars, BodyInv, HandlerWaitsForBody, BodyWithinLimit, request, server,
                   control, size, inner
<1> QED
  BY <1>1, <1>2, <1>3, <1>4, <1>5, <1>6, <1>7, <1>8, <1>9
  DEF Next, StackStep, HandlerStep, Terminated

--------------------------------------------------------------------------------
(* Control: where the request is, what the wire got, what each layer noted.   *)

ControlInv == WireInv /\ FlagInv /\ ExcInv /\ StatusInv /\ FailureInv /\ OversizeInv

(* A step that moves only the body leaves control alone.                      *)
LEMMA StepReceive ==
    ASSUME Inv, DrainRefuses \/ DrainKeeps \/ LazyReceive \/ ReplayReceive
    PROVE  ControlInv'
<1> USE DEF Inv
<1>1. CASE DrainRefuses
  <2>1. /\ pc = "drain" /\ pc' = "reply" /\ reply' = 413
        /\ UNCHANGED <<declared, capped, starts, wireStatus, shielded, ended, stray, exc,
                       status, line, ebStarted, mode, sizeStarted, handler, raised>>
    BY <1>1 DEF DrainRefuses, AnswerWith, request, wire, inner
  <2> QED
    BY <2>1, SMT DEF TypeOK, BodyInv, ControlInv, WireInv, FlagInv, ExcInv, StatusInv, FailureInv,
                     OversizeInv, Oversize, FramesInOrder, GateStatuses, NoStatus
<1>2. CASE DrainKeeps
  <2>1. PICK m \in Incoming : ~OverLimit(m) /\ Take(m) /\ total' = Counted(m)
    BY <1>2 DEF DrainKeeps
  <2>2. /\ pc = "drain" /\ pc' \in {"drain", "handler"}
        /\ pc' = "drain" => handler' = handler
        /\ pc' = "handler" => handler' = "running"
        /\ UNCHANGED <<declared, capped, starts, wireStatus, shielded, ended, stray, exc,
                       reply, status, line, ebStarted, mode, sizeStarted, raised>>
    BY <1>2 DEF DrainKeeps, request, wire
  <2>3. ~Oversize'
    <3>1. total = bytes /\ bytes <= MaxBody /\ mode = "eager" /\ ~Oversize
      BY <2>2, PipelineAssumptions, SMT DEF BodyInv, TypeOK, OversizeInv, Oversize
    <3>2. Counted(m) <= MaxBody
      BY <2>1, <3>1, IncomingMessages, CountTypes, PipelineAssumptions, SMT
      DEF OverLimit, Counted, Message
    <3> QED
      BY <2>1, <2>2, <3>1, <3>2, CountTypes, PipelineAssumptions, SMT DEF Oversize
  <2> QED
    BY <2>2, <2>3, SMT DEF TypeOK, BodyInv, ControlInv, WireInv, FlagInv, ExcInv, StatusInv,
                           FailureInv, OversizeInv, FramesInOrder
<1>3. CASE LazyReceive
  <2>1. /\ pc = "handler" /\ mode = "lazy" /\ declared \in 0..MaxBody
        /\ UNCHANGED <<declared, capped, starts, wireStatus, shielded, ended, stray, pc, exc,
                       reply, status, line, ebStarted, mode, sizeStarted, handler>>
    BY <1>3 DEF LazyReceive, BodyInv, request, wire, control
  <2>2. ~Oversize'
    BY <2>1, PipelineAssumptions, SMT DEF Oversize
  <2> QED
    BY <2>1, <2>2, SMT DEF TypeOK, BodyInv, ControlInv, WireInv, FlagInv, ExcInv, StatusInv,
                           FailureInv, OversizeInv, FramesInOrder
<1>4. CASE ReplayReceive
  <2>1. /\ pc = "handler" /\ mode = "eager"
        /\ UNCHANGED <<declared, capped, starts, wireStatus, shielded, ended, stray, pc, exc,
                       reply, status, line, ebStarted, mode, total, sizeStarted, handler,
                       raised>>
    BY <1>4 DEF ReplayReceive, request, wire, control
  <2> QED
    BY <2>1, SMT DEF TypeOK, BodyInv, ControlInv, WireInv, FlagInv, ExcInv, StatusInv, FailureInv,
                     OversizeInv, Oversize, FramesInOrder
<1> QED
  BY <1>1, <1>2, <1>3, <1>4

LEMMA StepControl == Inv /\ [Next]_vars => ControlInv'
<1> SUFFICES ASSUME Inv, [Next]_vars PROVE ControlInv'
  OBVIOUS
<1>0. TypeOK'
  BY StepTypes DEF Inv
<1>1. CASE Gate
  <2>1. /\ pc = "gate"
        /\ \/ pc' = "length" /\ reply' = reply
           \/ pc' = "reply" /\ reply' \in GateStatuses
        /\ UNCHANGED <<declared, capped, gone, starts, wireStatus, shielded, ended,
                       stray, exc, status, line, ebStarted, mode, total, sizeStarted,
                       handler, raised>>
    BY <1>1 DEF Gate, AnswerWith, request, server, wire, size, inner
  <2>2. WireInv'
    BY <1>0, <2>1, SMT DEF Inv, TypeOK, WireInv, FlagInv, FramesInOrder
  <2>3. FlagInv'
    BY <1>0, <2>1, SMT DEF Inv, TypeOK, BodyInv, WireInv, FlagInv, ExcInv
  <2>4. ExcInv'
    BY <1>0, <2>1, SMT DEF Inv, TypeOK, WireInv, FlagInv, ExcInv
  <2>5. StatusInv'
    BY <1>0, <2>1, SMT DEF Inv, TypeOK, WireInv, ExcInv, StatusInv, GateStatuses, NoStatus, NoLine
  <2>6. FailureInv'
    BY <1>0, <2>1, SMT DEF Inv, TypeOK, BodyInv, WireInv, FlagInv, ExcInv, StatusInv, FailureInv, NoStatus
  <2>7. OversizeInv'
    BY <1>0, <2>1, SMT DEF Inv, TypeOK, BodyInv, WireInv, ExcInv, StatusInv, OversizeInv, Oversize, NoStatus
  <2> QED
    BY <2>2, <2>3, <2>4, <2>5, <2>6, <2>7 DEF ControlInv
<1>2. CASE RejectLength
  <2>1. /\ pc = "length" /\ pc' = "reply" /\ reply' \in {400, 413}
        /\ declared > MaxBody => reply' = 413 \/ declared = Malformed
        /\ UNCHANGED <<declared, capped, gone, starts, wireStatus, shielded, ended,
                       stray, exc, status, line, ebStarted, mode, total, sizeStarted,
                       handler, raised>>
    BY <1>2 DEF RejectLength, AnswerWith, request, server, wire, size, inner
  <2>2. WireInv'
    BY <1>0, <2>1, SMT DEF Inv, TypeOK, WireInv, FlagInv, FramesInOrder
  <2>3. FlagInv'
    BY <1>0, <2>1, SMT DEF Inv, TypeOK, BodyInv, WireInv, FlagInv, ExcInv
  <2>4. ExcInv'
    BY <1>0, <2>1, SMT DEF Inv, TypeOK, WireInv, FlagInv, ExcInv
  <2>5. StatusInv'
    BY <1>0, <2>1, SMT DEF Inv, TypeOK, WireInv, ExcInv, StatusInv, GateStatuses, NoStatus, NoLine
  <2>6. FailureInv'
    BY <1>0, <2>1, SMT DEF Inv, TypeOK, BodyInv, WireInv, FlagInv, ExcInv, StatusInv, FailureInv, NoStatus
  <2>7. OversizeInv'
    BY <1>0, <2>1, SMT DEF Inv, TypeOK, BodyInv, WireInv, ExcInv, StatusInv, OversizeInv, Oversize, NoStatus
  <2> QED
    BY <2>2, <2>3, <2>4, <2>5, <2>6, <2>7 DEF ControlInv
<1>3. CASE LengthError
  <2>1. /\ pc = "length" /\ declared = Unparsable /\ pc' = "boundary" /\ exc' = "error"
        /\ UNCHANGED <<declared, capped, gone, starts, wireStatus, shielded, ended,
                       stray, reply, status, line, ebStarted, mode, total, sizeStarted,
                       handler, raised>>
    BY <1>3 DEF LengthError, request, server, wire, size, inner
  <2>a. ~Oversize'
    <3>1. mode = "none" /\ MaxBody \in Nat
      BY <2>1, PipelineAssumptions DEF Inv, BodyInv
    <3> QED
      BY <2>1, <3>1, SMT DEF Oversize, Unparsable
  <2>2. WireInv'
    BY <1>0, <2>1, <2>a, SMT DEF Inv, TypeOK, WireInv, FlagInv, FramesInOrder
  <2>3. FlagInv'
    BY <1>0, <2>1, <2>a, SMT DEF Inv, TypeOK, BodyInv, WireInv, FlagInv, ExcInv
  <2>4. ExcInv'
    BY <1>0, <2>1, <2>a, SMT DEF Inv, TypeOK, WireInv, FlagInv, ExcInv
  <2>5. StatusInv'
    BY <1>0, <2>1, <2>a, SMT DEF Inv, TypeOK, WireInv, ExcInv, StatusInv, GateStatuses, NoStatus, NoLine
  <2>6. FailureInv'
    BY <1>0, <2>1, <2>a, SMT DEF Inv, TypeOK, BodyInv, WireInv, FlagInv, ExcInv, StatusInv, FailureInv, NoStatus
  <2>7. OversizeInv'
    BY <1>0, <2>1, <2>a, SMT DEF Inv, TypeOK, BodyInv, WireInv, ExcInv, StatusInv, OversizeInv, Oversize, NoStatus
  <2> QED
    BY <2>2, <2>3, <2>4, <2>5, <2>6, <2>7 DEF ControlInv
<1>4. CASE ServeLazily
  <2>1. /\ pc = "length" /\ declared \in 0..MaxBody /\ mode' = "lazy"
        /\ pc' = "handler" /\ handler' = "running"
        /\ UNCHANGED <<declared, capped, gone, starts, wireStatus, shielded, ended,
                       stray, exc, reply, status, line, ebStarted, total, sizeStarted,
                       raised>>
    BY <1>4 DEF ServeLazily, DeclaredFits, request, server, wire
  <2>a. ~Oversize'
    BY <2>1, PipelineAssumptions, SMT DEF Oversize
  <2>2. WireInv'
    BY <1>0, <2>1, <2>a, SMT DEF Inv, TypeOK, WireInv, FlagInv, FramesInOrder
  <2>3. FlagInv'
    BY <1>0, <2>1, <2>a, SMT DEF Inv, TypeOK, BodyInv, WireInv, FlagInv, ExcInv
  <2>4. ExcInv'
    BY <1>0, <2>1, <2>a, SMT DEF Inv, TypeOK, WireInv, FlagInv, ExcInv
  <2>5. StatusInv'
    BY <1>0, <2>1, <2>a, SMT DEF Inv, TypeOK, WireInv, ExcInv, StatusInv, GateStatuses, NoStatus, NoLine
  <2>6. FailureInv'
    BY <1>0, <2>1, <2>a, SMT DEF Inv, TypeOK, BodyInv, WireInv, FlagInv, ExcInv, StatusInv, FailureInv, NoStatus
  <2>7. OversizeInv'
    BY <1>0, <2>1, <2>a, SMT DEF Inv, TypeOK, BodyInv, WireInv, ExcInv, StatusInv, OversizeInv, Oversize, NoStatus
  <2> QED
    BY <2>2, <2>3, <2>4, <2>5, <2>6, <2>7 DEF ControlInv
<1>5. CASE ServeEagerly
  <2>1. /\ pc = "length" /\ declared = Absent /\ mode' = "eager" /\ pc' = "drain"
        /\ UNCHANGED <<declared, capped, gone, starts, wireStatus, shielded, ended,
                       stray, exc, reply, status, line, ebStarted, total, sizeStarted,
                       handler, raised>>
    BY <1>5 DEF ServeEagerly, FirstEager, request, server, wire
  <2>a. ~Oversize'
    <3>1. total = 0 /\ MaxBody \in Nat
      BY <2>1, PipelineAssumptions DEF Inv, BodyInv
    <3> QED
      BY <2>1, <3>1, SMT DEF Oversize, Absent
  <2>2. WireInv'
    BY <1>0, <2>1, <2>a, SMT DEF Inv, TypeOK, WireInv, FlagInv, FramesInOrder
  <2>3. FlagInv'
    BY <1>0, <2>1, <2>a, SMT DEF Inv, TypeOK, BodyInv, WireInv, FlagInv, ExcInv
  <2>4. ExcInv'
    BY <1>0, <2>1, <2>a, SMT DEF Inv, TypeOK, WireInv, FlagInv, ExcInv
  <2>5. StatusInv'
    BY <1>0, <2>1, <2>a, SMT DEF Inv, TypeOK, WireInv, ExcInv, StatusInv, GateStatuses, NoStatus, NoLine
  <2>6. FailureInv'
    BY <1>0, <2>1, <2>a, SMT DEF Inv, TypeOK, BodyInv, WireInv, FlagInv, ExcInv, StatusInv, FailureInv, NoStatus
  <2>7. OversizeInv'
    BY <1>0, <2>1, <2>a, SMT DEF Inv, TypeOK, BodyInv, WireInv, ExcInv, StatusInv, OversizeInv, Oversize, NoStatus
  <2> QED
    BY <2>2, <2>3, <2>4, <2>5, <2>6, <2>7 DEF ControlInv
<1>6. CASE DrainRefuses \/ DrainKeeps \/ LazyReceive \/ ReplayReceive
  BY <1>6, StepReceive
<1>7. CASE ReplyStart
  <2>1. /\ pc = "reply" /\ pc' = "replyBody" /\ starts' = starts + 1
        /\ wireStatus' = IF starts = 0 THEN reply ELSE wireStatus
        /\ shielded' = (shielded /\ TRUE) /\ stray' = (stray \/ starts # 0)
        /\ ebStarted' = TRUE /\ status' = reply
        /\ UNCHANGED <<declared, capped, gone, ended, exc, reply, line, mode, total,
                       sizeStarted, handler, raised>>
    BY <1>7 DEF ReplyStart, WireStart, request, server, size, inner
  <2>a. starts = 0 /\ ~stray /\ ~ended /\ starts' = 1 /\ wireStatus' = reply
    BY <2>1, SMT DEF Inv, WireInv, FramesInOrder
  <2>b. ~stray' /\ shielded' = shielded /\ reply # NoStatus
    BY <1>0, <2>1, <2>a DEF Inv, StatusInv, TypeOK
  <2>2. WireInv'
    <3>1. FramesInOrder'
      BY <2>b DEF FramesInOrder
    <3>2. shielded' /\ ~ended'
      BY <2>1, <2>a, <2>b DEF Inv, WireInv
    <3>3. pc' = "replyBody" /\ starts' = 1 /\ wireStatus' # NoStatus
      BY <2>1, <2>a, <2>b
    <3> QED
      BY <3>1, <3>2, <3>3 DEF WireInv
  <2>3. FlagInv'
    BY <1>0, <2>1, <2>a, <2>b, SMT DEF Inv, TypeOK, BodyInv, WireInv, FlagInv, ExcInv
  <2>4. ExcInv'
    BY <1>0, <2>1, <2>a, <2>b, SMT DEF Inv, TypeOK, WireInv, FlagInv, ExcInv
  <2>5. StatusInv'
    BY <1>0, <2>1, <2>a, <2>b, SMT DEF Inv, TypeOK, WireInv, ExcInv, StatusInv, GateStatuses, NoStatus, NoLine
  <2>6. FailureInv'
    BY <1>0, <2>1, <2>a, <2>b, SMT DEF Inv, TypeOK, BodyInv, WireInv, FlagInv, ExcInv, StatusInv, FailureInv, NoStatus
  <2>7. OversizeInv'
    BY <1>0, <2>1, <2>a, <2>b, SMT DEF Inv, TypeOK, BodyInv, WireInv, ExcInv, StatusInv, OversizeInv, Oversize, NoStatus
  <2> QED
    BY <2>2, <2>3, <2>4, <2>5, <2>6, <2>7 DEF ControlInv
<1>8. CASE ReplyBody
  <2>1. /\ pc = "replyBody" /\ pc' = "context"
        /\ ended' = (ended \/ TRUE) /\ stray' = (stray \/ ended \/ starts = 0)
        /\ UNCHANGED <<declared, capped, gone, starts, wireStatus, shielded, exc, reply,
                       status, line, ebStarted, mode, total, sizeStarted, handler,
                       raised>>
    BY <1>8 DEF ReplyBody, WireBody, request, server, size, inner
  <2>a. starts = 1 /\ ~ended
    BY <2>1, SMT DEF Inv, WireInv
  <2>2. WireInv'
    BY <1>0, <2>1, <2>a, SMT DEF Inv, TypeOK, WireInv, FlagInv, FramesInOrder
  <2>3. FlagInv'
    BY <1>0, <2>1, <2>a, SMT DEF Inv, TypeOK, BodyInv, WireInv, FlagInv, ExcInv
  <2>4. ExcInv'
    BY <1>0, <2>1, <2>a, SMT DEF Inv, TypeOK, WireInv, FlagInv, ExcInv
  <2>5. StatusInv'
    BY <1>0, <2>1, <2>a, SMT DEF Inv, TypeOK, WireInv, ExcInv, StatusInv, GateStatuses, NoStatus, NoLine
  <2>6. FailureInv'
    BY <1>0, <2>1, <2>a, SMT DEF Inv, TypeOK, BodyInv, WireInv, FlagInv, ExcInv, StatusInv, FailureInv, NoStatus
  <2>7. OversizeInv'
    BY <1>0, <2>1, <2>a, SMT DEF Inv, TypeOK, BodyInv, WireInv, ExcInv, StatusInv, OversizeInv, Oversize, NoStatus
  <2> QED
    BY <2>2, <2>3, <2>4, <2>5, <2>6, <2>7 DEF ControlInv
<1>9. CASE SizeCatches
  <2>1. /\ pc = "size"
        /\ UNCHANGED <<declared, capped, gone, status, line, ebStarted, mode, total,
                       sizeStarted, handler, raised>>
    BY <1>9 DEF SizeCatches, request, server, size, inner
  <2>2. /\ mode = "lazy" /\ handler = "toolarge" /\ ~capped
        /\ sizeStarted = (starts = 1) /\ starts \in {0, 1}
    BY <2>1 DEF Inv, BodyInv, FlagInv, WireInv
  <2>3. CASE ~sizeStarted
    <3>1. /\ pc' = "reply" /\ reply' = 413 /\ exc' = "none"
          /\ UNCHANGED <<starts, wireStatus, shielded, ended, stray>>
      BY <1>9, <2>3 DEF SizeCatches, TooLateFor413, AnswerWith, wire
    <3>11. WireInv'
      <4>1. starts = 0 /\ ~ended /\ shielded /\ ~stray
        BY <2>1, <2>2, <2>3 DEF Inv, WireInv, FramesInOrder
      <4>2. FramesInOrder'
        BY <3>1, <4>1 DEF FramesInOrder
      <4> QED
        BY <3>1, <4>1, <4>2 DEF Inv, WireInv
    <3>12. FlagInv'
      BY <1>0, <2>1, <2>2, <2>3, <3>1, SMT DEF Inv, TypeOK, BodyInv, WireInv, FlagInv, ExcInv
    <3>13. ExcInv'
      BY <1>0, <2>1, <2>2, <2>3, <3>1, SMT DEF Inv, TypeOK, WireInv, FlagInv, ExcInv
    <3>14. StatusInv'
      BY <1>0, <2>1, <2>2, <2>3, <3>1, SMT DEF Inv, TypeOK, WireInv, ExcInv, StatusInv, GateStatuses, NoStatus, NoLine
    <3>15. FailureInv'
      BY <1>0, <2>1, <2>2, <2>3, <3>1, SMT DEF Inv, TypeOK, BodyInv, WireInv, FlagInv, ExcInv, StatusInv, FailureInv, NoStatus
    <3>16. OversizeInv'
      BY <1>0, <2>1, <2>2, <2>3, <3>1, SMT DEF Inv, TypeOK, BodyInv, WireInv, ExcInv, StatusInv, OversizeInv, Oversize, NoStatus
    <3> QED
      BY <3>11, <3>12, <3>13, <3>14, <3>15, <3>16 DEF ControlInv
  <2>4. CASE sizeStarted
    <3>1. /\ ended' = (ended \/ TRUE) /\ stray' = (stray \/ ended \/ starts = 0)
          /\ UNCHANGED <<starts, wireStatus, shielded, reply>>
          /\ exc' = IF BodySendRaises THEN "error" ELSE "none"
          /\ pc' = IF BodySendRaises THEN "boundary" ELSE "context"
      BY <1>9, <2>4 DEF SizeCatches, TooLateFor413, WireBody
    <3>11. WireInv'
      BY <1>0, <2>1, <2>2, <2>4, <3>1, SMT DEF Inv, TypeOK, WireInv, FlagInv, FramesInOrder
    <3>12. FlagInv'
      BY <1>0, <2>1, <2>2, <2>4, <3>1, SMT DEF Inv, TypeOK, BodyInv, WireInv, FlagInv, ExcInv
    <3>13. ExcInv'
      BY <1>0, <2>1, <2>2, <2>4, <3>1, SMT DEF Inv, TypeOK, WireInv, FlagInv, ExcInv
    <3>14. StatusInv'
      BY <1>0, <2>1, <2>2, <2>4, <3>1, SMT DEF Inv, TypeOK, WireInv, ExcInv, StatusInv, GateStatuses, NoStatus, NoLine
    <3>15. FailureInv'
      BY <1>0, <2>1, <2>2, <2>4, <3>1, SMT DEF Inv, TypeOK, BodyInv, WireInv, FlagInv, ExcInv, StatusInv, FailureInv, NoStatus
    <3>16. OversizeInv'
      BY <1>0, <2>1, <2>2, <2>4, <3>1, SMT DEF Inv, TypeOK, BodyInv, WireInv, ExcInv, StatusInv, OversizeInv, Oversize, NoStatus
    <3> QED
      BY <3>11, <3>12, <3>13, <3>14, <3>15, <3>16 DEF ControlInv
  <2> QED
    BY <2>3, <2>4
<1>10. CASE BoundaryCatches
  <2>1. /\ pc = "boundary"
        /\ IF ebStarted THEN pc' = "context" /\ exc' = exc ELSE pc' = "fail" /\ exc' = "none"
        /\ UNCHANGED <<declared, capped, gone, starts, wireStatus, shielded, ended,
                       stray, reply, status, line, ebStarted, mode, total, sizeStarted,
                       handler, raised>>
    BY <1>10 DEF BoundaryCatches, ReRaises, Propagate, request, server, wire, size, inner
  <2>a. exc = "error" /\ ebStarted = (starts = 1)
    BY <2>1, SMT DEF Inv, ExcInv, FlagInv
  <2>2. WireInv'
    <3>1. FramesInOrder'
      BY <2>1 DEF Inv, WireInv, FramesInOrder
    <3>2. /\ pc' \in {"context", "fail"} /\ shielded
          /\ pc' = "fail" => starts = 0
      BY <2>1, <2>a DEF Inv, WireInv
    <3> QED
      BY <2>1, <3>1, <3>2 DEF Inv, WireInv
  <2>3. FlagInv'
    BY <1>0, <2>1, <2>a, SMT DEF Inv, TypeOK, BodyInv, WireInv, FlagInv, ExcInv
  <2>4. ExcInv'
    BY <1>0, <2>1, <2>a, SMT DEF Inv, TypeOK, WireInv, FlagInv, ExcInv
  <2>5. StatusInv'
    BY <1>0, <2>1, <2>a, SMT DEF Inv, TypeOK, WireInv, ExcInv, StatusInv, GateStatuses, NoStatus, NoLine
  <2>6. FailureInv'
    BY <1>0, <2>1, <2>a, SMT DEF Inv, TypeOK, BodyInv, WireInv, FlagInv, ExcInv, StatusInv, FailureInv, NoStatus
  <2>7. OversizeInv'
    BY <1>0, <2>1, <2>a, SMT DEF Inv, TypeOK, BodyInv, WireInv, ExcInv, StatusInv, OversizeInv, Oversize, NoStatus
  <2> QED
    BY <2>2, <2>3, <2>4, <2>5, <2>6, <2>7 DEF ControlInv
<1>11. CASE BoundaryStart
  <2>1. /\ pc = "fail" /\ pc' = "failBody" /\ starts' = starts + 1
        /\ wireStatus' = IF starts = 0 THEN 500 ELSE wireStatus
        /\ shielded' = (shielded /\ TRUE) /\ stray' = (stray \/ starts # 0)
        /\ status' = 500
        /\ UNCHANGED <<declared, capped, gone, ended, exc, reply, line, ebStarted, mode,
                       total, sizeStarted, handler, raised>>
    BY <1>11 DEF BoundaryStart, WireStart, request, server, size, inner
  <2>a. starts = 0 /\ ~stray /\ ~ended /\ ~ebStarted /\ starts' = 1 /\ wireStatus' = 500
    BY <2>1, SMT DEF Inv, WireInv, FlagInv, FramesInOrder
  <2>b. ~stray' /\ shielded' = shielded /\ 500 # NoStatus
    BY <1>0, <2>1, <2>a, StatusTypes DEF Inv, TypeOK
  <2>2. WireInv'
    <3>1. FramesInOrder'
      BY <2>b DEF FramesInOrder
    <3>2. shielded' /\ ~ended'
      BY <2>1, <2>a, <2>b DEF Inv, WireInv
    <3>3. pc' = "failBody" /\ starts' = 1 /\ wireStatus' # NoStatus
      BY <2>1, <2>a, <2>b
    <3> QED
      BY <3>1, <3>2, <3>3 DEF WireInv
  <2>3. FlagInv'
    BY <1>0, <2>1, <2>a, <2>b, SMT DEF Inv, TypeOK, BodyInv, WireInv, FlagInv, ExcInv
  <2>4. ExcInv'
    BY <1>0, <2>1, <2>a, <2>b, SMT DEF Inv, TypeOK, WireInv, FlagInv, ExcInv
  <2>5. StatusInv'
    BY <1>0, <2>1, <2>a, <2>b, SMT DEF Inv, TypeOK, WireInv, ExcInv, StatusInv, GateStatuses, NoStatus, NoLine
  <2>6. FailureInv'
    BY <1>0, <2>1, <2>a, <2>b, SMT DEF Inv, TypeOK, BodyInv, WireInv, FlagInv, ExcInv, StatusInv, FailureInv, NoStatus
  <2>7. OversizeInv'
    BY <1>0, <2>1, <2>a, <2>b, SMT DEF Inv, TypeOK, BodyInv, WireInv, ExcInv, StatusInv, OversizeInv, Oversize, NoStatus
  <2> QED
    BY <2>2, <2>3, <2>4, <2>5, <2>6, <2>7 DEF ControlInv
<1>12. CASE BoundaryBody
  <2>1. /\ pc = "failBody" /\ pc' = "context"
        /\ ended' = (ended \/ TRUE) /\ stray' = (stray \/ ended \/ starts = 0)
        /\ UNCHANGED <<declared, capped, gone, starts, wireStatus, shielded, exc, reply,
                       status, line, ebStarted, mode, total, sizeStarted, handler,
                       raised>>
    BY <1>12 DEF BoundaryBody, WireBody, request, server, size, inner
  <2>a. starts = 1 /\ ~ended
    BY <2>1, SMT DEF Inv, WireInv
  <2>2. WireInv'
    BY <1>0, <2>1, <2>a, SMT DEF Inv, TypeOK, WireInv, FlagInv, FramesInOrder
  <2>3. FlagInv'
    BY <1>0, <2>1, <2>a, SMT DEF Inv, TypeOK, BodyInv, WireInv, FlagInv, ExcInv
  <2>4. ExcInv'
    BY <1>0, <2>1, <2>a, SMT DEF Inv, TypeOK, WireInv, FlagInv, ExcInv
  <2>5. StatusInv'
    BY <1>0, <2>1, <2>a, SMT DEF Inv, TypeOK, WireInv, ExcInv, StatusInv, GateStatuses, NoStatus, NoLine
  <2>6. FailureInv'
    <3>1. handler # "toolarge" \/ sizeStarted
      BY <2>1 DEF Inv, FailureInv
    <3>2. ended' /\ exc = "none"
      <4>1. ended'
        BY <2>1
      <4>2. exc = "none"
        BY <2>1 DEF Inv, TypeOK, ExcInv
      <4> QED
        BY <4>1, <4>2
    <3>3. handler = "crashed" => ~ebStarted /\ wireStatus = 500
      BY <2>1, <3>2 DEF Inv, FailureInv
    <3> QED
      BY <2>1, <3>1, <3>2, <3>3 DEF FailureInv
  <2>7. OversizeInv'
    BY <1>0, <2>1, <2>a, SMT DEF Inv, TypeOK, BodyInv, WireInv, ExcInv, StatusInv, OversizeInv, Oversize, NoStatus
  <2> QED
    BY <2>2, <2>3, <2>4, <2>5, <2>6, <2>7 DEF ControlInv
<1>13. CASE LogLine
  <2>1. /\ pc = "context" /\ pc' = "outer" /\ line' = status'
        /\ status' = IF exc = "error" /\ status = NoStatus THEN 500 ELSE status
        /\ UNCHANGED <<declared, capped, gone, starts, wireStatus, shielded, ended,
                       stray, exc, reply, ebStarted, mode, total, sizeStarted, handler,
                       raised>>
    BY <1>13 DEF LogLine, FinalStatus, request, server, wire, size, inner
  <2>a. status' = status
    BY <2>1, SMT DEF Inv, ExcInv, StatusInv, WireInv, NoStatus
  <2>2. WireInv'
    BY <1>0, <2>1, <2>a, SMT DEF Inv, TypeOK, WireInv, FlagInv, FramesInOrder
  <2>3. FlagInv'
    BY <1>0, <2>1, <2>a, SMT DEF Inv, TypeOK, BodyInv, WireInv, FlagInv, ExcInv
  <2>4. ExcInv'
    BY <1>0, <2>1, <2>a, SMT DEF Inv, TypeOK, WireInv, FlagInv, ExcInv
  <2>5. StatusInv'
    <3>1. line' = status /\ status \in Statuses \cup {NoStatus}
      BY <2>1, <2>a DEF Inv, TypeOK
    <3>2. line' # NoLine
      BY <3>1, StatusTypes DEF NoStatus, NoLine
    <3> QED
      BY <2>1, <2>a, <3>1, <3>2 DEF Inv, StatusInv
  <2>6. FailureInv'
    BY <1>0, <2>1, <2>a, SMT DEF Inv, TypeOK, BodyInv, WireInv, FlagInv, ExcInv, StatusInv, FailureInv, NoStatus
  <2>7. OversizeInv'
    BY <1>0, <2>1, <2>a, SMT DEF Inv, TypeOK, BodyInv, WireInv, ExcInv, StatusInv, OversizeInv, Oversize, NoStatus
  <2> QED
    BY <2>2, <2>3, <2>4, <2>5, <2>6, <2>7 DEF ControlInv
<1>14. CASE Outer
  <2>1. /\ pc = "outer" /\ pc' = "done"
        /\ UNCHANGED <<declared, capped, gone, exc, reply, status, line, ebStarted, mode,
                       total, sizeStarted, handler, raised>>
    BY <1>14 DEF Outer, request, server, size, inner
  <2>2. CASE UNCHANGED wire
    <3>1. UNCHANGED <<starts, wireStatus, shielded, ended, stray>>
      BY <2>2 DEF wire
    <3>11. WireInv'
      BY <1>0, <2>1, <3>1, SMT DEF Inv, TypeOK, WireInv, FlagInv, FramesInOrder
    <3>12. FlagInv'
      BY <1>0, <2>1, <3>1, SMT DEF Inv, TypeOK, BodyInv, WireInv, FlagInv, ExcInv
    <3>13. ExcInv'
      BY <1>0, <2>1, <3>1, SMT DEF Inv, TypeOK, WireInv, FlagInv, ExcInv
    <3>14. StatusInv'
      BY <1>0, <2>1, <3>1, SMT DEF Inv, TypeOK, WireInv, ExcInv, StatusInv, GateStatuses, NoStatus, NoLine
    <3>15. FailureInv'
      BY <1>0, <2>1, <3>1, SMT DEF Inv, TypeOK, BodyInv, WireInv, FlagInv, ExcInv, StatusInv, FailureInv, NoStatus
    <3>16. OversizeInv'
      BY <1>0, <2>1, <3>1, SMT DEF Inv, TypeOK, BodyInv, WireInv, ExcInv, StatusInv, OversizeInv, Oversize, NoStatus
    <3> QED
      BY <3>11, <3>12, <3>13, <3>14, <3>15, <3>16 DEF ControlInv
  <2>3. CASE ~UNCHANGED wire
    <3>1. /\ starts = 0 /\ (exc = "error" \/ ~gone)
          /\ starts' = 1 /\ wireStatus' = 500 /\ ended' = TRUE /\ stray' = stray
      BY <1>14, <2>3 DEF Outer
    <3>2. exc = "cancel"
      BY <1>0, <2>1, <3>1, SMT DEF Inv, TypeOK, ExcInv
    <3>11. WireInv'
      <4>1. ~stray
        BY <3>1, SMT DEF Inv, WireInv, FramesInOrder
      <4>2. FramesInOrder'
        BY <3>1, <4>1 DEF FramesInOrder
      <4> QED
        BY <2>1, <3>1, <3>2, <4>2, StatusTypes DEF WireInv
    <3>12. FlagInv'
      BY <1>0, <2>1, <3>1, <3>2, SMT DEF Inv, TypeOK, BodyInv, WireInv, FlagInv, ExcInv
    <3>13. ExcInv'
      BY <1>0, <2>1, <3>1, <3>2, SMT DEF Inv, TypeOK, WireInv, FlagInv, ExcInv
    <3>14. StatusInv'
      BY <1>0, <2>1, <3>1, <3>2, SMT DEF Inv, TypeOK, WireInv, ExcInv, StatusInv, GateStatuses, NoStatus, NoLine
    <3>15. FailureInv'
      BY <1>0, <2>1, <3>1, <3>2, SMT DEF Inv, TypeOK, BodyInv, WireInv, FlagInv, ExcInv, StatusInv, FailureInv, NoStatus
    <3>16. OversizeInv'
      BY <1>0, <2>1, <3>1, <3>2, SMT DEF Inv, TypeOK, BodyInv, WireInv, ExcInv, StatusInv, OversizeInv, Oversize, NoStatus
    <3> QED
      BY <3>11, <3>12, <3>13, <3>14, <3>15, <3>16 DEF ControlInv
  <2> QED
    BY <2>2, <2>3
<1>15. CASE HandlerStart
  <2>1. /\ pc = "handler" /\ starts = 0 /\ starts' = 1
        /\ wireStatus' \in AppStatuses /\ status' = wireStatus'
        /\ shielded' = (shielded /\ TRUE) /\ stray' = (stray \/ starts # 0)
        /\ ebStarted' = TRUE /\ sizeStarted' = (mode = "lazy")
        /\ UNCHANGED <<declared, capped, gone, ended, pc, exc, reply, line, mode, total,
                       handler, raised>>
    BY <1>15 DEF HandlerStart, WireStart, request, server, control, inner
  <2>a. wireStatus' # NoStatus /\ ~stray /\ ~ended
    BY <2>1, StatusTypes DEF Inv, WireInv, FramesInOrder
  <2>b. ~stray' /\ shielded' = shielded /\ (sizeStarted' <=> mode = "lazy")
    BY <1>0, <2>1, <2>a DEF Inv, TypeOK
  <2>2. WireInv'
    <3>1. FramesInOrder'
      BY <2>b DEF FramesInOrder
    <3>2. shielded' /\ ~ended'
      BY <2>1, <2>a, <2>b DEF Inv, WireInv
    <3>3. pc' = "handler" /\ starts' = 1 /\ wireStatus' # NoStatus
      BY <2>1, <2>a, <2>b
    <3> QED
      BY <3>1, <3>2, <3>3 DEF WireInv
  <2>3. FlagInv'
    <3>1. pc' = "handler" /\ starts' = 1 /\ ebStarted' = TRUE
      BY <2>1
    <3>2. mode' = "lazy" => sizeStarted' = TRUE
      BY <2>1
    <3>3. mode' # "lazy" => ~sizeStarted'
      BY <2>1
    <3> QED
      BY <3>1, <3>2, <3>3 DEF FlagInv
  <2>4. ExcInv'
    BY <1>0, <2>1, <2>a, <2>b, SMT DEF Inv, TypeOK, WireInv, FlagInv, ExcInv
  <2>5. StatusInv'
    BY <1>0, <2>1, <2>a, <2>b, SMT DEF Inv, TypeOK, WireInv, ExcInv, StatusInv, GateStatuses, NoStatus, NoLine
  <2>6. FailureInv'
    BY <1>0, <2>1, <2>a, <2>b, SMT DEF Inv, TypeOK, BodyInv, WireInv, FlagInv, ExcInv, StatusInv, FailureInv, NoStatus
  <2>7. OversizeInv'
    BY <1>0, <2>1, <2>a, <2>b, SMT DEF Inv, TypeOK, BodyInv, WireInv, ExcInv, StatusInv, OversizeInv, Oversize, NoStatus
  <2> QED
    BY <2>2, <2>3, <2>4, <2>5, <2>6, <2>7 DEF ControlInv
<1>16. CASE HandlerBody
  <2>1. /\ pc = "handler" /\ starts # 0 /\ ~ended
        /\ ended' = (ended \/ TRUE) /\ stray' = (stray \/ ended \/ starts = 0)
        /\ UNCHANGED <<declared, capped, gone, starts, wireStatus, shielded, pc, exc,
                       reply, status, line, ebStarted, mode, total, sizeStarted, handler,
                       raised>>
    BY <1>16 DEF HandlerBody, WireBody, request, server, control, size, inner
  <2>a. starts = 1
    BY <2>1, SMT DEF Inv, WireInv
  <2>2. WireInv'
    BY <1>0, <2>1, <2>a, SMT DEF Inv, TypeOK, WireInv, FlagInv, FramesInOrder
  <2>3. FlagInv'
    BY <1>0, <2>1, <2>a, SMT DEF Inv, TypeOK, BodyInv, WireInv, FlagInv, ExcInv
  <2>4. ExcInv'
    BY <1>0, <2>1, <2>a, SMT DEF Inv, TypeOK, WireInv, FlagInv, ExcInv
  <2>5. StatusInv'
    BY <1>0, <2>1, <2>a, SMT DEF Inv, TypeOK, WireInv, ExcInv, StatusInv, GateStatuses, NoStatus, NoLine
  <2>6. FailureInv'
    BY <1>0, <2>1, <2>a, SMT DEF Inv, TypeOK, BodyInv, WireInv, FlagInv, ExcInv, StatusInv, FailureInv, NoStatus
  <2>7. OversizeInv'
    BY <1>0, <2>1, <2>a, SMT DEF Inv, TypeOK, BodyInv, WireInv, ExcInv, StatusInv, OversizeInv, Oversize, NoStatus
  <2> QED
    BY <2>2, <2>3, <2>4, <2>5, <2>6, <2>7 DEF ControlInv
<1>17. CASE HandlerReturns
  <2>1. /\ pc = "handler" /\ (ended \/ gone) /\ pc' = "context" /\ handler' = "returned"
        /\ UNCHANGED <<declared, capped, gone, starts, wireStatus, shielded, ended,
                       stray, exc, reply, status, line, ebStarted, mode, total,
                       sizeStarted, raised>>
    BY <1>17 DEF HandlerReturns, request, server, wire, size
  <2>2. WireInv'
    <3>1. ~stray /\ ~stray'
      BY <2>1, SMT DEF Inv, BodyInv, WireInv, FramesInOrder
    <3>2. FramesInOrder'
      BY <3>1 DEF FramesInOrder
    <3> QED
      BY <2>1, <3>2, SMT DEF Inv, WireInv
  <2>3. FlagInv'
    BY <1>0, <2>1, SMT DEF Inv, TypeOK, BodyInv, WireInv, FlagInv, ExcInv
  <2>4. ExcInv'
    BY <1>0, <2>1, SMT DEF Inv, TypeOK, WireInv, FlagInv, ExcInv
  <2>5. StatusInv'
    BY <1>0, <2>1, SMT DEF Inv, TypeOK, WireInv, ExcInv, StatusInv, GateStatuses, NoStatus, NoLine
  <2>6. FailureInv'
    BY <1>0, <2>1, SMT DEF Inv, TypeOK, BodyInv, WireInv, FlagInv, ExcInv, StatusInv, FailureInv, NoStatus
  <2>7. OversizeInv'
    BY <1>0, <2>1, SMT DEF Inv, TypeOK, BodyInv, WireInv, ExcInv, StatusInv, OversizeInv, Oversize, NoStatus
  <2> QED
    BY <2>2, <2>3, <2>4, <2>5, <2>6, <2>7 DEF ControlInv
<1>18. CASE HandlerCrashes
  <2>1. /\ pc = "handler" /\ pc' = "boundary" /\ exc' = "error" /\ handler' = "crashed"
        /\ UNCHANGED <<declared, capped, gone, starts, wireStatus, shielded, ended,
                       stray, reply, status, line, ebStarted, mode, total, sizeStarted,
                       raised>>
    BY <1>18 DEF HandlerCrashes, request, server, wire, size
  <2>2. WireInv'
    <3>1. ~stray /\ ~stray'
      BY <2>1, SMT DEF Inv, BodyInv, WireInv, FramesInOrder
    <3>2. FramesInOrder'
      BY <3>1 DEF FramesInOrder
    <3> QED
      BY <2>1, <3>2, SMT DEF Inv, WireInv
  <2>3. FlagInv'
    BY <1>0, <2>1, SMT DEF Inv, TypeOK, BodyInv, WireInv, FlagInv, ExcInv
  <2>4. ExcInv'
    BY <1>0, <2>1, SMT DEF Inv, TypeOK, WireInv, FlagInv, ExcInv
  <2>5. StatusInv'
    BY <1>0, <2>1, SMT DEF Inv, TypeOK, WireInv, ExcInv, StatusInv, GateStatuses, NoStatus, NoLine
  <2>6. FailureInv'
    BY <1>0, <2>1, SMT DEF Inv, TypeOK, BodyInv, WireInv, FlagInv, ExcInv, StatusInv, FailureInv, NoStatus
  <2>7. OversizeInv'
    BY <1>0, <2>1, SMT DEF Inv, TypeOK, BodyInv, WireInv, ExcInv, StatusInv, OversizeInv, Oversize, NoStatus
  <2> QED
    BY <2>2, <2>3, <2>4, <2>5, <2>6, <2>7 DEF ControlInv
<1>19. CASE HandlerTooLarge
  <2>1. /\ pc = "handler" /\ raised /\ pc' = "size" /\ exc' = "toolarge"
        /\ handler' = "toolarge"
        /\ UNCHANGED <<declared, capped, gone, starts, wireStatus, shielded, ended,
                       stray, reply, status, line, ebStarted, mode, total, sizeStarted,
                       raised>>
    BY <1>19 DEF HandlerTooLarge, request, server, wire, size
  <2>2. WireInv'
    BY <1>0, <2>1, SMT DEF Inv, TypeOK, WireInv, FlagInv, FramesInOrder
  <2>3. FlagInv'
    BY <1>0, <2>1, SMT DEF Inv, TypeOK, BodyInv, WireInv, FlagInv, ExcInv
  <2>4. ExcInv'
    BY <1>0, <2>1, SMT DEF Inv, TypeOK, WireInv, FlagInv, ExcInv
  <2>5. StatusInv'
    BY <1>0, <2>1, SMT DEF Inv, TypeOK, WireInv, ExcInv, StatusInv, GateStatuses, NoStatus, NoLine
  <2>6. FailureInv'
    BY <1>0, <2>1, SMT DEF Inv, TypeOK, BodyInv, WireInv, FlagInv, ExcInv, StatusInv, FailureInv, NoStatus
  <2>7. OversizeInv'
    BY <1>0, <2>1, SMT DEF Inv, TypeOK, BodyInv, WireInv, ExcInv, StatusInv, OversizeInv, Oversize, NoStatus
  <2> QED
    BY <2>2, <2>3, <2>4, <2>5, <2>6, <2>7 DEF ControlInv
<1>20. CASE ClientLeaves
  <2>1. /\ gone' = TRUE
        /\ UNCHANGED <<declared, capped, starts, wireStatus, shielded, ended, stray, pc,
                       exc, reply, status, line, ebStarted, mode, total, sizeStarted,
                       handler, raised>>
    BY <1>20 DEF ClientLeaves, request, wire, control, size, inner
  <2>2. WireInv'
    BY <1>0, <2>1, SMT DEF Inv, TypeOK, WireInv, FlagInv, FramesInOrder
  <2>3. FlagInv'
    BY <1>0, <2>1, SMT DEF Inv, TypeOK, BodyInv, WireInv, FlagInv, ExcInv
  <2>4. ExcInv'
    BY <1>0, <2>1, SMT DEF Inv, TypeOK, WireInv, FlagInv, ExcInv
  <2>5. StatusInv'
    BY <1>0, <2>1, SMT DEF Inv, TypeOK, WireInv, ExcInv, StatusInv, GateStatuses, NoStatus, NoLine
  <2>6. FailureInv'
    BY <1>0, <2>1, SMT DEF Inv, TypeOK, BodyInv, WireInv, FlagInv, ExcInv, StatusInv, FailureInv, NoStatus
  <2>7. OversizeInv'
    BY <1>0, <2>1, SMT DEF Inv, TypeOK, BodyInv, WireInv, ExcInv, StatusInv, OversizeInv, Oversize, NoStatus
  <2> QED
    BY <2>2, <2>3, <2>4, <2>5, <2>6, <2>7 DEF ControlInv
<1>21. CASE Cancel
  <2>1. /\ pc \in {"drain", "reply", "replyBody", "handler", "fail", "failBody"}
        /\ exc' = "cancel" /\ pc' = "context" /\ status' \in {status} \cup Starting
        /\ UNCHANGED <<declared, capped, gone, starts, wireStatus, shielded, ended,
                       stray, reply, line, ebStarted, mode, total, sizeStarted, handler,
                       raised>>
    BY <1>21 DEF Cancel, request, server, wire, size, inner
  <2>a. starts = 1 => status' = status
    BY <2>1, SMT DEF Starting, Inv, WireInv
  <2>2. WireInv'
    BY <1>0, <2>1, <2>a, SMT DEF Inv, TypeOK, WireInv, FlagInv, FramesInOrder
  <2>3. FlagInv'
    BY <1>0, <2>1, <2>a, SMT DEF Inv, TypeOK, BodyInv, WireInv, FlagInv, ExcInv
  <2>4. ExcInv'
    BY <1>0, <2>1, <2>a, SMT DEF Inv, TypeOK, WireInv, FlagInv, ExcInv
  <2>5. StatusInv'
    BY <1>0, <2>1, <2>a, SMT DEF Inv, TypeOK, WireInv, ExcInv, StatusInv, GateStatuses, NoStatus, NoLine
  <2>6. FailureInv'
    BY <1>0, <2>1, <2>a, SMT DEF Inv, TypeOK, BodyInv, WireInv, FlagInv, ExcInv, StatusInv, FailureInv, NoStatus
  <2>7. OversizeInv'
    BY <1>0, <2>1, <2>a, SMT DEF Inv, TypeOK, BodyInv, WireInv, ExcInv, StatusInv, OversizeInv, Oversize, NoStatus
  <2> QED
    BY <2>2, <2>3, <2>4, <2>5, <2>6, <2>7 DEF ControlInv
<1>22. CASE UNCHANGED vars
  <2>1. TRUE
        /\ UNCHANGED <<declared, capped, gone, starts, wireStatus, shielded, ended,
                       stray, pc, exc, reply, status, line, ebStarted, mode, total,
                       sizeStarted, handler, raised>>
    BY <1>22 DEF vars, request, server, wire, control, size, inner
  <2>2. WireInv'
    BY <1>0, <2>1, SMT DEF Inv, TypeOK, WireInv, FlagInv, FramesInOrder
  <2>3. FlagInv'
    BY <1>0, <2>1, SMT DEF Inv, TypeOK, BodyInv, WireInv, FlagInv, ExcInv
  <2>4. ExcInv'
    BY <1>0, <2>1, SMT DEF Inv, TypeOK, WireInv, FlagInv, ExcInv
  <2>5. StatusInv'
    BY <1>0, <2>1, SMT DEF Inv, TypeOK, WireInv, ExcInv, StatusInv, GateStatuses, NoStatus, NoLine
  <2>6. FailureInv'
    BY <1>0, <2>1, SMT DEF Inv, TypeOK, BodyInv, WireInv, FlagInv, ExcInv, StatusInv, FailureInv, NoStatus
  <2>7. OversizeInv'
    BY <1>0, <2>1, SMT DEF Inv, TypeOK, BodyInv, WireInv, ExcInv, StatusInv, OversizeInv, Oversize, NoStatus
  <2> QED
    BY <2>2, <2>3, <2>4, <2>5, <2>6, <2>7 DEF ControlInv
<1> QED
  BY <1>1, <1>2, <1>3, <1>4, <1>5, <1>6, <1>7, <1>8, <1>9, <1>10, <1>11, <1>12, <1>13,
     <1>14, <1>15, <1>16, <1>17, <1>18, <1>19, <1>20, <1>21, <1>22
  DEF Next, StackStep, HandlerStep, Terminated

--------------------------------------------------------------------------------
(* The inductive invariant, and what follows from it.                         *)

LEMMA InitInv == Init => Inv
<1> SUFFICES ASSUME Init PROVE Inv
  OBVIOUS
<1>1. TypeOK
  BY InitTypes
<1>2. BodyInv
  BY PipelineAssumptions, SMT DEF Init, BodyInv, HandlerWaitsForBody, BodyWithinLimit
<1>3. WireInv /\ FlagInv /\ ExcInv
  BY DEF Init, WireInv, FlagInv, ExcInv, FramesInOrder
<1>4. StatusInv /\ FailureInv
  BY DEF Init, StatusInv, FailureInv, NoStatus, NoLine
<1>5. OversizeInv
  BY DEF Init, OversizeInv
<1> QED
  BY <1>1, <1>2, <1>3, <1>4, <1>5 DEF Inv

LEMMA StepInv == Inv /\ [Next]_vars => Inv'
BY StepTypes, StepBody, StepControl DEF Inv, ControlInv

LEMMA Invariance == Spec => []Inv
<1>1. Inv /\ [Next]_vars => Inv'
  BY StepInv
<1> QED
  BY <1>1, InitInv, PTL DEF Spec

(* No request is ever given two response starts.                              *)
THEOREM OneStart == Spec => []OneResponseStart
<1>1. Inv => OneResponseStart
  BY SMT DEF Inv, WireInv, OneResponseStart
<1> QED
  BY <1>1, Invariance, PTL

(* Frames reach the server in ASGI's order, but for the one frame too many of *)
(* an overflow that surfaces after a complete response, on a server that does *)
(* not hold the body to its declared length.                                  *)
THEOREM WireOrder == Spec => []FramesInOrder
<1>1. Inv => FramesInOrder
  BY DEF Inv, WireInv
<1> QED
  BY <1>1, Invariance, PTL

(* Every answer of a request that is not cancelled carries the headers.       *)
THEOREM Shielded == Spec => []EveryAnswerShielded
<1>1. Inv => EveryAnswerShielded
  BY DEF Inv, WireInv, EveryAnswerShielded
<1> QED
  BY <1>1, Invariance, PTL

(* The access line has the status the client got.                             *)
THEOREM LineIsTheAnswer == Spec => []LineTellsTheWire
<1>1. Inv => LineTellsTheWire
  <2> SUFFICES ASSUME Inv, line # NoLine, exc # "cancel"
               PROVE  IF starts > 0 THEN line = wireStatus ELSE line = NoStatus /\ gone
    BY DEF LineTellsTheWire
  <2>1. pc \in {"outer", "done"} /\ line = status /\ starts \in {0, 1}
    BY DEF Inv, StatusInv, WireInv
  <2>2. CASE starts = 1
    BY <2>1, <2>2, SMT DEF Inv, StatusInv
  <2>3. CASE starts = 0
    <3>1. exc = "none"
      BY <2>1, <2>3, SMT DEF Inv, TypeOK, ExcInv
    <3> QED
      BY <2>1, <2>3, <3>1, SMT DEF Inv, StatusInv, ExcInv
  <2> QED
    BY <2>1, <2>2, <2>3
<1> QED
  BY <1>1, Invariance, PTL

(* No body over max_body_size reaches a handler or is kept for one.           *)
THEOREM BodyLimit == Spec => []BodyWithinLimit
<1>1. Inv => BodyWithinLimit
  BY DEF Inv, BodyInv
<1> QED
  BY <1>1, Invariance, PTL

(* Without a Content-Length the handler waits for its whole body.             *)
THEOREM DrainFirst == Spec => []HandlerWaitsForBody
<1>1. Inv => HandlerWaitsForBody
  BY DEF Inv, BodyInv
<1> QED
  BY <1>1, Invariance, PTL

(* An oversized body is refused with 413, declared, drained or counted.       *)
THEOREM OversizeAnswered == Spec => []OversizeRefused
<1>1. Inv => OversizeRefused
  <2> SUFFICES ASSUME Inv PROVE OversizeRefused
    OBVIOUS
  <2>1. Oversize => /\ handler = "idle"
                    /\ exc # "cancel" => wireStatus \in GateStatuses \cup {413, NoStatus}
                    /\ mode = "eager" /\ exc # "cancel" => wireStatus \in {413, NoStatus}
    BY DEF Inv, OversizeInv, StatusInv, WireInv
  <2>2. handler = "toolarge" /\ line # NoLine /\ exc # "cancel" =>
            sizeStarted \/ wireStatus = 413
    BY DEF Inv, StatusInv, FailureInv
  <2> QED
    BY <2>1, <2>2 DEF OversizeRefused, Oversize
<1> QED
  BY <1>1, Invariance, PTL

(* A crash is answered 500, or leaves the stack when it is too late to.       *)
THEOREM CrashesAnswered == Spec => []CrashAnswered
<1>1. Inv => CrashAnswered
  <2> SUFFICES ASSUME Inv, pc = "done", handler = "crashed", exc # "cancel"
               PROVE  IF ebStarted THEN exc = "error"
                      ELSE wireStatus = 500 /\ ended /\ line = 500
    BY DEF CrashAnswered
  <2>1. CASE ebStarted
    BY <2>1 DEF Inv, FailureInv
  <2>2. CASE ~ebStarted
    <3>1. wireStatus = 500 /\ ended /\ starts = 1
      BY <2>2 DEF Inv, FailureInv, WireInv
    <3> QED
      BY <2>2, <3>1 DEF Inv, StatusInv
  <2> QED
    BY <2>1, <2>2 DEF Inv, TypeOK
<1> QED
  BY <1>1, Invariance, PTL

--------------------------------------------------------------------------------
(* The read-ahead of the eager path: what is kept continues, without a gap,   *)
(* what the handler has received, up to the last message the server gave.     *)
ReplayInv ==
    /\ pc \in {"gate", "length"} => msgs = 0 /\ appNo = 0 /\ buffered = <<>>
    /\ pc = "drain" => appNo = 0 /\ msgs = Len(buffered)
    /\ pc \in {"drain", "handler"} =>
           \A i \in 1..Len(buffered) : buffered[i].no = appNo + i
    /\ pc = "handler" /\ mode = "lazy" => buffered = <<>>
    /\ pc = "handler" /\ mode = "eager" => appNo + Len(buffered) >= msgs

LEMMA ReplayStill ==
    ASSUME ReplayInv, UNCHANGED <<msgs, appNo, buffered, mode>>,
           pc' = pc \/ pc' \notin {"gate", "length", "drain", "handler"}
    PROVE  ReplayInv'
  BY DEF ReplayInv

LEMMA ReplayGate ==
    ASSUME ReplayInv, Gate
    PROVE  ReplayInv'
  BY DEF ReplayInv, Gate, AnswerWith, server, size, inner

LEMMA ReplayServe ==
    ASSUME TypeOK, ReplayInv, ServeLazily \/ ServeEagerly
    PROVE  ReplayInv'
<1>1. pc = "length" /\ UNCHANGED <<msgs, appNo, buffered>>
  BY DEF ServeLazily, ServeEagerly, server
<1>2. msgs = 0 /\ appNo = 0 /\ buffered = <<>> /\ Len(buffered) = 0
  BY <1>1 DEF ReplayInv
<1>3. (pc' = "handler" /\ mode' = "lazy") \/ pc' = "drain"
  BY DEF ServeLazily, ServeEagerly, FirstEager
<1> QED
  BY <1>1, <1>2, <1>3 DEF ReplayInv

LEMMA ReplayKeep ==
    ASSUME Inv, ReplayInv, DrainKeeps
    PROVE  ReplayInv'
<1>1. PICK m \in Incoming :
          /\ Take(m) /\ buffered' = Append(buffered, m)
          /\ IF DrainEnds(m) THEN pc' = "handler" ELSE pc' = pc
  BY DEF DrainKeeps
<1>2. pc = "drain" /\ UNCHANGED <<appNo, mode>>
  BY DEF DrainKeeps
<1>3. buffered \in Seq(Message) /\ m \in Message /\ m.no = msgs + 1 /\ msgs \in Nat
  BY IncomingMessages DEF Inv, TypeOK
<1>4. appNo = 0 /\ msgs = Len(buffered)
      /\ \A i \in 1..Len(buffered) : buffered[i].no = appNo + i
  BY <1>2 DEF ReplayInv
<1>5. /\ Len(buffered') = Len(buffered) + 1
      /\ \A i \in 1..Len(buffered) : buffered'[i] = buffered[i]
      /\ buffered'[Len(buffered) + 1] = m
  BY <1>1, <1>3
<1>6. \A i \in 1..Len(buffered') : buffered'[i].no = appNo' + i
  <2> TAKE i \in 1..Len(buffered')
  <2>1. CASE i \in 1..Len(buffered)
    BY <1>2, <1>4, <1>5, <2>1
  <2>2. CASE i = Len(buffered) + 1
    BY <1>2, <1>3, <1>4, <1>5, <2>2
  <2> QED
    BY <1>3, <1>5, <2>1, <2>2
<1>7. m.kind = "request" => msgs' = Len(buffered')
  BY <1>1, <1>3, <1>4, <1>5 DEF Take
<1>8. m.kind # "request" => msgs' = msgs /\ DrainEnds(m)
  BY <1>1 DEF Take, DrainEnds
<1>9. appNo' + Len(buffered') >= msgs'
  BY <1>2, <1>3, <1>4, <1>5, <1>7, <1>8, IncomingMessages DEF Inv, TypeOK, Message
<1>10. pc' = "handler" \/ (pc' = "drain" /\ msgs' = Len(buffered'))
  BY <1>1, <1>2, <1>7, <1>8
<1>11. mode' # "lazy"
  BY <1>2 DEF Inv, BodyInv
<1> QED
  BY <1>2, <1>4, <1>6, <1>9, <1>10, <1>11 DEF ReplayInv

LEMMA ReplayPop ==
    ASSUME Inv, ReplayInv, ReplayReceive, buffered # <<>>
    PROVE  ReplayInv'
<1>1. pc = "handler" /\ mode = "eager" /\ PopLeft /\ UNCHANGED <<pc, mode, msgs>>
  BY DEF ReplayReceive, server, control
<1>2. buffered \in Seq(Message) /\ appNo \in Nat /\ msgs \in Nat
  BY DEF Inv, TypeOK
<1>3. /\ buffered' = Tail(buffered) /\ appNo' = buffered[1].no
      /\ Len(buffered) >= 1 /\ Len(buffered') = Len(buffered) - 1
  BY <1>1, <1>2 DEF PopLeft, Hand
<1>4. /\ \A i \in 1..Len(buffered) : buffered[i].no = appNo + i
      /\ appNo + Len(buffered) >= msgs
  BY <1>1 DEF ReplayInv
<1>5. appNo' = appNo + 1
  BY <1>2, <1>3, <1>4
<1>6. \A i \in 1..Len(buffered') : buffered'[i] = buffered[i + 1]
  BY <1>2, <1>3
<1>7. \A i \in 1..Len(buffered') : buffered'[i].no = appNo' + i
  BY <1>2, <1>3, <1>4, <1>5, <1>6
<1>8. appNo' + Len(buffered') >= msgs'
  BY <1>1, <1>2, <1>3, <1>4, <1>5
<1> QED
  BY <1>1, <1>7, <1>8 DEF ReplayInv

LEMMA ReplayDirect ==
    ASSUME Inv, ReplayInv, ReplayReceive, buffered = <<>>
    PROVE  ReplayInv'
<1>1. /\ pc = "handler" /\ mode = "eager" /\ UNCHANGED <<pc, mode, buffered>>
      /\ \E m \in Incoming : Take(m) /\ Hand(m)
  BY DEF ReplayReceive, control
<1>2. PICK m \in Incoming : Take(m) /\ Hand(m)
  BY <1>1
<1>3. m.no = msgs + 1 /\ msgs \in Nat
  BY IncomingMessages DEF Inv, TypeOK
<1>4. appNo' = m.no /\ msgs' \in {m.no, msgs}
  BY <1>2 DEF Hand, Take
<1>5. buffered' = <<>> /\ Len(buffered') = 0
  BY <1>1
<1>6. appNo' + Len(buffered') >= msgs'
  BY <1>3, <1>4, <1>5
<1> QED
  BY <1>1, <1>5, <1>6 DEF ReplayInv

LEMMA ReplayLazy ==
    ASSUME ReplayInv, LazyReceive
    PROVE  ReplayInv'
<1>1. pc = "handler" /\ mode = "lazy" /\ UNCHANGED <<pc, mode, buffered>>
  BY DEF LazyReceive, control
<1>2. buffered' = <<>> /\ Len(buffered') = 0
  BY <1>1 DEF ReplayInv
<1> QED
  BY <1>1, <1>2 DEF ReplayInv

(* Every other step keeps what was read ahead, and stays where it is or       *)
(* leaves the handler for good.                                               *)
LEMMA ReplayElsewhere ==
    ASSUME Inv, Next,
           ~(Gate \/ ServeLazily \/ ServeEagerly \/ DrainKeeps \/ LazyReceive \/ ReplayReceive)
    PROVE  ReplayInv => ReplayInv'
<1>1. CASE RejectLength \/ LengthError
  BY <1>1, ReplayStill DEF RejectLength, LengthError, AnswerWith, server, size, inner
<1>2. CASE DrainRefuses
  <2>1. pc' = "reply" /\ UNCHANGED <<appNo, buffered, mode>>
    BY <1>2 DEF DrainRefuses, AnswerWith, inner
  <2> QED
    BY <2>1 DEF ReplayInv
<1>3. CASE ReplyStart \/ ReplyBody \/ BoundaryStart \/ BoundaryBody \/ LogLine \/ Outer
  BY <1>3, ReplayStill
  DEF ReplyStart, ReplyBody, BoundaryStart, BoundaryBody, LogLine, Outer, server, size, inner
<1>4. CASE SizeCatches \/ BoundaryCatches
  BY <1>4, ReplayStill
  DEF SizeCatches, AnswerWith, BoundaryCatches, Propagate, server, size, inner
<1>5. CASE HandlerStart \/ HandlerBody
  BY <1>5, ReplayStill DEF HandlerStart, HandlerBody, server, control, size, inner
<1>6. CASE HandlerReturns \/ HandlerCrashes \/ HandlerTooLarge
  BY <1>6, ReplayStill DEF HandlerReturns, HandlerCrashes, HandlerTooLarge, server, size
<1>7. CASE ClientLeaves \/ Cancel \/ Terminated
  BY <1>7, ReplayStill
  DEF ClientLeaves, Cancel, Terminated, vars, server, control, size, inner
<1> QED
  BY <1>1, <1>2, <1>3, <1>4, <1>5, <1>6, <1>7 DEF Next, StackStep, HandlerStep

LEMMA StepReplay == Inv /\ ReplayInv /\ [Next]_vars => ReplayInv'
<1> SUFFICES ASSUME Inv, ReplayInv, [Next]_vars PROVE ReplayInv'
  OBVIOUS
<1>1. CASE UNCHANGED vars
  BY <1>1, ReplayStill DEF vars, server, control, size, inner
<1>2. CASE ServeLazily \/ ServeEagerly
  BY <1>2, ReplayServe DEF Inv
<1>3. CASE ReplayReceive
  BY <1>3, ReplayPop, ReplayDirect
<1> QED
  BY <1>1, <1>2, <1>3, ReplayGate, ReplayKeep, ReplayLazy, ReplayElsewhere

(* body_size_limit.py 113-137: the handler gets what was read ahead in order, *)
(* nothing lost, repeated or overtaken by what the server gives later.        *)
THEOREM ReplayedInOrder == Spec => []ReplayInOrder
<1>1. Init => ReplayInv
  BY DEF Init, ReplayInv
<1>2. Inv /\ ReplayInv => ReplayInOrder
  <2> SUFFICES ASSUME Inv, ReplayInv, pc = "handler"
               PROVE  /\ \A i \in DOMAIN buffered : buffered[i].no = appNo + i
                      /\ mode = "eager" /\ buffered = <<>> => appNo >= msgs
    BY DEF ReplayInOrder
  <2>1. DOMAIN buffered = 1..Len(buffered) /\ appNo \in Nat
    BY DEF Inv, TypeOK
  <2> QED
    BY <2>1 DEF ReplayInv
<1> QED
  BY <1>1, <1>2, StepReplay, Invariance, PTL DEF Spec
--------------------------------------------------------------------------------
(* The stack implements Exchange.                                             *)

LEMMA StepExchange == Inv /\ [Next]_vars => [X!XNext]_X!xvars
<1> SUFFICES ASSUME Inv, [Next]_vars PROVE [X!XNext]_X!xvars
  OBVIOUS
<1> DEFINE Still == wireStatus' = wireStatus /\ ended' = ended /\ line' = line
<1>0. Still => [X!XNext]_X!xvars
  BY DEF X!xvars
<1>1. /\ starts \in {0, 1} /\ (starts = 0 <=> wireStatus = 0)
      /\ ended => starts = 1
      /\ pc \notin {"outer", "done"} => line = -1
  BY DEF Inv, WireInv, StatusInv, NoStatus, NoLine
<1>2. CASE \/ Gate \/ RejectLength \/ LengthError \/ ServeLazily \/ ServeEagerly
           \/ DrainRefuses \/ DrainKeeps \/ BoundaryCatches \/ LazyReceive
           \/ ReplayReceive \/ HandlerReturns \/ HandlerCrashes \/ HandlerTooLarge
           \/ ClientLeaves \/ Cancel \/ UNCHANGED vars
  <2>1. Still
    BY <1>2 DEF Gate, RejectLength, LengthError, ServeLazily, ServeEagerly, DrainRefuses,
                DrainKeeps, BoundaryCatches, LazyReceive, ReplayReceive, HandlerReturns,
                HandlerCrashes, HandlerTooLarge, ClientLeaves, Cancel, vars, wire
  <2> QED
    BY <1>0, <2>1
<1>3. CASE ReplyStart \/ BoundaryStart \/ HandlerStart
  <2>1. starts = 0 /\ wireStatus = 0 /\ line = -1
    BY <1>1, <1>3 DEF ReplyStart, BoundaryStart, HandlerStart, Inv, WireInv
  <2>2. ended' = ended /\ line' = line
    BY <1>3 DEF ReplyStart, BoundaryStart, HandlerStart, WireStart
  <2>3. wireStatus' \in Statuses
    <3>1. CASE ReplyStart
      <4>1. wireStatus' = reply /\ reply # NoStatus
        BY <2>1, <3>1 DEF ReplyStart, WireStart, Inv, StatusInv
      <4> QED
        BY <4>1 DEF Inv, TypeOK
    <3>2. CASE BoundaryStart
      BY <2>1, <3>2, StatusTypes DEF BoundaryStart, WireStart
    <3>3. CASE HandlerStart
      BY <2>1, <3>3, StatusTypes DEF HandlerStart, WireStart
    <3> QED
      BY <1>3, <3>1, <3>2, <3>3
  <2>4. X!Answer
    BY <2>1, <2>2, <2>3 DEF X!Answer
  <2> QED
    BY <2>4 DEF X!XNext
<1>4. CASE ReplyBody \/ BoundaryBody \/ HandlerBody \/ (SizeCatches /\ ended' # ended)
  <2>1. pc \notin {"outer", "done"} /\ starts = 1 /\ ~ended
    <3>1. CASE ReplyBody \/ BoundaryBody
      BY <3>1 DEF ReplyBody, BoundaryBody, Inv, WireInv
    <3>2. CASE HandlerBody
      BY <1>1, <3>2 DEF HandlerBody
    <3>3. CASE SizeCatches /\ ended' # ended
      <4>1. pc = "size" /\ sizeStarted /\ ended' = (ended \/ TRUE)
        BY <3>3 DEF SizeCatches, TooLateFor413, WireBody, wire
      <4>2. ~ended
        BY <3>3, <4>1 DEF Inv, TypeOK
      <4>3. starts = 1
        BY <4>1 DEF Inv, FlagInv
      <4> QED
        BY <4>1, <4>2, <4>3
    <3> QED
      BY <1>4, <3>1, <3>2, <3>3
  <2>2. wireStatus' = wireStatus /\ line' = line /\ ended' = TRUE
    <3>1. CASE ReplyBody \/ BoundaryBody \/ HandlerBody
      BY <3>1 DEF ReplyBody, BoundaryBody, HandlerBody, WireBody
    <3>2. CASE SizeCatches /\ ended' # ended
      BY <3>2 DEF SizeCatches, WireBody, wire
    <3> QED
      BY <1>4, <3>1, <3>2
  <2>3. X!Seal
    BY <1>1, <2>1, <2>2 DEF X!Seal
  <2> QED
    BY <2>3 DEF X!XNext
<1>5. CASE SizeCatches /\ ended' = ended
  <2>1. Still
    BY <1>5 DEF SizeCatches, WireBody, wire
  <2> QED
    BY <1>0, <2>1
<1>6. CASE LogLine
  <2>1. pc = "context" /\ line' = status' /\ wireStatus' = wireStatus /\ ended' = ended
    BY <1>6 DEF LogLine, wire
  <2>2. status' \in Statuses \cup {0}
    BY StepTypes DEF Inv, TypeOK, NoStatus
  <2>3. starts = 1 => status' = wireStatus
    BY <1>1, <1>6 DEF LogLine, FinalStatus, Inv, StatusInv, NoStatus
  <2>4. X!Record
    BY <1>1, <2>1, <2>2, <2>3 DEF X!Record
  <2> QED
    BY <2>4 DEF X!XNext
<1>7. CASE Outer
  <2>1. CASE UNCHANGED wire
    BY <1>0, <1>7, <2>1 DEF Outer, wire
  <2>2. CASE ~UNCHANGED wire
    <3>1. /\ pc = "outer" /\ starts = 0 /\ wireStatus' = 500 /\ ended' = TRUE
          /\ line' = line
      BY <1>7, <2>2 DEF Outer
    <3>2. line # -1
      BY <3>1 DEF Inv, StatusInv, NoLine
    <3>3. X!LastResort
      BY <1>1, <3>1, <3>2 DEF X!LastResort
    <3> QED
      BY <3>3 DEF X!XNext
  <2> QED
    BY <2>1, <2>2
<1> QED
  BY <1>2, <1>3, <1>4, <1>5, <1>6, <1>7 DEF Next, StackStep, HandlerStep, Terminated

(* Whatever the layers do, the client and the log see one exchange.           *)
THEOREM Refinement == Spec => KeepsExchange
<1>1. Init => X!XInit
  BY DEF Init, X!XInit, NoStatus, NoLine
<1>2. Inv /\ [Next]_vars => [X!XNext]_X!xvars
  BY StepExchange
<1> QED
  BY <1>1, <1>2, Invariance, PTL DEF Spec, KeepsExchange, X!XSpec

(* observability.py 19-28: no request is over without its access line, and    *)
(* none has two, however it ended: the part of EveryRequestLogged that takes  *)
(* no fairness.                                                               *)
LoggedOnce ==
    /\ [](pc = "done" => line # NoLine)
    /\ [][line # NoLine => line' = line]_vars

THEOREM OneLinePerRequest == Spec => LoggedOnce
<1>1. Inv => (pc = "done" => line # NoLine)
  BY DEF Inv, StatusInv
<1>2. Inv /\ [Next]_vars => [line # NoLine => line' = line]_vars
  <2> SUFFICES ASSUME Inv, [Next]_vars, line # NoLine PROVE line' = line
    OBVIOUS
  <2>1. [X!XNext]_X!xvars
    BY StepExchange
  <2> QED
    BY <2>1 DEF X!XNext, X!Answer, X!Seal, X!Record, X!LastResort, X!xvars, NoLine
<1> QED
  BY <1>1, <1>2, Invariance, PTL DEF Spec, LoggedOnce
================================================================================
