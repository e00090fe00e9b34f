---------------------------- MODULE RequestPipeline ----------------------------
(* One HTTP request through the middleware stack create_app builds            *)
(* (src/app/main.py 88-118), from the outside in:                             *)
(*                                                                            *)
(*   RequestContext -> SecurityHeaders -> ErrorBoundary -> TrustedHost        *)
(*     -> CORS -> BodySizeLimit -> [SlowAPI and the routes: the "handler"]    *)
(*                                                                            *)
(* Each step is what the event loop runs between two awaits: a call of        *)
(* receive(), a call of send(), an exception moving one layer up.  The        *)
(* handler is any ASGI application that respects the protocol: it reads and   *)
(* answers in any order (Starlette's streaming responses read the body while  *)
(* they send), it may swallow an exception its receive() raised (FastAPI's    *)
(* body parser does), and it may crash or be cancelled at any await.          *)
(* Requests share no state in these layers, so one request is the system.     *)
EXTENDS Integers, Sequences

CONSTANTS
    MaxBody,        \* settings.max_body_size, in bytes
    ChunkSizes,     \* the sizes a body chunk may have
    Lengths,        \* the well-formed Content-Length values a client may declare
    AppStatuses,    \* the statuses the handler answers with
    MaxMsgs         \* bound: http.request messages of one request

ASSUME PipelineAssumptions ==
    /\ MaxBody \in Nat \ {0}
    /\ ChunkSizes \subseteq Nat
    /\ Lengths \subseteq Nat
    /\ AppStatuses \subseteq 200..599
    /\ MaxMsgs \in Nat \ {0}

(* Content-Length headers that are not a length: none; text that isdigit()    *)
(* refuses; text that isdigit() accepts and int() refuses (a superscript      *)
(* digit, or more digits than int() converts).                                *)
Absent     == -1
Malformed  == -2
Unparsable == -3

NoStatus == 0
NoLine   == -1
GateStatuses == {200, 400}
Statuses == AppStatuses \cup GateStatuses \cup {413, 500}

VARIABLES
    declared,     \* the Content-Length header
    capped,       \* the server holds the body to its declared length
    msgs, bytes,  \* http.request messages, and body bytes, the server handed over
    bodyDone,     \* the last of them had more_body false
    gone,         \* the client disconnected
    starts,       \* http.response.start messages the server was given
    wireStatus,   \* the status of the first of them
    shielded,     \* every one carried the security headers and X-Request-ID
    ended,        \* the server was given a final response body
    stray,        \* the server was given a message out of protocol order
    pc, exc,      \* where control is, and the exception in flight
    reply,        \* the status a layer above the handler is answering with
    status, line, \* RequestContext: status_code, and the access line's status
    ebStarted,    \* ErrorBoundary: response_started
    mode,         \* BodySizeLimit: which of the two serving paths was taken
    total,        \* BodySizeLimit: bytes counted
    sizeStarted,  \* BodySizeLimit, lazy path: response_started
    buffered,     \* BodySizeLimit, eager path: messages read ahead
    handler,      \* "idle", "running", or how the handler ended
    appNo,        \* number of the last message the handler received
    appBytes,     \* body bytes the handler received
    raised        \* _ContentTooLarge was raised inside the handler's receive()

request == <<declared, capped>>
server  == <<msgs, bytes, bodyDone, gone>>
wire    == <<starts, wireStatus, shielded, ended, stray>>
control == <<pc, exc, reply>>
size    == <<mode, total, sizeStarted, buffered>>
inner   == <<handler, appNo, appBytes, raised>>
vars == <<request, server, wire, control, status, line, ebStarted, size, inner>>

Init ==
    /\ declared \in Lengths \cup {Absent, Malformed, Unparsable}
    /\ capped \in BOOLEAN
    /\ msgs = 0 /\ bytes = 0 /\ bodyDone = FALSE /\ gone = FALSE
    /\ starts = 0 /\ wireStatus = NoStatus /\ shielded = TRUE
    /\ ended = FALSE /\ stray = FALSE
    /\ pc = "gate" /\ exc = "none" /\ reply = NoStatus
    /\ status = NoStatus /\ line = NoLine
    /\ ebStarted = FALSE
    /\ mode = "none" /\ total = 0 /\ sizeStarted = FALSE /\ buffered = <<>>
    /\ handler = "idle" /\ appNo = 0 /\ appBytes = 0 /\ raised = FALSE

--------------------------------------------------------------------------------
(* The server, an external ASGI implementation such as uvicorn.               *)

(* A request message carries its number and the body bytes up to and          *)
(* including its own; http.disconnect comes after every request message.      *)
Disconnect == [kind |-> "disconnect", no |-> msgs + 1, upto |-> bytes, more |-> FALSE]

RequestMessage(n, more) ==
    [kind |-> "request", no |-> msgs + 1, upto |-> bytes + n, more |-> more]

(* What one call of receive() may return now.  Once the response is complete  *)
(* or the client is gone it is http.disconnect; after the body it blocks.     *)
Incoming ==
    IF gone \/ ended THEN {Disconnect}
    ELSE {m \in {RequestMessage(n, more) : n \in ChunkSizes, more \in BOOLEAN} :
             /\ ~bodyDone
             /\ msgs < MaxMsgs
             /\ m.more => msgs + 1 < MaxMsgs
             /\ capped /\ declared >= 0 => m.upto <= declared}

Size(m) == m.upto - bytes

(* The server's own bookkeeping when receive() returns m.                     *)
Take(m) ==
    /\ IF m.kind = "request"
       THEN msgs' = m.no /\ bytes' = m.upto /\ bodyDone' = ~m.more
       ELSE UNCHANGED <<msgs, bytes, bodyDone>>
    /\ UNCHANGED gone

(* http.response.start reaches the server; dressed: it passed SecurityHeaders *)
(* and RequestContext.                                                        *)
WireStart(s, dressed) ==
    /\ starts' = starts + 1
    /\ wireStatus' = IF starts = 0 THEN s ELSE wireStatus
    /\ shielded' = (shielded /\ dressed)
    /\ stray' = (stray \/ starts # 0)
    /\ UNCHANGED ended

WireBody(final) ==
    /\ ended' = (ended \/ final)
    /\ stray' = (stray \/ ended \/ starts = 0)
    /\ UNCHANGED <<starts, wireStatus, shielded>>

(* The server raises when a message is out of order, and drops every message  *)
(* once the client is gone.                                                   *)
BodySendRaises == ~gone /\ (ended \/ starts = 0)

ClientLeaves ==
    /\ ~gone /\ pc # "done"
    /\ gone' = TRUE
    /\ UNCHANGED <<request, msgs, bytes, bodyDone, wire, control, status, line,
                   ebStarted, size, inner>>

--------------------------------------------------------------------------------
(* The layers above the handler.                                              *)

(* A layer answers by itself: Response(scope, receive, send) from here up.    *)
AnswerWith(s) == pc' = "reply" /\ reply' = s

(* TrustedHost (400) and CORS (preflight: 200 or 400) answer, or pass it on.  *)
Gate ==
    /\ pc = "gate"
    /\ \/ pc' = "length" /\ UNCHANGED reply
       \/ \E s \in GateStatuses : AnswerWith(s)
    /\ UNCHANGED <<request, server, wire, exc, status, line, ebStarted, size, inner>>

(* BodySizeLimitMiddleware.__call__.  A malformed length is answered 400, one *)
(* over the limit 413; int() refusing the digits is this layer's exception.   *)
RejectLength ==
    /\ pc = "length"
    /\ \/ declared = Malformed /\ AnswerWith(400)
       \/ declared > MaxBody /\ AnswerWith(413)
    /\ UNCHANGED <<request, server, wire, exc, status, line, ebStarted, size, inner>>

LengthError ==
    /\ pc = "length" /\ declared = Unparsable
    /\ pc' = "boundary" /\ exc' = "error"
    /\ UNCHANGED <<request, server, wire, reply, status, line, ebStarted, size, inner>>

(* A declared length up to and including the limit is served at once ...      *)
NoFastPath == declared >= 0                                        \* mutant
DeclaredFits == declared \in 0..MaxBody

ServeLazily ==
    /\ pc = "length" /\ DeclaredFits
    /\ mode' = "lazy" /\ pc' = "handler" /\ handler' = "running"
    /\ UNCHANGED <<request, server, wire, exc, reply, status, line, ebStarted, total,
                   sizeStarted, buffered, appNo, appBytes, raised>>

(* ... and without one the body is drained before the handler is called.      *)
NoDrain == pc' = "handler" /\ handler' = "running"                 \* mutant
FirstEager == pc' = "drain" /\ UNCHANGED handler

ServeEagerly ==
    /\ pc = "length" /\ declared = Absent
    /\ mode' = "eager" /\ FirstEager
    /\ UNCHANGED <<request, server, wire, exc, reply, status, line, ebStarted, total,
                   sizeStarted, buffered, appNo, appBytes, raised>>

(* Both serving paths count the bytes received so far, message m included.    *)
UncountedSign(m) == IF m.kind = "request" THEN total - Size(m) ELSE total \* mutant
Counted(m) == IF m.kind = "request" THEN total + Size(m) ELSE total

OverLimitAlone(m) == m.kind = "request" /\ Size(m) > MaxBody       \* mutant
OverLimit(m) == m.kind = "request" /\ Counted(m) > MaxBody

(* _serve_with_eager_drain, one turn of its loop: the message that goes over  *)
(* the limit is refused and never kept ...                                    *)
DrainRefuses ==
    /\ pc = "drain"
    /\ \E m \in Incoming : OverLimit(m) /\ Take(m) /\ total' = Counted(m)
    /\ AnswerWith(413)
    /\ UNCHANGED <<request, wire, exc, status, line, ebStarted, mode, sizeStarted,
                   buffered, inner>>

(* ... every other one is kept, and the loop goes on while the body does:     *)
(* http.disconnect ends it.                                                   *)
DrainOutlivesBody(m) == m.kind # "request"                          \* mutant
DrainEnds(m) == m.kind # "request" \/ ~m.more

DrainKeeps ==
    /\ pc = "drain"
    /\ \E m \in Incoming :
        /\ ~OverLimit(m)
        /\ Take(m) /\ total' = Counted(m)
        /\ buffered' = Append(buffered, m)
        /\ IF DrainEnds(m)
           THEN pc' = "handler" /\ handler' = "running"
           ELSE UNCHANGED <<pc, handler>>
    /\ UNCHANGED <<request, wire, exc, reply, status, line, ebStarted, mode,
                   sizeStarted, appNo, appBytes, raised>>

(* A response of a layer between ErrorBoundary and the handler, in its two    *)
(* sends: send_tracking notes the start, RequestContext its status.           *)
ReplyStart ==
    /\ pc = "reply"
    /\ ebStarted' = TRUE /\ status' = reply
    /\ WireStart(reply, TRUE)
    /\ pc' = "replyBody"
    /\ UNCHANGED <<request, server, exc, reply, line, size, inner>>

ReplyBody ==
    /\ pc = "replyBody"
    /\ WireBody(TRUE)
    /\ pc' = "context"
    /\ UNCHANGED <<request, server, exc, reply, status, line, ebStarted, size, inner>>

(* BodySizeLimit, lazy path: except _ContentTooLarge.  If the response has    *)
(* started its body is closed with an empty final frame, else it is 413.      *)
NeverTooLate == FALSE                                              \* mutant
TooLateFor413 == sizeStarted

SizeCatches ==
    /\ pc = "size"
    /\ \/ /\ ~TooLateFor413
          /\ exc' = "none" /\ AnswerWith(413) /\ UNCHANGED wire
       \/ /\ TooLateFor413
          /\ WireBody(TRUE)
          /\ exc' = IF BodySendRaises THEN "error" ELSE "none"
          /\ pc' = IF BodySendRaises THEN "boundary" ELSE "context"
          /\ UNCHANGED reply
    /\ UNCHANGED <<request, server, status, line, ebStarted, size, inner>>

(* ErrorBoundary: except Exception.  Once the response has started the        *)
(* exception goes on to RequestContext; otherwise the boundary answers 500.   *)
NeverReRaises == FALSE                                             \* mutant
AlwaysReRaises == TRUE                                             \* mutant
ReRaises == ebStarted

Swallow == pc' = "context" /\ exc' = "none"                         \* mutant
Propagate == pc' = "context" /\ UNCHANGED exc

BoundaryCatches ==
    /\ pc = "boundary"
    /\ IF ReRaises
       THEN Propagate
       ELSE pc' = "fail" /\ exc' = "none"
    /\ UNCHANGED <<request, server, wire, reply, status, line, ebStarted, size, inner>>

BoundaryStart ==
    /\ pc = "fail"
    /\ status' = 500 /\ WireStart(500, TRUE)
    /\ pc' = "failBody"
    /\ UNCHANGED <<request, server, exc, reply, line, ebStarted, size, inner>>

BoundaryBody ==
    /\ pc = "failBody"
    /\ WireBody(TRUE)
    /\ pc' = "context"
    /\ UNCHANGED <<request, server, exc, reply, status, line, ebStarted, size, inner>>

(* RequestContext: the except clause, then the access line of the finally.    *)
FailedStatus == IF exc = "error" THEN 500 ELSE status              \* mutant
SeenStatus == IF exc = "error" THEN 500 ELSE reply                 \* mutant
FinalStatus == IF exc = "error" /\ status = NoStatus THEN 500 ELSE status

LogLine ==
    /\ pc = "context"
    /\ status' = FinalStatus
    /\ line' = status'
    /\ pc' = "outer"
    /\ UNCHANGED <<request, server, wire, exc, reply, ebStarted, size, inner>>

(* Outside the stack: an exception that escapes, or a call that returns, with *)
(* no response started makes Starlette's ServerErrorMiddleware or the server  *)
(* answer a bare 500; after a start the server just closes the connection.    *)
Outer ==
    /\ pc = "outer" /\ pc' = "done"
    /\ IF starts = 0 /\ (exc = "error" \/ ~gone)
       THEN /\ starts' = 1 /\ wireStatus' = 500 /\ shielded' = FALSE
            /\ ended' = TRUE /\ UNCHANGED stray
       ELSE UNCHANGED wire
    /\ UNCHANGED <<request, server, exc, reply, status, line, ebStarted, size, inner>>

--------------------------------------------------------------------------------
(* The handler, and the receive() BodySizeLimit gives it.                     *)

(* The handler's receive() returns m.                                         *)
Hand(m) ==
    /\ appNo' = m.no
    /\ appBytes' = IF m.kind = "request" THEN m.upto ELSE appBytes

(* Lazy path, wrapped_receive: count, and raise inside the handler on the     *)
(* first message that goes over the limit and on every request message after. *)
LazyReceive ==
    /\ pc = "handler" /\ mode = "lazy"
    /\ \E m \in Incoming :
        /\ Take(m)
        /\ total' = Counted(m)
        /\ IF OverLimit(m)
           THEN raised' = TRUE /\ UNCHANGED <<appNo, appBytes>>
           ELSE Hand(m) /\ UNCHANGED raised
    /\ UNCHANGED <<request, wire, control, status, line, ebStarted, mode,
                   sizeStarted, buffered, handler>>

(* Eager path, replay_receive: what was read ahead, in order, then whatever   *)
(* the server has, uncounted.                                                 *)
PopRight ==                                                        \* mutant
    /\ Hand(buffered[Len(buffered)])
    /\ buffered' = SubSeq(buffered, 1, Len(buffered) - 1)
PopLeft == Hand(Head(buffered)) /\ buffered' = Tail(buffered)

ReplayReceive ==
    /\ pc = "handler" /\ mode = "eager"
    /\ \/ buffered # <<>> /\ PopLeft /\ UNCHANGED server
       \/ /\ buffered = <<>>
          /\ \E m \in Incoming : Take(m) /\ Hand(m)
          /\ UNCHANGED buffered
    /\ UNCHANGED <<request, wire, control, status, line, ebStarted, mode, total,
                   sizeStarted, handler, raised>>

(* The handler's sends pass the lazy path's wrapped_send, send_tracking and   *)
(* RequestContext: each notes the start before it awaits the next.            *)
HandlerStart ==
    /\ pc = "handler" /\ starts = 0
    /\ \E s \in AppStatuses : status' = s /\ WireStart(s, TRUE)
    /\ sizeStarted' = (mode = "lazy")
    /\ ebStarted' = TRUE
    /\ UNCHANGED <<request, server, control, line, mode, total, buffered, inner>>

HandlerBody ==
    /\ pc = "handler" /\ starts # 0 /\ ~ended
    /\ WireBody(TRUE)
    /\ UNCHANGED <<request, server, control, status, line, ebStarted, size, inner>>

(* The handler returns: its response is complete, or the client left.         *)
HandlerReturns ==
    /\ pc = "handler" /\ (ended \/ gone)
    /\ handler' = "returned" /\ pc' = "context"
    /\ UNCHANGED <<request, server, wire, exc, reply, status, line, ebStarted, size,
                   appNo, appBytes, raised>>

(* An exception of the handler's own reaches ErrorBoundary, at any moment:    *)
(* before the response, within it, or after it (a background task, the exit   *)
(* of a dependency).                                                          *)
HandlerCrashes ==
    /\ pc = "handler"
    /\ handler' = "crashed" /\ exc' = "error" /\ pc' = "boundary"
    /\ UNCHANGED <<request, server, wire, reply, status, line, ebStarted, size,
                   appNo, appBytes, raised>>

(* It lets _ContentTooLarge through, sooner or later.                         *)
HandlerTooLarge ==
    /\ pc = "handler" /\ raised
    /\ handler' = "toolarge" /\ exc' = "toolarge" /\ pc' = "size"
    /\ UNCHANGED <<request, server, wire, reply, status, line, ebStarted, size,
                   appNo, appBytes, raised>>

(* The task is cancelled at an await (the server shuts down): CancelledError  *)
(* is no Exception, no layer catches it.  A start being sent has already been *)
(* noted by RequestContext.                                                   *)
Starting ==
    CASE pc = "reply" -> {reply}
      [] pc = "fail"  -> {500}
      [] pc = "handler" /\ starts = 0 -> AppStatuses
      [] OTHER -> {}

Cancel ==
    /\ pc \in {"drain", "reply", "replyBody", "handler", "fail", "failBody"}
    /\ exc' = "cancel" /\ pc' = "context"
    /\ status' \in {status} \cup Starting
    /\ UNCHANGED <<request, server, wire, reply, line, ebStarted, size, inner>>

Terminated == pc = "done" /\ UNCHANGED vars

StackStep ==
    \/ Gate \/ RejectLength \/ LengthError \/ ServeLazily \/ ServeEagerly
    \/ DrainRefuses \/ DrainKeeps \/ ReplyStart \/ ReplyBody \/ SizeCatches
    \/ BoundaryCatches \/ BoundaryStart \/ BoundaryBody \/ LogLine \/ Outer

HandlerStep ==
    \/ LazyReceive \/ ReplayReceive \/ HandlerStart \/ HandlerBody
    \/ HandlerReturns \/ HandlerCrashes \/ HandlerTooLarge

Next == StackStep \/ HandlerStep \/ ClientLeaves \/ Cancel \/ Terminated

(* The event loop runs what can run (the stack), and the handler ends.  A     *)
(* drain that waits for a silent client is the edge's concern (the class's    *)
(* comment): the drain's fairness says the client goes on sending or leaves.      *)
Fairness == WF_vars(StackStep) /\ WF_vars(HandlerStep)

Spec == Init /\ [][Next]_vars
FairSpec == Spec /\ Fairness

--------------------------------------------------------------------------------
(* Properties.                                                                *)

Message == [kind : {"request", "disconnect"}, no : Nat, upto : Nat, more : BOOLEAN]

(* Every variable has the type the code gives it; the status logged is one    *)
(* some layer answers with.                                                   *)
TypeOK ==
    /\ declared \in Lengths \cup {Absent, Malformed, Unparsable}
    /\ capped \in BOOLEAN
    /\ msgs \in Nat /\ bytes \in Nat /\ bodyDone \in BOOLEAN /\ gone \in BOOLEAN
    /\ starts \in Nat /\ wireStatus \in Statuses \cup {NoStatus}
    /\ shielded \in BOOLEAN /\ ended \in BOOLEAN /\ stray \in BOOLEAN
    /\ pc \in {"gate", "length", "drain", "handler", "size", "reply", "replyBody",
               "boundary", "fail", "failBody", "context", "outer", "done"}
    /\ exc \in {"none", "error", "toolarge", "cancel"}
    /\ reply \in Statuses \cup {NoStatus}
    /\ status \in Statuses \cup {NoStatus}
    /\ line \in Statuses \cup {NoStatus, NoLine}
    /\ ebStarted \in BOOLEAN
    /\ mode \in {"none", "lazy", "eager"}
    /\ total \in Nat /\ sizeStarted \in BOOLEAN /\ buffered \in Seq(Message)
    /\ handler \in {"idle", "running", "returned", "crashed", "toolarge"}
    /\ appNo \in Nat /\ appBytes \in Nat /\ raised \in BOOLEAN

(* Three layers can answer a request and two of them after an exception: yet  *)
(* no client ever gets two http.response.start.                               *)
OneResponseStart == starts <= 1

(* Frames reach the server in the order ASGI asks for, whatever the handler   *)
(* read, sent or raised before (body_size_limit.py 94-101 and                 *)
(* error_boundary.py 55-66), as long as the server holds the body to its      *)
(* declared length; otherwise one frame too many is possible, when the lazy   *)
(* path's overflow surfaces after a complete response.                        *)
FramesInOrder ==
    stray => /\ ~capped
             /\ handler = "toolarge" /\ starts = 1 /\ ended

(* main.py 90-95: every answer leaves with the security headers and the       *)
(* request id, rejections and crashes included; the only bare answer is the   *)
(* server's own, to a request cancelled before any layer answered.            *)
EveryAnswerShielded == starts > 0 /\ exc # "cancel" => shielded

(* The access line says what the client got: the status on the wire, or 0 for *)
(* a client that left before any answer.                                      *)
LineTellsTheWire ==
    line # NoLine /\ exc # "cancel" =>
        IF starts > 0 THEN line = wireStatus ELSE line = NoStatus /\ gone

(* body_size_limit.py 28-34: the handler never gets, and the read-ahead never *)
(* holds, more than max_body_size bytes of body.                              *)
BodyWithinLimit ==
    /\ appBytes <= MaxBody
    /\ \A i \in DOMAIN buffered : buffered[i].upto <= MaxBody

(* body_size_limit.py 113-137: what was read ahead is handed over in order,   *)
(* nothing lost, repeated or overtaken.                                       *)
ReplayInOrder ==
    pc = "handler" =>
        /\ \A i \in DOMAIN buffered : buffered[i].no = appNo + i
        /\ mode = "eager" /\ buffered = <<>> => appNo >= msgs

(* body_size_limit.py 18-22: a handler without a Content-Length runs only     *)
(* when its whole body is in, within the limit, or its client has left.       *)
HandlerWaitsForBody ==
    handler # "idle" /\ mode = "eager" => (bodyDone \/ gone) /\ bytes <= MaxBody

(* A body over the limit is answered 413: declared or drained, without ever   *)
(* running the handler; counted, unless the handler had started to answer.    *)
OversizeRefused ==
    /\ declared > MaxBody \/ (mode = "eager" /\ total > MaxBody) =>
           /\ handler = "idle"
           /\ exc # "cancel" => wireStatus \in GateStatuses \cup {413, NoStatus}
           /\ mode = "eager" /\ exc # "cancel" => wireStatus \in {413, NoStatus}
    /\ handler = "toolarge" /\ line # NoLine /\ exc # "cancel" =>
           sizeStarted \/ wireStatus = 413

(* error_boundary.py 13-23 and 55-66: a handler's crash is answered with a    *)
(* complete 500, or, once the response had started, is never mistaken for a   *)
(* normal return: the exception leaves the stack and the connection is closed.*)
CrashAnswered ==
    pc = "done" /\ handler = "crashed" /\ exc # "cancel" =>
        IF ebStarted THEN exc = "error" ELSE wireStatus = 500 /\ ended /\ line = 500

(* Every request ends, with its access line, under Fairness.                  *)
EveryRequestLogged == <>(pc = "done" /\ line # NoLine)

X == INSTANCE Exchange WITH
         answer <- wireStatus, sealed <- ended, entry <- line, Codes <- Statuses

(* The stack keeps the promise of Exchange.                                   *)
KeepsExchange == X!XSpec

(* observability.py 93-95 ("registra como 500 e propaga") and                 *)
(* tests/core/test_observability.py 92-95: an exception that escapes to       *)
(* RequestContext is logged as 500.                                           *)
EscapedCrashLoggedAs500 == line # NoLine /\ exc = "error" => line = 500
================================================================================
