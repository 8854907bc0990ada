----------------------------- MODULE Connection -----------------------------
(***************************************************************************)
(* One connection of the ICAP server: the task that Connection::process    *)
(* runs (server/connection.rs), its TCP socket, the client at the other    *)
(* end and the service the task consults.                                  *)
(*                                                                         *)
(* The task is sequential; what interleaves with it, at every await, is    *)
(* the client (it sends, reads answers, half-closes, disappears), the      *)
(* network (a read returns any part of what was sent, fails, times out)    *)
(* and the service (it answers anything of its interface).  pc names the   *)
(* await or the function the task is in; "dead" is a task that a panic has *)
(* ended, its socket closed as it was.                                     *)
(*                                                                         *)
(* The client's bytes form one stream.  sent records which request starts  *)
(* where in it, pos how much of it the task has read, and rbuf holds the   *)
(* bytes from base (exclusive) up to pos.                                  *)
(***************************************************************************)
EXTENDS IcapPromise, FiniteSets

CONSTANTS
    Messages,   \* the requests clients send
    Replies,    \* what the service may answer
    MaxMsgs,    \* bound: requests sent on the connection
    Window,     \* requests a client sends ahead of their answers
    OutCap,     \* writes the socket takes before the client reads one
    RBufCap,    \* initial capacity of rbuf                      (8192)
    LowCap,     \* capacity below which recv reserves RBufCap    (1024)
    GrowBy,     \* what BytesMut::chunk_mut reserves when full   (64)
    AllocMax    \* the largest buffer the allocator gives

(* A request has the HTTP heads its Encapsulated header announces.         *)
ASSUME MessagesAssumption ==
    /\ Messages \subseteq Requests
    /\ \A m \in Messages : /\ m.reqLen > 0 <=> HasEntity(m, "req-hdr")
                           /\ m.resLen > 0 <=> HasEntity(m, "res-hdr")
ASSUME RepliesAssumption == Replies \subseteq ServiceReplies
ASSUME BoundsAssumption ==
    /\ MaxMsgs \in Nat \ {0} /\ Window \in Nat \ {0} /\ OutCap \in Nat \ {0}
ASSUME BufferAssumption ==
    /\ RBufCap \in Nat \ {0} /\ LowCap \in Nat /\ GrowBy \in Nat \ {0}
    /\ AllocMax \in Nat /\ UsizeMax \in Nat
    /\ RBufCap <= AllocMax /\ AllocMax <= UsizeMax

VARIABLES
    sent,     \* the requests sent so far, each with its stream position
    limit,    \* stream bytes that have been sent and will arrive
    client,   \* "open", "closed" (no more requests) or "gone"
    seen,     \* writes the client has read
    pc,       \* where the task is
    pos,      \* stream bytes the task has read
    base,     \* stream position rbuf begins at
    cap,      \* capacity of rbuf; a larger one is a new allocation
    ctx,      \* the ReqCtx
    httpBuf,  \* ctx.http_buf: the parts of the HTTP head to send
    wbuf,     \* Connection::wbuf: the ICAP heads in it
    out,      \* every write that has completed
    calls     \* history: the calls of the service

clientVars == <<sent, limit, client, seen>>
bufVars    == <<pos, base, cap>>
vars == <<sent, limit, client, seen, pc, pos, base, cap, ctx, httpBuf, wbuf,
          out, calls>>

-----------------------------------------------------------------------------
(* Types.                                                                  *)

Locations == {"init", "head", "missing", "chunk", "chunkrecv", "parse", "svc",
              "answer", "status", "write", "http", "yield", "shutdown", "done",
              "dead"}

(* A part of an HTTP head and the request it comes from (0: from none).    *)
Pieces == [what : {"request", "response", "status", "added", "crlf", "chunk"},
           msg : Nat]

(* The Encapsulated header append_headers and custom_response write: the   *)
(* kinds and the offset of the body, in pieces instead of bytes.           *)
Encapsulated == [hdr : HeaderKinds, body : BodyKinds, off : Nat]

(* An ICAP answer head: the request it answers (0: it answers bytes that   *)
(* begin no request), the names it took from out_icap_headers, the         *)
(* Encapsulated header written next to them, whether it says Connection:   *)
(* close and whether an HTTP head follows it.                              *)
Heads == [msg : Nat, status : Statuses, hdrs : SUBSET IcapNames,
          enc : Option(Encapsulated), close : BOOLEAN, http : BOOLEAN]

Writes == [heads : Seq(Heads), pieces : Seq(Pieces)]

Calls == [msg : Nat, httpReq : Nat, httpRes : Nat, reply : ServiceReplies]

-----------------------------------------------------------------------------
(* The receive buffer.                                                     *)

Buffered == pos - base

Larger(a, b) == IF a >= b THEN a ELSE b

(* BytesMut::reserve on a buffer of capacity c that holds n bytes.         *)
Reserve(c, n, more) == IF c - n >= more THEN c ELSE Larger(2 * c, n + more)

ChunkMut(c, n) == IF c = n THEN Reserve(c, n, GrowBy) ELSE c

(* The room recv makes; a slip asks for as much again before every read.   *)
DoubleRoom(c, n) == ChunkMut(Reserve(c, n, c), n)
RecvRoom(c, n) ==
    ChunkMut(IF c <= LowCap THEN Reserve(c, n, RBufCap) ELSE c, n)

(* The room alloc_buffer_for_headers makes for the missing HTTP heads; a   *)
(* slip compares them with the capacity and not with what is free of it.   *)
RoomInCapacity(c, n, missing) == Larger(c, missing)
RoomForHeaders(c, n, missing) ==
    IF missing > 0 THEN Reserve(c, n, missing) ELSE c

(* The request that begins where rbuf begins, 0 if there is none.          *)
Current == IF \E k \in DOMAIN sent : sent[k].start = base
           THEN CHOOSE k \in DOMAIN sent : sent[k].start = base
           ELSE 0

Request(k) == sent[k].req
End(k)     == sent[k].start + Size(Request(k))

-----------------------------------------------------------------------------
Init == /\ sent = <<>> /\ limit = 0 /\ client = "open" /\ seen = 0
        /\ pc = "init"
        /\ pos = 0 /\ base = 0 /\ cap = RBufCap
        /\ ctx = NewCtx
        /\ httpBuf = <<>> /\ wbuf = <<>>
        /\ out = <<>> /\ calls = <<>>

-----------------------------------------------------------------------------
(* The client and the network.                                             *)

(* An answer is complete for the client with its last write.               *)
Completes(w) == w.pieces # <<>> \/ ~ w.heads[Len(w.heads)].http

(* Those among the first n writes that complete one.                       *)
Completing(n) == {i \in 1 .. n : Completes(out[i])}

AnswersRead == Cardinality(Completing(seen))

ClientSend == /\ client = "open"
              /\ Len(sent) < MaxMsgs
              /\ Len(sent) - AnswersRead < Window
              /\ \E m \in Messages :
                    /\ sent' = Append(sent, [req |-> m, start |-> limit])
                    /\ limit' = limit + Size(m)
              /\ UNCHANGED <<client, seen, pc, bufVars, ctx, httpBuf, wbuf,
                             out, calls>>

(* The client stops sending, possibly in the middle of a request.          *)
ClientClose == /\ client = "open"
               /\ client' = "closed"
               /\ limit' \in pos .. limit
               /\ UNCHANGED <<sent, seen, pc, bufVars, ctx, httpBuf, wbuf,
                              out, calls>>

(* The connection breaks: what was under way is lost from some point on.   *)
ClientGone == /\ client # "gone"
              /\ client' = "gone"
              /\ limit' \in pos .. limit
              /\ UNCHANGED <<sent, seen, pc, bufVars, ctx, httpBuf, wbuf,
                             out, calls>>

ClientRead == /\ client # "gone"
              /\ seen < Len(out)
              /\ seen' = seen + 1
              /\ UNCHANGED <<sent, limit, client, pc, bufVars, ctx, httpBuf,
                             wbuf, out, calls>>

Goto(location) ==
    /\ pc' = location
    /\ UNCHANGED <<clientVars, bufVars, ctx, httpBuf, wbuf, out, calls>>

-----------------------------------------------------------------------------
(* Reading.  The three awaits on a read: init_ctx waits for the head       *)
(* ("head"), recv_missing_header_bytes for the HTTP heads ("missing"),     *)
(* recv_preview_zero_chunk for the chunk ("chunkrecv").                    *)

Reading == \/ pc \in {"head", "chunkrecv"}
           \/ pc = "missing" /\ ctx.missing > 0

(* recv makes room for a read, the loop over missing bytes has it.         *)
RoomToRead == IF pc = "missing" THEN ChunkMut(cap, Buffered)
                                ELSE RecvRoom(cap, Buffered)

(* A read into the c - Buffered free bytes of rbuf returns n of the bytes  *)
(* that are on their way.                                                  *)
Read(c, n) == /\ c <= AllocMax
              /\ n <= c - Buffered
              /\ n <= limit - pos
              /\ cap' = c
              /\ pos' = pos + n

RecvHead == /\ pc = "head"
            /\ \E n \in 1 .. limit - pos : Read(RecvRoom(cap, Buffered), n)
            /\ pc' = "init"
            /\ UNCHANGED <<clientVars, base, ctx, httpBuf, wbuf, out, calls>>

(* A read may return more than what is missing; a slip subtracts it all.   *)
SubtractAll(missing, n)  == missing - n
StillMissing(missing, n) == IF n < missing THEN missing - n ELSE 0

RecvMissing ==
    /\ pc = "missing"
    /\ ctx.missing > 0
    /\ \E n \in 1 .. limit - pos :
          /\ Read(ChunkMut(cap, Buffered), n)
          /\ ctx' = [ctx EXCEPT !.missing = StillMissing(@, n)]
    /\ UNCHANGED <<clientVars, pc, base, httpBuf, wbuf, out, calls>>

RecvChunk ==
    /\ pc = "chunkrecv"
    /\ \E n \in 1 .. limit - pos : Read(RecvRoom(cap, Buffered), n)
    /\ pc' = "chunk"
    /\ UNCHANGED <<clientVars, base, ctx, httpBuf, wbuf, out, calls>>

(* The three ways a read ends without data: end of stream, an error of the *)
(* socket, the timeout.  Each of them closes the connection.               *)
Abandon == Goto("shutdown")

(* A slip: a timeout on the first read only.                               *)
HeadTimeout == pc = "head" /\ Abandon

RecvEof     == Reading /\ client # "open" /\ pos = limit /\ Abandon
RecvError   == Reading /\ client = "gone" /\ Abandon
RecvTimeout == Reading /\ Abandon

-----------------------------------------------------------------------------
(* Answers.  wbuf and http_buf are cleared and filled, then written out.   *)

(* A slip: the buffer is not cleared first.                                *)
Uncleared(buf) == buf

Cleared(buf) == <<>>

IcapHead(k, status, hdrs, enc) ==
    [msg |-> k, status |-> status, hdrs |-> hdrs, enc |-> enc,
     close |-> FALSE, http |-> enc # {}]

(* send_status: the headers are fixed and nothing comes from the context.  *)
StatusHead(k, status) ==
    [IcapHead(k, status, {"ISTag", "Connection", "Encapsulated"}, {})
        EXCEPT !.close = TRUE]

SendStatus(status) ==
    /\ wbuf' = Append(Cleared(wbuf), StatusHead(Current, status))
    /\ pc' = "status"
    /\ UNCHANGED <<clientVars, bufVars, out>>

Refuse == SendStatus(400) /\ UNCHANGED <<ctx, httpBuf, calls>>

-----------------------------------------------------------------------------
(* process_message, up to the call of the service.                         *)

(* ctx.init() finds less than a whole ICAP head.  Bytes from the middle of *)
(* a request look like one, or like none.                                  *)
InitPartial ==
    /\ pc = "init"
    /\ Current # 0 => Buffered < Request(Current).head
    /\ Goto("head")

(* The buffer a whole head asks for, before check_sanity looks at it.      *)
HeadRoom ==
    LET m == Request(Current)
    IN  IF HeadReadable(m)
        THEN RoomForHeaders(cap, Buffered,
                InitCtx(ctx, Current, m, cap, Buffered).missing)
        ELSE cap

Overdrawn == HeadRoom > AllocMax

InitBad ==
    /\ pc = "init"
    /\ Buffered > 0
    /\ Current # 0 =>
          /\ Buffered >= Request(Current).head
          /\ ~ Overdrawn
          /\ ~ InitOk(ctx, Current, Request(Current), cap, Buffered)
    /\ Refuse

InitComplete ==
    /\ pc = "init"
    /\ Current # 0
    /\ Buffered >= Request(Current).head
    /\ ~ Overdrawn
    /\ InitOk(ctx, Current, Request(Current), cap, Buffered)
    /\ ctx' = InitCtx(ctx, Current, Request(Current), cap, Buffered)
    /\ cap' = RoomForHeaders(cap, Buffered, ctx'.missing)
    /\ pc' = "missing"
    /\ UNCHANGED <<clientVars, pos, base, httpBuf, wbuf, out, calls>>

(* reserve wants more than there is: it panics, or the allocation fails.   *)
AllocFails ==
    /\ \/ /\ pc = "init"
          /\ Current # 0 /\ Buffered >= Request(Current).head
          /\ Overdrawn
       \/ Reading /\ RoomToRead > AllocMax
    /\ Goto("dead")

(* Whether a chunk must follow; a slip asks only REQMOD for it.            *)
ReqmodNeedsChunk(c) == c.method = "REQMOD" /\ ~c.nullBody
NeedsChunk(c)       == IsAnyReq(c) /\ ~c.nullBody

HeadersReceived ==
    /\ pc = "missing"
    /\ ctx.missing = 0
    /\ Goto(IF NeedsChunk(ctx) THEN "chunk" ELSE "parse")

(* recv_preview_zero_chunk, at the offset the request has declared.  Where *)
(* that is not where the chunk begins, the bytes there read as anything.   *)
BodyBuffered == Buffered - (ctx.parsed + ctx.bodyOff)

Aligned == LET m == Request(ctx.msg)
           IN  m.body # "none" /\ ctx.bodyOff = HttpLen(m)

ChunkLine == IF Aligned THEN Request(ctx.msg).line ELSE 1
ChunkKind == IF Aligned THEN {Request(ctx.msg).body} ELSE Bodies

(* The chunk header line and the CRLF after it are there; a slip waits for *)
(* one byte more.                                                          *)
ChunkAndMore  == BodyBuffered > ChunkLine + CRLF
ChunkComplete == BodyBuffered >= ChunkLine + CRLF

ChunkMore ==
    /\ pc = "chunk"
    /\ \/ BodyBuffered < ChunkLine
       \/ ~Aligned
       \/ /\ ChunkKind \cap {"zero", "badcrlf"} # {}
          /\ ~ChunkComplete
    /\ Goto("chunkrecv")

ChunkBad ==
    /\ pc = "chunk"
    /\ \/ ChunkKind \cap {"data", "badline"} # {} /\ BodyBuffered >= ChunkLine
       \/ "badcrlf" \in ChunkKind /\ ChunkComplete
    /\ Refuse

ChunkOk ==
    /\ pc = "chunk"
    /\ "zero" \in ChunkKind
    /\ ChunkComplete
    /\ Goto("parse")

ParseOk ==
    /\ pc = "parse"
    /\ EntitiesOk(ctx, Request(ctx.msg), Buffered)
    /\ ctx' = ParseEntities(ctx, Request(ctx.msg), cap)
    /\ pc' = "svc"
    /\ UNCHANGED <<clientVars, bufVars, httpBuf, wbuf, out, calls>>

ParseBad ==
    /\ pc = "parse"
    /\ ~ EntitiesOk(ctx, Request(ctx.msg), Buffered)
    /\ Refuse

-----------------------------------------------------------------------------
(* The service, and the answer made of what it returns.                    *)

SetOutput(c, r) ==
    [c EXCEPT !.decision   = OrElse(r.decision, @),
              !.icapStatus = OrElse(r.icapStatus, @),
              !.httpStatus = OrElse(r.httpStatus, @),
              !.icapHdrs   = @ \cup r.icapHdrs,
              !.httpHdrs   = IF r.addsHttp THEN Append(@, c.msg) ELSE @]

Called(r) == calls' = Append(calls,
    [msg |-> ctx.msg, httpReq |-> ctx.httpReq, httpRes |-> ctx.httpRes,
     reply |-> r])

ServiceFails ==
    /\ pc = "svc"
    /\ \E r \in Replies : r.err /\ ~ r.panics /\ Called(r)
    /\ SendStatus(500)
    /\ UNCHANGED <<ctx, httpBuf>>

ServiceReturns ==
    /\ pc = "svc"
    /\ \E r \in Replies : /\ ~ r.err /\ ~ r.panics
                          /\ Called(r)
                          /\ ctx' = SetOutput(ctx, r)
    /\ pc' = "answer"
    /\ UNCHANGED <<clientVars, bufVars, httpBuf, wbuf, out>>

ServicePanics ==
    /\ pc = "svc"
    /\ \E r \in Replies : r.panics /\ Called(r)
    /\ pc' = "dead"
    /\ UNCHANGED <<clientVars, bufVars, ctx, httpBuf, wbuf, out>>

Answering(decision) ==
    /\ pc = "answer"
    /\ IsAnyReq(ctx)
    /\ ctx.decision = decision

(* The answer has one Encapsulated header, from the map or next to it.     *)
Reply(c, status, enc) ==
    /\ ctx' = c
    /\ wbuf' = Append(Cleared(wbuf), IcapHead(c.msg, status, c.icapHdrs, enc))
    /\ pc' = "write"
    /\ UNCHANGED <<clientVars, bufVars, out, calls>>

ProcessOptions ==
    /\ pc = "answer"
    /\ ~ IsAnyReq(ctx)
    /\ Reply(EnsureOptionsHeaders(ctx),
             Value(OrElse(ctx.icapStatus, {200})), {})
    /\ UNCHANGED httpBuf

NoDecision == /\ Answering({})
              /\ SendStatus(500)
              /\ UNCHANGED <<ctx, httpBuf, calls>>

Send204 == /\ Answering({"NoAdaptation"})
           /\ Reply(Ensure204Headers(ctx), 204, {})
           /\ UNCHANGED httpBuf

AddedHeaders(c) ==
    [i \in 1 .. Len(c.httpHdrs) |-> [what |-> "added", msg |-> c.httpHdrs[i]]]

(* The HTTP head up to and with the empty line; its length is the offset   *)
(* of the body.                                                            *)
OriginalHead(c) ==
    <<IF c.method = "REQMOD" THEN [what |-> "request", msg |-> c.httpReq]
                             ELSE [what |-> "response", msg |-> c.httpRes]>>

HeadBytes(start, c) ==
    start \o AddedHeaders(c) \o <<[what |-> "crlf", msg |-> 0]>>

UseOriginalBody == <<[what |-> "chunk", msg |-> 0]>>

WithChunk(c, head) == IF c.nullBody THEN head ELSE head \o UseOriginalBody

(* The offset of the body; a slip measures after adding the chunk.         *)
OffsetAfterChunk(c, head) == Len(WithChunk(c, head))
BodyOffset(c, head)       == Len(head)

AppendHeaders ==
    /\ Answering({"AppendHeaders"})
    /\ LET c     == EnsureResponseHeaders(ctx)
           isReq == c.method = "REQMOD"
           head  == Cleared(httpBuf) \o HeadBytes(OriginalHead(c), c)
           body  == IF c.nullBody THEN "null-body"
                    ELSE IF isReq THEN "req-body" ELSE "res-body"
       IN  /\ httpBuf' = WithChunk(c, head)
           /\ Reply(c, IF c.nullBody THEN 200 ELSE 206,
                    {[hdr |-> IF isReq THEN "req-hdr" ELSE "res-hdr",
                      body |-> body, off |-> BodyOffset(c, head)]})

NoHttpStatus ==
    /\ Answering({"CustomResponse"})
    /\ ctx.httpStatus = {}
    /\ ctx' = EnsureResponseHeaders(ctx)
    /\ httpBuf' = Cleared(httpBuf)
    /\ SendStatus(500)
    /\ UNCHANGED calls

(* The version in the status line is that of the HTTP request, if any.     *)
CustomResponse ==
    /\ Answering({"CustomResponse"})
    /\ ctx.httpStatus # {}
    /\ LET c    == EnsureResponseHeaders(ctx)
           head == Cleared(httpBuf)
                     \o HeadBytes(<<[what |-> "status", msg |-> c.httpReq]>>, c)
       IN  /\ httpBuf' = head
           /\ Reply(c, 200, {[hdr |-> "res-hdr", body |-> "null-body",
                              off |-> Len(head)]})

-----------------------------------------------------------------------------
(* Writing.  A write waits until the client has read enough; nothing       *)
(* bounds the wait.                                                        *)

Write(w) == /\ Len(out) - seen < OutCap
            /\ out' = Append(out, w)

(* After an error status the connection closes; a slip goes on.            *)
KeepAlive   == "yield"
AfterStatus == "shutdown"

WriteStatus ==
    /\ pc = "status"
    /\ Write([heads |-> wbuf, pieces |-> <<>>])
    /\ pc' = AfterStatus
    /\ UNCHANGED <<clientVars, bufVars, ctx, httpBuf, wbuf, calls>>

WriteHead ==
    /\ pc = "write"
    /\ Write([heads |-> wbuf, pieces |-> <<>>])
    /\ pc' = IF wbuf[Len(wbuf)].http THEN "http" ELSE "yield"
    /\ UNCHANGED <<clientVars, bufVars, ctx, httpBuf, wbuf, calls>>

WriteHttp ==
    /\ pc = "http"
    /\ Write([heads |-> <<>>, pieces |-> httpBuf])
    /\ pc' = "yield"
    /\ UNCHANGED <<clientVars, bufVars, ctx, httpBuf, wbuf, calls>>

WriteFail ==
    /\ pc \in {"status", "write", "http"}
    /\ client = "gone"
    /\ Abandon

(* process: ctx.clear() empties rbuf too, then the task yields.  A slip    *)
(* leaves the request in rbuf.                                             *)
KeepBuffer == base
ClearRbuf  == pos

Yield == /\ pc = "yield"
         /\ ctx' = Clear(ctx)
         /\ base' = ClearRbuf
         /\ pc' = "init"
         /\ UNCHANGED <<clientVars, pos, cap, httpBuf, wbuf, out, calls>>

Shutdown == pc = "shutdown" /\ Goto("done")

Terminated == pc \in {"done", "dead"} /\ UNCHANGED vars

-----------------------------------------------------------------------------
Client == ClientSend \/ ClientClose \/ ClientGone \/ ClientRead

Recv == \/ RecvHead \/ RecvMissing \/ RecvChunk
        \/ RecvEof \/ RecvError \/ RecvTimeout

Local == \/ InitPartial \/ InitBad \/ InitComplete \/ AllocFails
         \/ HeadersReceived \/ ChunkMore \/ ChunkBad \/ ChunkOk
         \/ ParseOk \/ ParseBad
         \/ ProcessOptions \/ NoDecision \/ Send204
         \/ AppendHeaders \/ NoHttpStatus \/ CustomResponse
         \/ Yield \/ Shutdown

WriteOut == WriteStatus \/ WriteHead \/ WriteHttp \/ WriteFail

Service == ServiceFails \/ ServiceReturns \/ ServicePanics

Next == Client \/ Recv \/ Local \/ Service \/ WriteOut \/ Terminated

Spec == Init /\ [][Next]_vars

(* The runtime polls a task that can run; a read ends, in a timeout if in  *)
(* nothing else; the service answers every call.  Only ClientRead is asked *)
(* of the client, since the code puts no timeout on a write.               *)
Fairness == /\ WF_vars(Recv) /\ WF_vars(Local) /\ WF_vars(Service)
            /\ WF_vars(WriteOut) /\ WF_vars(ClientRead)

FairSpec == Spec /\ Fairness

=============================================================================
