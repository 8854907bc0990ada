------------------------ MODULE ConnectionInvariants ------------------------
(***************************************************************************)
(* What ties the answers of a connection to its requests, step by step:    *)
(* the inductive invariant AInv behind the properties of module            *)
(* ConnectionProperties that IInv alone does not give, and behind the      *)
(* refinement of module ConnectionRefinement.  Each part says what holds   *)
(* at the locations it names; the code relies on it there and establishes  *)
(* it at the locations before.                                             *)
(***************************************************************************)
EXTENDS ConnectionProperties

(* A request that may be refused: it is not to be served, or does not have *)
(* the length it declares.                                                 *)
Refusable(m) == ~ Servable(m) \/ ~ SentAsDeclared(m)

-----------------------------------------------------------------------------
(* The context.                                                            *)

ToService == {"missing", "chunk", "chunkrecv", "parse"}
ToAnswer  == {"svc", "answer", "write", "http", "yield"}

(* The service has put nothing into the context yet.                       *)
NoOutput(c) == /\ c.decision = {} /\ c.icapStatus = {} /\ c.httpStatus = {}
               /\ c.icapHdrs = {} /\ c.httpHdrs = <<>>

(* clear() leaves nothing of a request to the next one.                    *)
FreshInv == pc \in {"init", "head"} => ctx = NewCtx

(* What the head of the request says is what the context says.             *)
HeadInv ==
    pc \in Decoded =>
        LET m == Request(ctx.msg)
        IN  /\ HeadServable(m) /\ ctx.method = m.method
            /\ m.ee # <<>> => ctx.bodyOff = LastEntity(m.ee).off
            /\ IsAnyReq(ctx) => (ctx.nullBody <=> ~ DeclaresBody(m))

(* What later steps put into the context is not there before them.         *)
EmptyInv ==
    /\ pc \in ToService => ctx.httpReq = 0 /\ ctx.httpRes = 0
    /\ pc \in ToService \cup {"svc"} => NoOutput(ctx)

(* The HTTP heads in the context are those of its request, decoded in the  *)
(* buffer there is.                                                        *)
HttpHeadsOf(c, m) ==
    /\ c.httpReq = IF m.reqLen > 0 THEN c.msg ELSE 0
    /\ c.httpRes = IF m.resLen > 0 THEN c.msg ELSE 0

DecodedInv == pc \in {"svc", "answer"} =>
                 HttpHeadsOf(ctx, Request(ctx.msg)) /\ ctx.basePtr = cap

(* The chunk of an announced body has been there, whole, and the HTTP      *)
(* heads are.                                                              *)
ChunkSeen == NeedsChunk(ctx) /\ Aligned =>
                /\ Request(ctx.msg).body = "zero"
                /\ BodyBuffered >= Request(ctx.msg).line + CRLF

BodyInv ==
    /\ pc \in {"chunk", "chunkrecv"} => NeedsChunk(ctx)
    /\ pc \in {"parse"} \cup ToAnswer =>
          /\ IsAnyReq(ctx) => ctx.parsed + ctx.bodyOff <= Buffered
          /\ ChunkSeen
    /\ pc \in ToAnswer => EntitiesOk(ctx, Request(ctx.msg), Buffered)

-----------------------------------------------------------------------------
(* The calls of the service.                                               *)

LastCall == calls[Len(calls)]

(* Nothing of request k is left in the stream, or what is left the request *)
(* did not declare.                                                        *)
Passed(k) == \/ End(k) <= base
             \/ ~ SentAsDeclared(Request(k))
             \/ HiddenBodied(Request(k))

CallInv(c) ==
    /\ c.msg \in DOMAIN sent /\ c.reply \in Replies
    /\ Acceptable(Request(c.msg))
    /\ HttpHeadsOf(c, Request(c.msg))
    /\ \/ sent[c.msg].start < base /\ Passed(c.msg)
       \/ /\ sent[c.msg].start = base
          /\ pc \in {"answer", "status", "write", "http", "yield"} \cup Ended

CallsInv == /\ \A i \in DOMAIN calls : CallInv(calls[i])
            /\ \A i, j \in DOMAIN calls : i < j => calls[i].msg < calls[j].msg

(* The call that the answer in the making is about.                        *)
LastCallFor(k) == calls # <<>> /\ LastCall.msg = k

-----------------------------------------------------------------------------
(* The answers.                                                            *)

(* The ICAP head that request m and the service's reply r call for.        *)
AnswerTo(h, m, r) ==
    IF Unusable(m, r) THEN h = StatusHead(h.msg, 500)
    ELSE /\ ~ h.close /\ h.status = StatusFor(m, r)
         /\ h.http <=> HasHttpHead(m, r)
         /\ h.http <=> h.enc # {}
         /\ h.hdrs = ServerHeaders(m, r) \cup r.icapHdrs

(* The HTTP head that goes with the ICAP head h.                           *)
HeadMeasured(h, ps) ==
    \A e \in h.enc :
        /\ e.off \in DOMAIN ps
        /\ \A j \in 1 .. e.off : ps[j].what = "crlf" <=> j = e.off
        /\ SubSeq(ps, e.off + 1, Len(ps))
              = IF e.body = "null-body" THEN <<>> ELSE UseOriginalBody

HeadOwned(h, ps) ==
    /\ ps[1].msg = IF ps[1].what = "status" /\ Request(h.msg).reqLen = 0
                   THEN 0 ELSE h.msg
    /\ \A j \in DOMAIN ps : ps[j].what = "added" => ps[j].msg = h.msg

HttpHeadFor(h, ps) == HeadMeasured(h, ps) /\ HeadOwned(h, ps)

(* What the service left in the context.                                   *)
OutputOf(c, r) ==
    /\ ~ r.err /\ ~ r.panics
    /\ c.decision = r.decision
    /\ c.icapStatus = r.icapStatus /\ c.httpStatus = r.httpStatus
    /\ c.icapHdrs = r.icapHdrs
    /\ c.httpHdrs = IF r.addsHttp THEN <<c.msg>> ELSE <<>>

(* A refusal in wbuf: of the request at base, which the service has not    *)
(* been asked about, or of bytes at base that begin no request.            *)
RefusalInv(h) ==
    /\ h = StatusHead(h.msg, 400)
    /\ \A i \in DOMAIN calls : sent[calls[i].msg].start < base
    /\ IF h.msg = 0
       THEN base < pos /\ \A k \in DOMAIN sent : sent[k].start # base
       ELSE /\ h.msg \in DOMAIN sent /\ sent[h.msg].start = base
            /\ Refusable(Request(h.msg))

(* From the service's return to the end of the answer, what the task holds *)
(* is what its last call calls for: the output in the context, ...         *)
AnswerInv == pc = "answer" =>
    LastCallFor(ctx.msg) /\ OutputOf(ctx, LastCall.reply)

(* ... an error status in wbuf, if it is no refusal, ...                   *)
StatusInv == pc = "status" =>
    /\ Len(wbuf) = 1
    /\ \/ RefusalInv(wbuf[1])
       \/ /\ LastCallFor(wbuf[1].msg)
          /\ wbuf[1].msg \in DOMAIN sent /\ sent[wbuf[1].msg].start = base
          /\ Unusable(Request(wbuf[1].msg), LastCall.reply)
          /\ wbuf[1] = StatusHead(wbuf[1].msg, 500)

(* ... an ICAP head in wbuf, with the HTTP head in http_buf, ...           *)
WriteInv == pc = "write" =>
    /\ Len(wbuf) = 1 /\ wbuf[1].msg = ctx.msg /\ LastCallFor(ctx.msg)
    /\ ~ Unusable(Request(ctx.msg), LastCall.reply)
    /\ AnswerTo(wbuf[1], Request(ctx.msg), LastCall.reply)
    /\ wbuf[1].http => HttpHeadFor(wbuf[1], httpBuf)

(* ... the HTTP head still to be written after its ICAP head, ...          *)
HttpInv == pc = "http" =>
    /\ out # <<>> /\ Len(out[Len(out)].heads) = 1
    /\ LET h == out[Len(out)].heads[1]
       IN  h.msg = ctx.msg /\ h.http /\ HttpHeadFor(h, httpBuf)

(* ... and at the end the whole answer is out.                             *)
YieldInv == pc = "yield" => Answered(ctx.msg)

ReplyInv == AnswerInv /\ StatusInv /\ WriteInv /\ HttpInv /\ YieldInv

(* An ICAP head that has been written.                                     *)
WrittenInv(h) ==
    IF h.msg = 0 THEN h = StatusHead(0, 400)
    ELSE /\ h.msg \in DOMAIN sent
         /\ \/ /\ h = StatusHead(h.msg, 400) /\ CallsFor(h.msg) = {}
               /\ Refusable(Request(h.msg))
            \/ \E c \in CallsFor(h.msg) :
                  AnswerTo(h, Request(h.msg), c.reply)

(* HTTP heads are where they are announced, and go with the ICAP head      *)
(* before them.                                                            *)
PairInv == \A i \in 2 .. Len(out) :
              out[i].heads = <<>> => HttpHeadFor(out[i - 1].heads[1],
                                                 out[i].pieces)

OutInv ==
    /\ \A i \in DOMAIN out : \A h \in HeadsOf(i) : WrittenInv(h)
    /\ HttpHeadFollowsIcapHead
    /\ PairInv
    /\ base # 0 \/ pc \in {"http", "yield"} => out # <<>>

-----------------------------------------------------------------------------
(* The stream: requests follow one another without a gap.                  *)

CoverInv ==
    /\ \A i, j \in DOMAIN sent : i < j => End(i) <= sent[j].start
    /\ client = "open" => \A i \in DOMAIN sent : End(i) <= limit
    /\ \A p \in 0 .. limit - 1 :
          \E k \in DOMAIN sent : sent[k].start <= p /\ p < End(k)

AInv == /\ IInv /\ FreshInv /\ HeadInv /\ EmptyInv /\ DecodedInv /\ BodyInv
        /\ CallsInv /\ ReplyInv /\ OutInv /\ CoverInv

-----------------------------------------------------------------------------
(* AnswersAreFaithful for any clients: what it says of the answer to a     *)
(* request that has the length it declares, whatever the other requests of *)
(* the connection are.                                                     *)
DeclaredAnswersAreFaithful ==
    \A h \in {g \in AllHeads : g.msg # 0} :
        LET m == Request(h.msg)
        IN  SentAsDeclared(m) =>
               IF Servable(m)
               THEN \E c \in CallsFor(h.msg) : h.status = StatusFor(m, c.reply)
               ELSE h.status = 400 /\ CallsFor(h.msg) = {}

-----------------------------------------------------------------------------
(* A client that waits for its answers.                                    *)

(* A request that is read to its end before it is answered.                *)
LeavesNothing(m) ==
    \/ SentAsDeclared(m) /\ ~ HiddenBodied(m)
    \/ /\ m.method # "OPTIONS" /\ m.ee # <<>>
       /\ LastEntity(m.ee).off >= HttpLen(m) + BodyLen(m)

AnswersWritten == Cardinality(Completing(Len(out)))

LastSent == Len(sent)

(* rbuf is empty, and so is the stream.                                    *)
IdleInv == /\ pc \in {"init", "head"} /\ AnswersWritten = LastSent
           /\ \A k \in DOMAIN sent : End(k) <= base

(* The last request begins rbuf, and its answer is not complete.           *)
BusyInv == /\ pc # "yield" /\ LastSent # 0 /\ AnswersWritten = LastSent - 1
           /\ sent[LastSent].start = base

(* The answer is complete, and the client may have sent the next request.  *)
AnsweredInv ==
    /\ pc = "yield" /\ AnswersWritten = ctx.msg /\ pos = End(ctx.msg)
    /\ \/ ctx.msg = LastSent
       \/ ctx.msg = LastSent - 1 /\ sent[LastSent].start = pos

(* With Window = 1 and requests that leave nothing, the server never has   *)
(* bytes of two requests.                                                  *)
PacedInv == /\ seen <= Len(out)
            /\ pc \in Ended \/ IdleInv \/ BusyInv \/ AnsweredInv
=============================================================================
