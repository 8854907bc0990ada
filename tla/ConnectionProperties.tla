------------------------ MODULE ConnectionProperties ------------------------
(***************************************************************************)
(* What one connection of the ICAP server gets right (module Connection):  *)
(* its buffer, its answers, their order, the end of the connection; and    *)
(* two sentences of the repository it does not keep to.                    *)
(***************************************************************************)
EXTENDS Connection

(* Every variable keeps to its type.  That ctx.missing stays a number says *)
(* that the subtraction of a read that returned more than what was missing *)
(* does not wrap around.                                                   *)
TypeOK ==
    /\ sent \in Seq([req : Messages, start : Nat])
    /\ limit \in Nat /\ client \in {"open", "closed", "gone"} /\ seen \in Nat
    /\ pc \in Locations
    /\ pos \in Nat /\ base \in Nat /\ cap \in Nat
    /\ ctx \in Contexts
    /\ httpBuf \in Seq(Pieces) /\ wbuf \in Seq(Heads)
    /\ out \in Seq(Writes) /\ calls \in Seq(Calls)

(* rbuf never holds more than its capacity (advance_mut is unchecked), the *)
(* room reserved for the missing HTTP heads is still there at every read   *)
(* of them, and the body slice begins inside rbuf: the debug assertions of *)
(* connection.rs:348 and :371 and the slice of :378, whatever offsets the  *)
(* peer declares and however its bytes are cut up.  The sum of :370 then   *)
(* is no larger than a buffer that could be allocated: it has not wrapped. *)
BufferSafe ==
    /\ base <= pos
    /\ Buffered <= cap /\ cap <= UsizeMax
    /\ pc = "missing" => Buffered + ctx.missing <= cap
    /\ pc \in {"chunk", "chunkrecv"} => ctx.parsed + ctx.bodyOff <= Buffered

(* What the service and the answer read through header indices was decoded *)
(* in the allocation rbuf now has (connection.rs:113): reads that make     *)
(* rbuf grow come before, or the head is decoded again.                    *)
HeadsDecodedInPlace == pc \in {"svc", "answer"} => ctx.basePtr = cap

(* The end a request has or declares, whichever is farther.                *)
Extent(m) ==
    Larger(Size(m), m.head + m.line + CRLF
                      + (IF m.ee = <<>> THEN 0 ELSE LastEntity(m.ee).off))

(* rbuf never shrinks and is never given back, but what it grows to is     *)
(* bound by the largest request of the connection, sent or declared, and   *)
(* not by how many there were or how many reads they came in; for a client *)
(* that waits for its answers.                                             *)
MemoryFollowsRequests ==
    \/ cap = RBufCap
    \/ \E k \in DOMAIN sent :
          cap <= 2 * (Extent(Request(k)) + Larger(RBufCap, GrowBy))

HeadsOf(i) == {out[i].heads[j] : j \in DOMAIN out[i].heads}
AllHeads   == UNION {HeadsOf(i) : i \in DOMAIN out}

(* Answers come in the order of the requests, at most one per request, and *)
(* an answer to something that is no request is the last one.              *)
AnswersInOrder ==
    \A i, j \in DOMAIN out : i < j =>
        \A g \in HeadsOf(i), h \in HeadsOf(j) :
            g.msg # 0 /\ (h.msg = 0 \/ g.msg < h.msg)

CallsFor(k) == {calls[i] : i \in {j \in DOMAIN calls : calls[j].msg = k}}

(* Every answer is the one its request and the service's reply to it call  *)
(* for, as functions of these two alone: not of how the network cut up the *)
(* bytes, and not of what earlier requests left in ReqCtx (clear) or in    *)
(* the write buffer.  A request the server refuses never reaches the       *)
(* service.                                                                *)
AnswersAreFaithful ==
    \A h \in {g \in AllHeads : g.msg # 0} :
        LET m == Request(h.msg)
        IN  IF Servable(m)
            THEN \E c \in CallsFor(h.msg) : h.status = StatusFor(m, c.reply)
            ELSE h.status = 400 /\ CallsFor(h.msg) = {}

(* A write of an ICAP head that announces an HTTP head is followed by that *)
(* HTTP head or by nothing, which only a broken connection leaves behind;  *)
(* no HTTP head comes unannounced.                                         *)
HttpHeadFollowsIcapHead ==
    \A i \in DOMAIN out :
        LET w == out[i]
        IN  IF w.heads = <<>> THEN i > 1 /\ out[i - 1].heads # <<>>
            ELSE /\ Len(w.heads) = 1
                 /\ IF w.heads[1].http
                    THEN IF i < Len(out)
                         THEN out[i + 1].heads = <<>>
                         ELSE \/ pc = "http"
                              \/ client = "gone" /\ pc \in {"shutdown", "done"}
                    ELSE i < Len(out) => out[i + 1].heads # <<>>

(* The body offset in Encapsulated is the length of the HTTP head as sent: *)
(* it ends with the empty line, and what follows is the chunk that tells   *)
(* the client to use the original body, exactly when a body is announced.  *)
EncapsulatedOffsetIsHeadLength ==
    \A i \in 2 .. Len(out) : out[i].heads = <<>> =>
        \A e \in out[i - 1].heads[1].enc :
            LET ps   == out[i].pieces
                tail == SubSeq(ps, e.off + 1, Len(ps))
            IN  /\ e.off \in DOMAIN ps
                /\ \A j \in 1 .. e.off : ps[j].what = "crlf" <=> j = e.off
                /\ tail = IF e.body = "null-body" THEN <<>>
                                                  ELSE UseOriginalBody

(* All of an HTTP head comes from the request it answers and from what the *)
(* service added for that request.                                         *)
HttpHeadOfOwnRequest ==
    \A i \in 2 .. Len(out) : out[i].heads = <<>> =>
        LET k  == out[i - 1].heads[1].msg
            ps == out[i].pieces
        IN  /\ ps[1].msg = IF ps[1].what = "status" /\ Request(k).reqLen = 0
                           THEN 0 ELSE k
            /\ \A j \in DOMAIN ps : ps[j].what = "added" => ps[j].msg = k

(* The ICAP headers of an answer are those its request and the reply to it *)
(* call for, and none more: nothing the service set for an earlier request *)
(* (Service) or the server for an answer of another kind (Allow) is left   *)
(* in out_icap_headers.  With a service that leaves Encapsulated to the    *)
(* server there is exactly one, from the map or written next to it.        *)
HeadersOfOwnAnswer ==
    \A h \in AllHeads :
        IF CallsFor(h.msg) = {} THEN h.hdrs = ErrorHeaders /\ h.enc = {}
        ELSE \E c \in CallsFor(h.msg) :
                /\ h.hdrs = HeadersFor(Request(h.msg), c.reply)
                /\ "Encapsulated" \notin c.reply.icapHdrs
                      => ("Encapsulated" \in h.hdrs <=> h.enc = {})

(* An answer that says Connection: close is the last thing written.        *)
CloseIsLast ==
    \A i \in 1 .. Len(out) - 1 : \A h \in HeadsOf(i) : ~ h.close

(* 206 is for requests that allow it, preview nothing and have a body      *)
(* (docs/draft-icap-extension-206-07.txt:330).                             *)
No206WithoutAllow ==
    \A h \in AllHeads : h.status = 206 =>
        /\ h.msg # 0
        /\ LET m == Request(h.msg)
           IN  m.method = "OPTIONS" \/ /\ \E a \in m.allow : 206 \in a
                                       /\ m.preview = {0}
                                       /\ DeclaresBody(m)

(* What ReqCtx::init requires of a request: Servable as far as the head    *)
(* tells.                                                                  *)
HeadServable(m) ==
    /\ m.method \in Methods /\ m.hdrsOk
    /\ Kinds(m) \in Shapes[m.method]
    /\ m.ee # <<>> => m.ee[1].off = 0
    /\ \A i, j \in 1 .. Len(m.ee) : i < j => m.ee[i].off <= m.ee[j].off
    /\ DeclaresBody(m) => (\E a \in m.allow : 206 \in a) /\ m.preview = {0}

(* A request the service may be asked about: one to serve.  Where the body *)
(* is not where Encapsulated says, other bytes may have been taken for its *)
(* last chunk, and its head and HTTP heads are all the server can tell by. *)
Acceptable(m) ==
    HeadServable(m) /\ m.entOk /\ (Servable(m) \/ ~ SentAsDeclared(m))

(* The service is asked about acceptable requests only, about each at most *)
(* once and in their order, with the HTTP heads of that request and no     *)
(* others.                                                                 *)
ServiceSeesOwnRequest ==
    \A i \in DOMAIN calls :
        LET c == calls[i]
            Own(len) == IF len > 0 THEN c.msg ELSE 0
        IN  /\ i > 1 => calls[i - 1].msg < c.msg
            /\ c.msg # 0
            /\ Acceptable(Request(c.msg))
            /\ c.httpReq = Own(Request(c.msg).reqLen)
            /\ c.httpRes = Own(Request(c.msg).resLen)

Answered(k) ==
    \E i \in DOMAIN out : \E h \in HeadsOf(i) :
        h.msg = k /\ (h.http => i < Len(out))

(* rbuf.clear() throws away one request, whole, and only once its answer   *)
(* has been written: no byte of another request goes with it, and none of  *)
(* this one is left for the next head to begin with.                       *)
ClearDropsOneAnsweredRequest ==
    [][base' # base => /\ Current # 0
                       /\ Answered(Current)
                       /\ base' = End(Current)]_vars

(* A body that Encapsulated does not announce.                             *)
HiddenBodied(m) == ~ DeclaresBody(m) /\ m.body # "none"

(* The part of a request the server interprets before it looks for a       *)
(* chunk: its heads, and all that is declared to lie before the body.      *)
HeadReach(m) ==
    m.head + Larger(HttpLen(m),
                    IF m.ee = <<>> THEN 0 ELSE LastEntity(m.ee).off)

(* The same for any clients: rbuf.clear() drops the request rbuf begins    *)
(* with, after its answer, and with it no less than the heads and what is  *)
(* declared before the body; and all of a request that has the length it   *)
(* declares and no body that it declares not to have.  Bytes of any other  *)
(* request may be left, and be taken for the next head.                    *)
ClearDropsWholeRequest ==
    [][base' # base =>
          \E k \in DOMAIN sent :
             LET m == Request(k)
             IN  /\ sent[k].start = base
                 /\ Answered(k)
                 /\ base + HeadReach(m) <= base'
                 /\ SentAsDeclared(m) /\ ~ HiddenBodied(m)
                       => End(k) <= base']_vars

(* Once the server has read all of a request that is as long as it         *)
(* declares, it needs nothing more from the client to answer it.           *)
ReadRequestIsAnswered ==
    \A k \in 1 .. MaxMsgs :
        (k <= Len(sent) /\ pos >= End(k) /\ SentAsDeclared(Request(k)))
            ~> (Answered(k) \/ client = "gone")

(* A connection on which no more requests arrive is shut down.             *)
ConnectionEnds == <>(pc = "done")

-----------------------------------------------------------------------------
(* What documents and comments say and the code does not do.               *)

(* "the ICAP server SHOULD NOT respond with Allow/206 if it did not see    *)
(* Allow/206 in the OPTIONS request" (draft-icap-extension-206-07:311).    *)
(* ensure_options_headers says "Allow: 204, 206" to every client.          *)
OffersPartialContentWhenAsked ==
    \A h \in AllHeads : h.msg # 0 /\ "Allow" \in h.hdrs =>
        \E a \in Request(h.msg).allow : 206 \in a

(* "partial adaptation of headers required, send 206"                      *)
(* (request_context.rs:25, on AppendHeaders).  append_headers sends 206 if *)
(* the message has a body and 200 if it has none.                          *)
AppendedHeadersAreSentAs206 ==
    \A h \in AllHeads : \A c \in CallsFor(h.msg) :
        ~ c.reply.err /\ c.reply.decision = {"AppendHeaders"}
            /\ Request(h.msg).method # "OPTIONS"
        => h.status = 206

-----------------------------------------------------------------------------
(* The inductive invariant behind BufferSafe, AnswersInOrder and           *)
(* CloseIsLast.                                                            *)

Ended   == {"shutdown", "done", "dead"}
Decoded == {"missing", "chunk", "chunkrecv", "parse", "svc", "answer", "write",
            "http", "yield"}

(* From init to clear the context holds the request rbuf begins with, and  *)
(* rbuf holds at least its ICAP head.                                      *)
RequestInv ==
    pc \in Decoded =>
        /\ ctx.msg \in DOMAIN sent
        /\ Request(ctx.msg).method \in Methods
        /\ sent[ctx.msg].start = base
        /\ ctx.parsed = Request(ctx.msg).head /\ ctx.parsed <= Buffered

(* The bytes still missing fit into rbuf, and with them a request that is  *)
(* not OPTIONS is there up to its body.                                    *)
BufferInv ==
    /\ base <= pos /\ pos <= limit /\ Buffered <= cap /\ cap <= AllocMax
    /\ pc = "missing" =>
          /\ Buffered + ctx.missing <= cap
          /\ IsAnyReq(ctx) =>
                ctx.parsed + ctx.bodyOff <= Buffered + ctx.missing
    /\ pc \in {"chunk", "chunkrecv"} =>
          ctx.parsed + ctx.bodyOff <= Buffered

(* No two requests begin at the same place of the stream.                  *)
StreamInv ==
    /\ \A i, j \in DOMAIN sent : i < j => sent[i].start < sent[j].start
    /\ client = "open" => \A i \in DOMAIN sent : sent[i].start < limit

(* What is in wbuf and has not been written answers the request at base.   *)
PendingInv ==
    \A j \in DOMAIN wbuf :
        LET h == wbuf[j]
        IN  /\ pc = "write" => h.msg = ctx.msg /\ ~ h.close
            /\ pc = "status" /\ h.msg # 0 => /\ h.msg \in DOMAIN sent
                                             /\ sent[h.msg].start = base

(* What has been written answers earlier requests, or the one at base if   *)
(* the task is past its write.                                             *)
OrderInv ==
    \A i \in DOMAIN out : \A h \in HeadsOf(i) :
        /\ h.msg = 0 \/ h.close => pc \in Ended
        /\ h.msg # 0 => /\ h.msg \in DOMAIN sent
                        /\ \/ sent[h.msg].start < base
                           \/ /\ sent[h.msg].start = base
                              /\ pc \in Ended \cup {"http", "yield"}

(* All of it: the conjuncts of one step rest on those of the step before. *)
IInv == /\ TypeOK /\ RequestInv /\ BufferInv
        /\ StreamInv /\ PendingInv /\ OrderInv /\ AnswersInOrder /\ CloseIsLast
=============================================================================
