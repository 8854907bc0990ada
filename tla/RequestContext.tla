--------------------------- MODULE RequestContext ---------------------------
(***************************************************************************)
(* The per-request state of an ICAP connection, struct ReqCtx, and what    *)
(* its methods do to it (server/request_context.rs).  No variables: the    *)
(* operators map a context to the context the method leaves behind, and    *)
(* module Connection applies them to its variable.                         *)
(*                                                                         *)
(* A request is not a string here but what the parsers make of its bytes:  *)
(* where its parts end, and the values of the headers the server reads.    *)
(* Lengths are byte counts.  An Option is a set of at most one element.    *)
(***************************************************************************)
EXTENDS Integers, Sequences

CONSTANT UsizeMax      \* usize::MAX, the "no body" offset

Option(S) == {o \in SUBSET S : \A x, y \in o : x = y}
Value(o)  == CHOOSE x \in o : TRUE

-----------------------------------------------------------------------------
(* Requests.                                                               *)

Methods     == {"OPTIONS", "REQMOD", "RESPMOD"}
HeaderKinds == {"req-hdr", "res-hdr"}
BodyKinds   == {"req-body", "res-body", "null-body", "opt-body"}
Entities    == [kind : HeaderKinds \cup BodyKinds, off : Nat]
AllowCodes  == {204, 206}
Bodies      == {"none", "zero", "data", "badline", "badcrlf"}

(* What a client can send.                                                 *)
(*   method   the ICAP method; "BAD" is a head decode_icap_request refuses *)
(*   head     length of the ICAP head (of "BAD": up to the offending byte) *)
(*   hdrsOk   the values of Encapsulated, Preview and Allow all decode     *)
(*   ee       the entities listed by its Encapsulated headers              *)
(*   preview  the value of its last Preview header                         *)
(*   allow    the union of its Allow headers, if there is any              *)
(*   reqLen, resLen   length of the embedded HTTP heads, 0 without one     *)
(*   entOk    those heads are well formed                                  *)
(*   body     what follows them: nothing, a last chunk ("zero"), a chunk   *)
(*            with data, a line that is no chunk header, or a last chunk   *)
(*            not followed by CRLF                                         *)
(*   line     length of the chunk header line (of "badline": up to the     *)
(*            offending byte)                                              *)
Requests ==
    [method : Methods \cup {"BAD"}, head : Nat \ {0}, hdrsOk : BOOLEAN,
     ee : Seq(Entities), preview : Option(Nat),
     allow : Option(SUBSET AllowCodes),
     reqLen : Nat, resLen : Nat, entOk : BOOLEAN,
     body : Bodies, line : Nat \ {0}]

CRLF == 2

HttpLen(m) == m.reqLen + m.resLen
BodyLen(m) == IF m.body = "none" THEN 0 ELSE m.line + CRLF
Size(m)    == m.head + HttpLen(m) + BodyLen(m)

-----------------------------------------------------------------------------
(* The context.                                                            *)

Decisions == {"NoAdaptation", "AppendHeaders", "CustomResponse"}
Statuses  == 100 .. 599
IcapNames == {"Encapsulated", "Methods", "Allow", "ISTag", "Server",
              "Preview", "Transfer-Preview", "Connection", "Service"}

(* msg, httpReq and httpRes say of which request (its position in the      *)
(* connection's input, 0 for none) icap_req, http_req and http_res hold    *)
(* the decoded head; httpHdrs lists for which requests the service added   *)
(* the HTTP headers in out_http_headers; icapHdrs is the set of names in   *)
(* out_icap_headers; basePtr is the allocation of rbuf the ICAP head was   *)
(* decoded in; allow holds 204 and 206 for the flags allow_204 and         *)
(* allow_206; missing is header_missing_bytes, less what has been read.    *)
Contexts ==
    [msg : Nat, method : Methods, parsed : Nat, basePtr : Nat,
     ee : Seq(Entities), preview : Option(Nat), nullBody : BOOLEAN,
     allow : SUBSET AllowCodes,
     bodyOff : Nat, missing : Nat, httpReq : Nat, httpRes : Nat,
     decision : Option(Decisions), icapStatus : Option(Statuses),
     httpStatus : Option(Statuses),
     icapHdrs : SUBSET IcapNames, httpHdrs : Seq(Nat)]

NewCtx ==
    [msg |-> 0, method |-> "OPTIONS", parsed |-> 0, basePtr |-> 0,
     ee |-> <<>>, preview |-> {}, nullBody |-> FALSE,
     allow |-> {},
     bodyOff |-> 0, missing |-> 0, httpReq |-> 0, httpRes |-> 0,
     decision |-> {}, icapStatus |-> {}, httpStatus |-> {},
     icapHdrs |-> {}, httpHdrs |-> <<>>]

(* Slips in clear(): the HTTP heads, Allow, or added headers forgotten.    *)
ForgetHttpHeads(c) ==
    [c EXCEPT !.msg = 0, !.method = "OPTIONS", !.parsed = 0, !.basePtr = 0,
              !.ee = <<>>]
ForgetAllow(c) == [c EXCEPT !.preview = {}, !.nullBody = FALSE]
ForgetHttpHeaders(c) ==
    [c EXCEPT !.decision = {}, !.icapHdrs = {}, !.icapStatus = {},
              !.httpStatus = {}]
ForgetIcapHeaders(c) ==
    [c EXCEPT !.decision = {}, !.icapStatus = {}, !.httpStatus = {},
              !.httpHdrs = <<>>]

(* ReqCtx::clear, between two requests: the parsed heads, the options of   *)
(* the request, what the service has put in, the buffer bookkeeping.       *)
(* (http_buf and the message counter stay; rbuf is Connection's base.)     *)
ClearHeads(c) ==
    [c EXCEPT !.msg = 0, !.method = "OPTIONS", !.parsed = 0, !.basePtr = 0,
              !.httpReq = 0, !.httpRes = 0, !.ee = <<>>]

ClearOptions(c) ==
    [c EXCEPT !.preview = {}, !.nullBody = FALSE, !.allow = {}]

ClearOutput(c) ==
    [c EXCEPT !.decision = {}, !.icapHdrs = {}, !.icapStatus = {},
              !.httpStatus = {}, !.httpHdrs = <<>>]

Clear(c) ==
    [ClearOutput(ClearOptions(ClearHeads(c)))
        EXCEPT !.bodyOff = 0, !.missing = 0]

-----------------------------------------------------------------------------
(* ReqCtx::init: decode the ICAP head, read its headers, make room for the *)
(* HTTP heads, check that the server can serve the request.                *)

DecodeIcapRequest(c, k, m, ptr) ==
    [c EXCEPT !.msg = k, !.method = m.method, !.parsed = m.head,
              !.basePtr = ptr]

LastEntity(ee) == ee[Len(ee)]

(* EeList::parse_append: the offsets of the whole list do not decrease.    *)
OffsetsOrdered(ee) ==
    \A i \in 1 .. Len(ee) - 1 : ee[i].off <= ee[i + 1].off

IcapHeadersOk(m) ==
    /\ m.hdrsOk
    /\ OffsetsOrdered(m.ee)
    /\ IF m.ee = <<>> THEN m.method = "OPTIONS"
                      ELSE LastEntity(m.ee).kind \in BodyKinds

ParseIcapHeaders(c, m) ==
    [c EXCEPT !.ee = m.ee,
              !.preview = m.preview,
              !.nullBody = m.ee # <<>> /\ LastEntity(m.ee).kind = "null-body",
              !.allow = IF m.allow = {} THEN @ ELSE Value(m.allow)]

(* EeList::get_body_offset fails on an opt-body.                           *)
BodyOffsetOk(ee) == ee # <<>> => LastEntity(ee).kind # "opt-body"

(* A slip: the ICAP head counts as part of what is encapsulated.           *)
AllocFromStart(c, rlen) ==
    IF c.ee = <<>>
    THEN [c EXCEPT !.bodyOff = UsizeMax, !.missing = 0]
    ELSE LET off == LastEntity(c.ee).off
         IN  [c EXCEPT !.bodyOff = off,
                       !.missing = IF off > rlen THEN off - rlen ELSE 0]

AllocBufferForHeaders(c, rlen) ==
    IF c.ee = <<>>
    THEN [c EXCEPT !.bodyOff = UsizeMax, !.missing = 0]
    ELSE LET off == LastEntity(c.ee).off
             got == rlen - c.parsed
         IN  [c EXCEPT !.bodyOff = off,
                       !.missing = IF off > got THEN off - got ELSE 0]

IsAnyReq(c) == c.method \in {"REQMOD", "RESPMOD"}

GoodEntities(method, ee) ==
    CASE method = "OPTIONS" ->
            ee \in {<<>>, <<[kind |-> "null-body", off |-> 0]>>}
      [] method = "REQMOD" ->
            /\ Len(ee) = 2
            /\ ee[1] = [kind |-> "req-hdr", off |-> 0]
            /\ ee[2].kind \in {"req-body", "null-body"}
      [] method = "RESPMOD" ->
            \/ /\ Len(ee) = 2
               /\ ee[1] = [kind |-> "res-hdr", off |-> 0]
               /\ ee[2].kind \in {"res-body", "null-body"}
            \/ /\ Len(ee) = 3
               /\ ee[1] = [kind |-> "req-hdr", off |-> 0]
               /\ ee[2].kind = "res-hdr"
               /\ ee[3].kind \in {"res-body", "null-body"}

(* A slip: the Allow header is not looked at.                              *)
CheckPreviewOnly(c) ==
    /\ GoodEntities(c.method, c.ee)
    /\ IsAnyReq(c) /\ ~c.nullBody => c.preview = {0}

CheckSanity(c) ==
    /\ GoodEntities(c.method, c.ee)
    /\ IsAnyReq(c) /\ ~c.nullBody => 206 \in c.allow /\ c.preview = {0}

(* The context ReqCtx::init leaves once the whole head m is in rbuf, and   *)
(* whether it returns Ok(Complete) then.  An error closes the connection,  *)
(* so what a failing init leaves behind is of no consequence.              *)
InitCtx(c, k, m, ptr, rlen) ==
    AllocBufferForHeaders(
        ParseIcapHeaders(DecodeIcapRequest(c, k, m, ptr), m), rlen)

HeadReadable(m) ==
    m.method \in Methods /\ IcapHeadersOk(m) /\ BodyOffsetOk(m.ee)

InitOk(c, k, m, ptr, rlen) ==
    /\ HeadReadable(m)
    /\ CheckSanity(InitCtx(c, k, m, ptr, rlen))

-----------------------------------------------------------------------------
(* ReqCtx::parse_entities: decode the ICAP head again if rbuf has moved    *)
(* since, then the HTTP heads, which must be in rbuf to their end.         *)

EntitiesOk(c, m, rlen) == m.entOk /\ rlen >= c.parsed + HttpLen(m)

(* A slip: the ICAP head is not decoded again.                             *)
ParseHttpOnly(c, m, ptr) ==
    [c EXCEPT !.httpReq = IF m.reqLen > 0 THEN c.msg ELSE @,
              !.httpRes = IF m.resLen > 0 THEN c.msg ELSE @]

ParseEntities(c, m, ptr) ==
    LET d == IF ptr = c.basePtr THEN c ELSE DecodeIcapRequest(c, c.msg, m, ptr)
    IN  [d EXCEPT !.httpReq = IF m.reqLen > 0 THEN c.msg ELSE @,
                  !.httpRes = IF m.resLen > 0 THEN c.msg ELSE @]

-----------------------------------------------------------------------------
(* The headers every answer carries unless the service has set them.       *)

EnsureOptionsHeaders(c) ==
    [c EXCEPT !.icapHdrs = @ \cup {"Encapsulated", "Methods", "Allow", "ISTag",
                  "Server", "Preview", "Transfer-Preview", "Connection"}]

Ensure204Headers(c) ==
    [c EXCEPT !.icapHdrs =
         @ \cup {"Encapsulated", "ISTag", "Server", "Connection"}]

EnsureResponseHeaders(c) ==
    [c EXCEPT !.icapHdrs = @ \cup {"ISTag", "Server", "Connection"}]
=============================================================================
