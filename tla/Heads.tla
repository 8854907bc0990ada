------------------------------- MODULE Heads --------------------------------
(***************************************************************************)
(* The decoded heads of a request: decode_icap_request and its like in     *)
(* decoder.rs, the lists of indices they leave (header/), and what reads   *)
(* them: the iterators a service is given, and append_headers, which       *)
(* writes the headers out again.                                           *)
(*                                                                         *)
(* A header is kept as two pairs of positions in rbuf, computed from       *)
(* pointers.  httparse is given the part of rbuf a head begins at, but the *)
(* positions count from the beginning of rbuf; and rbuf may move.  So a    *)
(* byte is modelled by where it comes from: the head, the line in it, and  *)
(* its place in the name or the value.                                     *)
(*                                                                         *)
(* The client waits for each answer and announces its heads as they are;   *)
(* module Connection has clients that do not.                              *)
(***************************************************************************)
EXTENDS Integers, SequencesExt

CONSTANTS
    Messages,    \* the requests clients send
    MaxHeaders,  \* MAX_HEADERS                                      (128)
    Addresses,   \* where an allocation may be
    MaxMsgs      \* bound: requests of the connection

(* A head has the lengths of its headers' names and values, and a fault:   *)
(* what is wrong with its first line, a character httparse does not take   *)
(* or a part that the decoder does not.                                    *)
FaultsOf == [icap |-> {"methodToken", "uriToken", "method", "uri", "version"},
             req  |-> {"methodToken", "uriToken", "method", "uri", "version"},
             res  |-> {"token", "version", "status"}]

Kinds   == DOMAIN FaultsOf
Faults  == {"none"} \cup UNION Range(FaultsOf)
Lengths == [name : Nat \ {0}, value : Nat]
HeadRecords ==
    {h \in [kind : Kinds, fault : Faults, lines : Seq(Lengths)] :
        h.fault \in {"none"} \cup FaultsOf[h.kind]}

(* The ICAP head comes first, then those its Encapsulated header lists.    *)
Announced == {<<"icap">>, <<"icap", "req">>, <<"icap", "res">>,
              <<"icap", "req", "res">>}

ASSUME MessagesAssumption ==
    /\ Messages \subseteq Seq(HeadRecords)
    /\ \A m \in Messages : [n \in DOMAIN m |-> m[n].kind] \in Announced
ASSUME AddressesAssumption == Addresses \subseteq Nat /\ Addresses # {}
ASSUME MaxAssumption == MaxHeaders \in Nat /\ MaxMsgs \in Nat \ {0}

VARIABLES
    pc,        \* where the task is
    msgs,      \* msgs_cnt
    message,   \* the request it is at
    rbuf,      \* the bytes received of it
    addr,      \* rbuf.as_ptr()
    icapReq,   \* icap_req
    httpReq,   \* http_req
    httpRes,   \* http_res
    idx,       \* the entity parse_entities is at
    httpBuf    \* http_buf

vars == <<pc, msgs, message, rbuf, addr, icapReq, httpReq, httpRes, idx,
          httpBuf>>

Locations == {"init", "rest", "parse", "service", "appended", "answered",
              "refused"}

-----------------------------------------------------------------------------
(* What is on the wire.                                                    *)

Parts == {"first", "name", "colon", "value", "crlf"}
Byte(kind, part, line, at) ==
    [msg |-> msgs, kind |-> kind, part |-> part, line |-> line, at |-> at]

Bytes(kind, part, line, n) == [at \in 1 .. n |-> Byte(kind, part, line, at)]

Line(h, n) == Bytes(h.kind, "name", n, h.lines[n].name)
                 \o Bytes(h.kind, "colon", n, 1)
                 \o Bytes(h.kind, "value", n, h.lines[n].value)
                 \o Bytes(h.kind, "crlf", n, 1)

Before(h, n) == Bytes(h.kind, "first", 0, 1)
                   \o FlattenSeq([k \in 1 .. n - 1 |-> Line(h, k)])

Wire(h) == Before(h, Len(h.lines) + 1) \o Bytes(h.kind, "crlf", 0, 1)

Input == FlattenSeq([n \in DOMAIN message |-> Wire(message[n])])

HeadOf(kind) == CHOOSE h \in Range(message) : h.kind = kind

-----------------------------------------------------------------------------
(* httparse (external), on what is in rbuf from position off on.           *)

HeadAt(off) == HeadOf(rbuf[off + 1].kind)

HasToken(h) == h.fault \in {"methodToken", "uriToken", "token"}

(* It runs out of room at the first byte of a header too many.             *)
TooMany(h, got) ==
    Len(h.lines) > MaxHeaders /\ got > Len(Before(h, MaxHeaders + 1))

Httparse(off) ==
    LET got == Len(rbuf) - off
    IN  IF got = 0 THEN "partial"
        ELSE IF HasToken(HeadAt(off)) \/ TooMany(HeadAt(off), got) THEN "error"
        ELSE IF got < Len(Wire(HeadAt(off))) THEN "partial" ELSE "complete"

(* The pointers it leaves in the array it is given.  The slots it does not *)
(* need stay as they were: uninitialized, or pointing elsewhere.           *)
Elsewhere == [name |-> 0, nameLen |-> 0, value |-> 0, valueLen |-> 0]

Slot(off, n) ==
    LET h    == HeadAt(off)
        name == addr + off + Len(Before(h, n))
    IN  [name  |-> name, nameLen |-> h.lines[n].name,
         value |-> name + h.lines[n].name + 1, valueLen |-> h.lines[n].value]

Slots(off) ==
    [n \in 1 .. MaxHeaders |->
        IF n <= Len(HeadAt(off).lines) THEN Slot(off, n) ELSE Elsewhere]

-----------------------------------------------------------------------------
(* The decoders.                                                           *)

(* A slip takes the whole array.                                           *)
AllHeaders(off) == MaxHeaders
NHeaders(off)   == Len(HeadAt(off).lines)

(* Positions count from base_ptr; a slip counts from the head.             *)
FromHead(slot, off) ==
    LET name  == slot.name - addr - off
        value == slot.value - addr - off
    IN  [name  |-> <<name, name + slot.nameLen>>,
         value |-> <<value, value + slot.valueLen>>]

HeaderIndices(slot, off) ==
    LET name  == slot.name - addr
        value == slot.value - addr
    IN  [name  |-> <<name, name + slot.nameLen>>,
         value |-> <<value, value + slot.valueLen>>]

Indices(off) ==
    [n \in 1 .. NHeaders(off) |-> HeaderIndices(Slots(off)[n], off)]

(* The list is cleared first; a slip adds to what is in it.                *)
AddToList(list, off) == [vec |-> list.vec \o Indices(off), base |-> addr]
NewList(list, off)   == [vec |-> Indices(off), base |-> addr]

(* decode_raw_request_parts returns an error, None or the parts.           *)
RawParts(off) ==
    IF Httparse(off) = "complete" /\ HeadAt(off).fault = "uri" THEN "error"
                                                      ELSE Httparse(off)

(* decode_icap_request and decode_http_request look at version and method  *)
(* when the headers have been taken already.                               *)
RequestStatus(off) ==
    IF RawParts(off) = "complete" /\ HeadAt(off).fault # "none" THEN "error"
                                                      ELSE RawParts(off)

(* method and uri are the byte of the first line that the method, and that *)
(* URI and version, were copied from.                                      *)
DecodeRequest(d, off) ==
    LET listed == [d EXCEPT !.list = NewList(@, off)]
    IN  IF RawParts(off) # "complete" THEN d
        ELSE IF RequestStatus(off) = "error" THEN listed
        ELSE [listed EXCEPT !.method = rbuf[off + 1], !.uri = rbuf[off + 1],
                            !.parsedLen = Len(Wire(HeadAt(off)))]

(* decode_http_response looks at version and status first, and takes a     *)
(* partial head for an error.                                              *)
ResponseStatus(off) ==
    IF Httparse(off) = "complete" /\ HeadAt(off).fault = "none"
    THEN "complete" ELSE "error"

DecodeResponse(d, off) ==
    IF ResponseStatus(off) = "error" THEN d
    ELSE [list |-> NewList(d.list, off), version |-> rbuf[off + 1],
          status |-> rbuf[off + 1], parsedLen |-> Len(Wire(HeadAt(off)))]

-----------------------------------------------------------------------------
(* HeaderIterator, and HeaderIndicesList::encode.                          *)

Slice(range) == SubSeq(rbuf, range[1] + 1, range[2])

Iterate(list) ==
    [n \in DOMAIN list.vec |-> [name  |-> Slice(list.vec[n].name),
                                value |-> Slice(list.vec[n].value)]]

(* A separator of the server's own.                                        *)
Literal(part) ==
    [msg |-> 0, kind |-> "res", part |-> part, line |-> 0, at |-> 1]

Encode(list) ==
    FlattenSeq([n \in DOMAIN list.vec |->
        Iterate(list)[n].name \o <<Literal("colon")>>
            \o Iterate(list)[n].value \o <<Literal("crlf")>>])

-----------------------------------------------------------------------------
(* The context, from one request to the next.                              *)

Default == Literal("first")
NoList  == [vec |-> <<>>, base |-> 0]
NoReq   == [list |-> NoList, method |-> Default, uri |-> Default,
            parsedLen |-> 0]
NoRes   == [list |-> NoList, version |-> Default, status |-> Default,
            parsedLen |-> 0]

Init == /\ pc = "init" /\ msgs = 1 /\ message \in Messages
        /\ rbuf = <<>> /\ addr \in Addresses
        /\ icapReq = NoReq /\ httpReq = NoReq /\ httpRes = NoRes
        /\ idx = 1 /\ httpBuf = <<>>

(* A read; rbuf may have to move to make room.                             *)
Recv ==
    /\ pc \in {"init", "rest"} /\ Len(rbuf) < Len(Input)
    /\ \E n \in Len(rbuf) + 1 .. Len(Input) : rbuf' = SubSeq(Input, 1, n)
    /\ addr' \in Addresses
    /\ UNCHANGED <<pc, msgs, message, icapReq, httpReq, httpRes, idx, httpBuf>>

(* ReqCtx::init, as far as it decodes, and after every read.               *)
DecodeIcapRequest ==
    /\ pc = "init"
    /\ \/ RequestStatus(0) = "complete" /\ pc' = "rest"
       \/ RequestStatus(0) = "error" /\ pc' = "refused"
    /\ icapReq' = DecodeRequest(icapReq, 0)
    /\ UNCHANGED <<msgs, message, rbuf, addr, httpReq, httpRes, idx, httpBuf>>

(* parse_entities, when the heads have been read: the ICAP head once more  *)
(* if rbuf has moved since.                                                *)
Reparse ==
    /\ pc = "rest" /\ rbuf = Input
    /\ \/ icapReq.list.base = addr /\ pc' = "parse" /\ UNCHANGED icapReq
       \/ /\ icapReq.list.base # addr
          /\ pc' = IF RequestStatus(0) = "complete" THEN "parse" ELSE "refused"
          /\ icapReq' = DecodeRequest(icapReq, 0)
    /\ idx' = 1
    /\ UNCHANGED <<msgs, message, rbuf, addr, httpReq, httpRes, httpBuf>>

Entities == Tail(message)

(* Where a head is looked for: the first one follows the ICAP head, the    *)
(* second the first one; a slip forgets the ICAP head.                     *)
InHttp   == IF idx = 1 THEN 0 ELSE httpReq.parsedLen
Expected == icapReq.parsedLen + (IF idx = 1 THEN 0 ELSE httpReq.parsedLen)

AtEntity(kind) == /\ pc = "parse" /\ idx <= Len(Entities)
                  /\ Entities[idx].kind = kind

Decoded(status) ==
    IF status = "complete" THEN idx' = idx + 1 /\ pc' = pc
                           ELSE idx' = idx /\ pc' = "refused"

DecodeHttpRequest ==
    /\ AtEntity("req")
    /\ httpReq' = DecodeRequest(httpReq, Expected)
    /\ Decoded(RequestStatus(Expected))
    /\ UNCHANGED <<msgs, message, rbuf, addr, icapReq, httpRes, httpBuf>>

DecodeHttpResponse ==
    /\ AtEntity("res")
    /\ httpRes' = DecodeResponse(httpRes, Expected)
    /\ Decoded(ResponseStatus(Expected))
    /\ UNCHANGED <<msgs, message, rbuf, addr, icapReq, httpReq, httpBuf>>

EntitiesParsed ==
    /\ pc = "parse" /\ idx > Len(Entities)
    /\ pc' = "service"
    /\ UNCHANGED <<msgs, message, rbuf, addr, icapReq, httpReq, httpRes, idx,
                   httpBuf>>

(* The service has decided; append_headers takes the head of the method.   *)
(* What it writes behind the headers is in module Connection.              *)
FirstLine == IF Last(message).kind = "req"
             THEN <<httpReq.method, httpReq.uri>>
             ELSE <<httpRes.version, httpRes.status>>

(* A slip takes the request where there is one.                            *)
RequestFirst == IF httpReq.parsedLen > 0 THEN httpReq.list ELSE httpRes.list
HeadList == IF Last(message).kind = "req" THEN httpReq.list ELSE httpRes.list

AppendHeaders ==
    /\ pc = "service" /\ Entities # <<>>
    /\ httpBuf' = FirstLine \o Encode(HeadList) \o <<Literal("crlf")>>
    /\ pc' = "appended"
    /\ UNCHANGED <<msgs, message, rbuf, addr, icapReq, httpReq, httpRes, idx>>

(* Other answers leave http_buf alone, or fill it with something else.     *)
OtherAnswer ==
    /\ pc = "service"
    /\ httpBuf' \in {httpBuf, <<>>}
    /\ pc' = "answered"
    /\ UNCHANGED <<msgs, message, rbuf, addr, icapReq, httpReq, httpRes, idx>>

(* HttpRequest::clear and IcapRequest::clear; URI and version stay.  A     *)
(* slip leaves the length.                                                 *)
KeepLength(d)   == [d EXCEPT !.list = NoList, !.method = Default]
ClearRequest(d) == [d EXCEPT !.list = NoList, !.method = Default,
                             !.parsedLen = 0]

Clear ==
    /\ pc \in {"appended", "answered"} /\ msgs < MaxMsgs
    /\ pc' = "init" /\ msgs' = msgs + 1 /\ message' \in Messages
    /\ rbuf' = <<>>
    /\ icapReq' = ClearRequest(icapReq) /\ httpReq' = ClearRequest(httpReq)
    /\ httpRes' = NoRes
    /\ UNCHANGED <<addr, idx, httpBuf>>

(* The connection ends.                                                    *)
Terminated ==
    /\ \/ pc = "refused"
       \/ pc \in {"appended", "answered"} /\ msgs = MaxMsgs
    /\ UNCHANGED vars

Next == \/ Recv \/ DecodeIcapRequest \/ Reparse
        \/ DecodeHttpRequest \/ DecodeHttpResponse \/ EntitiesParsed
        \/ AppendHeaders \/ OtherAnswer \/ Clear \/ Terminated

Spec == Init /\ [][Next]_vars
=============================================================================
