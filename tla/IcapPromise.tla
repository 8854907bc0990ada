---------------------------- MODULE IcapPromise -----------------------------
(***************************************************************************)
(* What a request calls for: which requests the server promises to serve,  *)
(* what a service may reply, and what the answer to a request is given the *)
(* reply.  Functions of the request and the reply alone; IcapExchange and  *)
(* ConnectionProperties measure the server by them.                        *)
(***************************************************************************)
EXTENDS RequestContext

OrElse(o, d) == IF o # {} THEN o ELSE d

(* What the service does with the context: panic, fail, or set some of its *)
(* output fields and hand it back.                                         *)
ServiceReplies ==
    [panics : BOOLEAN, err : BOOLEAN,
     decision : Option(Decisions), icapStatus : Option(Statuses),
     httpStatus : Option(Statuses), icapHdrs : SUBSET IcapNames,
     addsHttp : BOOLEAN]

-----------------------------------------------------------------------------
(* Requests.                                                               *)

HasEntity(m, kind) == \E i \in 1 .. Len(m.ee) : m.ee[i].kind = kind

(* What the server promises to serve, stated from the request alone: the   *)
(* entities of its method in order, well-formed heads, and a body only     *)
(* with Allow: 206, Preview: 0 and the empty preview.                      *)
Kinds(m) == [i \in 1 .. Len(m.ee) |-> m.ee[i].kind]

Shapes ==
    [OPTIONS |-> {<<>>, <<"null-body">>},
     REQMOD  |-> {<<"req-hdr", b>> : b \in {"req-body", "null-body"}},
     RESPMOD |-> {<<"res-hdr", b>> : b \in {"res-body", "null-body"}}
                 \cup {<<"req-hdr", "res-hdr", b>> :
                          b \in {"res-body", "null-body"}}]

DeclaresBody(m) == HasEntity(m, "req-body") \/ HasEntity(m, "res-body")

Servable(m) ==
    /\ m.method \in Methods /\ m.hdrsOk /\ m.entOk
    /\ Kinds(m) \in Shapes[m.method]
    /\ m.ee # <<>> => m.ee[1].off = 0
    /\ \A i, j \in 1 .. Len(m.ee) : i < j => m.ee[i].off <= m.ee[j].off
    /\ DeclaresBody(m) => /\ \E a \in m.allow : 206 \in a
                          /\ m.preview = {0}
                          /\ m.body = "zero"

(* The request has the length it declares: its body is where Encapsulated  *)
(* says, and is there if one is announced.                                 *)
SentAsDeclared(m) ==
    /\ m.ee # <<>> => LastEntity(m.ee).off = HttpLen(m)
    /\ DeclaresBody(m) => m.body # "none"

-----------------------------------------------------------------------------
(* Replies.                                                                *)

(* The status of the answer to a servable request, given what the service  *)
(* returned.                                                               *)
StatusFor(m, r) ==
    IF r.err THEN 500
    ELSE IF m.method = "OPTIONS" THEN Value(OrElse(r.icapStatus, {200}))
    ELSE CASE r.decision = {} -> 500
           [] r.decision = {"NoAdaptation"} -> 204
           [] r.decision = {"AppendHeaders"} ->
                 IF DeclaresBody(m) THEN 206 ELSE 200
           [] r.decision = {"CustomResponse"} ->
                 IF r.httpStatus = {} THEN 500 ELSE 200

(* The service leaves the server nothing to answer but an error, and the   *)
(* connection closes.                                                      *)
Unusable(m, r) ==
    \/ r.err
    \/ /\ m.method # "OPTIONS"
       /\ \/ r.decision = {}
          \/ r.decision = {"CustomResponse"} /\ r.httpStatus = {}

(* An HTTP head belongs to the answer.                                     *)
HasHttpHead(m, r) ==
    /\ ~ Unusable(m, r) /\ m.method # "OPTIONS"
    /\ r.decision \in {{"AppendHeaders"}, {"CustomResponse"}}

(* The ICAP headers of an answer that closes the connection, and of one to *)
(* a servable request given the reply: what every answer of its kind says, *)
(* and what the service set.  Encapsulated is among them where no HTTP     *)
(* head follows; else it depends on that head and is written next to them. *)
ErrorHeaders == {"ISTag", "Connection", "Encapsulated"}

ServerHeaders(m, r) ==
    {"ISTag", "Server", "Connection"}
    \cup (IF HasHttpHead(m, r) THEN {} ELSE {"Encapsulated"})
    \cup (IF m.method # "OPTIONS" THEN {}
          ELSE {"Methods", "Allow", "Preview", "Transfer-Preview"})

HeadersFor(m, r) ==
    IF Unusable(m, r) THEN ErrorHeaders ELSE ServerHeaders(m, r) \cup r.icapHdrs
=============================================================================
