-------------------------- MODULE HeadsProperties ---------------------------
(***************************************************************************)
(* What a service, and the client, get to see of the heads of a request    *)
(* (module Heads).                                                         *)
(***************************************************************************)
EXTENDS Heads

ByteRecords == [msg : 0 .. MaxMsgs, kind : Kinds, part : Parts, line : Nat,
                at : Nat \ {0}]

(* An end may not be before its beginning, nor behind what rbuf held.      *)
Ranges == {r \in Nat \X Nat : r[1] <= r[2]}
Lists  == [vec : Seq([name : Ranges, value : Ranges]), base : Nat]

(* Every variable keeps to its type; positions computed from pointers are  *)
(* never negative: no subtraction underflows.                              *)
TypeOK ==
    /\ pc \in Locations /\ msgs \in 1 .. MaxMsgs /\ message \in Messages
    /\ rbuf \in Seq(ByteRecords) /\ addr \in Addresses
    /\ \A d \in {icapReq, httpReq} :
          d \in [list : Lists, method : ByteRecords, uri : ByteRecords,
                 parsedLen : Nat]
    /\ httpRes \in [list : Lists, version : ByteRecords, status : ByteRecords,
                    parsedLen : Nat]
    /\ idx \in Nat \ {0} /\ httpBuf \in Seq(ByteRecords)

-----------------------------------------------------------------------------
(* The head as it was sent, without reference to any position.             *)
Sent(h) == [n \in DOMAIN h.lines |->
               [name  |-> Bytes(h.kind, "name", n, h.lines[n].name),
                value |-> Bytes(h.kind, "value", n, h.lines[n].value)]]

FirstOf(h) == Byte(h.kind, "first", 0, 1)

InRbuf(list) ==
    \A n \in DOMAIN list.vec :
        \A r \in {list.vec[n].name, list.vec[n].value} : r[2] <= Len(rbuf)

(* What is in a list is the head h, header by header.                      *)
Shows(list, h) == InRbuf(list) /\ Iterate(list) = Sent(h)

IsSent(kind) == \E n \in DOMAIN message : message[n].kind = kind

(* As long as they may be read, the headers of the ICAP head are just the  *)
(* ones that were sent, byte for byte, however the head was cut and        *)
(* wherever rbuf has moved; and so are those of the HTTP heads when the    *)
(* service is called, each in its own list, the second head too, which is  *)
(* found behind the first.  A head that was not sent is not there,         *)
(* whatever the requests before were (http_req(), http_res() are None).    *)
HeadersAreThoseSent ==
    /\ pc \in {"rest", "parse", "service"} =>
          /\ Shows(icapReq.list, HeadOf("icap"))
          /\ icapReq.method = FirstOf(HeadOf("icap"))
          /\ icapReq.uri = icapReq.method
    /\ pc = "service" =>
          /\ IF IsSent("req")
             THEN /\ Shows(httpReq.list, HeadOf("req"))
                  /\ httpReq.method = FirstOf(HeadOf("req"))
                  /\ httpReq.uri = httpReq.method
                  /\ httpReq.parsedLen > 0
             ELSE httpReq.parsedLen = 0 /\ httpReq.list.vec = <<>>
          /\ IF IsSent("res")
             THEN /\ Shows(httpRes.list, HeadOf("res"))
                  /\ httpRes.version = FirstOf(HeadOf("res"))
                  /\ httpRes.status = httpRes.version
                  /\ httpRes.parsedLen > 0
             ELSE httpRes.parsedLen = 0 /\ httpRes.list.vec = <<>>

(* append_headers sends on the head of this request, of the right kind:    *)
(* its first line, all its headers in their order, and nothing of another. *)
(* Only what separates them is the server's own.                           *)
Resent(b) == IF b.part \in {"colon", "crlf"} THEN Literal(b.part) ELSE b

AppendedHeadIsTheOneSent ==
    pc = "appended" =>
        LET wire == Wire(Last(message))
        IN  httpBuf = <<wire[1]>> \o [p \in DOMAIN wire |-> Resent(wire[p])]

(* A request is refused only for a head that is wrong: a complete head is  *)
(* still complete when it is decoded again, in another place and with more *)
(* behind it (FailedToReparseIcapReq never occurs), and every HTTP head is *)
(* found whole.  And none with a wrong head is served.                     *)
IsGood(h) == h.fault = "none" /\ Len(h.lines) <= MaxHeaders

RefusedForAFault ==
    LET good == \A n \in DOMAIN message : IsGood(message[n])
    IN  /\ pc = "refused" => ~ good
        /\ pc = "service" => good
=============================================================================
