------------------------ MODULE ConnectionRefinement ------------------------
(***************************************************************************)
(* A connection (module Connection) implements the exchange of requests    *)
(* and answers of module IcapExchange.                                     *)
(***************************************************************************)
EXTENDS ConnectionProperties

(* A refusal waits in wbuf, and no request has been put to the service.    *)
Refusing == pc = "status" /\ wbuf[Len(wbuf)].status = 400

StageOf ==
    CASE pc \in {"init", "head", "missing", "chunk", "chunkrecv", "parse",
                 "svc", "yield"} \/ Refusing -> "idle"
      [] pc \in {"answer", "write", "status"} /\ ~ Refusing -> "consulted"
      [] pc = "http" -> "half"
      [] pc \in Ended -> "over"

AsWrite(w) ==
    IF w.heads = <<>>
    THEN [icap |-> FALSE, msg |-> 0, status |-> 0, more |-> FALSE]
    ELSE LET h == w.heads[1]
         IN  [icap |-> TRUE, msg |-> h.msg, status |-> h.status,
              more |-> h.http]

AsCall(c) == [msg |-> c.msg, reply |-> c.reply]

(* The exchange as the connection's variables show it.                     *)
Asked    == [k \in DOMAIN sent |-> sent[k].req]
Consults == [i \in DOMAIN calls |-> AsCall(calls[i])]
Written  == [i \in DOMAIN out |-> AsWrite(out[i])]

Exchange == INSTANCE IcapExchange WITH
    asked <- Asked, stage <- StageOf, consults <- Consults, written <- Written

(* Every behaviour of the connection is, seen from the client and the      *)
(* service, one of the exchange: what the receive loops, the buffer and    *)
(* the context do between two of its steps, or leave behind, never shows,  *)
(* however the stream is cut up and whatever offsets are declared.         *)
ImplementsExchange == Exchange!Spec
=============================================================================
