---------------------------- MODULE IcapExchange ----------------------------
(***************************************************************************)
(* What a connection promises to the client at one end and the service at  *)
(* the other, without bytes, buffers or a context: requests are taken in   *)
(* their order, each is put to the service once and answered by what the   *)
(* service replied, or refused; an HTTP head follows the answer that       *)
(* announces it; and what cannot be answered ends the connection.          *)
(*                                                                         *)
(* Requests may be passed over: the server throws away what it has read of *)
(* the next request when it clears its buffer (Connection's Yield).        *)
(***************************************************************************)
EXTENDS IcapPromise

CONSTANTS
    Messages,   \* the requests clients send
    Replies     \* what the service may reply

VARIABLES
    asked,      \* the requests sent
    stage,      \* how far the server is with a request
    consults,   \* the calls of the service: a request and the reply
    written     \* what has been written

vars == <<asked, stage, consults, written>>

Stages == {"idle", "consulted", "half", "over"}

(* The two kinds of writes.                                                *)
IcapWrite(k, status, more) ==
    [icap |-> TRUE, msg |-> k, status |-> status, more |-> more]
HttpWrite == [icap |-> FALSE, msg |-> 0, status |-> 0, more |-> FALSE]

Init == asked = <<>> /\ stage = "idle" /\ consults = <<>> /\ written = <<>>

(* Requests the server has answered or put to the service lie behind it.   *)
Ahead(k) == /\ k \in DOMAIN asked
            /\ \A n \in DOMAIN written  : written[n].msg < k
            /\ \A n \in DOMAIN consults : consults[n].msg < k

(* Something that begins no request reaches the server if a request was    *)
(* cut, or longer than it said, or the next one was under way.             *)
Astray == /\ written # <<>>
          /\ \E k \in DOMAIN asked :
                \/ Ahead(k)
                \/ ~ SentAsDeclared(asked[k])
                \/ ~ DeclaresBody(asked[k]) /\ asked[k].body # "none"

Current == consults[Len(consults)]

-----------------------------------------------------------------------------
Ask == \E m \in Messages : /\ asked' = Append(asked, m)
                           /\ UNCHANGED <<stage, consults, written>>

(* A request whose length is not what it says may be taken for a good one  *)
(* or for a bad one.                                                       *)
Consult ==
    /\ stage = "idle"
    /\ \E k \in {j \in DOMAIN asked : Ahead(j)}, r \in Replies :
          /\ Servable(asked[k]) \/ ~ SentAsDeclared(asked[k])
          /\ consults' = Append(consults, [msg |-> k, reply |-> r])
          /\ stage' = IF r.panics THEN "over" ELSE "consulted"
    /\ UNCHANGED <<asked, written>>

Refuse ==
    /\ stage = "idle"
    /\ \/ \E k \in {j \in DOMAIN asked : Ahead(j)} :
             /\ ~ Servable(asked[k]) \/ ~ SentAsDeclared(asked[k])
             /\ written' = Append(written, IcapWrite(k, 400, FALSE))
       \/ Astray /\ written' = Append(written, IcapWrite(0, 400, FALSE))
    /\ stage' = "over"
    /\ UNCHANGED <<asked, consults>>

Answer ==
    /\ stage = "consulted"
    /\ LET m == asked[Current.msg]
           r == Current.reply
       IN  /\ written' = Append(written, IcapWrite(Current.msg, StatusFor(m, r),
                                                   HasHttpHead(m, r)))
           /\ stage' = IF Unusable(m, r) THEN "over"
                       ELSE IF HasHttpHead(m, r) THEN "half" ELSE "idle"
    /\ UNCHANGED <<asked, consults>>

CompleteAnswer ==
    /\ stage = "half"
    /\ written' = Append(written, HttpWrite)
    /\ stage' = "idle"
    /\ UNCHANGED <<asked, consults>>

(* The client goes away, or does not send the rest in time; or a write     *)
(* fails, or memory.                                                       *)
HangUp == /\ stage # "over"
          /\ stage' = "over"
          /\ UNCHANGED <<asked, consults, written>>

Next == Ask \/ Consult \/ Refuse \/ Answer \/ CompleteAnswer \/ HangUp

Spec == Init /\ [][Next]_vars
=============================================================================
