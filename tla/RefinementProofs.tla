-------------------------- MODULE RefinementProofs --------------------------
(***************************************************************************)
(* Proof that a connection implements module IcapExchange, for every set   *)
(* of requests and replies.  AInv says at each location what the task has  *)
(* in hand, and each step is matched with the one of the exchange it is.   *)
(***************************************************************************)
EXTENDS ConnectionRefinement, AnswerProofs

-----------------------------------------------------------------------------
(* The mapping.                                                            *)

(* Where the exchange is while the task is at a location.                  *)
StageTable ==
    /\ pc \in {"init", "head", "missing", "chunk", "chunkrecv", "parse", "svc",
               "yield"} => StageOf = "idle"
    /\ pc = "status" /\ Refusing => StageOf = "idle"
    /\ pc = "status" /\ ~ Refusing => StageOf = "consulted"
    /\ pc \in {"answer", "write"} => StageOf = "consulted"
    /\ pc = "http" => StageOf = "half"
    /\ pc \in Ended => StageOf = "over"
    /\ pc \in Locations \ Ended => StageOf # "over"

(* It is, before a step and after it.                                      *)
LEMMA Stages == StageTable /\ StageTable'
<1>1. StageTable
    BY DEF StageTable, StageOf, Refusing, Ended, Locations
<1> QED BY <1>1, PTL

(* A request more is sent.                                                 *)
LEMMA AskedGrows ==
    ASSUME TypeOK, NEW m \in Messages,
           sent' = Append(sent, [req |-> m, start |-> limit])
    PROVE  Asked' = Append(Asked, m)
<1>1. PICK n \in Nat : n = Len(sent)
    BY DEF TypeOK
<1>2. DOMAIN sent = 1 .. n /\ \A k \in 1 .. n : sent[k].req \in Messages
    <2>1. DOMAIN sent = 1 .. n
        BY <1>1 DEF TypeOK
    <2> QED BY <2>1, SentIsRequest DEF Request
<1>3. /\ DOMAIN sent' = 1 .. n + 1
      /\ \A k \in 1 .. n : sent'[k] = sent[k]
      /\ sent'[n + 1].req = m
    BY <1>1 DEF TypeOK
<1>4. /\ Asked = [k \in 1 .. n |-> sent[k].req]
      /\ Asked' = [k \in 1 .. n + 1 |-> sent'[k].req]
    BY <1>2, <1>3 DEF Asked
<1>5. Asked \in Seq(Messages) /\ Len(Asked) = n
    BY <1>2, <1>4
<1>6. Asked' \in Seq(Messages) /\ Len(Asked') = n + 1
    BY <1>2, <1>3, <1>4
<1>7. /\ Append(Asked, m) \in Seq(Messages) /\ Len(Append(Asked, m)) = n + 1
      /\ \A i \in 1 .. n : Append(Asked, m)[i] = Asked[i]
      /\ Append(Asked, m)[n + 1] = m
    BY <1>5
<1>8. \A i \in 1 .. n + 1 : Asked'[i] = Append(Asked, m)[i]
    BY <1>2, <1>3, <1>4, <1>7
<1> QED BY <1>6, <1>7, <1>8, SeqEqual

(* The service is called once more.                                        *)
LEMMA ConsultsGrow ==
    ASSUME TypeOK, NEW r \in Replies, Called(r)
    PROVE  Consults' = Append(Consults, [msg |-> ctx.msg, reply |-> r])
<1> DEFINE T == [msg : Nat, reply : ServiceReplies]
           c == [msg |-> ctx.msg, reply |-> r]
<1>1. PICK n \in Nat : n = Len(calls)
    BY DEF TypeOK
<1>2. DOMAIN calls = 1 .. n /\ \A i \in 1 .. n : AsCall(calls[i]) \in T
    <2>1. DOMAIN calls = 1 .. n
        BY <1>1 DEF TypeOK
    <2>2. \A i \in 1 .. n : calls[i] \in Calls
        BY <1>1, ElementOfSeq DEF TypeOK
    <2> QED BY <2>1, <2>2 DEF AsCall, Calls
<1>3. /\ DOMAIN calls' = 1 .. n + 1
      /\ \A i \in 1 .. n : calls'[i] = calls[i]
      /\ calls'[n + 1].msg = ctx.msg /\ calls'[n + 1].reply = r
    BY <1>1 DEF Called, TypeOK
<1>4. /\ Consults = [i \in 1 .. n |-> AsCall(calls[i])]
      /\ Consults' = [i \in 1 .. n + 1 |-> AsCall(calls'[i])]
    BY <1>2, <1>3 DEF Consults, AsCall
<1>5. c \in T
    BY RepliesAssumption DEF TypeOK, Contexts
<1>6. AsCall(calls'[n + 1]) = c
    BY <1>3 DEF AsCall
<1> HIDE DEF T, c
<1>7. Consults \in Seq(T) /\ Len(Consults) = n
    BY <1>2, <1>4
<1>8. Consults' \in Seq(T) /\ Len(Consults') = n + 1
    BY <1>2, <1>3, <1>4, <1>5, <1>6
<1>9. /\ Append(Consults, c) \in Seq(T) /\ Len(Append(Consults, c)) = n + 1
      /\ \A i \in 1 .. n : Append(Consults, c)[i] = Consults[i]
      /\ Append(Consults, c)[n + 1] = c
    BY <1>5, <1>7
<1>10. \A i \in 1 .. n + 1 : Consults'[i] = Append(Consults, c)[i]
    BY <1>2, <1>3, <1>4, <1>6, <1>9
<1>11. Consults' = Append(Consults, c)
    BY <1>8, <1>9, <1>10, SeqEqual
<1> QED BY <1>11 DEF c

(* A write more is done.                                                   *)
LEMMA WrittenGrows ==
    ASSUME TypeOK, NEW w \in Writes, out' = Append(out, w),
           NEW h, h = AsWrite(w)
    PROVE  Written' = Append(Written, h)
<1> DEFINE T == {AsWrite(v) : v \in Writes}
<1>1. PICK n \in Nat : n = Len(out)
    BY DEF TypeOK
<1>2. DOMAIN out = 1 .. n /\ \A i \in 1 .. n : AsWrite(out[i]) \in T
    <2>1. DOMAIN out = 1 .. n
        BY <1>1 DEF TypeOK
    <2>2. \A i \in 1 .. n : out[i] \in Writes
        BY <1>1, ElementOfSeq DEF TypeOK
    <2> QED BY <2>1, <2>2
<1>3. /\ DOMAIN out' = 1 .. n + 1
      /\ \A i \in 1 .. n : out'[i] = out[i]
      /\ out'[n + 1] = w
    BY <1>1 DEF TypeOK
<1>4. /\ Written = [i \in 1 .. n |-> AsWrite(out[i])]
      /\ Written' = [i \in 1 .. n + 1 |-> AsWrite(out'[i])]
    BY <1>2, <1>3 DEF Written, AsWrite
<1>5. h \in T
    OBVIOUS
<1>6. AsWrite(out'[n + 1]) = h
    BY <1>3
<1> HIDE DEF T
<1>7. Written \in Seq(T) /\ Len(Written) = n
    BY <1>2, <1>4
<1>8. Written' \in Seq(T) /\ Len(Written') = n + 1
    BY <1>2, <1>3, <1>4, <1>5, <1>6
<1>9. /\ Append(Written, h) \in Seq(T) /\ Len(Append(Written, h)) = n + 1
      /\ \A i \in 1 .. n : Append(Written, h)[i] = Written[i]
      /\ Append(Written, h)[n + 1] = h
    BY <1>5, <1>7
<1>10. \A i \in 1 .. n + 1 : Written'[i] = Append(Written, h)[i]
    BY <1>2, <1>3, <1>4, <1>6, <1>9
<1> QED BY <1>8, <1>9, <1>10, SeqEqual

(* What the exchange says of requests and replies is what the connection   *)
(* says of them.                                                           *)
LEMMA SamePromise ==
    /\ \A m : /\ Exchange!Servable(m) <=> Servable(m)
              /\ Exchange!SentAsDeclared(m) <=> SentAsDeclared(m)
              /\ Exchange!DeclaresBody(m) <=> DeclaresBody(m)
    /\ \A m, r : /\ Exchange!StatusFor(m, r) = StatusFor(m, r)
                 /\ Exchange!Unusable(m, r) <=> Unusable(m, r)
                 /\ Exchange!HasHttpHead(m, r) <=> HasHttpHead(m, r)
<1>1. \A m : /\ Exchange!Servable(m) <=> Servable(m)
             /\ Exchange!SentAsDeclared(m) <=> SentAsDeclared(m)
             /\ Exchange!DeclaresBody(m) <=> DeclaresBody(m)
    BY DEF Servable, Exchange!Servable, SentAsDeclared,
           Exchange!SentAsDeclared, DeclaresBody, Exchange!DeclaresBody,
           HasEntity, Exchange!HasEntity, Kinds, Exchange!Kinds, Shapes,
           Exchange!Shapes, Methods, Exchange!Methods, LastEntity,
           Exchange!LastEntity, HttpLen, Exchange!HttpLen
<1>2. \A m, r : /\ Exchange!Unusable(m, r) <=> Unusable(m, r)
                /\ Exchange!HasHttpHead(m, r) <=> HasHttpHead(m, r)
    BY DEF Unusable, Exchange!Unusable, HasHttpHead, Exchange!HasHttpHead
<1>3. \A m, r : Exchange!StatusFor(m, r) = StatusFor(m, r)
    BY DEF StatusFor, Exchange!StatusFor, OrElse, Exchange!OrElse, Value,
           Exchange!Value, DeclaresBody, Exchange!DeclaresBody, HasEntity,
           Exchange!HasEntity
<1> QED BY <1>1, <1>2, <1>3

(* The request a write answers, in the exchange.                           *)
LEMMA WrittenMsg ==
    ASSUME TypeOK
    PROVE  /\ DOMAIN Written = DOMAIN out /\ DOMAIN Consults = DOMAIN calls
           /\ DOMAIN Asked = DOMAIN sent
           /\ \A k \in DOMAIN sent : Asked[k] = Request(k)
           /\ \A i \in DOMAIN calls : Consults[i].msg = calls[i].msg
           /\ \A n \in DOMAIN out :
                 \/ Written[n].msg = 0
                 \/ \E h \in HeadsOf(n) : Written[n].msg = h.msg
<1>1. ASSUME NEW n \in DOMAIN out
      PROVE  \/ Written[n].msg = 0
             \/ \E h \in HeadsOf(n) : Written[n].msg = h.msg
    <2>1. Written[n] = AsWrite(out[n])
        BY DEF Written
    <2>2. CASE out[n].heads = <<>>
        BY <2>1, <2>2 DEF AsWrite
    <2>3. CASE out[n].heads # <<>>
        <3>1. out[n].heads \in Seq(Heads)
            <4>1. DOMAIN out = 1 .. Len(out)
                BY DEF TypeOK
            <4>2. out[n] \in Writes
                BY <4>1, ElementOfSeq DEF TypeOK
            <4> QED BY <4>2 DEF Writes
        <3>2. 1 \in DOMAIN out[n].heads
            BY <2>3, <3>1, EmptySeq, LenProperties
        <3>3. out[n].heads[1] \in HeadsOf(n)
            BY <3>2 DEF HeadsOf
        <3>4. Written[n].msg = out[n].heads[1].msg
            BY <2>1, <2>3 DEF AsWrite
        <3> QED BY <3>3, <3>4
    <2> QED BY <2>2, <2>3
<1> QED BY <1>1 DEF Written, Consults, Asked, AsCall, Request

(* The request at base is ahead of the server before it is put to the      *)
(* service.                                                                *)
LEMMA BaseIsAhead ==
    ASSUME TypeOK, StreamInv, OrderInv, CallsInv,
           pc \notin Ended \cup {"http", "yield"},
           NEW k \in DOMAIN sent, sent[k].start = base,
           \A i \in DOMAIN calls : sent[calls[i].msg].start < base
    PROVE  Exchange!Ahead(k)
<1>1. k \in Nat \ {0}
    BY SentIsRequest
<1>2. ASSUME NEW n \in DOMAIN out PROVE Written[n].msg < k
    <2>1. CASE Written[n].msg = 0
        BY <1>1, <2>1
    <2>2. ASSUME NEW h \in HeadsOf(n), Written[n].msg = h.msg, h.msg # 0
          PROVE  Written[n].msg < k
        <3>1. h.msg \in DOMAIN sent /\ sent[h.msg].start < base
            BY <2>2 DEF OrderInv
        <3> QED BY <2>2, <3>1, EarlierIsLess
    <2> QED BY <2>1, <2>2, WrittenMsg
<1>3. ASSUME NEW i \in DOMAIN calls PROVE calls[i].msg < k
    <2>1. calls[i].msg \in DOMAIN sent /\ sent[calls[i].msg].start < base
        BY DEF CallsInv, CallInv
    <2> QED BY <2>1, EarlierIsLess
<1> QED BY <1>2, <1>3, WrittenMsg DEF Exchange!Ahead

(* The steps of the client and the service.                                *)

(* Sending a request is asking; nothing else the client does shows.        *)
LEMMA ClientMaps ==
    ASSUME TypeOK, Stay
    PROVE  Exchange!Ask \/ UNCHANGED Exchange!vars
<1>1. StageOf' = StageOf /\ Consults' = Consults /\ Written' = Written
    BY DEF Stay, StageOf, Refusing, Consults, AsCall, Written, AsWrite
<1>2. CASE UNCHANGED sent
    BY <1>1, <1>2 DEF Asked, Exchange!vars
<1>3. CASE ClientSend
    <2>1. PICK m \in Messages :
            sent' = Append(sent, [req |-> m, start |-> limit])
        BY <1>3 DEF ClientSend
    <2>2. Asked' = Append(Asked, m)
        BY <2>1, AskedGrows
    <2> QED BY <1>1, <2>2 DEF Exchange!Ask
<1> QED BY <1>2, <1>3 DEF Stay

(* Calling the service is consulting it about a request that is ahead.     *)
LEMMA ServiceMaps ==
    ASSUME AInv, ServiceFails \/ ServiceReturns \/ ServicePanics
    PROVE  Exchange!Consult
<1>1. /\ TypeOK /\ RequestInv /\ StreamInv /\ OrderInv /\ HeadInv
      /\ BodyInv /\ CallsInv
    BY DEF AInv, IInv
<1>2. pc = "svc" /\ StageOf = "idle"
    BY Paths, Stages DEF StageTable
<1>3. PICK r \in Replies : /\ Called(r)
                           /\ ServicePanics <=> r.panics
    BY DEF ServiceFails, ServiceReturns, ServicePanics
<1> DEFINE k == ctx.msg
<1>4. k \in DOMAIN sent /\ sent[k].start = base
    BY <1>1, <1>2 DEF RequestInv, Decoded
<1>5. \A i \in DOMAIN calls : sent[calls[i].msg].start < base
    BY <1>1, <1>2 DEF CallsInv, CallInv, Ended
<1>6. Exchange!Ahead(k)
    BY <1>1, <1>2, <1>4, <1>5, BaseIsAhead DEF Ended
<1>7. Acceptable(Request(k))
    BY <1>1, <1>2, AcceptedRequest DEF ToAnswer
<1>8. Consults' = Append(Consults, [msg |-> k, reply |-> r])
    BY <1>1, <1>3, ConsultsGrow
<1>9. StageOf' = IF r.panics THEN "over" ELSE "consulted"
    <2>1. CASE ServiceFails
        <3>1. pc' = "status" /\ wbuf' = <<StatusHead(Current, 500)>>
            <4>1. SendStatus(500) /\ 500 \in Statuses
                BY <2>1 DEF ServiceFails, Statuses
            <4> QED BY <1>1, <2>1, <4>1, SendStatusWbuf, Paths
        <3>2. ~ Refusing'
            BY <3>1 DEF Refusing, StatusHead, IcapHead
        <3>3. StageOf' = "consulted"
            BY <3>1, <3>2, Stages DEF StageTable
        <3> QED BY <1>3, <2>1, <3>1, <3>3, Paths
    <2>2. CASE ServiceReturns
        <3>1. pc' = "answer" /\ StageOf' = "consulted"
            BY <2>2, Paths, Stages DEF StageTable
        <3> QED BY <1>3, <3>1, <2>2, Paths
    <2>3. CASE ServicePanics
        <3>1. StageOf' = "over"
            BY <2>3, Paths, Stages DEF StageTable, Ended
        <3> QED BY <1>3, <3>1, <2>3
    <2> QED BY <2>1, <2>2, <2>3
<1>10. Asked' = Asked /\ Written' = Written
    BY DEF ServiceFails, ServiceReturns, ServicePanics, SendStatus, clientVars,
           Asked, Written, AsWrite
<1>11. /\ k \in DOMAIN Asked
       /\ Servable(Asked[k]) \/ ~ SentAsDeclared(Asked[k])
    BY <1>1, <1>4, <1>7, WrittenMsg DEF Acceptable
<1> HIDE DEF k
<1> QED BY <1>2, <1>3, <1>6, <1>8, <1>9, <1>10, <1>11, SamePromise
        DEF Exchange!Consult

-----------------------------------------------------------------------------
(* The writes.                                                             *)

(* Writing what wbuf holds is writing its one head.                        *)
LEMMA HeadMaps ==
    ASSUME TypeOK, WriteStatus \/ WriteHead, Len(wbuf) = 1,
           NEW h, h = wbuf[1]
    PROVE  /\ Written' = Append(Written,
                                Exchange!IcapWrite(h.msg, h.status, h.http))
           /\ Asked' = Asked /\ Consults' = Consults
<1> DEFINE w == [heads |-> wbuf, pieces |-> <<>>]
<1>1. w \in Writes /\ out' = Append(out, w)
    BY WritesMade
<1>2. AsWrite(w) = Exchange!IcapWrite(h.msg, h.status, h.http)
    <2>1. wbuf # <<>>
        BY EmptySeq
    <2> QED BY <2>1 DEF AsWrite, Exchange!IcapWrite
<1>3. UNCHANGED <<sent, calls>>
    BY DEF WriteStatus, WriteHead, clientVars
<1> HIDE DEF w
<1> QED BY <1>1, <1>2, <1>3, WrittenGrows DEF Asked, Consults, AsCall

(* The task is at the end of the last call when it answers.                *)
LEMMA CurrentCall ==
    ASSUME TypeOK, NEW k, LastCallFor(k)
    PROVE  /\ Exchange!Current.msg = k
           /\ Exchange!Current.reply = LastCall.reply
<1>1. PICK n \in Nat : n = Len(calls)
    BY DEF TypeOK
<1>2. n \in DOMAIN calls /\ DOMAIN calls = 1 .. n
    BY <1>1, EmptySeq DEF LastCallFor, TypeOK
<1>3. Consults = [i \in 1 .. n |-> AsCall(calls[i])] /\ Len(Consults) = n
    BY <1>2 DEF Consults
<1>4. Exchange!Current = AsCall(LastCall)
    BY <1>1, <1>2, <1>3 DEF Exchange!Current, LastCall
<1> QED BY <1>4 DEF AsCall, LastCallFor

(* A head that is not a refusal answers as the service's reply says.       *)
LEMMA AnswerMaps ==
    ASSUME AInv, WriteHead \/ (WriteStatus /\ ~ Refusing)
    PROVE  Exchange!Answer
<1>1. /\ TypeOK /\ RequestInv /\ StatusInv /\ WriteInv
    BY DEF AInv, IInv, ReplyInv
<1>2. PICK h : h = wbuf[1]
    OBVIOUS
<1>3. Len(wbuf) = 1 /\ pc \in {"status", "write"}
    BY <1>1, Paths DEF StatusInv, WriteInv
<1>4. StageOf = "consulted"
    BY Paths, Stages DEF StageTable
<1>5. PICK k : k = h.msg
    OBVIOUS
<1>6. /\ k \in DOMAIN sent /\ LastCallFor(k)
      /\ h.status = StatusFor(Request(k), LastCall.reply)
      /\ h.http = HasHttpHead(Request(k), LastCall.reply)
      /\ StageOf' = IF Unusable(Request(k), LastCall.reply) THEN "over"
                    ELSE IF HasHttpHead(Request(k), LastCall.reply)
                         THEN "half" ELSE "idle"
    <2>1. CASE WriteHead
        <3>1. /\ k = ctx.msg /\ k \in DOMAIN sent /\ LastCallFor(k)
              /\ ~ Unusable(Request(k), LastCall.reply)
              /\ AnswerTo(h, Request(k), LastCall.reply)
            BY <1>1, <1>2, <1>5, <2>1, Paths DEF WriteInv, RequestInv, Decoded
        <3>2. /\ h.status = StatusFor(Request(k), LastCall.reply)
              /\ h.http <=> HasHttpHead(Request(k), LastCall.reply)
            BY <3>1 DEF AnswerTo
        <3>3. h.http \in BOOLEAN
            <4>1. wbuf \in Seq(Heads) /\ 1 \in 1 .. Len(wbuf)
                BY <1>1, <1>3 DEF TypeOK
            <4>2. h \in Heads
                BY <1>2, <4>1, ElementOfSeq
            <4> QED BY <4>2 DEF Heads
        <3>4. pc' = IF h.http THEN "http" ELSE "yield"
            BY <1>2, <1>3, <2>1 DEF WriteHead
        <3>5. StageOf' = IF h.http THEN "half" ELSE "idle"
            BY <3>4, <3>3, Stages DEF StageTable
        <3> QED BY <3>1, <3>2, <3>3, <3>5 DEF HasHttpHead
    <2>2. CASE WriteStatus /\ ~ Refusing
        <3>1. h.status # 400
            BY <1>2, <1>3, <2>2, Paths DEF Refusing
        <3>2. ~ RefusalInv(wbuf[1])
            BY <1>2, <3>1 DEF RefusalInv, StatusHead, IcapHead
        <3>3. /\ LastCallFor(k) /\ k \in DOMAIN sent
              /\ Unusable(Request(k), LastCall.reply)
              /\ h = StatusHead(k, 500)
            BY <1>1, <1>2, <1>5, <2>2, <3>2, Paths DEF StatusInv
        <3>4. h.status = 500 /\ h.http = FALSE
            BY <3>3 DEF StatusHead, IcapHead
        <3>5. StatusFor(Request(k), LastCall.reply) = 500
            BY <3>3 DEF StatusFor, Unusable
        <3>6. HasHttpHead(Request(k), LastCall.reply) = FALSE
            BY <3>3 DEF HasHttpHead
        <3>7. StageOf' = "over"
            BY <2>2, Paths, Stages DEF StageTable, Ended
        <3>8. /\ h.status = StatusFor(Request(k), LastCall.reply)
              /\ h.http = HasHttpHead(Request(k), LastCall.reply)
            BY <3>4, <3>5, <3>6, ZenonT(60)
        <3>9. StageOf' = IF Unusable(Request(k), LastCall.reply) THEN "over"
                         ELSE IF HasHttpHead(Request(k), LastCall.reply)
                              THEN "half" ELSE "idle"
            BY <3>3, <3>7, Zenon
        <3> QED BY <3>3, <3>8, <3>9, Zenon
    <2> QED BY <2>1, <2>2
<1>7. /\ Written' = Append(Written, Exchange!IcapWrite(k, h.status, h.http))
      /\ Asked' = Asked /\ Consults' = Consults
    BY <1>1, <1>2, <1>3, <1>5, HeadMaps
<1>8. Exchange!Current.msg = k /\ Exchange!Current.reply = LastCall.reply
    BY <1>1, <1>6, CurrentCall
<1>9. Asked[k] = Request(k)
    BY <1>1, <1>6, WrittenMsg
<1>10. /\ Written' = Append(Written,
                             Exchange!IcapWrite(k,
                                Exchange!StatusFor(Asked[k], LastCall.reply),
                                Exchange!HasHttpHead(Asked[k], LastCall.reply)))
       /\ StageOf' = IF Exchange!Unusable(Asked[k], LastCall.reply) THEN "over"
                     ELSE IF Exchange!HasHttpHead(Asked[k], LastCall.reply)
                          THEN "half" ELSE "idle"
    <2>1. Exchange!HasHttpHead(Asked[k], LastCall.reply) = h.http
        BY <1>6, <1>9, SamePromise DEF HasHttpHead, Exchange!HasHttpHead
    <2>2. Exchange!StatusFor(Asked[k], LastCall.reply) = h.status
        BY <1>6, <1>9, SamePromise
    <2>3. Exchange!Unusable(Asked[k], LastCall.reply)
             <=> Unusable(Request(k), LastCall.reply)
        BY <1>9, SamePromise
    <2> QED BY <1>6, <1>7, <2>1, <2>2, <2>3
<1> QED BY <1>4, <1>7, <1>8, <1>10 DEF Exchange!Answer

(* Bytes that begin no request come behind what the exchange calls astray. *)
LEMMA NothingBeginsHere ==
    ASSUME AInv, pc = "status", RefusalInv(StatusHead(0, 400))
    PROVE  Exchange!Astray
<1>1. /\ TypeOK /\ BufferInv /\ StreamInv /\ OrderInv /\ CallsInv /\ OutInv
      /\ CoverInv
    BY DEF AInv, IInv
<1>2. /\ base < pos /\ \A k \in DOMAIN sent : sent[k].start # base
      /\ \A i \in DOMAIN calls : sent[calls[i].msg].start < base
    BY DEF RefusalInv, StatusHead, IcapHead
<1>3. base \in 0 .. limit - 1
    BY <1>1, <1>2 DEF TypeOK, BufferInv
<1>4. PICK k \in DOMAIN sent : sent[k].start <= base /\ base < End(k)
    BY <1>1, <1>3 DEF CoverInv
<1>5. /\ k \in Nat \ {0} /\ sent[k].start \in Nat /\ End(k) \in Nat
      /\ base \in Nat /\ base # 0
    BY <1>1, <1>2, <1>4, SentIsRequest, EndIsNat DEF TypeOK
<1>6. Written # <<>>
    <2>1. out # <<>> /\ DOMAIN out = 1 .. Len(out) /\ Len(out) \in Nat \ {0}
        BY <1>1, <1>5, EmptySeq DEF OutInv, TypeOK
    <2>2. 1 \in DOMAIN Written
        BY <1>1, <2>1, WrittenMsg
    <2> QED BY <2>2
<1>7. ASSUME NEW j \in DOMAIN calls, ~ (calls[j].msg < k)
      PROVE  ~ SentAsDeclared(Request(k)) \/ HiddenBodied(Request(k))
    <2>1. PICK c : c = calls[j].msg
        OBVIOUS
    <2>2. c \in DOMAIN sent /\ sent[c].start < base /\ Passed(c)
        BY <1>1, <1>2, <2>1 DEF CallsInv, CallInv
    <2>3. c \in Nat /\ sent[c].start \in Nat
        BY <1>1, <2>2, SentIsRequest
    <2>4. ~ (k < c)
        BY <1>1, <1>4, <1>5, <2>2, <2>3 DEF CoverInv
    <2>5. c = k
        BY <1>5, <1>7, <2>1, <2>3, <2>4
    <2>6. ~ (End(k) <= base)
        BY <1>4, <1>5
    <2> QED BY <2>2, <2>5, <2>6 DEF Passed
<1>8. ASSUME NEW n \in DOMAIN out, ~ (Written[n].msg < k)
      PROVE  \E j \in DOMAIN calls : ~ (calls[j].msg < k)
    <2>1. Written[n].msg # 0
        BY <1>5, <1>8
    <2>2. PICK h \in HeadsOf(n) : Written[n].msg = h.msg
        BY <1>1, <2>1, WrittenMsg
    <2>3. WrittenInv(h) /\ ~ h.close
        BY <1>1 DEF OutInv, OrderInv, Ended
    <2>4. h # StatusHead(h.msg, 400)
        BY <2>3 DEF StatusHead, IcapHead
    <2>5. CallsFor(h.msg) # {}
        BY <2>1, <2>2, <2>3, <2>4 DEF WrittenInv
    <2>6. PICK j \in DOMAIN calls : calls[j].msg = h.msg
        BY <2>5 DEF CallsFor
    <2> QED BY <1>8, <2>2, <2>6
<1>9. \/ Exchange!Ahead(k)
      \/ ~ SentAsDeclared(Request(k)) \/ HiddenBodied(Request(k))
    BY <1>1, <1>7, <1>8, WrittenMsg DEF Exchange!Ahead
<1>10. k \in DOMAIN Asked /\ Asked[k] = Request(k)
    BY <1>1, WrittenMsg
<1> QED BY <1>6, <1>9, <1>10, SamePromise DEF Exchange!Astray, HiddenBodied

(* Writing a refusal is refusing the request at base, or what begins none. *)
LEMMA RefusalMaps ==
    ASSUME AInv, WriteStatus, Refusing
    PROVE  Exchange!Refuse
<1>1. /\ TypeOK /\ StreamInv /\ OrderInv /\ CallsInv /\ StatusInv
    BY DEF AInv, IInv, ReplyInv
<1>2. PICK h : h = wbuf[1]
    OBVIOUS
<1>3. pc = "status" /\ Len(wbuf) = 1 /\ h.status = 400
    BY <1>1, <1>2, Paths, ZenonT(60) DEF StatusInv, Refusing
<1>4. RefusalInv(h)
    <2>1. h # StatusHead(h.msg, 500)
        BY <1>3 DEF StatusHead, IcapHead
    <2> QED BY <1>1, <1>2, <1>3, <2>1 DEF StatusInv
<1>5. h = StatusHead(h.msg, 400) /\ h.http = FALSE
    BY <1>4, ZenonT(60) DEF RefusalInv, StatusHead, IcapHead
<1>6. StageOf = "idle" /\ StageOf' = "over"
    BY <1>3, Stages, Paths DEF StageTable, Ended
<1>7. /\ Written' = Append(Written, Exchange!IcapWrite(h.msg, 400, FALSE))
      /\ Asked' = Asked /\ Consults' = Consults
    <2>1. /\ Written' = Append(Written,
                               Exchange!IcapWrite(h.msg, h.status, h.http))
          /\ Asked' = Asked /\ Consults' = Consults
        BY <1>1, <1>2, <1>3, HeadMaps
    <2> QED BY <1>3, <1>5, <2>1, Zenon
<1>8. CASE h.msg = 0
    <2>1. Exchange!Astray
        BY <1>3, <1>4, <1>5, <1>8, NothingBeginsHere
    <2> QED BY <1>6, <1>7, <1>8, <2>1 DEF Exchange!Refuse
<1>9. CASE h.msg # 0
    <2>1. /\ h.msg \in DOMAIN sent /\ sent[h.msg].start = base
          /\ Refusable(Request(h.msg))
          /\ \A i \in DOMAIN calls : sent[calls[i].msg].start < base
        BY <1>4, <1>9 DEF RefusalInv
    <2>2. Exchange!Ahead(h.msg)
        BY <1>1, <1>3, <2>1, BaseIsAhead DEF Ended
    <2>3. /\ h.msg \in DOMAIN Asked
          /\ ~ Servable(Asked[h.msg]) \/ ~ SentAsDeclared(Asked[h.msg])
        BY <1>1, <2>1, WrittenMsg DEF Refusable
    <2>4. \/ ~ Exchange!Servable(Asked[h.msg])
          \/ ~ Exchange!SentAsDeclared(Asked[h.msg])
        BY <2>3, SamePromise
    <2>5. h.msg \in {j \in DOMAIN Asked : Exchange!Ahead(j)}
        BY <2>2, <2>3
    <2> QED BY <1>6, <1>7, <2>4, <2>5, ZenonT(60) DEF Exchange!Refuse
<1> QED BY <1>8, <1>9

(* Writing http_buf completes the answer.                                  *)
LEMMA HttpMaps ==
    ASSUME TypeOK, WriteHttp
    PROVE  Exchange!CompleteAnswer
<1> DEFINE w == [heads |-> <<>>, pieces |-> httpBuf]
<1>1. w \in Writes /\ out' = Append(out, w)
    BY WritesMade
<1>2. AsWrite(w) = Exchange!HttpWrite
    BY DEF AsWrite, Exchange!HttpWrite
<1>3. UNCHANGED <<sent, calls>>
    BY DEF WriteHttp, clientVars
<1>4. StageOf = "half" /\ StageOf' = "idle"
    BY Paths, Stages DEF StageTable
<1> HIDE DEF w
<1> QED BY <1>1, <1>2, <1>3, <1>4, WrittenGrows
        DEF Exchange!CompleteAnswer, Asked, Consults, AsCall

-----------------------------------------------------------------------------
(* Every step.                                                             *)

(* What the task does between two writes or calls does not show, except    *)
(* that it may end.                                                        *)
LEMMA QuietMaps ==
    ASSUME TypeOK,
           \/ Leave
           \/ RecvHead \/ RecvMissing \/ RecvChunk
           \/ InitPartial \/ InitComplete \/ HeadersReceived
           \/ ChunkMore \/ ChunkOk \/ ParseOk \/ Refusals
           \/ Replying \/ Failing \/ Yield
    PROVE  Exchange!HangUp \/ UNCHANGED Exchange!vars
<1>1. UNCHANGED <<sent, calls, out>>
    BY DEF Leave, RecvHead, RecvMissing, RecvChunk, InitPartial, InitComplete,
           HeadersReceived, ChunkMore, ChunkOk, ParseOk, Refusals, InitBad,
           ChunkBad, ParseBad, Refuse, SendStatus, Replying, ProcessOptions,
           Send204, AppendHeaders, CustomResponse, Reply, Failing, NoDecision,
           NoHttpStatus, Yield, Goto, clientVars
<1>2. Asked' = Asked /\ Consults' = Consults /\ Written' = Written
    BY <1>1 DEF Asked, Consults, AsCall, Written, AsWrite
<1>3. CASE Leave
    <2>1. StageOf' = "over"
        BY <1>3, Stages DEF Leave, StageTable
    <2> QED BY <1>2, <2>1 DEF Exchange!HangUp, Exchange!vars
<1>4. CASE Refusals
    <2>1. SendStatus(400) /\ 400 \in Statuses
        BY <1>4 DEF Refusals, InitBad, ChunkBad, ParseBad, Refuse, Statuses
    <2>2. pc' = "status" /\ wbuf' = <<StatusHead(Current, 400)>>
        BY <1>4, <2>1, SendStatusWbuf, Paths
    <2>3. Refusing'
        BY <2>2 DEF Refusing, StatusHead, IcapHead
    <2>4. StageOf = "idle" /\ StageOf' = "idle"
        BY <1>4, <2>2, <2>3, Paths, Stages DEF StageTable
    <2> QED BY <1>2, <2>4 DEF Exchange!vars
<1>5. CASE Failing
    <2>1. SendStatus(500) /\ 500 \in Statuses
        BY <1>5 DEF Failing, NoDecision, NoHttpStatus, Statuses
    <2>2. pc' = "status" /\ wbuf' = <<StatusHead(Current, 500)>>
        BY <1>5, <2>1, SendStatusWbuf, Paths
    <2>3. ~ Refusing'
        BY <2>2 DEF Refusing, StatusHead, IcapHead
    <2>4. StageOf = "consulted" /\ StageOf' = "consulted"
        BY <1>5, <2>2, <2>3, Paths, Stages DEF StageTable
    <2> QED BY <1>2, <2>4 DEF Exchange!vars
<1>6. CASE Replying
    <2>1. StageOf = "consulted" /\ StageOf' = "consulted"
        BY <1>6, Paths, Stages DEF StageTable
    <2> QED BY <1>2, <2>1 DEF Exchange!vars
<1>7. CASE \/ RecvHead \/ RecvMissing \/ RecvChunk
           \/ InitPartial \/ InitComplete \/ HeadersReceived
           \/ ChunkMore \/ ChunkOk \/ ParseOk \/ Yield
    <2>1. StageOf = "idle" /\ StageOf' = "idle"
        BY <1>7, Paths, Stages DEF StageTable
    <2> QED BY <1>2, <2>1 DEF Exchange!vars
<1> QED BY <1>3, <1>4, <1>5, <1>6, <1>7

(* Every step of the connection is one of the exchange, or none.           *)
LEMMA StepMaps ==
    ASSUME AInv, [Next]_vars
    PROVE  [Exchange!Next]_(Exchange!vars)
<1> DEFINE Maps == Exchange!Next \/ UNCHANGED Exchange!vars
<1> SUFFICES Maps
    OBVIOUS
<1>1. TypeOK
    BY DEF AInv, IInv
<1>2. CASE Stay
    BY <1>1, <1>2, ClientMaps DEF Exchange!Next
<1>3. CASE ServiceFails \/ ServiceReturns \/ ServicePanics
    BY <1>3, ServiceMaps DEF Exchange!Next
<1>4. CASE WriteStatus /\ Refusing
    BY <1>4, RefusalMaps DEF Exchange!Next
<1>5. CASE WriteHead \/ (WriteStatus /\ ~ Refusing)
    BY <1>5, AnswerMaps DEF Exchange!Next
<1>6. CASE WriteHttp
    BY <1>1, <1>6, HttpMaps DEF Exchange!Next
<1>7. CASE \/ Leave
           \/ RecvHead \/ RecvMissing \/ RecvChunk
           \/ InitPartial \/ InitComplete \/ HeadersReceived
           \/ ChunkMore \/ ChunkOk \/ ParseOk \/ Refusals
           \/ Replying \/ Failing \/ Yield
    BY <1>1, <1>7, QuietMaps DEF Exchange!Next
<1>8. \/ Stay \/ ServiceFails \/ ServiceReturns \/ ServicePanics \/ Writing
      \/ Leave
      \/ RecvHead \/ RecvMissing \/ RecvChunk
      \/ InitPartial \/ InitComplete \/ HeadersReceived
      \/ ChunkMore \/ ChunkOk \/ ParseOk \/ Refusals
      \/ Replying \/ Failing \/ Yield
    BY StepCases
<1> HIDE DEF Maps
<1> QED BY <1>2, <1>3, <1>4, <1>5, <1>6, <1>7, <1>8 DEF Writing

(* A connection that has not begun is an exchange that has not.            *)
LEMMA InitMaps == Init => Exchange!Init
<1> SUFFICES ASSUME Init PROVE Exchange!Init
    OBVIOUS
<1>1. StageOf = "idle"
    BY Stages DEF Init, StageTable
<1>2. sent = <<>> /\ calls = <<>> /\ out = <<>>
    BY DEF Init
<1>3. Asked = <<>> /\ Consults = <<>> /\ Written = <<>>
    BY <1>2 DEF Asked, Consults, Written
<1> QED BY <1>1, <1>3 DEF Exchange!Init

(* The connection implements the exchange, for every set of requests and   *)
(* replies: however the bytes are cut up, whatever offsets are declared    *)
(* and wherever the connection breaks, each request is put to the service  *)
(* at most once and in order, answered by what the service said of it, or  *)
(* refused.                                                                *)
THEOREM Implements == Spec => ImplementsExchange
<1>1. AInv /\ [Next]_vars => [Exchange!Next]_(Exchange!vars)
    BY StepMaps
<1> QED BY InitMaps, <1>1, AInductive, PTL
        DEF Spec, ImplementsExchange, Exchange!Spec
=============================================================================
