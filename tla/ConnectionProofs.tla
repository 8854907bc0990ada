--------------------------- MODULE ConnectionProofs --------------------------
(***************************************************************************)
(* Proofs about module Connection, for every set of requests and replies,  *)
(* every window, every buffer size and every way of cutting up the bytes.  *)
(***************************************************************************)
EXTENDS ConnectionProperties, SequenceTheorems, TLAPS

USE DEF CRLF

-----------------------------------------------------------------------------
(* The operators of ReqCtx keep a context a context.                       *)

(* An Option that is not empty holds a value.                              *)
LEMMA ValueInOption ==
    ASSUME NEW S, NEW o \in Option(S), o # {}
    PROVE  Value(o) \in S
BY DEF Option, Value

(* What the requests of the instance are.                                  *)
LEMMA MessageIsRequest == \A m \in Messages : m \in Requests
BY MessagesAssumption

(* The last entity of a list is one.                                       *)
LEMMA LastIsEntity ==
    ASSUME NEW ee \in Seq(Entities), ee # <<>>
    PROVE  LastEntity(ee) \in Entities
<1>1. Len(ee) \in 1 .. Len(ee)
    BY EmptySeq
<1> QED BY <1>1, ElementOfSeq DEF LastEntity

(* parse_icap_headers leaves a context behind.                             *)
LEMMA ParsedIsContext ==
    ASSUME NEW c \in Contexts, NEW m \in Requests
    PROVE  ParseIcapHeaders(c, m) \in Contexts
<1> DEFINE null  == m.ee # <<>> /\ LastEntity(m.ee).kind = "null-body"
           codes == IF m.allow = {} THEN c.allow ELSE Value(m.allow)
<1>1. null \in BOOLEAN
    OBVIOUS
<1>2. codes \in SUBSET AllowCodes
    <2>1. c.allow \in SUBSET AllowCodes /\ m.allow \in Option(SUBSET AllowCodes)
        BY DEF Contexts, Requests
    <2> QED BY <2>1, ValueInOption
<1>3. ParseIcapHeaders(c, m) =
         [c EXCEPT !.ee = m.ee, !.preview = m.preview, !.nullBody = null,
                   !.allow = codes]
    BY Zenon DEF ParseIcapHeaders
<1>4. m.ee \in Seq(Entities) /\ m.preview \in Option(Nat)
    BY DEF Requests
<1> HIDE DEF null, codes
<1> QED BY <1>1, <1>2, <1>3, <1>4, ZenonT(90) DEF Contexts

(* decode_icap_request leaves a context behind.                            *)
LEMMA DecodedIsContext ==
    ASSUME NEW c \in Contexts, NEW k \in Nat, NEW m \in Requests,
           m.method \in Methods, NEW ptr \in Nat
    PROVE  DecodeIcapRequest(c, k, m, ptr) \in Contexts
BY DEF Contexts, Requests, DecodeIcapRequest

(* alloc_buffer_for_headers leaves a context behind: the number of missing *)
(* bytes does not wrap around.                                             *)
LEMMA AllocatedIsContext ==
    ASSUME NEW c \in Contexts, NEW n \in Int
    PROVE  AllocBufferForHeaders(c, n) \in Contexts
<1>1. ASSUME NEW x \in Nat, NEW y \in Nat
      PROVE  [c EXCEPT !.bodyOff = x, !.missing = y] \in Contexts
    BY DEF Contexts
<1>2. UsizeMax \in Nat
    BY BufferAssumption
<1>3. CASE c.ee = <<>>
    BY <1>1, <1>2, <1>3 DEF AllocBufferForHeaders
<1>4. CASE c.ee # <<>>
    <2> DEFINE off  == LastEntity(c.ee).off
               left == IF off > n - c.parsed THEN off - (n - c.parsed) ELSE 0
    <2>1. off \in Nat /\ c.parsed \in Nat
        <3>1. c.ee \in Seq(Entities) /\ c.parsed \in Nat
            BY DEF Contexts
        <3>2. LastEntity(c.ee) \in Entities
            BY <1>4, <3>1, LastIsEntity
        <3> QED BY <3>1, <3>2 DEF Entities
    <2>2. left \in Nat
        BY <2>1
    <2>3. AllocBufferForHeaders(c, n)
             = [c EXCEPT !.bodyOff = off, !.missing = left]
        BY <1>4 DEF AllocBufferForHeaders
    <2> HIDE DEF off, left
    <2> QED BY <1>1, <2>1, <2>2, <2>3
<1> QED BY <1>3, <1>4

(* ReqCtx::init leaves a context behind.                                   *)
LEMMA InitIsContext ==
    ASSUME NEW c \in Contexts, NEW k \in Nat, NEW m \in Requests,
           m.method \in Methods, NEW ptr \in Nat, NEW n \in Int
    PROVE  InitCtx(c, k, m, ptr, n) \in Contexts
BY DecodedIsContext, ParsedIsContext, AllocatedIsContext DEF InitCtx

(* parse_entities leaves a context behind.                                 *)
LEMMA ParseEntitiesIsContext ==
    ASSUME NEW c \in Contexts, NEW m \in Requests, m.method \in Methods,
           NEW ptr \in Nat
    PROVE  ParseEntities(c, m, ptr) \in Contexts
BY DEF ParseEntities, DecodeIcapRequest, Contexts, Requests

(* clear leaves a context behind.                                          *)
LEMMA ClearIsContext ==
    ASSUME NEW c \in Contexts PROVE Clear(c) \in Contexts
<1>1. <<>> \in Seq(Entities) /\ <<>> \in Seq(Nat)
    BY EmptySeq
<1>2. /\ {} \in Option(Nat) /\ {} \in Option(Decisions)
      /\ {} \in Option(Statuses) /\ "OPTIONS" \in Methods
    BY DEF Option, Methods
<1>3. ClearHeads(c) \in Contexts
    BY <1>1, <1>2 DEF ClearHeads, Contexts
<1>4. ClearOptions(ClearHeads(c)) \in Contexts
    BY <1>2, <1>3 DEF ClearOptions, Contexts
<1>5. ClearOutput(ClearOptions(ClearHeads(c))) \in Contexts
    BY <1>1, <1>2, <1>4 DEF ClearOutput, Contexts
<1> QED BY <1>5 DEF Clear, Contexts

(* What the service sets keeps a context a context.                        *)
LEMMA SetOutputIsContext ==
    ASSUME NEW c \in Contexts, NEW r \in ServiceReplies
    PROVE  SetOutput(c, r) \in Contexts
<1> DEFINE dec  == OrElse(r.decision, c.decision)
           icap == OrElse(r.icapStatus, c.icapStatus)
           http == OrElse(r.httpStatus, c.httpStatus)
           ih   == c.icapHdrs \cup r.icapHdrs
           hh   == IF r.addsHttp THEN Append(c.httpHdrs, c.msg) ELSE c.httpHdrs
<1>1. /\ dec \in Option(Decisions)
      /\ icap \in Option(Statuses) /\ http \in Option(Statuses)
    BY DEF OrElse, Contexts, ServiceReplies
<1>2. ih \in SUBSET IcapNames
    BY SMTT(60) DEF Contexts, ServiceReplies
<1>3. hh \in Seq(Nat)
    BY DEF Contexts, ServiceReplies
<1>4. SetOutput(c, r) =
         [c EXCEPT !.decision = dec, !.icapStatus = icap, !.httpStatus = http,
                   !.icapHdrs = ih, !.httpHdrs = hh]
    BY Zenon DEF SetOutput
<1> HIDE DEF dec, icap, http, ih, hh
<1> QED BY <1>1, <1>2, <1>3, <1>4, ZenonT(90) DEF Contexts

(* The ensure_... methods leave a context behind.                          *)
LEMMA EnsuredIsContext ==
    ASSUME NEW c \in Contexts
    PROVE  /\ EnsureOptionsHeaders(c) \in Contexts
           /\ Ensure204Headers(c) \in Contexts
           /\ EnsureResponseHeaders(c) \in Contexts
BY DEF EnsureOptionsHeaders, Ensure204Headers, EnsureResponseHeaders, Contexts,
       IcapNames

-----------------------------------------------------------------------------
(* The buffer arithmetic.                                                  *)

(* reserve leaves the room asked for and never shrinks the buffer.         *)
LEMMA ReserveMakesRoom ==
    ASSUME NEW c \in Nat, NEW n \in Int, NEW more \in Nat
    PROVE  /\ Reserve(c, n, more) \in Nat
           /\ Reserve(c, n, more) >= c
           /\ Reserve(c, n, more) - n >= more
BY DEF Reserve, Larger

(* chunk_mut never shrinks rbuf.                                           *)
LEMMA ChunkMutGrows ==
    ASSUME NEW c \in Nat, NEW n \in Int
    PROVE  ChunkMut(c, n) \in Nat /\ ChunkMut(c, n) >= c
<1>1. GrowBy \in Nat
    BY BufferAssumption
<1>2. Reserve(c, n, GrowBy) \in Nat /\ Reserve(c, n, GrowBy) >= c
    BY <1>1, ReserveMakesRoom
<1> QED BY <1>2 DEF ChunkMut

(* recv never shrinks rbuf.                                                *)
LEMMA RecvRoomGrows ==
    ASSUME NEW c \in Nat, NEW n \in Int
    PROVE  RecvRoom(c, n) \in Nat /\ RecvRoom(c, n) >= c
<1> DEFINE d == IF c <= LowCap THEN Reserve(c, n, RBufCap) ELSE c
<1>1. d \in Nat /\ d >= c
    BY ReserveMakesRoom, BufferAssumption
<1>2. ChunkMut(d, n) \in Nat /\ ChunkMut(d, n) >= d
    BY <1>1, ChunkMutGrows
<1> QED BY <1>1, <1>2 DEF RecvRoom

(* After init, rbuf has room for all that is missing.                      *)
LEMMA RoomForHeadersMakesRoom ==
    ASSUME NEW c \in Nat, NEW n \in Int, NEW more \in Nat, n <= c
    PROVE  /\ RoomForHeaders(c, n, more) \in Nat
           /\ RoomForHeaders(c, n, more) >= c
           /\ n + more <= RoomForHeaders(c, n, more)
<1>1. /\ Reserve(c, n, more) \in Nat
      /\ Reserve(c, n, more) >= c
      /\ Reserve(c, n, more) - n >= more
    BY ReserveMakesRoom
<1> QED BY <1>1 DEF RoomForHeaders

(* However much a read returns, the count of missing bytes stays a number. *)
LEMMA StillMissingIsNat ==
    ASSUME NEW missing \in Nat, NEW n \in Nat
    PROVE  /\ StillMissing(missing, n) \in Nat
           /\ missing <= n + StillMissing(missing, n)
           /\ StillMissing(missing, n) = 0 \/ StillMissing(missing, n) + n = missing
BY DEF StillMissing

-----------------------------------------------------------------------------
(* The requests of the stream, and the operators that build an answer.     *)

(* What has been sent is a request.                                        *)
LEMMA SentIsRequest ==
    ASSUME TypeOK, NEW k \in DOMAIN sent
    PROVE  /\ k \in Nat \ {0}
           /\ Request(k) \in Messages
           /\ Request(k) \in Requests
           /\ sent[k].start \in Nat
<1>1. sent \in Seq([req : Messages, start : Nat])
    BY DEF TypeOK
<1>2. k \in 1 .. Len(sent)
    BY <1>1, LenProperties
<1>3. sent[k] \in [req : Messages, start : Nat]
    BY <1>1, <1>2, ElementOfSeq
<1> QED BY <1>2, <1>3, MessageIsRequest DEF Request

(* The request at base, if there is one, has been sent and begins there.   *)
LEMMA CurrentIsSent ==
    ASSUME TypeOK
    PROVE  /\ Current \in Nat
           /\ Current # 0 => /\ Current \in DOMAIN sent
                             /\ sent[Current].start = base
<1>1. CASE \E k \in DOMAIN sent : sent[k].start = base
    <2>1. Current \in DOMAIN sent /\ sent[Current].start = base
        BY <1>1 DEF Current
    <2> QED BY <2>1, SentIsRequest
<1>2. CASE ~ \E k \in DOMAIN sent : sent[k].start = base
    BY <1>2 DEF Current
<1> QED BY <1>1, <1>2

(* The length of rbuf is a number.                                         *)
LEMMA BufferedIsInt == ASSUME TypeOK PROVE Buffered \in Int
BY DEF TypeOK, Buffered

(* The head an answer writes is a head.                                    *)
LEMMA IcapHeadIsHead ==
    ASSUME NEW k \in Nat, NEW status \in Statuses,
           NEW hdrs \in SUBSET IcapNames, NEW enc \in Option(Encapsulated)
    PROVE  IcapHead(k, status, hdrs, enc) \in Heads
BY DEF IcapHead, Heads

(* The head send_status writes is a head.                                  *)
LEMMA StatusHeadIsHead ==
    ASSUME NEW k \in Nat, NEW status \in Statuses
    PROVE  StatusHead(k, status) \in Heads
<1>1. {"ISTag", "Connection", "Encapsulated"} \in SUBSET IcapNames
    BY DEF IcapNames
<1>2. {} \in Option(Encapsulated)
    BY DEF Option
<1>3. IcapHead(k, status, {"ISTag", "Connection", "Encapsulated"}, {}) \in Heads
    BY <1>1, <1>2, IcapHeadIsHead
<1> QED BY <1>3 DEF StatusHead, Heads

(* The HTTP head an answer writes is made of pieces.                       *)
LEMMA HeadBytesArePieces ==
    ASSUME NEW c \in Contexts, NEW start \in Seq(Pieces)
    PROVE  HeadBytes(start, c) \in Seq(Pieces) /\ Len(HeadBytes(start, c)) \in Nat
<1>1. AddedHeaders(c) \in Seq(Pieces)
    BY SMTT(40) DEF AddedHeaders, Contexts, Pieces
<1>2. <<[what |-> "crlf", msg |-> 0]>> \in Seq(Pieces)
    BY DEF Pieces
<1>3. HeadBytes(start, c) \in Seq(Pieces)
    BY <1>1, <1>2 DEF HeadBytes
<1> QED BY <1>3

(* So is the original head.                                                *)
LEMMA OriginalHeadIsPieces ==
    ASSUME NEW c \in Contexts PROVE OriginalHead(c) \in Seq(Pieces)
BY DEF OriginalHead, Contexts, Pieces

(* So is a head with the chunk behind it.                                  *)
LEMMA WithChunkIsPieces ==
    ASSUME NEW c \in Contexts, NEW head \in Seq(Pieces)
    PROVE  WithChunk(c, head) \in Seq(Pieces)
<1>1. UseOriginalBody \in Seq(Pieces)
    BY DEF UseOriginalBody, Pieces
<1> QED BY <1>1 DEF WithChunk

-----------------------------------------------------------------------------
(* Types.                                                                  *)

(* The types hold at first.                                                *)
LEMMA InitTypeOK == Init => TypeOK
<1>1. NewCtx \in Contexts
    <2>1. {} \in Option(Nat) /\ {} \in Option(Decisions) /\ {} \in Option(Statuses)
        BY DEF Option
    <2>2. "OPTIONS" \in Methods /\ {} \in SUBSET AllowCodes
          /\ {} \in SUBSET IcapNames
        BY DEF Methods
    <2> QED BY <2>1, <2>2 DEF NewCtx, Contexts
<1> QED BY <1>1, BufferAssumption DEF Init, TypeOK, Locations

(* A step that only moves the program counter.                             *)
LEMMA GotoTypeOK ==
    ASSUME TypeOK, NEW l \in Locations, Goto(l) PROVE TypeOK'
BY DEF TypeOK, Goto, clientVars, bufVars

(* The client and the network keep the types.                              *)
LEMMA ClientTypeOK == ASSUME TypeOK, Client PROVE TypeOK'
<1>1. CASE ClientSend
    <2> PICK m \in Messages :
            /\ sent' = Append(sent, [req |-> m, start |-> limit])
            /\ limit' = limit + Size(m)
        BY <1>1 DEF ClientSend
    <2>1. Size(m) \in Nat
        BY MessageIsRequest, SMTT(40) DEF Requests, Size, HttpLen, BodyLen
    <2>2. limit' \in Nat
        BY <2>1 DEF TypeOK
    <2>3. sent' \in Seq([req : Messages, start : Nat])
        BY DEF TypeOK
    <2> QED BY <1>1, <2>2, <2>3 DEF ClientSend, TypeOK, bufVars
<1>2. CASE ClientClose
    BY <1>2 DEF ClientClose, TypeOK, bufVars
<1>3. CASE ClientGone
    BY <1>3 DEF ClientGone, TypeOK, bufVars
<1>4. CASE ClientRead
    BY <1>4 DEF ClientRead, TypeOK, bufVars
<1> QED BY <1>1, <1>2, <1>3, <1>4 DEF Client

(* A read into a buffer of some capacity.                                  *)
LEMMA ReadTypeOK ==
    ASSUME TypeOK, NEW c \in Nat, NEW n \in 1 .. limit - pos, Read(c, n)
    PROVE  cap' \in Nat /\ pos' \in Nat /\ n \in Nat
BY DEF Read, TypeOK

(* The reads keep the types.                                               *)
LEMMA RecvTypeOK == ASSUME TypeOK, Recv PROVE TypeOK'
<1>1. RecvRoom(cap, Buffered) \in Nat /\ ChunkMut(cap, Buffered) \in Nat
    BY BufferedIsInt, RecvRoomGrows, ChunkMutGrows DEF TypeOK
<1>2. CASE RecvHead
    <2>1. cap' \in Nat /\ pos' \in Nat
        BY <1>1, <1>2, ReadTypeOK DEF RecvHead
    <2> QED BY <1>2, <2>1 DEF RecvHead, TypeOK, clientVars, Locations
<1>3. CASE RecvMissing
    <2> PICK n \in 1 .. limit - pos :
            /\ Read(ChunkMut(cap, Buffered), n)
            /\ ctx' = [ctx EXCEPT !.missing = StillMissing(@, n)]
        BY <1>3 DEF RecvMissing
    <2>1. cap' \in Nat /\ pos' \in Nat /\ n \in Nat
        BY <1>1, ReadTypeOK
    <2>2. ctx' \in Contexts
        <3>1. ctx \in Contexts
            BY DEF TypeOK
        <3>2. ctx.missing \in Nat
            BY <3>1 DEF Contexts
        <3>3. StillMissing(ctx.missing, n) \in Nat
            BY <2>1, <3>2, StillMissingIsNat
        <3>4. ctx' = [ctx EXCEPT !.missing = StillMissing(ctx.missing, n)]
            BY Zenon
        <3> HIDE DEF StillMissing
        <3> QED BY <3>1, <3>3, <3>4 DEF Contexts
    <2> QED BY <1>3, <2>1, <2>2 DEF RecvMissing, TypeOK, clientVars
<1>4. CASE RecvChunk
    <2>1. cap' \in Nat /\ pos' \in Nat
        BY <1>1, <1>4, ReadTypeOK DEF RecvChunk
    <2> QED BY <1>4, <2>1 DEF RecvChunk, TypeOK, clientVars, Locations
<1>5. CASE RecvEof \/ RecvError \/ RecvTimeout
    BY <1>5, GotoTypeOK
       DEF RecvEof, RecvError, RecvTimeout, Abandon, Locations
<1> QED BY <1>2, <1>3, <1>4, <1>5 DEF Recv

(* The error answers: wbuf holds one head and the task goes on to write it. *)
LEMMA SendStatusWbuf ==
    ASSUME TypeOK, NEW status \in Statuses, SendStatus(status)
    PROVE  /\ wbuf' = <<StatusHead(Current, status)>>
           /\ wbuf' \in Seq(Heads)
<1>1. StatusHead(Current, status) \in Heads
    BY CurrentIsSent, StatusHeadIsHead
<1> QED BY <1>1 DEF SendStatus, Cleared

(* send_status keeps the types of the writer.                              *)
LEMMA SendStatusTypeOK ==
    ASSUME TypeOK, NEW status \in Statuses, SendStatus(status),
           ctx' \in Contexts, httpBuf' \in Seq(Pieces), calls' \in Seq(Calls)
    PROVE  TypeOK'
BY SendStatusWbuf DEF SendStatus, TypeOK, clientVars, bufVars, Locations

(* Refusing a request keeps the types.                                     *)
LEMMA RefuseTypeOK == ASSUME TypeOK, Refuse PROVE TypeOK'
<1>1. 400 \in Statuses
    BY DEF Statuses
<1>2. SendStatus(400) /\ UNCHANGED <<ctx, httpBuf, calls>>
    BY DEF Refuse
<1>3. ctx' \in Contexts /\ httpBuf' \in Seq(Pieces) /\ calls' \in Seq(Calls)
    BY <1>2 DEF TypeOK
<1> QED BY <1>1, <1>2, <1>3, SendStatusTypeOK

(* The steps up to the call of the service.                                *)
LEMMA ReceiveTypeOK ==
    ASSUME TypeOK, RequestInv,
           \/ InitPartial \/ InitBad \/ InitComplete \/ HeadersReceived
           \/ ChunkMore \/ ChunkBad \/ ChunkOk \/ ParseOk \/ ParseBad
           \/ AllocFails
    PROVE  TypeOK'
<1>1. CASE InitPartial \/ ChunkMore \/ ChunkOk \/ AllocFails
    BY <1>1, GotoTypeOK
       DEF InitPartial, ChunkMore, ChunkOk, AllocFails, Locations
<1>2. CASE HeadersReceived
    <2>1. (IF NeedsChunk(ctx) THEN "chunk" ELSE "parse") \in Locations
        BY DEF Locations
    <2> QED BY <1>2, <2>1, GotoTypeOK DEF HeadersReceived
<1>3. CASE InitBad \/ ChunkBad \/ ParseBad
    BY <1>3, RefuseTypeOK DEF InitBad, ChunkBad, ParseBad
<1>4. CASE InitComplete
    <2> DEFINE m == Request(Current)
    <2>1. Current \in Nat /\ m \in Requests /\ m.method \in Methods
        BY <1>4, CurrentIsSent, SentIsRequest
           DEF InitComplete, InitOk, HeadReadable
    <2>2. ctx' \in Contexts
        <3>1. ctx' = InitCtx(ctx, Current, m, cap, Buffered)
            BY <1>4 DEF InitComplete
        <3> QED BY <2>1, <3>1, InitIsContext, BufferedIsInt DEF TypeOK
    <2>3. cap' \in Nat
        <3>1. ctx'.missing \in Nat
            BY <2>2 DEF Contexts
        <3>2. cap' = RoomForHeaders(cap, Buffered, ctx'.missing)
            BY <1>4 DEF InitComplete
        <3>3. cap \in Nat /\ Buffered \in Int
            BY BufferedIsInt DEF TypeOK
        <3>4. CASE ctx'.missing > 0
            BY <3>1, <3>2, <3>3, <3>4, ReserveMakesRoom DEF RoomForHeaders
        <3> QED BY <3>1, <3>2, <3>3, <3>4 DEF RoomForHeaders
    <2> QED BY <1>4, <2>2, <2>3 DEF InitComplete, TypeOK, clientVars, Locations
<1>5. CASE ParseOk
    <2> DEFINE m == Request(ctx.msg)
    <2>1. m \in Requests /\ m.method \in Methods
        BY <1>5, SentIsRequest DEF ParseOk, RequestInv, Decoded
    <2>2. ctx' \in Contexts
        <3>1. ctx' = ParseEntities(ctx, m, cap)
            BY <1>5 DEF ParseOk
        <3> QED BY <2>1, <3>1, ParseEntitiesIsContext DEF TypeOK
    <2> QED BY <1>5, <2>2 DEF ParseOk, TypeOK, clientVars, bufVars, Locations
<1> QED BY <1>1, <1>2, <1>3, <1>4, <1>5

(* A call of the service is recorded as one.                               *)
LEMMA CalledTypeOK ==
    ASSUME TypeOK, NEW r \in Replies, Called(r) PROVE calls' \in Seq(Calls)
<1>1. [msg |-> ctx.msg, httpReq |-> ctx.httpReq, httpRes |-> ctx.httpRes,
       reply |-> r] \in Calls
    BY RepliesAssumption DEF TypeOK, Contexts, Calls
<1> QED BY <1>1 DEF Called, TypeOK

(* The service keeps the types.                                            *)
LEMMA ServiceTypeOK == ASSUME TypeOK, Service PROVE TypeOK'
<1>1. CASE ServiceFails
    <2>1. calls' \in Seq(Calls)
        BY <1>1, CalledTypeOK DEF ServiceFails
    <2>2. ctx' \in Contexts /\ httpBuf' \in Seq(Pieces)
        BY <1>1 DEF ServiceFails, TypeOK
    <2>3. 500 \in Statuses
        BY DEF Statuses
    <2> QED BY <1>1, <2>1, <2>2, <2>3, SendStatusTypeOK DEF ServiceFails
<1>2. CASE ServiceReturns
    <2> PICK r \in Replies : Called(r) /\ ctx' = SetOutput(ctx, r)
        BY <1>2 DEF ServiceReturns
    <2>1. calls' \in Seq(Calls)
        BY CalledTypeOK
    <2>2. ctx' \in Contexts
        BY RepliesAssumption, SetOutputIsContext DEF TypeOK
    <2> QED BY <1>2, <2>1, <2>2
            DEF ServiceReturns, TypeOK, clientVars, bufVars, Locations
<1>3. CASE ServicePanics
    <2>1. calls' \in Seq(Calls)
        BY <1>3, CalledTypeOK DEF ServicePanics
    <2> QED BY <1>3, <2>1
            DEF ServicePanics, TypeOK, clientVars, bufVars, Locations
<1> QED BY <1>1, <1>2, <1>3 DEF Service

(* The answers made of what the service returned.                          *)
LEMMA ReplyWbuf ==
    ASSUME TypeOK, NEW c \in Contexts, NEW status \in Statuses,
           NEW enc \in Option(Encapsulated), Reply(c, status, enc)
    PROVE  /\ wbuf' = <<IcapHead(c.msg, status, c.icapHdrs, enc)>>
           /\ wbuf' \in Seq(Heads)
<1>1. c.msg \in Nat /\ c.icapHdrs \in SUBSET IcapNames
    BY DEF Contexts
<1>2. IcapHead(c.msg, status, c.icapHdrs, enc) \in Heads
    BY <1>1, IcapHeadIsHead
<1> QED BY <1>2 DEF Reply, Cleared

(* Writing an answer head into wbuf keeps the types of the writer.         *)
LEMMA ReplyTypeOK ==
    ASSUME TypeOK, NEW c \in Contexts, NEW status \in Statuses,
           NEW enc \in Option(Encapsulated), Reply(c, status, enc),
           httpBuf' \in Seq(Pieces)
    PROVE  TypeOK'
BY ReplyWbuf DEF Reply, TypeOK, clientVars, bufVars, Locations

(* Building an answer keeps the types.                                     *)
LEMMA AnswerTypeOK ==
    ASSUME TypeOK,
           \/ ProcessOptions \/ NoDecision \/ Send204
           \/ AppendHeaders \/ NoHttpStatus \/ CustomResponse
    PROVE  TypeOK'
<1> USE DEF Statuses
<1>1. /\ ctx \in Contexts /\ httpBuf \in Seq(Pieces)
      /\ calls \in Seq(Calls) /\ {} \in Option(Encapsulated)
    BY DEF TypeOK, Option
<1>2. EnsureResponseHeaders(ctx) \in Contexts
    BY <1>1, EnsuredIsContext
<1>3. CASE ProcessOptions
    <2> DEFINE o == OrElse(ctx.icapStatus, {200})
    <2>1. o \in Option(Statuses) /\ o # {}
        <3>1. ctx.icapStatus \in Option(Statuses)
            BY <1>1 DEF Contexts
        <3>2. {200} \in Option(Statuses)
            BY DEF Option
        <3> QED BY <3>1, <3>2, ZenonT(60) DEF OrElse
    <2>2. Value(o) \in Statuses
        BY <2>1, ValueInOption
    <2>3. Reply(EnsureOptionsHeaders(ctx), Value(o), {}) /\ httpBuf' = httpBuf
        BY <1>3 DEF ProcessOptions
    <2> HIDE DEF o
    <2> QED BY <1>1, <2>2, <2>3, EnsuredIsContext, ReplyTypeOK, ZenonT(60)
<1>4. CASE Send204
    <2>1. Reply(Ensure204Headers(ctx), 204, {}) /\ httpBuf' = httpBuf
        BY <1>4 DEF Send204
    <2> QED BY <1>1, <2>1, EnsuredIsContext, ReplyTypeOK, SMTT(60)
<1>5. CASE NoDecision
    <2>1. SendStatus(500) /\ UNCHANGED <<ctx, httpBuf, calls>>
        BY <1>5 DEF NoDecision
    <2>2. ctx' \in Contexts /\ httpBuf' \in Seq(Pieces) /\ calls' \in Seq(Calls)
        BY <1>1, <2>1
    <2> QED BY <2>1, <2>2, SendStatusTypeOK
<1>6. CASE NoHttpStatus
    <2>1. /\ SendStatus(500) /\ UNCHANGED calls
          /\ ctx' = EnsureResponseHeaders(ctx) /\ httpBuf' = <<>>
        BY <1>6 DEF NoHttpStatus, Cleared
    <2>2. ctx' \in Contexts /\ httpBuf' \in Seq(Pieces) /\ calls' \in Seq(Calls)
        BY <1>1, <1>2, <2>1
    <2> QED BY <2>1, <2>2, SendStatusTypeOK
<1>7. CASE AppendHeaders
    <2> DEFINE c     == EnsureResponseHeaders(ctx)
               isReq == c.method = "REQMOD"
               head  == Cleared(httpBuf) \o HeadBytes(OriginalHead(c), c)
               body  == IF c.nullBody THEN "null-body"
                        ELSE IF isReq THEN "req-body" ELSE "res-body"
               enc   == [hdr |-> IF isReq THEN "req-hdr" ELSE "res-hdr",
                         body |-> body, off |-> BodyOffset(c, head)]
               status == IF c.nullBody THEN 200 ELSE 206
    <2>1. httpBuf' = WithChunk(c, head) /\ Reply(c, status, {enc})
        BY <1>7, Zenon DEF AppendHeaders
    <2>2. head \in Seq(Pieces) /\ Len(head) \in Nat
        <3>1. head = <<>> \o HeadBytes(OriginalHead(c), c)
            BY DEF Cleared
        <3>2. HeadBytes(OriginalHead(c), c) \in Seq(Pieces)
            BY <1>2, OriginalHeadIsPieces, HeadBytesArePieces
        <3> HIDE DEF head, c
        <3> QED BY <3>1, <3>2
    <2>3. httpBuf' \in Seq(Pieces)
        BY <1>2, <2>1, <2>2, WithChunkIsPieces
    <2>4. enc \in Encapsulated
        BY <2>2 DEF Encapsulated, BodyOffset, HeaderKinds, BodyKinds
    <2>5. {enc} \in Option(Encapsulated) /\ status \in Statuses
        BY <2>4 DEF Option
    <2> HIDE DEF c, enc, status
    <2> QED BY <1>2, <2>1, <2>3, <2>5, ReplyTypeOK, ZenonT(60) DEF c
<1>8. CASE CustomResponse
    <2> DEFINE c    == EnsureResponseHeaders(ctx)
               line == <<[what |-> "status", msg |-> c.httpReq]>>
               head == Cleared(httpBuf) \o HeadBytes(line, c)
               enc  == [hdr |-> "res-hdr", body |-> "null-body",
                        off |-> Len(head)]
    <2>1. httpBuf' = head /\ Reply(c, 200, {enc})
        BY <1>8, Zenon DEF CustomResponse
    <2>2. head \in Seq(Pieces) /\ Len(head) \in Nat
        <3>1. line \in Seq(Pieces)
            BY <1>2 DEF Pieces, Contexts
        <3>2. HeadBytes(line, c) \in Seq(Pieces)
            BY <1>2, <3>1, HeadBytesArePieces
        <3>3. head = <<>> \o HeadBytes(line, c)
            BY DEF Cleared
        <3> HIDE DEF head, line, c
        <3> QED BY <3>2, <3>3
    <2>3. enc \in Encapsulated
        BY <2>2 DEF Encapsulated, HeaderKinds, BodyKinds
    <2>4. {enc} \in Option(Encapsulated) /\ httpBuf' \in Seq(Pieces)
        BY <2>1, <2>2, <2>3 DEF Option
    <2> HIDE DEF c, enc, head
    <2> QED BY <1>2, <2>1, <2>4, ReplyTypeOK DEF c
<1> QED BY <1>3, <1>4, <1>5, <1>6, <1>7, <1>8

(* The writes keep the types.                                              *)
LEMMA WriteOutTypeOK == ASSUME TypeOK, WriteOut PROVE TypeOK'
<1> USE DEF TypeOK, clientVars, bufVars, Locations, Write
<1>1. CASE WriteStatus
    <2>1. [heads |-> wbuf, pieces |-> <<>>] \in Writes
        BY DEF Writes
    <2> QED BY <1>1, <2>1 DEF WriteStatus, AfterStatus
<1>2. CASE WriteHead
    <2>1. [heads |-> wbuf, pieces |-> <<>>] \in Writes
        BY DEF Writes
    <2> QED BY <1>2, <2>1 DEF WriteHead
<1>3. CASE WriteHttp
    <2>1. [heads |-> <<>>, pieces |-> httpBuf] \in Writes
        BY DEF Writes
    <2> QED BY <1>3, <2>1 DEF WriteHttp
<1>4. CASE WriteFail
    BY <1>4, GotoTypeOK DEF WriteFail, Abandon
<1> QED BY <1>1, <1>2, <1>3, <1>4 DEF WriteOut

(* Every step keeps the types.                                             *)
LEMMA TypeStep ==
    ASSUME TypeOK, RequestInv, [Next]_vars PROVE TypeOK'
<1>1. CASE Client
    BY <1>1, ClientTypeOK
<1>2. CASE Recv
    BY <1>2, RecvTypeOK
<1>3. CASE Service
    BY <1>3, ServiceTypeOK
<1>4. CASE WriteOut
    BY <1>4, WriteOutTypeOK
<1>5. CASE Yield
    <2>1. Clear(ctx) \in Contexts
        BY ClearIsContext DEF TypeOK
    <2> QED BY <1>5, <2>1 DEF Yield, ClearRbuf, TypeOK, clientVars, Locations
<1>6. CASE Shutdown
    BY <1>6, GotoTypeOK DEF Shutdown, Locations
<1>7. CASE UNCHANGED vars
    BY <1>7 DEF vars, TypeOK
<1>8. CASE Terminated
    BY <1>7, <1>8 DEF Terminated
<1> QED BY <1>1, <1>2, <1>3, <1>4, <1>5, <1>6, <1>7, <1>8,
           ReceiveTypeOK, AnswerTypeOK DEF Next, Local

-----------------------------------------------------------------------------
(* The request in the context and the room in the buffer.                  *)

(* What ReqCtx::init leaves: the request's head, and as many bytes missing *)
(* as its declared body offset lies beyond what has been read.             *)
LEMMA InitFields ==
    ASSUME NEW c \in Contexts, NEW k \in Nat, NEW m \in Requests,
           m.method \in Methods, NEW ptr \in Nat, NEW n \in Int
    PROVE  LET d == InitCtx(c, k, m, ptr, n)
           IN  /\ d \in Contexts
               /\ d.msg = k /\ d.method = m.method /\ d.parsed = m.head
               /\ m.ee # <<>> => m.head + d.bodyOff <= n + d.missing
<1> DEFINE d == InitCtx(c, k, m, ptr, n)
           e == ParseIcapHeaders(DecodeIcapRequest(c, k, m, ptr), m)
<1>1. /\ e.msg = k /\ e.method = m.method /\ e.parsed = m.head /\ e.ee = m.ee
      /\ e \in Contexts
    <2>1. /\ DecodeIcapRequest(c, k, m, ptr) \in Contexts
          /\ e \in Contexts
        BY DecodedIsContext, ParsedIsContext
    <2> QED BY <2>1, ZenonT(60) DEF ParseIcapHeaders, DecodeIcapRequest, Contexts
<1>2. d \in Contexts /\ d = AllocBufferForHeaders(e, n)
    BY InitIsContext DEF InitCtx
<1> HIDE DEF d
<1>3. e.parsed \in Nat /\ m.head \in Nat
    BY <1>1 DEF Contexts
<1> HIDE DEF e
<1>4. /\ d.msg = e.msg /\ d.method = e.method /\ d.parsed = e.parsed
    BY <1>1, <1>2 DEF AllocBufferForHeaders, Contexts
<1>5. ASSUME m.ee # <<>> PROVE m.head + d.bodyOff <= n + d.missing
    <2>1. m.ee \in Seq(Entities)
        BY DEF Requests
    <2>2. LastEntity(m.ee) \in Entities
        BY <1>5, <2>1, LastIsEntity
    <2>3. LastEntity(m.ee).off \in Nat
        BY <2>2 DEF Entities
    <2> DEFINE off == LastEntity(m.ee).off
               got == n - m.head
    <2>4. /\ d.bodyOff = off
          /\ d.missing = IF off > got THEN off - got ELSE 0
        BY <1>1, <1>2, <1>5 DEF AllocBufferForHeaders, Contexts
    <2> HIDE DEF off
    <2> QED BY <1>3, <2>3, <2>4 DEF off
<1> QED BY <1>1, <1>2, <1>4, <1>5 DEF d

(* An accepted request other than OPTIONS lists entities.                  *)
LEMMA InitHasEntities ==
    ASSUME NEW c, NEW k, NEW m, NEW ptr, NEW n, InitOk(c, k, m, ptr, n),
           m.method # "OPTIONS"
    PROVE  m.ee # <<>>
BY DEF InitOk, HeadReadable, IcapHeadersOk

(* What InitComplete does to the variables the invariants speak of.        *)
LEMMA InitCompleteEffect ==
    ASSUME TypeOK, BufferInv, InitComplete
    PROVE  /\ ctx'.msg = Current /\ Current \in DOMAIN sent
           /\ sent[Current].start = base
           /\ Request(Current).method \in Methods
           /\ ctx'.method = Request(Current).method
           /\ ctx'.parsed = Request(Current).head /\ ctx'.parsed <= Buffered
           /\ ctx' \in Contexts /\ cap' \in Nat
           /\ Buffered + ctx'.missing <= cap' /\ cap <= cap'
           /\ cap' <= AllocMax
           /\ IsAnyReq(ctx') =>
                ctx'.parsed + ctx'.bodyOff <= Buffered + ctx'.missing
           /\ pc' = "missing" /\ pos' = pos /\ base' = base
           /\ UNCHANGED <<clientVars, wbuf, out>>
<1> DEFINE m == Request(Current)
<1>1. /\ Current # 0 /\ m.head <= Buffered
      /\ InitOk(ctx, Current, m, cap, Buffered)
      /\ ctx' = InitCtx(ctx, Current, m, cap, Buffered)
      /\ cap' = RoomForHeaders(cap, Buffered, ctx'.missing)
      /\ pc' = "missing" /\ pos' = pos /\ base' = base
      /\ UNCHANGED <<clientVars, wbuf, out>>
    BY DEF InitComplete
<1>2. /\ Current \in Nat /\ Current \in DOMAIN sent
      /\ sent[Current].start = base
    BY <1>1, CurrentIsSent
<1>3. m \in Requests /\ m.method \in Methods
    BY <1>1, <1>2, SentIsRequest DEF InitOk, HeadReadable
<1>4. ctx \in Contexts /\ cap \in Nat /\ Buffered \in Int
    BY BufferedIsInt DEF TypeOK
<1> HIDE DEF m
<1>5. /\ ctx' \in Contexts
      /\ ctx'.msg = Current /\ ctx'.method = m.method /\ ctx'.parsed = m.head
      /\ m.ee # <<>> => m.head + ctx'.bodyOff <= Buffered + ctx'.missing
    <2>1. ctx' = InitCtx(ctx, Current, m, cap, Buffered)
        BY <1>1
    <2> DEFINE d == InitCtx(ctx, Current, m, cap, Buffered)
    <2>2. /\ d \in Contexts
          /\ d.msg = Current /\ d.method = m.method /\ d.parsed = m.head
          /\ m.ee # <<>> => m.head + d.bodyOff <= Buffered + d.missing
        BY <1>2, <1>3, <1>4, InitFields
    <2> QED BY <2>1, <2>2
<1>6. m.head \in Nat \ {0} /\ ctx'.missing \in Nat
    BY <1>3, <1>5 DEF Requests, Contexts
<1>7. IsAnyReq(ctx') => m.ee # <<>>
    BY <1>1, <1>5, InitHasEntities DEF IsAnyReq
<1>8. Buffered <= cap
    BY DEF BufferInv
<1>9. cap' \in Nat /\ cap <= cap' /\ Buffered + ctx'.missing <= cap'
    BY <1>1, <1>4, <1>6, <1>8, RoomForHeadersMakesRoom
<1>10. cap' <= AllocMax
    <2>1. HeadReadable(m) /\ ~ Overdrawn
        BY DEF InitComplete, InitOk, m
    <2>2. HeadRoom = cap'
        BY <1>1, <2>1 DEF HeadRoom, m
    <2> QED BY <1>9, <2>1, <2>2, BufferAssumption DEF Overdrawn
<1> QED BY <1>1, <1>2, <1>3, <1>5, <1>6, <1>7, <1>9, <1>10 DEF m

(* Requests that have been sent stay where they are in the stream.         *)
LEMMA SentGrows ==
    ASSUME TypeOK, ClientSend
    PROVE  /\ limit <= limit'
           /\ Len(sent') = Len(sent) + 1
           /\ DOMAIN sent' = 1 .. Len(sent) + 1
           /\ DOMAIN sent = 1 .. Len(sent)
           /\ \A k \in DOMAIN sent : k \in DOMAIN sent' /\ sent'[k] = sent[k]
           /\ sent'[Len(sent) + 1].start = limit
           /\ limit < limit'
<1> PICK m \in Messages :
        /\ sent' = Append(sent, [req |-> m, start |-> limit])
        /\ limit' = limit + Size(m)
    BY DEF ClientSend
<1>1. sent \in Seq([req : Messages, start : Nat]) /\ limit \in Nat
    BY DEF TypeOK
<1>2. Size(m) \in Nat \ {0}
    BY MessageIsRequest, SMTT(40) DEF Requests, Size, HttpLen, BodyLen
<1>3. limit < limit'
    BY <1>1, <1>2
<1> DEFINE e == [req |-> m, start |-> limit]
<1>4. e \in [req : Messages, start : Nat]
    BY <1>1
<1>5. sent' = Append(sent, e)
    OBVIOUS
<1> HIDE DEF e
<1>6. /\ Len(sent') = Len(sent) + 1
      /\ \A k \in 1 .. Len(sent) : sent'[k] = sent[k]
      /\ sent'[Len(sent) + 1] = e
      /\ Len(sent) \in Nat
      /\ sent' \in Seq([req : Messages, start : Nat])
    BY <1>1, <1>4, <1>5, AppendProperties
<1>7. DOMAIN sent = 1 .. Len(sent) /\ DOMAIN sent' = 1 .. Len(sent')
    BY <1>1, <1>6, LenProperties
<1> QED BY <1>1, <1>3, <1>6, <1>7 DEF e

(* A read: the buffer grows by n and stays within its capacity.            *)
LEMMA ReadEffect ==
    ASSUME TypeOK, BufferInv, NEW c \in Nat, c >= cap,
           NEW n \in 1 .. limit - pos, Read(c, n), base' = base, limit' = limit
    PROVE  /\ n \in Nat
           /\ base' <= pos' /\ pos' <= limit' /\ Buffered' <= cap'
           /\ Buffered' = Buffered + n /\ cap <= cap' /\ cap' <= AllocMax
BY DEF TypeOK, BufferInv, Read, Buffered

(* Every step keeps RequestInv.                                            *)
LEMMA RequestStep ==
    ASSUME TypeOK, RequestInv, BufferInv, [Next]_vars PROVE RequestInv'
<1> USE DEF RequestInv, Decoded
<1>1. ctx \in Contexts /\ ctx.parsed \in Nat
    BY DEF TypeOK, Contexts
<1>2. ASSUME UNCHANGED <<clientVars, bufVars>>, ctx'.msg = ctx.msg,
             ctx'.parsed = ctx.parsed, pc' \in Decoded => pc \in Decoded
      PROVE  RequestInv'
    BY <1>2 DEF clientVars, bufVars, Request, Buffered
<1>3. ASSUME NEW l, Goto(l), l \in Decoded => pc \in Decoded
      PROVE  RequestInv'
    BY <1>2, <1>3 DEF Goto
<1>4. CASE ClientSend
    BY <1>4, SentGrows DEF ClientSend, bufVars, Request, Buffered
<1>5. CASE ClientClose \/ ClientGone \/ ClientRead
    BY <1>5 DEF ClientClose, ClientGone, ClientRead, bufVars, Request, Buffered
<1>6. CASE Recv
    <2>1. CASE RecvEof \/ RecvError \/ RecvTimeout
        BY <1>3, <2>1 DEF RecvEof, RecvError, RecvTimeout, Abandon
    <2>2. CASE RecvHead
        BY <2>2 DEF RecvHead
    <2>3. RecvRoom(cap, Buffered) \in Nat /\ RecvRoom(cap, Buffered) >= cap
          /\ ChunkMut(cap, Buffered) \in Nat /\ ChunkMut(cap, Buffered) >= cap
        BY BufferedIsInt, RecvRoomGrows, ChunkMutGrows DEF TypeOK
    <2>4. CASE RecvMissing
        <3> PICK n \in 1 .. limit - pos : Read(ChunkMut(cap, Buffered), n)
            BY <2>4 DEF RecvMissing
        <3>1. n \in Nat /\ Buffered' = Buffered + n
            BY <2>3, <2>4, ReadEffect DEF RecvMissing, clientVars
        <3>2. ctx'.msg = ctx.msg /\ ctx'.parsed = ctx.parsed
            BY <1>1, <2>4 DEF RecvMissing, Contexts
        <3> QED BY <1>1, <2>4, <3>1, <3>2, BufferedIsInt
                DEF RecvMissing, clientVars, Request
    <2>5. CASE RecvChunk
        <3> PICK n \in 1 .. limit - pos : Read(RecvRoom(cap, Buffered), n)
            BY <2>5 DEF RecvChunk
        <3>1. n \in Nat /\ Buffered' = Buffered + n
            BY <2>3, <2>5, ReadEffect DEF RecvChunk, clientVars
        <3> QED BY <1>1, <2>5, <3>1, BufferedIsInt
                DEF RecvChunk, clientVars, Request
    <2> QED BY <1>6, <2>1, <2>2, <2>4, <2>5 DEF Recv
<1>7. CASE InitComplete
    BY <1>7, InitCompleteEffect DEF clientVars, Request, Buffered
<1>8. CASE \/ InitPartial \/ HeadersReceived \/ ChunkMore \/ ChunkOk
           \/ Shutdown \/ WriteFail \/ AllocFails
    BY <1>3, <1>8 DEF InitPartial, HeadersReceived, ChunkMore, ChunkOk,
                      Shutdown, WriteFail, AllocFails, Abandon
<1>9. CASE \/ InitBad \/ ChunkBad \/ ParseBad \/ NoDecision \/ NoHttpStatus
           \/ ServiceFails
    <2>1. pc' = "status"
        BY <1>9 DEF InitBad, ChunkBad, ParseBad, NoDecision, NoHttpStatus,
                    ServiceFails, Refuse, SendStatus
    <2> QED BY <2>1
<1>10. CASE ParseOk
    <2>1. /\ ctx'.msg = ctx.msg
          /\ ctx'.parsed = ctx.parsed \/ ctx'.parsed = Request(ctx.msg).head
        BY <1>1, <1>10 DEF ParseOk, ParseEntities, DecodeIcapRequest, Contexts
    <2>2. ctx'.parsed = ctx.parsed
        BY <1>10, <2>1 DEF ParseOk
    <2> QED BY <1>2, <1>10, <2>1, <2>2 DEF ParseOk
<1>11. CASE ServiceReturns
    <2> PICK r \in Replies : ctx' = SetOutput(ctx, r)
        BY <1>11 DEF ServiceReturns
    <2>1. ctx'.msg = ctx.msg /\ ctx'.parsed = ctx.parsed
        BY <1>1 DEF SetOutput, Contexts
    <2> QED BY <1>2, <1>11, <2>1 DEF ServiceReturns
<1>12. CASE ProcessOptions \/ Send204 \/ AppendHeaders \/ CustomResponse
    <2>1. /\ ctx'.msg = ctx.msg /\ ctx'.parsed = ctx.parsed
          /\ pc = "answer" /\ UNCHANGED <<clientVars, bufVars>>
        BY <1>1, <1>12, SMTT(40)
           DEF ProcessOptions, Send204, AppendHeaders, CustomResponse, Reply,
               Answering, EnsureOptionsHeaders, Ensure204Headers,
               EnsureResponseHeaders, Contexts
    <2> QED BY <1>2, <2>1
<1>13. CASE WriteStatus
    BY <1>13 DEF WriteStatus, AfterStatus
<1>14. CASE WriteHead \/ WriteHttp
    BY <1>2, <1>14 DEF WriteHead, WriteHttp
<1>15. CASE Yield
    BY <1>15 DEF Yield
<1>16. CASE Terminated \/ UNCHANGED vars
    BY <1>2, <1>16 DEF Terminated, vars, clientVars, bufVars
<1>17. CASE ServicePanics
    BY <1>17 DEF ServicePanics
<1> QED BY <1>4, <1>5, <1>6, <1>7, <1>8, <1>9, <1>10, <1>11, <1>12, <1>13,
           <1>14, <1>15, <1>16, <1>17
        DEF Next, Client, Local, Service, WriteOut

(* Every step keeps BufferInv.                                             *)
LEMMA BufferStep ==
    ASSUME TypeOK, BufferInv, [Next]_vars PROVE BufferInv'
<1> USE DEF BufferInv
<1>1. /\ ctx \in Contexts /\ ctx.missing \in Nat /\ ctx.parsed \in Nat
      /\ ctx.bodyOff \in Nat /\ Buffered \in Int
      /\ pos \in Nat /\ base \in Nat /\ cap \in Nat /\ limit \in Nat
    BY BufferedIsInt DEF TypeOK, Contexts
<1>2. ASSUME UNCHANGED <<limit, bufVars>>,
             \/ pc' \notin {"missing", "chunk", "chunkrecv"}
             \/ UNCHANGED <<pc, ctx>>
      PROVE  BufferInv'
    BY <1>2 DEF bufVars, Buffered, IsAnyReq
<1>3. ASSUME NEW l, Goto(l), l \notin {"missing", "chunk", "chunkrecv"}
      PROVE  BufferInv'
    BY <1>2, <1>3 DEF Goto, clientVars
<1>4. CASE ClientSend
    BY <1>1, <1>4, SentGrows DEF ClientSend, bufVars, Buffered, IsAnyReq
<1>5. CASE ClientClose \/ ClientGone
    BY <1>1, <1>5 DEF ClientClose, ClientGone, bufVars, Buffered, IsAnyReq
<1>6. CASE Recv
    <2>1. CASE RecvEof \/ RecvError \/ RecvTimeout
        BY <1>3, <2>1 DEF RecvEof, RecvError, RecvTimeout, Abandon
    <2>2. RecvRoom(cap, Buffered) \in Nat /\ RecvRoom(cap, Buffered) >= cap
          /\ ChunkMut(cap, Buffered) \in Nat /\ ChunkMut(cap, Buffered) >= cap
        BY <1>1, RecvRoomGrows, ChunkMutGrows
    <2>3. CASE RecvHead
        <3> PICK n \in 1 .. limit - pos : Read(RecvRoom(cap, Buffered), n)
            BY <2>3 DEF RecvHead
        <3>1. /\ base' <= pos' /\ pos' <= limit' /\ Buffered' <= cap'
              /\ cap' <= AllocMax
            BY <2>2, <2>3, ReadEffect DEF RecvHead, clientVars
        <3> QED BY <2>3, <3>1 DEF RecvHead
    <2>4. CASE RecvMissing
        <3> PICK n \in 1 .. limit - pos :
                /\ Read(ChunkMut(cap, Buffered), n)
                /\ ctx' = [ctx EXCEPT !.missing = StillMissing(@, n)]
            BY <2>4 DEF RecvMissing
        <3>1. /\ base' <= pos' /\ pos' <= limit' /\ Buffered' <= cap'
              /\ cap' <= AllocMax
              /\ n \in Nat /\ Buffered' = Buffered + n /\ cap <= cap'
            BY <2>2, <2>4, ReadEffect DEF RecvMissing, clientVars
        <3>2. /\ ctx'.missing = StillMissing(ctx.missing, n)
              /\ ctx'.parsed = ctx.parsed /\ ctx'.bodyOff = ctx.bodyOff
              /\ ctx'.method = ctx.method
            BY <1>1 DEF Contexts
        <3>3. pc = "missing" /\ pc' = pc
            BY <2>4 DEF RecvMissing
        <3>4. /\ ctx'.missing \in Nat /\ ctx.missing <= n + ctx'.missing
              /\ ctx'.missing = 0 \/ ctx'.missing + n = ctx.missing
            BY <1>1, <3>1, <3>2, StillMissingIsNat
        <3>5. cap' \in Nat
            BY <2>2 DEF Read
        <3>6. Buffered' + ctx'.missing <= cap'
            BY <1>1, <3>1, <3>3, <3>4, <3>5
        <3>7. IsAnyReq(ctx') =>
                 ctx'.parsed + ctx'.bodyOff <= Buffered' + ctx'.missing
            BY <1>1, <3>1, <3>2, <3>3, <3>4 DEF IsAnyReq
        <3> QED BY <3>1, <3>3, <3>6, <3>7 DEF IsAnyReq
    <2>5. CASE RecvChunk
        <3> PICK n \in 1 .. limit - pos : Read(RecvRoom(cap, Buffered), n)
            BY <2>5 DEF RecvChunk
        <3>1. /\ base' <= pos' /\ pos' <= limit' /\ Buffered' <= cap'
              /\ cap' <= AllocMax
              /\ n \in Nat /\ Buffered' = Buffered + n
            BY <2>2, <2>5, ReadEffect DEF RecvChunk, clientVars
        <3> QED BY <1>1, <2>5, <3>1 DEF RecvChunk
    <2> QED BY <1>6, <2>1, <2>3, <2>4, <2>5 DEF Recv
<1>7. CASE InitComplete
    <2>1. /\ pc' = "missing" /\ pos' = pos /\ base' = base /\ limit' = limit
          /\ Buffered + ctx'.missing <= cap' /\ cap <= cap' /\ cap' \in Nat
          /\ cap' <= AllocMax
          /\ IsAnyReq(ctx') =>
                ctx'.parsed + ctx'.bodyOff <= Buffered + ctx'.missing
        BY <1>7, InitCompleteEffect DEF clientVars
    <2> QED BY <1>1, <2>1 DEF Buffered, IsAnyReq
<1>8. CASE HeadersReceived
    <2>1. pc' = "chunk" => IsAnyReq(ctx)
        BY <1>8 DEF HeadersReceived, Goto, NeedsChunk
    <2>2. pc' \in {"chunk", "parse"} /\ ctx.missing = 0 /\ pc = "missing"
          /\ UNCHANGED <<limit, bufVars, ctx>>
        BY <1>8 DEF HeadersReceived, Goto, NeedsChunk, clientVars
    <2> QED BY <1>1, <2>1, <2>2 DEF bufVars, Buffered
<1>9. CASE ChunkMore
    BY <1>9 DEF ChunkMore, Goto, clientVars, bufVars, Buffered
<1>10. CASE InitPartial \/ ChunkOk \/ Shutdown \/ WriteFail \/ AllocFails
    BY <1>3, <1>10 DEF InitPartial, ChunkOk, Shutdown, WriteFail, AllocFails,
                       Abandon
<1>11. CASE \/ InitBad \/ ChunkBad \/ ParseBad \/ NoDecision \/ NoHttpStatus
            \/ ServiceFails
    <2>1. pc' = "status" /\ UNCHANGED <<limit, bufVars>>
        BY <1>11 DEF InitBad, ChunkBad, ParseBad, NoDecision, NoHttpStatus,
                     ServiceFails, Refuse, SendStatus, clientVars
    <2> QED BY <1>2, <2>1
<1>12. CASE \/ ParseOk \/ ServiceReturns \/ ProcessOptions \/ Send204
            \/ AppendHeaders \/ CustomResponse
    <2>1. pc' \in {"svc", "answer", "write"} /\ UNCHANGED <<limit, bufVars>>
        BY <1>12 DEF ParseOk, ServiceReturns, ProcessOptions, Send204,
                     AppendHeaders, CustomResponse, Reply, clientVars
    <2> QED BY <1>2, <2>1
<1>13. CASE WriteStatus \/ WriteHead \/ WriteHttp
    <2>1. pc' \in {"shutdown", "http", "yield"} /\ UNCHANGED <<limit, bufVars>>
        BY <1>13 DEF WriteStatus, WriteHead, WriteHttp, AfterStatus, clientVars
    <2> QED BY <1>2, <2>1
<1>14. CASE Yield
    BY <1>1, <1>14 DEF Yield, ClearRbuf, clientVars, Buffered
<1>15. CASE ClientRead \/ Terminated \/ UNCHANGED vars
    BY <1>2, <1>15 DEF ClientRead, Terminated, vars, bufVars
<1>16. CASE ServicePanics
    BY <1>2, <1>16 DEF ServicePanics, clientVars
<1> QED BY <1>4, <1>5, <1>6, <1>7, <1>8, <1>9, <1>10, <1>11, <1>12, <1>13,
           <1>14, <1>15, <1>16
        DEF Next, Client, Local, Service, WriteOut

(* The parts of the invariant about the current request hold at first.     *)
LEMMA InitCore == Init => TypeOK /\ RequestInv /\ BufferInv
<1>1. Init => RequestInv /\ BufferInv
    BY BufferAssumption DEF Init, RequestInv, BufferInv, Decoded, Buffered
<1> QED BY <1>1, InitTypeOK

(* Every variable keeps its type in every behaviour: no read that brings   *)
(* more than what is missing makes header_missing_bytes wrap around.       *)
THEOREM TypeCorrect == Spec => []TypeOK
<1>1. TypeOK /\ RequestInv /\ BufferInv /\ [Next]_vars
         => (TypeOK /\ RequestInv /\ BufferInv)'
    BY TypeStep, RequestStep, BufferStep
<1> QED BY InitCore, <1>1, PTL DEF Spec

(* The buffer arithmetic of the receive paths is in bounds, whatever       *)
(* offsets requests declare, wherever reads cut the stream and whatever    *)
(* the capacities are: the debug assertions of connection.rs:348 and :371  *)
(* and the slice of :378 hold.                                             *)
THEOREM BufferIsSafe == Spec => []BufferSafe
<1>1. TypeOK /\ RequestInv /\ BufferInv /\ [Next]_vars
         => (TypeOK /\ RequestInv /\ BufferInv)'
    BY TypeStep, RequestStep, BufferStep
<1>2. TypeOK /\ BufferInv => BufferSafe
    BY BufferAssumption, SMTT(40) DEF TypeOK, BufferInv, BufferSafe
<1> QED BY InitCore, <1>1, <1>2, PTL DEF Spec

-----------------------------------------------------------------------------
(* The order of the answers.                                               *)

(* The steps that put something into out.                                  *)
Writing == WriteStatus \/ WriteHead \/ WriteHttp

(* What a step that is none of these leaves alone, and where it can go.    *)
LEMMA Frame ==
    ASSUME [Next]_vars
    PROVE  /\ ~ Writing => out' = out
           /\ ~ ClientSend => sent' = sent
           /\ ~ Yield => base' = base
           /\ client' = "open" /\ ~ ClientSend
                 => client = "open" /\ limit' = limit
           /\ ~ Writing /\ ~ Yield /\ pc \in Ended \cup {"http", "yield"}
                 => pc' \in Ended \cup {"http", "yield"}
           /\ pc \in Ended => pc' \in Ended
<1> USE DEF Writing, Ended, Reading, Next, vars, clientVars, bufVars,
       Client, ClientSend, ClientClose, ClientGone, ClientRead,
       Recv, RecvHead, RecvMissing, RecvChunk, RecvEof, RecvError, RecvTimeout,
       Abandon, Goto, Local, InitPartial, InitBad, InitComplete,
       HeadersReceived, ChunkMore, ChunkBad, ChunkOk, ParseOk, ParseBad,
       Refuse, SendStatus, Service, ServiceFails, ServiceReturns, ServicePanics,
       Answering, Reply, AllocFails, ProcessOptions, NoDecision, Send204, AppendHeaders,
       NoHttpStatus, CustomResponse, WriteOut, WriteStatus, WriteHead,
       WriteHttp, WriteFail, Yield, Shutdown, Terminated
<1>1. ~ Writing => out' = out
    OBVIOUS
<1>2. ~ ClientSend => sent' = sent
    BY ZenonT(60)
<1>3. ~ Yield => base' = base
    OBVIOUS
<1>4. client' = "open" /\ ~ ClientSend => client = "open" /\ limit' = limit
    BY ZenonT(60)
<1>5. ~ Writing /\ ~ Yield /\ pc \in Ended \cup {"http", "yield"}
         => pc' \in Ended \cup {"http", "yield"}
    OBVIOUS
<1>6. pc \in Ended => pc' \in Ended
    OBVIOUS
<1> QED BY <1>1, <1>2, <1>3, <1>4, <1>5, <1>6

(* Every step keeps StreamInv.                                             *)
LEMMA StreamStep ==
    ASSUME TypeOK, StreamInv, [Next]_vars PROVE StreamInv'
<1>1. CASE ClientSend
    <2>1. client = "open" /\ client' = client
        BY <1>1 DEF ClientSend
    <2>2. \A i \in DOMAIN sent' :
             \/ i \in DOMAIN sent /\ sent'[i] = sent[i]
             \/ i = Len(sent) + 1 /\ sent'[i].start = limit
        BY <1>1, SentGrows
    <2>3. \A i \in DOMAIN sent : sent[i].start < limit
        BY <2>1 DEF StreamInv
    <2>4. \A i, j \in DOMAIN sent' : i < j => i \in DOMAIN sent
        BY <1>1, SentGrows
    <2>5. \A i, j \in DOMAIN sent' : i < j => sent'[i].start < sent'[j].start
        BY <2>2, <2>3, <2>4 DEF StreamInv
    <2>6. limit < limit' /\ limit \in Nat
        BY <1>1, SentGrows DEF TypeOK
    <2>7. ASSUME NEW i \in DOMAIN sent' PROVE sent'[i].start < limit'
        <3>1. CASE i \in DOMAIN sent /\ sent'[i] = sent[i]
            <4>1. sent[i].start \in Nat /\ sent[i].start < limit
                BY <2>3, <3>1, SentIsRequest
            <4>2. limit' \in Nat
                BY <1>1, ClientTypeOK DEF Client, TypeOK
            <4> QED BY <2>6, <3>1, <4>1, <4>2
        <3> QED BY <2>2, <2>6, <2>7, <3>1
    <2> QED BY <2>5, <2>7 DEF StreamInv
<1>2. CASE ~ ClientSend
    <2>1. sent' = sent
        BY <1>2, Frame
    <2>2. client' = "open" => client = "open" /\ limit' = limit
        BY <1>2, Frame
    <2> QED BY <2>1, <2>2 DEF StreamInv
<1> QED BY <1>1, <1>2

(* Every step keeps PendingInv.                                            *)
LEMMA PendingStep ==
    ASSUME TypeOK, PendingInv, [Next]_vars PROVE PendingInv'
<1> USE DEF PendingInv
<1>1. ASSUME pc' \notin {"write", "status"} PROVE PendingInv'
    BY <1>1
<1>2. CASE ClientSend
    <2>1. \A k \in DOMAIN sent : k \in DOMAIN sent' /\ sent'[k] = sent[k]
        BY <1>2, SentGrows
    <2>2. UNCHANGED <<pc, wbuf, ctx, base>>
        BY <1>2 DEF ClientSend, bufVars
    <2> QED BY <2>1, <2>2
<1>3. CASE ClientClose \/ ClientGone \/ ClientRead \/ Terminated \/ UNCHANGED vars
    BY <1>3 DEF ClientClose, ClientGone, ClientRead, Terminated, vars, bufVars
<1>4. ASSUME NEW l, Goto(l), l \notin {"write", "status"} PROVE PendingInv'
    BY <1>1, <1>4 DEF Goto
<1>5. CASE Recv
    <2>1. CASE RecvHead \/ RecvChunk
        BY <1>1, <2>1 DEF RecvHead, RecvChunk
    <2>2. CASE RecvMissing
        BY <1>1, <2>2 DEF RecvMissing
    <2>3. CASE RecvEof \/ RecvError \/ RecvTimeout
        BY <1>4, <2>3 DEF RecvEof, RecvError, RecvTimeout, Abandon
    <2> QED BY <1>5, <2>1, <2>2, <2>3 DEF Recv
<1>6. ASSUME NEW status \in Statuses, SendStatus(status) PROVE PendingInv'
    <2>1. wbuf' = <<StatusHead(Current, status)>> /\ pc' = "status"
        BY <1>6, SendStatusWbuf DEF SendStatus
    <2>2. sent' = sent /\ base' = base
        BY <1>6 DEF SendStatus, clientVars, bufVars
    <2>3. StatusHead(Current, status).msg = Current
        BY DEF StatusHead, IcapHead
    <2>4. \A j \in DOMAIN wbuf' : wbuf'[j] = StatusHead(Current, status)
        BY <2>1
    <2> QED BY <2>1, <2>2, <2>3, <2>4, CurrentIsSent
<1>7. CASE \/ InitBad \/ ChunkBad \/ ParseBad \/ NoDecision \/ NoHttpStatus
           \/ ServiceFails
    <2>1. SendStatus(400) \/ SendStatus(500)
        BY <1>7 DEF InitBad, ChunkBad, ParseBad, NoDecision, NoHttpStatus,
                    ServiceFails, Refuse
    <2>2. 400 \in Statuses /\ 500 \in Statuses
        BY DEF Statuses
    <2> QED BY <1>6, <2>1, <2>2
<1>8. CASE ProcessOptions \/ Send204 \/ AppendHeaders \/ CustomResponse
    <2>1. PICK c, status, enc : Reply(c, status, enc)
        BY <1>8, ZenonT(60)
           DEF ProcessOptions, Send204, AppendHeaders, CustomResponse
    <2>2. wbuf' = <<IcapHead(c.msg, status, c.icapHdrs, enc)>>
        BY <2>1 DEF Reply, Cleared
    <2>3. ctx' = c /\ pc' = "write"
        BY <2>1 DEF Reply
    <2>4. \A j \in DOMAIN wbuf' : wbuf'[j].msg = c.msg /\ ~ wbuf'[j].close
        BY <2>2 DEF IcapHead
    <2> QED BY <2>3, <2>4
<1>9. CASE \/ InitPartial \/ HeadersReceived \/ ChunkMore \/ ChunkOk
           \/ Shutdown \/ WriteFail \/ AllocFails
    BY <1>4, <1>9 DEF InitPartial, HeadersReceived, ChunkMore, ChunkOk,
                      Shutdown, WriteFail, AllocFails, Abandon
<1>10. CASE \/ InitComplete \/ ParseOk \/ ServiceReturns \/ Yield
            \/ WriteStatus \/ WriteHead \/ WriteHttp \/ ServicePanics
    BY <1>1, <1>10 DEF InitComplete, ParseOk, ServiceReturns, Yield,
                       ServicePanics, WriteStatus, WriteHead, WriteHttp, AfterStatus
<1> QED BY <1>2, <1>3, <1>5, <1>7, <1>8, <1>9, <1>10
        DEF Next, Client, Local, Service, WriteOut

(* What a write adds to the heads written so far.                          *)
LEMMA WrittenHeads ==
    ASSUME TypeOK, NEW w \in Writes, out' = Append(out, w)
    PROVE  /\ DOMAIN out = 1 .. Len(out) /\ Len(out) \in Nat
           /\ DOMAIN out' = 1 .. Len(out) + 1 /\ Len(out') = Len(out) + 1
           /\ \A i \in DOMAIN out : HeadsOf(i)' = HeadsOf(i)
           /\ \A n : n = Len(out) + 1 =>
                 HeadsOf(n)' = {w.heads[j] : j \in DOMAIN w.heads}
<1>1. out \in Seq(Writes)
    BY DEF TypeOK
<1>2. /\ Len(out) \in Nat /\ DOMAIN out = 1 .. Len(out)
      /\ out' \in Seq(Writes) /\ Len(out') = Len(out) + 1
      /\ \A i \in 1 .. Len(out) : out'[i] = out[i]
      /\ out'[Len(out) + 1] = w
    BY <1>1, AppendProperties
<1>3. DOMAIN out' = 1 .. Len(out) + 1
    BY <1>2
<1>4. ASSUME NEW i \in DOMAIN out PROVE HeadsOf(i)' = HeadsOf(i)
    <2>1. out'[i] = out[i]
        BY <1>2
    <2> QED BY <2>1 DEF HeadsOf
<1>5. ASSUME NEW n, n = Len(out) + 1
      PROVE  HeadsOf(n)' = {w.heads[j] : j \in DOMAIN w.heads}
    <2>1. out'[n] = w
        BY <1>2, <1>5
    <2> QED BY <2>1 DEF HeadsOf
<1> QED BY <1>2, <1>3, <1>4, <1>5

(* Before a write every head written answers an earlier request, and what  *)
(* is written answers the request rbuf begins with, or none.               *)
LEMMA BeforeWrite ==
    ASSUME TypeOK, RequestInv, PendingInv, OrderInv, Writing
    PROVE  /\ \A i \in DOMAIN out : \A h \in HeadsOf(i) :
                 /\ h.msg \in DOMAIN sent /\ h.msg # 0 /\ ~ h.close
                 /\ sent[h.msg].start <= base
                 /\ pc # "http" => sent[h.msg].start < base
           /\ \E w \in Writes :
                 /\ out' = Append(out, w)
                 /\ \A j \in DOMAIN w.heads :
                       LET h == w.heads[j]
                       IN  /\ pc # "http"
                           /\ h.msg # 0 => /\ h.msg \in DOMAIN sent
                                           /\ sent[h.msg].start = base
                           /\ pc' \notin Ended => h.msg # 0 /\ ~ h.close
           /\ pc' \in {"shutdown", "http", "yield"}
           /\ sent' = sent /\ base' = base
<1>1. pc \in {"status", "write", "http"}
    BY DEF Writing, WriteStatus, WriteHead, WriteHttp
<1>2. /\ pc' \in {"shutdown", "http", "yield"} /\ sent' = sent /\ base' = base
    BY DEF Writing, WriteStatus, WriteHead, WriteHttp, AfterStatus, clientVars,
           bufVars
<1>3. ASSUME NEW i \in DOMAIN out, NEW h \in HeadsOf(i)
      PROVE  /\ h.msg \in DOMAIN sent /\ h.msg # 0 /\ ~ h.close
             /\ sent[h.msg].start <= base
             /\ pc # "http" => sent[h.msg].start < base
    <2>1. /\ ~ (h.msg = 0 \/ h.close)
          /\ h.msg \in DOMAIN sent
          /\ sent[h.msg].start < base \/ /\ sent[h.msg].start = base
                                         /\ pc = "http"
        BY <1>1 DEF OrderInv, Ended
    <2>2. sent[h.msg].start \in Nat /\ base \in Nat
        BY <2>1, SentIsRequest DEF TypeOK
    <2> QED BY <2>1, <2>2
<1>4. \E w \in Writes :
         /\ out' = Append(out, w)
         /\ \A j \in DOMAIN w.heads :
               LET h == w.heads[j]
               IN  /\ pc # "http"
                   /\ h.msg # 0 => /\ h.msg \in DOMAIN sent
                                   /\ sent[h.msg].start = base
                   /\ pc' \notin Ended => h.msg # 0 /\ ~ h.close
    <2>1. CASE WriteHttp
        <3> DEFINE w == [heads |-> <<>>, pieces |-> httpBuf]
        <3>1. w \in Writes
            BY DEF TypeOK, Writes
        <3>2. out' = Append(out, w)
            BY <2>1 DEF WriteHttp, Write
        <3> QED BY <3>1, <3>2
    <2> DEFINE w == [heads |-> wbuf, pieces |-> <<>>]
    <2>2. w \in Writes
        BY DEF TypeOK, Writes
    <2>3. CASE WriteStatus
        <3>1. out' = Append(out, w) /\ pc = "status" /\ pc' \in Ended
            BY <2>3 DEF WriteStatus, Write, AfterStatus, Ended
        <3> QED BY <2>2, <3>1 DEF PendingInv
    <2>4. CASE WriteHead
        <3>1. out' = Append(out, w) /\ pc = "write"
            BY <2>4 DEF WriteHead, Write
        <3>2. ctx.msg \in DOMAIN sent /\ sent[ctx.msg].start = base
            BY <3>1 DEF RequestInv, Decoded
        <3>3. ctx.msg # 0
            BY <3>2, SentIsRequest
        <3> QED BY <2>2, <3>1, <3>2, <3>3 DEF PendingInv
    <2> QED BY <2>1, <2>3, <2>4 DEF Writing
<1> QED BY <1>2, <1>3, <1>4

(* A step that keeps what has been written: OrderInv survives if the task  *)
(* stays past its write or has moved on to the next request.               *)
LEMMA OrderKept ==
    ASSUME TypeOK, OrderInv, out' = out,
           \A k \in DOMAIN sent : k \in DOMAIN sent' /\ sent'[k] = sent[k],
           base' \in Nat, base <= base',
           pc \in Ended => pc' \in Ended,
           \/ pc \in Ended \cup {"http", "yield"}
                 => pc' \in Ended \cup {"http", "yield"} /\ base' = base
           \/ base < base'
    PROVE  OrderInv'
<1>1. ASSUME NEW i \in DOMAIN out, NEW h \in HeadsOf(i)
      PROVE  /\ h.msg = 0 \/ h.close => pc' \in Ended
             /\ h.msg # 0 => /\ h.msg \in DOMAIN sent'
                             /\ \/ sent'[h.msg].start < base'
                                \/ /\ sent'[h.msg].start = base'
                                   /\ pc' \in Ended \cup {"http", "yield"}
    <2>1. /\ h.msg = 0 \/ h.close => pc \in Ended
          /\ h.msg # 0 => /\ h.msg \in DOMAIN sent
                          /\ \/ sent[h.msg].start < base
                             \/ /\ sent[h.msg].start = base
                                /\ pc \in Ended \cup {"http", "yield"}
        BY DEF OrderInv
    <2>2. base \in Nat
        BY DEF TypeOK
    <2>3. ASSUME h.msg # 0
          PROVE  /\ h.msg \in DOMAIN sent'
                 /\ \/ sent'[h.msg].start < base'
                    \/ /\ sent'[h.msg].start = base'
                       /\ pc' \in Ended \cup {"http", "yield"}
        <3>1. h.msg \in DOMAIN sent /\ sent'[h.msg] = sent[h.msg]
              /\ h.msg \in DOMAIN sent'
            BY <2>1, <2>3
        <3>2. sent[h.msg].start \in Nat
            BY <3>1, SentIsRequest
        <3> QED BY <2>1, <2>2, <2>3, <3>1, <3>2
    <2> QED BY <2>1, <2>3
<1>2. \A i \in DOMAIN out : HeadsOf(i)' = HeadsOf(i)
    BY DEF HeadsOf
<1> QED BY <1>1, <1>2 DEF OrderInv

(* Every step keeps OrderInv.                                              *)
LEMMA OrderStep ==
    ASSUME TypeOK, RequestInv, BufferInv, PendingInv, OrderInv, [Next]_vars
    PROVE  OrderInv'
<1>1. CASE Writing
    <2>1. pc' \in {"shutdown", "http", "yield"} /\ sent' = sent /\ base' = base
        BY <1>1, BeforeWrite
    <2> PICK w \in Writes :
            /\ out' = Append(out, w)
            /\ \A j \in DOMAIN w.heads :
                  LET h == w.heads[j]
                  IN  /\ pc # "http"
                      /\ h.msg # 0 => /\ h.msg \in DOMAIN sent
                                      /\ sent[h.msg].start = base
                      /\ pc' \notin Ended => h.msg # 0 /\ ~ h.close
        BY <1>1, BeforeWrite
    <2>2. pc' \in Ended \cup {"http", "yield"}
        BY <2>1 DEF Ended
    <2>3. ASSUME NEW i \in DOMAIN out', NEW h \in HeadsOf(i)'
          PROVE  /\ h.msg = 0 \/ h.close => pc' \in Ended
                 /\ h.msg # 0 => /\ h.msg \in DOMAIN sent'
                                 /\ \/ sent'[h.msg].start < base'
                                    \/ sent'[h.msg].start = base'
        <3>1. CASE i \in DOMAIN out
            <4>1. h \in HeadsOf(i)
                BY <3>1, WrittenHeads
            <4>2. /\ h.msg \in DOMAIN sent /\ h.msg # 0 /\ ~ h.close
                  /\ sent[h.msg].start <= base
                BY <1>1, <3>1, <4>1, BeforeWrite
            <4>3. sent[h.msg].start \in Nat /\ base \in Nat
                BY <4>2, SentIsRequest DEF TypeOK
            <4> QED BY <2>1, <4>2, <4>3
        <3>2. CASE i = Len(out) + 1
            <4>1. HeadsOf(i)' = {w.heads[j] : j \in DOMAIN w.heads}
                BY <3>2, WrittenHeads
            <4>2. PICK j \in DOMAIN w.heads : h = w.heads[j]
                BY <4>1
            <4> QED BY <2>1, <4>2
        <3> QED BY <3>1, <3>2, WrittenHeads
    <2> QED BY <2>2, <2>3 DEF OrderInv
<1>2. CASE ~ Writing
    <2>1. out' = out
        BY <1>2, Frame
    <2>2. \A k \in DOMAIN sent : k \in DOMAIN sent' /\ sent'[k] = sent[k]
        BY SentGrows, Frame
    <2>3. base \in Nat
        BY DEF TypeOK
    <2>4. CASE Yield
        <3>1. base < pos /\ pos \in Nat
            <4>1. ctx.msg \in DOMAIN sent /\ Request(ctx.msg).head <= Buffered
                BY <2>4 DEF Yield, RequestInv, Decoded
            <4>2. Request(ctx.msg).head \in Nat \ {0}
                <5>1. Request(ctx.msg) \in Requests
                    BY <4>1, SentIsRequest
                <5> QED BY <5>1 DEF Requests
            <4>3. pos \in Nat /\ Request(ctx.msg).head <= pos - base
                BY <4>1 DEF Buffered, TypeOK
            <4> QED BY <2>3, <4>2, <4>3
        <3>2. base' = pos /\ pc = "yield"
            BY <2>4 DEF Yield, ClearRbuf
        <3> QED BY <2>1, <2>2, <2>3, <3>1, <3>2, OrderKept DEF Ended
    <2>5. CASE ~ Yield
        <3>1. /\ base' = base
              /\ pc \in Ended \cup {"http", "yield"}
                    => pc' \in Ended \cup {"http", "yield"}
              /\ pc \in Ended => pc' \in Ended
            BY <1>2, <2>5, Frame
        <3> QED BY <2>1, <2>2, <2>3, <3>1, OrderKept
    <2> QED BY <2>4, <2>5
<1> QED BY <1>1, <1>2

(* Every step keeps the order of the answers and Connection: close last.   *)
LEMMA AnswersStep ==
    ASSUME TypeOK, RequestInv, StreamInv, PendingInv, OrderInv, AnswersInOrder,
           CloseIsLast, [Next]_vars
    PROVE  AnswersInOrder' /\ CloseIsLast'
<1>1. CASE ~ Writing
    BY <1>1, Frame DEF AnswersInOrder, CloseIsLast, HeadsOf
<1>2. CASE Writing
    <2>1. \A i \in DOMAIN out : \A h \in HeadsOf(i) :
             /\ h.msg \in DOMAIN sent /\ h.msg # 0 /\ ~ h.close
             /\ pc # "http" => sent[h.msg].start < base
        BY <1>2, BeforeWrite
    <2> PICK w \in Writes :
            /\ out' = Append(out, w)
            /\ \A j \in DOMAIN w.heads :
                  LET h == w.heads[j]
                  IN  /\ pc # "http"
                      /\ h.msg # 0 => /\ h.msg \in DOMAIN sent
                                      /\ sent[h.msg].start = base
        BY <1>2, BeforeWrite
    <2> DEFINE last == Len(out) + 1
    <2>2. /\ DOMAIN out = 1 .. Len(out) /\ Len(out) \in Nat
          /\ DOMAIN out' = 1 .. last /\ Len(out') = last
          /\ \A i \in DOMAIN out : HeadsOf(i)' = HeadsOf(i)
          /\ \A n : n = last =>
                HeadsOf(n)' = {w.heads[j] : j \in DOMAIN w.heads}
        BY WrittenHeads
    <2> HIDE DEF last
    <2>3. \A i \in 1 .. Len(out') - 1 : i \in DOMAIN out
        BY <2>2 DEF last
    <2>4. CloseIsLast'
        BY <2>1, <2>2, <2>3 DEF CloseIsLast
    <2>5. ASSUME NEW i \in DOMAIN out', NEW j \in DOMAIN out', i < j,
                 NEW g \in HeadsOf(i)', NEW h \in HeadsOf(j)'
          PROVE  g.msg # 0 /\ (h.msg = 0 \/ g.msg < h.msg)
        <3>1. i \in DOMAIN out /\ g \in HeadsOf(i)
            BY <2>2, <2>5 DEF last
        <3>2. CASE j \in DOMAIN out
            BY <2>2, <2>5, <3>1, <3>2 DEF AnswersInOrder
        <3>3. CASE j = last
            <4>1. HeadsOf(j)' = {w.heads[n] : n \in DOMAIN w.heads}
                BY <2>2, <3>3
            <4>2. /\ pc # "http"
                  /\ h.msg # 0 => h.msg \in DOMAIN sent
                                  /\ sent[h.msg].start = base
                BY <4>1
            <4>3. /\ g.msg \in DOMAIN sent /\ g.msg # 0
                  /\ sent[g.msg].start < base
                BY <2>1, <3>1, <4>2
            <4>4. ASSUME h.msg # 0 PROVE g.msg < h.msg
                <5>1. /\ g.msg \in Nat /\ h.msg \in Nat /\ base \in Nat
                      /\ sent[g.msg].start \in Nat
                    BY <4>2, <4>3, <4>4, SentIsRequest DEF TypeOK
                <5>2. g.msg # h.msg
                    BY <4>2, <4>3, <4>4, <5>1
                <5>3. h.msg < g.msg => sent[h.msg].start < sent[g.msg].start
                    BY <4>2, <4>3, <4>4 DEF StreamInv
                <5> QED BY <4>2, <4>3, <4>4, <5>1, <5>2, <5>3
            <4> QED BY <4>3, <4>4
        <3> QED BY <2>2, <2>5, <3>2, <3>3 DEF last
    <2>6. AnswersInOrder'
        BY <2>5 DEF AnswersInOrder
    <2> QED BY <2>4, <2>6
<1> QED BY <1>1, <1>2

(* The invariant holds at first.                                           *)
LEMMA InitIInv == Init => IInv
<1>1. Init => /\ StreamInv /\ PendingInv /\ OrderInv
              /\ AnswersInOrder /\ CloseIsLast
    BY DEF Init, StreamInv, PendingInv, OrderInv, AnswersInOrder, CloseIsLast
<1> QED BY InitCore, <1>1 DEF IInv

(* Every step keeps the invariant.                                         *)
LEMMA IInvStep == IInv /\ [Next]_vars => IInv'
BY TypeStep, RequestStep, BufferStep, StreamStep, PendingStep, OrderStep,
   AnswersStep DEF IInv

(* IInv is an invariant: it holds at first and every step keeps it.        *)
THEOREM Inductive == Spec => []IInv
BY InitIInv, IInvStep, PTL DEF Spec

(* Answers are written in the order of the requests, at most one to each,  *)
(* and nothing after an answer to bytes that are no request.               *)
THEOREM AnswersAreInOrder == Spec => []AnswersInOrder
<1>1. IInv => AnswersInOrder
    BY DEF IInv
<1> QED BY Inductive, <1>1, PTL

(* Nothing is written after an answer that says Connection: close.         *)
THEOREM CloseIsTheLast == Spec => []CloseIsLast
<1>1. IInv => CloseIsLast
    BY DEF IInv
<1> QED BY Inductive, <1>1, PTL
=============================================================================
