----------------------------- MODULE AnswerProofs ----------------------------
(***************************************************************************)
(* Proofs about what a connection answers: that every call of the service  *)
(* and every answer belongs to its own request, for every set of requests  *)
(* and replies, every window, every buffer size and every way of cutting   *)
(* up the bytes.                                                           *)
(***************************************************************************)
EXTENDS ConnectionInvariants, ConnectionProofs, FiniteSetTheorems

-----------------------------------------------------------------------------
(* What the head of a request says, and what the context says of it.       *)

(* An Option is empty or holds one value.                                  *)
LEMMA OptionCases ==
    ASSUME NEW S, NEW o \in Option(S)
    PROVE  o = {} \/ \E x \in S : o = {x}
BY DEF Option

(* A new context is one, and empty.                                        *)
LEMMA NewIsContext == NewCtx \in Contexts /\ NoOutput(NewCtx)
<1>1. {} \in Option(Nat) /\ {} \in Option(Decisions) /\ {} \in Option(Statuses)
    BY DEF Option
<1>2. "OPTIONS" \in Methods /\ {} \in SUBSET AllowCodes
      /\ {} \in SUBSET IcapNames
    BY DEF Methods
<1> QED BY <1>1, <1>2 DEF NewCtx, Contexts, NoOutput

(* A context is the record of its fields.                                  *)
LEMMA ContextIsRecord ==
    ASSUME NEW c \in Contexts
    PROVE  c = [msg |-> c.msg, method |-> c.method, parsed |-> c.parsed,
                basePtr |-> c.basePtr, ee |-> c.ee, preview |-> c.preview,
                nullBody |-> c.nullBody, allow |-> c.allow,
                bodyOff |-> c.bodyOff, missing |-> c.missing,
                httpReq |-> c.httpReq, httpRes |-> c.httpRes,
                decision |-> c.decision, icapStatus |-> c.icapStatus,
                httpStatus |-> c.httpStatus, icapHdrs |-> c.icapHdrs,
                httpHdrs |-> c.httpHdrs]
BY Zenon DEF Contexts

(* Contexts with the same fields are the same.                             *)
LEMMA SameContext ==
    ASSUME NEW c \in Contexts, NEW d \in Contexts,
           c.msg = d.msg, c.method = d.method, c.parsed = d.parsed,
           c.basePtr = d.basePtr, c.ee = d.ee, c.preview = d.preview,
           c.nullBody = d.nullBody, c.allow = d.allow,
           c.bodyOff = d.bodyOff, c.missing = d.missing,
           c.httpReq = d.httpReq, c.httpRes = d.httpRes,
           c.decision = d.decision, c.icapStatus = d.icapStatus,
           c.httpStatus = d.httpStatus, c.icapHdrs = d.icapHdrs,
           c.httpHdrs = d.httpHdrs
    PROVE  c = d
BY ContextIsRecord, Zenon

(* clear() leaves what ReqCtx::new makes.                                  *)
LEMMA ClearIsNew == ASSUME NEW c \in Contexts PROVE Clear(c) = NewCtx
<1>1. Clear(c) \in Contexts
    BY ClearIsContext
<1>2. NewCtx \in Contexts
    BY NewIsContext
<1> DEFINE d == Clear(c)
<1>3. /\ d.msg = 0 /\ d.method = "OPTIONS" /\ d.parsed = 0 /\ d.basePtr = 0
      /\ d.ee = <<>> /\ d.preview = {} /\ d.nullBody = FALSE /\ d.allow = {}
      /\ d.bodyOff = 0 /\ d.missing = 0 /\ d.httpReq = 0 /\ d.httpRes = 0
      /\ d.decision = {} /\ d.icapStatus = {} /\ d.httpStatus = {}
      /\ d.icapHdrs = {} /\ d.httpHdrs = <<>>
    BY DEF Clear, ClearOutput, ClearOptions, ClearHeads, Contexts
<1> HIDE DEF d
<1>4. d = NewCtx
    BY <1>1, <1>2, <1>3, SameContext DEF NewCtx, d
<1> QED BY <1>4 DEF d

(* What ReqCtx::init makes of the head of a request.                       *)
LEMMA InitMakes ==
    ASSUME NEW k \in Nat, NEW m \in Requests, m.method \in Methods,
           NEW ptr \in Nat, NEW n \in Int
    PROVE  LET d == InitCtx(NewCtx, k, m, ptr, n)
           IN  /\ d.method = m.method /\ d.ee = m.ee /\ d.preview = m.preview
               /\ d.nullBody = (m.ee # <<>>
                                /\ LastEntity(m.ee).kind = "null-body")
               /\ d.allow = IF m.allow = {} THEN {} ELSE Value(m.allow)
               /\ m.ee # <<>> => d.bodyOff = LastEntity(m.ee).off
               /\ d.httpReq = 0 /\ d.httpRes = 0 /\ NoOutput(d)
<1> DEFINE d == InitCtx(NewCtx, k, m, ptr, n)
           b == DecodeIcapRequest(NewCtx, k, m, ptr)
           e == ParseIcapHeaders(b, m)
<1>1. /\ b \in Contexts /\ b.method = m.method /\ b.allow = {}
      /\ b.httpReq = 0 /\ b.httpRes = 0 /\ NoOutput(b)
    <2>1. b \in Contexts
        BY NewIsContext, DecodedIsContext
    <2> QED BY <2>1 DEF DecodeIcapRequest, NewCtx, NoOutput
<1>2. /\ e \in Contexts
      /\ e.method = m.method /\ e.ee = m.ee /\ e.preview = m.preview
      /\ e.nullBody = (m.ee # <<>> /\ LastEntity(m.ee).kind = "null-body")
      /\ e.allow = IF m.allow = {} THEN {} ELSE Value(m.allow)
      /\ e.httpReq = 0 /\ e.httpRes = 0 /\ NoOutput(e)
    <2> HIDE DEF b
    <2>1. e \in Contexts
        BY <1>1, ParsedIsContext
    <2>2. /\ e.method = b.method /\ e.ee = m.ee /\ e.preview = m.preview
          /\ e.nullBody = (m.ee # <<>> /\ LastEntity(m.ee).kind = "null-body")
          /\ e.allow = IF m.allow = {} THEN b.allow ELSE Value(m.allow)
        BY <1>1 DEF ParseIcapHeaders, Contexts
    <2>3. /\ e.httpReq = b.httpReq /\ e.httpRes = b.httpRes
          /\ e.decision = b.decision /\ e.icapStatus = b.icapStatus
          /\ e.httpStatus = b.httpStatus /\ e.icapHdrs = b.icapHdrs
          /\ e.httpHdrs = b.httpHdrs
        BY <1>1 DEF ParseIcapHeaders, Contexts
    <2> QED BY <1>1, <2>1, <2>2, <2>3 DEF NoOutput
<1>3. d = AllocBufferForHeaders(e, n)
    BY DEF InitCtx
<1> HIDE DEF e, d
<1>4. /\ d.method = e.method /\ d.ee = e.ee /\ d.preview = e.preview
      /\ d.nullBody = e.nullBody /\ d.allow = e.allow
      /\ d.httpReq = e.httpReq /\ d.httpRes = e.httpRes
      /\ NoOutput(e) => NoOutput(d)
      /\ e.ee # <<>> => d.bodyOff = LastEntity(e.ee).off
    BY <1>2, <1>3 DEF AllocBufferForHeaders, Contexts, NoOutput
<1> QED BY <1>2, <1>4 DEF d

(* The kinds of a request's entities, in their order.                      *)
LEMMA KindsAreThose ==
    ASSUME NEW m \in Requests
    PROVE  /\ m.ee \in Seq(Entities) /\ Len(Kinds(m)) = Len(m.ee)
           /\ Len(m.ee) \in Nat /\ DOMAIN m.ee = 1 .. Len(m.ee)
           /\ \A i \in 1 .. Len(m.ee) :
                 /\ Kinds(m)[i] = m.ee[i].kind /\ m.ee[i] \in Entities
                 /\ m.ee[i].kind \in HeaderKinds \cup BodyKinds
                 /\ m.ee[i].off \in Nat
           /\ Kinds(m) \in Seq(HeaderKinds \cup BodyKinds)
<1>1. m.ee \in Seq(Entities) /\ Len(m.ee) \in Nat
    BY DEF Requests
<1>2. ASSUME NEW i \in 1 .. Len(m.ee)
      PROVE  m.ee[i] \in Entities
    BY <1>1, ElementOfSeq
<1>3. \A i \in 1 .. Len(m.ee) : m.ee[i].kind \in HeaderKinds \cup BodyKinds
                                /\ m.ee[i].off \in Nat
    BY <1>2 DEF Entities
<1> QED BY <1>1, <1>2, <1>3 DEF Kinds

(* The shapes of the two methods, entity by entity.                        *)
LEMMA ShapesOf ==
    ASSUME NEW S, NEW ks \in Seq(S)
    PROVE  /\ ks \in Shapes["OPTIONS"] <=>
                 \/ Len(ks) = 0
                 \/ Len(ks) = 1 /\ ks[1] = "null-body"
           /\ ks \in Shapes["REQMOD"] <=>
                 /\ Len(ks) = 2 /\ ks[1] = "req-hdr"
                 /\ ks[2] \in {"req-body", "null-body"}
           /\ ks \in Shapes["RESPMOD"] <=>
                 \/ /\ Len(ks) = 2 /\ ks[1] = "res-hdr"
                    /\ ks[2] \in {"res-body", "null-body"}
                 \/ /\ Len(ks) = 3 /\ ks[1] = "req-hdr" /\ ks[2] = "res-hdr"
                    /\ ks[3] \in {"res-body", "null-body"}
<1>1. /\ Shapes["OPTIONS"] = {<<>>, <<"null-body">>}
      /\ Shapes["REQMOD"] = {<<"req-hdr", b>> : b \in {"req-body", "null-body"}}
      /\ Shapes["RESPMOD"] =
            {<<"res-hdr", b>> : b \in {"res-body", "null-body"}}
            \cup {<<"req-hdr", "res-hdr", b>> :
                     b \in {"res-body", "null-body"}}
    BY DEF Shapes
<1>2. /\ Len(ks) = 0 => ks = <<>>
      /\ Len(ks) = 1 => ks = <<ks[1]>>
      /\ Len(ks) = 2 => ks = <<ks[1], ks[2]>>
      /\ Len(ks) = 3 => ks = <<ks[1], ks[2], ks[3]>>
    OBVIOUS
<1> QED BY <1>1, <1>2

(* EeList's check of adjacent offsets orders any two of a short list.      *)
LEMMA OrderedOffsets ==
    ASSUME NEW m \in Requests, Len(m.ee) <= 3
    PROVE  OffsetsOrdered(m.ee)
              <=> \A i, j \in 1 .. Len(m.ee) :
                     i < j => m.ee[i].off <= m.ee[j].off
<1>1. Len(m.ee) \in Nat /\ \A i \in 1 .. Len(m.ee) : m.ee[i].off \in Nat
    BY KindsAreThose
<1> DEFINE n == Len(m.ee)
           off(i) == m.ee[i].off
<1>2. n = 0 \/ n = 1 \/ n = 2 \/ n = 3
    <2>1. n \in Nat /\ n <= 3
        BY <1>1
    <2> HIDE DEF n
    <2> QED BY <2>1
<1>3. \A i \in 1 .. n : off(i) \in Nat
    BY <1>1
<1> SUFFICES (\A i \in 1 .. n - 1 : off(i) <= off(i + 1))
               <=> \A i, j \in 1 .. n : i < j => off(i) <= off(j)
    BY DEF OffsetsOrdered
<1> HIDE DEF n, off
<1>4. CASE n = 0 \/ n = 1
    BY <1>4
<1>5. CASE n = 2
    <2>1. 1 \in 1 .. n /\ 2 \in 1 .. n
        BY <1>5
    <2>2. (\A i \in 1 .. n - 1 : off(i) <= off(i + 1)) <=> off(1) <= off(2)
        BY <1>5
    <2> QED BY <1>5, <2>1, <2>2
<1>6. CASE n = 3
    <2>1. 1 \in 1 .. n /\ 2 \in 1 .. n /\ 3 \in 1 .. n
        BY <1>6
    <2>2. off(1) \in Nat /\ off(2) \in Nat /\ off(3) \in Nat
        BY <1>3, <2>1
    <2>3. (\A i \in 1 .. n - 1 : off(i) <= off(i + 1))
             <=> off(1) <= off(2) /\ off(2) <= off(3)
        BY <1>6
    <2>4. (\A i, j \in 1 .. n : i < j => off(i) <= off(j))
             <=> off(1) <= off(2) /\ off(2) <= off(3) /\ off(1) <= off(3)
        BY <1>6, <2>1
    <2> QED BY <2>2, <2>3, <2>4
<1> QED BY <1>2, <1>4, <1>5, <1>6

(* check_sanity's list of entities is the shape of the method.             *)
LEMMA EntitiesAreGood ==
    ASSUME NEW m \in Requests, m.method \in Methods
    PROVE  GoodEntities(m.method, m.ee)
              <=> /\ Kinds(m) \in Shapes[m.method]
                  /\ m.ee # <<>> => m.ee[1].off = 0
<1> DEFINE ks == Kinds(m)
           ee == m.ee
<1>1. /\ ks \in Seq(HeaderKinds \cup BodyKinds) /\ ee \in Seq(Entities)
      /\ Len(ks) = Len(ee) /\ Len(ee) \in Nat
      /\ \A i \in 1 .. Len(ee) : ks[i] = ee[i].kind /\ ee[i] \in Entities
    BY KindsAreThose
<1>2. ASSUME NEW k, Len(ee) >= 1
      PROVE  ee[1] = [kind |-> k, off |-> 0] <=> ks[1] = k /\ ee[1].off = 0
    <2>1. ee[1] \in Entities /\ ks[1] = ee[1].kind
        BY <1>1, <1>2
    <2>2. ASSUME NEW e \in Entities
          PROVE  e = [kind |-> k, off |-> 0] <=> e.kind = k /\ e.off = 0
        BY DEF Entities
    <2> QED BY <2>1, <2>2
<1>3. ee = <<>> <=> Len(ee) = 0
    BY <1>1
<1> SUFFICES GoodEntities(m.method, ee)
               <=> ks \in Shapes[m.method] /\ (ee # <<>> => ee[1].off = 0)
    OBVIOUS
<1> HIDE DEF ks, ee
<1>4. Len(ee) >= 1 =>
         /\ ee[1] = [kind |-> "null-body", off |-> 0]
               <=> ks[1] = "null-body" /\ ee[1].off = 0
         /\ ee[1] = [kind |-> "req-hdr", off |-> 0]
               <=> ks[1] = "req-hdr" /\ ee[1].off = 0
         /\ ee[1] = [kind |-> "res-hdr", off |-> 0]
               <=> ks[1] = "res-hdr" /\ ee[1].off = 0
    BY <1>2
<1>5. \A i \in 1 .. Len(ee) : ks[i] = ee[i].kind
    BY <1>1
<1>6. /\ ks \in Shapes["OPTIONS"] <=>
            \/ Len(ks) = 0
            \/ Len(ks) = 1 /\ ks[1] = "null-body"
      /\ ks \in Shapes["REQMOD"] <=>
            /\ Len(ks) = 2 /\ ks[1] = "req-hdr"
            /\ ks[2] \in {"req-body", "null-body"}
      /\ ks \in Shapes["RESPMOD"] <=>
            \/ /\ Len(ks) = 2 /\ ks[1] = "res-hdr"
               /\ ks[2] \in {"res-body", "null-body"}
            \/ /\ Len(ks) = 3 /\ ks[1] = "req-hdr" /\ ks[2] = "res-hdr"
               /\ ks[3] \in {"res-body", "null-body"}
    BY <1>1, ShapesOf
<1>7. CASE m.method = "OPTIONS"
    <2>1. ee = <<[kind |-> "null-body", off |-> 0]>>
             <=> Len(ee) = 1 /\ ee[1] = [kind |-> "null-body", off |-> 0]
        BY <1>1
    <2>2. GoodEntities("OPTIONS", ee)
             <=> ee = <<>> \/ ee = <<[kind |-> "null-body", off |-> 0]>>
        BY DEF GoodEntities
    <2> QED BY <1>1, <1>3, <1>6, <1>7, <1>4, <2>1, <2>2
<1>8. CASE m.method = "REQMOD"
    <2>1. GoodEntities("REQMOD", ee)
             <=> /\ Len(ee) = 2
                 /\ ee[1] = [kind |-> "req-hdr", off |-> 0]
                 /\ ee[2].kind \in {"req-body", "null-body"}
        BY DEF GoodEntities
    <2> QED BY <1>1, <1>3, <1>6, <1>8, <1>4, <1>5, <2>1
<1>9. CASE m.method = "RESPMOD"
    <2>1. GoodEntities("RESPMOD", ee)
             <=> \/ /\ Len(ee) = 2
                    /\ ee[1] = [kind |-> "res-hdr", off |-> 0]
                    /\ ee[2].kind \in {"res-body", "null-body"}
                 \/ /\ Len(ee) = 3
                    /\ ee[1] = [kind |-> "req-hdr", off |-> 0]
                    /\ ee[2].kind = "res-hdr"
                    /\ ee[3].kind \in {"res-body", "null-body"}
        BY DEF GoodEntities
    <2> QED BY <1>1, <1>3, <1>6, <1>9, <1>4, <1>5, <2>1
<1> QED BY <1>7, <1>8, <1>9 DEF Methods

(* A list of the right shape ends with a body entity, which is null-body   *)
(* unless a body is declared.                                              *)
LEMMA LastOfShape ==
    ASSUME NEW m \in Requests, m.method \in Methods,
           Kinds(m) \in Shapes[m.method]
    PROVE  /\ Len(m.ee) <= 3
           /\ m.ee = <<>> => m.method = "OPTIONS"
           /\ m.ee # <<>> => LastEntity(m.ee).kind
                                \in {"req-body", "res-body", "null-body"}
           /\ m.method # "OPTIONS" =>
                 (LastEntity(m.ee).kind = "null-body" <=> ~ DeclaresBody(m))
           /\ m.method = "OPTIONS" => ~ DeclaresBody(m)
           /\ HasEntity(m, "req-hdr") => m.method # "OPTIONS"
           /\ HasEntity(m, "res-hdr") => m.method # "OPTIONS"
           /\ m.method = "REQMOD" => HasEntity(m, "req-hdr")
           /\ m.method = "RESPMOD" => HasEntity(m, "res-hdr")
<1> DEFINE ks == Kinds(m)
           ee == m.ee
<1>1. /\ ks \in Seq(HeaderKinds \cup BodyKinds)
      /\ Len(ks) = Len(ee) /\ Len(ee) \in Nat
      /\ \A i \in 1 .. Len(ee) : ks[i] = ee[i].kind
      /\ ee = <<>> <=> Len(ee) = 0
    BY KindsAreThose, EmptySeq
<1>2. \A k : HasEntity(m, k) <=> \E i \in 1 .. Len(ee) : ks[i] = k
    BY <1>1 DEF HasEntity
<1>3. ee # <<>> => LastEntity(ee).kind = ks[Len(ee)]
    BY <1>1 DEF LastEntity
<1> HIDE DEF ks, ee
<1>4. CASE m.method = "OPTIONS"
    <2>1. \/ Len(ks) = 0
          \/ Len(ks) = 1 /\ ks[1] = "null-body"
        BY <1>1, <1>4, ShapesOf DEF ks
    <2> QED BY <1>1, <1>2, <1>3, <1>4, <2>1 DEF DeclaresBody, ee
<1>5. CASE m.method = "REQMOD"
    <2>1. /\ Len(ks) = 2 /\ ks[1] = "req-hdr"
          /\ ks[2] \in {"req-body", "null-body"}
        BY <1>1, <1>5, ShapesOf DEF ks
    <2> QED BY <1>1, <1>2, <1>3, <1>5, <2>1 DEF DeclaresBody, ee
<1>6. CASE m.method = "RESPMOD"
    <2>1. \/ /\ Len(ks) = 2 /\ ks[1] = "res-hdr"
             /\ ks[2] \in {"res-body", "null-body"}
          \/ /\ Len(ks) = 3 /\ ks[1] = "req-hdr" /\ ks[2] = "res-hdr"
             /\ ks[3] \in {"res-body", "null-body"}
        BY <1>1, <1>6, ShapesOf DEF ks
    <2> QED BY <1>1, <1>2, <1>3, <1>6, <2>1, SMTT(40) DEF DeclaresBody, ee
<1> QED BY <1>4, <1>5, <1>6 DEF Methods

(* ReqCtx::init, on an empty context, accepts the heads it should.         *)
LEMMA InitAccepts ==
    ASSUME NEW k \in Nat, NEW m \in Requests, NEW ptr \in Nat, NEW n \in Int
    PROVE  InitOk(NewCtx, k, m, ptr, n) <=> HeadServable(m)
<1> DEFINE d == InitCtx(NewCtx, k, m, ptr, n)
           Ordered == \A i, j \in 1 .. Len(m.ee) :
                         i < j => m.ee[i].off <= m.ee[j].off
           Shaped == Kinds(m) \in Shapes[m.method]
<1> SUFFICES ASSUME m.method \in Methods
             PROVE  InitOk(NewCtx, k, m, ptr, n) <=> HeadServable(m)
    BY DEF InitOk, HeadReadable, HeadServable
<1>1. /\ d.method = m.method /\ d.ee = m.ee /\ d.preview = m.preview
      /\ d.nullBody = (m.ee # <<>> /\ LastEntity(m.ee).kind = "null-body")
      /\ d.allow = IF m.allow = {} THEN {} ELSE Value(m.allow)
    BY InitMakes
<1> HIDE DEF d
<1>2. InitOk(NewCtx, k, m, ptr, n) <=>
         /\ HeadReadable(m)
         /\ GoodEntities(m.method, m.ee)
         /\ IsAnyReq(d) /\ ~ d.nullBody
               => 206 \in d.allow /\ d.preview = {0}
    BY <1>1 DEF InitOk, CheckSanity, d
<1>3. GoodEntities(m.method, m.ee)
         <=> Shaped /\ (m.ee # <<>> => m.ee[1].off = 0)
    BY EntitiesAreGood
<1>4. ASSUME Shaped
      PROVE  /\ HeadReadable(m) <=> m.hdrsOk /\ Ordered
             /\ IsAnyReq(d) /\ ~ d.nullBody <=> DeclaresBody(m)
    <2>1. /\ Len(m.ee) <= 3
          /\ m.ee = <<>> => m.method = "OPTIONS"
          /\ m.ee # <<>> => LastEntity(m.ee).kind
                               \in {"req-body", "res-body", "null-body"}
          /\ m.method # "OPTIONS" =>
                 (LastEntity(m.ee).kind = "null-body" <=> ~ DeclaresBody(m))
          /\ m.method = "OPTIONS" => ~ DeclaresBody(m)
        BY <1>4, LastOfShape
    <2>2. OffsetsOrdered(m.ee) <=> Ordered
        BY <2>1, OrderedOffsets
    <2>3. HeadReadable(m) <=> m.hdrsOk /\ Ordered
        <3> HIDE DEF Ordered
        <3> QED BY <2>1, <2>2
                DEF HeadReadable, IcapHeadersOk, BodyOffsetOk, BodyKinds
    <2>4. IsAnyReq(d) <=> m.method # "OPTIONS"
        BY <1>1 DEF IsAnyReq, Methods
    <2> QED BY <1>1, <2>1, <2>3, <2>4
<1>5. 206 \in d.allow <=> \E a \in m.allow : 206 \in a
    <2>1. m.allow \in Option(SUBSET AllowCodes)
        BY DEF Requests
    <2>2. CASE m.allow = {}
        BY <1>1, <2>2
    <2>3. CASE m.allow # {}
        <3>1. PICK a \in SUBSET AllowCodes : m.allow = {a}
            BY <2>1, <2>3, OptionCases
        <3>2. Value({a}) = a
            BY DEF Value
        <3>3. d.allow = a
            BY <1>1, <2>3, <3>1, <3>2
        <3> QED BY <3>1, <3>3
    <2> QED BY <2>2, <2>3
<1> HIDE DEF Ordered, Shaped
<1>6. HeadServable(m) <=>
         /\ m.hdrsOk /\ Shaped /\ Ordered
         /\ m.ee # <<>> => m.ee[1].off = 0
         /\ DeclaresBody(m)
               => (\E a \in m.allow : 206 \in a) /\ m.preview = {0}
    BY DEF HeadServable, Ordered, Shaped
<1> QED BY <1>1, <1>2, <1>3, <1>4, <1>5, <1>6

-----------------------------------------------------------------------------
(* The steps, by what they leave alone.                                    *)

(* The client's steps, and those that change nothing, leave the task where *)
(* it is.                                                                  *)
Stay == /\ UNCHANGED <<pc, bufVars, ctx, httpBuf, wbuf, out, calls>>
        /\ \/ ClientSend
           \/ UNCHANGED sent

(* The steps that only end the task.                                       *)
Leave == /\ pc' \in Ended
         /\ UNCHANGED <<clientVars, bufVars, ctx, httpBuf, wbuf, out, calls>>

(* Those that end in the refusal of a request.                             *)
Refusals == InitBad \/ ChunkBad \/ ParseBad

(* Those that make an answer of what the service set.                      *)
Replying == ProcessOptions \/ Send204 \/ AppendHeaders \/ CustomResponse

(* Those that find no answer in it.                                        *)
Failing == NoDecision \/ NoHttpStatus

(* Every step is one of these.                                             *)
LEMMA StepCases ==
    ASSUME [Next]_vars
    PROVE  \/ Stay \/ Leave
           \/ RecvHead \/ RecvMissing \/ RecvChunk
           \/ InitPartial \/ InitComplete \/ HeadersReceived
           \/ ChunkMore \/ ChunkOk \/ ParseOk \/ Refusals
           \/ ServiceFails \/ ServiceReturns \/ ServicePanics
           \/ Replying \/ Failing \/ Writing \/ Yield
<1>1. CASE Client
    BY <1>1 DEF Client, ClientSend, ClientClose, ClientGone, ClientRead, Stay,
                bufVars
<1>2. CASE UNCHANGED vars \/ Terminated
    BY <1>2 DEF Terminated, vars, Stay, bufVars
<1>3. CASE RecvEof \/ RecvError \/ RecvTimeout \/ AllocFails \/ WriteFail
           \/ Shutdown
    BY <1>3 DEF RecvEof, RecvError, RecvTimeout, AllocFails, WriteFail,
                Shutdown, Abandon, Goto, Leave, Ended
<1> QED BY <1>1, <1>2, <1>3
        DEF Next, Recv, Local, Service, WriteOut, Writing, Refusals, Replying,
            Failing

(* Where each of them starts from and where it leads.                      *)
LEMMA Paths ==
    /\ RecvHead => pc = "head" /\ pc' = "init"
    /\ RecvMissing => pc = "missing" /\ pc' = "missing"
    /\ RecvChunk => pc = "chunkrecv" /\ pc' = "chunk"
    /\ InitPartial => pc = "init" /\ pc' = "head"
    /\ InitComplete => pc = "init" /\ pc' = "missing"
    /\ HeadersReceived => pc = "missing" /\ pc' \in {"chunk", "parse"}
    /\ ChunkMore => pc = "chunk" /\ pc' = "chunkrecv"
    /\ ChunkOk => pc = "chunk" /\ pc' = "parse"
    /\ ParseOk => pc = "parse" /\ pc' = "svc"
    /\ Refusals => pc \in {"init", "chunk", "parse"} /\ pc' = "status"
    /\ ServiceFails => pc = "svc" /\ pc' = "status"
    /\ ServiceReturns => pc = "svc" /\ pc' = "answer"
    /\ ServicePanics => pc = "svc" /\ pc' = "dead"
    /\ Replying => pc = "answer" /\ pc' = "write"
    /\ Failing => pc = "answer" /\ pc' = "status"
    /\ WriteStatus => pc = "status" /\ pc' = "shutdown"
    /\ WriteHead => pc = "write" /\ pc' \in {"http", "yield"}
    /\ WriteHttp => pc = "http" /\ pc' = "yield"
    /\ Yield => pc = "yield" /\ pc' = "init"
BY DEF RecvHead, RecvMissing, RecvChunk, InitPartial, InitComplete,
       HeadersReceived, ChunkMore, ChunkOk, ParseOk, Refusals, InitBad,
       ChunkBad, ParseBad, Refuse, SendStatus, ServiceFails, ServiceReturns,
       ServicePanics, Replying, ProcessOptions, Send204, AppendHeaders,
       CustomResponse, Reply, Answering, Failing, NoDecision, NoHttpStatus,
       WriteStatus, WriteHead, WriteHttp, AfterStatus, Goto, Yield

(* Requests that have been sent stay what they are.                        *)
LEMMA SentKept ==
    ASSUME TypeOK, [Next]_vars
    PROVE  \A k \in DOMAIN sent : /\ k \in DOMAIN sent' /\ sent'[k] = sent[k]
                                  /\ Request(k)' = Request(k)
                                  /\ End(k)' = End(k)
<1>1. \A k \in DOMAIN sent : k \in DOMAIN sent' /\ sent'[k] = sent[k]
    BY SentGrows, Frame
<1> QED BY <1>1 DEF Request, End

(* rbuf as the steps that read find it.                                    *)
LEMMA ReadsAppend ==
    ASSUME TypeOK, BufferInv, RecvHead \/ RecvMissing \/ RecvChunk
    PROVE  /\ base' = base /\ Buffered <= Buffered' /\ Buffered' \in Int
           /\ pos <= pos' /\ UNCHANGED <<clientVars, httpBuf, wbuf, out, calls>>
<1>1. /\ RecvRoom(cap, Buffered) \in Nat /\ RecvRoom(cap, Buffered) >= cap
      /\ ChunkMut(cap, Buffered) \in Nat /\ ChunkMut(cap, Buffered) >= cap
    BY BufferedIsInt, RecvRoomGrows, ChunkMutGrows DEF TypeOK
<1>2. /\ base' = base /\ limit' = limit
      /\ UNCHANGED <<clientVars, httpBuf, wbuf, out, calls>>
    BY DEF RecvHead, RecvMissing, RecvChunk, clientVars
<1>3. PICK c \in Nat, n \in 1 .. limit - pos : c >= cap /\ Read(c, n)
    BY <1>1 DEF RecvHead, RecvMissing, RecvChunk
<1>4. n \in Nat /\ Buffered' = Buffered + n /\ pos' = pos + n
    BY <1>2, <1>3, ReadEffect DEF Read
<1> QED BY <1>2, <1>4, BufferedIsInt DEF TypeOK

(* From init to clear the context goes on being about one request: nothing *)
(* that is said of it changes, and rbuf only grows.                        *)
LEMMA ContextKept ==
    ASSUME TypeOK, RequestInv, BufferInv, HeadInv, [Next]_vars,
           pc' \in Decoded, ~ InitComplete
    PROVE  /\ pc \in Decoded
           /\ ctx.msg \in DOMAIN sent /\ ctx'.msg = ctx.msg
           /\ Request(ctx.msg)' = Request(ctx.msg)
           /\ Request(ctx.msg) \in Requests
           /\ ctx'.method = ctx.method /\ ctx'.parsed = ctx.parsed
           /\ ctx'.bodyOff = ctx.bodyOff /\ ctx'.nullBody = ctx.nullBody
           /\ base' = base /\ Buffered <= Buffered'
           /\ Buffered \in Int /\ Buffered' \in Int
<1> DEFINE Same == /\ pc \in Decoded
                   /\ ctx'.msg = ctx.msg
                   /\ ctx'.method = ctx.method /\ ctx'.parsed = ctx.parsed
                   /\ ctx'.bodyOff = ctx.bodyOff /\ ctx'.nullBody = ctx.nullBody
                   /\ base' = base /\ Buffered <= Buffered'
                   /\ Buffered' \in Int
<1>1. ctx \in Contexts /\ Buffered \in Int
    BY BufferedIsInt DEF TypeOK
<1>2. ASSUME UNCHANGED bufVars PROVE base' = base /\ Buffered' = Buffered
    BY <1>2 DEF bufVars, Buffered
<1>3. ASSUME Stay \/ Leave PROVE Same
    <2>1. UNCHANGED <<bufVars, ctx>> /\ (pc' \in Decoded => pc \in Decoded)
        BY <1>3 DEF Stay, Leave, Decoded, Ended
    <2> QED BY <1>1, <1>2, <2>1
<1>4. ASSUME RecvHead \/ RecvMissing \/ RecvChunk PROVE Same
    <2>1. base' = base /\ Buffered <= Buffered' /\ Buffered' \in Int
        BY <1>4, ReadsAppend
    <2>2. RecvHead => pc' \notin Decoded
        BY DEF RecvHead, Decoded
    <2>3. ASSUME RecvMissing PROVE Same
        BY <1>1, <2>1, <2>3 DEF RecvMissing, Contexts, Decoded
    <2>4. ASSUME RecvChunk PROVE Same
        BY <2>1, <2>4 DEF RecvChunk, Decoded
    <2> QED BY <1>4, <2>2, <2>3, <2>4
<1>5. ASSUME InitPartial \/ HeadersReceived \/ ChunkMore \/ ChunkOk PROVE Same
    <2>1. UNCHANGED <<bufVars, ctx>> /\ (pc' \in Decoded => pc \in Decoded)
        BY <1>5 DEF InitPartial, HeadersReceived, ChunkMore, ChunkOk, Goto,
                    Decoded
    <2> QED BY <1>1, <1>2, <2>1
<1>6. ASSUME ParseOk PROVE Same
    <2>1. UNCHANGED bufVars /\ pc \in Decoded
        BY <1>6 DEF ParseOk, Decoded
    <2>2. /\ ctx.method = Request(ctx.msg).method
          /\ ctx.parsed = Request(ctx.msg).head
        BY <2>1 DEF RequestInv, HeadInv
    <2>3. /\ ctx'.msg = ctx.msg
          /\ ctx'.method = ctx.method /\ ctx'.parsed = ctx.parsed
          /\ ctx'.bodyOff = ctx.bodyOff /\ ctx'.nullBody = ctx.nullBody
        BY <1>1, <1>6, <2>2 DEF ParseOk, ParseEntities, DecodeIcapRequest,
                                Contexts
    <2> QED BY <1>1, <1>2, <2>1, <2>3
<1>7. ASSUME ServiceReturns PROVE Same
    <2>1. UNCHANGED bufVars /\ pc \in Decoded
        BY <1>7 DEF ServiceReturns, Decoded
    <2> PICK r \in Replies : ctx' = SetOutput(ctx, r)
        BY <1>7 DEF ServiceReturns
    <2>2. /\ ctx'.msg = ctx.msg
          /\ ctx'.method = ctx.method /\ ctx'.parsed = ctx.parsed
          /\ ctx'.bodyOff = ctx.bodyOff /\ ctx'.nullBody = ctx.nullBody
        BY <1>1 DEF SetOutput, Contexts
    <2> QED BY <1>1, <1>2, <2>1, <2>2
<1>8. ASSUME Replying PROVE Same
    <2>1. /\ pc = "answer" /\ UNCHANGED bufVars
          /\ ctx' \in {EnsureOptionsHeaders(ctx), Ensure204Headers(ctx),
                       EnsureResponseHeaders(ctx)}
        BY <1>8 DEF Replying, ProcessOptions, Send204, AppendHeaders,
                    CustomResponse, Reply, Answering
    <2>2. /\ ctx'.msg = ctx.msg
          /\ ctx'.method = ctx.method /\ ctx'.parsed = ctx.parsed
          /\ ctx'.bodyOff = ctx.bodyOff /\ ctx'.nullBody = ctx.nullBody
        BY <1>1, <2>1 DEF EnsureOptionsHeaders, Ensure204Headers,
                          EnsureResponseHeaders, Contexts
    <2> QED BY <1>1, <1>2, <2>1, <2>2 DEF Decoded
<1>9. ASSUME Writing PROVE Same
    <2>1. UNCHANGED <<bufVars, ctx>> /\ (pc' \in Decoded => pc \in Decoded)
        BY <1>9 DEF Writing, WriteStatus, WriteHead, WriteHttp, AfterStatus,
                    Decoded
    <2> QED BY <1>1, <1>2, <2>1
<1>10. ASSUME Refusals \/ Failing \/ ServiceFails \/ ServicePanics \/ Yield
       PROVE  Same
    <2>1. pc' \in {"status", "dead", "init"}
        BY <1>10, Paths
    <2> QED BY <2>1 DEF Decoded
<1>11. Same
    BY <1>3, <1>4, <1>5, <1>6, <1>7, <1>8, <1>9, <1>10, StepCases
<1>12. ctx.msg \in DOMAIN sent
    BY <1>11 DEF RequestInv
<1>13. /\ Request(ctx.msg)' = Request(ctx.msg)
       /\ Request(ctx.msg) \in Requests
    BY <1>11, <1>12, SentKept, SentIsRequest DEF Request
<1> QED BY <1>1, <1>11, <1>12, <1>13

-----------------------------------------------------------------------------
(* The context.                                                            *)

(* Every step keeps FreshInv.                                              *)
LEMMA FreshStep ==
    ASSUME TypeOK, FreshInv, [Next]_vars PROVE FreshInv'
<1> USE DEF FreshInv
<1>1. CASE Stay \/ Leave
    BY <1>1 DEF Stay, Leave, Ended
<1>2. CASE RecvHead \/ InitPartial
    BY <1>2 DEF RecvHead, InitPartial, Goto
<1>3. CASE Yield
    <2>1. ctx' = Clear(ctx)
        BY <1>3 DEF Yield
    <2> QED BY <2>1, ClearIsNew DEF TypeOK
<1>4. CASE \/ RecvMissing \/ RecvChunk \/ InitComplete \/ HeadersReceived
           \/ ChunkMore \/ ChunkOk \/ ParseOk \/ Refusals
           \/ ServiceFails \/ ServiceReturns \/ ServicePanics
           \/ Replying \/ Failing \/ Writing
    <2>1. pc' \notin {"init", "head"}
        BY <1>4, Paths DEF Writing
    <2> QED BY <2>1
<1> QED BY <1>1, <1>2, <1>3, <1>4, StepCases

(* The context ReqCtx::init makes of the request at base.                  *)
LEMMA InitStarts ==
    ASSUME TypeOK, BufferInv, FreshInv, InitComplete
    PROVE  LET m == Request(Current)
           IN  /\ Current \in DOMAIN sent /\ sent[Current].start = base
               /\ m \in Requests /\ HeadServable(m)
               /\ ctx'.msg = Current /\ ctx'.method = m.method
               /\ ctx'.parsed = m.head
               /\ m.ee # <<>> => ctx'.bodyOff = LastEntity(m.ee).off
               /\ IsAnyReq(ctx') => (ctx'.nullBody <=> ~ DeclaresBody(m))
               /\ ctx'.httpReq = 0 /\ ctx'.httpRes = 0 /\ NoOutput(ctx')
<1> DEFINE m == Request(Current)
<1>1. /\ pc = "init" /\ ctx = NewCtx
      /\ InitOk(ctx, Current, m, cap, Buffered)
      /\ ctx' = InitCtx(ctx, Current, m, cap, Buffered)
    BY DEF InitComplete, FreshInv
<1>2. /\ Current \in Nat /\ Current \in DOMAIN sent
      /\ sent[Current].start = base
      /\ ctx'.msg = Current /\ ctx'.method = m.method /\ ctx'.parsed = m.head
    BY InitCompleteEffect, CurrentIsSent
<1>3. m \in Requests /\ cap \in Nat /\ Buffered \in Int
    BY <1>2, SentIsRequest, BufferedIsInt DEF TypeOK
<1> HIDE DEF m
<1>4. HeadServable(m)
    BY <1>1, <1>2, <1>3, InitAccepts
<1>5. m.method \in Methods /\ Kinds(m) \in Shapes[m.method]
    BY <1>4 DEF HeadServable
<1>6. /\ ctx'.nullBody = (m.ee # <<>> /\ LastEntity(m.ee).kind = "null-body")
      /\ m.ee # <<>> => ctx'.bodyOff = LastEntity(m.ee).off
      /\ ctx'.httpReq = 0 /\ ctx'.httpRes = 0 /\ NoOutput(ctx')
    <2> DEFINE d == InitCtx(NewCtx, Current, m, cap, Buffered)
    <2>1. /\ d.nullBody = (m.ee # <<>> /\ LastEntity(m.ee).kind = "null-body")
          /\ m.ee # <<>> => d.bodyOff = LastEntity(m.ee).off
          /\ d.httpReq = 0 /\ d.httpRes = 0 /\ NoOutput(d)
        BY <1>2, <1>3, <1>5, InitMakes
    <2>2. ctx' = d
        BY <1>1
    <2> HIDE DEF d
    <2> QED BY <2>1, <2>2
<1>7. IsAnyReq(ctx') => m.method # "OPTIONS"
    BY <1>2 DEF IsAnyReq, m
<1>8. IsAnyReq(ctx') => (ctx'.nullBody <=> ~ DeclaresBody(m))
    BY <1>3, <1>5, <1>6, <1>7, LastOfShape
<1> QED BY <1>2, <1>3, <1>4, <1>6, <1>8 DEF m

(* Every step keeps HeadInv.                                               *)
LEMMA HeadStep ==
    ASSUME TypeOK, RequestInv, BufferInv, FreshInv, HeadInv, [Next]_vars
    PROVE  HeadInv'
<1> SUFFICES ASSUME pc' \in Decoded
             PROVE  LET m == Request(ctx.msg)'
                    IN  /\ HeadServable(m) /\ ctx'.method = m.method
                        /\ m.ee # <<>> => ctx'.bodyOff = LastEntity(m.ee).off
                        /\ IsAnyReq(ctx')
                              => (ctx'.nullBody <=> ~ DeclaresBody(m))
    BY DEF HeadInv
<1>1. CASE InitComplete
    <2>1. ctx'.msg = Current /\ sent' = sent
        BY <1>1, InitStarts DEF InitComplete, clientVars
    <2>2. Request(ctx.msg)' = Request(Current)
        BY <2>1 DEF Request
    <2> QED BY <1>1, <2>2, InitStarts
<1>2. CASE ~ InitComplete
    <2>1. /\ pc \in Decoded
          /\ Request(ctx.msg)' = Request(ctx.msg)
          /\ ctx'.method = ctx.method /\ ctx'.bodyOff = ctx.bodyOff
          /\ ctx'.nullBody = ctx.nullBody
        BY <1>2, ContextKept
    <2> QED BY <2>1 DEF HeadInv, IsAnyReq
<1> QED BY <1>1, <1>2

(* Every step keeps EmptyInv.                                              *)
LEMMA EmptyStep ==
    ASSUME TypeOK, BufferInv, FreshInv, EmptyInv, [Next]_vars
    PROVE  EmptyInv'
<1> USE DEF EmptyInv, ToService
<1>1. CASE Stay \/ Leave
    BY <1>1 DEF Stay, Leave, Ended
<1>2. CASE RecvMissing
    <2>1. pc = "missing" /\ ctx \in Contexts
        BY <1>2 DEF RecvMissing, TypeOK
    <2>2. /\ ctx'.httpReq = ctx.httpReq /\ ctx'.httpRes = ctx.httpRes
          /\ NoOutput(ctx) => NoOutput(ctx')
        BY <1>2, <2>1 DEF RecvMissing, Contexts, NoOutput
    <2> QED BY <2>1, <2>2
<1>3. CASE InitComplete
    BY <1>3, InitStarts
<1>4. CASE RecvChunk \/ HeadersReceived \/ ChunkMore \/ ChunkOk
    BY <1>4 DEF RecvChunk, HeadersReceived, ChunkMore, ChunkOk, Goto
<1>5. CASE ParseOk
    <2>1. pc = "parse" /\ pc' = "svc" /\ ctx \in Contexts
          /\ ctx' = ParseEntities(ctx, Request(ctx.msg), cap)
        BY <1>5 DEF ParseOk, TypeOK
    <2>2. NoOutput(ctx) => NoOutput(ctx')
        BY <2>1 DEF ParseEntities, DecodeIcapRequest, Contexts, NoOutput
    <2> QED BY <2>1, <2>2
<1>6. CASE \/ RecvHead \/ InitPartial \/ Refusals
           \/ ServiceFails \/ ServiceReturns \/ ServicePanics
           \/ Replying \/ Failing \/ Writing \/ Yield
    <2>1. pc' \notin ToService \cup {"svc"}
        BY <1>6, Paths DEF Writing
    <2> QED BY <2>1
<1> QED BY <1>1, <1>2, <1>3, <1>4, <1>5, <1>6, StepCases

(* What parse_entities leaves.                                             *)
LEMMA ParseLeaves ==
    ASSUME NEW c \in Contexts, NEW m \in Requests, m.method \in Methods,
           NEW ptr \in Nat, c.httpReq = 0, c.httpRes = 0
    PROVE  LET d == ParseEntities(c, m, ptr)
           IN  d.msg = c.msg /\ HttpHeadsOf(d, m) /\ d.basePtr = ptr
BY DEF ParseEntities, DecodeIcapRequest, Contexts, HttpHeadsOf

(* Every step keeps DecodedInv.                                            *)
LEMMA DecodedStep ==
    ASSUME TypeOK, RequestInv, EmptyInv, DecodedInv, [Next]_vars
    PROVE  DecodedInv'
<1> USE DEF DecodedInv
<1>1. CASE Stay \/ Leave
    <2>1. CASE pc' \notin {"svc", "answer"}
        BY <2>1
    <2>2. CASE pc' \in {"svc", "answer"}
        <3>1. UNCHANGED <<pc, cap, ctx>>
            BY <1>1, <2>2 DEF Stay, Leave, Ended, bufVars
        <3>2. ctx.msg \in DOMAIN sent
            BY <2>2, <3>1 DEF RequestInv, Decoded
        <3>3. Request(ctx.msg)' = Request(ctx.msg)
            BY <3>1, <3>2, SentKept DEF Request
        <3> QED BY <2>2, <3>1, <3>3 DEF HttpHeadsOf
    <2> QED BY <2>1, <2>2
<1>2. CASE ParseOk
    <2> DEFINE m == Request(ctx.msg)
    <2>1. pc = "parse" /\ ctx' = ParseEntities(ctx, m, cap) /\ cap' = cap
          /\ sent' = sent
        BY <1>2 DEF ParseOk, bufVars, clientVars
    <2>2. m \in Requests /\ m.method \in Methods
        BY <2>1, SentIsRequest DEF RequestInv, Decoded
    <2>3. ctx.httpReq = 0 /\ ctx.httpRes = 0
        BY <2>1 DEF EmptyInv, ToService
    <2>4. ctx'.msg = ctx.msg /\ HttpHeadsOf(ctx', m) /\ ctx'.basePtr = cap
        BY <2>1, <2>2, <2>3, ParseLeaves DEF TypeOK
    <2>5. Request(ctx.msg)' = m
        BY <2>1, <2>4 DEF Request
    <2> HIDE DEF m
    <2> QED BY <2>1, <2>4, <2>5
<1>3. CASE ServiceReturns
    <2> PICK r \in Replies : ctx' = SetOutput(ctx, r)
        BY <1>3 DEF ServiceReturns
    <2>1. pc = "svc" /\ cap' = cap /\ sent' = sent /\ ctx \in Contexts
        BY <1>3 DEF ServiceReturns, bufVars, clientVars, TypeOK
    <2>2. /\ ctx'.msg = ctx.msg /\ ctx'.httpReq = ctx.httpReq
          /\ ctx'.httpRes = ctx.httpRes /\ ctx'.basePtr = ctx.basePtr
        BY <2>1 DEF SetOutput, Contexts
    <2>3. Request(ctx.msg)' = Request(ctx.msg)
        BY <2>1, <2>2 DEF Request
    <2> QED BY <2>1, <2>2, <2>3 DEF HttpHeadsOf
<1>4. CASE \/ RecvHead \/ RecvMissing \/ RecvChunk \/ InitPartial
           \/ InitComplete \/ HeadersReceived \/ ChunkMore \/ ChunkOk
           \/ Refusals \/ ServiceFails \/ ServicePanics
           \/ Replying \/ Failing \/ Writing \/ Yield
    <2>1. pc' \notin {"svc", "answer"}
        BY <1>4, Paths DEF Writing
    <2> QED BY <2>1
<1> QED BY <1>1, <1>2, <1>3, <1>4, StepCases

(* What has been seen of the body and of the HTTP heads stays seen.        *)
LEMMA BodyKept ==
    ASSUME TypeOK, RequestInv, BufferInv, HeadInv, [Next]_vars,
           pc' \in Decoded, ~ InitComplete
    PROVE  /\ NeedsChunk(ctx)' <=> NeedsChunk(ctx)
           /\ IsAnyReq(ctx)' <=> IsAnyReq(ctx)
           /\ Aligned' <=> Aligned
           /\ ChunkSeen => ChunkSeen'
           /\ ctx.parsed + ctx.bodyOff <= Buffered
                 => ctx'.parsed + ctx'.bodyOff <= Buffered'
           /\ EntitiesOk(ctx, Request(ctx.msg), Buffered)
                 => EntitiesOk(ctx, Request(ctx.msg), Buffered)'
<1>1. /\ ctx'.msg = ctx.msg /\ Request(ctx.msg)' = Request(ctx.msg)
      /\ ctx'.method = ctx.method /\ ctx'.parsed = ctx.parsed
      /\ ctx'.bodyOff = ctx.bodyOff /\ ctx'.nullBody = ctx.nullBody
      /\ Buffered <= Buffered' /\ Buffered \in Int /\ Buffered' \in Int
      /\ Request(ctx.msg) \in Requests
    BY ContextKept
<1>2. ctx \in Contexts
    BY DEF TypeOK
<1>3. ctx.parsed \in Nat /\ ctx.bodyOff \in Nat
    BY <1>2 DEF Contexts
<1>4. Request(ctx.msg).line \in Nat /\ HttpLen(Request(ctx.msg)) \in Nat
    BY <1>1 DEF Requests, HttpLen
<1>5. /\ NeedsChunk(ctx)' <=> NeedsChunk(ctx)
      /\ IsAnyReq(ctx)' <=> IsAnyReq(ctx)
    BY <1>1 DEF NeedsChunk, IsAnyReq
<1>6. Aligned' <=> Aligned
    BY <1>1 DEF Aligned
<1>7. BodyBuffered <= BodyBuffered' /\ BodyBuffered \in Int
      /\ BodyBuffered' \in Int
    BY <1>1, <1>3 DEF BodyBuffered
<1>8. ChunkSeen => ChunkSeen'
    BY <1>1, <1>4, <1>5, <1>6, <1>7 DEF ChunkSeen, CRLF
<1>9. EntitiesOk(ctx, Request(ctx.msg), Buffered)
         => EntitiesOk(ctx, Request(ctx.msg), Buffered)'
    BY <1>1, <1>3, <1>4 DEF EntitiesOk
<1> QED BY <1>1, <1>3, <1>5, <1>6, <1>8, <1>9

(* Every step keeps BodyInv.                                               *)
LEMMA BodyStep ==
    ASSUME TypeOK, RequestInv, BufferInv, HeadInv, BodyInv, [Next]_vars
    PROVE  BodyInv'
<1>1. CASE pc' \notin {"chunk", "chunkrecv", "parse"} \cup ToAnswer
    BY <1>1 DEF BodyInv
<1> SUFFICES ASSUME pc' \in {"chunk", "chunkrecv", "parse"} \cup ToAnswer
             PROVE  BodyInv'
    BY <1>1
<1>2. pc' \in Decoded /\ ~ InitComplete
    BY Paths DEF Decoded, ToAnswer
<1>3. /\ NeedsChunk(ctx)' <=> NeedsChunk(ctx)
      /\ IsAnyReq(ctx)' <=> IsAnyReq(ctx)
      /\ ChunkSeen => ChunkSeen'
      /\ ctx.parsed + ctx.bodyOff <= Buffered
            => ctx'.parsed + ctx'.bodyOff <= Buffered'
      /\ EntitiesOk(ctx, Request(ctx.msg), Buffered)
            => EntitiesOk(ctx, Request(ctx.msg), Buffered)'
    BY <1>2, BodyKept
<1>4. CASE Stay \/ Leave
    BY <1>3, <1>4 DEF Stay, Leave, Ended, BodyInv, ToAnswer
<1>5. CASE RecvChunk \/ ChunkMore
    BY <1>3, <1>5, Paths DEF BodyInv, ToAnswer
<1>6. CASE HeadersReceived
    <2>1. ctx \in Contexts /\ ctx.missing = 0 /\ Buffered \in Int
        BY <1>6, BufferedIsInt DEF HeadersReceived, TypeOK
    <2>2. IsAnyReq(ctx) => ctx.parsed + ctx.bodyOff <= Buffered
        BY <1>6, <2>1 DEF HeadersReceived, BufferInv
    <2>3. pc' = IF NeedsChunk(ctx) THEN "chunk" ELSE "parse"
        BY <1>6 DEF HeadersReceived, Goto
    <2>4. ~ NeedsChunk(ctx) => ChunkSeen
        BY DEF ChunkSeen
    <2> QED BY <1>3, <2>2, <2>3, <2>4 DEF BodyInv, ToAnswer
<1>7. CASE ChunkOk
    <2>1. /\ pc = "chunk" /\ "zero" \in ChunkKind /\ ChunkComplete
        BY <1>7 DEF ChunkOk
    <2>2. ChunkSeen
        BY <2>1 DEF ChunkSeen, ChunkKind, ChunkComplete, ChunkLine
    <2>3. ctx.parsed + ctx.bodyOff <= Buffered
        BY <2>1 DEF BufferInv
    <2> QED BY <1>3, <1>7, <2>2, <2>3, Paths DEF BodyInv, ToAnswer
<1>8. CASE ParseOk
    <2>1. EntitiesOk(ctx, Request(ctx.msg), Buffered)
        BY <1>8 DEF ParseOk
    <2> QED BY <1>3, <1>8, <2>1, Paths DEF BodyInv, ToAnswer
<1>9. CASE ServiceReturns \/ Replying \/ Writing
    <2>1. pc \in ToAnswer \/ pc' \notin ToAnswer
        BY <1>9, Paths DEF Writing, ToAnswer
    <2>2. pc' \notin {"chunk", "chunkrecv", "parse"}
        BY <1>9, Paths DEF Writing
    <2> QED BY <1>3, <2>1, <2>2 DEF BodyInv
<1>10. CASE \/ RecvHead \/ RecvMissing \/ InitPartial \/ InitComplete
            \/ Refusals \/ ServiceFails \/ ServicePanics \/ Failing \/ Yield
    <2>1. pc' \notin {"chunk", "chunkrecv", "parse"} \cup ToAnswer
        BY <1>10, Paths DEF ToAnswer
    <2> QED BY <2>1
<1> QED BY <1>4, <1>5, <1>6, <1>7, <1>8, <1>9, <1>10, StepCases

-----------------------------------------------------------------------------
(* What the server knows of a request when it asks the service about it,   *)
(* or refuses it.                                                          *)

(* A request with no HTTP heads or with heads where it says is there to    *)
(* the end of its heads, once rbuf reaches the declared body offset.       *)
LEMMA HeadsAreThere ==
    ASSUME TypeOK, RequestInv, HeadInv, pc \in Decoded,
           IsAnyReq(ctx) => ctx.parsed + ctx.bodyOff <= Buffered,
           SentAsDeclared(Request(ctx.msg))
    PROVE  Buffered >= ctx.parsed + HttpLen(Request(ctx.msg))
<1> DEFINE m == Request(ctx.msg)
<1>1. /\ m \in Requests /\ m \in Messages
      /\ ctx.parsed <= Buffered
    BY SentIsRequest DEF RequestInv
<1>2. /\ m.method \in Methods /\ Kinds(m) \in Shapes[m.method]
      /\ ctx.method = m.method
      /\ m.ee # <<>> => ctx.bodyOff = LastEntity(m.ee).off
    BY DEF HeadInv, HeadServable
<1>3. ctx.parsed \in Nat /\ Buffered \in Int
    BY BufferedIsInt DEF TypeOK, Contexts
<1>4. m.reqLen \in Nat /\ m.resLen \in Nat
    BY <1>1 DEF Requests
<1>5. CASE m.method = "OPTIONS"
    <2>1. ~ HasEntity(m, "req-hdr") /\ ~ HasEntity(m, "res-hdr")
        BY <1>1, <1>2, <1>5, LastOfShape
    <2>2. m.reqLen = 0 /\ m.resLen = 0
        BY <1>1, <1>4, <2>1, MessagesAssumption
    <2> QED BY <1>1, <1>3, <2>2 DEF HttpLen
<1>6. CASE m.method # "OPTIONS"
    <2>1. IsAnyReq(ctx) /\ m.ee # <<>>
        BY <1>1, <1>2, <1>6, LastOfShape DEF IsAnyReq, Methods
    <2>2. ctx.bodyOff = HttpLen(m)
        BY <1>2, <2>1 DEF SentAsDeclared
    <2> QED BY <2>1, <2>2
<1> QED BY <1>5, <1>6

(* A request that has come as far as the service is one to serve, or does  *)
(* not have the length it declares; and all of it has come, or what has    *)
(* not it did not declare.                                                 *)
LEMMA AcceptedRequest ==
    ASSUME TypeOK, RequestInv, HeadInv, BodyInv, pc \in ToAnswer
    PROVE  LET m == Request(ctx.msg)
           IN  /\ Acceptable(m)
               /\ \/ Size(m) <= Buffered
                  \/ ~ SentAsDeclared(m)
                  \/ HiddenBodied(m)
<1> DEFINE m == Request(ctx.msg)
<1>1. pc \in Decoded
    BY DEF ToAnswer, Decoded
<1>2. /\ m \in Requests /\ ctx.parsed = m.head
    BY <1>1, SentIsRequest DEF RequestInv
<1>3. /\ HeadServable(m) /\ ctx.method = m.method
      /\ m.ee # <<>> => ctx.bodyOff = LastEntity(m.ee).off
      /\ IsAnyReq(ctx) => (ctx.nullBody <=> ~ DeclaresBody(m))
    BY <1>1 DEF HeadInv
<1>4. ChunkSeen /\ m.entOk /\ Buffered >= ctx.parsed + HttpLen(m)
    BY DEF BodyInv, EntitiesOk
<1>5. /\ m.head \in Nat /\ HttpLen(m) \in Nat /\ m.line \in Nat
      /\ Buffered \in Int
    BY <1>2, BufferedIsInt DEF Requests, HttpLen
<1>6. CASE SentAsDeclared(m) /\ DeclaresBody(m)
    <2>1. m.method # "OPTIONS" /\ m.ee # <<>>
        BY <1>2, <1>3, <1>6, LastOfShape DEF HeadServable
    <2>2. IsAnyReq(ctx) /\ NeedsChunk(ctx)
        BY <1>3, <1>6, <2>1 DEF HeadServable, IsAnyReq, NeedsChunk, Methods
    <2>3. ctx.bodyOff = HttpLen(m) /\ m.body # "none"
        BY <1>3, <1>6, <2>1 DEF SentAsDeclared
    <2>4. Aligned
        BY <2>3 DEF Aligned
    <2>5. m.body = "zero" /\ BodyBuffered >= m.line + CRLF
        BY <1>4, <2>2, <2>4 DEF ChunkSeen
    <2>6. Size(m) <= Buffered
        BY <1>2, <1>5, <2>3, <2>5 DEF Size, BodyLen, BodyBuffered, CRLF
    <2>7. Servable(m)
        BY <1>3, <1>4, <2>5 DEF Servable, HeadServable
    <2> QED BY <1>3, <1>4, <2>6, <2>7 DEF Acceptable
<1>7. CASE SentAsDeclared(m) /\ ~ DeclaresBody(m)
    <2>1. Servable(m)
        BY <1>3, <1>4, <1>7 DEF Servable, HeadServable
    <2>2. m.body = "none" => Size(m) <= Buffered
        BY <1>2, <1>4, <1>5 DEF Size, BodyLen
    <2> QED BY <1>3, <1>4, <1>7, <2>1, <2>2 DEF Acceptable, HiddenBodied
<1>8. CASE ~ SentAsDeclared(m)
    BY <1>3, <1>4, <1>8 DEF Acceptable
<1> QED BY <1>6, <1>7, <1>8

(* All that the declared body offset of such a request spans has come, and *)
(* its heads have, wherever it says they end.                              *)
LEMMA HeadIsReached ==
    ASSUME TypeOK, RequestInv, HeadInv, BodyInv, pc \in ToAnswer
    PROVE  LET m == Request(ctx.msg)
           IN  HeadReach(m) \in Nat /\ HeadReach(m) <= Buffered
<1> PICK m : m = Request(ctx.msg)
    OBVIOUS
<1> PICK off : off = IF m.ee = <<>> THEN 0 ELSE LastEntity(m.ee).off
    OBVIOUS
<1>1. pc \in Decoded
    BY DEF ToAnswer, Decoded
<1>2. m \in Requests /\ ctx.parsed = m.head /\ ctx.parsed <= Buffered
    BY <1>1, SentIsRequest DEF RequestInv
<1>3. /\ HeadServable(m) /\ ctx.method = m.method
      /\ m.ee # <<>> => ctx.bodyOff = LastEntity(m.ee).off
    BY <1>1 DEF HeadInv
<1>4. Buffered >= ctx.parsed + HttpLen(m)
    BY DEF BodyInv, EntitiesOk
<1>5. m.head \in Nat /\ HttpLen(m) \in Nat /\ Buffered \in Int
    BY <1>2, BufferedIsInt DEF Requests, HttpLen
<1>6. off \in Nat
    BY <1>2, LastIsEntity DEF Requests, Entities
<1>7. m.head + off <= Buffered
    <2>1. CASE m.method = "OPTIONS"
        <3>1. Len(m.ee) \in {0, 1}
            BY <1>2, <1>3, <2>1, KindsAreThose, ShapesOf DEF HeadServable
        <3>2. off = 0
            BY <1>2, <1>3, <3>1, EmptySeq DEF HeadServable, LastEntity, Requests
        <3> QED BY <1>2, <1>5, <3>2
    <2>2. CASE m.method # "OPTIONS"
        <3>1. IsAnyReq(ctx) /\ m.ee # <<>>
            BY <1>2, <1>3, <2>2, LastOfShape DEF IsAnyReq, HeadServable, Methods
        <3>2. ctx.parsed + ctx.bodyOff <= Buffered
            BY <3>1 DEF BodyInv
        <3> QED BY <1>2, <1>3, <3>1, <3>2
    <2> QED BY <2>1, <2>2
<1>8. HeadReach(m) = IF HttpLen(m) >= off THEN m.head + HttpLen(m)
                     ELSE m.head + off
    BY DEF HeadReach, Larger
<1> QED BY <1>2, <1>4, <1>5, <1>6, <1>7, <1>8

(* What the server refuses once it has read the head of a request is not   *)
(* to be served, or does not have the length it declares.                  *)
LEMMA RefusedRequest ==
    ASSUME TypeOK, RequestInv, BufferInv, HeadInv, BodyInv,
           ChunkBad \/ ParseBad
    PROVE  Refusable(Request(ctx.msg))
<1> DEFINE m == Request(ctx.msg)
<1> SUFFICES ASSUME SentAsDeclared(m) PROVE ~ Servable(m)
    BY DEF Refusable
<1>1. pc \in Decoded
    BY DEF ChunkBad, ParseBad, Decoded
<1>2. m \in Requests
    BY <1>1, SentIsRequest DEF RequestInv
<1>3. /\ HeadServable(m) /\ ctx.method = m.method
      /\ m.ee # <<>> => ctx.bodyOff = LastEntity(m.ee).off
      /\ IsAnyReq(ctx) => (ctx.nullBody <=> ~ DeclaresBody(m))
    BY <1>1 DEF HeadInv
<1>4. CASE ChunkBad
    <2>1. NeedsChunk(ctx)
        BY <1>4 DEF ChunkBad, BodyInv
    <2>2. DeclaresBody(m) /\ IsAnyReq(ctx)
        BY <1>3, <2>1 DEF NeedsChunk
    <2>3. m.ee # <<>>
        BY <1>2, <1>3, <2>2, LastOfShape DEF IsAnyReq, HeadServable
    <2>4. Aligned
        BY <1>3, <2>2, <2>3 DEF Aligned, SentAsDeclared
    <2>5. m.body # "zero"
        BY <1>4, <2>4 DEF ChunkBad, ChunkKind
    <2> QED BY <2>2, <2>5 DEF Servable
<1>5. CASE ParseBad
    <2>1. pc = "parse" /\ ~ EntitiesOk(ctx, m, Buffered)
        BY <1>5 DEF ParseBad
    <2>2. Buffered >= ctx.parsed + HttpLen(m)
        BY <1>1, <2>1, HeadsAreThere DEF BodyInv
    <2> QED BY <2>1, <2>2 DEF EntitiesOk, Servable
<1> QED BY <1>4, <1>5

-----------------------------------------------------------------------------
(* The stream.                                                             *)

(* The length of a request is a number, and not zero.                      *)
LEMMA SizeIsNat ==
    ASSUME NEW m \in Requests PROVE Size(m) \in Nat \ {0}
BY DEF Requests, Size, HttpLen, BodyLen, CRLF

(* A request ends after it begins.                                         *)
LEMMA EndIsNat ==
    ASSUME TypeOK, NEW k \in DOMAIN sent
    PROVE  /\ sent[k].start \in Nat /\ End(k) \in Nat
           /\ sent[k].start < End(k)
           /\ End(k) = sent[k].start + Size(Request(k))
<1>1. Size(Request(k)) \in Nat \ {0} /\ sent[k].start \in Nat
    BY SentIsRequest, SizeIsNat
<1> QED BY <1>1 DEF End

(* A lower bound leaves a smaller range.                                   *)
LEMMA LowerRange ==
    \A a, b \in Nat : a <= b => \A p \in 0 .. a - 1 : p \in 0 .. b - 1
OBVIOUS

(* Every step keeps CoverInv.                                              *)
LEMMA CoverStep ==
    ASSUME TypeOK, BufferInv, CoverInv, [Next]_vars PROVE CoverInv'
<1>1. CASE ClientSend
    <2> PICK m \in Messages :
            /\ sent' = Append(sent, [req |-> m, start |-> limit])
            /\ limit' = limit + Size(m)
        BY <1>1 DEF ClientSend
    <2>1. client = "open" /\ client' = client /\ limit \in Nat
        BY <1>1 DEF ClientSend, TypeOK
    <2>2. Size(m) \in Nat \ {0}
        BY MessageIsRequest, SizeIsNat
    <2> PICK n \in Nat : n = Len(sent) + 1
        BY DEF TypeOK
    <2>3. /\ DOMAIN sent = 1 .. Len(sent) /\ DOMAIN sent' = 1 .. n
          /\ Len(sent) \in Nat
          /\ \A k \in DOMAIN sent : /\ sent'[k] = sent[k]
                                    /\ End(k)' = End(k)
          /\ sent'[n].start = limit /\ End(n)' = limit'
        <3>1. sent \in Seq([req : Messages, start : Nat])
            BY DEF TypeOK
        <3>2. [req |-> m, start |-> limit] \in [req : Messages, start : Nat]
            BY <2>1
        <3>3. sent'[n] = [req |-> m, start |-> limit]
            BY <3>1, <3>2, AppendProperties
        <3>4. sent'[n].start = limit /\ sent'[n].req = m
            BY <3>3
        <3>5. Request(n)' = m
            BY <3>4 DEF Request
        <3>6. End(n)' = limit'
            BY <3>4, <3>5 DEF End
        <3> QED BY <1>1, <3>1, <3>4, <3>6, SentGrows, SentKept, LenProperties
    <2>4. \A k \in DOMAIN sent : End(k) <= limit /\ End(k) \in Nat
                                 /\ sent[k].start \in Nat
        BY <2>1, EndIsNat DEF CoverInv
    <2>5. limit < limit' /\ limit' \in Nat
        BY <2>1, <2>2
    <2>6. \A k \in DOMAIN sent' : k \in DOMAIN sent \/ k = n
        BY <2>3
    <2>7. \A i, j \in DOMAIN sent' : i < j => End(i)' <= sent'[j].start
        <3> TAKE i, j \in DOMAIN sent'
        <3> HAVE i < j
        <3>1. i \in DOMAIN sent
            BY <2>3
        <3>2. CASE j \in DOMAIN sent
            BY <2>3, <3>1, <3>2 DEF CoverInv
        <3>3. CASE j = n
            BY <2>3, <2>4, <3>1, <3>3
        <3> QED BY <2>6, <3>2, <3>3
    <2>8. \A i \in DOMAIN sent' : End(i)' <= limit'
        <3> TAKE i \in DOMAIN sent'
        <3>1. CASE i \in DOMAIN sent
            <4>1. End(i)' = End(i) /\ End(i) <= limit /\ End(i) \in Nat
                BY <2>3, <2>4, <3>1
            <4> QED BY <2>1, <2>5, <4>1
        <3>2. CASE i = n
            BY <2>3, <2>5, <3>2
        <3> QED BY <2>6, <3>1, <3>2
    <2>9. \A p \in 0 .. limit' - 1 :
             \E k \in DOMAIN sent' : sent'[k].start <= p /\ p < End(k)'
        <3> TAKE p \in 0 .. limit' - 1
        <3>1. CASE p < limit
            <4>1. p \in 0 .. limit - 1
                BY <2>1, <2>5, <3>1
            <4>2. PICK k \in DOMAIN sent : sent[k].start <= p /\ p < End(k)
                BY <4>1 DEF CoverInv
            <4> QED BY <2>3, <4>2
        <3>2. CASE p >= limit
            <4>1. n \in DOMAIN sent'
                BY <2>3
            <4>2. sent'[n].start = limit /\ End(n)' = limit'
                BY <2>3
            <4>3. limit <= p /\ p < limit'
                BY <2>1, <2>5, <3>2
            <4> QED BY <4>1, <4>2, <4>3
        <3> QED BY <2>1, <2>5, <3>1, <3>2
    <2> QED BY <2>7, <2>8, <2>9 DEF CoverInv
<1>2. CASE ~ ClientSend
    <2>1. /\ sent' = sent
          /\ (client' = "open" => client = "open" /\ limit' = limit)
        BY <1>2, Frame
    <2>2. limit' <= limit /\ limit \in Nat /\ limit' \in Nat
        <3>1. UNCHANGED limit \/ ClientClose \/ ClientGone
            BY <1>2
               DEF Next, Client, ClientRead, Terminated, vars, clientVars, Recv,
                   RecvHead, RecvMissing, RecvChunk, RecvEof, RecvError,
                   RecvTimeout, Abandon, Goto, Local, InitPartial, InitBad,
                   InitComplete, AllocFails, HeadersReceived, ChunkMore,
                   ChunkBad, ChunkOk, ParseOk, ParseBad, Refuse, SendStatus,
                   ProcessOptions, NoDecision, Send204, AppendHeaders,
                   NoHttpStatus, CustomResponse, Reply, Yield, Shutdown,
                   Service, ServiceFails, ServiceReturns, ServicePanics,
                   WriteOut, WriteStatus, WriteHead, WriteHttp, WriteFail
        <3> QED BY <3>1, SMTT(40) DEF ClientClose, ClientGone, TypeOK
    <2>3. \A k \in DOMAIN sent : End(k)' = End(k)
        BY SentKept
    <2>4. \A i, j \in DOMAIN sent' : i < j => End(i)' <= sent'[j].start
        BY <2>1, <2>3 DEF CoverInv
    <2>5. client' = "open" => \A i \in DOMAIN sent' : End(i)' <= limit'
        BY <2>1, <2>3 DEF CoverInv
    <2>6. \A p \in 0 .. limit' - 1 :
             \E k \in DOMAIN sent' : sent'[k].start <= p /\ p < End(k)'
        <3> TAKE p \in 0 .. limit' - 1
        <3>1. p \in 0 .. limit - 1
            BY <2>2, LowerRange
        <3> QED BY <2>1, <2>3, <3>1 DEF CoverInv
    <2> QED BY <2>4, <2>5, <2>6 DEF CoverInv
<1> QED BY <1>1, <1>2

(* There is one request at base.                                           *)
LEMMA CurrentIsThat ==
    ASSUME TypeOK, StreamInv, NEW k \in DOMAIN sent, sent[k].start = base
    PROVE  /\ Current = k /\ k # 0
           /\ \A j \in DOMAIN sent : sent[j].start = base => j = k
<1>1. \A j \in DOMAIN sent : sent[j].start = base => j = k
    <2> TAKE j \in DOMAIN sent
    <2> HAVE sent[j].start = base
    <2>1. j \in Nat /\ k \in Nat /\ base \in Nat
        BY SentIsRequest DEF TypeOK
    <2>2. ~ (j < k) /\ ~ (k < j)
        BY <2>1 DEF StreamInv
    <2> QED BY <2>1, <2>2
<1>2. Current \in DOMAIN sent /\ sent[Current].start = base
    BY DEF Current
<1> QED BY <1>1, <1>2, SentIsRequest

(* Requests that begin before another one come before it.                  *)
LEMMA EarlierIsLess ==
    ASSUME TypeOK, StreamInv, NEW j \in DOMAIN sent, NEW k \in DOMAIN sent,
           sent[j].start < sent[k].start
    PROVE  j < k
<1>1. /\ j \in Nat /\ k \in Nat
      /\ sent[j].start \in Nat /\ sent[k].start \in Nat
    BY SentIsRequest
<1>2. ~ (k < j) /\ j # k
    BY <1>1 DEF StreamInv
<1> QED BY <1>1, <1>2

-----------------------------------------------------------------------------
(* The calls of the service.                                               *)

(* Where the task is once the service has been called for the request at   *)
(* base.                                                                   *)
After == {"answer", "status", "write", "http", "yield"} \cup Ended

(* Only clear() leads from there to the next request.                      *)
LEMMA AfterKept ==
    ASSUME [Next]_vars, pc \in After, ~ Yield PROVE pc' \in After
<1> USE DEF After, Ended
<1>1. CASE Stay \/ Leave
    BY <1>1 DEF Stay, Leave
<1>2. CASE Replying \/ Failing \/ Writing
    BY <1>2, Paths DEF Writing
<1>3. CASE \/ RecvHead \/ RecvMissing \/ RecvChunk \/ InitPartial
           \/ InitComplete \/ HeadersReceived \/ ChunkMore \/ ChunkOk
           \/ ParseOk \/ Refusals
           \/ ServiceFails \/ ServiceReturns \/ ServicePanics
    <2>1. pc \notin After
        BY <1>3, Paths
    <2> QED BY <2>1
<1> QED BY <1>1, <1>2, <1>3, StepCases

(* The service is called at one place.                                     *)
LEMMA CallsGrow ==
    ASSUME TypeOK, [Next]_vars
    PROVE  \/ calls' = calls
           \/ /\ pc = "svc" /\ pc' \in After /\ sent' = sent /\ base' = base
              /\ ServiceFails \/ ServiceReturns \/ ServicePanics
              /\ \E r \in Replies : Called(r)
<1>1. CASE Stay \/ Leave
    BY <1>1 DEF Stay, Leave
<1>2. CASE ServiceFails \/ ServiceReturns \/ ServicePanics
    <2>1. sent' = sent /\ base' = base /\ \E r \in Replies : Called(r)
        BY <1>2 DEF ServiceFails, ServiceReturns, ServicePanics, SendStatus,
                    clientVars, bufVars
    <2> QED BY <1>2, <2>1, Paths DEF After, Ended
<1>3. CASE Refusals \/ Replying \/ Failing
    BY <1>3 DEF Refusals, InitBad, ChunkBad, ParseBad, Refuse, Replying,
                ProcessOptions, Send204, AppendHeaders, CustomResponse, Reply,
                Failing, NoDecision, NoHttpStatus
<1>4. CASE \/ RecvHead \/ RecvMissing \/ RecvChunk \/ InitPartial
           \/ InitComplete \/ HeadersReceived \/ ChunkMore \/ ChunkOk
           \/ ParseOk \/ Writing \/ Yield
    BY <1>4 DEF RecvHead, RecvMissing, RecvChunk, InitPartial, InitComplete,
                HeadersReceived, ChunkMore, ChunkOk, ParseOk, Writing,
                WriteStatus, WriteHead, WriteHttp, Yield, Goto
<1> QED BY <1>1, <1>2, <1>3, <1>4, StepCases

(* clear() moves base to a later place of the stream.                      *)
LEMMA YieldEffect ==
    ASSUME TypeOK, RequestInv, Yield
    PROVE  /\ base' = pos /\ base < base' /\ base' \in Nat /\ base \in Nat
           /\ sent' = sent /\ pc = "yield" /\ pc' = "init"
           /\ ctx.msg \in DOMAIN sent /\ sent[ctx.msg].start = base
<1>1. /\ pc = "yield" /\ base' = pos /\ pc' = "init" /\ sent' = sent
    BY DEF Yield, ClearRbuf, clientVars
<1>2. /\ ctx.msg \in DOMAIN sent /\ sent[ctx.msg].start = base
      /\ ctx.parsed = Request(ctx.msg).head /\ ctx.parsed <= Buffered
    BY <1>1 DEF RequestInv, Decoded
<1>3. Request(ctx.msg).head \in Nat \ {0}
    BY <1>2, SentIsRequest DEF Requests
<1> QED BY <1>1, <1>2, <1>3, SMTT(40) DEF TypeOK, Buffered

(* What is true of a call stays true of it.                                *)
LEMMA CallKept ==
    ASSUME TypeOK, RequestInv, BufferInv, StreamInv, HeadInv, BodyInv,
           [Next]_vars, NEW c, CallInv(c)
    PROVE  CallInv(c)'
<1> DEFINE k == c.msg
<1>1. k \in DOMAIN sent /\ c.reply \in Replies /\ Acceptable(Request(k))
      /\ HttpHeadsOf(c, Request(k))
    BY DEF CallInv
<1>2. /\ k \in DOMAIN sent' /\ sent'[k] = sent[k]
      /\ Request(k)' = Request(k) /\ End(k)' = End(k)
      /\ sent[k].start \in Nat /\ End(k) \in Nat /\ base \in Nat
      /\ End(k) = sent[k].start + Size(Request(k))
    BY <1>1, SentKept, EndIsNat DEF TypeOK
<1>3. \/ sent[k].start < base /\ Passed(k)
      \/ sent[k].start = base /\ pc \in After
    BY DEF CallInv, After
<1>4. CASE ~ Yield
    <2>1. base' = base
        BY <1>4, Frame
    <2>2. Passed(k) => Passed(k)'
        BY <1>2, <2>1 DEF Passed
    <2>3. pc \in After => pc' \in After
        BY <1>4, AfterKept
    <2> QED BY <1>1, <1>2, <1>3, <2>1, <2>2, <2>3 DEF CallInv, After
<1>5. CASE Yield
    <2>1. /\ base' = pos /\ base < base' /\ base' \in Nat /\ pc = "yield"
          /\ ctx.msg \in DOMAIN sent /\ sent[ctx.msg].start = base
        BY <1>5, YieldEffect
    <2>2. CASE sent[k].start < base /\ Passed(k)
        <3>1. Passed(k)'
            BY <1>2, <2>1, <2>2 DEF Passed
        <3>2. sent'[k].start < base'
            BY <1>2, <2>1, <2>2
        <3> QED BY <1>1, <1>2, <3>1, <3>2 DEF CallInv
    <2>3. CASE sent[k].start = base
        <3>1. k = ctx.msg
            BY <1>1, <2>1, <2>3, CurrentIsThat
        <3>2. \/ Size(Request(k)) <= Buffered
              \/ ~ SentAsDeclared(Request(k))
              \/ HiddenBodied(Request(k))
            BY <2>1, <3>1, AcceptedRequest DEF ToAnswer
        <3>3. Size(Request(k)) \in Nat
            BY <1>1, SentIsRequest, SizeIsNat
        <3>4. Size(Request(k)) <= Buffered => End(k) <= base'
            BY <1>2, <2>1, <2>3, <3>3 DEF Buffered, TypeOK
        <3>5. Passed(k)'
            BY <1>2, <3>2, <3>4 DEF Passed
        <3>6. sent'[k].start < base'
            BY <1>2, <2>1, <2>3
        <3> QED BY <1>1, <1>2, <3>5, <3>6 DEF CallInv
    <2> QED BY <1>3, <2>2, <2>3
<1> QED BY <1>4, <1>5

(* A call appended.                                                        *)
LEMMA CallAdded ==
    ASSUME TypeOK, NEW r \in Replies, Called(r), NEW n, n = Len(calls) + 1
    PROVE  /\ DOMAIN calls = 1 .. Len(calls) /\ Len(calls) \in Nat
           /\ DOMAIN calls' = 1 .. n /\ Len(calls') = n
           /\ \A i \in DOMAIN calls : calls'[i] = calls[i]
           /\ calls'[n].msg = ctx.msg /\ calls'[n].httpReq = ctx.httpReq
           /\ calls'[n].httpRes = ctx.httpRes /\ calls'[n].reply = r
<1> DEFINE c == [msg |-> ctx.msg, httpReq |-> ctx.httpReq,
                 httpRes |-> ctx.httpRes, reply |-> r]
<1>1. c \in Calls
    BY RepliesAssumption DEF TypeOK, Contexts, Calls
<1>2. calls' = Append(calls, c) /\ calls \in Seq(Calls)
    BY DEF Called, TypeOK
<1>3. /\ c.msg = ctx.msg /\ c.httpReq = ctx.httpReq
      /\ c.httpRes = ctx.httpRes /\ c.reply = r
    OBVIOUS
<1> HIDE DEF c
<1>4. /\ DOMAIN calls = 1 .. Len(calls) /\ Len(calls) \in Nat
      /\ DOMAIN calls' = 1 .. Len(calls) + 1 /\ Len(calls') = Len(calls) + 1
      /\ \A i \in DOMAIN calls : calls'[i] = calls[i]
      /\ calls'[Len(calls) + 1] = c
    BY <1>1, <1>2, AppendProperties
<1> QED BY <1>3, <1>4

(* Every step keeps CallsInv.                                              *)
LEMMA CallsStep ==
    ASSUME TypeOK, RequestInv, BufferInv, StreamInv, HeadInv, DecodedInv,
           BodyInv, CallsInv, [Next]_vars
    PROVE  CallsInv'
<1>1. ASSUME NEW i \in DOMAIN calls, NEW c, c = calls[i] PROVE CallInv(c)'
    BY <1>1, CallKept DEF CallsInv
<1>2. CASE calls' = calls
    <2>1. ASSUME NEW i \in DOMAIN calls' PROVE CallInv(calls[i])'
        <3> PICK c : c = calls[i]
            OBVIOUS
        <3>1. CallInv(c)' /\ calls'[i] = c
            BY <1>1, <1>2, <2>1
        <3> QED BY <3>1 DEF CallInv, HttpHeadsOf
    <2> QED BY <1>2, <2>1 DEF CallsInv
<1>3. CASE /\ pc = "svc" /\ pc' \in After /\ sent' = sent /\ base' = base
           /\ \E r \in Replies : Called(r)
    <2> PICK r \in Replies : Called(r)
        BY <1>3
    <2> PICK n \in Nat : n = Len(calls) + 1
        BY DEF TypeOK
    <2>1. /\ DOMAIN calls = 1 .. Len(calls) /\ Len(calls) \in Nat
          /\ DOMAIN calls' = 1 .. n
          /\ \A i \in DOMAIN calls : calls'[i] = calls[i]
          /\ calls'[n].msg = ctx.msg /\ calls'[n].httpReq = ctx.httpReq
          /\ calls'[n].httpRes = ctx.httpRes /\ calls'[n].reply = r
        BY CallAdded
    <2>2. \A i \in DOMAIN calls' : i \in DOMAIN calls \/ i = n
        BY <2>1
    <2>3. /\ ctx.msg \in DOMAIN sent /\ sent[ctx.msg].start = base
          /\ Acceptable(Request(ctx.msg))
          /\ HttpHeadsOf(ctx, Request(ctx.msg))
        BY <1>3, AcceptedRequest DEF RequestInv, Decoded, ToAnswer, DecodedInv
    <2> PICK k : k = ctx.msg
        OBVIOUS
    <2>5. Request(k)' = Request(k)
        BY <1>3 DEF Request
    <2> PICK c : c = calls'[n]
        OBVIOUS
    <2>6. CallInv(c)'
        BY <1>3, <2>1, <2>3, <2>5 DEF CallInv, HttpHeadsOf, After
    <2>7. ASSUME NEW i \in DOMAIN calls' PROVE CallInv(calls[i])'
        <3> PICK d : d = calls'[i]
            OBVIOUS
        <3>1. i \in DOMAIN calls => d = calls[i]
            BY <2>1
        <3>2. CallInv(d)'
            BY <1>1, <2>2, <2>6, <3>1
        <3> QED BY <3>2 DEF CallInv, HttpHeadsOf
    <2>8. \A i \in DOMAIN calls : calls[i].msg < ctx.msg
        <3> TAKE i \in DOMAIN calls
        <3>1. CallInv(calls[i])
            BY DEF CallsInv
        <3>2. calls[i].msg \in DOMAIN sent /\ sent[calls[i].msg].start < base
            BY <1>3, <3>1 DEF CallInv, Ended
        <3> QED BY <2>3, <3>2, EarlierIsLess
    <2>9. \A i, j \in DOMAIN calls' : i < j => calls'[i].msg < calls'[j].msg
        <3> TAKE i, j \in DOMAIN calls'
        <3> HAVE i < j
        <3>1. i \in DOMAIN calls
            BY <2>1
        <3> QED BY <2>1, <2>2, <2>8, <3>1 DEF CallsInv
    <2> QED BY <2>7, <2>9 DEF CallsInv
<1> QED BY <1>2, <1>3, CallsGrow

-----------------------------------------------------------------------------
(* From the service's return to the end of the answer.                     *)

(* The request that begins where rbuf begins, from init to clear.          *)
LEMMA CurrentIsMsg ==
    ASSUME TypeOK, RequestInv, StreamInv, pc \in Decoded
    PROVE  /\ ctx.msg \in DOMAIN sent /\ sent[ctx.msg].start = base
           /\ ctx.msg # 0 /\ Current = ctx.msg
           /\ Request(ctx.msg) \in Requests
<1>1. ctx.msg \in DOMAIN sent /\ sent[ctx.msg].start = base
    BY DEF RequestInv
<1> QED BY <1>1, CurrentIsThat, SentIsRequest

(* No request begins at base if there is no current one.                   *)
LEMMA NoCurrent ==
    ASSUME TypeOK, Current = 0
    PROVE  \A k \in DOMAIN sent : sent[k].start # base
<1> SUFFICES ASSUME NEW k \in DOMAIN sent, sent[k].start = base PROVE FALSE
    OBVIOUS
<1>1. Current \in DOMAIN sent
    BY DEF Current
<1> QED BY <1>1, SentIsRequest

(* What is the last call after a step that calls.                          *)
LEMMA CalledLast ==
    ASSUME TypeOK, NEW r \in Replies, Called(r)
    PROVE  calls' # <<>> /\ LastCall'.msg = ctx.msg /\ LastCall'.reply = r
<1> PICK n \in Nat : n = Len(calls) + 1
    BY DEF TypeOK
<1>1. /\ Len(calls') = n /\ n # 0
      /\ calls'[n].msg = ctx.msg /\ calls'[n].reply = r
    BY CallAdded DEF TypeOK
<1> QED BY <1>1 DEF LastCall

(* The output of the service is what it put into an empty context.         *)
LEMMA OutputIsReply ==
    ASSUME NEW c \in Contexts, NEW r \in ServiceReplies, NoOutput(c),
           ~ r.err, ~ r.panics
    PROVE  OutputOf(SetOutput(c, r), r)
<1> DEFINE d == SetOutput(c, r)
<1>1. \A x : Append(<<>>, x) = <<x>>
    OBVIOUS
<1>2. /\ d.msg = c.msg /\ d.decision = r.decision
      /\ d.icapStatus = r.icapStatus /\ d.httpStatus = r.httpStatus
      /\ d.icapHdrs = r.icapHdrs
      /\ d.httpHdrs = IF r.addsHttp THEN Append(<<>>, c.msg) ELSE <<>>
    BY DEF SetOutput, NoOutput, OrElse, Contexts
<1> HIDE DEF d
<1>3. d.httpHdrs = IF r.addsHttp THEN <<d.msg>> ELSE <<>>
    BY <1>1, <1>2
<1> QED BY <1>2, <1>3 DEF OutputOf, d

(* Every step keeps AnswerInv.                                             *)
LEMMA AnswerStep ==
    ASSUME TypeOK, EmptyInv, AnswerInv, [Next]_vars PROVE AnswerInv'
<1> USE DEF AnswerInv
<1>1. CASE Stay \/ Leave
    <2>1. CASE pc' # "answer"
        BY <2>1
    <2>2. CASE pc' = "answer"
        <3>1. UNCHANGED <<pc, ctx, calls>>
            BY <1>1, <2>2 DEF Stay, Leave, Ended
        <3> QED BY <3>1 DEF LastCallFor, LastCall, OutputOf
    <2> QED BY <2>1, <2>2
<1>2. CASE ServiceReturns
    <2> PICK r \in Replies : /\ ~ r.err /\ ~ r.panics /\ Called(r)
                             /\ ctx' = SetOutput(ctx, r)
        BY <1>2 DEF ServiceReturns
    <2>1. r \in ServiceReplies /\ ctx \in Contexts /\ NoOutput(ctx)
        BY <1>2, RepliesAssumption DEF ServiceReturns, TypeOK, EmptyInv
    <2>2. OutputOf(ctx', r) /\ ctx'.msg = ctx.msg
        BY <2>1, OutputIsReply DEF SetOutput, Contexts
    <2> QED BY <2>2, CalledLast DEF LastCallFor, OutputOf
<1>3. CASE \/ RecvHead \/ RecvMissing \/ RecvChunk
           \/ InitPartial \/ InitComplete \/ HeadersReceived
           \/ ChunkMore \/ ChunkOk \/ ParseOk \/ Refusals
           \/ ServiceFails \/ ServicePanics
           \/ Replying \/ Failing \/ Writing \/ Yield
    <2>1. pc' # "answer"
        BY <1>3, Paths DEF Writing
    <2> QED BY <2>1
<1> QED BY <1>1, <1>2, <1>3, StepCases

(* Requests that arrive do not touch a refusal.                            *)
LEMMA RefusalKept ==
    ASSUME TypeOK, BufferInv, CallsInv, [Next]_vars,
           UNCHANGED <<bufVars, calls>>, NEW h, RefusalInv(h)
    PROVE  RefusalInv(h)'
<1>1. /\ base' = base /\ pos' = pos /\ calls' = calls
      /\ base \in Nat /\ pos \in Nat /\ limit \in Nat /\ pos <= limit
    BY DEF bufVars, TypeOK, BufferInv
<1>2. \A k \in DOMAIN sent : k \in DOMAIN sent' /\ sent'[k] = sent[k]
                            /\ Request(k)' = Request(k)
    BY SentKept
<1>3. \A i \in DOMAIN calls : calls[i].msg \in DOMAIN sent
    BY DEF CallsInv, CallInv
<1>4. \A i \in DOMAIN calls' : sent'[calls'[i].msg].start < base'
    BY <1>1, <1>2, <1>3 DEF RefusalInv
<1>5. CASE h.msg = 0
    <2>1. base < pos /\ \A k \in DOMAIN sent : sent[k].start # base
        BY <1>5 DEF RefusalInv
    <2>2. \A k \in DOMAIN sent' : sent'[k].start # base
        <3>1. CASE ~ ClientSend
            BY <2>1, <3>1, Frame
        <3>2. CASE ClientSend
            <4> PICK n \in Nat : n = Len(sent) + 1
                BY DEF TypeOK
            <4>1. PICK m \in Messages :
                     sent' = Append(sent, [req |-> m, start |-> limit])
                BY <3>2 DEF ClientSend
            <4>2. sent'[n].start = limit
                BY <4>1, AppendProperties DEF TypeOK
            <4>3. \A k \in DOMAIN sent' : k \in DOMAIN sent \/ k = n
                BY <3>2, SentGrows
            <4>4. limit # base
                BY <1>1, <2>1
            <4> QED BY <1>2, <2>1, <4>2, <4>3, <4>4
        <3> QED BY <3>1, <3>2
    <2> QED BY <1>1, <1>4, <1>5, <2>1, <2>2 DEF RefusalInv
<1>6. CASE h.msg # 0
    <2>1. h.msg \in DOMAIN sent
        BY <1>6 DEF RefusalInv
    <2> QED BY <1>1, <1>2, <1>4, <1>6, <2>1 DEF RefusalInv
<1> QED BY <1>5, <1>6

(* A refusal puts into wbuf what RefusalInv says.                          *)
LEMMA RefusalMade ==
    ASSUME TypeOK, RequestInv, BufferInv, StreamInv, FreshInv, HeadInv, BodyInv,
           CallsInv, Refusals
    PROVE  Len(wbuf') = 1 /\ RefusalInv(wbuf[1])'
<1> DEFINE h == StatusHead(Current, 400)
<1>1. Refuse /\ pc \in {"init", "chunk", "parse"}
    BY Paths DEF Refusals, InitBad, ChunkBad, ParseBad
<1>2. /\ wbuf' = <<h>> /\ UNCHANGED <<clientVars, bufVars, calls>>
    <2>1. SendStatus(400) /\ 400 \in Statuses
        BY <1>1 DEF Refuse, Statuses
    <2> QED BY <1>1, <2>1, SendStatusWbuf DEF Refuse, SendStatus
<1>3. h.msg = Current /\ h = StatusHead(h.msg, 400)
    BY DEF StatusHead, IcapHead
<1>4. \A i \in DOMAIN calls : sent[calls[i].msg].start < base
    BY <1>1 DEF CallsInv, CallInv, Ended
<1>5. CASE Current = 0
    <2>1. pc = "init"
        BY <1>1, <1>5, CurrentIsMsg DEF Decoded
    <2>2. Buffered > 0
        BY <2>1, Paths DEF Refusals, InitBad, ChunkBad, ParseBad
    <2>3. base < pos
        BY <2>2 DEF Buffered, TypeOK
    <2>4. \A k \in DOMAIN sent : sent[k].start # base
        BY <1>5, NoCurrent
    <2> HIDE DEF h
    <2> QED BY <1>2, <1>3, <1>4, <1>5, <2>3, <2>4
            DEF RefusalInv, clientVars, bufVars
<1>6. CASE Current # 0
    <2>1. Current \in DOMAIN sent /\ sent[Current].start = base
          /\ Current \in Nat
        BY <1>6, CurrentIsSent
    <2>2. Refusable(Request(Current))
        <3>1. CASE ChunkBad \/ ParseBad
            <4>1. pc \in Decoded
                BY <3>1 DEF ChunkBad, ParseBad, Decoded
            <4> QED BY <3>1, <4>1, RefusedRequest, CurrentIsMsg
        <3>2. CASE InitBad
            <4>1. ~ InitOk(NewCtx, Current, Request(Current), cap, Buffered)
                BY <1>6, <3>2 DEF InitBad, FreshInv
            <4>2. ~ HeadServable(Request(Current))
                BY <2>1, <4>1, SentIsRequest, InitAccepts, BufferedIsInt
                   DEF TypeOK
            <4> QED BY <4>2 DEF Refusable, Servable, HeadServable
        <3> QED BY <3>1, <3>2 DEF Refusals
    <2>3. Request(Current)' = sent'[Current'].req
        BY DEF Request
    <2> HIDE DEF h
    <2> PICK g : g = h
        OBVIOUS
    <2>4. Request(g.msg)' = Request(g.msg)
        BY <1>2 DEF Request, clientVars
    <2> QED BY <1>2, <1>3, <1>4, <1>6, <2>1, <2>2, <2>4
            DEF RefusalInv, clientVars, bufVars
<1> QED BY <1>5, <1>6

(* What the service leaves the server nothing to answer to: an error.      *)
LEMMA FailureMade ==
    ASSUME TypeOK, RequestInv, StreamInv, HeadInv, AnswerInv,
           ServiceFails \/ Failing
    PROVE  /\ Len(wbuf') = 1 /\ wbuf'[1] = StatusHead(ctx.msg, 500)
           /\ calls' # <<>> /\ LastCall'.msg = ctx.msg
           /\ Unusable(Request(ctx.msg), LastCall'.reply)
           /\ UNCHANGED <<clientVars, bufVars>>
<1>1. pc \in {"svc", "answer"} /\ pc \in Decoded
    BY Paths DEF Decoded
<1>2. SendStatus(500) /\ 500 \in Statuses
    BY DEF ServiceFails, Failing, NoDecision, NoHttpStatus, Statuses
<1>3. /\ wbuf' = <<StatusHead(ctx.msg, 500)>>
      /\ UNCHANGED <<clientVars, bufVars>>
    BY <1>1, <1>2, SendStatusWbuf, CurrentIsMsg DEF SendStatus
<1>4. CASE ServiceFails
    <2> PICK r \in Replies : r.err /\ Called(r)
        BY <1>4 DEF ServiceFails
    <2>1. calls' # <<>> /\ LastCall'.msg = ctx.msg /\ LastCall'.reply = r
        BY CalledLast
    <2> QED BY <1>3, <2>1 DEF Unusable
<1>5. CASE Failing
    <2>1. /\ calls' = calls /\ pc = "answer" /\ IsAnyReq(ctx)
          /\ \/ ctx.decision = {}
             \/ ctx.decision = {"CustomResponse"} /\ ctx.httpStatus = {}
        BY <1>5 DEF Failing, NoDecision, NoHttpStatus, Answering
    <2>2. LastCallFor(ctx.msg) /\ OutputOf(ctx, LastCall.reply)
        BY <2>1 DEF AnswerInv
    <2>3. Request(ctx.msg).method # "OPTIONS"
        BY <1>1, <2>1 DEF HeadInv, IsAnyReq
    <2>4. Unusable(Request(ctx.msg), LastCall.reply)
        BY <2>1, <2>2, <2>3 DEF OutputOf, Unusable
    <2> QED BY <1>3, <2>1, <2>2, <2>4 DEF LastCallFor, LastCall
<1> QED BY <1>4, <1>5

(* Every step keeps StatusInv.                                             *)
LEMMA StatusStep ==
    ASSUME TypeOK, RequestInv, BufferInv, StreamInv, FreshInv, HeadInv, BodyInv,
           CallsInv, AnswerInv, StatusInv, [Next]_vars
    PROVE  StatusInv'
<1> USE DEF StatusInv
<1>1. CASE Stay \/ Leave
    <2>1. CASE pc' # "status"
        BY <2>1
    <2>2. CASE pc' = "status"
        <3>1. UNCHANGED <<pc, bufVars, wbuf, calls>>
            BY <1>1, <2>2 DEF Stay, Leave, Ended
        <3> PICK h : h = wbuf[1]
            OBVIOUS
        <3>2. RefusalInv(h) => RefusalInv(h)'
            BY <3>1, RefusalKept
        <3>3. RefusalInv(wbuf[1]) => RefusalInv(wbuf[1])'
            BY <3>1, <3>2 DEF RefusalInv
        <3>4. h.msg \in DOMAIN sent =>
                 /\ h.msg \in DOMAIN sent' /\ sent'[h.msg] = sent[h.msg]
                 /\ Request(h.msg)' = Request(h.msg)
            BY SentKept
        <3>5. base' = base
            BY <3>1 DEF bufVars
        <3> QED BY <2>2, <3>1, <3>3, <3>4, <3>5 DEF LastCallFor, LastCall,
                                                    Request
    <2> QED BY <2>1, <2>2
<1>2. CASE Refusals
    BY <1>2, RefusalMade
<1>3. CASE ServiceFails \/ Failing
    <2>1. /\ Len(wbuf') = 1 /\ wbuf'[1] = StatusHead(ctx.msg, 500)
          /\ calls' # <<>> /\ LastCall'.msg = ctx.msg
          /\ Unusable(Request(ctx.msg), LastCall'.reply)
          /\ sent' = sent /\ base' = base
        BY <1>3, FailureMade DEF clientVars, bufVars
    <2>2. ctx.msg \in DOMAIN sent /\ sent[ctx.msg].start = base
        BY <1>3, Paths, CurrentIsMsg DEF Decoded
    <2>3. wbuf'[1].msg = ctx.msg
        BY <2>1 DEF StatusHead, IcapHead
    <2> QED BY <2>1, <2>2, <2>3 DEF LastCallFor, Request
<1>4. CASE \/ RecvHead \/ RecvMissing \/ RecvChunk
           \/ InitPartial \/ InitComplete \/ HeadersReceived
           \/ ChunkMore \/ ChunkOk \/ ParseOk
           \/ ServiceReturns \/ ServicePanics
           \/ Replying \/ Writing \/ Yield
    <2>1. pc' # "status"
        BY <1>4, Paths DEF Writing
    <2> QED BY <2>1
<1> QED BY <1>1, <1>2, <1>3, <1>4, StepCases

-----------------------------------------------------------------------------
(* The answers made of the service's output.                               *)

(* The output in the context when the answer is made.                      *)
Output(r) ==
    /\ calls # <<>> /\ LastCall.msg = ctx.msg /\ LastCall.reply = r
    /\ OutputOf(ctx, r) /\ r \in ServiceReplies

(* The request and the reply an answer is made of.                         *)
LEMMA AnswerStarts ==
    ASSUME TypeOK, RequestInv, StreamInv, HeadInv, DecodedInv, CallsInv,
           AnswerInv, pc = "answer"
    PROVE  LET m == Request(ctx.msg)
           IN  /\ ctx \in Contexts /\ ctx.msg # 0
               /\ m \in Requests /\ m \in Messages
               /\ m.method \in Methods /\ Kinds(m) \in Shapes[m.method]
               /\ ctx.method = m.method
               /\ IsAnyReq(ctx) <=> m.method # "OPTIONS"
               /\ IsAnyReq(ctx) => (ctx.nullBody <=> ~ DeclaresBody(m))
               /\ HttpHeadsOf(ctx, m)
               /\ Output(LastCall.reply)
<1> DEFINE m == Request(ctx.msg)
<1>1. /\ ctx \in Contexts /\ ctx.msg # 0 /\ m \in Requests /\ m \in Messages
    BY CurrentIsMsg, SentIsRequest DEF TypeOK, Decoded
<1>2. /\ HeadServable(m) /\ ctx.method = m.method
      /\ IsAnyReq(ctx) => (ctx.nullBody <=> ~ DeclaresBody(m))
    BY DEF HeadInv, Decoded
<1>3. LastCallFor(ctx.msg) /\ OutputOf(ctx, LastCall.reply)
    BY DEF AnswerInv
<1>4. LastCall.reply \in Replies
    <2>1. Len(calls) \in DOMAIN calls
        BY <1>3, EmptySeq DEF LastCallFor, TypeOK
    <2> QED BY <2>1 DEF CallsInv, CallInv, LastCall
<1>5. Output(LastCall.reply)
    BY <1>3, <1>4, RepliesAssumption DEF Output, LastCallFor
<1>6. HttpHeadsOf(ctx, m)
    BY DEF DecodedInv
<1> QED BY <1>1, <1>2, <1>5, <1>6 DEF HeadServable, IsAnyReq, Methods

(* What Reply does, when the head it writes is the one called for.         *)
LEMMA ReplyMakes ==
    ASSUME TypeOK, pc = "answer", NEW r, Output(r),
           NEW c \in Contexts, c.msg = ctx.msg,
           NEW status \in Statuses, NEW enc \in Option(Encapsulated),
           Reply(c, status, enc), sent' = sent,
           ~ Unusable(Request(ctx.msg), r),
           AnswerTo(IcapHead(c.msg, status, c.icapHdrs, enc),
                    Request(ctx.msg), r),
           enc # {} => HttpHeadFor(IcapHead(c.msg, status, c.icapHdrs, enc),
                                   httpBuf')
    PROVE  WriteInv'
<1> DEFINE h == IcapHead(c.msg, status, c.icapHdrs, enc)
           k == ctx.msg
<1>1. wbuf' = <<h>> /\ calls' = calls /\ ctx' = c
    BY ReplyWbuf DEF Reply
<1>2. h.msg = ctx.msg /\ h.http = (enc # {})
    BY DEF IcapHead
<1>3. Request(ctx.msg)' = Request(ctx.msg)
    BY <1>1 DEF Request
<1>4. enc # {} => HttpHeadFor(h, httpBuf')
    OBVIOUS
<1> HIDE DEF h
<1>5. wbuf'[1] = h /\ Len(wbuf') = 1
    BY <1>1
<1>6. HttpHeadFor(wbuf[1], httpBuf)' <=> HttpHeadFor(h, httpBuf')
    BY <1>1, <1>2, <1>3, <1>5
       DEF HttpHeadFor, HeadMeasured, HeadOwned, Request
<1>7. AnswerTo(h, Request(ctx.msg), r)
    BY DEF h
<1> QED BY <1>1, <1>2, <1>3, <1>4, <1>5, <1>6, <1>7
        DEF WriteInv, Output, LastCallFor, LastCall

(* An HTTP head: its first line, the added headers, the empty line.        *)
LEMMA HeadShape ==
    ASSUME NEW c \in Contexts, NEW p \in Pieces
    PROVE  LET head == HeadBytes(<<p>>, c)
               n    == Len(c.httpHdrs)
           IN  /\ head \in Seq(Pieces) /\ n \in Nat /\ Len(head) = n + 2
               /\ head[1] = p
               /\ \A j \in 1 .. n : /\ head[j + 1].what = "added"
                                    /\ head[j + 1].msg = c.httpHdrs[j]
               /\ head[n + 2].what = "crlf"
<1> DEFINE n == Len(c.httpHdrs)
           added == AddedHeaders(c)
           crlf == [what |-> "crlf", msg |-> 0]
           s == <<p>> \o added
           head == s \o <<crlf>>
<1>1. /\ added \in Seq(Pieces) /\ n \in Nat /\ Len(added) = n
      /\ \A j \in 1 .. n : added[j].what = "added"
                          /\ added[j].msg = c.httpHdrs[j]
    BY SMTT(40) DEF AddedHeaders, Contexts, Pieces
<1>2. crlf \in Pieces /\ crlf.what = "crlf"
    BY DEF Pieces
<1>3. head = HeadBytes(<<p>>, c)
    BY DEF HeadBytes
<1> HIDE DEF n, added, crlf
<1>4. <<p>> \in Seq(Pieces) /\ Len(<<p>>) = 1 /\ <<p>>[1] = p
    OBVIOUS
<1>5. <<crlf>> \in Seq(Pieces) /\ Len(<<crlf>>) = 1 /\ <<crlf>>[1] = crlf
    BY <1>2
<1>6. /\ s \in Seq(Pieces) /\ Len(s) = n + 1 /\ s[1] = p
      /\ \A j \in 1 .. n : s[j + 1] = added[j]
    BY <1>1, <1>4, ConcatProperties
<1> HIDE DEF s
<1>7. /\ head \in Seq(Pieces) /\ Len(head) = n + 2
      /\ \A j \in 1 .. n + 1 : head[j] = s[j]
      /\ head[n + 2] = crlf
    BY <1>1, <1>5, <1>6, ConcatProperties
<1> HIDE DEF head
<1>8. head[1] = p /\ \A j \in 1 .. n : head[j + 1] = added[j]
    BY <1>1, <1>6, <1>7
<1> QED BY <1>1, <1>2, <1>3, <1>7, <1>8 DEF n

(* A sequence with one element behind it.                                  *)
LEMMA OneMore ==
    ASSUME NEW S, NEW s \in Seq(S), NEW x \in S
    PROVE  /\ Len(Append(s, x)) = Len(s) + 1
           /\ DOMAIN Append(s, x) = 1 .. Len(s) + 1
           /\ \A j \in 1 .. Len(s) : Append(s, x)[j] = s[j]
           /\ Append(s, x)[Len(s) + 1] = x
           /\ SubSeq(Append(s, x), Len(s) + 1, Len(Append(s, x))) = <<x>>
<1> PICK n : n = Len(s)
    OBVIOUS
<1> DEFINE u == Append(s, x)
<1>1. /\ n \in Nat /\ Len(u) = n + 1 /\ u[n + 1] = x
      /\ u \in Seq(S) /\ \A j \in 1 .. n : u[j] = s[j]
    BY AppendProperties
<1> HIDE DEF u
<1>2. DOMAIN u = 1 .. n + 1
    BY <1>1
<1>3. Len(SubSeq(u, n + 1, n + 1)) = 1 /\ SubSeq(u, n + 1, n + 1)[1] = x
    BY <1>1
<1>4. SubSeq(u, n + 1, n + 1) \in Seq(S)
    BY <1>1, SubSeqProperties
<1>5. \A v \in Seq(S) : Len(v) = 1 => v = <<v[1]>>
    OBVIOUS
<1>6. SubSeq(u, n + 1, n + 1) = <<x>>
    BY <1>3, <1>4, <1>5
<1> QED BY <1>1, <1>2, <1>6 DEF u

(* A head that ends with its empty line, with the headers added for        *)
(* request k ...                                                           *)
Sealed(head, k) ==
    /\ head \in Seq(Pieces) /\ Len(head) \in Nat \ {0}
    /\ \A j \in 1 .. Len(head) :
          /\ head[j].what = "crlf" <=> j = Len(head)
          /\ head[j].what = "added" => head[j].msg = k

(* ... and such a head with tail behind it.                                *)
SealedBefore(tail, ps, head, k) ==
    /\ Len(head) \in DOMAIN ps /\ ps[1] = head[1]
    /\ \A j \in 1 .. Len(head) : ps[j].what = "crlf" <=> j = Len(head)
    /\ SubSeq(ps, Len(head) + 1, Len(ps)) = tail
    /\ \A j \in DOMAIN ps : ps[j].what = "added" => ps[j].msg = k

(* That head: the empty line is where it ends, and what the service added  *)
(* is its own.                                                             *)
LEMMA HeadEnds ==
    ASSUME NEW c \in Contexts, NEW p \in Pieces,
           p.what \in {"request", "response", "status"},
           \A i \in DOMAIN c.httpHdrs : c.httpHdrs[i] = c.msg
    PROVE  LET head == HeadBytes(<<p>>, c)
           IN  Sealed(head, c.msg) /\ head[1] = p
<1> PICK n : n = Len(c.httpHdrs)
    OBVIOUS
<1> PICK head : head = HeadBytes(<<p>>, c)
    OBVIOUS
<1>1. /\ head \in Seq(Pieces) /\ n \in Nat
      /\ Len(head) = n + 2 /\ head[1] = p
      /\ \A j \in 1 .. n : /\ head[j + 1].what = "added"
                           /\ head[j + 1].msg = c.httpHdrs[j]
      /\ head[n + 2].what = "crlf"
    BY HeadShape
<1>2. DOMAIN c.httpHdrs = 1 .. n
    BY DEF Contexts
<1>3. ASSUME NEW j \in 2 .. n + 1
      PROVE  head[j].what = "added" /\ head[j].msg = c.msg
    <2> PICK i \in 1 .. n : j = i + 1
        <3>1. j - 1 \in 1 .. n /\ j = (j - 1) + 1
            BY <1>1
        <3> QED BY <3>1
    <2>1. head[j].what = "added" /\ head[j].msg = c.httpHdrs[i]
        BY <1>1
    <2>2. c.httpHdrs[i] = c.msg
        BY <1>2
    <2> QED BY <2>1, <2>2
<1>4. \A j \in 1 .. n + 2 : /\ head[j].what = "crlf" <=> j = n + 2
                            /\ head[j].what = "added" => head[j].msg = c.msg
    <2> TAKE j \in 1 .. n + 2
    <2>1. CASE j = 1
        BY <1>1, <2>1
    <2>2. CASE j = n + 2
        BY <1>1, <2>2
    <2>3. CASE j \in 2 .. n + 1
        BY <1>1, <1>3, <2>3, SMTT(40)
    <2> QED BY <1>1, <2>1, <2>2, <2>3
<1>5. Len(head) \in Nat \ {0}
    BY <1>1
<1> QED BY <1>1, <1>4, <1>5, SMTT(40) DEF Sealed

(* A head alone.                                                           *)
LEMMA HeadAlone ==
    ASSUME NEW k, NEW head, Sealed(head, k)
    PROVE  SealedBefore(<<>>, head, head, k)
<1>1. /\ Len(head) \in DOMAIN head /\ DOMAIN head = 1 .. Len(head)
      /\ SubSeq(head, Len(head) + 1, Len(head)) = <<>>
    BY LenProperties, SubSeqEmpty DEF Sealed
<1> QED BY <1>1 DEF Sealed, SealedBefore

(* A head with the chunk behind it.                                        *)
LEMMA HeadWithChunk ==
    ASSUME NEW k, NEW head, Sealed(head, k),
           NEW ps, ps = head \o UseOriginalBody
    PROVE  SealedBefore(UseOriginalBody, ps, head, k)
<1> PICK n : n = Len(head)
    OBVIOUS
<1>1. /\ n \in Nat \ {0} /\ 1 \in 1 .. n /\ n \in 1 .. n
      /\ head \in Seq(Pieces)
      /\ \A j \in 1 .. n : /\ head[j].what = "crlf" <=> j = n
                           /\ head[j].what = "added" => head[j].msg = k
    BY DEF Sealed
<1> DEFINE chunk == [what |-> "chunk", msg |-> 0]
<1>2. chunk \in Pieces /\ chunk.what = "chunk"
    BY DEF Pieces
<1>3. UseOriginalBody = <<chunk>>
    BY DEF UseOriginalBody
<1> HIDE DEF chunk
<1>4. ps = Append(head, chunk)
    BY <1>1, <1>2, <1>3, AppendIsConcat
<1>5. /\ Len(ps) = n + 1 /\ DOMAIN ps = 1 .. n + 1
      /\ \A j \in 1 .. n : ps[j] = head[j]
      /\ ps[n + 1] = chunk
      /\ SubSeq(ps, n + 1, Len(ps)) = UseOriginalBody
    <2>1. /\ Len(Append(head, chunk)) = n + 1
          /\ DOMAIN Append(head, chunk) = 1 .. n + 1
          /\ \A j \in 1 .. n : Append(head, chunk)[j] = head[j]
          /\ Append(head, chunk)[n + 1] = chunk
          /\ SubSeq(Append(head, chunk), n + 1, Len(Append(head, chunk)))
                = <<chunk>>
        BY <1>1, <1>2, OneMore
    <2> QED BY <1>3, <1>4, <2>1, Zenon
<1>6. \A j \in DOMAIN ps : ps[j].what = "added" => ps[j].msg = k
    <2> TAKE j \in DOMAIN ps
    <2>1. j \in 1 .. n \/ j = n + 1
        BY <1>1, <1>5
    <2> QED BY <1>1, <1>2, <1>5, <2>1
<1>7. n \in DOMAIN ps /\ ps[1] = head[1]
    BY <1>1, <1>5
<1>8. \A j \in 1 .. n : ps[j].what = "crlf" <=> j = n
    BY <1>1, <1>5
<1> QED BY <1>5, <1>6, <1>7, <1>8 DEF SealedBefore

(* The ICAP head that fits a request and a reply.                          *)
LEMMA AnswerMade ==
    ASSUME NEW m, NEW r, ~ Unusable(m, r), NEW k, NEW hdrs, NEW enc,
           HasHttpHead(m, r) <=> enc # {},
           hdrs = ServerHeaders(m, r) \cup r.icapHdrs
    PROVE  AnswerTo(IcapHead(k, StatusFor(m, r), hdrs, enc), m, r)
BY DEF AnswerTo, IcapHead

(* The headers each kind of answer carries, in out_icap_headers.           *)
LEMMA HeadersMade ==
    ASSUME NEW c \in Contexts, NEW m, NEW r, c.icapHdrs = r.icapHdrs
    PROVE  LET All == ServerHeaders(m, r) \cup r.icapHdrs
           IN  /\ ~ HasHttpHead(m, r) /\ m.method = "OPTIONS"
                     => EnsureOptionsHeaders(c).icapHdrs = All
               /\ ~ HasHttpHead(m, r) /\ m.method # "OPTIONS"
                     => Ensure204Headers(c).icapHdrs = All
               /\ HasHttpHead(m, r) /\ m.method # "OPTIONS"
                     => EnsureResponseHeaders(c).icapHdrs = All
<1>1. /\ EnsureOptionsHeaders(c).icapHdrs = c.icapHdrs
             \cup {"Encapsulated", "Methods", "Allow", "ISTag", "Server",
                   "Preview", "Transfer-Preview", "Connection"}
      /\ Ensure204Headers(c).icapHdrs
             = c.icapHdrs \cup {"Encapsulated", "ISTag", "Server", "Connection"}
      /\ EnsureResponseHeaders(c).icapHdrs
             = c.icapHdrs \cup {"ISTag", "Server", "Connection"}
    BY DEF EnsureOptionsHeaders, Ensure204Headers, EnsureResponseHeaders,
           Contexts
<1> QED BY <1>1, ZenonT(60) DEF ServerHeaders

(* The status of an answer that has a decision to be made of.              *)
LEMMA StatusOf ==
    ASSUME NEW m, NEW r, ~ r.err
    PROVE  /\ m.method = "OPTIONS" =>
                 /\ ~ Unusable(m, r) /\ ~ HasHttpHead(m, r)
                 /\ StatusFor(m, r) = Value(OrElse(r.icapStatus, {200}))
           /\ m.method # "OPTIONS" /\ r.decision = {"NoAdaptation"} =>
                 /\ ~ Unusable(m, r) /\ ~ HasHttpHead(m, r)
                 /\ StatusFor(m, r) = 204
           /\ m.method # "OPTIONS" /\ r.decision = {"AppendHeaders"} =>
                 /\ ~ Unusable(m, r) /\ HasHttpHead(m, r)
                 /\ StatusFor(m, r) = IF DeclaresBody(m) THEN 206 ELSE 200
           /\ m.method # "OPTIONS" /\ r.decision = {"CustomResponse"}
                 /\ r.httpStatus # {} =>
                 /\ ~ Unusable(m, r) /\ HasHttpHead(m, r)
                 /\ StatusFor(m, r) = 200
<1>1. /\ {"NoAdaptation"} # {"AppendHeaders"} /\ {"NoAdaptation"} # {}
      /\ {"NoAdaptation"} # {"CustomResponse"} /\ {"CustomResponse"} # {}
      /\ {"AppendHeaders"} # {"CustomResponse"} /\ {"AppendHeaders"} # {}
    OBVIOUS
<1>2. CASE m.method = "OPTIONS"
    BY <1>2 DEF Unusable, HasHttpHead, StatusFor
<1>3. CASE m.method # "OPTIONS" /\ r.decision = {"NoAdaptation"}
    BY <1>1, <1>3 DEF Unusable, HasHttpHead, StatusFor
<1>4. CASE m.method # "OPTIONS" /\ r.decision = {"AppendHeaders"}
    BY <1>1, <1>4 DEF Unusable, HasHttpHead, StatusFor
<1>5. CASE /\ m.method # "OPTIONS" /\ r.decision = {"CustomResponse"}
           /\ r.httpStatus # {}
    BY <1>1, <1>5 DEF Unusable, HasHttpHead, StatusFor
<1> QED BY <1>2, <1>3, <1>4, <1>5

(* The answer to OPTIONS.                                                  *)
LEMMA OptionsAnswer ==
    ASSUME TypeOK, RequestInv, StreamInv, HeadInv, DecodedInv, CallsInv,
           AnswerInv, ProcessOptions
    PROVE  WriteInv'
<1> PICK m : m = Request(ctx.msg)
    OBVIOUS
<1> PICK r : r = LastCall.reply
    OBVIOUS
<1> DEFINE c == EnsureOptionsHeaders(ctx)
           status == Value(OrElse(ctx.icapStatus, {200}))
<1>1. pc = "answer" /\ ~ IsAnyReq(ctx) /\ Reply(c, status, {})
    BY DEF ProcessOptions
<1>2. /\ ctx \in Contexts /\ m.method = "OPTIONS" /\ Output(r)
    BY <1>1, AnswerStarts
<1>3. c \in Contexts /\ c.msg = ctx.msg
    BY <1>2, EnsuredIsContext DEF EnsureOptionsHeaders, Contexts
<1>4. status \in Statuses
    <2>1. ctx.icapStatus \in Option(Statuses) /\ {200} \in Option(Statuses)
        <3>1. ctx.icapStatus \in Option(Statuses)
            BY <1>2 DEF Contexts
        <3>2. {200} \in Option(Statuses)
            BY DEF Option, Statuses
        <3> QED BY <3>1, <3>2
    <2>2. /\ OrElse(ctx.icapStatus, {200}) \in Option(Statuses)
          /\ OrElse(ctx.icapStatus, {200}) # {}
        BY <2>1 DEF OrElse
    <2> QED BY <2>2, ValueInOption
<1>5. /\ ~ r.err /\ ctx.icapStatus = r.icapStatus
      /\ ctx.icapHdrs = r.icapHdrs
    BY <1>2 DEF Output, OutputOf
<1>6. /\ ~ Unusable(m, r) /\ ~ HasHttpHead(m, r)
      /\ StatusFor(m, r) = Value(OrElse(r.icapStatus, {200}))
    BY <1>2, <1>5, StatusOf
<1>7. /\ status = StatusFor(m, r)
      /\ c.icapHdrs = ServerHeaders(m, r) \cup r.icapHdrs
    BY <1>2, <1>5, <1>6, HeadersMade
<1> HIDE DEF c, status
<1>8. AnswerTo(IcapHead(c.msg, status, c.icapHdrs, {}), m, r)
    BY <1>2, <1>3, <1>6, <1>7, AnswerMade
<1>9. {} \in Option(Encapsulated) /\ sent' = sent
    BY <1>1 DEF Option, Reply, clientVars
<1> QED BY <1>1, <1>2, <1>3, <1>4, <1>6, <1>8, <1>9, ReplyMakes

(* The answer 204.                                                         *)
LEMMA NoContentAnswer ==
    ASSUME TypeOK, RequestInv, StreamInv, HeadInv, DecodedInv, CallsInv,
           AnswerInv, Send204
    PROVE  WriteInv'
<1> PICK m : m = Request(ctx.msg)
    OBVIOUS
<1> PICK r : r = LastCall.reply
    OBVIOUS
<1> DEFINE c == Ensure204Headers(ctx)
<1>1. /\ pc = "answer" /\ IsAnyReq(ctx) /\ ctx.decision = {"NoAdaptation"}
      /\ Reply(c, 204, {})
    BY DEF Send204, Answering
<1>2. ctx \in Contexts /\ m.method # "OPTIONS" /\ Output(r)
    BY <1>1, AnswerStarts
<1>3. ~ r.err /\ r.decision = {"NoAdaptation"} /\ ctx.icapHdrs = r.icapHdrs
    BY <1>1, <1>2 DEF Output, OutputOf
<1>4. c \in Contexts /\ c.msg = ctx.msg
    BY <1>2, EnsuredIsContext DEF Ensure204Headers, Contexts
<1>5. ~ Unusable(m, r) /\ ~ HasHttpHead(m, r) /\ StatusFor(m, r) = 204
    BY <1>2, <1>3, StatusOf
<1>6. c.icapHdrs = ServerHeaders(m, r) \cup r.icapHdrs
    BY <1>2, <1>3, <1>5, HeadersMade
<1> HIDE DEF c
<1>7. AnswerTo(IcapHead(c.msg, 204, c.icapHdrs, {}), m, r)
    BY <1>5, <1>6, AnswerMade
<1>8. {} \in Option(Encapsulated) /\ sent' = sent /\ 204 \in Statuses
    BY <1>1 DEF Option, Reply, clientVars, Statuses
<1> QED BY <1>1, <1>2, <1>4, <1>5, <1>7, <1>8, ReplyMakes

(* The HTTP head that goes with an ICAP head.                              *)
LEMMA HttpHeadMade ==
    ASSUME NEW c \in Contexts, NEW p \in Pieces,
           p.what \in {"request", "response", "status"},
           p.msg = IF p.what = "status" /\ Request(c.msg).reqLen = 0
                   THEN 0 ELSE c.msg,
           \A i \in DOMAIN c.httpHdrs : c.httpHdrs[i] = c.msg,
           NEW null \in BOOLEAN, NEW e,
           e.off = Len(HeadBytes(<<p>>, c)), e.body = "null-body" <=> null,
           NEW h, h.msg = c.msg, h.enc = {e}
    PROVE  HttpHeadFor(h, IF null THEN HeadBytes(<<p>>, c)
                          ELSE HeadBytes(<<p>>, c) \o UseOriginalBody)
<1>1. PICK head : head = HeadBytes(<<p>>, c)
    OBVIOUS
<1>2. PICK ps : ps = IF null THEN head ELSE head \o UseOriginalBody
    OBVIOUS
<1>3. Sealed(head, c.msg) /\ head[1] = p
    BY <1>1, HeadEnds
<1>4. SealedBefore(IF null THEN <<>> ELSE UseOriginalBody, ps, head, c.msg)
    <2>1. CASE null
        <3>1. ps = head
            BY <1>2, <2>1
        <3>2. SealedBefore(<<>>, head, head, c.msg)
            BY <1>3, HeadAlone
        <3> QED BY <2>1, <3>1, <3>2
    <2>2. CASE ~ null
        <3>1. ps = head \o UseOriginalBody
            BY <1>2, <2>2
        <3>2. SealedBefore(UseOriginalBody, ps, head, c.msg)
            BY <1>3, <3>1, HeadWithChunk
        <3> QED BY <2>2, <3>2
    <2> QED BY <2>1, <2>2
<1>5. HeadMeasured(h, ps)
    BY <1>1, <1>4 DEF HeadMeasured, SealedBefore
<1>6. HeadOwned(h, ps)
    <2>1. ps[1] = p
        BY <1>3, <1>4 DEF SealedBefore
    <2> QED BY <1>4, <2>1 DEF HeadOwned, SealedBefore
<1> QED BY <1>1, <1>2, <1>5, <1>6 DEF HttpHeadFor

(* http_buf is empty when a head is put into it.                           *)
LEMMA ClearedFirst ==
    ASSUME NEW s \in Seq(Pieces) PROVE Cleared(httpBuf) \o s = s
BY ConcatEmptySeq DEF Cleared

(* What setting the headers of an answer with an HTTP head leaves alone.   *)
LEMMA ResponseHeaders ==
    ASSUME NEW c \in Contexts
    PROVE  LET d == EnsureResponseHeaders(c)
           IN  /\ d \in Contexts /\ d.msg = c.msg /\ d.method = c.method
               /\ d.nullBody = c.nullBody /\ d.httpHdrs = c.httpHdrs
               /\ d.httpReq = c.httpReq /\ d.httpRes = c.httpRes
<1>1. EnsureResponseHeaders(c) \in Contexts
    BY EnsuredIsContext
<1> QED BY <1>1 DEF EnsureResponseHeaders, Contexts

(* The answer with the original HTTP head and what the service added.      *)
LEMMA AppendedAnswer ==
    ASSUME TypeOK, RequestInv, StreamInv, HeadInv, DecodedInv, CallsInv,
           AnswerInv, AppendHeaders
    PROVE  WriteInv'
<1> PICK m : m = Request(ctx.msg)
    OBVIOUS
<1> PICK r : r = LastCall.reply
    OBVIOUS
<1> PICK c : c = EnsureResponseHeaders(ctx)
    OBVIOUS
<1> DEFINE isReq == c.method = "REQMOD"
           head  == Cleared(httpBuf) \o HeadBytes(OriginalHead(c), c)
           body  == IF c.nullBody THEN "null-body"
                    ELSE IF isReq THEN "req-body" ELSE "res-body"
           enc   == [hdr |-> IF isReq THEN "req-hdr" ELSE "res-hdr",
                     body |-> body, off |-> BodyOffset(c, head)]
           status == IF c.nullBody THEN 200 ELSE 206
           p == IF isReq THEN [what |-> "request", msg |-> c.httpReq]
                ELSE [what |-> "response", msg |-> c.httpRes]
           h == IcapHead(c.msg, status, c.icapHdrs, {enc})
<1>1. /\ pc = "answer" /\ IsAnyReq(ctx) /\ ctx.decision = {"AppendHeaders"}
      /\ httpBuf' = WithChunk(c, head) /\ Reply(c, status, {enc})
    BY ZenonT(60) DEF AppendHeaders, Answering
<1>2. /\ ctx \in Contexts /\ m.method # "OPTIONS" /\ Output(r)
      /\ ctx.method = m.method /\ m \in Requests /\ m \in Messages
      /\ m.method \in Methods /\ Kinds(m) \in Shapes[m.method]
      /\ ctx.nullBody <=> ~ DeclaresBody(m)
      /\ HttpHeadsOf(ctx, m)
    BY <1>1, AnswerStarts
<1>3. /\ ~ r.err /\ r.decision = {"AppendHeaders"} /\ ctx.icapHdrs = r.icapHdrs
      /\ ctx.httpHdrs = IF r.addsHttp THEN <<ctx.msg>> ELSE <<>>
    BY <1>1, <1>2 DEF Output, OutputOf
<1>4. /\ c \in Contexts /\ c.msg = ctx.msg /\ c.method = ctx.method
      /\ c.nullBody = ctx.nullBody /\ c.httpHdrs = ctx.httpHdrs
      /\ c.httpReq = ctx.httpReq /\ c.httpRes = ctx.httpRes
    BY <1>2, ResponseHeaders
<1>5. /\ ~ Unusable(m, r) /\ HasHttpHead(m, r)
      /\ StatusFor(m, r) = IF DeclaresBody(m) THEN 206 ELSE 200
    BY <1>2, <1>3, StatusOf
<1>6. c.nullBody \in BOOLEAN /\ c.httpReq \in Nat /\ c.httpRes \in Nat
    BY <1>4 DEF Contexts
<1>7. /\ p \in Pieces /\ p.what \in {"request", "response"}
      /\ OriginalHead(c) = <<p>>
    BY <1>6 DEF Pieces, OriginalHead
<1>8. p.msg = c.msg
    <2>1. CASE m.method = "REQMOD"
        <3>1. HasEntity(m, "req-hdr")
            BY <1>2, <2>1, LastOfShape
        <3>2. m.reqLen > 0
            BY <1>2, <3>1, MessagesAssumption
        <3> QED BY <1>2, <1>4, <2>1, <3>2 DEF HttpHeadsOf
    <2>2. CASE m.method = "RESPMOD"
        <3>1. HasEntity(m, "res-hdr")
            BY <1>2, <2>2, LastOfShape
        <3>2. m.resLen > 0
            BY <1>2, <3>1, MessagesAssumption
        <3> QED BY <1>2, <1>4, <2>2, <3>2 DEF HttpHeadsOf
    <2> QED BY <1>2, <2>1, <2>2 DEF Methods
<1>9. \A i \in DOMAIN c.httpHdrs : c.httpHdrs[i] = c.msg
    BY <1>3, <1>4
<1> HIDE DEF p
<1>10. /\ HeadBytes(<<p>>, c) \in Seq(Pieces)
       /\ Len(HeadBytes(<<p>>, c)) \in Nat
    BY <1>4, <1>7, <1>9, HeadEnds DEF Sealed
<1>11. head = HeadBytes(<<p>>, c)
    BY <1>7, <1>10, ClearedFirst
<1> HIDE DEF head
<1>12. /\ enc.off = Len(HeadBytes(<<p>>, c))
       /\ enc.body = "null-body" <=> c.nullBody
       /\ enc \in Encapsulated
    BY <1>6, <1>10, <1>11 DEF BodyOffset, Encapsulated, HeaderKinds, BodyKinds
<1> HIDE DEF enc
<1>13. /\ h.msg = c.msg /\ h.enc = {enc}
    BY DEF IcapHead
<1>14. HttpHeadFor(h, httpBuf')
    <2>1. httpBuf' = IF c.nullBody THEN HeadBytes(<<p>>, c)
                     ELSE HeadBytes(<<p>>, c) \o UseOriginalBody
        BY <1>1, <1>11 DEF WithChunk
    <2> HIDE DEF h
    <2>2. p.msg = IF p.what = "status" /\ Request(c.msg).reqLen = 0
                  THEN 0 ELSE c.msg
        BY <1>7, <1>8
    <2>3. HttpHeadFor(h, IF c.nullBody THEN HeadBytes(<<p>>, c)
                         ELSE HeadBytes(<<p>>, c) \o UseOriginalBody)
        BY <1>4, <1>6, <1>7, <1>9, <1>12, <1>13, <2>2, HttpHeadMade
    <2> QED BY <2>1, <2>3
<1>15. status = StatusFor(m, r) /\ status \in Statuses
    BY <1>2, <1>4, <1>5 DEF Statuses
<1> HIDE DEF status
<1>16. AnswerTo(h, m, r)
    <2>1. c.icapHdrs = ServerHeaders(m, r) \cup r.icapHdrs
        BY <1>2, <1>3, <1>5, HeadersMade
    <2> QED BY <1>5, <1>15, <2>1, AnswerMade
<1>17. {enc} \in Option(Encapsulated) /\ sent' = sent
    BY <1>1, <1>12 DEF Option, Reply, clientVars
<1> QED BY <1>1, <1>2, <1>4, <1>5, <1>14, <1>15, <1>16, <1>17, ReplyMakes

(* The answer with the response of the service.                            *)
LEMMA CustomAnswer ==
    ASSUME TypeOK, RequestInv, StreamInv, HeadInv, DecodedInv, CallsInv,
           AnswerInv, CustomResponse
    PROVE  WriteInv'
<1> PICK m : m = Request(ctx.msg)
    OBVIOUS
<1> PICK r : r = LastCall.reply
    OBVIOUS
<1> PICK c : c = EnsureResponseHeaders(ctx)
    OBVIOUS
<1> DEFINE p == [what |-> "status", msg |-> c.httpReq]
           head == Cleared(httpBuf) \o HeadBytes(<<p>>, c)
           enc == [hdr |-> "res-hdr", body |-> "null-body", off |-> Len(head)]
           h == IcapHead(c.msg, 200, c.icapHdrs, {enc})
<1>1. /\ pc = "answer" /\ IsAnyReq(ctx) /\ ctx.decision = {"CustomResponse"}
      /\ ctx.httpStatus # {}
      /\ httpBuf' = head /\ Reply(c, 200, {enc})
    BY Zenon DEF CustomResponse, Answering
<1>2. /\ ctx \in Contexts /\ m.method # "OPTIONS" /\ Output(r)
      /\ m \in Requests /\ HttpHeadsOf(ctx, m)
    BY <1>1, AnswerStarts
<1>3. /\ ~ r.err /\ r.decision = {"CustomResponse"} /\ r.httpStatus # {}
      /\ ctx.icapHdrs = r.icapHdrs
      /\ ctx.httpHdrs = IF r.addsHttp THEN <<ctx.msg>> ELSE <<>>
    BY <1>1, <1>2 DEF Output, OutputOf
<1>4. /\ c \in Contexts /\ c.msg = ctx.msg
      /\ c.httpHdrs = ctx.httpHdrs /\ c.httpReq = ctx.httpReq
    BY <1>2, ResponseHeaders
<1>5. ~ Unusable(m, r) /\ HasHttpHead(m, r) /\ StatusFor(m, r) = 200
    BY <1>2, <1>3, StatusOf
<1>6. c.httpReq \in Nat /\ m.reqLen \in Nat
    BY <1>2, <1>4 DEF Contexts, Requests
<1>7. p \in Pieces /\ p.what = "status"
    BY <1>6 DEF Pieces
<1>8. p.msg = IF m.reqLen = 0 THEN 0 ELSE c.msg
    BY <1>2, <1>4, <1>6 DEF HttpHeadsOf
<1>9. \A i \in DOMAIN c.httpHdrs : c.httpHdrs[i] = c.msg
    BY <1>3, <1>4
<1> HIDE DEF p
<1>10. /\ HeadBytes(<<p>>, c) \in Seq(Pieces)
       /\ Len(HeadBytes(<<p>>, c)) \in Nat
    BY <1>4, <1>7, <1>9, HeadEnds DEF Sealed
<1>11. head = HeadBytes(<<p>>, c)
    BY <1>10, ClearedFirst
<1> HIDE DEF head
<1>12. /\ enc.off = Len(HeadBytes(<<p>>, c)) /\ enc.body = "null-body"
       /\ enc \in Encapsulated
    BY <1>10, <1>11 DEF Encapsulated, HeaderKinds, BodyKinds
<1> HIDE DEF enc
<1>13. /\ h.msg = c.msg /\ h.enc = {enc}
    BY DEF IcapHead
<1>14. HttpHeadFor(h, httpBuf')
    <2>1. httpBuf' = IF TRUE THEN HeadBytes(<<p>>, c)
                     ELSE HeadBytes(<<p>>, c) \o UseOriginalBody
        BY <1>1, <1>11
    <2> HIDE DEF h
    <2>2. p.msg = IF p.what = "status" /\ Request(c.msg).reqLen = 0
                  THEN 0 ELSE c.msg
        BY <1>4, <1>7, <1>8
    <2>3. HttpHeadFor(h, IF TRUE THEN HeadBytes(<<p>>, c)
                         ELSE HeadBytes(<<p>>, c) \o UseOriginalBody)
        BY <1>4, <1>7, <1>9, <1>12, <1>13, <2>2, HttpHeadMade
    <2> QED BY <2>1, <2>3
<1>15. AnswerTo(h, m, r)
    <2>1. c.icapHdrs = ServerHeaders(m, r) \cup r.icapHdrs
        BY <1>2, <1>3, <1>5, HeadersMade
    <2> QED BY <1>5, <2>1, AnswerMade
<1>16. {enc} \in Option(Encapsulated) /\ sent' = sent /\ 200 \in Statuses
    BY <1>1, <1>12 DEF Option, Reply, clientVars, Statuses
<1> QED BY <1>1, <1>2, <1>4, <1>5, <1>14, <1>15, <1>16, ReplyMakes

(* A step that leaves a request what it is leaves what goes with it.       *)
LEMMA HttpHeadKept ==
    ASSUME NEW h, NEW ps, Request(h.msg)' = Request(h.msg)
    PROVE  HttpHeadFor(h, ps)' <=> HttpHeadFor(h, ps)
BY DEF HttpHeadFor, HeadMeasured, HeadOwned, Request

(* Every step keeps WriteInv.                                              *)
LEMMA WriteStep ==
    ASSUME TypeOK, RequestInv, StreamInv, HeadInv, DecodedInv, CallsInv,
           AnswerInv, WriteInv, [Next]_vars
    PROVE  WriteInv'
<1>1. CASE Stay \/ Leave
    <2>1. CASE pc' # "write"
        BY <2>1 DEF WriteInv
    <2>2. CASE pc' = "write"
        <3>1. UNCHANGED <<pc, ctx, httpBuf, wbuf, calls>> /\ pc = "write"
            BY <1>1, <2>2 DEF Stay, Leave, Ended
        <3>2. ctx.msg \in DOMAIN sent
            BY <3>1 DEF RequestInv, Decoded
        <3>3. PICK h : h = wbuf[1]
            OBVIOUS
        <3>4. PICK ps : ps = httpBuf
            OBVIOUS
        <3>5. h.msg = ctx.msg
            BY <3>1, <3>3 DEF WriteInv
        <3>6. Request(h.msg)' = Request(h.msg)
            BY <3>2, <3>5, SentKept
        <3>7. HttpHeadFor(h, ps)' <=> HttpHeadFor(h, ps)
            BY <3>6, HttpHeadKept
        <3>8. Request(ctx.msg)' = Request(ctx.msg)
            BY <3>1, <3>2, SentKept DEF Request
        <3>9. HttpHeadFor(wbuf[1], httpBuf)' <=> HttpHeadFor(h, ps)'
            BY <3>1, <3>3, <3>4 DEF HttpHeadFor, HeadMeasured, HeadOwned,
                                    Request
        <3> QED BY <3>1, <3>3, <3>4, <3>7, <3>8, <3>9
                DEF WriteInv, LastCallFor, LastCall
    <2> QED BY <2>1, <2>2
<1>2. CASE Replying
    BY <1>2, OptionsAnswer, NoContentAnswer, AppendedAnswer, CustomAnswer
       DEF Replying
<1>3. CASE \/ RecvHead \/ RecvMissing \/ RecvChunk
           \/ InitPartial \/ InitComplete \/ HeadersReceived
           \/ ChunkMore \/ ChunkOk \/ ParseOk \/ Refusals
           \/ ServiceFails \/ ServiceReturns \/ ServicePanics
           \/ Failing \/ Writing \/ Yield
    <2>1. pc' # "write"
        BY <1>3, Paths DEF Writing
    <2> QED BY <2>1 DEF WriteInv
<1> QED BY <1>1, <1>2, <1>3, StepCases

-----------------------------------------------------------------------------
(* What has been written.                                                  *)

(* A write added to those before.                                          *)
LEMMA WriteAdded ==
    ASSUME TypeOK, NEW w \in Writes, out' = Append(out, w),
           NEW n \in Nat, n = Len(out) + 1
    PROVE  /\ DOMAIN out = 1 .. Len(out) /\ Len(out) \in Nat
           /\ DOMAIN out' = 1 .. n /\ Len(out') = n
           /\ out' # <<>>
           /\ \A i \in DOMAIN out : out'[i] = out[i] /\ i \in DOMAIN out'
           /\ \A i \in DOMAIN out' : i \in DOMAIN out \/ i = n
           /\ out'[n] = w
<1>1. out \in Seq(Writes)
    BY DEF TypeOK
<1>2. /\ DOMAIN out = 1 .. Len(out) /\ Len(out) \in Nat
      /\ out' \in Seq(Writes) /\ Len(out') = n
      /\ \A i \in 1 .. Len(out) : out'[i] = out[i]
      /\ out'[n] = w
    BY <1>1, AppendProperties
<1>3. DOMAIN out' = 1 .. n
    BY <1>2
<1>4. out' # <<>>
    BY <1>2
<1> QED BY <1>2, <1>3, <1>4

(* The writes, one at a time.                                              *)
LEMMA WritesMade ==
    ASSUME TypeOK
    PROVE  /\ WriteStatus \/ WriteHead
                 => /\ [heads |-> wbuf, pieces |-> <<>>] \in Writes
                    /\ out' = Append(out, [heads |-> wbuf, pieces |-> <<>>])
           /\ WriteHttp
                 => /\ [heads |-> <<>>, pieces |-> httpBuf] \in Writes
                    /\ out' = Append(out, [heads |-> <<>>, pieces |-> httpBuf])
           /\ Writing => UNCHANGED <<clientVars, bufVars, ctx, httpBuf, wbuf,
                                     calls>>
<1>1. /\ <<>> \in Seq(Heads) /\ <<>> \in Seq(Pieces)
      /\ wbuf \in Seq(Heads) /\ httpBuf \in Seq(Pieces)
    BY DEF TypeOK
<1> QED BY <1>1 DEF WriteStatus, WriteHead, WriteHttp, Write, Writing, Writes

(* Every step keeps HttpInv.                                               *)
LEMMA HttpStep ==
    ASSUME TypeOK, RequestInv, WriteInv, HttpInv, [Next]_vars
    PROVE  HttpInv'
<1>1. CASE Stay \/ Leave
    <2>1. CASE pc' # "http"
        BY <2>1 DEF HttpInv
    <2>2. CASE pc' = "http"
        <3>1. UNCHANGED <<pc, ctx, httpBuf, out>> /\ pc = "http"
            BY <1>1, <2>2 DEF Stay, Leave, Ended
        <3>2. ctx.msg \in DOMAIN sent
            BY <3>1 DEF RequestInv, Decoded
        <3>3. PICK h : h = out[Len(out)].heads[1]
            OBVIOUS
        <3>4. PICK ps : ps = httpBuf
            OBVIOUS
        <3>5. h.msg = ctx.msg
            BY <3>1, <3>3 DEF HttpInv
        <3>6. Request(h.msg)' = Request(h.msg)
            BY <3>2, <3>5, SentKept
        <3>7. HttpHeadFor(h, ps)' <=> HttpHeadFor(h, ps)
            BY <3>6, HttpHeadKept
        <3>8. HttpHeadFor(out[Len(out)].heads[1], httpBuf)'
                 <=> HttpHeadFor(h, ps)'
            BY <3>1, <3>3, <3>4 DEF HttpHeadFor, HeadMeasured, HeadOwned,
                                    Request
        <3> QED BY <3>1, <3>3, <3>4, <3>7, <3>8 DEF HttpInv
    <2> QED BY <2>1, <2>2
<1>2. CASE WriteHead
    <2>1. PICK w : w = [heads |-> wbuf, pieces |-> <<>>]
        OBVIOUS
    <2>2. /\ w \in Writes /\ out' = Append(out, w) /\ w.heads = wbuf
          /\ UNCHANGED <<sent, ctx, httpBuf, wbuf, calls>>
        BY <1>2, <2>1, WritesMade DEF Writing, clientVars
    <2>3. PICK n \in Nat : n = Len(out) + 1
        BY DEF TypeOK
    <2>4. out' # <<>> /\ out'[Len(out')] = w
        BY <2>2, <2>3, WriteAdded
    <2>5. /\ Len(wbuf) = 1 /\ wbuf[1].msg = ctx.msg
          /\ wbuf[1].http => HttpHeadFor(wbuf[1], httpBuf)
        BY <1>2 DEF WriteInv, WriteHead
    <2>6. pc' = "http" => wbuf[1].http
        BY <1>2, <2>5 DEF WriteHead
    <2>7. PICK h : h = wbuf[1]
        OBVIOUS
    <2>8. PICK ps : ps = httpBuf
        OBVIOUS
    <2>9. Request(h.msg)' = Request(h.msg)
        BY <2>2 DEF Request
    <2>10. HttpHeadFor(h, ps)' <=> HttpHeadFor(h, ps)
        BY <2>9, HttpHeadKept
    <2>11. out'[Len(out')].heads = wbuf
        BY <2>2, <2>4
    <2>12. HttpHeadFor(out[Len(out)].heads[1], httpBuf)' <=> HttpHeadFor(h, ps)'
        BY <2>2, <2>11, <2>7, <2>8 DEF HttpHeadFor, HeadMeasured, HeadOwned,
                                      Request
    <2> QED BY <2>2, <2>4, <2>5, <2>6, <2>7, <2>8, <2>10, <2>11, <2>12
            DEF HttpInv
<1>3. CASE \/ RecvHead \/ RecvMissing \/ RecvChunk
           \/ InitPartial \/ InitComplete \/ HeadersReceived
           \/ ChunkMore \/ ChunkOk \/ ParseOk \/ Refusals
           \/ ServiceFails \/ ServiceReturns \/ ServicePanics
           \/ Replying \/ Failing \/ WriteStatus \/ WriteHttp \/ Yield
    <2>1. pc' # "http"
        BY <1>3, Paths
    <2> QED BY <2>1 DEF HttpInv
<1> QED BY <1>1, <1>2, <1>3, StepCases DEF Writing

(* Every step keeps YieldInv.                                              *)
LEMMA YieldStep ==
    ASSUME TypeOK, RequestInv, WriteInv, HttpInv, YieldInv, [Next]_vars
    PROVE  YieldInv'
<1>1. CASE Stay \/ Leave
    <2>1. CASE pc' # "yield"
        BY <2>1 DEF YieldInv
    <2>2. CASE pc' = "yield"
        <3>1. UNCHANGED <<pc, ctx, out>>
            BY <1>1, <2>2 DEF Stay, Leave, Ended
        <3> QED BY <3>1 DEF YieldInv, Answered, HeadsOf
    <2> QED BY <2>1, <2>2
<1>2. CASE WriteHead
    <2>1. PICK w : w = [heads |-> wbuf, pieces |-> <<>>]
        OBVIOUS
    <2>2. /\ w \in Writes /\ out' = Append(out, w) /\ w.heads = wbuf
          /\ ctx' = ctx
        BY <1>2, <2>1, WritesMade DEF Writing
    <2>3. PICK n \in Nat : n = Len(out) + 1
        BY DEF TypeOK
    <2>4. n \in DOMAIN out' /\ out'[n] = w
        BY <2>2, <2>3, WriteAdded
    <2>5. Len(wbuf) = 1 /\ wbuf[1].msg = ctx.msg /\ 1 \in DOMAIN wbuf
        BY <1>2 DEF WriteInv, WriteHead, TypeOK
    <2>6. pc' = "yield" => ~ wbuf[1].http
        BY <1>2, <2>5 DEF WriteHead
    <2>7. wbuf[1] \in HeadsOf(n)'
        BY <2>2, <2>4, <2>5 DEF HeadsOf
    <2> QED BY <2>2, <2>4, <2>5, <2>6, <2>7 DEF YieldInv, Answered
<1>3. CASE WriteHttp
    <2>1. PICK w : w = [heads |-> <<>>, pieces |-> httpBuf]
        OBVIOUS
    <2>2. w \in Writes /\ out' = Append(out, w) /\ ctx' = ctx
        BY <1>3, <2>1, WritesMade DEF Writing
    <2>3. PICK n \in Nat : n = Len(out) + 1
        BY DEF TypeOK
    <2>4. PICK k : k = Len(out)
        OBVIOUS
    <2>5. /\ out # <<>> /\ Len(out[k].heads) = 1
          /\ out[k].heads[1].msg = ctx.msg
        BY <1>3, <2>4 DEF HttpInv, WriteHttp
    <2>6. k \in DOMAIN out
        BY <2>4, <2>5, EmptySeq DEF TypeOK
    <2>7. k \in DOMAIN out' /\ out'[k] = out[k] /\ k < Len(out')
        BY <2>2, <2>3, <2>4, <2>6, WriteAdded
    <2>8. 1 \in DOMAIN out[k].heads
        <3>1. out[k] \in Writes
            BY <2>6, ElementOfSeq DEF TypeOK
        <3> QED BY <2>5, <3>1 DEF Writes
    <2>9. out[k].heads[1] \in HeadsOf(k)'
        BY <2>7, <2>8 DEF HeadsOf
    <2> QED BY <2>2, <2>5, <2>7, <2>9 DEF YieldInv, Answered
<1>4. CASE \/ RecvHead \/ RecvMissing \/ RecvChunk
           \/ InitPartial \/ InitComplete \/ HeadersReceived
           \/ ChunkMore \/ ChunkOk \/ ParseOk \/ Refusals
           \/ ServiceFails \/ ServiceReturns \/ ServicePanics
           \/ Replying \/ Failing \/ WriteStatus \/ Yield
    <2>1. pc' # "yield"
        BY <1>4, Paths
    <2> QED BY <2>1 DEF YieldInv
<1> QED BY <1>1, <1>2, <1>3, <1>4, StepCases DEF Writing

(* The calls there have been for a request stay.                           *)
LEMMA CallsForGrow ==
    ASSUME TypeOK, [Next]_vars, NEW k
    PROVE  CallsFor(k) \subseteq CallsFor(k)'
<1>1. CASE calls' = calls
    BY <1>1 DEF CallsFor
<1>2. CASE \E r \in Replies : Called(r)
    <2>1. PICK r \in Replies : Called(r)
        BY <1>2
    <2>2. PICK n \in Nat : n = Len(calls) + 1
        BY DEF TypeOK
    <2>3. /\ DOMAIN calls = 1 .. Len(calls) /\ DOMAIN calls' = 1 .. n
          /\ Len(calls) \in Nat
          /\ \A i \in DOMAIN calls : calls'[i] = calls[i]
        BY <2>1, <2>2, CallAdded
    <2>4. \A i \in DOMAIN calls : i \in DOMAIN calls'
        BY <2>2, <2>3
    <2> QED BY <2>3, <2>4 DEF CallsFor
<1> QED BY <1>1, <1>2, CallsGrow

(* What is true of an ICAP head that has been written stays true of it.    *)
LEMMA WrittenKept ==
    ASSUME TypeOK, [Next]_vars, NEW h, WrittenInv(h),
           h.close => pc \in Ended
    PROVE  WrittenInv(h)'
<1>1. CASE h.msg = 0
    BY <1>1 DEF WrittenInv
<1>2. CASE h.msg # 0
    <2>1. PICK k : k = h.msg
        OBVIOUS
    <2>2. k \in DOMAIN sent
        BY <1>2, <2>1 DEF WrittenInv
    <2>3. k \in DOMAIN sent' /\ Request(k)' = Request(k)
        BY <2>2, SentKept
    <2>4. Request(h.msg)' = Request(h.msg) /\ CallsFor(h.msg)' = CallsFor(k)'
        BY <2>1, <2>3 DEF Request, CallsFor
    <2>5. CASE \E c \in CallsFor(h.msg) : AnswerTo(h, Request(h.msg), c.reply)
        BY <1>2, <2>1, <2>3, <2>4, <2>5, CallsForGrow DEF WrittenInv
    <2>6. CASE h = StatusHead(h.msg, 400) /\ CallsFor(h.msg) = {}
               /\ Refusable(Request(h.msg))
        <3>1. h.close
            BY <2>6 DEF StatusHead, IcapHead
        <3>2. calls' = calls
            BY <3>1, CallsGrow DEF Ended
        <3>3. CallsFor(h.msg)' = {}
            BY <2>6, <3>2 DEF CallsFor
        <3> QED BY <1>2, <2>1, <2>3, <2>4, <2>6, <3>3 DEF WrittenInv
    <2> QED BY <1>2, <2>5, <2>6 DEF WrittenInv
<1> QED BY <1>1, <1>2

(* The last call for a request is one of those for it.                     *)
LEMMA LastIsFor ==
    ASSUME TypeOK, NEW k, LastCallFor(k)
    PROVE  LastCall \in CallsFor(k)
<1>1. Len(calls) \in DOMAIN calls
    BY EmptySeq DEF LastCallFor, TypeOK
<1> QED BY <1>1 DEF LastCallFor, LastCall, CallsFor

(* What an ICAP head is when it is written.                                *)
LEMMA WrittenNow ==
    ASSUME TypeOK, RequestInv, StatusInv, WriteInv, WriteStatus \/ WriteHead
    PROVE  /\ Len(wbuf) = 1 /\ 1 \in DOMAIN wbuf /\ DOMAIN wbuf = {1}
           /\ WrittenInv(wbuf[1])
           /\ wbuf[1].http => pc' = "http"
<1>1. PICK h : h = wbuf[1]
    OBVIOUS
<1>2. CASE WriteStatus
    <2>1. pc = "status" /\ Len(wbuf) = 1
        BY <1>2 DEF WriteStatus, StatusInv
    <2>2. CASE RefusalInv(wbuf[1])
        <3>1. h = StatusHead(h.msg, 400)
            BY <1>1, <2>2 DEF RefusalInv
        <3>2. ~ h.http
            BY <3>1, ZenonT(60) DEF StatusHead, IcapHead
        <3>3. CASE h.msg = 0
            BY <1>1, <2>1, <3>1, <3>2, <3>3 DEF WrittenInv, TypeOK
        <3>4. CASE h.msg # 0
            <4>1. /\ h.msg \in DOMAIN sent /\ sent[h.msg].start = base
                  /\ Refusable(Request(h.msg))
                  /\ \A i \in DOMAIN calls : sent[calls[i].msg].start < base
                BY <1>1, <2>2, <3>4 DEF RefusalInv
            <4>2. base \in Nat
                BY DEF TypeOK
            <4>3. \A i \in DOMAIN calls : calls[i].msg # h.msg
                BY <4>1, <4>2
            <4>4. CallsFor(h.msg) = {}
                BY <4>3 DEF CallsFor
            <4> QED BY <1>1, <2>1, <3>1, <3>2, <3>4, <4>1, <4>4
                    DEF WrittenInv, TypeOK
        <3> QED BY <3>3, <3>4
    <2>3. CASE ~ RefusalInv(wbuf[1])
        <3>1. /\ LastCallFor(h.msg) /\ h.msg \in DOMAIN sent
              /\ Unusable(Request(h.msg), LastCall.reply)
              /\ h = StatusHead(h.msg, 500)
            BY <1>1, <2>1, <2>3 DEF StatusInv
        <3>2. ~ h.http
            <4>1. \A k : ~ StatusHead(k, 500).http
                BY DEF StatusHead, IcapHead
            <4> QED BY <3>1, <4>1
        <3>3. AnswerTo(h, Request(h.msg), LastCall.reply)
            BY <3>1 DEF AnswerTo
        <3>4. h.msg # 0
            BY <3>1, SentIsRequest
        <3>5. LastCall \in CallsFor(h.msg)
            BY <3>1, LastIsFor
        <3>6. WrittenInv(h)
            BY <3>1, <3>3, <3>4, <3>5, Zenon DEF WrittenInv
        <3> QED BY <1>1, <2>1, <3>2, <3>6 DEF TypeOK
    <2> QED BY <2>2, <2>3
<1>3. CASE WriteHead
    <2>1. /\ pc = "write" /\ Len(wbuf) = 1 /\ h.msg = ctx.msg
          /\ LastCallFor(ctx.msg)
          /\ AnswerTo(h, Request(ctx.msg), LastCall.reply)
        BY <1>1, <1>3 DEF WriteInv, WriteHead
    <2>2. h.msg \in DOMAIN sent /\ h.msg # 0
        BY <2>1, SentIsRequest DEF RequestInv, Decoded
    <2>3. LastCall \in CallsFor(h.msg)
        BY <2>1, LastIsFor
    <2>4. wbuf[1].http => pc' = "http"
        BY <1>3, <2>1 DEF WriteHead
    <2> QED BY <1>1, <2>1, <2>2, <2>3, <2>4 DEF WrittenInv, TypeOK
<1> QED BY <1>2, <1>3

(* A task that is to write an HTTP head writes it, or goes away because    *)
(* the client has.                                                         *)
LEMMA HttpOrGone ==
    ASSUME [Next]_vars, ~ Writing
    PROVE  /\ pc = "http" => \/ pc' = "http"
                             \/ client' = "gone" /\ pc' \in {"shutdown", "done"}
           /\ client = "gone" /\ pc \in {"shutdown", "done"}
                 => client' = "gone" /\ pc' \in {"shutdown", "done"}
<1>1. CASE Client \/ Terminated \/ UNCHANGED vars
    BY <1>1 DEF Client, ClientSend, ClientClose, ClientGone, ClientRead,
                Terminated, vars
<1>2. CASE WriteFail \/ Shutdown
    BY <1>2 DEF WriteFail, Shutdown, Abandon, Goto, clientVars
<1>3. CASE RecvEof \/ RecvError \/ RecvTimeout \/ AllocFails
    <2>1. pc \in {"init", "head", "chunkrecv", "missing"}
        BY <1>3 DEF RecvEof, RecvError, RecvTimeout, AllocFails, Reading
    <2> QED BY <2>1
<1>4. CASE \/ RecvHead \/ RecvMissing \/ RecvChunk
           \/ InitPartial \/ InitComplete \/ HeadersReceived
           \/ ChunkMore \/ ChunkOk \/ ParseOk \/ Refusals
           \/ ServiceFails \/ ServiceReturns \/ ServicePanics
           \/ Replying \/ Failing \/ Yield
    <2>1. pc \notin {"http", "shutdown", "done"}
        BY <1>4, Paths
    <2> QED BY <2>1
<1> QED BY <1>1, <1>2, <1>3, <1>4
        DEF Next, Recv, Local, Service, WriteOut, Writing, Refusals, Replying,
            Failing

(* The head before an HTTP head.                                           *)
LEMMA PairHead ==
    ASSUME TypeOK, OutInv, NEW i \in 2 .. Len(out), out[i].heads = <<>>
    PROVE  /\ i - 1 \in DOMAIN out /\ Len(out[i - 1].heads) = 1
           /\ out[i - 1].heads[1] \in HeadsOf(i - 1)
           /\ out[i - 1].heads[1].http
           /\ out[i - 1].heads[1].msg \in DOMAIN sent
           /\ HttpHeadFor(out[i - 1].heads[1], out[i].pieces)
<1>1. DOMAIN out = 1 .. Len(out) /\ Len(out) \in Nat
    BY DEF TypeOK
<1>2. PICK k : k = i - 1
    OBVIOUS
<1>3. k \in DOMAIN out /\ i \in DOMAIN out /\ k + 1 = i /\ k < Len(out)
    BY <1>1, <1>2
<1>4. PICK h : h = out[k].heads[1]
    OBVIOUS
<1>5. Len(out[k].heads) = 1 /\ h.http
    BY <1>1, <1>2, <1>3, <1>4 DEF OutInv, HttpHeadFollowsIcapHead
<1>6. out[k] \in Writes
    BY <1>3, ElementOfSeq DEF TypeOK
<1>7. h \in HeadsOf(k)
    BY <1>4, <1>5, <1>6 DEF HeadsOf, Writes
<1>8. WrittenInv(h)
    BY <1>3, <1>7 DEF OutInv
<1>9. h.msg \in DOMAIN sent
    <2>1. ~ StatusHead(0, 400).http
        BY DEF StatusHead, IcapHead
    <2> QED BY <1>5, <1>8, <2>1 DEF WrittenInv
<1> QED BY <1>2, <1>3, <1>4, <1>5, <1>7, <1>9 DEF OutInv, PairInv

(* Every step that writes nothing keeps OutInv.                            *)
LEMMA OutKept ==
    ASSUME TypeOK, RequestInv, OrderInv, OutInv, [Next]_vars, ~ Writing
    PROVE  OutInv'
<1>1. out' = out
    BY Frame
<1>2. \A i \in DOMAIN out' : \A h \in HeadsOf(i)' : WrittenInv(h)'
    <2> TAKE i \in DOMAIN out'
    <2> TAKE h \in HeadsOf(i)'
    <2>1. i \in DOMAIN out /\ h \in HeadsOf(i)
        BY <1>1 DEF HeadsOf
    <2>2. WrittenInv(h) /\ (h.close => pc \in Ended)
        BY <2>1 DEF OutInv, OrderInv
    <2> QED BY <2>2, WrittenKept
<1>3. HttpHeadFollowsIcapHead'
    BY <1>1, HttpOrGone, SMTT(40) DEF OutInv, HttpHeadFollowsIcapHead
<1>4. PairInv'
    <2> SUFFICES ASSUME NEW i \in 2 .. Len(out'), out'[i].heads = <<>>
                 PROVE  HttpHeadFor(out[i - 1].heads[1], out[i].pieces)'
        BY DEF PairInv
    <2>1. i \in 2 .. Len(out) /\ out[i].heads = <<>>
        BY <1>1
    <2>2. PICK h : h = out[i - 1].heads[1]
        OBVIOUS
    <2>3. PICK ps : ps = out[i].pieces
        OBVIOUS
    <2>4. h.msg \in DOMAIN sent /\ HttpHeadFor(h, ps)
        BY <2>1, <2>2, <2>3, PairHead
    <2>5. HttpHeadFor(h, ps)'
        BY <2>4, SentKept, HttpHeadKept
    <2> QED BY <1>1, <2>2, <2>3, <2>5
            DEF HttpHeadFor, HeadMeasured, HeadOwned, Request
<1>5. base' # 0 \/ pc' \in {"http", "yield"} => out' # <<>>
    <2>1. CASE Yield
        BY <1>1, <2>1 DEF Yield, OutInv
    <2>2. CASE ~ Yield
        <3>1. base' = base
            BY <2>2, Frame
        <3>2. pc' \in {"http", "yield"} => pc \in {"http", "yield"}
            <4>1. CASE Stay \/ Leave
                BY <4>1 DEF Stay, Leave, Ended
            <4>2. CASE ~ (Stay \/ Leave)
                <5>1. pc' \notin {"http", "yield"}
                    BY <2>2, <4>2, StepCases, Paths
                <5> QED BY <5>1
            <4> QED BY <4>1, <4>2
        <3> QED BY <1>1, <3>1, <3>2 DEF OutInv
    <2> QED BY <2>1, <2>2
<1> QED BY <1>2, <1>3, <1>4, <1>5 DEF OutInv

(* Every step keeps OutInv.                                                *)
LEMMA OutStep ==
    ASSUME TypeOK, RequestInv, PendingInv, OrderInv, StatusInv, WriteInv,
           HttpInv, OutInv, [Next]_vars
    PROVE  OutInv'
<1>1. CASE ~ Writing
    BY <1>1, OutKept
<1>2. CASE Writing
    <2>1. PICK n \in Nat : n = Len(out) + 1
        BY DEF TypeOK
    <2>2. PICK w \in Writes :
             /\ out' = Append(out, w)
             /\ \/ /\ WriteStatus \/ WriteHead
                   /\ w.heads = wbuf
                \/ WriteHttp /\ w.heads = <<>> /\ w.pieces = httpBuf
        BY <1>2, WritesMade DEF Writing
    <2>3. /\ DOMAIN out = 1 .. Len(out) /\ Len(out) \in Nat
          /\ DOMAIN out' = 1 .. n /\ Len(out') = n
          /\ out' # <<>>
          /\ \A i \in DOMAIN out : out'[i] = out[i] /\ i \in DOMAIN out'
          /\ \A i \in DOMAIN out' : i \in DOMAIN out \/ i = n
          /\ out'[n] = w
        BY <2>1, <2>2, WriteAdded
    <2>4. /\ UNCHANGED <<sent, base, httpBuf, calls>>
          /\ \A k : Request(k)' = Request(k)
        BY <1>2, WritesMade DEF clientVars, bufVars, Request
    <2>5. WriteStatus \/ WriteHead =>
             /\ Len(wbuf) = 1 /\ DOMAIN wbuf = {1}
             /\ WrittenInv(wbuf[1])
             /\ wbuf[1].http => pc' = "http"
        BY WrittenNow
    <2>6. pc # "http" /\ pc \notin Ended <=> WriteStatus \/ WriteHead
        BY <1>2, Paths DEF Writing, Ended
    <2>7. \A i \in DOMAIN out' : \A h \in HeadsOf(i)' : WrittenInv(h)'
        <3> TAKE i \in DOMAIN out'
        <3> TAKE h \in HeadsOf(i)'
        <3>1. CASE i \in DOMAIN out
            <4>1. h \in HeadsOf(i)
                BY <2>3, <3>1 DEF HeadsOf
            <4>2. WrittenInv(h) /\ (h.close => pc \in Ended)
                BY <3>1, <4>1 DEF OutInv, OrderInv
            <4> QED BY <4>2, WrittenKept
        <3>2. CASE i = n
            <4>1. PICK j \in DOMAIN w.heads : h = w.heads[j]
                BY <2>3, <3>2 DEF HeadsOf
            <4>2. h = wbuf[1] /\ WrittenInv(h)
                BY <2>2, <2>5, <4>1
            <4> QED BY <2>4, <4>2 DEF WrittenInv, AnswerTo, CallsFor, Request
        <3> QED BY <2>3, <3>1, <3>2
    <2>8. HttpHeadFollowsIcapHead'
        <3> SUFFICES ASSUME NEW i \in DOMAIN out'
                     PROVE  IF out'[i].heads = <<>>
                            THEN i > 1 /\ out'[i - 1].heads # <<>>
                            ELSE /\ Len(out'[i].heads) = 1
                                 /\ IF out'[i].heads[1].http
                                    THEN IF i < Len(out')
                                         THEN out'[i + 1].heads = <<>>
                                         ELSE pc' = "http"
                                    ELSE i < Len(out')
                                            => out'[i + 1].heads # <<>>
            BY DEF HttpHeadFollowsIcapHead
        <3>1. CASE i \in DOMAIN out /\ out[i].heads = <<>>
            <4>1. i > 1 /\ out[i - 1].heads # <<>>
                BY <3>1 DEF OutInv, HttpHeadFollowsIcapHead
            <4>2. i - 1 \in DOMAIN out
                BY <2>3, <3>1, <4>1
            <4> QED BY <2>3, <3>1, <4>1, <4>2
        <3>2. CASE i \in DOMAIN out /\ out[i].heads # <<>> /\ i < Len(out)
            <4>1. i + 1 \in DOMAIN out /\ i < Len(out')
                BY <2>1, <2>3, <3>2
            <4>2. out'[i] = out[i] /\ out'[i + 1] = out[i + 1]
                BY <2>3, <3>2, <4>1
            <4> QED BY <3>2, <4>1, <4>2 DEF OutInv, HttpHeadFollowsIcapHead
        <3>3. CASE i = Len(out) /\ i \in DOMAIN out /\ out[i].heads # <<>>
            <4>1. i + 1 = n /\ i < Len(out') /\ out'[i] = out[i]
                BY <2>1, <2>3, <3>3
            <4>2. /\ Len(out[i].heads) = 1
                  /\ out[i].heads[1].http => pc = "http" \/ pc \in Ended
                BY <3>3 DEF OutInv, HttpHeadFollowsIcapHead, Ended
            <4>3. CASE WriteStatus \/ WriteHead
                <5>1. w.heads # <<>> /\ ~ out[i].heads[1].http
                    BY <2>2, <2>5, <2>6, <4>2, <4>3, Paths
                <5> QED BY <2>3, <3>3, <4>1, <4>2, <5>1
            <4>4. CASE WriteHttp
                <5>1. out[i].heads[1].http
                    BY <3>3, <4>4 DEF HttpInv, WriteHttp
                <5>2. w.heads = <<>>
                    BY <2>2, <4>4, Paths
                <5> QED BY <2>3, <3>3, <4>1, <4>2, <5>1, <5>2
            <4> QED BY <1>2, <4>3, <4>4 DEF Writing
        <3>4. CASE i = n
            <4>1. CASE WriteStatus \/ WriteHead
                <5>1. w.heads = wbuf
                    BY <2>2, <4>1, Paths
                <5>2. w.heads # <<>>
                    BY <2>5, <4>1, <5>1
                <5> QED BY <2>3, <2>5, <3>4, <4>1, <5>1, <5>2
            <4>2. CASE WriteHttp
                <5>1. out # <<>> /\ Len(out[Len(out)].heads) = 1
                    BY <4>2 DEF HttpInv, WriteHttp
                <5>2. Len(out) \in DOMAIN out /\ n > 1 /\ n - 1 = Len(out)
                    BY <2>1, <2>3, <5>1, EmptySeq DEF TypeOK
                <5>3. out'[n - 1] = out[n - 1] /\ Len(out[n - 1].heads) = 1
                    BY <2>3, <5>1, <5>2, SMTT(40)
                <5>4. w.heads = <<>>
                    BY <2>2, <4>2, Paths
                <5> QED BY <2>3, <3>4, <5>2, <5>3, <5>4
            <4> QED BY <1>2, <4>1, <4>2 DEF Writing
        <3> QED BY <2>3, <3>1, <3>2, <3>3, <3>4
    <2>9. PairInv'
        <3> SUFFICES ASSUME NEW i \in 2 .. Len(out'), out'[i].heads = <<>>
                     PROVE  HttpHeadFor(out[i - 1].heads[1], out[i].pieces)'
            BY DEF PairInv
        <3>1. PICK h : h = out'[i - 1].heads[1]
            OBVIOUS
        <3>2. PICK ps : ps = out'[i].pieces
            OBVIOUS
        <3>3. i - 1 \in DOMAIN out /\ i \in DOMAIN out'
            BY <2>1, <2>3
        <3>4. out'[i - 1] = out[i - 1]
            BY <2>3, <3>3
        <3>5. ASSUME i \in DOMAIN out PROVE HttpHeadFor(h, ps)
            <4>1. i \in 2 .. Len(out) /\ out[i].heads = <<>>
                BY <2>3, <3>5
            <4>2. h = out[i - 1].heads[1] /\ ps = out[i].pieces
                BY <2>3, <3>1, <3>2, <3>4, <3>5
            <4> QED BY <4>1, <4>2, PairHead
        <3>6. ASSUME i = n PROVE HttpHeadFor(h, ps)
            <4>1. WriteHttp
                BY <1>2, <2>2, <2>3, <2>5, <3>6 DEF Writing
            <4>2. PICK k : k = Len(out)
                OBVIOUS
            <4>3. i - 1 = k /\ k \in DOMAIN out
                BY <2>1, <2>3, <3>3, <3>6, <4>2
            <4>4. h = out[k].heads[1]
                BY <3>1, <3>4, <4>3
            <4>5. w.pieces = httpBuf
                BY <2>2, <4>1, Paths
            <4>6. ps = httpBuf
                BY <2>3, <3>2, <3>6, <4>5
            <4> QED BY <4>1, <4>2, <4>4, <4>6 DEF HttpInv, WriteHttp
        <3>7. HttpHeadFor(h, ps)
            BY <2>3, <3>3, <3>5, <3>6
        <3>8. HttpHeadFor(h, ps)'
            BY <2>4, <3>7, HttpHeadKept
        <3> QED BY <3>1, <3>2, <3>8
                DEF HttpHeadFor, HeadMeasured, HeadOwned, Request
    <2> QED BY <2>3, <2>7, <2>8, <2>9 DEF OutInv
<1> QED BY <1>1, <1>2

-----------------------------------------------------------------------------
(* The invariant, and what follows from it.                                *)

(* It holds at first.                                                      *)
LEMMA InitAInv == Init => AInv
<1> SUFFICES ASSUME Init PROVE AInv
    OBVIOUS
<1>1. IInv
    BY InitIInv
<1>2. /\ pc = "init" /\ ctx = NewCtx /\ out = <<>> /\ calls = <<>>
      /\ sent = <<>> /\ limit = 0 /\ base = 0
    BY DEF Init
<1>3. FreshInv /\ HeadInv /\ EmptyInv /\ DecodedInv /\ BodyInv
    <2>1. NoOutput(NewCtx)
        BY NewIsContext
    <2> QED BY <1>2, <2>1 DEF FreshInv, HeadInv, EmptyInv, DecodedInv,
                              BodyInv, Decoded, ToService, ToAnswer
<1>4. CallsInv /\ OutInv
    BY <1>2 DEF CallsInv, OutInv, HttpHeadFollowsIcapHead, PairInv
<1>5. ReplyInv
    BY <1>2 DEF ReplyInv, AnswerInv, StatusInv, WriteInv, HttpInv, YieldInv
<1>6. CoverInv
    BY <1>2 DEF CoverInv
<1> QED BY <1>1, <1>3, <1>4, <1>5, <1>6 DEF AInv

(* Every step keeps it.                                                    *)
LEMMA AInvStep == AInv /\ [Next]_vars => AInv'
<1> SUFFICES ASSUME AInv, [Next]_vars PROVE AInv'
    OBVIOUS
<1>1. IInv /\ TypeOK /\ RequestInv /\ BufferInv /\ StreamInv /\ PendingInv
      /\ OrderInv
    BY DEF AInv, IInv
<1>2. /\ FreshInv /\ HeadInv /\ EmptyInv /\ DecodedInv /\ BodyInv /\ CallsInv
      /\ AnswerInv /\ StatusInv /\ WriteInv /\ HttpInv /\ YieldInv
      /\ OutInv /\ CoverInv
    BY DEF AInv, ReplyInv
<1>3. IInv'
    BY <1>1, IInvStep
<1>4. FreshInv' /\ HeadInv' /\ EmptyInv' /\ DecodedInv' /\ BodyInv'
    BY <1>1, <1>2, FreshStep, HeadStep, EmptyStep, DecodedStep, BodyStep
<1>5. CallsInv'
    BY <1>1, <1>2, CallsStep
<1>6. ReplyInv'
    BY <1>1, <1>2, AnswerStep, StatusStep, WriteStep, HttpStep, YieldStep
       DEF ReplyInv
<1>7. OutInv'
    BY <1>1, <1>2, OutStep
<1>8. CoverInv'
    BY <1>1, <1>2, CoverStep
<1> QED BY <1>3, <1>4, <1>5, <1>6, <1>7, <1>8 DEF AInv

(* AInv is an invariant: what the task holds at each of its locations      *)
(* belongs to the request at base, and what it has called and written goes *)
(* with the requests it was called and written for.                        *)
THEOREM AInductive == Spec => []AInv
BY InitAInv, AInvStep, PTL DEF Spec

(* The service is called about acceptable requests, with the HTTP heads of *)
(* the request it is called for, at most once per request and in order.    *)
THEOREM ServiceSeesItsRequest == Spec => []ServiceSeesOwnRequest
<1>1. AInv => ServiceSeesOwnRequest
    <2> SUFFICES ASSUME TypeOK, CallsInv, NEW i \in DOMAIN calls
                 PROVE  /\ i > 1 => calls[i - 1].msg < calls[i].msg
                        /\ calls[i].msg # 0
                        /\ Acceptable(Request(calls[i].msg))
                        /\ HttpHeadsOf(calls[i], Request(calls[i].msg))
        BY DEF AInv, IInv, ServiceSeesOwnRequest, HttpHeadsOf
    <2>1. DOMAIN calls = 1 .. Len(calls) /\ Len(calls) \in Nat
        BY DEF TypeOK
    <2>2. i > 1 => i - 1 \in DOMAIN calls /\ i - 1 < i
        BY <2>1
    <2>3. CallInv(calls[i])
        BY DEF CallsInv
    <2>4. calls[i].msg # 0
        BY <2>3, SentIsRequest DEF CallInv
    <2> QED BY <2>2, <2>3, <2>4 DEF CallsInv, CallInv
<1> QED BY <1>1, AInductive, PTL

(* What the service and the answer read through header indices was decoded *)
(* in the allocation rbuf has then, however often it grew before.          *)
THEOREM HeadsAreDecodedInPlace == Spec => []HeadsDecodedInPlace
<1>1. AInv => HeadsDecodedInPlace
    BY DEF AInv, DecodedInv, HeadsDecodedInPlace
<1> QED BY <1>1, AInductive, PTL

(* An HTTP head follows the ICAP head that announces it, and no other; it  *)
(* is missing only at the end of what was written to a client that is gone.*)
THEOREM HttpHeadsFollow == Spec => []HttpHeadFollowsIcapHead
<1>1. AInv => HttpHeadFollowsIcapHead
    BY DEF AInv, OutInv
<1> QED BY <1>1, AInductive, PTL

(* The offset an answer's Encapsulated header gives is where its HTTP head *)
(* ends, with the empty line, and the chunk follows it exactly if a body   *)
(* is announced.                                                           *)
THEOREM OffsetsAreHeadLengths == Spec => []EncapsulatedOffsetIsHeadLength
<1>1. AInv => EncapsulatedOffsetIsHeadLength
    <2> SUFFICES ASSUME TypeOK, OutInv, NEW i \in 2 .. Len(out),
                        out[i].heads = <<>>
                 PROVE  HeadMeasured(out[i - 1].heads[1], out[i].pieces)
        BY DEF AInv, IInv, EncapsulatedOffsetIsHeadLength, HeadMeasured
    <2> QED BY PairHead DEF HttpHeadFor
<1> QED BY <1>1, AInductive, PTL

(* All of an HTTP head that is written comes from the request it answers.  *)
THEOREM HttpHeadsAreOwn == Spec => []HttpHeadOfOwnRequest
<1>1. AInv => HttpHeadOfOwnRequest
    <2> SUFFICES ASSUME TypeOK, OutInv, NEW i \in 2 .. Len(out),
                        out[i].heads = <<>>
                 PROVE  HeadOwned(out[i - 1].heads[1], out[i].pieces)
        BY DEF AInv, IInv, HttpHeadOfOwnRequest, HeadOwned
    <2> QED BY PairHead DEF HttpHeadFor
<1> QED BY <1>1, AInductive, PTL

(* An ICAP head that has been written, and the call it answers.            *)
LEMMA HeadIsAnswer ==
    ASSUME AInv, NEW h \in AllHeads
    PROVE  \/ h = StatusHead(h.msg, 400) /\ h.msg = 0
           \/ /\ h.msg \in DOMAIN sent /\ h.msg # 0
              /\ Request(h.msg) \in Messages
              /\ \/ /\ h = StatusHead(h.msg, 400) /\ CallsFor(h.msg) = {}
                    /\ Refusable(Request(h.msg))
                 \/ \E c \in CallsFor(h.msg) :
                       /\ AnswerTo(h, Request(h.msg), c.reply)
                       /\ c.reply \in Replies
                       /\ Acceptable(Request(h.msg))
<1>1. TypeOK /\ OutInv /\ CallsInv
    BY DEF AInv, IInv
<1>2. PICK i \in DOMAIN out : h \in HeadsOf(i)
    BY DEF AllHeads
<1>3. WrittenInv(h)
    BY <1>1, <1>2 DEF OutInv
<1>4. CASE h.msg = 0
    BY <1>3, <1>4 DEF WrittenInv
<1>5. CASE h.msg # 0
    <2>1. h.msg \in DOMAIN sent
        BY <1>3, <1>5 DEF WrittenInv
    <2>2. Request(h.msg) \in Messages
        BY <1>1, <2>1, SentIsRequest
    <2>3. \A c \in CallsFor(h.msg) : /\ c.reply \in Replies
                                     /\ Acceptable(Request(h.msg))
        BY <1>1 DEF CallsFor, CallsInv, CallInv
    <2> QED BY <1>3, <1>5, <2>1, <2>2, <2>3 DEF WrittenInv
<1> QED BY <1>4, <1>5

(* The heads with a fixed status.                                          *)
LEMMA StatusHeadFields ==
    ASSUME NEW k, NEW status
    PROVE  LET h == StatusHead(k, status)
           IN  /\ h.msg = k /\ h.status = status /\ h.enc = {} /\ ~ h.http
               /\ h.hdrs = {"ISTag", "Connection", "Encapsulated"} /\ h.close
BY DEF StatusHead, IcapHead

(* 206 answers only requests that allow it, preview nothing and have a     *)
(* body.                                                                   *)
THEOREM PartialContentIsAllowed == Spec => []No206WithoutAllow
<1>1. AInv => No206WithoutAllow
    <2> SUFFICES ASSUME AInv, NEW h \in AllHeads, h.status = 206
                 PROVE  /\ h.msg # 0
                        /\ LET m == Request(h.msg)
                           IN  m.method = "OPTIONS"
                               \/ /\ \E a \in m.allow : 206 \in a
                                  /\ m.preview = {0}
                                  /\ DeclaresBody(m)
        BY DEF No206WithoutAllow
    <2>1. h # StatusHead(h.msg, 400) /\ h # StatusHead(h.msg, 500)
        BY StatusHeadFields
    <2>2. h.msg # 0
        BY <2>1, HeadIsAnswer
    <2>3. PICK c \in CallsFor(h.msg) :
             /\ AnswerTo(h, Request(h.msg), c.reply)
             /\ c.reply \in Replies
             /\ Acceptable(Request(h.msg))
        BY <2>1, <2>2, HeadIsAnswer
    <2>4. PICK m : m = Request(h.msg)
        OBVIOUS
    <2>5. PICK r \in ServiceReplies : r = c.reply
        BY <2>3, RepliesAssumption
    <2>6. ~ Unusable(m, r) /\ StatusFor(m, r) = 206
        BY <2>1, <2>3, <2>4, <2>5 DEF AnswerTo
    <2>7. m.method # "OPTIONS" => DeclaresBody(m)
        <3>1. r.decision \in Option(Decisions)
            BY DEF ServiceReplies
        <3>2. \/ r.decision = {} \/ r.decision = {"NoAdaptation"}
              \/ r.decision = {"AppendHeaders"}
              \/ r.decision = {"CustomResponse"}
            BY <3>1, OptionCases DEF Decisions
        <3> QED BY <2>6, <3>2, StatusOf DEF Unusable
    <2> QED BY <2>2, <2>3, <2>4, <2>7 DEF Acceptable, HeadServable
<1> QED BY <1>1, AInductive, PTL

(* An answer carries the ICAP headers its request and the reply to it call *)
(* for, and no header of an earlier answer, set by the service or by the   *)
(* server.                                                                 *)
THEOREM HeadersAreOwn == Spec => []HeadersOfOwnAnswer
<1>1. ASSUME AInv, NEW h \in AllHeads, NEW c \in CallsFor(h.msg),
             AnswerTo(h, Request(h.msg), c.reply)
      PROVE  /\ h.hdrs = HeadersFor(Request(h.msg), c.reply)
             /\ "Encapsulated" \notin c.reply.icapHdrs
                   => ("Encapsulated" \in h.hdrs <=> h.enc = {})
    <2>1. PICK m, r : m = Request(h.msg) /\ r = c.reply
        OBVIOUS
    <2>2. CASE Unusable(m, r)
        <3>1. h.hdrs = ErrorHeaders /\ h.enc = {}
            BY <1>1, <2>1, <2>2, StatusHeadFields DEF AnswerTo, ErrorHeaders
        <3>2. "Encapsulated" \in h.hdrs
            BY <3>1 DEF ErrorHeaders
        <3> QED BY <2>1, <2>2, <3>1, <3>2 DEF HeadersFor
    <2>3. CASE ~ Unusable(m, r)
        <3>1. h.hdrs = ServerHeaders(m, r) \cup r.icapHdrs
            BY <1>1, <2>1, <2>3 DEF AnswerTo
        <3>2. HasHttpHead(m, r) <=> h.enc # {}
            BY <1>1, <2>1, <2>3 DEF AnswerTo
        <3>3. "Encapsulated" \in ServerHeaders(m, r) <=> ~ HasHttpHead(m, r)
            BY DEF ServerHeaders
        <3> QED BY <2>1, <2>3, <3>1, <3>2, <3>3 DEF HeadersFor
    <2> QED BY <2>2, <2>3
<1>2. ASSUME AInv, NEW h \in AllHeads, CallsFor(h.msg) = {}
      PROVE  h.hdrs = ErrorHeaders /\ h.enc = {}
    <2>1. h = StatusHead(h.msg, 400)
        BY <1>2, HeadIsAnswer
    <2> QED BY <2>1, StatusHeadFields DEF ErrorHeaders
<1>3. ASSUME AInv, NEW h \in AllHeads, CallsFor(h.msg) # {}
      PROVE  \E c \in CallsFor(h.msg) : AnswerTo(h, Request(h.msg), c.reply)
    <2>1. CallsInv /\ TypeOK
        BY <1>3 DEF AInv, IInv
    <2>2. h.msg # 0
        BY <1>3, <2>1, SentIsRequest DEF CallsFor, CallsInv, CallInv
    <2> QED BY <1>3, <2>2, HeadIsAnswer
<1>4. AInv => HeadersOfOwnAnswer
    BY <1>1, <1>2, <1>3, Zenon DEF HeadersOfOwnAnswer
<1> QED BY <1>4, AInductive, PTL

(* Every answer to a request that has the length it declares is the one    *)
(* its request and the service's reply to it call for, whatever the other  *)
(* requests of the connection do.                                          *)
LEMMA AnswerIsFaithful ==
    ASSUME AInv, NEW h \in AllHeads, h.msg # 0, SentAsDeclared(Request(h.msg))
    PROVE  LET m == Request(h.msg)
           IN  IF Servable(m)
               THEN \E c \in CallsFor(h.msg) : h.status = StatusFor(m, c.reply)
               ELSE h.status = 400 /\ CallsFor(h.msg) = {}
<1>1. PICK m : m = Request(h.msg)
    OBVIOUS
<1>2. CASE h = StatusHead(h.msg, 400) /\ CallsFor(h.msg) = {} /\ Refusable(m)
    <2>1. h.status = 400
        BY <1>2, StatusHeadFields
    <2> QED BY <1>1, <1>2, <2>1 DEF Refusable
<1>3. CASE \E c \in CallsFor(h.msg) : /\ AnswerTo(h, m, c.reply)
                                      /\ c.reply \in Replies /\ Acceptable(m)
    <2>1. PICK c \in CallsFor(h.msg) : /\ AnswerTo(h, m, c.reply)
                                       /\ Acceptable(m)
        BY <1>3
    <2>2. Servable(m)
        BY <1>1, <2>1 DEF Acceptable
    <2>3. h.status = StatusFor(m, c.reply)
        <3>1. CASE Unusable(m, c.reply)
            <4>1. h.status = 500
                BY <2>1, <3>1, StatusHeadFields DEF AnswerTo
            <4>2. {"CustomResponse"} # {"NoAdaptation"}
                  /\ {"CustomResponse"} # {"AppendHeaders"}
                  /\ {"CustomResponse"} # {}
                OBVIOUS
            <4>3. StatusFor(m, c.reply) = 500
                BY <3>1, <4>2 DEF Unusable, StatusFor
            <4> QED BY <4>1, <4>3
        <3>2. CASE ~ Unusable(m, c.reply)
            BY <2>1, <3>2 DEF AnswerTo
        <3> QED BY <3>1, <3>2
    <2> QED BY <1>1, <2>2, <2>3
<1> QED BY <1>1, <1>2, <1>3, HeadIsAnswer

(* Every such answer is faithful, whatever the clients send.               *)
THEOREM DeclaredAnswersFaithful == Spec => []DeclaredAnswersAreFaithful
<1>1. AInv => DeclaredAnswersAreFaithful
    BY AnswerIsFaithful DEF DeclaredAnswersAreFaithful
<1> QED BY <1>1, AInductive, PTL

(* For clients whose requests have the length they declare, every answer   *)
(* is the one its request and the service's reply to it call for; what the *)
(* server refuses never reaches the service.                               *)
THEOREM AnswersFaithful ==
    ASSUME \A m \in Messages : SentAsDeclared(m)
    PROVE  Spec => []AnswersAreFaithful
<1>1. AInv => AnswersAreFaithful
    <2> SUFFICES ASSUME AInv, NEW h \in AllHeads, h.msg # 0
                 PROVE  LET m == Request(h.msg)
                        IN  IF Servable(m)
                            THEN \E c \in CallsFor(h.msg) :
                                    h.status = StatusFor(m, c.reply)
                            ELSE h.status = 400 /\ CallsFor(h.msg) = {}
        BY DEF AnswersAreFaithful
    <2>1. Request(h.msg) \in Messages
        BY HeadIsAnswer
    <2> QED BY <2>1, AnswerIsFaithful
<1> QED BY <1>1, AInductive, PTL

(* clear() drops the request at base, which has been answered: its heads,  *)
(* what it declares to lie before its body, and all of it if it has the    *)
(* length it declares and no body it declares not to have.                 *)
THEOREM ClearDropsTheRequest == Spec => ClearDropsWholeRequest
<1> DEFINE Dropped(k, b) ==
              LET m == Request(k)
              IN  /\ sent[k].start = base /\ Answered(k)
                  /\ base + HeadReach(m) <= b
                  /\ SentAsDeclared(m) /\ ~ HiddenBodied(m) => End(k) <= b
<1>1. ASSUME AInv, [Next]_vars, base' # base
      PROVE  \E k \in DOMAIN sent : Dropped(k, base')
    <2>1. TypeOK /\ RequestInv /\ HeadInv /\ BodyInv /\ YieldInv
        BY <1>1 DEF AInv, IInv, ReplyInv
    <2>2. Yield
        BY <1>1, Frame
    <2>3. PICK k : k = ctx.msg
        OBVIOUS
    <2>4. /\ base' = pos /\ base \in Nat /\ pc = "yield"
          /\ k \in DOMAIN sent /\ sent[k].start = base
        BY <2>1, <2>2, <2>3, YieldEffect
    <2>5. Answered(k)
        BY <2>1, <2>3, <2>4 DEF YieldInv
    <2>6. /\ SentAsDeclared(Request(k)) /\ ~ HiddenBodied(Request(k))
                => Size(Request(k)) <= Buffered
        BY <2>1, <2>3, <2>4, AcceptedRequest DEF ToAnswer
    <2>7. HeadReach(Request(k)) \in Nat /\ HeadReach(Request(k)) <= Buffered
        BY <2>1, <2>3, <2>4, HeadIsReached DEF ToAnswer
    <2>8. /\ Size(Request(k)) \in Nat /\ End(k) = base + Size(Request(k))
        BY <2>1, <2>4, SentIsRequest, SizeIsNat, EndIsNat
    <2>9. pos \in Nat /\ Buffered = pos - base
        BY <2>1 DEF TypeOK, Buffered
    <2>10. base + HeadReach(Request(k)) <= base'
        BY <2>4, <2>7, <2>9
    <2>11. Size(Request(k)) <= Buffered => End(k) <= base'
        BY <2>4, <2>8, <2>9
    <2> QED BY <2>4, <2>5, <2>6, <2>10, <2>11
<1>2. AInv /\ [Next]_vars =>
         [base' # base =>
             \E k \in DOMAIN sent :
                LET m == Request(k)
                IN  /\ sent[k].start = base
                    /\ Answered(k)
                    /\ base + HeadReach(m) <= base'
                    /\ SentAsDeclared(m) /\ ~ HiddenBodied(m)
                          => End(k) <= base']_vars
    BY <1>1
<1> QED BY <1>2, AInductive, PTL DEF Spec, ClearDropsWholeRequest

-----------------------------------------------------------------------------
(***************************************************************************)
(* Proofs about a client that waits for its answers: rbuf never holds      *)
(* bytes of two requests, so that clearing it drops the answered one and   *)
(* nothing else, and its capacity follows the requests.  PacedInv adds to  *)
(* AInv what the client's waiting gives: the number of answers written is  *)
(* the number of requests sent, or one less while one is at hand.          *)
(***************************************************************************)

(* Clients that wait: for the answer to a request before the next one, and *)
(* with requests that are read to their end before they are answered.      *)
Waiting == Window = 1 /\ \A m \in Messages : LeavesNothing(m)

-----------------------------------------------------------------------------
(* Counting answers.                                                       *)

(* Any number of writes completes a number of answers.                     *)
LEMMA CountIsNat ==
    ASSUME NEW n \in Nat
    PROVE  IsFiniteSet(Completing(n)) /\ Cardinality(Completing(n)) \in Nat
<1>1. IsFiniteSet(1 .. n)
    BY FS_Interval
<1>2. Completing(n) \in SUBSET (1 .. n)
    BY DEF Completing
<1> QED BY <1>1, <1>2, FS_Subset, FS_CardinalityType

(* The client cannot have read more answers than have been written.        *)
LEMMA ReadWereWritten ==
    ASSUME TypeOK, seen <= Len(out)
    PROVE  /\ AnswersRead \in Nat /\ AnswersWritten \in Nat
           /\ AnswersRead <= AnswersWritten
<1>1. seen \in Nat /\ Len(out) \in Nat
    BY DEF TypeOK
<1>2. \A i \in 1 .. seen : i \in 1 .. Len(out)
    BY <1>1
<1>3. Completing(seen) \in SUBSET Completing(Len(out))
    BY <1>2 DEF Completing
<1> QED BY <1>1, <1>3, CountIsNat, FS_Subset DEF AnswersRead, AnswersWritten

(* A write adds one to the answers if it completes one.                    *)
LEMMA WriteCounts ==
    ASSUME TypeOK, NEW w \in Writes, out' = Append(out, w)
    PROVE  AnswersWritten' = IF Completes(w) THEN AnswersWritten + 1
                                             ELSE AnswersWritten
<1>1. PICK n \in Nat : n = Len(out) + 1
    BY DEF TypeOK
<1>2. /\ DOMAIN out = 1 .. Len(out) /\ Len(out) \in Nat /\ Len(out') = n
      /\ \A i \in DOMAIN out : out'[i] = out[i]
      /\ out'[n] = w
    BY <1>1, WriteAdded
<1> DEFINE C == Completing(Len(out))
           D == {i \in 1 .. n : Completes(out'[i])}
<1>3. AnswersWritten = Cardinality(C) /\ AnswersWritten' = Cardinality(D)
    BY <1>2 DEF AnswersWritten, Completing, Completes
<1>4. IsFiniteSet(C) /\ n \notin C
    BY <1>1, <1>2, CountIsNat DEF Completing
<1>5. \A i \in 1 .. n : i \in 1 .. Len(out) \/ i = n
    BY <1>1, <1>2
<1>6. \A i \in 1 .. Len(out) : i \in 1 .. n /\ out'[i] = out[i]
    BY <1>1, <1>2
<1>7. n \in 1 .. n
    BY <1>1, <1>2
<1>8. CASE Completes(w)
    <2>1. D = C \cup {n}
        BY <1>2, <1>5, <1>6, <1>7, <1>8 DEF Completing
    <2> HIDE DEF C, D
    <2> QED BY <1>3, <1>4, <1>8, <2>1, FS_AddElement
<1>9. CASE ~ Completes(w)
    <2>1. D = C
        BY <1>2, <1>5, <1>6, <1>7, <1>9 DEF Completing
    <2> QED BY <1>3, <1>9, <2>1
<1> QED BY <1>8, <1>9

(* The HTTP head that is still to be written is not empty.                 *)
LEMMA HttpIsThere ==
    ASSUME TypeOK, OutInv, HttpInv, pc = "http"
    PROVE  httpBuf # <<>>
<1>1. PICK k : k = Len(out)
    OBVIOUS
<1>2. PICK h : h = out[k].heads[1]
    OBVIOUS
<1>3. /\ out # <<>> /\ Len(out[k].heads) = 1 /\ h.http
      /\ HttpHeadFor(h, httpBuf)
    BY <1>1, <1>2 DEF HttpInv
<1>4. k \in DOMAIN out /\ out[k] \in Writes
    BY <1>1, <1>3, EmptySeq, ElementOfSeq DEF TypeOK
<1>5. 1 \in DOMAIN out[k].heads
    BY <1>3, <1>4 DEF Writes
<1>6. h \in HeadsOf(k)
    BY <1>2, <1>5 DEF HeadsOf
<1>7. WrittenInv(h)
    BY <1>4, <1>6 DEF OutInv
<1>8. h.enc # {}
    <2>1. h # StatusHead(h.msg, 400) /\ h # StatusHead(h.msg, 500)
        <3>1. \A i, st : StatusHead(i, st).http = FALSE
            BY DEF StatusHead, IcapHead
        <3> QED BY <1>3, <3>1
    <2>2. PICK c : AnswerTo(h, Request(h.msg), c.reply)
        BY <1>7, <2>1 DEF WrittenInv
    <2> QED BY <1>3, <2>1, <2>2 DEF AnswerTo
<1>9. PICK e \in h.enc : e.off \in DOMAIN httpBuf
    BY <1>3, <1>8 DEF HttpHeadFor, HeadMeasured
<1> QED BY <1>9

-----------------------------------------------------------------------------
(* The stream.                                                             *)

(* Nothing is on its way behind the last request.                          *)
LEMMA StreamEnds ==
    ASSUME TypeOK, BufferInv, CoverInv, NEW p \in Nat,
           \A k \in DOMAIN sent : End(k) <= p
    PROVE  pos <= p /\ limit <= p
<1>1. pos \in Nat /\ limit \in Nat /\ pos <= limit
    BY DEF TypeOK, BufferInv
<1>2. ASSUME p < limit PROVE FALSE
    <2>1. p \in 0 .. limit - 1
        BY <1>1, <1>2
    <2>2. PICK k \in DOMAIN sent : p < End(k)
        BY <2>1 DEF CoverInv
    <2> QED BY <2>2, EndIsNat
<1> QED BY <1>1, <1>2

(* Requests end in their order.                                            *)
LEMMA LastEndsLast ==
    ASSUME TypeOK, CoverInv, NEW k \in DOMAIN sent, k = LastSent
    PROVE  \A j \in DOMAIN sent : End(j) <= End(k)
<1>1. TAKE j \in DOMAIN sent
<1>2. j \in Nat /\ k \in Nat /\ j <= k
    BY DEF TypeOK, LastSent
<1>3. CASE j = k
    BY <1>3, EndIsNat
<1>4. CASE j < k
    <2>1. End(j) <= sent[k].start
        BY <1>4 DEF CoverInv
    <2> QED BY <2>1, EndIsNat
<1> QED BY <1>2, <1>3, <1>4

(* An answered request that leaves nothing has been read.                  *)
LEMMA AnsweredIsRead ==
    ASSUME TypeOK, RequestInv, HeadInv, BodyInv, pc \in ToAnswer,
           LeavesNothing(Request(ctx.msg))
    PROVE  Size(Request(ctx.msg)) <= Buffered
<1> DEFINE m == Request(ctx.msg)
<1>1. /\ pc \in Decoded /\ ctx.msg \in DOMAIN sent
      /\ ctx.parsed = m.head /\ m \in Requests
    BY SentIsRequest DEF ToAnswer, Decoded, RequestInv
<1>2. CASE SentAsDeclared(m) /\ ~ HiddenBodied(m)
    BY <1>2, AcceptedRequest
<1>3. CASE /\ m.method # "OPTIONS" /\ m.ee # <<>>
           /\ LastEntity(m.ee).off >= HttpLen(m) + BodyLen(m)
    <2>1. /\ ctx.method = m.method /\ ctx.bodyOff = LastEntity(m.ee).off
          /\ HeadServable(m)
        BY <1>1, <1>3 DEF HeadInv
    <2>2. IsAnyReq(ctx)
        BY <1>3, <2>1 DEF IsAnyReq, HeadServable, Methods
    <2>3. ctx.parsed + ctx.bodyOff <= Buffered
        BY <2>2 DEF BodyInv
    <2>4. Buffered \in Int /\ LastEntity(m.ee).off \in Nat
        <3>1. m.ee \in Seq(Entities)
            BY <1>1 DEF Requests
        <3> QED BY <1>3, <3>1, BufferedIsInt, LastIsEntity DEF Entities
    <2>5. m.head \in Nat /\ HttpLen(m) \in Nat /\ BodyLen(m) \in Nat
        BY <1>1 DEF Requests, HttpLen, BodyLen, CRLF
    <2> QED BY <1>1, <1>3, <2>1, <2>3, <2>4, <2>5 DEF Size
<1> QED BY <1>2, <1>3 DEF LeavesNothing

-----------------------------------------------------------------------------
(* Every step keeps PacedInv.                                              *)

(* What a step that writes nothing leaves of the counts.                   *)
LEMMA CountsKept ==
    ASSUME TypeOK, [Next]_vars, ~ Writing
    PROVE  /\ AnswersWritten' = AnswersWritten
           /\ ~ ClientSend => LastSent' = LastSent /\ sent' = sent
<1>1. out' = out /\ (~ ClientSend => sent' = sent)
    BY Frame
<1> QED BY <1>1 DEF AnswersWritten, Completing, Completes, LastSent

(* The client has read no more than has been written.                      *)
LEMMA SeenStep ==
    ASSUME TypeOK, seen <= Len(out), [Next]_vars PROVE seen' <= Len(out')
<1>1. seen \in Nat /\ Len(out) \in Nat
    BY DEF TypeOK
<1>2. CASE Writing
    <2>1. seen' = seen /\ Len(out') = Len(out) + 1
        BY <1>2 DEF Writing, WriteStatus, WriteHead, WriteHttp, Write, TypeOK,
                    clientVars
    <2> QED BY <1>1, <2>1
<1>3. CASE ~ Writing
    <2>1. out' = out
        BY <1>3, Frame
    <2>2. seen' = seen \/ (seen < Len(out) /\ seen' = seen + 1)
        BY <1>3 DEF Next, vars, clientVars, Client, ClientSend, ClientClose,
           ClientGone, ClientRead, Terminated, Writing,
           Recv, RecvHead, RecvMissing, RecvChunk, RecvEof, RecvError,
           RecvTimeout, Abandon, Goto, Local, InitPartial, InitBad,
           InitComplete, AllocFails, HeadersReceived, ChunkMore, ChunkBad,
           ChunkOk, ParseOk, ParseBad, Refuse, SendStatus, ProcessOptions,
           NoDecision, Send204, AppendHeaders, NoHttpStatus, CustomResponse,
           Reply, Yield, Shutdown, Service, ServiceFails, ServiceReturns,
           ServicePanics, WriteOut, WriteFail
    <2> QED BY <1>1, <2>1, <2>2
<1> QED BY <1>2, <1>3

(* The next request comes when nothing is left to answer.                  *)
LEMMA SendPaced ==
    ASSUME TypeOK, RequestInv, BufferInv, CoverInv, PacedInv, Waiting,
           pc \notin Ended, ClientSend
    PROVE  BusyInv' \/ AnsweredInv'
<1>1. PICK n \in Nat : n = Len(sent)
    BY DEF TypeOK
<1>2. /\ LastSent = n /\ LastSent' = n + 1 /\ sent'[n + 1].start = limit
      /\ DOMAIN sent = 1 .. n /\ DOMAIN sent' = 1 .. n + 1
    BY <1>1, SentGrows DEF LastSent
<1>3. /\ AnswersWritten' = AnswersWritten
      /\ UNCHANGED <<pc, ctx, base, pos>>
    BY DEF ClientSend, bufVars, AnswersWritten, Completing, Completes
<1>4. AnswersWritten >= n
    <2>1. n - AnswersRead < 1
        BY <1>1 DEF ClientSend, Waiting
    <2> QED BY <2>1, ReadWereWritten DEF PacedInv
<1>5. client = "open" /\ limit \in Nat /\ pos <= limit /\ base <= pos
      /\ base \in Nat /\ pos \in Nat
    BY DEF ClientSend, BufferInv, TypeOK
<1>6. \A k \in DOMAIN sent : End(k) <= limit /\ End(k)' = End(k)
    <2>1. [Next]_vars
        BY DEF Next, Client
    <2> QED BY <1>5, <2>1, SentKept DEF CoverInv
<1>7. CASE IdleInv
    <2>1. limit <= base
        BY <1>5, <1>7, StreamEnds DEF IdleInv
    <2>2. BusyInv'
        BY <1>2, <1>3, <1>5, <1>7, <2>1 DEF IdleInv, BusyInv
    <2> QED BY <2>2
<1>8. CASE AnsweredInv
    <2>1. ctx.msg \in DOMAIN sent /\ ctx.msg = n
        BY <1>2, <1>4, <1>8 DEF AnsweredInv, RequestInv, Decoded
    <2>2. \A k \in DOMAIN sent : End(k) <= pos
        BY <1>2, <1>8, <2>1, LastEndsLast DEF AnsweredInv
    <2>3. limit <= pos
        BY <1>5, <2>2, StreamEnds
    <2>4. End(ctx.msg)' = End(ctx.msg)
        BY <1>3, <1>6, <2>1
    <2>5. AnsweredInv'
        BY <1>2, <1>3, <1>5, <1>8, <2>1, <2>3, <2>4 DEF AnsweredInv
    <2> QED BY <2>5
<1>9. CASE BusyInv
    BY <1>2, <1>4, <1>9 DEF BusyInv
<1> QED BY <1>7, <1>8, <1>9 DEF PacedInv

(* The end of an answer: the request has been read, and no more.           *)
LEMMA EndPaced ==
    ASSUME TypeOK, RequestInv, BufferInv, StreamInv, HeadInv, BodyInv, CoverInv,
           Waiting, BusyInv, pc \in {"write", "http"},
           UNCHANGED <<sent, pos, ctx>>, pc' = "yield",
           AnswersWritten' = AnswersWritten + 1
    PROVE  AnsweredInv'
<1>1. /\ ctx.msg \in DOMAIN sent /\ sent[ctx.msg].start = base
      /\ pc \in ToAnswer
    BY DEF RequestInv, Decoded, ToAnswer
<1>2. LastSent \in DOMAIN sent /\ LastSent \in Nat
    BY DEF BusyInv, LastSent, TypeOK
<1>3. ctx.msg = LastSent
    BY <1>1, <1>2, CurrentIsThat DEF BusyInv
<1>4. LeavesNothing(Request(ctx.msg))
    BY <1>1, SentIsRequest DEF Waiting
<1>5. Size(Request(ctx.msg)) <= Buffered
    BY <1>1, <1>4, AnsweredIsRead
<1>6. End(ctx.msg) \in Nat /\ pos \in Nat /\ base \in Nat
    BY <1>1, EndIsNat DEF TypeOK
<1>7. End(ctx.msg) <= pos
    BY <1>1, <1>5, <1>6, SentIsRequest, SizeIsNat DEF End, Buffered
<1>8. pos <= End(ctx.msg)
    BY <1>1, <1>3, <1>6, LastEndsLast, StreamEnds
<1>9. pos = End(ctx.msg) /\ AnswersWritten + 1 = ctx.msg
    BY <1>2, <1>3, <1>6, <1>7, <1>8 DEF BusyInv
<1>10. End(ctx.msg)' = End(ctx.msg) /\ LastSent' = LastSent
    BY DEF End, Request, LastSent
<1> QED BY <1>3, <1>9, <1>10 DEF AnsweredInv

(* Writing leads from a request under way to its end.                      *)
LEMMA WritePaced ==
    ASSUME TypeOK, RequestInv, BufferInv, StreamInv, HeadInv, BodyInv, CoverInv,
           StatusInv, WriteInv, HttpInv, OutInv,
           Waiting, PacedInv, Writing, [Next]_vars
    PROVE  pc' \in Ended \/ BusyInv' \/ AnsweredInv'
<1>1. pc \in {"status", "write", "http"}
    BY Paths DEF Writing
<1>2. BusyInv
    BY <1>1 DEF PacedInv, IdleInv, AnsweredInv, Ended
<1>3. UNCHANGED <<sent, pos, base, ctx>>
    BY WritesMade DEF clientVars, bufVars
<1>4. LastSent' = LastSent
    BY <1>3 DEF LastSent
<1>5. CASE WriteStatus
    BY <1>5, Paths DEF Ended
<1>6. CASE WriteHead
    <2>1. PICK w : w = [heads |-> wbuf, pieces |-> <<>>]
        OBVIOUS
    <2>2. w \in Writes /\ out' = Append(out, w)
        BY <1>6, <2>1, WritesMade
    <2>3. Completes(w) <=> ~ wbuf[Len(wbuf)].http
        BY <2>1 DEF Completes
    <2>4. CASE wbuf[Len(wbuf)].http
        <3>1. AnswersWritten' = AnswersWritten /\ pc' = "http"
            BY <1>6, <2>2, <2>3, <2>4, WriteCounts DEF WriteHead
        <3> QED BY <1>2, <1>3, <1>4, <3>1 DEF BusyInv
    <2>5. CASE ~ wbuf[Len(wbuf)].http
        <3>1. AnswersWritten' = AnswersWritten + 1 /\ pc' = "yield"
            BY <1>6, <2>2, <2>3, <2>5, WriteCounts DEF WriteHead
        <3> QED BY <1>2, <1>3, <1>6, <3>1, Paths, EndPaced
    <2> QED BY <2>4, <2>5
<1>7. CASE WriteHttp
    <2>1. PICK w : w = [heads |-> <<>>, pieces |-> httpBuf]
        OBVIOUS
    <2>2. w \in Writes /\ out' = Append(out, w)
        BY <1>7, <2>1, WritesMade
    <2>3. httpBuf # <<>>
        BY <1>7, HttpIsThere, Paths
    <2>4. Completes(w)
        BY <2>1, <2>3 DEF Completes
    <2>5. AnswersWritten' = AnswersWritten + 1 /\ pc' = "yield"
        BY <1>7, <2>2, <2>4, WriteCounts, Paths
    <2> QED BY <1>2, <1>3, <1>7, <2>5, Paths, EndPaced
<1> QED BY <1>5, <1>6, <1>7 DEF Writing

(* clear() leads from the end of a request to nothing, or to the next.     *)
LEMMA YieldPaced ==
    ASSUME TypeOK, RequestInv, CoverInv, PacedInv, Yield, [Next]_vars
    PROVE  IdleInv' \/ BusyInv'
<1>1. pc = "yield" /\ pc' = "init" /\ base' = pos /\ UNCHANGED <<sent, out>>
    BY DEF Yield, ClearRbuf, clientVars
<1>2. AnsweredInv
    BY <1>1 DEF PacedInv, IdleInv, BusyInv, Ended
<1>3. /\ ctx.msg \in DOMAIN sent /\ ctx.msg \in Nat \ {0} /\ LastSent \in Nat
    BY <1>1, SentIsRequest DEF RequestInv, Decoded, LastSent, TypeOK
<1>4. /\ AnswersWritten' = AnswersWritten /\ LastSent' = LastSent
      /\ \A k \in DOMAIN sent : End(k)' = End(k)
    BY <1>1 DEF AnswersWritten, Completing, Completes, LastSent, End, Request
<1>5. CASE ctx.msg = LastSent
    <2>1. \A k \in DOMAIN sent : End(k) <= pos
        BY <1>2, <1>3, <1>5, LastEndsLast DEF AnsweredInv
    <2>2. IdleInv'
        BY <1>1, <1>2, <1>4, <1>5, <2>1 DEF IdleInv, AnsweredInv
    <2> QED BY <2>2
<1>6. CASE ctx.msg = LastSent - 1 /\ sent[LastSent].start = pos
    <2>1. BusyInv'
        BY <1>1, <1>2, <1>3, <1>4, <1>6 DEF BusyInv, AnsweredInv
    <2> QED BY <2>1
<1> QED BY <1>2, <1>5, <1>6 DEF AnsweredInv

(* An idle task only waits, or ends.                                       *)
LEMMA IdleWaits ==
    ASSUME TypeOK, BufferInv, CoverInv, IdleInv
    PROVE  /\ pos = base /\ limit = base
           /\ ~ (RecvHead \/ RecvMissing \/ RecvChunk)
           /\ ~ (InitComplete \/ Refusals)
<1>1. pos = base /\ limit = base /\ base \in Nat
    BY StreamEnds DEF IdleInv, BufferInv, TypeOK
<1>2. pc \in {"init", "head"}
    BY DEF IdleInv
<1>3. ~ (RecvHead \/ RecvMissing \/ RecvChunk)
    BY <1>1, <1>2 DEF RecvHead, RecvMissing, RecvChunk
<1>4. ~ InitComplete
    <2>1. Current # 0 => Current \in DOMAIN sent /\ sent[Current].start = base
        BY CurrentIsSent
    <2>2. \A k \in DOMAIN sent : sent[k].start < base
        BY <1>1, EndIsNat DEF IdleInv
    <2> QED BY <1>1, <2>1, <2>2 DEF InitComplete
<1>5. ~ Refusals
    BY <1>1, <1>2 DEF Refusals, InitBad, ChunkBad, ParseBad, Buffered
<1> QED BY <1>1, <1>3, <1>4, <1>5

(* Every step keeps PacedInv.                                              *)
LEMMA PacedStep ==
    ASSUME AInv, PacedInv, Waiting, [Next]_vars PROVE PacedInv'
<1>1. /\ TypeOK /\ RequestInv /\ BufferInv /\ StreamInv /\ HeadInv /\ BodyInv
      /\ CoverInv /\ StatusInv /\ WriteInv /\ HttpInv /\ OutInv
    BY DEF AInv, IInv, ReplyInv
<1>2. seen' <= Len(out')
    BY <1>1, SeenStep DEF PacedInv
<1> DEFINE Paced == pc \in Ended \/ IdleInv \/ BusyInv \/ AnsweredInv
<1>3. CASE pc' \in Ended
    BY <1>2, <1>3 DEF PacedInv
<1>4. CASE pc' \notin Ended
    <2>1. pc \notin Ended
        BY <1>4, Frame
    <2>2. CASE ClientSend
        BY <1>1, <1>2, <2>1, <2>2, SendPaced DEF PacedInv
    <2>3. CASE Writing
        BY <1>1, <1>2, <2>3, WritePaced DEF PacedInv
    <2>4. CASE Yield
        BY <1>1, <1>2, <2>4, YieldPaced DEF PacedInv
    <2>5. CASE ~ ClientSend /\ ~ Writing /\ ~ Yield
        <3>1. /\ AnswersWritten' = AnswersWritten /\ LastSent' = LastSent
              /\ sent' = sent /\ base' = base
            BY <1>1, <2>5, CountsKept, Frame
        <3>2. \A k \in DOMAIN sent : End(k)' = End(k)
            BY <3>1 DEF End, Request
        <3>3. CASE IdleInv
            <4>1. pc \in {"init", "head"}
                BY <3>3 DEF IdleInv
            <4>2. ~ (RecvHead \/ RecvMissing \/ RecvChunk)
                  /\ ~ (InitComplete \/ Refusals)
                BY <1>1, <3>3, IdleWaits
            <4>3. pc' \in {"init", "head"}
                BY <1>4, <2>5, <4>1, <4>2, StepCases, Paths DEF Stay, Leave
            <4>4. IdleInv'
                BY <3>1, <3>2, <3>3, <4>3 DEF IdleInv
            <4> QED BY <1>2, <4>4 DEF PacedInv
        <3>4. CASE BusyInv
            <4>1. pc' # "yield"
                BY <2>5, <3>4, StepCases, Paths DEF Stay, BusyInv, Leave, Ended
            <4>2. BusyInv'
                BY <3>1, <3>4, <4>1 DEF BusyInv
            <4> QED BY <1>2, <4>2 DEF PacedInv
        <3>5. CASE AnsweredInv
            <4>1. pc = "yield" /\ ctx.msg \in DOMAIN sent
                BY <1>1, <3>5 DEF AnsweredInv, RequestInv, Decoded
            <4>2. Stay
                BY <1>4, <2>5, <4>1, StepCases, Paths DEF Leave
            <4>3. UNCHANGED <<pc, ctx, pos>>
                BY <4>2 DEF Stay, bufVars
            <4>4. AnsweredInv'
                BY <3>1, <3>2, <3>5, <4>1, <4>3 DEF AnsweredInv
            <4> QED BY <1>2, <4>4 DEF PacedInv
        <3> QED BY <2>1, <3>3, <3>4, <3>5 DEF PacedInv
    <2> QED BY <2>2, <2>3, <2>4, <2>5
<1> QED BY <1>3, <1>4

(* A connection begins idle.                                               *)
LEMMA InitPaced == Init => PacedInv
<1> SUFFICES ASSUME Init PROVE PacedInv
    OBVIOUS
<1>1. /\ sent = <<>> /\ out = <<>> /\ seen = 0 /\ pc = "init"
      /\ Len(out) = 0 /\ Len(sent) = 0 /\ DOMAIN sent = {}
    BY DEF Init
<1>2. Completing(Len(out)) = {}
    BY <1>1 DEF Completing
<1>3. AnswersWritten = LastSent
    BY <1>1, <1>2, FS_EmptySet DEF AnswersWritten, LastSent
<1> QED BY <1>1, <1>3 DEF PacedInv, IdleInv

(* With clients that wait, rbuf never holds bytes of two requests: it is   *)
(* empty, or begins with the last request, and after its answer ends with  *)
(* it.                                                                     *)
THEOREM PacedInductive == ASSUME Waiting PROVE Spec => [](AInv /\ PacedInv)
<1>1. Init => AInv /\ PacedInv
    BY InitAInv, InitPaced
<1>2. AInv /\ PacedInv /\ [Next]_vars => (AInv /\ PacedInv)'
    BY AInvStep, PacedStep
<1> QED BY <1>1, <1>2, PTL DEF Spec

(* rbuf.clear() drops one answered request, all of it and nothing else, if *)
(* the client waits for its answers.                                       *)
THEOREM ClearDropsOne ==
    ASSUME Waiting PROVE Spec => ClearDropsOneAnsweredRequest
<1>1. ASSUME AInv, PacedInv, [Next]_vars, base' # base
      PROVE  Current # 0 /\ Answered(Current) /\ base' = End(Current)
    <2>1. /\ TypeOK /\ RequestInv /\ StreamInv /\ YieldInv
        BY <1>1 DEF AInv, IInv, ReplyInv
    <2>2. Yield
        BY <1>1, Frame
    <2>3. pc = "yield" /\ base' = pos
        BY <2>2 DEF Yield, ClearRbuf
    <2>4. Current = ctx.msg /\ ctx.msg # 0
        BY <2>1, <2>3, CurrentIsMsg DEF Decoded
    <2>5. Answered(ctx.msg) /\ pos = End(ctx.msg)
        BY <1>1, <2>1, <2>3
           DEF YieldInv, PacedInv, AnsweredInv, IdleInv, BusyInv, Ended
    <2> QED BY <2>3, <2>4, <2>5
<1>2. (AInv /\ PacedInv) /\ [Next]_vars =>
         [base' # base => /\ Current # 0
                          /\ Answered(Current)
                          /\ base' = End(Current)]_vars
    BY <1>1
<1> QED BY <1>2, PacedInductive, PTL DEF Spec, ClearDropsOneAnsweredRequest

-----------------------------------------------------------------------------
(* Memory.                                                                 *)

(* What recv keeps for a read, at least.                                   *)
Slack == Larger(RBufCap, GrowBy)

(* A buffer that grows holds no more than twice what it is asked for.      *)
LEMMA ReserveBound ==
    ASSUME NEW c \in Nat, NEW n \in Nat, NEW more \in Nat
    PROVE  Reserve(c, n, more) = c \/ Reserve(c, n, more) <= 2 * (n + more)
BY DEF Reserve, Larger

(* So does one that recv or the loop over the missing bytes makes grow.    *)
LEMMA RoomBound ==
    ASSUME NEW c \in Nat, NEW n \in Nat, n <= c
    PROVE  /\ RecvRoom(c, n) = c \/ RecvRoom(c, n) <= 2 * (n + Slack)
           /\ ChunkMut(c, n) = c \/ ChunkMut(c, n) <= 2 * (n + Slack)
<1>1. /\ n \in Int
      /\ RBufCap \in Nat /\ RBufCap > 0 /\ GrowBy \in Nat /\ Slack \in Nat
      /\ RBufCap <= Slack /\ GrowBy <= Slack /\ LowCap \in Nat
    BY BufferAssumption DEF Slack, Larger
<1>2. ChunkMut(c, n) = c \/ ChunkMut(c, n) <= 2 * (n + Slack)
    <2>1. Reserve(c, n, GrowBy) = c \/ Reserve(c, n, GrowBy) <= 2 * (n + GrowBy)
        BY <1>1, ReserveBound
    <2>2. Reserve(c, n, GrowBy) \in Nat
        BY <1>1, ReserveMakesRoom
    <2> QED BY <1>1, <2>1, <2>2 DEF ChunkMut
<1>3. CASE c <= LowCap
    <2>1. PICK r : r = Reserve(c, n, RBufCap)
        OBVIOUS
    <2>2. r \in Nat /\ r - n >= RBufCap
        BY <1>1, <2>1, ReserveMakesRoom
    <2>3. r = c \/ r <= 2 * (n + RBufCap)
        BY <1>1, <2>1, ReserveBound
    <2>4. RecvRoom(c, n) = r
        BY <1>1, <1>3, <2>1, <2>2 DEF RecvRoom, ChunkMut
    <2> QED BY <1>1, <1>2, <2>2, <2>3, <2>4
<1>4. CASE ~ (c <= LowCap)
    BY <1>2, <1>4 DEF RecvRoom
<1> QED BY <1>2, <1>3, <1>4

(* The missing bytes are those up to the declared end of the HTTP heads.   *)
LEMMA MissingReach ==
    ASSUME NEW c \in Contexts, NEW k \in Nat, NEW m \in Requests,
           m.method \in Methods, NEW ptr \in Nat, NEW n \in Int
    PROVE  LET d == InitCtx(c, k, m, ptr, n)
           IN  \/ d.missing = 0
               \/ /\ m.ee # <<>>
                  /\ n + d.missing = m.head + LastEntity(m.ee).off
<1> DEFINE e == ParseIcapHeaders(DecodeIcapRequest(c, k, m, ptr), m)
<1>1. e \in Contexts /\ e.ee = m.ee /\ e.parsed = m.head
    <2>1. DecodeIcapRequest(c, k, m, ptr) \in Contexts
        BY DecodedIsContext
    <2>2. e \in Contexts
        BY <2>1, ParsedIsContext
    <2>3. DecodeIcapRequest(c, k, m, ptr).parsed = m.head
        BY DEF DecodeIcapRequest, Contexts
    <2>4. e.ee = m.ee /\ e.parsed = DecodeIcapRequest(c, k, m, ptr).parsed
        BY <2>1 DEF ParseIcapHeaders, Contexts
    <2> QED BY <2>2, <2>3, <2>4
<1> HIDE DEF e
<1>2. m.ee \in Seq(Entities) /\ m.head \in Nat
    BY DEF Requests
<1>3. m.ee # <<>> => LastEntity(m.ee).off \in Nat
    BY <1>2, LastIsEntity DEF Entities
<1>4. LET d == AllocBufferForHeaders(e, n)
      IN  \/ d.missing = 0
          \/ /\ m.ee # <<>>
             /\ n + d.missing = m.head + LastEntity(m.ee).off
    <2>1. ASSUME NEW x, NEW y
          PROVE  [e EXCEPT !.bodyOff = x, !.missing = y].missing = y
        BY <1>1 DEF Contexts
    <2>2. CASE m.ee = <<>>
        BY <1>1, <2>1, <2>2 DEF AllocBufferForHeaders
    <2>3. CASE m.ee # <<>>
        <3>1. PICK off \in Nat : off = LastEntity(m.ee).off
            BY <1>3, <2>3
        <3>2. PICK left :
                 left = IF off > n - m.head THEN off - (n - m.head) ELSE 0
            OBVIOUS
        <3>3. AllocBufferForHeaders(e, n)
                 = [e EXCEPT !.bodyOff = off, !.missing = left]
            BY <1>1, <2>3, <3>1, <3>2 DEF AllocBufferForHeaders
        <3>4. AllocBufferForHeaders(e, n).missing = left
            BY <2>1, <3>3
        <3>5. left = 0 \/ n + left = m.head + off
            BY <1>2, <3>1, <3>2, SMTT(40)
        <3> QED BY <2>3, <3>1, <3>4, <3>5
    <2> QED BY <2>2, <2>3
<1> QED BY <1>4 DEF InitCtx, e

(* What makes rbuf grow.                                                   *)
Growing == RecvHead \/ RecvMissing \/ RecvChunk \/ InitComplete

(* Nothing else changes its capacity.                                      *)
LEMMA GrowsByThese ==
    ASSUME [Next]_vars, ~ Growing PROVE cap' = cap
BY DEF Growing, Next, vars, clientVars, bufVars,
       Client, ClientSend, ClientClose, ClientGone, ClientRead,
       Recv, RecvEof, RecvError, RecvTimeout,
       Abandon, Goto, Local, InitPartial, InitBad,
       HeadersReceived, ChunkMore, ChunkBad, ChunkOk, ParseOk, ParseBad,
       Refuse, SendStatus, Service, ServiceFails, ServiceReturns, ServicePanics,
       AllocFails, ProcessOptions, NoDecision, Send204, AppendHeaders,
       NoHttpStatus, CustomResponse, Answering, Reply, WriteOut, WriteStatus,
       WriteHead, WriteHttp, WriteFail, Yield, Shutdown, Terminated

(* A client that waits has one request in rbuf, and no more.               *)
LEMMA OneAtATime ==
    ASSUME AInv, PacedInv, [Next]_vars, Growing
    PROVE  /\ LastSent \in DOMAIN sent /\ Current = LastSent
           /\ Buffered \in Nat /\ Buffered <= cap
           /\ Buffered <= Size(Request(LastSent))
<1>1. /\ TypeOK /\ RequestInv /\ BufferInv /\ StreamInv /\ CoverInv
    BY DEF AInv, IInv
<1>2. pc \in {"init", "head", "missing", "chunkrecv"}
    BY DEF Growing, RecvHead, RecvMissing, RecvChunk, InitComplete
<1>3. BusyInv
    BY <1>1, <1>2, IdleWaits DEF PacedInv, AnsweredInv, Growing, Ended
<1>4. LastSent \in DOMAIN sent /\ sent[LastSent].start = base
    BY <1>1, <1>3 DEF BusyInv, LastSent, TypeOK
<1>5. Current = LastSent
    BY <1>1, <1>4, CurrentIsThat
<1>6. pos <= End(LastSent)
    BY <1>1, <1>4, LastEndsLast, StreamEnds, EndIsNat
<1>7. Size(Request(LastSent)) \in Nat
    BY <1>1, <1>4, SentIsRequest, SMTT(40) DEF Requests, Size, HttpLen, BodyLen, CRLF
<1> QED BY <1>1, <1>4, <1>5, <1>6, <1>7, SMTT(40)
        DEF End, Buffered, BufferInv, TypeOK

(* Where a request ends is no farther than its extent.                     *)
LEMMA ExtentReach ==
    ASSUME NEW m \in Requests
    PROVE  /\ Extent(m) \in Nat /\ Size(m) \in Nat /\ Size(m) <= Extent(m)
           /\ m.ee # <<>> => /\ LastEntity(m.ee).off \in Nat
                            /\ m.head + LastEntity(m.ee).off <= Extent(m)
<1>1. m.ee \in Seq(Entities) /\ m.head \in Nat /\ m.line \in Nat
    BY DEF Requests
<1>2. Size(m) \in Nat
    BY DEF Requests, Size, HttpLen, BodyLen, CRLF
<1>3. m.ee # <<>> => LastEntity(m.ee).off \in Nat
    BY <1>1, LastIsEntity DEF Entities
<1>4. PICK off :
         off = m.head + m.line + CRLF
                 + (IF m.ee = <<>> THEN 0 ELSE LastEntity(m.ee).off)
    OBVIOUS
<1>5. off \in Nat /\ (m.ee # <<>> => m.head + LastEntity(m.ee).off <= off)
    BY <1>1, <1>3, <1>4, SMTT(40) DEF CRLF
<1>6. Extent(m) = IF Size(m) >= off THEN Size(m) ELSE off
    BY <1>4 DEF Extent, Larger
<1>7. Extent(m) \in Nat /\ Size(m) <= Extent(m) /\ off <= Extent(m)
    BY <1>2, <1>5, <1>6
<1> QED BY <1>1, <1>2, <1>3, <1>5, <1>7

(* The capacity that a step gives rbuf follows the request in it.          *)
LEMMA GrowsForRequest ==
    ASSUME AInv, PacedInv, [Next]_vars, Growing, cap' # cap
    PROVE  cap' <= 2 * (Extent(Request(LastSent)) + Slack)
<1>1. /\ LastSent \in DOMAIN sent /\ Current = LastSent
      /\ Buffered \in Nat /\ Buffered <= cap
      /\ Buffered <= Size(Request(LastSent))
    BY OneAtATime
<1>2. TypeOK /\ cap \in Nat /\ ctx \in Contexts
    BY DEF AInv, IInv, TypeOK
<1>3. PICK m \in Requests : m = Request(LastSent)
    BY <1>1, <1>2, SentIsRequest
<1>4. /\ Extent(m) \in Nat /\ Size(m) <= Extent(m) /\ Size(m) \in Nat
      /\ m.ee # <<>> => /\ LastEntity(m.ee).off \in Nat
                       /\ m.head + LastEntity(m.ee).off <= Extent(m)
    BY <1>3, ExtentReach
<1>5. Slack \in Nat
    BY BufferAssumption DEF Slack, Larger
<1>6. CASE RecvHead \/ RecvMissing \/ RecvChunk
    <2>1. cap' = RecvRoom(cap, Buffered) \/ cap' = ChunkMut(cap, Buffered)
        BY <1>6 DEF RecvHead, RecvMissing, RecvChunk, Read
    <2>2. cap' <= 2 * (Buffered + Slack)
        BY <1>1, <1>2, <2>1, RoomBound
    <2>3. cap' = RecvRoom(cap, Buffered) \/ cap' = ChunkMut(cap, Buffered)
             => cap' \in Int
        BY <1>1, <1>2, RecvRoomGrows, ChunkMutGrows
    <2> QED BY <1>1, <1>3, <1>4, <1>5, <2>1, <2>2, <2>3
<1>7. CASE InitComplete
    <2>1. PICK x : x = ctx'.missing
        OBVIOUS
    <2>2. /\ cap' = RoomForHeaders(cap, Buffered, x)
          /\ ctx' = InitCtx(ctx, LastSent, m, cap, Buffered)
          /\ m.method \in Methods
        BY <1>1, <1>3, <1>7, <2>1 DEF InitComplete, InitOk, HeadReadable
    <2>3. LastSent \in Nat
        BY <1>1, <1>2, SentIsRequest
    <2>4. \/ x = 0
          \/ /\ m.ee # <<>>
             /\ Buffered + x = m.head + LastEntity(m.ee).off
        BY <1>1, <1>2, <2>1, <2>2, <2>3, MissingReach
    <2>5. x \in Nat
        <3>1. ctx' \in Contexts
            BY <1>1, <1>2, <2>2, <2>3, InitIsContext
        <3> QED BY <2>1, <3>1 DEF Contexts
    <2>6. x # 0 /\ cap' = Reserve(cap, Buffered, x)
        BY <2>2, <2>5 DEF RoomForHeaders
    <2>7. cap' <= 2 * (Buffered + x) /\ cap' \in Nat
        <3>1. PICK n \in Nat : n = Buffered /\ n \in Int
            BY <1>1
        <3>2. /\ Reserve(cap, n, x) = cap \/ Reserve(cap, n, x) <= 2 * (n + x)
              /\ Reserve(cap, n, x) \in Nat
            BY <1>2, <2>5, <3>1, ReserveBound, ReserveMakesRoom
        <3> QED BY <2>6, <3>1, <3>2
    <2>8. Buffered + x <= Extent(m)
        BY <1>4, <2>4, <2>6
    <2> QED BY <1>1, <1>3, <1>4, <1>5, <2>5, <2>7, <2>8
<1> QED BY <1>6, <1>7 DEF Growing

(* rbuf never grows beyond what the largest request on the connection      *)
(* needs or declares, however many there are and however their bytes come  *)
(* in, if the client waits for its answers (no bytes of a later request    *)
(* share rbuf with the one at hand, so its length bounds the reserves).    *)
THEOREM MemoryFollows == ASSUME Waiting PROVE Spec => []MemoryFollowsRequests
<1> DEFINE Fits(k) == cap <= 2 * (Extent(Request(k)) + Larger(RBufCap, GrowBy))
<1>1. Init => MemoryFollowsRequests
    BY DEF Init, MemoryFollowsRequests
<1>2. ASSUME AInv, PacedInv, MemoryFollowsRequests, [Next]_vars
      PROVE  MemoryFollowsRequests'
    <2>1. TypeOK
        BY <1>2 DEF AInv, IInv
    <2>2. \A k \in DOMAIN sent : k \in DOMAIN sent' /\ Request(k)' = Request(k)
        BY <1>2, <2>1, SentKept
    <2>3. CASE cap' = cap
        <3>1. CASE cap = RBufCap
            BY <2>3, <3>1 DEF MemoryFollowsRequests
        <3>2. CASE \E k \in DOMAIN sent : Fits(k)
            <4>1. PICK k \in DOMAIN sent : Fits(k)
                BY <3>2
            <4> QED BY <2>2, <2>3, <4>1 DEF MemoryFollowsRequests
        <3> QED BY <1>2, <3>1, <3>2 DEF MemoryFollowsRequests
    <2>4. CASE cap' # cap
        <3>1. Growing
            BY <1>2, <2>4, GrowsByThese
        <3>2. LastSent \in DOMAIN sent
            BY <1>2, <3>1, OneAtATime
        <3>3. cap' <= 2 * (Extent(Request(LastSent)) + Slack)
            BY <1>2, <2>4, <3>1, GrowsForRequest
        <3>4. PICK k \in DOMAIN sent : k = LastSent
            BY <3>2
        <3>5. k \in DOMAIN sent' /\ Request(k)' = Request(k)
            BY <2>2
        <3> QED BY <3>3, <3>4, <3>5 DEF MemoryFollowsRequests, Slack
    <2> QED BY <2>3, <2>4
<1>3. (AInv /\ PacedInv) /\ MemoryFollowsRequests /\ [Next]_vars
         => MemoryFollowsRequests'
    BY <1>2
<1> QED BY <1>1, <1>3, PacedInductive, PTL DEF Spec
=============================================================================
