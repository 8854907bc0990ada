------------------------- MODULE IcapHeadersProofs --------------------------
(***************************************************************************)
(* Proofs about parse_icap_headers, for every set of headers: any number   *)
(* of them, values of any length, any words and numbers.                   *)
(***************************************************************************)
EXTENDS IcapHeadersProperties, SequenceLemmas

(* The inductive invariant.                                                *)
Inv == TypeOK /\ OrderInv

-----------------------------------------------------------------------------
(* Skipping a token moves on by one place at most.                         *)
LEMMA PastMoves ==
    ASSUME NEW v, NEW p \in Nat, NEW S
    PROVE  /\ Past(v, p, S) \in Nat /\ p <= Past(v, p, S)
           /\ Past(v, p, S) <= p + 1
BY DEF Past

(* Nor does it leave the value.                                            *)
LEMMA PastStays ==
    ASSUME NEW v \in Seq(Tokens), NEW p \in 1 .. Len(v) + 1, NEW S
    PROVE  Past(v, p, S) \in 1 .. Len(v) + 1
BY DEF Past, At

(* The parts of an entity come one after the other.                        *)
LEMMA PlacesMove ==
    ASSUME NEW v \in Seq(Tokens), NEW p \in Nat \ {0}, NEW comma \in BOOLEAN
    PROVE  /\ Places(v, p, comma).offset \in Nat
           /\ p <= Places(v, p, comma).offset
<1> DEFINE start  == Past(v, p, Blanks)
           delim  == IF comma THEN Past(v, start, {"comma"}) ELSE start
           name   == Past(v, delim, Blanks)
           named  == Past(v, name, Words)
           equals == Past(v, named, Blanks)
           equal  == Past(v, equals, {"equals"})
           offset == Past(v, equal, Blanks)
<1>1. start \in Nat /\ p <= start
    BY PastMoves
<1>2. delim \in Nat /\ start <= delim
    <2> HIDE DEF start
    <2>1. /\ Past(v, start, {"comma"}) \in Nat
          /\ start <= Past(v, start, {"comma"})
        BY <1>1, PastMoves
    <2> DEFINE past == Past(v, start, {"comma"})
    <2>2. past \in Nat /\ start <= past
        BY <2>1
    <2> HIDE DEF past
    <2>3. delim = IF comma THEN past ELSE start
        BY DEF past
    <2> HIDE DEF delim
    <2>4. CASE comma
        BY <2>2, <2>3, <2>4
    <2>5. CASE ~ comma
        BY <1>1, <2>3, <2>5
    <2> QED BY <2>4, <2>5
<1>3. name \in Nat /\ delim <= name
    <2> HIDE DEF delim
    <2> QED BY <1>2, PastMoves
<1>4. named \in Nat /\ name <= named
    <2> HIDE DEF name
    <2> QED BY <1>3, PastMoves
<1>5. equals \in Nat /\ named <= equals
    <2> HIDE DEF named
    <2> QED BY <1>4, PastMoves
<1>6. equal \in Nat /\ equals <= equal
    <2> HIDE DEF equals
    <2> QED BY <1>5, PastMoves
<1>7. offset \in Nat /\ equal <= offset
    <2> HIDE DEF equal
    <2> QED BY <1>6, PastMoves
<1>8. Places(v, p, comma).offset = offset
    BY DEF Places
<1> HIDE DEF start, delim, name, named, equals, equal, offset
<1> QED BY <1>1, <1>2, <1>3, <1>4, <1>5, <1>6, <1>7, <1>8

(* The header the loop is at is one of those there can be.                 *)
LEMMA LastValueType ==
    ASSUME TypeOK, read # <<>>
    PROVE  LastValue \in Seq(Tokens) /\ Len(LastValue) \in Nat
<1>1. read[Len(read)] \in Fields
    BY DEF TypeOK
<1> QED BY <1>1 DEF LastValue, Fields

(* Offsets are numbers.                                                    *)
LEMMA OffsetType ==
    ASSUME NEW l \in Seq(Entities), NEW k \in 1 .. Len(l)
    PROVE  l[k].off \in Nat
<1>1. l[k] \in Entities
    OBVIOUS
<1> QED BY <1>1 DEF Entities

(* decode_allow yields codes.                                              *)
LEMMA AllowType == ASSUME NEW v PROVE DecodeAllow(v) \in SUBSET AllowCodes
BY DEF DecodeAllow, CodeOf, AllowCodes

(* The codes of two Allow headers together.                                *)
LEMMA AddAllowType ==
    ASSUME NEW c \in Option(SUBSET AllowCodes), NEW m \in SUBSET AllowCodes
    PROVE  AddAllow(c, m) \in Option(SUBSET AllowCodes)
<1>1. CASE c = {}
    BY <1>1 DEF AddAllow, Option
<1>2. CASE c # {}
    <2>1. PICK x \in c : TRUE
        BY <1>2
    <2>2. Value(c) \in c
        BY <2>1 DEF Value
    <2>3. Value(c) \in SUBSET AllowCodes
        BY <2>2 DEF Option
    <2> QED BY <1>2, <2>3 DEF AddAllow, Option
<1> QED BY <1>1, <1>2

(* decode_preview yields a number, if anything.                            *)
LEMMA PreviewType ==
    ASSUME NEW v \in Seq(Tokens)
    PROVE  DecodePreview(v) \in Option(Nat)
<1>1. CASE AsciiWords(v) # {} /\ IsUsize(v, FirstWord(v))
    <2>1. v[FirstWord(v)[2]] \in Digits
        BY <1>1 DEF IsUsize
    <2>2. Number[v[FirstWord(v)[2]]] \in Nat
        BY <2>1, NumberAssumption
    <2> QED BY <1>1, <2>2 DEF DecodePreview, Option
<1>2. CASE ~ (AsciiWords(v) # {} /\ IsUsize(v, FirstWord(v)))
    BY <1>2 DEF DecodePreview, Option
<1> QED BY <1>1, <1>2

-----------------------------------------------------------------------------
(* The loop starts with the invariant.                                     *)
LEMMA InitInv == Init => Inv
<1> SUFFICES ASSUME Init PROVE Inv
    OBVIOUS
<1>1. /\ read \in Seq(Fields) /\ list \in Seq(Entities) /\ Len(list) = 0
      /\ preview \in Option(Nat) /\ allow \in Option(SUBSET AllowCodes)
    BY DEF Init, Option
<1>2. TypeOK
    <2>1. /\ method \in Methods /\ pc \in Locations /\ i \in Nat \ {0}
          /\ result = "none" /\ pc = "header"
        BY DEF Init, Locations
    <2>2. delimiter \in BOOLEAN /\ nullBody \in BOOLEAN
        BY Zenon DEF Init
    <2> QED BY <1>1, <2>1, <2>2 DEF TypeOK
<1>3. OrderInv
    BY <1>1 DEF Init, OrderInv, OrderedUpTo
<1> QED BY <1>2, <1>3 DEF Inv

(* An error return keeps the types of what it leaves alone.                *)
LEMMA FailInv ==
    ASSUME Inv, Fail, read' \in Seq(Fields)
    PROVE  Inv'
BY DEF Inv, TypeOK, OrderInv, Fail, Return, Locations

(* A header read is a header there can be.                                 *)
LEMMA ReadType ==
    ASSUME Inv, NEW h \in Headers, read' = Append(read, h)
    PROVE  /\ h \in Fields /\ read' \in Seq(Fields) /\ read' # <<>>
           /\ read'[Len(read')] = h /\ h.value \in Seq(Tokens)
<1>1. h \in Fields /\ read \in Seq(Fields)
    BY HeadersAssumption DEF Inv, TypeOK
<1> HIDE DEF Fields
<1>2. /\ read' \in Seq(Fields) /\ read' # <<>>
      /\ read'[Len(read')] = h
    BY <1>1, AppendProperties
<1> QED BY <1>1, <1>2 DEF Fields

(* Reading a header, of each of the four kinds.                            *)
LEMMA ReadHeaderInv == ASSUME Inv, ReadHeader PROVE Inv'
<1>1. PICK h \in Headers : /\ read' = Append(read, h)
                           /\ \/ ReadEncapsulated(h) \/ ReadPreview(h)
                              \/ ReadAllow(h) \/ ReadOther(h)
    BY DEF ReadHeader
<1>2. /\ read' \in Seq(Fields) /\ read' # <<>>
      /\ read'[Len(read')] = h /\ h.value \in Seq(Tokens)
    BY <1>1, ReadType
<1>3. pc = "header"
    BY DEF ReadHeader
<1>4. CASE ReadEncapsulated(h)
    <2>1. LastValue' \in Seq(Tokens) /\ Len(LastValue') \in Nat
        BY <1>2 DEF LastValue
    <2>2. i' <= Len(LastValue') + 1
        BY <1>4, <2>1 DEF ReadEncapsulated
    <2>3. TypeOK'
        <3>1. /\ pc' = "entity" /\ pc' \in Locations /\ i' \in Nat \ {0}
              /\ UNCHANGED <<method, list, preview, allow, nullBody, result>>
            BY <1>4 DEF ReadEncapsulated, Locations
        <3>2. delimiter' \in BOOLEAN
            BY <1>4, Zenon DEF ReadEncapsulated
        <3> QED BY <1>2, <1>3, <2>2, <3>1, <3>2 DEF Inv, TypeOK
    <2>4. OrderInv'
        BY <1>3, <1>4 DEF Inv, OrderInv, ReadEncapsulated, TypeOK
    <2> QED BY <2>3, <2>4 DEF Inv
<1>5. CASE ReadPreview(h)
    <2>1. CASE DecodePreview(h.value) # {}
        <3>1. preview' \in Option(Nat)
            BY <1>2, <1>5, <2>1, PreviewType DEF ReadPreview
        <3>2. TypeOK'
            BY <1>2, <1>3, <1>5, <2>1, <3>1 DEF Inv, TypeOK, ReadPreview
        <3>3. OrderInv'
            BY <1>3, <1>5, <2>1 DEF Inv, OrderInv, OrderedUpTo, ReadPreview
        <3> QED BY <3>2, <3>3 DEF Inv
    <2>2. CASE DecodePreview(h.value) = {}
        BY <1>2, <1>5, <2>2, FailInv DEF ReadPreview
    <2> QED BY <2>1, <2>2
<1>6. CASE ReadAllow(h)
    <2>1. allow' \in Option(SUBSET AllowCodes)
        BY <1>6, AllowType, AddAllowType DEF ReadAllow, Inv, TypeOK
    <2>2. TypeOK'
        BY <1>2, <1>3, <1>6, <2>1 DEF Inv, TypeOK, ReadAllow
    <2>3. OrderInv'
        BY <1>3, <1>6 DEF Inv, OrderInv, OrderedUpTo, ReadAllow
    <2> QED BY <2>2, <2>3 DEF Inv
<1>7. CASE ReadOther(h)
    <2>1. TypeOK'
        BY <1>2, <1>3, <1>7 DEF Inv, TypeOK, ReadOther
    <2>2. OrderInv'
        BY <1>3, <1>7 DEF Inv, OrderInv, OrderedUpTo, ReadOther
    <2> QED BY <2>1, <2>2 DEF Inv
<1> QED BY <1>1, <1>4, <1>5, <1>6, <1>7

(* Blanks at the end of a value.                                           *)
LEMMA ParseBlankInv == ASSUME Inv, ParseBlank PROVE Inv' /\ i' > i
<1>1. LastValue \in Seq(Tokens) /\ Len(LastValue) \in Nat /\ i \in Nat \ {0}
    BY LastValueType DEF Inv, TypeOK, ParseBlank
<1>2. i' \in 1 .. Len(LastValue) + 1
    BY <1>1, PastStays DEF ParseBlank, BlanksConsumed
<1>3. i' > i
    BY <1>1 DEF ParseBlank, BlanksConsumed, Blank, Past
<1>4. LastValue' = LastValue
    BY DEF ParseBlank, LastValue
<1>5. TypeOK'
    BY <1>1, <1>2, <1>4 DEF Inv, TypeOK, ParseBlank
<1>6. OrderInv'
    BY DEF Inv, OrderInv, ParseBlank, TypeOK
<1> QED BY <1>3, <1>5, <1>6 DEF Inv

(* An entity, or a mistake in its place.                                   *)
LEMMA ParseEntityInv ==
    ASSUME Inv, ParseEntity PROVE Inv' /\ (pc' = pc => i' > i)
<1> DEFINE v  == LastValue
           at == Places(v, i, delimiter)
<1>1. v \in Seq(Tokens) /\ Len(v) \in Nat /\ i \in Nat \ {0}
    BY LastValueType DEF Inv, TypeOK, ParseEntity
<1>2. CASE HasEntityAt(v, at, delimiter)
    <2>1. at.offset \in Nat /\ i <= at.offset
        BY <1>1, PlacesMove DEF Inv, TypeOK
    <2>2. at.offset <= Len(v) /\ v[at.offset] \in Digits
        BY <1>2 DEF HasEntityAt, At
    <2>3. v[at.name] \in HeaderKinds \cup BodyKinds
        BY <1>2 DEF HasEntityAt, KnownEntity
    <2>4. Number[v[at.offset]] \in Nat
        BY <2>2, NumberAssumption
    <2>5. /\ list' = Append(list, [kind |-> v[at.name],
                                   off |-> Number[v[at.offset]]])
          /\ i' = at.offset + 1 /\ delimiter' = TRUE
          /\ UNCHANGED <<method, read, pc, preview, allow, nullBody, result>>
        BY <1>2 DEF ParseEntity
    <2>6. [kind |-> v[at.name], off |-> Number[v[at.offset]]] \in Entities
        BY <2>3, <2>4 DEF Entities
    <2>7. list' \in Seq(Entities)
        BY <2>5, <2>6, AppendProperties DEF Inv, TypeOK
    <2>8. LastValue' = v
        BY <2>5 DEF LastValue
    <2>9. i' \in Nat \ {0} /\ i' <= Len(LastValue') + 1 /\ i' > i
        BY <1>1, <2>1, <2>2, <2>5, <2>8, SMTT(40)
    <2>10. pc = "entity"
        BY DEF ParseEntity
    <2>11. TypeOK'
        BY <2>5, <2>7, <2>9, <2>10 DEF Inv, TypeOK
    <2>12. OrderInv'
        BY <2>5, <2>10 DEF Inv, OrderInv, TypeOK
    <2> QED BY <2>9, <2>11, <2>12 DEF Inv
<1>3. CASE ~ HasEntityAt(v, at, delimiter)
    <2>1. Fail /\ UNCHANGED read
        BY <1>3 DEF ParseEntity
    <2>2. Inv'
        BY <2>1, FailInv DEF Inv, TypeOK
    <2>3. pc' # pc
        BY <2>1 DEF Fail, Return, ParseEntity
    <2> QED BY <2>2, <2>3
<1> QED BY <1>2, <1>3

(* The end of the value.                                                   *)
LEMMA ValueParsedInv == ASSUME Inv, ValueParsed PROVE Inv' /\ pc' # pc
<1>1. pc' # pc
    BY DEF ValueParsed, Fail, Return
<1>2. CASE list # <<>>
    <2>1. Len(list) \in Nat \ {0}
        BY <1>2, EmptySeq DEF Inv, TypeOK
    <2>2. /\ pc' = "order" /\ i' = 1
          /\ UNCHANGED <<method, read, delimiter, list, preview, allow,
                         nullBody, result>>
        BY <1>2 DEF ValueParsed, FirstEntity
    <2>3. result = "none"
        BY DEF Inv, TypeOK, ValueParsed
    <2>4. TypeOK'
        BY <2>1, <2>2, <2>3 DEF Inv, TypeOK, Locations
    <2>5. OrderInv'
        <3>1. \A k \in 1 .. 1 : list[k].off <= list[k].off
            BY <2>1, OffsetType DEF Inv, TypeOK
        <3>2. OrderedUpTo(1)'
            BY <2>2, <3>1 DEF OrderedUpTo
        <3> QED BY <2>2, <2>3, <3>2 DEF OrderInv
    <2> QED BY <1>1, <2>4, <2>5 DEF Inv
<1>3. CASE list = <<>>
    BY <1>1, <1>3, FailInv DEF ValueParsed, Inv, TypeOK
<1> QED BY <1>2, <1>3

(* One pair of neighbours: what is in order up to i is so up to i + 1.     *)
LEMMA CheckOrderInv ==
    ASSUME Inv, CheckOrder PROVE Inv' /\ (pc' = pc => i' > i)
<1>1. /\ list \in Seq(Entities) /\ Len(list) \in Nat /\ i \in Nat \ {0}
      /\ i < Len(list) /\ pc = "order" /\ result = "none"
    BY DEF Inv, TypeOK, CheckOrder
<1>2. CASE list[i].off <= list[i + 1].off
    <2>1. /\ i' = i + 1
          /\ UNCHANGED <<method, read, pc, delimiter, list, preview, allow,
                         nullBody, result>>
        <3>1. list[i].off \in Nat /\ list[i + 1].off \in Nat
            BY <1>1, OffsetType
        <3> QED BY <1>2, <3>1 DEF CheckOrder
    <2>2. TypeOK'
        BY <1>1, <2>1 DEF Inv, TypeOK
    <2>3. \A k \in 1 .. Len(list) : list[k].off \in Nat
        BY <1>1, OffsetType
    <2>4. OrderedUpTo(i)
        BY <1>1 DEF Inv, OrderInv
    <2>5. ASSUME NEW k \in 1 .. i + 1, NEW l \in 1 .. i + 1, k <= l
          PROVE  list[k].off <= list[l].off
        <3>1. /\ list[k].off \in Nat /\ list[i].off \in Nat
              /\ list[i + 1].off \in Nat
            BY <1>1, <2>3, SMTT(40)
        <3>2. CASE l <= i
            BY <1>1, <2>4, <2>5, <3>2 DEF OrderedUpTo
        <3>3. CASE l = i + 1 /\ k <= i
            <4>1. list[k].off <= list[i].off
                BY <1>1, <2>4, <3>3 DEF OrderedUpTo
            <4> QED BY <1>2, <3>1, <3>3, <4>1
        <3>4. CASE l = i + 1 /\ k = i + 1
            BY <3>1, <3>4
        <3> QED BY <1>1, <2>5, <3>2, <3>3, <3>4
    <2>6. OrderedUpTo(i)'
        BY <2>1, <2>5 DEF OrderedUpTo
    <2>7. OrderInv'
        BY <1>1, <2>1, <2>6 DEF OrderInv
    <2> QED BY <1>1, <2>1, <2>2, <2>7 DEF Inv
<1>3. CASE list[i + 1].off < list[i].off /\ Fail /\ UNCHANGED read
    <2>1. Inv'
        BY <1>3, FailInv DEF Inv, TypeOK
    <2> QED BY <1>1, <1>3, <2>1 DEF Fail, Return
<1> QED BY <1>2, <1>3 DEF CheckOrder

(* The order check is through.                                             *)
LEMMA OrderCheckedInv == ASSUME Inv, OrderChecked PROVE Inv' /\ pc' # pc
<1>1. TypeOK'
    BY DEF Inv, TypeOK, OrderChecked, Locations
<1>2. OrderInv'
    BY DEF Inv, TypeOK, OrderInv, OrderedUpTo, OrderChecked
<1> QED BY <1>1, <1>2 DEF Inv, OrderChecked

(* The verdict.                                                            *)
LEMMA FinishInv == ASSUME Inv, Finish PROVE Inv'
<1>1. CASE ~ Accepted
    BY <1>1, FailInv DEF Finish, Inv, TypeOK
<1>2. CASE Accepted
    <2>1. /\ nullBody' \in BOOLEAN /\ pc' = "done" /\ result' = "ok"
          /\ UNCHANGED <<method, read, i, delimiter, list, preview, allow>>
        BY <1>2 DEF Finish, Return
    <2>2. TypeOK'
        BY <2>1 DEF Inv, TypeOK, Locations
    <2>3. OrderedUpTo(Len(list))
        BY DEF Inv, OrderInv, Finish
    <2>4. OrderInv'
        BY <1>2, <2>1, <2>3
        DEF OrderInv, OrderedUpTo, Accepted, LastEntity
    <2> QED BY <2>2, <2>4 DEF Inv
<1> QED BY <1>1, <1>2

(* Every step keeps the invariant, and every turn of an inner loop moves   *)
(* on.                                                                     *)
LEMMA NextInv ==
    ASSUME Inv, [Next]_vars
    PROVE  /\ Inv'
           /\ [(pc \in {"entity", "order"} /\ pc' = pc) => (i' > i)]_vars
<1>1. CASE ReadHeader
    BY <1>1, ReadHeaderInv DEF ReadHeader
<1>2. CASE ParseBlank
    BY <1>2, ParseBlankInv
<1>3. CASE ParseEntity
    BY <1>3, ParseEntityInv
<1>4. CASE ValueParsed
    BY <1>4, ValueParsedInv
<1>5. CASE CheckOrder
    BY <1>5, CheckOrderInv
<1>6. CASE OrderChecked
    BY <1>6, OrderCheckedInv
<1>7. CASE Finish
    BY <1>7, FinishInv DEF Finish
<1>8. CASE UNCHANGED vars
    BY <1>8 DEF Inv, TypeOK, OrderInv, OrderedUpTo, LastValue, vars
<1> QED BY <1>1, <1>2, <1>3, <1>4, <1>5, <1>6, <1>7, <1>8
        DEF Next, Step, ParseList, Returned

-----------------------------------------------------------------------------
(* Every variable keeps to its type, and no position leaves the value or   *)
(* the list it is in.                                                      *)
THEOREM TypeCorrect == Spec => []TypeOK
<1>1. Inv => TypeOK
    BY DEF Inv
<1> QED BY InitInv, NextInv, <1>1, PTL DEF Spec

(* An accepted list has been checked for order from end to end.            *)
THEOREM OrderIsChecked == Spec => []OrderInv
<1>1. Inv => OrderInv
    BY DEF Inv
<1> QED BY InitInv, NextInv, <1>1, PTL DEF Spec

(* The body of an accepted list is its last and farthest entity, however   *)
(* many Encapsulated headers it was spread over.                           *)
THEOREM BodyIsBehindHeaders == Spec => []BodyIsFarthest
<1>1. Inv => BodyIsFarthest
    <2> SUFFICES ASSUME Inv, result = "ok", list # <<>>
                 PROVE  /\ LastEntity(list).kind \in BodyKinds
                        /\ \A n \in 1 .. Len(list) :
                              list[n].off <= LastEntity(list).off
        BY DEF BodyIsFarthest
    <2>1. Len(list) \in Nat \ {0}
        BY EmptySeq DEF Inv, TypeOK
    <2> QED BY <2>1 DEF Inv, OrderInv, OrderedUpTo, LastEntity
<1> QED BY InitInv, NextInv, <1>1, PTL DEF Spec

(* The inner loops never stand still.                                      *)
THEOREM LoopsAdvance == Spec => EveryTurnAdvances
BY InitInv, NextInv, PTL DEF Spec, EveryTurnAdvances

-----------------------------------------------------------------------------
(* Accepted is what is said.  The lemmas are about the definitions that    *)
(* say it: first the tokens of a sequence that are kept, and how the       *)
(* headers under a name and the tokens of the entities grow with a header. *)

(* What is kept, member by member of the sequence.                         *)
Pieces(s, S) == [n \in DOMAIN s |-> IF s[n] \in S THEN <<s[n]>> ELSE <<>>]

(* There is one piece for each member.                                     *)
LEMMA PiecesAre ==
    ASSUME NEW T, NEW s \in Seq(T), NEW S
    PROVE  Pieces(s, S) \in Seq(Seq(T)) /\ Len(Pieces(s, S)) = Len(s)
<1> DEFINE U == Seq(T)
           N == Len(s)
<1>1. N \in Nat /\ DOMAIN s = 1 .. N
    BY LenProperties
<1>2. ASSUME NEW n \in 1 .. N
      PROVE  (IF s[n] \in S THEN <<s[n]>> ELSE <<>>) \in U
    <2>1. s[n] \in T
        BY <1>1, ElementOfSeq
    <2>2. <<s[n]>> \in U /\ <<>> \in U
        BY <2>1
    <2> QED BY <2>2
<1> HIDE DEF U, N
<1>3. [n \in 1 .. N |-> IF s[n] \in S THEN <<s[n]>> ELSE <<>>] \in Seq(U)
    BY <1>1, <1>2, IsASeq
<1>4. Pieces(s, S) \in Seq(U) /\ Len(Pieces(s, S)) = N
    BY <1>1, <1>3, LenProperties DEF Pieces
<1> QED BY <1>4 DEF U, N

(* One member more.                                                        *)
LEMMA KeptAppend ==
    ASSUME NEW T, NEW s \in Seq(T), NEW x \in T, NEW S
    PROVE  /\ Kept(s, S) \in Seq(T)
           /\ Kept(Append(s, x), S) =
                 IF x \in S THEN Append(Kept(s, S), x) ELSE Kept(s, S)
<1> DEFINE U == Seq(T)
           N == Len(s)
           ss == Pieces(s, S)
           t == Append(s, x)
           y == IF x \in S THEN <<x>> ELSE <<>>
           k == Kept(s, S)
<1>1. ss \in Seq(U) /\ Len(ss) = N /\ N \in Nat
    BY PiecesAre, LenProperties
<1>2. /\ t \in Seq(T) /\ Len(t) = N + 1 /\ t[N + 1] = x
      /\ \A n \in 1 .. N : t[n] = s[n]
    BY AppendProperties
<1>3. Pieces(t, S) \in Seq(U) /\ Len(Pieces(t, S)) = N + 1
    BY <1>2, PiecesAre
<1>4. y \in U
    OBVIOUS
<1>5. Pieces(t, S)[N + 1] = y /\ \A n \in 1 .. N : Pieces(t, S)[n] = ss[n]
    <2>1. DOMAIN t = 1 .. N + 1 /\ DOMAIN s = 1 .. N
        BY <1>2, LenProperties
    <2>2. N + 1 \in 1 .. N + 1 /\ \A n \in 1 .. N : n \in 1 .. N + 1
        BY <1>1
    <2> HIDE DEF N, t
    <2> QED BY <1>2, <2>1, <2>2 DEF Pieces
<1>6. Kept(t, S) = FlattenSeq(Pieces(t, S)) /\ k = FlattenSeq(ss)
    BY DEF Kept, Pieces
<1>7. k \in U
    BY <1>1, <1>6, FlattenType
<1>8. k \o y = IF x \in S THEN Append(k, x) ELSE k
    <2> HIDE DEF k
    <2> QED BY <1>7, ConcatEmptySeq, AppendIsConcat
<1> HIDE DEF U, N, ss, t, y, k
<1>9. Append(ss, y) \in Seq(U) /\ Len(Append(ss, y)) = N + 1
      /\ Append(ss, y)[N + 1] = y /\ \A n \in 1 .. N : Append(ss, y)[n] = ss[n]
    BY <1>1, <1>4, AppendProperties
<1>10. Pieces(t, S) = Append(ss, y)
    <2>1. \A n \in 1 .. N + 1 : Pieces(t, S)[n] = Append(ss, y)[n]
        BY <1>1, <1>5, <1>9
    <2> QED BY <1>3, <1>9, <2>1, SeqEqual
<1>11. FlattenSeq(Append(ss, y)) = FlattenSeq(ss) \o y
    BY <1>1, <1>4, FlattenAppend DEF U
<1> QED BY <1>6, <1>7, <1>8, <1>10, <1>11 DEF U, t, k

(* Of nothing, nothing is kept.                                            *)
LEMMA KeptEmpty == ASSUME NEW S PROVE Kept(<<>>, S) = <<>>
<1>1. [n \in DOMAIN <<>> |-> IF <<>>[n] \in S THEN <<<<>>[n]>> ELSE <<>>]
         = <<>>
    OBVIOUS
<1> QED BY <1>1, FlattenEmpty DEF Kept

(* What is kept is a sequence of the same kind.                            *)
LEMMA KeptType ==
    ASSUME NEW T, NEW s \in Seq(T), NEW S PROVE Kept(s, S) \in Seq(T)
<1>1. CASE T = {}
    <2>1. s = <<>>
        BY <1>1
    <2> QED BY <2>1, KeptEmpty
<1>2. CASE T # {}
    BY <1>2, KeptAppend
<1> QED BY <1>1, <1>2

(* Of two sequences, first what is kept of the one, then of the other.     *)
LEMMA KeptConcat ==
    ASSUME NEW T, NEW s \in Seq(T), NEW t \in Seq(T), NEW S
    PROVE  Kept(s \o t, S) = Kept(s, S) \o Kept(t, S)
<1> DEFINE U == Seq(T)
           N == Len(t)
           u(n) == SubSeq(t, 1, n)
           I == {n \in Nat : n <= N =>
                   Kept(s \o u(n), S) = Kept(s, S) \o Kept(u(n), S)}
<1>1. N \in Nat
    BY LenProperties
<1>2. \A r \in U : Kept(r, S) \in U
    BY KeptType
<1>3. 0 \in I
    <2>1. u(0) = <<>>
        OBVIOUS
    <2>2. s \o <<>> = s /\ Kept(s, S) \o <<>> = Kept(s, S)
        BY <1>2, ConcatEmptySeq
    <2> QED BY <2>1, <2>2, KeptEmpty
<1>4. ASSUME NEW n \in Nat, n \in I PROVE n + 1 \in I
    <2> SUFFICES ASSUME n + 1 <= N
                 PROVE  Kept(s \o u(n + 1), S)
                           = Kept(s, S) \o Kept(u(n + 1), S)
        OBVIOUS
    <2> DEFINE x == t[n + 1]
    <2>1. x \in T /\ n + 1 \in 1 .. N
        BY <1>1, ElementOfSeq
    <2>2. u(n) \in U /\ u(n + 1) = Append(u(n), x)
        BY <1>1
    <2>3. s \o u(n + 1) = Append(s \o u(n), x) /\ s \o u(n) \in U
        <3> HIDE DEF u, x, U, N
        <3>1. /\ s \o Append(u(n), x) = Append(s \o u(n), x)
              /\ s \o u(n) \in Seq(T)
            BY <2>1, <2>2, SMTT(40) DEF U
        <3> QED BY <2>2, <3>1 DEF U
    <2>4. Kept(s \o u(n), S) = Kept(s, S) \o Kept(u(n), S)
        BY <1>4, <2>1
    <2> HIDE DEF u, x, N
    <2>9. ASSUME NEW r \in U
          PROVE  Kept(Append(r, x), S) =
                    IF x \in S THEN Append(Kept(r, S), x) ELSE Kept(r, S)
        BY <2>1, KeptAppend, SMTT(40)
    <2>5. Kept(u(n + 1), S) =
             IF x \in S THEN Append(Kept(u(n), S), x) ELSE Kept(u(n), S)
        BY <2>2, <2>9
    <2>6. Kept(s \o u(n + 1), S) =
             IF x \in S THEN Append(Kept(s \o u(n), S), x)
                        ELSE Kept(s \o u(n), S)
        BY <2>3, <2>9
    <2>7. Kept(s, S) \in U /\ Kept(u(n), S) \in U
        BY <1>2, <2>2
    <2>8. Kept(s, S) \o Append(Kept(u(n), S), x)
             = Append(Kept(s, S) \o Kept(u(n), S), x)
        BY <2>1, <2>7, SMTT(40)
    <2> QED BY <2>4, <2>5, <2>6, <2>8
<1>5. \A n \in Nat : n \in I
    <2> HIDE DEF I
    <2> QED BY <1>3, <1>4, Induction
<1>6. u(N) = t
    BY <1>1
<1>7. Kept(s \o u(N), S) = Kept(s, S) \o Kept(u(N), S)
    BY <1>1, <1>5
<1> QED BY <1>2, <1>6, <1>7

(* A single member.                                                        *)
LEMMA KeptOne ==
    ASSUME NEW x, NEW S
    PROVE  Kept(<<x>>, S) = IF x \in S THEN <<x>> ELSE <<>>
<1> DEFINE T == {x}
<1>1. <<>> \in Seq(T) /\ x \in T
    OBVIOUS
<1>2. Kept(Append(<<>>, x), S) =
         IF x \in S THEN Append(Kept(<<>>, S), x) ELSE Kept(<<>>, S)
    <2> DEFINE e == <<>>
    <2> HIDE DEF T, e
    <2>1. e \in Seq(T)
        BY <1>1 DEF e
    <2>2. Kept(Append(e, x), S) =
             IF x \in S THEN Append(Kept(e, S), x) ELSE Kept(e, S)
        BY <1>1, <2>1, KeptAppend
    <2> QED BY <2>2 DEF e
<1>3. Append(<<>>, x) = <<x>>
    OBVIOUS
<1> QED BY <1>2, <1>3, KeptEmpty

(* The tokens of the syntax.                                               *)
LEMMA TokensAre ==
    /\ "comma" \in Tokens \ Blanks /\ "equals" \in Tokens \ Blanks
    /\ "ws" \in Tokens
    /\ Words \subseteq Tokens /\ Digits \subseteq Tokens
    /\ HeaderKinds \cup BodyKinds \subseteq Words
BY WordsAssumption DEF Tokens, Blanks

(* A comma is a token, and a value.                                        *)
LEMMA CommaIs == "comma" \in Tokens /\ <<"comma">> \in Seq(Tokens)
<1>1. "comma" \in Tokens
    BY DEF Tokens
<1> DEFINE x == "comma"
<1> HIDE DEF Tokens, x
<1>2. x \in Tokens
    BY <1>1 DEF x
<1>3. <<x>> \in Seq(Tokens)
    BY <1>2
<1> QED BY <1>1, <1>3 DEF x

(* Headers of a name when one more is read.                                *)
LEMMA UnderGrows ==
    ASSUME read \in Seq(Fields), NEW h \in Fields, read' = Append(read, h),
           NEW word
    PROVE  /\ Under(word) \in Seq(Fields)
           /\ Under(word)' = IF Lower[h.name] = word
                             THEN Append(Under(word), h) ELSE Under(word)
<1> DEFINE S == {g \in Fields : Lower[g.name] = word}
<1>1. h \in S <=> Lower[h.name] = word
    OBVIOUS
<1>2. Under(word) = Kept(read, S) /\ Under(word)' = Kept(Append(read, h), S)
    BY DEF Under
<1> HIDE DEF S, Fields
<1>3. /\ Kept(read, S) \in Seq(Fields)
      /\ Kept(Append(read, h), S) =
            IF h \in S THEN Append(Kept(read, S), h) ELSE Kept(read, S)
    BY KeptAppend
<1> QED BY <1>1, <1>2, <1>3

(* The joined values when there is one more.                               *)
LEMMA JoinedAppend ==
    ASSUME NEW hs \in Seq(Fields), NEW h \in Fields
    PROVE  /\ Joined(hs) \in Seq(Tokens)
           /\ Joined(Append(hs, h)) = Joined(hs) \o (<<"comma">> \o h.value)
<1> DEFINE U == Seq(Tokens)
           N == Len(hs)
           J(gs) == [n \in DOMAIN gs |-> <<"comma">> \o gs[n].value]
           y == <<"comma">> \o h.value
           t == Append(hs, h)
<1>1. \A g \in Fields : <<"comma">> \o g.value \in U
    <2> SUFFICES ASSUME NEW g \in Fields PROVE <<"comma">> \o g.value \in U
        OBVIOUS
    <2>1. g.value \in U
        BY DEF Fields
    <2>3. <<"comma">> \in U
        BY CommaIs
    <2> QED BY <2>1, <2>3, ConcatProperties
<1>2. ASSUME NEW gs \in Seq(Fields)
      PROVE  J(gs) \in Seq(U) /\ Len(J(gs)) = Len(gs)
    <2> DEFINE M == Len(gs)
    <2>1. M \in Nat /\ DOMAIN gs = 1 .. M
        BY LenProperties
    <2>2. \A n \in 1 .. M : <<"comma">> \o gs[n].value \in U
        BY <1>1, ElementOfSeq
    <2> HIDE DEF U, M
    <2>3. J(gs) \in [1 .. M -> U]
        BY <2>1, <2>2
    <2> HIDE DEF J
    <2>4. J(gs) \in Seq(U)
        BY <2>1, <2>3, SeqDef
    <2>5. J(gs) \in Seq(U) /\ Len(J(gs)) = M
        BY <2>1, <2>3, <2>4
    <2> QED BY <2>5 DEF M
<1>3. /\ t \in Seq(Fields) /\ Len(t) = N + 1 /\ t[N + 1] = h
      /\ \A n \in 1 .. N : t[n] = hs[n]
    <2> HIDE DEF Fields
    <2> QED BY AppendProperties
<1>4. N \in Nat /\ DOMAIN t = 1 .. N + 1 /\ DOMAIN hs = 1 .. N
    <2>1. N \in Nat /\ DOMAIN hs = 1 .. N
        BY LenProperties
    <2> HIDE DEF Fields, t
    <2>2. DOMAIN t = 1 .. Len(t)
        BY <1>3, LenProperties, SMTT(40)
    <2> QED BY <1>3, <2>1, <2>2
<1>5. J(t)[N + 1] = y /\ \A n \in 1 .. N : J(t)[n] = J(hs)[n]
    <2>1. DOMAIN t = 1 .. N + 1 /\ DOMAIN hs = 1 .. N /\ N + 1 \in 1 .. N + 1
        BY <1>4
    <2>2. \A n \in 1 .. N : n \in 1 .. N + 1
        BY <1>4
    <2> HIDE DEF N, t
    <2>3. J(t)[N + 1] = <<"comma">> \o t[N + 1].value
        BY <2>1
    <2>4. \A n \in 1 .. N : J(t)[n] = <<"comma">> \o t[n].value
        BY <2>1, <2>2
    <2>5. \A n \in 1 .. N : J(hs)[n] = <<"comma">> \o hs[n].value
        BY <2>1
    <2> QED BY <1>3, <2>3, <2>4, <2>5
<1>6. /\ J(t) \in Seq(U) /\ Len(J(t)) = N + 1
      /\ J(hs) \in Seq(U) /\ Len(J(hs)) = N
    BY <1>2, <1>3
<1>7. y \in U
    BY <1>1
<1>8. Joined(t) = FlattenSeq(J(t)) /\ Joined(hs) = FlattenSeq(J(hs))
    BY DEF Joined
<1> HIDE DEF U, N, J, y, t
<1>9. /\ Append(J(hs), y) \in Seq(U) /\ Len(Append(J(hs), y)) = N + 1
      /\ Append(J(hs), y)[N + 1] = y
      /\ \A n \in 1 .. N : Append(J(hs), y)[n] = J(hs)[n]
    BY <1>6, <1>7, AppendProperties
<1>10. J(t) = Append(J(hs), y)
    <2>1. \A n \in 1 .. N + 1 : J(t)[n] = Append(J(hs), y)[n]
        BY <1>4, <1>5, <1>9
    <2> QED BY <1>6, <1>9, <2>1, SeqEqual
<1>11. FlattenSeq(Append(J(hs), y)) = FlattenSeq(J(hs)) \o y
    BY <1>6, <1>7, FlattenAppend DEF U
<1>12. FlattenSeq(J(hs)) \in U
    BY <1>6, FlattenType DEF U
<1> QED BY <1>8, <1>10, <1>11, <1>12 DEF U, t, y

(* Blanks are not kept.                                                    *)
LEMMA NoBlanksAre ==
    ASSUME NEW s \in Seq(Tokens), NEW t \in Seq(Tokens)
    PROVE  /\ NoBlanks(s) \in Seq(Tokens)
           /\ NoBlanks(s \o t) = NoBlanks(s) \o NoBlanks(t)
           /\ NoBlanks(<<"comma">> \o s) = <<"comma">> \o NoBlanks(s)
<1> DEFINE S == Tokens \ Blanks
<1>1. NoBlanks(s) = Kept(s, S) /\ NoBlanks(t) = Kept(t, S)
      /\ NoBlanks(s \o t) = Kept(s \o t, S)
      /\ NoBlanks(<<"comma">> \o s) = Kept(<<"comma">> \o s, S)
    BY DEF NoBlanks
<1>2. "comma" \in S /\ <<"comma">> \in Seq(Tokens)
    BY TokensAre, CommaIs
<1>3. Kept(<<"comma">>, S) = <<"comma">>
    BY <1>2, KeptOne
<1> DEFINE c == <<"comma">>
           U == Seq(Tokens)
<1> HIDE DEF S, c, U
<1>4. Kept(s, S) \in U
    BY KeptType DEF U
<1>5. Kept(s \o t, S) = Kept(s, S) \o Kept(t, S)
    BY KeptConcat
<1>6. c \in Seq(Tokens)
    BY <1>2 DEF c
<1>7. Kept(c \o s, S) = Kept(c, S) \o Kept(s, S)
    BY <1>6, KeptConcat, SMTT(40)
<1> QED BY <1>1, <1>3, <1>4, <1>5, <1>7 DEF U, c

(* The tokens of the entities when one more header is read.                *)
LEMMA EntityTokensGrow ==
    ASSUME read \in Seq(Fields), NEW h \in Fields, read' = Append(read, h)
    PROVE  /\ EntityTokens \in Seq(Tokens)
           /\ EntityTokens' =
                 IF Lower[h.name] = "encapsulated" /\ ~ IsBlank(h.value)
                 THEN EntityTokens \o (<<"comma">> \o NoBlanks(h.value))
                 ELSE EntityTokens
<1> DEFINE u == Under("encapsulated")
           k == Kept(u, NotBlank)
           j == Joined(k)
           v == h.value
<1>1. /\ u \in Seq(Fields)
      /\ u' = IF Lower[h.name] = "encapsulated" THEN Append(u, h) ELSE u
    BY UnderGrows
<1>2. v \in Seq(Tokens)
    BY DEF Fields
<1>3. EntityTokens = NoBlanks(j)
      /\ EntityTokens' = NoBlanks(Joined(Kept(u', NotBlank)))
    BY DEF EntityTokens
<1>4. h \in NotBlank <=> ~ IsBlank(v)
    BY DEF NotBlank
<1>5. /\ k \in Seq(Fields)
      /\ Kept(Append(u, h), NotBlank) =
            IF h \in NotBlank THEN Append(k, h) ELSE k
    <2> HIDE DEF u, Fields
    <2> QED BY <1>1, KeptAppend
<1>6. j \in Seq(Tokens) /\ Joined(Append(k, h)) = j \o (<<"comma">> \o v)
    <2> HIDE DEF k
    <2> QED BY <1>5, JoinedAppend
<1>7. NoBlanks(j) \in Seq(Tokens)
    <2> HIDE DEF j
    <2> QED BY <1>6, NoBlanksAre
<1>8. NoBlanks(j \o (<<"comma">> \o v))
         = NoBlanks(j) \o (<<"comma">> \o NoBlanks(v))
    <2> HIDE DEF j, v
    <2>1. <<"comma">> \in Seq(Tokens)
        BY CommaIs
    <2>2. <<"comma">> \o v \in Seq(Tokens)
        BY <1>2, <2>1, ConcatProperties
    <2>3. NoBlanks(j \o (<<"comma">> \o v))
             = NoBlanks(j) \o NoBlanks(<<"comma">> \o v)
        BY <1>6, <2>2, NoBlanksAre
    <2>4. NoBlanks(<<"comma">> \o v) = <<"comma">> \o NoBlanks(v)
        BY <1>2, NoBlanksAre
    <2> QED BY <2>3, <2>4
<1> HIDE DEF j, k, v, u
<1> QED BY <1>1, <1>3, <1>4, <1>5, <1>6, <1>7, <1>8 DEF j, k, v

(* Without an Encapsulated header there are none.                          *)
LEMMA NoEntityTokens ==
    ASSUME Under("encapsulated") = <<>> PROVE EntityTokens = <<>>
<1>1. Kept(<<>>, NotBlank) = <<>>
    BY KeptEmpty
<1>2. Joined(<<>>) = <<>>
    <2>1. [n \in DOMAIN <<>> |-> <<"comma">> \o <<>>[n].value] = <<>>
        OBVIOUS
    <2> QED BY <2>1, FlattenEmpty DEF Joined
<1> QED BY <1>1, <1>2, KeptEmpty DEF EntityTokens, NoBlanks

-----------------------------------------------------------------------------
(* Lists of entities, of four tokens each.                                 *)

Kinds == HeaderKinds \cup BodyKinds

(* Quarters of a length.                                                   *)
LEMMA Quarters ==
    ASSUME NEW n \in Nat, n % 4 = 0
    PROVE  n \div 4 \in Nat /\ n = 4 * (n \div 4)
OBVIOUS

(* Four times a number is a length of whole quarters.                      *)
LEMMA QuartersAre ==
    ASSUME NEW k \in Nat PROVE (4 * k) % 4 = 0 /\ (4 * k) \div 4 = k
OBVIOUS

(* The entity behind the first n tokens.                                   *)
IsEntity(t, n) ==
    /\ t[n + 1] = "comma" /\ t[n + 3] = "equals" /\ t[n + 2] \in Kinds
    /\ t[n + 4] \in Digits /\ Number[t[n + 4]] <= UsizeMax

EntityOf(t, n) == [kind |-> t[n + 2], off |-> Number[t[n + 4]]]

(* A list of N entities, entity by entity.                                 *)
LEMMA EntitiesAre ==
    ASSUME NEW t \in Seq(Tokens), NEW N \in Nat, Len(t) = 4 * N
    PROVE  /\ IsEntityList(t) <=> \A k \in 1 .. N : IsEntity(t, 4 * k - 4)
           /\ EntityList(t) = [k \in 1 .. N |-> EntityOf(t, 4 * k - 4)]
<1>1. Len(t) % 4 = 0 /\ Len(t) \div 4 = N
    BY QuartersAre
<1>2. ASSUME NEW k \in 1 .. N
      PROVE  /\ (4 * k - 4) + 1 = 4 * k - 3 /\ (4 * k - 4) + 2 = 4 * k - 2
             /\ (4 * k - 4) + 3 = 4 * k - 1 /\ (4 * k - 4) + 4 = 4 * k
    OBVIOUS
<1>3. IsEntityList(t) <=>
         \A k \in 1 .. N :
            /\ t[4 * k - 3] = "comma" /\ t[4 * k - 1] = "equals"
            /\ t[4 * k - 2] \in Kinds
            /\ t[4 * k] \in Digits /\ Number[t[4 * k]] <= UsizeMax
    BY <1>1 DEF IsEntityList, Kinds
<1>4. EntityList(t) =
         [k \in 1 .. N |-> [kind |-> t[4 * k - 2], off |-> Number[t[4 * k]]]]
    BY <1>1 DEF EntityList
<1> QED BY <1>2, <1>3, <1>4 DEF IsEntity, EntityOf

(* The length of an entity list is four times a number.                    *)
LEMMA ListLength ==
    ASSUME NEW t \in Seq(Tokens), IsEntityList(t)
    PROVE  \E N \in Nat : Len(t) = 4 * N
<1>1. Len(t) \in Nat
    BY LenProperties
<1>2. Len(t) % 4 = 0
    BY DEF IsEntityList
<1> QED BY <1>1, <1>2, Quarters

(* The first entity behind an entity list.                                 *)
LEMMA EntityFollows ==
    ASSUME NEW t \in Seq(Tokens), NEW u \in Seq(Tokens),
           IsEntityList(t), IsEntityList(t \o u), u # <<>>
    PROVE  Len(u) \in Nat /\ Len(u) >= 4 /\ IsEntity(u, 0)
<1>1. PICK N \in Nat : Len(t) = 4 * N
    BY ListLength
<1>2. /\ t \o u \in Seq(Tokens) /\ Len(t \o u) = 4 * N + Len(u)
      /\ Len(u) \in Nat \ {0}
    BY <1>1, ConcatProperties, LenProperties, EmptySeq
<1>3. PICK M \in Nat : Len(t \o u) = 4 * M
    BY <1>2, ListLength
<1>4. M >= N + 1 /\ Len(u) >= 4 /\ N + 1 \in 1 .. M
    BY <1>2, <1>3
<1>5. IsEntity(t \o u, 4 * (N + 1) - 4)
    BY <1>2, <1>3, <1>4, EntitiesAre
<1>6. IsEntity(t \o u, 4 * N)
    <2>1. 4 * (N + 1) - 4 = 4 * N
        OBVIOUS
    <2> QED BY <1>5, <2>1
<1>7. ASSUME NEW p \in 1 .. 4 PROVE (t \o u)[4 * N + p] = u[0 + p]
    <2> DEFINE L == Len(u)
    <2>1. /\ L \in Nat /\ L >= 4 /\ p \in 1 .. L /\ p \in Nat /\ p >= 1
        BY <1>2, <1>4
    <2>2. /\ 4 * N + p \in 1 .. 4 * N + L /\ ~ (4 * N + p <= 4 * N)
          /\ (4 * N + p) - 4 * N = p /\ 0 + p = p
        <3> HIDE DEF L
        <3> QED BY <2>1
    <2>3. \A q \in 1 .. 4 * N + L :
             (t \o u)[q] = IF q <= 4 * N THEN t[q] ELSE u[q - 4 * N]
        BY <1>1, ConcatProperties
    <2> HIDE DEF L
    <2> QED BY <2>2, <2>3
<1>8. /\ (t \o u)[4 * N + 1] = u[0 + 1] /\ (t \o u)[4 * N + 2] = u[0 + 2]
      /\ (t \o u)[4 * N + 3] = u[0 + 3] /\ (t \o u)[4 * N + 4] = u[0 + 4]
    <2> DEFINE w == t \o u
    <2>1. \A p \in 1 .. 4 : w[4 * N + p] = u[0 + p]
        BY <1>7
    <2> HIDE DEF w
    <2>2. /\ w[4 * N + 1] = u[0 + 1] /\ w[4 * N + 2] = u[0 + 2]
          /\ w[4 * N + 3] = u[0 + 3] /\ w[4 * N + 4] = u[0 + 4]
        BY <2>1
    <2> QED BY <2>2 DEF w
<1> QED BY <1>2, <1>4, <1>6, <1>8 DEF IsEntity

(* An entity list with one entity more is one.                             *)
LEMMA EntityAdded ==
    ASSUME NEW t \in Seq(Tokens), NEW u \in Seq(Tokens),
           IsEntityList(t), Len(u) = 4, IsEntity(u, 0)
    PROVE  /\ t \o u \in Seq(Tokens) /\ IsEntityList(t \o u)
           /\ EntityList(t) \in Seq(Entities)
           /\ EntityList(t \o u) = Append(EntityList(t), EntityOf(u, 0))
<1> DEFINE w == t \o u
<1>1. PICK N \in Nat : Len(t) = 4 * N
    BY ListLength
<1>2. w \in Seq(Tokens) /\ Len(w) = 4 * (N + 1)
    <2>1. w \in Seq(Tokens) /\ Len(w) = Len(t) + Len(u)
        BY ConcatProperties
    <2> HIDE DEF w
    <2> QED BY <1>1, <2>1
<1>3. \A q \in 1 .. 4 * N + 4 :
         w[q] = IF q <= 4 * N THEN t[q] ELSE u[q - 4 * N]
    <2>1. \A q \in 1 .. Len(t) + Len(u) :
             w[q] = IF q <= Len(t) THEN t[q] ELSE u[q - Len(t)]
        BY ConcatProperties
    <2> HIDE DEF w
    <2> QED BY <1>1, <2>1
<1> HIDE DEF w
<1>4. ASSUME NEW k \in 1 .. N
      PROVE  /\ w[(4 * k - 4) + 1] = t[(4 * k - 4) + 1]
             /\ w[(4 * k - 4) + 2] = t[(4 * k - 4) + 2]
             /\ w[(4 * k - 4) + 3] = t[(4 * k - 4) + 3]
             /\ w[(4 * k - 4) + 4] = t[(4 * k - 4) + 4]
    <2>1. ASSUME NEW p \in 1 .. 4 PROVE w[(4 * k - 4) + p] = t[(4 * k - 4) + p]
        <3>1. (4 * k - 4) + p \in 1 .. 4 * N + 4 /\ (4 * k - 4) + p <= 4 * N
            OBVIOUS
        <3> QED BY <1>3, <3>1
    <2> QED BY <2>1
<1>5. /\ w[4 * N + 1] = u[0 + 1] /\ w[4 * N + 2] = u[0 + 2]
      /\ w[4 * N + 3] = u[0 + 3] /\ w[4 * N + 4] = u[0 + 4]
    <2>1. ASSUME NEW p \in 1 .. 4 PROVE w[4 * N + p] = u[0 + p]
        <3>1. /\ 4 * N + p \in 1 .. 4 * N + 4 /\ ~ (4 * N + p <= 4 * N)
              /\ (4 * N + p) - 4 * N = p /\ 0 + p = p
            OBVIOUS
        <3> QED BY <1>3, <3>1
    <2> QED BY <2>1
<1>6. \A k \in 1 .. N : IsEntity(t, 4 * k - 4)
    BY <1>1, EntitiesAre
<1>7. \A k \in 1 .. N : /\ IsEntity(w, 4 * k - 4)
                        /\ EntityOf(w, 4 * k - 4) = EntityOf(t, 4 * k - 4)
    BY <1>4, <1>6 DEF IsEntity, EntityOf
<1>8. IsEntity(w, 4 * N) /\ EntityOf(w, 4 * N) = EntityOf(u, 0)
    BY <1>5 DEF IsEntity, EntityOf
<1>9. 4 * (N + 1) - 4 = 4 * N /\ N + 1 \in Nat
    OBVIOUS
<1>10. \A k \in 1 .. N + 1 : k \in 1 .. N \/ k = N + 1
    OBVIOUS
<1>11. IsEntityList(w)
    <2>1. \A k \in 1 .. N + 1 : IsEntity(w, 4 * k - 4)
        BY <1>7, <1>8, <1>9, <1>10
    <2> QED BY <1>2, <1>9, <2>1, EntitiesAre
<1>12. EntityList(w) = [k \in 1 .. N + 1 |-> EntityOf(w, 4 * k - 4)]
    BY <1>2, <1>9, EntitiesAre
<1>13. EntityList(t) = [k \in 1 .. N |-> EntityOf(t, 4 * k - 4)]
    BY <1>1, EntitiesAre
<1>14. \A k \in 1 .. N : EntityOf(t, 4 * k - 4) \in Entities
    BY <1>6, NumberAssumption DEF IsEntity, EntityOf, Entities, Kinds
<1>15. EntityOf(u, 0) \in Entities
    BY NumberAssumption DEF IsEntity, EntityOf, Entities, Kinds
<1>16. /\ EntityList(t) \in Seq(Entities) /\ Len(EntityList(t)) = N
       /\ \A k \in 1 .. N : EntityList(t)[k] = EntityOf(t, 4 * k - 4)
    <2> HIDE DEF Entities
    <2>1. EntityList(t) \in [1 .. N -> Entities]
        BY <1>13, <1>14
    <2>2. EntityList(t) \in Seq(Entities)
        BY <2>1, SeqDef
    <2> QED BY <1>13, <2>1, <2>2, LenProperties
<1>17. /\ EntityList(w) \in Seq(Entities) /\ Len(EntityList(w)) = N + 1
       /\ \A k \in 1 .. N + 1 : EntityList(w)[k] = EntityOf(w, 4 * k - 4)
    <2> HIDE DEF Entities
    <2>3. \A k \in 1 .. N + 1 : EntityOf(w, 4 * k - 4) \in Entities
        BY <1>7, <1>8, <1>9, <1>10, <1>14, <1>15
    <2>1. EntityList(w) \in [1 .. N + 1 -> Entities]
        BY <1>12, <2>3
    <2>2. EntityList(w) \in Seq(Entities)
        BY <1>9, <2>1, SeqDef
    <2> QED BY <1>12, <2>1, <2>2, LenProperties
<1> DEFINE e == Append(EntityList(t), EntityOf(u, 0))
<1>18. /\ e \in Seq(Entities) /\ Len(e) = N + 1 /\ e[N + 1] = EntityOf(u, 0)
       /\ \A k \in 1 .. N : e[k] = EntityOf(t, 4 * k - 4)
    <2> HIDE DEF Entities
    <2> QED BY <1>15, <1>16, AppendProperties
<1>19. EntityList(w) = e
    <2> HIDE DEF e, Entities
    <2>1. \A k \in 1 .. N + 1 : EntityList(w)[k] = e[k]
        BY <1>7, <1>8, <1>9, <1>10, <1>17, <1>18
    <2> QED BY <1>17, <1>18, <2>1, SeqEqual
<1> QED BY <1>2, <1>11, <1>16, <1>19 DEF w

(* No token, no entity.                                                    *)
LEMMA EmptyList ==
    ASSUME NEW t \in Seq(Tokens), IsEntityList(t)
    PROVE  /\ EntityList(t) = <<>> <=> t = <<>>
           /\ EntityList(t) \in Seq(Entities)
<1>1. PICK N \in Nat : Len(t) = 4 * N
    BY ListLength
<1>2. EntityList(t) = [k \in 1 .. N |-> EntityOf(t, 4 * k - 4)]
    BY <1>1, EntitiesAre
<1>3. \A k \in 1 .. N : IsEntity(t, 4 * k - 4)
    BY <1>1, EntitiesAre
<1>4. \A k \in 1 .. N : EntityOf(t, 4 * k - 4) \in Entities
    BY <1>3, NumberAssumption DEF IsEntity, EntityOf, Entities, Kinds
<1>5. EntityList(t) \in Seq(Entities) /\ Len(EntityList(t)) = N
    <2> HIDE DEF Entities
    <2>1. EntityList(t) \in [1 .. N -> Entities]
        BY <1>2, <1>4
    <2>2. EntityList(t) \in Seq(Entities)
        BY <2>1, SeqDef
    <2> QED BY <1>2, <2>1, <2>2, LenProperties
<1>6. N = 0 <=> t = <<>>
    BY <1>1, EmptySeq
<1>7. N = 0 <=> EntityList(t) = <<>>
    BY <1>5, EmptySeq
<1> QED BY <1>5, <1>6, <1>7

(* No tokens are the list of no entities.                                  *)
LEMMA NothingIsAList == IsEntityList(<<>>) /\ EntityList(<<>>) = <<>>
<1>1. <<>> \in Seq(Tokens) /\ Len(<<>>) = 0
    OBVIOUS
<1>3. 0 % 4 = 0 /\ 0 \div 4 = 0 /\ 1 .. 0 = {}
    OBVIOUS
<1>2. IsEntityList(<<>>)
    BY <1>1, <1>3 DEF IsEntityList
<1> QED BY <1>1, <1>2, EmptyList

-----------------------------------------------------------------------------
(* parse_ee against the list: where it finds an entity, the entity is the  *)
(* next in what is left of the value; where it finds none, there is none.  *)

(* What is left of a value from a position on, without blanks.             *)
Rest(v, p) == NoBlanks(SubSeq(v, p, Len(v)))

(* What is left is what the next token is, if it is no blank, and what is  *)
(* left behind it.                                                         *)
LEMMA RestIs ==
    ASSUME NEW v \in Seq(Tokens), NEW p \in 1 .. Len(v) + 1
    PROVE  /\ Rest(v, p) \in Seq(Tokens)
           /\ p > Len(v) => Rest(v, p) = <<>>
           /\ p <= Len(v) /\ v[p] \in Blanks => Rest(v, p) = Rest(v, p + 1)
           /\ p <= Len(v) /\ v[p] \notin Blanks =>
                 Rest(v, p) = <<v[p]>> \o Rest(v, p + 1)
<1> DEFINE S == Tokens \ Blanks
           N == Len(v)
           w == SubSeq(v, p, N)
           x == SubSeq(v, p + 1, N)
<1>1. N \in Nat /\ p \in Nat \ {0} /\ p <= N + 1
    BY LenProperties
<1>2. w \in Seq(Tokens) /\ x \in Seq(Tokens)
    <2>1. \A n \in p .. N : v[n] \in Tokens
        BY <1>1, ElementOfSeq
    <2>2. \A n \in p + 1 .. N : v[n] \in Tokens
        BY <1>1, ElementOfSeq
    <2> HIDE DEF N
    <2> QED BY <1>1, <2>1, <2>2, SubSeqProperties
<1>3. Rest(v, p) = Kept(w, S) /\ Rest(v, p + 1) = Kept(x, S)
    BY DEF Rest, NoBlanks
<1>4. Kept(w, S) \in Seq(Tokens) /\ Kept(x, S) \in Seq(Tokens)
    BY <1>2, KeptType
<1>5. p > N => w = <<>>
    BY <1>1, SubSeqEmpty
<1>6. ASSUME p <= N PROVE Kept(w, S) = Kept(<<v[p]>>, S) \o Kept(x, S)
    <2>1. w = <<v[p]>> \o x
        BY <1>1, <1>6, SubSeqRecursiveFirst
    <2>2. v[p] \in Tokens
        BY <1>1, <1>6, ElementOfSeq
    <2> DEFINE y == v[p]
    <2> HIDE DEF w, x, N, S, y
    <2>3. y \in Tokens
        BY <2>2 DEF y
    <2> DEFINE z == <<y>>
    <2>4. z \in Seq(Tokens)
        BY <2>3
    <2> HIDE DEF z
    <2>5. Kept(z \o x, S) = Kept(z, S) \o Kept(x, S)
        <3>1. x \in Seq(Tokens)
            BY <1>2
        <3> QED BY ONLY <2>4, <3>1, KeptConcat, SMTT(40)
    <2> QED BY <2>1, <2>5 DEF y, z
<1>7. ASSUME p <= N
      PROVE  Kept(<<v[p]>>, S) = IF v[p] \in Blanks THEN <<>> ELSE <<v[p]>>
    <2>1. v[p] \in Tokens
        BY <1>1, <1>7, ElementOfSeq
    <2> QED BY <2>1, KeptOne
<1> HIDE DEF w, x, S
<1>8. <<>> \o Kept(x, S) = Kept(x, S)
    BY <1>4, ConcatEmptySeq
<1>9. Kept(<<>>, S) = <<>>
    BY KeptEmpty
<1> QED BY <1>3, <1>4, <1>5, <1>6, <1>7, <1>8, <1>9

(* Past the blanks, of which there is one at most.                         *)
LEMMA PastBlanks ==
    ASSUME NEW v \in Seq(Tokens), LongestRuns(v), NEW p \in 1 .. Len(v) + 1
    PROVE  /\ Past(v, p, Blanks) \in 1 .. Len(v) + 1
           /\ Rest(v, Past(v, p, Blanks)) = Rest(v, p)
           /\ Past(v, p, Blanks) <= Len(v) =>
                 v[Past(v, p, Blanks)] \notin Blanks
<1> DEFINE q == Past(v, p, Blanks)
           N == Len(v)
<1>1. N \in Nat /\ p \in Nat \ {0} /\ p <= N + 1
    BY LenProperties
<1>2. CASE At(v, p, Blanks)
    <2>1. p <= N /\ v[p] \in Blanks /\ q = p + 1
        BY <1>2 DEF At, Past
    <2>2. q \in 1 .. N + 1
        BY <1>1, <2>1
    <2>3. Rest(v, p) = Rest(v, p + 1)
        BY <2>1, RestIs
    <2>4. q <= N => v[q] \notin Blanks
        <3> SUFFICES ASSUME p + 1 <= N, v[p + 1] \in Blanks PROVE FALSE
            BY <2>1
        <3>1. p \in 1 .. N - 1
            BY <1>1
        <3>2. Blanks \in Runs
            BY DEF Runs
        <3> QED BY <2>1, <3>1, <3>2 DEF LongestRuns
    <2> QED BY <2>1, <2>2, <2>3, <2>4
<1>3. CASE ~ At(v, p, Blanks)
    <2>1. q = p /\ (p <= N => v[p] \notin Blanks)
        BY <1>3 DEF At, Past
    <2> QED BY <2>1
<1> QED BY <1>2, <1>3

(* The next token of a class S, behind blanks.                             *)
LEMMA TokenNext ==
    ASSUME NEW v \in Seq(Tokens), LongestRuns(v), NEW p \in 1 .. Len(v) + 1,
           NEW q, q = Past(v, p, Blanks), NEW S, At(v, q, S)
    PROVE  /\ q \in 1 .. Len(v) /\ Past(v, q, S) = q + 1
           /\ v[q] \in S /\ Rest(v, p) = <<v[q]>> \o Rest(v, q + 1)
<1>1. /\ q \in 1 .. Len(v) + 1 /\ Rest(v, q) = Rest(v, p)
      /\ q <= Len(v) => v[q] \notin Blanks
    BY PastBlanks
<1>2. q <= Len(v) /\ v[q] \in S /\ Past(v, q, S) = q + 1
    BY DEF At, Past
<1>3. Rest(v, q) = <<v[q]>> \o Rest(v, q + 1)
    BY <1>1, <1>2, RestIs
<1>4. Len(v) \in Nat
    BY LenProperties
<1> QED BY <1>1, <1>2, <1>3, <1>4

(* If what is left begins with a token, it is the next one.                *)
LEMMA FirstIsNext ==
    ASSUME NEW v \in Seq(Tokens), LongestRuns(v), NEW p \in 1 .. Len(v) + 1,
           NEW q, q = Past(v, p, Blanks), Rest(v, p) # <<>>
    PROVE  q \in 1 .. Len(v) /\ Rest(v, p)[1] = v[q]
<1>1. /\ q \in 1 .. Len(v) + 1 /\ Rest(v, q) = Rest(v, p)
      /\ q <= Len(v) => v[q] \notin Blanks
    BY PastBlanks
<1>2. Len(v) \in Nat
    BY LenProperties
<1>3. q <= Len(v)
    <2>1. q > Len(v) => Rest(v, q) = <<>>
        BY <1>1, RestIs
    <2> QED BY <1>1, <1>2, <2>1
<1>4. q + 1 \in 1 .. Len(v) + 1 /\ q \in 1 .. Len(v)
    BY <1>1, <1>2, <1>3
<1>5. Rest(v, q) = <<v[q]>> \o Rest(v, q + 1) /\ Rest(v, q + 1) \in Seq(Tokens)
    BY <1>1, <1>3, <1>4, RestIs
<1>6. v[q] \in Tokens
    BY <1>4, ElementOfSeq
<1> DEFINE y == v[q]
           r == Rest(v, q + 1)
<1>7. (<<y>> \o r)[1] = y
    <2>1. y \in Tokens /\ r \in Seq(Tokens)
        BY <1>5, <1>6
    <2> HIDE DEF y, r
    <2> QED BY <2>1
<1> QED BY <1>1, <1>4, <1>5, <1>7

(* A sequence and what stands before it.                                   *)
LEMMA OneBefore ==
    ASSUME NEW T, NEW x \in T, NEW r \in Seq(T)
    PROVE  /\ <<x>> \o r \in Seq(T) /\ Len(r) \in Nat
           /\ Len(<<x>> \o r) = Len(r) + 1 /\ (<<x>> \o r)[1] = x
           /\ \A n \in 1 .. Len(r) : (<<x>> \o r)[n + 1] = r[n]
OBVIOUS

(* Four tokens in front of others.                                         *)
Before4(a, b, c, d, r) == <<a>> \o (<<b>> \o (<<c>> \o (<<d>> \o r)))

(* It makes no difference which way they are put in front.                 *)
LEMMA FourBefore ==
    ASSUME NEW T, NEW a \in T, NEW b \in T, NEW c \in T, NEW d \in T,
           NEW r \in Seq(T)
    PROVE  Before4(a, b, c, d, r) = <<a, b, c, d>> \o r
<1> DEFINE w == <<a, b, c, d>>
           r1 == <<d>> \o r
           r2 == <<c>> \o r1
           r3 == <<b>> \o r2
           r4 == <<a>> \o r3
           N == Len(r)
<1>1. /\ w \in Seq(T) /\ Len(w) = 4 /\ w[1] = a /\ w[2] = b /\ w[3] = c
      /\ w[4] = d /\ N \in Nat
    BY LenProperties
<1>2. /\ r1 \in Seq(T) /\ Len(r1) = N + 1 /\ r1[1] = d
      /\ \A n \in 1 .. N : r1[n + 1] = r[n]
    BY OneBefore
<1> HIDE DEF r1, w
<1>3. /\ r2 \in Seq(T) /\ Len(r2) = N + 2 /\ r2[1] = c /\ r2[2] = d
      /\ \A n \in 1 .. N : r2[n + 2] = r[n]
    <2>1. /\ r2 \in Seq(T) /\ Len(r2) = Len(r1) + 1 /\ r2[1] = c
          /\ \A n \in 1 .. Len(r1) : r2[n + 1] = r1[n]
        BY <1>2, OneBefore
    <2> HIDE DEF r2
    <2>2. r2[1 + 1] = r1[1]
        BY <1>1, <1>2, <2>1
    <2>3. ASSUME NEW n \in 1 .. N PROVE r2[n + 2] = r[n]
        <3>1. n + 1 \in 1 .. N + 1 /\ (n + 1) + 1 = n + 2
            BY <1>1
        <3> QED BY <1>2, <2>1, <3>1
    <2> QED BY <1>1, <1>2, <2>1, <2>2, <2>3
<1> HIDE DEF r2
<1>4. /\ r3 \in Seq(T) /\ Len(r3) = N + 3 /\ r3[1] = b /\ r3[2] = c
      /\ r3[3] = d /\ \A n \in 1 .. N : r3[n + 3] = r[n]
    <2>1. /\ r3 \in Seq(T) /\ Len(r3) = Len(r2) + 1 /\ r3[1] = b
          /\ \A n \in 1 .. Len(r2) : r3[n + 1] = r2[n]
        BY <1>3, OneBefore
    <2> HIDE DEF r3
    <2>2. r3[1 + 1] = r2[1] /\ r3[2 + 1] = r2[2]
        BY <1>1, <1>3, <2>1
    <2>3. ASSUME NEW n \in 1 .. N PROVE r3[n + 3] = r[n]
        <3>1. n + 2 \in 1 .. N + 2 /\ (n + 2) + 1 = n + 3
            BY <1>1
        <3> QED BY <1>3, <2>1, <3>1
    <2> QED BY <1>1, <1>3, <2>1, <2>2, <2>3
<1> HIDE DEF r3
<1>5. /\ r4 \in Seq(T) /\ Len(r4) = N + 4 /\ r4[1] = a /\ r4[2] = b
      /\ r4[3] = c /\ r4[4] = d /\ \A n \in 1 .. N : r4[n + 4] = r[n]
    <2>1. /\ r4 \in Seq(T) /\ Len(r4) = Len(r3) + 1 /\ r4[1] = a
          /\ \A n \in 1 .. Len(r3) : r4[n + 1] = r3[n]
        BY <1>4, OneBefore
    <2> HIDE DEF r4
    <2>2. r4[1 + 1] = r3[1] /\ r4[2 + 1] = r3[2] /\ r4[3 + 1] = r3[3]
        BY <1>1, <1>4, <2>1
    <2>3. ASSUME NEW n \in 1 .. N PROVE r4[n + 4] = r[n]
        <3>1. n + 3 \in 1 .. N + 3 /\ (n + 3) + 1 = n + 4
            BY <1>1
        <3> QED BY <1>4, <2>1, <3>1
    <2> QED BY <1>1, <1>4, <2>1, <2>2, <2>3
<1> HIDE DEF r4
<1> DEFINE x == w \o r
<1>6. /\ x \in Seq(T) /\ Len(x) = 4 + N /\ \A n \in 1 .. 4 : x[n] = w[n]
      /\ \A n \in 1 .. N : x[4 + n] = r[n]
    <2>1. /\ x \in Seq(T) /\ Len(x) = Len(w) + Len(r)
          /\ \A n \in 1 .. Len(w) + Len(r) :
                x[n] = IF n <= Len(w) THEN w[n] ELSE r[n - Len(w)]
        BY <1>1, ConcatProperties
    <2> HIDE DEF x
    <2>2. \A n \in 1 .. 4 : n \in 1 .. 4 + N /\ n <= 4
        BY <1>1
    <2>3. \A n \in 1 .. N : /\ 4 + n \in 1 .. 4 + N /\ ~ (4 + n <= 4)
                            /\ (4 + n) - 4 = n
        BY <1>1
    <2> QED BY <1>1, <2>1, <2>2, <2>3
<1> HIDE DEF x, N
<1>7. ASSUME NEW n \in 1 .. N + 4 PROVE r4[n] = x[n]
    <2>1. CASE n \in 1 .. 4
        <3>1. n = 1 \/ n = 2 \/ n = 3 \/ n = 4
            BY <2>1
        <3> QED BY <1>1, <1>5, <1>6, <2>1, <3>1
    <2>2. CASE n \notin 1 .. 4
        <3>1. /\ n - 4 \in 1 .. N /\ (n - 4) + 4 = n /\ 4 + (n - 4) = n
            BY <1>1, <2>2
        <3> QED BY <1>5, <1>6, <3>1, SMTT(40)
    <2> QED BY <2>1, <2>2
<1>8. r4 = x
    <2>1. Len(r4) = Len(x)
        BY <1>1, <1>5, <1>6
    <2> QED BY <1>5, <1>6, <1>7, <2>1, SeqEqual
<1> QED BY <1>8 DEF w, x, r4, r3, r2, r1, Before4

(* The first entity of a value has the comma that joins the values.        *)
Delimiter(comma) == IF comma THEN <<>> ELSE <<"comma">>

(* parse_ee finds the comma it is to find.                                 *)
CommaThere(v, p, comma) ==
    comma => At(v, Places(v, p, comma).start, {"comma"})

(* The comma is the token before r, and the name the one behind.           *)
NameAfter(v, p, comma, r) ==
    /\ Places(v, p, comma).name = Past(v, r, Blanks)
    /\ Delimiter(comma) \o Rest(v, p) = <<"comma">> \o Rest(v, r)

(* The name follows the comma, or is the first there is.                   *)
LEMMA NameNext ==
    ASSUME NEW v \in Seq(Tokens), LongestRuns(v), NEW p \in 1 .. Len(v) + 1,
           NEW comma \in BOOLEAN, CommaThere(v, p, comma)
    PROVE  \E r \in 1 .. Len(v) + 1 : NameAfter(v, p, comma, r)
<1> DEFINE at == Places(v, p, comma)
           s == at.start
<1>1. /\ s = Past(v, p, Blanks)
      /\ at.name = Past(v, IF comma THEN Past(v, s, {"comma"}) ELSE s, Blanks)
    BY DEF Places
<1> HIDE DEF s
<1>2. /\ s \in 1 .. Len(v) + 1 /\ Rest(v, s) = Rest(v, p)
      /\ s <= Len(v) => v[s] \notin Blanks
    BY <1>1, PastBlanks
<1>3. Len(v) \in Nat
    BY LenProperties
<1>4. CASE comma
    <2>1. /\ s \in 1 .. Len(v) /\ Past(v, s, {"comma"}) = s + 1
          /\ v[s] \in {"comma"} /\ Rest(v, p) = <<v[s]>> \o Rest(v, s + 1)
        BY <1>1, <1>4, TokenNext DEF s, CommaThere
    <2>2. s + 1 \in 1 .. Len(v) + 1
        BY <1>3, <2>1
    <2>3. Rest(v, p) \in Seq(Tokens)
        BY RestIs
    <2>4. <<>> \o Rest(v, p) = Rest(v, p)
        BY <2>3, ConcatEmptySeq
    <2> QED BY <1>1, <1>4, <2>1, <2>2, <2>4 DEF Delimiter, NameAfter
<1>5. CASE ~ comma
    BY <1>1, <1>2, <1>5, SMTT(40) DEF Delimiter, NameAfter
<1> QED BY <1>4, <1>5

(* An entity that parse_ee finds is the next of the entities.              *)
LEMMA EntityRead ==
    ASSUME NEW v \in Seq(Tokens), LongestRuns(v), NEW p \in 1 .. Len(v) + 1,
           NEW comma \in BOOLEAN, NEW at, at = Places(v, p, comma),
           HasEntityAt(v, at, comma)
    PROVE  /\ at.offset \in 1 .. Len(v)
           /\ \E u \in Seq(Tokens) :
                 /\ Len(u) = 4 /\ IsEntity(u, 0)
                 /\ EntityOf(u, 0) = [kind |-> v[at.name],
                                      off |-> Number[v[at.offset]]]
                 /\ Delimiter(comma) \o Rest(v, p)
                       = u \o Rest(v, at.offset + 1)
<1>1. PICK r \in 1 .. Len(v) + 1 :
          /\ at.name = Past(v, r, Blanks)
          /\ Delimiter(comma) \o Rest(v, p) = <<"comma">> \o Rest(v, r)
    <2>1. CommaThere(v, p, comma)
        BY DEF HasEntityAt, CommaThere
    <2>2. \E r \in 1 .. Len(v) + 1 : NameAfter(v, p, comma, r)
        BY <2>1, NameNext
    <2> QED BY <2>2 DEF NameAfter
<1>2. /\ At(v, at.name, Words) /\ At(v, at.equals, {"equals"})
      /\ At(v, at.offset, Digits) /\ KnownEntity(v, at)
    BY DEF HasEntityAt
<1>3. /\ at.equals = Past(v, Past(v, at.name, Words), Blanks)
      /\ at.offset = Past(v, Past(v, at.equals, {"equals"}), Blanks)
    BY DEF Places
<1>4. Len(v) \in Nat
    BY LenProperties
<1>5. /\ at.name \in 1 .. Len(v) /\ Past(v, at.name, Words) = at.name + 1
      /\ Rest(v, r) = <<v[at.name]>> \o Rest(v, at.name + 1)
    BY <1>1, <1>2, TokenNext
<1>6. at.name + 1 \in 1 .. Len(v) + 1
    BY <1>4, <1>5, SMTT(40)
<1>7. /\ at.equals \in 1 .. Len(v)
      /\ Past(v, at.equals, {"equals"}) = at.equals + 1
      /\ v[at.equals] \in {"equals"}
      /\ Rest(v, at.name + 1) = <<v[at.equals]>> \o Rest(v, at.equals + 1)
    <2>1. at.equals = Past(v, at.name + 1, Blanks)
        BY <1>3, <1>5
    <2>2. At(v, at.equals, {"equals"})
        BY <1>2
    <2> QED BY <1>6, <2>1, <2>2, TokenNext, SMTT(40)
<1>8. at.equals + 1 \in 1 .. Len(v) + 1
    BY <1>4, <1>7, SMTT(40)
<1>9. /\ at.offset \in 1 .. Len(v) /\ v[at.offset] \in Digits
      /\ Rest(v, at.equals + 1) = <<v[at.offset]>> \o Rest(v, at.offset + 1)
    <2>1. at.offset = Past(v, at.equals + 1, Blanks)
        BY <1>3, <1>7
    <2>2. At(v, at.offset, Digits)
        BY <1>2
    <2> QED BY <1>8, <2>1, <2>2, TokenNext, SMTT(40)
<1>10. at.offset + 1 \in 1 .. Len(v) + 1
    BY <1>4, <1>9, SMTT(40)
<1> DEFINE a == "comma"
           b == v[at.name]
           c == v[at.equals]
           d == v[at.offset]
           z == Rest(v, at.offset + 1)
           u == <<a, b, c, d>>
<1>11. a \in Tokens /\ b \in Tokens /\ c \in Tokens /\ d \in Tokens
    BY <1>5, <1>7, <1>9, ElementOfSeq, CommaIs
<1>12. z \in Seq(Tokens)
    BY <1>10, RestIs
<1>13. /\ u[1] = a /\ u[2] = b /\ u[3] = c /\ u[4] = d
    OBVIOUS
<1>14. b \in Kinds /\ c = "equals" /\ d \in Digits /\ Number[d] <= UsizeMax
    BY <1>2, <1>7, <1>9 DEF KnownEntity, Kinds
<1>15. Delimiter(comma) \o Rest(v, p) = Before4(a, b, c, d, z)
    BY <1>1, <1>5, <1>7, <1>9 DEF Before4
<1> HIDE DEF b, c, d, z
<1>16. /\ u \in Seq(Tokens) /\ Len(u) = 4
       /\ Before4(a, b, c, d, z) = u \o z
    <2> HIDE DEF a
    <2>1. u \in Seq(Tokens) /\ Len(u) = 4
        BY <1>11
    <2>2. Before4(a, b, c, d, z) = u \o z
        BY <1>11, <1>12, FourBefore, SMTT(40)
    <2> QED BY <2>1, <2>2
<1>17. IsEntity(u, 0) /\ EntityOf(u, 0) = [kind |-> b, off |-> Number[d]]
    <2> HIDE DEF u
    <2>1. 0 + 1 = 1 /\ 0 + 2 = 2 /\ 0 + 3 = 3 /\ 0 + 4 = 4
        OBVIOUS
    <2> QED BY <1>13, <1>14, <2>1 DEF IsEntity, EntityOf
<1> QED BY <1>9, <1>15, <1>16, <1>17 DEF b, d, z

(* What is left of a value behind its next token.                          *)
LEMMA RestNext ==
    ASSUME NEW v \in Seq(Tokens), LongestRuns(v), NEW p \in 1 .. Len(v) + 1,
           NEW q, q = Past(v, p, Blanks), NEW S,
           Len(Rest(v, p)) > 0, Rest(v, p)[1] \in S
    PROVE  /\ At(v, q, S) /\ v[q] = Rest(v, p)[1] /\ Past(v, q, S) = q + 1
           /\ q + 1 \in 1 .. Len(v) + 1
           /\ Len(Rest(v, p)) \in Nat
           /\ Len(Rest(v, q + 1)) = Len(Rest(v, p)) - 1
           /\ \A n \in 1 .. Len(Rest(v, p)) - 1 :
                 Rest(v, q + 1)[n] = Rest(v, p)[n + 1]
<1>1. Rest(v, p) # <<>> /\ Rest(v, p) \in Seq(Tokens)
    <2>1. Rest(v, p) \in Seq(Tokens)
        BY RestIs
    <2>2. Rest(v, p) # <<>>
        <3> SUFFICES ASSUME Rest(v, p) = <<>> PROVE FALSE
            OBVIOUS
        <3>1. Len(<<>>) = 0
            OBVIOUS
        <3> QED BY <3>1
    <2> QED BY <2>1, <2>2
<1>2. q \in 1 .. Len(v) /\ Rest(v, p)[1] = v[q]
    BY <1>1, FirstIsNext
<1>3. At(v, q, S)
    BY <1>2 DEF At
<1>4. Past(v, q, S) = q + 1 /\ Rest(v, p) = <<v[q]>> \o Rest(v, q + 1)
    BY <1>3, TokenNext, SMTT(40)
<1>5. q + 1 \in 1 .. Len(v) + 1
    BY <1>2, LenProperties
<1>6. v[q] \in Tokens /\ Rest(v, q + 1) \in Seq(Tokens)
    BY <1>2, <1>5, ElementOfSeq, RestIs
<1> DEFINE x == v[q]
           r == Rest(v, q + 1)
           s == Rest(v, p)
<1>7. /\ x \in Tokens /\ r \in Seq(Tokens) /\ s = <<x>> \o r
    BY <1>4, <1>6
<1> HIDE DEF x, r, s
<1>8. /\ Len(r) \in Nat /\ Len(s) = Len(r) + 1
      /\ \A n \in 1 .. Len(r) : s[n + 1] = r[n]
    BY <1>7, OneBefore
<1>9. Len(s) \in Nat /\ Len(r) = Len(s) - 1
      /\ \A n \in 1 .. Len(s) - 1 : r[n] = s[n + 1]
    BY <1>8
<1> QED BY <1>2, <1>3, <1>4, <1>5, <1>9 DEF r, s

(* An entity that is left is found by parse_ee.                            *)
LEMMA EntityFound ==
    ASSUME NEW v \in Seq(Tokens), LongestRuns(v), NEW p \in 1 .. Len(v) + 1,
           NEW comma \in BOOLEAN, Rest(v, p) # <<>>,
           NEW t, t = Delimiter(comma) \o Rest(v, p),
           Len(t) >= 4, IsEntity(t, 0)
    PROVE  HasEntityAt(v, Places(v, p, comma), comma)
<1> DEFINE at == Places(v, p, comma)
           nm == at.name
           eq == at.equals
           of == at.offset
<1>1. /\ t[1] = "comma" /\ t[2] \in Kinds /\ t[3] = "equals"
      /\ t[4] \in Digits /\ Number[t[4]] <= UsizeMax
    <2>1. 0 + 1 = 1 /\ 0 + 2 = 2 /\ 0 + 3 = 3 /\ 0 + 4 = 4
        OBVIOUS
    <2> QED BY <2>1 DEF IsEntity
<1>2. Rest(v, p) \in Seq(Tokens)
    BY RestIs
<1>3. CommaThere(v, p, comma)
    <2> SUFFICES ASSUME comma PROVE At(v, at.start, {"comma"})
        BY DEF CommaThere
    <2>1. t = Rest(v, p)
        BY <1>2, ConcatEmptySeq DEF Delimiter
    <2>2. at.start = Past(v, p, Blanks)
        BY DEF Places
    <2> DEFINE s == at.start
    <2> HIDE DEF s
    <2>3. s \in 1 .. Len(v) /\ Rest(v, p)[1] = v[s]
        BY <2>2, FirstIsNext DEF s
    <2>4. Len(v) \in Nat
        BY LenProperties
    <2>7. s <= Len(v)
        BY <2>3, <2>4
    <2>8. t[1] = "comma"
        BY <1>1
    <2>5. v[s] = "comma" /\ s <= Len(v)
        BY <2>1, <2>3, <2>7, <2>8, Zenon
    <2>6. At(v, s, {"comma"})
        BY <2>5 DEF At
    <2> QED BY <2>6 DEF s
<1>4. PICK r \in 1 .. Len(v) + 1 : NameAfter(v, p, comma, r)
    BY <1>3, NameNext
<1>5. nm = Past(v, r, Blanks) /\ t = <<"comma">> \o Rest(v, r)
    BY <1>4 DEF NameAfter
<1>6. /\ eq = Past(v, Past(v, nm, Words), Blanks)
      /\ of = Past(v, Past(v, eq, {"equals"}), Blanks)
    BY DEF Places
<1> DEFINE a == Rest(v, r)
<1>7. /\ Len(a) \in Nat /\ Len(a) >= 3
      /\ a[1] = t[2] /\ a[2] = t[3] /\ a[3] = t[4]
    <2>1. a \in Seq(Tokens) /\ "comma" \in Tokens
        BY RestIs, CommaIs
    <2> HIDE DEF a
    <2>2. /\ Len(a) \in Nat /\ Len(t) = Len(a) + 1
          /\ \A n \in 1 .. Len(a) : t[n + 1] = a[n]
        BY <1>5, <2>1, OneBefore DEF a
    <2>3. /\ Len(a) >= 3
          /\ 1 \in 1 .. Len(a) /\ 2 \in 1 .. Len(a) /\ 3 \in 1 .. Len(a)
        BY <2>2
    <2>4. t[1 + 1] = a[1] /\ t[2 + 1] = a[2] /\ t[3 + 1] = a[3]
        BY ONLY <2>2, <2>3
    <2>5. 1 + 1 = 2 /\ 2 + 1 = 3 /\ 3 + 1 = 4
        OBVIOUS
    <2>6. a[1] = t[2] /\ a[2] = t[3] /\ a[3] = t[4]
        BY ONLY <2>4, <2>5
    <2> QED BY ONLY <2>2, <2>3, <2>6
<1>8. a[1] \in Words
    BY <1>1, <1>7, TokensAre DEF Kinds
<1> DEFINE b == Rest(v, nm + 1)
<1>9. /\ At(v, nm, Words) /\ v[nm] = a[1] /\ Past(v, nm, Words) = nm + 1
      /\ nm + 1 \in 1 .. Len(v) + 1
      /\ Len(b) = Len(a) - 1 /\ \A n \in 1 .. Len(a) - 1 : b[n] = a[n + 1]
    <2> HIDE DEF nm
    <2>1. Len(Rest(v, r)) > 0 /\ Rest(v, r)[1] \in Words
        BY <1>7, <1>8, SMTT(40)
    <2> QED BY <1>5, <2>1, RestNext, SMTT(40)
<1> HIDE DEF a
<1>10. Len(b) \in Nat /\ Len(b) >= 2 /\ b[1] = t[3] /\ b[2] = t[4]
    <2> HIDE DEF b
    <2>1. /\ Len(a) \in Nat /\ Len(a) >= 3
          /\ a[2] = t[3] /\ a[3] = t[4]
        BY <1>7
    <2>2. \A n \in 1 .. Len(a) - 1 : b[n] = a[n + 1]
        BY <1>9
    <2>3. Len(b) = Len(a) - 1
        BY <1>9
    <2>4. 1 \in 1 .. Len(a) - 1 /\ 2 \in 1 .. Len(a) - 1
        BY ONLY <2>1
    <2>5. b[1] = a[1 + 1] /\ b[2] = a[2 + 1]
        BY ONLY <2>2, <2>4
    <2>6. b[1] = t[3] /\ b[2] = t[4]
        BY ONLY <2>1, <2>5
    <2>7. Len(b) \in Nat /\ Len(b) >= 2
        BY ONLY <2>1, <2>3
    <2> QED BY <2>6, <2>7
<1> DEFINE c == Rest(v, eq + 1)
<1>11. /\ At(v, eq, {"equals"}) /\ v[eq] = b[1]
       /\ Past(v, eq, {"equals"}) = eq + 1 /\ eq + 1 \in 1 .. Len(v) + 1
       /\ Len(c) = Len(b) - 1 /\ \A n \in 1 .. Len(b) - 1 : c[n] = b[n + 1]
    <2> HIDE DEF eq, nm
    <2>1. Len(Rest(v, nm + 1)) > 0 /\ Rest(v, nm + 1)[1] \in {"equals"}
        BY <1>1, <1>10
    <2> DEFINE q == nm + 1
               S == {"equals"}
    <2>2. q \in 1 .. Len(v) + 1 /\ eq = Past(v, q, Blanks)
        BY <1>6, <1>9
    <2>3. Len(Rest(v, q)) > 0 /\ Rest(v, q)[1] \in S
        BY <2>1
    <2>4. b = Rest(v, q)
        OBVIOUS
    <2> HIDE DEF q, S
    <2>5. /\ At(v, eq, S) /\ v[eq] = Rest(v, q)[1]
          /\ Past(v, eq, S) = eq + 1 /\ eq + 1 \in 1 .. Len(v) + 1
          /\ Len(Rest(v, eq + 1)) = Len(Rest(v, q)) - 1
          /\ \A n \in 1 .. Len(Rest(v, q)) - 1 :
                Rest(v, eq + 1)[n] = Rest(v, q)[n + 1]
        BY <2>2, <2>3, RestNext, SMTT(40)
    <2> HIDE DEF b
    <2> QED BY <2>4, <2>5 DEF S
<1> HIDE DEF b
<1>12. Len(c) \in Nat /\ Len(c) >= 1 /\ c[1] = t[4]
    <2> HIDE DEF c
    <2>1. Len(b) \in Nat /\ Len(b) >= 2 /\ b[2] = t[4]
        BY <1>10
    <2>2. \A n \in 1 .. Len(b) - 1 : c[n] = b[n + 1]
        BY <1>11
    <2>3. Len(c) = Len(b) - 1
        BY <1>11
    <2>4. 1 \in 1 .. Len(b) - 1
        BY ONLY <2>1
    <2>5. c[1] = b[1 + 1]
        BY ONLY <2>2, <2>4
    <2>6. c[1] = t[4]
        BY ONLY <2>1, <2>5
    <2>7. Len(c) \in Nat /\ Len(c) >= 1
        BY ONLY <2>1, <2>3
    <2> QED BY <2>6, <2>7
<1>13. At(v, of, Digits) /\ v[of] = c[1]
    <2> HIDE DEF of, eq
    <2>1. Len(Rest(v, eq + 1)) > 0 /\ Rest(v, eq + 1)[1] \in Digits
        BY <1>1, <1>12, SMTT(40)
    <2> QED BY <1>6, <1>11, <2>1, RestNext, SMTT(40)
<1>14. v[nm] \in Kinds /\ Number[v[of]] <= UsizeMax
    BY <1>1, <1>7, <1>9, <1>12, <1>13
<1>15. KnownEntity(v, at)
    BY <1>14 DEF KnownEntity, Kinds
<1>16. comma => At(v, at.start, {"comma"})
    BY <1>3 DEF CommaThere
<1> HIDE DEF at
<1> QED BY <1>9, <1>11, <1>13, <1>15, <1>16 DEF HasEntityAt, at

-----------------------------------------------------------------------------
(* decode_allow against the codes of the joined values.                    *)

Separators == {"ws", "comma"}

(* A word of its own at place p.                                           *)
IsCode(t, p) ==
    /\ t[p] \in DOMAIN CodeOf
    /\ p = 1 \/ t[p - 1] \in Separators
    /\ p = Len(t) \/ t[p + 1] \in Separators

(* The codes of t are its words that are codes, at whatever place.         *)
LEMMA CodesInIs ==
    ASSUME NEW t \in Seq(Tokens), NEW c
    PROVE  c \in CodesIn(t) <=>
              \E p \in 1 .. Len(t) : IsCode(t, p) /\ c = CodeOf[t[p]]
<1>1. Len(t) \in Nat /\ DOMAIN t = 1 .. Len(t)
    BY LenProperties
<1>2. ASSUME NEW p \in 1 .. Len(t)
      PROVE  (\A n \in {p - 1, p + 1} \cap 1 .. Len(t) : t[n] \in Separators)
                <=> /\ p = 1 \/ t[p - 1] \in Separators
                    /\ p = Len(t) \/ t[p + 1] \in Separators
    <2> DEFINE N == Len(t)
    <2>1. N \in Nat /\ p \in 1 .. N
        BY <1>1
    <2> HIDE DEF N
    <2>2. (p - 1 \in 1 .. N) <=> (p # 1)
        BY <2>1
    <2>3. (p + 1 \in 1 .. N) <=> (p # N)
        BY <2>1
    <2>4. (\A n \in {p - 1, p + 1} \cap 1 .. N : t[n] \in Separators)
             <=> /\ p = 1 \/ t[p - 1] \in Separators
                 /\ p = N \/ t[p + 1] \in Separators
        BY <2>2, <2>3
    <2> QED BY <2>4 DEF N
<1>3. CodesIn(t) = {CodeOf[t[p]] : p \in {q \in 1 .. Len(t) :
         /\ t[q] \in DOMAIN CodeOf
         /\ \A n \in {q - 1, q + 1} \cap 1 .. Len(t) : t[n] \in Separators}}
    BY <1>1 DEF CodesIn, Separators
<1> QED BY <1>2, <1>3 DEF IsCode

(* The words decode_allow takes are those of the header.                   *)
LEMMA DecodesCodes ==
    ASSUME NEW v \in Seq(Tokens) PROVE DecodeAllow(v) = CodesIn(v)
<1> DEFINE N == Len(v)
           W == {u \in Split(v, Blanks \cup {"comma"}) :
                    u[1] = u[2] /\ v[u[1]] \in DOMAIN CodeOf}
<1>1. N \in Nat
    BY LenProperties
<1>2. DecodeAllow(v) = {CodeOf[v[w[1]]] : w \in W}
    BY DEF DecodeAllow
<1>3. Blanks \cup {"comma"} = Separators
    BY DEF Blanks, Separators
<1>4. \A x \in DOMAIN CodeOf : x \notin Separators
    BY DEF CodeOf, Separators
<1>5. ASSUME NEW w \in W PROVE w[1] \in 1 .. N /\ IsCode(v, w[1])
    <2>1. /\ w \in (1 .. N) \X (1 .. N) /\ w[1] = w[2]
          /\ w[1] = 1 \/ v[w[1] - 1] \in Separators
          /\ w[2] = N \/ v[w[2] + 1] \in Separators
          /\ v[w[1]] \in DOMAIN CodeOf
        BY <1>3 DEF Split
    <2>2. w[1] \in 1 .. N
        BY <2>1
    <2> QED BY <2>1, <2>2 DEF IsCode
<1>6. ASSUME NEW p \in 1 .. N, IsCode(v, p) PROVE <<p, p>> \in W
    <2> DEFINE w == <<p, p>>
    <2>1. w \in (1 .. N) \X (1 .. N) /\ w[1] = p /\ w[2] = p /\ p <= p
        BY <1>1
    <2>2. \A q \in p .. p : v[q] \notin Separators
        BY <1>1, <1>4, <1>6 DEF IsCode
    <2> HIDE DEF w, N
    <2>3. w \in Split(v, Separators)
        BY <1>6, <2>1, <2>2 DEF Split, IsCode, N
    <2>4. w[1] = w[2] /\ v[w[1]] \in DOMAIN CodeOf
        BY <1>6, <2>1 DEF IsCode
    <2> QED BY <1>3, <2>3, <2>4 DEF w
<1>7. \A c : c \in DecodeAllow(v) <=>
                \E p \in 1 .. N : IsCode(v, p) /\ c = CodeOf[v[p]]
    <2> TAKE c
    <2>1. c \in DecodeAllow(v) <=> \E w \in W : c = CodeOf[v[w[1]]]
        BY <1>2
    <2> HIDE DEF W, N
    <2>2. ASSUME NEW w \in W, c = CodeOf[v[w[1]]]
          PROVE  \E p \in 1 .. N : IsCode(v, p) /\ c = CodeOf[v[p]]
        BY <1>5, <2>2
    <2>3. ASSUME NEW p \in 1 .. N, IsCode(v, p), c = CodeOf[v[p]]
          PROVE  \E w \in W : c = CodeOf[v[w[1]]]
        <3> DEFINE w == <<p, p>>
        <3>1. w \in W /\ w[1] = p
            BY <1>6, <2>3
        <3> HIDE DEF w
        <3> QED BY <2>3, <3>1
    <2> QED BY <2>1, <2>2, <2>3
<1>8. \A c : c \in CodesIn(v) <=>
                \E p \in 1 .. N : IsCode(v, p) /\ c = CodeOf[v[p]]
    BY CodesInIs
<1>9. \A c : c \in DecodeAllow(v) <=> c \in CodesIn(v)
    <2> HIDE DEF W, N
    <2> QED BY <1>7, <1>8
<1> QED BY <1>9

(* A header more has its words more.                                       *)
LEMMA CodesJoined ==
    ASSUME NEW s \in Seq(Tokens), NEW v \in Seq(Tokens)
    PROVE  CodesIn(s \o (<<"comma">> \o v)) = CodesIn(s) \cup CodesIn(v)
<1> DEFINE r == <<"comma">> \o v
           y == s \o r
           a == Len(s)
           b == Len(v)
<1>1. a \in Nat /\ b \in Nat
    BY LenProperties
<1>2. /\ r \in Seq(Tokens) /\ Len(r) = b + 1 /\ r[1] = "comma"
      /\ \A n \in 1 .. b : r[n + 1] = v[n]
    <2>1. "comma" \in Tokens
        BY CommaIs
    <2> QED BY <2>1, OneBefore
<1> HIDE DEF r
<1>3. /\ y \in Seq(Tokens) /\ Len(y) = a + Len(r)
      /\ \A n \in 1 .. a + Len(r) : y[n] = IF n <= a THEN s[n] ELSE r[n - a]
    BY <1>2, ConcatProperties
<1> HIDE DEF y, a, b
<1>4. \A p \in 1 .. a : p \in 1 .. a + b + 1 /\ y[p] = s[p]
    <2>1. \A p \in 1 .. a : /\ p \in 1 .. a + (b + 1) /\ p <= a
                            /\ p \in 1 .. a + b + 1
        BY <1>1
    <2> QED BY <1>2, <1>3, <2>1
<1>5. y[a + 1] = "comma"
    <2>1. a + 1 \in 1 .. a + (b + 1) /\ ~ (a + 1 <= a) /\ (a + 1) - a = 1
        BY <1>1
    <2> QED BY <1>2, <1>3, <2>1
<1>6. \A p \in 1 .. b : /\ a + 1 + p \in 1 .. a + b + 1
                        /\ y[a + 1 + p] = v[p]
    <2>1. \A p \in 1 .. b : /\ a + 1 + p \in 1 .. a + (b + 1)
                            /\ a + 1 + p \in 1 .. a + b + 1
                            /\ ~ (a + 1 + p <= a)
                            /\ (a + 1 + p) - a = p + 1
        BY <1>1
    <2> QED BY <1>2, <1>3, <2>1
<1>7. Len(y) = a + b + 1
    BY <1>1, <1>2, <1>3
<1>8. "comma" \in Separators /\ "comma" \notin DOMAIN CodeOf
    BY DEF Separators, CodeOf
<1> DEFINE Codes == DOMAIN CodeOf
<1> HIDE DEF Codes
<1>9. ASSUME NEW p \in 1 .. a PROVE IsCode(y, p) <=> IsCode(s, p)
    <2>1. y[p] = s[p] /\ (p # 1 => y[p - 1] = s[p - 1])
        <3>1. p # 1 => p - 1 \in 1 .. a
            BY <1>1
        <3> QED BY <1>4, <3>1
    <2>2. p # a => y[p + 1] = s[p + 1] /\ p # Len(y)
        <3>1. p # a => p + 1 \in 1 .. a
            BY <1>1
        <3> QED BY <1>1, <1>4, <1>7, <3>1
    <2>3. p = a => y[p + 1] \in Separators
        BY <1>5, <1>8
    <2>4. p # Len(y)
        BY <1>1, <1>7
    <2> QED BY <2>1, <2>2, <2>3, <2>4 DEF IsCode, a
<1>10. ~ IsCode(y, a + 1)
    BY <1>5, <1>8 DEF IsCode
<1>11. ASSUME NEW p \in 1 .. b
       PROVE  IsCode(y, a + 1 + p) <=> IsCode(v, p)
    <2> DEFINE q == a + 1 + p
    <2>1. y[q] = v[p] /\ q # 1
        BY <1>1, <1>6
    <2>2. p # 1 => y[q - 1] = v[p - 1]
        <3>1. p # 1 => p - 1 \in 1 .. b /\ a + 1 + (p - 1) = q - 1
            BY <1>1
        <3> QED BY <1>6, <3>1
    <2>3. p = 1 => y[q - 1] \in Separators
        <3>1. p = 1 => q - 1 = a + 1
            BY <1>1
        <3> QED BY <1>5, <1>8, <3>1
    <2>4. p # b => y[q + 1] = v[p + 1] /\ q # Len(y)
        <3>1. p # b => p + 1 \in 1 .. b /\ a + 1 + (p + 1) = q + 1
            BY <1>1
        <3> QED BY <1>1, <1>6, <1>7, <3>1
    <2>5. p = b => q = Len(y)
        BY <1>1, <1>7
    <2> HIDE DEF q
    <2>6. IsCode(y, q) <=> IsCode(v, p)
        BY <2>1, <2>2, <2>3, <2>4, <2>5 DEF IsCode, b
    <2> QED BY <2>6 DEF q
<1>12. ASSUME NEW p \in 1 .. a + b + 1
       PROVE  \/ p \in 1 .. a
              \/ p = a + 1
              \/ p - a - 1 \in 1 .. b /\ p = a + 1 + (p - a - 1)
    BY <1>1
<1>13. \A c : c \in CodesIn(y) <=>
         \E p \in 1 .. a + b + 1 : IsCode(y, p) /\ c = CodeOf[y[p]]
    BY <1>3, <1>7, CodesInIs, SMTT(40)
<1>14. \A c : c \in CodesIn(s) <=>
         \E p \in 1 .. a : IsCode(s, p) /\ c = CodeOf[s[p]]
    BY CodesInIs DEF a
<1>15. \A c : c \in CodesIn(v) <=>
         \E p \in 1 .. b : IsCode(v, p) /\ c = CodeOf[v[p]]
    BY CodesInIs DEF b
<1>16. ASSUME NEW c, c \in CodesIn(y) PROVE c \in CodesIn(s) \cup CodesIn(v)
    <2>1. PICK p \in 1 .. a + b + 1 : IsCode(y, p) /\ c = CodeOf[y[p]]
        BY <1>13, <1>16
    <2>2. CASE p \in 1 .. a
        <3>1. IsCode(s, p) /\ c = CodeOf[s[p]]
            BY <1>4, <1>9, <2>1, <2>2
        <3> QED BY <1>14, <2>2, <3>1
    <2>3. CASE p = a + 1
        BY <1>10, <2>1, <2>3
    <2>4. CASE p - a - 1 \in 1 .. b /\ p = a + 1 + (p - a - 1)
        <3> DEFINE q == p - a - 1
        <3>1. q \in 1 .. b /\ p = a + 1 + q
            BY <2>4
        <3> HIDE DEF q
        <3>2. IsCode(v, q) /\ c = CodeOf[v[q]]
            BY <1>6, <1>11, <2>1, <3>1
        <3> QED BY <1>15, <3>1, <3>2
    <2> QED BY <1>12, <2>2, <2>3, <2>4
<1>17. ASSUME NEW c, c \in CodesIn(s) PROVE c \in CodesIn(y)
    <2>1. PICK p \in 1 .. a : IsCode(s, p) /\ c = CodeOf[s[p]]
        BY <1>14, <1>17
    <2>2. p \in 1 .. a + b + 1 /\ IsCode(y, p) /\ c = CodeOf[y[p]]
        BY <1>4, <1>9, <2>1
    <2> QED BY <1>13, <2>2
<1>18. ASSUME NEW c, c \in CodesIn(v) PROVE c \in CodesIn(y)
    <2>1. PICK p \in 1 .. b : IsCode(v, p) /\ c = CodeOf[v[p]]
        BY <1>15, <1>18
    <2> DEFINE q == a + 1 + p
    <2>2. q \in 1 .. a + b + 1 /\ IsCode(y, q) /\ c = CodeOf[y[q]]
        BY <1>6, <1>11, <2>1
    <2> HIDE DEF q
    <2> QED BY <1>13, <2>2
<1>19. CodesIn(y) = CodesIn(s) \cup CodesIn(v)
    BY <1>16, <1>17, <1>18
<1> QED BY <1>19 DEF y, r

(* No tokens, no codes.                                                    *)
LEMMA NoCodes == CodesIn(<<>>) = {}
<1>1. DOMAIN <<>> = {}
    OBVIOUS
<1> QED BY <1>1 DEF CodesIn

-----------------------------------------------------------------------------
(* Entities read, and entities missing.                                    *)

(* Nothing is kept where nothing is wanted.                                *)
LEMMA KeptNone ==
    ASSUME NEW T, NEW s \in Seq(T), NEW S, \A p \in DOMAIN s : s[p] \notin S
    PROVE  Kept(s, S) = <<>>
<1> DEFINE N == Len(s)
           u(n) == SubSeq(s, 1, n)
           I == {n \in Nat : n <= N => Kept(u(n), S) = <<>>}
<1>1. N \in Nat /\ DOMAIN s = 1 .. N
    BY LenProperties
<1>2. 0 \in I
    <2>1. u(0) = <<>>
        OBVIOUS
    <2> QED BY <2>1, KeptEmpty
<1>3. ASSUME NEW n \in Nat, n \in I PROVE n + 1 \in I
    <2> SUFFICES ASSUME n + 1 <= N PROVE Kept(u(n + 1), S) = <<>>
        OBVIOUS
    <2> DEFINE x == s[n + 1]
    <2>1. x \in T /\ n + 1 \in 1 .. N
        BY <1>1, ElementOfSeq
    <2>2. u(n) \in Seq(T) /\ u(n + 1) = Append(u(n), x)
        BY <1>1
    <2>3. x \notin S
        BY <1>1, <2>1
    <2>4. Kept(u(n), S) = <<>>
        BY <1>3, <2>1
    <2> HIDE DEF u, x, N
    <2>5. Kept(Append(u(n), x), S) =
             IF x \in S THEN Append(Kept(u(n), S), x) ELSE Kept(u(n), S)
        BY <2>1, <2>2, KeptAppend, SMTT(40)
    <2> QED BY <2>2, <2>3, <2>4, <2>5
<1>4. \A n \in Nat : n \in I
    <2> HIDE DEF I
    <2> QED BY <1>2, <1>3, Induction
<1>5. u(N) = s
    BY <1>1
<1>6. Kept(u(N), S) = <<>>
    BY <1>1, <1>4
<1> QED BY <1>5, <1>6

(* A value is blank if nothing is left of it without blanks.               *)
LEMMA BlankIs ==
    ASSUME NEW v \in Seq(Tokens)
    PROVE  /\ Rest(v, 1) = NoBlanks(v)
           /\ IsBlank(v) <=> NoBlanks(v) = <<>>
<1> DEFINE N == Len(v)
           S == Tokens \ Blanks
<1>1. N \in Nat /\ DOMAIN v = 1 .. N
    BY LenProperties
<1>2. SubSeq(v, 1, N) = v
    BY <1>1
<1>3. Rest(v, 1) = NoBlanks(v)
    BY <1>2 DEF Rest
<1>4. ASSUME IsBlank(v) PROVE NoBlanks(v) = <<>>
    <2>1. \A p \in DOMAIN v : v[p] \notin S
        BY <1>4 DEF IsBlank
    <2>2. Kept(v, S) = <<>>
        <3> HIDE DEF S
        <3> QED BY <2>1, KeptNone
    <2> QED BY <2>2 DEF NoBlanks
<1>5. ASSUME ~ IsBlank(v) PROVE NoBlanks(v) # <<>>
    <2>1. PICK p \in 1 .. N : v[p] \notin Blanks
        BY <1>1, <1>5 DEF IsBlank
    <2> DEFINE a == SubSeq(v, 1, p - 1)
               b == SubSeq(v, p, N)
               r == Rest(v, p + 1)
    <2>2. a \in Seq(Tokens) /\ b \in Seq(Tokens) /\ v = a \o b
        BY <1>1
    <2>3. p \in 1 .. Len(v) + 1 /\ p + 1 \in 1 .. Len(v) + 1 /\ p <= Len(v)
        BY <1>1
    <2>4. Rest(v, p) = <<v[p]>> \o r
        BY <2>1, <2>3, RestIs
    <2>5. r \in Seq(Tokens) /\ v[p] \in Tokens
        BY <2>3, RestIs, ElementOfSeq
    <2>6. NoBlanks(b) = Rest(v, p)
        BY DEF Rest
    <2> HIDE DEF a, b, r
    <2> DEFINE y == v[p]
               e == NoBlanks(a)
               f == <<y>> \o r
    <2>7. e \in Seq(Tokens) /\ NoBlanks(a \o b) = e \o f
        <3>1. NoBlanks(b) = f
            BY <2>4, <2>6
        <3> HIDE DEF f
        <3> QED BY <2>2, <3>1, NoBlanksAre
    <2>8. f \in Seq(Tokens) /\ Len(f) = Len(r) + 1 /\ Len(r) \in Nat
        <3> HIDE DEF y
        <3>1. y \in Tokens
            BY <2>5 DEF y
        <3> QED BY <2>5, <3>1, OneBefore
    <2> HIDE DEF e, f
    <2>9. Len(e \o f) = Len(e) + Len(f) /\ Len(e) \in Nat
        BY <2>7, <2>8, ConcatProperties, LenProperties
    <2>10. Len(e \o f) # 0
        BY <2>8, <2>9
    <2>11. e \o f # <<>>
        <3>1. Len(<<>>) = 0
            OBVIOUS
        <3> QED BY <2>10, <3>1
    <2> QED BY <2>2, <2>7, <2>11
<1> QED BY <1>3, <1>4, <1>5

(* t are the tokens of the entities read, E those of all there are: what   *)
(* is left of v from p on is missing.                                      *)
Missing(t, E, v, p, comma) ==
    E = IF Rest(v, p) = <<>> THEN t
                             ELSE t \o (Delimiter(comma) \o Rest(v, p))

(* Nothing is missing of a value that is blank from p on.                  *)
LEMMA BlankRead ==
    ASSUME NEW v \in Seq(Tokens), LongestRuns(v), NEW p \in 1 .. Len(v) + 1
    PROVE  Blank(v, p) <=> Rest(v, p) = <<>>
<1> DEFINE q == Past(v, p, Blanks)
<1>1. /\ q \in 1 .. Len(v) + 1 /\ Rest(v, q) = Rest(v, p)
    BY PastBlanks
<1>2. q > Len(v) => Rest(v, q) = <<>>
    BY <1>1, RestIs
<1>3. ASSUME Rest(v, p) # <<>> PROVE ~ (q > Len(v))
    BY <1>1, <1>2, <1>3
<1>4. ASSUME Rest(v, p) = <<>> PROVE q > Len(v)
    <2> SUFFICES ASSUME ~ (q > Len(v)) PROVE FALSE
        OBVIOUS
    <2>1. Len(v) \in Nat
        BY LenProperties
    <2>2. q \in 1 .. Len(v) /\ q + 1 \in 1 .. Len(v) + 1 /\ q <= Len(v)
        BY <1>1, <2>1
    <2>3. v[q] \notin Blanks
        BY <2>2, PastBlanks
    <2>4. Rest(v, q) = <<v[q]>> \o Rest(v, q + 1)
        BY <1>1, <2>2, <2>3, RestIs
    <2> DEFINE y == v[q]
               r == Rest(v, q + 1)
    <2>5. y \in Tokens /\ r \in Seq(Tokens)
        BY <2>2, ElementOfSeq, RestIs
    <2>6. <<y>> \o r = <<>>
        BY <1>1, <1>4, <2>4
    <2> HIDE DEF y, r
    <2>7. Len(<<y>> \o r) = Len(r) + 1 /\ Len(r) \in Nat
        BY <2>5, OneBefore
    <2> DEFINE z == <<y>> \o r
    <2>8. Len(z) # 0 /\ z = <<>>
        BY <2>6, <2>7
    <2> HIDE DEF z
    <2>9. Len(<<>>) = 0
        OBVIOUS
    <2> QED BY <2>8, <2>9
<1> QED BY <1>3, <1>4 DEF Blank

(* An entity moves from what is missing to what is read.                   *)
EntityMoves(v, p, comma, t, E) ==
    LET at == Places(v, p, comma)
    IN  \E u \in Seq(Tokens) :
           /\ IsEntityList(u) /\ Missing(u, E, v, at.offset + 1, TRUE)
           /\ EntityList(u) =
                 Append(EntityList(t), [kind |-> v[at.name],
                                        off |-> Number[v[at.offset]]])

(* What parse_ee finds moves, and is the next of the list.                 *)
LEMMA EntityTaken ==
    ASSUME NEW v \in Seq(Tokens), LongestRuns(v), NEW p \in 1 .. Len(v) + 1,
           NEW comma \in BOOLEAN, HasEntityAt(v, Places(v, p, comma), comma),
           ~ Blank(v, p), NEW t \in Seq(Tokens), IsEntityList(t),
           NEW E, Missing(t, E, v, p, comma)
    PROVE  EntityMoves(v, p, comma, t, E)
<1> DEFINE at == Places(v, p, comma)
           entity == [kind |-> v[at.name], off |-> Number[v[at.offset]]]
           z == Rest(v, at.offset + 1)
           d == Delimiter(comma) \o Rest(v, p)
<1>1. PICK u \in Seq(Tokens) :
          /\ Len(u) = 4 /\ IsEntity(u, 0)
          /\ EntityOf(u, 0) = entity
          /\ d = u \o z
    <2>1. at = Places(v, p, comma)
        OBVIOUS
    <2> HIDE DEF at
    <2> QED BY <2>1, EntityRead, ZenonT(60)
<1>2. at.offset \in 1 .. Len(v)
    <2>1. at = Places(v, p, comma)
        OBVIOUS
    <2> HIDE DEF at
    <2> QED BY <2>1, EntityRead, SMTT(40)
<1>3. at.offset + 1 \in 1 .. Len(v) + 1
    BY <1>2, LenProperties
<1>4. z \in Seq(Tokens)
    BY <1>3, RestIs
<1>5. E = t \o d
    BY BlankRead DEF Missing
<1> HIDE DEF entity, d, z
<1>6. /\ t \o u \in Seq(Tokens) /\ IsEntityList(t \o u)
      /\ EntityList(t \o u) = Append(EntityList(t), EntityOf(u, 0))
    BY <1>1, EntityAdded
<1>7. E = (t \o u) \o z
    <2>1. t \o (u \o z) = (t \o u) \o z
        <3>1. u \in Seq(Tokens)
            BY <1>1
        <3> DEFINE T == Tokens
        <3> HIDE DEF T
        <3>2. t \in Seq(T) /\ u \in Seq(T) /\ z \in Seq(T)
            BY <1>4, <3>1 DEF T
        <3>3. (t \o u) \o z = t \o (u \o z)
            BY ONLY <3>2, ConcatAssociative, SMTT(40)
        <3> QED BY <3>3
    <2> QED BY <1>1, <1>5, <2>1, Zenon
<1> DEFINE w == t \o u
<1>8. E = IF z = <<>> THEN w ELSE w \o (<<>> \o z)
    <2> HIDE DEF w
    <2>1. <<>> \o z = z
        BY <1>4, ConcatEmptySeq
    <2>2. w \o <<>> = w
        BY <1>6, ConcatEmptySeq DEF w
    <2>3. E = w \o z
        BY <1>7 DEF w
    <2> QED BY <2>1, <2>2, <2>3
<1>9. Missing(w, E, v, at.offset + 1, TRUE)
    <2> HIDE DEF w
    <2> QED BY <1>8 DEF Missing, Delimiter, z
<1> QED BY <1>1, <1>6, <1>9 DEF entity, EntityMoves

(* Where parse_ee finds none, there is none.                               *)
LEMMA EntityRefused ==
    ASSUME NEW v \in Seq(Tokens), LongestRuns(v), NEW p \in 1 .. Len(v) + 1,
           NEW comma \in BOOLEAN,
           ~ HasEntityAt(v, Places(v, p, comma), comma), ~ Blank(v, p),
           NEW t \in Seq(Tokens), IsEntityList(t),
           NEW E, Missing(t, E, v, p, comma)
    PROVE  ~ IsEntityList(E)
<1> DEFINE d == Delimiter(comma) \o Rest(v, p)
<1>1. Rest(v, p) # <<>> /\ Rest(v, p) \in Seq(Tokens)
    BY BlankRead, RestIs
<1>2. E = t \o d
    BY <1>1 DEF Missing
<1>3. d \in Seq(Tokens)
    <2> DEFINE r == Rest(v, p)
               c == Delimiter(comma)
    <2>1. c \in Seq(Tokens) /\ r \in Seq(Tokens)
        BY <1>1, CommaIs DEF Delimiter
    <2> HIDE DEF c, r
    <2>2. c \o r \in Seq(Tokens)
        BY <2>1, ConcatProperties
    <2> QED BY <2>2 DEF c, r
<1>4. d # <<>>
    <2>1. CASE comma
        BY <1>1, <2>1, ConcatEmptySeq DEF Delimiter
    <2>2. CASE ~ comma
        <3>1. d = <<"comma">> \o Rest(v, p)
            BY <2>2 DEF Delimiter
        <3> DEFINE y == "comma"
                   r == Rest(v, p)
        <3>2. y \in Tokens /\ d = <<y>> \o r
            BY <3>1, CommaIs
        <3> HIDE DEF y, r, d
        <3>3. Len(d) = Len(r) + 1 /\ Len(r) \in Nat
            BY <1>1, <3>2, OneBefore DEF r
        <3>4. Len(<<>>) = 0
            OBVIOUS
        <3> QED BY <3>3, <3>4
    <2> QED BY <2>1, <2>2
<1> SUFFICES ASSUME IsEntityList(E) PROVE FALSE
    OBVIOUS
<1>5. Len(d) >= 4 /\ IsEntity(d, 0)
    <2> HIDE DEF d
    <2> QED BY <1>2, <1>3, <1>4, EntityFollows
<1>6. HasEntityAt(v, Places(v, p, comma), comma)
    BY <1>1, <1>5, EntityFound
<1> QED BY <1>6

-----------------------------------------------------------------------------
(* The invariant behind AcceptsWhatIsSaid and LeavesWhatIsSaid.            *)

(* The entities of t are read, those behind i are missing.                 *)
ReadSoFar(t) ==
    /\ IsEntityList(t) /\ list = EntityList(t)
    /\ Missing(t, EntityTokens, LastValue, i, delimiter)

(* Between two headers the list is that of all headers read, and it is not *)
(* empty if there are any.                                                 *)
ListRead ==
    /\ EncapsulatedOk /\ list = EntityList(EntityTokens)
    /\ Under("encapsulated") # <<>> => EntityTokens # <<>>

(* Within a value the entities before i are in the list.                   *)
ValueRead ==
    /\ LongestRuns(LastValue) /\ Under("encapsulated") # <<>>
    /\ EntityTokens = <<>> <=> IsBlank(Under("encapsulated")[1].value)
    /\ \E t \in Seq(Tokens) : ReadSoFar(t)

(* The options are those of the headers read.                              *)
OptionsRead ==
    PreviewOk /\ preview = AsRequest.preview /\ allow = AsRequest.allow

(* So long as there is no verdict, everything read so far says what the    *)
(* variables have; and the verdict is right.                               *)
SaidInv ==
    /\ pc \in {"header", "order"} => ListRead
    /\ pc = "entity" => ValueRead
    /\ pc # "done" => OptionsRead
    /\ AcceptsWhatIsSaid /\ LeavesWhatIsSaid

(* What is said are the headers read.                                      *)
LEMMA SaidIs ==
    /\ AsRequest.method = method
    /\ AsRequest.hdrsOk <=> EncapsulatedOk /\ PreviewOk
    /\ AsRequest.ee = IF EncapsulatedOk THEN EntityList(EntityTokens) ELSE <<>>
    /\ AsRequest.preview = IF Under("preview") = <<>> THEN {}
                           ELSE DecodePreview(Last(Under("preview")).value)
    /\ AsRequest.allow = IF Under("allow") = <<>> THEN {}
                         ELSE {CodesIn(Joined(Under("allow")))}
BY DEF AsRequest

(* Only the headers read and the method say anything.                      *)
LEMMA SameSaid ==
    ASSUME UNCHANGED <<method, read>>
    PROVE  /\ EntityTokens' = EntityTokens /\ AsRequest' = AsRequest
           /\ EncapsulatedOk' <=> EncapsulatedOk
           /\ PreviewOk' <=> PreviewOk
           /\ Under("encapsulated")' = Under("encapsulated")
           /\ LastValue' = LastValue
<1>2. /\ Under("encapsulated")' = Under("encapsulated")
      /\ Under("preview")' = Under("preview")
      /\ Under("allow")' = Under("allow")
    BY DEF Under
<1>3. EntityTokens' = EntityTokens
    BY <1>2 DEF EntityTokens
<1>4. EncapsulatedOk' <=> EncapsulatedOk
    BY <1>2, <1>3 DEF EncapsulatedOk
<1>5. PreviewOk' <=> PreviewOk
    BY <1>2 DEF PreviewOk
<1>6. AsRequest' = AsRequest
    BY <1>2, <1>3, <1>4, <1>5 DEF AsRequest
<1>7. LastValue' = LastValue
    BY DEF LastValue
<1> QED BY <1>2, <1>3, <1>4, <1>5, <1>6, <1>7

(* A refusal is right if what is read so far is wrong.                     *)
LEMMA Refused ==
    ASSUME Fail, ~ IcapHeadersOk(AsRequest)' PROVE SaidInv'
BY DEF Fail, Return, SaidInv, AcceptsWhatIsSaid, LeavesWhatIsSaid

(* A value that does not decode is refused, whatever the others say.       *)
LEMMA NotOk ==
    ASSUME ~ EncapsulatedOk' \/ ~ PreviewOk' PROVE ~ IcapHeadersOk(AsRequest)'
BY DEF IcapHeadersOk, AsRequest

(* The start.                                                              *)
LEMMA InitSaid == ASSUME Init PROVE SaidInv
<1>1. /\ read = <<>> /\ pc = "header" /\ list = <<>> /\ preview = {}
      /\ allow = {} /\ result = "none"
    BY DEF Init
<1>2. \A word : Under(word) = <<>>
    BY <1>1, KeptEmpty DEF Under
<1>3. EntityTokens = <<>>
    BY <1>2, NoEntityTokens
<1>4. ListRead
    BY <1>1, <1>2, <1>3, NothingIsAList DEF ListRead, EncapsulatedOk
<1>5. PreviewOk
    <2>1. DOMAIN <<>> = {}
        OBVIOUS
    <2> QED BY <1>2, <2>1 DEF PreviewOk
<1>6. OptionsRead
    BY <1>1, <1>2, <1>5, SaidIs DEF OptionsRead
<1> QED BY <1>1, <1>4, <1>6 DEF SaidInv, AcceptsWhatIsSaid, LeavesWhatIsSaid

(* A header more.                                                          *)
LEMMA HeaderIs ==
    ASSUME Inv, NEW h \in Headers, read' = Append(read, h)
    PROVE  /\ read \in Seq(Fields) /\ h \in Fields
           /\ h.value \in Seq(Tokens) /\ LongestRuns(h.value)
           /\ LastValue' = h.value
<1>1. h \in Fields /\ LongestRuns(h.value) /\ read \in Seq(Fields)
    BY HeadersAssumption DEF Inv, TypeOK
<1>2. h.value \in Seq(Tokens)
    BY <1>1 DEF Fields
<1> HIDE DEF Fields
<1>3. read'[Len(read')] = h
    BY <1>1, AppendProperties
<1> QED BY <1>1, <1>2, <1>3 DEF LastValue

(* What a header says of the preview.                                      *)
LEMMA PreviewSaid ==
    ASSUME Inv, NEW h \in Headers, read' = Append(read, h), PreviewOk
    PROVE  IF Lower[h.name] = "preview"
           THEN /\ PreviewOk' <=> DecodePreview(h.value) # {}
                /\ AsRequest.preview' = DecodePreview(h.value)
           ELSE PreviewOk' /\ AsRequest.preview' = AsRequest.preview
<1> DEFINE u == Under("preview")
           ok(us) == \A n \in DOMAIN us : DecodePreview(us[n].value) # {}
           said(us) == IF us = <<>> THEN {} ELSE DecodePreview(Last(us).value)
<1>1. h \in Fields
    BY HeaderIs
<1>2. /\ u \in Seq(Fields)
      /\ u' = IF Lower[h.name] = "preview" THEN Append(u, h) ELSE u
    BY HeaderIs, UnderGrows
<1>3. (PreviewOk <=> ok(u)) /\ (PreviewOk' <=> ok(u'))
    BY DEF PreviewOk
<1>4. AsRequest.preview = said(u) /\ AsRequest.preview' = said(u')
    BY DEF AsRequest
<1> HIDE DEF u, Fields
<1>5. CASE Lower[h.name] # "preview"
    BY <1>2, <1>3, <1>4, <1>5
<1>6. CASE Lower[h.name] = "preview"
    <2> DEFINE t == Append(u, h)
    <2>1. /\ t \in Seq(Fields) /\ Len(t) = Len(u) + 1 /\ t[Len(u) + 1] = h
          /\ \A n \in 1 .. Len(u) : t[n] = u[n]
        BY <1>1, <1>2, AppendProperties
    <2>2. u' = t
        BY <1>2, <1>6
    <2> HIDE DEF t
    <2>3. /\ Len(u) \in Nat /\ DOMAIN u = 1 .. Len(u)
          /\ DOMAIN t = 1 .. Len(u) + 1
        BY <1>2, <2>1, LenProperties
    <2>4. ok(t) <=> DecodePreview(h.value) # {}
        <3> DEFINE N == Len(u)
        <3>1. /\ \A n \in 1 .. N : DecodePreview(u[n].value) # {}
              /\ N \in Nat
            BY <1>3, <2>3
        <3>2. \A n \in 1 .. N : t[n] = u[n]
            BY <2>1
        <3>3. t[N + 1] = h /\ DOMAIN t = 1 .. N + 1
            BY <2>1, <2>3
        <3>4. /\ N + 1 \in 1 .. N + 1
              /\ \A n \in 1 .. N + 1 : n \in 1 .. N \/ n = N + 1
            BY <3>1
        <3> HIDE DEF N
        <3>5. ASSUME ok(t) PROVE DecodePreview(h.value) # {}
            <4>1. DecodePreview(t[N + 1].value) # {}
                BY <3>3, <3>4, <3>5
            <4> QED BY <3>3, <4>1
        <3>6. ASSUME DecodePreview(h.value) # {} PROVE ok(t)
            <4> SUFFICES ASSUME NEW n \in 1 .. N + 1
                         PROVE  DecodePreview(t[n].value) # {}
                BY <3>3
            <4>1. CASE n \in 1 .. N
                BY <3>1, <3>2, <4>1
            <4>2. CASE n = N + 1
                BY <3>3, <3>6, <4>2
            <4> QED BY <3>4, <4>1, <4>2
        <3> HIDE DEF ok
        <3> QED BY <3>5, <3>6
    <2>5. said(t) = DecodePreview(h.value)
        <3>1. t # <<>>
            BY <2>1, <2>3, EmptySeq
        <3> QED BY <2>1, <3>1 DEF Last
    <2> QED BY <1>3, <1>4, <1>6, <2>2, <2>4, <2>5
<1> QED BY <1>5, <1>6

(* What a header says of the codes allowed.                                *)
LEMMA AllowSaid ==
    ASSUME Inv, NEW h \in Headers, read' = Append(read, h)
    PROVE  AsRequest.allow' =
              IF Lower[h.name] = "allow"
              THEN AddAllow(AsRequest.allow, DecodeAllow(h.value))
              ELSE AsRequest.allow
<1> DEFINE u == Under("allow")
           v == h.value
           said(us) == IF us = <<>> THEN {} ELSE {CodesIn(Joined(us))}
<1>1. h \in Fields /\ v \in Seq(Tokens)
    BY HeaderIs
<1>2. /\ u \in Seq(Fields)
      /\ u' = IF Lower[h.name] = "allow" THEN Append(u, h) ELSE u
    BY HeaderIs, UnderGrows
<1>3. AsRequest.allow = said(u) /\ AsRequest.allow' = said(u')
    BY DEF AsRequest
<1>4. DecodeAllow(v) = CodesIn(v)
    BY <1>1, DecodesCodes
<1>5. /\ Joined(u) \in Seq(Tokens)
      /\ Joined(Append(u, h)) = Joined(u) \o (<<"comma">> \o v)
    <2> HIDE DEF u
    <2> QED BY <1>1, <1>2, JoinedAppend
<1>6. CodesIn(Joined(Append(u, h))) = CodesIn(Joined(u)) \cup CodesIn(v)
    <2> DEFINE j == Joined(u)
    <2> HIDE DEF j, v
    <2>1. CodesIn(j \o (<<"comma">> \o v)) = CodesIn(j) \cup CodesIn(v)
        BY <1>1, <1>5, CodesJoined DEF j
    <2> QED BY <1>5, <2>1 DEF j
<1>7. Append(u, h) # <<>>
    <2> HIDE DEF u, Fields
    <2>1. Append(u, h) \in Seq(Fields) /\ Len(Append(u, h)) = Len(u) + 1
          /\ Len(u) \in Nat
        BY <1>1, <1>2, AppendProperties, LenProperties
    <2> QED BY <2>1, EmptySeq
<1>8. Joined(<<>>) = <<>>
    <2>1. [n \in DOMAIN <<>> |-> <<"comma">> \o <<>>[n].value] = <<>>
        OBVIOUS
    <2> QED BY <2>1, FlattenEmpty DEF Joined
<1>9. u = <<>> => CodesIn(Joined(u)) = {}
    BY <1>8, NoCodes
<1> DEFINE c == CodesIn(Joined(u))
           d == CodesIn(v)
<1>10. \A x : Value({x}) = x
    BY DEF Value
<1>11. AddAllow(said(u), d) = {c \cup d}
    <2> HIDE DEF d
    <2>1. CASE u = <<>>
        BY <1>9, <2>1 DEF AddAllow
    <2>2. CASE u # <<>>
        <3> HIDE DEF u
        <3>1. said(u) = {c}
            BY <2>2
        <3> HIDE DEF c, said
        <3> QED BY <1>10, <3>1 DEF AddAllow
    <2> QED BY <2>1, <2>2
<1>12. said(Append(u, h)) = {c \cup d}
    <2> HIDE DEF u
    <2> QED BY <1>6, <1>7
<1> HIDE DEF u, said, c, d
<1> QED BY <1>2, <1>3, <1>4, <1>11, <1>12 DEF d, v

-----------------------------------------------------------------------------
(* The first step into a value: all of it is missing.                      *)
LEMMA EncapsulatedSaid ==
    ASSUME Inv, ListRead, NEW h \in Headers, read' = Append(read, h),
           ReadEncapsulated(h)
    PROVE  ValueRead'
<1> DEFINE u == Under("encapsulated")
           v == h.value
           E == EntityTokens
<1>1. /\ h \in Fields /\ v \in Seq(Tokens) /\ LongestRuns(v)
      /\ LastValue' = v /\ Lower[h.name] = "encapsulated"
    BY HeaderIs DEF ReadEncapsulated, Named
<1>2. i' = 1 /\ delimiter' = FALSE /\ list' = list
    BY DEF ReadEncapsulated
<1>3. u \in Seq(Fields) /\ u' = Append(u, h)
    BY <1>1, HeaderIs, UnderGrows
<1>4. /\ E \in Seq(Tokens)
      /\ E' = IF ~ IsBlank(v) THEN E \o (<<"comma">> \o NoBlanks(v)) ELSE E
    BY <1>1, HeaderIs, EntityTokensGrow
<1>5. /\ Rest(v, 1) = NoBlanks(v)
      /\ IsBlank(v) <=> Rest(v, 1) = <<>>
    BY <1>1, BlankIs
<1>6. IsEntityList(E) /\ list = EntityList(E)
    BY DEF ListRead, EncapsulatedOk
<1>7. Missing(E, E', v, 1, FALSE)
    <2> DEFINE F == EntityTokens'
               r == NoBlanks(v)
    <2>1. Delimiter(FALSE) = <<"comma">>
        BY DEF Delimiter
    <2>2. /\ F = IF ~ IsBlank(v) THEN E \o (<<"comma">> \o r) ELSE E
          /\ Rest(v, 1) = r /\ (IsBlank(v) <=> r = <<>>)
        BY <1>4, <1>5
    <2> HIDE DEF E, F, v, r
    <2>3. F = IF r = <<>> THEN E ELSE E \o (<<"comma">> \o r)
        BY <2>2
    <2>4. Missing(E, F, v, 1, FALSE)
        BY <2>1, <2>2, <2>3 DEF Missing
    <2> QED BY <2>4 DEF F, E
<1>8. PICK t \in Seq(Tokens) : t = E
    BY <1>4
<1>9. ReadSoFar(t)'
    <2>1. IsEntityList(t) /\ list' = EntityList(t)
          /\ Missing(t, E', LastValue', i', delimiter')
        BY <1>1, <1>2, <1>6, <1>7, <1>8
    <2> QED BY <2>1 DEF ReadSoFar
<1>10. u' # <<>> /\ u'[1] = IF u = <<>> THEN h ELSE u[1]
    <2> HIDE DEF u, Fields
    <2> DEFINE w == Append(u, h)
    <2>1. /\ w \in Seq(Fields) /\ Len(w) = Len(u) + 1 /\ w[Len(u) + 1] = h
          /\ \A n \in 1 .. Len(u) : w[n] = u[n]
        BY <1>1, <1>3, AppendProperties
    <2> HIDE DEF w
    <2>2. Len(u) \in Nat /\ (u = <<>> <=> Len(u) = 0)
        BY <1>3, LenProperties, EmptySeq
    <2>3. w # <<>>
        BY <2>1, <2>2, EmptySeq
    <2>4. w[1] = IF u = <<>> THEN h ELSE u[1]
        BY <2>1, <2>2
    <2> QED BY <1>3, <2>3, <2>4 DEF w
<1>11. E' = <<>> <=> IsBlank(u'[1].value)
    <2> DEFINE c == <<"comma">> \o NoBlanks(v)
    <2>1. c \in Seq(Tokens) /\ Len(c) \in Nat \ {0}
        <3> DEFINE y == "comma"
                   r == NoBlanks(v)
        <3>1. y \in Tokens /\ r \in Seq(Tokens)
            BY <1>1, CommaIs, NoBlanksAre
        <3> HIDE DEF y, r
        <3>2. <<y>> \o r \in Seq(Tokens) /\ Len(<<y>> \o r) = Len(r) + 1
              /\ Len(r) \in Nat
            BY <3>1, OneBefore
        <3> DEFINE z == <<y>> \o r
        <3>3. z \in Seq(Tokens) /\ Len(z) \in Nat \ {0}
            BY <3>2
        <3> QED BY <3>3 DEF y, r
    <2> HIDE DEF c, v, E
    <2>2. E \o c # <<>>
        <3> DEFINE w == E \o c
        <3>1. w \in Seq(Tokens) /\ Len(w) = Len(E) + Len(c) /\ Len(E) \in Nat
            BY <1>4, <2>1, ConcatProperties, LenProperties
        <3> HIDE DEF w
        <3>2. Len(w) # 0
            BY <2>1, <3>1
        <3>3. w # <<>>
            BY <3>1, <3>2, EmptySeq
        <3> QED BY <3>3 DEF w
    <2>3. CASE u = <<>>
        <3>1. E = <<>>
            BY <2>3, NoEntityTokens DEF E
        <3> QED BY <1>4, <1>10, <2>2, <2>3, <3>1 DEF c, v
    <2>4. CASE u # <<>>
        <3>1. E # <<>> /\ ~ IsBlank(u[1].value)
            BY <2>4 DEF ListRead, EncapsulatedOk, E
        <3> QED BY <1>4, <1>10, <2>2, <2>4, <3>1 DEF c
    <2> QED BY <2>3, <2>4
<1>12. t \in Seq(Tokens)
    BY <1>8
<1> QED BY <1>1, <1>10, <1>11, <1>9, <1>12 DEF ValueRead

(* Any other header says nothing of the entities.                          *)
LEMMA OtherSaid ==
    ASSUME Inv, ListRead, NEW h \in Headers, read' = Append(read, h),
           Lower[h.name] # "encapsulated", list' = list
    PROVE  ListRead'
<1>1. /\ Under("encapsulated")' = Under("encapsulated")
      /\ EntityTokens' = EntityTokens
    BY HeaderIs, UnderGrows, EntityTokensGrow
<1> QED BY <1>1 DEF ListRead, EncapsulatedOk

(* What is said of the options stays as it is with another header.         *)
LEMMA OptionsStay ==
    ASSUME Inv, OptionsRead, NEW h \in Headers, read' = Append(read, h),
           Lower[h.name] \notin {"preview", "allow"},
           UNCHANGED <<preview, allow>>
    PROVE  OptionsRead'
<1>1. PreviewOk' /\ AsRequest.preview' = AsRequest.preview
    BY PreviewSaid DEF OptionsRead
<1>2. AsRequest.allow' = AsRequest.allow
    BY AllowSaid
<1> QED BY <1>1, <1>2 DEF OptionsRead

(* Reading a header, of each of the four kinds.                            *)
LEMMA ReadHeaderSaid == ASSUME Inv, SaidInv, ReadHeader PROVE SaidInv'
<1>1. PICK h \in Headers : /\ read' = Append(read, h)
                           /\ \/ ReadEncapsulated(h) \/ ReadPreview(h)
                              \/ ReadAllow(h) \/ ReadOther(h)
    BY DEF ReadHeader
<1>2. pc = "header" /\ ListRead /\ OptionsRead /\ result = "none"
    BY DEF ReadHeader, SaidInv, Inv, TypeOK
<1>3. ASSUME pc' = "header", result' = "none", ListRead', OptionsRead'
      PROVE  SaidInv'
    BY <1>3 DEF SaidInv, AcceptsWhatIsSaid, LeavesWhatIsSaid
<1>4. CASE ReadEncapsulated(h)
    <2>1. ValueRead'
        BY <1>1, <1>2, <1>4, EncapsulatedSaid
    <2>2. OptionsRead'
        <3>1. Lower[h.name] = "encapsulated" /\ UNCHANGED <<preview, allow>>
            BY <1>4 DEF ReadEncapsulated, Named
        <3>2. Lower[h.name] \notin {"preview", "allow"}
            BY <3>1
        <3> QED BY <1>1, <1>2, <3>1, <3>2, OptionsStay
    <2>3. pc' = "entity" /\ result' = "none"
        BY <1>2, <1>4 DEF ReadEncapsulated
    <2> QED BY <2>1, <2>2, <2>3
            DEF SaidInv, AcceptsWhatIsSaid, LeavesWhatIsSaid
<1>5. CASE ReadPreview(h)
    <2>1. Lower[h.name] = "preview"
        BY <1>5 DEF ReadPreview, Named
    <2>2. /\ PreviewOk' <=> DecodePreview(h.value) # {}
          /\ AsRequest.preview' = DecodePreview(h.value)
        BY <1>1, <1>2, <2>1, PreviewSaid DEF OptionsRead
    <2>3. CASE DecodePreview(h.value) # {}
        <3>1. /\ preview' = DecodePreview(h.value)
              /\ UNCHANGED <<pc, list, allow, result>>
            BY <1>5, <2>3 DEF ReadPreview
        <3>2. ListRead'
            BY <1>1, <1>2, <2>1, <3>1, OtherSaid
        <3>3. AsRequest.allow' = AsRequest.allow
            BY <1>1, <2>1, AllowSaid
        <3>4. OptionsRead'
            BY <1>2, <2>2, <2>3, <3>1, <3>3 DEF OptionsRead
        <3> QED BY <1>2, <1>3, <3>1, <3>2, <3>4
    <2>4. CASE DecodePreview(h.value) = {}
        <3>1. Fail /\ ~ PreviewOk'
            BY <1>5, <2>2, <2>4 DEF ReadPreview
        <3> QED BY <3>1, NotOk, Refused
    <2> QED BY <2>3, <2>4
<1>6. CASE ReadAllow(h)
    <2>1. /\ Lower[h.name] = "allow"
          /\ allow' = AddAllow(allow, DecodeAllow(h.value))
          /\ UNCHANGED <<pc, list, preview, result>>
        BY <1>6 DEF ReadAllow, Named
    <2>2. ListRead'
        BY <1>1, <1>2, <2>1, OtherSaid
    <2>3. PreviewOk' /\ AsRequest.preview' = AsRequest.preview
        BY <1>1, <1>2, <2>1, PreviewSaid DEF OptionsRead
    <2>4. AsRequest.allow' = AddAllow(AsRequest.allow, DecodeAllow(h.value))
        BY <1>1, <2>1, AllowSaid
    <2>5. OptionsRead'
        BY <1>2, <2>1, <2>3, <2>4 DEF OptionsRead
    <2> QED BY <1>2, <1>3, <2>1, <2>2, <2>5
<1>7. CASE ReadOther(h)
    <2>1. /\ Lower[h.name] \notin {"encapsulated", "preview", "allow"}
          /\ UNCHANGED <<pc, list, preview, allow, result>>
        BY <1>7 DEF ReadOther, Named
    <2>2. /\ Lower[h.name] # "encapsulated"
          /\ Lower[h.name] \notin {"preview", "allow"}
        BY <2>1
    <2>3. ListRead'
        BY <1>1, <1>2, <2>1, <2>2, OtherSaid
    <2>4. OptionsRead'
        BY <1>1, <1>2, <2>1, <2>2, OptionsStay
    <2> QED BY <1>2, <1>3, <2>1, <2>3, <2>4
<1> QED BY <1>1, <1>4, <1>5, <1>6, <1>7

(* The value that is read, and the position in it.                         *)
LEMMA ValueIs ==
    ASSUME Inv, SaidInv, pc = "entity"
    PROVE  /\ LastValue \in Seq(Tokens) /\ LongestRuns(LastValue)
           /\ i \in 1 .. Len(LastValue) + 1 /\ delimiter \in BOOLEAN
           /\ ValueRead /\ OptionsRead /\ result = "none"
<1>1. ValueRead /\ OptionsRead
    BY DEF SaidInv
<1>2. /\ read \in Seq(Fields) /\ read # <<>> /\ i \in Nat \ {0}
      /\ i <= Len(LastValue) + 1 /\ delimiter \in BOOLEAN /\ result = "none"
    BY DEF Inv, TypeOK
<1>3. read[Len(read)] \in Fields
    <2> HIDE DEF Fields
    <2> QED BY <1>2
<1>4. LastValue \in Seq(Tokens)
    BY <1>3 DEF LastValue, Fields
<1>5. Len(LastValue) \in Nat
    BY <1>4, LenProperties
<1> QED BY <1>1, <1>2, <1>4, <1>5 DEF ValueRead

(* Within a value what is said stays the same.                             *)
LEMMA ValueStays ==
    ASSUME Inv, SaidInv, pc = "entity", pc' = "entity",
           UNCHANGED <<method, read, preview, allow, result>>,
           NEW t \in Seq(Tokens), ReadSoFar(t)'
    PROVE  SaidInv'
<1>1. ValueRead /\ OptionsRead /\ result = "none"
    BY ValueIs
<1>2. OptionsRead'
    BY <1>1, SameSaid DEF OptionsRead
<1>3. ValueRead'
    BY <1>1, SameSaid DEF ValueRead
<1> QED BY <1>1, <1>2, <1>3 DEF SaidInv, AcceptsWhatIsSaid, LeavesWhatIsSaid

(* Blanks at the end of a value are none of its entities.                  *)
LEMMA ParseBlankSaid == ASSUME Inv, SaidInv, ParseBlank PROVE SaidInv'
<1> DEFINE v == LastValue
<1>1. /\ v \in Seq(Tokens) /\ LongestRuns(v) /\ i \in 1 .. Len(v) + 1
      /\ ValueRead
    BY ValueIs DEF ParseBlank
<1>2. /\ Blank(v, i) /\ i' = Past(v, i, Blanks)
      /\ UNCHANGED <<method, read, list>>
    BY DEF ParseBlank, BlanksConsumed
<1>3. PICK t \in Seq(Tokens) : ReadSoFar(t)
    BY <1>1 DEF ValueRead
<1>4. Rest(v, i) = <<>> /\ Rest(v, i') = <<>>
    BY <1>1, <1>2, BlankRead, PastBlanks
<1>5. v' = v /\ EntityTokens' = EntityTokens
    BY <1>2, SameSaid
<1>6. ReadSoFar(t)'
    <2>1. IsEntityList(t) /\ list = EntityList(t) /\ EntityTokens = t
        BY <1>3, <1>4 DEF ReadSoFar, Missing
    <2> HIDE DEF v
    <2>2. Missing(t, EntityTokens', v', i', delimiter')
        BY <1>4, <1>5, <2>1 DEF Missing
    <2> QED BY <1>2, <2>1, <2>2 DEF ReadSoFar, v
<1>7. t \in Seq(Tokens)
    BY <1>3
<1> HIDE DEF v
<1> QED BY <1>6, <1>7, ValueStays DEF ParseBlank

(* An entity is the next one, or its lack a mistake of the whole.          *)
LEMMA ParseEntitySaid == ASSUME Inv, SaidInv, ParseEntity PROVE SaidInv'
<1> DEFINE v  == LastValue
           at == Places(v, i, delimiter)
<1>1. /\ v \in Seq(Tokens) /\ LongestRuns(v) /\ i \in 1 .. Len(v) + 1
      /\ delimiter \in BOOLEAN /\ ValueRead /\ pc = "entity"
    BY ValueIs DEF ParseEntity
<1>2. ~ Blank(v, i)
    BY DEF ParseEntity
<1>3. PICK t \in Seq(Tokens) : ReadSoFar(t)
    BY <1>1 DEF ValueRead
<1>4. /\ t \in Seq(Tokens) /\ IsEntityList(t) /\ list = EntityList(t)
      /\ Missing(t, EntityTokens, v, i, delimiter)
    BY <1>3 DEF ReadSoFar
<1>5. CASE HasEntityAt(v, at, delimiter)
    <2>1. /\ list' = Append(list, [kind |-> v[at.name],
                                   off |-> Number[v[at.offset]]])
          /\ i' = at.offset + 1 /\ delimiter' = TRUE
          /\ UNCHANGED <<method, read, pc, preview, allow, nullBody, result>>
        BY <1>5 DEF ParseEntity
    <2>2. PICK u \in Seq(Tokens) :
              /\ IsEntityList(u)
              /\ Missing(u, EntityTokens, v, at.offset + 1, TRUE)
              /\ EntityList(u) =
                    Append(EntityList(t), [kind |-> v[at.name],
                                           off |-> Number[v[at.offset]]])
        <3> HIDE DEF v
        <3> DEFINE E == EntityTokens
        <3>1. Missing(t, E, v, i, delimiter)
            BY <1>4
        <3> HIDE DEF E
        <3>2. EntityMoves(v, i, delimiter, t, E)
            BY <1>1, <1>2, <1>4, <1>5, <3>1, EntityTaken
        <3> QED BY <3>2 DEF E, EntityMoves
    <2>3. v' = v /\ EntityTokens' = EntityTokens
        BY <2>1, SameSaid
    <2>4. list' = EntityList(u)
        BY <1>4, <2>1, <2>2
    <2>5. Missing(u, EntityTokens', v', i', delimiter')
        <3> HIDE DEF v, at
        <3> QED BY <2>1, <2>2, <2>3
    <2>6. ReadSoFar(u)'
        BY <2>2, <2>4, <2>5 DEF ReadSoFar
    <2>7. u \in Seq(Tokens)
        BY <2>2
    <2> HIDE DEF v, at
    <2> QED BY <1>1, <2>1, <2>6, <2>7, ValueStays
<1>6. CASE ~ HasEntityAt(v, at, delimiter)
    <2>1. Fail /\ UNCHANGED read
        BY <1>6 DEF ParseEntity
    <2>2. ~ IsEntityList(EntityTokens)
        <3> HIDE DEF v
        <3> QED BY <1>1, <1>2, <1>4, <1>6, EntityRefused
    <2>3. ~ EncapsulatedOk'
        BY <2>1, <2>2, SameSaid DEF EncapsulatedOk, Fail
    <2> QED BY <2>1, <2>3, NotOk, Refused
<1> QED BY <1>5, <1>6

(* At the end of a value nothing is missing; there are no entities just if *)
(* the first Encapsulated header is blank.                                 *)
LEMMA ValueParsedSaid == ASSUME Inv, SaidInv, ValueParsed PROVE SaidInv'
<1>1. /\ LastValue \in Seq(Tokens) /\ i \in 1 .. Len(LastValue) + 1
      /\ ValueRead /\ OptionsRead /\ result = "none" /\ i > Len(LastValue)
    BY ValueIs DEF ValueParsed
<1>2. PICK t \in Seq(Tokens) : ReadSoFar(t)
    BY <1>1 DEF ValueRead
<1>3. Rest(LastValue, i) = <<>>
    BY <1>1, RestIs
<1>4. IsEntityList(t) /\ list = EntityList(t) /\ EntityTokens = t
    BY <1>2, <1>3 DEF ReadSoFar, Missing
<1>5. list = <<>> <=> EntityTokens = <<>>
    BY <1>2, <1>4, EmptyList
<1>6. EntityTokens = <<>> <=> IsBlank(Under("encapsulated")[1].value)
    BY <1>1 DEF ValueRead
<1>7. CASE list # <<>>
    <2>1. /\ pc' = "order"
          /\ UNCHANGED <<method, read, list, preview, allow, result>>
        BY <1>7 DEF ValueParsed
    <2>2. ListRead
        BY <1>4, <1>5, <1>6, <1>7 DEF ListRead, EncapsulatedOk
    <2>3. ListRead' /\ OptionsRead'
        BY <1>1, <2>1, <2>2, SameSaid DEF ListRead, OptionsRead
    <2> QED BY <1>1, <2>1, <2>3
            DEF SaidInv, AcceptsWhatIsSaid, LeavesWhatIsSaid
<1>8. CASE list = <<>>
    <2>1. Fail /\ UNCHANGED read
        BY <1>8 DEF ValueParsed
    <2>2. Under("encapsulated") # <<>>
        BY <1>1 DEF ValueRead
    <2>3. ~ EncapsulatedOk
        BY <1>5, <1>6, <1>8, <2>2 DEF EncapsulatedOk
    <2>4. ~ EncapsulatedOk'
        BY <2>1, <2>3, SameSaid DEF Fail
    <2> QED BY <2>1, <2>4, NotOk, Refused
<1> QED BY <1>7, <1>8

(* A pair out of order is one in the list of the headers read so far.      *)
LEMMA CheckOrderSaid == ASSUME Inv, SaidInv, CheckOrder PROVE SaidInv'
<1>1. pc = "order" /\ ListRead /\ OptionsRead /\ result = "none"
    BY DEF CheckOrder, SaidInv, Inv, TypeOK
<1>2. CASE UNCHANGED <<method, read, pc, delimiter, list, preview, allow,
                       nullBody, result>>
    <2>1. ListRead' /\ OptionsRead'
        BY <1>1, <1>2, SameSaid DEF ListRead, OptionsRead
    <2> QED BY <1>1, <1>2, <2>1
            DEF SaidInv, AcceptsWhatIsSaid, LeavesWhatIsSaid
<1>3. CASE list[i + 1].off < list[i].off /\ Fail /\ UNCHANGED read
    <2>1. /\ list \in Seq(Entities) /\ Len(list) \in Nat /\ i \in Nat \ {0}
          /\ i < Len(list)
        BY DEF Inv, TypeOK, CheckOrder
    <2>2. /\ i \in 1 .. Len(list) - 1 /\ i \in 1 .. Len(list)
          /\ i + 1 \in 1 .. Len(list)
        BY <2>1
    <2>3. list[i].off \in Nat /\ list[i + 1].off \in Nat
        BY <2>1, <2>2, OffsetType
    <2>4. ~ OffsetsOrdered(list)
        BY <1>3, <2>2, <2>3 DEF OffsetsOrdered
    <2>5. AsRequest.ee = list
        BY <1>1, SaidIs DEF ListRead
    <2>6. ~ IcapHeadersOk(AsRequest)
        BY <2>4, <2>5 DEF IcapHeadersOk
    <2>7. AsRequest' = AsRequest
        BY <1>3, SameSaid DEF Fail
    <2>8. ~ IcapHeadersOk(AsRequest')
        BY <2>6, <2>7
    <2> QED BY <1>3, <2>8, Refused
<1> QED BY <1>2, <1>3 DEF CheckOrder

(* The order check changes nothing of what is read.                        *)
LEMMA OrderCheckedSaid == ASSUME Inv, SaidInv, OrderChecked PROVE SaidInv'
<1>1. /\ pc' = "header" /\ ListRead /\ OptionsRead /\ result = "none"
      /\ UNCHANGED <<method, read, list, preview, allow, result>>
    BY DEF OrderChecked, SaidInv, Inv, TypeOK
<1>2. ListRead' /\ OptionsRead'
    BY <1>1, SameSaid DEF ListRead, OptionsRead
<1> QED BY <1>1, <1>2 DEF SaidInv, AcceptsWhatIsSaid, LeavesWhatIsSaid

(* The verdict is the one on all headers, and the context theirs.          *)
LEMMA FinishSaid == ASSUME Inv, SaidInv, Finish PROVE SaidInv'
<1>1. /\ ListRead /\ OptionsRead /\ OrderedUpTo(Len(list))
      /\ list \in Seq(Entities) /\ pc = "header"
    BY DEF Finish, SaidInv, Inv, OrderInv, TypeOK
<1>2. AsRequest.hdrsOk /\ AsRequest.ee = list /\ AsRequest.method = method
    BY <1>1, SaidIs DEF ListRead, OptionsRead
<1>3. OffsetsOrdered(list)
    <2> SUFFICES ASSUME NEW n \in 1 .. Len(list) - 1
                 PROVE  list[n].off <= list[n + 1].off
        BY DEF OffsetsOrdered
    <2>1. Len(list) \in Nat
        BY <1>1, LenProperties
    <2>2. n \in 1 .. Len(list) /\ n + 1 \in 1 .. Len(list) /\ n <= n + 1
        BY <2>1
    <2> QED BY <1>1, <2>2 DEF OrderedUpTo
<1>4. IcapHeadersOk(AsRequest) <=> Accepted
    BY <1>2, <1>3 DEF IcapHeadersOk, Accepted
<1>5. UNCHANGED <<method, read>>
    BY DEF Finish, Fail
<1>6. AsRequest' = AsRequest
    BY <1>5, SameSaid
<1>7. CASE ~ Accepted
    <2>1. ~ IcapHeadersOk(AsRequest')
        BY <1>4, <1>6, <1>7
    <2> QED BY <1>7, <2>1, Refused DEF Finish
<1>8. CASE Accepted
    <2>1. /\ nullBody' = (list # <<>> /\ LastEntity(list).kind = "null-body")
          /\ pc' = "done" /\ result' = "ok"
          /\ UNCHANGED <<list, preview, allow>>
        BY <1>8 DEF Finish, Return
    <2>2. IcapHeadersOk(AsRequest')
        BY <1>4, <1>6, <1>8
    <2>3. AsRequest.preview = preview /\ AsRequest.allow = allow
        BY <1>1 DEF OptionsRead
    <2> DEFINE null == list # <<>> /\ LastEntity(list).kind = "null-body"
    <2>4. ParseIcapHeaders(NewCtx, AsRequest)
             = [NewCtx EXCEPT !.ee = list, !.preview = preview,
                              !.nullBody = null,
                              !.allow = IF allow = {} THEN @ ELSE Value(allow)]
        BY <1>2, <2>3 DEF ParseIcapHeaders
    <2>5. LeavesWhatIsSaid'
        <3>1. nullBody' = null
            BY <2>1
        <3> HIDE DEF null
        <3>2. ParseIcapHeaders(NewCtx, AsRequest')
                 = [NewCtx EXCEPT !.ee = list', !.preview = preview',
                       !.nullBody = nullBody',
                       !.allow = IF allow' = {} THEN @ ELSE Value(allow')]
            BY <1>6, <2>1, <2>4, <3>1
        <3> QED BY <3>2 DEF LeavesWhatIsSaid
    <2> QED BY <2>1, <2>2, <2>5 DEF SaidInv, AcceptsWhatIsSaid
<1> QED BY <1>7, <1>8

(* Every step keeps to what is said.                                       *)
LEMMA NextSaid == ASSUME Inv, SaidInv, [Next]_vars PROVE SaidInv'
<1>1. CASE UNCHANGED vars
    <2>1. UNCHANGED <<method, read, pc, i, delimiter, list, preview, allow,
                      nullBody, result>>
        BY <1>1 DEF vars
    <2>2. ListRead' <=> ListRead
        BY <2>1, SameSaid DEF ListRead
    <2>3. OptionsRead' <=> OptionsRead
        BY <2>1, SameSaid DEF OptionsRead
    <2>4. ValueRead' <=> ValueRead
        BY <2>1, SameSaid DEF ValueRead, ReadSoFar
    <2>5. AcceptsWhatIsSaid' <=> AcceptsWhatIsSaid
        BY <2>1, SameSaid DEF AcceptsWhatIsSaid
    <2>6. LeavesWhatIsSaid' <=> LeavesWhatIsSaid
        BY <2>1, SameSaid DEF LeavesWhatIsSaid
    <2> QED BY <2>1, <2>2, <2>3, <2>4, <2>5, <2>6 DEF SaidInv
<1>2. CASE Step
    BY <1>2, ReadHeaderSaid, ParseBlankSaid, ParseEntitySaid, ValueParsedSaid,
       CheckOrderSaid, OrderCheckedSaid, FinishSaid DEF Step, ParseList
<1> QED BY <1>1, <1>2 DEF Next, Returned

-----------------------------------------------------------------------------
(* The whole invariant: that of the order check, and what is said.         *)
LEMMA InitAll == Init => Inv /\ SaidInv
BY InitInv, InitSaid

(* Every step keeps it.                                                    *)
LEMMA NextAll == Inv /\ SaidInv /\ [Next]_vars => (Inv /\ SaidInv)'
BY NextInv, NextSaid

(* parse_icap_headers accepts a head just when its headers, taken together *)
(* under each name, say what RequestContext's IcapHeadersOk asks for: for  *)
(* any headers, values of any length, and any way they are split over      *)
(* headers, spelled and spaced.                                            *)
THEOREM AcceptedIsSaid == Spec => []AcceptsWhatIsSaid
<1>1. Inv /\ SaidInv => AcceptsWhatIsSaid
    BY DEF SaidInv
<1> QED BY InitAll, NextAll, <1>1, PTL DEF Spec

(* And it then leaves in the context what RequestContext's                 *)
(* ParseIcapHeaders puts there.                                            *)
THEOREM LeftIsSaid == Spec => []LeavesWhatIsSaid
<1>1. Inv /\ SaidInv => LeavesWhatIsSaid
    BY DEF SaidInv
<1> QED BY InitAll, NextAll, <1>1, PTL DEF Spec
=============================================================================
