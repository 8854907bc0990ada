----------------------------- MODULE HeadsProofs ------------------------------
(***************************************************************************)
(* Proofs about the heads of a request, for heads of any number of headers *)
(* of any length, at any address: that the positions kept in a list lead   *)
(* to the bytes they were made for, from the moment they are computed      *)
(* until append_headers writes these bytes out again.                      *)
(***************************************************************************)
EXTENDS HeadsProperties, SequenceLemmas

-----------------------------------------------------------------------------
(* What is on the wire, part by part.                                      *)

(* A run of bytes.                                                         *)
LEMMA BytesAre ==
    ASSUME NEW kind \in Kinds, NEW part \in Parts, NEW line \in Nat,
           NEW n \in Nat, msgs \in 1 .. MaxMsgs
    PROVE  /\ Bytes(kind, part, line, n) \in Seq(ByteRecords)
           /\ Len(Bytes(kind, part, line, n)) = n
           /\ \A at \in 1 .. n :
                 Bytes(kind, part, line, n)[at] = Byte(kind, part, line, at)
<1>1. \A at \in 1 .. n : Byte(kind, part, line, at) \in ByteRecords
    BY MaxAssumption DEF Byte, ByteRecords
<1> QED BY <1>1 DEF Bytes

(* A single byte.                                                          *)
LEMMA ByteIs ==
    ASSUME NEW kind \in Kinds, NEW part \in Parts, NEW line \in Nat,
           msgs \in 1 .. MaxMsgs
    PROVE  /\ Bytes(kind, part, line, 1) \in Seq(ByteRecords)
           /\ Len(Bytes(kind, part, line, 1)) = 1
           /\ Bytes(kind, part, line, 1)[1] = Byte(kind, part, line, 1)
<1>1. 1 \in Nat /\ 1 \in 1 .. 1
    OBVIOUS
<1> QED BY <1>1, BytesAre

(* The parts of a head.                                                    *)
LEMMA HeadIs ==
    ASSUME NEW h \in HeadRecords
    PROVE  /\ h.kind \in Kinds /\ Len(h.lines) \in Nat
           /\ \A n \in 1 .. Len(h.lines) : /\ h.lines[n].name \in Nat \ {0}
                                           /\ h.lines[n].value \in Nat
<1>1. h.kind \in Kinds /\ h.lines \in Seq(Lengths)
    BY DEF HeadRecords
<1>2. \A n \in 1 .. Len(h.lines) : h.lines[n] \in Lengths
    BY <1>1
<1> QED BY <1>1, <1>2, SMTT(40) DEF Lengths

(* The names of the parts are.                                             *)
LEMMA PartsAre == /\ "first" \in Parts /\ "name" \in Parts /\ "colon" \in Parts
                  /\ "value" \in Parts /\ "crlf" \in Parts
BY SMTT(40) DEF Parts

(* A line: a name, a colon, a value, an end.                               *)
LEMMA LineIs ==
    ASSUME NEW h \in HeadRecords, NEW n \in 1 .. Len(h.lines),
           msgs \in 1 .. MaxMsgs
    PROVE  LET a == h.lines[n].name
               b == h.lines[n].value
           IN  /\ Line(h, n) \in Seq(ByteRecords)
               /\ Len(Line(h, n)) = a + b + 2
               /\ \A p \in 1 .. a :
                     Line(h, n)[p] = Byte(h.kind, "name", n, p)
               /\ Line(h, n)[a + 1] = Byte(h.kind, "colon", n, 1)
               /\ \A p \in 1 .. b :
                     Line(h, n)[a + 1 + p] = Byte(h.kind, "value", n, p)
               /\ Line(h, n)[a + b + 2] = Byte(h.kind, "crlf", n, 1)
<1> DEFINE a == h.lines[n].name
           b == h.lines[n].value
           A == Bytes(h.kind, "name", n, a)
           C == Bytes(h.kind, "colon", n, 1)
           B == Bytes(h.kind, "value", n, b)
           E == Bytes(h.kind, "crlf", n, 1)
<1>1. /\ h.kind \in Kinds /\ a \in Nat \ {0} /\ b \in Nat /\ n \in Nat
    BY HeadIs
<1>2. Line(h, n) = ((A \o C) \o B) \o E
    BY DEF Line
<1> HIDE DEF a, b
<1>3. /\ A \in Seq(ByteRecords) /\ Len(A) = a
      /\ \A p \in 1 .. a : A[p] = Byte(h.kind, "name", n, p)
    <2>1. a \in Nat /\ "name" \in Parts
        BY <1>1, PartsAre
    <2> QED BY <1>1, <2>1, BytesAre
<1>4. /\ C \in Seq(ByteRecords) /\ Len(C) = 1
      /\ C[1] = Byte(h.kind, "colon", n, 1)
    BY <1>1, ByteIs, PartsAre
<1>5. /\ B \in Seq(ByteRecords) /\ Len(B) = b
      /\ \A p \in 1 .. b : B[p] = Byte(h.kind, "value", n, p)
    <2>1. b \in Nat /\ "value" \in Parts
        BY <1>1, PartsAre
    <2> QED BY <1>1, <2>1, BytesAre
<1>6. /\ E \in Seq(ByteRecords) /\ Len(E) = 1
      /\ E[1] = Byte(h.kind, "crlf", n, 1)
    BY <1>1, ByteIs, PartsAre
<1> HIDE DEF A, B, C, E
<1> DEFINE AC == A \o C
<1>7. /\ AC \in Seq(ByteRecords) /\ Len(AC) = a + 1
      /\ \A p \in 1 .. a : AC[p] = A[p]
      /\ AC[a + 1] = C[1]
    BY <1>3, <1>4, ConcatOne
<1> HIDE DEF AC
<1> DEFINE ACB == AC \o B
<1>8. /\ ACB \in Seq(ByteRecords) /\ Len(ACB) = (a + 1) + b
      /\ \A p \in 1 .. a + 1 : ACB[p] = AC[p]
      /\ \A p \in 1 .. b : ACB[(a + 1) + p] = B[p]
    BY <1>5, <1>7, ConcatParts, SMTT(40)
<1> HIDE DEF ACB
<1>9. /\ ACB \o E \in Seq(ByteRecords) /\ Len(ACB \o E) = ((a + 1) + b) + 1
      /\ \A p \in 1 .. (a + 1) + b : (ACB \o E)[p] = ACB[p]
      /\ (ACB \o E)[((a + 1) + b) + 1] = E[1]
    BY <1>6, <1>8, ConcatOne
<1>10. Line(h, n) = ACB \o E
    BY <1>2 DEF AC, ACB
<1>11. ASSUME NEW p \in 1 .. a
       PROVE  Line(h, n)[p] = Byte(h.kind, "name", n, p)
    <2>1. p \in 1 .. a + 1 /\ p \in 1 .. (a + 1) + b
        BY <1>1
    <2> QED BY <1>3, <1>7, <1>8, <1>9, <1>10, <2>1, SMTT(40)
<1>12. Line(h, n)[a + 1] = Byte(h.kind, "colon", n, 1)
    <2>1. a + 1 \in 1 .. a + 1 /\ a + 1 \in 1 .. (a + 1) + b
        BY <1>1
    <2> QED BY <1>4, <1>7, <1>8, <1>9, <1>10, <2>1
<1>13. ASSUME NEW p \in 1 .. b
       PROVE  Line(h, n)[a + 1 + p] = Byte(h.kind, "value", n, p)
    <2>1. (a + 1) + p \in 1 .. (a + 1) + b
        BY <1>1
    <2> QED BY <1>5, <1>8, <1>9, <1>10, <2>1
<1>14. ((a + 1) + b) + 1 = a + b + 2
    BY <1>1
<1> QED BY <1>6, <1>9, <1>10, <1>11, <1>12, <1>13, <1>14 DEF a, b

(* The first line of a head.                                               *)
LEMMA FirstIs ==
    ASSUME NEW h \in HeadRecords, msgs \in 1 .. MaxMsgs
    PROVE  /\ Before(h, 1) \in Seq(ByteRecords) /\ Len(Before(h, 1)) = 1
           /\ Before(h, 1)[1] = FirstOf(h)
<1>1. /\ Bytes(h.kind, "first", 0, 1) \in Seq(ByteRecords)
      /\ Len(Bytes(h.kind, "first", 0, 1)) = 1
      /\ Bytes(h.kind, "first", 0, 1)[1] = FirstOf(h)
    BY HeadIs, PartsAre, ByteIs DEF FirstOf
<1>2. [k \in 1 .. 1 - 1 |-> Line(h, k)] = <<>>
    OBVIOUS
<1>3. Before(h, 1) = Bytes(h.kind, "first", 0, 1) \o <<>>
    BY <1>2, FlattenEmpty DEF Before
<1> QED BY <1>1, <1>3

(* One line more.                                                          *)
LEMMA BeforeNext ==
    ASSUME NEW h \in HeadRecords, NEW n \in 1 .. Len(h.lines),
           msgs \in 1 .. MaxMsgs
    PROVE  Before(h, n + 1) = Before(h, n) \o Line(h, n)
<1> DEFINE T  == ByteRecords
           ls == [k \in 1 .. n - 1 |-> Line(h, k)]
           fs == Bytes(h.kind, "first", 0, 1)
<1>1. n \in Nat \ {0} /\ \A k \in 1 .. n : k \in 1 .. Len(h.lines)
    BY HeadIs
<1>2. \A k \in 1 .. n : Line(h, k) \in Seq(T)
    BY <1>1, LineIs
<1> HIDE DEF T
<1>3. ls \in Seq(Seq(T)) /\ Line(h, n) \in Seq(T)
    BY <1>1, <1>2
<1>4. [k \in 1 .. (n + 1) - 1 |-> Line(h, k)] = Append(ls, Line(h, n))
    <2> DEFINE L(k) == Line(h, k)
    <2> HIDE DEF L
    <2>1. [k \in 1 .. (n + 1) - 1 |-> L(k)] = Append([k \in 1 .. n - 1 |-> L(k)], L(n))
        BY <1>1
    <2> QED BY <2>1 DEF L
<1>5. FlattenSeq(Append(ls, Line(h, n))) = FlattenSeq(ls) \o Line(h, n)
    <2> HIDE DEF ls
    <2> QED BY <1>3, FlattenAppend
<1>6. FlattenSeq(ls) \in Seq(T)
    <2> HIDE DEF ls
    <2> QED BY <1>3, FlattenType
<1>7. fs \in Seq(T)
    BY HeadIs, PartsAre, ByteIs DEF T
<1>8. Before(h, n + 1) = fs \o (FlattenSeq(ls) \o Line(h, n))
    BY <1>4, <1>5 DEF Before
<1>9. Before(h, n) = fs \o FlattenSeq(ls)
    BY DEF Before
<1>10. fs \o (FlattenSeq(ls) \o Line(h, n)) = (fs \o FlattenSeq(ls)) \o Line(h, n)
    <2> DEFINE f == FlattenSeq(ls)
               l == Line(h, n)
    <2> HIDE DEF fs, f, l
    <2>1. f \in Seq(T) /\ l \in Seq(T)
        BY <1>3, <1>6 DEF f, l
    <2>2. fs \o (f \o l) = (fs \o f) \o l
        BY ONLY <1>7, <2>1, ConcatAssociative, SMTT(40)
    <2> QED BY <2>2 DEF f, l
<1> QED BY <1>8, <1>9, <1>10

(* All that comes before a line is bytes.                                  *)
LEMMA BeforeType ==
    ASSUME NEW h \in HeadRecords, NEW n \in 1 .. Len(h.lines) + 1,
           msgs \in 1 .. MaxMsgs
    PROVE  Before(h, n) \in Seq(ByteRecords) /\ Len(Before(h, n)) \in Nat
<1> DEFINE T  == ByteRecords
           ls == [k \in 1 .. n - 1 |-> Line(h, k)]
           fs == Bytes(h.kind, "first", 0, 1)
<1>1. n - 1 \in Nat /\ \A k \in 1 .. n - 1 : k \in 1 .. Len(h.lines)
    BY HeadIs
<1>2. \A k \in 1 .. n - 1 : Line(h, k) \in Seq(T)
    BY <1>1, LineIs
<1>3. fs \in Seq(T)
    BY HeadIs, PartsAre, ByteIs
<1> HIDE DEF T
<1>4. ls \in Seq(Seq(T))
    BY <1>1, <1>2
<1> HIDE DEF ls
<1>5. FlattenSeq(ls) \in Seq(T)
    BY <1>4, FlattenType
<1>6. Before(h, n) = fs \o FlattenSeq(ls)
    BY DEF Before, fs, ls
<1> HIDE DEF fs
<1>7. Before(h, n) \in Seq(T)
    BY <1>3, <1>5, <1>6, ConcatProperties
<1> QED BY <1>7, LenProperties DEF T

(* What comes before one line is the beginning of what comes before a      *)
(* later one.                                                              *)
Begins(s, t) == Len(s) <= Len(t) /\ \A p \in 1 .. Len(s) : t[p] = s[p]

(* What a sequence begins with, a longer one begins with as well.          *)
LEMMA BeginsConcat ==
    ASSUME NEW T, NEW r \in Seq(T), NEW s \in Seq(T), NEW t \in Seq(T),
           Begins(r, s)
    PROVE  Begins(r, s \o t)
<1>1. /\ Len(r) \in Nat /\ Len(s) \in Nat /\ Len(t) \in Nat
      /\ Len(s \o t) = Len(s) + Len(t)
      /\ \A p \in 1 .. Len(s) + Len(t) :
            (s \o t)[p] = IF p <= Len(s) THEN s[p] ELSE t[p - Len(s)]
    BY LenProperties, ConcatProperties
<1>2. Len(r) <= Len(s) + Len(t)
    BY <1>1 DEF Begins
<1>3. ASSUME NEW p \in 1 .. Len(r) PROVE (s \o t)[p] = r[p]
    <2>1. p \in 1 .. Len(s) + Len(t) /\ p <= Len(s)
        BY <1>1 DEF Begins
    <2> QED BY <1>1, <2>1 DEF Begins
<1> QED BY <1>1, <1>2, <1>3 DEF Begins

(* Before a later header lies all that lies before an earlier one.         *)
LEMMA BeforeGrows ==
    ASSUME NEW h \in HeadRecords, NEW n \in 1 .. Len(h.lines) + 1,
           NEW m \in n .. Len(h.lines) + 1, msgs \in 1 .. MaxMsgs
    PROVE  Begins(Before(h, n), Before(h, m))
<1> DEFINE L == Len(h.lines)
           S == {k \in Nat : n + k <= L + 1 =>
                                Begins(Before(h, n), Before(h, n + k))}
<1>1. L \in Nat /\ n \in Nat \ {0} /\ m \in Nat
    BY HeadIs
<1>2. 0 \in S
    <2>1. n + 0 = n
        BY <1>1
    <2>2. Begins(Before(h, n), Before(h, n))
        BY BeforeType DEF Begins
    <2> QED BY <2>1, <2>2
<1>3. ASSUME NEW k \in Nat, k \in S PROVE k + 1 \in S
    <2> SUFFICES ASSUME n + (k + 1) <= L + 1
                 PROVE  Begins(Before(h, n), Before(h, n + (k + 1)))
        OBVIOUS
    <2>1. /\ n + k \in 1 .. L /\ n + k \in 1 .. L + 1
          /\ n + (k + 1) = (n + k) + 1
        BY <1>1
    <2>2. Begins(Before(h, n), Before(h, n + k))
        BY <1>1, <1>3, <2>1
    <2> HIDE DEF S
    <2>3. Before(h, (n + k) + 1) = Before(h, n + k) \o Line(h, n + k)
        BY <2>1, BeforeNext
    <2>4. /\ Before(h, n) \in Seq(ByteRecords)
          /\ Before(h, n + k) \in Seq(ByteRecords)
          /\ Line(h, n + k) \in Seq(ByteRecords)
        BY <2>1, BeforeType, LineIs
    <2>5. Begins(Before(h, n), Before(h, n + k) \o Line(h, n + k))
        BY <2>2, <2>4, BeginsConcat
    <2> QED BY <2>1, <2>3, <2>5
<1>4. \A k \in Nat : k \in S
    <2> HIDE DEF S
    <2> QED BY <1>2, <1>3, Induction
<1>5. m - n \in Nat /\ n + (m - n) = m /\ m <= L + 1
    BY <1>1
<1>6. m - n \in S
    BY <1>4, <1>5
<1> QED BY <1>5, <1>6

(* A head: its first byte, its lines, where they are, and one byte more.   *)
LEMMA WireIs ==
    ASSUME NEW h \in HeadRecords, msgs \in 1 .. MaxMsgs
    PROVE  /\ Wire(h) \in Seq(ByteRecords) /\ Len(Wire(h)) \in Nat
           /\ Len(Wire(h)) >= 2 /\ Wire(h)[1] = FirstOf(h)
           /\ \A n \in 1 .. Len(h.lines) + 1 :
                 /\ Begins(Before(h, n), Wire(h))
                 /\ Len(Before(h, n)) >= 1 /\ Len(Before(h, n)) < Len(Wire(h))
<1> DEFINE L == Len(h.lines)
           B == Before(h, L + 1)
           E == Bytes(h.kind, "crlf", 0, 1)
<1>1. L \in Nat /\ L + 1 \in 1 .. L + 1
    BY HeadIs
<1>2. /\ E \in Seq(ByteRecords) /\ Len(E) = 1
    BY HeadIs, PartsAre, ByteIs
<1>3. B \in Seq(ByteRecords) /\ Len(B) \in Nat
    BY <1>1, BeforeType
<1>4. Wire(h) = B \o E
    BY DEF Wire
<1> HIDE DEF E
<1>5. /\ Wire(h) \in Seq(ByteRecords) /\ Len(Wire(h)) = Len(B) + 1
    BY <1>2, <1>3, <1>4, ConcatOne, SMTT(40)
<1>6. ASSUME NEW n \in 1 .. L + 1
      PROVE  /\ Begins(Before(h, n), Wire(h))
             /\ Len(Before(h, n)) >= 1 /\ Len(Before(h, n)) < Len(Wire(h))
             /\ Before(h, n)[1] = FirstOf(h)
    <2>1. L + 1 \in n .. L + 1 /\ 1 \in 1 .. L + 1 /\ n \in 1 .. L + 1
        BY <1>1
    <2>2. Begins(Before(h, n), B)
        BY <2>1, BeforeGrows
    <2>3. Before(h, n) \in Seq(ByteRecords) /\ Len(Before(h, n)) \in Nat
        BY BeforeType
    <2>4. Begins(Before(h, n), Wire(h))
        <3> HIDE DEF B
        <3> QED BY <1>2, <1>3, <1>4, <2>2, <2>3, BeginsConcat
    <2>5. Begins(Before(h, 1), Before(h, n))
        <3>1. n \in 1 .. Len(h.lines) + 1
            BY <2>1
        <3> QED BY <2>1, <3>1, BeforeGrows
    <2>6. Len(Before(h, 1)) = 1 /\ Before(h, 1)[1] = FirstOf(h)
        BY FirstIs
    <2>7. Len(Before(h, n)) >= 1 /\ Before(h, n)[1] = FirstOf(h)
        <3>1. 1 \in 1 .. 1
            OBVIOUS
        <3> QED BY <2>3, <2>5, <2>6, <3>1 DEF Begins
    <2>8. Len(Before(h, n)) < Len(Wire(h))
        BY <1>3, <1>5, <2>2, <2>3 DEF Begins
    <2> QED BY <2>4, <2>7, <2>8
<1>7. Len(Wire(h)) >= 2 /\ Wire(h)[1] = FirstOf(h)
    <2>1. /\ Begins(B, Wire(h)) /\ Len(B) >= 1 /\ B[1] = FirstOf(h)
        BY <1>1, <1>6
    <2>2. 1 \in 1 .. Len(B)
        BY <1>3, <2>1
    <2> HIDE DEF B
    <2> QED BY <1>3, <1>5, <2>1, <2>2 DEF Begins
<1> QED BY <1>3, <1>5, <1>6, <1>7

(* Its lines.                                                              *)
LEMMA WireLine ==
    ASSUME NEW h \in HeadRecords, NEW n \in 1 .. Len(h.lines),
           msgs \in 1 .. MaxMsgs
    PROVE  LET b == Len(Before(h, n))
           IN  /\ b \in Nat
               /\ b + Len(Line(h, n)) < Len(Wire(h))
               /\ \A p \in 1 .. Len(Line(h, n)) : Wire(h)[b + p] = Line(h, n)[p]
<1> DEFINE b == Len(Before(h, n))
           l == Len(Line(h, n))
<1>1. n + 1 \in 1 .. Len(h.lines) + 1 /\ n \in 1 .. Len(h.lines) + 1
    BY HeadIs
<1>2. /\ Before(h, n) \in Seq(ByteRecords) /\ b \in Nat
      /\ Line(h, n) \in Seq(ByteRecords) /\ l \in Nat
    BY <1>1, BeforeType, LineIs, LenProperties
<1>3. Before(h, n + 1) = Before(h, n) \o Line(h, n)
    BY BeforeNext
<1>4. Begins(Before(h, n + 1), Wire(h)) /\ Len(Before(h, n + 1)) < Len(Wire(h))
    BY <1>1, WireIs
<1>5. /\ Len(Before(h, n + 1)) = b + l
      /\ \A p \in 1 .. b + l :
            Before(h, n + 1)[p] = IF p <= b THEN Before(h, n)[p]
                                            ELSE Line(h, n)[p - b]
    BY <1>2, <1>3, ConcatProperties
<1> HIDE DEF b, l
<1>6. ASSUME NEW p \in 1 .. l PROVE Wire(h)[b + p] = Line(h, n)[p]
    <2>1. b + p \in 1 .. b + l /\ ~ (b + p <= b) /\ (b + p) - b = p
        BY <1>2
    <2> QED BY <1>4, <1>5, <2>1 DEF Begins
<1> QED BY <1>2, <1>4, <1>5, <1>6 DEF b, l

-----------------------------------------------------------------------------
(* A request.                                                              *)

(* Its heads, of which no two are of a kind.                               *)
LEMMA MessageIs ==
    ASSUME message \in Messages
    PROVE  /\ message \in Seq(HeadRecords) /\ DOMAIN message = 1 .. Len(message)
           /\ Len(message) \in 1 .. 3 /\ message[1].kind = "icap"
           /\ Len(message) = 2 => message[2].kind \in {"req", "res"}
           /\ Len(message) = 3 => /\ message[2].kind = "req"
                                  /\ message[3].kind = "res"
<1> DEFINE K == [n \in DOMAIN message |-> message[n].kind]
<1>1. message \in Seq(HeadRecords) /\ K \in Announced
    BY MessagesAssumption
<1>2. /\ DOMAIN message = 1 .. Len(message) /\ Len(message) \in Nat
    BY <1>1, LenProperties
<1>3. DOMAIN K = 1 .. Len(message) /\ \A n \in 1 .. Len(message) : K[n] = message[n].kind
    BY <1>2
<1> HIDE DEF K
<1>4. K \in {<<"icap">>, <<"icap", "req">>, <<"icap", "res">>,
             <<"icap", "req", "res">>}
    BY <1>1 DEF Announced
<1> DEFINE N == Len(message)
<1> HIDE DEF N
<1>5. CASE K = <<"icap">>
    <2>1. DOMAIN K = 1 .. 1 /\ K[1] = "icap"
        BY <1>5
    <2>2. N = 1
        <3>1. N \in Nat /\ 1 .. N = 1 .. 1
            BY <1>2, <1>3, <2>1 DEF N
        <3>2. \A k \in Int : k \in 1 .. N <=> k \in 1 .. 1
            BY <3>1
        <3> QED BY <3>1, <3>2
    <2>3. message[1].kind = "icap"
        BY <1>3, <2>1, <2>2 DEF N
    <2> QED BY <1>1, <1>2, <2>2, <2>3 DEF N
<1>6. CASE K \in {<<"icap", "req">>, <<"icap", "res">>}
    <2>1. DOMAIN K = 1 .. 2 /\ K[1] = "icap" /\ K[2] \in {"req", "res"}
        BY <1>6
    <2>2. N = 2
        <3>1. N \in Nat /\ 1 .. N = 1 .. 2
            BY <1>2, <1>3, <2>1 DEF N
        <3>2. \A k \in Int : k \in 1 .. N <=> k \in 1 .. 2
            BY <3>1
        <3> QED BY <3>1, <3>2
    <2>3. message[1].kind = "icap" /\ message[2].kind \in {"req", "res"}
        BY <1>3, <2>1, <2>2 DEF N
    <2> QED BY <1>1, <1>2, <2>2, <2>3 DEF N
<1>7. CASE K = <<"icap", "req", "res">>
    <2>1. /\ DOMAIN K = 1 .. 3
          /\ K[1] = "icap" /\ K[2] = "req" /\ K[3] = "res"
        BY <1>7
    <2>2. N = 3
        <3>1. N \in Nat /\ 1 .. N = 1 .. 3
            BY <1>2, <1>3, <2>1 DEF N
        <3>2. \A k \in Int : k \in 1 .. N <=> k \in 1 .. 3
            BY <3>1
        <3> QED BY <3>1, <3>2
    <2>3. /\ message[1].kind = "icap" /\ message[2].kind = "req"
          /\ message[3].kind = "res"
        BY <1>3, <2>1, <2>2 DEF N
    <2> QED BY <1>1, <1>2, <2>2, <2>3 DEF N
<1> QED BY <1>4, <1>5, <1>6, <1>7

(* So a kind says which head it is.                                        *)
LEMMA KindTellsHead ==
    ASSUME message \in Messages, NEW n \in 1 .. Len(message)
    PROVE  /\ HeadOf(message[n].kind) = message[n]
           /\ message[n] \in HeadRecords
           /\ IsSent(message[n].kind)
<1>1. message[n] \in HeadRecords
    BY MessageIs, ElementOfSeq
<1>2. message[n] \in Range(message)
    BY MessageIs DEF Range
<1>3. ASSUME NEW h \in Range(message), h.kind = message[n].kind
      PROVE  h = message[n]
    <2>1. PICK k \in 1 .. Len(message) : h = message[k]
        BY MessageIs DEF Range
    <2>2. message[k].kind = message[n].kind => k = n
        BY MessageIs
    <2> QED BY <1>3, <2>1, <2>2
<1>4. HeadOf(message[n].kind) = message[n]
    BY <1>2, <1>3 DEF HeadOf
<1> QED BY <1>1, <1>4, MessageIs DEF IsSent

(* Where its heads begin.                                                  *)
Off(n) ==
    CASE n = 1 -> 0
      [] n = 2 -> Len(Wire(message[1]))
      [] n = 3 -> Len(Wire(message[1])) + Len(Wire(message[2]))

(* Head h is in the bytes t, behind the first off of them.                 *)
Lies(h, t, off) ==
    /\ off + Len(Wire(h)) <= Len(t)
    /\ \A p \in 1 .. Len(Wire(h)) : t[off + p] = Wire(h)[p]

(* The request is its heads, one behind the other, and nothing else.       *)
LEMMA InputIs ==
    ASSUME message \in Messages, msgs \in 1 .. MaxMsgs
    PROVE  /\ Input \in Seq(ByteRecords) /\ Len(Input) \in Nat
           /\ \A n \in 1 .. Len(message) : /\ Off(n) \in Nat
                                           /\ Lies(message[n], Input, Off(n))
<1> DEFINE T == ByteRecords
           W(n) == Wire(message[n])
<1>1. /\ DOMAIN message = 1 .. Len(message) /\ Len(message) \in 1 .. 3
    BY MessageIs
<1>2. \A n \in 1 .. Len(message) : W(n) \in Seq(T) /\ Len(W(n)) \in Nat
    BY KindTellsHead, WireIs
<1>3. Input = FlattenSeq([n \in 1 .. Len(message) |-> W(n)])
    BY <1>1 DEF Input
<1>4. /\ Off(1) = 0 /\ Off(2) = Len(W(1)) /\ Off(3) = Len(W(1)) + Len(W(2))
    BY DEF Off
<1> HIDE DEF T, W
<1> DEFINE N == Len(message)
           a == Len(W(1))
           b == Len(W(2))
           c == Len(W(3))
<1>4a. /\ N = 1 => Input = W(1)
       /\ N = 2 => Input = W(1) \o W(2)
       /\ N = 3 => Input = (W(1) \o W(2)) \o W(3)
    <2> DEFINE U  == Seq(T)
               ss == [n \in 1 .. N |-> W(n)]
    <2>1. \A n \in 1 .. N : W(n) \in U
        BY <1>2
    <2> HIDE DEF U
    <2>2. ss \in Seq(U) /\ Len(ss) = N /\ \A n \in 1 .. N : ss[n] = W(n)
        BY <1>1, <2>1
    <2> HIDE DEF ss
    <2>3. /\ N = 1 => FlattenSeq(ss) = ss[1]
          /\ N = 2 => FlattenSeq(ss) = ss[1] \o ss[2]
          /\ N = 3 => FlattenSeq(ss) = (ss[1] \o ss[2]) \o ss[3]
        BY <2>2, FlattenFew DEF U
    <2>4. Input = FlattenSeq(ss)
        BY <1>3 DEF ss
    <2> HIDE DEF N
    <2>5. N = 1 => 1 \in 1 .. N
        OBVIOUS
    <2>6. N = 2 => 1 \in 1 .. N /\ 2 \in 1 .. N
        OBVIOUS
    <2>7. N = 3 => 1 \in 1 .. N /\ 2 \in 1 .. N /\ 3 \in 1 .. N
        OBVIOUS
    <2> QED BY <2>2, <2>3, <2>4, <2>5, <2>6, <2>7
<1>5. CASE N = 1
    <2>1. 1 \in 1 .. N
        BY <1>5
    <2>2. W(1) \in Seq(T) /\ a \in Nat
        BY <1>2, <2>1
    <2>4. Input = W(1)
        BY <1>4a, <1>5
    <2>5. Lies(message[1], Input, Off(1))
        BY <1>4, <2>2, <2>4 DEF Lies, W
    <2> QED BY <1>4, <1>5, <2>2, <2>4, <2>5 DEF T
<1>6. CASE N = 2
    <2>1. 1 \in 1 .. N /\ 2 \in 1 .. N
        BY <1>6
    <2>2. /\ W(1) \in Seq(T) /\ W(2) \in Seq(T) /\ a \in Nat /\ b \in Nat
        BY <1>2, <2>1
    <2>4. Input = W(1) \o W(2)
        BY <1>4a, <1>6
    <2> HIDE DEF N, a, b
    <2>5. /\ Input \in Seq(T) /\ Len(Input) = a + b
          /\ \A p \in 1 .. a : Input[p] = W(1)[p]
          /\ \A p \in 1 .. b : Input[a + p] = W(2)[p]
        <3>1. Len(W(1)) = a /\ Len(W(2)) = b
            BY DEF a, b
        <3>2. Input \in Seq(T) /\ Len(Input) = a + b
            BY <2>2, <2>4, <3>1, ConcatProperties
        <3>3. \A p \in 1 .. a : Input[p] = W(1)[p]
            BY <2>2, <2>4, <3>1, ConcatParts
        <3>4. \A p \in 1 .. b : Input[a + p] = W(2)[p]
            <4>1. ASSUME NEW p \in 1 .. b PROVE Input[a + p] = W(2)[p]
                <5>1. /\ a + p \in 1 .. a + b /\ ~ (a + p <= a)
                      /\ (a + p) - a = p
                    BY <2>2
                <5> QED BY <2>2, <2>4, <3>1, <5>1, ConcatProperties
            <4> QED BY <4>1
        <3> QED BY <3>2, <3>3, <3>4
    <2>6. Lies(message[1], Input, Off(1))
        <3>1. \A p \in 1 .. a : Input[0 + p] = W(1)[p]
            BY <2>2, <2>5
        <3> QED BY <1>4, <2>2, <2>5, <3>1 DEF Lies, W, a
    <2>7. Lies(message[2], Input, Off(2))
        <3>1. a + b <= Len(Input)
            BY <2>2, <2>5
        <3> QED BY <1>4, <2>5, <3>1 DEF Lies, W, a, b
    <2>8. /\ Off(1) \in Nat /\ Off(2) \in Nat
        BY <1>4, <2>2 DEF a
    <2>9. Input \in Seq(ByteRecords) /\ Len(Input) \in Nat
        BY <2>2, <2>5 DEF T
    <2>10. \A n \in 1 .. N : n = 1 \/ n = 2
        BY <1>6
    <2> QED BY <2>6, <2>7, <2>8, <2>9, <2>10 DEF N
<1>7. CASE N = 3
    <2>1. 1 \in 1 .. N /\ 2 \in 1 .. N /\ 3 \in 1 .. N
        BY <1>7
    <2>2. /\ W(1) \in Seq(T) /\ W(2) \in Seq(T) /\ W(3) \in Seq(T)
          /\ a \in Nat /\ b \in Nat /\ c \in Nat
        BY <1>2, <2>1
    <2> DEFINE V == W(1) \o W(2)
    <2>4. Input = V \o W(3)
        BY <1>4a, <1>7
    <2> HIDE DEF N, a, b, c
    <2>5. Len(W(1)) = a /\ Len(W(2)) = b /\ Len(W(3)) = c
        BY DEF a, b, c
    <2>6. /\ V \in Seq(T) /\ Len(V) = a + b
          /\ \A p \in 1 .. a : V[p] = W(1)[p]
          /\ \A p \in 1 .. b : V[a + p] = W(2)[p]
        BY ONLY <2>2, <2>5, ConcatParts, SMTT(40)
    <2> HIDE DEF V
    <2> DEFINE d == a + b
    <2>7. d \in Nat /\ Len(V) = d
        BY <2>2, <2>6
    <2> HIDE DEF d
    <2>8. /\ Input \in Seq(T) /\ Len(Input) = d + c
          /\ \A p \in 1 .. d : Input[p] = V[p]
          /\ \A p \in 1 .. c : Input[d + p] = W(3)[p]
        <3>1. Input \in Seq(T) /\ Len(Input) = d + c
            BY <2>2, <2>4, <2>5, <2>6, <2>7, ConcatProperties
        <3>2. \A p \in 1 .. d : Input[p] = V[p]
            <4>1. ASSUME NEW p \in 1 .. d PROVE Input[p] = V[p]
                <5>1. p \in 1 .. d + c /\ p <= d
                    BY <2>2, <2>7
                <5> QED BY <2>2, <2>4, <2>5, <2>6, <2>7, <5>1,
                           ConcatProperties
            <4> QED BY <4>1
        <3>3. \A p \in 1 .. c : Input[d + p] = W(3)[p]
            <4>1. ASSUME NEW p \in 1 .. c PROVE Input[d + p] = W(3)[p]
                <5>1. /\ d + p \in 1 .. d + c /\ ~ (d + p <= d)
                      /\ (d + p) - d = p
                    BY <2>2, <2>7
                <5> QED BY <2>2, <2>4, <2>5, <2>6, <2>7, <5>1, SMTT(40),
                           ConcatProperties
            <4> QED BY <4>1
        <3> QED BY <3>1, <3>2, <3>3
    <2>9. Lies(message[1], Input, Off(1))
        <3>1. \A p \in 1 .. a : p \in 1 .. d /\ 0 + p = p
            BY <2>2 DEF d
        <3>2. \A p \in 1 .. a : Input[0 + p] = W(1)[p]
            BY <2>6, <2>8, <3>1
        <3>3. 0 + a <= Len(Input)
            BY <2>2, <2>8 DEF d
        <3> QED BY <1>4, <3>2, <3>3 DEF Lies, W, a
    <2>10. Lies(message[2], Input, Off(2))
        <3>1. \A p \in 1 .. b : a + p \in 1 .. d
            BY <2>2 DEF d
        <3>2. \A p \in 1 .. b : Input[a + p] = W(2)[p]
            BY <2>6, <2>8, <3>1
        <3>3. a + b <= Len(Input)
            BY <2>2, <2>8 DEF d
        <3> QED BY <1>4, <3>2, <3>3 DEF Lies, W, a, b
    <2>11. Lies(message[3], Input, Off(3))
        <3>1. d + c <= Len(Input)
            BY <2>2, <2>7, <2>8
        <3> QED BY <1>4, <2>8, <3>1 DEF Lies, W, a, b, c, d
    <2>12. /\ Off(1) \in Nat /\ Off(2) \in Nat /\ Off(3) \in Nat
        BY <1>4, <2>2 DEF a, b
    <2>13. Input \in Seq(ByteRecords) /\ Len(Input) \in Nat
        BY <2>2, <2>7, <2>8 DEF T
    <2>14. \A n \in 1 .. N : n = 1 \/ n = 2 \/ n = 3
        BY <1>7
    <2> QED BY <2>9, <2>10, <2>11, <2>12, <2>13, <2>14 DEF N
<1> QED BY <1>1, <1>5, <1>6, <1>7

(* The list that the decoders make of a head that begins at off.           *)
Located(h, off) ==
    [n \in 1 .. Len(h.lines) |->
        LET name  == off + Len(Before(h, n))
            value == name + h.lines[n].name + 1
        IN  [name  |-> <<name, name + h.lines[n].name>>,
             value |-> <<value, value + h.lines[n].value>>]]

(* A range of n positions.                                                 *)
LEMMA RangeIs ==
    ASSUME NEW i \in Nat, NEW n \in Nat
    PROVE  /\ <<i, i + n>> \in Ranges
           /\ Slice(<<i, i + n>>) = SubSeq(rbuf, i + 1, i + n)
<1> DEFINE r == <<i, i + n>>
<1>1. r \in Nat \X Nat /\ r[1] = i /\ r[2] = i + n
    OBVIOUS
<1>2. i <= i + n
    OBVIOUS
<1> HIDE DEF r
<1>3. r \in Ranges
    BY <1>1, <1>2 DEF Ranges
<1>4. Slice(r) = SubSeq(rbuf, i + 1, i + n)
    BY <1>1 DEF Slice
<1> QED BY <1>3, <1>4 DEF r

(* Its entries, one by one.                                                *)
LEMMA LocatedIs ==
    ASSUME NEW h \in HeadRecords, NEW off \in Nat, msgs \in 1 .. MaxMsgs
    PROVE  /\ Located(h, off) \in Seq([name : Ranges, value : Ranges])
           /\ DOMAIN Located(h, off) = 1 .. Len(h.lines)
           /\ \A n \in 1 .. Len(h.lines) :
                 LET b == off + Len(Before(h, n))
                     x == h.lines[n].name
                     y == h.lines[n].value
                 IN  /\ b \in Nat
                     /\ Located(h, off)[n].name = <<b, b + x>>
                     /\ Located(h, off)[n].value
                            = <<b + x + 1, b + x + 1 + y>>
<1> DEFINE N == Len(h.lines)
           B(n) == off + Len(Before(h, n))
           E(n) == [name  |-> <<B(n), B(n) + h.lines[n].name>>,
                    value |-> <<B(n) + h.lines[n].name + 1,
                                B(n) + h.lines[n].name + 1
                                    + h.lines[n].value>>]
<1>1. N \in Nat
    BY HeadIs
<1>2. ASSUME NEW n \in 1 .. N
      PROVE  B(n) \in Nat /\ h.lines[n].name \in Nat /\ h.lines[n].value \in Nat
    BY HeadIs, WireLine, SMTT(40)
<1>3. Located(h, off) = [n \in 1 .. N |-> E(n)]
    BY DEF Located
<1>4. ASSUME NEW n \in 1 .. N PROVE E(n) \in [name : Ranges, value : Ranges]
    <2>1. /\ <<B(n), B(n) + h.lines[n].name>> \in Ranges
          /\ <<B(n) + h.lines[n].name + 1,
               B(n) + h.lines[n].name + 1 + h.lines[n].value>> \in Ranges
        <3> DEFINE C == B(n) + h.lines[n].name + 1
        <3>1. C \in Nat
            BY <1>2
        <3> HIDE DEF B, C
        <3>2. <<B(n), B(n) + h.lines[n].name>> \in Ranges
            BY <1>2, RangeIs
        <3>3. <<C, C + h.lines[n].value>> \in Ranges
            BY <1>2, <3>1, RangeIs
        <3> QED BY <3>2, <3>3 DEF C
    <2> HIDE DEF B
    <2> QED BY <2>1
<1>5. Located(h, off) \in Seq([name : Ranges, value : Ranges])
    <2> HIDE DEF E, N
    <2> QED BY <1>1, <1>3, <1>4
<1>6. DOMAIN Located(h, off) = 1 .. N
    BY <1>3
<1>7. ASSUME NEW n \in 1 .. N
      PROVE  Located(h, off)[n] = E(n)
    <2> HIDE DEF E
    <2> QED BY <1>3
<1>8. ASSUME NEW n \in 1 .. N
      PROVE  LET b == off + Len(Before(h, n))
                 x == h.lines[n].name
                 y == h.lines[n].value
             IN  /\ b \in Nat
                 /\ Located(h, off)[n].name = <<b, b + x>>
                 /\ Located(h, off)[n].value = <<b + x + 1, b + x + 1 + y>>
    <2> DEFINE x == h.lines[n].name
               y == h.lines[n].value
    <2>1. /\ E(n).name = <<B(n), B(n) + x>>
          /\ E(n).value = <<B(n) + x + 1, B(n) + x + 1 + y>>
        <3> HIDE DEF B, x, y
        <3> QED BY DEF x, y
    <2> HIDE DEF E
    <2> QED BY <1>2, <1>7, <2>1
<1> QED BY <1>5, <1>6, <1>8

(* A line, in the bytes that a head is in.                                 *)
LEMMA LineLies ==
    ASSUME NEW h \in HeadRecords, NEW off \in Nat, NEW t \in Seq(ByteRecords),
           Lies(h, t, off), NEW n \in 1 .. Len(h.lines),
           msgs \in 1 .. MaxMsgs
    PROVE  LET b == off + Len(Before(h, n))
               x == h.lines[n].name
               y == h.lines[n].value
           IN  /\ b \in Nat /\ b + x + y + 2 <= Len(t)
               /\ \A p \in 1 .. x : t[b + p] = Byte(h.kind, "name", n, p)
               /\ \A p \in 1 .. y :
                     t[b + x + 1 + p] = Byte(h.kind, "value", n, p)
<1> DEFINE k == Len(Before(h, n))
           b == off + k
           x == h.lines[n].name
           y == h.lines[n].value
           w == Len(Wire(h))
           l == Len(Line(h, n))
<1>1. /\ k \in Nat /\ k + l < w
      /\ \A p \in 1 .. l : Wire(h)[k + p] = Line(h, n)[p]
    BY WireLine
<1>2. /\ x \in Nat /\ y \in Nat /\ l = x + y + 2
      /\ \A p \in 1 .. x : Line(h, n)[p] = Byte(h.kind, "name", n, p)
      /\ \A p \in 1 .. y :
            Line(h, n)[x + 1 + p] = Byte(h.kind, "value", n, p)
    BY HeadIs, LineIs
<1>3. w \in Nat /\ Len(t) \in Nat
    BY WireIs, LenProperties
<1>4. off + w <= Len(t) /\ \A p \in 1 .. w : t[off + p] = Wire(h)[p]
    BY DEF Lies
<1> HIDE DEF k, x, y, w, l
<1>5. ASSUME NEW p \in 1 .. l PROVE t[b + p] = Line(h, n)[p]
    <2>1. l \in Nat /\ k + p \in 1 .. w /\ off + (k + p) = b + p
        BY <1>1, <1>2, <1>3
    <2>2. t[off + (k + p)] = Wire(h)[k + p]
        BY <1>4, <2>1
    <2> HIDE DEF b
    <2> QED BY <1>1, <2>1, <2>2
<1>6. ASSUME NEW p \in 1 .. x PROVE t[b + p] = Byte(h.kind, "name", n, p)
    <2>1. p \in 1 .. l
        BY <1>2
    <2> HIDE DEF b
    <2> QED BY <1>2, <1>5, <2>1
<1>7. ASSUME NEW p \in 1 .. y
      PROVE  t[b + x + 1 + p] = Byte(h.kind, "value", n, p)
    <2>1. x + 1 + p \in 1 .. l /\ b + (x + 1 + p) = b + x + 1 + p
        BY <1>1, <1>2
    <2>2. t[b + (x + 1 + p)] = Line(h, n)[x + 1 + p]
        <3> HIDE DEF b
        <3> QED BY <1>5, <2>1
    <2> HIDE DEF b
    <2> QED BY <1>2, <2>1, <2>2
<1>8. b \in Nat /\ b + x + y + 2 <= Len(t)
    BY <1>1, <1>2, <1>3, <1>4
<1> QED BY <1>6, <1>7, <1>8 DEF b, k, x, y

(* The name and the value of a header, as they were sent.                  *)
LEMMA NameAndValue ==
    ASSUME NEW h \in HeadRecords, NEW n \in 1 .. Len(h.lines),
           msgs \in 1 .. MaxMsgs
    PROVE  LET x == h.lines[n].name
               y == h.lines[n].value
               P == Bytes(h.kind, "name", n, x)
               Q == Bytes(h.kind, "value", n, y)
           IN  /\ P \in Seq(ByteRecords) /\ Len(P) = x
               /\ \A p \in 1 .. x : P[p] = Byte(h.kind, "name", n, p)
               /\ Q \in Seq(ByteRecords) /\ Len(Q) = y
               /\ \A p \in 1 .. y : Q[p] = Byte(h.kind, "value", n, p)
<1> DEFINE x == h.lines[n].name
           y == h.lines[n].value
           P == Bytes(h.kind, "name", n, x)
           Q == Bytes(h.kind, "value", n, y)
<1>1. /\ h.kind \in Kinds /\ x \in Nat /\ y \in Nat /\ n \in Nat
    BY HeadIs
<1> HIDE DEF x, y
<1>2. /\ P \in Seq(ByteRecords) /\ Len(P) = x
      /\ \A p \in 1 .. x : P[p] = Byte(h.kind, "name", n, p)
    <2>1. "name" \in Parts
        BY PartsAre
    <2> QED BY <1>1, <2>1, BytesAre
<1>3. /\ Q \in Seq(ByteRecords) /\ Len(Q) = y
      /\ \A p \in 1 .. y : Q[p] = Byte(h.kind, "value", n, p)
    <2>1. "value" \in Parts
        BY PartsAre
    <2> QED BY <1>1, <2>1, BytesAre
<1> QED BY <1>2, <1>3 DEF x, y

(* What is read through the list of a head that is in rbuf is the head.    *)
LEMMA Shown ==
    ASSUME NEW h \in HeadRecords, NEW off \in Nat, NEW list,
           rbuf \in Seq(ByteRecords), Lies(h, rbuf, off),
           list.vec = Located(h, off), msgs \in 1 .. MaxMsgs
    PROVE  Shows(list, h)
<1> DEFINE N == Len(h.lines)
           v == list.vec
           B(n) == off + Len(Before(h, n))
           X(n) == h.lines[n].name
           Y(n) == h.lines[n].value
           P(n) == Bytes(h.kind, "name", n, X(n))
           Q(n) == Bytes(h.kind, "value", n, Y(n))
<1>1. N \in Nat /\ DOMAIN h.lines = 1 .. N /\ DOMAIN v = 1 .. N
    BY HeadIs, LocatedIs, LenProperties DEF HeadRecords
<1>2. ASSUME NEW n \in 1 .. N
      PROVE  /\ B(n) \in Nat /\ X(n) \in Nat /\ Y(n) \in Nat
             /\ v[n].name = <<B(n), B(n) + X(n)>>
             /\ v[n].value = <<B(n) + X(n) + 1, B(n) + X(n) + 1 + Y(n)>>
             /\ B(n) + X(n) + Y(n) + 2 <= Len(rbuf)
    <2>1. B(n) + X(n) + Y(n) + 2 <= Len(rbuf)
        BY LineLies
    <2>2. X(n) \in Nat /\ Y(n) \in Nat
        BY HeadIs
    <2>3. /\ B(n) \in Nat /\ v[n].name = <<B(n), B(n) + X(n)>>
          /\ v[n].value = <<B(n) + X(n) + 1, B(n) + X(n) + 1 + Y(n)>>
        <3>1. n \in 1 .. Len(h.lines)
            OBVIOUS
        <3>2. v = Located(h, off)
            OBVIOUS
        <3> HIDE DEF v
        <3> QED BY <3>1, <3>2, LocatedIs
    <2> HIDE DEF B, X, Y, v
    <2> QED BY <2>1, <2>2, <2>3
<1>3. ASSUME NEW n \in 1 .. N PROVE Slice(v[n].name) = P(n)
    <2>1. /\ P(n) \in Seq(ByteRecords) /\ Len(P(n)) = X(n)
          /\ \A p \in 1 .. X(n) : P(n)[p] = Byte(h.kind, "name", n, p)
        BY NameAndValue
    <2>2. \A p \in 1 .. X(n) : rbuf[B(n) + p] = Byte(h.kind, "name", n, p)
        BY LineLies
    <2>3. B(n) \in Nat /\ B(n) + X(n) <= Len(rbuf)
        <3>1. Len(rbuf) \in Nat
            BY LenProperties
        <3> HIDE DEF B, X, Y
        <3> QED BY <1>2, <3>1
    <2>4. Slice(v[n].name) = SubSeq(rbuf, B(n) + 1, B(n) + X(n))
        <3>1. /\ v[n].name = <<B(n), B(n) + X(n)>>
              /\ B(n) \in Nat /\ X(n) \in Nat
            BY <1>2
        <3> HIDE DEF B, X, v
        <3> QED BY <3>1, RangeIs
    <2> HIDE DEF B, X, P
    <2>5. \A p \in 1 .. X(n) : rbuf[B(n) + p] = P(n)[p]
        BY <2>1, <2>2
    <2>6. SubSeq(rbuf, B(n) + 1, B(n) + Len(P(n))) = P(n)
        BY <2>1, <2>3, <2>5, PartIs
    <2> QED BY <2>1, <2>4, <2>6
<1>4. ASSUME NEW n \in 1 .. N PROVE Slice(v[n].value) = Q(n)
    <2> DEFINE C == B(n) + X(n) + 1
    <2>1. /\ Q(n) \in Seq(ByteRecords) /\ Len(Q(n)) = Y(n)
          /\ \A p \in 1 .. Y(n) : Q(n)[p] = Byte(h.kind, "value", n, p)
        BY NameAndValue
    <2>2. \A p \in 1 .. Y(n) : rbuf[C + p] = Byte(h.kind, "value", n, p)
        BY LineLies
    <2>3. C \in Nat /\ C + Y(n) <= Len(rbuf)
        <3>1. Len(rbuf) \in Nat
            BY LenProperties
        <3> HIDE DEF B, X, Y
        <3> QED BY <1>2, <3>1, SMTT(40)
    <2>4. Slice(v[n].value) = SubSeq(rbuf, C + 1, C + Y(n))
        <3>1. /\ v[n].value = <<C, C + Y(n)>>
              /\ C \in Nat /\ Y(n) \in Nat
            <4>1. /\ B(n) \in Nat /\ X(n) \in Nat /\ Y(n) \in Nat
                  /\ v[n].value = <<B(n) + X(n) + 1, B(n) + X(n) + 1 + Y(n)>>
                BY <1>2
            <4> HIDE DEF B, X, Y, v
            <4> QED BY <4>1
        <3> HIDE DEF C, Y, v
        <3> QED BY <3>1, RangeIs
    <2> HIDE DEF C, Y, Q
    <2>5. \A p \in 1 .. Y(n) : rbuf[C + p] = Q(n)[p]
        BY <2>1, <2>2
    <2>6. SubSeq(rbuf, C + 1, C + Len(Q(n))) = Q(n)
        BY <2>1, <2>3, <2>5, PartIs
    <2> QED BY <2>1, <2>4, <2>6
<1>5. Iterate(list) = Sent(h)
    <2>1. Iterate(list) = [n \in 1 .. N |-> [name  |-> Slice(v[n].name),
                                             value |-> Slice(v[n].value)]]
        BY <1>1 DEF Iterate
    <2>2. Sent(h) = [n \in 1 .. N |-> [name |-> P(n), value |-> Q(n)]]
        BY <1>1 DEF Sent
    <2> HIDE DEF P, Q, N, v
    <2> QED BY <1>3, <1>4, <2>1, <2>2
<1>6. InRbuf(list)
    <2>1. ASSUME NEW n \in 1 .. N
          PROVE  v[n].name[2] <= Len(rbuf) /\ v[n].value[2] <= Len(rbuf)
        <3>1. Len(rbuf) \in Nat
            BY LenProperties
        <3>2. v[n].name[2] = B(n) + X(n) /\ v[n].value[2] = B(n) + X(n) + 1 + Y(n)
            <4>1. /\ v[n].name = <<B(n), B(n) + X(n)>>
                  /\ v[n].value = <<B(n) + X(n) + 1, B(n) + X(n) + 1 + Y(n)>>
                BY <1>2
            <4> HIDE DEF v, B, X, Y
            <4> QED BY <4>1
        <3>3. /\ B(n) \in Nat /\ X(n) \in Nat /\ Y(n) \in Nat
              /\ B(n) + X(n) + Y(n) + 2 <= Len(rbuf)
            BY <1>2
        <3> HIDE DEF v, B, X, Y
        <3> QED BY <3>1, <3>2, <3>3, SMTT(40)
    <2> QED BY <1>1, <2>1 DEF InRbuf
<1> QED BY <1>5, <1>6 DEF Shows

-----------------------------------------------------------------------------
(* The decoders, at the beginning of a head.                               *)

(* rbuf goes on with the n-th head, if it goes on behind off at all.       *)
GoesOnWith(n, off) ==
    /\ off <= Len(rbuf)
    /\ off < Len(rbuf) => rbuf[off + 1] = FirstOf(message[n])

IsWhole(h, off) == off + Len(Wire(h)) <= Len(rbuf)

(* httparse takes a whole head that has nothing wrong in it, and refuses   *)
(* none but a wrong one.                                                   *)
LEMMA HttparseIs ==
    ASSUME message \in Messages, msgs \in 1 .. MaxMsgs,
           rbuf \in Seq(ByteRecords), NEW n \in 1 .. Len(message),
           NEW off \in Nat, GoesOnWith(n, off)
    PROVE  LET h == message[n]
           IN  /\ Httparse(off) \in {"partial", "error", "complete"}
               /\ Httparse(off) # "partial" => off < Len(rbuf) /\ HeadAt(off) = h
               /\ Httparse(off) = "complete" =>
                     IsWhole(h, off) /\ ~ HasToken(h) /\ Len(h.lines) <= MaxHeaders
               /\ Httparse(off) = "error" => ~ IsGood(h)
               /\ IsWhole(h, off) => Httparse(off) # "partial"
<1> DEFINE h   == message[n]
           got == Len(rbuf) - off
           w   == Len(Wire(h))
<1>1. h \in HeadRecords
    BY KindTellsHead
<1>2. Len(rbuf) \in Nat /\ got \in Nat
    BY LenProperties DEF GoesOnWith
<1>3. /\ w \in Nat /\ w >= 2
      /\ \A k \in 1 .. Len(h.lines) + 1 :
            Len(Before(h, k)) \in Nat /\ Len(Before(h, k)) < w
    <2>1. w \in Nat /\ w >= 2
        BY <1>1, WireIs
    <2>2. ASSUME NEW k \in 1 .. Len(h.lines) + 1
          PROVE  Len(Before(h, k)) \in Nat /\ Len(Before(h, k)) < w
        BY <1>1, BeforeType, WireIs
    <2> QED BY <2>1, <2>2
<1>4. got # 0 => off < Len(rbuf) /\ HeadAt(off) = h
    <2>1. got # 0 => rbuf[off + 1] = FirstOf(h) /\ off < Len(rbuf)
        BY <1>2 DEF GoesOnWith
    <2>2. FirstOf(h).kind = h.kind
        BY DEF FirstOf, Byte
    <2>3. HeadOf(h.kind) = h
        BY KindTellsHead
    <2> QED BY <2>1, <2>2, <2>3 DEF HeadAt
<1>5. HasToken(h) => ~ IsGood(h)
    BY DEF HasToken, IsGood
<1>6. Len(h.lines) \in Nat /\ MaxHeaders \in Nat
    BY <1>1, HeadIs, MaxAssumption
<1>7. TooMany(h, got) => ~ IsGood(h)
    BY <1>6 DEF TooMany, IsGood
<1>8. w <= got => TooMany(h, got) \/ Len(h.lines) <= MaxHeaders
    <2>1. Len(h.lines) > MaxHeaders => MaxHeaders + 1 \in 1 .. Len(h.lines) + 1
        BY <1>6
    <2> QED BY <1>2, <1>3, <1>6, <2>1, SMTT(40) DEF TooMany
<1>9. IsWhole(h, off) <=> w <= got
    BY <1>2, <1>3 DEF IsWhole
<1>10. Httparse(off) =
           IF got = 0 THEN "partial"
           ELSE IF HasToken(HeadAt(off)) \/ TooMany(HeadAt(off), got) THEN "error"
           ELSE IF got < Len(Wire(HeadAt(off))) THEN "partial" ELSE "complete"
    BY DEF Httparse
<1> HIDE DEF h, got, w
<1>11. CASE got = 0
    BY <1>2, <1>3, <1>9, <1>10, <1>11 DEF h
<1>12. CASE got # 0 /\ (HasToken(h) \/ TooMany(h, got))
    BY <1>4, <1>5, <1>7, <1>10, <1>12 DEF h
<1>13. CASE got # 0 /\ ~ (HasToken(h) \/ TooMany(h, got))
    <2>1. Httparse(off) = IF got < w THEN "partial" ELSE "complete"
        BY <1>4, <1>10, <1>13 DEF w
    <2> QED BY <1>2, <1>3, <1>4, <1>8, <1>9, <1>13, <2>1 DEF h
<1> QED BY <1>11, <1>12, <1>13

(* The indices lead back to where the head is: those of a head behind      *)
(* others too, and wherever rbuf is.                                       *)
LEMMA IndicesAre ==
    ASSUME message \in Messages, msgs \in 1 .. MaxMsgs, addr \in Addresses,
           rbuf \in Seq(ByteRecords), NEW n \in 1 .. Len(message),
           NEW off \in Nat, GoesOnWith(n, off), Httparse(off) = "complete"
    PROVE  Indices(off) = Located(message[n], off)
<1> DEFINE h == message[n]
           N == Len(h.lines)
<1>1. /\ HeadAt(off) = h /\ N <= MaxHeaders /\ h \in HeadRecords
    BY HttparseIs, KindTellsHead
<1>2. N \in Nat /\ addr \in Nat /\ MaxHeaders \in Nat
    BY <1>1, HeadIs, AddressesAssumption, MaxAssumption
<1>3. ASSUME NEW k \in 1 .. N
      PROVE  HeaderIndices(Slots(off)[k], off) = Located(h, off)[k]
    <2> DEFINE b == Len(Before(h, k))
               x == h.lines[k].name
               y == h.lines[k].value
               s == [name  |-> addr + off + b, nameLen |-> x,
                     value |-> addr + off + b + x + 1, valueLen |-> y]
    <2>1. b \in Nat /\ x \in Nat /\ y \in Nat
        BY <1>1, HeadIs, WireLine
    <2>2. Slots(off)[k] = s
        <3>1. k \in 1 .. MaxHeaders /\ k <= N
            BY <1>1, <1>2
        <3>2. Slots(off)[k] = Slot(off, k)
            BY <1>1, <3>1 DEF Slots
        <3> QED BY <1>1, <3>2 DEF Slot
    <2>3. Located(h, off)[k]
              = [name  |-> <<off + b, off + b + x>>,
                 value |-> <<off + b + x + 1, off + b + x + 1 + y>>]
        BY DEF Located
    <2> HIDE DEF b, x, y
    <2>4. HeaderIndices(s, off)
              = [name  |-> <<off + b, off + b + x>>,
                 value |-> <<off + b + x + 1, off + b + x + 1 + y>>]
        <3>1. /\ s.name - addr = off + b /\ s.value - addr = off + b + x + 1
              /\ s.nameLen = x /\ s.valueLen = y
            BY <1>2, <2>1
        <3> HIDE DEF s
        <3> QED BY <3>1 DEF HeaderIndices
    <2> QED BY <2>2, <2>3, <2>4
<1>4. Indices(off) = [k \in 1 .. N |-> HeaderIndices(Slots(off)[k], off)]
    BY <1>1 DEF Indices, NHeaders
<1>5. Located(h, off) = [k \in 1 .. N |-> Located(h, off)[k]]
    BY DEF Located
<1> HIDE DEF N, h
<1>6. [k \in 1 .. N |-> HeaderIndices(Slots(off)[k], off)]
          = [k \in 1 .. N |-> Located(h, off)[k]]
    BY <1>3
<1> QED BY <1>4, <1>5, <1>6 DEF h

(* What a decoder leaves of a head.                                        *)
RequestIs(d, h, off) ==
    /\ d.list.vec = Located(h, off) /\ d.parsedLen = Len(Wire(h))
    /\ d.method = FirstOf(h) /\ d.uri = FirstOf(h)

ResponseIs(d, h, off) ==
    /\ d.list.vec = Located(h, off) /\ d.parsedLen = Len(Wire(h))
    /\ d.version = FirstOf(h) /\ d.status = FirstOf(h)

Requests  == [list : Lists, method : ByteRecords, uri : ByteRecords,
              parsedLen : Nat]
Responses == [list : Lists, version : ByteRecords, status : ByteRecords,
              parsedLen : Nat]

(* A list of a head.                                                       *)
LEMMA ListIs ==
    ASSUME message \in Messages, msgs \in 1 .. MaxMsgs, addr \in Addresses,
           rbuf \in Seq(ByteRecords), NEW n \in 1 .. Len(message),
           NEW off \in Nat, GoesOnWith(n, off), Httparse(off) = "complete",
           NEW list
    PROVE  /\ NewList(list, off) \in Lists
           /\ NewList(list, off).vec = Located(message[n], off)
<1> DEFINE h == message[n]
           v == Indices(off)
<1>1. v = Located(h, off) /\ h \in HeadRecords /\ addr \in Nat
    BY IndicesAre, KindTellsHead, AddressesAssumption
<1>2. v \in Seq([name : Ranges, value : Ranges])
    BY <1>1, LocatedIs
<1>3. NewList(list, off) = [vec |-> v, base |-> addr]
    BY DEF NewList
<1> HIDE DEF v
<1>4. NewList(list, off) \in Lists
    BY <1>1, <1>2, <1>3 DEF Lists
<1> QED BY <1>1, <1>3, <1>4

(* decode_icap_request and decode_http_request: a request is complete only *)
(* if it is good and whole, refused only if it is not good.                *)
LEMMA DecodeRequestIs ==
    ASSUME message \in Messages, msgs \in 1 .. MaxMsgs, addr \in Addresses,
           rbuf \in Seq(ByteRecords), NEW n \in 1 .. Len(message),
           NEW off \in Nat, GoesOnWith(n, off), NEW d \in Requests
    PROVE  LET h == message[n]
           IN  /\ DecodeRequest(d, off) \in Requests
               /\ RequestStatus(off) \in {"partial", "error", "complete"}
               /\ RequestStatus(off) = "complete" =>
                     /\ IsGood(h) /\ IsWhole(h, off)
                     /\ RequestIs(DecodeRequest(d, off), h, off)
               /\ RequestStatus(off) = "error" => ~ IsGood(h)
               /\ IsWhole(h, off) => RequestStatus(off) # "partial"
<1> DEFINE h == message[n]
           w == Len(Wire(h))
           l == NewList(d.list, off)
<1>1. /\ h \in HeadRecords /\ w \in Nat /\ rbuf[off + 1] = rbuf[off + 1]
    BY KindTellsHead, WireIs
<1>2. /\ Httparse(off) \in {"partial", "error", "complete"}
      /\ Httparse(off) # "partial" => off < Len(rbuf) /\ HeadAt(off) = h
      /\ Httparse(off) = "complete" =>
            IsWhole(h, off) /\ ~ HasToken(h) /\ Len(h.lines) <= MaxHeaders
      /\ Httparse(off) = "error" => ~ IsGood(h)
      /\ IsWhole(h, off) => Httparse(off) # "partial"
    BY HttparseIs
<1>3. Httparse(off) = "complete" => l \in Lists /\ l.vec = Located(h, off)
    BY ListIs
<1>4. /\ off < Len(rbuf) => rbuf[off + 1] = FirstOf(h)
      /\ FirstOf(h) \in ByteRecords
    <2>1. Wire(h) \in Seq(ByteRecords) /\ 1 \in 1 .. Len(Wire(h))
          /\ Wire(h)[1] = FirstOf(h)
        BY <1>1, WireIs
    <2>2. FirstOf(h) \in ByteRecords
        BY <2>1, ElementOfSeq
    <2> QED BY <2>2 DEF GoesOnWith
<1>5. RawParts(off) =
          IF Httparse(off) = "complete" /\ HeadAt(off).fault = "uri" THEN "error"
                                                      ELSE Httparse(off)
    BY DEF RawParts
<1>6. RequestStatus(off) =
          IF RawParts(off) = "complete" /\ HeadAt(off).fault # "none" THEN "error"
                                                      ELSE RawParts(off)
    BY DEF RequestStatus
<1> DEFINE listed == [d EXCEPT !.list = l]
           all == [listed EXCEPT !.method = rbuf[off + 1], !.uri = rbuf[off + 1],
                                 !.parsedLen = Len(Wire(HeadAt(off)))]
<1>7. DecodeRequest(d, off) =
          IF RawParts(off) # "complete" THEN d
          ELSE IF RequestStatus(off) = "error" THEN listed ELSE all
    BY DEF DecodeRequest
<1> HIDE DEF h, w, l
<1>8. RawParts(off) = "complete" => Httparse(off) = "complete"
    BY <1>5
<1>9. RequestStatus(off) = "complete" =>
          /\ RawParts(off) = "complete" /\ Httparse(off) = "complete"
          /\ HeadAt(off) = h /\ h.fault = "none" /\ IsGood(h) /\ IsWhole(h, off)
    BY <1>2, <1>6, <1>8 DEF IsGood
<1>10. RequestStatus(off) = "error" => ~ IsGood(h)
    BY <1>2, <1>5, <1>6 DEF IsGood
<1>11. IsWhole(h, off) => RequestStatus(off) # "partial"
    BY <1>2, <1>5, <1>6
<1>12. RequestStatus(off) \in {"partial", "error", "complete"}
    BY <1>2, <1>5, <1>6
<1>13. RawParts(off) = "complete" =>
          /\ listed \in Requests /\ all \in Requests
          /\ all.list = l /\ all.method = FirstOf(h) /\ all.uri = FirstOf(h)
          /\ all.parsedLen = w
    <2> SUFFICES ASSUME RawParts(off) = "complete"
                 PROVE  /\ listed \in Requests /\ all \in Requests
                        /\ all.list = l /\ all.method = FirstOf(h)
                        /\ all.uri = FirstOf(h) /\ all.parsedLen = w
        OBVIOUS
    <2>1. /\ l \in Lists /\ HeadAt(off) = h /\ rbuf[off + 1] = FirstOf(h)
          /\ FirstOf(h) \in ByteRecords /\ w \in Nat
        BY <1>1, <1>2, <1>3, <1>4, <1>8 DEF h
    <2>2. listed \in Requests
        BY <2>1 DEF Requests
    <2>3. Len(Wire(HeadAt(off))) = w
        BY <2>1 DEF w, h
    <2>4. listed = [list |-> l, method |-> d.method, uri |-> d.uri,
                    parsedLen |-> d.parsedLen]
        BY DEF Requests
    <2>5. all = [list |-> l, method |-> FirstOf(h), uri |-> FirstOf(h),
                 parsedLen |-> w]
        <3> DEFINE f == FirstOf(h)
        <3>1. all = [listed EXCEPT !.method = f, !.uri = f, !.parsedLen = w]
            BY <2>1, <2>3
        <3> HIDE DEF listed, all, f
        <3>2. all = [[list |-> l, method |-> d.method, uri |-> d.uri,
                      parsedLen |-> d.parsedLen]
                        EXCEPT !.method = f, !.uri = f, !.parsedLen = w]
            BY <2>4, <3>1
        <3>3. all = [list |-> l, method |-> f, uri |-> f, parsedLen |-> w]
            BY <3>2
        <3> QED BY <3>3 DEF f
    <2> HIDE DEF all, listed
    <2> QED BY <2>1, <2>2, <2>5 DEF Requests
<1>14. DecodeRequest(d, off) \in Requests
    <2> HIDE DEF listed, all
    <2> QED BY <1>7, <1>13
<1>15. RequestStatus(off) = "complete" => RequestIs(DecodeRequest(d, off), h, off)
    <2> SUFFICES ASSUME RequestStatus(off) = "complete"
                 PROVE  RequestIs(DecodeRequest(d, off), h, off)
        OBVIOUS
    <2>1. DecodeRequest(d, off) = all /\ l.vec = Located(h, off)
        BY <1>3, <1>7, <1>9 DEF h
    <2>2. /\ all.list = l /\ all.method = FirstOf(h) /\ all.uri = FirstOf(h)
          /\ all.parsedLen = w
        BY <1>9, <1>13
    <2> HIDE DEF all
    <2> QED BY <2>1, <2>2 DEF RequestIs, w
<1> QED BY <1>9, <1>10, <1>11, <1>12, <1>14, <1>15 DEF h

(* decode_http_response, of a head that is there as a whole.               *)
LEMMA DecodeResponseIs ==
    ASSUME message \in Messages, msgs \in 1 .. MaxMsgs, addr \in Addresses,
           rbuf \in Seq(ByteRecords), NEW n \in 1 .. Len(message),
           NEW off \in Nat, GoesOnWith(n, off), NEW d \in Responses,
           IsWhole(message[n], off)
    PROVE  LET h == message[n]
           IN  /\ DecodeResponse(d, off) \in Responses
               /\ ResponseStatus(off) \in {"error", "complete"}
               /\ ResponseStatus(off) = "complete" =>
                     /\ IsGood(h) /\ ResponseIs(DecodeResponse(d, off), h, off)
               /\ ResponseStatus(off) = "error" => ~ IsGood(h)
<1> DEFINE h == message[n]
           w == Len(Wire(h))
           l == NewList(d.list, off)
<1>1. /\ h \in HeadRecords /\ w \in Nat
    BY KindTellsHead, WireIs
<1>2. /\ Httparse(off) \in {"error", "complete"}
      /\ off < Len(rbuf) /\ HeadAt(off) = h
      /\ Httparse(off) = "complete" => Len(h.lines) <= MaxHeaders
      /\ Httparse(off) = "error" => ~ IsGood(h)
    BY HttparseIs
<1>3. Httparse(off) = "complete" => l \in Lists /\ l.vec = Located(h, off)
    BY ListIs
<1>4. rbuf[off + 1] = FirstOf(h) /\ FirstOf(h) \in ByteRecords
    <2>1. Wire(h) \in Seq(ByteRecords) /\ 1 \in 1 .. Len(Wire(h))
          /\ Wire(h)[1] = FirstOf(h)
        BY <1>1, WireIs
    <2>2. FirstOf(h) \in ByteRecords
        BY <2>1, ElementOfSeq
    <2> QED BY <1>2, <2>2 DEF GoesOnWith
<1>5. ResponseStatus(off) =
          IF Httparse(off) = "complete" /\ h.fault = "none"
          THEN "complete" ELSE "error"
    BY <1>2 DEF ResponseStatus
<1> DEFINE r == [list |-> l, version |-> FirstOf(h), status |-> FirstOf(h),
                 parsedLen |-> w]
<1>6. DecodeResponse(d, off) = IF ResponseStatus(off) = "error" THEN d ELSE r
    BY <1>2, <1>4 DEF DecodeResponse
<1> HIDE DEF h, w, l
<1>7. /\ ResponseStatus(off) = "complete" => Httparse(off) = "complete" /\ IsGood(h)
      /\ ResponseStatus(off) = "error" => ~ IsGood(h)
      /\ ResponseStatus(off) \in {"error", "complete"}
    BY <1>2, <1>5 DEF IsGood, h
<1>8. Httparse(off) = "complete" => r \in Responses
    BY <1>1, <1>3, <1>4 DEF Responses
<1>9. r.list = l /\ r.version = FirstOf(h) /\ r.status = FirstOf(h) /\ r.parsedLen = w
    OBVIOUS
<1> HIDE DEF r
<1>10. DecodeResponse(d, off) \in Responses
    BY <1>6, <1>7, <1>8
<1>11. ResponseStatus(off) = "complete" => ResponseIs(DecodeResponse(d, off), h, off)
    BY <1>3, <1>6, <1>7, <1>9 DEF ResponseIs, w, h
<1> QED BY <1>7, <1>10, <1>11 DEF h

-----------------------------------------------------------------------------
(* append_headers.                                                         *)

(* A part of a head as the server sends it on.                             *)
Mapped(s) == [p \in DOMAIN s |-> Resent(s[p])]

(* The server's own bytes are bytes.                                       *)
LEMMA LiteralIs ==
    ASSUME NEW part \in Parts
    PROVE  Literal(part) \in ByteRecords
<1>1. 0 \in 0 .. MaxMsgs /\ "res" \in Kinds
    BY MaxAssumption DEF Kinds, FaultsOf
<1> QED BY <1>1 DEF Literal, ByteRecords

(* It is as long as it was.                                                *)
LEMMA MappedIs ==
    ASSUME NEW s \in Seq(ByteRecords)
    PROVE  /\ Mapped(s) \in Seq(ByteRecords) /\ Len(Mapped(s)) = Len(s)
           /\ \A p \in 1 .. Len(s) : Mapped(s)[p] = Resent(s[p])
<1>1. Len(s) \in Nat /\ DOMAIN s = 1 .. Len(s)
    BY LenProperties
<1>2. ASSUME NEW b \in ByteRecords PROVE Resent(b) \in ByteRecords
    <2>1. b.part \in Parts
        BY DEF ByteRecords
    <2> QED BY <2>1, LiteralIs DEF Resent
<1>3. \A p \in 1 .. Len(s) : Resent(s[p]) \in ByteRecords
    BY <1>2, ElementOfSeq
<1> DEFINE R(p) == Resent(s[p])
<1>4. Mapped(s) = [p \in 1 .. Len(s) |-> R(p)]
    BY <1>1 DEF Mapped
<1> DEFINE T == ByteRecords
<1>5. \A p \in 1 .. Len(s) : R(p) \in T
    BY <1>3
<1> HIDE DEF R, T
<1>6. /\ Mapped(s) \in Seq(T) /\ Len(Mapped(s)) = Len(s)
      /\ \A p \in 1 .. Len(s) : Mapped(s)[p] = R(p)
    BY <1>1, <1>4, <1>5
<1> QED BY <1>6 DEF R, T

(* Part by part.                                                           *)
LEMMA MappedConcat ==
    ASSUME NEW s \in Seq(ByteRecords), NEW t \in Seq(ByteRecords)
    PROVE  Mapped(s \o t) = Mapped(s) \o Mapped(t)
<1> DEFINE T == ByteRecords
           a == Len(s)
           b == Len(t)
           u == s \o t
           v == Mapped(s) \o Mapped(t)
<1>1. /\ a \in Nat /\ b \in Nat /\ u \in Seq(T) /\ Len(u) = a + b
      /\ \A p \in 1 .. a + b : u[p] = IF p <= a THEN s[p] ELSE t[p - a]
    BY LenProperties, ConcatProperties
<1>2. /\ Mapped(u) \in Seq(T) /\ Len(Mapped(u)) = a + b
      /\ \A p \in 1 .. a + b : Mapped(u)[p] = Resent(u[p])
    BY <1>1, MappedIs
<1>3. /\ Mapped(s) \in Seq(T) /\ Len(Mapped(s)) = a
      /\ \A p \in 1 .. a : Mapped(s)[p] = Resent(s[p])
    BY MappedIs
<1>4. /\ Mapped(t) \in Seq(T) /\ Len(Mapped(t)) = b
      /\ \A p \in 1 .. b : Mapped(t)[p] = Resent(t[p])
    BY MappedIs
<1>5. /\ v \in Seq(T) /\ Len(v) = a + b
      /\ \A p \in 1 .. a + b :
            v[p] = IF p <= a THEN Mapped(s)[p] ELSE Mapped(t)[p - a]
    <2> DEFINE x == Mapped(s)
               y == Mapped(t)
    <2>1. x \in Seq(T) /\ Len(x) = a /\ y \in Seq(T) /\ Len(y) = b
        BY <1>3, <1>4
    <2> HIDE DEF x, y, a, b
    <2>2. /\ x \o y \in Seq(T) /\ Len(x \o y) = a + b
          /\ \A p \in 1 .. a + b :
                (x \o y)[p] = IF p <= a THEN x[p] ELSE y[p - a]
        BY <2>1, ConcatProperties
    <2> QED BY <2>2 DEF x, y
<1> HIDE DEF u, v, a, b, T
<1>6. ASSUME NEW p \in 1 .. a + b PROVE Mapped(u)[p] = v[p]
    <2>1. CASE p <= a
        <3>1. p \in 1 .. a
            BY <1>1, <2>1
        <3> QED BY <1>1, <1>2, <1>3, <1>5, <2>1, <3>1
    <2>2. CASE ~ (p <= a)
        <3>1. p - a \in 1 .. b
            BY <1>1, <2>2
        <3> QED BY <1>1, <1>2, <1>4, <1>5, <2>2, <3>1
    <2> QED BY <2>1, <2>2
<1>7. Mapped(u) = v
    BY <1>2, <1>5, <1>6, SeqEqual
<1> QED BY <1>7 DEF u, v

(* Only a separator is another one.                                        *)
LEMMA MappedBytes ==
    ASSUME NEW kind \in Kinds, NEW part \in Parts, NEW line \in Nat,
           NEW n \in Nat, msgs \in 1 .. MaxMsgs
    PROVE  /\ part \notin {"colon", "crlf"} =>
                 Mapped(Bytes(kind, part, line, n)) = Bytes(kind, part, line, n)
           /\ part \in {"colon", "crlf"} =>
                 Mapped(Bytes(kind, part, line, 1)) = <<Literal(part)>>
<1>1. \A at : Resent(Byte(kind, part, line, at))
                 = IF part \in {"colon", "crlf"} THEN Literal(part)
                   ELSE Byte(kind, part, line, at)
    BY DEF Resent, Byte
<1>2. ASSUME NEW m \in Nat
      PROVE  Mapped(Bytes(kind, part, line, m))
                 = [at \in 1 .. m |-> IF part \in {"colon", "crlf"}
                                       THEN Literal(part)
                                       ELSE Byte(kind, part, line, at)]
    BY <1>1 DEF Mapped, Bytes
<1>3. part \notin {"colon", "crlf"} =>
          Mapped(Bytes(kind, part, line, n)) = Bytes(kind, part, line, n)
    BY <1>2 DEF Bytes
<1>4. part \in {"colon", "crlf"} =>
          Mapped(Bytes(kind, part, line, 1)) = [at \in 1 .. 1 |-> Literal(part)]
    BY <1>2, ZenonT(60)
<1>5. [at \in 1 .. 1 |-> Literal(part)] = <<Literal(part)>>
    OBVIOUS
<1> QED BY <1>3, <1>4, <1>5

(* A line, as encode() writes it.                                          *)
LEMMA MappedLine ==
    ASSUME NEW h \in HeadRecords, NEW n \in 1 .. Len(h.lines),
           msgs \in 1 .. MaxMsgs
    PROVE  Mapped(Line(h, n))
               = Sent(h)[n].name \o <<Literal("colon")>>
                     \o Sent(h)[n].value \o <<Literal("crlf")>>
<1> DEFINE a == h.lines[n].name
           b == h.lines[n].value
           A == Bytes(h.kind, "name", n, a)
           C == Bytes(h.kind, "colon", n, 1)
           B == Bytes(h.kind, "value", n, b)
           E == Bytes(h.kind, "crlf", n, 1)
           T == ByteRecords
<1>1. /\ h.kind \in Kinds /\ a \in Nat /\ b \in Nat /\ n \in Nat
    BY HeadIs
<1>2. Line(h, n) = ((A \o C) \o B) \o E
    BY DEF Line
<1>3. Sent(h)[n].name = A /\ Sent(h)[n].value = B
    <2>1. DOMAIN h.lines = 1 .. Len(h.lines)
        BY LenProperties DEF HeadRecords
    <2> QED BY <2>1 DEF Sent
<1> HIDE DEF a, b
<1>4. A \in Seq(T) /\ Mapped(A) = A
    <2>1. "name" \in Parts /\ "name" \notin {"colon", "crlf"}
        BY PartsAre
    <2>2. Bytes(h.kind, "name", n, a) \in Seq(ByteRecords)
        BY <1>1, <2>1, BytesAre
    <2>3. Mapped(Bytes(h.kind, "name", n, a)) = Bytes(h.kind, "name", n, a)
        BY <1>1, <2>1, MappedBytes
    <2> QED BY <2>2, <2>3
<1>5. B \in Seq(T) /\ Mapped(B) = B
    <2>1. "value" \in Parts /\ "value" \notin {"colon", "crlf"}
        BY PartsAre
    <2>2. Bytes(h.kind, "value", n, b) \in Seq(ByteRecords)
        BY <1>1, <2>1, BytesAre
    <2>3. Mapped(Bytes(h.kind, "value", n, b)) = Bytes(h.kind, "value", n, b)
        BY <1>1, <2>1, MappedBytes
    <2> QED BY <2>2, <2>3
<1>6. C \in Seq(T) /\ Mapped(C) = <<Literal("colon")>>
    BY <1>1, ByteIs, PartsAre, MappedBytes
<1>7. E \in Seq(T) /\ Mapped(E) = <<Literal("crlf")>>
    BY <1>1, ByteIs, PartsAre, MappedBytes
<1> HIDE DEF A, B, C, E
<1>8. A \o C \in Seq(T) /\ (A \o C) \o B \in Seq(T)
    <2>1. A \o C \in Seq(T)
        BY <1>4, <1>6, ConcatProperties
    <2> QED BY <1>5, <2>1, ConcatProperties
<1>9. Mapped(((A \o C) \o B) \o E) = Mapped((A \o C) \o B) \o Mapped(E)
    BY <1>7, <1>8, MappedConcat
<1>10. Mapped((A \o C) \o B) = Mapped(A \o C) \o Mapped(B)
    BY <1>5, <1>8, MappedConcat
<1>11. Mapped(A \o C) = Mapped(A) \o Mapped(C)
    BY <1>4, <1>6, MappedConcat
<1> QED BY <1>2, <1>3, <1>4, <1>5, <1>6, <1>7, <1>9, <1>10, <1>11

(* encode() writes out all the headers of a list in their order.           *)
LEMMA EncodeIs ==
    ASSUME NEW h \in HeadRecords, NEW list, Shows(list, h),
           DOMAIN list.vec = 1 .. Len(h.lines), msgs \in 1 .. MaxMsgs
    PROVE  /\ Encode(list) \in Seq(ByteRecords)
           /\ <<FirstOf(h)>> \o Encode(list) = Mapped(Before(h, Len(h.lines) + 1))
<1> DEFINE N == Len(h.lines)
           f == FirstOf(h)
           T == ByteRecords
           U == Seq(T)
           E(n) == Mapped(Line(h, n))
           ls(k) == [n \in 1 .. k |-> E(n)]
<1>1. N \in Nat
    BY HeadIs
<1>2. \A n \in 1 .. N : E(n) \in U
    BY LineIs, MappedIs
<1>3. Encode(list) = FlattenSeq(ls(N))
    <2> DEFINE G(n) == Iterate(list)[n].name \o <<Literal("colon")>>
                           \o Iterate(list)[n].value \o <<Literal("crlf")>>
    <2>1. \A n \in 1 .. N : G(n) = E(n)
        BY MappedLine DEF Shows
    <2>2. Encode(list) = FlattenSeq([n \in 1 .. N |-> G(n)])
        BY DEF Encode
    <2> HIDE DEF E, G, N
    <2>3. [n \in 1 .. N |-> G(n)] = ls(N)
        BY <2>1
    <2> QED BY <2>2, <2>3
<1>4. f \in T /\ <<f>> \in Seq(T)
    <2>1. /\ Before(h, 1) \in Seq(T) /\ 1 \in 1 .. Len(Before(h, 1))
          /\ Before(h, 1)[1] = f
        BY FirstIs
    <2>2. f \in T
        BY <2>1, ElementOfSeq
    <2> HIDE DEF T, f
    <2> QED BY <2>2
<1>5. ASSUME NEW k \in 0 .. N PROVE ls(k) \in Seq(U) /\ FlattenSeq(ls(k)) \in U
    <2>1. \A n \in 1 .. k : E(n) \in U
        BY <1>1, <1>2
    <2>2. k \in Nat
        BY <1>1
    <2> HIDE DEF E, U
    <2>3. ls(k) \in Seq(U)
        BY <2>1, <2>2
    <2> HIDE DEF ls
    <2> QED BY <2>3, FlattenType DEF U
<1> DEFINE S == {k \in Nat : k <= N =>
                     <<f>> \o FlattenSeq(ls(k)) = Mapped(Before(h, k + 1))}
<1>6. 0 \in S
    <2>1. ls(0) = <<>>
        <3> HIDE DEF E
        <3> QED OBVIOUS
    <2>2. FlattenSeq(ls(0)) = <<>>
        <3> HIDE DEF ls
        <3> QED BY <2>1, FlattenEmpty
    <2>3. <<f>> \o <<>> = <<f>>
        BY <1>4, ConcatEmptySeq
    <2>4. Mapped(Before(h, 1)) = <<f>>
        <3> DEFINE m == Mapped(Before(h, 1))
        <3>1. /\ Before(h, 1) \in Seq(T) /\ Len(Before(h, 1)) = 1
              /\ Before(h, 1)[1] = f
            BY FirstIs
        <3>2. m \in Seq(T) /\ Len(m) = 1 /\ m[1] = Resent(f)
            BY <3>1, MappedIs
        <3>3. Resent(f) = f
            BY DEF Resent, FirstOf, Byte
        <3> HIDE DEF m, f, T
        <3>4. Len(<<f>>) = 1 /\ <<f>>[1] = f
            OBVIOUS
        <3>5. \A p \in 1 .. Len(m) : m[p] = <<f>>[p]
            BY <3>2, <3>3, <3>4
        <3>6. m = <<f>>
            BY <1>4, <3>2, <3>4, <3>5, SeqEqual
        <3> QED BY <3>6 DEF m
    <2>5. 0 + 1 = 1
        OBVIOUS
    <2> HIDE DEF ls, f
    <2> QED BY <2>2, <2>3, <2>4, <2>5
<1>7. ASSUME NEW k \in Nat, k \in S PROVE k + 1 \in S
    <2> SUFFICES ASSUME k + 1 <= N
                 PROVE  <<f>> \o FlattenSeq(ls(k + 1)) = Mapped(Before(h, (k + 1) + 1))
        OBVIOUS
    <2>1. k + 1 \in 1 .. N /\ k + 1 \in 1 .. N + 1 /\ k \in 0 .. N
        BY <1>1
    <2>2. <<f>> \o FlattenSeq(ls(k)) = Mapped(Before(h, k + 1))
        BY <1>1, <1>7, <2>1
    <2> HIDE DEF S
    <2>3. ls(k + 1) = Append(ls(k), E(k + 1))
        <3> HIDE DEF E
        <3> QED OBVIOUS
    <2>4. ls(k) \in Seq(U) /\ FlattenSeq(ls(k)) \in U /\ E(k + 1) \in U
        <3> HIDE DEF E, ls, U
        <3> QED BY <1>2, <1>5, <2>1
    <2>5. FlattenSeq(ls(k + 1)) = FlattenSeq(ls(k)) \o E(k + 1)
        <3> HIDE DEF E, ls
        <3> QED BY <2>3, <2>4, FlattenAppend
    <2>6. Before(h, (k + 1) + 1) = Before(h, k + 1) \o Line(h, k + 1)
        BY <2>1, BeforeNext
    <2>7. Before(h, k + 1) \in Seq(T) /\ Line(h, k + 1) \in Seq(T)
        BY <2>1, BeforeType, LineIs
    <2>8. Mapped(Before(h, (k + 1) + 1)) = Mapped(Before(h, k + 1)) \o E(k + 1)
        BY <2>6, <2>7, MappedConcat
    <2> DEFINE x == FlattenSeq(ls(k))
               y == E(k + 1)
    <2>9. x \in Seq(T) /\ y \in Seq(T)
        BY <2>4
    <2> HIDE DEF x, y, f, T
    <2>10. (<<f>> \o x) \o y = <<f>> \o (x \o y)
        BY <1>4, <2>9, ConcatAssociative
    <2> HIDE DEF ls, E
    <2> QED BY <2>2, <2>5, <2>8, <2>10 DEF x, y
<1>8. N \in S
    <2>1. \A k \in Nat : k \in S
        <3> HIDE DEF S
        <3> QED BY <1>6, <1>7, Induction
    <2> HIDE DEF S
    <2> QED BY <1>1, <2>1
<1>9. <<f>> \o FlattenSeq(ls(N)) = Mapped(Before(h, N + 1))
    <2>1. N <= N
        BY <1>1
    <2> HIDE DEF ls, f
    <2> QED BY <1>8, <2>1
<1>10. FlattenSeq(ls(N)) \in U
    <2>1. N \in 0 .. N
        BY <1>1
    <2> HIDE DEF ls, U, N
    <2> QED BY <1>5, <2>1
<1> QED BY <1>3, <1>9, <1>10

(* So what append_headers writes is the head as it was sent, if what it    *)
(* takes the first line from was.                                          *)
LEMMA AppendedIs ==
    ASSUME NEW h \in HeadRecords, NEW list, Shows(list, h),
           DOMAIN list.vec = 1 .. Len(h.lines), msgs \in 1 .. MaxMsgs
    PROVE  LET f == FirstOf(h)
               b == <<f, f>> \o Encode(list) \o <<Literal("crlf")>>
           IN  /\ b \in Seq(ByteRecords)
               /\ b = <<Wire(h)[1]>> \o Mapped(Wire(h))
<1> DEFINE f == FirstOf(h)
           T == ByteRecords
           e == Encode(list)
           B == Before(h, Len(h.lines) + 1)
           C == Bytes(h.kind, "crlf", 0, 1)
           c == <<Literal("crlf")>>
<1>1. e \in Seq(T) /\ <<f>> \o e = Mapped(B)
    BY EncodeIs
<1>2. f \in T
    <2>1. /\ Before(h, 1) \in Seq(T) /\ 1 \in 1 .. Len(Before(h, 1))
          /\ Before(h, 1)[1] = f
        BY FirstIs
    <2> QED BY <2>1, ElementOfSeq
<1>3. Wire(h) = B \o C /\ Wire(h)[1] = f
    BY WireIs DEF Wire
<1>4. B \in Seq(T)
    <2>1. Len(h.lines) + 1 \in 1 .. Len(h.lines) + 1
        BY HeadIs
    <2> QED BY <2>1, BeforeType
<1>5. C \in Seq(T) /\ Mapped(C) = c
    BY HeadIs, ByteIs, PartsAre, MappedBytes
<1>6. c \in Seq(T)
    BY <1>5, MappedIs
<1>7. Mapped(Wire(h)) = (<<f>> \o e) \o c
    <2>1. Mapped(B \o C) = Mapped(B) \o Mapped(C)
        BY <1>4, <1>5, MappedConcat
    <2> QED BY <1>1, <1>3, <1>5, <2>1
<1> HIDE DEF f, T, e, c
<1>8. <<f>> \in Seq(T) /\ <<f, f>> \in Seq(T)
    BY <1>2
<1>9. <<f>> \o <<f>> = <<f, f>>
    <2> DEFINE x == <<f>> \o <<f>>
               y == <<f, f>>
    <2>1. /\ Len(y) = 2 /\ y[1] = f /\ y[2] = f /\ Len(<<f>>) = 1 /\ <<f>>[1] = f
        OBVIOUS
    <2>2. /\ x \in Seq(T) /\ Len(x) = 1 + 1
          /\ \A p \in 1 .. 1 : x[p] = <<f>>[p]
          /\ x[1 + 1] = <<f>>[1]
        BY <1>8, <2>1, ConcatOne
    <2>3. y \in Seq(T)
        BY <1>8
    <2> HIDE DEF x, y
    <2>4. \A p \in 1 .. Len(x) : x[p] = y[p]
        <3>1. \A p \in 1 .. Len(x) : p = 1 \/ p = 2
            BY <2>2
        <3>2. 1 \in 1 .. 1 /\ 1 + 1 = 2
            OBVIOUS
        <3> QED BY <2>1, <2>2, <3>1, <3>2
    <2>5. x = y
        BY <2>1, <2>2, <2>3, <2>4, SeqEqual
    <2> QED BY <2>5 DEF x, y
<1> DEFINE fe == <<f>> \o e
<1>10. fe \in Seq(T) /\ (<<f, f>> \o e) \in Seq(T)
    BY <1>1, <1>8, ConcatProperties
<1>11. (<<f>> \o <<f>>) \o e = <<f>> \o fe
    BY <1>1, <1>8, ConcatAssociative
<1> HIDE DEF fe
<1>12. (<<f>> \o fe) \o c = <<f>> \o (fe \o c)
    BY <1>6, <1>8, <1>10, ConcatAssociative
<1>13. (<<f, f>> \o e) \o c \in Seq(T)
    BY <1>6, <1>10, ConcatProperties
<1>14. (<<f, f>> \o e) \o c = <<f>> \o (fe \o c)
    BY <1>9, <1>11, <1>12
<1>15. fe \o c = Mapped(Wire(h))
    BY <1>7 DEF fe
<1> QED BY <1>3, <1>13, <1>14, <1>15 DEF f, e, c, T

-----------------------------------------------------------------------------
(* The inductive invariant.                                                *)

Decoding == {"init", "rest", "parse", "service"}

(* rbuf holds the beginning of the request, and in the end all of it.      *)
BufferInv ==
    /\ pc \in Decoding => Begins(rbuf, Input)
    /\ pc \in {"parse", "service"} => rbuf = Input

(* Once it is decoded the ICAP head is good, whole and found where it is.  *)
IcapInv ==
    pc \in {"rest", "parse", "service"} =>
        /\ IsGood(message[1]) /\ IsWhole(message[1], 0)
        /\ RequestIs(icapReq, message[1], 0)

(* So is each HTTP head that parse_entities has been at, and the others    *)
(* have left no trace, not even of an earlier request.                     *)
Unset(d) == d.list = NoList /\ d.parsedLen = 0

IsDone(k) == pc = "service" \/ (pc = "parse" /\ k <= idx)

HttpInv ==
    pc \in Decoding =>
        /\ pc = "parse" => idx <= Len(message)
        /\ \A k \in 2 .. Len(message) :
              IsDone(k) =>
                 /\ IsGood(message[k])
                 /\ message[k].kind = "req" =>
                       RequestIs(httpReq, message[k], Off(k))
                 /\ message[k].kind = "res" =>
                       ResponseIs(httpRes, message[k], Off(k))
        /\ (\A k \in 2 .. Len(message) : IsDone(k) => message[k].kind # "req")
              => Unset(httpReq)
        /\ (\A k \in 2 .. Len(message) : IsDone(k) => message[k].kind # "res")
              => Unset(httpRes)

RefusedInv == pc = "refused" => \E n \in DOMAIN message : ~ IsGood(message[n])

HInv == /\ TypeOK /\ BufferInv /\ IcapInv /\ HttpInv /\ RefusedInv
        /\ AppendedHeadIsTheOneSent

(* TypeOK, with names for the records.                                     *)
LEMMA TypeIs ==
    /\ TypeOK => /\ msgs \in 1 .. MaxMsgs /\ message \in Messages
                 /\ rbuf \in Seq(ByteRecords) /\ addr \in Addresses
                 /\ icapReq \in Requests /\ httpReq \in Requests
                 /\ httpRes \in Responses
                 /\ idx \in Nat \ {0} /\ httpBuf \in Seq(ByteRecords)
    /\ TypeOK <=> /\ pc \in Locations /\ msgs \in 1 .. MaxMsgs
                  /\ message \in Messages
                  /\ rbuf \in Seq(ByteRecords) /\ addr \in Addresses
                  /\ icapReq \in Requests /\ httpReq \in Requests
                  /\ httpRes \in Responses
                  /\ idx \in Nat \ {0} /\ httpBuf \in Seq(ByteRecords)
BY DEF TypeOK, Requests, Responses

(* As long as the request is the same one, so is what was sent.            *)
LEMMA Same ==
    ASSUME UNCHANGED <<msgs, message>>
    PROVE  /\ Input' = Input
           /\ \A h : Wire(h)' = Wire(h) /\ FirstOf(h)' = FirstOf(h)
           /\ \A h, off : Located(h, off)' = Located(h, off)
           /\ \A n : Off(n)' = Off(n)
<1>1. \A kind, part, line, at :
          Byte(kind, part, line, at)' = Byte(kind, part, line, at)
    BY DEF Byte
<1>2. \A kind, part, line, n :
          Bytes(kind, part, line, n)' = Bytes(kind, part, line, n)
    BY <1>1, SMTT(40) DEF Bytes
<1>3. \A h, n : Line(h, n)' = Line(h, n)
    BY <1>2 DEF Line
<1>4. \A h, n : Before(h, n)' = Before(h, n)
    BY <1>2, <1>3 DEF Before
<1>5. \A h : Wire(h)' = Wire(h)
    BY <1>2, <1>4 DEF Wire
<1>6. \A h : FirstOf(h)' = FirstOf(h)
    BY <1>1 DEF FirstOf
<1>7. \A h, off : Located(h, off)' = Located(h, off)
    BY <1>4 DEF Located
<1>8. Input' = Input
    BY <1>5 DEF Input
<1>9. \A n : Off(n)' = Off(n)
    BY <1>5 DEF Off
<1> QED BY <1>5, <1>6, <1>7, <1>8, <1>9

(* What is said of a decoded head does not depend on anything else.        *)
LEMMA SameHead ==
    ASSUME UNCHANGED <<msgs, message>>
    PROVE  /\ \A d, h, off : RequestIs(d, h, off)' <=> RequestIs(d, h, off)
           /\ \A d, h, off : ResponseIs(d, h, off)' <=> ResponseIs(d, h, off)
           /\ \A h : IsGood(h)' <=> IsGood(h)
           /\ \A d : Unset(d)' <=> Unset(d)
BY Same DEF RequestIs, ResponseIs, IsGood, Unset

(* Where rbuf begins, and where it goes on.                                *)
LEMMA RbufGoesOn ==
    ASSUME message \in Messages, msgs \in 1 .. MaxMsgs,
           rbuf \in Seq(ByteRecords), Begins(rbuf, Input)
    PROVE  /\ GoesOnWith(1, 0)
           /\ IsWhole(message[1], 0) => Lies(message[1], rbuf, 0)
<1> DEFINE h == message[1]
           w == Len(Wire(h))
<1>1. 1 \in 1 .. Len(message) /\ Off(1) = 0
    BY MessageIs DEF Off
<1>2. /\ Lies(h, Input, 0) /\ w \in Nat /\ w >= 2 /\ Wire(h)[1] = FirstOf(h)
      /\ Len(rbuf) \in Nat
    BY <1>1, InputIs, KindTellsHead, WireIs, LenProperties
<1>3. ASSUME NEW p \in 1 .. Len(rbuf), p \in 1 .. w
      PROVE  rbuf[p] = Wire(h)[p]
    <2>1. 0 + p = p
        OBVIOUS
    <2>2. rbuf[p] = Input[p]
        BY DEF Begins
    <2>3. Input[0 + p] = Wire(h)[p]
        BY <1>2, <1>3 DEF Lies
    <2> QED BY <2>1, <2>2, <2>3
<1> HIDE DEF w, h
<1>4. 0 < Len(rbuf) => rbuf[0 + 1] = FirstOf(h)
    <2>1. 0 < Len(rbuf) => 1 \in 1 .. Len(rbuf) /\ 1 \in 1 .. w /\ 0 + 1 = 1
        BY <1>2
    <2> QED BY <1>2, <1>3, <2>1
<1>5. GoesOnWith(1, 0)
    BY <1>2, <1>4 DEF GoesOnWith, h
<1>6. ASSUME IsWhole(h, 0) PROVE Lies(h, rbuf, 0)
    <2>1. w <= Len(rbuf)
        BY <1>2, <1>6 DEF IsWhole, w
    <2>2. \A p \in 1 .. w : rbuf[0 + p] = Wire(h)[p]
        BY <1>2, <1>3, <2>1
    <2> QED BY <1>2, <2>1, <2>2 DEF Lies, w
<1> QED BY <1>5, <1>6 DEF h

(* Where the k-th head of a message begins, this head and no other lies.   *)
LEMMA InputGoesOn ==
    ASSUME message \in Messages, msgs \in 1 .. MaxMsgs, rbuf = Input,
           NEW k \in 1 .. Len(message)
    PROVE  /\ Off(k) \in Nat /\ GoesOnWith(k, Off(k))
           /\ IsWhole(message[k], Off(k)) /\ Lies(message[k], rbuf, Off(k))
<1> DEFINE h == message[k]
           w == Len(Wire(h))
           o == Off(k)
<1>1. /\ o \in Nat /\ Lies(h, rbuf, o) /\ Len(rbuf) \in Nat
    BY InputIs
<1>2. w \in Nat /\ w >= 2 /\ Wire(h)[1] = FirstOf(h)
    BY KindTellsHead, WireIs
<1>3. o + w <= Len(rbuf) /\ \A p \in 1 .. w : rbuf[o + p] = Wire(h)[p]
    BY <1>1 DEF Lies
<1>4. 1 \in 1 .. w
    BY <1>2
<1> HIDE DEF o, w, h
<1>5. rbuf[o + 1] = FirstOf(h) /\ o <= Len(rbuf)
    BY <1>1, <1>2, <1>3, <1>4
<1> QED BY <1>1, <1>3, <1>5 DEF GoesOnWith, IsWhole, o, w, h

(* What is not decoded.                                                    *)
LEMMA NothingIs ==
    /\ NoList \in Lists /\ NoReq \in Requests /\ NoRes \in Responses
    /\ Unset(NoReq) /\ Unset(NoRes)
    /\ \A d \in Requests : ClearRequest(d) \in Requests /\ Unset(ClearRequest(d))
<1>1. Default \in ByteRecords
    BY PartsAre, LiteralIs DEF Default
<1>2. NoList \in Lists
    BY DEF NoList, Lists
<1>3. NoReq \in Requests /\ NoRes \in Responses
    BY <1>1, <1>2 DEF NoReq, NoRes, Requests, Responses
<1>4. Unset(NoReq) /\ Unset(NoRes)
    BY DEF Unset, NoReq, NoRes
<1>5. ASSUME NEW d \in Requests
      PROVE  ClearRequest(d) \in Requests /\ Unset(ClearRequest(d))
    BY <1>1, <1>2 DEF ClearRequest, Requests, Unset
<1> QED BY <1>2, <1>3, <1>4, <1>5

(* No byte has been read, and the requests are empty.                      *)
LEMMA InitInv == Init => HInv
<1> SUFFICES ASSUME Init PROVE HInv
    OBVIOUS
<1>1. TypeOK
    <2>1. msgs \in 1 .. MaxMsgs
        BY MaxAssumption DEF Init
    <2>2. pc \in Locations
        BY DEF Init, Locations
    <2>3. rbuf \in Seq(ByteRecords) /\ httpBuf \in Seq(ByteRecords)
        BY DEF Init
    <2> QED BY <2>1, <2>2, <2>3, TypeIs, NothingIs DEF Init
<1>2. BufferInv
    <2>1. message \in Messages /\ msgs \in 1 .. MaxMsgs
        BY <1>1, TypeIs
    <2>2. Len(Input) \in Nat
        BY <2>1, InputIs
    <2>3. Begins(<<>>, Input)
        BY <2>2 DEF Begins
    <2> QED BY <2>3 DEF BufferInv, Init
<1>3. HttpInv
    BY NothingIs DEF Init, HttpInv, IsDone
<1> QED BY <1>1, <1>2, <1>3
        DEF HInv, IcapInv, RefusedInv, AppendedHeadIsTheOneSent, Init

(* A read: what has been decoded is in rbuf as it was, wherever rbuf is.   *)
LEMMA RecvInv == ASSUME HInv, Recv PROVE HInv'
<1>1. /\ msgs \in 1 .. MaxMsgs /\ message \in Messages
      /\ rbuf \in Seq(ByteRecords) /\ icapReq \in Requests
      /\ httpReq \in Requests /\ httpRes \in Responses
      /\ idx \in Nat \ {0} /\ httpBuf \in Seq(ByteRecords)
    BY TypeIs DEF HInv
<1>2. /\ pc \in {"init", "rest"} /\ addr' \in Addresses
      /\ UNCHANGED <<pc, msgs, message, icapReq, httpReq, httpRes, idx, httpBuf>>
      /\ UNCHANGED <<msgs, message>>
    BY DEF Recv
<1>3. PICK n \in Len(rbuf) + 1 .. Len(Input) : rbuf' = SubSeq(Input, 1, n)
    BY DEF Recv
<1>4. Input \in Seq(ByteRecords) /\ Len(Input) \in Nat /\ Len(rbuf) \in Nat
    BY <1>1, InputIs, LenProperties
<1>5. n \in Nat /\ Len(rbuf) <= n /\ n <= Len(Input)
    BY <1>3, <1>4
<1>6. /\ rbuf' \in Seq(ByteRecords) /\ Len(rbuf') = n
      /\ \A p \in 1 .. n : rbuf'[p] = Input[p]
    BY <1>3, <1>4, <1>5
<1>7. TypeOK'
    <2>1. pc' \in Locations
        BY <1>2 DEF Locations
    <2> QED BY <1>1, <1>2, <1>6, <2>1 DEF TypeOK, Requests, Responses
<1>8. BufferInv'
    <2>1. Begins(rbuf', Input')
        BY <1>2, <1>5, <1>6, Same DEF Begins
    <2> QED BY <1>2, <2>1 DEF BufferInv, Begins
<1>9. IcapInv'
    <2> SUFFICES ASSUME pc' = "rest"
                 PROVE  /\ IsGood(message[1])' /\ IsWhole(message[1], 0)'
                        /\ RequestIs(icapReq, message[1], 0)'
        BY <1>2 DEF IcapInv
    <2>1. /\ IsGood(message[1]) /\ IsWhole(message[1], 0)
          /\ RequestIs(icapReq, message[1], 0)
        BY <1>2 DEF HInv, IcapInv
    <2>2. IsGood(message[1])' /\ RequestIs(icapReq, message[1], 0)'
        BY <1>2, <2>1, SameHead, Same DEF RequestIs, IsGood
    <2>3. Len(Wire(message[1])) \in Nat
        BY <1>1, MessageIs, KindTellsHead, WireIs
    <2>4. IsWhole(message[1], 0)'
        <3>1. Len(Wire(message[1])') = Len(Wire(message[1]))
            BY <1>2, Same
        <3> QED BY <1>4, <1>5, <1>6, <2>1, <2>3, <3>1 DEF IsWhole
    <2> QED BY <2>2, <2>4
<1>10. HttpInv'
    <2>1. Unset(httpReq) /\ Unset(httpRes)
        BY <1>2 DEF HInv, HttpInv, IsDone, Decoding
    <2> QED BY <1>2, <2>1 DEF HttpInv, IsDone, Unset
<1> QED BY <1>2, <1>7, <1>8, <1>9, <1>10
        DEF HInv, RefusedInv, AppendedHeadIsTheOneSent

(* What the ICAP head is decoded to, the first time and again.             *)
LEMMA IcapDecoded ==
    ASSUME TypeOK, Begins(rbuf, Input), UNCHANGED <<msgs, message, rbuf>>,
           icapReq' = DecodeRequest(icapReq, 0)
    PROVE  /\ icapReq' \in Requests
           /\ RequestStatus(0) = "complete" =>
                 /\ IsGood(message[1]) /\ IsGood(message[1])'
                 /\ IsWhole(message[1], 0)'
                 /\ RequestIs(icapReq, message[1], 0)'
           /\ RequestStatus(0) = "error" => ~ IsGood(message[1])
           /\ RequestStatus(0) \in {"partial", "error", "complete"}
           /\ IsWhole(message[1], 0) => RequestStatus(0) # "partial"
<1>1. /\ message \in Messages /\ msgs \in 1 .. MaxMsgs /\ addr \in Addresses
      /\ rbuf \in Seq(ByteRecords) /\ icapReq \in Requests
    BY TypeIs
<1>2. 1 \in 1 .. Len(message) /\ 0 \in Nat /\ GoesOnWith(1, 0)
    BY <1>1, MessageIs, RbufGoesOn
<1> DEFINE h == message[1]
<1>3. /\ DecodeRequest(icapReq, 0) \in Requests
      /\ RequestStatus(0) = "complete" =>
            /\ IsGood(h) /\ IsWhole(h, 0)
            /\ RequestIs(DecodeRequest(icapReq, 0), h, 0)
      /\ RequestStatus(0) = "error" => ~ IsGood(h)
      /\ RequestStatus(0) \in {"partial", "error", "complete"}
      /\ IsWhole(h, 0) => RequestStatus(0) # "partial"
    BY <1>1, <1>2, DecodeRequestIs
<1>4. RequestIs(icapReq', h, 0) => RequestIs(icapReq, h, 0)'
    BY Same DEF RequestIs
<1>5. IsWhole(h, 0) => IsWhole(h, 0)'
    BY Same DEF IsWhole
<1>6. IsGood(h) => IsGood(h)'
    BY DEF IsGood
<1> QED BY <1>3, <1>4, <1>5, <1>6

(* The ICAP head is looked for in what has been read so far.               *)
LEMMA DecodeIcapInv == ASSUME HInv, DecodeIcapRequest PROVE HInv'
<1>1. /\ TypeOK /\ pc = "init" /\ Begins(rbuf, Input)
    BY DEF HInv, BufferInv, DecodeIcapRequest, Decoding
<1>2. /\ pc' \in {"rest", "refused"}
      /\ pc' = "rest" => RequestStatus(0) = "complete"
      /\ pc' = "refused" => RequestStatus(0) = "error"
      /\ icapReq' = DecodeRequest(icapReq, 0)
      /\ UNCHANGED <<msgs, message, rbuf, addr, httpReq, httpRes, idx, httpBuf>>
      /\ UNCHANGED <<msgs, message, rbuf>> /\ UNCHANGED <<msgs, message>>
    BY DEF DecodeIcapRequest
<1>3. /\ icapReq' \in Requests
      /\ RequestStatus(0) = "complete" =>
            /\ IsGood(message[1])' /\ IsWhole(message[1], 0)'
            /\ RequestIs(icapReq, message[1], 0)'
      /\ RequestStatus(0) = "error" => ~ IsGood(message[1])
    BY <1>1, <1>2, IcapDecoded
<1>4. TypeOK'
    <2>1. pc' \in Locations
        BY <1>2 DEF Locations
    <2> QED BY <1>1, <1>2, <1>3, <2>1 DEF TypeOK, Requests
<1>5. BufferInv'
    BY <1>1, <1>2, Same DEF BufferInv, Begins
<1>6. IcapInv'
    BY <1>2, <1>3 DEF IcapInv
<1>7. HttpInv'
    <2>1. Unset(httpReq) /\ Unset(httpRes)
        BY <1>1 DEF HInv, HttpInv, IsDone, Decoding
    <2> QED BY <1>2, <2>1 DEF HttpInv, IsDone, Unset
<1>8. RefusedInv'
    <2>1. 1 \in DOMAIN message
        BY <1>1, TypeIs, MessageIs
    <2> QED BY <1>2, <1>3, <2>1 DEF RefusedInv, IsGood
<1> QED BY <1>2, <1>4, <1>5, <1>6, <1>7, <1>8
        DEF HInv, AppendedHeadIsTheOneSent

(* FailedToReparseIcapReq never occurs.                                    *)
LEMMA ReparseInv == ASSUME HInv, Reparse PROVE HInv'
<1>1. /\ TypeOK /\ pc = "rest" /\ Begins(rbuf, Input) /\ rbuf = Input
    BY DEF HInv, BufferInv, Reparse, Decoding
<1>2. /\ IsGood(message[1]) /\ IsWhole(message[1], 0)
      /\ RequestIs(icapReq, message[1], 0)
    BY <1>1 DEF HInv, IcapInv
<1>3. /\ idx' = 1
      /\ UNCHANGED <<msgs, message, rbuf, addr, httpReq, httpRes, httpBuf>>
      /\ UNCHANGED <<msgs, message, rbuf>> /\ UNCHANGED <<msgs, message>>
    BY DEF Reparse
<1>4. /\ pc' = "parse" /\ icapReq' \in Requests
      /\ IsGood(message[1])' /\ IsWhole(message[1], 0)'
      /\ RequestIs(icapReq, message[1], 0)'
    <2>1. CASE pc' = "parse" /\ UNCHANGED icapReq
        <3>1. icapReq' \in Requests
            BY <1>1, <2>1, TypeIs
        <3>2. RequestIs(icapReq, message[1], 0)'
            BY <1>2, <1>3, <2>1, Same DEF RequestIs
        <3>3. IsWhole(message[1], 0)' /\ IsGood(message[1])'
            BY <1>2, <1>3, Same DEF IsWhole, IsGood
        <3> QED BY <2>1, <3>1, <3>2, <3>3
    <2>2. CASE /\ pc' = IF RequestStatus(0) = "complete" THEN "parse"
                                                         ELSE "refused"
               /\ icapReq' = DecodeRequest(icapReq, 0)
        <3>1. /\ icapReq' \in Requests
              /\ RequestStatus(0) = "complete" =>
                    /\ IsGood(message[1])' /\ IsWhole(message[1], 0)'
                    /\ RequestIs(icapReq, message[1], 0)'
              /\ RequestStatus(0) = "error" => ~ IsGood(message[1])
              /\ RequestStatus(0) \in {"partial", "error", "complete"}
              /\ IsWhole(message[1], 0) => RequestStatus(0) # "partial"
            BY <1>1, <1>3, <2>2, IcapDecoded
        <3> QED BY <1>2, <2>2, <3>1
    <2> QED BY <2>1, <2>2 DEF Reparse
<1>5. TypeOK'
    <2>1. pc' \in Locations /\ idx' \in Nat \ {0}
        BY <1>3, <1>4 DEF Locations
    <2> QED BY <1>1, <1>3, <1>4, <2>1 DEF TypeOK, Requests
<1>6. BufferInv'
    BY <1>1, <1>3, Same DEF BufferInv, Begins
<1>7. IcapInv'
    BY <1>4 DEF IcapInv
<1>8. HttpInv'
    <2>1. Unset(httpReq) /\ Unset(httpRes)
        BY <1>1 DEF HInv, HttpInv, IsDone, Decoding
    <2>2. Unset(httpReq)' /\ Unset(httpRes)'
        BY <1>3, <2>1 DEF Unset
    <2>3. Len(message) \in Nat /\ 1 <= Len(message)
        BY <1>1, TypeIs, MessageIs
    <2>4. \A k \in 2 .. Len(message) : ~ (k <= 1)
        BY <2>3
    <2> QED BY <1>3, <1>4, <2>2, <2>3, <2>4 DEF HttpInv, IsDone
<1> QED BY <1>4, <1>5, <1>6, <1>7, <1>8
        DEF HInv, RefusedInv, AppendedHeadIsTheOneSent

(* parse_entities looks for each head just where it begins.                *)
LEMMA EntityIs ==
    ASSUME HInv, pc = "parse", idx <= Len(Entities)
    PROVE  LET k == idx + 1
           IN  /\ k \in 2 .. Len(message) /\ k \in 1 .. Len(message)
               /\ Entities[idx] = message[k]
               /\ Expected = Off(k) /\ Off(k) \in Nat
               /\ GoesOnWith(k, Off(k)) /\ IsWhole(message[k], Off(k))
<1> DEFINE k == idx + 1
<1>1. /\ msgs \in 1 .. MaxMsgs /\ message \in Messages /\ idx \in Nat \ {0}
    BY TypeIs DEF HInv
<1>2. /\ message \in Seq(HeadRecords) /\ Len(message) \in 1 .. 3
    BY <1>1, MessageIs
<1>3. /\ Len(Entities) = Len(message) - 1
      /\ \A n \in 1 .. Len(message) - 1 : Entities[n] = message[n + 1]
    <2>1. message # <<>> /\ Entities = Tail(message)
        BY <1>2, SMTT(40) DEF Entities
    <2>2. /\ Len(Tail(message)) = Len(message) - 1
          /\ \A n \in 1 .. Len(Tail(message)) : Tail(message)[n] = message[n + 1]
        BY <1>2, <2>1, HeadTailProperties
    <2> QED BY <2>1, <2>2
<1>4. k \in 2 .. Len(message) /\ k \in 1 .. Len(message) /\ Entities[idx] = message[k]
    BY <1>1, <1>2, <1>3
<1>5. rbuf = Input
    BY DEF HInv, BufferInv
<1>6. /\ Off(k) \in Nat /\ GoesOnWith(k, Off(k)) /\ IsWhole(message[k], Off(k))
    BY <1>1, <1>4, <1>5, InputGoesOn
<1>7. icapReq.parsedLen = Len(Wire(message[1]))
    BY DEF HInv, IcapInv, RequestIs
<1>8. 1 \in 1 .. Len(message) /\ Len(Wire(message[1])) \in Nat
    BY <1>1, <1>2, KindTellsHead, WireIs
<1>9. Expected = Off(k)
    <2>1. CASE idx = 1
        BY <1>7, <1>8, <2>1 DEF Expected, Off
    <2>2. CASE idx # 1
        <3>1. idx = 2 /\ Len(message) = 3 /\ 2 \in 2 .. Len(message) /\ k = 3
            BY <1>1, <1>2, <1>4, <2>2
        <3>2. message[2].kind = "req"
            BY <1>1, <3>1, MessageIs
        <3>3. RequestIs(httpReq, message[2], Off(2))
            BY <3>1, <3>2 DEF HInv, HttpInv, IsDone, Decoding
        <3>4. httpReq.parsedLen = Len(Wire(message[2]))
            BY <3>3 DEF RequestIs
        <3> QED BY <1>7, <2>2, <3>1, <3>4 DEF Expected, Off
    <2> QED BY <2>1, <2>2
<1> QED BY <1>4, <1>6, <1>9

(* What the invariant says after parse_entities has been at one head more. *)
LEMMA OneMore ==
    ASSUME HInv, pc = "parse", idx <= Len(Entities),
           pc' = "parse", idx' = idx + 1,
           UNCHANGED <<msgs, message, rbuf, addr, icapReq, httpBuf>>,
           IsGood(message[idx + 1]),
           \/ /\ message[idx + 1].kind = "req" /\ UNCHANGED httpRes
              /\ RequestIs(httpReq', message[idx + 1], Off(idx + 1))
           \/ /\ message[idx + 1].kind = "res" /\ UNCHANGED httpReq
              /\ ResponseIs(httpRes', message[idx + 1], Off(idx + 1))
    PROVE  HttpInv'
<1> DEFINE i == idx + 1
<1>1. /\ msgs \in 1 .. MaxMsgs /\ message \in Messages /\ idx \in Nat \ {0}
    BY TypeIs DEF HInv
<1>2. i \in 2 .. Len(message) /\ Len(message) \in 1 .. 3
    BY <1>1, EntityIs, MessageIs
<1>3. HttpInv /\ UNCHANGED <<msgs, message>>
    BY DEF HInv
<1>4. \A k \in 2 .. Len(message) :
          /\ message[k].kind \in {"req", "res"}
          /\ message[k].kind = message[i].kind => k = i
    BY <1>1, <1>2, MessageIs
<1>5. \A k \in 2 .. Len(message) : k <= idx' => k <= idx \/ k = i
    BY <1>1, <1>2
<1>6. ASSUME NEW k \in 2 .. Len(message), k <= idx'
      PROVE  /\ IsGood(message[k])
             /\ message[k].kind = "req" => RequestIs(httpReq', message[k], Off(k))
             /\ message[k].kind = "res" => ResponseIs(httpRes', message[k], Off(k))
    <2>1. CASE k = i
        BY <1>4, <2>1
    <2>2. CASE k # i
        <3>1. k <= idx /\ message[k].kind # message[i].kind
            BY <1>4, <1>5, <1>6, <2>2
        <3>2. /\ IsGood(message[k])
              /\ message[k].kind = "req" => RequestIs(httpReq, message[k], Off(k))
              /\ message[k].kind = "res" => ResponseIs(httpRes, message[k], Off(k))
            BY <1>3, <3>1 DEF HttpInv, IsDone, Decoding
        <3> QED BY <3>1, <3>2
    <2> QED BY <2>1, <2>2
<1>7. ASSUME NEW k \in 2 .. Len(message), k <= idx'
      PROVE  /\ IsGood(message[k])'
             /\ message[k].kind = "req" => RequestIs(httpReq, message[k], Off(k))'
             /\ message[k].kind = "res" => ResponseIs(httpRes, message[k], Off(k))'
    BY <1>3, <1>6, <1>7, Same DEF RequestIs, ResponseIs, IsGood
<1>8. i <= idx' /\ idx' <= Len(message)
    BY <1>1, <1>2
<1>9. ASSUME \A k \in 2 .. Len(message) : k <= idx' => message[k].kind # "req"
      PROVE  Unset(httpReq)'
    <2>1. message[i].kind # "req"
        BY <1>2, <1>8, <1>9
    <2>2. \A k \in 2 .. Len(message) : k <= idx => message[k].kind # "req"
        BY <1>1, <1>2, <1>9
    <2>3. Unset(httpReq) /\ UNCHANGED httpReq
        BY <1>3, <2>1, <2>2 DEF HttpInv, IsDone, Decoding
    <2> QED BY <2>3 DEF Unset
<1>10. ASSUME \A k \in 2 .. Len(message) : k <= idx' => message[k].kind # "res"
       PROVE  Unset(httpRes)'
    <2>1. message[i].kind # "res"
        BY <1>2, <1>8, <1>10
    <2>2. \A k \in 2 .. Len(message) : k <= idx => message[k].kind # "res"
        BY <1>1, <1>2, <1>10
    <2>3. Unset(httpRes) /\ UNCHANGED httpRes
        BY <1>3, <2>1, <2>2 DEF HttpInv, IsDone, Decoding
    <2> QED BY <2>3 DEF Unset
<1> HIDE DEF i
<1> QED BY <1>3, <1>7, <1>8, <1>9, <1>10 DEF HttpInv, IsDone

(* The rest of it, of a step that leaves all but the HTTP heads alone.     *)
LEMMA ParseKeeps ==
    ASSUME HInv, pc = "parse", pc' \in {"parse", "service", "refused"},
           UNCHANGED <<msgs, message, rbuf, addr, icapReq, httpBuf>>,
           idx' \in Nat \ {0}, httpReq' \in Requests, httpRes' \in Responses
    PROVE  TypeOK' /\ BufferInv' /\ IcapInv' /\ AppendedHeadIsTheOneSent'
<1>1. TypeOK /\ Begins(rbuf, Input) /\ rbuf = Input /\ UNCHANGED <<msgs, message>>
    BY DEF HInv, BufferInv, Decoding
<1>2. TypeOK'
    <2>1. pc' \in Locations
        BY DEF Locations
    <2> QED BY <1>1, <2>1 DEF TypeOK, Requests, Responses
<1>3. BufferInv'
    BY <1>1, Same DEF BufferInv, Begins
<1>4. IcapInv'
    <2>1. /\ IsGood(message[1]) /\ IsWhole(message[1], 0)
          /\ RequestIs(icapReq, message[1], 0)
        BY DEF HInv, IcapInv
    <2>2. /\ IsGood(message[1])' /\ IsWhole(message[1], 0)'
          /\ RequestIs(icapReq, message[1], 0)'
        BY <1>1, <2>1, Same DEF RequestIs, IsGood, IsWhole
    <2> QED BY <2>2 DEF IcapInv
<1> QED BY <1>2, <1>3, <1>4 DEF AppendedHeadIsTheOneSent

(* The HTTP request head is decoded in place, or refused.                  *)
LEMMA DecodeHttpRequestInv == ASSUME HInv, DecodeHttpRequest PROVE HInv'
<1> DEFINE k == idx + 1
<1>1. /\ msgs \in 1 .. MaxMsgs /\ message \in Messages /\ addr \in Addresses
      /\ rbuf \in Seq(ByteRecords) /\ idx \in Nat \ {0}
      /\ httpReq \in Requests /\ httpRes \in Responses
    BY TypeIs DEF HInv
<1>2. /\ pc = "parse" /\ idx <= Len(Entities) /\ Entities[idx].kind = "req"
      /\ httpReq' = DecodeRequest(httpReq, Expected)
      /\ Decoded(RequestStatus(Expected))
      /\ UNCHANGED <<msgs, message, rbuf, addr, icapReq, httpRes, httpBuf>>
      /\ UNCHANGED <<msgs, message, rbuf, addr, icapReq, httpBuf>>
    BY DEF DecodeHttpRequest, AtEntity
<1>3. /\ k \in 2 .. Len(message) /\ k \in 1 .. Len(message)
      /\ Entities[idx] = message[k]
      /\ Expected = Off(k) /\ Off(k) \in Nat
      /\ GoesOnWith(k, Off(k)) /\ IsWhole(message[k], Off(k))
    BY <1>2, EntityIs
<1>4. /\ DecodeRequest(httpReq, Off(k)) \in Requests
      /\ RequestStatus(Off(k)) \in {"partial", "error", "complete"}
      /\ RequestStatus(Off(k)) = "complete" =>
            /\ IsGood(message[k])
            /\ RequestIs(DecodeRequest(httpReq, Off(k)), message[k], Off(k))
      /\ RequestStatus(Off(k)) = "error" => ~ IsGood(message[k])
      /\ RequestStatus(Off(k)) # "partial"
    <2> HIDE DEF k
    <2> QED BY <1>1, <1>3, DecodeRequestIs
<1>5. httpReq' \in Requests /\ httpRes' \in Responses /\ idx' \in Nat \ {0}
    BY <1>1, <1>2, <1>3, <1>4 DEF Decoded
<1>6. CASE RequestStatus(Off(k)) = "complete"
    <2>1. idx' = k /\ pc' = "parse"
        BY <1>2, <1>3, <1>6 DEF Decoded
    <2>2. HttpInv'
        BY <1>2, <1>3, <1>4, <1>6, <2>1, OneMore
    <2>3. TypeOK' /\ BufferInv' /\ IcapInv' /\ AppendedHeadIsTheOneSent'
        BY <1>2, <1>5, <2>1, ParseKeeps
    <2> QED BY <2>1, <2>2, <2>3 DEF HInv, RefusedInv
<1>7. CASE RequestStatus(Off(k)) = "error"
    <2>1. pc' = "refused"
        BY <1>2, <1>3, <1>7 DEF Decoded
    <2>2. TypeOK' /\ BufferInv' /\ IcapInv' /\ AppendedHeadIsTheOneSent'
        BY <1>2, <1>5, <2>1, ParseKeeps
    <2>3. RefusedInv'
        <3>1. k \in DOMAIN message /\ ~ IsGood(message[k])
            BY <1>1, <1>3, <1>4, <1>7, MessageIs
        <3> QED BY <1>2, <3>1 DEF RefusedInv, IsGood
    <2> QED BY <2>1, <2>2, <2>3 DEF HInv, HttpInv, Decoding
<1> QED BY <1>4, <1>6, <1>7

(* The HTTP response head is decoded in place, or refused.                 *)
LEMMA DecodeHttpResponseInv == ASSUME HInv, DecodeHttpResponse PROVE HInv'
<1> DEFINE k == idx + 1
<1>1. /\ msgs \in 1 .. MaxMsgs /\ message \in Messages /\ addr \in Addresses
      /\ rbuf \in Seq(ByteRecords) /\ idx \in Nat \ {0}
      /\ httpReq \in Requests /\ httpRes \in Responses
    BY TypeIs DEF HInv
<1>2. /\ pc = "parse" /\ idx <= Len(Entities) /\ Entities[idx].kind = "res"
      /\ httpRes' = DecodeResponse(httpRes, Expected)
      /\ Decoded(ResponseStatus(Expected))
      /\ UNCHANGED <<msgs, message, rbuf, addr, icapReq, httpReq, httpBuf>>
      /\ UNCHANGED <<msgs, message, rbuf, addr, icapReq, httpBuf>>
    BY DEF DecodeHttpResponse, AtEntity
<1>3. /\ k \in 2 .. Len(message) /\ k \in 1 .. Len(message)
      /\ Entities[idx] = message[k]
      /\ Expected = Off(k) /\ Off(k) \in Nat
      /\ GoesOnWith(k, Off(k)) /\ IsWhole(message[k], Off(k))
    BY <1>2, EntityIs
<1>4. /\ DecodeResponse(httpRes, Off(k)) \in Responses
      /\ ResponseStatus(Off(k)) \in {"error", "complete"}
      /\ ResponseStatus(Off(k)) = "complete" =>
            /\ IsGood(message[k])
            /\ ResponseIs(DecodeResponse(httpRes, Off(k)), message[k], Off(k))
      /\ ResponseStatus(Off(k)) = "error" => ~ IsGood(message[k])
    <2> HIDE DEF k
    <2> QED BY <1>1, <1>3, DecodeResponseIs
<1>5. httpReq' \in Requests /\ httpRes' \in Responses /\ idx' \in Nat \ {0}
    BY <1>1, <1>2, <1>3, <1>4 DEF Decoded
<1>6. CASE ResponseStatus(Off(k)) = "complete"
    <2>1. idx' = k /\ pc' = "parse"
        BY <1>2, <1>3, <1>6 DEF Decoded
    <2>2. HttpInv'
        BY <1>2, <1>3, <1>4, <1>6, <2>1, OneMore
    <2>3. TypeOK' /\ BufferInv' /\ IcapInv' /\ AppendedHeadIsTheOneSent'
        BY <1>2, <1>5, <2>1, ParseKeeps
    <2> QED BY <2>1, <2>2, <2>3 DEF HInv, RefusedInv
<1>7. CASE ResponseStatus(Off(k)) = "error"
    <2>1. pc' = "refused"
        BY <1>2, <1>3, <1>7 DEF Decoded
    <2>2. TypeOK' /\ BufferInv' /\ IcapInv' /\ AppendedHeadIsTheOneSent'
        BY <1>2, <1>5, <2>1, ParseKeeps
    <2>3. RefusedInv'
        <3>1. k \in DOMAIN message /\ ~ IsGood(message[k])
            BY <1>1, <1>3, <1>4, <1>7, MessageIs
        <3> QED BY <1>2, <3>1 DEF RefusedInv, IsGood
    <2> QED BY <2>1, <2>2, <2>3 DEF HInv, HttpInv, Decoding
<1> QED BY <1>4, <1>6, <1>7

(* No entity of the list is left.                                          *)
LEMMA EntitiesParsedInv == ASSUME HInv, EntitiesParsed PROVE HInv'
<1>1. /\ msgs \in 1 .. MaxMsgs /\ message \in Messages /\ idx \in Nat \ {0}
      /\ httpReq \in Requests /\ httpRes \in Responses
    BY TypeIs DEF HInv
<1>2. /\ pc = "parse" /\ idx > Len(Entities) /\ pc' = "service"
      /\ UNCHANGED <<msgs, message, rbuf, addr, icapReq, httpBuf>>
      /\ UNCHANGED <<httpReq, httpRes, idx>>
    BY DEF EntitiesParsed
<1>3. TypeOK' /\ BufferInv' /\ IcapInv' /\ AppendedHeadIsTheOneSent'
    <2>1. httpReq' \in Requests /\ httpRes' \in Responses /\ idx' \in Nat \ {0}
        BY <1>1, <1>2
    <2> QED BY <1>2, <2>1, ParseKeeps
<1>4. \A k \in 2 .. Len(message) : k <= idx
    <2>1. message \in Seq(HeadRecords) /\ Len(message) \in 1 .. 3
        BY <1>1, MessageIs
    <2>2. Len(Entities) = Len(message) - 1
        BY <2>1, HeadTailProperties, SMTT(40) DEF Entities
    <2> QED BY <1>1, <1>2, <2>1, <2>2
<1>5. HttpInv'
    <2>1. HttpInv /\ UNCHANGED <<msgs, message>>
        BY <1>2 DEF HInv
    <2>2. ASSUME NEW k \in 2 .. Len(message)
          PROVE  /\ IsGood(message[k])
                 /\ message[k].kind = "req" =>
                       RequestIs(httpReq, message[k], Off(k))
                 /\ message[k].kind = "res" =>
                       ResponseIs(httpRes, message[k], Off(k))
        BY <1>2, <1>4, <2>1 DEF HttpInv, IsDone, Decoding
    <2>3. ASSUME NEW k \in 2 .. Len(message)
          PROVE  /\ IsGood(message[k])'
                 /\ message[k].kind = "req" =>
                       RequestIs(httpReq, message[k], Off(k))'
                 /\ message[k].kind = "res" =>
                       ResponseIs(httpRes, message[k], Off(k))'
        BY <1>2, <2>1, <2>2, Same DEF RequestIs, ResponseIs, IsGood
    <2>4. /\ (\A k \in 2 .. Len(message) : message[k].kind # "req")
                => Unset(httpReq)'
          /\ (\A k \in 2 .. Len(message) : message[k].kind # "res")
                => Unset(httpRes)'
        BY <1>2, <2>1 DEF HttpInv, IsDone, Decoding, Unset
    <2> QED BY <1>2, <2>3, <2>4 DEF HttpInv, IsDone
<1> QED BY <1>2, <1>3, <1>5 DEF HInv, RefusedInv

(* When the service is called, all heads are good, and all are there.      *)
LEMMA ServiceHas ==
    ASSUME HInv, pc = "service"
    PROVE  /\ \A k \in 1 .. Len(message) : IsGood(message[k])
           /\ \A k \in 2 .. Len(message) :
                 LET h == message[k]
                 IN  /\ h.kind = "req" => /\ RequestIs(httpReq, h, Off(k))
                                          /\ Shows(httpReq.list, h)
                     /\ h.kind = "res" => /\ ResponseIs(httpRes, h, Off(k))
                                          /\ Shows(httpRes.list, h)
           /\ (\A k \in 2 .. Len(message) : message[k].kind # "req")
                 => Unset(httpReq)
           /\ (\A k \in 2 .. Len(message) : message[k].kind # "res")
                 => Unset(httpRes)
<1>1. /\ msgs \in 1 .. MaxMsgs /\ message \in Messages
      /\ rbuf \in Seq(ByteRecords) /\ rbuf = Input
    BY TypeIs DEF HInv, BufferInv
<1>2. Len(message) \in 1 .. 3
    BY <1>1, MessageIs
<1>3. IsGood(message[1])
    BY DEF HInv, IcapInv
<1>4. ASSUME NEW k \in 2 .. Len(message)
      PROVE  /\ IsGood(message[k])
             /\ message[k].kind = "req" => RequestIs(httpReq, message[k], Off(k))
             /\ message[k].kind = "res" => ResponseIs(httpRes, message[k], Off(k))
    BY DEF HInv, HttpInv, IsDone, Decoding
<1>5. ASSUME NEW k \in 2 .. Len(message)
      PROVE  /\ message[k].kind = "req" => Shows(httpReq.list, message[k])
             /\ message[k].kind = "res" => Shows(httpRes.list, message[k])
    <2>1. k \in 1 .. Len(message)
        BY <1>2
    <2>2. /\ Off(k) \in Nat /\ Lies(message[k], rbuf, Off(k))
          /\ message[k] \in HeadRecords
        BY <1>1, <2>1, InputGoesOn, KindTellsHead
    <2>3. message[k].kind = "req" => Shows(httpReq.list, message[k])
        BY <1>1, <1>4, <2>2, Shown DEF RequestIs
    <2>4. message[k].kind = "res" => Shows(httpRes.list, message[k])
        BY <1>1, <1>4, <2>2, Shown DEF ResponseIs
    <2> QED BY <2>3, <2>4
<1>6. \A k \in 1 .. Len(message) : k = 1 \/ k \in 2 .. Len(message)
    BY <1>2
<1>7. \A k \in 1 .. Len(message) : IsGood(message[k])
    BY <1>3, <1>4, <1>6
<1>8. /\ (\A k \in 2 .. Len(message) : message[k].kind # "req") => Unset(httpReq)
      /\ (\A k \in 2 .. Len(message) : message[k].kind # "res") => Unset(httpRes)
    BY DEF HInv, HttpInv, IsDone, Decoding
<1> QED BY <1>4, <1>5, <1>7, <1>8

(* append_headers writes a head from a list of positions.                  *)
LEMMA AppendHeadersInv == ASSUME HInv, AppendHeaders PROVE HInv'
<1>1. /\ msgs \in 1 .. MaxMsgs /\ message \in Messages /\ TypeOK
    BY TypeIs DEF HInv
<1>2. /\ pc = "service" /\ Entities # <<>> /\ pc' = "appended"
      /\ httpBuf' = FirstLine \o Encode(HeadList) \o <<Literal("crlf")>>
      /\ UNCHANGED <<msgs, message, rbuf, addr, icapReq, httpReq, httpRes, idx>>
      /\ UNCHANGED <<msgs, message>>
    BY DEF AppendHeaders
<1> DEFINE k == Len(message)
           h == message[k]
<1>3. message \in Seq(HeadRecords) /\ k \in 1 .. 3 /\ Last(message) = h
    BY <1>1, MessageIs DEF Last
<1>4. k \in 2 .. Len(message) /\ k \in 1 .. Len(message) /\ k \in 1 .. 3
    <2>1. Entities \in Seq(HeadRecords) /\ Len(Entities) = k - 1
        BY <1>3, HeadTailProperties, SMTT(40) DEF Entities
    <2>2. Len(Entities) # 0
        BY <1>2, <2>1, EmptySeq
    <2> QED BY <1>3, <2>1, <2>2
<1>5. /\ h \in HeadRecords /\ h.kind \in {"req", "res"}
    BY <1>1, <1>4, KindTellsHead, MessageIs
<1> DEFINE f == FirstOf(h)
<1>6. /\ Shows(HeadList, h) /\ HeadList.vec = Located(h, Off(k))
      /\ FirstLine = <<f, f>>
    <2>1. /\ h.kind = "req" => /\ RequestIs(httpReq, h, Off(k))
                               /\ Shows(httpReq.list, h)
          /\ h.kind = "res" => /\ ResponseIs(httpRes, h, Off(k))
                               /\ Shows(httpRes.list, h)
        BY <1>2, <1>4, ServiceHas
    <2>2. CASE h.kind = "req"
        BY <1>3, <2>1, <2>2 DEF HeadList, FirstLine, RequestIs
    <2>3. CASE h.kind = "res"
        BY <1>3, <2>1, <2>3 DEF HeadList, FirstLine, ResponseIs
    <2> QED BY <1>5, <2>2, <2>3
<1>7. DOMAIN HeadList.vec = 1 .. Len(h.lines)
    BY <1>6 DEF Located
<1> HIDE DEF h, k
<1>8. /\ httpBuf' \in Seq(ByteRecords)
      /\ httpBuf' = <<Wire(h)[1]>> \o Mapped(Wire(h))
    <2>1. LET b == <<f, f>> \o Encode(HeadList) \o <<Literal("crlf")>>
          IN  /\ b \in Seq(ByteRecords)
              /\ b = <<Wire(h)[1]>> \o Mapped(Wire(h))
        BY <1>1, <1>5, <1>6, <1>7, AppendedIs
    <2> QED BY <1>2, <1>6, <2>1
<1>9. AppendedHeadIsTheOneSent'
    <2>1. Wire(Last(message))' = Wire(h)
        BY <1>2, <1>3, Same
    <2>2. \A b : Resent(b)' = Resent(b)
        BY DEF Resent
    <2>3. httpBuf' = <<Wire(h)[1]>> \o [p \in DOMAIN Wire(h) |-> Resent(Wire(h)[p])]
        BY <1>8 DEF Mapped
    <2> QED BY <2>1, <2>2, <2>3 DEF AppendedHeadIsTheOneSent
<1>10. TypeOK'
    <2>1. pc' \in Locations
        BY <1>2 DEF Locations
    <2> QED BY <1>1, <1>2, <1>8, <2>1 DEF TypeOK
<1> QED BY <1>2, <1>9, <1>10
        DEF HInv, BufferInv, IcapInv, HttpInv, RefusedInv, Decoding

(* An answer that repeats no head of the request.                          *)
LEMMA OtherAnswerInv == ASSUME HInv, OtherAnswer PROVE HInv'
<1>1. TypeOK /\ httpBuf \in Seq(ByteRecords)
    BY TypeIs DEF HInv
<1>2. /\ pc' = "answered" /\ httpBuf' \in {httpBuf, <<>>}
      /\ UNCHANGED <<msgs, message, rbuf, addr, icapReq, httpReq, httpRes, idx>>
    BY DEF OtherAnswer
<1>3. TypeOK'
    <2>1. pc' \in Locations
        BY <1>2 DEF Locations
    <2>2. <<>> \in Seq(ByteRecords)
        OBVIOUS
    <2>3. httpBuf' \in Seq(ByteRecords)
        BY <1>1, <1>2, <2>2
    <2> QED BY <1>1, <1>2, <2>1, <2>3 DEF TypeOK
<1> QED BY <1>2, <1>3
        DEF HInv, BufferInv, IcapInv, HttpInv, RefusedInv, Decoding,
            AppendedHeadIsTheOneSent

(* The next request has a length too.                                      *)
LEMMA InputHasLength ==
    message \in Messages /\ msgs \in 1 .. MaxMsgs => Len(Input) \in Nat
BY InputIs

(* The bytes of the next message have a length as well.                    *)
LEMMA NextInputHasLength ==
    (message \in Messages /\ msgs \in 1 .. MaxMsgs => Len(Input) \in Nat)'
BY InputHasLength, PTL

(* Nothing is left of a request when the next one is read.                 *)
LEMMA ClearInv == ASSUME HInv, Clear PROVE HInv'
<1>1. /\ TypeOK /\ msgs \in 1 .. MaxMsgs
      /\ icapReq \in Requests /\ httpReq \in Requests
    BY TypeIs DEF HInv
<1>2. /\ msgs < MaxMsgs /\ pc' = "init" /\ msgs' = msgs + 1
      /\ message' \in Messages /\ rbuf' = <<>>
      /\ icapReq' = ClearRequest(icapReq) /\ httpReq' = ClearRequest(httpReq)
      /\ httpRes' = NoRes /\ UNCHANGED <<addr, idx, httpBuf>>
    BY DEF Clear
<1>3. /\ msgs' \in 1 .. MaxMsgs /\ rbuf' \in Seq(ByteRecords)
      /\ icapReq' \in Requests /\ httpReq' \in Requests
      /\ httpRes' \in Responses
      /\ Unset(httpReq') /\ Unset(httpRes')
    BY <1>1, <1>2, MaxAssumption, NothingIs
<1>4. TypeOK'
    <2>1. pc' \in Locations
        BY <1>2 DEF Locations
    <2> QED BY <1>1, <1>2, <1>3, <2>1 DEF TypeOK, Requests, Responses
<1>5. BufferInv'
    <2>1. Len(Input)' \in Nat
        BY <1>2, <1>3, NextInputHasLength
    <2> QED BY <1>2, <2>1 DEF BufferInv, Begins
<1>6. HttpInv'
    BY <1>2, <1>3 DEF HttpInv, IsDone, Unset
<1> QED BY <1>2, <1>4, <1>5, <1>6
        DEF HInv, IcapInv, RefusedInv, AppendedHeadIsTheOneSent

(* Every step keeps the invariant.                                         *)
LEMMA NextInv == ASSUME HInv, [Next]_vars PROVE HInv'
<1>1. CASE UNCHANGED vars
    <2>1. /\ UNCHANGED <<pc, msgs, message, rbuf, addr, icapReq, httpReq, httpRes,
                         idx, httpBuf>>
          /\ UNCHANGED <<msgs, message>>
        BY <1>1 DEF vars
    <2>2. TypeOK'
        BY <2>1 DEF HInv, TypeOK
    <2>3. BufferInv'
        BY <2>1, Same DEF HInv, BufferInv, Begins
    <2>4. IcapInv'
        BY <2>1, Same DEF HInv, IcapInv, RequestIs, IsGood, IsWhole
    <2>5. HttpInv'
        BY <2>1, Same DEF HInv, HttpInv, RequestIs, ResponseIs, IsGood, IsDone,
                          Unset
    <2>6. RefusedInv'
        BY <2>1 DEF HInv, RefusedInv, IsGood
    <2>7. AppendedHeadIsTheOneSent'
        <3>1. Wire(Last(message))' = Wire(Last(message))
            BY <2>1, Same
        <3>2. \A b : Resent(b)' = Resent(b)
            BY DEF Resent
        <3> QED BY <2>1, <3>1, <3>2 DEF HInv, AppendedHeadIsTheOneSent
    <2> QED BY <2>2, <2>3, <2>4, <2>5, <2>6, <2>7 DEF HInv
<1>2. CASE Terminated
    BY <1>1, <1>2 DEF Terminated
<1> QED BY <1>1, <1>2, RecvInv, DecodeIcapInv, ReparseInv, DecodeHttpRequestInv,
           DecodeHttpResponseInv, EntitiesParsedInv, AppendHeadersInv,
           OtherAnswerInv, ClearInv DEF Next

(* The invariant holds in every behaviour.                                 *)
THEOREM HeadsInductive == Spec => []HInv
BY InitInv, NextInv, PTL DEF Spec

-----------------------------------------------------------------------------
(* The theorems.                                                           *)

(* Every variable keeps to its type, and no position computed from         *)
(* pointers is negative, whatever heads are sent and wherever rbuf is.     *)
THEOREM HeadTypes == Spec => []TypeOK
<1>1. HInv => TypeOK
    BY DEF HInv
<1> QED BY <1>1, HeadsInductive, PTL

(* A service is shown the headers that were sent, byte for byte: those of  *)
(* each head in the list of its kind, and none of a head that was not      *)
(* sent.                                                                   *)
THEOREM HeadersShown == Spec => []HeadersAreThoseSent
<1>1. ASSUME HInv PROVE HeadersAreThoseSent
    <2>1. /\ msgs \in 1 .. MaxMsgs /\ message \in Messages
          /\ rbuf \in Seq(ByteRecords)
        BY <1>1, TypeIs DEF HInv
    <2>2. /\ Len(message) \in 1 .. 3 /\ DOMAIN message = 1 .. Len(message)
          /\ message[1].kind = "icap"
          /\ \A k \in 2 .. Len(message) : message[k].kind \in {"req", "res"}
        BY <2>1, MessageIs, SMTT(40)
    <2>3. ASSUME pc \in {"rest", "parse", "service"}
          PROVE  /\ Shows(icapReq.list, HeadOf("icap"))
                 /\ icapReq.method = FirstOf(HeadOf("icap"))
                 /\ icapReq.uri = icapReq.method
        <3>1. /\ IsWhole(message[1], 0) /\ RequestIs(icapReq, message[1], 0)
              /\ Begins(rbuf, Input)
            BY <1>1, <2>3 DEF HInv, IcapInv, BufferInv, Decoding
        <3>2. Lies(message[1], rbuf, 0)
            BY <2>1, <3>1, RbufGoesOn
        <3>3. HeadOf("icap") = message[1] /\ message[1] \in HeadRecords
            <4>1. 1 \in 1 .. Len(message)
                BY <2>2
            <4> QED BY <2>1, <2>2, <4>1, KindTellsHead
        <3>4. Shows(icapReq.list, message[1])
            BY <2>1, <3>1, <3>2, <3>3, Shown DEF RequestIs
        <3> QED BY <3>1, <3>3, <3>4 DEF RequestIs
    <2>4. ASSUME pc = "service", NEW k \in 2 .. Len(message)
          PROVE  /\ HeadOf(message[k].kind) = message[k]
                 /\ Len(Wire(message[k])) \in Nat /\ Len(Wire(message[k])) > 0
        <3>1. k \in 1 .. Len(message)
            BY <2>2
        <3>2. HeadOf(message[k].kind) = message[k] /\ message[k] \in HeadRecords
            BY <2>1, <3>1, KindTellsHead
        <3>3. Len(Wire(message[k])) \in Nat /\ Len(Wire(message[k])) >= 2
            BY <2>1, <3>2, WireIs
        <3> QED BY <3>2, <3>3
    <2>5. ASSUME pc = "service"
          PROVE  IF IsSent("req")
                 THEN /\ Shows(httpReq.list, HeadOf("req"))
                      /\ httpReq.method = FirstOf(HeadOf("req"))
                      /\ httpReq.uri = httpReq.method
                      /\ httpReq.parsedLen > 0
                 ELSE httpReq.parsedLen = 0 /\ httpReq.list.vec = <<>>
        <3>1. CASE IsSent("req")
            <4>1. PICK k \in 1 .. Len(message) : message[k].kind = "req"
                BY <2>2, <3>1 DEF IsSent
            <4>2. k \in 2 .. Len(message)
                BY <2>2, <4>1
            <4>3. /\ RequestIs(httpReq, message[k], Off(k))
                  /\ Shows(httpReq.list, message[k])
                BY <1>1, <2>5, <4>1, <4>2, ServiceHas
            <4>4. /\ HeadOf("req") = message[k]
                  /\ Len(Wire(message[k])) \in Nat /\ Len(Wire(message[k])) > 0
                BY <2>4, <2>5, <4>1, <4>2
            <4> QED BY <3>1, <4>3, <4>4 DEF RequestIs
        <3>2. CASE ~ IsSent("req")
            <4>1. \A k \in 2 .. Len(message) : message[k].kind # "req"
                BY <2>2, <3>2 DEF IsSent
            <4>2. Unset(httpReq)
                BY <1>1, <2>5, <4>1, ServiceHas
            <4> QED BY <3>2, <4>2 DEF Unset, NoList
        <3> QED BY <3>1, <3>2
    <2>6. ASSUME pc = "service"
          PROVE  IF IsSent("res")
                 THEN /\ Shows(httpRes.list, HeadOf("res"))
                      /\ httpRes.version = FirstOf(HeadOf("res"))
                      /\ httpRes.status = httpRes.version
                      /\ httpRes.parsedLen > 0
                 ELSE httpRes.parsedLen = 0 /\ httpRes.list.vec = <<>>
        <3>1. CASE IsSent("res")
            <4>1. PICK k \in 1 .. Len(message) : message[k].kind = "res"
                BY <2>2, <3>1 DEF IsSent
            <4>2. k \in 2 .. Len(message)
                BY <2>2, <4>1
            <4>3. /\ ResponseIs(httpRes, message[k], Off(k))
                  /\ Shows(httpRes.list, message[k])
                BY <1>1, <2>6, <4>1, <4>2, ServiceHas
            <4>4. /\ HeadOf("res") = message[k]
                  /\ Len(Wire(message[k])) \in Nat /\ Len(Wire(message[k])) > 0
                BY <2>4, <2>6, <4>1, <4>2
            <4> QED BY <3>1, <4>3, <4>4 DEF ResponseIs
        <3>2. CASE ~ IsSent("res")
            <4>1. \A k \in 2 .. Len(message) : message[k].kind # "res"
                BY <2>2, <3>2 DEF IsSent
            <4>2. Unset(httpRes)
                BY <1>1, <2>6, <4>1, ServiceHas
            <4> QED BY <3>2, <4>2 DEF Unset, NoList
        <3> QED BY <3>1, <3>2
    <2> QED BY <2>3, <2>5, <2>6 DEF HeadersAreThoseSent
<1> QED BY <1>1, HeadsInductive, PTL

(* append_headers sends the head of this request on, of the right kind and *)
(* with all its headers in order.                                          *)
THEOREM AppendedIsSent == Spec => []AppendedHeadIsTheOneSent
<1>1. HInv => AppendedHeadIsTheOneSent
    BY DEF HInv
<1> QED BY <1>1, HeadsInductive, PTL

(* Only a request with a wrong head is refused, and none is served: to     *)
(* decode a head again never fails, and each HTTP head is found whole.     *)
THEOREM RefusedOnlyForFaults == Spec => []RefusedForAFault
<1>1. ASSUME HInv PROVE RefusedForAFault
    <2>1. DOMAIN message = 1 .. Len(message)
        BY <1>1, TypeIs, MessageIs DEF HInv
    <2>2. pc = "service" => \A n \in DOMAIN message : IsGood(message[n])
        BY <1>1, <2>1, ServiceHas
    <2>3. pc = "refused" => ~ \A n \in DOMAIN message : IsGood(message[n])
        BY <1>1 DEF HInv, RefusedInv
    <2> QED BY <2>2, <2>3 DEF RefusedForAFault
<1> QED BY <1>1, HeadsInductive, PTL
=============================================================================
