-------------------------- MODULE ChunkHeaderProofs -------------------------
(***************************************************************************)
(* Proofs about the chunk header scanner, for buffers of any length and    *)
(* sizes of any number of digits.                                          *)
(***************************************************************************)
EXTENDS ChunkHeaderProperties, SequenceTheorems, WellFoundedInduction, TLAPS

-----------------------------------------------------------------------------
(* What feeding one byte does to the buffer.                               *)
LEMMA Appended ==
    ASSUME NEW b \in Bytes, bytes \in Seq(Bytes), Feed(b)
    PROVE  /\ bytes' \in Seq(Bytes) /\ bytes' # <<>>
           /\ Len(bytes) \in Nat /\ Len(bytes') = Len(bytes) + 1
           /\ bytes'[Len(bytes) + 1] = b
           /\ \A n \in 1 .. Len(bytes) : bytes'[n] = bytes[n]
           /\ result = "none"
BY AppendProperties DEF Feed

(* The inductive invariant of the scanner.                                 *)
Inv == TypeOK /\ ScanInv /\ LineEndsAtLineLen

(* The scanner starts with the invariant.                                  *)
LEMMA InitInv == Init => Inv
<1> SUFFICES ASSUME Init PROVE Inv
    OBVIOUS
<1>1. bytes = <<>> /\ Len(bytes) = 0 /\ bytes \in Seq(Bytes)
    BY DEF Init
<1>2. TypeOK
    <2>1. 0 \in Scanned
        BY <1>1 DEF Scanned
    <2>2. slice \in Nat \X Int
        BY DEF Init
    <2> QED BY <1>1, <2>1, <2>2 DEF Init, TypeOK, NoExt, States, Results
<1>3. ScanInv
    BY <1>1 DEF Init, ScanInv
<1> QED BY <1>2, <1>3 DEF Inv, Init, LineEndsAtLineLen

(* What Inv says of the fields.                                            *)
LEMMA Fields ==
    ASSUME Inv
    PROVE  /\ bytes \in Seq(Bytes) /\ Len(bytes) \in Nat
           /\ slice \in Nat \X Int /\ slice[1] \in Nat /\ slice[2] \in Int
           /\ ext.nameStart \in Nat /\ ext.nameEnd \in Nat
           /\ ext.valStart \in Nat /\ ext.valEnd \in Nat
           /\ sizeStart \in Nat
BY DEF Inv, TypeOK, Scanned

(* One byte more keeps the type of what a step leaves alone.               *)
LEMMA FeedKeepsTypes ==
    ASSUME Inv, NEW b \in Bytes, Feed(b)
    PROVE  /\ bytes' \in Seq(Bytes)
           /\ Scanned' = 0 .. Len(bytes) + 1 /\ Len(bytes) + 1 \in Nat
           /\ \A n \in Scanned : n \in Scanned'
           /\ sizeStart \in Scanned'
           /\ ext \in [nameStart : Scanned', nameEnd : Scanned',
                       valStart : Scanned' \cup {Len(bytes') + 1},
                       valEnd : Scanned']
           /\ NoExt \in [nameStart : Scanned', nameEnd : Scanned',
                       valStart : Scanned' \cup {Len(bytes') + 1},
                       valEnd : Scanned']
           /\ hdr \in [zero : BOOLEAN, lineLen : Scanned', ieof : BOOLEAN]
<1>1. /\ bytes \in Seq(Bytes) /\ sizeStart \in Scanned
      /\ ext \in [nameStart : Scanned, nameEnd : Scanned,
                  valStart : Scanned \cup {Len(bytes) + 1}, valEnd : Scanned]
      /\ hdr \in [zero : BOOLEAN, lineLen : Scanned, ieof : BOOLEAN]
    BY DEF Inv, TypeOK
<1>2. /\ bytes' \in Seq(Bytes) /\ Len(bytes) \in Nat
      /\ Len(bytes') = Len(bytes) + 1
    BY <1>1, Appended
<1>3. Scanned' = 0 .. Len(bytes) + 1
    BY <1>2 DEF Scanned
<1>4. /\ \A n \in Scanned : n \in Scanned'
      /\ Len(bytes) + 1 \in Scanned' /\ 0 \in Scanned'
    BY <1>2, <1>3 DEF Scanned
<1>5. /\ ext.nameStart \in Scanned' /\ ext.nameEnd \in Scanned'
      /\ ext.valStart \in Scanned' /\ ext.valEnd \in Scanned'
      /\ hdr.lineLen \in Scanned' /\ sizeStart \in Scanned'
    BY <1>1, <1>4
<1> QED BY <1>1, <1>2, <1>3, <1>4, <1>5 DEF NoExt

-----------------------------------------------------------------------------
(* The steps the states share.                                             *)

(* A byte that changes nothing keeps the invariant.                        *)
LEMMA StayInv ==
    ASSUME Inv, NEW b \in Bytes, Feed(b), ~cr, Stay PROVE Inv'
<1>1. TypeOK'
    BY FeedKeepsTypes DEF Stay, Inv, TypeOK
<1>2. ScanInv'
    <2>1. Len(bytes') = Len(bytes) + 1 /\ bytes' # <<>>
        BY Fields, Appended
    <2> QED BY <2>1, Fields, SMTT(40) DEF Stay, Inv, ScanInv, BeforeEnd
<1>3. LineEndsAtLineLen'
    BY DEF Stay, Feed, LineEndsAtLineLen
<1> QED BY <1>1, <1>2, <1>3 DEF Inv

(* bail! keeps the invariant.                                              *)
LEMMA BailInv ==
    ASSUME Inv, NEW b \in Bytes, Feed(b), Bail PROVE Inv'
<1>1. TypeOK'
    BY FeedKeepsTypes DEF Bail, Inv, TypeOK, Results
<1>2. ScanInv'
    <2>1. Len(bytes') = Len(bytes) + 1 /\ bytes' # <<>>
        BY Fields, Appended
    <2> QED BY <2>1, Fields DEF Bail, Inv, ScanInv
<1>3. LineEndsAtLineLen'
    BY DEF Bail, LineEndsAtLineLen
<1> QED BY <1>1, <1>2, <1>3 DEF Inv

(* Taking a CR, in the states whose line may end there, keeps it.          *)
LEMMA AwaitLfInv ==
    ASSUME Inv, Feed("cr"), "cr" \in Bytes, ~cr, AwaitLf,
           state \in {"Size", "WaitingDelimiter", "ExtName",
                      "WaitingExtDelimiter", "ExtValueToken"}
    PROVE  Inv'
<1>1. TypeOK'
    BY FeedKeepsTypes DEF AwaitLf, Inv, TypeOK
<1>2. ScanInv'
    <2>1. /\ Len(bytes') = Len(bytes) + 1 /\ bytes' # <<>>
          /\ bytes'[Len(bytes')] = "cr" /\ result = "none"
        BY Fields, Appended
    <2> QED BY <2>1, Fields DEF AwaitLf, Inv, ScanInv, BeforeEnd
<1>3. LineEndsAtLineLen'
    BY DEF AwaitLf, Feed, LineEndsAtLineLen
<1> QED BY <1>1, <1>2, <1>3 DEF Inv

(* A step to another state that leaves the size and the history be, or     *)
(* takes a slice that is in bounds.                                        *)
LEMMA GotoInv ==
    ASSUME Inv, NEW b \in Bytes, Feed(b), ~cr, NEW s \in States, Goto(s),
           ext' \in [nameStart : Scanned', nameEnd : Scanned',
                     valStart : Scanned' \cup {Len(bytes') + 1},
                     valEnd : Scanned'],
           hdr' \in [zero : BOOLEAN, lineLen : Scanned', ieof : BOOLEAN],
           slice' \in Nat \X Int,
           slice'[1] >= 1, slice'[1] <= slice'[2] + 1,
           slice'[2] <= Len(bytes) + 1,
           s # "Size",
           s = "ExtName" => ext'.nameStart = Len(bytes) + 1,
           s = "WaitingExtDelimiter" =>
                1 <= ext'.nameStart /\ ext'.nameStart <= ext'.nameEnd,
           s = "ExtValueToken" => ext'.valStart = Len(bytes) + 1,
           s = "ExtValueQuotedString" => ext'.valStart >= 1
    PROVE  Inv'
<1>1. /\ Len(bytes') = Len(bytes) + 1 /\ bytes' # <<>> /\ Len(bytes) \in Nat
      /\ result' = "none" /\ ~ cr' /\ state' = s
    BY Fields, Appended DEF Goto
<1>2. TypeOK'
    BY FeedKeepsTypes DEF Goto, Inv, TypeOK
<1>3. ScanInv'
    BY <1>1 DEF ScanInv, BeforeEnd
<1>4. LineEndsAtLineLen'
    BY <1>1 DEF LineEndsAtLineLen
<1> QED BY <1>2, <1>3, <1>4 DEF Inv

-----------------------------------------------------------------------------
(* The size.                                                               *)

(* The digits of the size are in bounds, with or without a CR after them.  *)
LEMMA SizeSlice ==
    ASSUME Inv, state = "Size", result = "none"
    PROVE  /\ sizeStart >= 1
           /\ ~cr => sizeStart <= Len(bytes)
           /\ cr  => sizeStart <= Len(bytes) - 1
BY Fields DEF Inv, ScanInv, BeforeEnd

(* The arms WaitingSize and Size keep the invariant.                       *)
LEMMA SizeStep ==
    ASSUME Inv, NEW b \in Bytes, WaitingSize(b) \/ Size(b) PROVE Inv'
<1>1. CASE WaitingSize(b)
    <2>1. Feed(b) /\ ~cr /\ state = "WaitingSize"
        BY <1>1 DEF WaitingSize, In
    <2>2. CASE Stay \/ Bail
        BY <2>1, <2>2, StayInv, BailInv
    <2>3. CASE /\ state' = "Size" /\ sizeStart' = Idx
               /\ UNCHANGED <<cr, ext, hdr, slice, result>>
        <3>1. /\ Len(bytes') = Len(bytes) + 1 /\ bytes' # <<>>
              /\ Len(bytes) \in Nat
            BY <2>1, Fields, Appended
        <3>2. TypeOK'
            BY <2>1, <2>3, <3>1, FeedKeepsTypes
               DEF Inv, TypeOK, Idx, States, Scanned
        <3>3. ScanInv'
            BY <2>1, <2>3, <3>1, Fields DEF Inv, ScanInv, BeforeEnd, Idx
        <3>4. LineEndsAtLineLen'
            BY <2>1, <2>3 DEF Feed, LineEndsAtLineLen
        <3> QED BY <3>2, <3>3, <3>4 DEF Inv
    <2> QED BY <1>1, <2>2, <2>3 DEF WaitingSize
<1>2. CASE Size(b)
    <2>1. Feed(b) /\ ~cr /\ state = "Size" /\ result = "none"
        BY <1>2 DEF Size, In, Feed
    <2>2. CASE Stay \/ Bail
        BY <2>1, <2>2, StayInv, BailInv
    <2>3. CASE b = "cr" /\ AwaitLf
        BY <2>1, <2>3, AwaitLfInv
    <2>4. 1 <= sizeStart /\ sizeStart <= Len(bytes) /\ Len(bytes) \in Nat
          /\ sizeStart \in Nat
        BY <2>1, SizeSlice, Fields
    <2>5. CASE /\ ParseSize(0)
               /\ Goto(IF b = ";" THEN "WaitingExtName" ELSE "WaitingDelimiter")
               /\ UNCHANGED ext
        <3> DEFINE s == IF b = ";" THEN "WaitingExtName" ELSE "WaitingDelimiter"
        <3>1. /\ s \in States /\ Goto(s)
              /\ s \notin {"Size", "ExtName", "WaitingExtDelimiter",
                           "ExtValueToken", "ExtValueQuotedString"}
            BY <2>5 DEF States
        <3>2. /\ slice' = <<sizeStart, Len(bytes)>>
              /\ hdr' = [zero |-> IsZero(Digits(sizeStart, Len(bytes))),
                         lineLen |-> 0, ieof |-> FALSE]
            BY <2>5 DEF ParseSize
        <3>3. 0 \in Scanned'
            BY <2>1, FeedKeepsTypes
        <3>4. hdr' \in [zero : BOOLEAN, lineLen : Scanned', ieof : BOOLEAN]
            BY <3>2, <3>3 DEF IsZero
        <3>5. ext' = ext
            BY <2>5
        <3> HIDE DEF s
        <3> QED BY <2>1, <2>4, <3>1, <3>2, <3>4, <3>5, FeedKeepsTypes, GotoInv,
                   SMTT(60)
    <2>6. CASE BadSize
        <3>1. /\ Len(bytes') = Len(bytes) + 1 /\ bytes' # <<>>
            BY <2>1, Fields, Appended
        <3>2. TypeOK'
            BY <2>1, <2>4, <2>6, FeedKeepsTypes, SMTT(40)
               DEF BadSize, Inv, TypeOK, Results
        <3>3. ScanInv'
            BY <2>1, <2>4, <2>6, <3>1 DEF BadSize, Inv, ScanInv
        <3>4. LineEndsAtLineLen'
            BY <2>6 DEF BadSize, LineEndsAtLineLen
        <3> QED BY <3>2, <3>3, <3>4 DEF Inv
    <2> QED BY <1>2, <2>2, <2>3, <2>5, <2>6 DEF Size
<1> QED BY <1>1, <1>2

(* The arm WaitingDelimiter keeps the invariant.                           *)
LEMMA WaitingDelimiterStep ==
    ASSUME Inv, NEW b \in Bytes, WaitingDelimiter(b) PROVE Inv'
<1>1. Feed(b) /\ ~cr /\ state = "WaitingDelimiter"
    BY DEF WaitingDelimiter, In
<1>2. CASE Stay \/ Bail
    BY <1>1, <1>2, StayInv, BailInv
<1>3. CASE b = "cr" /\ AwaitLf
    BY <1>1, <1>3, AwaitLfInv
<1>4. CASE Goto("WaitingExtName") /\ UNCHANGED <<ext, hdr, slice>>
    <2>1. /\ slice \in Nat \X Int /\ slice[1] >= 1 /\ slice[1] <= slice[2] + 1
          /\ slice[2] <= Len(bytes) + 1
        BY Fields DEF Inv, ScanInv
    <2>2. "WaitingExtName" \in States
        BY DEF States
    <2> QED BY <1>1, <1>4, <2>1, <2>2, FeedKeepsTypes, GotoInv
<1> QED BY <1>2, <1>3, <1>4 DEF WaitingDelimiter

-----------------------------------------------------------------------------
(* Extensions.                                                             *)

(* Where a name or a token began.                                          *)
LEMMA ExtSlices ==
    ASSUME Inv, result = "none"
    PROVE  /\ Len(bytes) \in Nat
           /\ ext.nameStart \in Nat /\ ext.nameEnd \in Nat
           /\ ext.valStart \in Nat
           /\ ext.nameEnd <= Len(bytes) /\ ext.valStart <= Len(bytes) + 1
           /\ state = "ExtName" =>
                 /\ 1 <= ext.nameStart
                 /\ ext.nameStart <= Len(bytes) /\ (cr => ext.nameStart < Len(bytes))
           /\ state = "WaitingExtDelimiter" =>
                 1 <= ext.nameStart /\ ext.nameStart <= ext.nameEnd
           /\ state = "ExtValueToken" =>
                 /\ 1 <= ext.valStart
                 /\ ext.valStart <= Len(bytes) /\ (cr => ext.valStart < Len(bytes))
           /\ state = "ExtValueQuotedString" => 1 <= ext.valStart
<1>1. ext.nameEnd <= Len(bytes) /\ ext.valStart <= Len(bytes) + 1
    BY Fields DEF Inv, TypeOK, Scanned
<1> QED BY <1>1, Fields, SMTT(40) DEF Inv, ScanInv, BeforeEnd

(* A step that takes no slice leaves the last one in bounds.               *)
LEMMA SliceKept ==
    ASSUME Inv, slice' = slice
    PROVE  /\ slice' \in Nat \X Int
           /\ slice'[1] >= 1 /\ slice'[1] <= slice'[2] + 1
           /\ slice'[2] <= Len(bytes) + 1
BY Fields DEF Inv, ScanInv

(* The arm WaitingExtName keeps the invariant.                             *)
LEMMA WaitingExtNameStep ==
    ASSUME Inv, NEW b \in Bytes, WaitingExtName(b) PROVE Inv'
<1>1. Feed(b) /\ ~cr /\ state = "WaitingExtName"
    BY DEF WaitingExtName, In
<1>2. CASE Stay \/ Bail
    BY <1>1, <1>2, StayInv, BailInv
<1>3. CASE /\ ext' = [ext EXCEPT !.nameStart = Idx]
           /\ Goto("ExtName") /\ UNCHANGED <<hdr, slice>>
    <2>1. Len(bytes) + 1 \in Scanned'
        BY <1>1, FeedKeepsTypes
    <2>2. ext' \in [nameStart : Scanned', nameEnd : Scanned',
                    valStart : Scanned' \cup {Len(bytes') + 1},
                    valEnd : Scanned']
        BY <1>1, <1>3, <2>1, FeedKeepsTypes DEF Idx
    <2>3. ext'.nameStart = Len(bytes) + 1
        BY <1>1, <1>3, FeedKeepsTypes DEF Idx
    <2>4. "ExtName" \in States
        BY DEF States
    <2> QED BY <1>1, <1>3, <2>2, <2>3, <2>4, SliceKept, FeedKeepsTypes, GotoInv
<1> QED BY <1>2, <1>3 DEF WaitingExtName

(* Comparing a name with ieof keeps the type of the header.                *)
LEMMA CheckIeofHdr ==
    ASSUME Inv, NEW b \in Bytes, Feed(b), NEW e, NEW n \in Scanned',
           CheckIeof(e, n)
    PROVE  hdr' \in [zero : BOOLEAN, lineLen : Scanned', ieof : BOOLEAN]
<1> DEFINE v == hdr.ieof \/ Name(e) = Ieof
<1>1. hdr' = [hdr EXCEPT !.ieof = v, !.lineLen = n]
    BY Zenon DEF CheckIeof
<1>2. v \in BOOLEAN
    OBVIOUS
<1>3. hdr \in [zero : BOOLEAN, lineLen : Scanned', ieof : BOOLEAN]
    BY FeedKeepsTypes
<1> HIDE DEF v
<1> QED BY <1>1, <1>2, <1>3

(* The arm ExtName keeps the invariant.                                    *)
LEMMA ExtNameStep ==
    ASSUME Inv, NEW b \in Bytes, ExtName(b) PROVE Inv'
<1>1. Feed(b) /\ ~cr /\ state = "ExtName" /\ result = "none"
    BY DEF ExtName, In, Feed
<1>2. CASE Stay \/ Bail
    BY <1>1, <1>2, StayInv, BailInv
<1>3. CASE b = "cr" /\ AwaitLf
    BY <1>1, <1>3, AwaitLfInv
<1> DEFINE s == IF b = ";" THEN "WaitingExtName"
                ELSE IF b = "=" THEN "WaitingExtValue"
                ELSE "WaitingExtDelimiter"
<1>4. CASE /\ CheckIeof(NameEnds, 0)
           /\ ext' = IF b = ";" THEN NoExt ELSE NameEnds
           /\ Goto(s)
    <2>1. /\ 1 <= ext.nameStart /\ ext.nameStart <= Len(bytes)
          /\ Len(bytes) \in Nat /\ ext.nameStart \in Nat
        BY <1>1, ExtSlices
    <2>2. /\ NameEnds.nameStart = ext.nameStart
          /\ NameEnds.nameEnd = Len(bytes)
        BY <1>1, FeedKeepsTypes DEF NameEnds
    <2>3. slice' = <<ext.nameStart, Len(bytes)>>
        BY <1>4, <2>2 DEF CheckIeof
    <2>4. 0 \in Scanned' /\ Len(bytes) \in Scanned'
        BY <1>1, <2>1, FeedKeepsTypes, SMTT(40)
    <2>5. hdr' \in [zero : BOOLEAN, lineLen : Scanned', ieof : BOOLEAN]
        BY <1>1, <1>4, <2>4, CheckIeofHdr
    <2>6. NameEnds \in [nameStart : Scanned', nameEnd : Scanned',
                        valStart : Scanned' \cup {Len(bytes') + 1},
                        valEnd : Scanned']
        BY <1>1, <2>4, FeedKeepsTypes DEF NameEnds
    <2>7. ext' \in [nameStart : Scanned', nameEnd : Scanned',
                    valStart : Scanned' \cup {Len(bytes') + 1},
                    valEnd : Scanned']
        BY <1>1, <1>4, <2>6, FeedKeepsTypes
    <2>8. s = "WaitingExtDelimiter" =>
              1 <= ext'.nameStart /\ ext'.nameStart <= ext'.nameEnd
        BY <1>4, <2>1, <2>2
    <2>9. /\ s \in States /\ Goto(s)
          /\ s \notin {"Size", "ExtName", "ExtValueToken",
                       "ExtValueQuotedString"}
        BY <1>4 DEF States
    <2> HIDE DEF s
    <2> QED BY <1>1, <2>1, <2>3, <2>5, <2>7, <2>8, <2>9, GotoInv
<1> QED BY <1>2, <1>3, <1>4 DEF ExtName

(* The arm WaitingExtDelimiter keeps the invariant.                        *)
LEMMA WaitingExtDelimiterStep ==
    ASSUME Inv, NEW b \in Bytes, WaitingExtDelimiter(b) PROVE Inv'
<1>1. Feed(b) /\ ~cr /\ state = "WaitingExtDelimiter" /\ result = "none"
    BY DEF WaitingExtDelimiter, In, Feed
<1>2. CASE Stay \/ Bail
    BY <1>1, <1>2, StayInv, BailInv
<1>3. CASE b = "cr" /\ AwaitLf
    BY <1>1, <1>3, AwaitLfInv
<1>4. CASE CheckIeof(ext, 0) /\ ext' = NoExt /\ Goto("WaitingExtName")
    <2>1. /\ 1 <= ext.nameStart /\ ext.nameStart <= ext.nameEnd
          /\ ext.nameStart \in Nat /\ ext.nameEnd \in Nat
          /\ ext.nameEnd <= Len(bytes) /\ Len(bytes) \in Nat
        BY <1>1, ExtSlices
    <2>2. slice' = <<ext.nameStart, ext.nameEnd>>
        BY <1>4 DEF CheckIeof
    <2>3. hdr' \in [zero : BOOLEAN, lineLen : Scanned', ieof : BOOLEAN]
        <3>1. 0 \in Scanned'
            BY <1>1, FeedKeepsTypes
        <3> QED BY <1>1, <1>4, <3>1, CheckIeofHdr
    <2>4. "WaitingExtName" \in States
        BY DEF States
    <2>5. /\ slice' \in Nat \X Int /\ slice'[1] >= 1
          /\ slice'[1] <= slice'[2] + 1 /\ slice'[2] <= Len(bytes) + 1
        BY <2>1, <2>2
    <2>6. ext' \in [nameStart : Scanned', nameEnd : Scanned',
                    valStart : Scanned' \cup {Len(bytes') + 1},
                    valEnd : Scanned']
        BY <1>1, <1>4, FeedKeepsTypes
    <2>7. Goto("WaitingExtName")
        BY <1>4
    <2> QED BY <1>1, <2>3, <2>4, <2>5, <2>6, <2>7, GotoInv
<1>5. CASE Goto("WaitingExtValue") /\ UNCHANGED <<ext, hdr, slice>>
    <2>1. "WaitingExtValue" \in States
        BY DEF States
    <2> QED BY <1>1, <1>5, <2>1, SliceKept, FeedKeepsTypes, GotoInv
<1> QED BY <1>2, <1>3, <1>4, <1>5 DEF WaitingExtDelimiter

(* The arm WaitingExtValue keeps the invariant.                            *)
LEMMA WaitingExtValueStep ==
    ASSUME Inv, NEW b \in Bytes, WaitingExtValue(b) PROVE Inv'
<1>1. Feed(b) /\ ~cr /\ state = "WaitingExtValue"
    BY DEF WaitingExtValue, In
<1>2. CASE Stay \/ Bail
    BY <1>1, <1>2, StayInv, BailInv
<1>3. ASSUME NEW s \in {"ExtValueQuotedString", "ExtValueToken"},
             NEW from, from = IF s = "ExtValueToken" THEN Idx ELSE Idx + 1,
             ext' = [ext EXCEPT !.valStart = from],
             Goto(s), UNCHANGED <<hdr, slice>>
      PROVE  Inv'
    <2>1. /\ Len(bytes) + 1 \in Scanned' /\ Len(bytes') = Len(bytes) + 1
          /\ Len(bytes) \in Nat
        BY <1>1, FeedKeepsTypes, Fields, Appended
    <2>2. from \in Scanned' \cup {Len(bytes') + 1} /\ from >= 1
        BY <1>3, <2>1 DEF Idx
    <2>3. ext' \in [nameStart : Scanned', nameEnd : Scanned',
                    valStart : Scanned' \cup {Len(bytes') + 1},
                    valEnd : Scanned']
        BY <1>1, <1>3, <2>2, FeedKeepsTypes
    <2>4. ext'.valStart = from
        BY <1>1, <1>3, FeedKeepsTypes
    <2>5. s \in States
        BY DEF States
    <2> QED BY <1>1, <1>3, <2>2, <2>3, <2>4, <2>5, SliceKept, FeedKeepsTypes,
               GotoInv DEF Idx
<1>4. CASE /\ ext' = [ext EXCEPT !.valStart = Idx + 1]
           /\ Goto("ExtValueQuotedString") /\ UNCHANGED <<hdr, slice>>
    BY <1>3, <1>4
<1>5. CASE /\ ext' = [ext EXCEPT !.valStart = Idx]
           /\ Goto("ExtValueToken") /\ UNCHANGED <<hdr, slice>>
    BY <1>3, <1>5
<1> QED BY <1>2, <1>4, <1>5 DEF WaitingExtValue

(* The arms ExtValueToken and ExtValueQuotedString keep the invariant.     *)
LEMMA ExtValueStep ==
    ASSUME Inv, NEW b \in Bytes, ExtValueToken(b) \/ ExtValueQuotedString(b)
    PROVE  Inv'
<1>1. Feed(b) /\ ~cr /\ result = "none"
    BY DEF ExtValueToken, ExtValueQuotedString, In, Feed
<1>2. CASE Stay \/ Bail
    BY <1>1, <1>2, StayInv, BailInv
<1>3. CASE b = "cr" /\ AwaitLf /\ state = "ExtValueToken"
    BY <1>1, <1>3, AwaitLfInv
<1>4. ASSUME NEW to \in Nat, 1 <= ext.valStart, ext.valStart <= to + 1,
             to <= Len(bytes) + 1, ValueEnds(to),
             NEW s \in {"WaitingExtName", "WaitingDelimiter"}, Goto(s)
      PROVE  Inv'
    <2>1. /\ slice' = <<ext.valStart, to>> /\ ext' = NoExt /\ hdr' = hdr
          /\ s \in States /\ ext.valStart \in Nat
        BY <1>4, Fields DEF ValueEnds, States
    <2> QED BY <1>1, <1>4, <2>1, FeedKeepsTypes, GotoInv, SMTT(40)
<1>5. CASE /\ state = "ExtValueToken" /\ ValueEnds(Len(bytes))
           /\ Goto(IF b = ";" THEN "WaitingExtName" ELSE "WaitingDelimiter")
    <2>1. 1 <= ext.valStart /\ ext.valStart <= Len(bytes) /\ Len(bytes) \in Nat
          /\ ext.valStart \in Nat
        BY <1>1, <1>5, ExtSlices
    <2> DEFINE s == IF b = ";" THEN "WaitingExtName" ELSE "WaitingDelimiter"
    <2>2. s \in {"WaitingExtName", "WaitingDelimiter"} /\ Goto(s)
        BY <1>5
    <2> HIDE DEF s
    <2>3. ValueEnds(Len(bytes))
        BY <1>5, Zenon
    <2>4. ext.valStart <= Len(bytes) + 1 /\ Len(bytes) <= Len(bytes) + 1
        BY <2>1
    <2> QED BY <1>4, <2>1, <2>2, <2>3, <2>4
<1>6. CASE /\ state = "ExtValueQuotedString" /\ ValueEnds(LastOfValue)
           /\ Goto("WaitingDelimiter")
    <2>1. /\ 1 <= ext.valStart /\ ext.valStart <= Len(bytes) + 1
          /\ ext.valStart \in Nat /\ Len(bytes) \in Nat
        BY <1>1, <1>6, ExtSlices
    <2>2. /\ LastOfValue \in Nat /\ ext.valStart <= LastOfValue + 1
          /\ LastOfValue <= Len(bytes) + 1
        BY <2>1 DEF LastOfValue
    <2> QED BY <1>4, <1>6, <2>1, <2>2
<1> QED BY <1>2, <1>3, <1>5, <1>6 DEF ExtValueToken, ExtValueQuotedString, In

-----------------------------------------------------------------------------
(* The end of the line.                                                    *)

(* A step at the LF that keeps state and cr and takes a slice in bounds.   *)
LEMMA EndInv ==
    ASSUME Inv, NEW b \in Bytes, Feed(b), b = "lf", cr,
           result' \in {"some", "BadChunkSize"},
           UNCHANGED <<state, cr, sizeStart>>,
           ext' \in [nameStart : Scanned', nameEnd : Scanned',
                     valStart : Scanned' \cup {Len(bytes') + 1},
                     valEnd : Scanned'],
           hdr' \in [zero : BOOLEAN, lineLen : Scanned', ieof : BOOLEAN],
           slice' \in Nat \X Int,
           slice'[1] >= 1, slice'[1] <= slice'[2] + 1,
           slice'[2] <= Len(bytes) + 1,
           result' = "some" => hdr'.lineLen = Idx
    PROVE  Inv'
<1>1. /\ Len(bytes') = Len(bytes) + 1 /\ bytes' # <<>> /\ Len(bytes) \in Nat
      /\ bytes'[Len(bytes) + 1] = "lf" /\ result = "none"
      /\ \A n \in 1 .. Len(bytes) : bytes'[n] = bytes[n]
    BY Fields, Appended
<1>2. bytes # <<>> /\ Len(bytes) >= 1 /\ bytes[Len(bytes)] = "cr"
    BY <1>1, Fields, EmptySeq DEF Inv, ScanInv
<1>3. TypeOK'
    BY FeedKeepsTypes DEF Inv, TypeOK, Results
<1>4. ScanInv'
    BY <1>1 DEF Inv, ScanInv
<1>5. LineEndsAtLineLen'
    BY <1>1, <1>2 DEF LineEndsAtLineLen, Idx
<1> QED BY <1>3, <1>4, <1>5 DEF Inv

(* The four ends of a line keep the invariant.                             *)
LEMMA LineEndsInv ==
    ASSUME Inv, Feed("lf"), "lf" \in Bytes, cr,
           SizeEnds \/ NameEndsLine \/ ValueEndsLine \/ DelimiterEndsLine
    PROVE  Inv'
<1>1. /\ result = "none" /\ Len(bytes) \in Nat /\ Idx = Len(bytes) + 1
      /\ Idx \in Scanned' /\ Len(bytes) >= 1
      /\ Len(bytes) - 1 \in Scanned'
      /\ BeforeCr = Len(bytes) - 1
    <2>1. result = "none" /\ Len(bytes) \in Nat /\ Idx = Len(bytes) + 1
        BY Fields DEF Feed, Idx
    <2>2. bytes # <<>> /\ bytes \in Seq(Bytes)
        BY Fields DEF Inv, ScanInv
    <2>3. Len(bytes) >= 1
        BY <2>1, <2>2, EmptySeq
    <2>4. Scanned' = 0 .. Len(bytes) + 1
        BY FeedKeepsTypes
    <2> QED BY <2>1, <2>3, <2>4 DEF BeforeCr
<1>2. CASE SizeEnds
    <2>1. /\ slice' = <<sizeStart, BeforeCr>> /\ state = "Size"
          /\ UNCHANGED <<state, cr, sizeStart>> /\ ext' = ext
        BY <1>2 DEF SizeEnds
    <2>2. sizeStart \in Nat /\ 1 <= sizeStart /\ sizeStart <= Len(bytes) - 1
        BY <1>1, <2>1, SizeSlice, Fields
    <2>3. /\ slice' \in Nat \X Int /\ slice'[1] >= 1
          /\ slice'[1] <= slice'[2] + 1 /\ slice'[2] <= Len(bytes) + 1
        BY <1>1, <2>1, <2>2
    <2>4. ext' \in [nameStart : Scanned', nameEnd : Scanned',
                    valStart : Scanned' \cup {Len(bytes') + 1},
                    valEnd : Scanned']
        BY <2>1, FeedKeepsTypes
    <2> DEFINE z == IsZero(Digits(sizeStart, BeforeCr))
    <2>5. z \in BOOLEAN
        BY DEF IsZero
    <2>6. \/ result' = "BadChunkSize" /\ hdr' = hdr
          \/ /\ result' = "some"
             /\ hdr' = [zero |-> z, lineLen |-> Idx, ieof |-> FALSE]
        BY <1>2 DEF SizeEnds
    <2>7. hdr \in [zero : BOOLEAN, lineLen : Scanned', ieof : BOOLEAN]
        BY FeedKeepsTypes
    <2> HIDE DEF z
    <2>8. /\ hdr' \in [zero : BOOLEAN, lineLen : Scanned', ieof : BOOLEAN]
          /\ result' = "some" => hdr'.lineLen = Idx
        <3>1. CASE result' = "BadChunkSize" /\ hdr' = hdr
            BY <2>7, <3>1
        <3>2. CASE /\ result' = "some"
                   /\ hdr' = [zero |-> z, lineLen |-> Idx, ieof |-> FALSE]
            <4> DEFINE n == Idx
            <4>1. n \in Scanned' /\ z \in BOOLEAN
                BY <1>1, <2>5
            <4>2. hdr' = [zero |-> z, lineLen |-> n, ieof |-> FALSE]
                BY <3>2
            <4> HIDE DEF n
            <4>3. hdr' \in [zero : BOOLEAN, lineLen : Scanned', ieof : BOOLEAN]
                BY <4>1, <4>2
            <4>4. hdr'.lineLen = Idx
                BY <4>2 DEF n
            <4> QED BY <4>3, <4>4
        <3> QED BY <2>6, <3>1, <3>2
    <2>9. result' \in {"some", "BadChunkSize"}
        BY <2>6
    <2> QED BY <2>1, <2>3, <2>4, <2>8, <2>9, EndInv
<1>3. CASE NameEndsLine
    <2> DEFINE e == [ext EXCEPT !.nameEnd = BeforeCr]
    <2>1. /\ CheckIeof(e, Idx) /\ ext' = e /\ Ends /\ state = "ExtName"
        BY <1>3 DEF NameEndsLine
    <2>2. /\ e.nameStart = ext.nameStart /\ e.nameEnd = Len(bytes) - 1
          /\ e \in [nameStart : Scanned', nameEnd : Scanned',
                    valStart : Scanned' \cup {Len(bytes') + 1},
                    valEnd : Scanned']
        BY <1>1, FeedKeepsTypes
    <2> HIDE DEF e
    <2>3. hdr' \in [zero : BOOLEAN, lineLen : Scanned', ieof : BOOLEAN]
        BY <1>1, <2>1, CheckIeofHdr
    <2>4. /\ slice' = <<e.nameStart, e.nameEnd>>
          /\ hdr' = [hdr EXCEPT !.ieof = @ \/ Name(e) = Ieof, !.lineLen = Idx]
        BY <2>1, Zenon DEF CheckIeof
    <2>5. hdr'.lineLen = Idx
        <3> DEFINE v == hdr.ieof \/ Name(e) = Ieof
        <3>1. hdr' = [hdr EXCEPT !.ieof = v, !.lineLen = Idx]
            BY <2>4, Zenon
        <3>2. hdr \in [zero : BOOLEAN, lineLen : Scanned', ieof : BOOLEAN]
            BY FeedKeepsTypes
        <3> HIDE DEF v
        <3> QED BY <3>1, <3>2
    <2>6. /\ ext.nameStart \in Nat /\ 1 <= ext.nameStart
          /\ ext.nameStart <= Len(bytes) - 1
        BY <1>1, <2>1, ExtSlices
    <2>7. /\ slice' \in Nat \X Int /\ slice'[1] >= 1
          /\ slice'[1] <= slice'[2] + 1 /\ slice'[2] <= Len(bytes) + 1
        BY <1>1, <2>2, <2>4, <2>6
    <2>8. result' = "some" /\ UNCHANGED <<state, cr, sizeStart>>
        BY <2>1 DEF Ends
    <2>9. ext' \in [nameStart : Scanned', nameEnd : Scanned',
                    valStart : Scanned' \cup {Len(bytes') + 1},
                    valEnd : Scanned']
        BY <2>1, <2>2
    <2> QED BY <2>3, <2>5, <2>7, <2>8, <2>9, EndInv
<1>4. CASE ValueEndsLine
    <2>1. /\ ext' = [ext EXCEPT !.valEnd = BeforeCr]
          /\ slice' = <<ext.valStart, BeforeCr>>
          /\ hdr' = [hdr EXCEPT !.lineLen = Idx]
          /\ result' = "some" /\ UNCHANGED <<state, cr, sizeStart>>
          /\ state = "ExtValueToken"
        BY <1>4 DEF ValueEndsLine, Ends
    <2>2. ext' \in [nameStart : Scanned', nameEnd : Scanned',
                    valStart : Scanned' \cup {Len(bytes') + 1},
                    valEnd : Scanned']
        BY <1>1, <2>1, FeedKeepsTypes
    <2>3. /\ hdr' \in [zero : BOOLEAN, lineLen : Scanned', ieof : BOOLEAN]
          /\ hdr'.lineLen = Idx
        BY <1>1, <2>1, FeedKeepsTypes
    <2>4. /\ ext.valStart \in Nat /\ 1 <= ext.valStart
          /\ ext.valStart <= Len(bytes) - 1
        BY <1>1, <2>1, ExtSlices
    <2>5. /\ slice' \in Nat \X Int /\ slice'[1] >= 1
          /\ slice'[1] <= slice'[2] + 1 /\ slice'[2] <= Len(bytes) + 1
        BY <1>1, <2>1, <2>4
    <2> QED BY <2>1, <2>2, <2>3, <2>5, EndInv
<1>5. CASE DelimiterEndsLine
    <2>1. /\ hdr' = [hdr EXCEPT !.lineLen = Idx] /\ ext' = ext
          /\ slice' = slice
          /\ result' = "some" /\ UNCHANGED <<state, cr, sizeStart>>
        BY <1>5 DEF DelimiterEndsLine, Ends
    <2>2. /\ hdr' \in [zero : BOOLEAN, lineLen : Scanned', ieof : BOOLEAN]
          /\ hdr'.lineLen = Idx
        BY <1>1, <2>1, FeedKeepsTypes
    <2>3. ext' \in [nameStart : Scanned', nameEnd : Scanned',
                    valStart : Scanned' \cup {Len(bytes') + 1},
                    valEnd : Scanned']
        BY <2>1, FeedKeepsTypes
    <2>4. /\ slice' \in Nat \X Int /\ slice'[1] >= 1
          /\ slice'[1] <= slice'[2] + 1 /\ slice'[2] <= Len(bytes) + 1
        BY <2>1, SliceKept
    <2> QED BY <2>1, <2>2, <2>3, <2>4, EndInv
<1> QED BY <1>2, <1>3, <1>4, <1>5

(* Every step keeps the invariant.                                         *)
LEMMA StepInv ==
    ASSUME Inv, [Next]_vars PROVE Inv'
<1>1. ASSUME NEW b \in Bytes, Scan(b) PROVE Inv'
    <2>1. CASE AfterCr(b)
        <3>1. CASE /\ b = "lf"
                   /\ SizeEnds \/ NameEndsLine \/ ValueEndsLine
                        \/ DelimiterEndsLine
            BY <2>1, <3>1, LineEndsInv DEF AfterCr
        <3>2. CASE Bail
            BY <2>1, <3>2, BailInv DEF AfterCr
        <3> QED BY <2>1, <3>1, <3>2 DEF AfterCr
    <2> QED BY <1>1, <2>1, SizeStep, WaitingDelimiterStep, WaitingExtNameStep,
               ExtNameStep, WaitingExtDelimiterStep, WaitingExtValueStep,
               ExtValueStep DEF Scan
<1>2. CASE UNCHANGED vars
    BY <1>2 DEF vars, Inv, TypeOK, Scanned, ScanInv, BeforeEnd,
                LineEndsAtLineLen
<1> QED BY <1>1, <1>2 DEF Next, Returned

-----------------------------------------------------------------------------
(* The inductive invariant holds of every buffer the scanner is fed.       *)
THEOREM Invariant == Spec => []Inv
BY InitInv, StepInv, PTL DEF Spec

(* The variables keep to their types: every position the scanner keeps     *)
(* (size_start, the ExtensionIndices, line_len) lies in what it has read.  *)
THEOREM TypeCorrect == Spec => []TypeOK
<1>1. Inv => TypeOK
    BY DEF Inv
<1> QED BY <1>1, Invariant, PTL

(* decode_chunk_header takes no slice out of bounds, whatever it is fed:   *)
(* bytes[size_start..=size_end], name(), value() and bytes[idx - 1] do not *)
(* panic.                                                                  *)
THEOREM NoSliceOutOfBounds == Spec => []SlicesInBounds
<1>1. Inv => SlicesInBounds
    BY DEF Inv, ScanInv, SlicesInBounds
<1> QED BY <1>1, Invariant, PTL

(* line_len is the place after the CRLF, so that Connection takes the body *)
(* of the chunk to begin right after the line.                             *)
THEOREM LineLenIsLineEnd == Spec => []LineEndsAtLineLen
<1>1. Inv => LineEndsAtLineLen
    BY DEF Inv
<1> QED BY <1>1, Invariant, PTL

-----------------------------------------------------------------------------
(***************************************************************************)
(* That the scanner of module ChunkHeader accepts lines of the grammar and *)
(* nothing else, waits only for what can become one, and rejects only what *)
(* cannot.                                                                 *)
(*                                                                         *)
(* The grammar cuts a line at some of its semicolons, and a quoted string  *)
(* may hold others.  The scanner goes from left to right and knows at each *)
(* semicolon whether it cuts.  So the invariant, LineRead, says that there *)
(* are cuts C of what has been read such that every piece between two of   *)
(* them is in order, and what the piece behind the last one is in the      *)
(* middle of.  Each property follows from it:                              *)
(*   - at the end of the line C is a parse of it, and the only one, which  *)
(*     ieof needs: where two parses differ first, a piece of one would be  *)
(*     the beginning of a piece of the other;                              *)
(*   - before that, each state has bytes that make a line of what has been *)
(*     read;                                                               *)
(*   - any line that begins so is cut at C as far as it has been read, by  *)
(*     the same argument, and the piece at hand goes on with the bytes the *)
(*     scanner takes, or ends where it may.                                *)
(***************************************************************************)
(* The invariant.                                                          *)

(* Where the content of the line ends: before the CR, if it has been read. *)
Content == IF result = "some" THEN Len(bytes) - 2 ELSE BeforeEnd

(* The digits of the size lie from a to b, before the first of the cuts C. *)
SizeRead(t, n, C, a, b, zero) ==
    /\ 1 <= a /\ a <= b /\ b <= n
    /\ All(t, Spht, 1, a - 1) /\ All(t, Hex, a, b)
    /\ \A c \in C : b < c
    /\ \A x \in b + 1 .. n : (\A c \in C : x < c) => t[x] \in Spht
    /\ zero <=> \A x \in a .. b : t[x] = "0"
    /\ \A x \in a .. b : t[x] # "0" => b - x < MaxDigits

(* No cut lies between p and q; then what does is an extension.            *)
NextTo(C, p, q) == p < q /\ \A c \in C : c <= p \/ q <= c

PiecesRead(t, C) ==
    \A p, q \in C : NextTo(C, p, q) => IsExt(t, p + 1, q - 1)

(* The name of the extension after the cut o, and its "=" at e.            *)
NameRead(t, n, o, x) ==
    /\ o < x.nameStart /\ x.nameStart <= x.nameEnd /\ x.nameEnd < n
    /\ All(t, Spht, o + 1, x.nameStart - 1)
    /\ All(t, Token, x.nameStart, x.nameEnd)
    /\ t[x.nameEnd + 1] \notin Token

EqualsRead(t, n, o, x, e) ==
    /\ NameRead(t, n, o, x)
    /\ x.nameEnd < e /\ e <= n
    /\ t[e] = "=" /\ All(t, Spht, x.nameEnd + 1, e - 1)

(* That extension as far as it has been read, in each state.               *)
TokenRead(t, n, o, x) ==
    \E e \in 1 .. n :
        /\ EqualsRead(t, n, o, x, e)
        /\ e < x.valStart /\ x.valStart <= n
        /\ All(t, Spht, e + 1, x.valStart - 1)
        /\ All(t, Token, x.valStart, n)

QuoteRead(t, n, o, x) ==
    \E e, a \in 1 .. n :
        /\ EqualsRead(t, n, o, x, e)
        /\ e < a /\ x.valStart = a + 1
        /\ All(t, Spht, e + 1, a - 1) /\ t[a] = "quote"
        /\ \A i \in a + 1 .. n :
              t[i] \in Text \ {"quote"} \/ t[i - 1] = "backslash"

(* It has a value, and that is over: a token ends with the blank behind it.*)
ValueRead(t, n, o) ==
    \E e \in o + 1 .. n : \E a, b \in e + 1 .. n :
        /\ t[e] = "=" /\ Word(t, Token, o + 1, e - 1)
        /\ Padded(t, e + 1, n, a, b)
        /\ Quoted(t, a, b) \/ (All(t, Token, a, b) /\ b < n)

(* All of this by the state s, which is "over" at the end of the line.     *)
ExtRead(t, n, o, s, x) ==
    /\ s \notin {"WaitingDelimiter", "over"} => o # 0
    /\ s = "over" /\ o # 0 => IsExt(t, o + 1, n)
    /\ s = "WaitingDelimiter" =>
          IF o = 0 THEN t[n] \in Spht ELSE ValueRead(t, n, o)
    /\ s = "WaitingExtName" => All(t, Spht, o + 1, n)
    /\ s = "ExtName" =>
          /\ o < x.nameStart /\ x.nameStart <= n
          /\ All(t, Spht, o + 1, x.nameStart - 1)
          /\ All(t, Token, x.nameStart, n)
    /\ s = "WaitingExtDelimiter" =>
          NameRead(t, n, o, x) /\ All(t, Spht, x.nameEnd + 1, n)
    /\ s = "WaitingExtValue" =>
          \E e \in 1 .. n : EqualsRead(t, n, o, x, e) /\ All(t, Spht, e + 1, n)
    /\ s = "ExtValueToken" => TokenRead(t, n, o, x)
    /\ s = "ExtValueQuotedString" => QuoteRead(t, n, o, x)

(* The names behind the cuts D have been compared with ieof: each is over. *)
NameOver(t, p) == \E i \in p + 1 .. Len(t) - 1 : t[i] \notin Spht

(* It is ieof.                                                             *)
IeofAt(t, p) ==
    \E i \in p + 1 .. Len(t) - 1 :
        t[i] = "i" /\ All(t, Spht, p + 1, i - 1) /\ t[i + 1] \notin Token

NamesRead(t, D, ieof) ==
    /\ \A p \in D : NameOver(t, p)
    /\ ieof <=> \E p \in D : IeofAt(t, p)

Cuts(t, n) == {p \in 1 .. n : t[p] = ";"}

(* What has been read of t, up to n, is a size, extensions between the     *)
(* cuts C, of which o is the last, and the beginning of another.           *)
CutAt(t, n, C, o) ==
    /\ C \in SUBSET Cuts(t, n) /\ o \in C \cup {0} /\ \A c \in C : c <= o
    /\ PiecesRead(t, C)

Begun(t, n, C, o, zero) ==
    /\ CutAt(t, n, C, o)
    /\ \E a, b \in 1 .. n : SizeRead(t, n, C, a, b, zero)

(* The states in which the last name has not been compared yet.            *)
Unnamed == {"WaitingExtName", "ExtName"}

InExtension(t, n, s, x, zero, ieof) ==
    \E C \in SUBSET Cuts(t, n) : \E o \in C \cup {0} :
        /\ Begun(t, n, C, o, zero)
        /\ ExtRead(t, n, o, s, x)
        /\ NamesRead(t, IF s \in Unnamed THEN C \ {o} ELSE C, ieof)

(* What the scanner knows of the bytes it has read.                        *)
LineRead ==
    /\ result = "none" =>
          /\ state = "WaitingSize" => All(bytes, Spht, 1, Content)
          /\ state = "Size" => /\ sizeStart \in 1 .. Content
                               /\ All(bytes, Spht, 1, sizeStart - 1)
                               /\ All(bytes, Hex, sizeStart, Content)
          /\ state \notin {"WaitingSize", "Size"} =>
                InExtension(bytes, Content, state, ext, hdr.zero, hdr.ieof)
    /\ result = "some" =>
          InExtension(bytes, Content, "over", NoExt, hdr.zero, hdr.ieof)

(* A set of numbers that is not empty has a least one.                     *)
LEMMA Least ==
    ASSUME NEW S \in SUBSET Nat, S # {}
    PROVE  \E m \in S : \A k \in S : m <= k
<1>1. PICK R : R = OpToRel(<, Nat)
    OBVIOUS
<1>2. IsWellFoundedOn(R, Nat)
    BY <1>1, NatLessThanWellFounded
<1>3. PICK m \in S : \A k \in S : ~ (<<k, m>> \in R)
    BY <1>2, WFMin
<1>4. \A k \in S : <<k, m>> \in R <=> k < m
    BY <1>1 DEF OpToRel
<1>5. m \in Nat /\ \A k \in S : k \in Nat
    OBVIOUS
<1>6. \A k \in S : ~ (k < m)
    BY <1>3, <1>4
<1> QED BY <1>5, <1>6

-----------------------------------------------------------------------------
(* Pieces of a line.                                                       *)

(* A piece is a word whatever comes before and after it.                   *)
LEMMA SameWord ==
    ASSUME NEW t, NEW u, NEW S, NEW i \in Int, NEW j \in Int,
           \A n \in i .. j : t[n] = u[n], Word(t, S, i, j)
    PROVE  Word(u, S, i, j)
<1>1. PICK a, b \in i .. j : Padded(t, i, j, a, b) /\ All(t, S, a, b)
    BY DEF Word
<1>2. Padded(u, i, j, a, b) /\ All(u, S, a, b)
    BY <1>1 DEF Padded, All
<1> QED BY <1>2 DEF Word

(* So is a value.                                                          *)
LEMMA SameValue ==
    ASSUME NEW t, NEW u, NEW i \in Int, NEW j \in Int,
           \A n \in i .. j : t[n] = u[n], IsValue(t, i, j)
    PROVE  IsValue(u, i, j)
<1>1. CASE Word(t, Token, i, j)
    BY <1>1, SameWord DEF IsValue
<1>2. CASE \E a, b \in i .. j : Padded(t, i, j, a, b) /\ Quoted(t, a, b)
    <2>1. PICK a, b \in i .. j : Padded(t, i, j, a, b) /\ Quoted(t, a, b)
        BY <1>2
    <2>2. Padded(u, i, j, a, b)
        BY <2>1 DEF Padded, All
    <2>3. Quoted(u, a, b)
        BY <2>1 DEF Quoted
    <2> QED BY <2>2, <2>3 DEF IsValue
<1> QED BY <1>1, <1>2 DEF IsValue

(* So is an extension.                                                     *)
LEMMA SameExt ==
    ASSUME NEW t, NEW u, NEW i \in Int, NEW j \in Int,
           \A n \in i .. j : t[n] = u[n], IsExt(t, i, j)
    PROVE  IsExt(u, i, j)
<1>1. CASE Word(t, Token, i, j)
    BY <1>1, SameWord DEF IsExt
<1>2. CASE \E n \in i .. j : /\ t[n] = "=" /\ Word(t, Token, i, n - 1)
                             /\ IsValue(t, n + 1, j)
    <2>1. PICK n \in i .. j : /\ t[n] = "=" /\ Word(t, Token, i, n - 1)
                              /\ IsValue(t, n + 1, j)
        BY <1>2
    <2>2. \A m \in i .. n - 1 : t[m] = u[m]
        OBVIOUS
    <2>3. \A m \in n + 1 .. j : t[m] = u[m]
        OBVIOUS
    <2>4. Word(u, Token, i, n - 1)
        BY <2>1, <2>2, SameWord
    <2>5. IsValue(u, n + 1, j)
        BY <2>1, <2>3, SameValue
    <2> QED BY <2>1, <2>4, <2>5 DEF IsExt
<1> QED BY <1>1, <1>2 DEF IsExt

(* A word between blanks.                                                  *)
LEMMA WordIs ==
    ASSUME NEW t, NEW S, NEW i \in Int, NEW j \in Int, NEW a \in Int,
           NEW b \in Int, i <= a, a <= b, b <= j,
           All(t, Spht, i, a - 1), All(t, S, a, b), All(t, Spht, b + 1, j)
    PROVE  Word(t, S, i, j)
BY DEF Word, Padded

(* The semicolon, and what it is not.                                      *)
Semi == ";"

(* No size, name or blank has a semicolon in it.                           *)
LEMMA SemiIs == /\ Semi \notin Hex \cup Spht /\ Semi \notin Token \cup Spht
                /\ Semi \notin {"cr", "=", "quote"}
<1>1. Semi \notin Token /\ Semi \notin Hex /\ Semi \notin Spht
    BY Zenon DEF Semi, Token, Hex, Spht
<1>2. Semi \notin {"cr", "=", "quote"}
    BY Zenon DEF Semi
<1> QED BY <1>1, <1>2

(* Where the line may be cut.                                              *)
LEMMA CutsAre ==
    ASSUME NEW t, NEW n, NEW p
    PROVE  p \in Cuts(t, n) <=> p \in 1 .. n /\ t[p] = Semi
BY Zenon DEF Cuts, Semi

(* What a piece may be followed by.                                        *)
Stop == {Semi, "cr"}

(* It is in no size, name or token.                                        *)
LEMMA StopIs ==
    \A x \in Stop : x \notin Hex \cup Token \cup Spht \cup {"=", "quote"}
<1>1. "cr" \notin Hex \cup Token \cup Spht \cup {"=", "quote"}
    BY DEF Token, Hex, Spht
<1> QED BY <1>1, SemiIs DEF Stop

(* Where a word has no byte of its set, it is blank.                       *)
LEMMA WordBytes ==
    ASSUME NEW t, NEW S, NEW i \in Int, NEW j \in Int, Word(t, S, i, j)
    PROVE  /\ \A n \in i .. j : t[n] \in S \cup Spht
           /\ \E n \in i .. j : t[n] \in S
BY DEF Word, Padded, All

(* A semicolon or CR in an extension is quoted, and no quote comes before. *)
LEMMA CutIsQuoted ==
    ASSUME NEW t, NEW i \in Int, NEW j \in Int, IsExt(t, i, j),
           NEW x \in i .. j, t[x] \in Stop
    PROVE  \E a, b \in i .. j :
              /\ Quoted(t, a, b) /\ a < x /\ x < b
              /\ \A n \in i .. a - 1 : t[n] # "quote"
<1>1. /\ t[x] \notin Token \cup Spht /\ t[x] # "quote" /\ t[x] # "="
      /\ "quote" \notin Token \cup Spht
    BY StopIs DEF Token, Hex, Spht
<1>2. ~ Word(t, Token, i, j)
    BY <1>1, WordBytes
<1>3. PICK e \in i .. j : /\ t[e] = "=" /\ Word(t, Token, i, e - 1)
                          /\ IsValue(t, e + 1, j)
    BY <1>2 DEF IsExt
<1>4. \A n \in i .. e - 1 : t[n] \in Token \cup Spht
    BY <1>3, WordBytes
<1>5. x \in e + 1 .. j
    BY <1>1, <1>3, <1>4
<1>6. ~ Word(t, Token, e + 1, j)
    BY <1>1, <1>5, WordBytes
<1>7. PICK a, b \in e + 1 .. j : Padded(t, e + 1, j, a, b) /\ Quoted(t, a, b)
    BY <1>3, <1>6 DEF IsValue
<1>8. \A n \in e + 1 .. a - 1 : t[n] \in Spht
    BY <1>7 DEF Padded, All
<1>9. \A n \in b + 1 .. j : t[n] \in Spht
    BY <1>7 DEF Padded, All
<1>10. a < x /\ x < b
    BY <1>1, <1>5, <1>7, <1>8, <1>9 DEF Quoted
<1>11. \A n \in i .. a - 1 : t[n] # "quote"
    BY <1>1, <1>3, <1>4, <1>8
<1> QED BY <1>7, <1>10, <1>11

(* The first quote in an extension opens a quoted value.                   *)
LEMMA QuoteOpens ==
    ASSUME NEW t, NEW i \in Int, NEW j \in Int, IsExt(t, i, j),
           NEW a \in i .. j, t[a] = "quote",
           \A n \in i .. a - 1 : t[n] # "quote"
    PROVE  \E b \in i .. j : Quoted(t, a, b)
<1>1. "quote" \notin Token \cup Spht
    BY DEF Token, Hex, Spht
<1>2. ~ Word(t, Token, i, j)
    BY <1>1, WordBytes
<1>3. PICK e \in i .. j : /\ t[e] = "=" /\ Word(t, Token, i, e - 1)
                          /\ IsValue(t, e + 1, j)
    BY <1>2 DEF IsExt
<1>4. \A n \in i .. e - 1 : t[n] \in Token \cup Spht
    BY <1>3, WordBytes
<1>5. a \in e + 1 .. j
    BY <1>1, <1>3, <1>4
<1>6. ~ Word(t, Token, e + 1, j)
    BY <1>1, <1>5, WordBytes
<1>7. PICK c, b \in e + 1 .. j : Padded(t, e + 1, j, c, b) /\ Quoted(t, c, b)
    BY <1>3, <1>6 DEF IsValue
<1>8. \A n \in e + 1 .. c - 1 : t[n] \in Spht
    BY <1>7 DEF Padded, All
<1>9. t[c] = "quote"
    BY <1>7 DEF Quoted
<1>10. c = a
    BY <1>1, <1>5, <1>8, <1>9
<1> QED BY <1>7, <1>10

(* What lies between the cuts p and q is in order.                         *)
IsPiece(t, p, q) == IF p = 0 THEN Word(t, Hex, 1, q - 1)
                             ELSE IsExt(t, p + 1, q - 1)

(* No piece is the beginning of another, up to a semicolon or CR in it.    *)
LEMMA OnePiece ==
    ASSUME NEW t, NEW p \in Nat, NEW x \in Nat, NEW q \in Nat,
           p < x, x < q, t[x] \in Stop, IsPiece(t, p, q)
    PROVE  ~ IsPiece(t, p, x)
<1>1. CASE p = 0
    <2>1. x \in 1 .. q - 1 /\ t[x] \notin Hex \cup Spht
        BY <1>1, StopIs
    <2> QED BY <1>1, <2>1, WordBytes DEF IsPiece
<1>2. CASE p # 0
    <2> SUFFICES ASSUME IsExt(t, p + 1, x - 1) PROVE FALSE
        BY <1>2 DEF IsPiece
    <2>1. IsExt(t, p + 1, q - 1) /\ x \in p + 1 .. q - 1
        BY <1>2 DEF IsPiece
    <2>2. PICK a, b \in p + 1 .. q - 1 :
             /\ Quoted(t, a, b) /\ a < x /\ x < b
             /\ \A n \in p + 1 .. a - 1 : t[n] # "quote"
        BY <2>1, CutIsQuoted
    <2>3. a \in p + 1 .. x - 1 /\ t[a] = "quote"
        BY <2>2 DEF Quoted
    <2>4. PICK c \in p + 1 .. x - 1 : Quoted(t, a, c)
        BY <2>2, <2>3, QuoteOpens
    <2>5. c \in a + 1 .. b - 1
        BY <2>2, <2>4 DEF Quoted
    <2> QED BY <2>2, <2>4, <2>5 DEF Quoted
<1> QED BY <1>1, <1>2

-----------------------------------------------------------------------------
(* Cuts.                                                                   *)

(* The greatest of some numbers below a bound.                             *)
LEMMA Greatest ==
    ASSUME NEW n \in Nat, NEW S \in SUBSET (0 .. n), S # {}
    PROVE  \E m \in S : \A k \in S : k <= m
<1>0. \A k \in S : k \in Int /\ n - k \in Nat
    OBVIOUS
<1>1. {n - k : k \in S} \in SUBSET Nat /\ {n - k : k \in S} # {}
    BY <1>0
<1>2. PICK d \in {n - k : k \in S} : \A e \in {n - k : k \in S} : d <= e
    BY <1>1, Least
<1>3. PICK m \in S : d = n - m
    BY <1>2
<1>4. \A k \in S : n - m <= n - k
    BY <1>2, <1>3
<1>5. m \in Int /\ n \in Int
    BY <1>0
<1>6. ASSUME NEW k \in S PROVE k <= m
    BY <1>0, <1>4, <1>5
<1> QED BY <1>6

(* Every cut but the last is followed by one.                              *)
LEMMA NextExists ==
    ASSUME NEW E \in Nat, NEW C \in SUBSET (1 .. E), NEW p \in Nat, p < E
    PROVE  \E q \in C \cup {E} : NextTo(C, p, q)
<1> DEFINE S == {c \in C \cup {E} : p < c}
<1>0. \A c \in C \cup {E} : c \in Nat
    OBVIOUS
<1>1. S \in SUBSET Nat /\ E \in S
    <2>1. E \in S
        OBVIOUS
    <2>2. \A c \in S : c \in Nat
        BY <1>0
    <2> QED BY <2>1, <2>2
<1>2. PICK q \in S : \A c \in S : q <= c
    BY <1>1, Least
<1> QED BY <1>2 DEF NextTo

(* NextCut is the cut that follows, or the end of the line.                *)
LEMMA NextCutIs ==
    ASSUME NEW t, Len(t) \in Nat, NEW C \in SUBSET (1 .. Len(t)),
           NEW p \in Nat,
           NEW q \in C \cup {Len(t) + 1}, NextTo(C, p, q)
    PROVE  NextCut(t, C, p) = q
<1> DEFINE S == {c \in C \cup {Len(t) + 1} : c > p}
<1>1. q \in S /\ \A d \in S : q <= d
    BY DEF NextTo
<1>2. NextCut(t, C, p) = CHOOSE c \in S : \A d \in S : c <= d
    BY DEF NextCut
<1>3. \A c \in S : c \in Nat
    OBVIOUS
<1>4. PICK r \in S : r = NextCut(t, C, p) /\ \A d \in S : r <= d
    BY <1>1, <1>2
<1> QED BY <1>1, <1>3, <1>4

(* The parses of a line are the ways to cut it into pieces in order.       *)
LEMMA ParsesArePieces ==
    ASSUME NEW t, Len(t) \in Nat, DOMAIN t = 1 .. Len(t), NEW C
    PROVE  C \in Parses(t) <=>
              /\ C \in SUBSET Cuts(t, Len(t))
              /\ \A p \in C \cup {0} : \A q \in C \cup {Len(t) + 1} :
                    NextTo(C, p, q) => IsPiece(t, p, q)
<1> DEFINE n == Len(t)
<1>1. Cuts(t, n) = {p \in DOMAIN t : t[p] = ";"}
    BY Zenon DEF Cuts
<1>2. ASSUME C \in SUBSET Cuts(t, n)
      PROVE  /\ C \in SUBSET (1 .. n) /\ C \in SUBSET (1 .. n + 1)
             /\ 0 \notin C
    <2>1. \A p \in C : p \in 1 .. n
        BY <1>2, CutsAre
    <2> QED BY <2>1
<1>3. ASSUME C \in SUBSET Cuts(t, n), NEW p \in C \cup {0},
             NEW q \in C \cup {n + 1}, NextTo(C, p, q)
      PROVE  NextCut(t, C, p) = q
    <2>1. p \in Nat /\ C \in SUBSET (1 .. n)
        BY <1>2, <1>3
    <2> QED BY <1>3, <2>1, NextCutIs
<1>4. ASSUME C \in SUBSET Cuts(t, n), NEW p \in C \cup {0}
      PROVE  \E q \in C \cup {n + 1} : NextTo(C, p, q)
    <2>1. PICK E \in Nat : E = n + 1
        OBVIOUS
    <2>2. p \in Nat /\ p < E /\ C \in SUBSET (1 .. E)
        BY <1>2, <1>4, <2>1
    <2>3. \E q \in C \cup {E} : NextTo(C, p, q)
        BY <2>2, NextExists
    <2> QED BY <2>1, <2>3
<1>5. ASSUME C \in SUBSET Cuts(t, n)
      PROVE  (/\ Word(t, Hex, 1, NextCut(t, C, 0) - 1)
              /\ \A p \in C : IsExt(t, p + 1, NextCut(t, C, p) - 1))
             <=> \A p \in C \cup {0} : IsPiece(t, p, NextCut(t, C, p))
    BY <1>2, <1>5 DEF IsPiece
<1>6. ASSUME C \in SUBSET Cuts(t, n)
      PROVE  (\A p \in C \cup {0} : IsPiece(t, p, NextCut(t, C, p)))
             <=> \A p \in C \cup {0} : \A q \in C \cup {n + 1} :
                    NextTo(C, p, q) => IsPiece(t, p, q)
    BY <1>3, <1>4, <1>6
<1> QED BY <1>1, <1>5, <1>6 DEF Parses

(* Where two ways to cut differ first, the one has a piece that ends there *)
(* and the other one has none.                                             *)
LEMMA NoDifference ==
    ASSUME NEW t, NEW E \in Nat, NEW C \in SUBSET (1 .. E),
           NEW D \in SUBSET Nat, 0 \notin D, NEW x \in D, x < E, x \notin C,
           \A y \in 1 .. x - 1 : y \in C <=> y \in D,
           \A p \in D \cup {0} : NextTo(D, p, x) => IsPiece(t, p, x),
           \A p \in C \cup {0} : \A q \in C \cup {E} :
              NextTo(C, p, q) /\ p < x /\ x < q => ~ IsPiece(t, p, x)
    PROVE  FALSE
<1> DEFINE S == {y \in D \cup {0} : y < x}
<1>0. x \in Nat /\ x # 0 /\ \A y \in D \cup {0} : y \in Nat
    OBVIOUS
<1>1. S \in SUBSET (0 .. x) /\ 0 \in S /\ x \in Nat
    <2>1. 0 \in S
        BY <1>0
    <2>2. \A y \in S : y \in 0 .. x
        BY <1>0
    <2> QED BY <1>0, <2>1, <2>2
<1>2. PICK p \in S : \A y \in S : y <= p
    BY <1>1, Greatest
<1>3. p \in D \cup {0} /\ p \in Nat /\ p < x /\ NextTo(D, p, x)
    BY <1>2 DEF NextTo
<1>4. p \in C \cup {0}
    BY <1>3
<1>5. PICK q \in C \cup {E} : NextTo(C, p, q)
    <2>1. p \in Nat /\ p < E
        BY <1>1, <1>3
    <2> QED BY <2>1, NextExists
<1>6. q \in Nat /\ p < q /\ q # x
    BY <1>5 DEF NextTo
<1>7. ~ (q < x)
    <2> SUFFICES ASSUME q < x PROVE FALSE
        OBVIOUS
    <2>1. q \in C /\ q \in 1 .. x - 1
        BY <1>5, <1>6
    <2>2. q \in S
        BY <2>1
    <2> QED BY <1>2, <1>3, <1>6, <2>2
<1>8. x < q
    BY <1>0, <1>6, <1>7
<1> QED BY <1>3, <1>4, <1>5, <1>8

(* A line has one parse at most.                                           *)
LEMMA OneParse ==
    ASSUME NEW t, Len(t) \in Nat, DOMAIN t = 1 .. Len(t),
           NEW C \in Parses(t), NEW D \in Parses(t)
    PROVE  C = D
<1> DEFINE n == Len(t)
           Differ == {x \in C \cup D : ~ (x \in C /\ x \in D)}
<1> SUFFICES ASSUME C # D PROVE FALSE
    OBVIOUS
<1>1. PICK E \in Nat : E = n + 1
    OBVIOUS
<1>2. /\ C \in SUBSET Cuts(t, n) /\ D \in SUBSET Cuts(t, n)
      /\ \A p \in C \cup {0} : \A q \in C \cup {E} :
            NextTo(C, p, q) => IsPiece(t, p, q)
      /\ \A p \in D \cup {0} : \A q \in D \cup {E} :
            NextTo(D, p, q) => IsPiece(t, p, q)
    BY <1>1, ParsesArePieces
<1>3. \A x \in C \cup D : x \in 1 .. n /\ x \in Nat /\ t[x] = Semi
    BY <1>2, CutsAre
<1>4. Differ \in SUBSET Nat /\ Differ # {}
    BY <1>3
<1>5. PICK x \in Differ : \A k \in Differ : x <= k
    BY <1>4, Least
<1>6. \A y \in 1 .. x - 1 : y \in C <=> y \in D
    <2> SUFFICES ASSUME NEW y \in 1 .. x - 1, ~ (y \in C <=> y \in D)
                 PROVE  FALSE
        OBVIOUS
    <2>1. y \in Differ /\ y < x /\ x \in Nat
        BY <1>4, <1>5
    <2> QED BY <1>5, <2>1
<1>7. /\ C \in SUBSET (1 .. E) /\ D \in SUBSET (1 .. E)
      /\ C \in SUBSET Nat /\ D \in SUBSET Nat /\ 0 \notin C /\ 0 \notin D
    BY <1>1, <1>3
<1>8. x \in Nat /\ x < E /\ t[x] \in Stop
    BY <1>1, <1>3, <1>5 DEF Stop
<1>9. ASSUME NEW F \in SUBSET (1 .. E),
             \A p \in F \cup {0} : \A q \in F \cup {E} :
                NextTo(F, p, q) => IsPiece(t, p, q)
      PROVE  \A p \in F \cup {0} : \A q \in F \cup {E} :
                NextTo(F, p, q) /\ p < x /\ x < q => ~ IsPiece(t, p, x)
    <2> TAKE p \in F \cup {0}
    <2> TAKE q \in F \cup {E}
    <2>1. p \in Nat /\ q \in Nat
        OBVIOUS
    <2> QED BY <1>8, <1>9, <2>1, OnePiece
<1>10. CASE x \in D /\ x \notin C
    <2>1. \A p \in C \cup {0} : \A q \in C \cup {E} :
             NextTo(C, p, q) /\ p < x /\ x < q => ~ IsPiece(t, p, x)
        BY <1>2, <1>7, <1>9
    <2>2. \A p \in D \cup {0} : NextTo(D, p, x) => IsPiece(t, p, x)
        BY <1>2, <1>10
    <2> QED BY <1>6, <1>7, <1>8, <1>10, <2>1, <2>2, NoDifference, ZenonT(90)
<1>11. CASE x \in C /\ x \notin D
    <2>1. \A p \in D \cup {0} : \A q \in D \cup {E} :
             NextTo(D, p, q) /\ p < x /\ x < q => ~ IsPiece(t, p, x)
        BY <1>2, <1>7, <1>9
    <2>2. \A p \in C \cup {0} : NextTo(C, p, x) => IsPiece(t, p, x)
        BY <1>2, <1>11
    <2>3. \A y \in 1 .. x - 1 : y \in D <=> y \in C
        BY <1>6
    <2> QED BY <1>7, <1>8, <1>11, <2>1, <2>2, <2>3, NoDifference, ZenonT(60)
<1> QED BY <1>5, <1>10, <1>11

(* The bytes up to n are the same.                                         *)
Agree(t, u, n) == \A i \in 1 .. n : u[i] = t[i]

(* They are cut at the same places.                                        *)
LEMMA SameCuts ==
    ASSUME NEW t, NEW u, NEW n \in Nat, Agree(t, u, n)
    PROVE  Cuts(t, n) = Cuts(u, n)
<1>1. \A p : p \in Cuts(t, n) <=> p \in 1 .. n /\ t[p] = Semi
    BY CutsAre
<1>2. \A p : p \in Cuts(u, n) <=> p \in 1 .. n /\ u[p] = Semi
    BY CutsAre
<1>3. \A p : p \in Cuts(t, n) <=> p \in Cuts(u, n)
    BY <1>1, <1>2 DEF Agree
<1> QED BY <1>3, Zenon DEF Cuts

(* What has been read of a line has been read of one that goes on.         *)
LEMMA CutsKept ==
    ASSUME NEW t, NEW u, NEW n \in Nat, Agree(t, u, n), NEW C, NEW o,
           CutAt(t, n, C, o)
    PROVE  CutAt(u, n, C, o) /\ CutAt(u, n + 1, C, o)
<1>1. \A c \in C : /\ c \in 1 .. n /\ c \in 1 .. n + 1
                   /\ t[c] = Semi /\ u[c] = Semi
    BY CutsAre DEF CutAt, Agree
<1>2. C \in SUBSET Cuts(u, n) /\ C \in SUBSET Cuts(u, n + 1)
    BY <1>1, CutsAre
<1>3. ASSUME NEW p \in C, NEW q \in C, NextTo(C, p, q)
      PROVE  IsExt(u, p + 1, q - 1)
    <2>1. IsExt(t, p + 1, q - 1)
        BY <1>3 DEF CutAt, PiecesRead
    <2>2. p \in 1 .. n /\ q \in 1 .. n
        BY <1>1
    <2>3. \A i \in p + 1 .. q - 1 : t[i] = u[i]
        BY <2>2 DEF Agree
    <2>4. p + 1 \in Int /\ q - 1 \in Int
        BY <2>2
    <2> QED BY <2>1, <2>3, <2>4, SameExt
<1> QED BY <1>2, <1>3 DEF CutAt, PiecesRead

(* So it has of another that begins the same.                              *)
LEMMA BegunKept ==
    ASSUME NEW t, NEW u, NEW n \in Nat, Agree(t, u, n), NEW C, NEW o, NEW z,
           Begun(t, n, C, o, z)
    PROVE  Begun(u, n, C, o, z)
<1>1. CutAt(u, n, C, o)
    BY CutsKept DEF Begun
<1>2. PICK a, b \in 1 .. n : SizeRead(t, n, C, a, b, z)
    BY DEF Begun
<1>3. SizeRead(u, n, C, a, b, z)
    BY <1>2 DEF SizeRead, All, Agree
<1> QED BY <1>1, <1>3 DEF Begun

(* It goes on with any byte of an extension, or a blank after the size.    *)
LEMMA BegunOn ==
    ASSUME NEW t, NEW u, NEW n \in Nat, Agree(t, u, n), NEW C, NEW o, NEW z,
           Begun(t, n, C, o, z), o # 0 \/ u[n + 1] \in Spht
    PROVE  Begun(u, n + 1, C, o, z)
<1>1. CutAt(u, n + 1, C, o)
    BY CutsKept DEF Begun
<1>2. PICK a, b \in 1 .. n : SizeRead(t, n, C, a, b, z)
    BY DEF Begun
<1>3. o \in C \cup {0} /\ \A c \in C : c \in 1 .. n
    BY CutsAre DEF Begun, CutAt
<1>4. ASSUME NEW x \in b + 1 .. n + 1, \A c \in C : x < c
      PROVE  u[x] \in Spht
    <2>1. CASE x = n + 1
        BY <1>3, <1>4, <2>1
    <2>2. CASE x # n + 1
        BY <1>2, <1>4, <2>2 DEF SizeRead, Agree
    <2> QED BY <2>1, <2>2
<1>5. SizeRead(u, n + 1, C, a, b, z)
    BY <1>2, <1>4 DEF SizeRead, All, Agree
<1> QED BY <1>1, <1>5 DEF Begun

(* A semicolon after a size or an extension in order is a cut.             *)
LEMMA BegunCut ==
    ASSUME NEW t, NEW u, NEW n \in Nat, Agree(t, u, n), NEW C, NEW o, NEW z,
           Begun(t, n, C, o, z), u[n + 1] = Semi,
           o # 0 => IsExt(t, o + 1, n)
    PROVE  Begun(u, n + 1, C \cup {n + 1}, n + 1, z)
<1> DEFINE m == n + 1
           D == C \cup {m}
<1>1. CutAt(u, n + 1, C, o)
    BY CutsKept DEF Begun
<1>2. /\ o \in C \cup {0} /\ o \in 0 .. n
      /\ \A c \in C : c \in 1 .. n /\ c <= o
    BY CutsAre DEF Begun, CutAt
<1>3. D \in SUBSET Cuts(u, n + 1)
    BY <1>1, CutsAre DEF CutAt
<1>4. ASSUME NEW p \in D, NEW q \in D, NextTo(D, p, q)
      PROVE  IsExt(u, p + 1, q - 1)
    <2>1. CASE p \in C /\ q \in C
        BY <1>1, <1>4, <2>1 DEF CutAt, PiecesRead, NextTo
    <2>2. CASE q = m
        <3>1. p \in C /\ p < m
            BY <1>4, <2>2, <1>2 DEF NextTo
        <3>2. p = o
            BY <1>2, <1>4, <2>2, <3>1 DEF NextTo
        <3>3. IsExt(t, o + 1, n) /\ o + 1 \in Int /\ n \in Int
            BY <1>2, <3>1, <3>2
        <3>4. \A i \in o + 1 .. n : t[i] = u[i]
            BY <1>2 DEF Agree
        <3>5. IsExt(u, o + 1, n)
            BY <3>3, <3>4, SameExt
        <3> QED BY <2>2, <3>2, <3>5
    <2>3. CASE p = m
        BY <1>2, <1>4, <2>3 DEF NextTo
    <2> QED BY <2>1, <2>2, <2>3
<1>5. PICK a, b \in 1 .. n : SizeRead(t, n, C, a, b, z)
    BY DEF Begun
<1>6. SizeRead(u, m, D, a, b, z)
    BY <1>5 DEF SizeRead, All, Agree
<1>7. m \in D /\ \A c \in D : c <= m
    BY <1>2
<1> QED BY <1>3, <1>4, <1>5, <1>6, <1>7 DEF Begun, CutAt, PiecesRead

(* A size between blanks.                                                  *)
LEMMA BegunSize ==
    ASSUME NEW t, NEW n \in Nat, NEW a \in 1 .. n, NEW b \in a .. n, NEW z,
           All(t, Spht, 1, a - 1), All(t, Hex, a, b), All(t, Spht, b + 1, n),
           z <=> \A x \in a .. b : t[x] = "0",
           \A x \in a .. b : t[x] # "0" => b - x < MaxDigits
    PROVE  Begun(t, n, {}, 0, z)
<1>1. SizeRead(t, n, {}, a, b, z)
    BY DEF SizeRead, All
<1>2. CutAt(t, n, {}, 0)
    BY DEF CutAt, PiecesRead
<1> QED BY <1>1, <1>2 DEF Begun

(* The positions of an extension.                                          *)
IsPlaced(x) == x.nameStart \in Int /\ x.nameEnd \in Int /\ x.valStart \in Int

-----------------------------------------------------------------------------
(* Extensions.                                                             *)

(* A name is an extension, and so is a name with a value.                  *)
LEMMA NameIsExt ==
    ASSUME NEW t, NEW n \in Nat, NEW o \in Nat, NEW x, IsPlaced(x),
           o < x.nameStart, x.nameStart <= x.nameEnd, x.nameEnd <= n,
           All(t, Spht, o + 1, x.nameStart - 1),
           All(t, Token, x.nameStart, x.nameEnd),
           All(t, Spht, x.nameEnd + 1, n)
    PROVE  IsExt(t, o + 1, n)
<1>1. Word(t, Token, o + 1, n)
    <2>1. PICK a \in Int, b \in Int : a = x.nameStart /\ b = x.nameEnd
        BY DEF IsPlaced
    <2>2. PICK i \in Int : i = o + 1
        OBVIOUS
    <2>3. i <= a /\ a <= b /\ b <= n
        BY <2>1, <2>2
    <2>4. Word(t, Token, i, n)
        BY <2>1, <2>2, <2>3, WordIs
    <2> QED BY <2>2, <2>4
<1> QED BY <1>1 DEF IsExt

(* A name, its "=" and a value are an extension.                           *)
LEMMA ValueIsExt ==
    ASSUME NEW t, NEW n \in Nat, NEW o \in Nat, NEW x, IsPlaced(x),
           NEW e \in 1 .. n, EqualsRead(t, n, o, x, e), IsValue(t, e + 1, n)
    PROVE  IsExt(t, o + 1, n)
<1>1. /\ o < x.nameStart /\ x.nameStart <= x.nameEnd /\ x.nameEnd < e
      /\ All(t, Spht, o + 1, x.nameStart - 1)
      /\ All(t, Token, x.nameStart, x.nameEnd)
      /\ All(t, Spht, x.nameEnd + 1, e - 1) /\ t[e] = "="
    BY DEF EqualsRead, NameRead
<1>2. Word(t, Token, o + 1, e - 1)
    <2>1. PICK a \in Int, b \in Int : a = x.nameStart /\ b = x.nameEnd
        BY DEF IsPlaced
    <2>2. PICK i \in Int, j \in Int : i = o + 1 /\ j = e - 1
        OBVIOUS
    <2>3. i <= a /\ a <= b /\ b <= j
        BY <1>1, <2>1, <2>2
    <2>4. Word(t, Token, i, j)
        BY <1>1, <2>1, <2>2, <2>3, WordIs
    <2> QED BY <2>2, <2>4
<1>3. e \in o + 1 .. n
    BY <1>1 DEF IsPlaced
<1> QED BY <1>1, <1>2, <1>3 DEF IsExt

(* So they are with the token that has been read.                          *)
LEMMA TokenIsExt ==
    ASSUME NEW t, NEW n \in Nat, NEW o \in Nat, NEW x, IsPlaced(x),
           TokenRead(t, n, o, x)
    PROVE  IsExt(t, o + 1, n)
<1>1. PICK e \in 1 .. n :
         /\ EqualsRead(t, n, o, x, e)
         /\ e < x.valStart /\ x.valStart <= n
         /\ All(t, Spht, e + 1, x.valStart - 1)
         /\ All(t, Token, x.valStart, n)
    BY DEF TokenRead
<1>2. PICK a \in Int, i \in Int : a = x.valStart /\ i = e + 1
    BY DEF IsPlaced
<1>3. i <= a /\ a <= n /\ All(t, Spht, n + 1, n) /\ n \in Int
    BY <1>1, <1>2 DEF All
<1>4. Word(t, Token, i, n)
    BY <1>1, <1>2, <1>3, WordIs
<1> QED BY <1>1, <1>2, <1>4, ValueIsExt DEF IsValue

(* What has been read of an extension has been read of one that goes on.   *)
LEMMA NameKept ==
    ASSUME NEW t, NEW u, NEW n \in Nat, Agree(t, u, n), NEW o \in Nat, NEW x,
           IsPlaced(x), NameRead(t, n, o, x)
    PROVE  NameRead(u, n, o, x) /\ NameRead(u, n + 1, o, x)
<1>1. PICK y \in Int, z \in Int : y = x.nameStart /\ z = x.nameEnd
    BY DEF IsPlaced
<1> QED BY <1>1 DEF NameRead, All, Agree

(* The same of a name and its "=".                                         *)
LEMMA EqualsKept ==
    ASSUME NEW t, NEW u, NEW n \in Nat, Agree(t, u, n), NEW o \in Nat, NEW x,
           IsPlaced(x), NEW e \in 1 .. n, EqualsRead(t, n, o, x, e)
    PROVE  EqualsRead(u, n, o, x, e) /\ EqualsRead(u, n + 1, o, x, e)
<1>1. PICK z \in Int : z = x.nameEnd
    BY DEF IsPlaced
<1>2. o < x.nameStart /\ x.nameStart <= x.nameEnd
    BY DEF EqualsRead, NameRead
<1>3. All(u, Spht, z + 1, e - 1) /\ u[e] = "="
    BY <1>1, <1>2 DEF EqualsRead, All, Agree, IsPlaced
<1> QED BY <1>1, <1>3, NameKept DEF EqualsRead

(* A value that is over makes an extension, with any blanks behind it.     *)
LEMMA ValueReadIsExt ==
    ASSUME NEW t, NEW n \in Nat, NEW o \in Nat, ValueRead(t, n, o)
    PROVE  IsExt(t, o + 1, n)
<1>1. PICK e \in o + 1 .. n : \E a, b \in e + 1 .. n :
         /\ t[e] = "=" /\ Word(t, Token, o + 1, e - 1)
         /\ Padded(t, e + 1, n, a, b)
         /\ Quoted(t, a, b) \/ (All(t, Token, a, b) /\ b < n)
    BY DEF ValueRead
<1>2. IsValue(t, e + 1, n)
    BY <1>1 DEF IsValue, Word
<1> QED BY <1>1, <1>2 DEF IsExt

(* It is over in one that goes on, too.                                    *)
LEMMA ValueReadKept ==
    ASSUME NEW t, NEW u, NEW n \in Nat, Agree(t, u, n), NEW o \in Nat,
           ValueRead(t, n, o)
    PROVE  /\ ValueRead(u, n, o)
           /\ u[n + 1] \in Spht => ValueRead(u, n + 1, o)
<1>1. PICK e \in o + 1 .. n : \E a, b \in e + 1 .. n :
         /\ t[e] = "=" /\ Word(t, Token, o + 1, e - 1)
         /\ Padded(t, e + 1, n, a, b)
         /\ Quoted(t, a, b) \/ (All(t, Token, a, b) /\ b < n)
    BY DEF ValueRead
<1>2. PICK a, b \in e + 1 .. n :
         /\ t[e] = "=" /\ Word(t, Token, o + 1, e - 1)
         /\ Padded(t, e + 1, n, a, b)
         /\ Quoted(t, a, b) \/ (All(t, Token, a, b) /\ b < n)
    BY <1>1
<1>3. \A i \in o + 1 .. n : t[i] = u[i]
    BY DEF Agree
<1>4. u[e] = "=" /\ Word(u, Token, o + 1, e - 1)
    <2>1. /\ o + 1 \in Int /\ e - 1 \in Int
          /\ \A i \in o + 1 .. e - 1 : t[i] = u[i]
        BY <1>3
    <2>2. Word(u, Token, o + 1, e - 1)
        BY <1>2, <2>1, SameWord
    <2> QED BY <1>2, <1>3, <2>2
<1>5. Padded(u, e + 1, n, a, b)
    BY <1>2, <1>3 DEF Padded, All
<1>6. Quoted(u, a, b) \/ (All(u, Token, a, b) /\ b < n)
    <2>1. ASSUME Quoted(t, a, b) PROVE Quoted(u, a, b)
        BY <1>3, <2>1 DEF Quoted
    <2>2. ASSUME All(t, Token, a, b) PROVE All(u, Token, a, b)
        BY <1>3, <2>2 DEF All
    <2> QED BY <1>2, <2>1, <2>2
<1>7. ValueRead(u, n, o)
    BY <1>4, <1>5, <1>6 DEF ValueRead
<1>8. ASSUME u[n + 1] \in Spht PROVE ValueRead(u, n + 1, o)
    <2>1. Padded(u, e + 1, n + 1, a, b)
        BY <1>5, <1>8 DEF Padded, All
    <2>2. /\ e \in o + 1 .. n + 1 /\ a \in e + 1 .. n + 1
          /\ b \in e + 1 .. n + 1 /\ b < n + 1
        OBVIOUS
    <2> QED BY <1>4, <1>6, <2>1, <2>2 DEF ValueRead
<1> QED BY <1>7, <1>8

(* The name before the "=".                                                *)
LEMMA NameIsWord ==
    ASSUME NEW t, NEW n \in Nat, NEW o \in Nat, NEW x, IsPlaced(x),
           NEW e \in 1 .. n, EqualsRead(t, n, o, x, e)
    PROVE  /\ Word(t, Token, o + 1, e - 1) /\ t[e] = "=" /\ e \in o + 1 .. n
           /\ \A i \in o + 1 .. e - 1 : t[i] \in Token \cup Spht
<1>1. /\ o < x.nameStart /\ x.nameStart <= x.nameEnd /\ x.nameEnd < e
      /\ All(t, Spht, o + 1, x.nameStart - 1)
      /\ All(t, Token, x.nameStart, x.nameEnd)
      /\ All(t, Spht, x.nameEnd + 1, e - 1) /\ t[e] = "="
    BY DEF EqualsRead, NameRead
<1>2. Word(t, Token, o + 1, e - 1)
    <2>1. PICK a \in Int, b \in Int : a = x.nameStart /\ b = x.nameEnd
        BY DEF IsPlaced
    <2>2. PICK i \in Int, j \in Int : i = o + 1 /\ j = e - 1
        OBVIOUS
    <2>3. i <= a /\ a <= b /\ b <= j
        BY <1>1, <2>1, <2>2
    <2>4. Word(t, Token, i, j)
        BY <1>1, <2>1, <2>2, <2>3, WordIs
    <2> QED BY <2>2, <2>4
<1>3. e \in o + 1 .. n
    BY <1>1 DEF IsPlaced
<1>4. o + 1 \in Int /\ e - 1 \in Int
    OBVIOUS
<1> QED BY <1>1, <1>2, <1>3, <1>4, WordBytes

(* A blank ends a token, a quote a string.                                 *)
LEMMA TokenIsValue ==
    ASSUME NEW t, NEW u, NEW n \in Nat, Agree(t, u, n), NEW o \in Nat, NEW x,
           IsPlaced(x), TokenRead(t, n, o, x), u[n + 1] \in Spht
    PROVE  ValueRead(u, n + 1, o)
<1>1. PICK e \in 1 .. n :
         /\ EqualsRead(t, n, o, x, e)
         /\ e < x.valStart /\ x.valStart <= n
         /\ All(t, Spht, e + 1, x.valStart - 1)
         /\ All(t, Token, x.valStart, n)
    BY DEF TokenRead
<1>2. PICK a \in Int : a = x.valStart
    BY DEF IsPlaced
<1>3. PICK m \in Nat : m = n + 1
    OBVIOUS
<1>4. EqualsRead(u, m, o, x, e) /\ e \in 1 .. m
    BY <1>1, <1>3, EqualsKept
<1>5. /\ Word(u, Token, o + 1, e - 1) /\ u[e] = "=" /\ e \in o + 1 .. m
    BY <1>4, NameIsWord
<1>6. /\ All(u, Spht, e + 1, a - 1) /\ All(u, Token, a, n)
      /\ All(u, Spht, n + 1, m) /\ a \in e + 1 .. m /\ n \in e + 1 .. m
      /\ a <= n /\ n < m
    BY <1>1, <1>2, <1>3 DEF All, Agree
<1>7. Padded(u, e + 1, m, a, n)
    BY <1>6 DEF Padded
<1>8. ValueRead(u, m, o)
    BY <1>5, <1>6, <1>7 DEF ValueRead
<1> QED BY <1>3, <1>8

(* A quote ends a string.                                                  *)
LEMMA QuoteIsValue ==
    ASSUME NEW t, NEW u, NEW n \in Nat, Agree(t, u, n), NEW o \in Nat, NEW x,
           IsPlaced(x), QuoteRead(t, n, o, x),
           u[n + 1] = "quote", t[n] # "backslash"
    PROVE  ValueRead(u, n + 1, o)
<1>1. PICK e, a \in 1 .. n :
         /\ EqualsRead(t, n, o, x, e)
         /\ e < a /\ x.valStart = a + 1
         /\ All(t, Spht, e + 1, a - 1) /\ t[a] = "quote"
         /\ \A i \in a + 1 .. n :
               t[i] \in Text \ {"quote"} \/ t[i - 1] = "backslash"
    BY DEF QuoteRead
<1>2. PICK m \in Nat : m = n + 1
    OBVIOUS
<1>3. EqualsRead(u, m, o, x, e) /\ e \in 1 .. m
    BY <1>1, <1>2, EqualsKept
<1>4. /\ Word(u, Token, o + 1, e - 1) /\ u[e] = "=" /\ e \in o + 1 .. m
    BY <1>3, NameIsWord
<1>5. Quoted(u, a, m)
    BY <1>1, <1>2 DEF Quoted, Agree
<1>6. Padded(u, e + 1, m, a, m) /\ a \in e + 1 .. m /\ m \in e + 1 .. m
    BY <1>1, <1>2 DEF Padded, All, Agree
<1>7. ValueRead(u, m, o)
    BY <1>4, <1>5, <1>6 DEF ValueRead
<1> QED BY <1>2, <1>7

(* What has been read of an extension has been read of it.                 *)
LEMMA ExtKept ==
    ASSUME NEW t, NEW u, NEW n \in Nat, Agree(t, u, n), NEW o \in 0 .. n,
           NEW s, NEW x, IsPlaced(x), ExtRead(t, n, o, s, x), n # 0
    PROVE  ExtRead(u, n, o, s, x)
<1>0. s = "WaitingDelimiter" =>
         IF o = 0 THEN u[n] \in Spht ELSE ValueRead(u, n, o)
    <2>1. CASE o = 0 /\ n # 0
        <3>1. u[n] = t[n]
            BY <2>1 DEF Agree
        <3> QED BY <2>1, <3>1 DEF ExtRead
    <2>2. CASE o # 0
        <3>1. o \in Nat
            OBVIOUS
        <3> QED BY <2>2, <3>1, ValueReadKept DEF ExtRead
    <2> QED BY <2>1, <2>2
<1>1. s = "over" /\ o # 0 => IsExt(u, o + 1, n)
    <2> SUFFICES ASSUME s = "over", o # 0
                 PROVE  IsExt(u, o + 1, n)
        OBVIOUS
    <2>1. IsExt(t, o + 1, n) /\ o + 1 \in Int /\ n \in Int
        BY DEF ExtRead
    <2>2. \A i \in o + 1 .. n : t[i] = u[i]
        BY DEF Agree
    <2> QED BY <2>1, <2>2, SameExt
<1>2. s = "WaitingExtName" => All(u, Spht, o + 1, n)
    BY DEF ExtRead, All, Agree
<1>3. s = "ExtName" =>
         /\ o < x.nameStart /\ x.nameStart <= n
         /\ All(u, Spht, o + 1, x.nameStart - 1)
         /\ All(u, Token, x.nameStart, n)
    BY DEF ExtRead, All, Agree, IsPlaced
<1>4. s = "WaitingExtDelimiter" =>
         NameRead(u, n, o, x) /\ All(u, Spht, x.nameEnd + 1, n)
    <2> SUFFICES ASSUME s = "WaitingExtDelimiter"
                 PROVE  NameRead(u, n, o, x) /\ All(u, Spht, x.nameEnd + 1, n)
        OBVIOUS
    <2>1. NameRead(t, n, o, x) /\ All(t, Spht, x.nameEnd + 1, n)
        BY DEF ExtRead
    <2>2. NameRead(u, n, o, x)
        BY <2>1, NameKept
    <2> QED BY <2>1, <2>2 DEF NameRead, All, Agree, IsPlaced
<1>5. s = "WaitingExtValue" =>
         \E e \in 1 .. n : EqualsRead(u, n, o, x, e) /\ All(u, Spht, e + 1, n)
    <2> SUFFICES ASSUME s = "WaitingExtValue"
                 PROVE  \E e \in 1 .. n : EqualsRead(u, n, o, x, e)
                                          /\ All(u, Spht, e + 1, n)
        OBVIOUS
    <2>1. PICK e \in 1 .. n : /\ EqualsRead(t, n, o, x, e)
                              /\ All(t, Spht, e + 1, n)
        BY DEF ExtRead
    <2>2. EqualsRead(u, n, o, x, e)
        BY <2>1, EqualsKept
    <2> QED BY <2>1, <2>2 DEF All, Agree
<1>6. s = "ExtValueToken" => TokenRead(u, n, o, x)
    <2> SUFFICES ASSUME s = "ExtValueToken" PROVE TokenRead(u, n, o, x)
        OBVIOUS
    <2>1. PICK e \in 1 .. n :
             /\ EqualsRead(t, n, o, x, e)
             /\ e < x.valStart /\ x.valStart <= n
             /\ All(t, Spht, e + 1, x.valStart - 1)
             /\ All(t, Token, x.valStart, n)
        BY DEF ExtRead, TokenRead
    <2>2. EqualsRead(u, n, o, x, e)
        BY <2>1, EqualsKept
    <2>3. /\ All(u, Spht, e + 1, x.valStart - 1)
          /\ All(u, Token, x.valStart, n)
        BY <2>1 DEF All, Agree, IsPlaced
    <2> QED BY <2>1, <2>2, <2>3 DEF TokenRead
<1>7. s = "ExtValueQuotedString" => QuoteRead(u, n, o, x)
    <2> SUFFICES ASSUME s = "ExtValueQuotedString" PROVE QuoteRead(u, n, o, x)
        OBVIOUS
    <2>1. PICK e, a \in 1 .. n :
             /\ EqualsRead(t, n, o, x, e)
             /\ e < a /\ x.valStart = a + 1
             /\ All(t, Spht, e + 1, a - 1) /\ t[a] = "quote"
             /\ \A i \in a + 1 .. n :
                   t[i] \in Text \ {"quote"} \/ t[i - 1] = "backslash"
        BY DEF ExtRead, QuoteRead
    <2>2. EqualsRead(u, n, o, x, e)
        BY <2>1, EqualsKept
    <2>3. /\ All(u, Spht, e + 1, a - 1) /\ u[a] = "quote"
          /\ \A i \in a + 1 .. n :
                u[i] \in Text \ {"quote"} \/ u[i - 1] = "backslash"
        BY <2>1 DEF All, Agree
    <2> QED BY <2>1, <2>2, <2>3 DEF QuoteRead
<1>8. s \notin {"WaitingDelimiter", "over"} => o # 0
    BY DEF ExtRead
<1> QED BY <1>0, <1>1, <1>2, <1>3, <1>4, <1>5, <1>6, <1>7, <1>8 DEF ExtRead

-----------------------------------------------------------------------------
(* Names.                                                                  *)

(* More bytes change nothing about the names that are over.                *)
LEMMA NamesKept ==
    ASSUME NEW t, NEW u, NEW n \in Nat, Agree(t, u, n), Len(t) = n,
           Len(u) = n + 1, NEW D \in SUBSET (1 .. n), NEW f, NamesRead(t, D, f)
    PROVE  NamesRead(u, D, f)
<1>1. ASSUME NEW p \in D
      PROVE  NameOver(u, p) /\ (IeofAt(t, p) <=> IeofAt(u, p))
    <2>1. PICK k \in p + 1 .. n - 1 : t[k] \notin Spht
        BY <1>1 DEF NamesRead, NameOver
    <2>2. p \in Int /\ k \in Int /\ p >= 1 /\ k + 1 \in 1 .. n /\ k \in 1 .. n
        BY <2>1
    <2>3. NameOver(u, p)
        BY <2>1, <2>2 DEF NameOver, Agree
    <2>4. ASSUME IeofAt(t, p) PROVE IeofAt(u, p)
        BY <2>2, <2>4 DEF IeofAt, All, Agree
    <2>5. ASSUME IeofAt(u, p) PROVE IeofAt(t, p)
        <3>1. PICK i \in p + 1 .. n :
                 /\ u[i] = "i" /\ All(u, Spht, p + 1, i - 1)
                 /\ u[i + 1] \notin Token
            BY <2>5 DEF IeofAt
        <3>2. i <= k
            BY <2>1, <2>2, <3>1 DEF All, Agree
        <3>3. /\ t[i] = "i" /\ All(t, Spht, p + 1, i - 1)
              /\ t[i + 1] \notin Token
            BY <2>2, <3>1, <3>2 DEF All, Agree
        <3> QED BY <2>1, <2>2, <3>1, <3>2, <3>3 DEF IeofAt
    <2> QED BY <2>3, <2>4, <2>5
<1> QED BY <1>1 DEF NamesRead

(* A name that ends is compared with ieof.                                 *)
LEMMA NameAdded ==
    ASSUME NEW t, NEW n \in Nat, Len(t) = n, NEW D, NEW f, NamesRead(t, D, f),
           NEW o \in Nat, NEW i \in Int, NEW j \in Int,
           o < i, i <= j, j < n, All(t, Spht, o + 1, i - 1),
           All(t, Token, i, j), t[j + 1] \notin Token,
           NEW g, g <=> (f \/ (i = j /\ t[i] = "i"))
    PROVE  NamesRead(t, D \cup {o}, g)
<1>1. t[i] \in Token /\ t[i] \notin Spht /\ "i" \in Token /\ "i" \notin Spht
    BY DEF All, Token, Hex, Spht
<1>2. NameOver(t, o)
    BY <1>1 DEF NameOver
<1>3. ASSUME IeofAt(t, o) PROVE i = j /\ t[i] = "i"
    <2>1. PICK k \in o + 1 .. n - 1 :
             /\ t[k] = "i" /\ All(t, Spht, o + 1, k - 1)
             /\ t[k + 1] \notin Token
        BY <1>3 DEF IeofAt
    <2>2. k = i
        BY <1>1, <2>1 DEF All
    <2> QED BY <2>1, <2>2 DEF All
<1>4. ASSUME i = j, t[i] = "i" PROVE IeofAt(t, o)
    BY <1>4 DEF IeofAt
<1> QED BY <1>2, <1>3, <1>4 DEF NamesRead

-----------------------------------------------------------------------------
(* Steps in the extensions of a line, from t to u, which is one longer.    *)

(* One byte has been read.                                                 *)
Longer(t, u) == /\ Len(t) \in Nat /\ Len(u) = Len(t) + 1
                /\ Agree(t, u, Len(t))

(* Cuts are positions.                                                     *)
LEMMA CutBounds ==
    ASSUME NEW t, NEW n \in Nat, NEW C \in SUBSET Cuts(t, n),
           NEW o \in C \cup {0}
    PROVE  C \in SUBSET (1 .. n) /\ o \in 0 .. n /\ (o # 0 => o \in 1 .. n)
<1>1. \A c \in C : c \in 1 .. n
    BY CutsAre
<1> QED BY <1>1

(* An end of line comes nearer: nothing else changes.                      *)
LEMMA Kept ==
    ASSUME NEW t, NEW u, Longer(t, u), NEW n \in 0 .. Len(t), NEW s, NEW x,
           IsPlaced(x), NEW z, NEW f, InExtension(t, n, s, x, z, f)
    PROVE  InExtension(u, n, s, x, z, f)
<1>1. PICK C \in SUBSET Cuts(t, n) : \E o \in C \cup {0} :
        /\ Begun(t, n, C, o, z)
        /\ ExtRead(t, n, o, s, x)
        /\ NamesRead(t, IF s \in Unnamed THEN C \ {o} ELSE C, f)
    BY DEF InExtension
<1>2. PICK o \in C \cup {0} :
        /\ Begun(t, n, C, o, z)
        /\ ExtRead(t, n, o, s, x)
        /\ NamesRead(t, IF s \in Unnamed THEN C \ {o} ELSE C, f)
    BY <1>1
<1>3. Agree(t, u, n) /\ n \in Nat
    BY DEF Agree, Longer
<1>4. Begun(u, n, C, o, z)
    BY <1>2, <1>3, BegunKept
<1>5. ExtRead(u, n, o, s, x)
    <2>1. n # 0
        BY <1>2 DEF Begun
    <2> QED BY <1>2, <1>3, <2>1, CutBounds, ExtKept
<1>6. NamesRead(u, IF s \in Unnamed THEN C \ {o} ELSE C, f)
    <2>1. PICK D : D = IF s \in Unnamed THEN C \ {o} ELSE C
        OBVIOUS
    <2>2. C \in SUBSET (1 .. n)
        BY <1>3, CutBounds
    <2>3. PICK m \in Nat : m = Len(t)
        BY DEF Longer
    <2>4. D \in SUBSET (1 .. m)
        BY <2>1, <2>2, <2>3
    <2> QED BY <1>2, <2>1, <2>3, <2>4, NamesKept DEF Longer
<1>7. C \in SUBSET Cuts(u, n)
    BY <1>4 DEF Begun, CutAt
<1> QED BY <1>4, <1>5, <1>6, <1>7 DEF InExtension

(* A byte that belongs to the extension at hand.                           *)
LEMMA GoesOn ==
    ASSUME NEW t, NEW u, Longer(t, u), NEW n \in Nat, n = Len(t), NEW s, NEW x,
           NEW z, NEW f, InExtension(t, n, s, x, z, f),
           NEW s2, NEW x2, s \in Unnamed <=> s2 \in Unnamed, s # "over",
           s # "WaitingDelimiter" \/ u[n + 1] \in Spht,
           \A o \in 0 .. n : ExtRead(t, n, o, s, x)
                                => ExtRead(u, n + 1, o, s2, x2)
    PROVE  InExtension(u, n + 1, s2, x2, z, f)
<1>1. PICK C \in SUBSET Cuts(t, n) : \E o \in C \cup {0} :
        /\ Begun(t, n, C, o, z)
        /\ ExtRead(t, n, o, s, x)
        /\ NamesRead(t, IF s \in Unnamed THEN C \ {o} ELSE C, f)
    BY DEF InExtension
<1>2. PICK o \in C \cup {0} :
        /\ Begun(t, n, C, o, z)
        /\ ExtRead(t, n, o, s, x)
        /\ NamesRead(t, IF s \in Unnamed THEN C \ {o} ELSE C, f)
    BY <1>1
<1>3. Agree(t, u, n) /\ C \in SUBSET (1 .. n) /\ o \in 0 .. n
    BY CutBounds DEF Longer
<1>4. Begun(u, n + 1, C, o, z)
    <2>1. o # 0 \/ u[n + 1] \in Spht
        BY <1>2 DEF ExtRead
    <2> QED BY <1>2, <1>3, <2>1, BegunOn
<1>5. ExtRead(u, n + 1, o, s2, x2)
    BY <1>2, <1>3
<1>6. NamesRead(u, IF s2 \in Unnamed THEN C \ {o} ELSE C, f)
    <2>1. PICK D : D = IF s \in Unnamed THEN C \ {o} ELSE C
        OBVIOUS
    <2>2. D \in SUBSET (1 .. n)
        BY <1>3, <2>1
    <2>3. NamesRead(u, D, f)
        BY <1>2, <1>3, <2>1, <2>2, NamesKept DEF Longer
    <2> QED BY <2>1, <2>3
<1>7. C \in SUBSET Cuts(u, n + 1)
    BY <1>4 DEF Begun, CutAt
<1> QED BY <1>4, <1>5, <1>6, <1>7 DEF InExtension

(* A semicolon behind an extension in order begins another.                *)
LEMMA BeginsNext ==
    ASSUME NEW t, NEW u, NEW n \in Nat, Agree(t, u, n),
           NEW C, NEW o, NEW z, NEW f, NEW x,
           Begun(t, n, C, o, z), u[n + 1] = Semi, o # 0 => IsExt(t, o + 1, n),
           NamesRead(u, C, f)
    PROVE  InExtension(u, n + 1, "WaitingExtName", x, z, f)
<1> DEFINE m == n + 1
           D == C \cup {m}
<1>1. Begun(u, m, D, m, z)
    BY BegunCut
<1>2. D \in SUBSET Cuts(u, m) /\ m \in D \cup {0}
    BY <1>1 DEF Begun, CutAt
<1>3. C \in SUBSET Cuts(t, n)
    BY DEF Begun, CutAt
<1>4. \A c \in C : c \in 1 .. n
    BY <1>3, CutsAre
<1>5. D \ {m} = C
    BY <1>4
<1>6. ExtRead(u, m, m, "WaitingExtName", x)
    BY DEF ExtRead, All
<1>7. NamesRead(u, IF "WaitingExtName" \in Unnamed THEN D \ {m} ELSE D, f)
    BY <1>5 DEF Unnamed
<1> QED BY <1>1, <1>2, <1>6, <1>7 DEF InExtension

(* A semicolon, read in a state in which a name has been compared already. *)
LEMMA Cut ==
    ASSUME NEW t, NEW u, Longer(t, u), NEW n \in Nat, n = Len(t), NEW s, NEW x,
           NEW z, NEW f, InExtension(t, n, s, x, z, f), s \notin Unnamed,
           u[n + 1] = Semi,
           \A o \in 1 .. n : ExtRead(t, n, o, s, x) => IsExt(t, o + 1, n),
           NEW x2
    PROVE  InExtension(u, n + 1, "WaitingExtName", x2, z, f)
<1>1. PICK C \in SUBSET Cuts(t, n) : \E o \in C \cup {0} :
        Begun(t, n, C, o, z) /\ ExtRead(t, n, o, s, x) /\ NamesRead(t, C, f)
    BY DEF InExtension
<1>2. PICK o \in C \cup {0} :
        Begun(t, n, C, o, z) /\ ExtRead(t, n, o, s, x) /\ NamesRead(t, C, f)
    BY <1>1
<1>3. Agree(t, u, n) /\ C \in SUBSET (1 .. n) /\ (o # 0 => o \in 1 .. n)
    BY CutBounds DEF Longer
<1>4. NamesRead(u, C, f)
    BY <1>2, <1>3, NamesKept DEF Longer
<1>5. o # 0 => IsExt(t, o + 1, n)
    BY <1>2, <1>3
<1> QED BY <1>2, <1>3, <1>4, <1>5, BeginsNext

(* The line ends.                                                          *)
LEMMA LineOver ==
    ASSUME NEW t, NEW n \in Nat, NEW C, NEW o, NEW z, NEW f,
           Begun(t, n, C, o, z), o # 0 => IsExt(t, o + 1, n),
           NamesRead(t, C, f),
           NEW x
    PROVE  InExtension(t, n, "over", x, z, f)
<1>1. ExtRead(t, n, o, "over", x)
    BY DEF ExtRead
<1>2. NamesRead(t, IF "over" \in Unnamed THEN C \ {o} ELSE C, f)
    BY DEF Unnamed
<1> QED BY <1>1, <1>2 DEF InExtension, Begun, CutAt

(* The CR, read in a state in which a name has been compared already.      *)
LEMMA End ==
    ASSUME NEW t, NEW u, Longer(t, u), NEW n \in 0 .. Len(t), NEW s, NEW x,
           IsPlaced(x), NEW z, NEW f, InExtension(t, n, s, x, z, f),
           s \notin Unnamed,
           \A o \in 1 .. n : ExtRead(u, n, o, s, x) => IsExt(u, o + 1, n)
    PROVE  InExtension(u, n, "over", NoExt, z, f)
<1>1. InExtension(u, n, s, x, z, f) /\ n \in Nat
    BY Kept DEF Longer
<1>2. PICK C \in SUBSET Cuts(u, n) : \E o \in C \cup {0} :
        Begun(u, n, C, o, z) /\ ExtRead(u, n, o, s, x) /\ NamesRead(u, C, f)
    BY <1>1 DEF InExtension
<1>3. PICK o \in C \cup {0} :
        Begun(u, n, C, o, z) /\ ExtRead(u, n, o, s, x) /\ NamesRead(u, C, f)
    BY <1>2
<1>4. o # 0 => IsExt(u, o + 1, n)
    BY <1>1, <1>3, CutBounds
<1> QED BY <1>1, <1>3, <1>4, LineOver

(* A name ends, with the byte behind n.                                    *)
LEMMA NameDone ==
    ASSUME NEW t, NEW u, Longer(t, u), NEW n \in 0 .. Len(t),
           NEW x, IsPlaced(x), NEW z, NEW f,
           InExtension(t, n, "ExtName", x, z, f), u[n + 1] \notin Token,
           NEW g, g <=> (f \/ (x.nameStart = n /\ t[n] = "i"))
    PROVE  \E C \in SUBSET Cuts(t, n) : \E o \in C :
              /\ Begun(t, n, C, o, z)
              /\ o < x.nameStart /\ x.nameStart <= n
              /\ All(t, Spht, o + 1, x.nameStart - 1)
              /\ All(t, Token, x.nameStart, n)
              /\ NamesRead(u, C, g)
<1>1. PICK C \in SUBSET Cuts(t, n) : \E o \in C \cup {0} :
        /\ Begun(t, n, C, o, z)
        /\ ExtRead(t, n, o, "ExtName", x)
        /\ NamesRead(t, C \ {o}, f)
    BY DEF InExtension, Unnamed
<1>2. PICK o \in C \cup {0} :
        /\ Begun(t, n, C, o, z)
        /\ ExtRead(t, n, o, "ExtName", x)
        /\ NamesRead(t, C \ {o}, f)
    BY <1>1
<1>3. PICK m \in Nat : m = Len(t)
    BY DEF Longer
<1>4. /\ n \in Nat /\ C \in SUBSET (1 .. n) /\ o \in 0 .. n
      /\ C \ {o} \in SUBSET (1 .. m)
    BY <1>3, CutBounds
<1>5. NamesRead(u, C \ {o}, f)
    BY <1>2, <1>3, <1>4, NamesKept DEF Longer
<1>6. /\ o # 0 /\ o < x.nameStart /\ x.nameStart <= n
      /\ All(t, Spht, o + 1, x.nameStart - 1)
      /\ All(t, Token, x.nameStart, n)
    BY <1>2 DEF ExtRead
<1>7. PICK i \in Int : i = x.nameStart
    BY DEF IsPlaced
<1>8. All(u, Spht, o + 1, i - 1) /\ All(u, Token, i, n) /\ u[i] = t[i]
    BY <1>3, <1>4, <1>6, <1>7, SMTT(40) DEF All, Agree, Longer
<1>9. PICK k \in Nat : k = Len(u)
    BY <1>3 DEF Longer
<1>10. n < k
    BY <1>3, <1>4, <1>9 DEF Longer
<1>11. g <=> (f \/ (i = n /\ u[i] = "i"))
    BY <1>7, <1>8
<1>12. NamesRead(u, (C \ {o}) \cup {o}, g)
    <2>1. PICK D : D = C \ {o}
        OBVIOUS
    <2>2. NamesRead(u, D, f) /\ o \in Nat /\ o < i /\ i <= n /\ n \in Int
        BY <1>4, <1>5, <1>6, <1>7, <2>1
    <2> QED BY <1>8, <1>9, <1>10, <1>11, <2>1, <2>2, NameAdded
<1>13. (C \ {o}) \cup {o} = C
    BY <1>6
<1>14. NamesRead(u, C, g)
    BY <1>12, <1>13
<1> QED BY <1>2, <1>6, <1>14

-----------------------------------------------------------------------------
(* The arms of the scanner.                                                *)

(* What a byte does to the line.                                           *)
LEMMA Fed ==
    ASSUME Inv, NEW b \in Bytes, Feed(b)
    PROVE  /\ Longer(bytes, bytes') /\ bytes'[Len(bytes) + 1] = b
           /\ Len(bytes) \in Nat /\ result = "none" /\ IsPlaced(ext)
           /\ bytes \in Seq(Bytes) /\ bytes' \in Seq(Bytes)
           /\ Len(bytes') = Len(bytes) + 1
<1>1. /\ bytes \in Seq(Bytes) /\ Len(bytes) \in Nat /\ IsPlaced(ext)
    BY Fields DEF IsPlaced
<1> QED BY <1>1, Appended DEF Longer, Agree

(* Where the invariant holds after a step.                                 *)
LEMMA InLineThen ==
    ASSUME result' = "none", ~ cr', state' \notin {"WaitingSize", "Size"},
           InExtension(bytes', Len(bytes'), state', ext', hdr'.zero, hdr'.ieof)
    PROVE  LineRead'
BY DEF LineRead, Content, BeforeEnd

(* Of what has failed the invariant says nothing.                          *)
LEMMA FailedThen ==
    ASSUME result' \notin {"none", "some"} PROVE LineRead'
BY DEF LineRead

(* What the invariant says before a step.                                  *)
LEMMA InLineNow ==
    ASSUME LineRead, result = "none", state \notin {"WaitingSize", "Size"}
    PROVE  /\ ~ cr => InExtension(bytes, Len(bytes), state, ext,
                                  hdr.zero, hdr.ieof)
           /\ cr => InExtension(bytes, Len(bytes) - 1, state, ext,
                                hdr.zero, hdr.ieof)
BY DEF LineRead, Content, BeforeEnd

(* A byte that changes nothing, if it may belong to what there is.         *)
LEMMA StayLine ==
    ASSUME Inv, LineRead, NEW b \in Bytes, Feed(b), ~ cr, Stay,
           state \notin {"WaitingSize", "Size"},
           state # "WaitingDelimiter" \/ b \in Spht,
           \A o \in 0 .. Len(bytes) :
              ExtRead(bytes, Len(bytes), o, state, ext)
                 => ExtRead(bytes', Len(bytes) + 1, o, state, ext)
    PROVE  LineRead'
<1>1. PICK n \in Nat : n = Len(bytes)
    BY Fed
<1>2. InExtension(bytes, n, state, ext, hdr.zero, hdr.ieof)
    BY <1>1, Fed, InLineNow
<1>3. /\ state # "WaitingDelimiter" \/ bytes'[n + 1] \in Spht
      /\ state # "over"
      /\ \A o \in 0 .. n :
            ExtRead(bytes, n, o, state, ext)
               => ExtRead(bytes', n + 1, o, state, ext)
    BY <1>1, Fed DEF Inv, TypeOK, States
<1>4. InExtension(bytes', n + 1, state, ext, hdr.zero, hdr.ieof)
    BY <1>1, <1>2, <1>3, Fed, GoesOn
<1>5. /\ Len(bytes') = n + 1 /\ state' = state /\ ext' = ext /\ hdr' = hdr
      /\ ~ cr' /\ result' = "none"
    BY <1>1, Fed DEF Stay
<1> QED BY <1>4, <1>5, InLineThen

(* A CR where the line may end.                                            *)
LEMMA AwaitLfLine ==
    ASSUME Inv, LineRead, NEW b \in Bytes, Feed(b), ~ cr, AwaitLf,
           state # "WaitingSize"
    PROVE  LineRead'
<1>1. PICK n \in Nat : n = Len(bytes)
    BY Fed
<1>2. /\ Len(bytes') = n + 1 /\ n + 1 - 1 = n /\ state' = state /\ ext' = ext
      /\ hdr' = hdr /\ cr' = TRUE /\ result' = "none" /\ sizeStart' = sizeStart
    BY <1>1, Fed DEF AwaitLf
<1>3. Content' = n /\ Content = n
    BY <1>1, <1>2, Fed DEF Content, BeforeEnd
<1>4. CASE state = "Size"
    <2>1. /\ sizeStart \in 1 .. n /\ All(bytes, Spht, 1, sizeStart - 1)
          /\ All(bytes, Hex, sizeStart, n)
        BY <1>3, <1>4, Fed DEF LineRead
    <2>2. Agree(bytes, bytes', n)
        BY <1>1, Fed DEF Longer
    <2>3. /\ All(bytes', Spht, 1, sizeStart - 1)
          /\ All(bytes', Hex, sizeStart, n)
        BY <2>1, <2>2 DEF All, Agree
    <2> QED BY <1>2, <1>3, <1>4, <2>1, <2>3 DEF LineRead
<1>5. CASE state # "Size"
    <2>1. InExtension(bytes, n, state, ext, hdr.zero, hdr.ieof)
        BY <1>1, <1>5, Fed, InLineNow
    <2>2. n \in 0 .. Len(bytes)
        BY <1>1
    <2>3. InExtension(bytes', n, state, ext, hdr.zero, hdr.ieof)
        BY <2>1, <2>2, Fed, Kept
    <2> QED BY <1>2, <1>3, <1>5, <2>3 DEF LineRead
<1> QED BY <1>4, <1>5

-----------------------------------------------------------------------------
(* The size.                                                               *)

(* What the digits of the size amount to.                                  *)
LEMMA DigitsAre ==
    ASSUME bytes \in Seq(Bytes), NEW a \in Int, NEW b \in Int,
           1 <= a, a <= b, b <= Len(bytes)
    PROVE  /\ IsZero(Digits(a, b)) <=> \A x \in a .. b : bytes[x] = "0"
           /\ ~ Overflows(Digits(a, b))
                 => \A x \in a .. b : bytes[x] # "0" => b - x < MaxDigits
<1>1. PICK ds : ds = Digits(a, b)
    OBVIOUS
<1>2. /\ Len(ds) = b - a + 1 /\ DOMAIN ds = 1 .. b - a + 1
      /\ \A i \in 1 .. b - a + 1 : ds[i] = bytes[a + i - 1]
    BY <1>1, SubSeqProperties DEF Digits
<1>3. ASSUME NEW x \in a .. b
      PROVE  /\ x - a + 1 \in DOMAIN ds /\ ds[x - a + 1] = bytes[x]
             /\ Len(ds) - (x - a + 1) = b - x
    <2>1. x - a + 1 \in 1 .. b - a + 1 /\ a + (x - a + 1) - 1 = x
        OBVIOUS
    <2> QED BY <1>2, <2>1
<1>4. ASSUME NEW i \in DOMAIN ds
      PROVE  a + i - 1 \in a .. b /\ ds[i] = bytes[a + i - 1]
    BY <1>2
<1>5. IsZero(ds) <=> \A x \in a .. b : bytes[x] = "0"
    BY <1>3, <1>4 DEF IsZero
<1>6. ASSUME ~ Overflows(ds), NEW x \in a .. b, bytes[x] # "0"
      PROVE  b - x < MaxDigits
    <2>1. ~ (Len(ds) - (x - a + 1) >= MaxDigits)
        BY <1>3, <1>6 DEF Overflows
    <2>2. ~ (b - x >= MaxDigits)
        BY <1>3, <2>1
    <2> QED BY <2>2, DigitsAssumption
<1> QED BY <1>1, <1>5, <1>6

(* The size that has been read.                                            *)
LEMMA SizeIsRead ==
    ASSUME Inv, LineRead, result = "none", state = "Size",
           NEW n \in Nat, n = Content,
           ~ Overflows(Digits(sizeStart, n))
    PROVE  Begun(bytes, n, {}, 0, IsZero(Digits(sizeStart, n)))
<1>1. /\ sizeStart \in 1 .. n /\ All(bytes, Spht, 1, sizeStart - 1)
      /\ All(bytes, Hex, sizeStart, n)
    BY DEF LineRead
<1>2. bytes \in Seq(Bytes) /\ Len(bytes) \in Nat /\ n <= Len(bytes)
    BY Fields DEF Content, BeforeEnd
<1>3. PICK z : z = IsZero(Digits(sizeStart, n))
    OBVIOUS
<1>4. z <=> \A x \in sizeStart .. n : bytes[x] = "0"
    BY <1>1, <1>2, <1>3, DigitsAre
<1>5. \A x \in sizeStart .. n : bytes[x] # "0" => n - x < MaxDigits
    BY <1>1, <1>2, DigitsAre
<1>6. All(bytes, Spht, n + 1, n) /\ n \in sizeStart .. n
    BY <1>1 DEF All
<1>7. Begun(bytes, n, {}, 0, z)
    BY <1>1, <1>4, <1>5, <1>6, BegunSize
<1> QED BY <1>3, <1>7

(* No name has been compared with ieof yet.                                *)
LEMMA NoNames ==
    ASSUME NEW t PROVE NamesRead(t, {}, FALSE)
BY DEF NamesRead

(* The arm WaitingSize keeps the invariant.                                *)
LEMMA WaitingSizeLine ==
    ASSUME Inv, LineRead, NEW b \in Bytes, WaitingSize(b) PROVE LineRead'
<1>1. Feed(b) /\ ~ cr /\ state = "WaitingSize" /\ result = "none"
    BY DEF WaitingSize, In, Feed
<1>2. PICK n \in Nat : n = Len(bytes)
    BY <1>1, Fed
<1>3. /\ Agree(bytes, bytes', n) /\ bytes'[n + 1] = b /\ Len(bytes') = n + 1
    BY <1>1, <1>2, Fed DEF Longer
<1>4. All(bytes, Spht, 1, n)
    BY <1>1, <1>2 DEF LineRead, Content, BeforeEnd
<1>5. All(bytes', Spht, 1, n)
    BY <1>3, <1>4 DEF All, Agree
<1>6. CASE b \in Spht /\ Stay
    <2>1. All(bytes', Spht, 1, n + 1)
        BY <1>3, <1>5, <1>6 DEF All
    <2> QED BY <1>1, <1>3, <1>6, <2>1 DEF Stay, LineRead, Content, BeforeEnd
<1>7. CASE /\ b \in Hex
           /\ state' = "Size" /\ sizeStart' = Idx
           /\ UNCHANGED <<cr, ext, hdr, slice, result>>
    <2>1. /\ sizeStart' = n + 1 /\ n + 1 \in 1 .. n + 1
          /\ All(bytes', Spht, 1, n + 1 - 1) /\ All(bytes', Hex, n + 1, n + 1)
        BY <1>2, <1>3, <1>5, <1>7 DEF Idx, All
    <2> QED BY <1>1, <1>3, <1>7, <2>1 DEF LineRead, Content, BeforeEnd
<1>8. CASE Bail
    BY <1>8, FailedThen DEF Bail
<1> QED BY <1>6, <1>7, <1>8 DEF WaitingSize

(* The arm Size keeps the invariant.                                       *)
LEMMA SizeLine ==
    ASSUME Inv, LineRead, NEW b \in Bytes, Size(b) PROVE LineRead'
<1>1. Feed(b) /\ ~ cr /\ state = "Size" /\ result = "none"
    BY DEF Size, In, Feed
<1>2. PICK n \in Nat : n = Len(bytes) /\ n = Content
    BY <1>1, Fed DEF Content, BeforeEnd
<1>3. /\ Agree(bytes, bytes', n) /\ bytes'[n + 1] = b /\ Len(bytes') = n + 1
    BY <1>1, <1>2, Fed DEF Longer
<1>4. CASE b \in Hex /\ Stay
    <2>1. /\ sizeStart \in 1 .. n /\ All(bytes, Spht, 1, sizeStart - 1)
          /\ All(bytes, Hex, sizeStart, n)
        BY <1>1, <1>2 DEF LineRead
    <2>2. /\ All(bytes', Spht, 1, sizeStart - 1)
          /\ All(bytes', Hex, sizeStart, n + 1) /\ sizeStart \in 1 .. n + 1
        BY <1>3, <1>4, <2>1 DEF All, Agree
    <2> QED BY <1>1, <1>3, <1>4, <2>2 DEF Stay, LineRead, Content, BeforeEnd
<1>5. ASSUME ParseSize(0), NEW s, Goto(s),
             \/ s = "WaitingDelimiter" /\ b \in Spht
             \/ s = "WaitingExtName" /\ b = Semi
      PROVE  LineRead'
    <2>1. PICK z : z = IsZero(Digits(sizeStart, n))
        OBVIOUS
    <2>2. /\ ~ Overflows(Digits(sizeStart, n))
          /\ hdr'.zero = z /\ hdr'.ieof = FALSE
        BY <1>2, <1>5, <2>1 DEF ParseSize
    <2>3. Begun(bytes, n, {}, 0, z)
        BY <1>1, <1>2, <2>1, <2>2, SizeIsRead
    <2>4. InExtension(bytes', n + 1, s, ext', z, FALSE)
        <3>1. CASE s = "WaitingDelimiter" /\ b \in Spht
            <4>1. Begun(bytes', n + 1, {}, 0, z)
                BY <1>3, <2>3, <3>1, BegunOn
            <4>2. ExtRead(bytes', n + 1, 0, s, ext')
                BY <1>3, <3>1 DEF ExtRead
            <4>3. {} \in SUBSET Cuts(bytes', n + 1) /\ 0 \in {} \cup {0}
                OBVIOUS
            <4>4. NamesRead(bytes', IF s \in Unnamed THEN {} \ {0} ELSE {},
                            FALSE)
                BY <3>1, NoNames DEF Unnamed
            <4> QED BY <4>1, <4>2, <4>3, <4>4 DEF InExtension
        <3>2. CASE s = "WaitingExtName" /\ b = Semi
            BY <1>3, <2>3, <3>2, NoNames, BeginsNext
        <3> QED BY <1>5, <3>1, <3>2
    <2>5. /\ result' = "none" /\ ~ cr' /\ state' = s
          /\ s \notin {"WaitingSize", "Size"}
        BY <1>1, <1>5 DEF Goto
    <2> QED BY <1>3, <2>2, <2>4, <2>5, InLineThen
<1>6. CASE AwaitLf
    BY <1>1, <1>6, AwaitLfLine
<1>7. CASE Bail \/ BadSize
    BY <1>7, FailedThen DEF Bail, BadSize
<1>8. CASE /\ b \in Spht \cup {";"}
           /\ ParseSize(0)
           /\ Goto(IF b = ";" THEN "WaitingExtName" ELSE "WaitingDelimiter")
    <2>1. \/ Goto("WaitingExtName") /\ b = Semi
          \/ Goto("WaitingDelimiter") /\ b \in Spht
        BY <1>8, Zenon DEF Semi
    <2>2. ParseSize(0)
        BY <1>8, Zenon
    <2> QED BY <1>5, <2>1, <2>2
<1> QED BY <1>4, <1>6, <1>7, <1>8, Zenon DEF Size

(* The arm WaitingDelimiter keeps the invariant.                           *)
LEMMA WaitingDelimiterLine ==
    ASSUME Inv, LineRead, NEW b \in Bytes, WaitingDelimiter(b) PROVE LineRead'
<1>1. Feed(b) /\ ~ cr /\ state = "WaitingDelimiter" /\ result = "none"
    BY DEF WaitingDelimiter, In, Feed
<1>2. PICK n \in Nat : n = Len(bytes)
    BY <1>1, Fed
<1>3. CASE b \in Spht /\ Stay
    <2>1. ASSUME NEW o \in 0 .. n, ExtRead(bytes, n, o, state, ext)
          PROVE  ExtRead(bytes', n + 1, o, state, ext)
        <3>1. Agree(bytes, bytes', n) /\ bytes'[n + 1] \in Spht
            BY <1>1, <1>2, <1>3, Fed DEF Longer
        <3>2. CASE o = 0
            BY <1>1, <3>1, <3>2 DEF ExtRead
        <3>3. CASE o # 0
            <4>1. ValueRead(bytes, n, o) /\ o \in Nat
                BY <1>1, <2>1, <3>3 DEF ExtRead
            <4>2. ValueRead(bytes', n + 1, o)
                BY <3>1, <4>1, ValueReadKept
            <4> QED BY <1>1, <3>3, <4>2 DEF ExtRead
        <3> QED BY <3>2, <3>3
    <2> QED BY <1>1, <1>2, <1>3, <2>1, StayLine
<1>4. CASE b = Semi /\ Goto("WaitingExtName") /\ UNCHANGED <<ext, hdr, slice>>
    <2>1. InExtension(bytes, n, state, ext, hdr.zero, hdr.ieof)
        BY <1>1, <1>2, InLineNow
    <2>2. \A o \in 1 .. n : ExtRead(bytes, n, o, state, ext)
                               => IsExt(bytes, o + 1, n)
        BY <1>1, ValueReadIsExt DEF ExtRead
    <2>3. state \notin Unnamed /\ bytes'[n + 1] = Semi
        BY <1>1, <1>2, <1>4, Fed DEF Unnamed
    <2>4. InExtension(bytes', n + 1, "WaitingExtName", ext, hdr.zero, hdr.ieof)
        BY <1>1, <1>2, <2>1, <2>2, <2>3, Fed, Cut
    <2>5. /\ Len(bytes') = n + 1 /\ state' = "WaitingExtName" /\ ext' = ext
          /\ hdr' = hdr /\ ~ cr' /\ result' = "none"
        BY <1>1, <1>2, <1>4, Fed DEF Goto
    <2> QED BY <2>4, <2>5, InLineThen
<1>5. CASE AwaitLf
    BY <1>1, <1>5, AwaitLfLine
<1>6. CASE Bail
    BY <1>6, FailedThen DEF Bail
<1> QED BY <1>3, <1>4, <1>5, <1>6, Zenon DEF WaitingDelimiter, Semi

-----------------------------------------------------------------------------
(* The name of an extension.                                               *)

(* The arm WaitingExtName keeps the invariant.                             *)
LEMMA WaitingExtNameLine ==
    ASSUME Inv, LineRead, NEW b \in Bytes, WaitingExtName(b) PROVE LineRead'
<1>1. Feed(b) /\ ~ cr /\ state = "WaitingExtName" /\ result = "none"
    BY DEF WaitingExtName, In, Feed
<1>2. PICK n \in Nat : n = Len(bytes)
    BY <1>1, Fed
<1>3. /\ Agree(bytes, bytes', n) /\ bytes'[n + 1] = b /\ Len(bytes') = n + 1
    BY <1>1, <1>2, Fed DEF Longer
<1>4. CASE b \in Spht /\ Stay
    <2>1. ASSUME NEW o \in 0 .. n, ExtRead(bytes, n, o, state, ext)
          PROVE  ExtRead(bytes', n + 1, o, state, ext)
        BY <1>1, <1>3, <1>4, <2>1 DEF ExtRead, All, Agree
    <2> QED BY <1>1, <1>2, <1>4, <2>1, StayLine
<1>5. CASE /\ b \in Token
           /\ ext' = [ext EXCEPT !.nameStart = Idx]
           /\ Goto("ExtName") /\ UNCHANGED <<hdr, slice>>
    <2>1. ext'.nameStart = n + 1
        BY <1>1, <1>2, <1>5, FeedKeepsTypes DEF Idx
    <2>2. ASSUME NEW o \in 0 .. n, ExtRead(bytes, n, o, state, ext)
          PROVE  ExtRead(bytes', n + 1, o, "ExtName", ext')
        <3>1. o # 0 /\ All(bytes, Spht, o + 1, n)
            BY <1>1, <2>2 DEF ExtRead
        <3>2. /\ All(bytes', Spht, o + 1, n + 1 - 1)
              /\ All(bytes', Token, n + 1, n + 1)
            BY <1>3, <1>5, <3>1 DEF All, Agree
        <3> QED BY <2>1, <3>1, <3>2 DEF ExtRead
    <2>3. InExtension(bytes, n, state, ext, hdr.zero, hdr.ieof)
        BY <1>1, <1>2, InLineNow
    <2>4. /\ state \in Unnamed <=> "ExtName" \in Unnamed
          /\ state # "WaitingDelimiter"
        BY <1>1 DEF Unnamed
    <2>5. PICK x : x = ext'
        OBVIOUS
    <2>6. \A o \in 0 .. n : ExtRead(bytes, n, o, state, ext)
                               => ExtRead(bytes', n + 1, o, "ExtName", x)
        BY <2>2, <2>5
    <2>7. InExtension(bytes', n + 1, "ExtName", x, hdr.zero, hdr.ieof)
        BY <1>1, <1>2, <2>3, <2>4, <2>6, Fed, GoesOn
    <2>8. /\ state' = "ExtName" /\ hdr' = hdr /\ ~ cr' /\ result' = "none"
        BY <1>1, <1>5 DEF Goto
    <2> QED BY <1>3, <2>5, <2>7, <2>8, InLineThen
<1>6. CASE Bail
    BY <1>6, FailedThen DEF Bail
<1> QED BY <1>4, <1>5, <1>6 DEF WaitingExtName

(* Comparing a name with ieof.                                             *)
LEMMA IeofCompared ==
    ASSUME Inv, NEW e, NEW k, CheckIeof(e, k),
           NEW i \in Int, NEW j \in Int, e.nameStart = i, e.nameEnd = j,
           1 <= i, i <= j, j <= Len(bytes)
    PROVE  /\ hdr'.zero = hdr.zero
           /\ hdr'.ieof <=> hdr.ieof \/ (i = j /\ bytes[j] = "i")
<1>1. PICK v : v = (hdr.ieof \/ Name(e) = Ieof)
    OBVIOUS
<1>2. hdr' = [hdr EXCEPT !.ieof = v, !.lineLen = k]
    BY <1>1, Zenon DEF CheckIeof
<1>3. hdr'.zero = hdr.zero /\ hdr'.ieof = v
    BY <1>2 DEF Inv, TypeOK
<1>4. PICK w : w = Name(e)
    OBVIOUS
<1>5. /\ w \in Seq(Bytes) /\ Len(w) = j - i + 1
      /\ \A m \in 1 .. j - i + 1 : w[m] = bytes[i + m - 1]
    <2>1. w = SubSeq(bytes, i, j)
        BY <1>4 DEF Name
    <2>2. bytes \in Seq(Bytes)
        BY Fields
    <2> QED BY <2>1, <2>2, SubSeqProperties
<1>6. ASSUME w = Ieof PROVE i = j /\ bytes[j] = "i"
    <2>1. Len(w) = 1 /\ w[1] = "i"
        BY <1>6 DEF Ieof
    <2>2. i = j /\ 1 \in 1 .. j - i + 1 /\ i + 1 - 1 = j
        <3>1. j - i + 1 = 1
            BY <1>5, <2>1
        <3> QED BY <3>1
    <2>3. w[1] = bytes[i + 1 - 1]
        BY <1>5, <2>2
    <2> QED BY <2>1, <2>2, <2>3
<1>7. ASSUME i = j, bytes[j] = "i" PROVE w = Ieof
    <2>1. Len(w) = 1 /\ w[1] = "i"
        BY <1>5, <1>7
    <2> QED BY <1>5, <2>1 DEF Ieof
<1> QED BY <1>1, <1>3, <1>4, <1>6, <1>7

(* The arm ExtName keeps the invariant.                                    *)
LEMMA ExtNameLine ==
    ASSUME Inv, LineRead, NEW b \in Bytes, ExtName(b) PROVE LineRead'
<1>1. Feed(b) /\ ~ cr /\ state = "ExtName" /\ result = "none"
    BY DEF ExtName, In, Feed
<1>2. PICK n \in Nat : n = Len(bytes)
    BY <1>1, Fed
<1>3. /\ Agree(bytes, bytes', n) /\ bytes'[n + 1] = b /\ Len(bytes') = n + 1
    BY <1>1, <1>2, Fed DEF Longer
<1>4. CASE b \in Token /\ Stay
    <2>1. ASSUME NEW o \in 0 .. n, ExtRead(bytes, n, o, state, ext)
          PROVE  ExtRead(bytes', n + 1, o, state, ext)
        BY <1>1, <1>3, <1>4, <2>1, Fed, SMTT(60) DEF ExtRead, All, Agree, IsPlaced
    <2> QED BY <1>1, <1>2, <1>4, <2>1, StayLine
<1>5. ASSUME CheckIeof(NameEnds, 0), b \notin Token, NEW s, Goto(s),
             \/ s = "WaitingExtName" /\ b = Semi
             \/ s = "WaitingExtValue" /\ b = "=" /\ ext' = NameEnds
             \/ s = "WaitingExtDelimiter" /\ b \in Spht /\ ext' = NameEnds
      PROVE  LineRead'
    <2>1. PICK i \in Int : i = ext.nameStart
        BY <1>1, Fed DEF IsPlaced
    <2>2. NameEnds.nameStart = i /\ NameEnds.nameEnd = n
        BY <1>1, <1>2, <2>1, FeedKeepsTypes DEF NameEnds
    <2>3. 1 <= i /\ i <= n
        BY <1>1, <1>2, <2>1, ExtSlices
    <2>4. /\ hdr'.zero = hdr.zero
          /\ hdr'.ieof <=> hdr.ieof \/ (i = n /\ bytes[n] = "i")
        BY <1>2, <1>5, <2>2, <2>3, IeofCompared
    <2>5. PICK g : g = hdr'.ieof
        OBVIOUS
    <2>6. InExtension(bytes, n, "ExtName", ext, hdr.zero, hdr.ieof)
        BY <1>1, <1>2, InLineNow
    <2>7. /\ n \in 0 .. Len(bytes) /\ bytes'[n + 1] \notin Token
          /\ g <=> hdr.ieof \/ (ext.nameStart = n /\ bytes[n] = "i")
        BY <1>2, <1>3, <1>5, <2>1, <2>4, <2>5
    <2>8. PICK C \in SUBSET Cuts(bytes, n) : \E o \in C :
              /\ Begun(bytes, n, C, o, hdr.zero)
              /\ o < ext.nameStart /\ ext.nameStart <= n
              /\ All(bytes, Spht, o + 1, ext.nameStart - 1)
              /\ All(bytes, Token, ext.nameStart, n)
              /\ NamesRead(bytes', C, g)
        BY <1>1, <2>6, <2>7, Fed, NameDone
    <2>9. PICK o \in C :
              /\ Begun(bytes, n, C, o, hdr.zero)
              /\ o < i /\ i <= n
              /\ All(bytes, Spht, o + 1, i - 1)
              /\ All(bytes, Token, i, n)
              /\ NamesRead(bytes', C, g)
        BY <2>1, <2>8
    <2>10. o \in 1 .. n
        BY <2>8, <2>9, CutsAre
    <2>11. CASE s = "WaitingExtName" /\ b = Semi
        <3>1. PICK x : /\ IsPlaced(x) /\ x.nameStart = i /\ x.nameEnd = n
            <4>1. NameEnds.valStart \in Int
                BY <1>1, FeedKeepsTypes, Fields DEF NameEnds
            <4> QED BY <2>2, <4>1 DEF IsPlaced
        <3>2. All(bytes, Spht, n + 1, n)
            BY DEF All
        <3>3. /\ o \in Nat /\ o < x.nameStart /\ x.nameStart <= x.nameEnd
              /\ x.nameEnd <= n /\ All(bytes, Spht, o + 1, x.nameStart - 1)
              /\ All(bytes, Token, x.nameStart, x.nameEnd)
              /\ All(bytes, Spht, x.nameEnd + 1, n)
            BY <2>9, <2>10, <3>1, <3>2
        <3>4. IsExt(bytes, o + 1, n)
            BY <3>1, <3>3, NameIsExt
        <3>5. InExtension(bytes', n + 1, s, ext', hdr.zero, g)
            BY <1>3, <2>9, <2>11, <3>4, BeginsNext
        <3> QED BY <1>1, <1>3, <1>5, <2>4, <2>5, <2>11, <3>5, InLineThen
                DEF Goto
    <2>12. CASE /\ ext' = NameEnds
                /\ s \in {"WaitingExtValue", "WaitingExtDelimiter"}
        <3>1. Begun(bytes', n + 1, C, o, hdr.zero)
            BY <1>3, <2>9, <2>10, BegunOn
        <3>2. C \in SUBSET Cuts(bytes', n + 1) /\ o \in C \cup {0}
            BY <3>1 DEF Begun, CutAt
        <3>3. ext'.nameStart = i /\ ext'.nameEnd = n
            BY <2>2, <2>12
        <3>4. NameRead(bytes', n + 1, o, ext')
            BY <1>3, <1>5, <2>3, <2>9, <2>10, <3>3 DEF NameRead, All, Agree
        <3>5. ExtRead(bytes', n + 1, o, s, ext')
            <4>1. CASE s = "WaitingExtDelimiter" /\ b \in Spht
                <5>1. All(bytes', Spht, n + 1, n + 1)
                    BY <1>3, <4>1 DEF All
                <5> QED BY <2>10, <3>3, <3>4, <4>1, <5>1 DEF ExtRead
            <4>2. CASE s = "WaitingExtValue" /\ b = "="
                <5>1. /\ All(bytes', Spht, n + 1, n + 1 - 1)
                      /\ All(bytes', Spht, n + 1 + 1, n + 1)
                      /\ n + 1 \in 1 .. n + 1
                    BY DEF All
                <5>2. EqualsRead(bytes', n + 1, o, ext', n + 1)
                    BY <1>3, <3>3, <3>4, <4>2, <5>1 DEF EqualsRead
                <5> QED BY <2>10, <4>2, <5>1, <5>2 DEF ExtRead
            <4> QED BY <1>5, <2>12, <4>1, <4>2
        <3>6. NamesRead(bytes', IF s \in Unnamed THEN C \ {o} ELSE C, g)
            BY <2>9, <2>12 DEF Unnamed
        <3>7. InExtension(bytes', n + 1, s, ext', hdr.zero, g)
            BY <3>1, <3>2, <3>5, <3>6 DEF InExtension
        <3> QED BY <1>1, <1>3, <1>5, <2>4, <2>5, <2>12, <3>7, InLineThen
                DEF Goto
    <2> QED BY <1>5, <2>11, <2>12
<1>6. CASE AwaitLf
    BY <1>1, <1>6, AwaitLfLine
<1>7. CASE Bail
    BY <1>7, FailedThen DEF Bail
<1>8. CASE /\ b \in Spht \cup {";", "="}
           /\ CheckIeof(NameEnds, 0)
           /\ ext' = IF b = ";" THEN NoExt ELSE NameEnds
           /\ Goto(IF b = ";" THEN "WaitingExtName"
                   ELSE IF b = "=" THEN "WaitingExtValue"
                   ELSE "WaitingExtDelimiter")
    <2>1. \/ Goto("WaitingExtName") /\ b = Semi
          \/ Goto("WaitingExtValue") /\ b = "=" /\ ext' = NameEnds
          \/ Goto("WaitingExtDelimiter") /\ b \in Spht /\ ext' = NameEnds
        BY <1>8, Zenon DEF Semi
    <2>2. CheckIeof(NameEnds, 0)
        BY <1>8, Zenon
    <2>3. b \notin Token
        BY <2>1, SemiIs DEF Spht, Token, Hex
    <2> QED BY <1>5, <2>1, <2>2, <2>3
<1> QED BY <1>4, <1>6, <1>7, <1>8, Zenon DEF ExtName

(* What is in the middle of an extension is behind a cut.                  *)
LEMMA BehindCut ==
    ASSUME NEW t, NEW n, NEW s, NEW x, NEW z, NEW f,
           InExtension(t, n, s, x, z, f),
           s \notin Unnamed, s \notin {"WaitingDelimiter", "over"}
    PROVE  \E C \in SUBSET Cuts(t, n) : \E o \in C :
              /\ Begun(t, n, C, o, z) /\ ExtRead(t, n, o, s, x)
              /\ NamesRead(t, C, f)
<1>1. PICK C \in SUBSET Cuts(t, n) : \E o \in C \cup {0} :
        Begun(t, n, C, o, z) /\ ExtRead(t, n, o, s, x) /\ NamesRead(t, C, f)
    BY DEF InExtension
<1>2. PICK o \in C \cup {0} :
        Begun(t, n, C, o, z) /\ ExtRead(t, n, o, s, x) /\ NamesRead(t, C, f)
    BY <1>1
<1>3. o # 0
    BY <1>2 DEF ExtRead
<1> QED BY <1>2, <1>3

(* The arm WaitingExtDelimiter keeps the invariant: it compares the name a *)
(* second time, before a semicolon.                                        *)
LEMMA WaitingExtDelimiterLine ==
    ASSUME Inv, LineRead, NEW b \in Bytes, WaitingExtDelimiter(b)
    PROVE  LineRead'
<1>1. Feed(b) /\ ~ cr /\ state = "WaitingExtDelimiter" /\ result = "none"
    BY DEF WaitingExtDelimiter, In, Feed
<1>2. PICK n \in Nat : n = Len(bytes)
    BY <1>1, Fed
<1>3. /\ Agree(bytes, bytes', n) /\ bytes'[n + 1] = b /\ Len(bytes') = n + 1
      /\ IsPlaced(ext)
    BY <1>1, <1>2, Fed DEF Longer
<1>4. ASSUME NEW o \in 0 .. n, ExtRead(bytes, n, o, state, ext)
      PROVE  /\ o # 0 /\ o \in Nat /\ NameRead(bytes, n, o, ext)
             /\ All(bytes, Spht, ext.nameEnd + 1, n)
             /\ NameRead(bytes', n + 1, o, ext)
             /\ All(bytes', Spht, ext.nameEnd + 1, n)
    <2>1. /\ o # 0 /\ o \in Nat /\ NameRead(bytes, n, o, ext)
          /\ All(bytes, Spht, ext.nameEnd + 1, n)
        BY <1>1, <1>4 DEF ExtRead
    <2>2. NameRead(bytes', n + 1, o, ext)
        BY <1>3, <2>1, NameKept
    <2>3. 1 <= ext.nameEnd + 1
        BY <1>3, <2>1 DEF NameRead, IsPlaced
    <2> QED BY <1>3, <2>1, <2>2, <2>3 DEF All, Agree, IsPlaced
<1>5. CASE b \in Spht /\ Stay
    <2>1. ASSUME NEW o \in 0 .. n, ExtRead(bytes, n, o, state, ext)
          PROVE  ExtRead(bytes', n + 1, o, state, ext)
        <3>1. All(bytes', Spht, ext.nameEnd + 1, n + 1)
            BY <1>3, <1>4, <1>5, <2>1 DEF All, IsPlaced
        <3> QED BY <1>1, <1>4, <2>1, <3>1 DEF ExtRead
    <2> QED BY <1>1, <1>2, <1>5, <2>1, StayLine
<1>6. InExtension(bytes, n, state, ext, hdr.zero, hdr.ieof)
    BY <1>1, <1>2, InLineNow
<1>7. CASE b = "=" /\ Goto("WaitingExtValue") /\ UNCHANGED <<ext, hdr, slice>>
    <2>1. ASSUME NEW o \in 0 .. n, ExtRead(bytes, n, o, state, ext)
          PROVE  ExtRead(bytes', n + 1, o, "WaitingExtValue", ext)
        <3>1. /\ o # 0 /\ NameRead(bytes', n + 1, o, ext)
              /\ All(bytes', Spht, ext.nameEnd + 1, n + 1 - 1)
              /\ ext.nameEnd < n + 1
            BY <1>3, <1>4, <2>1 DEF NameRead, IsPlaced
        <3>2. All(bytes', Spht, n + 1 + 1, n + 1) /\ n + 1 \in 1 .. n + 1
            BY DEF All
        <3>3. EqualsRead(bytes', n + 1, o, ext, n + 1)
            BY <1>3, <1>7, <3>1, <3>2 DEF EqualsRead
        <3> QED BY <3>1, <3>2, <3>3 DEF ExtRead
    <2>2. /\ state \in Unnamed <=> "WaitingExtValue" \in Unnamed
          /\ state \notin {"WaitingDelimiter", "over"}
        BY <1>1 DEF Unnamed
    <2>3. InExtension(bytes', n + 1, "WaitingExtValue", ext,
                      hdr.zero, hdr.ieof)
        BY <1>1, <1>2, <1>6, <2>1, <2>2, Fed, GoesOn
    <2>4. /\ state' = "WaitingExtValue" /\ ext' = ext /\ hdr' = hdr
          /\ ~ cr' /\ result' = "none"
        BY <1>1, <1>7 DEF Goto
    <2> QED BY <1>3, <2>3, <2>4, InLineThen
<1>8. CASE b = Semi /\ CheckIeof(ext, 0) /\ Goto("WaitingExtName")
    <2>1. state \notin Unnamed /\ state \notin {"WaitingDelimiter", "over"}
        BY <1>1 DEF Unnamed
    <2>2. PICK C \in SUBSET Cuts(bytes, n) : \E o \in C :
              /\ Begun(bytes, n, C, o, hdr.zero)
              /\ ExtRead(bytes, n, o, state, ext)
              /\ NamesRead(bytes, C, hdr.ieof)
        BY <1>6, <2>1, BehindCut
    <2>3. PICK o \in C :
              /\ Begun(bytes, n, C, o, hdr.zero)
              /\ ExtRead(bytes, n, o, state, ext)
              /\ NamesRead(bytes, C, hdr.ieof)
        BY <2>2
    <2>4. o \in 0 .. n /\ o \in Nat /\ C \in SUBSET (1 .. n)
        BY <2>2, <2>3, CutBounds
    <2>5. PICK i \in Int, j \in Int : i = ext.nameStart /\ j = ext.nameEnd
        BY <1>3 DEF IsPlaced
    <2>6. /\ o < i /\ i <= j /\ j < n /\ 1 <= i
          /\ All(bytes, Spht, o + 1, i - 1) /\ All(bytes, Token, i, j)
          /\ bytes[j + 1] \notin Token /\ All(bytes, Spht, j + 1, n)
        BY <1>4, <2>3, <2>4, <2>5 DEF NameRead
    <2>7. /\ hdr'.zero = hdr.zero
          /\ hdr'.ieof <=> hdr.ieof \/ (i = j /\ bytes[j] = "i")
        BY <1>2, <1>8, <2>5, <2>6, IeofCompared, SMTT(40)
    <2>8. PICK g : g = hdr'.ieof
        OBVIOUS
    <2>9. g <=> (hdr.ieof \/ (i = j /\ bytes[i] = "i"))
        BY <2>7, <2>8
    <2>10. NamesRead(bytes, C \cup {o}, g)
        BY <1>2, <2>3, <2>4, <2>6, <2>9, NameAdded
    <2>11. C \cup {o} = C
        BY <2>3
    <2>12. NamesRead(bytes, C, g)
        BY <2>10, <2>11
    <2>13. NamesRead(bytes', C, g)
        BY <1>2, <1>3, <2>4, <2>12, NamesKept
    <2>14. IsExt(bytes, o + 1, n)
        <3>1. ext.nameEnd <= n
            BY <2>5, <2>6
        <3> QED BY <1>3, <2>4, <2>5, <2>6, <3>1, NameIsExt
    <2>15. InExtension(bytes', n + 1, "WaitingExtName", ext', hdr.zero, g)
        BY <1>3, <1>8, <2>3, <2>13, <2>14, BeginsNext
    <2>16. /\ state' = "WaitingExtName" /\ ~ cr' /\ result' = "none"
        BY <1>1, <1>8 DEF Goto
    <2> QED BY <1>3, <2>7, <2>8, <2>15, <2>16, InLineThen
<1>9. CASE AwaitLf
    BY <1>1, <1>9, AwaitLfLine
<1>10. CASE Bail
    BY <1>10, FailedThen DEF Bail
<1> QED BY <1>5, <1>7, <1>8, <1>9, <1>10, Zenon DEF WaitingExtDelimiter, Semi

-----------------------------------------------------------------------------
(* The value of an extension.                                              *)

(* The arm WaitingExtValue keeps the invariant.                            *)
LEMMA WaitingExtValueLine ==
    ASSUME Inv, LineRead, NEW b \in Bytes, WaitingExtValue(b) PROVE LineRead'
<1>1. Feed(b) /\ ~ cr /\ state = "WaitingExtValue" /\ result = "none"
    BY DEF WaitingExtValue, In, Feed
<1>2. PICK n \in Nat : n = Len(bytes)
    BY <1>1, Fed
<1>3. /\ Agree(bytes, bytes', n) /\ bytes'[n + 1] = b /\ Len(bytes') = n + 1
      /\ IsPlaced(ext)
    BY <1>1, <1>2, Fed DEF Longer
<1>4. ASSUME NEW o \in 0 .. n, ExtRead(bytes, n, o, state, ext)
      PROVE  /\ o # 0 /\ o \in Nat
             /\ \E e \in 1 .. n : /\ EqualsRead(bytes', n + 1, o, ext, e)
                                  /\ All(bytes', Spht, e + 1, n)
    <2>1. PICK e \in 1 .. n : /\ EqualsRead(bytes, n, o, ext, e)
                              /\ All(bytes, Spht, e + 1, n)
        BY <1>1, <1>4 DEF ExtRead
    <2>2. o # 0 /\ o \in Nat
        BY <1>1, <1>4 DEF ExtRead
    <2>3. EqualsRead(bytes', n + 1, o, ext, e)
        BY <1>3, <2>1, <2>2, EqualsKept
    <2>4. All(bytes', Spht, e + 1, n)
        BY <1>3, <2>1 DEF All, Agree
    <2> QED BY <2>2, <2>3, <2>4
<1>5. CASE b \in Spht /\ Stay
    <2>1. ASSUME NEW o \in 0 .. n, ExtRead(bytes, n, o, state, ext)
          PROVE  ExtRead(bytes', n + 1, o, state, ext)
        <3>1. PICK e \in 1 .. n : /\ EqualsRead(bytes', n + 1, o, ext, e)
                                  /\ All(bytes', Spht, e + 1, n)
            BY <1>4, <2>1
        <3>2. All(bytes', Spht, e + 1, n + 1) /\ e \in 1 .. n + 1
            BY <1>3, <1>5, <3>1 DEF All
        <3> QED BY <1>1, <1>4, <2>1, <3>1, <3>2 DEF ExtRead
    <2> QED BY <1>1, <1>2, <1>5, <2>1, StayLine
<1>6. ASSUME NEW s, Goto(s), UNCHANGED hdr,
             \/ /\ b = "quote" /\ s = "ExtValueQuotedString"
                /\ ext' = [ext EXCEPT !.valStart = Idx + 1]
             \/ /\ b \in Token /\ s = "ExtValueToken"
                /\ ext' = [ext EXCEPT !.valStart = Idx]
      PROVE  LineRead'
    <2>0. PICK x : x = ext'
        OBVIOUS
    <2>1. /\ x.nameStart = ext.nameStart /\ x.nameEnd = ext.nameEnd
          /\ s = "ExtValueQuotedString" => x.valStart = n + 1 + 1
          /\ s = "ExtValueToken" => x.valStart = n + 1
        BY <1>1, <1>2, <1>6, <2>0, FeedKeepsTypes DEF Idx
    <2>2. ASSUME NEW o \in 0 .. n, ExtRead(bytes, n, o, state, ext)
          PROVE  ExtRead(bytes', n + 1, o, s, x)
        <3>1. PICK e \in 1 .. n : /\ EqualsRead(bytes', n + 1, o, ext, e)
                                  /\ All(bytes', Spht, e + 1, n)
            BY <1>4, <2>2
        <3>2. EqualsRead(bytes', n + 1, o, x, e)
            BY <2>1, <3>1 DEF EqualsRead, NameRead
        <3>3. /\ All(bytes', Spht, e + 1, n + 1 - 1) /\ e < n + 1
              /\ e \in 1 .. n + 1 /\ n + 1 \in 1 .. n + 1
            BY <3>1 DEF All
        <3>4. CASE b \in Token /\ s = "ExtValueToken"
            <4>1. All(bytes', Token, n + 1, n + 1)
                BY <1>3, <3>4 DEF All
            <4>2. TokenRead(bytes', n + 1, o, x)
                BY <2>1, <3>2, <3>3, <3>4, <4>1 DEF TokenRead
            <4> QED BY <1>4, <2>2, <3>4, <4>2 DEF ExtRead
        <3>5. CASE b = "quote" /\ s = "ExtValueQuotedString"
            <4>1. QuoteRead(bytes', n + 1, o, x)
                BY <1>3, <2>1, <3>2, <3>3, <3>5 DEF QuoteRead
            <4> QED BY <1>4, <2>2, <3>5, <4>1 DEF ExtRead
        <3> QED BY <1>6, <3>4, <3>5
    <2>3. InExtension(bytes, n, state, ext, hdr.zero, hdr.ieof)
        BY <1>1, <1>2, InLineNow
    <2>4. /\ state \in Unnamed <=> s \in Unnamed
          /\ state # "WaitingDelimiter"
        BY <1>1, <1>6 DEF Unnamed
    <2>5. InExtension(bytes', n + 1, s, x, hdr.zero, hdr.ieof)
        BY <1>1, <1>2, <2>2, <2>3, <2>4, Fed, GoesOn
    <2>6. /\ state' = s /\ hdr' = hdr /\ ~ cr' /\ result' = "none"
          /\ s \notin {"WaitingSize", "Size"}
        BY <1>1, <1>6 DEF Goto
    <2> QED BY <1>3, <2>0, <2>5, <2>6, InLineThen
<1>7. CASE Bail
    BY <1>7, FailedThen DEF Bail
<1> QED BY <1>5, <1>6, <1>7 DEF WaitingExtValue

(* The arm ExtValueToken keeps the invariant.                              *)
LEMMA ExtValueTokenLine ==
    ASSUME Inv, LineRead, NEW b \in Bytes, ExtValueToken(b) PROVE LineRead'
<1>1. Feed(b) /\ ~ cr /\ state = "ExtValueToken" /\ result = "none"
    BY DEF ExtValueToken, In, Feed
<1>2. PICK n \in Nat : n = Len(bytes)
    BY <1>1, Fed
<1>3. /\ Agree(bytes, bytes', n) /\ bytes'[n + 1] = b /\ Len(bytes') = n + 1
      /\ IsPlaced(ext)
    BY <1>1, <1>2, Fed DEF Longer
<1>4. InExtension(bytes, n, state, ext, hdr.zero, hdr.ieof)
    BY <1>1, <1>2, InLineNow
<1>5. ASSUME NEW o \in 0 .. n, ExtRead(bytes, n, o, state, ext)
      PROVE  o # 0 /\ o \in Nat /\ TokenRead(bytes, n, o, ext)
             /\ IsExt(bytes, o + 1, n)
    <2>1. o # 0 /\ o \in Nat /\ TokenRead(bytes, n, o, ext)
        BY <1>1, <1>5 DEF ExtRead
    <2> QED BY <1>3, <2>1, TokenIsExt
<1>6. CASE b \in Token /\ Stay
    <2>1. ASSUME NEW o \in 0 .. n, ExtRead(bytes, n, o, state, ext)
          PROVE  ExtRead(bytes', n + 1, o, state, ext)
        <3>1. PICK e \in 1 .. n :
                 /\ EqualsRead(bytes, n, o, ext, e)
                 /\ e < ext.valStart /\ ext.valStart <= n
                 /\ All(bytes, Spht, e + 1, ext.valStart - 1)
                 /\ All(bytes, Token, ext.valStart, n)
            BY <1>5, <2>1 DEF TokenRead
        <3>2. EqualsRead(bytes', n + 1, o, ext, e)
            BY <1>3, <1>5, <2>1, <3>1, EqualsKept
        <3>3. /\ All(bytes', Spht, e + 1, ext.valStart - 1)
              /\ All(bytes', Token, ext.valStart, n + 1)
              /\ ext.valStart <= n + 1 /\ e \in 1 .. n + 1
            <4>1. PICK v \in Int : v = ext.valStart
                BY <1>3 DEF IsPlaced
            <4>2. \A i \in v .. n + 1 : i = n + 1 \/ i \in v .. n
                OBVIOUS
            <4>3. All(bytes', Token, v, n + 1)
                BY <1>3, <1>6, <3>1, <4>1, <4>2, SMTT(40) DEF All, Agree
            <4>4. All(bytes', Spht, e + 1, v - 1) /\ v <= n + 1
                BY <1>3, <3>1, <4>1 DEF All, Agree
            <4> QED BY <4>1, <4>3, <4>4
        <3>4. TokenRead(bytes', n + 1, o, ext)
            BY <3>1, <3>2, <3>3 DEF TokenRead
        <3> QED BY <1>1, <1>5, <2>1, <3>4 DEF ExtRead
    <2> QED BY <1>1, <1>2, <1>6, <2>1, StayLine
<1>7. CASE b \in Spht /\ ValueEnds(Len(bytes)) /\ Goto("WaitingDelimiter")
    <2>1. PICK x : x = ext'
        OBVIOUS
    <2>2. ASSUME NEW o \in 0 .. n, ExtRead(bytes, n, o, state, ext)
          PROVE  ExtRead(bytes', n + 1, o, "WaitingDelimiter", x)
        <3>1. o # 0 /\ o \in Nat /\ TokenRead(bytes, n, o, ext)
              /\ bytes'[n + 1] \in Spht
            BY <1>3, <1>5, <1>7, <2>2
        <3>2. ValueRead(bytes', n + 1, o)
            BY <1>3, <3>1, TokenIsValue
        <3> QED BY <3>1, <3>2 DEF ExtRead
    <2>3. /\ state \in Unnamed <=> "WaitingDelimiter" \in Unnamed
          /\ state # "WaitingDelimiter"
        BY <1>1 DEF Unnamed
    <2>4. InExtension(bytes', n + 1, "WaitingDelimiter", x, hdr.zero, hdr.ieof)
        BY <1>1, <1>2, <1>4, <2>2, <2>3, Fed, GoesOn
    <2>5. /\ state' = "WaitingDelimiter" /\ hdr' = hdr /\ ~ cr'
          /\ result' = "none"
        BY <1>1, <1>7 DEF Goto, ValueEnds
    <2> QED BY <1>3, <2>1, <2>4, <2>5, InLineThen
<1>8. CASE b = Semi /\ ValueEnds(Len(bytes)) /\ Goto("WaitingExtName")
    <2>1. PICK x : x = ext'
        OBVIOUS
    <2>2. \A o \in 1 .. n : ExtRead(bytes, n, o, state, ext)
                               => IsExt(bytes, o + 1, n)
        BY <1>5
    <2>3. state \notin Unnamed /\ bytes'[n + 1] = Semi
        BY <1>1, <1>3, <1>8 DEF Unnamed
    <2>4. InExtension(bytes', n + 1, "WaitingExtName", x, hdr.zero, hdr.ieof)
        BY <1>1, <1>2, <1>4, <2>2, <2>3, Fed, Cut
    <2>5. /\ state' = "WaitingExtName" /\ hdr' = hdr /\ ~ cr'
          /\ result' = "none"
        BY <1>1, <1>8 DEF Goto, ValueEnds
    <2> QED BY <1>3, <2>1, <2>4, <2>5, InLineThen
<1>9. CASE AwaitLf
    BY <1>1, <1>9, AwaitLfLine
<1>10. CASE Bail
    BY <1>10, FailedThen DEF Bail
<1>11. CASE /\ b \in Spht \cup {";"}
            /\ ValueEnds(Len(bytes))
            /\ Goto(IF b = ";" THEN "WaitingExtName" ELSE "WaitingDelimiter")
    <2>1. \/ Goto("WaitingExtName") /\ b = Semi
          \/ Goto("WaitingDelimiter") /\ b \in Spht
        BY <1>11, Zenon DEF Semi
    <2>2. ValueEnds(Len(bytes))
        BY <1>11, Zenon
    <2> QED BY <1>7, <1>8, <2>1, <2>2
<1> QED BY <1>6, <1>9, <1>10, <1>11, Zenon DEF ExtValueToken

(* The arm ExtValueQuotedString keeps the invariant.                       *)
LEMMA ExtValueQuotedStringLine ==
    ASSUME Inv, LineRead, NEW b \in Bytes, ExtValueQuotedString(b)
    PROVE  LineRead'
<1>1. /\ Feed(b) /\ ~ cr /\ state = "ExtValueQuotedString" /\ result = "none"
    BY DEF ExtValueQuotedString, In, Feed
<1>2. PICK n \in Nat : n = Len(bytes)
    BY <1>1, Fed
<1>3. /\ Agree(bytes, bytes', n) /\ bytes'[n + 1] = b /\ Len(bytes') = n + 1
      /\ IsPlaced(ext)
    BY <1>1, <1>2, Fed DEF Longer
<1>4. InExtension(bytes, n, state, ext, hdr.zero, hdr.ieof)
    BY <1>1, <1>2, InLineNow
<1>5. ASSUME NEW o \in 0 .. n, ExtRead(bytes, n, o, state, ext)
      PROVE  o # 0 /\ o \in Nat /\ QuoteRead(bytes, n, o, ext)
    BY <1>1, <1>5 DEF ExtRead
<1>6. CASE Stay /\ (b \in Text \ {"quote"} \/ HasQuotedPrefix)
    <2>1. ASSUME NEW o \in 0 .. n, ExtRead(bytes, n, o, state, ext)
          PROVE  ExtRead(bytes', n + 1, o, state, ext)
        <3>1. PICK e, a \in 1 .. n :
                 /\ EqualsRead(bytes, n, o, ext, e)
                 /\ e < a /\ ext.valStart = a + 1
                 /\ All(bytes, Spht, e + 1, a - 1) /\ bytes[a] = "quote"
                 /\ \A i \in a + 1 .. n :
                       \/ bytes[i] \in Text \ {"quote"}
                       \/ bytes[i - 1] = "backslash"
            BY <1>5, <2>1 DEF QuoteRead
        <3>2. EqualsRead(bytes', n + 1, o, ext, e)
            BY <1>3, <1>5, <2>1, <3>1, EqualsKept
        <3>3. All(bytes', Spht, e + 1, a - 1) /\ bytes'[a] = "quote"
            BY <1>3, <3>1 DEF All, Agree
        <3>4. ASSUME NEW i \in a + 1 .. n + 1
              PROVE  \/ bytes'[i] \in Text \ {"quote"}
                     \/ bytes'[i - 1] = "backslash"
            <4>1. CASE i = n + 1
                <5>1. i - 1 = n /\ n \in 1 .. n
                    BY <3>1, <4>1
                <5>2. bytes'[i - 1] = bytes[n] /\ bytes'[i] = b
                    BY <1>3, <4>1, <5>1 DEF Agree
                <5> QED BY <1>2, <1>6, <5>2 DEF HasQuotedPrefix
            <4>2. CASE i # n + 1
                <5>1. i \in a + 1 .. n /\ i \in 1 .. n /\ i - 1 \in 1 .. n
                    BY <4>2
                <5>2. bytes'[i] = bytes[i] /\ bytes'[i - 1] = bytes[i - 1]
                    BY <1>3, <5>1 DEF Agree
                <5> QED BY <3>1, <5>1, <5>2
            <4> QED BY <4>1, <4>2
        <3>5. e \in 1 .. n + 1 /\ a \in 1 .. n + 1
            OBVIOUS
        <3>6. QuoteRead(bytes', n + 1, o, ext)
            BY <3>1, <3>2, <3>3, <3>4, <3>5 DEF QuoteRead
        <3> QED BY <1>1, <1>5, <2>1, <3>6 DEF ExtRead
    <2>2. state # "WaitingDelimiter"
        BY <1>1
    <2> QED BY <1>1, <1>2, <1>6, <2>1, <2>2, StayLine
<1>7. CASE /\ b = "quote" /\ ~ HasQuotedPrefix
           /\ ValueEnds(LastOfValue) /\ Goto("WaitingDelimiter")
    <2>1. PICK x : x = ext'
        OBVIOUS
    <2>2. ASSUME NEW o \in 0 .. n, ExtRead(bytes, n, o, state, ext)
          PROVE  ExtRead(bytes', n + 1, o, "WaitingDelimiter", x)
        <3>1. bytes[n] # "backslash"
            BY <1>2, <1>7 DEF HasQuotedPrefix
        <3>2. ValueRead(bytes', n + 1, o)
            BY <1>3, <1>5, <1>7, <2>2, <3>1, QuoteIsValue
        <3> QED BY <1>5, <2>2, <3>2 DEF ExtRead
    <2>3. /\ state \in Unnamed <=> "WaitingDelimiter" \in Unnamed
          /\ state # "WaitingDelimiter"
        BY <1>1 DEF Unnamed
    <2>4. InExtension(bytes', n + 1, "WaitingDelimiter", x, hdr.zero, hdr.ieof)
        BY <1>1, <1>2, <1>4, <2>2, <2>3, Fed, GoesOn
    <2>5. /\ state' = "WaitingDelimiter" /\ hdr' = hdr /\ ~ cr'
          /\ result' = "none"
        BY <1>1, <1>7 DEF Goto, ValueEnds
    <2> QED BY <1>3, <2>1, <2>4, <2>5, InLineThen
<1>8. CASE Bail
    BY <1>8, FailedThen DEF Bail
<1> QED BY <1>6, <1>7, <1>8, Zenon DEF ExtValueQuotedString

-----------------------------------------------------------------------------
(* The end of the line.                                                    *)

(* Where the invariant holds after the end of the line.                    *)
LEMMA LineThen ==
    ASSUME NEW n \in Nat, Len(bytes') = n + 2, result' = "some",
           NEW z, NEW f, z = hdr'.zero, f = hdr'.ieof,
           InExtension(bytes', n, "over", NoExt, z, f)
    PROVE  LineRead'
<1>1. Content' = n
    BY DEF Content
<1> QED BY <1>1 DEF LineRead

(* What the line is before the LF.                                         *)
LEMMA AfterCrIs ==
    ASSUME Inv, NEW b \in Bytes, cr, Feed(b)
    PROVE  \E n \in Nat :
              /\ Len(bytes) = n + 1 /\ n = Content /\ n = BeforeCr
              /\ n \in 0 .. Len(bytes) /\ Len(bytes') = n + 2
              /\ Agree(bytes, bytes', n) /\ bytes'[n + 1] = "cr"
              /\ Longer(bytes, bytes') /\ IsPlaced(ext)
              /\ bytes \in Seq(Bytes) /\ result = "none"
<1>1. PICK m \in Nat : m = Len(bytes)
    BY Fed
<1>2. /\ Longer(bytes, bytes') /\ Len(bytes') = m + 1 /\ IsPlaced(ext)
      /\ bytes \in Seq(Bytes) /\ result = "none"
    BY <1>1, Fed
<1>3. m # 0 /\ bytes[m] = "cr"
    <2>1. bytes # <<>> /\ bytes[m] = "cr"
        BY <1>1, <1>2 DEF Inv, ScanInv
    <2> QED BY <1>1, <1>2, <2>1, EmptySeq
<1>4. PICK n \in Nat : m = n + 1
    BY <1>3
<1>5. n = Content /\ n = BeforeCr
    BY <1>1, <1>2, <1>4 DEF Content, BeforeEnd, BeforeCr
<1>6. Agree(bytes, bytes', n) /\ bytes'[n + 1] = "cr"
    BY <1>1, <1>2, <1>3, <1>4 DEF Longer, Agree
<1>7. Len(bytes) = n + 1 /\ n \in 0 .. Len(bytes) /\ Len(bytes') = n + 2
    BY <1>1, <1>2, <1>4
<1> QED BY <1>2, <1>5, <1>6, <1>7

(* A size that the line ends with.                                         *)
LEMMA SizeEndsLine ==
    ASSUME Inv, LineRead, NEW b \in Bytes, cr, Feed(b), SizeEnds
    PROVE  LineRead'
<1>1. PICK n \in Nat :
         /\ n = Content /\ n = BeforeCr /\ Len(bytes') = n + 2
         /\ Agree(bytes, bytes', n) /\ result = "none"
    BY AfterCrIs
<1>2. PICK z : z = IsZero(Digits(sizeStart, n))
    OBVIOUS
<1>3. CASE Overflows(Digits(sizeStart, n))
    BY <1>1, <1>3, FailedThen DEF SizeEnds
<1>4. CASE ~ Overflows(Digits(sizeStart, n))
    <2>1. result' = "some" /\ z = hdr'.zero /\ FALSE = hdr'.ieof
          /\ state = "Size"
        BY <1>1, <1>2, <1>4 DEF SizeEnds
    <2>2. Begun(bytes, n, {}, 0, z)
        BY <1>1, <1>2, <1>4, <2>1, SizeIsRead
    <2>3. Begun(bytes', n, {}, 0, z)
        BY <1>1, <2>2, BegunKept
    <2>4. InExtension(bytes', n, "over", NoExt, z, FALSE)
        BY <2>3, NoNames, LineOver
    <2> QED BY <1>1, <2>1, <2>4, LineThen
<1> QED BY <1>3, <1>4

(* A name that the line ends with.                                         *)
LEMMA NameEndsTheLine ==
    ASSUME Inv, LineRead, NEW b \in Bytes, cr, Feed(b), NameEndsLine
    PROVE  LineRead'
<1>1. PICK n \in Nat :
         /\ Len(bytes) = n + 1 /\ n = BeforeCr /\ n \in 0 .. Len(bytes)
         /\ Len(bytes') = n + 2
         /\ Agree(bytes, bytes', n) /\ bytes'[n + 1] = "cr"
         /\ Longer(bytes, bytes') /\ IsPlaced(ext) /\ result = "none"
    BY AfterCrIs
<1>2. PICK e : e = [ext EXCEPT !.nameEnd = BeforeCr]
    OBVIOUS
<1>3. state = "ExtName" /\ CheckIeof(e, Idx) /\ result' = "some"
    BY <1>2, Zenon DEF NameEndsLine, Ends
<1>4. PICK i \in Int : i = ext.nameStart
    BY <1>1 DEF IsPlaced
<1>5. /\ e.nameStart = i /\ e.nameEnd = n /\ e.valStart = ext.valStart
    BY <1>1, <1>2, <1>4 DEF Inv, TypeOK
<1>6. 1 <= i /\ i <= n
    BY <1>1, <1>3, <1>4, ExtSlices
<1>7. /\ hdr'.zero = hdr.zero
      /\ hdr'.ieof <=> hdr.ieof \/ (i = n /\ bytes[n] = "i")
    BY <1>1, <1>3, <1>5, <1>6, IeofCompared
<1>8. PICK g : g = hdr'.ieof
    OBVIOUS
<1>9. PICK z : z = hdr.zero
    OBVIOUS
<1>10. InExtension(bytes, n, "ExtName", ext, z, hdr.ieof)
    <2>1. InExtension(bytes, Len(bytes) - 1, state, ext, hdr.zero, hdr.ieof)
        BY <1>1, <1>3, InLineNow
    <2> QED BY <1>1, <1>3, <1>9, <2>1
<1>11. /\ bytes'[n + 1] \notin Token
       /\ g <=> (hdr.ieof \/ (ext.nameStart = n /\ bytes[n] = "i"))
    BY <1>1, <1>4, <1>7, <1>8 DEF Token, Hex
<1>12. PICK C \in SUBSET Cuts(bytes, n) : \E o \in C :
          /\ Begun(bytes, n, C, o, z)
          /\ o < ext.nameStart /\ ext.nameStart <= n
          /\ All(bytes, Spht, o + 1, ext.nameStart - 1)
          /\ All(bytes, Token, ext.nameStart, n)
          /\ NamesRead(bytes', C, g)
    BY <1>1, <1>10, <1>11, NameDone
<1>13. PICK o \in C :
          /\ Begun(bytes, n, C, o, z)
          /\ o < i /\ All(bytes, Spht, o + 1, i - 1) /\ All(bytes, Token, i, n)
          /\ NamesRead(bytes', C, g)
    BY <1>4, <1>12
<1>14. o \in 1 .. n /\ o \in Nat
    BY <1>12, <1>13, CutsAre
<1>15. IsExt(bytes', o + 1, n)
    <2>1. All(bytes, Spht, n + 1, n)
        BY DEF All
    <2>2. IsPlaced(e)
        BY <1>1, <1>4, <1>5 DEF IsPlaced
    <2>3. /\ o < e.nameStart /\ e.nameStart <= e.nameEnd /\ e.nameEnd <= n
          /\ All(bytes, Spht, o + 1, e.nameStart - 1)
          /\ All(bytes, Token, e.nameStart, e.nameEnd)
          /\ All(bytes, Spht, e.nameEnd + 1, n)
        BY <1>5, <1>6, <1>13, <2>1
    <2>4. IsExt(bytes, o + 1, n)
        BY <1>14, <2>2, <2>3, NameIsExt
    <2>5. \A k \in o + 1 .. n : bytes[k] = bytes'[k]
        BY <1>1, <1>14 DEF Agree
    <2>6. o + 1 \in Int /\ n \in Int
        BY <1>14
    <2> QED BY <2>4, <2>5, <2>6, SameExt
<1>16. Begun(bytes', n, C, o, z)
    BY <1>1, <1>13, BegunKept
<1>17. InExtension(bytes', n, "over", NoExt, z, g)
    BY <1>13, <1>15, <1>16, LineOver
<1>18. z = hdr'.zero
    BY <1>7, <1>9
<1> QED BY <1>1, <1>3, <1>8, <1>17, <1>18, LineThen

(* A value, or a blank, that the line ends with.                           *)
LEMMA OtherEnds ==
    ASSUME Inv, LineRead, NEW b \in Bytes, cr, Feed(b),
           ValueEndsLine \/ DelimiterEndsLine
    PROVE  LineRead'
<1>1. PICK n \in Nat :
         /\ Len(bytes) = n + 1 /\ n \in 0 .. Len(bytes) /\ Len(bytes') = n + 2
         /\ Longer(bytes, bytes') /\ IsPlaced(ext) /\ result = "none"
    BY AfterCrIs
<1>2. /\ state \in {"ExtValueToken", "WaitingDelimiter", "WaitingExtDelimiter"}
      /\ result' = "some" /\ hdr' = [hdr EXCEPT !.lineLen = Idx]
    BY DEF ValueEndsLine, DelimiterEndsLine, Ends
<1>3. hdr'.zero = hdr.zero /\ hdr'.ieof = hdr.ieof
    BY <1>2 DEF Inv, TypeOK
<1>4. PICK z, f : z = hdr.zero /\ f = hdr.ieof
    OBVIOUS
<1>5. InExtension(bytes, n, state, ext, z, f)
    <2>1. InExtension(bytes, Len(bytes) - 1, state, ext, hdr.zero, hdr.ieof)
        BY <1>1, <1>2, InLineNow
    <2> QED BY <1>1, <1>4, <2>1
<1>6. ASSUME NEW o \in 1 .. n, ExtRead(bytes', n, o, state, ext)
      PROVE  IsExt(bytes', o + 1, n)
    <2>1. CASE state = "ExtValueToken"
        <3>1. TokenRead(bytes', n, o, ext) /\ o \in Nat
            BY <1>6, <2>1 DEF ExtRead
        <3> QED BY <1>1, <3>1, TokenIsExt
    <2>2. CASE state = "WaitingDelimiter"
        BY <1>6, <2>2, ValueReadIsExt DEF ExtRead
    <2>3. CASE state = "WaitingExtDelimiter"
        <3>1. /\ NameRead(bytes', n, o, ext) /\ o \in Nat
              /\ All(bytes', Spht, ext.nameEnd + 1, n)
            BY <1>6, <2>3 DEF ExtRead
        <3>2. /\ o < ext.nameStart /\ ext.nameStart <= ext.nameEnd
              /\ ext.nameEnd <= n
              /\ All(bytes', Spht, o + 1, ext.nameStart - 1)
              /\ All(bytes', Token, ext.nameStart, ext.nameEnd)
            BY <1>1, <3>1 DEF NameRead, IsPlaced
        <3> QED BY <1>1, <3>1, <3>2, NameIsExt
    <2> QED BY <1>2, <2>1, <2>2, <2>3
<1>7. state \notin Unnamed
    BY <1>2 DEF Unnamed
<1>8. InExtension(bytes', n, "over", NoExt, z, f)
    BY <1>1, <1>5, <1>6, <1>7, End
<1> QED BY <1>1, <1>2, <1>3, <1>4, <1>8, LineThen

-----------------------------------------------------------------------------
(* The invariant.                                                          *)

(* The byte after a CR keeps the invariant.                                *)
LEMMA AfterCrLine ==
    ASSUME Inv, LineRead, NEW b \in Bytes, AfterCr(b) PROVE LineRead'
<1>1. cr /\ Feed(b)
    BY DEF AfterCr
<1>2. CASE Bail
    BY <1>2, FailedThen DEF Bail
<1> QED BY <1>1, <1>2, SizeEndsLine, NameEndsTheLine, OtherEnds DEF AfterCr

(* The scanner starts with it.                                             *)
LEMMA LineReadInit == Init => LineRead
<1> SUFFICES ASSUME Init PROVE LineRead
    OBVIOUS
<1>1. /\ result = "none" /\ state = "WaitingSize" /\ Content = 0
    BY DEF Init, Content, BeforeEnd
<1> QED BY <1>1 DEF LineRead, All

(* Every step keeps it.                                                    *)
LEMMA LineReadNext == Inv /\ LineRead /\ [Next]_vars => LineRead'
<1> SUFFICES ASSUME Inv, LineRead, [Next]_vars PROVE LineRead'
    OBVIOUS
<1>1. CASE UNCHANGED vars
    BY <1>1 DEF vars, LineRead, Content, BeforeEnd
<1>2. ASSUME NEW b \in Bytes, Scan(b) PROVE LineRead'
    BY <1>2, WaitingSizeLine, SizeLine, WaitingDelimiterLine,
       WaitingExtNameLine, ExtNameLine, WaitingExtDelimiterLine,
       WaitingExtValueLine, ExtValueTokenLine, ExtValueQuotedStringLine,
       AfterCrLine, Zenon DEF Scan
<1> QED BY <1>1, <1>2 DEF Next, Returned

(* The scanner never loses track: in every state, what decode_chunk_header *)
(* has read is a size, extensions between semicolons, and the beginning of *)
(* what it is in the middle of; ieof says which names it has compared.     *)
THEOREM ReadsLines == Spec => []LineRead
<1>1. Init => Inv /\ LineRead
    BY InitInv, LineReadInit
<1>2. Inv /\ LineRead /\ [Next]_vars => Inv' /\ LineRead'
    BY StepInv, LineReadNext
<1>3. Spec => [](Inv /\ LineRead)
    BY <1>1, <1>2, PTL DEF Spec
<1> QED BY <1>3, PTL

-----------------------------------------------------------------------------
(* What has been read is a line.                                           *)

(* The size is the piece before the first cut.                             *)
LEMMA SizePiece ==
    ASSUME NEW t, NEW n \in Nat, NEW C, NEW o, NEW z, Begun(t, n, C, o, z),
           NEW q \in C \cup {n + 1}, NextTo(C, 0, q)
    PROVE  Word(t, Hex, 1, q - 1)
<1>1. PICK a, b \in 1 .. n : SizeRead(t, n, C, a, b, z)
    BY DEF Begun
<1>2. \A c \in C : c \in 1 .. n
    BY CutsAre DEF Begun, CutAt
<1>3. /\ 1 <= a /\ a <= b /\ b <= q - 1 /\ q - 1 \in Int /\ q - 1 <= n
      /\ All(t, Spht, 1, a - 1) /\ All(t, Hex, a, b)
    BY <1>1, <1>2 DEF SizeRead
<1>4. ASSUME NEW x \in b + 1 .. q - 1 PROVE t[x] \in Spht
    <2>1. \A c \in C : x < c
        BY <1>2, <1>3, <1>4 DEF NextTo
    <2>2. x \in b + 1 .. n
        BY <1>3, <1>4
    <2> QED BY <1>1, <2>1, <2>2 DEF SizeRead
<1>5. All(t, Spht, b + 1, q - 1)
    BY <1>4 DEF All
<1> QED BY <1>3, <1>5, WordIs

(* The cuts behind which pieces have been read are a parse.                *)
LEMMA ReadIsParse ==
    ASSUME NEW t, NEW n \in Nat, Len(t) = n, DOMAIN t = 1 .. n,
           NEW C, NEW o, NEW z, Begun(t, n, C, o, z),
           o # 0 => IsExt(t, o + 1, n)
    PROVE  C \in Parses(t)
<1>1. C \in SUBSET Cuts(t, n) /\ o \in C \cup {0} /\ PiecesRead(t, C)
    BY DEF Begun, CutAt
<1>2. \A c \in C : c \in 1 .. n /\ c <= o
    BY CutsAre DEF Begun, CutAt
<1>3. ASSUME NEW q \in C \cup {n + 1}, NextTo(C, 0, q)
      PROVE  Word(t, Hex, 1, q - 1)
    BY <1>3, SizePiece
<1>4. ASSUME NEW p \in C, NEW q \in C \cup {n + 1}, NextTo(C, p, q)
      PROVE  IsExt(t, p + 1, q - 1)
    <2>1. CASE q \in C
        BY <1>1, <1>4, <2>1 DEF PiecesRead
    <2>2. CASE q = n + 1
        <3>1. o \in C /\ p \in 1 .. n /\ o \in 1 .. n /\ p <= o
            BY <1>1, <1>2, <1>4
        <3>2. p = o
            BY <1>4, <2>2, <3>1 DEF NextTo
        <3>3. q - 1 = n
            BY <2>2
        <3> QED BY <3>1, <3>2, <3>3
    <2> QED BY <2>1, <2>2
<1>5. ASSUME NEW p \in C \cup {0}, NEW q \in C \cup {n + 1}, NextTo(C, p, q)
      PROVE  IsPiece(t, p, q)
    <2>1. CASE p = 0
        BY <1>3, <1>5, <2>1 DEF IsPiece
    <2>2. CASE p \in C
        <3>1. p # 0
            BY <1>2, <2>2
        <3> QED BY <1>4, <1>5, <2>2, <3>1 DEF IsPiece
    <2> QED BY <2>1, <2>2
<1> QED BY <1>1, <1>5, ParsesArePieces

(* The digits before the first semicolon.                                  *)
LEMMA SignificantAre ==
    ASSUME NEW t, NEW n \in Nat, Len(t) = n, DOMAIN t = 1 .. n
    PROVE  \E q \in 1 .. n + 1 :
              /\ q = n + 1 \/ t[q] = Semi
              /\ \A y \in 1 .. q - 1 : t[y] # Semi
              /\ \A x : x \in SignificantDigits(t) <=>
                    /\ x \in 1 .. q - 1 /\ t[x] \in Hex
                    /\ \E y \in 1 .. q - 1 :
                          t[y] \in Hex /\ y <= x /\ t[y] # "0"
<1>1. PICK K : K = Cuts(t, n)
    OBVIOUS
<1>2. K = {x \in DOMAIN t : t[x] = ";"}
    BY <1>1, Zenon DEF Cuts
<1>3. \A x : x \in K <=> x \in 1 .. n /\ t[x] = Semi
    BY <1>1, CutsAre
<1>4. K \in SUBSET (1 .. n) /\ K \in SUBSET (1 .. n + 1)
    BY <1>3
<1>5. PICK q \in K \cup {n + 1} : NextTo(K, 0, q)
    <2>1. PICK E \in Nat : E = n + 1
        OBVIOUS
    <2>2. 0 < E /\ K \in SUBSET (1 .. E)
        BY <1>4, <2>1
    <2>3. \E q \in K \cup {E} : NextTo(K, 0, q)
        BY <2>2, NextExists
    <2> QED BY <2>1, <2>3
<1>6. NextCut(t, K, 0) = q
    BY <1>4, <1>5, NextCutIs
<1>7. PICK D : D = {x \in 1 .. q - 1 : t[x] \in Hex}
    OBVIOUS
<1>8. SignificantDigits(t) = {x \in D : \E y \in D : y <= x /\ t[y] # "0"}
    BY <1>2, <1>6, <1>7, Zenon DEF SignificantDigits
<1>9. q \in 1 .. n + 1 /\ (q = n + 1 \/ t[q] = Semi)
    BY <1>3, <1>4, <1>5
<1>10. \A y \in 1 .. q - 1 : t[y] # Semi
    BY <1>3, <1>4, <1>5, <1>9 DEF NextTo
<1>11. ASSUME NEW x
       PROVE  x \in SignificantDigits(t) <=>
                 /\ x \in 1 .. q - 1 /\ t[x] \in Hex
                 /\ \E y \in 1 .. q - 1 :
                       t[y] \in Hex /\ y <= x /\ t[y] # "0"
    BY <1>7, <1>8
<1> QED BY <1>9, <1>10, <1>11

(* They are those of the size.                                             *)
LEMMA DigitsOfSize ==
    ASSUME NEW t, NEW n \in Nat, Len(t) = n, DOMAIN t = 1 .. n,
           NEW C \in SUBSET Cuts(t, n), NEW a \in 1 .. n, NEW b \in 1 .. n,
           NEW z, SizeRead(t, n, C, a, b, z), NEW p
    PROVE  p \in SignificantDigits(t) <=>
              p \in a .. b /\ \E q \in a .. b : q <= p /\ t[q] # "0"
<1>1. PICK q \in 1 .. n + 1 :
         /\ q = n + 1 \/ t[q] = Semi
         /\ \A y \in 1 .. q - 1 : t[y] # Semi
         /\ \A x : x \in SignificantDigits(t) <=>
               /\ x \in 1 .. q - 1 /\ t[x] \in Hex
               /\ \E y \in 1 .. q - 1 :
                     t[y] \in Hex /\ y <= x /\ t[y] # "0"
    BY SignificantAre
<1>2. PICK D : D = {y \in 1 .. q - 1 : t[y] \in Hex}
    OBVIOUS
<1>3. /\ a <= b /\ b <= n
      /\ \A x \in 1 .. a - 1 : t[x] \in Spht
      /\ \A x \in a .. b : t[x] \in Hex
      /\ \A x \in b + 1 .. n : (\A c \in C : x < c) => t[x] \in Spht
    BY DEF SizeRead, All
<1>4. Semi \notin Hex /\ Semi \notin Spht /\ (\A x \in Spht : x \notin Hex)
    BY SemiIs DEF Hex, Spht
<1>5. q \in 1 .. n + 1 /\ b < q
    <2>1. CASE q = n + 1
        BY <1>3, <2>1
    <2>2. CASE q # n + 1 /\ t[q] = Semi
        BY <1>3, <1>4, <2>2
    <2> QED BY <1>1, <2>1, <2>2
<1>6. ASSUME NEW x \in b + 1 .. q - 1 PROVE t[x] \in Spht
    <2>1. \A c \in C : c \in 1 .. n /\ t[c] = Semi
        BY CutsAre
    <2>2. x \in b + 1 .. n /\ \A c \in C : x < c
        BY <1>1, <1>5, <2>1
    <2> QED BY <1>3, <2>2
<1>7. \A x : x \in D <=> x \in a .. b
    <2>1. ASSUME NEW x \in a .. b PROVE x \in D
        BY <1>2, <1>3, <1>5
    <2>2. ASSUME NEW x \in D PROVE x \in a .. b
        <3>1. x \in 1 .. q - 1 /\ t[x] \in Hex
            BY <1>2
        <3>2. x \notin 1 .. a - 1 /\ x \notin b + 1 .. q - 1
            BY <1>3, <1>4, <1>6, <3>1
        <3> QED BY <1>5, <3>1, <3>2
    <2> QED BY <2>1, <2>2
<1> QED BY <1>1, <1>2, <1>7

(* They fit if the scanner let them, and are zero if it says so.           *)
LEMMA SizeIs ==
    ASSUME NEW t, NEW n \in Nat, Len(t) = n, DOMAIN t = 1 .. n,
           NEW C, NEW o, NEW z, Begun(t, n, C, o, z)
    PROVE  FitsUsize(t) /\ (z <=> SignificantDigits(t) = {})
<1>1. PICK a, b \in 1 .. n : SizeRead(t, n, C, a, b, z)
    BY DEF Begun
<1>2. C \in SUBSET Cuts(t, n)
    BY DEF Begun, CutAt
<1>3. PICK S : S = SignificantDigits(t)
    OBVIOUS
<1>4. \A p : p \in S <=>
              p \in a .. b /\ \E q \in a .. b : q <= p /\ t[q] # "0"
    BY <1>1, <1>2, <1>3, DigitsOfSize, SMTT(60)
<1>5. /\ z <=> \A x \in a .. b : t[x] = "0"
      /\ \A x \in a .. b : t[x] # "0" => b - x < MaxDigits
    BY <1>1 DEF SizeRead
<1>6. ASSUME NEW p \in S, NEW q \in S PROVE q - p < MaxDigits
    <2>1. PICK r \in a .. b : r <= p /\ t[r] # "0"
        BY <1>4
    <2>2. /\ p \in a .. b /\ q \in a .. b
          /\ b - r < MaxDigits /\ MaxDigits \in Nat
        BY <1>4, <1>5, <2>1, DigitsAssumption
    <2> QED BY <2>1, <2>2
<1>7. ASSUME NEW x \in a .. b, t[x] # "0" PROVE x \in S
    BY <1>4, <1>7
<1>8. ASSUME NEW p \in S PROVE \E q \in a .. b : t[q] # "0"
    BY <1>4
<1>9. z <=> S = {}
    BY <1>5, <1>7, <1>8
<1> QED BY <1>3, <1>6, <1>9 DEF FitsUsize

(* The name behind a cut is ieof, read as part of the line or of its       *)
(* piece.                                                                  *)
LEMMA IeofOfPiece ==
    ASSUME NEW t, NEW u, NEW n \in Nat, Agree(t, u, n), Len(t) = n + 2,
           t[n + 1] = "cr", NEW C \in SUBSET Cuts(t, n), NEW p \in C,
           NEW q \in C \cup {n + 1}, NextTo(C, p, q)
    PROVE  IsIeof(u, p + 1, q - 1) <=> IeofAt(t, p)
<1>1. \A c \in C : c \in 1 .. n /\ t[c] = Semi
    BY CutsAre
<1>2. /\ Semi \notin Token /\ "cr" \notin Token /\ "i" \in Token
      /\ Semi \notin Spht /\ "cr" \notin Spht
    BY SemiIs DEF Token, Hex, Spht
<1>3. /\ t[q] \notin Token /\ t[q] \notin Spht
      /\ p \in 1 .. n /\ q \in 1 .. n + 1 /\ p < q
    BY <1>1, <1>2 DEF NextTo
<1>4. ASSUME NEW x \in p + 1 .. q - 1 PROVE u[x] = t[x] /\ x \in 1 .. n
    BY <1>3 DEF Agree
<1>5. ASSUME IsIeof(u, p + 1, q - 1) PROVE IeofAt(t, p)
    <2>1. PICK a \in p + 1 .. q - 1 :
             /\ u[a] = "i" /\ All(u, Spht, p + 1, a - 1)
             /\ a = q - 1 \/ u[a + 1] \notin Token
        BY <1>5 DEF IsIeof
    <2>2. a \in p + 1 .. n + 1 /\ t[a] = "i" /\ All(t, Spht, p + 1, a - 1)
        BY <1>3, <1>4, <2>1 DEF All
    <2>3. t[a + 1] \notin Token
        <3>1. CASE a = q - 1
            BY <1>3, <3>1
        <3>2. CASE a # q - 1
            <4>1. a + 1 \in p + 1 .. q - 1
                BY <1>3, <2>1, <3>2
            <4> QED BY <1>4, <2>1, <3>2, <4>1
        <3> QED BY <3>1, <3>2
    <2>4. Len(t) - 1 = n + 1
        OBVIOUS
    <2> QED BY <2>2, <2>3, <2>4 DEF IeofAt
<1>6. ASSUME IeofAt(t, p) PROVE IsIeof(u, p + 1, q - 1)
    <2>1. PICK a \in p + 1 .. n + 1 :
             /\ t[a] = "i" /\ All(t, Spht, p + 1, a - 1)
             /\ t[a + 1] \notin Token
        <3>1. Len(t) - 1 = n + 1
            OBVIOUS
        <3> QED BY <1>6, <3>1 DEF IeofAt
    <2>2. a # q /\ q \notin p + 1 .. a - 1
        BY <1>2, <1>3, <2>1 DEF All
    <2>3. a \in p + 1 .. q - 1
        BY <1>3, <2>2
    <2>4. u[a] = "i" /\ All(u, Spht, p + 1, a - 1)
        <3>1. \A x \in p + 1 .. a - 1 : x \in p + 1 .. q - 1
            BY <1>3, <2>3
        <3> QED BY <1>4, <2>1, <2>3, <3>1 DEF All
    <2>5. a = q - 1 \/ u[a + 1] \notin Token
        <3>1. a # q - 1 => a + 1 \in p + 1 .. q - 1
            BY <1>3, <2>3
        <3> QED BY <1>4, <2>1, <3>1
    <2> QED BY <2>3, <2>4, <2>5 DEF IsIeof
<1> QED BY <1>5, <1>6

(* What the scanner has accepted is a line, and it has read it right.      *)
LEMMA LineIsRead ==
    ASSUME Inv, LineRead PROVE AcceptsLines
<1> SUFFICES ASSUME result = "some" PROVE AcceptsLines
    BY DEF AcceptsLines
<1>1. /\ bytes \in Seq(Bytes) /\ Len(bytes) \in Nat
      /\ hdr.lineLen = Len(bytes) /\ Len(bytes) >= 2
      /\ bytes[Len(bytes)] = "lf" /\ bytes[Len(bytes) - 1] = "cr"
    BY Fields DEF Inv, LineEndsAtLineLen
<1>2. PICK n \in Nat : n = Len(bytes) - 2
    BY <1>1
<1>3. PICK t : t = SubSeq(bytes, 1, Len(bytes) - 2)
    OBVIOUS
<1>4. /\ Len(t) = n /\ DOMAIN t = 1 .. n /\ Agree(bytes, t, n)
      /\ Len(bytes) = n + 2 /\ bytes[n + 1] = "cr"
    BY <1>1, <1>2, <1>3, SubSeqProperties DEF Agree
<1>5. PICK z, f : z = hdr.zero /\ f = hdr.ieof
    OBVIOUS
<1>6. InExtension(bytes, n, "over", NoExt, z, f)
    BY <1>2, <1>5 DEF LineRead, Content
<1>7. PICK C \in SUBSET Cuts(bytes, n) : \E o \in C \cup {0} :
         /\ Begun(bytes, n, C, o, z)
         /\ ExtRead(bytes, n, o, "over", NoExt)
         /\ NamesRead(bytes, C, f)
    BY <1>6 DEF InExtension, Unnamed
<1>8. PICK o \in C \cup {0} :
         /\ Begun(bytes, n, C, o, z)
         /\ ExtRead(bytes, n, o, "over", NoExt)
         /\ NamesRead(bytes, C, f)
    BY <1>7
<1>9. Begun(t, n, C, o, z)
    BY <1>4, <1>8, BegunKept
<1>10. o # 0 => IsExt(t, o + 1, n)
    <2> SUFFICES ASSUME o # 0 PROVE IsExt(t, o + 1, n)
        OBVIOUS
    <2>1. o \in 1 .. n /\ IsExt(bytes, o + 1, n)
        BY <1>8, CutBounds DEF ExtRead
    <2>2. o + 1 \in Int /\ n \in Int
        BY <2>1
    <2>3. \A i \in o + 1 .. n : bytes[i] = t[i]
        BY <1>4, <2>1 DEF Agree
    <2> QED BY <2>1, <2>2, <2>3, SameExt
<1>11. C \in Parses(t)
    BY <1>4, <1>9, <1>10, ReadIsParse
<1>12. FitsUsize(t) /\ (z <=> SignificantDigits(t) = {})
    BY <1>4, <1>9, SizeIs
<1>13. ASSUME NEW p \in C
       PROVE  IsIeof(t, p + 1, NextCut(t, C, p) - 1) <=> IeofAt(bytes, p)
    <2>1. C \in SUBSET (1 .. n) /\ p \in 1 .. n
        BY CutBounds
    <2>2. PICK E \in Nat : E = n + 1
        OBVIOUS
    <2>3. C \in SUBSET (1 .. E) /\ p \in Nat /\ p < E
        BY <2>1, <2>2
    <2>4. PICK q \in C \cup {E} : NextTo(C, p, q)
        BY <2>3, NextExists
    <2>5. q \in C \cup {Len(t) + 1} /\ C \in SUBSET (1 .. Len(t))
          /\ Len(t) \in Nat
        BY <1>4, <2>1, <2>2, <2>4
    <2>6. NextCut(t, C, p) = q
        BY <2>3, <2>4, <2>5, NextCutIs
    <2> QED BY <1>4, <2>2, <2>4, <2>6, IeofOfPiece
<1>14. f <=> \E p \in C : IsIeof(t, p + 1, NextCut(t, C, p) - 1)
    BY <1>8, <1>13 DEF NamesRead
<1>15. \A D \in Parses(t) : D = C
    <2>1. Len(t) \in Nat /\ DOMAIN t = 1 .. Len(t)
        BY <1>4
    <2> QED BY <1>11, <2>1, OneParse
<1>16. f <=> \E D \in Parses(t) : \E p \in D :
                IsIeof(t, p + 1, NextCut(t, D, p) - 1)
    BY <1>11, <1>14, <1>15
<1>17. IsLine(bytes)
    BY <1>1, <1>3, <1>11 DEF IsLine
<1> QED BY <1>1, <1>3, <1>5, <1>12, <1>16, <1>17 DEF AcceptsLines

(* decode_chunk_header accepts nothing but a line of the grammar, at its   *)
(* end, of any length: the size it hands on is the one that is written     *)
(* there, and ieof is set iff an extension of the line has that name,      *)
(* wherever quoted strings hide semicolons.  The buffer may hold anything. *)
THEOREM AcceptsOnlyLines == Spec => []AcceptsLines
<1>1. Inv /\ LineRead => AcceptsLines
    BY LineIsRead
<1> QED BY <1>1, Invariant, ReadsLines, PTL

-----------------------------------------------------------------------------
(* What has been read can become a line.                                   *)

(* The bytes that make a line of it.                                       *)
Added == {"0", "k", "quote", "(", "cr", "lf"}

(* Bytes that come behind those read.                                      *)
LEMMA Joined ==
    ASSUME bytes \in Seq(Bytes), NEW c \in Seq(Added)
    PROVE  /\ bytes \o c \in Seq(Bytes \cup Added)
           /\ Len(bytes \o c) = Len(bytes) + Len(c)
           /\ Agree(bytes, bytes \o c, Len(bytes))
           /\ \A i \in 1 .. Len(c) : (bytes \o c)[Len(bytes) + i] = c[i]
<1>1. bytes \in Seq(Bytes \cup Added) /\ c \in Seq(Bytes \cup Added)
    OBVIOUS
<1> QED BY <1>1, ConcatProperties DEF Agree

(* One byte, or none, and CRLF.                                            *)
LEMMA JoinedCrLf ==
    ASSUME bytes \in Seq(Bytes), NEW w \in Seq(Added),
           NEW n \in Nat, n = Len(bytes), NEW m \in Nat, m = n + Len(w)
    PROVE  LET v == bytes \o (w \o <<"cr", "lf">>)
           IN  /\ v \in Seq(Bytes \cup Added) /\ Len(v) = m + 2
               /\ Agree(bytes, v, n)
               /\ \A i \in 1 .. Len(w) : v[n + i] = w[i]
               /\ v[m + 1] = "cr" /\ v[m + 2] = "lf"
<1>1. PICK c : c = w \o <<"cr", "lf">>
    OBVIOUS
<1>2. <<"cr", "lf">> \in Seq(Added) /\ Len(<<"cr", "lf">>) = 2
    BY DEF Added
<1>3. PICK k \in Nat : k = Len(w)
    OBVIOUS
<1>4. /\ c \in Seq(Added) /\ Len(c) = k + 2
      /\ \A i \in 1 .. k : c[i] = w[i]
      /\ c[k + 1] = "cr" /\ c[k + 2] = "lf"
    BY <1>1, <1>2, <1>3, ConcatProperties
<1>5. PICK v : v = bytes \o c
    OBVIOUS
<1>6. /\ v \in Seq(Bytes \cup Added) /\ Len(v) = m + 2 /\ Agree(bytes, v, n)
      /\ \A i \in 1 .. k + 2 : v[n + i] = c[i]
    <2>1. PICK h : h = k + 2
        OBVIOUS
    <2>2. /\ v \in Seq(Bytes \cup Added) /\ Len(v) = n + h
          /\ Agree(bytes, v, n) /\ \A i \in 1 .. h : v[n + i] = c[i]
        <3>1. /\ v \in Seq(Bytes \cup Added) /\ Len(v) = Len(bytes) + Len(c)
              /\ Agree(bytes, v, Len(bytes))
              /\ \A i \in 1 .. Len(c) : v[Len(bytes) + i] = c[i]
            BY <1>4, <1>5, Joined
        <3>2. Len(bytes) = n /\ Len(c) = h
            BY <1>4, <2>1
        <3> QED BY <3>1, <3>2, Zenon
    <2>3. n + h = m + 2
        BY <1>3, <2>1
    <2> QED BY <2>1, <2>2, <2>3, Zenon
<1>7. v[n + (k + 1)] = "cr" /\ v[n + (k + 2)] = "lf"
      /\ \A i \in 1 .. k : v[n + i] = w[i]
    BY <1>4, <1>6
<1>8. n + (k + 1) = m + 1 /\ n + (k + 2) = m + 2
    BY <1>3
<1> QED BY <1>1, <1>3, <1>5, <1>6, <1>7, <1>8

(* A size, and CRLF, are a line.                                           *)
LEMMA IsSize ==
    ASSUME NEW S, NEW s \in Seq(S), NEW m \in Nat, Len(s) = m + 2,
           s[m + 1] = "cr", s[m + 2] = "lf", Word(s, Hex, 1, m)
    PROVE  IsLine(s)
<1>1. PICK t : t = SubSeq(s, 1, Len(s) - 2)
    OBVIOUS
<1>2. Len(t) = m /\ DOMAIN t = 1 .. m /\ \A i \in 1 .. m : s[i] = t[i]
    BY <1>1, SubSeqProperties
<1>3. 1 \in Int /\ m \in Int
    OBVIOUS
<1>4. Word(t, Hex, 1, m)
    BY <1>2, <1>3, SameWord
<1>5. {} \in Parses(t)
    <2>1. IsPiece(t, 0, m + 1)
        BY <1>4 DEF IsPiece
    <2>2. /\ Len(t) \in Nat /\ DOMAIN t = 1 .. Len(t)
          /\ {} \in SUBSET Cuts(t, Len(t))
        BY <1>2
    <2>3. \A p \in {} \cup {0} : \A q \in {} \cup {Len(t) + 1} :
             IsPiece(t, p, q)
        BY <1>2, <2>1
    <2> QED BY <2>2, <2>3, ParsesArePieces
<1>6. Len(s) >= 2 /\ s[Len(s) - 1] = "cr" /\ s[Len(s)] = "lf"
    OBVIOUS
<1> QED BY <1>1, <1>5, <1>6 DEF IsLine

(* So are pieces that have been read, and CRLF.                            *)
LEMMA IsWhole ==
    ASSUME NEW S, NEW s \in Seq(S), NEW m \in Nat, Len(s) = m + 2,
           s[m + 1] = "cr", s[m + 2] = "lf",
           NEW C, NEW o, NEW z, Begun(s, m, C, o, z),
           o # 0 => IsExt(s, o + 1, m)
    PROVE  IsLine(s)
<1>1. PICK t : t = SubSeq(s, 1, Len(s) - 2)
    OBVIOUS
<1>2. Len(t) = m /\ DOMAIN t = 1 .. m /\ Agree(s, t, m)
    BY <1>1, SubSeqProperties DEF Agree
<1>3. Begun(t, m, C, o, z)
    BY <1>2, BegunKept
<1>4. C \in SUBSET Cuts(s, m) /\ o \in C \cup {0}
    BY DEF Begun, CutAt
<1>5. o # 0 => IsExt(t, o + 1, m)
    <2> SUFFICES ASSUME o # 0 PROVE IsExt(t, o + 1, m)
        OBVIOUS
    <2>1. o \in 1 .. m
        BY <1>4, CutBounds
    <2>2. o + 1 \in Int /\ m \in Int
        BY <2>1
    <2>3. \A i \in o + 1 .. m : s[i] = t[i]
        BY <1>2, <2>1 DEF Agree
    <2> QED BY <2>2, <2>3, SameExt
<1>6. C \in Parses(t)
    BY <1>2, <1>3, <1>5, ReadIsParse
<1>7. Len(s) >= 2 /\ s[Len(s) - 1] = "cr" /\ s[Len(s)] = "lf"
    OBVIOUS
<1> QED BY <1>1, <1>6, <1>7 DEF IsLine

(* The states in which the line may end, by what has been read.            *)
LEMMA EndsHere ==
    ASSUME NEW t, NEW n \in Nat, NEW o \in 1 .. n, NEW x, IsPlaced(x),
           NEW s \in {"WaitingDelimiter", "ExtName", "WaitingExtDelimiter",
                      "ExtValueToken"},
           ExtRead(t, n, o, s, x)
    PROVE  IsExt(t, o + 1, n)
<1>1. CASE s = "WaitingDelimiter"
    BY <1>1, ValueReadIsExt DEF ExtRead
<1>2. CASE s = "ExtName"
    <2>1. PICK i \in Int : i = x.nameStart
        BY DEF IsPlaced
    <2>2. /\ o < i /\ i <= n
          /\ All(t, Spht, o + 1, i - 1) /\ All(t, Token, i, n)
        BY <1>2, <2>1 DEF ExtRead
    <2>3. PICK k \in Int : k = o + 1
        OBVIOUS
    <2>4. k <= i /\ n <= n /\ n \in Int /\ All(t, Spht, n + 1, n)
        BY <2>2, <2>3 DEF All
    <2>5. Word(t, Token, k, n)
        BY <2>2, <2>3, <2>4, WordIs
    <2> QED BY <2>3, <2>5 DEF IsExt
<1>3. CASE s = "WaitingExtDelimiter"
    <2>1. NameRead(t, n, o, x) /\ All(t, Spht, x.nameEnd + 1, n) /\ o \in Nat
        BY <1>3 DEF ExtRead
    <2>2. /\ o < x.nameStart /\ x.nameStart <= x.nameEnd
          /\ x.nameEnd <= n
          /\ All(t, Spht, o + 1, x.nameStart - 1)
          /\ All(t, Token, x.nameStart, x.nameEnd)
        BY <2>1 DEF NameRead, IsPlaced
    <2> QED BY <2>1, <2>2, NameIsExt
<1>4. CASE s = "ExtValueToken"
    <2>1. TokenRead(t, n, o, x) /\ o \in Nat
        BY <1>4 DEF ExtRead
    <2> QED BY <2>1, TokenIsExt
<1> QED BY <1>1, <1>2, <1>3, <1>4

(* A CRLF, or the LF of one, ends what may end.                            *)
LEMMA EndsWith ==
    ASSUME Inv, LineRead, result = "none",
           state \in {"Size", "WaitingDelimiter", "ExtName",
                      "WaitingExtDelimiter", "ExtValueToken"},
           NEW n \in Nat, n = Content,
           NEW S, NEW v \in Seq(S), Len(v) = n + 2, Agree(bytes, v, n),
           v[n + 1] = "cr", v[n + 2] = "lf"
    PROVE  IsLine(v)
<1>1. CASE state = "Size"
    <2>1. PICK a \in Int : a = sizeStart
        BY Fields
    <2>2. /\ 1 <= a /\ a <= n /\ All(bytes, Spht, 1, a - 1)
          /\ All(bytes, Hex, a, n)
        BY <1>1, <2>1 DEF LineRead
    <2>3. All(v, Spht, 1, a - 1) /\ All(v, Hex, a, n) /\ All(v, Spht, n + 1, n)
        BY <2>2 DEF All, Agree
    <2>4. 1 \in Int /\ n \in Int /\ n <= n
        OBVIOUS
    <2>5. Word(v, Hex, 1, n)
        BY <2>2, <2>3, <2>4, WordIs
    <2> QED BY <2>5, IsSize
<1>2. CASE state # "Size"
    <2>1. PICK z, f : z = hdr.zero /\ f = hdr.ieof
        OBVIOUS
    <2>2. InExtension(bytes, n, state, ext, z, f)
        BY <1>2, <2>1 DEF LineRead
    <2>3. PICK C \in SUBSET Cuts(bytes, n) : \E o \in C \cup {0} :
             Begun(bytes, n, C, o, z) /\ ExtRead(bytes, n, o, state, ext)
        BY <2>2 DEF InExtension
    <2>4. PICK o \in C \cup {0} :
             Begun(bytes, n, C, o, z) /\ ExtRead(bytes, n, o, state, ext)
        BY <2>3
    <2>5. o \in 0 .. n /\ (o # 0 => o \in 1 .. n)
        BY CutBounds
    <2>6. IsPlaced(ext)
        BY Fields DEF IsPlaced
    <2>7. Begun(v, n, C, o, z) /\ ExtRead(v, n, o, state, ext)
        <3>1. n # 0
            BY <2>4 DEF Begun
        <3> QED BY <2>4, <2>5, <2>6, <3>1, BegunKept, ExtKept
    <2>8. o # 0 => IsExt(v, o + 1, n)
        BY <1>2, <2>5, <2>6, <2>7, EndsHere
    <2> QED BY <2>7, <2>8, IsWhole
<1> QED BY <1>1, <1>2

(* One more byte, before the CRLF, where a size, a name, a value or the    *)
(* end of a quoted string is due.                                          *)
LEMMA OneMoreByte ==
    ASSUME NEW t, NEW v, NEW n \in Nat, Agree(t, v, n),
           NEW S, v \in Seq(S), Len(v) = n + 1 + 2,
           v[n + 1 + 1] = "cr", v[n + 1 + 2] = "lf",
           NEW C \in SUBSET Cuts(t, n), NEW o \in C \cup {0}, NEW z,
           Begun(t, n, C, o, z), NEW x, IsPlaced(x),
           NEW s, ExtRead(t, n, o, s, x),
           \/ s \in {"WaitingExtName", "WaitingExtValue"} /\ v[n + 1] = "k"
           \/ /\ s = "ExtValueQuotedString" /\ v[n + 1] = "quote"
              /\ t[n] # "backslash"
    PROVE  IsLine(v)
<1>1. o # 0 /\ o \in 1 .. n /\ o \in Nat
    BY CutBounds DEF ExtRead
<1>2. PICK m \in Nat : m = n + 1
    OBVIOUS
<1>3. Begun(v, m, C, o, z)
    BY <1>1, <1>2, BegunOn
<1>4. "k" \in Token
    BY DEF Token
<1>5. ASSUME s = "WaitingExtName", v[m] = "k" PROVE IsExt(v, o + 1, m)
    <2>1. All(t, Spht, o + 1, n)
        BY <1>5 DEF ExtRead
    <2>2. /\ All(v, Spht, o + 1, m - 1) /\ All(v, Token, m, m)
          /\ All(v, Spht, m + 1, m)
        BY <1>2, <1>4, <1>5, <2>1, <1>1 DEF All, Agree
    <2>3. o + 1 \in Int /\ m \in Int /\ o + 1 <= m /\ m <= m
        BY <1>1, <1>2
    <2>4. Word(v, Token, o + 1, m)
        BY <2>2, <2>3, WordIs
    <2> QED BY <2>4 DEF IsExt
<1>6. ASSUME s = "WaitingExtValue", v[m] = "k" PROVE IsExt(v, o + 1, m)
    <2>1. PICK e \in 1 .. n : /\ EqualsRead(t, n, o, x, e)
                              /\ All(t, Spht, e + 1, n)
        BY <1>6 DEF ExtRead
    <2>2. EqualsRead(v, m, o, x, e) /\ e \in 1 .. m
        BY <1>1, <1>2, <2>1, EqualsKept
    <2>3. /\ All(v, Spht, e + 1, m - 1) /\ All(v, Token, m, m)
          /\ All(v, Spht, m + 1, m)
        BY <1>2, <1>4, <1>6, <2>1 DEF All, Agree
    <2>4. e + 1 \in Int /\ m \in Int /\ e + 1 <= m /\ m <= m
        BY <1>2
    <2>5. Word(v, Token, e + 1, m)
        BY <2>3, <2>4, WordIs
    <2>6. IsValue(v, e + 1, m)
        BY <2>5 DEF IsValue
    <2> QED BY <1>1, <2>2, <2>6, ValueIsExt
<1>7. ASSUME s = "ExtValueQuotedString", v[m] = "quote", t[n] # "backslash"
      PROVE  IsExt(v, o + 1, m)
    <2>1. QuoteRead(t, n, o, x) /\ v[n + 1] = "quote"
        BY <1>2, <1>7 DEF ExtRead
    <2>2. ValueRead(v, m, o)
        BY <1>1, <1>2, <1>7, <2>1, QuoteIsValue
    <2> QED BY <1>1, <2>2, ValueReadIsExt
<1>8. IsExt(v, o + 1, m)
    BY <1>2, <1>5, <1>6, <1>7
<1>9. Len(v) = m + 2 /\ v[m + 1] = "cr" /\ v[m + 2] = "lf"
    BY <1>2
<1> QED BY <1>3, <1>8, <1>9, IsWhole

(* A string that stops at a backslash goes on with any byte of text.       *)
LEMMA QuoteGoesOn ==
    ASSUME NEW t, NEW v, NEW n \in Nat, Agree(t, v, n),
           NEW o \in Nat, NEW x, IsPlaced(x), QuoteRead(t, n, o, x),
           t[n] = "backslash"
    PROVE  QuoteRead(v, n + 1, o, x)
<1>1. PICK e, a \in 1 .. n :
         /\ EqualsRead(t, n, o, x, e)
         /\ e < a /\ x.valStart = a + 1
         /\ All(t, Spht, e + 1, a - 1) /\ t[a] = "quote"
         /\ \A i \in a + 1 .. n :
               t[i] \in Text \ {"quote"} \/ t[i - 1] = "backslash"
    BY DEF QuoteRead
<1>2. EqualsRead(v, n + 1, o, x, e)
    BY <1>1, EqualsKept
<1>3. All(v, Spht, e + 1, a - 1) /\ v[a] = "quote"
    BY <1>1 DEF All, Agree
<1>4. ASSUME NEW i \in a + 1 .. n + 1
      PROVE  v[i] \in Text \ {"quote"} \/ v[i - 1] = "backslash"
    <2>1. CASE i = n + 1
        <3>1. i - 1 = n /\ n \in 1 .. n
            BY <1>1, <2>1
        <3> QED BY <3>1 DEF Agree
    <2>2. CASE i # n + 1
        <3>1. i \in a + 1 .. n /\ i \in 1 .. n /\ i - 1 \in 1 .. n
            BY <2>2
        <3>2. v[i] = t[i] /\ v[i - 1] = t[i - 1]
            BY <3>1 DEF Agree
        <3> QED BY <1>1, <3>1, <3>2
    <2> QED BY <2>1, <2>2
<1>5. e \in 1 .. n + 1 /\ a \in 1 .. n + 1
    OBVIOUS
<1> QED BY <1>1, <1>2, <1>3, <1>4, <1>5 DEF QuoteRead

(* Each state of the scanner has bytes that make a line of what it has     *)
(* read.                                                                   *)
LEMMA CanEnd ==
    ASSUME Inv, LineRead, result = "none"
    PROVE  \E c \in Completions : IsLine(bytes \o c)
<1> DEFINE crlf == <<"cr", "lf">>
<1>1. PICK N \in Nat : N = Len(bytes)
    BY Fields
<1>2. bytes \in Seq(Bytes) /\ IsPlaced(ext) /\ Agree(bytes, bytes, N)
    BY Fields DEF IsPlaced, Agree
<1>3. /\ <<>> \o crlf \in Completions /\ <<"0">> \o crlf \in Completions
      /\ <<"k">> \o crlf \in Completions /\ <<"quote">> \o crlf \in Completions
      /\ <<"lf">> \in Completions
      /\ <<"(", "quote", "cr", "lf">> \in Completions
    BY Zenon DEF Completions
<1>4. CASE cr
    <2>1. PICK v : v = bytes \o <<"lf">>
        OBVIOUS
    <2>2. <<"lf">> \in Seq(Added) /\ Len(<<"lf">>) = 1
        BY DEF Added
    <2>3. /\ v \in Seq(Bytes \cup Added) /\ Len(v) = N + 1
          /\ Agree(bytes, v, N) /\ v[N + 1] = "lf"
        <3>1. /\ v \in Seq(Bytes \cup Added) /\ Len(v) = Len(bytes) + 1
              /\ Agree(bytes, v, Len(bytes))
              /\ \A i \in 1 .. 1 : v[Len(bytes) + i] = <<"lf">>[i]
            BY <1>2, <2>1, <2>2, Joined
        <3> QED BY <1>1, <3>1
    <2>4. N # 0 /\ bytes[N] = "cr"
        <3>1. bytes # <<>> /\ bytes[N] = "cr"
            BY <1>1, <1>4 DEF Inv, ScanInv
        <3> QED BY <1>1, <1>2, <3>1, EmptySeq
    <2>5. PICK n \in Nat : N = n + 1
        BY <2>4
    <2>6. /\ n = Content /\ Len(v) = n + 2 /\ Agree(bytes, v, n)
          /\ v[n + 1] = "cr" /\ v[n + 2] = "lf"
        BY <1>1, <1>4, <2>3, <2>4, <2>5 DEF Content, BeforeEnd, Agree
    <2>7. state \in {"Size", "WaitingDelimiter", "ExtName",
                     "WaitingExtDelimiter", "ExtValueToken"}
        BY <1>4 DEF Inv, ScanInv
    <2>8. IsLine(v)
        BY <2>3, <2>6, <2>7, EndsWith
    <2> QED BY <1>3, <2>1, <2>8
<1>5. CASE ~ cr
    <2>1. N = Content
        BY <1>1, <1>5 DEF Content, BeforeEnd
    <2>2. ASSUME NEW y \in Added, NEW w, w = <<y>>
          PROVE  LET v == bytes \o (w \o crlf)
                 IN  /\ v \in Seq(Bytes \cup Added) /\ Len(v) = N + 1 + 2
                     /\ Agree(bytes, v, N) /\ v[N + 1] = y
                     /\ v[N + 1 + 1] = "cr" /\ v[N + 1 + 2] = "lf"
        <3>1. w \in Seq(Added) /\ Len(w) = 1 /\ 1 \in 1 .. Len(w) /\ w[1] = y
            BY <2>2
        <3>2. PICK m \in Nat : m = N + 1
            OBVIOUS
        <3>3. PICK v : v = bytes \o (w \o crlf)
            OBVIOUS
        <3>4. m = N + Len(w)
            BY <3>1, <3>2
        <3>5. /\ v \in Seq(Bytes \cup Added) /\ Len(v) = m + 2
              /\ Agree(bytes, v, N)
              /\ \A i \in 1 .. Len(w) : v[N + i] = w[i]
              /\ v[m + 1] = "cr" /\ v[m + 2] = "lf"
            BY <1>1, <1>2, <3>1, <3>3, <3>4, JoinedCrLf, ZenonT(90)
        <3> QED BY <3>1, <3>2, <3>3, <3>5
    <2>3. CASE state \in {"Size", "WaitingDelimiter", "ExtName",
                          "WaitingExtDelimiter", "ExtValueToken"}
        <3>1. PICK v : v = bytes \o (<<>> \o crlf)
            OBVIOUS
        <3>2. <<>> \in Seq(Added) /\ Len(<<>>) = 0 /\ N = N + Len(<<>>)
            OBVIOUS
        <3>3. /\ v \in Seq(Bytes \cup Added) /\ Len(v) = N + 2
              /\ Agree(bytes, v, N) /\ v[N + 1] = "cr" /\ v[N + 2] = "lf"
            BY <1>1, <1>2, <3>1, <3>2, JoinedCrLf, ZenonT(90)
        <3>4. IsLine(v)
            BY <2>1, <2>3, <3>3, EndsWith
        <3> QED BY <1>3, <3>1, <3>4
    <2>4. CASE state = "WaitingSize"
        <3>1. PICK v : v = bytes \o (<<"0">> \o crlf)
            OBVIOUS
        <3>2. "0" \in Added /\ "0" \in Hex
            BY DEF Added, Hex
        <3>3. /\ v \in Seq(Bytes \cup Added) /\ Len(v) = N + 1 + 2
              /\ Agree(bytes, v, N) /\ v[N + 1] = "0"
              /\ v[N + 1 + 1] = "cr" /\ v[N + 1 + 2] = "lf"
            BY <2>2, <3>1, <3>2, ZenonT(60)
        <3>4. All(bytes, Spht, 1, N)
            BY <2>1, <2>4 DEF LineRead
        <3>5. PICK m \in Nat : m = N + 1
            OBVIOUS
        <3>6. /\ All(v, Spht, 1, m - 1) /\ All(v, Hex, m, m)
              /\ All(v, Spht, m + 1, m) /\ 1 <= m /\ m <= m /\ m \in Int
            BY <3>2, <3>3, <3>4, <3>5 DEF All, Agree
        <3>7. Word(v, Hex, 1, m)
            BY <3>6, WordIs
        <3>8. IsLine(v)
            BY <3>3, <3>5, <3>7, IsSize
        <3> QED BY <1>3, <3>1, <3>8
    <2>5. CASE state \in {"WaitingExtName", "WaitingExtValue",
                          "ExtValueQuotedString"}
        <3>1. PICK z, f : z = hdr.zero /\ f = hdr.ieof
            OBVIOUS
        <3>2. InExtension(bytes, N, state, ext, z, f)
            BY <2>1, <2>5, <3>1 DEF LineRead
        <3>3. PICK C \in SUBSET Cuts(bytes, N) : \E o \in C \cup {0} :
                 Begun(bytes, N, C, o, z) /\ ExtRead(bytes, N, o, state, ext)
            BY <3>2 DEF InExtension
        <3>4. PICK o \in C \cup {0} :
                 Begun(bytes, N, C, o, z) /\ ExtRead(bytes, N, o, state, ext)
            BY <3>3
        <3>5. CASE state \in {"WaitingExtName", "WaitingExtValue"}
            <4>1. PICK v : v = bytes \o (<<"k">> \o crlf)
                OBVIOUS
            <4>2. "k" \in Added
                BY DEF Added
            <4>3. /\ v \in Seq(Bytes \cup Added) /\ Len(v) = N + 1 + 2
                  /\ Agree(bytes, v, N) /\ v[N + 1] = "k"
                  /\ v[N + 1 + 1] = "cr" /\ v[N + 1 + 2] = "lf"
                BY <2>2, <4>1, <4>2
            <4>4. IsLine(v)
                BY <1>2, <3>4, <3>5, <4>3, OneMoreByte
            <4> QED BY <1>3, <4>1, <4>4
        <3>6. CASE state = "ExtValueQuotedString" /\ bytes[N] # "backslash"
            <4>1. PICK v : v = bytes \o (<<"quote">> \o crlf)
                OBVIOUS
            <4>2. "quote" \in Added
                BY DEF Added
            <4>3. /\ v \in Seq(Bytes \cup Added) /\ Len(v) = N + 1 + 2
                  /\ Agree(bytes, v, N) /\ v[N + 1] = "quote"
                  /\ v[N + 1 + 1] = "cr" /\ v[N + 1 + 2] = "lf"
                BY <2>2, <4>1, <4>2, ZenonT(60)
            <4>4. IsLine(v)
                BY <1>2, <3>4, <3>6, <4>3, OneMoreByte
            <4> QED BY <1>3, <4>1, <4>4
        <3>7. CASE state = "ExtValueQuotedString" /\ bytes[N] = "backslash"
            <4>1. PICK c : c = <<"(", "quote", "cr", "lf">>
                OBVIOUS
            <4>2. /\ c \in Seq(Added) /\ Len(c) = 4
                  /\ c[1] = "(" /\ c[2] = "quote" /\ c[3] = "cr" /\ c[4] = "lf"
                BY <4>1 DEF Added
            <4>3. PICK v : v = bytes \o c
                OBVIOUS
            <4>4. /\ v \in Seq(Bytes \cup Added) /\ Len(v) = N + 4
                  /\ Agree(bytes, v, N) /\ v[N + 1] = "(" /\ v[N + 2] = "quote"
                  /\ v[N + 3] = "cr" /\ v[N + 4] = "lf"
                <5>1. /\ v \in Seq(Bytes \cup Added)
                      /\ Len(v) = Len(bytes) + Len(c)
                      /\ Agree(bytes, v, Len(bytes))
                      /\ \A i \in 1 .. Len(c) : v[Len(bytes) + i] = c[i]
                    BY <1>2, <4>2, <4>3, Joined
                <5> QED BY <1>1, <4>2, <5>1
            <4>5. PICK M \in Nat : M = N + 1
                OBVIOUS
            <4>6. /\ Len(v) = M + 1 + 2 /\ Agree(v, v, M) /\ v[M] = "("
                  /\ v[M + 1] = "quote"
                  /\ v[M + 1 + 1] = "cr" /\ v[M + 1 + 2] = "lf"
                BY <4>4, <4>5 DEF Agree
            <4>7. o # 0 /\ o \in Nat /\ QuoteRead(bytes, N, o, ext)
                BY <3>4, <3>7, CutBounds DEF ExtRead
            <4>8. QuoteRead(v, M, o, ext)
                BY <1>2, <3>7, <4>4, <4>5, <4>7, QuoteGoesOn
            <4>9. ExtRead(v, M, o, "ExtValueQuotedString", ext)
                BY <4>7, <4>8 DEF ExtRead
            <4>10. Begun(v, M, C, o, z)
                BY <3>4, <4>4, <4>5, <4>7, BegunOn
            <4>11. C \in SUBSET Cuts(v, M) /\ o \in C \cup {0}
                BY <4>10 DEF Begun, CutAt
            <4>12. IsLine(v)
                BY <1>2, <4>4, <4>6, <4>9, <4>10, <4>11, OneMoreByte
            <4> QED BY <1>3, <4>1, <4>3, <4>12
        <3> QED BY <2>5, <3>5, <3>6, <3>7
    <2>6. state \in States
        BY DEF Inv, TypeOK
    <2> QED BY <2>3, <2>4, <2>5, <2>6 DEF States
<1> QED BY <1>4, <1>5

(* While decode_chunk_header returns "none", what it has read can become a *)
(* line: the server does not wait for more of a line that is wrong.        *)
THEOREM WaitsForLinesOnly == Spec => []WaitsOnlyForLines
<1>1. Inv /\ LineRead => WaitsOnlyForLines
    BY CanEnd DEF WaitsOnlyForLines
<1> QED BY <1>1, Invariant, ReadsLines, PTL

-----------------------------------------------------------------------------
(* An error is returned only where no line can come of it.                 *)

(* D cuts u, up to m, into pieces in order.                                *)
IsCut(u, m, D) ==
    /\ D \in SUBSET Cuts(u, m)
    /\ \A p \in D \cup {0} : \A q \in D \cup {m + 1} :
          NextTo(D, p, q) => IsPiece(u, p, q)

(* So a line is cut, and ends with CRLF.                                   *)
LEMMA LineIsCut ==
    ASSUME NEW S, NEW u \in Seq(S), IsLine(u)
    PROVE  \E m \in Nat : /\ Len(u) = m + 2
                          /\ u[m + 1] = "cr" /\ u[m + 2] = "lf"
                          /\ \E D : IsCut(u, m, D)
<1>1. /\ Len(u) >= 2 /\ Len(u) \in Nat
      /\ u[Len(u) - 1] = "cr" /\ u[Len(u)] = "lf"
    BY DEF IsLine
<1>2. PICK m \in Nat : Len(u) = m + 2
    <2>1. Len(u) - 2 \in Nat /\ Len(u) = Len(u) - 2 + 2
        BY <1>1
    <2> QED BY <2>1
<1>3. u[m + 1] = "cr" /\ u[m + 2] = "lf"
    BY <1>1, <1>2
<1>4. PICK t : t = SubSeq(u, 1, Len(u) - 2)
    OBVIOUS
<1>5. Len(t) = m /\ DOMAIN t = 1 .. Len(t) /\ Agree(t, u, m)
    BY <1>1, <1>2, <1>4, SubSeqProperties DEF Agree
<1>6. PICK D : D \in Parses(t)
    BY <1>4 DEF IsLine
<1>7. /\ D \in SUBSET Cuts(t, m)
      /\ \A p \in D \cup {0} : \A q \in D \cup {m + 1} :
            NextTo(D, p, q) => IsPiece(t, p, q)
    BY <1>5, <1>6, ParsesArePieces
<1>8. D \in SUBSET Cuts(u, m)
    BY <1>5, <1>7, SameCuts
<1>9. ASSUME NEW p \in D \cup {0}, NEW q \in D \cup {m + 1}, NextTo(D, p, q)
      PROVE  IsPiece(u, p, q)
    <2>1. p \in Nat /\ q \in Nat /\ q <= m + 1
        BY <1>7, CutsAre
    <2>2. IsPiece(t, p, q)
        BY <1>7, <1>9
    <2>3. p + 1 \in Int /\ q - 1 \in Int /\ 1 \in Int
          /\ (\A i \in 1 .. q - 1 : t[i] = u[i])
          /\ (\A i \in p + 1 .. q - 1 : t[i] = u[i])
        BY <1>5, <2>1 DEF Agree
    <2> QED BY <2>2, <2>3, SameWord, SameExt DEF IsPiece
<1> QED BY <1>2, <1>3, <1>8, <1>9, ZenonT(60) DEF IsCut

-----------------------------------------------------------------------------
(* The bytes of an extension as far as it has been read.                   *)

(* There is no "=" yet.                                                    *)
LEMMA NameBytes ==
    ASSUME NEW u, NEW n \in Nat, NEW o \in Nat, NEW x, IsPlaced(x),
           NEW s \in {"WaitingExtName", "ExtName", "WaitingExtDelimiter"},
           ExtRead(u, n, o, s, x)
    PROVE  \A i \in o + 1 .. n : u[i] \in Token \cup Spht
<1>1. PICK a \in Int, b \in Int : a = x.nameStart /\ b = x.nameEnd
    BY DEF IsPlaced
<1>2. CASE s = "WaitingExtName"
    BY <1>2 DEF ExtRead, All
<1>3. CASE s = "ExtName"
    BY <1>1, <1>3 DEF ExtRead, All
<1>4. CASE s = "WaitingExtDelimiter"
    BY <1>1, <1>4 DEF ExtRead, NameRead, All
<1> QED BY <1>2, <1>3, <1>4

(* There is one, and what follows it is a token at most.                   *)
LEMMA ValueBytes ==
    ASSUME NEW u, NEW n \in Nat, NEW o \in Nat, NEW x, IsPlaced(x),
           NEW s \in {"WaitingExtValue", "ExtValueToken"},
           ExtRead(u, n, o, s, x)
    PROVE  \E e \in o + 1 .. n :
              /\ u[e] = "="
              /\ \A i \in o + 1 .. e - 1 : u[i] \in Token \cup Spht
              /\ s = "WaitingExtValue" => All(u, Spht, e + 1, n)
              /\ s = "ExtValueToken" =>
                    \E a \in e + 1 .. n : /\ All(u, Spht, e + 1, a - 1)
                                          /\ All(u, Token, a, n)
<1>1. CASE s = "WaitingExtValue"
    <2>1. PICK e \in 1 .. n : /\ EqualsRead(u, n, o, x, e)
                              /\ All(u, Spht, e + 1, n)
        BY <1>1 DEF ExtRead
    <2> QED BY <1>1, <2>1, NameIsWord
<1>2. CASE s = "ExtValueToken"
    <2>1. PICK e \in 1 .. n :
             /\ EqualsRead(u, n, o, x, e)
             /\ e < x.valStart /\ x.valStart <= n
             /\ All(u, Spht, e + 1, x.valStart - 1)
             /\ All(u, Token, x.valStart, n)
        BY <1>2 DEF ExtRead, TokenRead
    <2>2. PICK a \in Int : a = x.valStart
        BY DEF IsPlaced
    <2>3. a \in e + 1 .. n /\ All(u, Spht, e + 1, a - 1) /\ All(u, Token, a, n)
        BY <2>1, <2>2
    <2> QED BY <1>2, <2>1, <2>3, NameIsWord
<1> QED BY <1>1, <1>2

(* The quote that has opened a string is the first, and none has closed it.*)
LEMMA QuoteIsOpen ==
    ASSUME NEW u, NEW n \in Nat, NEW o \in Nat, NEW x, IsPlaced(x),
           QuoteRead(u, n, o, x)
    PROVE  \E a \in o + 1 .. n :
              /\ u[a] = "quote"
              /\ \A i \in o + 1 .. a - 1 : u[i] \in Token \cup Spht \cup {"="}
              /\ \A b \in 1 .. n : ~ Quoted(u, a, b)
<1>1. PICK e, a \in 1 .. n :
         /\ EqualsRead(u, n, o, x, e)
         /\ e < a /\ x.valStart = a + 1
         /\ All(u, Spht, e + 1, a - 1) /\ u[a] = "quote"
         /\ \A i \in a + 1 .. n :
               u[i] \in Text \ {"quote"} \/ u[i - 1] = "backslash"
    BY DEF QuoteRead
<1>2. /\ u[e] = "=" /\ e \in o + 1 .. n
      /\ \A i \in o + 1 .. e - 1 : u[i] \in Token \cup Spht
    BY <1>1, NameIsWord
<1>3. \A i \in o + 1 .. a - 1 : u[i] \in Token \cup Spht \cup {"="}
    BY <1>1, <1>2 DEF All
<1>4. ASSUME NEW b \in 1 .. n, Quoted(u, a, b) PROVE FALSE
    <2>1. b \in a + 1 .. n /\ u[b] = "quote" /\ u[b - 1] # "backslash"
        BY <1>4 DEF Quoted
    <2> QED BY <1>1, <2>1
<1>5. a \in o + 1 .. n
    BY <1>1, <1>2
<1> QED BY <1>1, <1>3, <1>4, <1>5

(* Up to a semicolon or CR in it, it is no extension.                      *)
LEMMA Unfinished ==
    ASSUME NEW u, NEW n \in Nat, NEW o \in Nat, o # 0, NEW x, IsPlaced(x),
           NEW s \in States \ {"WaitingSize", "Size"}, ExtRead(u, n, o, s, x),
           NEW y \in o + 1 .. n, u[y] \in Stop
    PROVE  ~ IsExt(u, o + 1, y - 1)
<1>0. u[y] \notin Token \cup Spht \cup {"=", "quote"}
    BY StopIs
<1>1. CASE s = "WaitingDelimiter"
    <2>1. IsExt(u, o + 1, n + 1 - 1)
        <3>1. ValueRead(u, n, o) /\ n + 1 - 1 = n
            BY <1>1 DEF ExtRead
        <3> QED BY <3>1, ValueReadIsExt
    <2>2. PICK q \in Nat : q = n + 1
        OBVIOUS
    <2>3. IsPiece(u, o, q) /\ y \in Nat /\ o < y /\ y < q
        BY <2>1, <2>2 DEF IsPiece
    <2>4. ~ IsPiece(u, o, y)
        BY <2>3, OnePiece
    <2> QED BY <2>4 DEF IsPiece
<1>2. CASE s \in {"WaitingExtName", "ExtName", "WaitingExtDelimiter"}
    BY <1>0, <1>2, NameBytes
<1>3. CASE s \in {"WaitingExtValue", "ExtValueToken"}
    BY <1>0, <1>3, ValueBytes DEF All
<1>4. CASE s = "ExtValueQuotedString"
    <2>1. QuoteRead(u, n, o, x)
        BY <1>4 DEF ExtRead
    <2>2. PICK a \in o + 1 .. n :
              /\ u[a] = "quote"
              /\ \A i \in o + 1 .. a - 1 : u[i] \in Token \cup Spht \cup {"="}
              /\ \A b \in 1 .. n : ~ Quoted(u, a, b)
        BY <2>1, QuoteIsOpen
    <2>3. "quote" \notin Token \cup Spht \cup {"="}
        BY DEF Token, Hex, Spht
    <2>4. /\ a \in o + 1 .. y - 1 /\ o + 1 \in Int /\ y - 1 \in Int
          /\ \A i \in o + 1 .. a - 1 : u[i] # "quote"
        BY <1>0, <2>2, <2>3
    <2>5. ASSUME IsExt(u, o + 1, y - 1) PROVE FALSE
        <3>1. PICK b \in o + 1 .. y - 1 : Quoted(u, a, b)
            BY <2>2, <2>4, <2>5, QuoteOpens
        <3> QED BY <2>2, <3>1
    <2> QED BY <2>5
<1> QED BY <1>1, <1>2, <1>3, <1>4 DEF States

(* The pieces that have been read.                                         *)
LEMMA BegunPieces ==
    ASSUME NEW u, NEW n \in Nat, NEW C, NEW o, NEW z, Begun(u, n, C, o, z),
           NEW p \in C \cup {0}, NEW q \in C, NextTo(C, p, q)
    PROVE  IsPiece(u, p, q)
<1>1. /\ C \in SUBSET Cuts(u, n) /\ PiecesRead(u, C)
      /\ \A c \in C : c \in 1 .. n
    BY CutsAre DEF Begun, CutAt
<1>2. CASE p # 0
    BY <1>1, <1>2 DEF PiecesRead, IsPiece
<1>3. CASE p = 0
    BY <1>3, SizePiece DEF IsPiece
<1> QED BY <1>2, <1>3

(* What has been read of a line is cut where the line is.                  *)
LEMMA CutsAreThose ==
    ASSUME NEW u, NEW n \in Nat, NEW m \in Nat, u[m + 1] = "cr",
           NEW D, IsCut(u, m, D),
           NEW C, NEW o, NEW z, Begun(u, n, C, o, z), NEW x, IsPlaced(x),
           NEW s \in States \ {"WaitingSize", "Size"}, ExtRead(u, n, o, s, x)
    PROVE  \A y \in 1 .. n : y \in C <=> y \in D \cup {m + 1}
<1> DEFINE F == D \cup {m + 1}
           Differ == {y \in 1 .. n : ~ (y \in C <=> y \in F)}
<1>1. /\ \A c \in C : c \in 1 .. n /\ c \in Nat /\ c <= o /\ u[c] = Semi
      /\ o \in C \cup {0}
    BY CutsAre DEF Begun, CutAt
<1>2. \A d \in D : d \in 1 .. m /\ d \in Nat /\ u[d] = Semi
    BY CutsAre DEF IsCut
<1>3. Semi # "cr"
    BY SemiIs
<1>4. \A p \in D \cup {0} : \A q \in F : NextTo(D, p, q) => IsPiece(u, p, q)
    BY DEF IsCut
<1> SUFFICES ASSUME Differ # {} PROVE FALSE
    OBVIOUS
<1>5. Differ \in SUBSET Nat
    OBVIOUS
<1>6. PICK y \in Differ : \A k \in Differ : y <= k
    <2> HIDE DEF Differ
    <2> QED BY <1>5, Least
<1>7. y \in 1 .. n /\ y \in Nat
    OBVIOUS
<1>8. \A k \in 1 .. y - 1 : k \in C <=> k \in F
    <2> SUFFICES ASSUME NEW k \in 1 .. y - 1, ~ (k \in C <=> k \in F)
                 PROVE  FALSE
        OBVIOUS
    <2>1. k \in Differ /\ k < y
        BY <1>7
    <2> QED BY <1>6, <1>7, <2>1
<1>9. CASE y \in C /\ y \notin F
    <2>1. y < m + 1
        <3>1. ASSUME m + 1 < y PROVE FALSE
            <4>1. m + 1 \in 1 .. y - 1 /\ m + 1 \in F
                BY <1>7, <3>1
            <4>2. m + 1 \in C
                BY <1>8, <4>1
            <4> QED BY <1>1, <1>3, <4>2
        <3>2. y # m + 1
            BY <1>9
        <3> QED BY <1>7, <3>1, <3>2
    <2>2. PICK E \in Nat : E = m + 1
        OBVIOUS
    <2>3. D \in SUBSET (1 .. E) /\ C \in SUBSET Nat /\ 0 \notin C
        BY <1>1, <1>2, <2>2
    <2>4. \A k \in 1 .. y - 1 : k \in D <=> k \in C
        BY <1>8, <2>1
    <2>5. \A p \in C \cup {0} : NextTo(C, p, y) => IsPiece(u, p, y)
        BY <1>9, BegunPieces
    <2>6. \A p \in D \cup {0} : \A q \in D \cup {E} :
             NextTo(D, p, q) /\ p < y /\ y < q => ~ IsPiece(u, p, y)
        <3> TAKE p \in D \cup {0}
        <3> TAKE q \in D \cup {E}
        <3>1. p \in Nat /\ q \in Nat /\ u[y] \in Stop
            BY <1>1, <1>2, <1>9, <2>2 DEF Stop
        <3>2. NextTo(D, p, q) => IsPiece(u, p, q)
            BY <1>4, <2>2
        <3> QED BY <1>7, <3>1, <3>2, OnePiece
    <2>7. y \notin D /\ y < E
        BY <1>9, <2>1, <2>2
    <2> QED BY <1>9, <2>3, <2>4, <2>5, <2>6, <2>7, NoDifference
<1>10. CASE y \notin C /\ y \in F
    <2>1. PICK E \in Nat : E = n + 1
        OBVIOUS
    <2>2. C \in SUBSET (1 .. E) /\ F \in SUBSET Nat /\ 0 \notin F /\ y < E
        BY <1>1, <1>2, <1>7, <2>1
    <2>3. \A p \in F \cup {0} : NextTo(F, p, y) => IsPiece(u, p, y)
        <3> TAKE p \in F \cup {0}
        <3> HAVE NextTo(F, p, y)
        <3>1. p # m + 1
            BY <1>2, <1>7, <1>10 DEF NextTo
        <3>2. p \in D \cup {0} /\ NextTo(D, p, y)
            BY <3>1 DEF NextTo
        <3> QED BY <1>4, <1>10, <3>2
    <2>4. u[y] \in Stop
        BY <1>2, <1>10 DEF Stop
    <2>5. \A p \in C \cup {0} : \A q \in C \cup {E} :
             NextTo(C, p, q) /\ p < y /\ y < q => ~ IsPiece(u, p, y)
        <3> TAKE p \in C \cup {0}
        <3> TAKE q \in C \cup {E}
        <3> HAVE NextTo(C, p, q) /\ p < y /\ y < q
        <3>1. p \in Nat /\ q \in Nat
            BY <1>1
        <3>2. CASE q \in C
            <4>1. IsPiece(u, p, q)
                BY <3>2, BegunPieces
            <4> QED BY <1>7, <2>4, <3>1, <4>1, OnePiece
        <3>3. CASE q \notin C
            <4>1. q = n + 1 /\ \A c \in C : c <= p
                BY <1>1, <2>1, <3>1, <3>3 DEF NextTo
            <4>2. p = o
                BY <1>1, <3>1, <4>1
            <4>3. CASE o # 0
                <5>1. o \in Nat /\ y \in o + 1 .. n
                    BY <1>1, <1>7, <4>2
                <5>2. ~ IsExt(u, o + 1, y - 1)
                    BY <2>4, <4>3, <5>1, Unfinished
                <5> QED BY <4>2, <4>3, <5>2 DEF IsPiece
            <4>4. CASE o = 0
                <5>1. PICK a, b \in 1 .. n : SizeRead(u, n, C, a, b, z)
                    BY DEF Begun
                <5>2. \A c \in C : y < c
                    BY <1>1, <4>4
                <5>3. u[y] \in Hex \cup Spht
                    BY <1>7, <5>1, <5>2 DEF SizeRead, All
                <5> QED BY <2>4, <5>3, StopIs
            <4> QED BY <4>3, <4>4
        <3> QED BY <3>2, <3>3
    <2>6. \A k \in 1 .. y - 1 : k \in C <=> k \in F
        BY <1>8
    <2> HIDE DEF F
    <2> QED BY <1>10, <2>2, <2>3, <2>5, <2>6, NoDifference, ZenonT(90)
<1> QED BY <1>9, <1>10

(* So the line has a piece that begins as what is in the middle of.        *)
LEMMA GoesOnInPiece ==
    ASSUME NEW u, NEW n \in Nat, NEW m \in Nat, u[m + 1] = "cr",
           NEW D, IsCut(u, m, D),
           NEW C, NEW o, NEW z, Begun(u, n, C, o, z), NEW x, IsPlaced(x),
           NEW s \in States \ {"WaitingSize", "Size"}, ExtRead(u, n, o, s, x)
    PROVE  \E q \in Nat : /\ n < q /\ IsPiece(u, o, q)
                          /\ u[q] \in Stop /\ (u[q] = "cr" => q = m + 1)
<1>1. \A y \in 1 .. n : y \in C <=> y \in D \cup {m + 1}
    BY CutsAreThose
<1>2. /\ \A c \in C : c \in 1 .. n /\ c <= o /\ u[c] = Semi
      /\ o \in C \cup {0} /\ o \in 0 .. n
    BY CutsAre DEF Begun, CutAt
<1>3. \A d \in D : d \in 1 .. m /\ u[d] = Semi
    BY CutsAre DEF IsCut
<1>4. Semi # "cr"
    BY SemiIs
<1>5. n < m + 1
    <2> SUFFICES ASSUME m + 1 <= n PROVE FALSE
        OBVIOUS
    <2>1. m + 1 \in C
        BY <1>1
    <2> QED BY <1>2, <1>4, <2>1
<1>6. o \in D \cup {0}
    BY <1>1, <1>2, <1>5
<1>7. PICK q \in D \cup {m + 1} : NextTo(D, o, q)
    <2>1. PICK E \in Nat : E = m + 1
        OBVIOUS
    <2>2. D \in SUBSET (1 .. E) /\ o \in Nat /\ o < E
        BY <1>2, <1>3, <1>5, <2>1
    <2> QED BY <2>1, <2>2, NextExists
<1>8. q \in Nat /\ o < q
    BY <1>3, <1>7 DEF NextTo
<1>9. n < q
    <2> SUFFICES ASSUME q <= n PROVE FALSE
        BY <1>8
    <2>1. q \in C
        BY <1>1, <1>2, <1>7, <1>8
    <2> QED BY <1>2, <1>8, <2>1
<1>10. IsPiece(u, o, q)
    BY <1>6, <1>7 DEF IsCut
<1>11. u[q] \in Stop /\ (u[q] = "cr" => q = m + 1)
    BY <1>3, <1>4, <1>7 DEF Stop
<1> QED BY <1>8, <1>9, <1>10, <1>11

-----------------------------------------------------------------------------
(* With what a piece goes on.                                              *)

(* A word does not begin again.                                            *)
LEMMA WordOnce ==
    ASSUME NEW t, NEW S, NEW i \in Int, NEW j \in Int, Word(t, S, i, j),
           S \cap Spht = {},
           NEW x \in i .. j, NEW y \in i .. j, NEW z \in i .. j, x < y, y < z,
           t[x] \in S, t[y] \notin S
    PROVE  t[z] \in Spht
BY DEF Word, Padded, All

(* What the scanner takes without ending the piece, in each state.         *)
GoesOnWith(s) ==
    CASE s = "WaitingDelimiter"     -> Spht
      [] s = "WaitingExtName"       -> Token \cup Spht
      [] s = "ExtName"              -> Token \cup Spht \cup {"="}
      [] s = "WaitingExtDelimiter"  -> Spht \cup {"="}
      [] s = "WaitingExtValue"      -> Token \cup Spht \cup {"quote"}
      [] s = "ExtValueToken"        -> Token \cup Spht
      [] s = "ExtValueQuotedString" -> Text

(* While there is no "=".                                                  *)
LEMMA NameGoesOnWith ==
    ASSUME NEW u, NEW n \in Nat, NEW o \in Nat, NEW x, IsPlaced(x),
           NEW s \in {"WaitingExtName", "ExtName", "WaitingExtDelimiter"},
           ExtRead(u, n, o, s, x), NEW j \in Nat, n < j, IsExt(u, o + 1, j),
           o <= n
    PROVE  u[n + 1] \in GoesOnWith(s)
<1>1. \A i \in o + 1 .. n : u[i] \in Token \cup Spht
    BY NameBytes
<1>2. "=" \notin Token \cup Spht /\ Token \cap Spht = {}
    BY DEF Token, Hex, Spht
<1>3. PICK e \in n + 1 .. j + 1 : /\ Word(u, Token, o + 1, e - 1)
                                  /\ e = j + 1 \/ u[e] = "="
    <2>1. CASE Word(u, Token, o + 1, j)
        <3>1. j + 1 \in n + 1 .. j + 1 /\ j + 1 - 1 = j
            OBVIOUS
        <3> QED BY <2>1, <3>1
    <2>2. CASE \E e \in o + 1 .. j : u[e] = "=" /\ Word(u, Token, o + 1, e - 1)
        BY <1>1, <1>2, <2>2
    <2> QED BY <2>1, <2>2 DEF IsExt
<1>4. o + 1 \in Int /\ e - 1 \in Int /\ e \in Int
    OBVIOUS
<1>5. /\ \A i \in o + 1 .. e - 1 : u[i] \in Token \cup Spht
      /\ \E i \in o + 1 .. e - 1 : u[i] \in Token
    BY <1>3, <1>4, WordBytes
<1>6. CASE s = "WaitingExtName"
    <2>1. All(u, Spht, o + 1, n)
        BY <1>6 DEF ExtRead
    <2>2. e # n + 1
        BY <1>2, <1>5, <2>1 DEF All
    <2>3. u[n + 1] \in Token \cup Spht
        BY <1>5, <2>2
    <2> QED BY <1>6, <2>3 DEF GoesOnWith
<1>7. CASE s = "ExtName"
    <2>1. u[n + 1] \in Token \cup Spht \cup {"="}
        BY <1>3, <1>5
    <2> QED BY <1>7, <2>1 DEF GoesOnWith
<1>8. CASE s = "WaitingExtDelimiter"
    <2>1. NameRead(u, n, o, x)
        BY <1>8 DEF ExtRead
    <2>2. PICK b \in Int : b = x.nameEnd
        BY DEF IsPlaced
    <2>3. /\ o + 1 <= b /\ b < n /\ u[b] \in Token /\ u[b + 1] \notin Token
        BY <2>1, <2>2 DEF NameRead, All, IsPlaced
    <2>4. u[n + 1] \in Spht \cup {"="}
        <3>1. CASE e = n + 1
            BY <1>3, <3>1
        <3>2. CASE e # n + 1
            <4>1. /\ b \in o + 1 .. e - 1 /\ b + 1 \in o + 1 .. e - 1
                  /\ n + 1 \in o + 1 .. e - 1 /\ b < b + 1 /\ b + 1 < n + 1
                BY <1>4, <2>3, <3>2
            <4> QED BY <1>2, <1>3, <1>4, <2>3, <4>1, WordOnce
        <3> QED BY <3>1, <3>2
    <2> QED BY <1>8, <2>4 DEF GoesOnWith
<1> QED BY <1>6, <1>7, <1>8

(* What follows the "=".                                                   *)
LEMMA ValueIsThere ==
    ASSUME NEW u, NEW o \in Nat, NEW j \in Nat, IsExt(u, o + 1, j),
           NEW e \in o + 1 .. j, u[e] = "=",
           \A i \in o + 1 .. e - 1 : u[i] \in Token \cup Spht
    PROVE  IsValue(u, e + 1, j)
<1>1. "=" \notin Token \cup Spht
    BY DEF Token, Spht, Hex
<1>2. ~ Word(u, Token, o + 1, j)
    BY <1>1, WordBytes
<1>3. PICK f \in o + 1 .. j : /\ u[f] = "=" /\ Word(u, Token, o + 1, f - 1)
                              /\ IsValue(u, f + 1, j)
    BY <1>2 DEF IsExt
<1>4. \A i \in o + 1 .. f - 1 : u[i] \in Token \cup Spht
    BY <1>3, WordBytes
<1>5. e = f
    BY <1>1, <1>3, <1>4
<1> QED BY <1>3, <1>5

(* A value, while it is due, or a token.                                   *)
LEMMA ValueGoesOnWith ==
    ASSUME NEW u, NEW n \in Nat, NEW o \in Nat, NEW x, IsPlaced(x),
           NEW s \in {"WaitingExtValue", "ExtValueToken"},
           ExtRead(u, n, o, s, x), NEW j \in Nat, n < j, IsExt(u, o + 1, j)
    PROVE  u[n + 1] \in GoesOnWith(s)
<1>0. "quote" \notin Token \cup Spht
    BY DEF Token, Spht, Hex
<1>1. PICK e \in o + 1 .. n :
         /\ u[e] = "="
         /\ \A i \in o + 1 .. e - 1 : u[i] \in Token \cup Spht
         /\ s = "WaitingExtValue" => All(u, Spht, e + 1, n)
         /\ s = "ExtValueToken" =>
               \E a \in e + 1 .. n : /\ All(u, Spht, e + 1, a - 1)
                                     /\ All(u, Token, a, n)
    BY ValueBytes, SMTT(60)
<1>2. e \in o + 1 .. j
    OBVIOUS
<1>3. IsValue(u, e + 1, j)
    BY <1>1, <1>2, ValueIsThere
<1>4. e + 1 \in Int /\ j \in Int /\ n + 1 \in e + 1 .. j
    OBVIOUS
<1>5. CASE Word(u, Token, e + 1, j)
    <2>1. u[n + 1] \in Token \cup Spht
        BY <1>4, <1>5, WordBytes
    <2> QED BY <2>1 DEF GoesOnWith
<1>6. CASE \E c, b \in e + 1 .. j :
              Padded(u, e + 1, j, c, b) /\ Quoted(u, c, b)
    <2>1. PICK c \in e + 1 .. j :
             u[c] = "quote" /\ \A i \in e + 1 .. c - 1 : u[i] \in Spht
        BY <1>6 DEF Padded, Quoted, All
    <2>2. CASE s = "WaitingExtValue"
        <3>1. c >= n + 1
            BY <1>0, <1>1, <2>1, <2>2 DEF All
        <3>2. u[n + 1] \in Spht \cup {"quote"}
            BY <1>4, <2>1, <3>1
        <3> QED BY <2>2, <3>2 DEF GoesOnWith
    <2>3. CASE s = "ExtValueToken"
        <3>1. PICK a \in e + 1 .. n : /\ All(u, Spht, e + 1, a - 1)
                                      /\ All(u, Token, a, n)
            BY <1>1, <2>3
        <3>2. u[a] \in Token /\ u[a] \notin Spht
            BY <3>1 DEF All, Token, Hex, Spht
        <3>3. c <= a
            BY <2>1, <3>2
        <3> QED BY <1>0, <2>1, <3>1, <3>3 DEF All
    <2> QED BY <2>2, <2>3
<1> QED BY <1>3, <1>5, <1>6 DEF IsValue

(* A string that is open.                                                  *)
LEMMA QuoteGoesOnWith ==
    ASSUME NEW u, NEW n \in Nat, NEW o \in Nat, NEW x, IsPlaced(x),
           QuoteRead(u, n, o, x), NEW j \in Nat, n < j, IsExt(u, o + 1, j)
    PROVE  u[n + 1] \in Text \/ u[n] = "backslash"
<1>0. "quote" \in Text /\ "quote" \notin Token \cup Spht \cup {"="}
    <2>1. "quote" \in Text
        BY Zenon DEF Text
    <2> QED BY <2>1 DEF Token, Hex, Spht
<1>1. PICK a \in o + 1 .. n :
         /\ u[a] = "quote"
         /\ \A i \in o + 1 .. a - 1 : u[i] \in Token \cup Spht \cup {"="}
         /\ \A b \in 1 .. n : ~ Quoted(u, a, b)
    BY QuoteIsOpen
<1>2. a \in o + 1 .. j /\ \A i \in o + 1 .. a - 1 : u[i] # "quote"
    BY <1>0, <1>1
<1>3. PICK b \in o + 1 .. j : Quoted(u, a, b)
    BY <1>1, <1>2, QuoteOpens
<1>4. n + 1 <= b
    BY <1>1, <1>3
<1>5. CASE b = n + 1
    BY <1>0, <1>3, <1>5 DEF Quoted
<1>6. CASE b # n + 1
    <2>1. n + 1 \in a + 1 .. b - 1 /\ n + 1 - 1 = n
        BY <1>4, <1>6
    <2> QED BY <1>3, <2>1 DEF Quoted
<1> QED BY <1>5, <1>6

(* A value that is over.                                                   *)
LEMMA DelimiterGoesOnWith ==
    ASSUME NEW u, NEW n \in Nat, NEW o \in Nat, ValueRead(u, n, o),
           NEW j \in Nat, n < j, IsExt(u, o + 1, j)
    PROVE  u[n + 1] \in Spht
<1>0. "quote" \notin Token \cup Spht /\ Token \cap Spht = {}
    BY DEF Token, Spht, Hex
<1>1. PICK e \in o + 1 .. n : \E a, b \in e + 1 .. n :
         /\ u[e] = "=" /\ Word(u, Token, o + 1, e - 1)
         /\ Padded(u, e + 1, n, a, b)
         /\ Quoted(u, a, b) \/ (All(u, Token, a, b) /\ b < n)
    BY DEF ValueRead
<1>2. PICK a, b \in e + 1 .. n :
         /\ u[e] = "=" /\ Word(u, Token, o + 1, e - 1)
         /\ Padded(u, e + 1, n, a, b)
         /\ Quoted(u, a, b) \/ (All(u, Token, a, b) /\ b < n)
    BY <1>1
<1>3. e \in o + 1 .. j /\ \A i \in o + 1 .. e - 1 : u[i] \in Token \cup Spht
    BY <1>2, WordBytes
<1>4. IsValue(u, e + 1, j)
    BY <1>2, <1>3, ValueIsThere
<1>5. /\ a <= b /\ (\A i \in e + 1 .. a - 1 : u[i] \in Spht)
      /\ \A i \in b + 1 .. n : u[i] \in Spht
    BY <1>2 DEF Padded, All
<1>6. CASE Quoted(u, a, b)
    <2>1. u[a] = "quote" /\ u[b] = "quote" /\ u[b - 1] # "backslash" /\ a < b
        BY <1>6 DEF Quoted
    <2>2. ~ Word(u, Token, e + 1, j)
        <3>1. a \in e + 1 .. j /\ e + 1 \in Int /\ j \in Int
            OBVIOUS
        <3> QED BY <1>0, <2>1, <3>1, WordBytes
    <2>3. PICK c, d \in e + 1 .. j :
             Padded(u, e + 1, j, c, d) /\ Quoted(u, c, d)
        BY <1>4, <2>2 DEF IsValue
    <2>4. /\ u[c] = "quote" /\ u[d] = "quote" /\ u[d - 1] # "backslash"
          /\ c < d /\ (\A i \in e + 1 .. c - 1 : u[i] \in Spht)
          /\ \A i \in d + 1 .. j : u[i] \in Spht
        BY <2>3 DEF Padded, All, Quoted
    <2>5. c = a
        BY <1>0, <1>5, <2>1, <2>4
    <2>6. ~ (d < b)
        BY <1>6, <2>1, <2>4, <2>5 DEF Quoted
    <2>7. ~ (b < d)
        BY <2>1, <2>3, <2>4, <2>5 DEF Quoted
    <2>8. d = b /\ n + 1 \in d + 1 .. j
        BY <2>6, <2>7
    <2> QED BY <2>4, <2>8
<1>7. CASE All(u, Token, a, b) /\ b < n
    <2>1. u[a] \in Token /\ u[b] \in Token /\ u[b + 1] \notin Token
        BY <1>0, <1>5, <1>7 DEF All
    <2>2. CASE Word(u, Token, e + 1, j)
        <3>1. /\ b \in e + 1 .. j /\ b + 1 \in e + 1 .. j
              /\ n + 1 \in e + 1 .. j
              /\ b < b + 1 /\ b + 1 < n + 1 /\ e + 1 \in Int /\ j \in Int
            BY <1>7
        <3> QED BY <1>0, <2>1, <2>2, <3>1, WordOnce
    <2>3. CASE \E c, d \in e + 1 .. j :
                  Padded(u, e + 1, j, c, d) /\ Quoted(u, c, d)
        <3>1. PICK c \in e + 1 .. j :
                 u[c] = "quote" /\ \A i \in e + 1 .. c - 1 : u[i] \in Spht
            BY <2>3 DEF Padded, Quoted, All
        <3>2. c <= a
            BY <1>0, <2>1, <3>1
        <3> QED BY <1>0, <1>5, <2>1, <3>1, <3>2
    <2> QED BY <1>4, <2>2, <2>3 DEF IsValue
<1> QED BY <1>2, <1>6, <1>7

(* Behind the size.                                                        *)
LEMMA SizeGoesOnWith ==
    ASSUME NEW u, NEW n \in Nat, NEW C, NEW z, Begun(u, n, C, 0, z),
           u[n] \in Spht, NEW j \in Nat, n < j, Word(u, Hex, 1, j)
    PROVE  u[n + 1] \in Spht
<1>1. PICK a, b \in 1 .. n : SizeRead(u, n, C, a, b, z)
    BY DEF Begun
<1>2. u[b] \in Hex /\ Hex \cap Spht = {}
    BY <1>1 DEF SizeRead, All, Hex, Spht
<1>3. b # n /\ u[n] \notin Hex
    BY <1>2
<1>4. /\ b \in 1 .. j /\ n \in 1 .. j /\ n + 1 \in 1 .. j
      /\ b < n /\ n < n + 1 /\ 1 \in Int /\ j \in Int
    BY <1>3
<1> QED BY <1>2, <1>3, <1>4, WordOnce

(* A piece, in each state of the scanner.                                  *)
LEMMA PieceGoesOnWith ==
    ASSUME NEW u, NEW n \in Nat, NEW C, NEW o, NEW z, Begun(u, n, C, o, z),
           NEW x, IsPlaced(x),
           NEW s \in States \ {"WaitingSize", "Size"}, ExtRead(u, n, o, s, x),
           NEW q \in Nat, n + 1 < q, IsPiece(u, o, q)
    PROVE  \/ u[n + 1] \in GoesOnWith(s)
           \/ s = "ExtValueQuotedString" /\ u[n] = "backslash"
<1>1. o \in 0 .. n /\ o \in Nat
    BY CutsAre DEF Begun, CutAt
<1>2. PICK j \in Nat : j = q - 1 /\ n < j
    OBVIOUS
<1>3. CASE o = 0
    <2>1. s = "WaitingDelimiter" /\ u[n] \in Spht
        BY <1>3 DEF ExtRead, States
    <2>2. Word(u, Hex, 1, j)
        BY <1>2, <1>3 DEF IsPiece
    <2>3. u[n + 1] \in Spht
        BY <1>2, <1>3, <2>1, <2>2, SizeGoesOnWith
    <2> QED BY <2>1, <2>3 DEF GoesOnWith
<1>4. CASE o # 0
    <2>1. IsExt(u, o + 1, j)
        BY <1>2, <1>4 DEF IsPiece
    <2>2. CASE s = "WaitingDelimiter"
        <3>1. ValueRead(u, n, o)
            BY <1>4, <2>2 DEF ExtRead
        <3>2. u[n + 1] \in Spht
            BY <1>1, <1>2, <2>1, <3>1, DelimiterGoesOnWith
        <3> QED BY <2>2, <3>2 DEF GoesOnWith
    <2>3. CASE s = "ExtValueQuotedString"
        <3>1. QuoteRead(u, n, o, x)
            BY <2>3 DEF ExtRead
        <3>2. u[n + 1] \in Text \/ u[n] = "backslash"
            BY <1>1, <1>2, <2>1, <3>1, QuoteGoesOnWith
        <3> QED BY <2>3, <3>2 DEF GoesOnWith
    <2>4. CASE s \in {"WaitingExtName", "ExtName", "WaitingExtDelimiter"}
        BY <1>1, <1>2, <2>1, <2>4, NameGoesOnWith
    <2>5. CASE s \in {"WaitingExtValue", "ExtValueToken"}
        BY <1>1, <1>2, <2>1, <2>5, ValueGoesOnWith
    <2> QED BY <2>2, <2>3, <2>4, <2>5 DEF States
<1> QED BY <1>3, <1>4

-----------------------------------------------------------------------------
(* What no line begins with.                                               *)

(* Where a byte is due, the piece does not end.                            *)
Due == {"WaitingExtName", "WaitingExtValue", "ExtValueQuotedString"}

(* There what has been read is none.                                       *)
LEMMA PieceIsDue ==
    ASSUME NEW u, NEW n \in Nat, NEW o \in Nat, NEW x, IsPlaced(x),
           NEW s \in Due, ExtRead(u, n, o, s, x), IsExt(u, o + 1, n)
    PROVE  FALSE
<1>0. /\ "quote" \notin Token \cup Spht \cup {"="}
      /\ "=" \notin Token \cup Spht
      /\ Token \cap Spht = {} /\ o + 1 \in Int /\ n \in Int
    BY DEF Token, Hex, Spht
<1>1. CASE s = "WaitingExtName"
    <2>1. All(u, Spht, o + 1, n)
        BY <1>1 DEF ExtRead
    <2>2. ~ Word(u, Token, o + 1, n)
        BY <1>0, <2>1, WordBytes DEF All
    <2> QED BY <1>0, <2>1, <2>2 DEF IsExt, All, Spht
<1>2. CASE s = "WaitingExtValue"
    <2>1. PICK e \in o + 1 .. n :
             /\ u[e] = "=" /\ All(u, Spht, e + 1, n)
             /\ \A i \in o + 1 .. e - 1 : u[i] \in Token \cup Spht
        BY <1>2, ValueBytes
    <2>2. IsValue(u, e + 1, n)
        BY <2>1, ValueIsThere
    <2>3. e + 1 \in Int
        OBVIOUS
    <2>4. ~ Word(u, Token, e + 1, n)
        BY <1>0, <2>1, <2>3, WordBytes DEF All
    <2>5. \A a, b \in e + 1 .. n : ~ Quoted(u, a, b)
        BY <1>0, <2>1 DEF All, Quoted
    <2> QED BY <2>2, <2>4, <2>5 DEF IsValue
<1>3. CASE s = "ExtValueQuotedString"
    <2>1. QuoteRead(u, n, o, x)
        BY <1>3 DEF ExtRead
    <2>2. PICK a \in o + 1 .. n :
             /\ u[a] = "quote"
             /\ \A i \in o + 1 .. a - 1 : u[i] \in Token \cup Spht \cup {"="}
             /\ \A b \in 1 .. n : ~ Quoted(u, a, b)
        BY <2>1, QuoteIsOpen
    <2>3. \A i \in o + 1 .. a - 1 : u[i] # "quote"
        BY <1>0, <2>2
    <2>4. PICK b \in o + 1 .. n : Quoted(u, a, b)
        BY <1>0, <2>2, <2>3, QuoteOpens
    <2> QED BY <2>2, <2>4
<1> QED BY <1>1, <1>2, <1>3 DEF Due

(* The byte n + 1, which may be a CR that no LF follows, ends no piece.    *)
EndsNoPiece(u, n) ==
    \/ u[n + 1] \notin Stop
    \/ u[n + 1] = "cr" /\ u[n + 2] # "lf"

(* So no line begins with what has been read and a byte like that.         *)
LEMMA NoLineGoesOn ==
    ASSUME NEW S, NEW u \in Seq(S), NEW n \in Nat,
           NEW C, NEW o, NEW z, Begun(u, n, C, o, z), NEW x, IsPlaced(x),
           NEW s \in States \ {"WaitingSize", "Size"}, ExtRead(u, n, o, s, x),
           u[n + 1] \notin GoesOnWith(s), s \in Due \/ EndsNoPiece(u, n),
           ~ (s = "ExtValueQuotedString" /\ u[n] = "backslash")
    PROVE  ~ IsLine(u)
<1> SUFFICES ASSUME IsLine(u) PROVE FALSE
    OBVIOUS
<1>1. PICK m \in Nat : /\ u[m + 1] = "cr" /\ u[m + 2] = "lf"
                       /\ \E D : IsCut(u, m, D)
    BY LineIsCut
<1>2. PICK D : IsCut(u, m, D)
    BY <1>1
<1>3. PICK q \in Nat : /\ n < q /\ IsPiece(u, o, q)
                       /\ u[q] \in Stop /\ (u[q] = "cr" => q = m + 1)
    BY <1>1, <1>2, GoesOnInPiece
<1>4. q = n + 1
    <2>1. ~ (n + 1 < q)
        BY <1>3, PieceGoesOnWith
    <2> QED BY <1>3, <2>1
<1>5. CASE s \in Due
    <2>1. o # 0 /\ o \in Nat
        BY <1>5, CutsAre DEF Due, ExtRead, Begun, CutAt
    <2>2. IsExt(u, o + 1, n)
        BY <1>3, <1>4, <2>1 DEF IsPiece
    <2> QED BY <1>5, <2>1, <2>2, PieceIsDue
<1>6. CASE EndsNoPiece(u, n)
    <2>1. u[n + 1] = "cr" /\ u[n + 2] # "lf"
        BY <1>3, <1>4, <1>6 DEF EndsNoPiece
    <2>2. n = m
        BY <1>3, <1>4, <2>1
    <2> QED BY <1>1, <2>1, <2>2
<1> QED BY <1>5, <1>6

(* The same where the size is not over.                                    *)
LEMMA NoLineOfSize ==
    ASSUME NEW S, NEW u \in Seq(S), NEW n \in Nat,
           All(u, Hex \cup Spht, 1, n), u[n + 1] \notin Hex \cup Spht,
           All(u, Spht, 1, n) \/ EndsNoPiece(u, n)
    PROVE  ~ IsLine(u)
<1> SUFFICES ASSUME IsLine(u) PROVE FALSE
    OBVIOUS
<1>1. PICK m \in Nat : /\ u[m + 1] = "cr" /\ u[m + 2] = "lf"
                       /\ \E D : IsCut(u, m, D)
    BY LineIsCut
<1>2. PICK D : IsCut(u, m, D)
    BY <1>1
<1>3. \A d \in D : d \in 1 .. m /\ u[d] = Semi
    BY <1>2, CutsAre DEF IsCut
<1>4. PICK q \in D \cup {m + 1} : NextTo(D, 0, q)
    <2>1. PICK E \in Nat : E = m + 1
        OBVIOUS
    <2>2. D \in SUBSET (1 .. E) /\ 0 \in Nat /\ 0 < E
        BY <1>3, <2>1
    <2>3. \E q \in D \cup {E} : NextTo(D, 0, q)
        BY <2>2, NextExists
    <2> QED BY <2>1, <2>3
<1>5. /\ q \in Nat /\ 0 < q /\ u[q] \in Stop
      /\ u[q] = "cr" => q = m + 1
    BY <1>1, <1>3, <1>4, SemiIs DEF NextTo, Stop
<1>6. Word(u, Hex, 1, q - 1)
    BY <1>2, <1>4 DEF IsCut, IsPiece
<1>7. 1 \in Int /\ q - 1 \in Int
    BY <1>5
<1>8. /\ \A i \in 1 .. q - 1 : u[i] \in Hex \cup Spht
      /\ \E i \in 1 .. q - 1 : u[i] \in Hex
    BY <1>6, <1>7, WordBytes
<1>9. u[q] \notin Hex \cup Spht
    BY <1>5, StopIs
<1>10. q = n + 1
    <2>1. ~ (q <= n)
        BY <1>5, <1>9 DEF All
    <2>2. ~ (n + 1 < q)
        BY <1>5, <1>8
    <2> QED BY <1>5, <2>1, <2>2
<1>11. CASE All(u, Spht, 1, n)
    <2>1. Hex \cap Spht = {}
        BY DEF Hex, Spht
    <2> QED BY <1>8, <1>10, <1>11, <2>1 DEF All
<1>12. CASE EndsNoPiece(u, n)
    <2>1. u[n + 1] = "cr" /\ u[n + 2] # "lf"
        BY <1>5, <1>10, <1>12 DEF EndsNoPiece
    <2>2. n = m
        BY <1>5, <1>10, <2>1
    <2> QED BY <1>1, <2>1, <2>2
<1> QED BY <1>11, <1>12

-----------------------------------------------------------------------------
(* The steps that fail.                                                    *)

(* What does not fail.                                                     *)
LEMMA Unfailed ==
    /\ Stay => result' = result
    /\ AwaitLf => result' = result
    /\ \A s : Goto(s) => result' = result
    /\ Ends => result' = "some"
BY DEF Stay, AwaitLf, Goto, Ends

(* How a header is found to be bad.                                        *)
LEMMA FailsIn ==
    ASSUME result = "none", NEW b \in Bytes, Scan(b),
           result' = "BadChunkHeader"
    PROVE  /\ Feed(b)
           /\ \/ cr /\ b # "lf"
              \/ ~ cr /\ state = "WaitingSize" /\ b \notin Spht \cup Hex
              \/ /\ ~ cr /\ state = "Size"
                 /\ b \notin Hex \cup Spht /\ b \notin Stop
              \/ /\ ~ cr /\ state \in States \ {"WaitingSize", "Size"}
                 /\ b \notin GoesOnWith(state)
                 /\ state \in Due \/ b \notin Stop
                 /\ ~ (state = "ExtValueQuotedString" /\ HasQuotedPrefix)
<1>0. /\ result' # result /\ result' # "some" /\ result' # "BadChunkSize"
    OBVIOUS
<1>1. ASSUME WaitingSize(b)
      PROVE  Feed(b) /\ ~ cr /\ state = "WaitingSize" /\ b \notin Spht \cup Hex
    BY <1>0, <1>1, Unfailed DEF WaitingSize, In
<1>2. ASSUME Size(b)
      PROVE  /\ Feed(b) /\ ~ cr /\ state = "Size"
             /\ b \notin Hex \cup Spht /\ b \notin Stop
    BY <1>0, <1>2, Unfailed, Zenon DEF Size, In, BadSize, Stop, Semi
<1>3. ASSUME WaitingDelimiter(b)
      PROVE  /\ Feed(b) /\ ~ cr /\ state = "WaitingDelimiter"
             /\ b \notin Spht /\ b \notin Stop
    BY <1>0, <1>3, Unfailed, Zenon DEF WaitingDelimiter, In, Stop, Semi
<1>4. ASSUME WaitingExtName(b)
      PROVE  /\ Feed(b) /\ ~ cr /\ state = "WaitingExtName"
             /\ b \notin Token \cup Spht
    BY <1>0, <1>4, Unfailed DEF WaitingExtName, In
<1>5. ASSUME ExtName(b)
      PROVE  /\ Feed(b) /\ ~ cr /\ state = "ExtName"
             /\ b \notin Token \cup Spht \cup {"="} /\ b \notin Stop
    BY <1>0, <1>5, Unfailed, Zenon DEF ExtName, In, Stop, Semi
<1>6. ASSUME WaitingExtDelimiter(b)
      PROVE  /\ Feed(b) /\ ~ cr /\ state = "WaitingExtDelimiter"
             /\ b \notin Spht \cup {"="} /\ b \notin Stop
    BY <1>0, <1>6, Unfailed, Zenon DEF WaitingExtDelimiter, In, Stop, Semi
<1>7. ASSUME WaitingExtValue(b)
      PROVE  /\ Feed(b) /\ ~ cr /\ state = "WaitingExtValue"
             /\ b \notin Token \cup Spht \cup {"quote"}
    BY <1>0, <1>7, Unfailed DEF WaitingExtValue, In
<1>8. ASSUME ExtValueToken(b)
      PROVE  /\ Feed(b) /\ ~ cr /\ state = "ExtValueToken"
             /\ b \notin Token \cup Spht /\ b \notin Stop
    BY <1>0, <1>8, Unfailed, Zenon DEF ExtValueToken, In, Stop, Semi
<1>9. ASSUME ExtValueQuotedString(b)
      PROVE  /\ Feed(b) /\ ~ cr /\ state = "ExtValueQuotedString"
             /\ b \notin Text /\ ~ HasQuotedPrefix
    BY <1>0, <1>9, Unfailed DEF ExtValueQuotedString, In
<1>10. ASSUME AfterCr(b) PROVE Feed(b) /\ cr /\ b # "lf"
    <2>1. ASSUME SizeEnds PROVE FALSE
        BY <1>0, <2>1 DEF SizeEnds
    <2>2. ASSUME NameEndsLine \/ ValueEndsLine \/ DelimiterEndsLine PROVE FALSE
        BY <1>0, <2>2, Unfailed
           DEF NameEndsLine, ValueEndsLine, DelimiterEndsLine
    <2> QED BY <1>10, <2>1, <2>2 DEF AfterCr
<1> QED BY <1>1, <1>2, <1>3, <1>4, <1>5, <1>6, <1>7, <1>8, <1>9, <1>10
        DEF Scan, GoesOnWith, States, Due

(* What has been read with any completion behind it.                       *)
LEMMA Completed ==
    ASSUME bytes \in Seq(Bytes), NEW b \in Bytes, bytes' = Append(bytes, b),
           NEW N \in Nat, N = Len(bytes), NEW c \in Completions \cup {<<>>}
    PROVE  /\ bytes' \o c \in Seq(Bytes \cup Added)
           /\ Agree(bytes, bytes' \o c, N) /\ (bytes' \o c)[N + 1] = b
<1>1. c \in Seq(Added)
    <2>1. CASE c = <<>>
        BY <2>1
    <2>2. ASSUME NEW d, c = d \o <<"cr", "lf">>,
                 d \in {<<>>, <<"0">>, <<"k">>, <<"quote">>, <<"k", "quote">>}
          PROVE  c \in Seq(Added)
        <3>1. /\ <<>> \in Seq(Added) /\ <<"0">> \in Seq(Added)
              /\ <<"k">> \in Seq(Added) /\ <<"quote">> \in Seq(Added)
              /\ <<"k", "quote">> \in Seq(Added)
              /\ <<"cr", "lf">> \in Seq(Added)
            BY DEF Added
        <3>2. d \in Seq(Added)
            BY <2>2, <3>1, Zenon
        <3> QED BY <2>2, <3>1, <3>2, ConcatProperties
    <2>3. CASE c \in {<<"lf">>, <<"(", "quote", "cr", "lf">>}
        <3>1. /\ <<"lf">> \in Seq(Added)
              /\ <<"(", "quote", "cr", "lf">> \in Seq(Added)
            BY DEF Added
        <3> QED BY <2>3, <3>1, Zenon
    <2>4. \/ c = <<>> \/ c \in {<<"lf">>, <<"(", "quote", "cr", "lf">>}
          \/ \E d \in {<<>>, <<"0">>, <<"k">>, <<"quote">>, <<"k", "quote">>} :
                c = d \o <<"cr", "lf">>
        BY Zenon DEF Completions
    <2> QED BY <2>1, <2>2, <2>3, <2>4, Zenon
<1>2. bytes' \in Seq(Bytes) /\ Len(bytes') = N + 1 /\ bytes'[N + 1] = b
      /\ \A i \in 1 .. N : bytes'[i] = bytes[i]
    BY AppendProperties
<1>3. PICK t : t = bytes'
    OBVIOUS
<1>4. PICK u : u = t \o c
    OBVIOUS
<1>5. t \in Seq(Bytes \cup Added) /\ c \in Seq(Bytes \cup Added)
    BY <1>1, <1>2, <1>3
<1>6. u \in Seq(Bytes \cup Added) /\ \A i \in 1 .. Len(t) : u[i] = t[i]
    BY <1>4, <1>5, ConcatProperties
<1>7. Agree(bytes, u, N) /\ u[N + 1] = b
    BY <1>2, <1>3, <1>6, SMTT(60) DEF Agree
<1> QED BY <1>3, <1>4, <1>6, <1>7

(* A header that is found to be bad is that of no line.                    *)
LEMMA BadIsNoLine ==
    ASSUME Inv, LineRead, result = "none", NEW b \in Bytes, Scan(b),
           result' = "BadChunkHeader", NEW c \in Completions \cup {<<>>}
    PROVE  ~ IsLine(bytes' \o c)
<1>1. PICK N \in Nat : N = Len(bytes)
    BY Fields
<1>2. PICK u : u = bytes' \o c
    OBVIOUS
<1>3. /\ Feed(b)
      /\ \/ cr /\ b # "lf"
         \/ ~ cr /\ state = "WaitingSize" /\ b \notin Spht \cup Hex
         \/ /\ ~ cr /\ state = "Size"
            /\ b \notin Hex \cup Spht /\ b \notin Stop
         \/ /\ ~ cr /\ state \in States \ {"WaitingSize", "Size"}
            /\ b \notin GoesOnWith(state)
            /\ state \in Due \/ b \notin Stop
            /\ ~ (state = "ExtValueQuotedString" /\ HasQuotedPrefix)
    BY FailsIn
<1>4. u \in Seq(Bytes \cup Added) /\ Agree(bytes, u, N) /\ u[N + 1] = b
    BY <1>1, <1>2, <1>3, Completed, Fields DEF Feed
<1>5. PICK n \in Nat : n = Content /\ (IF cr THEN N = n + 1 ELSE N = n)
    <2>1. CASE cr
        <3>1. bytes # <<>>
            BY <2>1 DEF Inv, ScanInv
        <3>2. N # 0
            BY <1>1, <3>1, Fields, EmptySeq
        <3>3. Content = N - 1
            BY <1>1, <2>1 DEF Content, BeforeEnd
        <3> QED BY <2>1, <3>2, <3>3
    <2>2. CASE ~ cr
        BY <1>1, <2>2 DEF Content, BeforeEnd
    <2> QED BY <2>1, <2>2
<1>6. Agree(bytes, u, n) /\ IsPlaced(ext)
    BY <1>4, <1>5, Fields, SMTT(40) DEF Agree, IsPlaced
<1>7. ASSUME cr, b # "lf"
      PROVE  /\ u[n + 1] = "cr" /\ EndsNoPiece(u, n)
             /\ state \in {"Size", "WaitingDelimiter", "ExtName",
                           "WaitingExtDelimiter", "ExtValueToken"}
    <2>1. /\ bytes[N] = "cr"
          /\ state \in {"Size", "WaitingDelimiter", "ExtName",
                        "WaitingExtDelimiter", "ExtValueToken"}
        BY <1>1, <1>7 DEF Inv, ScanInv
    <2>2. u[n + 1] = "cr" /\ u[n + 2] = b
        BY <1>4, <1>5, <1>7, <2>1 DEF Agree
    <2> QED BY <1>7, <2>1, <2>2 DEF EndsNoPiece
<1>8. CASE state = "WaitingSize"
    <2>1. ~ cr /\ b \notin Spht \cup Hex /\ N = n
        BY <1>3, <1>5, <1>7, <1>8
    <2>2. All(bytes, Spht, 1, n)
        BY <1>5, <1>8 DEF LineRead
    <2>3. All(u, Spht, 1, n) /\ All(u, Hex \cup Spht, 1, n)
        BY <1>6, <2>2 DEF All, Agree
    <2>4. u[n + 1] \notin Hex \cup Spht
        BY <1>4, <2>1
    <2> QED BY <1>2, <1>4, <2>3, <2>4, NoLineOfSize
<1>9. CASE state = "Size"
    <2>1. PICK a \in Int : a = sizeStart
        BY Fields
    <2>2. a \in 1 .. n /\ All(bytes, Spht, 1, a - 1) /\ All(bytes, Hex, a, n)
        BY <1>5, <1>9, <2>1 DEF LineRead
    <2>3. All(u, Hex \cup Spht, 1, n)
        BY <1>6, <2>2 DEF All, Agree
    <2>4. u[n + 1] \notin Hex \cup Spht /\ EndsNoPiece(u, n)
        <3>1. CASE cr
            <4>1. "cr" \notin Hex \cup Spht
                BY DEF Hex, Token, Spht
            <4> QED BY <1>3, <1>7, <3>1, <4>1
        <3>2. CASE ~ cr
            BY <1>3, <1>4, <1>5, <1>9, <3>2 DEF EndsNoPiece
        <3> QED BY <3>1, <3>2
    <2> QED BY <1>2, <1>4, <2>3, <2>4, NoLineOfSize
<1>10. CASE state \in States \ {"WaitingSize", "Size"}
    <2>1. PICK z, f : z = hdr.zero /\ f = hdr.ieof
        OBVIOUS
    <2>2. InExtension(bytes, n, state, ext, z, f)
        BY <1>5, <1>10, <2>1 DEF LineRead
    <2>3. PICK C \in SUBSET Cuts(bytes, n) : \E o \in C \cup {0} :
             Begun(bytes, n, C, o, z) /\ ExtRead(bytes, n, o, state, ext)
        BY <2>2 DEF InExtension
    <2>4. PICK o \in C \cup {0} :
             Begun(bytes, n, C, o, z) /\ ExtRead(bytes, n, o, state, ext)
        BY <2>3
    <2>5. o \in 0 .. n /\ n # 0
        <3>1. n # 0
            BY <2>4 DEF Begun
        <3> QED BY <3>1, CutBounds
    <2>6. Begun(u, n, C, o, z) /\ ExtRead(u, n, o, state, ext)
        BY <1>6, <2>4, <2>5, BegunKept, ExtKept
    <2>7. CASE cr
        <3>1. /\ u[n + 1] = "cr" /\ EndsNoPiece(u, n)
              /\ state \in {"WaitingDelimiter", "ExtName",
                            "WaitingExtDelimiter", "ExtValueToken"}
            BY <1>3, <1>7, <1>10, <2>7
        <3>2. u[n + 1] \notin GoesOnWith(state)
            <4>1. "cr" \notin Token \cup Spht \cup {"="}
                BY DEF Token, Hex, Spht
            <4> QED BY <3>1, <4>1 DEF GoesOnWith
        <3>3. state # "ExtValueQuotedString"
            BY <3>1
        <3>4. ~ IsLine(u)
            BY <1>4, <1>6, <1>10, <2>6, <3>1, <3>2, <3>3, NoLineGoesOn
        <3> QED BY <1>2, <3>4
    <2>8. CASE ~ cr
        <3>1. /\ N = n /\ b \notin GoesOnWith(state)
              /\ state \in Due \/ b \notin Stop
              /\ ~ (state = "ExtValueQuotedString" /\ HasQuotedPrefix)
            BY <1>3, <1>5, <1>10, <2>8
        <3>2. u[n] = bytes[n] /\ u[n + 1] = b /\ n = Len(bytes)
            BY <1>1, <1>4, <1>6, <2>5, <3>1 DEF Agree
        <3>3. /\ u[n + 1] \notin GoesOnWith(state)
              /\ state \in Due \/ EndsNoPiece(u, n)
              /\ ~ (state = "ExtValueQuotedString" /\ u[n] = "backslash")
            BY <3>1, <3>2 DEF EndsNoPiece, HasQuotedPrefix
        <3>4. ~ IsLine(u)
            BY <1>4, <1>6, <1>10, <2>6, <3>3, NoLineGoesOn
        <3> QED BY <1>2, <3>4
    <2> QED BY <2>7, <2>8
<1> QED BY <1>8, <1>9, <1>10 DEF Inv, TypeOK

(* The digits that overflow are too far apart.                             *)
LEMMA TooFarApart ==
    ASSUME NEW t, NEW N \in Nat, Len(t) = N, DOMAIN t = 1 .. N,
           NEW a \in Nat, NEW n \in Nat, 1 <= a, a <= n, n <= N,
           All(t, Spht, 1, a - 1), All(t, Hex, a, n),
           NEW x \in a .. n, t[x] # "0", n - x >= MaxDigits
    PROVE  ~ FitsUsize(t)
<1>1. PICK q \in 1 .. N + 1 :
         /\ q = N + 1 \/ t[q] = Semi
         /\ \A y \in 1 .. q - 1 : t[y] # Semi
         /\ \A w : w \in SignificantDigits(t) <=>
               /\ w \in 1 .. q - 1 /\ t[w] \in Hex
               /\ \E y \in 1 .. q - 1 :
                     t[y] \in Hex /\ y <= w /\ t[y] # "0"
    BY SignificantAre
<1>2. Semi \notin Hex \cup Spht
    BY SemiIs
<1>3. n < q /\ x \in 1 .. q - 1 /\ n \in 1 .. q - 1 /\ x <= n
    BY <1>1, <1>2 DEF All
<1>4. t[x] \in Hex /\ t[n] \in Hex /\ x <= x
    BY DEF All
<1>5. x \in SignificantDigits(t) /\ n \in SignificantDigits(t)
    BY <1>1, <1>3, <1>4
<1>6. ~ (n - x < MaxDigits)
    BY DigitsAssumption
<1> QED BY <1>5, <1>6 DEF FitsUsize

(* How a size is found not to fit.                                         *)
LEMMA OverflowsIn ==
    ASSUME result = "none", NEW b \in Bytes, Scan(b), result' = "BadChunkSize"
    PROVE  /\ Feed(b) /\ state = "Size"
           /\ Overflows(Digits(sizeStart, Content))
<1>0. /\ result' # result /\ result' # "some" /\ result' # "BadChunkHeader"
    OBVIOUS
<1>1. ~ Bail
    BY <1>0 DEF Bail
<1>2. ASSUME WaitingSize(b) PROVE FALSE
    BY <1>0, <1>1, <1>2, Unfailed DEF WaitingSize
<1>3. ASSUME Size(b)
      PROVE  /\ Feed(b) /\ state = "Size"
             /\ Overflows(Digits(sizeStart, Content))
    <2>1. Feed(b) /\ ~ cr /\ state = "Size" /\ BadSize
        BY <1>0, <1>1, <1>3, Unfailed, Zenon DEF Size, In
    <2>2. Content = Len(bytes)
        BY <2>1 DEF Content, BeforeEnd
    <2> QED BY <2>1, <2>2 DEF BadSize
<1>4. ASSUME WaitingDelimiter(b) PROVE FALSE
    BY <1>0, <1>1, <1>4, Unfailed, Zenon DEF WaitingDelimiter
<1>5. ASSUME WaitingExtName(b) PROVE FALSE
    BY <1>0, <1>1, <1>5, Unfailed DEF WaitingExtName
<1>6. ASSUME ExtName(b) PROVE FALSE
    BY <1>0, <1>1, <1>6, Unfailed, Zenon DEF ExtName
<1>7. ASSUME WaitingExtDelimiter(b) PROVE FALSE
    BY <1>0, <1>1, <1>7, Unfailed, Zenon DEF WaitingExtDelimiter
<1>8. ASSUME WaitingExtValue(b) PROVE FALSE
    BY <1>0, <1>1, <1>8, Unfailed DEF WaitingExtValue
<1>9. ASSUME ExtValueToken(b) PROVE FALSE
    BY <1>0, <1>1, <1>9, Unfailed, Zenon DEF ExtValueToken
<1>10. ASSUME ExtValueQuotedString(b) PROVE FALSE
    BY <1>0, <1>1, <1>10, Unfailed DEF ExtValueQuotedString
<1>11. ASSUME AfterCr(b)
       PROVE  /\ Feed(b) /\ state = "Size"
              /\ Overflows(Digits(sizeStart, Content))
    <2>1. Feed(b) /\ cr
        BY <1>11 DEF AfterCr
    <2>2. ASSUME NameEndsLine \/ ValueEndsLine \/ DelimiterEndsLine PROVE FALSE
        BY <1>0, <2>2, Unfailed
           DEF NameEndsLine, ValueEndsLine, DelimiterEndsLine
    <2>3. SizeEnds
        BY <1>1, <1>11, <2>2 DEF AfterCr
    <2>4. state = "Size" /\ Overflows(Digits(sizeStart, BeforeCr))
        BY <1>0, <2>3 DEF SizeEnds
    <2>5. Content = BeforeCr
        BY <2>1 DEF Content, BeforeEnd, BeforeCr
    <2> QED BY <2>1, <2>4, <2>5
<1> QED BY <1>2, <1>3, <1>4, <1>5, <1>6, <1>7, <1>8, <1>9, <1>10, <1>11
        DEF Scan

(* A size that is found not to fit does not.                               *)
LEMMA BadSizeDoesNotFit ==
    ASSUME Inv, LineRead, result = "none", NEW b \in Bytes, Scan(b),
           result' = "BadChunkSize"
    PROVE  ~ FitsUsize(bytes')
<1>1. Feed(b) /\ state = "Size" /\ Overflows(Digits(sizeStart, Content))
    BY OverflowsIn
<1>2. PICK N \in Nat : N = Len(bytes)
    BY Fields
<1>3. PICK a \in Int : a = sizeStart
    BY Fields
<1>4. PICK n : n = Content
    OBVIOUS
<1>5. /\ a \in 1 .. n /\ All(bytes, Spht, 1, a - 1) /\ All(bytes, Hex, a, n)
      /\ n \in Nat /\ n <= N /\ a \in Nat /\ a <= n /\ 1 <= a
    <2>1. a \in 1 .. n /\ All(bytes, Spht, 1, a - 1) /\ All(bytes, Hex, a, n)
        BY <1>1, <1>3, <1>4 DEF LineRead, Feed
    <2>2. n = N \/ n = N - 1
        BY <1>1, <1>2, <1>4 DEF Content, BeforeEnd, Feed
    <2> QED BY <2>1, <2>2
<1>6. /\ bytes \in Seq(Bytes) /\ bytes' = Append(bytes, b)
      /\ Len(bytes') = N + 1 /\ DOMAIN bytes' = 1 .. N + 1
      /\ \A i \in 1 .. N : bytes'[i] = bytes[i]
    <2>1. bytes \in Seq(Bytes) /\ bytes' = Append(bytes, b)
        BY <1>1, Fields DEF Feed
    <2> QED BY <1>2, <2>1, AppendProperties
<1>7. PICK ds : ds = Digits(a, n)
    OBVIOUS
<1>8. /\ Len(ds) = n - a + 1 /\ DOMAIN ds = 1 .. n - a + 1
      /\ \A i \in 1 .. n - a + 1 : ds[i] = bytes[a + i - 1]
    BY <1>2, <1>5, <1>6, <1>7, SubSeqProperties DEF Digits
<1>9. PICK i \in DOMAIN ds : ds[i] # "0" /\ Len(ds) - i >= MaxDigits
    BY <1>1, <1>3, <1>4, <1>7 DEF Overflows
<1>10. PICK x \in Nat : x = a + i - 1
    BY <1>5, <1>8, <1>9
<1>11. x \in a .. n /\ bytes[x] # "0" /\ n - x >= MaxDigits
    BY <1>5, <1>8, <1>9, <1>10, DigitsAssumption, SMTT(40)
<1>12. PICK t : t = bytes'
    OBVIOUS
<1>13. PICK M \in Nat : M = N + 1
    OBVIOUS
<1>14. /\ Len(t) = M /\ DOMAIN t = 1 .. M /\ n <= M
       /\ All(t, Spht, 1, a - 1) /\ All(t, Hex, a, n) /\ t[x] # "0"
    BY <1>5, <1>6, <1>11, <1>12, <1>13 DEF All
<1>15. ~ FitsUsize(t)
    BY <1>5, <1>11, <1>14, TooFarApart
<1> QED BY <1>12, <1>15

(* decode_chunk_header returns an error only where nothing that follows    *)
(* could make a line of what it has read, or the size does not fit: so no  *)
(* line, cut anywhere, is taken for an error.                              *)
THEOREM RejectsLinesNever == Spec => []RejectsNoLine
<1>1. Init => RejectsNoLine
    BY DEF Init, RejectsNoLine
<1>2. Inv /\ LineRead /\ RejectsNoLine /\ [Next]_vars => RejectsNoLine'
    <2> SUFFICES ASSUME Inv, LineRead, RejectsNoLine, [Next]_vars
                 PROVE  RejectsNoLine'
        OBVIOUS
    <2>1. CASE UNCHANGED vars
        BY <2>1 DEF vars, RejectsNoLine
    <2>2. CASE \E b \in Bytes : Scan(b)
        <3>1. PICK b \in Bytes : Scan(b)
            BY <2>2
        <3>2. result = "none"
            BY <3>1 DEF Scan, WaitingSize, Size, WaitingDelimiter,
               WaitingExtName, ExtName, WaitingExtDelimiter, WaitingExtValue,
               ExtValueToken, ExtValueQuotedString, AfterCr, In, Feed
        <3>3. result' = "BadChunkHeader" =>
                 \A c \in Completions \cup {<<>>} : ~ IsLine(bytes' \o c)
            BY <3>1, <3>2, BadIsNoLine
        <3>4. result' = "BadChunkSize" => ~ FitsUsize(bytes')
            BY <3>1, <3>2, BadSizeDoesNotFit
        <3> QED BY <3>3, <3>4 DEF RejectsNoLine
    <2>3. CASE Returned
        BY <2>1, <2>3 DEF Returned
    <2> QED BY <2>1, <2>2, <2>3 DEF Next
<1> QED BY <1>1, <1>2, Invariant, ReadsLines, PTL DEF Spec
=============================================================================
