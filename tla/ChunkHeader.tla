---------------------------- MODULE ChunkHeader -----------------------------
(***************************************************************************)
(* decode_chunk_header (decoder.rs): the scanner that looks, in what has   *)
(* been received after the HTTP heads, for the header line of a chunk:     *)
(* the size in hex and extensions ;name or ;name=value.                    *)
(*                                                                         *)
(* The scanner reads one byte after the other and its verdict depends on   *)
(* the bytes it has read alone, so one behaviour scans one buffer: each    *)
(* step feeds the next byte the buffer happens to hold.  result is what    *)
(* the function returns if the buffer ends there; Connection calls it      *)
(* again on a longer buffer as long as that is "none".                     *)
(*                                                                         *)
(* Bytes stand for the classes the scanner tells apart; positions count    *)
(* from 1 (the source's idx + 1), and 0 is its usize::MAX, "not set".      *)
(***************************************************************************)
EXTENDS Integers, Sequences

CONSTANTS
    Bytes,      \* the bytes that occur
    MaxDigits,  \* significant hex digits of a usize             (16)
    MaxLen      \* bound: bytes fed to the scanner

(* "0" and "7": digits; "i": the extension name "ieof", in one byte; "k":  *)
(* the other token bytes; "(": other text; "ctl": what is not text.  That  *)
(* is all ASCII, so is_ascii() in the quoted string says nothing more.     *)
Hex   == {"0", "7"}
Token == Hex \cup {"i", "k"}
Spht  == {"sp"}
Text  == Token \cup Spht \cup {"(", ";", "=", "quote", "backslash"}
Ieof  == <<"i">>

ASSUME BytesAssumption == Bytes \subseteq Text \cup {"ctl", "cr", "lf"}
ASSUME DigitsAssumption == MaxDigits \in Nat \ {0} /\ MaxLen \in Nat

VARIABLES
    bytes,      \* what has been scanned
    state,      \* the ChunkHeaderState
    cr,         \* a CR has been read where the line may end
    sizeStart,  \* size_start
    ext,        \* the ExtensionIndices
    hdr,        \* the ChunkHdr
    slice,      \* history: the last slice of bytes taken
    result      \* "none", "some" or the DecoderError

vars == <<bytes, state, cr, sizeStart, ext, hdr, slice, result>>

States == {"WaitingSize", "Size", "WaitingDelimiter", "WaitingExtName",
           "ExtName", "WaitingExtDelimiter", "WaitingExtValue",
           "ExtValueToken", "ExtValueQuotedString"}

Results == {"none", "some", "BadChunkHeader", "BadChunkSize"}

NoExt == [nameStart |-> 0, nameEnd |-> 0, valStart |-> 0, valEnd |-> 0]

Init == /\ bytes = <<>> /\ state = "WaitingSize" /\ cr = FALSE
        /\ sizeStart = 0 /\ ext = NoExt
        /\ hdr = [zero |-> TRUE, lineLen |-> 0, ieof |-> FALSE]
        /\ slice = <<1, 0>> /\ result = "none"

-----------------------------------------------------------------------------
(* Steps the states share.  idx is the position of the byte b being read.  *)

(* A slip counts the CR twice, a byte that next!(iter) takes.              *)
IdxAfterNext == Len(bytes) + 2
Idx          == Len(bytes) + 1

Feed(b) == result = "none" /\ Len(bytes) < MaxLen /\ bytes' = Append(bytes, b)

(* A slip goes on after a CR, whatever follows it.                         *)
InAnyway(s, b) == state = s /\ Feed(b)
In(s, b)       == state = s /\ ~cr /\ Feed(b)

Goto(s) == state' = s /\ UNCHANGED <<cr, sizeStart, result>>

Stay == UNCHANGED <<state, cr, sizeStart, ext, hdr, slice, result>>

Bail == /\ result' = "BadChunkHeader"
        /\ UNCHANGED <<state, cr, sizeStart, ext, hdr, slice>>

(* The match of next!(iter) on the byte after a CR.                        *)
AwaitLf == cr' = TRUE /\ UNCHANGED <<state, sizeStart, ext, hdr, slice, result>>

-----------------------------------------------------------------------------
(* The size.                                                               *)

Digits(from, to) == SubSeq(bytes, from, to)

(* usize::from_str_radix fails on more than MaxDigits significant digits;  *)
(* a slip counts leading zeros too.                                        *)
TooLong(ds)   == Len(ds) > MaxDigits
Overflows(ds) == \E i \in DOMAIN ds : ds[i] # "0" /\ Len(ds) - i >= MaxDigits

IsZero(ds) == \A i \in DOMAIN ds : ds[i] = "0"

(* ChunkHdr::parse of the digits before idx; then the line goes on in s,   *)
(* or, with lineLen set, it is complete.                                   *)
ParseSize(lineLen) ==
    LET ds == Digits(sizeStart, Len(bytes))
    IN  /\ ~ Overflows(ds)
        /\ slice' = <<sizeStart, Len(bytes)>>
        /\ hdr' = [zero |-> IsZero(ds), lineLen |-> lineLen, ieof |-> FALSE]

BadSize == /\ Overflows(Digits(sizeStart, Len(bytes)))
           /\ slice' = <<sizeStart, Len(bytes)>>
           /\ result' = "BadChunkSize"
           /\ UNCHANGED <<state, cr, sizeStart, ext, hdr>>

WaitingSize(b) ==
    /\ In("WaitingSize", b)
    /\ \/ b \in Spht /\ Stay
       \/ /\ b \in Hex
          /\ state' = "Size" /\ sizeStart' = Idx
          /\ UNCHANGED <<cr, ext, hdr, slice, result>>
       \/ b \notin Spht \cup Hex /\ Bail

Size(b) ==
    /\ In("Size", b)
    /\ \/ b \in Hex /\ Stay
       \/ /\ b \in Spht \cup {";"}
          /\ \/ /\ ParseSize(0)
                /\ Goto(IF b = ";" THEN "WaitingExtName" ELSE "WaitingDelimiter")
                /\ UNCHANGED ext
             \/ BadSize
       \/ b = "cr" /\ AwaitLf
       \/ b \notin Hex \cup Spht \cup {";", "cr"} /\ Bail

WaitingDelimiter(b) ==
    /\ In("WaitingDelimiter", b)
    /\ \/ b \in Spht /\ Stay
       \/ b = ";" /\ Goto("WaitingExtName") /\ UNCHANGED <<ext, hdr, slice>>
       \/ b = "cr" /\ AwaitLf
       \/ b \notin Spht \cup {";", "cr"} /\ Bail

-----------------------------------------------------------------------------
(* The name of an extension.                                               *)

WaitingExtName(b) ==
    /\ In("WaitingExtName", b)
    /\ \/ b \in Spht /\ Stay
       \/ /\ b \in Token
          /\ ext' = [ext EXCEPT !.nameStart = Idx]
          /\ Goto("ExtName") /\ UNCHANGED <<hdr, slice>>
       \/ b \notin Spht \cup Token /\ Bail

(* ext.name(), a closed range; a slip takes it for a half-open one.        *)
NameButLast(e) == SubSeq(bytes, e.nameStart, e.nameEnd - 1)
Name(e)        == SubSeq(bytes, e.nameStart, e.nameEnd)

CheckIeof(e, lineLen) ==
    /\ slice' = <<e.nameStart, e.nameEnd>>
    /\ hdr' = [hdr EXCEPT !.ieof = @ \/ Name(e) = Ieof, !.lineLen = lineLen]

(* A slip forgets to set name_end.                                         *)
NameGoesOn == ext
NameEnds   == [ext EXCEPT !.nameEnd = Len(bytes)]

ExtName(b) ==
    /\ In("ExtName", b)
    /\ \/ b \in Token /\ Stay
       \/ /\ b \in Spht \cup {";", "="}
          /\ CheckIeof(NameEnds, 0)
          /\ ext' = IF b = ";" THEN NoExt ELSE NameEnds
          /\ Goto(IF b = ";" THEN "WaitingExtName"
                  ELSE IF b = "=" THEN "WaitingExtValue"
                  ELSE "WaitingExtDelimiter")
       \/ b = "cr" /\ AwaitLf
       \/ b \notin Token \cup Spht \cup {";", "=", "cr"} /\ Bail

WaitingExtDelimiter(b) ==
    /\ In("WaitingExtDelimiter", b)
    /\ \/ b \in Spht /\ Stay
       \/ /\ b = ";"
          /\ CheckIeof(ext, 0)
          /\ ext' = NoExt
          /\ Goto("WaitingExtName")
       \/ b = "=" /\ Goto("WaitingExtValue") /\ UNCHANGED <<ext, hdr, slice>>
       \/ b = "cr" /\ AwaitLf
       \/ b \notin Spht \cup {";", "=", "cr"} /\ Bail

-----------------------------------------------------------------------------
(* The value of an extension: a token or a quoted string.                  *)

WaitingExtValue(b) ==
    /\ In("WaitingExtValue", b)
    /\ \/ b \in Spht /\ Stay
       \/ /\ b = "quote"
          /\ ext' = [ext EXCEPT !.valStart = Idx + 1]
          /\ Goto("ExtValueQuotedString") /\ UNCHANGED <<hdr, slice>>
       \/ /\ b \in Token
          /\ ext' = [ext EXCEPT !.valStart = Idx]
          /\ Goto("ExtValueToken") /\ UNCHANGED <<hdr, slice>>
       \/ b \notin Spht \cup Token \cup {"quote"} /\ Bail

(* A byte counts as quoted if the one before it is a backslash, even where *)
(* that backslash is quoted itself.  A slip: every quote ends the string.  *)
NoQuotedPrefix  == FALSE
HasQuotedPrefix == bytes[Len(bytes)] = "backslash"

(* The last byte of the value when the closing quote is read: of an empty  *)
(* string, by the max(), that quote itself.                                *)
LastOfValue == IF Len(bytes) >= ext.valStart THEN Len(bytes) ELSE ext.valStart

ValueEnds(to) == /\ slice' = <<ext.valStart, to>>
                 /\ ext' = NoExt
                 /\ UNCHANGED hdr

ExtValueQuotedString(b) ==
    /\ In("ExtValueQuotedString", b)
    /\ \/ /\ b = "quote" /\ ~ HasQuotedPrefix
          /\ ValueEnds(LastOfValue)
          /\ Goto("WaitingDelimiter")
       \/ b = "quote" /\ HasQuotedPrefix /\ Stay
       \/ b \in Text \ {"quote"} /\ Stay
       \/ b \notin Text /\ HasQuotedPrefix /\ Stay
       \/ b \notin Text /\ ~ HasQuotedPrefix /\ Bail

ExtValueToken(b) ==
    /\ In("ExtValueToken", b)
    /\ \/ b \in Token /\ Stay
       \/ /\ b \in Spht \cup {";"}
          /\ ValueEnds(Len(bytes))
          /\ Goto(IF b = ";" THEN "WaitingExtName" ELSE "WaitingDelimiter")
       \/ b = "cr" /\ AwaitLf
       \/ b \notin Token \cup Spht \cup {";", "cr"} /\ Bail

-----------------------------------------------------------------------------
(* The end of the line: LF after CR.  The CR is at Len(bytes), so that the *)
(* size, name or value ends one before, and line_len is Idx.               *)

BeforeCr == Len(bytes) - 1

Ends == result' = "some" /\ UNCHANGED <<state, cr, sizeStart>>

SizeEnds ==
    LET ds == Digits(sizeStart, BeforeCr)
    IN  /\ state = "Size"
        /\ slice' = <<sizeStart, BeforeCr>>
        /\ UNCHANGED <<state, cr, sizeStart, ext>>
        /\ IF Overflows(ds)
           THEN result' = "BadChunkSize" /\ UNCHANGED hdr
           ELSE /\ result' = "some"
                /\ hdr' = [zero |-> IsZero(ds), lineLen |-> Idx, ieof |-> FALSE]

NameEndsLine ==
    LET e == [ext EXCEPT !.nameEnd = BeforeCr]
    IN  state = "ExtName" /\ CheckIeof(e, Idx) /\ ext' = e /\ Ends

ValueEndsLine ==
    /\ state = "ExtValueToken"
    /\ ext' = [ext EXCEPT !.valEnd = BeforeCr]
    /\ slice' = <<ext.valStart, BeforeCr>>
    /\ hdr' = [hdr EXCEPT !.lineLen = Idx]
    /\ Ends

DelimiterEndsLine ==
    /\ state \in {"WaitingDelimiter", "WaitingExtDelimiter"}
    /\ hdr' = [hdr EXCEPT !.lineLen = Idx]
    /\ Ends /\ UNCHANGED <<ext, slice>>

AfterCr(b) ==
    /\ cr /\ Feed(b)
    /\ \/ /\ b = "lf"
          /\ SizeEnds \/ NameEndsLine \/ ValueEndsLine \/ DelimiterEndsLine
       \/ b # "lf" /\ Bail

-----------------------------------------------------------------------------
Scan(b) == \/ WaitingSize(b) \/ Size(b) \/ WaitingDelimiter(b)
           \/ WaitingExtName(b) \/ ExtName(b) \/ WaitingExtDelimiter(b)
           \/ WaitingExtValue(b) \/ ExtValueToken(b) \/ ExtValueQuotedString(b)
           \/ AfterCr(b)

(* The function has returned, or the buffer ends here.                     *)
Returned == (result # "none" \/ Len(bytes) = MaxLen) /\ UNCHANGED vars

Next == (\E b \in Bytes : Scan(b)) \/ Returned

Spec == Init /\ [][Next]_vars
=============================================================================
