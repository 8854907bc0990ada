----------------------- MODULE ChunkHeaderProperties ------------------------
(***************************************************************************)
(* What a chunk header line is, and that the scanner of module ChunkHeader *)
(* finds it: no later and no sooner than it is there.                      *)
(***************************************************************************)
EXTENDS ChunkHeader

(* Every variable keeps to its type, and every position lies in what has   *)
(* been scanned; a value begins after the opening quote.                   *)
Scanned == 0 .. Len(bytes)

TypeOK ==
    /\ bytes \in Seq(Bytes) /\ state \in States /\ cr \in BOOLEAN
    /\ sizeStart \in Scanned
    /\ ext \in [nameStart : Scanned, nameEnd : Scanned,
                valStart : Scanned \cup {Len(bytes) + 1}, valEnd : Scanned]
    /\ hdr \in [zero : BOOLEAN, lineLen : Scanned, ieof : BOOLEAN]
    /\ slice \in Nat \X Int /\ result \in Results

(* No slice of the buffer is out of bounds: the digits of the size, the    *)
(* name and the value of an extension, and the byte before a quoted one.   *)
SlicesInBounds ==
    /\ slice[1] >= 1 /\ slice[1] <= slice[2] + 1 /\ slice[2] <= Len(bytes)
    /\ state = "ExtValueQuotedString" => bytes # <<>>

-----------------------------------------------------------------------------
(* The grammar of the line.  t is the line without its CRLF, a piece of it *)
(* the interval from i to j.                                               *)
(*   line  = size *( ";" ext ) CRLF                                        *)
(*   size  = ws 1*hex ws                                                   *)
(*   ext   = ws name ws [ "=" ws ( token / quoted ) ws ]                   *)

All(t, S, i, j) == \A n \in i .. j : t[n] \in S

(* From a to b, with blanks around.                                        *)
Padded(t, i, j, a, b) ==
    /\ i <= a /\ a <= b /\ b <= j
    /\ All(t, Spht, i, a - 1) /\ All(t, Spht, b + 1, j)

Word(t, S, i, j) ==
    \E a, b \in i .. j : Padded(t, i, j, a, b) /\ All(t, S, a, b)

Quoted(t, a, b) ==
    /\ a < b /\ t[a] = "quote" /\ t[b] = "quote" /\ t[b - 1] # "backslash"
    /\ \A n \in a + 1 .. b - 1 :
          t[n] \in Text \ {"quote"} \/ t[n - 1] = "backslash"

IsValue(t, i, j) ==
    \/ Word(t, Token, i, j)
    \/ \E a, b \in i .. j : Padded(t, i, j, a, b) /\ Quoted(t, a, b)

(* The name ends before the "=", or with the piece.                        *)
IsExt(t, i, j) ==
    \/ Word(t, Token, i, j)
    \/ \E n \in i .. j : /\ t[n] = "=" /\ Word(t, Token, i, n - 1)
                         /\ IsValue(t, n + 1, j)

IsIeof(t, i, j) ==
    \E a \in i .. j : /\ t[a] = "i" /\ All(t, Spht, i, a - 1)
                      /\ a = j \/ t[a + 1] \notin Token

(* The ways to cut the line at semicolons: what lies between two cuts.     *)
NextCut(t, C, p) ==
    LET later == {c \in C \cup {Len(t) + 1} : c > p}
    IN  CHOOSE c \in later : \A d \in later : c <= d

Parses(t) ==
    {C \in SUBSET {p \in DOMAIN t : t[p] = ";"} :
        /\ Word(t, Hex, 1, NextCut(t, C, 0) - 1)
        /\ \A p \in C : IsExt(t, p + 1, NextCut(t, C, p) - 1)}

IsLine(s) ==
    /\ Len(s) >= 2 /\ s[Len(s) - 1] = "cr" /\ s[Len(s)] = "lf"
    /\ Parses(SubSeq(s, 1, Len(s) - 2)) # {}

SignificantDigits(t) ==
    LET first == NextCut(t, {p \in DOMAIN t : t[p] = ";"}, 0)
        ds    == {p \in 1 .. first - 1 : t[p] \in Hex}
    IN  {p \in ds : \E q \in ds : q <= p /\ t[q] # "0"}

FitsUsize(t) ==
    \A p, q \in SignificantDigits(t) : q - p < MaxDigits

(* What may come after a prefix of a line.                                 *)
Completions ==
    {c \o <<"cr", "lf">> : c \in {<<>>, <<"0">>, <<"k">>, <<"quote">>,
        <<"k", "quote">>}} \cup {<<"lf">>, <<"(", "quote", "cr", "lf">>}

-----------------------------------------------------------------------------
(* The scanner accepts nothing but lines, at their end: line_len is the    *)
(* length of the line, chunk_len is zero iff all of its digits are, and    *)
(* ieof says that some extension has that name.  Connection takes the body *)
(* to go on at line_len.                                                   *)
AcceptsLines ==
    result = "some" =>
        LET t == SubSeq(bytes, 1, Len(bytes) - 2)
        IN  /\ IsLine(bytes) /\ FitsUsize(t)
            /\ hdr.lineLen = Len(bytes)
            /\ hdr.zero <=> SignificantDigits(t) = {}
            /\ hdr.ieof <=> \E C \in Parses(t) : \E p \in C :
                                IsIeof(t, p + 1, NextCut(t, C, p) - 1)

(* "none" is returned only while the bytes can still become a line: the    *)
(* server does not wait for more of a line that is wrong already, but for  *)
(* a size that is too big, which is found at the end of its digits.        *)
WaitsOnlyForLines ==
    result = "none" => \E c \in Completions : IsLine(bytes \o c)

(* An error is returned only if the bytes can no longer become a line, or  *)
(* the size does not fit: no cut of a correct line is taken for an error.  *)
RejectsNoLine ==
    /\ result = "BadChunkHeader" =>
          \A c \in Completions \cup {<<>>} : ~ IsLine(bytes \o c)
    /\ result = "BadChunkSize" => ~ FitsUsize(bytes)

-----------------------------------------------------------------------------
(* The inductive invariant behind SlicesInBounds.  Where the scanner is in *)
(* the middle of a size, a name or a token, that has begun before the last *)
(* byte scanned, and before the CR if that has been read.                  *)
BeforeEnd == IF cr THEN Len(bytes) - 1 ELSE Len(bytes)

ScanInv ==
    /\ slice[1] >= 1 /\ slice[1] <= slice[2] + 1 /\ slice[2] <= Len(bytes)
    /\ cr => /\ bytes # <<>>
             /\ state \in {"Size", "WaitingDelimiter", "ExtName",
                           "WaitingExtDelimiter", "ExtValueToken"}
    /\ result = "none" =>
          /\ state = "Size" => sizeStart \in 1 .. BeforeEnd
          /\ state = "ExtName" => ext.nameStart \in 1 .. BeforeEnd
          /\ state = "WaitingExtDelimiter" =>
                1 <= ext.nameStart /\ ext.nameStart <= ext.nameEnd
          /\ state = "ExtValueToken" => ext.valStart \in 1 .. BeforeEnd
          /\ state = "ExtValueQuotedString" => ext.valStart >= 1
          /\ cr => bytes[Len(bytes)] = "cr"
    /\ state = "ExtValueQuotedString" => bytes # <<>>

(* line_len covers all that has been read, up to and with the CRLF.        *)
LineEndsAtLineLen ==
    result = "some" =>
        /\ hdr.lineLen = Len(bytes)
        /\ Len(bytes) >= 2
        /\ bytes[Len(bytes)] = "lf" /\ bytes[Len(bytes) - 1] = "cr"
=============================================================================
