---------------------------- MODULE IcapHeaders -----------------------------
(***************************************************************************)
(* ReqCtx::parse_icap_headers (server/request_context.rs): the loop over   *)
(* the headers of an ICAP head, and what it calls for the three headers    *)
(* the server reads: EeList::parse_append (decoder/encapsulated.rs),       *)
(* decode_preview and decode_allow (decoder.rs).                           *)
(*                                                                         *)
(* One behaviour reads one head.  A step is one turn of a loop: a header,  *)
(* a call of parse_ee, a pair of neighbours in the order check.  Module    *)
(* RequestContext takes the outcome for given, as the fields hdrsOk, ee,   *)
(* preview and allow of a request.                                         *)
(*                                                                         *)
(* A value is a sequence of tokens, each standing for a longest run of     *)
(* bytes of its class: blanks ("ws"), lower-case letters and hyphens (a    *)
(* member of Words), digits (of DOMAIN Number); the other tokens are       *)
(* single bytes, of which "other" is no character of the syntax and        *)
(* "nonascii" is no ASCII.  Positions count from 1.                        *)
(***************************************************************************)
EXTENDS RequestContext

CONSTANTS
    Words,      \* the runs of lower-case letters and hyphens that occur
    Number,     \* the runs of digits that occur, each with its value
    Headers,    \* the headers a head may have
    Lower,      \* the ASCII lower case of each header name in use
    MaxHeaders  \* MAX_HEADERS, what httparse makes room for      (128)

Blanks == {"ws"}
Digits == DOMAIN Number
Tokens == Words \cup Digits
             \cup {"ws", "comma", "equals", "plus", "other", "nonascii"}

Fields == [name : DOMAIN Lower, value : Seq(Tokens)]

ASSUME WordsAssumption  == HeaderKinds \cup BodyKinds \subseteq Words
ASSUME NumberAssumption == Number \in [Digits -> Nat] /\ UsizeMax \in Nat

(* A longest run is not next to one of the same class.                     *)
Runs == {Blanks, Words, Digits}

LongestRuns(v) ==
    \A p \in 1 .. Len(v) - 1 :
        \A class \in Runs : ~ (v[p] \in class /\ v[p + 1] \in class)

ASSUME HeadersAssumption ==
    Headers \subseteq {h \in Fields : LongestRuns(h.value)}
ASSUME MaxHeadersAssumption == MaxHeaders \in Nat

VARIABLES
    method,     \* icap_req.method
    read,       \* the headers the loop has come to
    pc,         \* where it is
    i,          \* the position in the value, or in the list
    delimiter,  \* the next entity must follow a comma
    list,       \* the EeList
    preview,    \* the value of the last Preview header
    allow,      \* the codes of the Allow headers, if there are any
    nullBody,   \* null_body
    result      \* "none", "ok" or "error"

vars == <<method, read, pc, i, delimiter, list, preview, allow, nullBody,
          result>>

Locations == {"header", "entity", "order", "done"}

Init == /\ method \in Methods
        /\ read = <<>> /\ pc = "header" /\ i = 1 /\ delimiter = FALSE
        /\ list = <<>> /\ preview = {} /\ allow = {} /\ nullBody = FALSE
        /\ result = "none"

Return(r) == pc' = "done" /\ result' = r

Fail == /\ Return("error")
        /\ UNCHANGED <<method, i, delimiter, list, preview, allow, nullBody>>

-----------------------------------------------------------------------------
(* Tokens of a value v.                                                    *)

At(v, p, S) == p <= Len(v) /\ v[p] \in S

(* skip_whitespace, skip_char, skip_name and skip_offset.                  *)
Past(v, p, S) == IF At(v, p, S) THEN p + 1 ELSE p

(* The places of the longest runs without a separator: slice::split.       *)
Split(v, seps) ==
    {w \in (1 .. Len(v)) \X (1 .. Len(v)) :
        /\ w[1] <= w[2]
        /\ \A p \in w[1] .. w[2] : v[p] \notin seps
        /\ w[1] = 1 \/ v[w[1] - 1] \in seps
        /\ w[2] = Len(v) \/ v[w[2] + 1] \in seps}

-----------------------------------------------------------------------------
(* parse_ee: one entity, from position p of v, with a comma before it      *)
(* where it is not the first.                                              *)

Blank(v, p) == Past(v, p, Blanks) > Len(v)

(* Where the parts of the entity begin, if they are there.                 *)
Places(v, p, comma) ==
    LET start  == Past(v, p, Blanks)
        name   == Past(v, IF comma THEN Past(v, start, {"comma"}) ELSE start,
                       Blanks)
        equals == Past(v, Past(v, name, Words), Blanks)
        offset == Past(v, Past(v, equals, {"equals"}), Blanks)
    IN  [start |-> start, name |-> name, equals |-> equals,
         offset |-> offset]

(* EncapsulatedEntity::try_from_bytes; a slip takes any name.              *)
AnyEntity(v, at) == Number[v[at.offset]] <= UsizeMax
KnownEntity(v, at) == /\ Number[v[at.offset]] <= UsizeMax
                      /\ v[at.name] \in HeaderKinds \cup BodyKinds

(* A slip: the comma may be missing.                                       *)
CommaOptional(v, at, comma) ==
    /\ At(v, at.name, Words) /\ At(v, at.equals, {"equals"})
    /\ At(v, at.offset, Digits)
    /\ KnownEntity(v, at)

HasEntityAt(v, at, comma) ==
    /\ comma => At(v, at.start, {"comma"})
    /\ At(v, at.name, Words) /\ At(v, at.equals, {"equals"})
    /\ At(v, at.offset, Digits)
    /\ KnownEntity(v, at)

-----------------------------------------------------------------------------
(* decode_preview: the first word that is ASCII, as a usize.               *)

AsciiWords(v) ==
    {w \in Split(v, Blanks) : \A p \in w[1] .. w[2] : v[p] # "nonascii"}

(* usize::from_str takes a plus sign.                                      *)
IsUsize(v, w) ==
    /\ \/ w[1] = w[2]
       \/ w[1] + 1 = w[2] /\ v[w[1]] = "plus"
    /\ v[w[2]] \in Digits
    /\ Number[v[w[2]]] <= UsizeMax

FirstWord(v) ==
    CHOOSE w \in AsciiWords(v) : \A u \in AsciiWords(v) : w[1] <= u[1]

(* The value, {} if there is none.                                         *)
DecodePreview(v) ==
    IF AsciiWords(v) # {} /\ IsUsize(v, FirstWord(v))
    THEN {Number[v[FirstWord(v)[2]]]}
    ELSE {}

(* decode_allow: the codes among the words; any other word is passed over. *)
CodeOf == [d \in {"204", "206"} |-> IF d = "204" THEN 204 ELSE 206]

DecodeAllow(v) ==
    {CodeOf[v[w[1]]] : w \in {u \in Split(v, Blanks \cup {"comma"}) :
                                 u[1] = u[2] /\ v[u[1]] \in DOMAIN CodeOf}}

-----------------------------------------------------------------------------
(* The headers, in the order they have in the head.                        *)

(* HeaderName's ==, eq_ignore_ascii_case; a slip minds the case.           *)
ExactName(h, word) == h.name = word
Named(h, word)     == Lower[h.name] = word

ReadEncapsulated(h) ==
    /\ Named(h, "encapsulated")
    /\ pc' = "entity" /\ i' = 1 /\ delimiter' = FALSE
    /\ UNCHANGED <<method, list, preview, allow, nullBody, result>>

ReadPreview(h) ==
    /\ Named(h, "preview")
    /\ \/ /\ DecodePreview(h.value) # {}
          /\ preview' = DecodePreview(h.value)
          /\ UNCHANGED <<method, pc, i, delimiter, list, allow, nullBody,
                         result>>
       \/ DecodePreview(h.value) = {} /\ Fail

(* Allow::add; a slip keeps the last header only.                          *)
LastAllow(codes, more) == {more}
AddAllow(codes, more) ==
    IF codes = {} THEN {more} ELSE {Value(codes) \cup more}

ReadAllow(h) ==
    /\ Named(h, "allow")
    /\ allow' = AddAllow(allow, DecodeAllow(h.value))
    /\ UNCHANGED <<method, pc, i, delimiter, list, preview, nullBody, result>>

ReadOther(h) ==
    /\ ~ \E word \in {"encapsulated", "preview", "allow"} : Named(h, word)
    /\ UNCHANGED <<method, pc, i, delimiter, list, preview, allow, nullBody,
                   result>>

ReadHeader ==
    /\ pc = "header"
    /\ Len(read) < MaxHeaders
    /\ \E h \in Headers :
          /\ read' = Append(read, h)
          /\ \/ ReadEncapsulated(h) \/ ReadPreview(h)
             \/ ReadAllow(h) \/ ReadOther(h)

-----------------------------------------------------------------------------
(* parse_encapsulated_list_ on the value of the header just read: parse_ee *)
(* while there is something left of it, then the order of the whole list.  *)

LastValue == read[Len(read)].value

(* What parse_ee consumes of blanks at the end; a slip leaves them there.  *)
NothingConsumed(v, p) == p
BlanksConsumed(v, p)  == Past(v, p, Blanks)

ParseBlank ==
    /\ pc = "entity"
    /\ i <= Len(LastValue)
    /\ Blank(LastValue, i)
    /\ i' = BlanksConsumed(LastValue, i) /\ delimiter' = TRUE
    /\ UNCHANGED <<method, read, pc, list, preview, allow, nullBody, result>>

ParseEntity ==
    /\ pc = "entity"
    /\ i <= Len(LastValue)
    /\ ~ Blank(LastValue, i)
    /\ LET at == Places(LastValue, i, delimiter)
       IN  \/ /\ HasEntityAt(LastValue, at, delimiter)
              /\ list' = Append(list, [kind |-> LastValue[at.name],
                                       off |-> Number[LastValue[at.offset]]])
              /\ i' = at.offset + 1 /\ delimiter' = TRUE
              /\ UNCHANGED <<method, read, pc, preview, allow, nullBody,
                             result>>
           \/ ~ HasEntityAt(LastValue, at, delimiter) /\ Fail /\ UNCHANGED read

(* Where the order check begins; a slip looks at the last two only.        *)
LastTwo     == IF Len(list) = 1 THEN 1 ELSE Len(list) - 1
FirstEntity == 1

ValueParsed ==
    /\ pc = "entity"
    /\ i > Len(LastValue)
    /\ \/ /\ list # <<>>
          /\ pc' = "order" /\ i' = FirstEntity
          /\ UNCHANGED <<method, read, delimiter, list, preview, allow,
                         nullBody, result>>
       \/ list = <<>> /\ Fail /\ UNCHANGED read

CheckOrder ==
    /\ pc = "order"
    /\ i < Len(list)
    /\ \/ /\ list[i].off <= list[i + 1].off
          /\ i' = i + 1
          /\ UNCHANGED <<method, read, pc, delimiter, list, preview, allow,
                         nullBody, result>>
       \/ list[i + 1].off < list[i].off /\ Fail /\ UNCHANGED read

OrderChecked ==
    /\ pc = "order"
    /\ i = Len(list)
    /\ pc' = "header"
    /\ UNCHANGED <<method, read, i, delimiter, list, preview, allow, nullBody,
                   result>>

-----------------------------------------------------------------------------
(* After the last header: the last entity must be a body, and only OPTIONS *)
(* can do without Encapsulated.                                            *)
Accepted == IF list # <<>> THEN LastEntity(list).kind \in BodyKinds
                           ELSE method = "OPTIONS"

Finish ==
    /\ pc = "header"
    /\ \/ /\ Accepted
          /\ nullBody' = (list # <<>> /\ LastEntity(list).kind = "null-body")
          /\ Return("ok")
          /\ UNCHANGED <<method, read, i, delimiter, list, preview, allow>>
       \/ ~ Accepted /\ Fail /\ UNCHANGED read

Returned == pc = "done" /\ UNCHANGED vars

ParseList == ParseBlank \/ ParseEntity \/ ValueParsed
                \/ CheckOrder \/ OrderChecked

Step == ReadHeader \/ ParseList \/ Finish

Next == Step \/ Returned

Spec == Init /\ [][Next]_vars
=============================================================================
