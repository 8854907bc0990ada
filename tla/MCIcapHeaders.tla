--------------------------- MODULE MCIcapHeaders ----------------------------
(***************************************************************************)
(* Headers for TLC.  Two instances: one Encapsulated header, with every    *)
(* value of up to four tokens and longer ones with a mistake anywhere; and *)
(* heads of three headers, of fewer values.                                *)
(***************************************************************************)
EXTENDS IcapHeadersProperties

MCWords == HeaderKinds \cup BodyKinds \cup {"reg-hdr"}

MCNumber == [d \in {"0", "9", "204", "206", "huge"} |->
                CASE d = "0" -> 0 [] d = "9" -> 9 [] d = "204" -> 204
                  [] d = "206" -> 206 [] d = "huge" -> UsizeMax + 1]

MCTokens == {"ws", "comma", "equals", "req-hdr", "reg-hdr", "null-body", "0",
             "9", "204", "huge", "plus", "other"}

MCLower == [n \in {"Encapsulated", "encapsulateD", "Preview", "PREVIEW",
                   "Allow", "allow", "Host"} |->
                CASE n \in {"Encapsulated", "encapsulateD"} -> "encapsulated"
                  [] n \in {"Preview", "PREVIEW"} -> "preview"
                  [] n \in {"Allow", "allow"} -> "allow"
                  [] n = "Host" -> "host"]

Values(tokens, n) ==
    {v \in UNION {[1 .. l -> tokens] : l \in 0 .. n} : LongestRuns(v)}

(* Values with one mistake at most: the n tokens from place p on replaced. *)
Edits(v) ==
    {w \in {SubSeq(v, 1, p - 1) \o new \o SubSeq(v, p + n, Len(v)) :
               p \in 1 .. Len(v) + 1, n \in 0 .. 1,
               new \in {<<>>} \cup {<<t>> : t \in MCTokens}} : LongestRuns(w)}

HeadersOf(names, values) == [name : names, value : values]

Entity(kind, off) == <<kind, "equals", off>>

-----------------------------------------------------------------------------
OneHeader ==
    HeadersOf({"Encapsulated"},
        Values({"ws", "comma", "equals", "req-hdr", "null-body", "0", "9"}, 4)
        \cup Edits(Entity("req-hdr", "0") \o <<"comma">>
                   \o Entity("null-body", "9"))
        \cup Edits(<<"ws", "res-hdr", "ws", "equals", "ws", "9", "ws", "comma",
                     "ws", "opt-body", "ws", "equals", "ws", "204", "ws">>)
        \cup Edits(Entity("req-hdr", "0") \o <<"comma">>
                   \o Entity("res-hdr", "9") \o <<"comma">>
                   \o Entity("res-body", "9")))

MixedHeaders ==
    HeadersOf({"Encapsulated", "encapsulateD"},
        {<<>>, <<"ws">>, Entity("req-hdr", "0"), Entity("null-body", "9"),
         <<"ws">> \o Entity("req-body", "9") \o <<"ws">>,
         <<"comma">> \o Entity("res-hdr", "9"),
         Entity("res-hdr", "9") \o <<"comma">>,
         Entity("req-hdr", "9") \o <<"comma", "ws">>
            \o Entity("res-body", "0"),
         Entity("req-hdr", "0") \o <<"ws", "comma">>
            \o Entity("opt-body", "9"),
         Entity("req-hdr", "0") \o <<"comma">> \o Entity("null-body", "0")})
    \cup HeadersOf({"Preview"},
        {<<>>, <<"0">>, <<"ws", "plus", "9">>, <<"huge">>,
         <<"plus", "ws", "0">>,
         <<"nonascii">>, <<"nonascii", "9", "ws", "0", "ws", "other">>})
    \cup HeadersOf({"PREVIEW"}, {<<"9">>})
    \cup HeadersOf({"Allow"},
        {<<>>, <<"204">>, <<"206">>, <<"204", "comma", "ws", "206">>,
         <<"204", "other", "ws", "206">>, <<"comma", "204", "plus">>})
    \cup HeadersOf({"allow", "Host"}, {<<"206">>})
=============================================================================
