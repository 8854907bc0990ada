------------------------------ MODULE MCHeads -------------------------------
(***************************************************************************)
(* Requests for TLC: heads with up to three headers, empty values, one     *)
(* header too many, and every fault of a first line.                       *)
(***************************************************************************)
EXTENDS HeadsProperties

Hdr(name, value) == [name |-> name, value |-> value]

Plain(kind, lines) == [kind |-> kind, fault |-> "none", lines |-> lines]

Icap == Plain("icap", <<Hdr(1, 2)>>)
Req  == Plain("req", <<Hdr(2, 0), Hdr(1, 1)>>)
Res  == Plain("res", <<Hdr(1, 1)>>)
Many == <<Hdr(1, 0), Hdr(1, 0), Hdr(1, 0)>>

Good == {<<Icap>>, <<Icap, Req>>, <<Icap, Res>>, <<Icap, Req, Res>>,
         <<Icap, Plain("req", <<>>),
           Plain("res", <<Hdr(1, 0), Hdr(2, 1)>>)>>}

(* One head of it wrong.                                                   *)
Faulty(m) ==
    UNION {{[m EXCEPT ![n].lines = Many]} \cup
           {[m EXCEPT ![n].fault = f] : f \in FaultsOf[m[n].kind]}
              : n \in DOMAIN m}

MCMessages == Good \cup Faulty(<<Icap, Req, Res>>)
=============================================================================
