---------------------------- MODULE MCConnection ----------------------------
(***************************************************************************)
(* Small instances of Connection for TLC.  Lengths are a few bytes, so     *)
(* that every way of cutting a request into reads is tried; RBufCap is     *)
(* smaller than a request, so that rbuf grows and moves on the way.        *)
(***************************************************************************)
EXTENDS ConnectionRefinement

Ent(kind, off) == [kind |-> kind, off |-> off]

OptionsReq ==
    [method |-> "OPTIONS", head |-> 2, hdrsOk |-> TRUE,
     ee |-> <<Ent("null-body", 0)>>, preview |-> {}, allow |-> {},
     reqLen |-> 0, resLen |-> 0, entOk |-> TRUE, body |-> "none", line |-> 1]

ReqmodNull ==
    [OptionsReq EXCEPT !.method = "REQMOD", !.reqLen = 2,
                       !.ee = <<Ent("req-hdr", 0), Ent("null-body", 2)>>]

ReqmodBody ==
    [ReqmodNull EXCEPT !.ee = <<Ent("req-hdr", 0), Ent("req-body", 2)>>,
                       !.preview = {0}, !.allow = {{204, 206}},
                       !.body = "zero"]

RespmodNull ==
    [OptionsReq EXCEPT !.method = "RESPMOD", !.resLen = 1,
                       !.ee = <<Ent("res-hdr", 0), Ent("null-body", 1)>>]

RespmodBoth ==
    [OptionsReq EXCEPT !.method = "RESPMOD", !.reqLen = 1, !.resLen = 1,
                       !.ee = <<Ent("req-hdr", 0), Ent("res-hdr", 1),
                                Ent("res-body", 2)>>,
                       !.preview = {0}, !.allow = {{206}}, !.body = "zero"]

(* The offset of an HTTP head is not used, and only has to be in order.    *)
RespmodLoose == [RespmodBoth EXCEPT !.ee[2].off = 0]

(* Requests the server refuses, each for another reason.                   *)
BadHead      == [OptionsReq EXCEPT !.method = "BAD"]
OptionsAllow == [OptionsReq EXCEPT !.ee = <<>>, !.allow = {{204, 206}}]
NoAllow      == [ReqmodBody EXCEPT !.allow = {}]
NoPreview    == [ReqmodBody EXCEPT !.preview = {}]
DataPreview  == [ReqmodBody EXCEPT !.body = "data"]
BadCrlf      == [ReqmodBody EXCEPT !.body = "badcrlf"]
BadHttpHead  == [ReqmodNull EXCEPT !.entOk = FALSE]
NoEntities   == [OptionsReq EXCEPT !.method = "REQMOD", !.ee = <<>>]
Disorder     == [RespmodBoth EXCEPT !.ee[2].off = 3]
OptBody      == [OptionsReq EXCEPT !.ee = <<Ent("opt-body", 0)>>]

(* Requests whose Encapsulated header does not tell where the body is.     *)
UnderOffset  == [ReqmodBody EXCEPT !.ee[2].off = 0]
OverOffset   == [ReqmodBody EXCEPT !.ee[2].off = 6]
HugeOffset   == [ReqmodBody EXCEPT !.ee[2].off = 98]
UnderNull    == [ReqmodNull EXCEPT !.ee[2].off = 1]
OverNull     == [ReqmodNull EXCEPT !.ee[2].off = 5]
MissingBody  == [ReqmodBody EXCEPT !.body = "none"]
HiddenBody   == [ReqmodNull EXCEPT !.body = "zero"]

MCServed   == {OptionsReq, OptionsAllow, ReqmodNull, ReqmodBody, RespmodNull,
               RespmodBoth, RespmodLoose}
MCRefused  == {BadHead, NoAllow, NoPreview, DataPreview, BadCrlf, BadHttpHead,
               NoEntities, Disorder, OptBody}
MCHonest   == MCServed \cup MCRefused
MCOneByOne == MCHonest \cup {OverOffset, HugeOffset}
MCMisled   == {OptionsReq, ReqmodBody, UnderOffset, OverOffset, HugeOffset,
               UnderNull, OverNull, MissingBody, HiddenBody}
MCMixed    == {OptionsReq, ReqmodBody, RespmodBoth, DataPreview, MissingBody}
MCPipeline == {OptionsReq, ReqmodBody, RespmodNull, NoAllow}

-----------------------------------------------------------------------------
NoReply ==
    [panics |-> FALSE, err |-> FALSE, decision |-> {}, icapStatus |-> {},
     httpStatus |-> {}, icapHdrs |-> {}, addsHttp |-> FALSE]

Panics   == [NoReply EXCEPT !.panics = TRUE]
Fails    == [NoReply EXCEPT !.err = TRUE]
Modest   == [NoReply EXCEPT !.decision = {"NoAdaptation"},
                            !.icapStatus = {404}, !.icapHdrs = {"Service"}]
Appends  == [NoReply EXCEPT !.decision = {"AppendHeaders"}, !.addsHttp = TRUE]
Replaces == [NoReply EXCEPT !.decision = {"CustomResponse"},
                            !.httpStatus = {307}, !.addsHttp = TRUE]
Forgets  == [NoReply EXCEPT !.decision = {"CustomResponse"}]

MCReplies == {NoReply, Panics, Fails, Modest, Appends, Replaces, Forgets}
MCFew     == {Modest, Appends}
=============================================================================
