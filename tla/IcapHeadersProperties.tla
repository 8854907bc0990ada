----------------------- MODULE IcapHeadersProperties ------------------------
(***************************************************************************)
(* What the headers of an ICAP head say, whatever way they are split,      *)
(* spelled and spaced, and that parse_icap_headers takes just that.        *)
(***************************************************************************)
EXTENDS IcapHeaders, SequencesExt

(* Every variable keeps to its type, and i stays in the value or in the    *)
(* list it counts through: no unchecked access is out of bounds.           *)
TypeOK ==
    /\ method \in Methods /\ read \in Seq(Fields) /\ pc \in Locations
    /\ i \in Nat \ {0} /\ delimiter \in BOOLEAN
    /\ list \in Seq(Entities) /\ preview \in Option(Nat)
    /\ allow \in Option(SUBSET AllowCodes) /\ nullBody \in BOOLEAN
    /\ result \in {"none", "ok", "error"}
    /\ pc # "done" => result = "none"
    /\ pc = "entity" => read # <<>> /\ i <= Len(LastValue) + 1
    /\ pc = "order"  => i <= Len(list)

-----------------------------------------------------------------------------
(* Headers of one name are one header, its values joined by commas.  Here  *)
(* each value has a comma before it, so that                               *)
(*   entities = *( comma name equals offset ), blanks anywhere             *)

Kept(s, S) ==
    FlattenSeq([n \in DOMAIN s |-> IF s[n] \in S THEN <<s[n]>> ELSE <<>>])

Under(word) == Kept(read, {h \in Fields : Lower[h.name] = word})

IsBlank(v) == \A p \in DOMAIN v : v[p] \in Blanks

Joined(hs) == FlattenSeq([n \in DOMAIN hs |-> <<"comma">> \o hs[n].value])

NoBlanks(v) == Kept(v, Tokens \ Blanks)

(* A blank Encapsulated header adds nothing, but must not be the first.    *)
NotBlank == {h \in Fields : ~ IsBlank(h.value)}

EntityTokens == NoBlanks(Joined(Kept(Under("encapsulated"), NotBlank)))

IsEntityList(t) ==
    /\ Len(t) % 4 = 0
    /\ \A k \in 1 .. Len(t) \div 4 :
          /\ t[4 * k - 3] = "comma" /\ t[4 * k - 1] = "equals"
          /\ t[4 * k - 2] \in HeaderKinds \cup BodyKinds
          /\ t[4 * k] \in Digits /\ Number[t[4 * k]] <= UsizeMax

EntityList(t) ==
    [k \in 1 .. Len(t) \div 4 |-> [kind |-> t[4 * k - 2],
                                   off |-> Number[t[4 * k]]]]

EncapsulatedOk ==
    /\ Under("encapsulated") # <<>> =>
          ~ IsBlank(Under("encapsulated")[1].value)
    /\ IsEntityList(EntityTokens)

(* A code counts where it is a word of its own.                            *)
CodesIn(t) ==
    {CodeOf[t[p]] : p \in {q \in DOMAIN t :
        /\ t[q] \in DOMAIN CodeOf
        /\ \A n \in {q - 1, q + 1} \cap DOMAIN t : t[n] \in {"ws", "comma"}}}

PreviewOk ==
    \A n \in DOMAIN Under("preview") :
        DecodePreview(Under("preview")[n].value) # {}

(* The request as module RequestContext has it.                            *)
AsRequest ==
    [method  |-> method,
     hdrsOk  |-> EncapsulatedOk /\ PreviewOk,
     ee      |-> IF EncapsulatedOk THEN EntityList(EntityTokens) ELSE <<>>,
     preview |-> IF Under("preview") = <<>> THEN {}
                 ELSE DecodePreview(Last(Under("preview")).value),
     allow   |-> IF Under("allow") = <<>> THEN {}
                 ELSE {CodesIn(Joined(Under("allow")))}]

-----------------------------------------------------------------------------
(* The loop accepts the headers just when they say something, all together *)
(* and in the order of RequestContext's IcapHeadersOk: neither the         *)
(* number of Encapsulated headers, nor the spelling of their name, nor     *)
(* the headers between them, nor blanks, nor the place of the first        *)
(* mistake make a difference.                                              *)
AcceptsWhatIsSaid ==
    pc = "done" => (result = "ok" <=> IcapHeadersOk(AsRequest))

(* What it then leaves in the context is what RequestContext's             *)
(* ParseIcapHeaders puts there, which module Connection relies on: the     *)
(* list of all Encapsulated headers, the last Preview, every code allowed. *)
LeavesWhatIsSaid ==
    result = "ok" =>
        [NewCtx EXCEPT !.ee = list, !.preview = preview,
                       !.nullBody = nullBody,
                       !.allow = IF allow = {} THEN @ ELSE Value(allow)]
            = ParseIcapHeaders(NewCtx, AsRequest)

(* In an accepted list the last entity is a body and no other begins       *)
(* behind it, so that the offset of the last one, which                    *)
(* alloc_buffer_for_headers waits for, covers all HTTP heads, in whichever *)
(* Encapsulated header they were listed.                                   *)
BodyIsFarthest ==
    result = "ok" /\ list # <<>> =>
        /\ LastEntity(list).kind \in BodyKinds
        /\ \A n \in 1 .. Len(list) : list[n].off <= LastEntity(list).off

(* No call of parse_ee leaves the position where it was, for then the loop *)
(* of parse_encapsulated_list_ would hang the task, and its worker with    *)
(* it; the order check moves on in the same way.                           *)
EveryTurnAdvances ==
    [][(pc \in {"entity", "order"} /\ pc' = pc) => (i' > i)]_vars

-----------------------------------------------------------------------------
(* The inductive invariant behind BodyIsFarthest.  What the order check    *)
(* has passed of the list is in order; between headers, all of it is.      *)
OrderedUpTo(n) ==
    \A k, l \in 1 .. n : k <= l => list[k].off <= list[l].off

OrderInv ==
    /\ pc = "order"  => OrderedUpTo(i)
    /\ pc = "header" => OrderedUpTo(Len(list))
    /\ result = "ok" =>
          /\ OrderedUpTo(Len(list))
          /\ list # <<>> => LastEntity(list).kind \in BodyKinds
=============================================================================
