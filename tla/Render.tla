------------------------------- MODULE Render -------------------------------
(***************************************************************************)
(* alchemy/render.alc: a tree's events written as JSON Lines, one element  *)
(* of the root array per line.  The state is the stack of open containers, *)
(* one marker each, and the text goes out in records: a host's writer      *)
(* holds what it is given until the step says :record-end.                 *)
(*                                                                         *)
(* The events come from a host and may be no tree's.  The text is the      *)
(* lexemes of JsonlSource, so what is written can be read.                 *)
(***************************************************************************)
EXTENDS JsonlSource

CONSTANT MaxText      \* bound: the lexemes written

\* An assumption of the constants.
MaxTextIsNat == MaxText \in Nat

VARIABLES
    s,             \* the markers of the open containers, the root's first
    out,           \* the text written
    whole,         \* how much of it is in whole records
    elements,      \* history: the values the root array has begun
    status         \* "running", "failed" or "done"

vars == <<s, out, whole, elements, status>>

Markers == {"lines-open", "lines", "object-open", "object", "member",
            "array-open", "array", "root-done"}

\* jsonl-top: the top marker, or "none" before the root value.
JsonlTop(st) == IF st = <<>> THEN "none" ELSE Last(st)

JsonlMark(marker, st) == Append(Front(st), marker)

\* A value is complete: its member's object waits for the next key.
JsonlDone(st) ==
    CASE st = <<>> -> <<"root-done">>
      [] JsonlTop(st) = "member" -> JsonlMark("object", st)
      [] OTHER -> st

\* Slip: no comma before an item that follows another.
JsonlLeadNone(st) == <<>>

JsonlLead(st) == IF JsonlTop(st) = "array" THEN <<"CA">> ELSE <<>>

EndsLine(st) == JsonlTop(st) \in {"lines-open", "lines"}

\* A line feed after each element of the root, and only there.
JsonlTail(st) == IF EndsLine(st) THEN <<"LF">> ELSE <<>>

\* Slip: the marker is added, not changed, so the state grows with each item.
JsonlOpenedAdds(st) ==
    CASE JsonlTop(st) = "array-open" -> Append(st, "array")
      [] JsonlTop(st) = "lines-open" -> JsonlMark("lines", st)
      [] OTHER -> st

\* A container that waited for its first value has it.
JsonlOpened(st) ==
    CASE JsonlTop(st) = "array-open" -> JsonlMark("array", st)
      [] JsonlTop(st) = "lines-open" -> JsonlMark("lines", st)
      [] OTHER -> st

WaitsForKey(st) == JsonlTop(st) \in {"object-open", "object"}

WaitsForItem(st) ==
    JsonlTop(st) \in {"lines-open", "lines", "array-open", "array", "member"}

-----------------------------------------------------------------------------
Init ==
    /\ s = <<>>
    /\ out = <<>>
    /\ whole = 0
    /\ elements = 0
    /\ status = "running"

\* The step's transition: another stack, and text after the text so far.
To(st, text) ==
    /\ Len(out) + Len(text) <= MaxText
    /\ s' = st
    /\ out' = out \o text
    /\ UNCHANGED status

\* jsonl-ended: an element of the root ends its record.
Ended(st) == whole' = IF EndsLine(st) THEN Len(out') ELSE whole

Counted == elements' = IF EndsLine(s) THEN elements + 1 ELSE elements

Running == status = "running"

(***************************************************************************)
(* An event no tree has here is a PROTOCOL_ORDER_ERROR, and a root that is *)
(* no array TARGET_VALUE_UNREPRESENTABLE: either ends the run.             *)
(***************************************************************************)
Refuse == status' = "failed" /\ UNCHANGED <<s, out, whole, elements>>

ArrayStart ==
    /\ Running
    /\ \/ /\ s = <<>>
          /\ To(<<"lines-open">>, <<>>)
          /\ whole' = Len(out)
          /\ UNCHANGED elements
       \/ /\ WaitsForItem(s)
          /\ To(Append(JsonlOpened(s), "array-open"), JsonlLead(s) \o <<"OS">>)
          /\ Counted
          /\ UNCHANGED whole
       \/ WaitsForKey(s) /\ Refuse
       \/ JsonlTop(s) = "root-done" /\ Refuse

ObjectStart ==
    /\ Running
    /\ \/ /\ WaitsForItem(s)
          /\ To(Append(JsonlOpened(s), "object-open"), JsonlLead(s) \o <<"OB">>)
          /\ Counted
          /\ UNCHANGED whole
       \/ ~ WaitsForItem(s) /\ Refuse

\* jsonl-member.
Key ==
    /\ Running
    /\ \/ /\ WaitsForKey(s)
          /\ To(JsonlMark("member", s),
                IF JsonlTop(s) = "object" THEN <<"CA", "ST", "CL">> ELSE <<"ST", "CL">>)
          /\ UNCHANGED <<whole, elements>>
       \/ ~ WaitsForKey(s) /\ Refuse

(***************************************************************************)
(* A string is quoted, which leaves no line break in it; a number that is  *)
(* not finite is null; the rest go by name.                                *)
(***************************************************************************)
JsonlScalar(kind) == IF kind = "string" THEN "ST" ELSE "VL"

Scalar ==
    /\ Running
    /\ \/ /\ WaitsForItem(s)
          /\ \E kind \in {"null", "boolean", "finite", "not finite", "string"} :
                To(JsonlDone(JsonlOpened(s)),
                   JsonlLead(s) \o <<JsonlScalar(kind)>> \o JsonlTail(s))
          /\ Ended(s)
          /\ Counted
       \/ ~ WaitsForItem(s) /\ Refuse

\* A nested container ends: its text, and its line if it is an element.
Close(bracket) ==
    /\ To(JsonlDone(Front(s)), <<bracket>> \o JsonlTail(Front(s)))
    /\ Ended(Front(s))

ObjectEnd ==
    /\ Running
    /\ \/ WaitsForKey(s) /\ Close("CB") /\ UNCHANGED elements
       \/ ~ WaitsForKey(s) /\ Refuse

WaitsForElement(st) == JsonlTop(st) \in {"array-open", "array"}

\* Slip: an empty root array writes nothing.
ArrayEndEmptyText ==
    /\ Running
    /\ \/ EndsLine(s) /\ To(<<"root-done">>, <<>>) /\ UNCHANGED whole
       \/ WaitsForElement(s) /\ Close("CS")
    /\ UNCHANGED elements

\* An empty root array is one line feed: the blank document.
ArrayEnd ==
    /\ Running
    /\ \/ /\ EndsLine(s)
          /\ To(<<"root-done">>, IF JsonlTop(s) = "lines-open" THEN <<"LF">> ELSE <<>>)
          /\ UNCHANGED <<whole, elements>>
       \/ WaitsForElement(s) /\ Close("CS") /\ UNCHANGED elements
       \/ ~ EndsLine(s) /\ ~ WaitsForElement(s) /\ Refuse

\* The events end: only after the root array has.  What is held goes out.
JsonlFinish ==
    /\ Running
    /\ IF JsonlTop(s) = "root-done"
       THEN /\ status' = "done"
            /\ whole' = Len(out)
            /\ UNCHANGED <<s, out, elements>>
       ELSE Refuse

Next ==
    \/ ArrayStart \/ ObjectStart \/ Key \/ Scalar \/ ObjectEnd \/ ArrayEnd
    \/ JsonlFinish

Spec == Init /\ [][Next]_vars

-----------------------------------------------------------------------------
(* Properties.                                                             *)

Read == INSTANCE JsonLines WITH src <- out, records <- <<>>, verdict <- status

TypeOK ==
    /\ s \in Seq(Markers)
    /\ out \in Seq(Lexeme) /\ Len(out) <= MaxText
    /\ whole \in 0 .. Len(out)
    /\ elements \in Nat
    /\ status \in {"running", "failed", "done"}

\* The lines of a text, each of which must be one JSON value.
AllJson(text) ==
    \A l \in ToSet(Read!LinesOf(text)) : Read!IsJson(Read!LineText(text, l))

(***************************************************************************)
(* What is in whole records is whole lines of JSON, one per element that   *)
(* has ended, even of a run that fails part way.                           *)
(***************************************************************************)
OpenElement == IF Len(s) > 1 THEN 1 ELSE 0

WholeLines ==
    LET text == SubSeq(out, 1, whole)
    IN  /\ text # <<>> => Last(text) = "LF"
        /\ AllJson(text)
        /\ Len(Read!LinesOf(text)) = elements - OpenElement

(***************************************************************************)
(* A document that is done reads back as the array it was written from:    *)
(* as many records as there were elements, and never the empty text, which *)
(* the reader refuses.                                                     *)
(***************************************************************************)
ReadsBack ==
    status = "done" =>
        /\ out # <<>> /\ whole = Len(out)
        /\ AllJson(out)
        /\ Len(Read!LinesOf(out)) = elements

(***************************************************************************)
(* The state grows with nesting alone: a marker for the root and one for   *)
(* each bracket still open, whatever the width.                            *)
(***************************************************************************)
Written(text, S) == Cardinality({i \in DOMAIN text : text[i] \in S})

StateIsNesting ==
    s # <<>> => Len(s) = 1 + Written(out, {"OB", "OS"}) - Written(out, {"CB", "CS"})

(***************************************************************************)
(* The inductive invariant behind it.  Nothing is written before the root  *)
(* array begins; its marker is the first and nothing else's; and once the  *)
(* array has ended, it is the only one.                                    *)
(***************************************************************************)
RootMarkers == {"lines-open", "lines", "root-done"}

Rooted(st) ==
    /\ \A i \in DOMAIN st : st[i] \in RootMarkers <=> i = 1
    /\ st # <<>> /\ st[1] = "root-done" => Len(st) = 1

RootIsFirst == Rooted(s) /\ (s = <<>> => out = <<>>)

IInv == TypeOK /\ RootIsFirst /\ StateIsNesting
=============================================================================
