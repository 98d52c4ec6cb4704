------------------------------- MODULE Engine -------------------------------
(***************************************************************************)
(* An engine instance, as far as installing plugins goes: the alternates   *)
(* of its rules by the tag they carry, and the options that decide what a  *)
(* record may contain.  The engine, @tabnas/json and the relaxed grammar   *)
(* are other packages; jsonl is ts/src/jsonl.ts:158-223, and the same in   *)
(* go/jsonl.go and rs/src/lib.rs.                                          *)
(***************************************************************************)
EXTENDS Sequences

Tags == {"json", "jsonic", "jsonl"}

\* An option nobody set has the engine's default, which is the relaxed one.
Switches == {"unset", "on", "off"}

Engine ==
    [alts : SUBSET Tags, include : SUBSET Tags, start : {"val", "jsonl"},
     text : Switches, comment : Switches, quotes : {"unset", "strict", "relaxed"},
     skipsLN : BOOLEAN]

Bare ==
    [alts |-> {}, include |-> Tags, start |-> "val",
     text |-> "unset", comment |-> "unset", quotes |-> "unset", skipsLN |-> TRUE]

(***************************************************************************)
(* An include filter drops the alternates it does not name, those that are *)
(* there when it is set and those that are added under it, for good.       *)
(***************************************************************************)
WithInclude(e, tags) == [e EXCEPT !.include = tags, !.alts = @ \cap tags]

WithAlts(e, tag) == [e EXCEPT !.alts = @ \cup ({tag} \cap e.include)]

\* @tabnas/json: strict options, and its own alternates alone.
Json(e) ==
    WithAlts(WithInclude([e EXCEPT !.text = "off", !.comment = "off",
                                   !.quotes = "strict"], {"json"}), "json")

\* The JSON rules alone, without its options.
RegisterJsonGrammar(e) == WithAlts(e, "json")

\* A relaxed grammar: bare text, comments and other quotes.  It is a
\* superset of JSON, in alternates of its own.
Jsonic(e) ==
    LET relaxed == [e EXCEPT !.text = "on", !.comment = "on", !.quotes = "relaxed"]
    IN  WithAlts(WithAlts(WithInclude(relaxed, Tags), "json"), "jsonic")

-----------------------------------------------------------------------------
\* Slip: the tags the base chose are left as they are.
JsonlOptionsNarrow(e) == [e EXCEPT !.skipsLN = FALSE, !.start = "jsonl"]

JsonlOptions(e) ==
    WithInclude([e EXCEPT !.skipsLN = FALSE, !.start = "jsonl"], {"json", "jsonl"})

RegisterJsonlGrammar(e) == WithAlts(e, "jsonl")

\* A rule of that name is there, whoever defined it.
HasVal(e) == e.alts \cap {"json", "jsonic"} # {}

\* The options that let a record be more than JSON.
Relaxed(e) ==
    {o \in {"text.lex", "comment.lex"} :
        (IF o = "text.lex" THEN e.text ELSE e.comment) # "off"}
    \cup (IF e.quotes # "strict" THEN {"string.chars"} ELSE {})

\* Slip: the base must be as the JSON plugin left it.
StrictJsonBaseUntouched(e) == HasVal(e) /\ Relaxed(e) = {} /\ e.include = {"json"}

StrictJsonBase(e) == HasVal(e) /\ Relaxed(e) = {}

\* Slip: the alternates come before the options that let them in.
InstalledGrammarFirst(e) == JsonlOptions(RegisterJsonlGrammar(e))

\* What jsonl makes of an engine whose base it accepts.
Installed(e) == RegisterJsonlGrammar(JsonlOptions(e))

-----------------------------------------------------------------------------
(***************************************************************************)
(* What an engine does with a document, by what the document is about.     *)
(***************************************************************************)
Documents ==
    {"records", "split value", "bare text", "comment", "other quotes", "trailing comma"}

ParsesLines(e) == e.start = "jsonl" /\ {"json", "jsonl"} \subseteq e.alts

\* What lets a document of this kind through.
Lets(e, d) ==
    CASE d = "records" -> ~e.skipsLN
      [] d = "split value" -> e.skipsLN
      [] d = "bare text" -> e.text # "off"
      [] d = "comment" -> e.comment # "off"
      [] d = "other quotes" -> e.quotes # "strict"
      [] d = "trailing comma" -> "jsonic" \in e.alts

Accepts(e, d) == ParsesLines(e) /\ Lets(e, d)

\* An engine for JSON Lines, and for nothing more.
StrictLines(e) == \A d \in Documents : Accepts(e, d) <=> d = "records"
=============================================================================
