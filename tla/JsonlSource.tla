---------------------------- MODULE JsonlSource ----------------------------
(***************************************************************************)
(* The text of a JSON Lines document, as the plugin's grammar tells its    *)
(* characters apart, and the tokens the engine's lexer makes of it.        *)
(*                                                                         *)
(* A source is a sequence of lexemes.  "LF" and "CR" are single line       *)
(* characters; every other lexeme is one whole token, abstracted to its    *)
(* kind: "SP" a run of spaces or tabs, "VL" a number, true, false or null, *)
(* "ST" a string (which may also be a key), "BD" text the strict lexer     *)
(* refuses (a comment, a bare word, a malformed number), and the brackets, *)
(* comma and colon under the engine's token names.                         *)
(***************************************************************************)
EXTENDS Naturals, Sequences, FiniteSets, FiniteSetsExt, SequencesExt

LineChar == {"LF", "CR"}

Lexeme == LineChar \cup {"SP", "VL", "ST", "BD", "OB", "CB", "OS", "CS", "CA", "CL"}

Tins == (Lexeme \ LineChar) \cup {"LN", "ZZ"}

(***************************************************************************)
(* The tokens the parser skips between meaningful ones: the default set    *)
(* is #SP, #LN, #CM, and the plugin drops #LN from it.                     *)
(***************************************************************************)
DefaultIGNORE == {"SP", "LN", "CM"}

IGNORE == {"SP", "CM"}

Tin(c) == IF c \in LineChar THEN "LN" ELSE c

(***************************************************************************)
(* The line matcher scans a RUN of line characters into one #LN, so only   *)
(* the first character of a run starts a token.                            *)
(***************************************************************************)
StartsToken(src, i) ==
    ~ (src[i] \in LineChar /\ i > 1 /\ src[i - 1] \in LineChar)

\* The row the engine reports for lexeme i: it counts "\n" and nothing else.
RowOf(src, i) == 1 + Cardinality({k \in 1 .. i - 1 : src[k] = "LF"})

(***************************************************************************)
(* The significant tokens of src, in order.  `at' is the lexeme a token    *)
(* starts at.                                                              *)
(***************************************************************************)
Significant(src, i) == StartsToken(src, i) /\ Tin(src[i]) \notin IGNORE

Token(src, i) == [tin |-> Tin(src[i]), at |-> i, row |-> RowOf(src, i)]

Lex(src) ==
    LET upTo[i \in 0 .. Len(src)] ==
            IF i = 0 THEN <<>>
            ELSE IF Significant(src, i) THEN Append(upTo[i - 1], Token(src, i))
            ELSE upTo[i - 1]
    IN  upTo[Len(src)]
=============================================================================
