--------------------------- MODULE MCJsonlParser ---------------------------
(***************************************************************************)
(* Instances of JsonlParser for TLC: every document of at most n pieces of *)
(* a given set, for four such sets.                                        *)
(***************************************************************************)
EXTENDS JsonlParser

Documents(n, chunks) ==
    LET docs[k \in 0 .. n] ==
            IF k = 0 THEN {<<>>}
            ELSE docs[k - 1] \cup {doc \o chunk : doc \in docs[k - 1], chunk \in chunks}
    IN  docs[n]

\* Separators and scalars alone: every layout of blank lines.
FlatDocs == Documents(6, {<<"LF">>, <<"CR">>, <<"SP">>, <<"VL">>})

\* Arrays, whole, broken across lines and malformed.
ArrayDocs == Documents(6, {<<"LF">>, <<"VL">>, <<"OS">>, <<"CS">>, <<"CA">>})

\* Objects, whole, broken across lines and malformed, with an empty one and
\* the opening of a member each in one piece; and text that does not lex.
ObjectDocs ==
    Documents(5, {<<"LF">>, <<"VL">>, <<"OB", "ST", "CL">>, <<"CA", "ST", "CL">>,
                  <<"OB", "CB">>, <<"CB">>, <<"BD">>})

\* Whole records and the pieces that make a document go wrong, so that the
\* offending line comes after several good ones.
MixedDocs ==
    Documents(5, {<<"LF">>, <<"OS", "VL", "CA", "VL", "CS">>,
                  <<"OB", "ST", "CL", "OS", "VL">>, <<"CS", "CB">>, <<"VL">>})

EveryDoc == FlatDocs \cup ArrayDocs \cup ObjectDocs \cup MixedDocs
=============================================================================
