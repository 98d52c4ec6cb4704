--------------------------- MODULE JsonlParserProofs ---------------------------
(***************************************************************************)
(* Theorems about JsonlParser, for every set of documents of any length.   *)
(***************************************************************************)
EXTENDS JsonlParser, TLAPS, FiniteSetTheorems, SequenceTheorems, Recursion

-----------------------------------------------------------------------------
(* The tokens.                                                             *)

\* Rows are numbers.
LEMMA RowsAreNumbers ==
    ASSUME NEW doc \in Seq(Lexeme), NEW i \in Nat
    PROVE  RowOf(doc, i) \in Nat
  <1>1. IsFiniteSet(1 .. i - 1)
    BY FS_Interval
  <1>2. IsFiniteSet({k \in 1 .. i - 1 : doc[k] = "LF"})
    BY <1>1, FS_Subset
  <1>. QED
    BY <1>2, FS_CardinalityType DEF RowOf

\* What a token is; none of them is the end of the source.
Tokens(doc) == [tin : Tins \ {"ZZ"}, at : 1 .. Len(doc), row : Nat]

\* The lexer makes a sequence of tokens, none of which is the end.
LEMMA LexMakesTokens ==
    ASSUME NEW doc \in Seq(Lexeme)
    PROVE  Lex(doc) \in Seq(Tokens(doc))
  <1>. DEFINE N == Len(doc)
              S == Seq(Tokens(doc))
              More(i, x) == IF Significant(doc, i) THEN Append(x, Token(doc, i)) ELSE x
              Steps(f) == f = [i \in 0 .. N |-> IF i = 0 THEN <<>>
                                                ELSE IF Significant(doc, i)
                                                THEN Append(f[i - 1], Token(doc, i))
                                                ELSE f[i - 1]]
              upTo == CHOOSE f : Steps(f)
              F == [i \in 1 .. N |-> [x \in S |-> More(i, x)]]
  <1>1. N \in Nat /\ <<>> \in S
    OBVIOUS
  <1>2. \A i \in 1 .. N : Token(doc, i) \in Tokens(doc)
    <2>. SUFFICES ASSUME NEW i \in 1 .. N
                  PROVE  Token(doc, i) \in Tokens(doc)
      OBVIOUS
    <2>1. doc[i] \in Lexeme /\ i \in Nat /\ i \in 1 .. Len(doc)
      BY ElementOfSeq
    <2>2. Tin(doc[i]) \in Tins \ {"ZZ"}
      BY <2>1 DEF Tin, Tins, Lexeme, LineChar
    <2>3. RowOf(doc, i) \in Nat
      BY <2>1, RowsAreNumbers
    <2>. QED
      BY <2>1, <2>2, <2>3 DEF Token, Tokens
  <1>3. \A i \in 1 .. N : \A x \in S : More(i, x) \in S
    <2>. HIDE DEF N
    <2>. QED
      BY <1>2
  <1>4. F \in [1 .. N -> [S -> S]]
    <2>. HIDE DEF N, S, More
    <2>. QED
      BY <1>3
  <1>5. PICK h \in [0 .. N -> S] : TakesSteps(h, N, <<>>, F)
    <2>. HIDE DEF N, S, F
    <2>. QED
      BY <1>1, <1>4, RecursionDefines
  <1>6. Steps(h)
    <2>1. \A i \in 1 .. N : h[i] = More(i, h[i - 1])
      <3>1. \A i \in 1 .. N : i - 1 \in 0 .. N
        BY <1>1
      <3>. HIDE DEF N, S, More
      <3>. QED
        BY <1>5, <3>1 DEF TakesSteps
    <2>2. \A i \in 0 .. N : i # 0 => i \in 1 .. N
      BY <1>1
    <2>3. h = [i \in 0 .. N |-> h[i]] /\ h[0] = <<>>
      BY <1>5 DEF TakesSteps
    <2>. HIDE DEF N, S, F
    <2>. QED
      BY <2>1, <2>2, <2>3
  <1>7. Steps(upTo)
    <2>. HIDE DEF Steps
    <2>. QED
      BY <1>6
  <1>8. Lex(doc) = upTo[N]
    BY DEF Lex
  <1>. HIDE DEF upTo
  <1>9. \A i \in 0 .. N : upTo[i] = IF i = 0 THEN <<>> ELSE More(i, upTo[i - 1])
    BY <1>7
  <1>. HIDE DEF N, S, F, Steps, More
  <1>10. {i \in 0 .. N : upTo[i] \in S} = 0 .. N
    <2>. DEFINE P == {i \in 0 .. N : upTo[i] \in S}
    <2>1. 0 \in P
      BY <1>1, <1>9
    <2>2. ASSUME NEW i \in 0 .. N - 1, i \in P
          PROVE  i + 1 \in P
      <3>1. i + 1 \in 1 .. N /\ i + 1 \in 0 .. N /\ i + 1 # 0 /\ i + 1 - 1 = i
        BY <1>1
      <3>2. upTo[i + 1] = More(i + 1, upTo[i])
        BY <1>9, <3>1
      <3>. QED
        BY <1>3, <2>2, <3>1, <3>2
    <2>3. P \in SUBSET (0 .. N)
      OBVIOUS
    <2>. HIDE DEF P
    <2>4. P = 0 .. N
      BY <1>1, <2>1, <2>2, <2>3, UpTo
    <2>. QED
      BY <2>4 DEF P
  <1>11. N \in 0 .. N
    BY <1>1
  <1>. QED
    BY <1>8, <1>10, <1>11 DEF S

-----------------------------------------------------------------------------
(* Reading on.                                                             *)

\* The least of some numbers is one of them, and of two the lesser.
LEMMA MinIsOne ==
    /\ \A T : T \subseteq Nat /\ T # {} => Min(T) \in T
    /\ \A a, b \in Nat : Min({a, b}) = IF a <= b THEN a ELSE b
  <1>1. ASSUME NEW T, T \subseteq Nat, T # {}
        PROVE  Min(T) \in T
    BY <1>1, LeastExists DEF Min
  <1>2. ASSUME NEW a \in Nat, NEW b \in Nat
        PROVE  Min({a, b}) = IF a <= b THEN a ELSE b
    BY DEF Min
  <1>. QED
    BY <1>1, <1>2

\* Of the numbers below the next one, one more may be among some.
LEMMA CountNext ==
    ASSUME NEW K, NEW p \in Nat, p > 0
    PROVE  /\ Cardinality({k \in 1 .. p - 1 : k \in K}) \in Nat
           /\ Cardinality({k \in 1 .. p + 1 - 1 : k \in K})
                 = Cardinality({k \in 1 .. p - 1 : k \in K}) + (IF p \in K THEN 1 ELSE 0)
  <1>. DEFINE C == {k \in 1 .. p - 1 : k \in K}
              D == {k \in 1 .. p + 1 - 1 : k \in K}
  <1>1. IsFiniteSet(C)
    <2>1. IsFiniteSet(1 .. p - 1)
      BY FS_Interval
    <2>. QED
      BY <2>1, FS_Subset
  <1>2. D = IF p \in K THEN C \cup {p} ELSE C
    OBVIOUS
  <1>3. p \notin C
    OBVIOUS
  <1>. HIDE DEF C, D
  <1>4. Cardinality(C) \in Nat
    BY <1>1, FS_CardinalityType
  <1>5. Cardinality(D) = Cardinality(C) + (IF p \in K THEN 1 ELSE 0)
    <2>1. Cardinality(C \cup {p}) = Cardinality(C) + 1
      BY <1>1, <1>3, FS_AddElement
    <2>2. CASE p \in K
      BY <1>2, <2>1, <2>2
    <2>3. CASE p \notin K
      BY <1>2, <1>4, <2>3
    <2>. QED
      BY <2>2, <2>3
  <1>. QED
    BY <1>4, <1>5 DEF C, D

\* How deep the tokens before p leave the brackets.
Depth(p) ==
    LET read(S) == Cardinality({k \in 1 .. p - 1 : k <= Len(toks) /\ toks[k].tin \in S})
    IN  read({"OB", "OS"}) - read({"CB", "CS"})

Deeper(tin) ==
    CASE tin \in {"OB", "OS"} -> 1
      [] tin \in {"CB", "CS"} -> 0 - 1
      [] OTHER -> 0

\* Reading a token, the depth changes by what the token opens or closes.
LEMMA DepthNext ==
    ASSUME toks \in Seq(Tokens(src)), NEW p \in Nat, p > 0
    PROVE  Depth(p) \in Int /\ Depth(p + 1) = Depth(p) + Deeper(TinAt(p))
  <1>. DEFINE K(S) == {k \in 1 .. Len(toks) : toks[k].tin \in S}
              R(S, q) == Cardinality({k \in 1 .. q - 1 : k \in K(S)})
  <1>1. ASSUME NEW q \in Nat, q > 0
        PROVE  Depth(q) = R({"OB", "OS"}, q) - R({"CB", "CS"}, q)
    <2>1. \A S : {k \in 1 .. q - 1 : k <= Len(toks) /\ toks[k].tin \in S}
                   = {k \in 1 .. q - 1 : k \in K(S)}
      BY <1>1
    <2>. HIDE DEF K
    <2>. QED
      BY <2>1 DEF Depth
  <1>2. \A S : /\ R(S, p) \in Nat
               /\ R(S, p + 1) = R(S, p) + (IF p \in K(S) THEN 1 ELSE 0)
    <2>. HIDE DEF K
    <2>. QED
      BY CountNext
  <1>3. p <= Len(toks) => TinAt(p) = toks[p].tin
    BY DEF TinAt
  <1>4. p > Len(toks) => TinAt(p) = "ZZ"
    BY DEF TinAt
  <1>5. /\ p \in K({"OB", "OS"}) <=> TinAt(p) \in {"OB", "OS"}
        /\ p \in K({"CB", "CS"}) <=> TinAt(p) \in {"CB", "CS"}
    BY <1>3, <1>4
  <1>6. p + 1 \in Nat /\ p + 1 > 0
    OBVIOUS
  <1>. HIDE DEF R, K
  <1>7. /\ Depth(p) = R({"OB", "OS"}, p) - R({"CB", "CS"}, p)
        /\ Depth(p + 1) = R({"OB", "OS"}, p + 1) - R({"CB", "CS"}, p + 1)
    BY <1>1, <1>6
  <1>8. /\ R({"OB", "OS"}, p) \in Nat /\ R({"CB", "CS"}, p) \in Nat
        /\ R({"OB", "OS"}, p + 1)
             = R({"OB", "OS"}, p) + (IF TinAt(p) \in {"OB", "OS"} THEN 1 ELSE 0)
        /\ R({"CB", "CS"}, p + 1)
             = R({"CB", "CS"}, p) + (IF TinAt(p) \in {"CB", "CS"} THEN 1 ELSE 0)
    BY <1>2, <1>5
  <1>. QED
    BY <1>7, <1>8 DEF Deeper

\* At the beginning none is open.
LEMMA DepthFirst == Depth(0) = 0 /\ Depth(1) = 0
  <1>1. \A p \in {0, 1} : \A S :
           {k \in 1 .. p - 1 : k <= Len(toks) /\ toks[k].tin \in S} = {}
    OBVIOUS
  <1>. QED
    BY <1>1, FS_EmptySet DEF Depth

\* What reading up to two tokens does.
LEMMA DepthAfter ==
    ASSUME toks \in Seq(Tokens(src)), NEW p \in 1 .. Len(toks) + 1
    PROVE  /\ p \in Nat /\ Depth(p) \in Int
           /\ TinAt(p) # "ZZ" => p <= Len(toks)
           /\ Min({p, Len(toks) + 1}) = p
           /\ LET q == Min({p + 1, Len(toks) + 1})
              IN  /\ q \in 1 .. Len(toks) + 1 /\ p <= q /\ (TinAt(p) # "ZZ" => p < q)
                  /\ Depth(q) = Depth(p) + Deeper(TinAt(p))
           /\ LET q == Min({p + 2, Len(toks) + 1})
              IN  /\ q \in 1 .. Len(toks) + 1 /\ p <= q
                  /\ Depth(q) = Depth(p) + Deeper(TinAt(p)) + Deeper(TinAt(p + 1))
  <1>1. Len(toks) \in Nat /\ p \in Nat /\ p > 0 /\ p <= Len(toks) + 1
    OBVIOUS
  <1>2. /\ Min({p, Len(toks) + 1}) = p
        /\ Min({p + 1, Len(toks) + 1}) = IF p <= Len(toks) THEN p + 1 ELSE p
        /\ Min({p + 2, Len(toks) + 1}) = IF p < Len(toks) THEN p + 2 ELSE Len(toks) + 1
    BY <1>1, MinIsOne
  <1>3. \A k \in Nat : k > Len(toks) => TinAt(k) = "ZZ" /\ Deeper(TinAt(k)) = 0
    BY <1>1 DEF TinAt, Deeper
  <1>4. Depth(p) \in Int /\ Depth(p + 1) = Depth(p) + Deeper(TinAt(p))
    BY <1>1, DepthNext
  <1>5. Depth(p + 2) = Depth(p + 1) + Deeper(TinAt(p + 1))
    <2>1. p + 1 \in Nat /\ p + 1 > 0 /\ p + 1 + 1 = p + 2
      BY <1>1
    <2>2. Depth(p + 1 + 1) = Depth(p + 1) + Deeper(TinAt(p + 1))
      BY <2>1, DepthNext
    <2>. QED
      BY <2>1, <2>2
  <1>6. Deeper(TinAt(p)) \in Int /\ Deeper(TinAt(p + 1)) \in Int
    BY DEF Deeper
  <1>7. Depth(Min({p + 1, Len(toks) + 1})) = Depth(p) + Deeper(TinAt(p))
    <2>1. CASE p <= Len(toks)
      BY <1>2, <1>4, <2>1
    <2>2. CASE p > Len(toks)
      BY <1>1, <1>2, <1>3, <1>4, <2>2
    <2>. QED
      BY <1>1, <2>1, <2>2
  <1>8. Depth(Min({p + 2, Len(toks) + 1})) = Depth(p) + Deeper(TinAt(p)) + Deeper(TinAt(p + 1))
    <2>1. CASE p < Len(toks)
      BY <1>2, <1>4, <1>5, <2>1
    <2>2. CASE p >= Len(toks)
      <3>1. Deeper(TinAt(p + 1)) = 0
        BY <1>1, <1>3, <2>2
      <3>2. CASE p = Len(toks)
        BY <1>1, <1>2, <1>4, <1>6, <2>2, <3>1, <3>2
      <3>3. CASE p = Len(toks) + 1
        BY <1>1, <1>2, <1>3, <1>4, <2>2, <3>1, <3>3
      <3>. QED
        BY <1>1, <2>2, <3>2, <3>3
    <2>. QED
      BY <1>1, <2>1, <2>2
  <1>. QED
    BY <1>1, <1>2, <1>3, <1>4, <1>7, <1>8

-----------------------------------------------------------------------------
(* The alternates.                                                         *)

Phases == {"open", "close"}

\* The alternates of each rule.
LEMMA RulesAre ==
    /\ RuleNames = {"jsonl", "record", "val", "map", "list", "pair", "elem"}
    /\ Rules["jsonl"] = JsonlRule
    /\ Rules["record"] = RecordRule
    /\ \A r \in {"val", "map", "list", "pair", "elem"} : Rules[r] = JsonRules[r]
  <1>1. DOMAIN JsonRules = {"val", "map", "list", "pair", "elem"}
    BY DEF JsonRules
  <1>. QED
    BY <1>1 DEF RuleNames, Rules

\* An alternate, by its fields.
Is(alt, s, b, a, p, r) == alt.s = s /\ alt.b = b /\ alt.a = a /\ alt.p = p /\ alt.r = r

\* Alternates, as they are written, have the fields one reads in them.
LEMMA AltFields ==
    /\ Is(Alt, <<>>, 0, "-", "-", "-")
    /\ \A s : Is(On(s), s, 0, "-", "-", "-")
    /\ \A s, x : /\ Is([On(s) EXCEPT !.a = x], s, 0, x, "-", "-")
                 /\ Is([On(s) EXCEPT !.b = x], s, x, "-", "-", "-")
                 /\ Is([On(s) EXCEPT !.p = x], s, 0, "-", x, "-")
                 /\ Is([On(s) EXCEPT !.r = x], s, 0, "-", "-", x)
    /\ \A s, x, y : /\ Is([On(s) EXCEPT !.b = x, !.p = y], s, x, "-", y, "-")
                    /\ Is([On(s) EXCEPT !.a = x, !.p = y], s, 0, x, y, "-")
                    /\ Is([On(s) EXCEPT !.a = x, !.r = y], s, 0, x, "-", y)
    /\ \A x, y : /\ Is([Alt EXCEPT !.p = x], <<>>, 0, "-", x, "-")
                 /\ Is([Alt EXCEPT !.a = x, !.p = y], <<>>, 0, x, y, "-")
  BY DEF Is, Alt, On, Nothing

\* An item of a list of them is one of those listed.
LEMMA ListedAre ==
    /\ \A w : \A i \in DOMAIN <<w>> : <<w>>[i] = w
    /\ \A w, x : \A i \in DOMAIN <<w, x>> : <<w, x>>[i] \in {w, x}
    /\ \A w, x, y : \A i \in DOMAIN <<w, x, y>> : <<w, x, y>>[i] \in {w, x, y}
    /\ \A w, x, y, z : \A i \in DOMAIN <<w, x, y, z>> : <<w, x, y, z>>[i] \in {w, x, y, z}
  OBVIOUS

\* The alternates of the rules that are the plugin's own.
LEMMA JsonlAlternates ==
    /\ \A i \in DOMAIN Rules["jsonl"]["open"] :
          LET alt == Rules["jsonl"]["open"][i]
          IN  \/ Is(alt, <<"ZZ">>, 0, "array", "-", "-")
              \/ Is(alt, <<"LN", "ZZ">>, 0, "array", "-", "-")
              \/ Is(alt, <<"LN">>, 0, "array", "record", "-")
              \/ Is(alt, <<>>, 0, "array", "record", "-")
    /\ \A i \in DOMAIN Rules["jsonl"]["close"] :
          Is(Rules["jsonl"]["close"][i], <<>>, 0, "-", "-", "-")
  <1>1. \A i \in DOMAIN JsonlRule.open :
           LET alt == JsonlRule.open[i]
           IN  \/ Is(alt, <<"ZZ">>, 0, "array", "-", "-")
               \/ Is(alt, <<"LN", "ZZ">>, 0, "array", "-", "-")
               \/ Is(alt, <<"LN">>, 0, "array", "record", "-")
               \/ Is(alt, <<>>, 0, "array", "record", "-")
    <2>. DEFINE w == [On(<<"ZZ">>)       EXCEPT !.a = "array"]
                x == [On(<<"LN", "ZZ">>) EXCEPT !.a = "array"]
                y == [On(<<"LN">>)       EXCEPT !.a = "array", !.p = "record"]
                z == [Alt                EXCEPT !.a = "array", !.p = "record"]
    <2>1. JsonlRule.open = <<w, x, y, z>>
      BY DEF JsonlRule
    <2>2. /\ Is(w, <<"ZZ">>, 0, "array", "-", "-")
          /\ Is(x, <<"LN", "ZZ">>, 0, "array", "-", "-")
          /\ Is(y, <<"LN">>, 0, "array", "record", "-")
          /\ Is(z, <<>>, 0, "array", "record", "-")
      BY AltFields
    <2>. HIDE DEF w, x, y, z
    <2>. QED
      BY <2>1, <2>2, ListedAre
  <1>2. \A i \in DOMAIN JsonlRule.close : Is(JsonlRule.close[i], <<>>, 0, "-", "-", "-")
    BY ListedAre, AltFields DEF JsonlRule
  <1>. QED
    BY <1>1, <1>2, RulesAre

\* Those of a record.
LEMMA RecordAlternates ==
    /\ \A i \in DOMAIN Rules["record"]["open"] :
          LET alt == Rules["record"]["open"][i]
          IN  \/ Is(alt, <<"LN", "ZZ">>, 0, "-", "-", "-")
              \/ Is(alt, <<"LN">>, 0, "-", "-", "record")
              \/ Is(alt, <<>>, 0, "-", "val", "-")
    /\ \A i \in DOMAIN Rules["record"]["close"] :
          LET alt == Rules["record"]["close"][i]
          IN  \/ Is(alt, <<"LN", "ZZ">>, 0, "push", "-", "-")
              \/ Is(alt, <<"LN">>, 0, "push", "-", "record")
              \/ Is(alt, <<"ZZ">>, 0, "push", "-", "-")
  <1>1. \A i \in DOMAIN RecordRule["open"] :
          LET alt == RecordRule["open"][i]
          IN  \/ Is(alt, <<"LN", "ZZ">>, 0, "-", "-", "-")
              \/ Is(alt, <<"LN">>, 0, "-", "-", "record")
              \/ Is(alt, <<>>, 0, "-", "val", "-")
    <2>. DEFINE w == On(<<"LN", "ZZ">>)
                x == [On(<<"LN">>) EXCEPT !.r = "record"]
                y == [Alt          EXCEPT !.p = "val"]
    <2>1. RecordRule["open"] = <<w, x, y>>
      BY DEF RecordRule, RecordOpen, RecordClose
    <2>2. /\ Is(w, <<"LN", "ZZ">>, 0, "-", "-", "-")
          /\ Is(x, <<"LN">>, 0, "-", "-", "record")
          /\ Is(y, <<>>, 0, "-", "val", "-")
      BY AltFields
    <2>. HIDE DEF w, x, y
    <2>. QED
      BY <2>1, <2>2, ListedAre
  <1>2. \A i \in DOMAIN RecordRule["close"] :
          LET alt == RecordRule["close"][i]
          IN  \/ Is(alt, <<"LN", "ZZ">>, 0, "push", "-", "-")
              \/ Is(alt, <<"LN">>, 0, "push", "-", "record")
              \/ Is(alt, <<"ZZ">>, 0, "push", "-", "-")
    <2>. DEFINE w == [On(<<"LN", "ZZ">>) EXCEPT !.a = "push"]
                x == [On(<<"LN">>)       EXCEPT !.a = "push", !.r = "record"]
                y == [On(<<"ZZ">>)       EXCEPT !.a = "push"]
    <2>1. RecordRule["close"] = <<w, x, y>>
      BY DEF RecordRule, RecordOpen, RecordClose
    <2>2. /\ Is(w, <<"LN", "ZZ">>, 0, "push", "-", "-")
          /\ Is(x, <<"LN">>, 0, "push", "-", "record")
          /\ Is(y, <<"ZZ">>, 0, "push", "-", "-")
      BY AltFields
    <2>. HIDE DEF w, x, y
    <2>. QED
      BY <2>1, <2>2, ListedAre
  <1>. QED
    BY <1>1, <1>2, RulesAre

\* Those of the JSON rules: `val'.
LEMMA ValAlternates ==
    /\ \A i \in DOMAIN Rules["val"]["open"] :
          LET alt == Rules["val"]["open"][i]
          IN  \/ Is(alt, <<"OB">>, 1, "-", "map", "-")
              \/ Is(alt, <<"OS">>, 1, "-", "list", "-")
              \/ Is(alt, <<"VL">>, 0, "-", "-", "-")
              \/ Is(alt, <<"ST">>, 0, "-", "-", "-")
    /\ \A i \in DOMAIN Rules["val"]["close"] :
          Is(Rules["val"]["close"][i], <<>>, 0, "-", "-", "-")
  <1>1. \A i \in DOMAIN JsonRules["val"]["open"] :
          LET alt == JsonRules["val"]["open"][i]
          IN  \/ Is(alt, <<"OB">>, 1, "-", "map", "-")
              \/ Is(alt, <<"OS">>, 1, "-", "list", "-")
              \/ Is(alt, <<"VL">>, 0, "-", "-", "-")
              \/ Is(alt, <<"ST">>, 0, "-", "-", "-")
    <2>. DEFINE w == [On(<<"OB">>) EXCEPT !.b = 1, !.p = "map"]
                x == [On(<<"OS">>) EXCEPT !.b = 1, !.p = "list"]
                y == On(<<"VL">>)
                z == On(<<"ST">>)
    <2>1. JsonRules["val"]["open"] = <<w, x, y, z>>
      BY DEF JsonRules
    <2>2. /\ Is(w, <<"OB">>, 1, "-", "map", "-")
          /\ Is(x, <<"OS">>, 1, "-", "list", "-")
          /\ Is(y, <<"VL">>, 0, "-", "-", "-")
          /\ Is(z, <<"ST">>, 0, "-", "-", "-")
      BY AltFields
    <2>. HIDE DEF w, x, y, z
    <2>. QED
      BY <2>1, <2>2, ListedAre
  <1>2. \A i \in DOMAIN JsonRules["val"]["close"] :
          Is(JsonRules["val"]["close"][i], <<>>, 0, "-", "-", "-")
    <2>. DEFINE w == Alt
    <2>1. JsonRules["val"]["close"] = <<w>>
      BY DEF JsonRules
    <2>2. Is(w, <<>>, 0, "-", "-", "-")
      BY AltFields
    <2>. HIDE DEF w
    <2>. QED
      BY <2>1, <2>2, ListedAre
  <1>. QED
    BY <1>1, <1>2, RulesAre

\* `map'.
LEMMA MapAlternates ==
    /\ \A i \in DOMAIN Rules["map"]["open"] :
          LET alt == Rules["map"]["open"][i]
          IN  \/ Is(alt, <<"OB", "CB">>, 1, "-", "-", "-")
              \/ Is(alt, <<"OB">>, 0, "-", "pair", "-")
    /\ \A i \in DOMAIN Rules["map"]["close"] :
          Is(Rules["map"]["close"][i], <<"CB">>, 0, "-", "-", "-")
  <1>1. \A i \in DOMAIN JsonRules["map"]["open"] :
          LET alt == JsonRules["map"]["open"][i]
          IN  \/ Is(alt, <<"OB", "CB">>, 1, "-", "-", "-")
              \/ Is(alt, <<"OB">>, 0, "-", "pair", "-")
    <2>. DEFINE w == [On(<<"OB", "CB">>) EXCEPT !.b = 1]
                x == [On(<<"OB">>)       EXCEPT !.p = "pair"]
    <2>1. JsonRules["map"]["open"] = <<w, x>>
      BY DEF JsonRules
    <2>2. /\ Is(w, <<"OB", "CB">>, 1, "-", "-", "-")
          /\ Is(x, <<"OB">>, 0, "-", "pair", "-")
      BY AltFields
    <2>. HIDE DEF w, x
    <2>. QED
      BY <2>1, <2>2, ListedAre
  <1>2. \A i \in DOMAIN JsonRules["map"]["close"] :
          Is(JsonRules["map"]["close"][i], <<"CB">>, 0, "-", "-", "-")
    <2>. DEFINE w == On(<<"CB">>)
    <2>1. JsonRules["map"]["close"] = <<w>>
      BY DEF JsonRules
    <2>2. Is(w, <<"CB">>, 0, "-", "-", "-")
      BY AltFields
    <2>. HIDE DEF w
    <2>. QED
      BY <2>1, <2>2, ListedAre
  <1>. QED
    BY <1>1, <1>2, RulesAre

\* `list'.
LEMMA ListAlternates ==
    /\ \A i \in DOMAIN Rules["list"]["open"] :
          LET alt == Rules["list"]["open"][i]
          IN  \/ Is(alt, <<"OS", "CS">>, 1, "-", "-", "-")
              \/ Is(alt, <<"OS">>, 0, "-", "elem", "-")
    /\ \A i \in DOMAIN Rules["list"]["close"] :
          Is(Rules["list"]["close"][i], <<"CS">>, 0, "-", "-", "-")
  <1>1. \A i \in DOMAIN JsonRules["list"]["open"] :
          LET alt == JsonRules["list"]["open"][i]
          IN  \/ Is(alt, <<"OS", "CS">>, 1, "-", "-", "-")
              \/ Is(alt, <<"OS">>, 0, "-", "elem", "-")
    <2>. DEFINE w == [On(<<"OS", "CS">>) EXCEPT !.b = 1]
                x == [On(<<"OS">>)       EXCEPT !.p = "elem"]
    <2>1. JsonRules["list"]["open"] = <<w, x>>
      BY DEF JsonRules
    <2>2. /\ Is(w, <<"OS", "CS">>, 1, "-", "-", "-")
          /\ Is(x, <<"OS">>, 0, "-", "elem", "-")
      BY AltFields
    <2>. HIDE DEF w, x
    <2>. QED
      BY <2>1, <2>2, ListedAre
  <1>2. \A i \in DOMAIN JsonRules["list"]["close"] :
          Is(JsonRules["list"]["close"][i], <<"CS">>, 0, "-", "-", "-")
    <2>. DEFINE w == On(<<"CS">>)
    <2>1. JsonRules["list"]["close"] = <<w>>
      BY DEF JsonRules
    <2>2. Is(w, <<"CS">>, 0, "-", "-", "-")
      BY AltFields
    <2>. HIDE DEF w
    <2>. QED
      BY <2>1, <2>2, ListedAre
  <1>. QED
    BY <1>1, <1>2, RulesAre

\* `pair'.
LEMMA PairAlternates ==
    /\ \A i \in DOMAIN Rules["pair"]["open"] :
          Is(Rules["pair"]["open"][i], <<"ST", "CL">>, 0, "-", "val", "-")
    /\ \A i \in DOMAIN Rules["pair"]["close"] :
          LET alt == Rules["pair"]["close"][i]
          IN  \/ Is(alt, <<"CA">>, 0, "-", "-", "pair")
              \/ Is(alt, <<"CB">>, 1, "-", "-", "-")
  <1>1. \A i \in DOMAIN JsonRules["pair"]["open"] :
          Is(JsonRules["pair"]["open"][i], <<"ST", "CL">>, 0, "-", "val", "-")
    <2>. DEFINE w == [On(<<"ST", "CL">>) EXCEPT !.p = "val"]
    <2>1. JsonRules["pair"]["open"] = <<w>>
      BY DEF JsonRules
    <2>2. Is(w, <<"ST", "CL">>, 0, "-", "val", "-")
      BY AltFields
    <2>. HIDE DEF w
    <2>. QED
      BY <2>1, <2>2, ListedAre
  <1>2. \A i \in DOMAIN JsonRules["pair"]["close"] :
          LET alt == JsonRules["pair"]["close"][i]
          IN  \/ Is(alt, <<"CA">>, 0, "-", "-", "pair")
              \/ Is(alt, <<"CB">>, 1, "-", "-", "-")
    <2>. DEFINE w == [On(<<"CA">>) EXCEPT !.r = "pair"]
                x == [On(<<"CB">>) EXCEPT !.b = 1]
    <2>1. JsonRules["pair"]["close"] = <<w, x>>
      BY DEF JsonRules
    <2>2. /\ Is(w, <<"CA">>, 0, "-", "-", "pair")
          /\ Is(x, <<"CB">>, 1, "-", "-", "-")
      BY AltFields
    <2>. HIDE DEF w, x
    <2>. QED
      BY <2>1, <2>2, ListedAre
  <1>. QED
    BY <1>1, <1>2, RulesAre

\* `elem'.
LEMMA ElemAlternates ==
    /\ \A i \in DOMAIN Rules["elem"]["open"] :
          Is(Rules["elem"]["open"][i], <<>>, 0, "-", "val", "-")
    /\ \A i \in DOMAIN Rules["elem"]["close"] :
          LET alt == Rules["elem"]["close"][i]
          IN  \/ Is(alt, <<"CA">>, 0, "-", "-", "elem")
              \/ Is(alt, <<"CS">>, 1, "-", "-", "-")
  <1>1. \A i \in DOMAIN JsonRules["elem"]["open"] :
          Is(JsonRules["elem"]["open"][i], <<>>, 0, "-", "val", "-")
    <2>. DEFINE w == [Alt EXCEPT !.p = "val"]
    <2>1. JsonRules["elem"]["open"] = <<w>>
      BY DEF JsonRules
    <2>2. Is(w, <<>>, 0, "-", "val", "-")
      BY AltFields
    <2>. HIDE DEF w
    <2>. QED
      BY <2>1, <2>2, ListedAre
  <1>2. \A i \in DOMAIN JsonRules["elem"]["close"] :
          LET alt == JsonRules["elem"]["close"][i]
          IN  \/ Is(alt, <<"CA">>, 0, "-", "-", "elem")
              \/ Is(alt, <<"CS">>, 1, "-", "-", "-")
    <2>. DEFINE w == [On(<<"CA">>) EXCEPT !.r = "elem"]
                x == [On(<<"CS">>) EXCEPT !.b = 1]
    <2>1. JsonRules["elem"]["close"] = <<w, x>>
      BY DEF JsonRules
    <2>2. /\ Is(w, <<"CA">>, 0, "-", "-", "elem")
          /\ Is(x, <<"CS">>, 1, "-", "-", "-")
      BY AltFields
    <2>. HIDE DEF w, x
    <2>. QED
      BY <2>1, <2>2, ListedAre
  <1>. QED
    BY <1>1, <1>2, RulesAre

\* The alternates of every rule are listed.
LEMMA RulesList ==
    \A r \in RuleNames, ph \in Phases : DOMAIN Rules[r][ph] \subseteq Nat
  <1>1. \A ph \in Phases : /\ DOMAIN JsonlRule[ph] \subseteq Nat
                           /\ DOMAIN RecordRule[ph] \subseteq Nat
    BY DEF Phases, JsonlRule, RecordRule, RecordOpen, RecordClose
  <1>2. \A ph \in Phases : /\ DOMAIN JsonRules["val"][ph] \subseteq Nat
                           /\ DOMAIN JsonRules["map"][ph] \subseteq Nat
                           /\ DOMAIN JsonRules["list"][ph] \subseteq Nat
    BY DEF Phases, JsonRules
  <1>3. \A ph \in Phases : /\ DOMAIN JsonRules["pair"][ph] \subseteq Nat
                           /\ DOMAIN JsonRules["elem"][ph] \subseteq Nat
    BY DEF Phases, JsonRules
  <1>. QED
    BY <1>1, <1>2, <1>3, RulesAre

\* The alternate that is taken is one of the rule's, and what it matches comes
\* next.
LEMMA ChosenMatches ==
    ASSUME Top.rule \in RuleNames, Top.phase \in Phases, Matching # {}
    PROVE  \E m \in DOMAIN Rules[Top.rule][Top.phase] :
              /\ Chosen = Rules[Top.rule][Top.phase][m]
              /\ \A k \in DOMAIN Chosen.s : TinAt(pos + k - 1) = Chosen.s[k]
  <1>1. Matching \subseteq Nat
    BY RulesList DEF Matching, Alts
  <1>2. Min(Matching) \in Matching
    BY <1>1, MinIsOne
  <1>. QED
    BY <1>2 DEF Matching, Chosen, Alts

\* What taking an alternate of the tokens s, of which b are given back, reads.
ReadsOne(x, q) ==
    /\ q \in 1 .. Len(toks) + 1 /\ pos <= q /\ Depth(q) = Depth(pos) + Deeper(x)
    /\ x # "ZZ" => pos < q /\ pos <= Len(toks)

GivesBack(x, q) == q = pos /\ (x # "ZZ" => pos <= Len(toks))

ReadsTwo(x, y, q) ==
    /\ q \in 1 .. Len(toks) + 1 /\ pos <= q
    /\ Depth(q) = Depth(pos) + Deeper(x) + Deeper(y)

Reads(s, b, q) ==
    /\ Len(s) = 0 /\ b = 0 => q = pos
    /\ Len(s) = 1 /\ b = 0 => ReadsOne(s[1], q)
    /\ Len(s) = 1 /\ b = 1 => GivesBack(s[1], q)
    /\ Len(s) = 2 /\ b = 0 => ReadsTwo(s[1], s[2], q)
    /\ Len(s) = 2 /\ b = 1 => ReadsOne(s[1], q)

\* An alternate reads its tokens but those it gives back, up to the end.
LEMMA AlternateReads ==
    ASSUME toks \in Seq(Tokens(src)), pos \in 1 .. Len(toks) + 1,
           NEW s, NEW b, DOMAIN s = 1 .. Len(s),
           \A k \in DOMAIN s : TinAt(pos + k - 1) = s[k],
           NEW q, q = Min({pos + Len(s) - b, Len(toks) + 1})
    PROVE  Reads(s, b, q)
  <1>1. pos \in Nat /\ pos + 1 - 1 = pos /\ pos + 2 - 1 = pos + 1
    OBVIOUS
  <1>2. /\ Len(s) = 1 => TinAt(pos) = s[1]
        /\ Len(s) = 2 => TinAt(pos) = s[1] /\ TinAt(pos + 1) = s[2]
    BY <1>1
  <1>3. /\ TinAt(pos) # "ZZ" => pos <= Len(toks)
        /\ Min({pos, Len(toks) + 1}) = pos
    BY DepthAfter
  <1>4. ASSUME q = Min({pos + 1, Len(toks) + 1})
        PROVE  /\ q \in 1 .. Len(toks) + 1 /\ pos <= q /\ (TinAt(pos) # "ZZ" => pos < q)
               /\ Depth(q) = Depth(pos) + Deeper(TinAt(pos))
    BY <1>4, DepthAfter
  <1>5. ASSUME q = Min({pos + 2, Len(toks) + 1})
        PROVE  /\ q \in 1 .. Len(toks) + 1 /\ pos <= q
               /\ Depth(q) = Depth(pos) + Deeper(TinAt(pos)) + Deeper(TinAt(pos + 1))
    BY <1>5, DepthAfter
  <1>6. ASSUME Len(s) = 0, b = 0
        PROVE  q = pos
    <2>1. q = Min({pos, Len(toks) + 1})
      BY <1>1, <1>6
    <2>. QED
      BY <1>3, <2>1
  <1>7. ASSUME Len(s) = 1, b = 0
        PROVE  ReadsOne(s[1], q)
    <2>1. q = Min({pos + 1, Len(toks) + 1})
      BY <1>1, <1>7
    <2>. QED
      BY <1>2, <1>3, <1>4, <1>7, <2>1 DEF ReadsOne
  <1>8. ASSUME Len(s) = 1, b = 1
        PROVE  GivesBack(s[1], q)
    <2>1. q = Min({pos, Len(toks) + 1})
      BY <1>1, <1>8
    <2>. QED
      BY <1>2, <1>3, <1>8, <2>1 DEF GivesBack
  <1>9. ASSUME Len(s) = 2, b = 0
        PROVE  ReadsTwo(s[1], s[2], q)
    <2>1. q = Min({pos + 2, Len(toks) + 1})
      BY <1>1, <1>9
    <2>. QED
      BY <1>2, <1>5, <1>9, <2>1 DEF ReadsTwo
  <1>10. ASSUME Len(s) = 2, b = 1
         PROVE  ReadsOne(s[1], q)
    <2>1. q = Min({pos + 1, Len(toks) + 1})
      BY <1>1, <1>10
    <2>. QED
      BY <1>2, <1>3, <1>4, <1>10, <2>1 DEF ReadsOne
  <1>. QED
    BY <1>6, <1>7, <1>8, <1>9, <1>10 DEF Reads

\* Lists of tokens.
LEMMA TokenLists ==
    /\ Len(<<>>) = 0 /\ DOMAIN <<>> = 1 .. Len(<<>>)
    /\ \A x : Len(<<x>>) = 1 /\ <<x>>[1] = x /\ DOMAIN <<x>> = 1 .. Len(<<x>>)
    /\ \A x, y : /\ Len(<<x, y>>) = 2 /\ <<x, y>>[1] = x /\ <<x, y>>[2] = y
                 /\ DOMAIN <<x, y>> = 1 .. Len(<<x, y>>)
  <1>1. Len(<<>>) = 0 /\ DOMAIN <<>> = 1 .. Len(<<>>)
    OBVIOUS
  <1>2. \A x : Len(<<x>>) = 1 /\ <<x>>[1] = x /\ DOMAIN <<x>> = 1 .. Len(<<x>>)
    OBVIOUS
  <1>3. \A x, y : /\ Len(<<x, y>>) = 2 /\ <<x, y>>[1] = x /\ <<x, y>>[2] = y
                  /\ DOMAIN <<x, y>> = 1 .. Len(<<x, y>>)
    OBVIOUS
  <1>. QED
    BY <1>1, <1>2, <1>3

\* So, of an alternate, by the tokens it names.
LEMMA TakenReads ==
    ASSUME toks \in Seq(Tokens(src)), pos \in 1 .. Len(toks) + 1,
           NEW c, \A k \in DOMAIN c.s : TinAt(pos + k - 1) = c.s[k],
           NEW q, q = Min({pos + Len(c.s) - c.b, Len(toks) + 1})
    PROVE  /\ c.s = <<>> /\ c.b = 0 => q = pos
           /\ \A x : c.s = <<x>> /\ c.b = 0 => ReadsOne(x, q)
           /\ \A x : c.s = <<x>> /\ c.b = 1 => GivesBack(x, q)
           /\ \A x, y : c.s = <<x, y>> /\ c.b = 0 => ReadsTwo(x, y, q)
           /\ \A x, y : c.s = <<x, y>> /\ c.b = 1 => ReadsOne(x, q)
  <1>1. ASSUME DOMAIN c.s = 1 .. Len(c.s)
        PROVE  Reads(c.s, c.b, q)
    BY <1>1, AlternateReads
  <1>2. ASSUME c.s = <<>>, c.b = 0
        PROVE  q = pos
    BY <1>1, <1>2, TokenLists DEF Reads
  <1>3. ASSUME NEW x, c.s = <<x>>
        PROVE  /\ c.b = 0 => ReadsOne(x, q)
               /\ c.b = 1 => GivesBack(x, q)
    <2>1. Len(c.s) = 1 /\ c.s[1] = x /\ DOMAIN c.s = 1 .. Len(c.s)
      BY <1>3, TokenLists
    <2>. QED
      BY <1>1, <2>1 DEF Reads
  <1>4. ASSUME NEW x, NEW y, c.s = <<x, y>>
        PROVE  /\ c.b = 0 => ReadsTwo(x, y, q)
               /\ c.b = 1 => ReadsOne(x, q)
    <2>1. Len(c.s) = 2 /\ c.s[1] = x /\ c.s[2] = y /\ DOMAIN c.s = 1 .. Len(c.s)
      BY <1>4, TokenLists
    <2>. QED
      BY <1>1, <2>1 DEF Reads
  <1>. QED
    BY <1>2, <1>3, <1>4

-----------------------------------------------------------------------------
(* The invariant.                                                          *)

\* The tokens are typed, and the rule on top is one.
LEMMA Typed ==
    ASSUME IInv
    PROVE  /\ toks \in Seq(Tokens(src)) /\ Len(toks) \in Nat /\ pos \in 0 .. Len(toks) + 1
           /\ stack # <<>> =>
                 /\ pos \in 1 .. Len(toks) + 1
                 /\ Len(stack) \in DOMAIN stack /\ Len(stack) \in Nat
                 /\ Top \in Frames /\ Top.rule \in RuleNames /\ Top.phase \in Phases
  <1>1. toks \in Seq(Tokens(src))
    BY LexMakesTokens DEF IInv, TypeOK
  <1>2. stack # <<>> => Len(stack) \in DOMAIN stack /\ Len(stack) \in Nat
    BY DEF IInv, TypeOK
  <1>3. stack # <<>> => Top \in Frames
    BY <1>2 DEF IInv, TypeOK, Top
  <1>4. stack # <<>> => Top.rule \in RuleNames /\ Top.phase \in Phases
    BY <1>3 DEF Frames, Phases
  <1>. QED
    BY <1>1, <1>2, <1>3, <1>4 DEF IInv, TypeOK, ValuesHaveTokens

\* What taking an alternate of each rule in each phase does: the rule p it
\* pushes, or the rule r it is replaced by, and what it reads up to q.
Same(q) == Depth(q) = Depth(pos)

TakesInOrder(rule, phase, p, r, q) ==
    /\ rule = "jsonl" /\ phase = "open" => p \in {"-", "record"} /\ r = "-" /\ Same(q)
    /\ rule = "jsonl" /\ phase = "close" => p = "-" /\ r = "-" /\ Same(q)
    /\ rule = "record" /\ phase = "open" =>
          /\ \/ p = "-" /\ r \in {"-", "record"}
             \/ p = "val" /\ r = "-"
          /\ Same(q)
    /\ rule = "record" /\ phase = "close" => p = "-" /\ r \in {"-", "record"} /\ Same(q)
    /\ rule = "val" /\ phase = "open" =>
          /\ \/ p \in {"map", "list"} /\ r = "-" /\ q = pos
             \/ p = "-" /\ r = "-" /\ pos < q
          /\ pos <= Len(toks) /\ Same(q)
    /\ rule = "val" /\ phase = "close" => p = "-" /\ r = "-" /\ q = pos /\ Same(q)
    /\ rule \in {"map", "list"} /\ phase = "open" =>
          /\ p \in {"-", "pair", "elem"} /\ r = "-"
          /\ Depth(q) = Depth(pos) + 1 /\ pos < q /\ pos <= Len(toks)
    /\ rule \in {"map", "list"} /\ phase = "close" =>
          p = "-" /\ r = "-" /\ Depth(q) = Depth(pos) - 1
    /\ rule \in {"pair", "elem"} /\ phase = "open" => p = "val" /\ r = "-" /\ Same(q)
    /\ rule \in {"pair", "elem"} /\ phase = "close" =>
          p = "-" /\ r \in {"-", "pair", "elem"} /\ Same(q)

\* Every alternate of every rule moves the depth with the rule it goes to.
LEMMA EffectOf ==
    ASSUME toks \in Seq(Tokens(src)), pos \in 1 .. Len(toks) + 1,
           NEW rule \in RuleNames, NEW phase \in Phases,
           NEW m \in DOMAIN Rules[rule][phase], NEW c, c = Rules[rule][phase][m],
           \A k \in DOMAIN c.s : TinAt(pos + k - 1) = c.s[k],
           NEW q, q = Min({pos + Len(c.s) - c.b, Len(toks) + 1})
    PROVE  /\ q \in 1 .. Len(toks) + 1 /\ pos <= q
           /\ TakesInOrder(rule, phase, c.p, c.r, q)
  <1>1. pos \in Nat /\ Depth(pos) \in Int
    BY DepthAfter
  <1>2. /\ c.s = <<>> /\ c.b = 0 => q = pos
        /\ \A x : c.s = <<x>> /\ c.b = 0 => ReadsOne(x, q)
        /\ \A x : c.s = <<x>> /\ c.b = 1 => GivesBack(x, q)
        /\ \A x, y : c.s = <<x, y>> /\ c.b = 0 => ReadsTwo(x, y, q)
        /\ \A x, y : c.s = <<x, y>> /\ c.b = 1 => ReadsOne(x, q)
    BY TakenReads
  <1>3. /\ Deeper("ZZ") = 0 /\ Deeper("LN") = 0 /\ Deeper("VL") = 0 /\ Deeper("ST") = 0
        /\ Deeper("CA") = 0 /\ Deeper("CL") = 0 /\ Deeper("OB") = 1 /\ Deeper("OS") = 1
        /\ Deeper("CB") = 0 - 1 /\ Deeper("CS") = 0 - 1
    BY DEF Deeper
  <1>4. CASE rule = "jsonl" /\ phase = "open"
    <2>1. \/ c.p = "-" /\ c.r = "-" /\ ReadsOne("ZZ", q)
          \/ c.p = "-" /\ c.r = "-" /\ ReadsTwo("LN", "ZZ", q)
          \/ c.p = "record" /\ c.r = "-" /\ ReadsOne("LN", q)
          \/ c.p = "record" /\ c.r = "-" /\ q = pos
      BY <1>2, <1>4, JsonlAlternates DEF Is
    <2>. QED
      BY <1>1, <1>3, <1>4, <2>1
         DEF TakesInOrder, Same, ReadsOne, GivesBack, ReadsTwo
  <1>5. CASE rule = "jsonl" /\ phase = "close"
    <2>1. c.p = "-" /\ c.r = "-" /\ q = pos
      BY <1>2, <1>5, JsonlAlternates DEF Is
    <2>. QED
      BY <1>1, <1>3, <1>5, <2>1
         DEF TakesInOrder, Same, ReadsOne, GivesBack, ReadsTwo
  <1>6. CASE rule = "record" /\ phase = "open"
    <2>1. \/ c.p = "-" /\ c.r = "-" /\ ReadsTwo("LN", "ZZ", q)
          \/ c.p = "-" /\ c.r = "record" /\ ReadsOne("LN", q)
          \/ c.p = "val" /\ c.r = "-" /\ q = pos
      BY <1>2, <1>6, RecordAlternates DEF Is
    <2>. QED
      BY <1>1, <1>3, <1>6, <2>1
         DEF TakesInOrder, Same, ReadsOne, GivesBack, ReadsTwo
  <1>7. CASE rule = "record" /\ phase = "close"
    <2>1. \/ c.p = "-" /\ c.r = "-" /\ ReadsTwo("LN", "ZZ", q)
          \/ c.p = "-" /\ c.r = "record" /\ ReadsOne("LN", q)
          \/ c.p = "-" /\ c.r = "-" /\ ReadsOne("ZZ", q)
      BY <1>2, <1>7, RecordAlternates DEF Is
    <2>. QED
      BY <1>1, <1>3, <1>7, <2>1
         DEF TakesInOrder, Same, ReadsOne, GivesBack, ReadsTwo
  <1>8. CASE rule = "val" /\ phase = "open"
    <2>1. \/ c.p = "map" /\ c.r = "-" /\ GivesBack("OB", q)
          \/ c.p = "list" /\ c.r = "-" /\ GivesBack("OS", q)
          \/ c.p = "-" /\ c.r = "-" /\ ReadsOne("VL", q)
          \/ c.p = "-" /\ c.r = "-" /\ ReadsOne("ST", q)
      BY <1>2, <1>8, ValAlternates DEF Is
    <2>. QED
      BY <1>1, <1>3, <1>8, <2>1
         DEF TakesInOrder, Same, ReadsOne, GivesBack, ReadsTwo
  <1>9. CASE rule = "val" /\ phase = "close"
    <2>1. c.p = "-" /\ c.r = "-" /\ q = pos
      BY <1>2, <1>9, ValAlternates DEF Is
    <2>. QED
      BY <1>1, <1>3, <1>9, <2>1
         DEF TakesInOrder, Same, ReadsOne, GivesBack, ReadsTwo
  <1>10. CASE rule = "map" /\ phase = "open"
    <2>0. /\ c.s = <<"OB", "CB">> /\ c.b = 1 => ReadsOne("OB", q)
          /\ c.s = <<"OB">> /\ c.b = 0 => ReadsOne("OB", q)
      BY <1>2
    <2>1. \/ c.p = "-" /\ c.r = "-" /\ ReadsOne("OB", q)
          \/ c.p = "pair" /\ c.r = "-" /\ ReadsOne("OB", q)
      BY <2>0, <1>10, MapAlternates DEF Is
    <2>. QED
      BY <1>1, <1>3, <1>10, <2>1
         DEF TakesInOrder, Same, ReadsOne, GivesBack, ReadsTwo
  <1>11. CASE rule = "map" /\ phase = "close"
    <2>1. c.p = "-" /\ c.r = "-" /\ ReadsOne("CB", q)
      BY <1>2, <1>11, MapAlternates DEF Is
    <2>. QED
      BY <1>1, <1>3, <1>11, <2>1
         DEF TakesInOrder, Same, ReadsOne, GivesBack, ReadsTwo
  <1>12. CASE rule = "list" /\ phase = "open"
    <2>0. /\ c.s = <<"OS", "CS">> /\ c.b = 1 => ReadsOne("OS", q)
          /\ c.s = <<"OS">> /\ c.b = 0 => ReadsOne("OS", q)
      BY <1>2
    <2>1. \/ c.p = "-" /\ c.r = "-" /\ ReadsOne("OS", q)
          \/ c.p = "elem" /\ c.r = "-" /\ ReadsOne("OS", q)
      BY <2>0, <1>12, ListAlternates DEF Is
    <2>. QED
      BY <1>1, <1>3, <1>12, <2>1
         DEF TakesInOrder, Same, ReadsOne, GivesBack, ReadsTwo
  <1>13. CASE rule = "list" /\ phase = "close"
    <2>1. c.p = "-" /\ c.r = "-" /\ ReadsOne("CS", q)
      BY <1>2, <1>13, ListAlternates DEF Is
    <2>. QED
      BY <1>1, <1>3, <1>13, <2>1
         DEF TakesInOrder, Same, ReadsOne, GivesBack, ReadsTwo
  <1>14. CASE rule = "pair" /\ phase = "open"
    <2>1. c.p = "val" /\ c.r = "-" /\ ReadsTwo("ST", "CL", q)
      BY <1>2, <1>14, PairAlternates DEF Is
    <2>. QED
      BY <1>1, <1>3, <1>14, <2>1
         DEF TakesInOrder, Same, ReadsOne, GivesBack, ReadsTwo
  <1>15. CASE rule = "pair" /\ phase = "close"
    <2>1. \/ c.p = "-" /\ c.r = "pair" /\ ReadsOne("CA", q)
          \/ c.p = "-" /\ c.r = "-" /\ GivesBack("CB", q)
      BY ZenonT(30), <1>2, <1>15, PairAlternates DEF Is
    <2>. QED
      BY <1>1, <1>3, <1>15, <2>1
         DEF TakesInOrder, Same, ReadsOne, GivesBack, ReadsTwo
  <1>16. CASE rule = "elem" /\ phase = "open"
    <2>1. c.p = "val" /\ c.r = "-" /\ q = pos
      BY <1>2, <1>16, ElemAlternates DEF Is
    <2>. QED
      BY <1>1, <1>3, <1>16, <2>1
         DEF TakesInOrder, Same, ReadsOne, GivesBack, ReadsTwo
  <1>17. CASE rule = "elem" /\ phase = "close"
    <2>1. \/ c.p = "-" /\ c.r = "elem" /\ ReadsOne("CA", q)
          \/ c.p = "-" /\ c.r = "-" /\ GivesBack("CS", q)
      BY ZenonT(30), <1>2, <1>17, ElemAlternates DEF Is
    <2>. QED
      BY <1>1, <1>3, <1>17, <2>1
         DEF TakesInOrder, Same, ReadsOne, GivesBack, ReadsTwo
  <1>. QED
    BY <1>4, <1>5, <1>6, <1>7, <1>8, <1>9, <1>10, <1>11,
       <1>12, <1>13, <1>14, <1>15, <1>16, <1>17, RulesAre DEF Phases

\* And so does the one that the engine chooses.
LEMMA TakeEffect ==
    ASSUME IInv, Take
    PROVE  /\ pos' \in 1 .. Len(toks) + 1 /\ pos <= pos'
           /\ TakesInOrder(Top.rule, Top.phase, Chosen.p, Chosen.r, pos')
  <1>1. /\ toks \in Seq(Tokens(src)) /\ pos \in 1 .. Len(toks) + 1
        /\ Top.rule \in RuleNames /\ Top.phase \in Phases
    BY Typed DEF Take, InRule
  <1>2. PICK m \in DOMAIN Rules[Top.rule][Top.phase] :
           /\ Chosen = Rules[Top.rule][Top.phase][m]
           /\ \A k \in DOMAIN Chosen.s : TinAt(pos + k - 1) = Chosen.s[k]
    BY <1>1, ChosenMatches DEF Take
  <1>3. pos' = Min({pos + Len(Chosen.s) - Chosen.b, Len(toks) + 1})
    BY DEF Take
  <1>. QED
    BY <1>1, <1>2, <1>3, EffectOf

-----------------------------------------------------------------------------
(* The rules in progress.                                                  *)

\* Which rule is at which level of the stack, and how the levels are counted.
LEMMA Levels ==
    ASSUME NEW n \in Nat, n > 0
    PROVE  /\ RulesAt(n) \subseteq {"jsonl", "record", "val", "map", "list", "pair", "elem"}
           /\ "jsonl" \in RulesAt(n) <=> n = 1
           /\ "record" \in RulesAt(n) <=> n = 2
           /\ "val" \in RulesAt(n) <=> n > 2 /\ n % 3 = 0
           /\ "map" \in RulesAt(n) <=> n > 2 /\ n % 3 = 1
           /\ "list" \in RulesAt(n) <=> n > 2 /\ n % 3 = 1
           /\ "pair" \in RulesAt(n) <=> n > 2 /\ n % 3 = 2
           /\ "elem" \in RulesAt(n) <=> n > 2 /\ n % 3 = 2
  BY DEF RulesAt

\* Every third frame is a rule of values one bracket deeper.
LEMMA Thirds ==
    ASSUME NEW n \in Nat, n > 0
    PROVE  /\ (n - 1) \div 3 \in Nat
           /\ n % 3 = 0 => n \div 3 = (n - 1) \div 3 + 1 /\ (n + 1) % 3 = 1 /\ n >= 3
           /\ n % 3 = 1 => n \div 3 = (n - 1) \div 3 /\ (n + 1) % 3 = 2
           /\ n % 3 = 2 => n \div 3 = (n - 1) \div 3 /\ (n + 1) % 3 = 0
  OBVIOUS

\* Frames, by their fields.
LEMMA FrameFields ==
    /\ \A f \in Frames :
          /\ f.rule \in RuleNames /\ f.phase \in Phases /\ f.from \in 1 .. Len(toks) + 1
          /\ f.child \in Spans \cup {NoValue}
          /\ [f EXCEPT !.phase = "close"] \in Frames
          /\ \A v \in Spans \cup {NoValue} : [f EXCEPT !.child = v] \in Frames
    /\ \A r \in RuleNames, q \in 1 .. Len(toks) + 1 : Frame(r, q) \in Frames
    /\ \A r, q : Frame(r, q).rule = r /\ Frame(r, q).phase = "open" /\ Frame(r, q).from = q
  <1>1. \A f \in Frames :
           /\ f.rule \in RuleNames /\ f.phase \in Phases /\ f.from \in 1 .. Len(toks) + 1
           /\ f.child \in Spans \cup {NoValue}
           /\ [f EXCEPT !.phase = "close"] \in Frames
    BY DEF Frames, Phases
  <1>2. \A f \in Frames : \A v \in Spans \cup {NoValue} : [f EXCEPT !.child = v] \in Frames
    BY DEF Frames
  <1>3. \A r \in RuleNames, q \in 1 .. Len(toks) + 1 : Frame(r, q) \in Frames
    BY DEF Frame, Frames
  <1>4. \A r, q : Frame(r, q).rule = r /\ Frame(r, q).phase = "open" /\ Frame(r, q).from = q
    BY DEF Frame
  <1>. QED
    BY <1>1, <1>2, <1>3, <1>4

\* The frame f as its rule goes on to its close phase.
Closed(f) == [f EXCEPT !.phase = "close"]

\* What each step makes of the stack.
LEMMA StackDescended ==
    ASSUME IInv, Descend
    PROVE  /\ Chosen.p \in RuleNames => stack' \in Seq(Frames)
           /\ stack' # <<>> /\ Len(stack') = Len(stack) + 1
           /\ \A i \in 1 .. Len(stack) - 1 : stack'[i] = stack[i]
           /\ stack'[Len(stack)] = Closed(Top)
           /\ stack'[Len(stack) + 1] = Frame(Chosen.p, pos')
  <1>. DEFINE n == Len(stack)
              below == [stack EXCEPT ![n].phase = "close"]
              f == Frame(Chosen.p, pos')
  <1>1. /\ stack \in Seq(Frames) /\ n \in DOMAIN stack /\ n \in Nat /\ Top \in Frames
        /\ Top = stack[n] /\ stack # <<>>
    BY Typed DEF IInv, TypeOK, Descend, Take, InRule, Top
  <1>2. stack' = Append(below, f)
    BY DEF Descend
  <1>3. Closed(Top) \in Frames
    BY <1>1, FrameFields DEF Closed
  <1>4. /\ below \in Seq(Frames) /\ Len(below) = n
        /\ \A i \in 1 .. n - 1 : below[i] = stack[i]
        /\ below[n] = Closed(Top)
    <2>1. below = [stack EXCEPT ![n] = Closed(Top)]
      BY <1>1 DEF Closed
    <2>. HIDE DEF below
    <2>. QED
      BY <1>1, <1>3, <2>1
  <1>5. Chosen.p \in RuleNames => f \in Frames
    BY TakeEffect, FrameFields DEF Descend
  <1>. HIDE DEF below, f
  <1>6. /\ Len(stack') = n + 1 /\ stack' # <<>>
        /\ \A i \in 1 .. n : stack'[i] = below[i]
        /\ stack'[n + 1] = f
    BY <1>1, <1>2, <1>4
  <1>7. Chosen.p \in RuleNames => stack' \in Seq(Frames)
    BY <1>2, <1>4, <1>5
  <1>. HIDE DEF n
  <1>8. n \in 1 .. n /\ \A i \in 1 .. n - 1 : i \in 1 .. n
    BY <1>1 DEF n
  <1>. QED
    BY <1>1, <1>4, <1>6, <1>7, <1>8 DEF n, f

\* Replacing a rule leaves a stack as deep, with a new frame on top.
LEMMA StackReplaced ==
    ASSUME IInv, Replace
    PROVE  /\ Chosen.r \in RuleNames => stack' \in Seq(Frames)
           /\ stack' # <<>> /\ Len(stack') = Len(stack)
           /\ \A i \in 1 .. Len(stack) - 1 : stack'[i] = stack[i]
           /\ stack'[Len(stack)] = Frame(Chosen.r, pos')
  <1>. DEFINE n == Len(stack)
              f == Frame(Chosen.r, pos')
  <1>1. stack \in Seq(Frames) /\ n \in DOMAIN stack /\ n \in Nat /\ stack # <<>>
    BY Typed DEF IInv, TypeOK, Replace, Take, InRule
  <1>2. stack' = [stack EXCEPT ![n] = f]
    BY DEF Replace
  <1>3. Chosen.r \in RuleNames => f \in Frames
    BY TakeEffect, FrameFields DEF Replace
  <1>. HIDE DEF f
  <1>4. /\ Len(stack') = n /\ stack' # <<>>
        /\ \A i \in 1 .. n - 1 : stack'[i] = stack[i]
        /\ stack'[n] = f
    BY <1>1, <1>2
  <1>5. Chosen.r \in RuleNames => stack' \in Seq(Frames)
    BY <1>1, <1>2, <1>3
  <1>. QED
    BY <1>4, <1>5 DEF f

\* Settling leaves a stack as deep, with its top rule closing.
LEMMA StackSettled ==
    ASSUME IInv, Settle
    PROVE  /\ stack' \in Seq(Frames) /\ stack' # <<>> /\ Len(stack') = Len(stack)
           /\ \A i \in 1 .. Len(stack) - 1 : stack'[i] = stack[i]
           /\ stack'[Len(stack)] = Closed(Top)
  <1>. DEFINE n == Len(stack)
  <1>1. /\ stack \in Seq(Frames) /\ n \in DOMAIN stack /\ n \in Nat /\ Top \in Frames
        /\ Top = stack[n] /\ stack # <<>>
    BY Typed DEF IInv, TypeOK, Settle, Take, InRule, Top
  <1>2. stack' = [stack EXCEPT ![n] = Closed(Top)]
    BY <1>1 DEF Settle, Closed
  <1>3. Closed(Top) \in Frames
    BY <1>1, FrameFields DEF Closed
  <1>4. /\ Len(stack') = n /\ stack' # <<>>
        /\ \A i \in 1 .. n - 1 : stack'[i] = stack[i]
        /\ stack'[n] = Closed(Top)
    BY <1>1, <1>2
  <1>5. stack' \in Seq(Frames)
    BY <1>1, <1>2, <1>3
  <1>. QED
    BY <1>4, <1>5

\* The value with its parent is left in one field of it.
LEMMA StackReturned ==
    ASSUME IInv, Return
    PROVE  /\ ValueOf(Top, pos') \in Spans \cup {NoValue} => stack' \in Seq(Frames)
           /\ Len(stack') = Len(stack) - 1
           /\ \A i \in 1 .. Len(stack) - 2 : stack'[i] = stack[i]
           /\ Len(stack) > 1 =>
                 stack'[Len(stack) - 1]
                    = [stack[Len(stack) - 1] EXCEPT !.child = ValueOf(Top, pos')]
  <1>. DEFINE n == Len(stack)
              below == Front(stack)
              v == ValueOf(Top, pos')
  <1>1. /\ stack \in Seq(Frames) /\ n \in DOMAIN stack /\ n \in Nat /\ n > 0 /\ stack # <<>>
    BY Typed DEF IInv, TypeOK, Return, Take, InRule
  <1>2. /\ below \in Seq(Frames) /\ Len(below) = n - 1
        /\ \A i \in 1 .. n - 1 : below[i] = stack[i]
    <2>1. below = SubSeq(stack, 1, n - 1)
      BY DEF Front
    <2>2. 1 \in Int /\ n - 1 \in Int /\ \A i \in 1 .. n - 1 : stack[i] \in Frames
      BY <1>1
    <2>. DEFINE t == SubSeq(stack, 1, n - 1)
    <2>3. /\ t \in Seq(Frames)
          /\ Len(t) = IF 1 <= n - 1 THEN n - 1 - 1 + 1 ELSE 0
          /\ \A i \in 1 .. n - 1 - 1 + 1 : t[i] = stack[1 + i - 1]
      <3>. HIDE DEF n
      <3>. QED
        BY <2>2, SubSeqProperties
    <2>4. Len(t) = n - 1
      <3>1. n \in Nat /\ n > 0
        BY <1>1
      <3>. HIDE DEF n, t
      <3>. QED
        BY <2>3, <3>1
    <2>5. \A i \in 1 .. n - 1 : i \in 1 .. n - 1 - 1 + 1 /\ 1 + i - 1 = i
      BY <1>1
    <2>. HIDE DEF t, n
    <2>6. \A i \in 1 .. n - 1 : t[i] = stack[i]
      BY <2>3, <2>5
    <2>. QED
      BY <2>1, <2>3, <2>4, <2>6 DEF t
  <1>3. stack' = IF below = <<>> THEN <<>>
                 ELSE [below EXCEPT ![Len(below)].child = v]
    BY DEF Return
  <1>. HIDE DEF below, v
  <1>4. CASE n = 1
    <2>1. below = <<>>
      BY <1>2, <1>4
    <2>2. stack' = <<>>
      BY <1>3, <2>1
    <2>. QED
      BY <1>4, <2>2
  <1>5. CASE n > 1
    <2>1. below # <<>> /\ n - 1 \in DOMAIN below
      BY <1>1, <1>2, <1>5
    <2>. DEFINE f == [stack[n - 1] EXCEPT !.child = v]
    <2>2. stack' = [below EXCEPT ![n - 1] = f]
      <3>1. stack' = [below EXCEPT ![n - 1].child = v]
        BY <1>2, <1>3, <2>1
      <3>2. below[n - 1] = stack[n - 1]
        BY <1>1, <1>2, <1>5
      <3>. QED
        BY <3>1, <3>2
    <2>3. v \in Spans \cup {NoValue} => f \in Frames
      <3>1. stack[n - 1] \in Frames
        BY <1>1, <1>5
      <3>. QED
        BY <3>1, FrameFields
    <2>. HIDE DEF f
    <2>4. v \in Spans \cup {NoValue} => stack' \in Seq(Frames)
      BY <1>2, <2>1, <2>2, <2>3
    <2>5. /\ Len(stack') = n - 1
          /\ \A i \in 1 .. n - 2 : stack'[i] = below[i]
          /\ stack'[n - 1] = f
      BY <1>1, <1>2, <2>1, <2>2
    <2>6. \A i \in 1 .. n - 2 : stack'[i] = stack[i]
      BY <1>1, <1>2, <2>5
    <2>. QED
      BY <2>4, <2>5, <2>6 DEF f, v
  <1>6. n = 1 \/ n > 1
    <2>1. n \in Nat /\ n > 0
      BY <1>1
    <2>. HIDE DEF n
    <2>. QED
      BY <2>1
  <1>. QED
    BY <1>4, <1>5, <1>6

-----------------------------------------------------------------------------
(* Each step keeps the invariant.                                          *)

\* What the invariant says of the rule on top.
LEMMA TopIs ==
    ASSUME IInv, stack # <<>>
    PROVE  /\ Len(stack) \in Nat /\ Len(stack) > 0 /\ Top = stack[Len(stack)]
           /\ DOMAIN stack = 1 .. Len(stack)
           /\ Top.rule \in RulesAt(Len(stack)) /\ Top.phase \in Phases
           /\ Top.phase = "open" => Top.from = pos
           /\ Depth(pos) = (Len(stack) - 1) \div 3 - (IF Unopened THEN 1 ELSE 0)
  <1>1. /\ Len(stack) \in Nat /\ Len(stack) \in DOMAIN stack /\ Top.phase \in Phases
        /\ Top = stack[Len(stack)]
    BY Typed DEF Top
  <1>2. DOMAIN stack = 1 .. Len(stack)
    BY DEF IInv, TypeOK
  <1>3. Top.rule \in RulesAt(Len(stack)) /\ (Top.phase = "open" => Top.from = pos)
    BY <1>1 DEF IInv, RulesNest, ValuesHaveTokens
  <1>4. OpenBrackets = Depth(pos)
    BY DEF OpenBrackets, Depth
  <1>5. Depth(pos) = (Len(stack) - 1) \div 3 - (IF Unopened THEN 1 ELSE 0)
    BY <1>4 DEF IInv, DeepAsBrackets
  <1>. QED
    BY <1>1, <1>2, <1>3, <1>5

\* What is common to the steps that take an alternate.
LEMMA TypeKept ==
    ASSUME IInv, Take, stack' \in Seq(Frames)
    PROVE  TypeOK'
  <1>1. UNCHANGED <<src, toks, verdict>> /\ pos' \in 0 .. Len(toks) + 1 /\ node' = Built
    BY TakeEffect DEF Take
  <1>2. Top.child \in Spans \cup {NoValue}
    <2>1. Top \in Frames
      BY Typed DEF Take, InRule
    <2>. QED
      BY <2>1, FrameFields
  <1>3. Elements \in Seq(Spans)
    BY DEF IInv, TypeOK, Elements
  <1>4. Built = Absent \/ Built \in Seq(Spans)
    <2>1. Top.child # NoValue => Append(Elements, Top.child) \in Seq(Spans)
      BY <1>2, <1>3
    <2>2. <<>> \in Seq(Spans)
      OBVIOUS
    <2>. QED
      BY <2>1, <2>2 DEF Built, IInv, TypeOK
  <1>5. Frames' = Frames /\ Spans' = Spans
    BY <1>1 DEF Frames, Spans
  <1>. QED
    BY <1>1, <1>4, <1>5 DEF IInv, TypeOK

\* How deep the brackets are in the next state.
LEMMA DepthIs ==
    ASSUME toks' = toks
    PROVE  OpenBrackets' = Depth(pos')
  BY DEF OpenBrackets, Depth

\* Pushing a rule keeps the inductive invariant.
LEMMA DescendKeeps ==
    ASSUME IInv, Descend
    PROVE  IInv'
  <1>. DEFINE n == Len(stack)
  <1>1. InRule /\ Take /\ stack # <<>> /\ toks' = toks /\ Chosen.p # "-"
    BY DEF Descend, Take, InRule, Nothing
  <1>2. /\ n \in Nat /\ n > 0 /\ Top = stack[n] /\ DOMAIN stack = 1 .. n
        /\ Top.rule \in RulesAt(n) /\ Top.phase \in Phases
        /\ Top.phase = "open" => Top.from = pos
        /\ Depth(pos) = (n - 1) \div 3 - (IF Unopened THEN 1 ELSE 0)
    BY <1>1, TopIs
  <1>3. /\ pos' \in 1 .. Len(toks) + 1 /\ pos <= pos'
        /\ TakesInOrder(Top.rule, Top.phase, Chosen.p, Chosen.r, pos')
    BY <1>1, TakeEffect
  <1>4. /\ stack' # <<>> /\ Len(stack') = n + 1
        /\ \A i \in 1 .. n - 1 : stack'[i] = stack[i]
        /\ stack'[n] = Closed(Top)
        /\ stack'[n + 1] = Frame(Chosen.p, pos')
    BY StackDescended
  <1>5. /\ Top.phase = "open"
        /\ Chosen.p \in RuleNames
        /\ Top.rule = "jsonl" => Chosen.p = "record" /\ Same(pos')
        /\ Top.rule = "record" => Chosen.p = "val" /\ Same(pos')
        /\ Top.rule = "val" =>
              /\ Chosen.p \in {"map", "list"} /\ Same(pos')
              /\ pos' = pos /\ pos <= Len(toks)
        /\ Top.rule \in {"map", "list"} =>
              /\ Chosen.p \in {"pair", "elem"} /\ Depth(pos') = Depth(pos) + 1
              /\ pos < pos' /\ pos <= Len(toks)
        /\ Top.rule \in {"pair", "elem"} => Chosen.p = "val" /\ Same(pos')
    <2>1. Top.rule \in {"jsonl", "record", "val", "map", "list", "pair", "elem"}
      BY <1>2, Levels
    <2>. QED
      BY <1>1, <1>2, <1>3, <2>1, RulesAre DEF TakesInOrder, Phases
  <1>6. TypeOK'
    BY <1>1, <1>5, TypeKept, StackDescended
  <1>7. Chosen.p \in RulesAt(n + 1)
    <2>1. n + 1 \in Nat /\ n + 1 > 0
      BY <1>2
    <2>. HIDE DEF n
    <2>. QED
      BY <1>2, <1>5, <2>1, Levels, Thirds
  <1>8. /\ Closed(Top).rule = Top.rule /\ Closed(Top).phase = "close"
        /\ Closed(Top).from = Top.from
        /\ Frame(Chosen.p, pos').rule = Chosen.p /\ Frame(Chosen.p, pos').phase = "open"
        /\ Frame(Chosen.p, pos').from = pos'
    <2>1. Top \in Frames
      BY <1>1, Typed
    <2>. QED
      BY <2>1, FrameFields DEF Closed, Frames
  <1>9. DOMAIN stack' = 1 .. n + 1
    BY <1>4, <1>6 DEF TypeOK
  <1>. HIDE DEF n
  <1>10. \A i \in 1 .. n + 1 : i \in 1 .. n - 1 \/ i = n \/ i = n + 1
    BY <1>2
  <1>11. RulesNest'
    <2>1. ASSUME NEW i \in 1 .. n + 1
          PROVE  /\ stack'[i].rule \in RulesAt(i)
                 /\ i < n + 1 => stack'[i].phase = "close"
      <3>1. CASE i \in 1 .. n - 1
        <4>1. i \in 1 .. n /\ i < n
          BY <1>2, <3>1
        <4>. QED
          BY <1>2, <1>4, <3>1, <4>1 DEF IInv, RulesNest, n
      <3>2. CASE i = n
        BY <1>2, <1>4, <1>8, <3>2
      <3>3. CASE i = n + 1
        BY <1>2, <1>4, <1>7, <1>8, <3>3
      <3>. QED
        BY <1>10, <3>1, <3>2, <3>3
    <2>. QED
      BY <1>4, <1>9, <2>1 DEF RulesNest, RulesAt
  <1>12. DeepAsBrackets'
    <2>1. Top' = Frame(Chosen.p, pos')
      BY <1>4 DEF Top
    <2>2. Unopened' <=> Chosen.p \in {"map", "list"}
      BY <1>8, <2>1 DEF Unopened
    <2>3. Depth(pos') = n \div 3 - (IF Unopened' THEN 1 ELSE 0)
      <3>1. CASE Top.rule \in {"jsonl", "record", "pair", "elem"}
        <4>1. n = 1 \/ n = 2 \/ n % 3 = 2
          BY <1>2, <3>1, Levels
        <4>2. n \div 3 = (n - 1) \div 3
          BY <1>2, <4>1, Thirds
        <4>. QED
          BY <1>2, <1>5, <2>2, <3>1, <4>2 DEF Unopened, Same
      <3>2. CASE Top.rule = "val"
        <4>1. (n - 1) \div 3 \in Nat /\ n \div 3 = (n - 1) \div 3 + 1
          BY <1>2, <3>2, Levels, Thirds
        <4>. QED
          BY <1>2, <1>5, <2>2, <3>2, <4>1 DEF Unopened, Same
      <3>3. CASE Top.rule \in {"map", "list"}
        <4>1. (n - 1) \div 3 \in Nat /\ n \div 3 = (n - 1) \div 3
          BY <1>2, <3>3, Levels, Thirds
        <4>. QED
          BY <1>2, <1>5, <2>2, <3>3, <4>1 DEF Unopened
      <3>. QED
        BY <1>2, <3>1, <3>2, <3>3, Levels
    <2>. QED
      BY <1>1, <1>2, <1>4, <2>3, DepthIs DEF DeepAsBrackets
  <1>13. ValuesHaveTokens'
    <2>1. ASSUME NEW i \in 1 .. n + 1
          PROVE  /\ i = n + 1 /\ stack'[i].phase = "open" => stack'[i].from = pos'
                 /\ stack'[i].rule \in {"val", "map", "list"} /\ stack'[i].phase = "close" =>
                       /\ stack'[i].from <= Len(toks)
                       /\ stack'[i].rule # "val" \/ i = n + 1 => stack'[i].from < pos'
                 /\ stack'[i].rule = "val" /\ i < n + 1 =>
                       stack'[i].from = stack'[i + 1].from
      <3>1. CASE i \in 1 .. n - 1
        <4>1. /\ i \in 1 .. n /\ i < n /\ i # n /\ i # n + 1
              /\ i + 1 = n \/ i + 1 \in 1 .. n - 1
          BY <1>2, <3>1
        <4>2. stack'[i] = stack[i] /\ stack'[i + 1].from = stack[i + 1].from
          BY <1>2, <1>4, <1>8, <3>1, <4>1
        <4>3. /\ stack[i].rule \in {"val", "map", "list"} /\ stack[i].phase = "close" =>
                    /\ stack[i].from <= Len(toks)
                    /\ stack[i].rule # "val" => stack[i].from < pos
              /\ stack[i].rule = "val" => stack[i].from = stack[i + 1].from
          BY <1>2, <4>1 DEF IInv, ValuesHaveTokens, n
        <4>4. stack[i].from \in Int /\ pos \in Int /\ pos' \in Int
          <5>1. stack[i] \in Frames
            BY <1>2, <4>1 DEF IInv, TypeOK
          <5>2. stack[i].from \in 1 .. Len(toks) + 1
            BY <5>1, FrameFields
          <5>3. Len(toks) \in Nat /\ pos \in 1 .. Len(toks) + 1
            BY <1>1, Typed
          <5>. QED
            BY <1>3, <5>2, <5>3
        <4>. QED
          BY <1>3, <4>1, <4>2, <4>3, <4>4
      <3>2. CASE i = n
        <4>1. stack'[i] = Closed(Top) /\ stack'[i + 1].from = pos'
          BY <1>4, <1>8, <3>2
        <4>. QED
          BY <1>2, <1>5, <1>8, <3>2, <4>1
      <3>3. CASE i = n + 1
        BY <1>2, <1>4, <1>8, <3>3
      <3>. QED
        BY <1>10, <3>1, <3>2, <3>3
    <2>2. pos' > 0
      BY <1>3
    <2>. QED
      BY <1>1, <1>4, <1>9, <2>1, <2>2 DEF ValuesHaveTokens
  <1>. QED
    BY <1>6, <1>11, <1>12, <1>13 DEF IInv

\* A frame below the top keeps what the invariant says of it, as long as the
\* frame over it still begins where it did.
LEMMA BelowKept ==
    ASSUME IInv, stack # <<>>, NEW i \in 1 .. Len(stack) - 1, NEW q \in Nat, pos <= q
    PROVE  /\ stack[i].rule \in RulesAt(i) /\ stack[i].phase = "close"
           /\ stack[i].rule \in {"val", "map", "list"} =>
                 /\ stack[i].from <= Len(toks)
                 /\ stack[i].rule # "val" => stack[i].from < q
           /\ stack[i].rule = "val" => stack[i].from = stack[i + 1].from
  <1>. DEFINE n == Len(stack)
  <1>1. n \in Nat /\ DOMAIN stack = 1 .. n
    BY TopIs
  <1>2. Len(toks) \in Nat /\ pos \in 1 .. Len(toks) + 1
    BY Typed
  <1>3. i \in DOMAIN stack /\ i < n /\ i # n
    <2>1. i \in 1 .. n - 1
      OBVIOUS
    <2>. HIDE DEF n
    <2>. QED
      BY <1>1, <2>1
  <1>4. stack[i] \in Frames
    BY <1>3 DEF IInv, TypeOK
  <1>5. stack[i].from \in 1 .. Len(toks) + 1
    BY <1>4, FrameFields
  <1>6. stack[i].rule \in RulesAt(i) /\ stack[i].phase = "close"
    BY <1>3 DEF IInv, RulesNest
  <1>7. /\ stack[i].rule \in {"val", "map", "list"} =>
              /\ stack[i].from <= Len(toks)
              /\ stack[i].rule # "val" => stack[i].from < pos
        /\ stack[i].rule = "val" => stack[i].from = stack[i + 1].from
    BY <1>3, <1>6 DEF IInv, ValuesHaveTokens
  <1>8. stack[i].from < pos => stack[i].from < q
    BY <1>2, <1>5
  <1>. QED
    BY <1>6, <1>7, <1>8

\* Replacing a rule keeps it.
LEMMA ReplaceKeeps ==
    ASSUME IInv, Replace
    PROVE  IInv'
  <1>. DEFINE n == Len(stack)
  <1>1. InRule /\ Take /\ stack # <<>> /\ toks' = toks /\ Chosen.p = "-" /\ Chosen.r # "-"
    BY DEF Replace, Take, InRule, Nothing
  <1>2. /\ n \in Nat /\ n > 0 /\ Top = stack[n] /\ DOMAIN stack = 1 .. n
        /\ Top.rule \in RulesAt(n) /\ Top.phase \in Phases
        /\ Depth(pos) = (n - 1) \div 3 - (IF Unopened THEN 1 ELSE 0)
    BY <1>1, TopIs
  <1>3. /\ pos' \in 1 .. Len(toks) + 1 /\ pos <= pos'
        /\ TakesInOrder(Top.rule, Top.phase, Chosen.p, Chosen.r, pos')
    BY <1>1, TakeEffect
  <1>4. /\ stack' # <<>> /\ Len(stack') = n
        /\ \A i \in 1 .. n - 1 : stack'[i] = stack[i]
        /\ stack'[n] = Frame(Chosen.r, pos')
    BY StackReplaced
  <1>5. /\ Chosen.r \in RuleNames /\ Same(pos')
        /\ \/ Top.rule = "record" /\ Chosen.r = "record"
           \/ Top.rule \in {"pair", "elem"} /\ Chosen.r \in {"pair", "elem"}
    <2>1. Top.rule \in {"jsonl", "record", "val", "map", "list", "pair", "elem"}
      BY <1>2, Levels
    <2>. QED
      BY <1>1, <1>2, <1>3, <2>1, RulesAre DEF TakesInOrder, Phases
  <1>6. TypeOK'
    BY <1>1, <1>5, TypeKept, StackReplaced
  <1>7. /\ Frame(Chosen.r, pos').rule = Chosen.r /\ Frame(Chosen.r, pos').phase = "open"
        /\ Frame(Chosen.r, pos').from = pos'
    BY FrameFields
  <1>8. DOMAIN stack' = 1 .. n
    BY <1>4, <1>6 DEF TypeOK
  <1>9. \A i \in 1 .. n - 1 :
           /\ stack[i].rule \in RulesAt(i) /\ stack[i].phase = "close"
           /\ stack[i].rule \in {"val", "map", "list"} =>
                 /\ stack[i].from <= Len(toks)
                 /\ stack[i].rule # "val" => stack[i].from < pos'
           /\ stack[i].rule = "val" => stack[i].from = stack[i + 1].from
    BY <1>1, <1>3, BelowKept
  <1>. HIDE DEF n
  <1>10. \A i \in 1 .. n : i \in 1 .. n - 1 \/ i = n
    BY <1>2
  <1>11. Chosen.r \in RulesAt(n)
    BY <1>2, <1>5, Levels
  <1>12. RulesNest'
    <2>1. ASSUME NEW i \in 1 .. n
          PROVE  /\ stack'[i].rule \in RulesAt(i)
                 /\ i < n => stack'[i].phase = "close"
      <3>1. CASE i \in 1 .. n - 1
        BY <1>4, <1>9, <3>1
      <3>2. CASE i = n
        BY <1>2, <1>4, <1>7, <1>11, <3>2
      <3>. QED
        BY <1>10, <3>1, <3>2
    <2>. QED
      BY <1>4, <1>8, <2>1 DEF RulesNest, RulesAt
  <1>13. DeepAsBrackets'
    <2>1. Top' = Frame(Chosen.r, pos')
      BY <1>4 DEF Top
    <2>2. ~ Unopened' /\ ~ Unopened
      BY <1>5, <1>7, <2>1 DEF Unopened
    <2>. QED
      BY <1>1, <1>2, <1>4, <1>5, <2>2, DepthIs DEF DeepAsBrackets, Same
  <1>14. ValuesHaveTokens'
    <2>1. ASSUME NEW i \in 1 .. n
          PROVE  /\ i = n /\ stack'[i].phase = "open" => stack'[i].from = pos'
                 /\ stack'[i].rule \in {"val", "map", "list"} /\ stack'[i].phase = "close" =>
                       /\ stack'[i].from <= Len(toks)
                       /\ stack'[i].rule # "val" \/ i = n => stack'[i].from < pos'
                 /\ stack'[i].rule = "val" /\ i < n => stack'[i].from = stack'[i + 1].from
      <3>1. CASE i \in 1 .. n - 1
        <4>1. i # n /\ (i + 1 = n \/ i + 1 \in 1 .. n - 1)
          BY <1>2, <3>1
        <4>2. stack[i].rule = "val" => stack'[i + 1].from = stack[i + 1].from
          <5>1. i \in Nat /\ i > 0
            BY <3>1
          <5>2. stack[i].rule = "val" => i + 1 # n
            <6>1. stack[i].rule = "val" => i > 2 /\ i % 3 = 0
              BY <1>9, <3>1, <5>1, Levels
            <6>2. n = 2 \/ n % 3 = 2
              BY <1>2, <1>5, Levels
            <6>. QED
              BY <5>1, <6>1, <6>2
          <5>. QED
            BY <1>4, <4>1, <5>2
        <4>. QED
          BY <1>4, <1>9, <3>1, <4>1, <4>2
      <3>2. CASE i = n
        BY <1>2, <1>4, <1>7, <3>2
      <3>. QED
        BY <1>10, <3>1, <3>2
    <2>2. pos' > 0
      BY <1>3
    <2>. QED
      BY <1>1, <1>4, <1>8, <2>1, <2>2 DEF ValuesHaveTokens
  <1>. QED
    BY <1>6, <1>12, <1>13, <1>14 DEF IInv

\* A rule that goes from open to close keeps it.
LEMMA SettleKeeps ==
    ASSUME IInv, Settle
    PROVE  IInv'
  <1>. DEFINE n == Len(stack)
  <1>1. /\ InRule /\ Take /\ stack # <<>> /\ toks' = toks /\ Chosen.p = "-" /\ Chosen.r = "-"
        /\ Top.phase = "open"
    BY DEF Settle, Stays, Take, InRule, Nothing
  <1>2. /\ n \in Nat /\ n > 0 /\ Top = stack[n] /\ DOMAIN stack = 1 .. n
        /\ Top.rule \in RulesAt(n) /\ Top.from = pos
        /\ Depth(pos) = (n - 1) \div 3 - (IF Unopened THEN 1 ELSE 0)
    BY <1>1, TopIs
  <1>3. /\ pos' \in 1 .. Len(toks) + 1 /\ pos <= pos'
        /\ TakesInOrder(Top.rule, Top.phase, Chosen.p, Chosen.r, pos')
    BY <1>1, TakeEffect
  <1>4. /\ stack' # <<>> /\ Len(stack') = n
        /\ \A i \in 1 .. n - 1 : stack'[i] = stack[i]
        /\ stack'[n] = Closed(Top)
    BY StackSettled
  <1>5. /\ Top.rule \in {"jsonl", "record", "val"} => Same(pos')
        /\ Top.rule \in {"val", "map", "list"} => pos < pos' /\ pos <= Len(toks)
        /\ Top.rule \in {"map", "list"} => Depth(pos') = Depth(pos) + 1
        /\ Top.rule \in {"jsonl", "record", "val", "map", "list"}
    <2>1. Top.rule \in {"jsonl", "record", "val", "map", "list", "pair", "elem"}
      BY <1>2, Levels
    <2>. QED
      BY <1>1, <1>3, <2>1 DEF TakesInOrder
  <1>6. TypeOK'
    BY <1>1, TypeKept, StackSettled
  <1>7. /\ Closed(Top).rule = Top.rule /\ Closed(Top).phase = "close"
        /\ Closed(Top).from = Top.from
    <2>1. Top \in Frames
      BY <1>1, Typed
    <2>. QED
      BY <2>1 DEF Closed, Frames
  <1>8. DOMAIN stack' = 1 .. n
    BY <1>4, <1>6 DEF TypeOK
  <1>9. \A i \in 1 .. n - 1 :
           /\ stack[i].rule \in RulesAt(i) /\ stack[i].phase = "close"
           /\ stack[i].rule \in {"val", "map", "list"} =>
                 /\ stack[i].from <= Len(toks)
                 /\ stack[i].rule # "val" => stack[i].from < pos'
           /\ stack[i].rule = "val" => stack[i].from = stack[i + 1].from
    BY <1>1, <1>3, BelowKept
  <1>. HIDE DEF n
  <1>10. \A i \in 1 .. n : i \in 1 .. n - 1 \/ i = n
    BY <1>2
  <1>11. RulesNest'
    <2>1. ASSUME NEW i \in 1 .. n
          PROVE  /\ stack'[i].rule \in RulesAt(i)
                 /\ i < n => stack'[i].phase = "close"
      <3>1. CASE i \in 1 .. n - 1
        BY <1>4, <1>9, <3>1
      <3>2. CASE i = n
        BY <1>2, <1>4, <1>7, <3>2
      <3>. QED
        BY <1>10, <3>1, <3>2
    <2>. QED
      BY <1>4, <1>8, <2>1 DEF RulesNest, RulesAt
  <1>12. DeepAsBrackets'
    <2>1. Top' = Closed(Top)
      BY <1>4 DEF Top
    <2>2. ~ Unopened' /\ (Unopened <=> Top.rule \in {"map", "list"})
      BY <1>1, <1>7, <2>1 DEF Unopened
    <2>3. (n - 1) \div 3 \in Nat
      BY <1>2, Thirds
    <2>4. Depth(pos') = (n - 1) \div 3
      BY <1>2, <1>5, <2>2, <2>3 DEF Same
    <2>. QED
      BY <1>1, <1>4, <2>2, <2>3, <2>4, DepthIs DEF DeepAsBrackets
  <1>13. ValuesHaveTokens'
    <2>1. ASSUME NEW i \in 1 .. n
          PROVE  /\ i = n /\ stack'[i].phase = "open" => stack'[i].from = pos'
                 /\ stack'[i].rule \in {"val", "map", "list"} /\ stack'[i].phase = "close" =>
                       /\ stack'[i].from <= Len(toks)
                       /\ stack'[i].rule # "val" \/ i = n => stack'[i].from < pos'
                 /\ stack'[i].rule = "val" /\ i < n => stack'[i].from = stack'[i + 1].from
      <3>1. CASE i \in 1 .. n - 1
        <4>1. i # n /\ (i + 1 = n \/ i + 1 \in 1 .. n - 1)
          BY <1>2, <3>1
        <4>2. stack'[i + 1].from = stack[i + 1].from
          BY <1>2, <1>4, <1>7, <4>1
        <4>. QED
          BY <1>4, <1>9, <3>1, <4>1, <4>2
      <3>2. CASE i = n
        BY <1>2, <1>4, <1>5, <1>7, <3>2
      <3>. QED
        BY <1>10, <3>1, <3>2
    <2>2. pos' > 0
      BY <1>3
    <2>. QED
      BY <1>1, <1>4, <1>8, <2>1, <2>2 DEF ValuesHaveTokens
  <1>. QED
    BY <1>6, <1>11, <1>12, <1>13 DEF IInv

\* A rule that ends, and gives its value to the one below, keeps it.
LEMMA ReturnKeeps ==
    ASSUME IInv, Return
    PROVE  IInv'
  <1>. DEFINE n == Len(stack)
  <1>1. /\ InRule /\ Take /\ stack # <<>> /\ toks' = toks /\ Chosen.p = "-" /\ Chosen.r = "-"
        /\ Top.phase = "close"
    BY DEF Return, Stays, Take, InRule, Nothing
  <1>2. /\ n \in Nat /\ n > 0 /\ Top = stack[n] /\ DOMAIN stack = 1 .. n
        /\ Top.rule \in RulesAt(n)
        /\ Depth(pos) = (n - 1) \div 3 - (IF Unopened THEN 1 ELSE 0)
    BY <1>1, TopIs
  <1>3. /\ pos' \in 1 .. Len(toks) + 1 /\ pos <= pos' /\ pos \in 1 .. Len(toks) + 1
        /\ Len(toks) \in Nat
        /\ TakesInOrder(Top.rule, Top.phase, Chosen.p, Chosen.r, pos')
    BY <1>1, TakeEffect, Typed
  <1>4. /\ ValueOf(Top, pos') \in Spans \cup {NoValue} => stack' \in Seq(Frames)
        /\ Len(stack') = n - 1
        /\ \A i \in 1 .. n - 2 : stack'[i] = stack[i]
        /\ n > 1 => stack'[n - 1] = [stack[n - 1] EXCEPT !.child = ValueOf(Top, pos')]
    BY StackReturned
  <1>5. /\ Top.rule \in {"jsonl", "record", "val", "pair", "elem"} => Same(pos')
        /\ Top.rule = "val" => pos' = pos
        /\ Top.rule \in {"map", "list"} => Depth(pos') = Depth(pos) - 1
        /\ Top.rule \in {"jsonl", "record", "val", "map", "list", "pair", "elem"}
    <2>1. Top.rule \in {"jsonl", "record", "val", "map", "list", "pair", "elem"}
      BY <1>2, Levels
    <2>. QED
      BY <1>1, <1>3, <2>1 DEF TakesInOrder
  <1>6. /\ Top.from \in 1 .. Len(toks) + 1
        /\ Top.rule \in {"val", "map", "list"} => Top.from <= Len(toks) /\ Top.from < pos
    <2>1. Top \in Frames /\ n \in DOMAIN stack
      BY <1>1, <1>2, Typed
    <2>. QED
      BY <1>1, <1>2, <2>1, FrameFields DEF IInv, ValuesHaveTokens
  <1>7. ValueOf(Top, pos') \in Spans \cup {NoValue}
    <2>1. CASE Top.rule = "val"
      <3>1. Top.from \in DOMAIN toks /\ pos' - 1 \in DOMAIN toks
        <4>1. DOMAIN toks = 1 .. Len(toks)
          BY Typed
        <4>. QED
          BY <1>3, <1>5, <1>6, <2>1, <4>1
      <3>2. \A k \in DOMAIN toks : toks[k].at \in 1 .. Len(src)
        <4>1. toks \in Seq(Tokens(src))
          BY Typed
        <4>2. \A k \in DOMAIN toks : toks[k] \in Tokens(src)
          BY <4>1
        <4>. QED
          BY <4>2 DEF Tokens
      <3>. QED
        BY <2>1, <3>1, <3>2 DEF ValueOf, Spans
    <2>2. CASE Top.rule # "val"
      BY <2>2 DEF ValueOf
    <2>. QED
      BY <2>1, <2>2
  <1>8. TypeOK'
    BY <1>1, <1>4, <1>7, TypeKept
  <1>9. DOMAIN stack' = 1 .. n - 1
    BY <1>4, <1>8 DEF TypeOK
  <1>10. \A i \in 1 .. n - 1 :
           /\ stack[i].rule \in RulesAt(i) /\ stack[i].phase = "close"
           /\ stack[i].rule \in {"val", "map", "list"} =>
                 /\ stack[i].from <= Len(toks)
                 /\ stack[i].rule # "val" => stack[i].from < pos'
           /\ stack[i].rule = "val" => stack[i].from = stack[i + 1].from
    BY <1>1, <1>3, BelowKept
  <1>. HIDE DEF n
  <1>11. \A i \in 1 .. n - 1 :
            /\ stack'[i].rule = stack[i].rule /\ stack'[i].phase = stack[i].phase
            /\ stack'[i].from = stack[i].from
    <2>. SUFFICES ASSUME NEW i \in 1 .. n - 1
                  PROVE  /\ stack'[i].rule = stack[i].rule /\ stack'[i].phase = stack[i].phase
                         /\ stack'[i].from = stack[i].from
      OBVIOUS
    <2>1. i \in 1 .. n - 2 \/ i = n - 1
      BY <1>2
    <2>2. CASE i \in 1 .. n - 2
      BY <1>4, <2>2
    <2>3. CASE i = n - 1
      <3>1. n > 1 /\ stack[i] \in Frames
        <4>1. n > 1 /\ i \in DOMAIN stack
          BY <1>2, <2>3
        <4>. QED
          BY <4>1 DEF IInv, TypeOK
      <3>2. stack'[i] = [stack[i] EXCEPT !.child = ValueOf(Top, pos')]
        BY <1>4, <2>3, <3>1
      <3>. QED
        BY <3>1, <3>2 DEF Frames
    <2>. QED
      BY <2>1, <2>2, <2>3
  <1>12. RulesNest'
    <2>1. \A i \in 1 .. n - 1 : stack'[i].rule \in RulesAt(i) /\ stack'[i].phase = "close"
      BY <1>10, <1>11
    <2>. QED
      BY <1>9, <2>1 DEF RulesNest, RulesAt
  <1>13. DeepAsBrackets'
    <2>1. ~ Unopened
      BY <1>1 DEF Unopened
    <2>2. CASE n = 1
      <3>1. stack' = <<>> /\ Top.rule = "jsonl"
        BY <1>2, <1>4, <1>8, <2>2, Levels DEF TypeOK
      <3>2. Depth(pos') = 0
        BY <1>2, <1>5, <2>1, <2>2, <3>1 DEF Same
      <3>. QED
        BY <1>1, <3>1, <3>2, DepthIs DEF DeepAsBrackets
    <2>3. CASE n > 1
      <3>1. stack' # <<>> /\ n - 1 \in 1 .. n - 1 /\ n - 1 \in Nat
        BY <1>2, <1>4, <2>3
      <3>2. ~ Unopened'
        <4>1. Top'.phase = "close"
          BY <1>4, <1>10, <1>11, <3>1 DEF Top
        <4>. QED
          BY <4>1 DEF Unopened
      <3>3. Depth(pos') = (n - 2) \div 3
        <4>1. CASE Top.rule \in {"map", "list"}
          <5>1. n > 2 /\ n % 3 = 1
            BY <1>2, <4>1, Levels
          <5>2. (n - 2) \div 3 = (n - 1) \div 3 - 1
            BY <1>2, <5>1
          <5>. QED
            BY <1>2, <1>5, <2>1, <4>1, <5>2
        <4>2. CASE Top.rule \notin {"map", "list"}
          <5>1. n = 2 \/ (n > 2 /\ n % 3 = 0) \/ (n > 2 /\ n % 3 = 2)
            BY <1>2, <1>5, <2>3, <4>2, Levels
          <5>2. (n - 2) \div 3 = (n - 1) \div 3
            BY <1>2, <5>1
          <5>. QED
            BY <1>2, <1>5, <2>1, <4>2, <5>2 DEF Same
        <4>. QED
          BY <4>1, <4>2
      <3>4. n - 1 - 1 = n - 2 /\ (n - 2) \div 3 \in Int
        BY <1>2, <2>3
      <3>. QED
        BY <1>1, <1>4, <3>1, <3>2, <3>3, <3>4, DepthIs DEF DeepAsBrackets
    <2>4. n = 1 \/ n > 1
      BY <1>2
    <2>. QED
      BY <2>2, <2>3, <2>4
  <1>14. ValuesHaveTokens'
    <2>1. ASSUME NEW i \in 1 .. n - 1
          PROVE  /\ stack'[i].phase # "open"
                 /\ stack'[i].rule \in {"val", "map", "list"} =>
                       /\ stack'[i].from <= Len(toks)
                       /\ stack'[i].rule # "val" \/ i = n - 1 => stack'[i].from < pos'
                 /\ stack'[i].rule = "val" /\ i < n - 1 => stack'[i].from = stack'[i + 1].from
      <3>1. i < n - 1 => i + 1 \in 1 .. n - 1
        BY <1>2
      <3>2. stack[i].rule = "val" /\ i = n - 1 => stack[i].from < pos'
        <4>. SUFFICES ASSUME stack[i].rule = "val", i = n - 1
                      PROVE  stack[i].from < pos'
          OBVIOUS
        <4>1. i % 3 = 0 /\ i > 2
          <5>1. i \in Nat /\ i > 0 /\ "val" \in RulesAt(i)
            BY <1>10
          <5>. QED
            BY <5>1, Levels
        <4>2. n % 3 = 1 /\ i + 1 = n
          BY <1>2, <4>1
        <4>3. Top.rule \in {"map", "list"}
          <5>1. n > 2
            BY <1>2, <4>1
          <5>. QED
            BY <1>2, <1>5, <4>2, <5>1, Levels
        <4>4. stack[i].from = Top.from
          BY <1>2, <1>10, <4>2
        <4>. QED
          BY <1>3, <1>6, <4>3, <4>4
      <3>. QED
        BY <1>10, <1>11, <3>1, <3>2
    <2>2. pos' > 0
      BY <1>3
    <2>. QED
      BY <1>1, <1>4, <1>9, <2>1, <2>2 DEF ValuesHaveTokens
  <1>. QED
    BY <1>8, <1>12, <1>13, <1>14 DEF IInv

\* It holds of a parser before its first parse.
LEMMA InitKeeps == Init => IInv
  <1>. SUFFICES ASSUME Init
                PROVE  IInv
    OBVIOUS
  <1>1. src \in Seq(Lexeme) /\ toks = Lex(src) /\ pos = 0 /\ stack = <<>> /\ node = Absent
    BY DocsAreSources DEF Init
  <1>2. Len(toks) \in Nat
    BY <1>1, LexMakesTokens
  <1>3. verdict \in [kind : {"reading", "accepted", "refused"}, row : Nat]
    BY DEF Init, Lines!Reading
  <1>4. stack \in Seq(Frames) /\ DOMAIN stack = {}
    BY <1>1
  <1>5. TypeOK
    BY <1>1, <1>2, <1>3, <1>4 DEF TypeOK
  <1>6. OpenBrackets = 0
    BY <1>1, DepthFirst DEF OpenBrackets, Depth
  <1>. QED
    BY <1>1, <1>4, <1>5, <1>6 DEF IInv, RulesNest, DeepAsBrackets, ValuesHaveTokens

\* The row of a token, or of the end of the source.
LEMMA RowsGiven ==
    ASSUME IInv, pos > 0
    PROVE  RowAt(pos) \in Nat
  <1>1. /\ toks \in Seq(Tokens(src)) /\ Len(toks) \in Nat /\ pos \in 1 .. Len(toks) + 1
        /\ src \in Seq(Lexeme)
    BY Typed DEF IInv, TypeOK
  <1>2. CASE pos <= Len(toks)
    <2>1. toks[pos] \in Tokens(src)
      BY <1>1, <1>2
    <2>. QED
      BY <1>2, <2>1 DEF RowAt, Tokens
  <1>3. CASE ~ (pos <= Len(toks))
    <2>1. Len(src) + 1 \in Nat
      BY <1>1
    <2>. QED
      BY <1>1, <1>3, <2>1, RowsAreNumbers DEF RowAt
  <1>. QED
    BY <1>2, <1>3

\* A step that only settles the verdict.
LEMMA VerdictKeeps ==
    ASSUME IInv, UNCHANGED <<src, toks, pos, stack, node>>,
           verdict' \in [kind : {"reading", "accepted", "refused"}, row : Nat]
    PROVE  IInv'
  <1>1. TypeOK'
    BY DEF IInv, TypeOK, Frames, Spans
  <1>2. RulesNest'
    BY DEF IInv, RulesNest, RulesAt
  <1>3. DeepAsBrackets'
    <2>1. OpenBrackets' = OpenBrackets
      BY DEF OpenBrackets
    <2>2. Unopened' <=> Unopened
      BY DEF Unopened, Top
    <2>. QED
      BY <2>1, <2>2 DEF IInv, DeepAsBrackets
  <1>4. ValuesHaveTokens'
    BY DEF IInv, ValuesHaveTokens
  <1>. QED
    BY <1>1, <1>2, <1>3, <1>4 DEF IInv

\* A parse that begins keeps it.
LEMMA BeginKeeps ==
    ASSUME IInv, Begin
    PROVE  IInv'
  <1>1. pos = 0 /\ toks' = toks /\ src' = src /\ node' = node
    BY DEF Begin
  <1>2. CASE src = <<>>
    <2>1. verdict' \in [kind : {"reading", "accepted", "refused"}, row : Nat]
      BY <1>2 DEF Begin, Lines!Refused
    <2>. QED
      BY <1>1, <1>2, <2>1, VerdictKeeps DEF Begin
  <1>3. CASE src # <<>>
    <2>1. /\ pos' = 1 /\ stack' = <<Frame("jsonl", 1)>> /\ verdict' = verdict
      BY <1>3 DEF Begin, Start
    <2>2. Len(toks) \in Nat /\ 1 \in 1 .. Len(toks) + 1
      BY Typed
    <2>3. Frame("jsonl", 1) \in Frames
      BY <2>2, FrameFields, RulesAre
    <2>. DEFINE f == Frame("jsonl", 1)
    <2>4. f.rule = "jsonl" /\ f.phase = "open" /\ f.from = 1
      BY FrameFields
    <2>. HIDE DEF f
    <2>5. stack' = <<f>>
      BY <2>1 DEF f
    <2>6. /\ stack' \in Seq(Frames) /\ Len(stack') = 1 /\ stack' # <<>>
          /\ DOMAIN stack' = {1} /\ stack'[1] = f
      BY <2>3, <2>5 DEF f
    <2>7. TypeOK'
      <3>1. Frames' = Frames /\ Spans' = Spans
        BY <1>1 DEF Frames, Spans
      <3>. QED
        BY <1>1, <2>1, <2>2, <2>6, <3>1 DEF IInv, TypeOK
    <2>8. RulesNest'
      BY <2>4, <2>6 DEF RulesNest, RulesAt
    <2>9. DeepAsBrackets'
      <3>1. Depth(pos') = 0
        BY <2>1, DepthFirst
      <3>2. ~ Unopened'
        BY <2>4, <2>6 DEF Unopened, Top
      <3>3. (Len(stack') - 1) \div 3 - 0 = 0
        BY <2>6
      <3>4. OpenBrackets' = 0
        BY <1>1, <3>1, DepthIs
      <3>. QED
        BY <2>6, <3>2, <3>3, <3>4 DEF DeepAsBrackets
    <2>10. ValuesHaveTokens'
      BY <2>1, <2>4, <2>6 DEF ValuesHaveTokens
    <2>. QED
      BY <2>7, <2>8, <2>9, <2>10 DEF IInv
  <1>. QED
    BY <1>2, <1>3

\* The stack nests as the brackets do, and values keep their tokens, at every
\* step of every parse.
THEOREM Invariance == Spec => []IInv
  <1>1. Init => IInv
    BY InitKeeps
  <1>2. ASSUME IInv, [Next]_vars
        PROVE  IInv'
    <2>1. CASE Begin
      BY <1>2, <2>1, BeginKeeps
    <2>2. CASE Unexpected
      <3>1. RowAt(pos) \in Nat
        BY <1>2, <2>2, RowsGiven, Typed DEF Unexpected, InRule
      <3>2. verdict' \in [kind : {"reading", "accepted", "refused"}, row : Nat]
        BY <2>2, <3>1 DEF Unexpected, Lines!Refused
      <3>. QED
        BY <1>2, <2>2, <3>2, VerdictKeeps DEF Unexpected
    <2>3. CASE Descend
      BY <1>2, <2>3, DescendKeeps
    <2>4. CASE Replace
      BY <1>2, <2>4, ReplaceKeeps
    <2>5. CASE Settle
      BY <1>2, <2>5, SettleKeeps
    <2>6. CASE Return
      BY <1>2, <2>6, ReturnKeeps
    <2>7. CASE Finish
      <3>1. RowAt(pos) \in Nat
        BY <1>2, <2>7, RowsGiven DEF Finish
      <3>2. verdict' \in [kind : {"reading", "accepted", "refused"}, row : Nat]
        BY <2>7, <3>1 DEF Finish, Lines!Refused, Lines!Accepted
      <3>. QED
        BY <1>2, <2>7, <3>2, VerdictKeeps DEF Finish
    <2>8. CASE UNCHANGED vars
      <3>1. verdict' \in [kind : {"reading", "accepted", "refused"}, row : Nat]
        BY <1>2, <2>8 DEF IInv, TypeOK, vars
      <3>. QED
        BY <1>2, <2>8, <3>1, VerdictKeeps DEF vars
    <2>. QED
      BY <1>2, <2>1, <2>2, <2>3, <2>4, <2>5, <2>6, <2>7, <2>8 DEF Next, Step, Returned
  <1>. QED
    BY <1>1, <1>2, PTL DEF Spec

\* Every state of a parse is typed.
THEOREM TypeCorrect == Spec => []TypeOK
  <1>1. IInv => TypeOK
    BY DEF IInv
  <1>. QED
    BY <1>1, Invariance, PTL

\* The stack grows with the nesting of the line being read, never with the
\* number of its lines: whatever the document, of any length.
THEOREM StackBounded == Spec => []StackByNesting
  <1>1. ASSUME IInv
        PROVE  StackByNesting
    <2>1. CASE stack = <<>>
      <3>1. Len(stack) = 0 /\ OpenBrackets = 0
        BY <1>1, <2>1 DEF IInv, DeepAsBrackets
      <3>. QED
        BY <3>1 DEF StackByNesting
    <2>2. CASE stack # <<>>
      <3>1. /\ Len(stack) \in Nat /\ Len(stack) > 0
            /\ Depth(pos) = (Len(stack) - 1) \div 3 - (IF Unopened THEN 1 ELSE 0)
            /\ Top.rule \in RulesAt(Len(stack))
        BY <1>1, <2>2, TopIs
      <3>2. OpenBrackets = Depth(pos)
        BY DEF OpenBrackets, Depth
      <3>. DEFINE n == Len(stack)
      <3>. HIDE DEF n
      <3>3. n \in Nat /\ n > 0 /\ Depth(pos) = (n - 1) \div 3 - (IF Unopened THEN 1 ELSE 0)
        BY <3>1 DEF n
      <3>4. Unopened => n % 3 = 1
        BY <3>1, <3>3, Levels DEF Unopened, n
      <3>5. n <= 4 + 3 * Depth(pos)
        <4>1. CASE Unopened
          <5>1. n = 3 * ((n - 1) \div 3) + 1
            BY <3>3, <3>4, <4>1
          <5>. QED
            BY <3>3, <4>1, <5>1
        <4>2. CASE ~ Unopened
          <5>1. n <= 3 * ((n - 1) \div 3) + 3
            BY <3>3
          <5>. QED
            BY <3>3, <4>2, <5>1
        <4>. QED
          BY <4>1, <4>2
      <3>. QED
        BY <3>2, <3>5 DEF StackByNesting, n
    <2>. QED
      BY <2>1, <2>2
  <1>. QED
    BY <1>1, Invariance, PTL
=============================================================================
