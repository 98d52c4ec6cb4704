---------------------------- MODULE LibraryProofs ----------------------------
(***************************************************************************)
(* Theorems about the parts of the library that MCLibrary brings together, *)
(* for any number of threads and parses, steps and values.                 *)
(***************************************************************************)
EXTENDS MCLibrary, TLAPS, SequenceTheorems, FiniteSetTheorems, Recursion

-----------------------------------------------------------------------------
(* The first parse: DefaultParser.                                         *)

\* What the plugins make of an engine is one, by what they set.
LEMMA JsonMakes ==
    ASSUME NEW e \in Engine
    PROVE  /\ Json(e) \in Engine
           /\ Json(e).alts = {"json"} /\ Relaxed(Json(e)) = {}
  BY DEF Engine, Json, WithAlts, WithInclude, Tags, Switches, Relaxed

\* And what jsonl itself makes of one, in every field.
LEMMA InstalledMakes ==
    ASSUME NEW e \in Engine
    PROVE  /\ Installed(e) \in Engine
           /\ Installed(e).alts = (e.alts \cap {"json"}) \cup {"jsonl"}
           /\ Installed(e).start = "jsonl" /\ Installed(e).skipsLN = FALSE
           /\ Installed(e).text = e.text /\ Installed(e).comment = e.comment
           /\ Installed(e).quotes = e.quotes
  <1>. DEFINE f == JsonlOptions(e)
  <1>1. /\ f \in Engine
        /\ f.alts = e.alts \cap {"json", "jsonl"} /\ f.include = {"json", "jsonl"}
        /\ f.start = "jsonl" /\ f.skipsLN = FALSE
        /\ f.text = e.text /\ f.comment = e.comment /\ f.quotes = e.quotes
    BY DEF Engine, JsonlOptions, WithInclude, Tags
  <1>. HIDE DEF f
  <1>2. Installed(e) = WithAlts(f, "jsonl")
    BY DEF f, Installed, RegisterJsonlGrammar
  <1>. QED
    BY <1>1, <1>2 DEF WithAlts, Engine, Tags

(***************************************************************************)
(* What Make returns is a strict parser of lines, and the plugin does not  *)
(* refuse the base it is given there.                                      *)
(***************************************************************************)
LEMMA MadeIsStrict ==
    /\ Bare \in Engine /\ Json(Bare) \in Engine /\ Made \in Engine
    /\ StrictJsonBase(Json(Bare)) /\ StrictLines(Made)
  <1>1. Bare \in Engine
    BY DEF Bare, Engine, Tags, Switches
  <1>2. /\ Json(Bare) \in Engine /\ Json(Bare).alts = {"json"} /\ Relaxed(Json(Bare)) = {}
    BY <1>1, JsonMakes
  <1>3. StrictJsonBase(Json(Bare))
    BY <1>2 DEF StrictJsonBase, HasVal
  <1>4. /\ Json(Bare).text = "off" /\ Json(Bare).comment = "off"
        /\ Json(Bare).quotes = "strict"
    BY <1>2 DEF Relaxed
  <1>5. /\ Made \in Engine /\ Made.alts = {"json", "jsonl"} /\ Made.start = "jsonl"
        /\ Made.text = "off" /\ Made.comment = "off" /\ Made.quotes = "strict"
        /\ Made.skipsLN = FALSE
    BY <1>2, <1>4, InstalledMakes DEF Made
  <1>6. StrictLines(Made)
    BY <1>5 DEF StrictLines, Documents, Accepts, ParsesLines, Lets
  <1>. QED
    BY <1>1, <1>2, <1>3, <1>5, <1>6

\* Nothing has been made when the program starts.
LEMMA FirstParseInit == Init => IInv
  <1>. SUFFICES ASSUME Init PROVE IInv
    OBVIOUS
  <1>1. engines = <<>> /\ engines \in Seq(Engine) /\ Len(engines) = 0
    BY DEF Init
  <1>2. 0 \in 0 .. Len(engines) /\ 0 \in 0 .. MaxParses
    BY <1>1, MaxParsesIsNat
  <1>3. TypeOK
    BY <1>1, <1>2 DEF Init, TypeOK, Labels
  <1>. QED
    BY <1>1, <1>3, NobodyIsNoThread
    DEF Init, IInv, OneAtATime, MadeInOrder, OneParser, DoneFirst, At

\* Each step of a parse keeps the invariant of the first one.
LEMMA FirstParseNext == IInv /\ [Next]_vars => IInv'
  <1>. SUFFICES ASSUME IInv, [Next]_vars PROVE IInv'
    OBVIOUS
  <1>1. /\ TypeOK /\ OneAtATime /\ MadeInOrder /\ OneParser /\ DoneFirst
    BY DEF IInv
  <1>. DEFINE Maker(t) == pc[t] \in {"json", "jsonl", "assign"}
  <1>0. ASSUME NEW t \in Threads, Maker(t)
        PROVE  /\ making[t] = 1 /\ Len(engines) = 1
               /\ engines[1] = CASE At(t, "json") -> Bare [] At(t, "jsonl") -> Json(Bare)
                                 [] At(t, "assign") -> Made
    <2>1. \E e \in Engine : engines = <<e>>
      BY <1>0, <1>1, MadeIsStrict DEF MadeInOrder, At
    <2>2. Len(engines) = 1
      BY <2>1
    <2>3. making[t] \in 0 .. Len(engines) /\ making[t] # 0
      BY <1>0, <1>1 DEF TypeOK
    <2>4. making[t] = 1
      BY <2>2, <2>3
    <2>. QED
      BY <1>0, <1>1, <2>2, <2>4 DEF MadeInOrder, At
  <1>2. CASE UNCHANGED vars
    BY <1>1, <1>2
    DEF IInv, vars, TypeOK, OneAtATime, MadeInOrder, OneParser, DoneFirst, At
  <1>3. ASSUME NEW t \in Threads, Parse(t)
        PROVE  IInv'
    <2>1. parses' \in [Threads -> 0 .. MaxParses]
      BY <1>1, <1>3, MaxParsesIsNat DEF TypeOK, Parse
    <2>2. TypeOK'
      BY <1>1, <1>3, <2>1 DEF TypeOK, Parse, Goto, At, Labels
    <2>. QED
      BY <1>1, <1>3, <2>2
      DEF IInv, TypeOK, OneAtATime, MadeInOrder, OneParser, DoneFirst, Parse, Goto, At
  <1>4. ASSUME NEW t \in Threads, DoFast(t) \/ DoSlow(t) \/ DoLock(t)
        PROVE  IInv'
    <2>1. TypeOK'
      BY <1>1, <1>4 DEF TypeOK, DoFast, DoSlow, DoLock, Goto, At, Labels
    <2>2. OneAtATime'
      BY <1>1, <1>4, NobodyIsNoThread DEF TypeOK, OneAtATime, DoFast, DoSlow, DoLock, Goto, At
    <2>3. MadeInOrder' /\ OneParser' /\ DoneFirst'
      BY <1>1, <1>4
      DEF TypeOK, MadeInOrder, OneParser, DoneFirst, DoFast, DoSlow, DoLock, Goto, At
    <2>. QED
      BY <2>1, <2>2, <2>3 DEF IInv
  <1>5. ASSUME NEW t \in Threads, DoAgain(t)
        PROVE  IInv'
    <2>1. TypeOK'
      BY <1>1, <1>5 DEF TypeOK, DoAgain, Goto, At, Labels
    <2>2. OneAtATime'
      BY <1>1, <1>5 DEF TypeOK, OneAtATime, DoAgain, Goto, At
    <2>3. \A u \in Threads : u # t =>
             pc[u] \notin {"locked", "make", "json", "jsonl", "assign", "return"}
      BY <1>1, <1>5 DEF OneAtATime, DoAgain, At
    <2>4. ~done => parser = 0 /\ engines = <<>>
      BY <1>1, <1>5, <2>3 DEF OneParser, DoAgain, At
    <2>5. MadeInOrder' /\ OneParser' /\ DoneFirst'
      BY <1>1, <1>5, <2>3, <2>4
      DEF TypeOK, MadeInOrder, OneParser, DoneFirst, DoAgain, Goto, At
    <2>. QED
      BY <2>1, <2>2, <2>5 DEF IInv
  <1>6. ASSUME NEW t \in Threads, Make(t) \/ MakeJson(t) \/ MakeJsonl(t)
        PROVE  IInv'
    <2>1. \A u \in Threads : u # t =>
             pc[u] \notin {"locked", "make", "json", "jsonl", "assign", "return"}
      BY <1>1, <1>6 DEF OneAtATime, Make, MakeJson, MakeJsonl, At
    <2>2. /\ Make(t) => engines' = <<Bare>> /\ making'[t] = 1
          /\ MakeJson(t) => making[t] = 1 /\ engines' = <<Json(Bare)>>
          /\ MakeJsonl(t) => making[t] = 1 /\ engines' = <<Made>>
      <3>1. CASE Make(t)
        <4>1. engines = <<>> /\ making \in [Threads -> 0 .. Len(engines)]
          BY <1>1, <3>1 DEF TypeOK, MadeInOrder, Make, At
        <4>2. engines' = <<Bare>>
          BY <4>1, <3>1 DEF Make
        <4>. QED
          BY <3>1, <4>1, <4>2 DEF Make, MakeJson, MakeJsonl, At
      <3>2. CASE MakeJson(t)
        <4>1. At(t, "json") /\ making[t] = 1 /\ engines = <<Bare>>
          BY <1>0, <1>1, <3>2 DEF MadeInOrder, MakeJson, At
        <4>2. engines' = [engines EXCEPT ![1] = Json(engines[1])]
          BY <3>2, <4>1 DEF MakeJson
        <4>3. engines' = <<Json(Bare)>>
          BY <4>1, <4>2
        <4>. QED
          BY <4>1, <4>3, <3>2 DEF Make, MakeJson, MakeJsonl, At
      <3>3. CASE MakeJsonl(t)
        <4>1. At(t, "jsonl") /\ making[t] = 1 /\ engines = <<Json(Bare)>>
          BY <1>0, <1>1, <3>3 DEF MadeInOrder, MakeJsonl, At
        <4>2. engines' = [engines EXCEPT ![1] = Installed(engines[1])]
          BY <3>3, <4>1 DEF MakeJsonl
        <4>3. engines' = <<Made>>
          BY <4>1, <4>2 DEF Made
        <4>. QED
          BY <4>1, <4>3, <3>3 DEF Make, MakeJson, MakeJsonl, At
      <3>. QED
        BY <1>6, <3>1, <3>2, <3>3
    <2>3. engines' \in Seq(Engine) /\ Len(engines') = 1
      <3>1. \E e \in Engine : engines' = <<e>>
        BY <1>6, <2>2, MadeIsStrict
      <3>. QED
        BY <3>1
    <2>4. parser = 0 /\ ~done /\ parser' = 0 /\ ~done'
      BY <1>1, <1>6 DEF MadeInOrder, Make, MakeJson, MakeJsonl, At
    <2>5. TypeOK'
      <3>1. Len(engines) = 0 \/ Len(engines) = 1
        <4>1. Make(t) => Len(engines) = 0
          BY <1>1 DEF MadeInOrder, Make, At
        <4>2. ~Make(t) => Len(engines) = 1
          BY <1>0, <1>6 DEF MakeJson, MakeJsonl, At
        <4>. QED
          BY <4>1, <4>2
      <3>2. 0 .. Len(engines) \subseteq 0 .. 1 /\ 0 .. Len(engines') = 0 .. 1
        <4>1. \A n \in {0, 1} : 0 .. n \subseteq 0 .. 1
          OBVIOUS
        <4>. QED
          BY <2>3, <3>1, <4>1
      <3>3. making \in [Threads -> 0 .. 1] /\ using \in [Threads -> 0 .. 1]
        BY <1>1, <3>2 DEF TypeOK
      <3>4. making' \in [Threads -> 0 .. 1]
        <4>1. UNCHANGED making \/ making' = [making EXCEPT ![t] = Len(engines')]
          BY <1>6 DEF Make, MakeJson, MakeJsonl
        <4>. QED
          BY <2>3, <3>3, <4>1
      <3>5. /\ making' \in [Threads -> 0 .. Len(engines')]
            /\ using' \in [Threads -> 0 .. Len(engines')]
            /\ parser' \in 0 .. Len(engines')
        <4>1. UNCHANGED using
          BY <1>6 DEF Make, MakeJson, MakeJsonl
        <4>. QED
          BY <2>4, <3>2, <3>3, <3>4, <4>1
      <3>6. \A u \in Threads : making'[u] # 0 <=> pc'[u] \in {"json", "jsonl", "assign"}
        <4>1. /\ pc \in [Threads -> Labels] /\ making \in [Threads -> 0 .. 1]
              /\ \A u \in Threads : making[u] # 0 <=> pc[u] \in {"json", "jsonl", "assign"}
          BY <1>1, <3>3 DEF TypeOK
        <4>2. CASE Make(t)
          BY <2>3, <4>1, <4>2 DEF Make, Goto, At
        <4>3. CASE MakeJson(t) \/ MakeJsonl(t)
          BY <4>1, <4>3 DEF MakeJson, MakeJsonl, Goto, At
        <4>. QED
          BY <1>6, <4>2, <4>3
      <3>7. /\ pc' \in [Threads -> Labels]
            /\ UNCHANGED <<done, once, parses>>
        BY <1>1, <1>6 DEF TypeOK, Make, MakeJson, MakeJsonl, Goto, Labels
      <3>. QED
        BY <1>1, <2>3, <3>5, <3>6, <3>7 DEF TypeOK
    <2>6. OneAtATime' /\ DoneFirst'
      BY <1>1, <1>6
      DEF TypeOK, OneAtATime, DoneFirst, Make, MakeJson, MakeJsonl, Goto, At
    <2>7. MadeInOrder' /\ OneParser'
      BY <1>1, <1>6, <2>1, <2>2, <2>4
      DEF TypeOK, MadeInOrder, OneParser, Make, MakeJson, MakeJsonl, Goto, At
    <2>. QED
      BY <2>5, <2>6, <2>7 DEF IInv
  <1>7. ASSUME NEW t \in Threads, Assign(t)
        PROVE  IInv'
    <2>1. \A u \in Threads : u # t =>
             pc[u] \notin {"locked", "make", "json", "jsonl", "assign", "return"}
      BY <1>1, <1>7 DEF OneAtATime, Assign, At
    <2>2. engines = <<Made>> /\ making[t] = 1 /\ ~done
      BY <1>0, <1>1, <1>7 DEF MadeInOrder, Assign, At
    <2>3. TypeOK'
      BY <1>1, <1>7 DEF TypeOK, Assign, Goto, At, Labels
    <2>. QED
      BY <1>1, <1>7, <2>1, <2>2, <2>3
      DEF IInv, TypeOK, OneAtATime, MadeInOrder, OneParser, DoneFirst, Assign, Goto, At
  <1>8. ASSUME NEW t \in Threads, DoReturn(t)
        PROVE  IInv'
    <2>1. \A u \in Threads : u # t =>
             pc[u] \notin {"locked", "make", "json", "jsonl", "assign", "return"}
      BY <1>1, <1>8 DEF OneAtATime, DoReturn, At
    <2>2. TypeOK'
      BY <1>1, <1>8 DEF TypeOK, DoReturn, Goto, At, Labels
    <2>. QED
      BY <1>1, <1>8, <2>1, <2>2, NobodyIsNoThread
      DEF IInv, TypeOK, OneAtATime, MadeInOrder, OneParser, DoneFirst, DoReturn, Goto, At
  <1>9. ASSUME NEW t \in Threads, Load(t) \/ Return(t)
        PROVE  IInv'
    <2>1. TypeOK'
      BY <1>1, <1>9 DEF TypeOK, Load, Return, Goto, At, Labels
    <2>2. Load(t) => parser # 0
      BY <1>1, <1>9 DEF DoneFirst, OneParser, Load, At
    <2>3. DoneFirst'
      BY <1>1, <1>9, <2>2 DEF TypeOK, DoneFirst, Load, Return, Goto, At
    <2>4. OneAtATime' /\ MadeInOrder' /\ OneParser'
      BY SMTT(20), <1>1, <1>9 DEF TypeOK, OneAtATime, MadeInOrder, OneParser, Load, Return, Goto, At
    <2>. QED
      BY <2>1, <2>3, <2>4 DEF IInv
  <1>. QED
    BY <1>2, <1>3, <1>4, <1>5, <1>6, <1>7, <1>8, <1>9 DEF Next, Runs

(***************************************************************************)
(* However many threads race to be first, whatever they do in between, the *)
(* engine is made once, a step at a time, by the owner of the Once.        *)
(***************************************************************************)
THEOREM MadeOnce == Spec => []IInv
  BY FirstParseInit, FirstParseNext, PTL DEF Spec

\* Every parse is by a whole engine for JSON Lines.
THEOREM WholeEngine == Spec => []ParsesWithAWholeEngine
  <1>1. ASSUME IInv
        PROVE  ParsesWithAWholeEngine
    <2>. SUFFICES ASSUME NEW t \in Threads, At(t, "parse")
                  PROVE  using[t] # 0 /\ StrictLines(engines[using[t]])
      BY DEF ParsesWithAWholeEngine
    <2>1. done /\ using[t] # 0 /\ parser # 0
      BY <1>1 DEF IInv, DoneFirst, OneParser, At
    <2>2. engines = <<Made>>
      BY <1>1, <2>1 DEF IInv, OneParser
    <2>3. Len(engines) = 1
      BY <2>2
    <2>4. using[t] \in 0 .. Len(engines)
      BY <1>1 DEF IInv, TypeOK
    <2>5. using[t] = 1
      BY <2>1, <2>3, <2>4
    <2>. QED
      BY <2>2, <2>5, MadeIsStrict
  <1>. QED
    BY <1>1, MadeOnce, PTL

(***************************************************************************)
(* There is never a second engine, and once anyone parses with the first   *)
(* nothing changes it.                                                     *)
(***************************************************************************)
THEOREM EngineShared == Spec => OneEngineForAll
  <1>. DEFINE A == /\ Len(engines') <= 1
                   /\ \A t \in Threads : using[t] # 0 => engines' = engines
  <1>1. ASSUME IInv
        PROVE  Len(engines) <= 1
    <2>1. engines = <<>> \/ \E e \in Engine : engines = <<e>>
      BY <1>1, MadeIsStrict DEF IInv, OneParser, MadeInOrder, At
    <2>2. CASE engines = <<>>
      BY <2>2
    <2>3. ASSUME NEW e \in Engine, engines = <<e>>
          PROVE  Len(engines) <= 1
      BY <2>3
    <2>. QED
      BY <2>1, <2>2, <2>3
  <1>2. ASSUME IInv, [Next]_vars, NEW t \in Threads, using[t] # 0
        PROVE  engines' = engines
    <2>1. done
      BY <1>2 DEF IInv, DoneFirst, At
    <2>2. \A u \in Threads : ~Make(u) /\ ~MakeJson(u) /\ ~MakeJsonl(u)
      BY <1>2, <2>1 DEF IInv, MadeInOrder, Make, MakeJson, MakeJsonl, At
    <2>. QED
      BY <1>2, <2>2
      DEF Next, vars, Runs, Parse, DoFast, DoSlow, DoLock, DoAgain, Assign, DoReturn, Load, Return
  <1>3. IInv /\ (Len(engines) <= 1)' /\ [Next]_vars => A
    BY <1>2
  <1>4. Spec => [][A]_vars
    BY <1>1, <1>3, MadeOnce, PTL DEF Spec
  <1>. QED
    BY <1>4 DEF OneEngineForAll

-----------------------------------------------------------------------------
(* Plugins applied to an engine: PluginInstall.                            *)

\* PluginInstall's engines are Engine's.
LEMMA SameEngine ==
    /\ Plugin!Engine = Engine /\ Plugin!Tags = Tags /\ Plugin!Bare = Bare
    /\ \A e : /\ Plugin!Json(e) = Json(e) /\ Plugin!Jsonic(e) = Jsonic(e)
              /\ Plugin!Installed(e) = Installed(e)
              /\ Plugin!StrictJsonBase(e) = StrictJsonBase(e)
              /\ Plugin!StrictLines(e) = StrictLines(e)
    /\ \A e, tags : Plugin!WithInclude(e, tags) = WithInclude(e, tags)
    /\ \A e : /\ Plugin!RegisterJsonlGrammar(e) = WithAlts(e, "jsonl")
              /\ Plugin!RegisterJsonGrammar(e) = WithAlts(e, "json")
  BY DEF Plugin!Engine, Engine, Plugin!Tags, Tags, Plugin!Switches, Switches, Plugin!Bare, Bare,
     Plugin!Json, Json, Plugin!Jsonic, Jsonic, Plugin!WithAlts, WithAlts,
     Plugin!WithInclude, WithInclude, Plugin!Installed, Installed,
     Plugin!RegisterJsonlGrammar, RegisterJsonlGrammar, Plugin!RegisterJsonGrammar,
     Plugin!JsonlOptions, JsonlOptions,
     Plugin!StrictJsonBase, StrictJsonBase, Plugin!HasVal, HasVal, Plugin!Relaxed, Relaxed,
     Plugin!StrictLines, StrictLines, Plugin!Documents, Documents, Plugin!Accepts, Accepts,
     Plugin!ParsesLines, ParsesLines, Plugin!Lets, Lets

\* The engines there are, whatever was done to them.
Fitting == {e \in Engine : Plugin!FilterFits(e)}

\* No plugin, option or grammar makes any other.
LEMMA StillFitting ==
    /\ Bare \in Fitting
    /\ \A e \in Fitting :
          /\ Json(e) \in Fitting /\ Jsonic(e) \in Fitting /\ Installed(e) \in Fitting
          /\ WithAlts(e, "json") \in Fitting /\ WithAlts(e, "jsonl") \in Fitting
          /\ \A tags \in {{"json"}, {"json", "jsonl"}} : WithInclude(e, tags) \in Fitting
          /\ \A x \in {"on", "off"} : /\ [e EXCEPT !.text = x] \in Fitting
                                      /\ [e EXCEPT !.comment = x] \in Fitting
          /\ \A q \in {"strict", "relaxed"} : [e EXCEPT !.quotes = q] \in Fitting
  <1>1. \A e \in Engine : Plugin!FilterFits(e) <=>
           /\ e.alts \subseteq e.include
           /\ e.include \in {Tags, {"json"}, {"json", "jsonl"}}
           /\ "jsonic" \in e.alts => "json" \in e.alts
           /\ e.include = Tags /\ e.start = "jsonl" => "jsonic" \in e.alts
    BY SameEngine DEF Plugin!FilterFits
  <1>2. Bare \in Fitting
    BY <1>1, MadeIsStrict DEF Fitting, Bare, Tags
  <1>. SUFFICES ASSUME NEW e \in Fitting
                PROVE  /\ Json(e) \in Fitting /\ Jsonic(e) \in Fitting /\ Installed(e) \in Fitting
                       /\ WithAlts(e, "json") \in Fitting /\ WithAlts(e, "jsonl") \in Fitting
                       /\ \A tags \in {{"json"}, {"json", "jsonl"}} : WithInclude(e, tags) \in Fitting
                       /\ \A x \in {"on", "off"} : /\ [e EXCEPT !.text = x] \in Fitting
                                                   /\ [e EXCEPT !.comment = x] \in Fitting
                       /\ \A q \in {"strict", "relaxed"} : [e EXCEPT !.quotes = q] \in Fitting
    BY <1>2
  <1>3. e \in Engine /\ {"json"} # Tags /\ {"json", "jsonl"} # Tags
    BY DEF Fitting, Tags
  <1>4. Json(e) \in Fitting
    <2>1. Json(e) \in Engine /\ Json(e).alts = {"json"} /\ Json(e).include = {"json"}
      BY <1>3 DEF Engine, Json, WithAlts, WithInclude, Tags, Switches
    <2>. QED
      BY <1>1, <1>3, <2>1 DEF Fitting
  <1>5. Installed(e) \in Fitting
    <2>1. /\ Installed(e) \in Engine /\ Installed(e).include = {"json", "jsonl"}
          /\ Installed(e).alts = (e.alts \cap {"json"}) \cup {"jsonl"}
      BY <1>3, InstalledMakes DEF Engine, Installed, RegisterJsonlGrammar, JsonlOptions,
         WithAlts, WithInclude
    <2>. QED
      BY <1>1, <1>3, <2>1 DEF Fitting
  <1>6. Jsonic(e) \in Fitting
    <2>1. /\ Jsonic(e) \in Engine /\ Jsonic(e).include = Tags
          /\ Jsonic(e).alts = (e.alts \cap Tags) \cup {"json", "jsonic"}
      BY <1>3 DEF Engine, Jsonic, WithAlts, WithInclude, Tags, Switches
    <2>. QED
      BY <1>1, <2>1 DEF Fitting, Engine
  <1>7. WithAlts(e, "json") \in Fitting /\ WithAlts(e, "jsonl") \in Fitting
    BY <1>1 DEF Fitting, Engine, WithAlts, Tags
  <1>8. \A tags \in {{"json"}, {"json", "jsonl"}} : WithInclude(e, tags) \in Fitting
    <2>. SUFFICES ASSUME NEW tags \in {{"json"}, {"json", "jsonl"}}
                  PROVE  WithInclude(e, tags) \in Fitting
      OBVIOUS
    <2>1. /\ WithInclude(e, tags) \in Engine /\ WithInclude(e, tags).include = tags
          /\ WithInclude(e, tags).alts = e.alts \cap tags
      BY <1>3 DEF Engine, WithInclude, Tags
    <2>. QED
      BY <1>1, <1>3, <2>1 DEF Fitting
  <1>9. /\ \A x \in {"on", "off"} : /\ [e EXCEPT !.text = x] \in Fitting
                                    /\ [e EXCEPT !.comment = x] \in Fitting
        /\ \A q \in {"strict", "relaxed"} : [e EXCEPT !.quotes = q] \in Fitting
    BY <1>1 DEF Fitting, Engine, Switches
  <1>. QED
    BY <1>4, <1>5, <1>6, <1>7, <1>8, <1>9

\* Installed on an engine, the plugin makes a strict parser of lines exactly
\* if it accepts the engine as a base.
LEMMA AcceptedIffStrict ==
    ASSUME NEW e \in Fitting
    PROVE  StrictLines(Installed(e)) <=> StrictJsonBase(e)
  <1>. DEFINE f == Installed(e)
  <1>1. e \in Engine /\ ("jsonic" \in e.alts => "json" \in e.alts)
    BY DEF Fitting, Plugin!FilterFits
  <1>2. /\ f.alts = (e.alts \cap {"json"}) \cup {"jsonl"} /\ f.start = "jsonl"
        /\ f.skipsLN = FALSE
        /\ f.text = e.text /\ f.comment = e.comment /\ f.quotes = e.quotes
    BY <1>1, InstalledMakes
  <1>. HIDE DEF f
  <1>3. StrictLines(f) <=>
           "json" \in f.alts /\ f.text = "off" /\ f.comment = "off" /\ f.quotes = "strict"
    BY <1>2 DEF StrictLines, Documents, Accepts, ParsesLines, Lets
  <1>4. StrictJsonBase(e) <=>
           "json" \in e.alts /\ e.text = "off" /\ e.comment = "off" /\ e.quotes = "strict"
    BY <1>1 DEF StrictJsonBase, HasVal, Relaxed
  <1>5. StrictLines(f) <=> StrictJsonBase(e)
    BY <1>2, <1>3, <1>4
  <1>. QED
    BY <1>5 DEF f

\* The plugin changes nothing of a strict parser of lines.
LEMMA InstalledTwice ==
    ASSUME NEW e \in Fitting, StrictLines(e)
    PROVE  Installed(e) = e
  <1>1. e \in Engine /\ e.alts \subseteq e.include
        /\ e.include \in {Tags, {"json"}, {"json", "jsonl"}}
        /\ (e.include = Tags /\ e.start = "jsonl" => "jsonic" \in e.alts)
    BY SameEngine DEF Fitting, Plugin!FilterFits
  <1>2. /\ e.start = "jsonl" /\ e.skipsLN = FALSE
        /\ {"json", "jsonl"} \subseteq e.alts /\ "jsonic" \notin e.alts
    BY <1>1 DEF StrictLines, Documents, Accepts, ParsesLines, Lets, Engine
  <1>3. e.alts = {"json", "jsonl"} /\ e.include = {"json", "jsonl"}
    BY <1>1, <1>2 DEF Tags
  <1>. DEFINE f == Installed(e)
  <1>4. /\ f \in Engine /\ f.alts = {"json", "jsonl"} /\ f.start = "jsonl" /\ f.skipsLN = FALSE
        /\ f.text = e.text /\ f.comment = e.comment /\ f.quotes = e.quotes
    BY <1>1, <1>3, InstalledMakes
  <1>5. f.include = {"json", "jsonl"}
    BY <1>1 DEF Engine, Installed, RegisterJsonlGrammar, JsonlOptions, WithAlts, WithInclude
  <1>6. f = e
    <2>. HIDE DEF f
    <2>. QED
      BY <1>1, <1>2, <1>3, <1>4, <1>5 DEF Engine
  <1>. QED
    BY <1>6

\* The plugins there are, and an engine after one of them.
PluginNames == {"json", "jsonic", "jsonl"}

\* Applying any plugin leaves an engine whose filter fits its alternates.
LEMMA ApplyKeepsFitting ==
    ASSUME NEW e \in Fitting, NEW p \in PluginNames
    PROVE  /\ Plugin!Apply(e, p) \in Fitting
           /\ p = "json" => Plugin!Apply(e, p) = Json(e)
           /\ p = "jsonl" /\ StrictJsonBase(e) => Plugin!Apply(e, p) = Installed(e)
  BY SameEngine, StillFitting DEF Plugin!Apply, PluginNames

(***************************************************************************)
(* A child is what its parent's settings become as the parent's plugins are*)
(* applied to them one after the other.                                    *)
(***************************************************************************)
LEMMA DerivedInSteps ==
    ASSUME NEW e \in Fitting, NEW ps \in Seq(PluginNames)
    PROVE  \E f \in [0 .. Len(ps) -> Fitting] :
              /\ \A n \in 1 .. Len(ps) : f[n] = Plugin!Apply(f[n - 1], ps[n])
              /\ Plugin!Derived(e, ps) = f[Len(ps)]
  <1>. DEFINE N == Len(ps)
              Steps(f) == f = [n \in 0 .. N |-> IF n = 0 THEN e ELSE Plugin!Apply(f[n - 1], ps[n])]
              after == CHOOSE f : Steps(f)
              F == [n \in 1 .. N |-> [x \in Fitting |-> Plugin!Apply(x, ps[n])]]
  <1>1. N \in Nat /\ \A n \in 1 .. N : ps[n] \in PluginNames
    BY ElementOfSeq
  <1>2. F \in [1 .. N -> [Fitting -> Fitting]]
    BY <1>1, ApplyKeepsFitting
  <1>3. PICK g \in [0 .. N -> Fitting] : TakesSteps(g, N, e, F)
    <2>. HIDE DEF N, F
    <2>. QED
      BY <1>1, <1>2, RecursionDefines
  <1>4. \A n \in 1 .. N : F[n][g[n - 1]] = Plugin!Apply(g[n - 1], ps[n])
    <2>1. \A n \in 1 .. N : g[n - 1] \in Fitting
      <3>1. \A n \in 1 .. N : n - 1 \in 0 .. N
        BY <1>1
      <3>. HIDE DEF N, F
      <3>. QED
        BY <3>1
    <2>. HIDE DEF N
    <2>. QED
      BY <2>1
  <1>5. Steps(g)
    <2>1. \A n \in 0 .. N : g[n] = IF n = 0 THEN e ELSE Plugin!Apply(g[n - 1], ps[n])
      <3>1. \A n \in 0 .. N : n # 0 => n \in 1 .. N
        BY <1>1
      <3>. HIDE DEF F, N
      <3>. QED
        BY <1>3, <1>4, <3>1 DEF TakesSteps
    <2>2. g = [n \in 0 .. N |-> g[n]]
      BY <1>3
    <2>. HIDE DEF N
    <2>. QED
      BY <2>1, <2>2
  <1>6. Steps(after)
    <2>. HIDE DEF Steps
    <2>. QED
      BY <1>5
  <1>7. Plugin!Derived(e, ps) = after[N]
    BY DEF Plugin!Derived
  <1>. HIDE DEF after
  <1>8. /\ DOMAIN after = 0 .. N /\ after = [n \in 0 .. N |-> after[n]]
        /\ \A n \in 0 .. N : after[n] = IF n = 0 THEN e ELSE Plugin!Apply(after[n - 1], ps[n])
    BY <1>6
  <1>. HIDE DEF N, Steps, F
  <1>9. \A n \in 1 .. N : after[n] = Plugin!Apply(after[n - 1], ps[n])
    <2>1. \A n \in 1 .. N : n \in 0 .. N /\ n # 0
      BY <1>1
    <2>. QED
      BY <1>8, <2>1
  <1>10. {n \in 0 .. N : after[n] \in Fitting} = 0 .. N
    <2>. DEFINE P == {n \in 0 .. N : after[n] \in Fitting}
    <2>1. 0 \in P
      BY <1>1, <1>8
    <2>2. ASSUME NEW n \in 0 .. N - 1, n \in P
          PROVE  n + 1 \in P
      <3>1. n + 1 \in 1 .. N /\ n + 1 - 1 = n
        BY <1>1
      <3>2. after[n + 1] = Plugin!Apply(after[n], ps[n + 1])
        BY <1>9, <3>1
      <3>. QED
        BY <1>1, <2>2, <3>1, <3>2, ApplyKeepsFitting
    <2>3. P \in SUBSET (0 .. N)
      OBVIOUS
    <2>. HIDE DEF P
    <2>4. P = 0 .. N
      BY <1>1, <2>1, <2>2, <2>3, UpTo
    <2>. QED
      BY <2>4 DEF P
  <1>11. after \in [0 .. N -> Fitting]
    BY <1>8, <1>10
  <1>. QED
    BY <1>7, <1>9, <1>11 DEF N

\* What is done to an engine leaves it one that the properties of PluginInstall
\* are true of.
LEMMA PluginsInit == Plugin!Init => Plugin!IInv
  <1>. SUFFICES ASSUME Plugin!Init PROVE Plugin!IInv
    OBVIOUS
  <1>1. engine = Bare /\ engine \in Fitting
    BY SameEngine, StillFitting DEF Plugin!Init
  <1>2. plugins = <<>> /\ <<>> \in Seq(PluginNames)
    BY DEF Plugin!Init
  <1>3. Plugin!TypeOK
    BY <1>1, <1>2, SameEngine, ConstantsAreRight
    DEF Fitting, PluginNames, Plugin!TypeOK, Plugin!Init, Plugin!Done, Plugin!MaxStepsIsNat
  <1>. QED
    BY <1>1, <1>3
    DEF Fitting, Plugin!Init, Plugin!IInv, Plugin!AcceptedIsStrict, Plugin!RefusalsAreNeeded

\* What each of them does.
LEMMA PluginSteps ==
    ASSUME Plugin!IInv, Plugin!Next
    PROVE  /\ steps \in 0 .. MaxSteps /\ steps < MaxSteps /\ steps' = steps + 1
           /\ \/ last' = "json" /\ engine' = Json(engine) /\ plugins' = Append(plugins, "json")
              \/ last' = "jsonic" /\ engine' = Jsonic(engine)
                 /\ plugins' = Append(plugins, "jsonic")
              \/ last' = "jsonl" /\ StrictJsonBase(engine) /\ engine' = Installed(engine)
                 /\ plugins' = Append(plugins, "jsonl")
              \/ last' = "refused" /\ ~StrictJsonBase(engine) /\ UNCHANGED <<engine, plugins>>
              \/ last' \in {"options", "grammar"} /\ engine' \in Fitting /\ UNCHANGED plugins
              \/ last' = "derived" /\ engine' = Plugin!Derived(engine, plugins)
                 /\ UNCHANGED plugins
  <1>. DEFINE Does ==
        \/ last' = "json" /\ engine' = Json(engine) /\ plugins' = Append(plugins, "json")
        \/ last' = "jsonic" /\ engine' = Jsonic(engine) /\ plugins' = Append(plugins, "jsonic")
        \/ last' = "jsonl" /\ StrictJsonBase(engine) /\ engine' = Installed(engine)
           /\ plugins' = Append(plugins, "jsonl")
        \/ last' = "refused" /\ ~StrictJsonBase(engine) /\ UNCHANGED <<engine, plugins>>
        \/ last' \in {"options", "grammar"} /\ engine' \in Fitting /\ UNCHANGED plugins
        \/ last' = "derived" /\ engine' = Plugin!Derived(engine, plugins) /\ UNCHANGED plugins
  <1>1. engine \in Fitting /\ steps \in 0 .. MaxSteps
    BY SameEngine DEF Fitting, Plugin!IInv, Plugin!TypeOK
  <1>2. CASE Plugin!UseJson \/ Plugin!UseJsonic \/ Plugin!UseJsonl \/ Plugin!UseJsonlRefused
             \/ Plugin!Derive
    <2>1. steps < MaxSteps /\ steps' = steps + 1
      BY <1>2 DEF Plugin!UseJson, Plugin!UseJsonic, Plugin!UseJsonl, Plugin!UseJsonlRefused,
         Plugin!Derive, Plugin!Did
    <2>2. Does
      BY <1>2, SameEngine
      DEF Plugin!UseJson, Plugin!UseJsonic, Plugin!UseJsonl, Plugin!UseJsonlRefused,
          Plugin!Derive, Plugin!Did
    <2>. QED
      BY <1>1, <2>1, <2>2
  <1>3. CASE Plugin!SetOptions
    <2>1. steps < MaxSteps /\ steps' = steps + 1 /\ last' = "options" /\ UNCHANGED plugins
      BY <1>3 DEF Plugin!SetOptions, Plugin!Did
    <2>2. engine' \in Fitting
      BY <1>1, <1>3, SameEngine, StillFitting DEF Plugin!SetOptions
    <2>. QED
      BY <1>1, <2>1, <2>2
  <1>4. CASE Plugin!RegisterGrammar
    <2>1. steps < MaxSteps /\ steps' = steps + 1 /\ last' = "grammar" /\ UNCHANGED plugins
      BY <1>4 DEF Plugin!RegisterGrammar, Plugin!Did
    <2>2. engine' \in Fitting
      BY <1>1, <1>4, SameEngine, StillFitting DEF Plugin!RegisterGrammar
    <2>. QED
      BY <1>1, <2>1, <2>2
  <1>. QED
    BY <1>2, <1>3, <1>4 DEF Plugin!Next

\* So does deriving a child.
LEMMA DerivedFits ==
    ASSUME NEW e \in Fitting, NEW ps \in Seq(PluginNames)
    PROVE  Plugin!Derived(e, ps) \in Fitting
  <1>1. Len(ps) \in 0 .. Len(ps)
    OBVIOUS
  <1>. QED
    BY <1>1, DerivedInSteps

\* Each step of a program keeps the invariant of its engine.
LEMMA PluginsNext == Plugin!IInv /\ [Plugin!Next]_pluginVars => Plugin!IInv'
  <1>. SUFFICES ASSUME Plugin!IInv, [Plugin!Next]_pluginVars PROVE Plugin!IInv'
    OBVIOUS
  <1>1. /\ engine \in Fitting /\ plugins \in Seq(PluginNames)
        /\ last \in Plugin!Done /\ steps \in 0 .. MaxSteps
    BY SameEngine DEF Fitting, PluginNames, Plugin!IInv, Plugin!TypeOK
  <1>2. CASE UNCHANGED pluginVars
    BY <1>2 DEF pluginVars, Plugin!IInv, Plugin!TypeOK, Plugin!AcceptedIsStrict,
       Plugin!RefusalsAreNeeded
  <1>3. CASE Plugin!Next
    <2>1. steps' \in 0 .. MaxSteps
      BY <1>3, PluginSteps, ConstantsAreRight DEF Plugin!MaxStepsIsNat
    <2>2. last' \in Plugin!Done
      BY <1>3, PluginSteps DEF Plugin!Done
    <2>3. plugins' \in Seq(PluginNames)
      <3>1. \A p \in PluginNames : Append(plugins, p) \in Seq(PluginNames)
        BY <1>1
      <3>. QED
        BY <1>1, <1>3, <3>1, PluginSteps DEF PluginNames
    <2>4. engine' \in Fitting
      BY <1>1, <1>3, PluginSteps, StillFitting, DerivedFits
    <2>5. last' = "jsonl" => StrictLines(engine')
      BY <1>1, <1>3, PluginSteps, AcceptedIffStrict
    <2>6. last' = "refused" => ~StrictLines(Installed(engine'))
      BY <1>1, <1>3, PluginSteps, AcceptedIffStrict
    <2>. QED
      BY <2>1, <2>2, <2>3, <2>4, <2>5, <2>6, SameEngine
      DEF Fitting, PluginNames, Plugin!IInv, Plugin!TypeOK, Plugin!AcceptedIsStrict,
          Plugin!RefusalsAreNeeded
  <1>. QED
    BY <1>2, <1>3

\* The library takes PluginInstall's steps, and none of its own, with its
\* variables.
LEMMA LibraryPlugins == LibrarySpec => [](Plugin!IInv) /\ [][Plugin!Next]_pluginVars
  <1>1. LibraryInit => Plugin!Init
    BY DEF LibraryInit
  <1>2. [LibraryNext]_libraryVars => [Plugin!Next]_pluginVars
    BY DEF LibraryNext, FirstParse, Plugins, Walk, Renders, libraryVars
  <1>. QED
    BY <1>1, <1>2, PluginsInit, PluginsNext, PTL DEF LibrarySpec

(***************************************************************************)
(* However the engine was prepared, jsonl makes a strict parser of lines   *)
(* exactly of the bases it accepts.                                        *)
(***************************************************************************)
THEOREM BaseCheckExact == LibrarySpec => []BaseCheckIsExact
  <1>1. Plugin!IInv => BaseCheckIsExact
    BY DEF Plugin!IInv, BaseCheckIsExact
  <1>. QED
    BY <1>1, LibraryPlugins, PTL

\* A child whose plugins end with jsonl over an untouched JSON base is strict.
LEMMA ChildIsStrict ==
    ASSUME NEW e \in Fitting, NEW ps \in Seq(PluginNames), ps # <<>>, ps[Len(ps)] = "jsonl",
           NEW i \in 1 .. Len(ps) - 1, ps[i] = "json",
           \A j \in i .. Len(ps) : ps[j] # "jsonic"
    PROVE  StrictLines(Plugin!Derived(e, ps))
  <1>. DEFINE N == Len(ps)
  <1>1. N \in Nat /\ N - 1 \in Nat /\ \A n \in 1 .. N : ps[n] \in PluginNames
    BY ElementOfSeq
  <1>2. PICK f \in [0 .. N -> Fitting] :
           /\ \A n \in 1 .. N : f[n] = Plugin!Apply(f[n - 1], ps[n])
           /\ Plugin!Derived(e, ps) = f[N]
    BY DerivedInSteps
  <1>. HIDE DEF N
  <1>3. \A n \in 0 .. N : f[n] \in Fitting /\ f[n] \in Engine
    BY <1>2 DEF Fitting
  <1>. DEFINE P == {n \in i .. N - 1 : "json" \in f[n].alts /\ Relaxed(f[n]) = {}}
  <1>4. i \in P
    <2>1. i - 1 \in 0 .. N /\ i \in 1 .. N /\ i \in i .. N - 1
      BY <1>1 DEF N
    <2>2. f[i] = Json(f[i - 1])
      BY <1>2, <1>3, <2>1, ApplyKeepsFitting DEF PluginNames
    <2>. QED
      BY <1>3, <2>1, <2>2, JsonMakes
  <1>5. \A n \in P : StrictJsonBase(f[n]) /\ n \in 0 .. N /\ n + 1 \in 1 .. N
    BY <1>1 DEF StrictJsonBase, HasVal, N
  <1>6. ASSUME NEW n \in i .. N - 2, n \in P
        PROVE  n + 1 \in P
    <2>1. n + 1 \in i .. N - 1 /\ n + 1 \in 1 .. N /\ n \in 0 .. N /\ n + 1 - 1 = n
          /\ n + 1 \in i .. N
      BY <1>1 DEF N
    <2>2. ps[n + 1] \in {"json", "jsonl"}
      BY <1>1, <2>1 DEF PluginNames, N
    <2>3. f[n + 1] = IF ps[n + 1] = "json" THEN Json(f[n]) ELSE Installed(f[n])
      BY <1>2, <1>3, <1>5, <1>6, <2>1, <2>2, ApplyKeepsFitting DEF PluginNames
    <2>4. f[n] \in Engine /\ "json" \in f[n].alts /\ Relaxed(f[n]) = {}
      BY <1>3, <1>6, <2>1
    <2>5. "json" \in f[n + 1].alts /\ Relaxed(f[n + 1]) = {}
      <3>1. CASE ps[n + 1] = "json"
        BY <2>3, <2>4, <3>1, JsonMakes
      <3>2. CASE ps[n + 1] = "jsonl"
        <4>1. f[n + 1] = Installed(f[n])
          BY <2>3, <3>2
        <4>. QED
          BY <2>4, <4>1, InstalledMakes DEF Relaxed
      <3>. QED
        BY <2>2, <3>1, <3>2
    <2>. QED
      BY <2>1, <2>5
  <1>7. P = i .. N - 1
    <2>1. i \in Nat /\ i <= N - 1 /\ P \in SUBSET (i .. N - 1) /\ N - 1 - 1 = N - 2
      BY <1>1 DEF N
    <2>. HIDE DEF P
    <2>. QED
      BY <1>1, <1>4, <1>6, <2>1, UpTo
  <1>8. N - 1 \in P /\ N \in 1 .. N
    BY SMTT(20), <1>1, <1>7 DEF N
  <1>9. f[N] = Installed(f[N - 1])
    BY <1>2, <1>3, <1>5, <1>8, ApplyKeepsFitting DEF PluginNames, N
  <1>. QED
    BY <1>2, <1>3, <1>5, <1>8, <1>9, AcceptedIffStrict

(***************************************************************************)
(* A second application of jsonl changes nothing of a strict parser, and a *)
(* child that inherits the base and jsonl is strict, whatever else was     *)
(* applied in between.                                                     *)
(***************************************************************************)
THEOREM AgainHarmless == LibrarySpec => AgainIsHarmless
  <1>1. ASSUME Plugin!IInv, Plugin!Next
        PROVE  Plugin!AgainChangesNothing
    <2>1. engine \in Fitting /\ plugins \in Seq(PluginNames)
      BY <1>1, SameEngine DEF Fitting, PluginNames, Plugin!IInv, Plugin!TypeOK
    <2>2. last' = "jsonl" /\ StrictLines(engine) => engine' = engine
      BY <1>1, <2>1, PluginSteps, InstalledTwice
    <2>3. last' = "derived" /\ Plugin!ChildHasTheBase => StrictLines(engine')
      <3>. SUFFICES ASSUME last' = "derived", Plugin!ChildHasTheBase
                    PROVE  StrictLines(engine')
        OBVIOUS
      <3>1. engine' = Plugin!Derived(engine, plugins)
        BY <1>1, PluginSteps
      <3>2. plugins # <<>> /\ plugins[Len(plugins)] = "jsonl"
        BY DEF Plugin!ChildHasTheBase, Plugin!Last
      <3>3. PICK i \in 1 .. Len(plugins) - 1 :
               plugins[i] = "json" /\ \A j \in i .. Len(plugins) : plugins[j] # "jsonic"
        BY DEF Plugin!ChildHasTheBase
      <3>. QED
        BY <2>1, <3>1, <3>2, <3>3, ChildIsStrict
    <2>. QED
      BY <2>2, <2>3, SameEngine DEF Plugin!AgainChangesNothing
  <1>2. Plugin!IInv /\ [Plugin!Next]_pluginVars => [Plugin!AgainChangesNothing]_pluginVars
    BY <1>1
  <1>. QED
    BY <1>2, LibraryPlugins, PTL DEF AgainIsHarmless

-----------------------------------------------------------------------------
(* The renderer: Render.                                                   *)

\* The renderer counts as any module does.
LEMMA SameCount == \A S : Jsonl!Cardinality(S) = Cardinality(S)
  BY Zenon DEF Jsonl!Cardinality, Cardinality

\* What is written after a text adds to what was written of each kind.
LEMMA WrittenAfter ==
    ASSUME NEW V, NEW xs \in Seq(V), NEW ys \in Seq(V), NEW S
    PROVE  /\ Jsonl!Written(xs, S) \in Nat
           /\ Jsonl!Written(xs \o ys, S) = Jsonl!Written(xs, S) + Jsonl!Written(ys, S)
  <1>. DEFINE here == {i \in DOMAIN xs : xs[i] \in S}
              there == {i \in DOMAIN ys : ys[i] \in S}
              moved == {i \in Len(xs) + 1 .. Len(xs) + Len(ys) : ys[i - Len(xs)] \in S}
              move == [i \in there |-> i + Len(xs)]
  <1>1. IsFiniteSet(here) /\ IsFiniteSet(there) /\ IsFiniteSet(moved)
    <2>1. /\ IsFiniteSet(1 .. Len(xs)) /\ IsFiniteSet(1 .. Len(ys))
          /\ IsFiniteSet(Len(xs) + 1 .. Len(xs) + Len(ys))
      BY FS_Interval
    <2>2. here \subseteq 1 .. Len(xs) /\ there \subseteq 1 .. Len(ys)
          /\ moved \subseteq Len(xs) + 1 .. Len(xs) + Len(ys)
      OBVIOUS
    <2>. QED
      BY <2>1, <2>2, FS_Subset
  <1>2. {i \in DOMAIN (xs \o ys) : (xs \o ys)[i] \in S} = here \cup moved
    <2>1. DOMAIN (xs \o ys) = 1 .. Len(xs) + Len(ys)
      OBVIOUS
    <2>2. \A i \in 1 .. Len(xs) + Len(ys) :
             (xs \o ys)[i] = IF i <= Len(xs) THEN xs[i] ELSE ys[i - Len(xs)]
      OBVIOUS
    <2>. QED
      BY <2>1, <2>2
  <1>3. here \cap moved = {}
    OBVIOUS
  <1>4. move \in Bijection(there, moved)
    <2>1. move \in [there -> moved]
      OBVIOUS
    <2>2. \A i, j \in there : move[i] = move[j] => i = j
      OBVIOUS
    <2>3. \A j \in moved : \E i \in there : move[i] = j
      <3>1. ASSUME NEW j \in moved
            PROVE  j - Len(xs) \in there /\ move[j - Len(xs)] = j
        BY <3>1
      <3>. QED
        BY <3>1
    <2>. QED
      BY <2>1, <2>2, <2>3 DEF Bijection, Injection, Surjection, IsInjective
  <1>5. Cardinality(moved) = Cardinality(there)
    BY <1>1, <1>4, FS_Bijection DEF ExistsBijection
  <1>6. Cardinality(here \cup moved) = Cardinality(here) + Cardinality(moved)
    <2>1. Cardinality(here \cap moved) = 0
      BY <1>3, FS_EmptySet
    <2>2. Cardinality(here) \in Nat /\ Cardinality(moved) \in Nat
      BY <1>1, FS_CardinalityType
    <2>3. Cardinality(here \cup moved)
            = Cardinality(here) + Cardinality(moved) - Cardinality(here \cap moved)
      BY <1>1, FS_Union
    <2>. HIDE DEF here, moved
    <2>. QED
      BY <2>1, <2>2, <2>3
  <1>7. Cardinality(here) \in Nat
    BY <1>1, FS_CardinalityType
  <1>. QED
    BY <1>2, <1>5, <1>6, <1>7, SameCount DEF Jsonl!Written

\* A single lexeme is of a kind or is not.
LEMMA WrittenOne ==
    ASSUME NEW c, NEW S
    PROVE  /\ Jsonl!Written(<<>>, S) = 0
           /\ Jsonl!Written(<<c>>, S) = IF c \in S THEN 1 ELSE 0
  <1>1. {i \in DOMAIN <<>> : <<>>[i] \in S} = {}
    OBVIOUS
  <1>2. {i \in DOMAIN <<c>> : <<c>>[i] \in S} = IF c \in S THEN {1} ELSE {}
    OBVIOUS
  <1>. QED
    BY <1>1, <1>2, FS_EmptySet, FS_Singleton, SameCount DEF Jsonl!Written

\* How much deeper the brackets are nested after a text.
Grown(text) == Jsonl!Written(text, {"OB", "OS"}) - Jsonl!Written(text, {"CB", "CS"})

\* Depth adds up, and only brackets change it.
LEMMA GrownAfter ==
    /\ \A xs, ys \in Seq(Jsonl!Lexeme) :
          Grown(xs) \in Int /\ Grown(xs \o ys) = Grown(xs) + Grown(ys)
    /\ Grown(<<>>) = 0
    /\ Grown(<<"OB">>) = 1 /\ Grown(<<"OS">>) = 1
    /\ Grown(<<"CB">>) = 0 - 1 /\ Grown(<<"CS">>) = 0 - 1
    /\ \A c : c \notin {"OB", "OS", "CB", "CS"} => Grown(<<c>>) = 0
  <1>1. ASSUME NEW xs \in Seq(Jsonl!Lexeme), NEW ys \in Seq(Jsonl!Lexeme)
        PROVE  Grown(xs) \in Int /\ Grown(xs \o ys) = Grown(xs) + Grown(ys)
    <2>1. \A S : /\ Jsonl!Written(xs, S) \in Nat /\ Jsonl!Written(ys, S) \in Nat
                 /\ Jsonl!Written(xs \o ys, S) = Jsonl!Written(xs, S) + Jsonl!Written(ys, S)
      BY WrittenAfter
    <2>. QED
      BY <2>1 DEF Grown
  <1>2. ASSUME NEW c
        PROVE  Grown(<<c>>) = (IF c \in {"OB", "OS"} THEN 1 ELSE 0)
                              - (IF c \in {"CB", "CS"} THEN 1 ELSE 0)
    BY WrittenOne DEF Grown
  <1>3. Grown(<<>>) = 0
    <2>1. \A S : Jsonl!Written(<<>>, S) = 0
      BY WrittenOne
    <2>. QED
      BY <2>1 DEF Grown
  <1>. QED
    BY <1>1, <1>2, <1>3

\* A text that nests nothing, and two of them one after the other.
Flat(text) == text \in Seq(Jsonl!Lexeme) /\ Grown(text) = 0

\* Two texts that nest nothing nest nothing together.
LEMMA FlatAfter ==
    ASSUME NEW xs, Flat(xs), NEW ys, Flat(ys)
    PROVE  Flat(xs \o ys)
  <1>1. xs \in Seq(Jsonl!Lexeme) /\ ys \in Seq(Jsonl!Lexeme) /\ Grown(xs) = 0 /\ Grown(ys) = 0
    BY DEF Flat
  <1>2. Grown(xs \o ys) = Grown(xs) + Grown(ys)
    BY <1>1, GrownAfter
  <1>3. xs \o ys \in Seq(Jsonl!Lexeme)
    BY <1>1
  <1>. QED
    BY <1>1, <1>2, <1>3 DEF Flat

\* Most lexemes are such a text.
LEMMA FlatOne ==
    ASSUME NEW c \in {"CA", "ST", "CL", "VL", "LF"}
    PROVE  Flat(<<c>>)
  <1>1. c \in Jsonl!Lexeme /\ c \notin {"OB", "OS", "CB", "CS"}
    BY DEF Jsonl!Lexeme, Jsonl!LineChar
  <1>2. Grown(<<c>>) = 0
    BY <1>1, GrownAfter
  <1>3. <<c>> \in Seq(Jsonl!Lexeme)
    BY <1>1
  <1>. QED
    BY <1>2, <1>3 DEF Flat

\* The text before an item and after one nests nothing.
LEMMA LeadAndTail ==
    ASSUME NEW st
    PROVE  Flat(Jsonl!JsonlLead(st)) /\ Flat(Jsonl!JsonlTail(st))
  <1>1. /\ Jsonl!JsonlLead(st) \in {<<>>, <<"CA">>}
        /\ Jsonl!JsonlTail(st) \in {<<>>, <<"LF">>}
    BY DEF Jsonl!JsonlLead, Jsonl!JsonlTail
  <1>2. Flat(<<>>)
    BY GrownAfter DEF Flat
  <1>. QED
    BY <1>1, <1>2, FlatOne

\* All the markers but the one on top.
LEMMA InFront ==
    ASSUME NEW st \in Seq(Jsonl!Markers), st # <<>>
    PROVE  /\ Jsonl!Front(st) \in Seq(Jsonl!Markers)
           /\ Len(Jsonl!Front(st)) = Len(st) - 1
           /\ \A i \in 1 .. Len(st) - 1 : Jsonl!Front(st)[i] = st[i]
  <1>. DEFINE n == Len(st) - 1
  <1>1. n \in 0 .. Len(st)
    OBVIOUS
  <1>2. Jsonl!Front(st) = SubSeq(st, 1, Len(st) - 1)
    BY DEF Jsonl!Front
  <1>. HIDE DEF n
  <1>3. /\ SubSeq(st, 1, n) \in Seq(Jsonl!Markers) /\ Len(SubSeq(st, 1, n)) = n
        /\ \A i \in 1 .. n : SubSeq(st, 1, n)[i] = st[i]
    BY <1>1
  <1>. QED
    BY <1>2, <1>3 DEF n

\* Another marker on top.
LEMMA Marked ==
    ASSUME NEW st \in Seq(Jsonl!Markers), st # <<>>, NEW m \in Jsonl!Markers
    PROVE  /\ Jsonl!JsonlMark(m, st) \in Seq(Jsonl!Markers)
           /\ Len(Jsonl!JsonlMark(m, st)) = Len(st)
           /\ \A i \in 1 .. Len(st) :
                 Jsonl!JsonlMark(m, st)[i] = IF i = Len(st) THEN m ELSE st[i]
           /\ Jsonl!JsonlTop(st) = st[Len(st)]
  <1>. DEFINE f == Jsonl!Front(st)
  <1>1. /\ f \in Seq(Jsonl!Markers) /\ Len(f) = Len(st) - 1
        /\ \A i \in 1 .. Len(st) - 1 : f[i] = st[i]
    BY InFront
  <1>2. Jsonl!JsonlTop(st) = st[Len(st)]
    BY DEF Jsonl!JsonlTop, Jsonl!Last
  <1>. HIDE DEF f
  <1>3. /\ Append(f, m) \in Seq(Jsonl!Markers) /\ Len(Append(f, m)) = Len(st)
        /\ \A i \in 1 .. Len(st) : Append(f, m)[i] = IF i = Len(st) THEN m ELSE st[i]
    BY <1>1
  <1>. QED
    BY <1>2, <1>3 DEF Jsonl!JsonlMark, f

\* The markers of the root stand at the bottom of the stack.
LEMMA RootAtBottom ==
    ASSUME NEW st \in Seq(Jsonl!Markers), Jsonl!Rooted(st), st # <<>>
    PROVE  /\ Jsonl!JsonlTop(st) \in Jsonl!RootMarkers <=> Len(st) = 1
           /\ Jsonl!JsonlTop(st) \in Jsonl!Markers
           /\ st[1] \in Jsonl!RootMarkers
           /\ Jsonl!JsonlTop(st) # "root-done" => st[1] # "root-done"
  <1>1. Jsonl!JsonlTop(st) = st[Len(st)]
    BY DEF Jsonl!JsonlTop, Jsonl!Last
  <1>2. 1 \in DOMAIN st /\ Len(st) \in DOMAIN st /\ Len(st) \in Nat
    OBVIOUS
  <1>3. st[Len(st)] \in Jsonl!RootMarkers <=> Len(st) = 1
    BY <1>2 DEF Jsonl!Rooted
  <1>4. st[1] \in Jsonl!RootMarkers
    BY <1>2 DEF Jsonl!Rooted
  <1>5. st[1] = "root-done" => Len(st) = 1
    BY DEF Jsonl!Rooted
  <1>. QED
    BY <1>1, <1>2, <1>3, <1>4, <1>5

\* A nested marker for a nested one.
LEMMA MarkedNested ==
    ASSUME NEW st \in Seq(Jsonl!Markers), Jsonl!Rooted(st), st # <<>>,
           Jsonl!JsonlTop(st) \notin Jsonl!RootMarkers,
           NEW m \in Jsonl!Markers \ Jsonl!RootMarkers
    PROVE  /\ Jsonl!JsonlMark(m, st) \in Seq(Jsonl!Markers)
           /\ Len(Jsonl!JsonlMark(m, st)) = Len(st)
           /\ Jsonl!Rooted(Jsonl!JsonlMark(m, st))
           /\ Jsonl!JsonlTop(Jsonl!JsonlMark(m, st)) = m
  <1>. DEFINE t == Jsonl!JsonlMark(m, st)
  <1>1. /\ t \in Seq(Jsonl!Markers) /\ Len(t) = Len(st)
        /\ \A i \in 1 .. Len(st) : t[i] = IF i = Len(st) THEN m ELSE st[i]
    BY Marked
  <1>. HIDE DEF t
  <1>2. Len(st) > 1 /\ st[1] # "root-done"
    <2>1. Len(st) # 1
      BY RootAtBottom
    <2>2. Jsonl!JsonlTop(st) # "root-done"
      BY DEF Jsonl!RootMarkers
    <2>3. st[1] # "root-done"
      BY <2>2, RootAtBottom
    <2>4. Len(st) \in Nat /\ Len(st) # 0
      OBVIOUS
    <2>5. ASSUME NEW n \in Nat, n # 0, n # 1
          PROVE  n > 1
      BY <2>5
    <2>. QED
      BY <2>1, <2>3, <2>4, <2>5
  <1>3. Jsonl!Rooted(t)
    BY <1>1, <1>2 DEF Jsonl!Rooted
  <1>4. Jsonl!JsonlTop(t) = m
    BY <1>1, <1>2 DEF Jsonl!JsonlTop, Jsonl!Last
  <1>. QED
    BY <1>1, <1>3, <1>4 DEF t

\* A container that had its first item is one still.
LEMMA OpenedNests ==
    ASSUME NEW st \in Seq(Jsonl!Markers), Jsonl!Rooted(st), Jsonl!WaitsForItem(st)
    PROVE  /\ Jsonl!JsonlOpened(st) \in Seq(Jsonl!Markers)
           /\ Len(Jsonl!JsonlOpened(st)) = Len(st) /\ st # <<>>
           /\ Jsonl!Rooted(Jsonl!JsonlOpened(st))
           /\ Jsonl!JsonlTop(Jsonl!JsonlOpened(st)) \in {"lines", "array", "member"}
  <1>1. st # <<>>
    BY DEF Jsonl!WaitsForItem, Jsonl!JsonlTop
  <1>2. CASE Jsonl!JsonlTop(st) = "array-open"
    BY <1>1, <1>2, MarkedNested DEF Jsonl!JsonlOpened, Jsonl!Markers, Jsonl!RootMarkers
  <1>3. CASE Jsonl!JsonlTop(st) = "lines-open"
    <2>. DEFINE t == Jsonl!JsonlMark("lines", st)
    <2>1. Len(st) = 1
      BY <1>1, <1>3, RootAtBottom DEF Jsonl!RootMarkers
    <2>2. /\ t \in Seq(Jsonl!Markers) /\ Len(t) = 1 /\ t[1] = "lines"
      <3>1. "lines" \in Jsonl!Markers
        BY DEF Jsonl!Markers
      <3>2. t \in Seq(Jsonl!Markers) /\ Len(t) = Len(st)
        BY <1>1, <3>1, Marked
      <3>3. \A i \in 1 .. Len(st) : t[i] = IF i = Len(st) THEN "lines" ELSE st[i]
        BY <1>1, <3>1, Marked
      <3>. QED
        BY <2>1, <3>2, <3>3
    <2>3. Jsonl!JsonlOpened(st) = t
      BY <1>3 DEF Jsonl!JsonlOpened
    <2>. HIDE DEF t
    <2>4. Jsonl!Rooted(t) /\ Jsonl!JsonlTop(t) = "lines"
      <3>1. t # <<>> /\ DOMAIN t = {1}
        <4>1. DOMAIN t = 1 .. 1
          BY <2>2
        <4>2. 1 .. 1 = {1}
          OBVIOUS
        <4>3. t # <<>>
          <5>1. DOMAIN <<>> = {}
            OBVIOUS
          <5>. QED
            BY <4>1, <4>2, <5>1
        <4>. QED
          BY <4>1, <4>2, <4>3
      <3>. QED
        BY <2>2, <3>1 DEF Jsonl!Rooted, Jsonl!RootMarkers, Jsonl!JsonlTop, Jsonl!Last
    <2>. QED
      BY <1>1, <2>1, <2>2, <2>3, <2>4
  <1>4. CASE Jsonl!JsonlTop(st) \in {"lines", "array", "member"}
    BY <1>1, <1>4 DEF Jsonl!JsonlOpened
  <1>. QED
    BY <1>2, <1>3, <1>4 DEF Jsonl!WaitsForItem

\* A value that is complete changes at most the marker on top.
LEMMA DoneNests ==
    ASSUME NEW st \in Seq(Jsonl!Markers), Jsonl!Rooted(st), st # <<>>
    PROVE  /\ Jsonl!JsonlDone(st) \in Seq(Jsonl!Markers)
           /\ Len(Jsonl!JsonlDone(st)) = Len(st)
           /\ Jsonl!Rooted(Jsonl!JsonlDone(st))
  <1>1. CASE Jsonl!JsonlTop(st) = "member"
    BY <1>1, MarkedNested DEF Jsonl!JsonlDone, Jsonl!Markers, Jsonl!RootMarkers
  <1>2. CASE Jsonl!JsonlTop(st) # "member"
    BY <1>2 DEF Jsonl!JsonlDone
  <1>. QED
    BY <1>1, <1>2

\* A container within another.
LEMMA NestedNests ==
    ASSUME NEW st \in Seq(Jsonl!Markers), Jsonl!Rooted(st), st # <<>>,
           Jsonl!JsonlTop(st) # "root-done",
           NEW m \in Jsonl!Markers \ Jsonl!RootMarkers
    PROVE  /\ Append(st, m) \in Seq(Jsonl!Markers)
           /\ Len(Append(st, m)) = Len(st) + 1
           /\ Jsonl!Rooted(Append(st, m))
  <1>. DEFINE t == Append(st, m)
  <1>1. /\ t \in Seq(Jsonl!Markers) /\ Len(t) = Len(st) + 1 /\ t[Len(st) + 1] = m
        /\ \A i \in 1 .. Len(st) : t[i] = st[i]
    OBVIOUS
  <1>. HIDE DEF t
  <1>2. st[1] # "root-done" /\ Len(st) >= 1
    BY RootAtBottom
  <1>3. Jsonl!Rooted(t)
    BY <1>1, <1>2 DEF Jsonl!Rooted
  <1>. QED
    BY <1>1, <1>3 DEF t

\* The containers around one.
LEMMA FrontNests ==
    ASSUME NEW st \in Seq(Jsonl!Markers), Jsonl!Rooted(st), st # <<>>,
           Jsonl!JsonlTop(st) \notin Jsonl!RootMarkers
    PROVE  /\ Jsonl!Front(st) \in Seq(Jsonl!Markers) /\ Jsonl!Front(st) # <<>>
           /\ Len(Jsonl!Front(st)) = Len(st) - 1
           /\ Jsonl!Rooted(Jsonl!Front(st))
  <1>. DEFINE f == Jsonl!Front(st)
  <1>1. /\ f \in Seq(Jsonl!Markers) /\ Len(f) = Len(st) - 1
        /\ \A i \in 1 .. Len(st) - 1 : f[i] = st[i]
    BY InFront
  <1>. HIDE DEF f
  <1>2. Len(st) > 1 /\ st[1] # "root-done"
    <2>1. Len(st) # 1
      BY RootAtBottom
    <2>2. Jsonl!JsonlTop(st) # "root-done"
      BY DEF Jsonl!RootMarkers
    <2>3. st[1] # "root-done"
      BY <2>2, RootAtBottom
    <2>4. Len(st) \in Nat /\ Len(st) # 0
      OBVIOUS
    <2>5. ASSUME NEW n \in Nat, n # 0, n # 1
          PROVE  n > 1
      BY <2>5
    <2>. QED
      BY <2>1, <2>3, <2>4, <2>5
  <1>3. Jsonl!Rooted(f)
    BY <1>1, <1>2 DEF Jsonl!Rooted
  <1>. QED
    BY <1>1, <1>2, <1>3 DEF f

\* A step that writes keeps the invariant when its stack and its text fit.
LEMMA StepKeeps ==
    ASSUME Jsonl!IInv, NEW st \in Seq(Jsonl!Markers), Jsonl!Rooted(st), st # <<>>,
           NEW text \in Seq(Jsonl!Lexeme), Jsonl!To(st, text),
           Len(st) = (IF s = <<>> THEN 1 ELSE Len(s)) + Grown(text),
           elements' \in {elements, elements + 1}, whole' \in {whole, Len(out), Len(out')}
    PROVE  Jsonl!IInv'
  <1>1. /\ Len(out) + Len(text) <= MaxText
        /\ s' = st /\ out' = out \o text /\ status' = status
    BY DEF Jsonl!To
  <1>2. /\ s \in Seq(Jsonl!Markers) /\ out \in Seq(Jsonl!Lexeme) /\ Len(out) <= MaxText
        /\ whole \in 0 .. Len(out) /\ elements \in Nat
        /\ status \in {"running", "failed", "done"}
    BY DEF Jsonl!IInv, Jsonl!TypeOK
  <1>3. /\ out' \in Seq(Jsonl!Lexeme) /\ Len(out') = Len(out) + Len(text)
    BY <1>1, <1>2
  <1>4. Jsonl!TypeOK'
    <2>1. whole' \in 0 .. Len(out')
      BY <1>2, <1>3
    <2>2. elements' \in Nat
      BY <1>2
    <2>. QED
      BY <1>1, <1>2, <1>3, <2>1, <2>2 DEF Jsonl!TypeOK
  <1>5. Jsonl!RootIsFirst'
    BY <1>1 DEF Jsonl!RootIsFirst
  <1>6. (IF s = <<>> THEN 1 ELSE Len(s)) = 1 + Grown(out)
    <2>1. CASE s = <<>>
      BY <2>1, GrownAfter DEF Jsonl!IInv, Jsonl!RootIsFirst
    <2>2. CASE s # <<>>
      <3>1. \A S : Jsonl!Written(out, S) \in Nat
        BY <1>2, WrittenAfter
      <3>. QED
        BY <1>2, <2>2, <3>1 DEF Jsonl!IInv, Jsonl!StateIsNesting, Grown
    <2>. QED
      BY <2>1, <2>2
  <1>7. Grown(out') = Grown(out) + Grown(text) /\ Grown(out) \in Int /\ Grown(text) \in Int
    BY <1>1, <1>2, GrownAfter
  <1>8. Len(s') = 1 + Grown(out')
    BY <1>1, <1>6, <1>7
  <1>9. Jsonl!StateIsNesting'
    <2>1. \A S : Jsonl!Written(out', S) \in Nat
      BY <1>3, WrittenAfter
    <2>. QED
      BY <1>8, <2>1 DEF Jsonl!StateIsNesting, Grown
  <1>. QED
    BY <1>4, <1>5, <1>9 DEF Jsonl!IInv

\* An event that is refused, or that there is none left, leaves the text.
LEMMA RefusedKeeps ==
    ASSUME Jsonl!IInv, UNCHANGED <<s, out, elements>>, whole' \in {whole, Len(out)},
           status' \in {"running", "failed", "done"}
    PROVE  Jsonl!IInv'
  <1>1. Jsonl!TypeOK'
    BY DEF Jsonl!IInv, Jsonl!TypeOK
  <1>2. Jsonl!RootIsFirst' /\ Jsonl!StateIsNesting'
    BY DEF Jsonl!IInv, Jsonl!RootIsFirst, Jsonl!StateIsNesting
  <1>. QED
    BY <1>1, <1>2 DEF Jsonl!IInv

\* What the state is when an item may come, and what a nested container adds.
LEMMA ItemNests ==
    ASSUME Jsonl!IInv, Jsonl!WaitsForItem(s), NEW m \in Jsonl!Markers \ Jsonl!RootMarkers,
           NEW c \in {"OB", "OS"}
    PROVE  LET st == Append(Jsonl!JsonlOpened(s), m)
               text == Jsonl!JsonlLead(s) \o <<c>>
           IN  /\ st \in Seq(Jsonl!Markers) /\ Jsonl!Rooted(st) /\ st # <<>>
               /\ text \in Seq(Jsonl!Lexeme)
               /\ Len(st) = (IF s = <<>> THEN 1 ELSE Len(s)) + Grown(text)
  <1>. DEFINE opened == Jsonl!JsonlOpened(s)
              lead == Jsonl!JsonlLead(s)
  <1>1. s \in Seq(Jsonl!Markers) /\ Jsonl!Rooted(s)
    BY DEF Jsonl!IInv, Jsonl!TypeOK, Jsonl!RootIsFirst
  <1>2. /\ opened \in Seq(Jsonl!Markers) /\ Len(opened) = Len(s) /\ s # <<>>
        /\ Jsonl!Rooted(opened) /\ Jsonl!JsonlTop(opened) # "root-done"
    BY <1>1, OpenedNests
  <1>3. lead \in Seq(Jsonl!Lexeme) /\ Grown(lead) = 0
    BY LeadAndTail DEF Flat
  <1>. HIDE DEF opened, lead
  <1>4. opened # <<>>
    BY <1>1, <1>2
  <1>5. /\ Append(opened, m) \in Seq(Jsonl!Markers) /\ Len(Append(opened, m)) = Len(s) + 1
        /\ Jsonl!Rooted(Append(opened, m))
    BY <1>2, <1>4, NestedNests
  <1>6. Append(opened, m) # <<>>
    BY <1>2
  <1>7. <<c>> \in Seq(Jsonl!Lexeme)
    BY DEF Jsonl!Lexeme
  <1>8. lead \o <<c>> \in Seq(Jsonl!Lexeme) /\ Grown(lead \o <<c>>) = 1
    <2>1. Grown(<<c>>) = 1
      BY GrownAfter
    <2>2. Grown(lead \o <<c>>) = Grown(lead) + Grown(<<c>>)
      BY <1>3, <1>7, GrownAfter
    <2>3. lead \o <<c>> \in Seq(Jsonl!Lexeme)
      BY <1>3, <1>7
    <2>. QED
      BY <1>3, <2>1, <2>2, <2>3
  <1>. QED
    BY <1>2, <1>5, <1>6, <1>8 DEF opened, lead

\* Nothing is written at first.
LEMMA RenderInit == Jsonl!Init => Jsonl!IInv
  <1>. SUFFICES ASSUME Jsonl!Init PROVE Jsonl!IInv
    OBVIOUS
  <1>1. /\ s = <<>> /\ out = <<>> /\ whole = 0 /\ elements = 0 /\ status = "running"
        /\ MaxText \in Nat
    BY ConstantsAreRight DEF Jsonl!Init, Jsonl!MaxTextIsNat
  <1>2. s \in Seq(Jsonl!Markers) /\ out \in Seq(Jsonl!Lexeme) /\ Len(out) = 0
    BY <1>1
  <1>3. Jsonl!TypeOK
    BY <1>1, <1>2 DEF Jsonl!TypeOK
  <1>4. Jsonl!RootIsFirst
    BY <1>1 DEF Jsonl!RootIsFirst, Jsonl!Rooted
  <1>. QED
    BY <1>1, <1>3, <1>4 DEF Jsonl!IInv, Jsonl!StateIsNesting

\* The marker on top says what may come.
LEMMA OnTop ==
    ASSUME Jsonl!IInv, s # <<>>
    PROVE  /\ s \in Seq(Jsonl!Markers) /\ Jsonl!Rooted(s)
           /\ Jsonl!EndsLine(s) \/ Jsonl!JsonlTop(s) = "root-done" => Len(s) = 1
           /\ Jsonl!WaitsForKey(s) \/ Jsonl!WaitsForElement(s)
              => Jsonl!JsonlTop(s) \notin Jsonl!RootMarkers
  <1>1. s \in Seq(Jsonl!Markers) /\ Jsonl!Rooted(s)
    BY DEF Jsonl!IInv, Jsonl!TypeOK, Jsonl!RootIsFirst
  <1>. QED
    BY <1>1, RootAtBottom
    DEF Jsonl!EndsLine, Jsonl!WaitsForKey, Jsonl!WaitsForElement, Jsonl!RootMarkers

\* An array that starts keeps the renderer's invariant.
LEMMA ArrayStartKeeps ==
    ASSUME Jsonl!IInv, Jsonl!ArrayStart
    PROVE  Jsonl!IInv'
  <1>1. CASE s = <<>> /\ Jsonl!To(<<"lines-open">>, <<>>) /\ whole' = Len(out)
             /\ UNCHANGED elements
    <2>. DEFINE st == <<"lines-open">>
    <2>1. "lines-open" \in Jsonl!Markers /\ "lines-open" \in Jsonl!RootMarkers
      BY DEF Jsonl!Markers, Jsonl!RootMarkers
    <2>2. /\ st \in Seq(Jsonl!Markers) /\ st # <<>> /\ Len(st) = 1 /\ st[1] = "lines-open"
          /\ DOMAIN st = {1}
      BY <2>1
    <2>. HIDE DEF st
    <2>3. Jsonl!Rooted(st)
      BY <2>1, <2>2 DEF Jsonl!Rooted
    <2>4. <<>> \in Seq(Jsonl!Lexeme) /\ Grown(<<>>) = 0
      BY GrownAfter
    <2>5. Jsonl!To(st, <<>>)
      BY <1>1 DEF st
    <2>6. Len(st) = (IF s = <<>> THEN 1 ELSE Len(s)) + Grown(<<>>)
      BY <1>1, <2>2, <2>4
    <2>. QED
      BY <1>1, <2>2, <2>3, <2>4, <2>5, <2>6, StepKeeps
  <1>2. CASE /\ Jsonl!WaitsForItem(s)
             /\ Jsonl!To(Append(Jsonl!JsonlOpened(s), "array-open"),
                         Jsonl!JsonlLead(s) \o <<"OS">>)
             /\ Jsonl!Counted /\ UNCHANGED whole
    <2>1. "array-open" \in Jsonl!Markers \ Jsonl!RootMarkers
      BY DEF Jsonl!Markers, Jsonl!RootMarkers
    <2>. DEFINE st == Append(Jsonl!JsonlOpened(s), "array-open")
                text == Jsonl!JsonlLead(s) \o <<"OS">>
    <2>2. /\ st \in Seq(Jsonl!Markers) /\ Jsonl!Rooted(st) /\ st # <<>>
          /\ text \in Seq(Jsonl!Lexeme)
          /\ Len(st) = (IF s = <<>> THEN 1 ELSE Len(s)) + Grown(text)
      BY <1>2, <2>1, ItemNests
    <2>3. Jsonl!To(st, text)
      BY <1>2
    <2>4. elements' \in {elements, elements + 1}
      BY <1>2 DEF Jsonl!Counted
    <2>. HIDE DEF st, text
    <2>. QED
      BY <1>2, <2>2, <2>3, <2>4, StepKeeps
  <1>3. CASE Jsonl!Refuse
    BY <1>3, RefusedKeeps DEF Jsonl!Refuse
  <1>. QED
    BY <1>1, <1>2, <1>3 DEF Jsonl!ArrayStart

\* An object that starts keeps it.
LEMMA ObjectStartKeeps ==
    ASSUME Jsonl!IInv, Jsonl!ObjectStart
    PROVE  Jsonl!IInv'
  <1>1. CASE /\ Jsonl!WaitsForItem(s)
             /\ Jsonl!To(Append(Jsonl!JsonlOpened(s), "object-open"),
                         Jsonl!JsonlLead(s) \o <<"OB">>)
             /\ Jsonl!Counted /\ UNCHANGED whole
    <2>1. "object-open" \in Jsonl!Markers \ Jsonl!RootMarkers
      BY DEF Jsonl!Markers, Jsonl!RootMarkers
    <2>. DEFINE st == Append(Jsonl!JsonlOpened(s), "object-open")
                text == Jsonl!JsonlLead(s) \o <<"OB">>
    <2>2. /\ st \in Seq(Jsonl!Markers) /\ Jsonl!Rooted(st) /\ st # <<>>
          /\ text \in Seq(Jsonl!Lexeme)
          /\ Len(st) = (IF s = <<>> THEN 1 ELSE Len(s)) + Grown(text)
      BY <1>1, <2>1, ItemNests
    <2>3. Jsonl!To(st, text)
      BY <1>1
    <2>4. elements' \in {elements, elements + 1}
      BY <1>1 DEF Jsonl!Counted
    <2>. HIDE DEF st, text
    <2>. QED
      BY <1>1, <2>2, <2>3, <2>4, StepKeeps
  <1>2. CASE Jsonl!Refuse
    BY <1>2, RefusedKeeps DEF Jsonl!Refuse
  <1>. QED
    BY <1>1, <1>2 DEF Jsonl!ObjectStart

\* A key keeps it.
LEMMA KeyKeeps ==
    ASSUME Jsonl!IInv, Jsonl!Key
    PROVE  Jsonl!IInv'
  <1>. DEFINE st == Jsonl!JsonlMark("member", s)
              text == IF Jsonl!JsonlTop(s) = "object" THEN <<"CA", "ST", "CL">>
                      ELSE <<"ST", "CL">>
  <1>1. CASE Jsonl!WaitsForKey(s) /\ Jsonl!To(st, text) /\ UNCHANGED <<whole, elements>>
    <2>1. s # <<>>
      BY <1>1 DEF Jsonl!WaitsForKey, Jsonl!JsonlTop
    <2>2. "member" \in Jsonl!Markers \ Jsonl!RootMarkers
      BY DEF Jsonl!Markers, Jsonl!RootMarkers
    <2>3. s \in Seq(Jsonl!Markers) /\ Jsonl!Rooted(s) /\ Jsonl!JsonlTop(s) \notin Jsonl!RootMarkers
      BY <1>1, <2>1, OnTop
    <2>4. st \in Seq(Jsonl!Markers) /\ Len(st) = Len(s) /\ Jsonl!Rooted(st)
      BY <2>1, <2>2, <2>3, MarkedNested
    <2>5. text \in Seq(Jsonl!Lexeme) /\ Grown(text) = 0
      <3>1. <<"ST", "CL">> = <<"ST">> \o <<"CL">>
        OBVIOUS
      <3>2. <<"CA", "ST", "CL">> = <<"CA">> \o <<"ST", "CL">>
        OBVIOUS
      <3>3. Flat(<<"ST", "CL">>)
        BY <3>1, FlatOne, FlatAfter
      <3>4. Flat(<<"CA", "ST", "CL">>)
        BY <3>2, <3>3, FlatOne, FlatAfter
      <3>. QED
        BY <3>3, <3>4 DEF Flat
    <2>. HIDE DEF st, text
    <2>6. st # <<>> /\ Len(s) \in Nat
      BY <2>1, <2>3, <2>4
    <2>7. Len(st) = (IF s = <<>> THEN 1 ELSE Len(s)) + Grown(text)
      BY <2>1, <2>4, <2>5, <2>6
    <2>. QED
      BY <1>1, <2>4, <2>5, <2>6, <2>7, StepKeeps
  <1>2. CASE Jsonl!Refuse
    BY <1>2, RefusedKeeps DEF Jsonl!Refuse
  <1>. QED
    BY <1>1, <1>2 DEF Jsonl!Key

\* A scalar keeps it.
LEMMA ScalarKeeps ==
    ASSUME Jsonl!IInv, Jsonl!Scalar
    PROVE  Jsonl!IInv'
  <1>. DEFINE st == Jsonl!JsonlDone(Jsonl!JsonlOpened(s))
              text(kind) == Jsonl!JsonlLead(s) \o <<Jsonl!JsonlScalar(kind)>>
                              \o Jsonl!JsonlTail(s)
  <1>1. CASE /\ Jsonl!WaitsForItem(s)
             /\ \E kind \in {"null", "boolean", "finite", "not finite", "string"} :
                   Jsonl!To(st, text(kind))
             /\ Jsonl!Ended(s) /\ Jsonl!Counted
    <2>1. PICK kind : Jsonl!To(st, text(kind))
      BY <1>1
    <2>2. s \in Seq(Jsonl!Markers) /\ Jsonl!Rooted(s)
      BY DEF Jsonl!IInv, Jsonl!TypeOK, Jsonl!RootIsFirst
    <2>3. /\ Jsonl!JsonlOpened(s) \in Seq(Jsonl!Markers) /\ s # <<>>
          /\ Len(Jsonl!JsonlOpened(s)) = Len(s) /\ Jsonl!Rooted(Jsonl!JsonlOpened(s))
      BY <1>1, <2>2, OpenedNests
    <2>4. Jsonl!JsonlOpened(s) # <<>>
      BY <2>2, <2>3
    <2>5. st \in Seq(Jsonl!Markers) /\ Len(st) = Len(s) /\ Jsonl!Rooted(st)
      BY <2>3, <2>4, DoneNests
    <2>6. Flat(text(kind))
      <3>1. Flat(<<Jsonl!JsonlScalar(kind)>>)
        BY FlatOne DEF Jsonl!JsonlScalar
      <3>. QED
        BY <3>1, LeadAndTail, FlatAfter
    <2>7. elements' \in {elements, elements + 1} /\ whole' \in {whole, Len(out')}
      BY <1>1 DEF Jsonl!Counted, Jsonl!Ended
    <2>. DEFINE t == text(kind)
    <2>8. t \in Seq(Jsonl!Lexeme) /\ Grown(t) = 0 /\ Jsonl!To(st, t)
      BY <2>1, <2>6 DEF Flat
    <2>. HIDE DEF st, text, t
    <2>9. st # <<>> /\ Len(s) \in Nat
      BY <2>2, <2>3, <2>5
    <2>10. Len(st) = (IF s = <<>> THEN 1 ELSE Len(s)) + Grown(t)
      BY <2>3, <2>5, <2>8, <2>9
    <2>. QED
      BY <2>5, <2>7, <2>8, <2>9, <2>10, StepKeeps
  <1>2. CASE Jsonl!Refuse
    BY <1>2, RefusedKeeps DEF Jsonl!Refuse
  <1>. QED
    BY <1>1, <1>2 DEF Jsonl!Scalar

\* A nested container ends.
LEMMA CloseKeeps ==
    ASSUME Jsonl!IInv, Jsonl!WaitsForKey(s) \/ Jsonl!WaitsForElement(s),
           NEW bracket \in {"CB", "CS"}, Jsonl!Close(bracket), UNCHANGED elements
    PROVE  Jsonl!IInv'
  <1>. DEFINE f == Jsonl!Front(s)
              st == Jsonl!JsonlDone(f)
              tail == Jsonl!JsonlTail(f)
              text == <<bracket>> \o tail
  <1>1. Jsonl!To(st, text) /\ Jsonl!Ended(f)
    BY DEF Jsonl!Close
  <1>2. s # <<>>
    BY DEF Jsonl!WaitsForKey, Jsonl!WaitsForElement, Jsonl!JsonlTop
  <1>3. s \in Seq(Jsonl!Markers) /\ Jsonl!Rooted(s) /\ Jsonl!JsonlTop(s) \notin Jsonl!RootMarkers
    BY <1>2, OnTop
  <1>4. f \in Seq(Jsonl!Markers) /\ f # <<>> /\ Len(f) = Len(s) - 1 /\ Jsonl!Rooted(f)
    BY <1>2, <1>3, FrontNests
  <1>. HIDE DEF f
  <1>5. st \in Seq(Jsonl!Markers) /\ Len(st) = Len(f) /\ Jsonl!Rooted(st)
    BY <1>4, DoneNests
  <1>6. Flat(tail)
    BY LeadAndTail
  <1>7. whole' \in {whole, Len(out')}
    BY <1>1 DEF Jsonl!Ended
  <1>. HIDE DEF st, tail
  <1>8. text \in Seq(Jsonl!Lexeme) /\ Grown(text) = 0 - 1
    <2>1. <<bracket>> \in Seq(Jsonl!Lexeme)
      BY DEF Jsonl!Lexeme
    <2>2. Grown(<<bracket>>) = 0 - 1
      BY GrownAfter
    <2>3. tail \in Seq(Jsonl!Lexeme) /\ Grown(tail) = 0
      BY <1>6 DEF Flat
    <2>4. Grown(text) = Grown(<<bracket>>) + Grown(tail)
      BY <2>1, <2>3, GrownAfter
    <2>5. text \in Seq(Jsonl!Lexeme)
      BY <2>1, <2>3
    <2>. QED
      BY <2>2, <2>3, <2>4, <2>5
  <1>. HIDE DEF text
  <1>9. st # <<>>
    BY <1>4, <1>5
  <1>10. Len(st) = (IF s = <<>> THEN 1 ELSE Len(s)) + Grown(text)
    <2>1. Len(s) \in Nat
      BY <1>3
    <2>. QED
      BY <1>2, <1>4, <1>5, <1>8, <2>1
  <1>. QED
    BY <1>1, <1>5, <1>7, <1>8, <1>9, <1>10, StepKeeps

\* The end of an object or of an array keeps it.
LEMMA EndKeeps ==
    ASSUME Jsonl!IInv, Jsonl!ObjectEnd \/ Jsonl!ArrayEnd
    PROVE  Jsonl!IInv'
  <1>1. CASE Jsonl!WaitsForKey(s) /\ Jsonl!Close("CB") /\ UNCHANGED elements
    BY <1>1, CloseKeeps
  <1>2. CASE Jsonl!WaitsForElement(s) /\ Jsonl!Close("CS") /\ UNCHANGED elements
    BY <1>2, CloseKeeps
  <1>3. CASE /\ Jsonl!EndsLine(s)
             /\ Jsonl!To(<<"root-done">>,
                         IF Jsonl!JsonlTop(s) = "lines-open" THEN <<"LF">> ELSE <<>>)
             /\ UNCHANGED <<whole, elements>>
    <2>. DEFINE st == <<"root-done">>
                text == IF Jsonl!JsonlTop(s) = "lines-open" THEN <<"LF">> ELSE <<>>
    <2>1. s # <<>>
      BY <1>3 DEF Jsonl!EndsLine, Jsonl!JsonlTop
    <2>2. Len(s) = 1
      BY <1>3, <2>1, OnTop
    <2>3. "root-done" \in Jsonl!Markers /\ "root-done" \in Jsonl!RootMarkers
      BY DEF Jsonl!Markers, Jsonl!RootMarkers
    <2>4. /\ st \in Seq(Jsonl!Markers) /\ st # <<>> /\ Len(st) = 1 /\ st[1] = "root-done"
          /\ DOMAIN st = {1}
      BY <2>3
    <2>5. text \in Seq(Jsonl!Lexeme) /\ Grown(text) = 0
      <3>1. Flat(<<>>)
        BY GrownAfter DEF Flat
      <3>. QED
        BY <3>1, FlatOne DEF Flat
    <2>6. Jsonl!To(st, text)
      BY <1>3
    <2>. HIDE DEF st, text
    <2>7. Jsonl!Rooted(st)
      BY <2>3, <2>4 DEF Jsonl!Rooted
    <2>8. Len(st) = (IF s = <<>> THEN 1 ELSE Len(s)) + Grown(text)
      BY <2>1, <2>2, <2>4, <2>5
    <2>. QED
      BY <1>3, <2>4, <2>5, <2>6, <2>7, <2>8, StepKeeps
  <1>4. CASE Jsonl!Refuse
    BY <1>4, RefusedKeeps DEF Jsonl!Refuse
  <1>. QED
    BY <1>1, <1>2, <1>3, <1>4 DEF Jsonl!ObjectEnd, Jsonl!ArrayEnd

\* Every step of the renderer keeps it.
LEMMA RenderNext == Jsonl!IInv /\ [Jsonl!Next]_renderVars => Jsonl!IInv'
  <1>1. ASSUME Jsonl!IInv, Jsonl!JsonlFinish
        PROVE  Jsonl!IInv'
    <2>1. UNCHANGED <<s, out, elements>> /\ whole' \in {whole, Len(out)}
      BY <1>1 DEF Jsonl!JsonlFinish, Jsonl!Refuse
    <2>2. status' \in {"running", "failed", "done"}
      BY <1>1 DEF Jsonl!JsonlFinish, Jsonl!Refuse
    <2>. QED
      BY <1>1, <2>1, <2>2, RefusedKeeps
  <1>2. ASSUME Jsonl!IInv, UNCHANGED renderVars
        PROVE  Jsonl!IInv'
    <2>1. UNCHANGED <<s, out, elements, whole, status>>
      BY <1>2 DEF renderVars
    <2>2. status \in {"running", "failed", "done"}
      BY <1>2 DEF Jsonl!IInv, Jsonl!TypeOK
    <2>. QED
      BY <1>2, <2>1, <2>2, RefusedKeeps
  <1>. QED
    BY <1>1, <1>2, ArrayStartKeeps, ObjectStartKeeps, KeyKeeps, ScalarKeeps, EndKeeps
    DEF Jsonl!Next

(***************************************************************************)
(* Whatever events a host sends, the renderer's state is as long as the    *)
(* brackets it has written are deep.                                       *)
(***************************************************************************)
THEOREM StateNests == LibrarySpec => []StateIsNesting
  <1>1. LibraryInit => Jsonl!IInv
    BY RenderInit DEF LibraryInit
  <1>2. [LibraryNext]_libraryVars => [Jsonl!Next]_renderVars
    BY DEF LibraryNext, FirstParse, Plugins, Walk, Renders, libraryVars
  <1>3. Jsonl!IInv => StateIsNesting
    BY DEF Jsonl!IInv, StateIsNesting
  <1>. QED
    BY <1>1, <1>2, <1>3, RenderNext, PTL DEF LibrarySpec

-----------------------------------------------------------------------------
(* The walk: JsonUnsafe.                                                   *)

\* What a container holds is within it.
LEMMA HeldIsWithin ==
    ASSUME NEW c
    PROVE  Unsafe!HeldBy(c) \subseteq Unsafe!Within(c)
  BY DEF Unsafe!Within

\* What is within a container is held by it, or is within one that it holds.
LEMMA WithinOneHeld ==
    ASSUME NEW c, NEW v \in Unsafe!Within(c)
    PROVE  \/ v \in Unsafe!HeldBy(c)
           \/ \E d \in Unsafe!HeldBy(c) \cap Unsafe!Containers : v \in Unsafe!Within(d)
  <1>. DEFINE own == Unsafe!HeldBy(c) \cap Unsafe!Containers
              S == {e \in Unsafe!Containers : e \in own \/ \E d \in own : e \in Unsafe!Reached(d)}
  <1>1. ASSUME NEW d, NEW e \in Unsafe!Reached(d)
        PROVE  Unsafe!HeldBy(e) \cap Unsafe!Containers \subseteq Unsafe!Reached(d)
    BY DEF Unsafe!Reached, Unsafe!Closed
  <1>2. ASSUME NEW e
        PROVE  Unsafe!HeldBy(e) \cap Unsafe!Containers \subseteq Unsafe!Reached(e)
    BY DEF Unsafe!Reached
  <1>3. Unsafe!Closed(S)
    <2>1. ASSUME NEW e \in S, NEW f \in Unsafe!HeldBy(e) \cap Unsafe!Containers
          PROVE  f \in S
      <3>1. CASE e \in own
        BY <1>2, <2>1, <3>1
      <3>2. ASSUME NEW d \in own, e \in Unsafe!Reached(d)
            PROVE  f \in S
        BY <1>1, <2>1, <3>2
      <3>. QED
        BY <3>1, <3>2
    <2>. HIDE DEF S
    <2>. QED
      BY <2>1 DEF Unsafe!Closed
  <1>4. own \subseteq S /\ S \in SUBSET Unsafe!Containers
    OBVIOUS
  <1>5. Unsafe!Reached(c) \subseteq S
    <2>. HIDE DEF S
    <2>. QED
      BY <1>3, <1>4 DEF Unsafe!Reached
  <1>6. CASE v \in Unsafe!HeldBy(c)
    BY <1>6
  <1>7. ASSUME NEW e \in Unsafe!Reached(c), v \in Unsafe!HeldBy(e)
        PROVE  \E d \in own : v \in Unsafe!Within(d)
    <2>1. e \in S
      BY <1>5
    <2>2. CASE e \in own
      BY <1>7, <2>2, HeldIsWithin
    <2>3. ASSUME NEW d \in own, e \in Unsafe!Reached(d)
          PROVE  \E x \in own : v \in Unsafe!Within(x)
      BY <1>7, <2>3 DEF Unsafe!Within
    <2>. QED
      BY <2>1, <2>2, <2>3
  <1>. QED
    BY <1>6, <1>7 DEF Unsafe!Within

\* What a container within another holds is within the other too.
LEMMA WithinHolds ==
    ASSUME NEW c, NEW d \in Unsafe!Within(c) \cap Unsafe!Containers
    PROVE  Unsafe!HeldBy(d) \subseteq Unsafe!Within(c)
  <1>1. ASSUME NEW e \in Unsafe!Reached(c)
        PROVE  Unsafe!HeldBy(e) \cap Unsafe!Containers \subseteq Unsafe!Reached(c)
    BY DEF Unsafe!Reached, Unsafe!Closed
  <1>2. Unsafe!HeldBy(c) \cap Unsafe!Containers \subseteq Unsafe!Reached(c)
    BY DEF Unsafe!Reached
  <1>3. d \in Unsafe!Reached(c)
    BY <1>1, <1>2 DEF Unsafe!Within
  <1>. QED
    BY <1>3 DEF Unsafe!Within

\* And so is what it holds at any depth.
LEMMA WithinWithin ==
    ASSUME NEW c, NEW d \in Unsafe!Within(c) \cap Unsafe!Containers
    PROVE  Unsafe!Within(d) \subseteq Unsafe!Within(c)
  <1>1. d \in Unsafe!Reached(c)
    <2>1. ASSUME NEW e \in Unsafe!Reached(c)
          PROVE  Unsafe!HeldBy(e) \cap Unsafe!Containers \subseteq Unsafe!Reached(c)
      BY DEF Unsafe!Reached, Unsafe!Closed
    <2>2. Unsafe!HeldBy(c) \cap Unsafe!Containers \subseteq Unsafe!Reached(c)
      BY DEF Unsafe!Reached
    <2>. QED
      BY <2>1, <2>2 DEF Unsafe!Within
  <1>2. Unsafe!Reached(d) \subseteq Unsafe!Reached(c)
    <2>1. ASSUME NEW e \in Unsafe!Reached(d), NEW S \in SUBSET Unsafe!Containers,
                 Unsafe!HeldBy(c) \cap Unsafe!Containers \subseteq S, Unsafe!Closed(S)
          PROVE  e \in S
      <3>1. d \in S
        BY <1>1, <2>1 DEF Unsafe!Reached
      <3>2. Unsafe!HeldBy(d) \cap Unsafe!Containers \subseteq S
        BY <2>1, <3>1 DEF Unsafe!Closed
      <3>. QED
        BY <2>1, <3>2 DEF Unsafe!Reached
    <2>2. \A e \in Unsafe!Reached(d) : e \in Unsafe!Containers
      BY DEF Unsafe!Reached
    <2>. QED
      BY <2>1, <2>2 DEF Unsafe!Reached
  <1>. QED
    BY <1>1, <1>2 DEF Unsafe!Within

\* A container of clean values is clean: one that contained itself would hold
\* a value that does.
LEMMA CleanOfClean ==
    ASSUME NEW c \in Unsafe!Containers, \A v \in Unsafe!HeldBy(c) : Unsafe!IsClean(v)
    PROVE  Unsafe!IsClean(c)
  <1>1. ASSUME NEW v \in Unsafe!Within(c)
        PROVE  v \notin {"bytes", "number"}
    BY WithinOneHeld DEF Unsafe!IsClean
  <1>2. ASSUME NEW e \in Unsafe!Within(c) \cap Unsafe!Containers
        PROVE  ~ Unsafe!ContainsItself(e)
    BY WithinOneHeld DEF Unsafe!IsClean
  <1>3. ~ Unsafe!ContainsItself(c)
    <2>. SUFFICES ASSUME c \in Unsafe!Within(c)
                  PROVE  FALSE
      BY DEF Unsafe!ContainsItself
    <2>. QED
      BY <1>2 DEF Unsafe!ContainsItself
  <1>4. c \notin {"bytes", "number"}
    BY DEF Unsafe!Containers
  <1>. QED
    BY <1>1, <1>2, <1>3, <1>4 DEF Unsafe!IsClean

\* A key on the path is that of one container.
LEMMA KeyOfOne ==
    ASSUME NEW c \in Unsafe!Containers, NEW d \in Unsafe!Containers,
           Unsafe!PathKey(c) = Unsafe!PathKey(d)
    PROVE  c = d
  <1>. DEFINE kind(x) == IF x \in {"slice", "shorter slice"} THEN "[]any" ELSE x
  <1>1. \A x1, x2, x3, y1, y2, y3 :
           <<x1, x2, x3>> = <<y1, y2, y3>> => x1 = y1 /\ x2 = y2 /\ x3 = y3
    OBVIOUS
  <1>2. <<Unsafe!Address(c), Unsafe!Length(c), kind(c)>>
          = <<Unsafe!Address(d), Unsafe!Length(d), kind(d)>>
    BY DEF Unsafe!PathKey
  <1>3. Unsafe!Length(c) = Unsafe!Length(d) /\ kind(c) = kind(d)
    <2>. HIDE DEF kind
    <2>. QED
      BY ONLY <1>1, <1>2
  <1>4. c \in {"slice", "shorter slice"} <=> d \in {"slice", "shorter slice"}
    BY <1>3 DEF Unsafe!Containers
  <1>5. CASE c \notin {"slice", "shorter slice"}
    BY <1>3, <1>4, <1>5
  <1>6. CASE c \in {"slice", "shorter slice"}
    <2>1. Unsafe!Length("slice") # Unsafe!Length("shorter slice")
      BY DEF Unsafe!Length
    <2>2. c \in {"slice", "shorter slice"} /\ d \in {"slice", "shorter slice"}
      BY <1>4, <1>6
    <2>3. Unsafe!Length(c) = Unsafe!Length(d)
      BY <1>3
    <2>4. CASE c = "slice"
      BY ONLY Zenon, <2>1, <2>2, <2>3, <2>4
    <2>5. CASE c = "shorter slice"
      BY ONLY Zenon, <2>1, <2>2, <2>3, <2>5
    <2>. QED
      BY <1>6, <2>4, <2>5
  <1>. QED
    BY <1>5, <1>6

\* What a container holds is one value or two.
LEMMA ChildrenAreValues ==
    ASSUME Unsafe!TypeOK, NEW c \in {"value"} \cup Unsafe!Containers
    PROVE  /\ Unsafe!Children(c) \in Seq(Unsafe!Values)
           /\ Len(Unsafe!Children(c)) \in 1 .. 2
  <1>1. /\ \A p \in Unsafe!Places : holds[p] \in Unsafe!Values
        /\ key \in Unsafe!Values
    BY DEF Unsafe!TypeOK, Unsafe!Values
  <1>2. ASSUME NEW v \in Unsafe!Values, Unsafe!Children(c) = <<v>>
        PROVE  /\ Unsafe!Children(c) \in Seq(Unsafe!Values)
               /\ Len(Unsafe!Children(c)) \in 1 .. 2
    <2>1. <<v>> \in Seq(Unsafe!Values) /\ Len(<<v>>) = 1
      OBVIOUS
    <2>. QED
      BY <1>2, <2>1
  <1>3. ASSUME NEW v \in Unsafe!Values, NEW w \in Unsafe!Values,
               Unsafe!Children(c) = <<v, w>>
        PROVE  /\ Unsafe!Children(c) \in Seq(Unsafe!Values)
               /\ Len(Unsafe!Children(c)) \in 1 .. 2
    <2>1. <<v, w>> \in Seq(Unsafe!Values) /\ Len(<<v, w>>) = 2
      OBVIOUS
    <2>. QED
      BY <1>3, <2>1
  <1>4. \E v \in Unsafe!Values : Unsafe!Children(c) = <<v>>
                                 \/ \E w \in Unsafe!Values : Unsafe!Children(c) = <<v, w>>
    BY <1>1 DEF Unsafe!Children, Unsafe!Containers, Unsafe!Places
  <1>. QED
    BY <1>2, <1>3, <1>4

\* The memory is the same throughout the walk.
LEMMA SameMemory ==
    ASSUME UNCHANGED <<holds, key>>
    PROVE  /\ \A c : Unsafe!Children(c)' = Unsafe!Children(c)
           /\ \A c : Unsafe!Within(c)' = Unsafe!Within(c)
           /\ Unsafe!Clean' = Unsafe!Clean
  <1>1. ASSUME NEW c
        PROVE  Unsafe!Children(c)' = Unsafe!Children(c)
    BY DEF Unsafe!Children
  <1>2. ASSUME NEW c
        PROVE  Unsafe!HeldBy(c)' = Unsafe!HeldBy(c)
    BY <1>1 DEF Unsafe!HeldBy
  <1>3. ASSUME NEW S
        PROVE  Unsafe!Closed(S)' <=> Unsafe!Closed(S)
    BY <1>2 DEF Unsafe!Closed
  <1>4. ASSUME NEW c
        PROVE  Unsafe!Reached(c)' = Unsafe!Reached(c)
    BY <1>2, <1>3 DEF Unsafe!Reached
  <1>5. ASSUME NEW c
        PROVE  Unsafe!Within(c)' = Unsafe!Within(c)
    BY <1>2, <1>4 DEF Unsafe!Within
  <1>6. ASSUME NEW v
        PROVE  Unsafe!IsClean(v)' <=> Unsafe!IsClean(v)
    BY <1>5 DEF Unsafe!IsClean, Unsafe!ContainsItself
  <1>7. Unsafe!Clean' = Unsafe!Clean
    BY <1>6 DEF Unsafe!Clean
  <1>. QED
    BY <1>1, <1>5, <1>7

\* While it walks, there is a container on top.
LEMMA OnePath ==
    ASSUME Unsafe!TypeOK, Unsafe!StackIsPath, Unsafe!Walking
    PROVE  /\ Len(stack) \in Nat \ {0} /\ Len(stack) \in 1 .. Len(stack)
           /\ Unsafe!Last(stack) = stack[Len(stack)]
           /\ \A i \in 1 .. Len(stack) :
                 /\ stack[i].at \in {"value"} \cup Unsafe!Containers
                 /\ stack[i].next \in 1 .. 3
                 /\ stack[i] \in [at : {"value"} \cup Unsafe!Containers, next : 1 .. 3]
  <1>1. stack \in Seq([at : {"value"} \cup Unsafe!Containers, next : 1 .. 3]) /\ stack # <<>>
    BY DEF Unsafe!TypeOK, Unsafe!StackIsPath
  <1>2. Len(stack) \in Nat \ {0}
    BY <1>1
  <1>3. ASSUME NEW i \in 1 .. Len(stack)
        PROVE  stack[i] \in [at : {"value"} \cup Unsafe!Containers, next : 1 .. 3]
    <2>. DEFINE X == [at : {"value"} \cup Unsafe!Containers, next : 1 .. 3]
    <2>. HIDE DEF X
    <2>. QED
      BY ONLY <1>1, <1>3, ElementOfSeq DEF X
  <1>4. Unsafe!Last(stack) = stack[Len(stack)]
    BY DEF Unsafe!Last
  <1>. QED
    BY <1>2, <1>3, <1>4

\* The containers of the path are in each other.
LEMMA PathIsNested ==
    ASSUME Unsafe!TypeOK, Unsafe!StackIsPath, Unsafe!Walking,
           NEW j \in 1 .. Len(stack), NEW i \in j + 1 .. Len(stack)
    PROVE  stack[i].at \in Unsafe!Within(stack[j].at)
  <1>1. Len(stack) \in Nat
    BY OnePath
  <1>2. ASSUME NEW k \in 2 .. Len(stack)
        PROVE  /\ stack[k].at \in Unsafe!HeldBy(stack[k - 1].at)
               /\ stack[k].at \in Unsafe!Containers
    <2>1. /\ stack[k].at \in Unsafe!Containers
          /\ stack[k - 1].next - 1 \in DOMAIN Unsafe!Children(stack[k - 1].at)
          /\ stack[k].at = Unsafe!Children(stack[k - 1].at)[stack[k - 1].next - 1]
      BY <1>2 DEF Unsafe!StackIsPath
    <2>. QED
      BY <2>1 DEF Unsafe!HeldBy, Unsafe!ToSet
  <1>. DEFINE Out(k) == j + 1 + k \in 1 .. Len(stack)
                        /\ stack[j + 1 + k].at \notin Unsafe!Within(stack[j].at)
  <1>3. ASSUME NEW k \in Nat, Out(k)
        PROVE  \E m \in Nat : m < k /\ Out(m)
    <2>1. CASE k = 0
      <3>1. stack[j + 1].at \in Unsafe!HeldBy(stack[j].at)
        BY <1>1, <1>2, <1>3, <2>1
      <3>. QED
        BY <1>3, <2>1, <3>1, HeldIsWithin
    <2>2. CASE k # 0
      <3>1. k - 1 \in Nat /\ k - 1 < k /\ j + 1 + k \in 2 .. Len(stack)
            /\ j + 1 + (k - 1) \in 2 .. Len(stack) /\ j + 1 + (k - 1) = (j + 1 + k) - 1
        BY <1>1, <1>3, <2>2
      <3>2. /\ stack[j + 1 + k].at \in Unsafe!HeldBy(stack[j + 1 + (k - 1)].at)
            /\ stack[j + 1 + (k - 1)].at \in Unsafe!Containers
        BY <1>2, <3>1
      <3>3. stack[j + 1 + (k - 1)].at \notin Unsafe!Within(stack[j].at)
        BY <1>3, <3>2, WithinHolds
      <3>4. Out(k - 1)
        BY <1>1, <3>1, <3>3
      <3>. QED
        BY <3>1, <3>4
    <2>. QED
      BY <2>1, <2>2
  <1>4. ASSUME NEW k \in Nat, Out(k)
        PROVE  FALSE
    <2>. DEFINE T == {x \in Nat : Out(x)}
    <2>. HIDE DEF Out
    <2>1. T \subseteq Nat /\ T # {}
      BY <1>4
    <2>2. \E m \in T : \A x \in T : m <= x
      <3>. HIDE DEF T
      <3>. QED
        BY <2>1, LeastExists
    <2>. QED
      BY <1>3, <2>2
  <1>5. i - j - 1 \in Nat /\ j + 1 + (i - j - 1) = i /\ i \in 1 .. Len(stack)
    BY <1>1
  <1>. QED
    BY <1>4, <1>5

\* What is due is within every container of the path.
LEMMA DueChild ==
    ASSUME Unsafe!TypeOK, Unsafe!StackIsPath, Unsafe!Walking, Unsafe!Left
    PROVE  /\ stack[Len(stack)].next \in DOMAIN Unsafe!Children(stack[Len(stack)].at)
           /\ stack[Len(stack)].next \in 1 .. 2
           /\ Unsafe!Child = Unsafe!Children(stack[Len(stack)].at)[stack[Len(stack)].next]
           /\ Unsafe!Child \in Unsafe!Values
           /\ \A j \in 1 .. Len(stack) : Unsafe!Child \in Unsafe!Within(stack[j].at)
           /\ Unsafe!Child \in Unsafe!Within("value")
  <1>. DEFINE n == Len(stack)
              c == stack[n].at
              k == stack[n].next
  <1>1. n \in Nat \ {0} /\ Unsafe!Last(stack) = stack[n]
        /\ c \in {"value"} \cup Unsafe!Containers /\ k \in 1 .. 3
    <2>1. n \in Nat \ {0} /\ n \in 1 .. n /\ Unsafe!Last(stack) = stack[n]
      BY OnePath
    <2>2. \A i \in 1 .. n : stack[i].at \in {"value"} \cup Unsafe!Containers
                            /\ stack[i].next \in 1 .. 3
      BY OnePath
    <2>. HIDE DEF n
    <2>. QED
      BY <2>1, <2>2
  <1>2. Unsafe!Children(c) \in Seq(Unsafe!Values) /\ Len(Unsafe!Children(c)) \in 1 .. 2
    BY <1>1, ChildrenAreValues
  <1>3. k <= Len(Unsafe!Children(c)) /\ Unsafe!Child = Unsafe!Children(c)[k]
    BY <1>1 DEF Unsafe!Left, Unsafe!Child
  <1>. HIDE DEF c, k
  <1>4. k \in 1 .. 2 /\ k \in 1 .. Len(Unsafe!Children(c))
    BY <1>1, <1>2, <1>3
  <1>5. k \in DOMAIN Unsafe!Children(c)
    BY <1>2, <1>4
  <1>6. Unsafe!Child \in Unsafe!Values
    BY <1>2, <1>3, <1>4, ElementOfSeq
  <1>7. Unsafe!Child \in Unsafe!HeldBy(c)
    BY <1>3, <1>5 DEF Unsafe!HeldBy, Unsafe!ToSet
  <1>8. ASSUME NEW j \in 1 .. n
        PROVE  Unsafe!Child \in Unsafe!Within(stack[j].at)
    <2>1. CASE j = n
      BY <1>7, <2>1, HeldIsWithin DEF c
    <2>2. CASE j # n
      <3>1. n \in j + 1 .. n /\ n \in 2 .. n
        BY <1>1, <2>2
      <3>2. c \in Unsafe!Within(stack[j].at)
        BY <1>8, <3>1, PathIsNested DEF c
      <3>3. c \in Unsafe!Containers
        BY <3>1 DEF Unsafe!StackIsPath, c
      <3>. QED
        BY <1>7, <3>2, <3>3, WithinHolds
    <2>. QED
      BY <2>1, <2>2
  <1>9. stack[1].at = "value" /\ 1 \in 1 .. n
    BY <1>1 DEF Unsafe!StackIsPath, Unsafe!Walking
  <1>. QED
    BY <1>3, <1>4, <1>5, <1>6, <1>8, <1>9 DEF c, k

\* Advanced moves on in the container on top and leaves the others.
LEMMA AdvancedTop ==
    ASSUME Unsafe!TypeOK, Unsafe!StackIsPath, Unsafe!Walking, Unsafe!Left
    PROVE  /\ Unsafe!Advanced(stack) \in Seq([at : {"value"} \cup Unsafe!Containers, next : 1 .. 3])
           /\ Len(Unsafe!Advanced(stack)) = Len(stack)
           /\ \A i \in 1 .. Len(stack) :
                 /\ Unsafe!Advanced(stack)[i].at = stack[i].at
                 /\ Unsafe!Advanced(stack)[i].next
                      = IF i = Len(stack) THEN stack[i].next + 1 ELSE stack[i].next
  <1>. DEFINE n == Len(stack)
              X == [at : {"value"} \cup Unsafe!Containers, next : 1 .. 3]
              e == [stack[n] EXCEPT !.next = @ + 1]
  <1>1. n \in Nat \ {0} /\ stack[n] \in X /\ stack \in Seq(X)
    <2>1. n \in Nat \ {0} /\ n \in 1 .. n
      BY OnePath
    <2>2. \A i \in 1 .. n : stack[i] \in X
      BY OnePath
    <2>3. stack \in Seq(X)
      BY DEF Unsafe!TypeOK
    <2>. HIDE DEF n, X
    <2>. QED
      BY <2>1, <2>2, <2>3
  <1>2. stack[n].next \in 1 .. 2
    BY DueChild
  <1>3. e \in X /\ e.at = stack[n].at /\ e.next = stack[n].next + 1
    BY <1>1, <1>2
  <1>4. Unsafe!Advanced(stack) = [stack EXCEPT ![n] = e]
    BY DEF Unsafe!Advanced
  <1>5. [stack EXCEPT ![n] = e] \in Seq(X) /\ Len([stack EXCEPT ![n] = e]) = n
        /\ \A i \in 1 .. n : [stack EXCEPT ![n] = e][i] = IF i = n THEN e ELSE stack[i]
    <2>. HIDE DEF X, e
    <2>. QED
      BY <1>1, <1>3
  <1>. QED
    <2>. HIDE DEF e, X
    <2>1. ASSUME NEW i \in 1 .. n
          PROVE  /\ Unsafe!Advanced(stack)[i].at = stack[i].at
                 /\ Unsafe!Advanced(stack)[i].next
                      = IF i = n THEN stack[i].next + 1 ELSE stack[i].next
      BY <1>3, <1>4, <1>5, <2>1
    <2>. QED
      BY <1>4, <1>5, <2>1 DEF X

\* The children of what is on the stack then.
LEMMA ChildrenThen ==
    ASSUME UNCHANGED <<holds, key>>, NEW i
    PROVE  Unsafe!Children(stack[i].at)' = Unsafe!Children(stack'[i].at)
  BY DEF Unsafe!Children

\* The invariant of a stack, a path and a reason in the memory as it is.
IsPath(st, keys, reason) ==
    /\ reason = "walking" <=> st # <<>>
    /\ st # <<>> => st[1].at = "value"
    /\ \A i \in 2 .. Len(st) :
          /\ st[i].at \in Unsafe!Containers
          /\ st[i - 1].next - 1 \in DOMAIN Unsafe!Children(st[i - 1].at)
          /\ st[i].at = Unsafe!Children(st[i - 1].at)[st[i - 1].next - 1]
          /\ \A j \in 1 .. i - 1 : st[i].at # st[j].at
    /\ keys = {Unsafe!PathKey(st[i].at) : i \in 2 .. Len(st)}

IsWalkedClean(st) ==
    \A i \in DOMAIN st : \A k \in DOMAIN Unsafe!Children(st[i].at) :
        k < st[i].next /\ ~(i < Len(st) /\ k = st[i].next - 1)
        => Unsafe!Children(st[i].at)[k] \in Unsafe!Clean

\* It is the same before and after a step of the walk.
LEMMA PathThen ==
    ASSUME UNCHANGED <<holds, key>>, IsPath(stack', onPath', why'), IsWalkedClean(stack')
    PROVE  Unsafe!StackIsPath' /\ Unsafe!WalkedIsClean'
  <1>1. \A c : Unsafe!Children(c)' = Unsafe!Children(c)
    BY SameMemory
  <1>2. Unsafe!Clean' = Unsafe!Clean
    BY SameMemory
  <1>3. \A i : Unsafe!Children(stack[i].at)' = Unsafe!Children(stack'[i].at)
    BY ChildrenThen
  <1>4. Unsafe!StackIsPath'
    BY <1>3 DEF IsPath, Unsafe!StackIsPath, Unsafe!Walking
  <1>5. Unsafe!WalkedIsClean'
    BY <1>2, <1>3 DEF IsWalkedClean, Unsafe!WalkedIsClean
  <1>. QED
    BY <1>4, <1>5

\* They say the same of the state as it is.
LEMMA PathNow ==
    /\ Unsafe!StackIsPath <=> IsPath(stack, onPath, why)
    /\ Unsafe!WalkedIsClean <=> IsWalkedClean(stack)
  BY DEF IsPath, IsWalkedClean, Unsafe!StackIsPath, Unsafe!WalkedIsClean, Unsafe!Walking

\* Text is written as it is.
LEMMA TextKeeps ==
    ASSUME Unsafe!IInv, Unsafe!Text
    PROVE  Unsafe!IInv'
  <1>. DEFINE n == Len(stack)
              new == Unsafe!Advanced(stack)
              Kids(c) == Unsafe!Children(c)
  <1>1. Unsafe!TypeOK /\ Unsafe!StackIsPath /\ Unsafe!Walking /\ Unsafe!Left
        /\ stack' = new /\ UNCHANGED <<holds, key, onPath, why>>
    BY DEF Unsafe!IInv, Unsafe!Text
  <1>2. /\ new \in Seq([at : {"value"} \cup Unsafe!Containers, next : 1 .. 3])
        /\ Len(new) = n
        /\ \A i \in 1 .. n : /\ new[i].at = stack[i].at
                             /\ new[i].next
                                  = IF i = n THEN stack[i].next + 1 ELSE stack[i].next
    BY <1>1, AdvancedTop
  <1>3. n \in Nat \ {0} /\ (\A i \in 1 .. n : stack[i].next \in 1 .. 3)
        /\ DOMAIN new = 1 .. n /\ DOMAIN stack = 1 .. n /\ new # <<>> /\ stack # <<>>
    <2>1. n \in Nat \ {0} /\ \A i \in 1 .. n : stack[i].next \in 1 .. 3
      BY <1>1, OnePath
    <2>2. stack \in Seq([at : {"value"} \cup Unsafe!Containers, next : 1 .. 3])
      BY <1>1 DEF Unsafe!TypeOK
    <2>3. DOMAIN new = 1 .. n /\ DOMAIN stack = 1 .. n
      BY <1>2, <2>2
    <2>. QED
      BY <2>1, <2>3
  <1>4. Unsafe!TypeOK'
    BY <1>1, <1>2 DEF Unsafe!TypeOK
  <1>5. IsPath(stack, onPath, why) /\ IsWalkedClean(stack)
    BY PathNow DEF Unsafe!IInv
  <1>6. Kids(stack[n].at)[stack[n].next] \in Unsafe!Clean
    <2>1. Unsafe!Child \in Unsafe!Clean
      BY <1>1, DueChild DEF Unsafe!Text, Unsafe!Clean, Unsafe!IsClean, Unsafe!Containers
    <2>. QED
      BY <1>1, <2>1, DueChild
  <1>. HIDE DEF new, n
  <1>7. IsPath(new, onPath, why)
    <2>1. ASSUME NEW i \in 2 .. n
          PROVE  /\ new[i].at \in Unsafe!Containers
                 /\ new[i - 1].next - 1 \in DOMAIN Kids(new[i - 1].at)
                 /\ new[i].at = Kids(new[i - 1].at)[new[i - 1].next - 1]
                 /\ \A j \in 1 .. i - 1 : new[i].at # new[j].at
      <3>1. i \in 1 .. n /\ i - 1 \in 1 .. n /\ i - 1 # n /\ 1 .. i - 1 \subseteq 1 .. n
        BY <1>3
      <3>2. new[i].at = stack[i].at /\ new[i - 1].at = stack[i - 1].at
            /\ new[i - 1].next = stack[i - 1].next
            /\ \A j \in 1 .. i - 1 : new[j].at = stack[j].at
        BY <1>2, <3>1
      <3>. QED
        BY <1>5, <3>2 DEF IsPath, n
    <2>2. new[1].at = "value"
      BY <1>2, <1>3, <1>5 DEF IsPath
    <2>3. onPath = {Unsafe!PathKey(new[i].at) : i \in 2 .. n}
      <3>1. \A i \in 2 .. n : new[i].at = stack[i].at
        BY <1>2, <1>3
      <3>. QED
        BY SMTT(20), <1>5, <3>1 DEF IsPath, n
    <2>. QED
      BY <1>2, <1>3, <1>5, <2>1, <2>2, <2>3 DEF IsPath
  <1>8. IsWalkedClean(new)
    <2>1. ASSUME NEW i \in 1 .. n, NEW k \in DOMAIN Kids(new[i].at),
                 k < new[i].next, ~(i < n /\ k = new[i].next - 1)
          PROVE  Kids(new[i].at)[k] \in Unsafe!Clean
      <3>1. new[i].at = stack[i].at
        BY <1>2
      <3>2. CASE i # n
        <4>1. new[i].next = stack[i].next
          BY <1>2, <3>2
        <4>. QED
          BY <1>3, <1>5, <2>1, <3>1, <4>1 DEF IsWalkedClean, n
      <3>3. CASE i = n /\ k = stack[n].next
        BY <1>6, <3>1, <3>3
      <3>4. CASE i = n /\ k # stack[n].next
        <4>1. new[i].next = stack[i].next + 1 /\ stack[i].next \in 1 .. 3
          BY <1>2, <1>3, <3>4
        <4>2. k \in Nat
          <5>1. stack[i].at \in {"value"} \cup Unsafe!Containers
            BY <1>1, OnePath DEF n
          <5>2. Kids(stack[i].at) \in Seq(Unsafe!Values)
            BY <1>1, <5>1, ChildrenAreValues
          <5>. QED
            BY <2>1, <3>1, <5>2
        <4>3. k < stack[i].next /\ ~(i < n)
          BY <1>3, <2>1, <3>4, <4>1, <4>2
        <4>. QED
          BY <1>3, <1>5, <2>1, <3>1, <4>3 DEF IsWalkedClean, n
      <3>. QED
        BY <3>2, <3>3, <3>4
    <2>. QED
      BY <1>2, <1>3, <2>1 DEF IsWalkedClean
  <1>. QED
    BY <1>1, <1>4, <1>7, <1>8, PathThen DEF Unsafe!IInv

\* A container that is not on the path is put on it.
LEMMA EnterKeeps ==
    ASSUME Unsafe!IInv, Unsafe!Enter
    PROVE  Unsafe!IInv'
  <1>. DEFINE n == Len(stack)
              top == Unsafe!Advanced(stack)
              e == [at |-> Unsafe!Child, next |-> 1]
              new == Append(top, e)
              X == [at : {"value"} \cup Unsafe!Containers, next : 1 .. 3]
              Kids(c) == Unsafe!Children(c)
  <1>1. Unsafe!TypeOK /\ Unsafe!StackIsPath /\ Unsafe!Walking /\ Unsafe!Left
        /\ stack' = new /\ UNCHANGED <<holds, key, why>>
        /\ Unsafe!Child \in Unsafe!Containers /\ Unsafe!PathKey(Unsafe!Child) \notin onPath
        /\ onPath' = onPath \cup {Unsafe!PathKey(Unsafe!Child)}
    BY DEF Unsafe!IInv, Unsafe!Enter
  <1>2. /\ top \in Seq(X)
        /\ Len(top) = n
        /\ \A i \in 1 .. n : /\ top[i].at = stack[i].at
                             /\ top[i].next
                                  = IF i = n THEN stack[i].next + 1 ELSE stack[i].next
    BY <1>1, AdvancedTop
  <1>3. n \in Nat \ {0} /\ (\A i \in 1 .. n : stack[i].next \in 1 .. 3)
        /\ DOMAIN stack = 1 .. n /\ stack # <<>>
    <2>1. n \in Nat \ {0} /\ \A i \in 1 .. n : stack[i].next \in 1 .. 3
      BY <1>1, OnePath
    <2>2. stack \in Seq(X)
      BY <1>1 DEF Unsafe!TypeOK
    <2>3. DOMAIN stack = 1 .. n
      BY <2>2
    <2>. QED
      BY <2>1, <2>3
  <1>4. e \in X /\ e.at = Unsafe!Child /\ e.next = 1
    BY <1>1
  <1>5. /\ new \in Seq(X) /\ Len(new) = n + 1 /\ DOMAIN new = 1 .. n + 1
        /\ \A i \in 1 .. n : new[i] = top[i]
        /\ new[n + 1] = e
    <2>. HIDE DEF top, e, X, n
    <2>. QED
      BY <1>2, <1>3, <1>4
  <1>6. Unsafe!TypeOK'
    BY <1>1, <1>5 DEF Unsafe!TypeOK
  <1>7. IsPath(stack, onPath, why) /\ IsWalkedClean(stack)
    BY PathNow DEF Unsafe!IInv
  <1>8. /\ stack[n].next \in DOMAIN Kids(stack[n].at)
        /\ Unsafe!Child = Kids(stack[n].at)[stack[n].next]
    BY <1>1, DueChild
  <1>9. /\ \A i \in 1 .. n : new[i].at = stack[i].at
        /\ \A i \in 1 .. n : i # n => new[i].next = stack[i].next
        /\ new[n].next = stack[n].next + 1
        /\ new[n + 1].at = Unsafe!Child /\ new[n + 1].next = 1
    <2>. HIDE DEF n, new, top, e
    <2>. QED
      BY <1>2, <1>3, <1>4, <1>5
  <1>. HIDE DEF new, n, top, e
  <1>10. ASSUME NEW j \in 1 .. n
         PROVE  stack[j].at # Unsafe!Child
    <2>1. CASE j = 1
      BY <1>1, <1>3, <1>7, <2>1 DEF IsPath, Unsafe!Containers
    <2>2. CASE j # 1
      <3>1. j \in 2 .. n
        BY <1>3, <2>2
      <3>2. Unsafe!PathKey(stack[j].at) \in onPath
        BY <1>7, <3>1 DEF IsPath, n
      <3>. QED
        BY <1>1, <3>2
    <2>. QED
      BY <2>1, <2>2
  <1>11. IsPath(new, onPath', why)
    <2>1. ASSUME NEW i \in 2 .. n
          PROVE  /\ new[i].at \in Unsafe!Containers
                 /\ new[i - 1].next - 1 \in DOMAIN Kids(new[i - 1].at)
                 /\ new[i].at = Kids(new[i - 1].at)[new[i - 1].next - 1]
                 /\ \A j \in 1 .. i - 1 : new[i].at # new[j].at
      <3>1. i \in 1 .. n /\ i - 1 \in 1 .. n /\ i - 1 # n /\ 1 .. i - 1 \subseteq 1 .. n
        BY <1>3
      <3>2. new[i].at = stack[i].at /\ new[i - 1].at = stack[i - 1].at
            /\ new[i - 1].next = stack[i - 1].next
            /\ \A j \in 1 .. i - 1 : new[j].at = stack[j].at
        BY <1>9, <3>1
      <3>. QED
        BY <1>7, <3>2 DEF IsPath, n
    <2>2. ASSUME NEW i \in {n + 1}
          PROVE  /\ new[i].at \in Unsafe!Containers
                 /\ new[i - 1].next - 1 \in DOMAIN Kids(new[i - 1].at)
                 /\ new[i].at = Kids(new[i - 1].at)[new[i - 1].next - 1]
                 /\ \A j \in 1 .. i - 1 : new[i].at # new[j].at
      <3>1. i - 1 = n /\ i = n + 1 /\ n \in 1 .. n
        BY <1>3
      <3>2. new[n].at = stack[n].at /\ new[n].next - 1 = stack[n].next
        BY <1>3, <1>9, <3>1
      <3>3. \A j \in 1 .. n : new[i].at # new[j].at
        BY <1>9, <1>10, <3>1
      <3>4. new[i].at = Unsafe!Child /\ new[i - 1].at = stack[n].at
            /\ new[i - 1].next - 1 = stack[n].next
        BY <1>9, <3>1, <3>2
      <3>5. /\ new[i - 1].next - 1 \in DOMAIN Kids(new[i - 1].at)
            /\ new[i].at = Kids(new[i - 1].at)[new[i - 1].next - 1]
        BY <1>8, <3>4
      <3>. QED
        BY <1>1, <3>1, <3>3, <3>4, <3>5
    <2>3. new[1].at = "value" /\ new # <<>> /\ why = "walking"
      <3>1. 1 \in 1 .. n /\ 1 \in DOMAIN new
        BY <1>3, <1>5
      <3>. QED
        BY <1>1, <1>3, <1>7, <1>9, <3>1 DEF IsPath, Unsafe!Walking
    <2>4. onPath' = {Unsafe!PathKey(new[i].at) : i \in 2 .. n + 1}
      <3>1. \A i \in 2 .. n : new[i].at = stack[i].at
        BY <1>3, <1>9
      <3>2. 2 .. n + 1 = (2 .. n) \cup {n + 1}
        BY <1>3
      <3>3. onPath = {Unsafe!PathKey(stack[i].at) : i \in 2 .. n}
        BY <1>7 DEF IsPath, n
      <3>4. onPath = {Unsafe!PathKey(new[i].at) : i \in 2 .. n}
        BY <3>1, <3>3
      <3>. QED
        BY <1>1, <1>9, <3>2, <3>4
    <2>5. 2 .. n + 1 = (2 .. n) \cup {n + 1}
      BY <1>3
    <2>. QED
      BY <1>5, <2>1, <2>2, <2>3, <2>4, <2>5 DEF IsPath
  <1>12. IsWalkedClean(new)
    <2>1. ASSUME NEW i \in 1 .. n + 1, NEW k \in DOMAIN Kids(new[i].at),
                 k < new[i].next, ~(i < n + 1 /\ k = new[i].next - 1)
          PROVE  Kids(new[i].at)[k] \in Unsafe!Clean
      <3>1. ASSUME NEW x \in {"value"} \cup Unsafe!Containers
            PROVE  \A y \in DOMAIN Kids(x) : y \in Nat \ {0}
        <4>1. Kids(x) \in Seq(Unsafe!Values)
          BY <1>1, ChildrenAreValues
        <4>. QED
          BY <4>1
      <3>2. CASE i = n + 1
        <4>1. k \in Nat \ {0}
          BY <1>1, <1>9, <2>1, <3>1, <3>2
        <4>. QED
          BY <1>9, <2>1, <3>2, <4>1
      <3>3. CASE i \in 1 .. n
        <4>1. new[i].at = stack[i].at
          BY <1>9, <3>3
        <4>2. k \in Nat \ {0}
          <5>1. stack[i].at \in {"value"} \cup Unsafe!Containers
            BY <1>1, <3>3, OnePath DEF n
          <5>. QED
            BY <2>1, <3>1, <4>1, <5>1
        <4>3. i < n + 1 /\ k # new[i].next - 1
          BY <1>3, <2>1, <3>3
        <4>4. CASE i = n
          <5>1. new[i].next = stack[i].next + 1 /\ stack[i].next \in 1 .. 3
            BY <1>3, <1>9, <3>3, <4>4
          <5>2. k < stack[i].next /\ ~(i < n)
            BY <1>3, <2>1, <4>2, <4>3, <4>4, <5>1
          <5>. QED
            BY <1>3, <1>7, <2>1, <3>3, <4>1, <5>2 DEF IsWalkedClean, n
        <4>5. CASE i # n
          <5>1. new[i].next = stack[i].next
            BY <1>9, <3>3, <4>5
          <5>. QED
            BY <1>3, <1>7, <2>1, <3>3, <4>1, <4>3, <5>1 DEF IsWalkedClean, n
        <4>. QED
          BY <4>4, <4>5
      <3>. QED
        BY <1>3, <3>2, <3>3
    <2>. QED
      BY <1>5, <2>1 DEF IsWalkedClean
  <1>. QED
    <2>1. why' = why
      BY <1>1
    <2>. QED
      BY <1>1, <1>6, <1>11, <1>12, <2>1, PathThen DEF Unsafe!IInv

\* A container whose children were all walked is clean itself.
LEMMA LeftIsClean ==
    ASSUME Unsafe!IInv, Unsafe!Walking, ~Unsafe!Left
    PROVE  \A v \in Unsafe!HeldBy(stack[Len(stack)].at) : v \in Unsafe!Clean
  <1>. DEFINE n == Len(stack)
              c == stack[n].at
  <1>1. Unsafe!TypeOK /\ Unsafe!StackIsPath /\ IsWalkedClean(stack)
    BY PathNow DEF Unsafe!IInv
  <1>2. n \in Nat /\ n \in 1 .. n /\ Unsafe!Last(stack) = stack[n]
    BY <1>1, OnePath
  <1>3. c \in {"value"} \cup Unsafe!Containers /\ stack[n].next \in 1 .. 3
    <2>1. \A i \in 1 .. n : stack[i].at \in {"value"} \cup Unsafe!Containers
                            /\ stack[i].next \in 1 .. 3
      BY <1>1, OnePath
    <2>. HIDE DEF n
    <2>. QED
      BY <1>2, <2>1
  <1>4. Unsafe!Children(c) \in Seq(Unsafe!Values) /\ Len(Unsafe!Children(c)) \in 1 .. 2
    BY <1>1, <1>3, ChildrenAreValues
  <1>5. ~(stack[n].next <= Len(Unsafe!Children(c)))
    BY <1>2 DEF Unsafe!Left
  <1>6. ASSUME NEW k \in DOMAIN Unsafe!Children(c)
        PROVE  Unsafe!Children(c)[k] \in Unsafe!Clean
    <2>1. k < stack[n].next
      <3>. HIDE DEF c, n
      <3>. QED
        BY <1>3, <1>4, <1>5, <1>6
    <2>2. n \in DOMAIN stack
      <3>1. stack \in Seq([at : {"value"} \cup Unsafe!Containers, next : 1 .. 3])
        BY <1>1 DEF Unsafe!TypeOK
      <3>2. DOMAIN stack = 1 .. n
        BY <3>1
      <3>. QED
        BY <1>2, <3>2
    <2>. QED
      BY <1>1, <1>2, <1>6, <2>1, <2>2 DEF IsWalkedClean
  <1>. QED
    BY <1>6 DEF Unsafe!HeldBy, Unsafe!ToSet

\* Leaving a container, the walk goes on in the one that holds it.
LEMMA LeaveKeeps ==
    ASSUME Unsafe!IInv, Unsafe!Leave, Len(stack) # 1
    PROVE  Unsafe!IInv' /\ why' = "walking"
  <1>. DEFINE n == Len(stack)
              new == Unsafe!Front(stack)
              c == stack[n].at
              X == [at : {"value"} \cup Unsafe!Containers, next : 1 .. 3]
              Kids(x) == Unsafe!Children(x)
  <1>1. Unsafe!TypeOK /\ Unsafe!StackIsPath /\ Unsafe!Walking /\ ~Unsafe!Left
        /\ stack' = new /\ UNCHANGED <<holds, key>>
        /\ onPath' = (IF new = <<>> THEN {} ELSE onPath \ {Unsafe!PathKey(Unsafe!Last(stack).at)})
        /\ why' = (IF new = <<>> THEN "" ELSE why)
    BY DEF Unsafe!IInv, Unsafe!Leave
  <1>2. n \in Nat \ {0, 1} /\ Unsafe!Last(stack) = stack[n] /\ stack \in Seq(X)
    BY <1>1, OnePath DEF Unsafe!TypeOK
  <1>3. /\ new \in Seq(X) /\ Len(new) = n - 1 /\ DOMAIN new = 1 .. n - 1
        /\ \A i \in 1 .. n - 1 : new[i] = stack[i]
    <2>1. new = SubSeq(stack, 1, n - 1)
      BY DEF Unsafe!Front
    <2>2. n - 1 \in 0 .. n /\ n = Len(stack)
      BY <1>2
    <2>3. ASSUME NEW m \in 0 .. n
          PROVE  /\ SubSeq(stack, 1, m) \in Seq(X) /\ Len(SubSeq(stack, 1, m)) = m
                 /\ DOMAIN SubSeq(stack, 1, m) = 1 .. m
                 /\ \A i \in 1 .. m : SubSeq(stack, 1, m)[i] = stack[i]
      <3>. HIDE DEF X, n
      <3>. QED
        BY <1>2, <2>2
    <2>. HIDE DEF X, new, n
    <2>. QED
      BY <2>1, <2>2, <2>3
  <1>. HIDE DEF new, n
  <1>4. new # <<>> /\ stack # <<>> /\ DOMAIN stack = 1 .. n
    <2>1. 1 \in DOMAIN new
      BY <1>2, <1>3
    <2>2. DOMAIN stack = 1 .. n
      BY <1>2 DEF n
    <2>. QED
      BY <1>2, <2>1, <2>2
  <1>5. IsPath(stack, onPath, why) /\ IsWalkedClean(stack)
    BY PathNow DEF Unsafe!IInv
  <1>6. n \in 2 .. n /\ 1 .. n - 1 \subseteq 1 .. n /\ 2 .. n - 1 \subseteq 2 .. n
        /\ 2 .. n = (2 .. n - 1) \cup {n} /\ 2 .. n - 1 \subseteq 1 .. n - 1
    BY <1>2
  <1>7. c \in Unsafe!Clean
    <2>1. c \in Unsafe!Containers
      BY <1>5, <1>6 DEF IsPath, n
    <2>2. \A v \in Unsafe!HeldBy(c) : Unsafe!IsClean(v)
      BY <1>1, LeftIsClean DEF Unsafe!Clean, n
    <2>3. Unsafe!IsClean(c)
      BY <2>1, <2>2, CleanOfClean
    <2>. QED
      BY <2>1, <2>3 DEF Unsafe!Clean, Unsafe!Values
  <1>8. Unsafe!TypeOK'
    BY <1>1, <1>3, <1>4 DEF Unsafe!TypeOK
  <1>9. IsPath(new, onPath', why')
    <2>1. ASSUME NEW i \in 2 .. n - 1
          PROVE  /\ new[i].at \in Unsafe!Containers
                 /\ new[i - 1].next - 1 \in DOMAIN Kids(new[i - 1].at)
                 /\ new[i].at = Kids(new[i - 1].at)[new[i - 1].next - 1]
                 /\ \A j \in 1 .. i - 1 : new[i].at # new[j].at
      <3>1. i - 1 \in 1 .. n - 1 /\ 1 .. i - 1 \subseteq 1 .. n - 1 /\ i \in 2 .. n
            /\ i \in 1 .. n - 1
        BY <1>2
      <3>2. new[i] = stack[i] /\ new[i - 1] = stack[i - 1]
            /\ \A j \in 1 .. i - 1 : new[j] = stack[j]
        BY <1>3, <3>1
      <3>. QED
        BY <1>5, <3>1, <3>2 DEF IsPath, n
    <2>2. new[1].at = "value" /\ why' = "walking"
      <3>1. 1 \in 1 .. n - 1
        BY <1>2
      <3>. QED
        BY <1>1, <1>3, <1>4, <1>5, <3>1 DEF IsPath, Unsafe!Walking
    <2>3. onPath' = {Unsafe!PathKey(new[i].at) : i \in 2 .. n - 1}
      <3>1. onPath = {Unsafe!PathKey(stack[i].at) : i \in 2 .. n}
        BY <1>5 DEF IsPath, n
      <3>2. onPath' = onPath \ {Unsafe!PathKey(c)}
        BY <1>1, <1>2, <1>4
      <3>3. ASSUME NEW i \in 2 .. n - 1
            PROVE  Unsafe!PathKey(stack[i].at) # Unsafe!PathKey(c)
        <4>1. i \in 1 .. n - 1 /\ i \in 2 .. n
          BY <1>6
        <4>2. stack[i].at # c
          BY <1>5, <1>6, <4>1 DEF IsPath, n
        <4>3. stack[i].at \in Unsafe!Containers /\ c \in Unsafe!Containers
          BY <1>5, <1>6, <4>1 DEF IsPath, n
        <4>. QED
          BY <4>2, <4>3, KeyOfOne
      <3>4. \A i \in 2 .. n - 1 : new[i] = stack[i]
        BY <1>3, <1>6
      <3>. HIDE DEF c
      <3>5. onPath' = {Unsafe!PathKey(stack[i].at) : i \in 2 .. n - 1}
        BY <1>6, <3>1, <3>2, <3>3 DEF c
      <3>. QED
        BY <3>4, <3>5
    <2>. QED
      BY <1>3, <1>4, <2>1, <2>2, <2>3 DEF IsPath
  <1>10. IsWalkedClean(new)
    <2>1. ASSUME NEW i \in 1 .. n - 1, NEW k \in DOMAIN Kids(new[i].at),
                 k < new[i].next, ~(i < n - 1 /\ k = new[i].next - 1)
          PROVE  Kids(new[i].at)[k] \in Unsafe!Clean
      <3>1. new[i] = stack[i] /\ i \in 1 .. n /\ i < n
        BY <1>2, <1>3
      <3>2. CASE k # stack[i].next - 1
        BY <1>4, <1>5, <2>1, <3>1, <3>2 DEF IsWalkedClean
      <3>3. CASE k = stack[i].next - 1
        <4>1. i = n - 1
          BY <1>2, <2>1, <3>1, <3>3
        <4>2. c = Kids(stack[i].at)[k]
          BY <1>5, <1>6, <3>3, <4>1 DEF IsPath, n
        <4>. QED
          BY <1>7, <3>1, <4>2
      <3>. QED
        BY <3>2, <3>3
    <2>. QED
      BY <1>3, <2>1 DEF IsWalkedClean
  <1>11. why' = "walking"
    BY <1>1, <1>4 DEF Unsafe!Walking
  <1>. QED
    BY <1>1, <1>8, <1>9, <1>10, <1>11, PathThen DEF Unsafe!IInv

\* What a reason says of the value, in the memory as it is.
IsRight(reason) ==
    LET parts == Unsafe!Within("value")
        cyclic == \E c \in parts \cap Unsafe!Containers : Unsafe!ContainsItself(c)
    IN  /\ reason = "" => ~cyclic /\ parts \cap {"bytes", "number"} = {}
        /\ reason = "cycle" => cyclic
        /\ reason = "UTF8" => "bytes" \in parts
        /\ reason = "number" => "number" \in parts

\* A walk that has ended is on no path.
LEMMA EmptyPath ==
    /\ Len(<<>>) = 0 /\ DOMAIN <<>> = {} /\ 2 .. 0 = {}
    /\ \A X : <<>> \in Seq(X)
  OBVIOUS

\* The walk that ends with a right reason keeps the invariant.
LEMMA EndsRightly ==
    ASSUME Unsafe!IInv, UNCHANGED <<holds, key>>, stack' = <<>>, onPath' = {},
           why' \in {"", "cycle", "UTF8", "number"}, IsRight(why')
    PROVE  Unsafe!IInv' /\ Unsafe!WithheldWithReason'
  <1>. DEFINE X == [at : {"value"} \cup Unsafe!Containers, next : 1 .. 3]
  <1>1. Unsafe!TypeOK'
    <2>1. <<>> \in Seq(X)
      BY EmptyPath
    <2>2. stack' \in Seq(X)
      BY <2>1, Zenon
    <2>. QED
      BY <2>2 DEF Unsafe!TypeOK, Unsafe!IInv
  <1>2. IsPath(stack', onPath', why') /\ IsWalkedClean(stack')
    <2>1. Len(<<>>) = 0 /\ DOMAIN <<>> = {} /\ 2 .. 0 = {}
      BY EmptyPath
    <2>2. Len(stack') = 0 /\ DOMAIN stack' = {}
      BY <2>1, Zenon
    <2>3. why' # "walking"
      OBVIOUS
    <2>. QED
      BY <2>1, <2>2, <2>3 DEF IsPath, IsWalkedClean
  <1>3. \A c : Unsafe!Within(c)' = Unsafe!Within(c)
    BY SameMemory
  <1>4. Unsafe!Within("value")' = Unsafe!Within("value")
    BY <1>3
  <1>5. ASSUME NEW c
        PROVE  Unsafe!ContainsItself(c)' <=> Unsafe!ContainsItself(c)
    BY <1>3 DEF Unsafe!ContainsItself
  <1>6. Unsafe!WithheldWithReason'
    BY <1>4, <1>5 DEF IsRight, Unsafe!WithheldWithReason
  <1>. QED
    BY <1>1, <1>2, <1>6, PathThen DEF Unsafe!IInv

\* While it walks, it says nothing yet.
LEMMA NoVerdictYet ==
    ASSUME why = "walking"
    PROVE  Unsafe!WithheldWithReason
  BY DEF Unsafe!WithheldWithReason

\* Bytes and big numbers are withheld as they are met.
LEMMA CorruptingKeeps ==
    ASSUME Unsafe!IInv, Unsafe!Corrupting
    PROVE  Unsafe!IInv' /\ Unsafe!WithheldWithReason'
  <1>1. Unsafe!TypeOK /\ Unsafe!StackIsPath /\ Unsafe!Walking /\ Unsafe!Left
        /\ Unsafe!Child \in {"bytes", "number"}
        /\ stack' = <<>> /\ onPath' = {} /\ UNCHANGED <<holds, key>>
        /\ why' = Unsafe!Reason(Unsafe!Child)
    BY DEF Unsafe!IInv, Unsafe!Corrupting, Unsafe!Report
  <1>2. Unsafe!Child \in Unsafe!Within("value")
    BY <1>1, DueChild
  <1>3. CASE Unsafe!Child = "bytes"
    <2>1. why' = "UTF8"
      BY <1>1, <1>3 DEF Unsafe!Reason
    <2>. QED
      BY <1>1, <1>2, <1>3, <2>1, EndsRightly DEF IsRight
  <1>4. CASE Unsafe!Child = "number"
    <2>1. why' = "number"
      BY <1>1, <1>4 DEF Unsafe!Reason
    <2>. QED
      BY <1>1, <1>2, <1>4, <2>1, EndsRightly DEF IsRight
  <1>. QED
    BY <1>1, <1>3, <1>4

\* A container on the path is in itself.
LEMMA CycleKeeps ==
    ASSUME Unsafe!IInv, Unsafe!Cycle
    PROVE  Unsafe!IInv' /\ Unsafe!WithheldWithReason'
  <1>1. Unsafe!TypeOK /\ Unsafe!StackIsPath /\ Unsafe!Walking /\ Unsafe!Left
        /\ Unsafe!Child \in Unsafe!Containers /\ Unsafe!PathKey(Unsafe!Child) \in onPath
        /\ stack' = <<>> /\ onPath' = {} /\ UNCHANGED <<holds, key>>
        /\ why' = "cycle"
    BY DEF Unsafe!IInv, Unsafe!Cycle, Unsafe!Report
  <1>2. PICK i \in 2 .. Len(stack) : Unsafe!PathKey(Unsafe!Child) = Unsafe!PathKey(stack[i].at)
    BY <1>1 DEF Unsafe!StackIsPath
  <1>3. stack[i].at = Unsafe!Child /\ i \in 1 .. Len(stack)
    <2>1. stack[i].at \in Unsafe!Containers
      BY <1>1, <1>2 DEF Unsafe!StackIsPath
    <2>2. i \in 1 .. Len(stack)
      BY <1>1, <1>2, OnePath
    <2>. QED
      BY <1>1, <1>2, <2>1, <2>2, KeyOfOne
  <1>4. /\ \A j \in 1 .. Len(stack) : Unsafe!Child \in Unsafe!Within(stack[j].at)
        /\ Unsafe!Child \in Unsafe!Within("value")
    BY <1>1, DueChild
  <1>5. Unsafe!ContainsItself(Unsafe!Child)
    BY <1>3, <1>4 DEF Unsafe!ContainsItself
  <1>. QED
    BY <1>1, <1>4, <1>5, EndsRightly DEF IsRight

\* The value itself is let through when what it holds is clean.
LEMMA LastLeaveKeeps ==
    ASSUME Unsafe!IInv, Unsafe!Leave, Len(stack) = 1
    PROVE  Unsafe!IInv' /\ Unsafe!WithheldWithReason'
  <1>1. Unsafe!TypeOK /\ Unsafe!StackIsPath /\ Unsafe!Walking /\ ~Unsafe!Left
        /\ stack' = Unsafe!Front(stack) /\ UNCHANGED <<holds, key>>
        /\ onPath' = (IF stack' = <<>> THEN {} ELSE onPath \ {Unsafe!PathKey(Unsafe!Last(stack).at)})
        /\ why' = (IF stack' = <<>> THEN "" ELSE why)
    BY DEF Unsafe!IInv, Unsafe!Leave
  <1>2. stack' = <<>>
    <2>1. Unsafe!Front(stack) = SubSeq(stack, 1, 0)
      <3>1. Len(stack) - 1 = 0
        OBVIOUS
      <3>. QED
        BY <3>1, Zenon DEF Unsafe!Front
    <2>2. SubSeq(stack, 1, 0) = <<>>
      BY SubSeqEmpty
    <2>. QED
      BY <1>1, <2>1, <2>2
  <1>3. stack[1].at = "value"
    <2>1. stack # <<>>
      BY <1>1 DEF Unsafe!StackIsPath
    <2>. QED
      BY <1>1, <2>1 DEF Unsafe!StackIsPath
  <1>4. ASSUME NEW v \in Unsafe!HeldBy("value")
        PROVE  Unsafe!IsClean(v)
    BY <1>1, <1>3, LeftIsClean DEF Unsafe!Clean
  <1>5. ASSUME NEW v \in Unsafe!Within("value")
        PROVE  v \notin {"bytes", "number"} /\ (v \in Unsafe!Containers => ~Unsafe!ContainsItself(v))
    <2>1. CASE v \in Unsafe!HeldBy("value")
      BY <1>4, <2>1 DEF Unsafe!IsClean
    <2>2. ASSUME NEW d \in Unsafe!HeldBy("value") \cap Unsafe!Containers, v \in Unsafe!Within(d)
          PROVE  v \notin {"bytes", "number"} /\ (v \in Unsafe!Containers => ~Unsafe!ContainsItself(v))
      BY <1>4, <2>2 DEF Unsafe!IsClean
    <2>. QED
      BY <2>1, <2>2, WithinOneHeld
  <1>6. IsRight("")
    BY <1>5 DEF IsRight
  <1>. QED
    BY <1>1, <1>2, <1>6, EndsRightly

\* The walk begins with the value.
LEMMA WalkInit ==
    ASSUME Unsafe!RootsAreValues, Unsafe!Init
    PROVE  Unsafe!IInv /\ Unsafe!WithheldWithReason
  <1>. DEFINE X == [at : {"value"} \cup Unsafe!Containers, next : 1 .. 3]
              e == [at |-> "value", next |-> 1]
  <1>1. stack = <<e>> /\ e \in X /\ e.at = "value" /\ e.next = 1
        /\ onPath = {} /\ why = "walking"
    BY DEF Unsafe!Init
  <1>2. stack \in Seq(X) /\ Len(stack) = 1 /\ stack[1] = e /\ DOMAIN stack = {1} /\ stack # <<>>
    <2>. HIDE DEF X, e
    <2>1. Len(<<e>>) = 1 /\ <<e>>[1] = e /\ <<e>> \in Seq(X) /\ DOMAIN <<e>> = {1} /\ <<e>> # <<>>
      BY <1>1
    <2>. QED
      BY <1>1, <2>1
  <1>3. Unsafe!TypeOK
    BY <1>1, <1>2 DEF Unsafe!TypeOK, Unsafe!Init
  <1>4. Unsafe!StackIsPath
    <2>1. 2 .. 1 = {}
      OBVIOUS
    <2>. HIDE DEF e
    <2>. QED
      BY <1>1, <1>2, <2>1 DEF Unsafe!StackIsPath, Unsafe!Walking
  <1>5. Unsafe!WalkedIsClean
    <2>1. Unsafe!Children("value") \in Seq(Unsafe!Values)
      BY <1>3, ChildrenAreValues
    <2>2. \A k \in DOMAIN Unsafe!Children("value") : k \in Nat \ {0}
      BY <2>1
    <2>. HIDE DEF e
    <2>. QED
      BY <1>1, <1>2, <2>2 DEF Unsafe!WalkedIsClean
  <1>. QED
    BY <1>1, <1>3, <1>4, <1>5, NoVerdictYet DEF Unsafe!IInv

\* Each step of the walk keeps its invariant and gives no wrong reason.
LEMMA WalkNext ==
    ASSUME Unsafe!IInv, Unsafe!WithheldWithReason, [Unsafe!Next]_unsafeVars
    PROVE  Unsafe!IInv' /\ Unsafe!WithheldWithReason'
  <1>0. (why = "walking")' => Unsafe!WithheldWithReason'
    BY NoVerdictYet, PTL
  <1>1. CASE Unsafe!Text
    <2>1. why' = "walking"
      BY <1>1 DEF Unsafe!Text, Unsafe!Walking
    <2>. QED
      BY <1>0, <1>1, <2>1, TextKeeps
  <1>2. CASE Unsafe!Corrupting
    BY <1>2, CorruptingKeeps
  <1>3. CASE Unsafe!Cycle
    BY <1>3, CycleKeeps
  <1>4. CASE Unsafe!Enter
    <2>1. why' = "walking"
      BY <1>4 DEF Unsafe!Enter, Unsafe!Walking
    <2>. QED
      BY <1>0, <1>4, <2>1, EnterKeeps
  <1>5. CASE Unsafe!Leave
    <2>1. CASE Len(stack) = 1
      BY <1>5, <2>1, LastLeaveKeeps
    <2>2. CASE Len(stack) # 1
      BY <1>0, <1>5, <2>2, LeaveKeeps
    <2>. QED
      BY <2>1, <2>2
  <1>6. CASE UNCHANGED unsafeVars
    <2>1. \A c : Unsafe!Within(c)' = Unsafe!Within(c)
      BY <1>6, SameMemory DEF unsafeVars
    <2>2. Unsafe!Within("value")' = Unsafe!Within("value")
      BY <2>1
    <2>3. ASSUME NEW c
          PROVE  Unsafe!ContainsItself(c)' <=> Unsafe!ContainsItself(c)
      BY <2>1 DEF Unsafe!ContainsItself
    <2>4. Unsafe!WithheldWithReason'
      BY <1>6, <2>2, <2>3 DEF Unsafe!WithheldWithReason, unsafeVars
    <2>5. IsPath(stack', onPath', why') /\ IsWalkedClean(stack')
      BY <1>6, PathNow DEF Unsafe!IInv, unsafeVars
    <2>6. Unsafe!TypeOK'
      BY <1>6 DEF Unsafe!IInv, Unsafe!TypeOK, unsafeVars
    <2>. QED
      BY <1>6, <2>4, <2>5, <2>6, PathThen DEF Unsafe!IInv, unsafeVars
  <1>. QED
    BY <1>1, <1>2, <1>3, <1>4, <1>5, <1>6 DEF Unsafe!Next

\* The containers on the stack are all different, so that it is no deeper than
\* there are containers.
LEMMA PathIsShort ==
    ASSUME Unsafe!TypeOK, Unsafe!StackIsPath
    PROVE  Unsafe!DepthBounded
  <1>. DEFINE n == Len(stack)
              f == [i \in 2 .. n |-> stack[i].at]
  <1>1. n \in Nat
    <2>1. stack \in Seq([at : {"value"} \cup Unsafe!Containers, next : 1 .. 3])
      BY DEF Unsafe!TypeOK
    <2>. QED
      BY <2>1
  <1>2. IsFiniteSet(Unsafe!Containers)
    <2>1. \A S, e : IsFiniteSet(S) => IsFiniteSet(S \cup {e})
      BY FS_AddElement
    <2>. DEFINE A == {"struct"}
                B == A \cup {"first field"}
                C == B \cup {"slice"}
                D == C \cup {"shorter slice"}
    <2>2. IsFiniteSet(A)
      BY FS_Singleton
    <2>3. IsFiniteSet(B)
      BY <2>1, <2>2
    <2>4. IsFiniteSet(C)
      BY <2>1, <2>3
    <2>5. IsFiniteSet(D)
      BY <2>1, <2>4
    <2>6. IsFiniteSet(D \cup {"map"})
      BY <2>1, <2>5
    <2>. QED
      BY <2>6 DEF Unsafe!Containers
  <1>3. f \in Injection(2 .. n, Unsafe!Containers)
    <2>1. \A i \in 2 .. n : stack[i].at \in Unsafe!Containers
      BY DEF Unsafe!StackIsPath
    <2>2. ASSUME NEW i \in 2 .. n, NEW j \in 2 .. n, i # j
          PROVE  stack[i].at # stack[j].at
      <3>1. j \in 1 .. i - 1 \/ i \in 1 .. j - 1
        BY <1>1, <2>2
      <3>. QED
        BY <3>1 DEF Unsafe!StackIsPath
    <2>. QED
      BY <2>1, <2>2 DEF Injection, IsInjective
  <1>4. Cardinality(2 .. n) <= Cardinality(Unsafe!Containers)
    <2>. HIDE DEF f
    <2>. QED
      BY <1>2, <1>3, FS_Injection
  <1>5. Cardinality(2 .. n) = IF 2 > n THEN 0 ELSE n - 2 + 1
    BY <1>1, FS_Interval
  <1>6. Cardinality(Unsafe!Containers) \in Nat
    BY <1>2, FS_CardinalityType
  <1>7. n <= Cardinality(Unsafe!Containers) + 1
    <2>. HIDE DEF n
    <2>. QED
      BY <1>1, <1>4, <1>5, <1>6
  <1>8. Unsafe!Cardinality(Unsafe!Containers) = Cardinality(Unsafe!Containers)
    BY Zenon DEF Unsafe!Cardinality, Cardinality
  <1>. QED
    BY <1>7, <1>8 DEF Unsafe!DepthBounded

\* The walk keeps its invariant, in the library as a whole.
LEMMA LibraryWalk ==
    LibrarySpec => [](Unsafe!IInv /\ Unsafe!WithheldWithReason)
  <1>1. LibraryInit => Unsafe!IInv /\ Unsafe!WithheldWithReason
    BY ConstantsAreRight, WalkInit DEF LibraryInit
  <1>2. [LibraryNext]_libraryVars => [Unsafe!Next]_unsafeVars
    BY DEF LibraryNext, FirstParse, Plugins, Walk, Renders, libraryVars
  <1>. QED
    BY <1>1, <1>2, WalkNext, PTL DEF LibrarySpec

(***************************************************************************)
(* Exactly the values that encoding/json would not write as they are are   *)
(* withheld, each for a reason that holds: a container that shares its     *)
(* address with another on the path is not taken for a cycle, and one that *)
(* is in itself is found however deep it is.                               *)
(***************************************************************************)
THEOREM WithheldRightly == LibrarySpec => []WithheldWithReason
  <1>1. Unsafe!WithheldWithReason => WithheldWithReason
    BY DEF WithheldWithReason
  <1>. QED
    BY <1>1, LibraryWalk, PTL

-----------------------------------------------------------------------------
(***************************************************************************)
(* All four parts keep their inductive invariants, and the walk is never   *)
(* deeper than there are containers.                                       *)
(***************************************************************************)
THEOREM TypesCorrect == LibrarySpec => []TypesOK
  <1>1. LibraryInit => IInv /\ Jsonl!IInv
    BY FirstParseInit, RenderInit DEF LibraryInit
  <1>2. [LibraryNext]_libraryVars => [Next]_vars /\ [Jsonl!Next]_renderVars
    BY DEF LibraryNext, FirstParse, Plugins, Walk, Renders, libraryVars
  <1>3. IInv /\ Plugin!IInv /\ Unsafe!IInv /\ Jsonl!IInv => TypesOK
    BY PathIsShort DEF TypesOK, Unsafe!IInv
  <1>. QED
    BY <1>1, <1>2, <1>3, FirstParseNext, RenderNext, LibraryPlugins, LibraryWalk, PTL
    DEF LibrarySpec
=============================================================================
