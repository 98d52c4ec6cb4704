---------------------------- MODULE PluginInstall ----------------------------
(***************************************************************************)
(* One engine and what a program does to it: plugins and options applied   *)
(* in any order, jsonl among them, and children derived, which have the    *)
(* registered plugins applied to them again.                               *)
(***************************************************************************)
EXTENDS Engine, Naturals, SequencesExt

CONSTANT MaxSteps   \* bound: what is done to the engine

\* An assumption of the constants.
MaxStepsIsNat == MaxSteps \in Nat

VARIABLES
    engine,
    plugins,    \* the plugins registered on it, oldest first
    last,       \* what was done last
    steps

vars == <<engine, plugins, last, steps>>

Done == {"nothing", "json", "jsonic", "jsonl", "refused", "options", "grammar", "derived"}

Did(what) == steps < MaxSteps /\ steps' = steps + 1 /\ last' = what

Init ==
    /\ engine = Bare
    /\ plugins = <<>>
    /\ last = "nothing"
    /\ steps = 0

UseJson ==
    /\ Did("json")
    /\ engine' = Json(engine)
    /\ plugins' = Append(plugins, "json")

UseJsonic ==
    /\ Did("jsonic")
    /\ engine' = Jsonic(engine)
    /\ plugins' = Append(plugins, "jsonic")

\* The plugin: what it checks, it checks before it changes anything.
UseJsonl ==
    /\ StrictJsonBase(engine)
    /\ Did("jsonl")
    /\ engine' = Installed(engine)
    /\ plugins' = Append(plugins, "jsonl")

UseJsonlRefused ==
    /\ ~StrictJsonBase(engine)
    /\ Did("refused")
    /\ UNCHANGED <<engine, plugins>>

SetOptions ==
    /\ Did("options")
    /\ \/ \E s \in {"on", "off"} :
             \/ engine' = [engine EXCEPT !.text = s]
             \/ engine' = [engine EXCEPT !.comment = s]
       \/ \E q \in {"strict", "relaxed"} : engine' = [engine EXCEPT !.quotes = q]
       \/ \E tags \in {{"json"}, {"json", "jsonl"}} : engine' = WithInclude(engine, tags)
    /\ UNCHANGED plugins

\* The rules of one of the two on their own, by a plugin that layers on it.
RegisterGrammar ==
    /\ Did("grammar")
    /\ engine' \in {RegisterJsonlGrammar(engine), RegisterJsonGrammar(engine)}
    /\ UNCHANGED plugins

\* One plugin applied; a refusal ends the derivation, here with Bare.
Apply(e, p) ==
    CASE p = "json" -> Json(e)
      [] p = "jsonic" -> Jsonic(e)
      [] p = "jsonl" -> IF StrictJsonBase(e) THEN Installed(e) ELSE Bare

\* A child: the parent's settings, and its plugins over them in turn.
Derived(e, ps) ==
    LET after[n \in 0 .. Len(ps)] == IF n = 0 THEN e ELSE Apply(after[n - 1], ps[n])
    IN  after[Len(ps)]

\* The program goes on with the child.
Derive ==
    /\ Did("derived")
    /\ engine' = Derived(engine, plugins)
    /\ UNCHANGED plugins

Next ==
    \/ UseJson \/ UseJsonic \/ UseJsonl \/ UseJsonlRefused
    \/ SetOptions \/ RegisterGrammar \/ Derive

Spec == Init /\ [][Next]_vars

-----------------------------------------------------------------------------
TypeOK ==
    /\ engine \in Engine
    /\ plugins \in Seq({"json", "jsonic", "jsonl"})
    /\ last \in Done
    /\ steps \in 0 .. MaxSteps

(***************************************************************************)
(* An engine the plugin accepted, whatever was done to it before, answers  *)
(* every kind of document as JSON Lines: nothing relaxed gets through, and *)
(* none of the plugin's own alternates is filtered out.                    *)
(***************************************************************************)
AcceptedIsStrict == last = "jsonl" => StrictLines(engine)

(***************************************************************************)
(* What is refused would have gone wrong: installed all the same, the      *)
(* plugin would have made a parser that accepts more than JSON Lines, or   *)
(* no parser at all.  (registerJsonlGrammar applied alone is not refused.) *)
(***************************************************************************)
RefusalsAreNeeded == last = "refused" => ~StrictLines(Installed(engine))

(***************************************************************************)
(* Applying the plugin again changes nothing of an engine that is a strict *)
(* parser, and a child derived from an engine whose last registered plugin *)
(* is this one is a strict parser, whatever options its parent was given   *)
(* since.                                                                  *)
(***************************************************************************)
ChildHasTheBase ==
    /\ plugins # <<>> /\ Last(plugins) = "jsonl"
    /\ \E i \in 1 .. Len(plugins) - 1 :
          plugins[i] = "json" /\ \A j \in i .. Len(plugins) : plugins[j] # "jsonic"

AgainChangesNothing ==
    /\ last' = "jsonl" /\ StrictLines(engine) => engine' = engine
    /\ last' = "derived" /\ ChildHasTheBase => StrictLines(engine')

AgainIsHarmless == [][AgainChangesNothing]_vars
-----------------------------------------------------------------------------
(* The inductive invariant of these properties.                            *)

(***************************************************************************)
(* The alternates and the filter of an engine, whatever was done to it: the*)
(* relaxed grammar brings the JSON one with it, and only it opens the      *)
(* filter that jsonl leaves behind.                                        *)
(***************************************************************************)
FilterFits(e) ==
    /\ e.alts \subseteq e.include
    /\ e.include \in {Tags, {"json"}, {"json", "jsonl"}}
    /\ "jsonic" \in e.alts => "json" \in e.alts
    /\ e.include = Tags /\ e.start = "jsonl" => "jsonic" \in e.alts

IInv == TypeOK /\ FilterFits(engine) /\ AcceptedIsStrict /\ RefusalsAreNeeded
==============================================================================
