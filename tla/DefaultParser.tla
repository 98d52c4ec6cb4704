---------------------------- MODULE DefaultParser ----------------------------
(***************************************************************************)
(* parse: one engine, built on first use by any of several threads, and    *)
(* shared by concurrent parses (go/jsonl.go:276-293; a OnceLock in         *)
(* rs/src/lib.rs:412-415, ??= in ts/src/jsonl.ts:228-235).                 *)
(*                                                                         *)
(* The parser that is built goes through Make, a step at a time, so an     *)
(* engine that is only half made can be told from a whole one.             *)
(***************************************************************************)
EXTENDS Engine, Naturals, FiniteSets

CONSTANTS
    Threads,
    MaxParses    \* bound: parses begun by one thread

ASSUME ThreadsFinite == IsFiniteSet(Threads)
ASSUME MaxParsesIsNat == MaxParses \in Nat

VARIABLES
    done,        \* sync.Once: the function has returned
    once,        \* sync.Once: who is in its critical section
    parser,      \* defaultParser: 0 is nil, else an engine's number
    engines,     \* the engines made so far, or being made
    making,      \* the engine a thread is making, or 0
    using,       \* the engine a thread parses with, or 0
    pc,
    parses

vars == <<done, once, parser, engines, making, using, pc, parses>>

Nobody == "nobody"

ASSUME NobodyIsNoThread == Nobody \notin Threads

\* The lines of Parse and Make a thread can be at.
Labels ==
    {"idle", "do", "lock", "locked", "make", "json", "jsonl", "assign", "return", "load", "parse"}

Goto(t, l) == pc' = [pc EXCEPT ![t] = l]
At(t, l) == pc[t] = l

Init ==
    /\ done = FALSE
    /\ once = Nobody
    /\ parser = 0
    /\ engines = <<>>
    /\ making = [t \in Threads |-> 0]
    /\ using = [t \in Threads |-> 0]
    /\ pc = [t \in Threads |-> "idle"]
    /\ parses = [t \in Threads |-> 0]

Parse(t) ==
    /\ At(t, "idle")
    /\ parses[t] < MaxParses
    /\ parses' = [parses EXCEPT ![t] = @ + 1]
    /\ Goto(t, "do")
    /\ UNCHANGED <<done, once, parser, engines, making, using>>

\* defaultOnce.Do: nothing to do.
DoFast(t) ==
    /\ At(t, "do")
    /\ done
    /\ Goto(t, "load")
    /\ UNCHANGED <<done, once, parser, engines, making, using, parses>>

\* defaultOnce.Do: not done when it looked.
DoSlow(t) ==
    /\ At(t, "do")
    /\ ~done
    /\ Goto(t, "lock")
    /\ UNCHANGED <<done, once, parser, engines, making, using, parses>>

\* Slip: a thread that finds another at work does not wait for it.
DoLockNoWait(t) ==
    /\ At(t, "lock")
    /\ IF once = Nobody
       THEN once' = t /\ Goto(t, "locked")
       ELSE once' = once /\ Goto(t, "load")
    /\ UNCHANGED <<done, parser, engines, making, using, parses>>

\* The first one in calls the function, the others wait until it is done.
DoLock(t) ==
    /\ At(t, "lock")
    /\ once = Nobody
    /\ once' = t
    /\ Goto(t, "locked")
    /\ UNCHANGED <<done, parser, engines, making, using, parses>>

\* Slip: what was found before the wait is not looked at again.
DoAgainStale(t) ==
    /\ At(t, "locked")
    /\ Goto(t, "make")
    /\ UNCHANGED <<done, once, parser, engines, making, using, parses>>

\* Slip: a step of Make is forgotten.
DoAgainSkips(t) ==
    /\ At(t, "locked")
    /\ Goto(t, IF done THEN "return" ELSE "json")
    /\ UNCHANGED <<done, once, parser, engines, making, using, parses>>

\* It may have been done while this one waited.
DoAgain(t) ==
    /\ At(t, "locked")
    /\ Goto(t, IF done THEN "return" ELSE "make")
    /\ UNCHANGED <<done, once, parser, engines, making, using, parses>>

\* tabnas.Make.
Make(t) ==
    /\ At(t, "make")
    /\ engines' = Append(engines, Bare)
    /\ making' = [making EXCEPT ![t] = Len(engines')]
    /\ Goto(t, "json")
    /\ UNCHANGED <<done, once, parser, using, parses>>

MakeJson(t) ==
    /\ At(t, "json")
    /\ engines' = [engines EXCEPT ![making[t]] = Json(@)]
    /\ Goto(t, "jsonl")
    /\ UNCHANGED <<done, once, parser, making, using, parses>>

\* jsonl accepts its base here, or Make panics.
MakeJsonl(t) ==
    /\ At(t, "jsonl")
    /\ StrictJsonBase(engines[making[t]])
    /\ engines' = [engines EXCEPT ![making[t]] = Installed(@)]
    /\ Goto(t, "assign")
    /\ UNCHANGED <<done, once, parser, making, using, parses>>

Assign(t) ==
    /\ At(t, "assign")
    /\ parser' = making[t]
    /\ making' = [making EXCEPT ![t] = 0]
    /\ Goto(t, "return")
    /\ UNCHANGED <<done, once, engines, using, parses>>

\* Slip: the critical section is not left.
DoReturnHolds(t) ==
    /\ At(t, "return")
    /\ done' = TRUE
    /\ Goto(t, "load")
    /\ UNCHANGED <<once, parser, engines, making, using, parses>>

DoReturn(t) ==
    /\ At(t, "return")
    /\ done' = TRUE
    /\ once' = Nobody
    /\ Goto(t, "load")
    /\ UNCHANGED <<parser, engines, making, using, parses>>

\* defaultParser.Parse begins: with a nil parser it would panic.
Load(t) ==
    /\ At(t, "load")
    /\ using' = [using EXCEPT ![t] = parser]
    /\ Goto(t, "parse")
    /\ UNCHANGED <<done, once, parser, engines, making, parses>>

\* A parse reads the engine and writes nothing that is shared.
Return(t) ==
    /\ At(t, "parse")
    /\ using' = [using EXCEPT ![t] = 0]
    /\ Goto(t, "idle")
    /\ UNCHANGED <<done, once, parser, engines, making, parses>>

Runs(t) ==
    \/ DoFast(t) \/ DoSlow(t) \/ DoAgain(t)
    \/ Make(t) \/ MakeJson(t) \/ MakeJsonl(t) \/ Assign(t) \/ DoReturn(t)
    \/ Load(t) \/ Return(t)

Next == \E t \in Threads : Parse(t) \/ DoLock(t) \/ Runs(t)

Spec == Init /\ [][Next]_vars

\* A thread in Parse goes on; a Go mutex passes no waiter over for ever.
Fairness == \A t \in Threads : WF_vars(Runs(t)) /\ SF_vars(DoLock(t))

FairSpec == Spec /\ Fairness

-----------------------------------------------------------------------------
TypeOK ==
    /\ done \in BOOLEAN
    /\ once \in Threads \cup {Nobody}
    /\ engines \in Seq(Engine)
    /\ parser \in 0 .. Len(engines)
    /\ making \in [Threads -> 0 .. Len(engines)]
    /\ using \in [Threads -> 0 .. Len(engines)]
    /\ pc \in [Threads -> Labels]
    /\ \A t \in Threads : making[t] # 0 <=> pc[t] \in {"json", "jsonl", "assign"}
    /\ parses \in [Threads -> 0 .. MaxParses]

(***************************************************************************)
(* Every parse is by a whole engine for JSON Lines, never by none and      *)
(* never by one another thread is still making.                            *)
(***************************************************************************)
ParsesWithAWholeEngine ==
    \A t \in Threads :
        At(t, "parse") => using[t] # 0 /\ StrictLines(engines[using[t]])

(***************************************************************************)
(* All calls share one engine, however many threads raced to be first, and *)
(* once anyone has parsed nothing changes it any more.                     *)
(***************************************************************************)
OneEngineForAll ==
    [][/\ Len(engines') <= 1
       /\ \A t \in Threads : using[t] # 0 => engines' = engines]_vars

(***************************************************************************)
(* Every call of parse returns: the ones that waited for the engine too.   *)
(***************************************************************************)
EveryCallReturns == \A t \in Threads : ~At(t, "idle") ~> At(t, "idle")
-----------------------------------------------------------------------------
(* The inductive invariant of the safety properties.                       *)

\* The engine that Make returns.
Made == Installed(Json(Bare))

\* Who is between the lock and the unlock of the Once is its owner.
OneAtATime ==
    \A t \in Threads :
        pc[t] \in {"locked", "make", "json", "jsonl", "assign", "return"} <=> once = t

\* An engine is made, a step at a time, only while there is no parser.
MadeInOrder ==
    \A t \in Threads :
        /\ At(t, "make") => engines = <<>>
        /\ At(t, "json") => engines = <<Bare>>
        /\ At(t, "jsonl") => engines = <<Json(Bare)>>
        /\ At(t, "assign") => engines = <<Made>>
        /\ pc[t] \in {"make", "json", "jsonl", "assign"} => parser = 0 /\ ~done
        /\ pc[t] = "return" => parser # 0

\* The one engine there may be is the parser, or somebody is making it.  What
\* has been assigned is done, or about to be.
OneParser ==
    /\ parser # 0 => /\ engines = <<Made>>
                     /\ done \/ \E t \in Threads : At(t, "return")
    /\ parser = 0 => /\ ~done
                     /\ engines = <<>> \/ \E t \in Threads : pc[t] \in {"json", "jsonl", "assign"}

\* Nobody parses before it is done.
DoneFirst ==
    \A t \in Threads : /\ pc[t] \in {"load", "parse"} => done
                       /\ using[t] # 0 <=> At(t, "parse")

IInv == TypeOK /\ OneAtATime /\ MadeInOrder /\ OneParser /\ DoneFirst
==============================================================================
