----------------------------- MODULE JsonUnsafe ------------------------------
(***************************************************************************)
(* jsonUnsafe of go/clib/core.go: the walk that decides whether a value    *)
(* that was parsed may be handed to encoding/json.  It visits the value as *)
(* encoding/json would emit it, and stops at the first part that would be  *)
(* corrupted, or that contains itself.                                     *)
(*                                                                         *)
(* A value is text, bytes that are no UTF-8, a big number, or one of five  *)
(* containers in two of which the same memory is seen twice: a struct and  *)
(* its first field, an array of two and the first of the two.              *)
(***************************************************************************)
EXTENDS Naturals, Sequences, SequencesExt, FiniteSets

CONSTANTS
    Leaves,      \* the values that are no container
    Roots        \* bound: the values that are parsed

Containers == {"struct", "first field", "slice", "shorter slice", "map"}

\* Assumptions of the constants.
LeavesAreKnown == Leaves \subseteq {"text", "bytes", "number"}

Values == Leaves \cup Containers

RootsAreValues == Roots \subseteq Values

\* The memory: what the struct's fields, the array's elements and the map's
\* entry hold, and the value that was parsed.
Places == {"field 1", "field 2", "element 1", "element 2", "entry", "root"}

VARIABLES
    holds,       \* what each place holds
    key,         \* whether the key of the map's entry is text
    stack,       \* the containers being walked, each with the next child
    onPath,      \* unsafeWalk.onPath
    why          \* "walking", the reason given, or ""

vars == <<holds, key, stack, onPath, why>>

Init ==
    /\ holds \in [Places -> Values] /\ holds["root"] \in Roots
    /\ key \in Leaves \cap {"text", "bytes"}
    /\ stack = <<[at |-> "value", next |-> 1]>>
    /\ onPath = {}
    /\ why = "walking"

Reason(leaf) == CASE leaf = "bytes" -> "UTF8" [] leaf = "number" -> "number"

\* What is walked in a container, in the order in which it is emitted.  A
\* key of a map is a value of its own.
Children(c) ==
    CASE c = "value" -> <<holds["root"]>>
      [] c = "struct" -> <<holds["field 1"], holds["field 2"]>>
      [] c = "first field" -> <<holds["field 1"]>>
      [] c = "slice" -> <<holds["element 1"], holds["element 2"]>>
      [] c = "shorter slice" -> <<holds["element 1"]>>
      [] c = "map" -> <<key, holds["entry"]>>

Address(c) ==
    CASE c \in {"struct", "first field"} -> 1
      [] c \in {"slice", "shorter slice"} -> 2
      [] c = "map" -> 3

Length(c) == CASE c = "slice" -> 2 [] c = "shorter slice" -> 1 [] OTHER -> 0

\* Slip: a container is known by its address.
PathKeyAddress(c) == <<Address(c)>>

\* pathKey: by its address, its length if it is a slice, and its type.
PathKey(c) ==
    <<Address(c), Length(c),
      IF c \in {"slice", "shorter slice"} THEN "[]any" ELSE c>>

Walking == why = "walking"

\* Slip: the same value again.
AdvancedStays(st) == st

\* The next child of the container on top.
Advanced(st) == [st EXCEPT ![Len(st)].next = @ + 1]

\* What is due in the container on top, if anything is left of it.
Left == Last(stack).next <= Len(Children(Last(stack).at))
Child == Children(Last(stack).at)[Last(stack).next]

\* A reason ends the walk; each container it was in leaves the path.
Report(reason) ==
    /\ why' = reason
    /\ stack' = <<>>
    /\ onPath' = {}
    /\ UNCHANGED <<holds, key>>

Text ==
    /\ Walking /\ Left
    /\ Child = "text"
    /\ stack' = Advanced(stack)
    /\ UNCHANGED <<holds, key, onPath, why>>

Corrupting ==
    /\ Walking /\ Left
    /\ Child \in {"bytes", "number"}
    /\ Report(Reason(Child))

Cycle ==
    /\ Walking /\ Left
    /\ Child \in Containers /\ PathKey(Child) \in onPath
    /\ Report("cycle")

Enter ==
    /\ Walking /\ Left
    /\ Child \in Containers /\ PathKey(Child) \notin onPath
    /\ stack' = Append(Advanced(stack), [at |-> Child, next |-> 1])
    /\ onPath' = onPath \cup {PathKey(Child)}
    /\ UNCHANGED <<holds, key, why>>

Leave ==
    /\ Walking /\ ~Left
    /\ stack' = Front(stack)
    /\ onPath' = IF stack' = <<>> THEN {} ELSE onPath \ {PathKey(Last(stack).at)}
    /\ why' = IF stack' = <<>> THEN "" ELSE why
    /\ UNCHANGED <<holds, key>>

Next == Text \/ Corrupting \/ Cycle \/ Enter \/ Leave

Spec == Init /\ [][Next]_vars

\* The walk is one synchronous call.
FairSpec == Spec /\ WF_vars(Next)

-----------------------------------------------------------------------------
TypeOK ==
    /\ holds \in [Places -> Values] /\ key \in Leaves \cap {"text", "bytes"}
    /\ stack \in Seq([at : {"value"} \cup Containers, next : 1 .. 3])
    /\ why \in {"walking", "", "UTF8", "number", "cycle"}

\* Everything a container holds, at any depth: what it holds itself, and what
\* the containers hold that are in every set with its own and with theirs.
HeldBy(c) == ToSet(Children(c))

Closed(S) == \A d \in S : HeldBy(d) \cap Containers \subseteq S

Reached(c) ==
    LET wide == {S \in SUBSET Containers :
                    HeldBy(c) \cap Containers \subseteq S /\ Closed(S)}
    IN  {d \in Containers : \A S \in wide : d \in S}

Within(c) == HeldBy(c) \cup UNION {HeldBy(d) : d \in Reached(c)}

ContainsItself(c) == c \in Within(c)

(***************************************************************************)
(* The walk lets through exactly the values that encoding/json writes as   *)
(* they are: nothing in them is corrupted and nothing contains itself, at  *)
(* any depth; a part that is merely shared, or that shares its address     *)
(* with another, is no reason to withhold one.                             *)
(***************************************************************************)
WithheldWithReason ==
    LET parts == Within("value")
        cyclic == \E c \in parts \cap Containers : ContainsItself(c)
    IN  CASE why = "walking" -> TRUE
          [] why = "" -> ~cyclic /\ parts \cap {"bytes", "number"} = {}
          [] why = "cycle" -> cyclic
          [] why = "UTF8" -> "bytes" \in parts
          [] why = "number" -> "number" \in parts

(***************************************************************************)
(* The inductive invariant behind it.  The stack is a path through the     *)
(* value, each container on it is there once, and the set onPath is those; *)
(* and what was walked is clean: the reason that there is none to withhold *)
(* it.                                                                     *)
(***************************************************************************)
StackIsPath ==
    /\ Walking <=> stack # <<>>
    /\ stack # <<>> => stack[1].at = "value"
    /\ \A i \in 2 .. Len(stack) :
          /\ stack[i].at \in Containers
          /\ stack[i - 1].next - 1 \in DOMAIN Children(stack[i - 1].at)
          /\ stack[i].at = Children(stack[i - 1].at)[stack[i - 1].next - 1]
          /\ \A j \in 1 .. i - 1 : stack[i].at # stack[j].at
    /\ onPath = {PathKey(stack[i].at) : i \in 2 .. Len(stack)}

IsClean(v) ==
    /\ v \notin {"bytes", "number"}
    /\ v \in Containers =>
          /\ Within(v) \cap {"bytes", "number"} = {}
          /\ \A c \in {v} \cup (Within(v) \cap Containers) : ~ContainsItself(c)

Clean == {v \in Values : IsClean(v)}

\* The last child of all but the top is the one being walked.
WalkedIsClean ==
    \A i \in DOMAIN stack : \A k \in DOMAIN Children(stack[i].at) :
        k < stack[i].next /\ ~(i < Len(stack) /\ k = stack[i].next - 1)
        => Children(stack[i].at)[k] \in Clean

IInv == TypeOK /\ StackIsPath /\ WalkedIsClean

\* No deeper than there are containers, so that the walk must end.
DepthBounded == Len(stack) <= Cardinality(Containers) + 1

\* A value that contains itself is not walked for ever.
WalkEnds == <>(~Walking)
==============================================================================
