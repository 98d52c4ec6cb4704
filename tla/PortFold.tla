------------------------------ MODULE PortFold ------------------------------
(***************************************************************************)
(* tools/port-deps.cjs: what the readers of two manifests share.  A name   *)
(* in the org's namespace is written as the repo it names; any other name  *)
(* stands for itself.                                                      *)
(***************************************************************************)
CONSTANT Repos        \* the repos of the org

NoId == "no id"

\* An assumption of the constants.
NoIdIsNoRepo == NoId \notin Repos

IdOf(name) == IF name \in Repos THEN name ELSE NoId

\* Slip: the last declaration of a dependency decides.
FoldAny(own, runtime, dev) ==
    LET ids == {IdOf(d.name) : d \in runtime} \ {own, NoId}
    IN  [id |-> own,
         runtime |-> ids,
         optional |-> {id \in ids : \E d \in runtime : IdOf(d.name) = id /\ d.optional},
         dev |-> {IdOf(name) : name \in dev} \ (ids \cup {own, NoId})]

(***************************************************************************)
(* A port's declarations folded: runtime is a set of [name, optional], dev *)
(* of names.  A dependency is optional only when every runtime declaration *)
(* of it is, and for development only when none is.                        *)
(***************************************************************************)
Fold(own, runtime, dev) ==
    LET ids == {IdOf(d.name) : d \in runtime} \ {own, NoId}
    IN  [id |-> own,
         runtime |-> ids,
         optional |-> {id \in ids : \A d \in runtime : IdOf(d.name) = id => d.optional},
         dev |-> {IdOf(name) : name \in dev} \ (ids \cup {own, NoId})]
=============================================================================
