------------------------------- MODULE NpmDeps -------------------------------
(***************************************************************************)
(* tools/port-deps.cjs: readTs.  The dependencies of ts/package.json, read *)
(* from four sections and the notes on peers, where a key may be an alias  *)
(* of another package and stand in several sections at once.  The manifest *)
(* is written an entry at a time.                                          *)
(***************************************************************************)
EXTENDS PortFold, Naturals, FiniteSets

CONSTANTS
    Package,      \* the repo of this package
    Keys,         \* keys of the sections
    Specifiers,   \* what a key may be given: see below
    MaxEntries    \* bound: entries of the manifest

\* Assumptions of the constants.
PackageIsARepo == Package \in Repos
MaxEntriesIsNat == MaxEntries \in Nat

VARIABLES
    sections,     \* what each section gives each key
    meta,         \* peerDependenciesMeta: what it gives each key
    broken        \* a section, or meta, that is no object at all

vars == <<sections, meta, broken>>

Runtime == {"dependencies", "peerDependencies", "optionalDependencies"}

Sections == Runtime \cup {"devDependencies"}

\* A version; npm: and a name, with a version or without; or no string.
Version == [alias |-> FALSE, name |-> "", string |-> TRUE]
AliasOf(name) == [alias |-> TRUE, name |-> name, string |-> TRUE]
NoString == [alias |-> FALSE, name |-> "", string |-> FALSE]

SpecifiersAreKnown ==
    Specifiers \subseteq {Version, NoString} \cup {AliasOf(s.name) : s \in Specifiers}

\* An optional peer, one that is said not to be, one of which nothing is
\* said, one of which no boolean is said, and a note that is no object.
Notes == {"true", "false", "nothing", "no boolean", "no object"}

Init ==
    /\ sections = [s \in Sections |-> <<>>]
    /\ meta = <<>>
    /\ broken = {}

Entries ==
    UNION {{s} \X DOMAIN sections[s] : s \in Sections} \cup ({"meta"} \X DOMAIN meta)

Room == Cardinality(Entries) < MaxEntries

With(entries, key, given) ==
    [k \in DOMAIN entries \cup {key} |-> IF k = key THEN given ELSE entries[k]]

\* One more entry in a section.
Declare(s, key, spec) ==
    /\ Room /\ key \notin DOMAIN sections[s]
    /\ sections' = [sections EXCEPT ![s] = With(@, key, spec)]
    /\ UNCHANGED <<meta, broken>>

Note(key, note) ==
    /\ Room /\ key \notin DOMAIN meta
    /\ meta' = With(meta, key, note)
    /\ UNCHANGED <<sections, broken>>

Break(s) ==
    /\ broken = {}
    /\ broken' = {s}
    /\ UNCHANGED <<sections, meta>>

Next ==
    \/ \E s \in Sections, key \in Keys, spec \in Specifiers : Declare(s, key, spec)
    \/ \E key \in Keys, note \in Notes : Note(key, note)
    \/ \E s \in Sections \cup {"peerDependenciesMeta"} : Break(s)

Spec == Init /\ [][Next]_vars

-----------------------------------------------------------------------------
(***************************************************************************)
(* The reader fails closed on a shape that npm would take for something.   *)
(***************************************************************************)
Readable ==
    /\ broken = {}
    /\ \A s \in Sections : \A key \in DOMAIN sections[s] : sections[s][key].string
    /\ \A key \in DOMAIN meta : meta[key] \notin {"no boolean", "no object"}

\* Slip: an alias is taken for the package.
NpmNameByKey(key, spec) == key

NpmName(key, spec) == IF spec.alias THEN spec.name ELSE key

\* Slip: an optional peer is optional whatever else requires it.
OptionalPeerAlways(key) ==
    \/ key \in DOMAIN sections["optionalDependencies"]
    \/ /\ key \in DOMAIN sections["peerDependencies"]
       /\ key \in DOMAIN meta /\ meta[key] = "true"

Optional(key) ==
    \/ key \in DOMAIN sections["optionalDependencies"]
    \/ /\ key \in DOMAIN sections["peerDependencies"]
       /\ key \in DOMAIN meta /\ meta[key] = "true"
       /\ key \notin DOMAIN sections["dependencies"]

Names(s) == {NpmName(key, sections[s][key]) : key \in DOMAIN sections[s]}

ReadTs ==
    Fold(Package,
         UNION {{[name |-> NpmName(key, sections[s][key]), optional |-> Optional(key)] :
                    key \in DOMAIN sections[s]} : s \in Runtime},
         Names("devDependencies"))

-----------------------------------------------------------------------------
\* The packages that a key of a section installs.
Installs(s, key) ==
    LET spec == sections[s][key]
    IN  IF spec.alias THEN spec.name ELSE key

TypeOK ==
    /\ DOMAIN sections = Sections
    /\ \A s \in Sections : DOMAIN sections[s] \subseteq Keys
    /\ DOMAIN meta \subseteq Keys
    /\ Readable =>
         /\ ReadTs.optional \subseteq ReadTs.runtime
         /\ ReadTs.runtime \cup ReadTs.dev \subseteq Repos \ {Package}
         /\ ReadTs.runtime \cap ReadTs.dev = {}

(***************************************************************************)
(* The port's repos are those its manifest makes npm install, whichever    *)
(* key and section they stand under; and one is for development when no    *)
(* runtime section installs it under any key.                              *)
(***************************************************************************)
EveryInstallRead ==
    Readable =>
        \A id \in Repos \ {Package} :
            LET in(S) == \E s \in S : \E key \in DOMAIN sections[s] : Installs(s, key) = id
            IN  /\ id \in ReadTs.runtime <=> in(Runtime)
                /\ id \in ReadTs.dev <=> in({"devDependencies"}) /\ ~in(Runtime)

(***************************************************************************)
(* A repo is required as soon as one key, in one section, makes npm fail   *)
(* without it: a plain dependency, or a peer not marked optional, that is  *)
(* not among the optional dependencies; a mark on the peer does not lift   *)
(* what dependencies require.                                              *)
(***************************************************************************)
RequiredBy(key) ==
    /\ key \notin DOMAIN sections["optionalDependencies"]
    /\ \/ key \in DOMAIN sections["dependencies"]
       \/ /\ key \in DOMAIN sections["peerDependencies"]
          /\ key \in DOMAIN meta => meta[key] # "true"

RequiredIsNotOptional ==
    Readable =>
        \A id \in ReadTs.runtime :
            id \notin ReadTs.optional <=>
                \E s \in Runtime : \E key \in DOMAIN sections[s] :
                    Installs(s, key) = id /\ RequiredBy(key)
=============================================================================
