------------------------------ MODULE PortDeps ------------------------------
(***************************************************************************)
(* tools/port-deps.cjs: check.  Three ports of one library declare their   *)
(* dependencies in three manifests, a register records how they are known  *)
(* to differ, and the check compares the two.  Maintainers edit manifests  *)
(* and register at any time, and act on what a check reported, which may   *)
(* be out of date by then.                                                 *)
(*                                                                         *)
(* A manifest is here what its reader makes of it (modules NpmDeps, GoDeps *)
(* and CargoDeps).                                                         *)
(***************************************************************************)
EXTENDS Naturals, Sequences, FiniteSetsExt

CONSTANTS
    Ids,          \* the org's repos
    This,         \* the one whose ports these are
    Slips,        \* bound: what is written badly by hand
    MaxEdits      \* bound: the edits made by hand

ASSUME ThisIsAnId == This \in Ids
ASSUME MaxEditsIsNat == MaxEdits \in Nat

RegisterFaults == {"register key", "note"}

EntryFaults == {"entry key", "reason", "repair"}

ASSUME SlipsAreFaults == Slips \subseteq RegisterFaults \cup EntryFaults

VARIABLES
    manifests,     \* what each port's manifest says
    register,      \* tools/port-deps.json
    report,        \* exit code of a check of what is there now, or NoReport
    todo,          \* what the last check reported and nobody has acted on
    passed,        \* history: what the last check that passed saw
    edits

vars == <<manifests, register, report, todo, passed, edits>>

PORTS == {"ts", "go", "rs"}
NoId == "no id"
NoReport == 3

\* A manifest that names no repo of the org has an id of none of them.
ASSUME NoIdIsNone == NoId \notin Ids

ManifestKinds == {"absent", "unreadable", "read"}

RegisterKinds == {"absent", "not JSON", "not an object", "no differ", "object"}

-----------------------------------------------------------------------------
(* What is compared.                                                       *)

Present(ms) == {p \in PORTS : ms[p].kind # "absent"}

\* A port's reference to its own repo is dropped.
Runtime(m) == m.deps \ {m.id}

In(ms, id) == {p \in Present(ms) : id \in Runtime(ms[p])}

\* Slip: what only one port lacks is let through.
DiffersByTwo(ms, id) ==
    /\ In(ms, id) # {}
    /\ \E p, q \in Present(ms) \ In(ms, id) : p # q

\* With one port every id is in all of them, so nothing differs.
Differs(ms, id) == In(ms, id) \notin {{}, Present(ms)}

Differences(ms) == [id \in {i \in Ids : Differs(ms, i)} |-> In(ms, id)]

\* A list of ports, sorted.
Listed(p, S) == IF p \in S THEN <<p>> ELSE <<>>
Sorted(S) == Listed("go", S) \o Listed("rs", S) \o Listed("ts", S)

\* A register that cannot be trusted records nothing, nor does none.
Recorded(reg) == IF reg.kind = "object" THEN reg.differ ELSE <<>>

-----------------------------------------------------------------------------
(* Problems: what is wrong, of which port or repo, and the ports that      *)
(* should be recorded.                                                     *)

ProblemKinds ==
    {"unreadable", "unnamed", "disagree", "register", "unrecorded", "stale",
     "not an object", "ports"} \cup EntryFaults

Problem(what, at, have) == [what |-> what, at |-> at, have |-> have]

NameProblems(ms) ==
    LET named == {p \in Present(ms) : ms[p].id # NoId}
    IN  {Problem("unnamed", p, {}) : p \in Present(ms) \ named}
        \cup {Problem("disagree", This, {}) :
                x \in {p \in named : \E q \in named : ms[p].id # ms[q].id}}

RegisterProblems(reg) ==
    {Problem("register", k, {}) : k \in {reg.kind} \ {"absent", "object"}}
    \cup {Problem("register", f, {}) : f \in reg.faults}

\* Slip: the ports in the order they are read in, which no advice gives.
EntryProblemsUnsorted(entry, id, have) ==
    {Problem(f, id, have) :
        f \in IF entry.object
              THEN entry.faults
                   \cup (IF entry.ports = Listed("ts", have) \o Listed("go", have)
                                            \o Listed("rs", have)
                         THEN {} ELSE {"ports"})
              ELSE {"not an object"}}

\* Of an entry whose difference is there.
EntryProblems(entry, id, have) ==
    {Problem(f, id, have) :
        f \in IF entry.object
              THEN entry.faults
                   \cup (IF entry.ports = Sorted(have) THEN {} ELSE {"ports"})
              ELSE {"not an object"}}

\* Slip: an entry whose difference is gone is let be.
IdProblemsKeepStale(ms, differ, id) ==
    LET have == In(ms, id)
    IN  IF id \notin DOMAIN differ
        THEN {Problem("unrecorded", id, have) : x \in {id} \cap DOMAIN Differences(ms)}
        ELSE IF Differs(ms, id) THEN EntryProblems(differ[id], id, have) ELSE {}

IdProblems(ms, differ, id) ==
    LET have == In(ms, id)
    IN  IF id \notin DOMAIN differ
        THEN {Problem("unrecorded", id, have) : x \in {id} \cap DOMAIN Differences(ms)}
        ELSE IF Differs(ms, id)
             THEN EntryProblems(differ[id], id, have)
             ELSE {Problem("stale", id, have)}

Compare(ms, reg) ==
    NameProblems(ms) \cup RegisterProblems(reg)
    \cup UNION {IdProblems(ms, Recorded(reg), id) : id \in Ids}

-----------------------------------------------------------------------------
Manifest == [kind : ManifestKinds, id : Ids \cup {NoId}, deps : SUBSET Ids]

NoManifest == [kind |-> "absent", id |-> NoId, deps |-> {}]

NamedFor(id, deps) == [kind |-> "read", id |-> id, deps |-> deps]

NoRegister == [kind |-> "absent", faults |-> {}, differ |-> <<>>]

Nothing == [never |-> TRUE]

\* Some ports, which agree, and no register.
Init ==
    /\ \E deps \in SUBSET (Ids \ {This}) :
          manifests \in [PORTS -> {NoManifest, NamedFor(This, deps)}]
    /\ register = NoRegister
    /\ report = NoReport
    /\ todo = {}
    /\ passed = Nothing
    /\ edits = 0

(***************************************************************************)
(* A check.  The ports are read in the order ts, go, rs, then the          *)
(* register; the first that cannot be read ends it, and is what is         *)
(* reported.                                                               *)
(***************************************************************************)
ReadInOrder == <<"ts", "go", "rs", "register">>

CannotBeRead(f) ==
    IF f = "register" THEN register.kind = "not JSON" ELSE manifests[f].kind = "unreadable"

Unreadable == {i \in DOMAIN ReadInOrder : CannotBeRead(ReadInOrder[i])}

CannotRead ==
    /\ Unreadable # {}
    /\ report' = 2
    /\ todo' = {Problem("unreadable", ReadInOrder[Min(Unreadable)], {})}
    /\ UNCHANGED <<manifests, register, passed, edits>>

\* Slip: the exit code counts what is wrong.
CheckCounts ==
    /\ Unreadable = {}
    /\ LET problems == Compare(manifests, register)
       IN  /\ report' = Cardinality(problems)
           /\ todo' = problems
           /\ passed' = IF problems = {}
                        THEN [register |-> register, differ |-> Differences(manifests)]
                        ELSE passed
    /\ UNCHANGED <<manifests, register, edits>>

Check ==
    /\ Unreadable = {}
    /\ LET problems == Compare(manifests, register)
       IN  /\ report' = IF problems = {} THEN 0 ELSE 1
           /\ todo' = problems
           /\ passed' = IF problems = {}
                        THEN [register |-> register, differ |-> Differences(manifests)]
                        ELSE passed
    /\ UNCHANGED <<manifests, register, edits>>

-----------------------------------------------------------------------------
(* What maintainers do by hand: any manifest may come to say anything      *)
(* else, and any part of the register be written, well or badly.           *)

ByHand == edits < MaxEdits /\ edits' = edits + 1 /\ report' = NoReport

WrittenManifests ==
    {NoManifest, [NoManifest EXCEPT !.kind = "unreadable"]}
    \cup {NamedFor(id, deps) : id \in Ids \cup {NoId}, deps \in SUBSET Ids}

EditManifest(p) ==
    /\ ByHand
    /\ \E m \in WrittenManifests \ {manifests[p]} :
          manifests' = [manifests EXCEPT ![p] = m]
    /\ UNCHANGED <<register, todo, passed>>

\* At most one fault at a time, but for the list of ports.
WrittenEntries ==
    [object : {TRUE},
     ports : {Sorted(S) : S \in SUBSET PORTS} \cup {<<"ts", "go">>},
     faults : {{}} \cup {{f} : f \in EntryFaults \cap Slips}]
    \cup {[object |-> FALSE, ports |-> <<>>, faults |-> {}]}

With(differ, id, entry) ==
    [i \in DOMAIN differ \cup {id} |-> IF i = id THEN entry ELSE differ[i]]

WriteEntry(id) ==
    /\ ByHand
    /\ register.kind \in {"absent", "object"}
    /\ \E entry \in WrittenEntries :
          register' = [register EXCEPT !.kind = "object",
                                       !.differ = With(@, id, entry)]
    /\ UNCHANGED <<manifests, todo, passed>>

Without(differ, id) == [i \in DOMAIN differ \ {id} |-> differ[i]]

DeleteEntry(id) ==
    /\ ByHand
    /\ id \in DOMAIN register.differ
    /\ register' = [register EXCEPT !.differ = Without(@, id)]
    /\ UNCHANGED <<manifests, todo, passed>>

SpoilRegister ==
    /\ ByHand
    /\ \/ \E k \in {"absent", "not JSON", "not an object"} :
             register' = [NoRegister EXCEPT !.kind = k]
       \/ register' = [register EXCEPT !.kind = "no differ", !.differ = <<>>]
       \/ \E f \in RegisterFaults \cap Slips :
             /\ register.kind = "object"
             /\ register' = [register EXCEPT !.faults = @ \cup {f}]
    /\ UNCHANGED <<manifests, todo, passed>>

-----------------------------------------------------------------------------
(* What a maintainer does who acts on a reported problem, in the report's  *)
(* own words, on whatever is there by then.                                *)

\* The registers a problem of one repo asks for.
Advice(prob) ==
    LET differ == Recorded(register)
        whole == [object |-> TRUE, ports |-> Sorted(prob.have), faults |-> {}]
    IN  CASE prob.what \in {"unrecorded", "not an object"} -> {With(differ, prob.at, whole)}
          [] prob.what = "stale" -> {Without(differ, prob.at)}
          [] prob.what = "ports" /\ prob.at \in DOMAIN differ ->
                {[differ EXCEPT ![prob.at].ports = Sorted(prob.have)]}
          [] prob.what \in EntryFaults /\ prob.at \in DOMAIN differ ->
                {[differ EXCEPT ![prob.at].faults = @ \ {prob.what}]}
          [] OTHER -> {}

Acted(prob) ==
    /\ todo' = todo \ {prob}
    /\ report' = NoReport
    /\ UNCHANGED <<passed, edits>>

FixRegister(what) ==
    \E prob \in {pr \in todo : pr.what = what} :
        /\ \/ \E differ \in Advice(prob) :
                 register' = [register EXCEPT !.kind = "object", !.differ = differ]
           \/ /\ prob.what = "register"
              /\ register' = IF prob.at \in RegisterFaults
                             THEN [register EXCEPT !.faults = @ \ {prob.at}]
                             ELSE [register EXCEPT !.kind = "object", !.differ = <<>>]
           \/ /\ prob.what = "unreadable" /\ prob.at = "register"
              /\ register' = [NoRegister EXCEPT !.kind = "object"]
        /\ Acted(prob)
        /\ UNCHANGED manifests

\* A name is put right, a manifest made readable, or a dependency made to
\* agree: the ports that lack it gain it.
FixManifests(what) ==
    \E prob \in {pr \in todo : pr.what = what} :
        /\ \/ /\ prob.what \in {"unnamed", "disagree"}
              /\ manifests' =
                   [p \in PORTS |-> IF manifests[p].kind = "read" /\ prob.at \in {p, This}
                                    THEN [manifests[p] EXCEPT !.id = This]
                                    ELSE manifests[p]]
           \/ /\ prob.what = "unreadable" /\ prob.at \in PORTS
              /\ \E deps \in SUBSET Ids :
                    manifests' = [manifests EXCEPT ![prob.at] = NamedFor(This, deps)]
           \/ /\ prob.what = "unrecorded"
              /\ manifests' =
                   [p \in PORTS |-> IF manifests[p].kind = "read"
                                    THEN [manifests[p] EXCEPT !.deps = @ \cup {prob.at}]
                                    ELSE manifests[p]]
        /\ Acted(prob)
        /\ UNCHANGED register

Next ==
    \/ CannotRead \/ Check
    \/ \E p \in PORTS : EditManifest(p)
    \/ \E id \in Ids : WriteEntry(id) \/ DeleteEntry(id)
    \/ SpoilRegister
    \/ \E what \in ProblemKinds : FixRegister(what) \/ FixManifests(what)

Spec == Init /\ [][Next]_vars

\* The check runs on every change, and no kind of problem it reports is left
\* for ever.
FairSpec ==
    /\ Spec
    /\ WF_vars(CannotRead) /\ WF_vars(Check)
    /\ \A what \in ProblemKinds : WF_vars(FixRegister(what) \/ FixManifests(what))

-----------------------------------------------------------------------------
(* Properties.                                                             *)

Entries == [object : BOOLEAN, ports : Seq(PORTS), faults : SUBSET EntryFaults]

\* A register; only one that is an object with a `differ' has entries.
IsRegister(reg) ==
    /\ reg = [kind |-> reg.kind, faults |-> reg.faults, differ |-> reg.differ]
    /\ reg.kind \in RegisterKinds
    /\ reg.faults \subseteq RegisterFaults
    /\ DOMAIN reg.differ \subseteq Ids
    /\ \A id \in DOMAIN reg.differ : reg.differ[id] \in Entries
    /\ reg.kind # "object" => reg.differ = <<>>

TypeOK ==
    /\ manifests \in [PORTS -> Manifest]
    /\ IsRegister(register)
    /\ report \in 0 .. NoReport
    /\ edits \in 0 .. MaxEdits

(***************************************************************************)
(* The check passes exactly when everything can be read, every port names  *)
(* this one repo, and the register says no more and no less than what      *)
(* differs: a whole entry for each difference, with its ports, and no      *)
(* entry that nothing supports.                                            *)
(***************************************************************************)
Explained ==
    \A id \in Ids :
        LET holders == {p \in PORTS : /\ manifests[p].kind = "read"
                                      /\ id \in manifests[p].deps
                                      /\ id # manifests[p].id}
            others == {p \in PORTS : manifests[p].kind = "read"} \ holders
        IN  IF holders # {} /\ others # {}
            THEN /\ id \in DOMAIN register.differ
                 /\ LET entry == register.differ[id]
                    IN  /\ entry.object /\ entry.faults = {}
                        /\ entry.ports = Sorted(holders)
            ELSE id \notin DOMAIN register.differ

OneName ==
    \E id \in Ids : \A p \in PORTS : manifests[p].kind = "read" => manifests[p].id = id

PassesIfExplained ==
    report # NoReport =>
        (report = 0 <=> /\ \A p \in PORTS : manifests[p].kind # "unreadable"
                        /\ OneName
                        /\ register.kind \in {"absent", "object"}
                        /\ register.faults = {}
                        /\ Explained)

(***************************************************************************)
(* The inductive invariant behind both.  A report that nobody has acted on *)
(* is about repos of the org and ports there are, so acting on it writes   *)
(* nothing else into the register; and the register of the last check that *)
(* passed names, repo by repo, the ports of every difference it saw.       *)
(***************************************************************************)
AboutRepos == {"unrecorded", "stale", "not an object", "ports"} \cup EntryFaults

TodoFits ==
    \A prob \in todo :
        /\ prob.have \subseteq PORTS
        /\ prob.what \in AboutRepos => prob.at \in Ids

Pins(reg, differ) ==
    /\ differ = [id \in DOMAIN Recorded(reg) |-> differ[id]]
    /\ \A id \in DOMAIN Recorded(reg) :
          differ[id] \subseteq PORTS /\ Sorted(differ[id]) = Recorded(reg)[id].ports

PassedIsPinned == passed # Nothing => Pins(passed.register, passed.differ)

IInv == TypeOK /\ TodoFits /\ PassedIsPinned

(***************************************************************************)
(* A register cannot go stale unnoticed: two checks that pass, however far *)
(* apart, over one register saw the same differences.                      *)
(***************************************************************************)
RegisterPinsDifferences ==
    [][(report' = 0 /\ passed # Nothing /\ passed.register = register')
          => passed.differ = Differences(manifests)']_vars

(***************************************************************************)
(* The reports lead somewhere: acting on them, one problem at a time, in   *)
(* any order and on reports that later edits overtook, the check passes in *)
(* the end and goes on passing.                                            *)
(***************************************************************************)
AdviceConverges == <>[](report = 0)
=============================================================================
