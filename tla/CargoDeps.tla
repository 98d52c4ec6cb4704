----------------------------- MODULE CargoDeps ------------------------------
(***************************************************************************)
(* tools/port-deps.cjs: readRs.  The dependencies of rs/Cargo.toml, read   *)
(* from the tree parseToml makes of it, where one dependency may be        *)
(* spelled by a header, a dotted key or an inline table, at the root or    *)
(* under a target.                                                         *)
(***************************************************************************)
EXTENDS TomlTables, PortFold

CONSTANT Crate        \* the repo of this crate

\* [package], with its name and edition, is a constant of the instance.
CONSTANT Edition2024  \* the edition is 2024 or later

ASSUME CrateIsARepo == Crate \in Repos
ASSUME EditionIsKnown == Edition2024 \in BOOLEAN

KeysIn(path) == {Last(p) : p \in {q \in DOMAIN nodes : q # <<>> /\ Front(q) = path}}

Has(path, key) == Append(path, key) \in DOMAIN nodes

At(path, key) == nodes[Append(path, key)]

-----------------------------------------------------------------------------
\* CARGO_TABLES: the kinds of dependency table and their old spellings.
NoOld == "none"
CARGO_TABLES ==
    {[key |-> "dependencies", old |-> NoOld, dev |-> FALSE],
     [key |-> "build-dependencies", old |-> "build_dependencies", dev |-> FALSE],
     [key |-> "dev-dependencies", old |-> "dev_dependencies", dev |-> TRUE]}

\* The table that is read in a scope, if any: the old spelling only when
\* the new one is absent from it.
Spelling(scope, kind) ==
    IF Has(scope, kind.key) THEN {kind.key} ELSE {kind.old} \cap KeysIn(scope)

\* What is given for a dependency can be read.
Readable(entry) ==
    \/ nodes[entry].t = "string"
    \/ /\ nodes[entry].t = "table"
       /\ ~ Has(entry, "workspace")
       /\ Has(entry, "package") => At(entry, "package").t = "string"
       /\ Has(entry, "optional") => At(entry, "optional").t = "bool"

\* Slip: the key is taken for the crate.
DeclarationByKey(table, key) ==
    [name |-> key,
     optional |-> /\ Has(Append(table, key), "optional")
                  /\ At(Append(table, key), "optional").v = "true"]

Declaration(table, key) ==
    LET entry == Append(table, key)
    IN  [name |-> IF Has(entry, "package") THEN At(entry, "package").v ELSE key,
         optional |-> Has(entry, "optional") /\ At(entry, "optional").v = "true"]

\* The root, and each target.
Scopes == {<<>>} \cup {<<"target", cfg>> : cfg \in KeysIn(<<"target">>)}

\* The dependency tables that are read.
TablesRead(dev) ==
    UNION {{Append(scope, key) : key \in Spelling(scope, kind)} :
              scope \in Scopes, kind \in {k \in CARGO_TABLES : k.dev = dev}}

Declarations(dev) ==
    UNION {{Declaration(table, key) : key \in KeysIn(table)} : table \in TablesRead(dev)}

(***************************************************************************)
(* The reader fails closed: a shape it does not know is no manifest        *)
(* without dependencies but an unreadable one.                             *)
(***************************************************************************)
Understood ==
    /\ status = "reading"
    /\ Has(<<>>, "target") => nodes[<<"target">>].t = "table"
    /\ \A scope \in Scopes :
          /\ nodes[scope].t = "table"
          /\ Edition2024 => \A kind \in CARGO_TABLES : ~ Has(scope, kind.old)
    /\ \A table \in TablesRead(TRUE) \cup TablesRead(FALSE) :
          /\ nodes[table].t = "table"
          /\ \A key \in KeysIn(table) : Readable(Append(table, key))

ReadRs == Fold(Crate, Declarations(FALSE), {d.name : d \in Declarations(TRUE)})

-----------------------------------------------------------------------------
(* Properties.                                                             *)

(***************************************************************************)
(* What the statements of the document say, with no tree: each one's whole *)
(* path, through header and key, and those of an inline table's fields.    *)
(***************************************************************************)
Stated ==
    {<<doc[i].path, doc[i].value.node>> : i \in {j \in DOMAIN doc : ~ doc[j].value.inline}}
    \cup {<<doc[i].path, NoValue.node>> : i \in {j \in DOMAIN doc : doc[j].value.inline}}
    \cup Given

Mentions(path) == \E st \in Stated : IsPrefix(path, st[1])

StatedTables(dev) ==
    LET prefixes == UNION {{SubSeq(st[1], 1, n) : n \in 0 .. Len(st[1])} : st \in Stated}
        scopes == {p \in prefixes : p = <<>> \/ (Len(p) = 2 /\ p[1] = "target")}
    IN  {p \in prefixes :
           /\ p # <<>> /\ Front(p) \in scopes
           /\ \E kind \in CARGO_TABLES :
                /\ kind.dev = dev
                /\ \/ Last(p) = kind.key
                   \/ Last(p) = kind.old /\ ~ Mentions(Append(Front(p), kind.key))}

\* The paths of the dependencies of the tables.
StatedDeps(dev) ==
    UNION {{SubSeq(st[1], 1, Len(p) + 1) : st \in {x \in Stated : IsStrictPrefix(p, x[1])}} :
              p \in StatedTables(dev)}

Renamed(dep) == {st[2].v : st \in {x \in Stated : x[1] = Append(dep, "package")}}

CratesStated(dev) ==
    UNION {IF Renamed(dep) = {} THEN {Last(dep)} ELSE Renamed(dep) : dep \in StatedDeps(dev)}

(***************************************************************************)
(* However a dependency is spelled, a manifest that is read has it: the    *)
(* port's runtime and development repos are those its statements name, its *)
(* own and others' crates aside.                                           *)
(***************************************************************************)
EverySpellingRead ==
    Understood =>
        LET read == ReadRs
        IN  /\ read.runtime = (CratesStated(FALSE) \cap Repos) \ {Crate}
            /\ read.dev = (CratesStated(TRUE) \cap Repos) \ ({Crate} \cup read.runtime)

(***************************************************************************)
(* A repo is optional exactly when no statement makes it required, in      *)
(* whatever table and under whatever alias that statement is.              *)
(***************************************************************************)
OptionalUnlessRequired ==
    Understood =>
        LET read == ReadRs
            deps == StatedDeps(FALSE)
        IN  \A id \in read.runtime :
                id \notin read.optional <=>
                    \E dep \in deps :
                        /\ id \in (IF Renamed(dep) = {} THEN {Last(dep)} ELSE Renamed(dep))
                        /\ ~ \E st \in Stated :
                              st[1] = Append(dep, "optional") /\ st[2].v = "true"
=============================================================================
