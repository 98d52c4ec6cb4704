----------------------------- MODULE TomlTables -----------------------------
(***************************************************************************)
(* tools/port-deps.cjs: parseToml.  A document is headers and assignments, *)
(* in any order, and the reader makes one tree of them, or refuses the     *)
(* document.  A path is the keys from the root to a node, an item of an    *)
(* array of tables being a key of its own.                                 *)
(*                                                                         *)
(* Characters are left out: a text that is no statement is Malformed.      *)
(***************************************************************************)
EXTENDS Naturals, Sequences, SequencesExt, FiniteSets

CONSTANTS
    HeaderKeys,       \* bound: the keys a header may hold, dotted
    StatementKeys,    \* bound: the keys an assignment may have, dotted
    Values,           \* bound: the values assigned
    ItemNames,        \* the items of an array of tables, from the first
    MaxStatements     \* bound: the statements of a document

\* There is an item for each statement, and no two are the same.
ASSUME ItemsAreNamed ==
    /\ MaxStatements \in Nat
    /\ DOMAIN ItemNames = 1 .. MaxStatements
    /\ \A i, j \in DOMAIN ItemNames : ItemNames[i] = ItemNames[j] => i = j

\* The parts of a path.
Names == STRING \cup ToSet(ItemNames)

\* No key has the name of an item.
Keyed(parts) == parts \in Seq(STRING \ ToSet(ItemNames)) \ {<<>>}

VARIABLES
    nodes,      \* the tree: a node for each path
    current,    \* the table assignments go to
    status,     \* "reading" or "refused"
    doc         \* history: the statements, each with the path it came to

vars == <<nodes, current, status, doc>>

Scalar(t, v) == [t |-> t, v |-> v, defined |-> TRUE, inline |-> FALSE]
Table(defined, inline) == [t |-> "table", v |-> "", defined |-> defined, inline |-> inline]
Tables == [t |-> "aot", v |-> "", defined |-> TRUE, inline |-> FALSE]

\* A value: a scalar, or an inline table with its assignments in order.
Plain(t, v) == [inline |-> FALSE, node |-> Scalar(t, v), fields |-> <<>>]
Inline(fields) == [inline |-> TRUE, node |-> Table(TRUE, TRUE), fields |-> fields]
Field(parts, t, v) == [parts |-> parts, node |-> Scalar(t, v)]

IsScalar(node) == node.t \notin {"table", "aot"} /\ ~ node.inline

Valued(value) ==
    /\ value.inline \in BOOLEAN
    /\ IF value.inline THEN value.node = Table(TRUE, TRUE)
       ELSE IsScalar(value.node) /\ value.fields = <<>>
    /\ value.fields \in Seq(ToSet(value.fields))
    /\ \A f \in ToSet(value.fields) : Keyed(f.parts) /\ IsScalar(f.node)

ASSUME KeysAreKeyed == \A parts \in HeaderKeys \cup StatementKeys : Keyed(parts)
ASSUME ValuesAreValued == \A value \in Values : Valued(value)

\* Slip: an inline table is a table like another.
TakesInline(node) == node.t = "table"

\* May hold more: a table that is not complete in itself.
Takes(node) == node.t = "table" /\ ~ node.inline

Between(from, parts) == {from \o SubSeq(parts, 1, i) : i \in 1 .. Len(parts) - 1}

\* Slip: a key may be set again.
CanAssignTwice(ns, from, parts) ==
    \A p \in Between(from, parts) \cap DOMAIN ns : Takes(ns[p])

CanAssign(ns, from, parts) ==
    /\ \A p \in Between(from, parts) \cap DOMAIN ns : Takes(ns[p])
    /\ from \o parts \notin DOMAIN ns

\* One more node, or another in its place; and tables where there is nothing.
Put(ns, path, node) ==
    [p \in DOMAIN ns \cup {path} |-> IF p = path THEN node ELSE ns[p]]

Made(ns, paths, table) ==
    [p \in DOMAIN ns \cup paths |-> IF p \in DOMAIN ns THEN ns[p] ELSE table]

\* Tables are made on the way down.
Assign(tree, from, parts, node) ==
    IF tree.ok /\ CanAssign(tree.nodes, from, parts)
    THEN [ok |-> TRUE,
          nodes |-> Put(Made(tree.nodes, Between(from, parts), Table(TRUE, FALSE)),
                        from \o parts, node)]
    ELSE [ok |-> FALSE, nodes |-> tree.nodes]

\* The value, and then its fields in order.
AssignValue(tree, from, parts, value) ==
    LET upTo[n \in 0 .. Len(value.fields)] ==
            IF n = 0 THEN Assign(tree, from, parts, value.node)
            ELSE Assign(upTo[n - 1], from \o parts,
                        value.fields[n].parts, value.fields[n].node)
    IN  upTo[Len(value.fields)]

-----------------------------------------------------------------------------
Items(ns, path) == {i \in DOMAIN ItemNames : Append(path, ItemNames[i]) \in DOMAIN ns}

NewItem(ns, path) == Append(path, ItemNames[Cardinality(Items(ns, path)) + 1])

LastItem(ns, path) == Append(path, ItemNames[Cardinality(Items(ns, path))])

\* Slip: a header goes into the first of an array of tables.
EnterFirst(ns, path) ==
    IF path \in DOMAIN ns /\ ns[path] = Tables THEN Append(path, ItemNames[1]) ELSE path

\* Where a header's key leads: into the last of an array of tables.
Enter(ns, path) ==
    IF path \in DOMAIN ns /\ ns[path] = Tables THEN LastItem(ns, path) ELSE path

\* The paths of a header's keys but the last, from the root down.
Way(ns, parts) ==
    LET way[i \in 0 .. Len(parts) - 1] ==
            IF i = 0 THEN <<>> ELSE Enter(ns, Append(way[i - 1], parts[i]))
    IN  way

Passable(ns, way) == \A i \in DOMAIN way : way[i] \in DOMAIN ns => Takes(ns[way[i]])

\* Tables made on the way to a deeper header wait for one of their own.
WithWay(ns, way) == Made(ns, {way[i] : i \in DOMAIN way}, Table(FALSE, FALSE))

Init ==
    /\ nodes = [p \in {<<>>} |-> Table(TRUE, FALSE)]
    /\ current = <<>>
    /\ status = "reading"
    /\ doc = <<>>

Reading == status = "reading" /\ Len(doc) < MaxStatements

Refuse == status' = "refused" /\ UNCHANGED <<nodes, current, doc>>

State(kind, path, value) ==
    doc' = Append(doc, [kind |-> kind, path |-> path, value |-> value])

NoValue == Inline(<<>>)

\* Slip: a new table is not put in the one that holds it.
TableHeaderUnset(parts) ==
    /\ Reading
    /\ LET way == Way(nodes, parts)
           path == Append(way[Len(parts) - 1], Last(parts))
       IN  /\ Passable(nodes, way) /\ path \notin DOMAIN nodes
           /\ nodes' = WithWay(nodes, way)
           /\ current' = path
           /\ State("header", path, NoValue)
           /\ UNCHANGED status

\* Slip: a table may have two headers.
TableHeaderTwice(parts) ==
    /\ Reading
    /\ LET way == Way(nodes, parts)
           path == Append(way[Len(parts) - 1], Last(parts))
       IN  IF /\ Passable(nodes, way)
              /\ path \in DOMAIN nodes => Takes(nodes[path])
           THEN /\ nodes' = Put(WithWay(nodes, way), path, Table(TRUE, FALSE))
                /\ current' = path
                /\ State("header", path, NoValue)
                /\ UNCHANGED status
           ELSE Refuse

\* [a.b]: a table that is new, or was only made on the way to a deeper one.
TableHeader(parts) ==
    /\ Reading
    /\ LET way == Way(nodes, parts)
           path == Append(way[Len(parts) - 1], Last(parts))
       IN  IF /\ Passable(nodes, way)
              /\ path \in DOMAIN nodes => nodes[path] = Table(FALSE, FALSE)
           THEN /\ nodes' = Put(WithWay(nodes, way), path, Table(TRUE, FALSE))
                /\ current' = path
                /\ State("header", path, NoValue)
                /\ UNCHANGED status
           ELSE Refuse

\* [[a.b]]: one more item of an array of tables.
ArrayHeader(parts) ==
    /\ Reading
    /\ LET way == Way(nodes, parts)
           path == Append(way[Len(parts) - 1], Last(parts))
           item == NewItem(nodes, path)
       IN  IF /\ Passable(nodes, way)
              /\ path \in DOMAIN nodes => nodes[path] = Tables
           THEN /\ nodes' = Put(Put(WithWay(nodes, way), path, Tables),
                                item, Table(TRUE, FALSE))
                /\ current' = item
                /\ State("item", item, NoValue)
                /\ UNCHANGED status
           ELSE Refuse

Statement(parts, value) ==
    /\ Reading
    /\ LET tree == AssignValue([ok |-> TRUE, nodes |-> nodes], current, parts, value)
       IN  IF tree.ok
           THEN /\ nodes' = tree.nodes
                /\ State("key", current \o parts, value)
                /\ UNCHANGED <<current, status>>
           ELSE Refuse

Malformed == Reading /\ Refuse

\* One more statement of a document of such keys and values.
Reads(headers, keys, values) ==
    \/ \E parts \in headers : TableHeader(parts) \/ ArrayHeader(parts)
    \/ \E parts \in keys, value \in values : Statement(parts, value)
    \/ Malformed

Next == Reads(HeaderKeys, StatementKeys, Values)

Spec == Init /\ [][Next]_vars

-----------------------------------------------------------------------------
(* Properties.                                                             *)

\* The scalars a document gives, each at its path, those of inline tables
\* included.
Given ==
    UNION {IF doc[i].kind # "key" THEN {}
           ELSE IF doc[i].value.inline
                THEN {<<doc[i].path \o f.parts, f.node>> : f \in ToSet(doc[i].value.fields)}
                ELSE {<<doc[i].path, doc[i].value.node>>} : i \in DOMAIN doc}

TypeOK ==
    /\ status \in {"reading", "refused"}
    /\ DOMAIN nodes \subseteq Seq(Names)
    /\ current \in DOMAIN nodes /\ Takes(nodes[current])
    /\ doc \in Seq(ToSet(doc)) /\ Len(doc) <= MaxStatements
    /\ \A i \in DOMAIN doc :
          /\ doc[i].kind \in {"header", "item", "key"}
          /\ doc[i].path \in Seq(Names) /\ Valued(doc[i].value)

(***************************************************************************)
(* Whatever the order and the spelling of its statements, a document that  *)
(* is read holds each value it gave, where it gave it, and no other: none  *)
(* is overwritten, dropped or put in another table of the same name.       *)
(***************************************************************************)
HoldsWhatWasGiven ==
    {<<p, nodes[p]>> : p \in {q \in DOMAIN nodes : nodes[q].t \notin {"table", "aot"}}} = Given

(***************************************************************************)
(* The nodes are a tree: only tables hold anything, whichever of header,   *)
(* dotted key and inline table made them, arrays of tables hold items, and *)
(* an inline table holds its own fields and nothing a later statement adds.*)
(***************************************************************************)
IsATree ==
    /\ \A p \in DOMAIN nodes \ {<<>>} :
          /\ Front(p) \in DOMAIN nodes
          /\ nodes[Front(p)].t = (IF Last(p) \in ToSet(ItemNames) THEN "aot" ELSE "table")
    /\ \A i \in DOMAIN doc :
          doc[i].kind = "key" /\ doc[i].value.inline =>
             \A p \in DOMAIN nodes :
                IsStrictPrefix(doc[i].path, p) =>
                   \E f \in ToSet(doc[i].value.fields) : IsPrefix(p, doc[i].path \o f.parts)

(***************************************************************************)
(* No table is stated twice: by two headers, or by a header and the value  *)
(* or inline table of a key, in either order and with anything between.    *)
(***************************************************************************)
StatedOnce ==
    \A i, j \in DOMAIN doc : i # j => doc[i].path # doc[j].path

(***************************************************************************)
(* What is stated below an array of tables belongs to its latest item, at  *)
(* whatever depth and through whatever header it is reached.               *)
(***************************************************************************)
UnderLatestItem ==
    \A i, j \in DOMAIN doc :
        LET array == Front(doc[i].path)
        IN  (/\ i < j /\ doc[i].kind = "item"
             /\ IsStrictPrefix(array, doc[j].path)
             /\ \A k \in i + 1 .. j : ~ (doc[k].kind = "item" /\ Front(doc[k].path) = array))
            => IsPrefix(doc[i].path, doc[j].path)

(***************************************************************************)
(* The inductive invariant.  A statement is where it was stated, and what  *)
(* it stated is there; the items of an array have the first names, as many *)
(* as were stated, and the one stated last has the last of them.  Nothing  *)
(* above the current table is inline, and it is in the latest item of each *)
(* array it is in: so is what its assignments reach.                       *)
(***************************************************************************)
\* No inline table is on the way to a path.
Open(ns, path) == \A p \in DOMAIN ns : IsPrefix(p, path) => ~ ns[p].inline

\* The way goes through the latest items.
Latest(ns, path) ==
    \A p \in DOMAIN ns :
        ns[p].t = "aot" /\ IsStrictPrefix(p, path) => IsPrefix(LastItem(ns, p), path)

StatedIsThere ==
    \A i \in DOMAIN doc :
        /\ doc[i].path \in DOMAIN nodes
        /\ nodes[doc[i].path] =
              IF doc[i].kind = "key" THEN doc[i].value.node ELSE Table(TRUE, FALSE)
        /\ doc[i].kind = "item" => doc[i].path # <<>> /\ nodes[Front(doc[i].path)].t = "aot"

ItemsInOrder ==
    \A p \in DOMAIN nodes : nodes[p].t = "aot" =>
        /\ nodes[p] = Tables
        /\ \E n \in 1 .. Len(doc) : Items(nodes, p) = 1 .. n

LastStatedIsLast ==
    \A i \in DOMAIN doc :
        /\ doc[i].kind = "item"
        /\ \A k \in i + 1 .. Len(doc) :
              ~ (doc[k].kind = "item" /\ Front(doc[k].path) = Front(doc[i].path))
        => doc[i].path = LastItem(nodes, Front(doc[i].path))

CurrentIsOpen == Open(nodes, current) /\ Latest(nodes, current)

\* There is a node on the way to what was stated, and in its value, only.
NothingElse ==
    \A p \in DOMAIN nodes \ {<<>>} : \E i \in DOMAIN doc :
        \/ IsPrefix(p, doc[i].path)
        \/ doc[i].kind = "key" /\ IsStrictPrefix(doc[i].path, p)

IInv ==
    /\ TypeOK /\ nodes[<<>>] = Table(TRUE, FALSE)
    /\ StatedIsThere /\ ItemsInOrder /\ LastStatedIsLast /\ CurrentIsOpen
    /\ NothingElse
    /\ IsATree /\ HoldsWhatWasGiven /\ StatedOnce /\ UnderLatestItem
=============================================================================
