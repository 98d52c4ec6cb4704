# Verification of jsonl

TLA+ models of this repository (the JSON Lines plugin for the tabnas engine, its
C library, its renderer, its maintenance scripts and its release workflows), the
TLC runs that check them
on small instances, and proofs that TLAPS checks for every instance. Paths below are relative to the repository's root.

## The system

| Component | State it keeps | Operations | Talks to |
|---|---|---|---|
| Document grammar (`ts/src/jsonl.ts`, `go/jsonl.go`, `rs/src/lib.rs`) | none of its own: two tables of alternates, `jsonl` and `record`, a token set and a start rule | installed once on an engine | the engine, which interprets the tables; the strict-JSON rules, which `record` pushes |
| Rule engine and strict-JSON grammar (other packages) | the rule stack, the position, the node being built | one parse | the tables above |
| Plugin installation (same files) | the engine's rules and options | `jsonl`, `plugin`, `make`, the base check | engine, `@tabnas/json` |
| Default parser (same files) | one lazily built engine | `parse` from any thread | `make` |
| C library (`go/clib/core.go`, `tabnas_c.go`) | `nextID`, `loaded`, the registry's RWMutex, a mutex and an engine per instance | `tabnas_grammar`, `tabnas_parse`, `tabnas_grammar_free` from any host thread | one engine per handle |
| `jsonUnsafe` (`core.go:290-484`) | the path from the root of the value being walked | one walk per accepted parse | `parseWith` |
| Release (`.github/workflows/release.yml`) | the remote's tags, npm | dispatch, push of a tag, re-run | the next two, called as jobs |
| C release (`clib-release.yml`) | the GitHub Release of a tag, "Latest" | ensure, build, publish | the shared build in another repository |
| crates.io release (`crates-release.yml`) | crates.io | check out the tag, decide, publish | crates.io |
| Render (`alchemy/render.alc`, and its copies under `go/` and `rs/`) | a stack of markers | one step per event, and a finish | the host that feeds it events; the reader of its text |
| Transduce (`alchemy/transduce.alc`) | none | five table entries | hosts |
| Translation parts (`ts/embed-translate.js`) | the copies of manifest and sources in three ports | one run: read, refuse or write | the manifest and sources that maintainers edit; the ports' accessors |
| `tools/port-deps.cjs` | none between runs; maintainers keep `tools/port-deps.json` | read three manifests and the Go files, compare with the register, report | the ports' manifests; the maintainers who act on its report |
| Prose scripts (`ts/scripts/vale-counts.cjs`, `gated-docs.cjs`) | `.vale.ini`, the style guide, a scratch configuration | check, or `--write` | Vale; the pages |
| CI | none that outlives a run | | |

What is hard about each, and what makes it correct:

- **Grammar.** The text of a document can separate its records in many ways (one
  newline, several, newlines with spaces between, CRLF, none at the end), and each
  reaches the tables by another path. The tables are right if, whatever the layout
  and whatever is wrong with a line, the answer is that of reading the document line
  by line: the same values in the same order, or a refusal at the same row. They
  must also use a bounded stack and always come to an end.
- **C library.** Host threads interleave at every statement. A handle must never
  be reused, an engine never be entered twice, a panic never leave a lock held, and
  the registry's map never be raced. To a caller, each call must look atomic.
- **Release.** Each step does something that cannot be undone, any step may fail,
  a run may be repeated, two runs may overlap and main may move. All that carries
  one version must agree on one commit, a Go tag must not precede npm, and a
  half-finished release must be repairable.
- **Render.** A streaming writer driven by events it does not control. What it has
  let go must be whole lines, and what it finishes must read back.
- **Installation.** Plugins and options come in any order, an include filter
  deletes alternates for good, and several grammars define `val`. What the plugin
  accepts must be a strict parser of lines, and what it refuses must deserve it.
- **Default parser.** Threads meet at the first parse. One engine, whole before
  anyone uses it, and no one left waiting.
- **`jsonUnsafe`.** Values share memory, share addresses and contain themselves.
  The walk must end, and withhold what would be corrupted and nothing else.
- **Port dependencies.** One dependency has many spellings in three languages, and
  a reader that overlooks one reports agreement. What cannot be understood must be
  refused. The register must follow the manifests as both are edited, and acting on
  the report must lead to a check that passes.
- **Prose scripts.** Numbers are rewritten in place in a file that also gains
  lines, in two files one after the other, by a run that may be killed.
- **Translation parts.** Copies are written one by one while sources are edited.

`PROJECT.json` lists the hazards, each at its line, with the properties that would
catch it.

## Modules

| Module | Models |
|---|---|
| `JsonlSource` | the characters, lexemes and tokens of a document |
| `JsonLines` | abstract: the meaning of a document, line by line, with no grammar |
| `JsonlParser` | the alternates of `jsonl` and `record`, and the engine that runs them |
| `ClibCalls` | the calls and replies of the C ABI |
| `HandleTable` | abstract: a table of handles, each call one atomic step |
| `Clib` | the C library, statement by statement |
| `Release` | the three release workflows, the maintainers and the failures |
| `Render` | the renderer's step function, its markers and its text |
| `Engine` | an engine instance: its alternates, filter and options, and what the plugin does to them |
| `PluginInstall` | a program applying plugins and options to one engine in any order |
| `DefaultParser` | `parse` from several threads, with the engine built on first use |
| `JsonUnsafe` | the walk of `jsonUnsafe` and its path set |
| `PortFold` | port-deps: what the readers of npm and Cargo manifests share |
| `NpmDeps` | port-deps: `readTs` |
| `TomlTables`, `CargoDeps` | port-deps: `parseToml`, and `readRs` over the tree it makes |
| `GoHeader`, `GoImports`, `GoDeps` | port-deps: `goIgnored`, `goImports`, and `parseGoMod` with `readGo` |
| `PortDeps` | port-deps: the comparison, the register and the maintainers |
| `ValeCounts`, `ValeBlocks` | vale-counts: measuring, checking and rewriting; where the counts stand |
| `EmbedTranslate` | embed-translate |
| `JsonlParserProofs`, `ClibProofs`, `ReleaseProofs`, `LibraryProofs`, `ReadersProofs`, `PortDepsProofs`, `ScriptsProofs` | theorems, one module per run's module or the module itself |
| `Recursion` | lemmas on least and greatest numbers, recursive functions and sequences put together, for the proofs |
| `MCJsonlParser`, `MCClib`, `MCRelease` | constants and symmetry sets for TLC |
| `MCLibrary`, `MCReaders`, `MCScripts` | the instances of the library's other parts, of the readers, and of the scripts that rewrite files |

The scripts and the plugin come with a reader's view and a writer's view of the
same thing, so most properties compare two accounts that share no definition: what
the tree holds with what the statements say, what a file's tokens give with what
the file was written as, what `goIgnored` decides with what `go/build` decides.

### Grammar: JsonlSource, JsonLines, JsonlParser

The tables are data in the source and data here: `JsonlRule`, `RecordOpen` and
`RecordClose` are the alternates of the source in their order, with their tokens
(`s`), tokens given back (`b`), action (`a`), pushed rule (`p`) and replacing rule
(`r`). All three ports declare the same tables. The tags (`g`) are left out: with
`rule.include` set to `json,jsonl` every alternate is active.

The engine and the JSON rules are other packages. Their part of the model is
marked external and follows how the plugin uses them: first match wins, `#ZZ` is
never used up, `p` pushes a frame, `r` replaces the rule in its frame, a rule goes
from its open to its close phase. One action is one step of the rule loop.

A document is a sequence of lexemes. Line characters are kept one by one, since
the plugin depends on a run of them being one token, and only "\n" counting as a
row; other lexemes are kinds. Characters inside a string or a number are not
modelled, so neither is a line break inside a string: strict JSON refuses it
(`BD`).

`JsonlParser` implements `JsonLines` under the mapping `records <- Elements` (the
spans of the elements pushed so far). So at every moment, and not only at the
end, the array being built is a prefix of the document's lines.

### C library: ClibCalls, HandleTable, Clib

One action is one statement that another thread can observe. `pc[t]` names it. The
locals are `arg` (the call), `g` (the instance), `id` and `reply`. `loaded` is the
Go map, a function whose domain is the live handles; `freed` is a history variable
for a property. `sync.RWMutex` is modelled with Go's preference for a writer that
waits: `Lock` announces itself, which keeps new readers out, and then waits for
the readers that are in. A panic recovered by `safeNew` is a failed construction,
one recovered by `safeParse` is the verdict `"panic"`. `Verdict` gives the outcome
of each source: a value, a value `jsonUnsafe` withholds, a rejection, an error the
engine recovered, or a panic. `engine[i]` is the source the engine of instance i
works on; a second thread that enters overwrites it, which is how an unprotected
engine would go wrong.

`Clib` implements `HandleTable` (`Linearizable`): a grammar call takes effect when
the handle is put in the table, a parse when it is looked up, a free when it is
deleted.

### Release

`pc[r][job]` is where each job of each run is. The data that matter are commits
and versions: what npm, crates.io and the Release of a version were built from,
and where each tag points. The checkout reads the tags once, at its start
(`Checkout`), and `Tag` pushes atomically or not at all. The publish script of the
C release is two steps, since another run can publish between them: `ReadPage`
looks for the manifest and the draft and remembers the highest tag, `EditPage`
edits the Release by what was read. `Fail` stops a job before
any step, and `NpmUnseen` is an `npm view` that fails because the registry does
not answer, which the script cannot tell from a version that is not there.

### Render

One action is one event: a value, key or end that is due, or one that is not
(`Refuse`). `out` is the text, as lexemes of `JsonlSource`, and `whole` how much of
it is in ended records. The reader is `JsonLines`, so writer and reader are
checked against each other. The lines of the map are those of the TypeScript
port's embedded copy, whose text is `alchemy/render.alc`.

### Installation and default parser: Engine, PluginInstall, DefaultParser

An engine is the alternates it has by tag, its include filter, its start rule and
the options that decide what a record may contain. The engine, `@tabnas/json` and
`@tabnas/jsonic` are external and behave as `ts/src/jsonl.ts` says of them: setting
`rule.include` drops what it does not name (`:164-166`), jsonic lexes bare text and
comments and takes other quotes (`:178-185`). `PluginInstall` applies plugins,
single grammars and options in any order and derives children, which apply the
registered plugins again. `UseJsonl` has the base check as its guard, and
`UseJsonlRefused` is the error.

`DefaultParser` is `Parse` of the Go port: `sync.Once` with its fast path, its lock
and its second look, then the build through `Make` in three steps, so that an
engine that is half made can be told from a whole one, and the shared parses. The
Rust port's `OnceLock` gives the same guarantee, and TypeScript's `??=` is one
thread's case of it. A panic in `Make` is left out: the base check it could come
from passes right after the JSON grammar was installed.

### `jsonUnsafe`: JsonUnsafe

The recursion is a stack of containers, each with its next child, and one action is
one child. Five containers stand for the cases `pathKey` has to keep apart: a struct
and its first field have one address, a slice and a shorter slice of it too, and a
map's key is a value of its own. What each place holds is chosen freely, so every
sharing and every cycle among the five occurs. The reference is reachability:
`Within` is everything a container holds at any depth, as the least set of
containers that is closed under holding.

### Port dependencies: NpmDeps, TomlTables, CargoDeps, GoHeader, GoImports, GoDeps, PortDeps

- `NpmDeps`: a manifest grows entry by entry; `ReadTs` is what the reader makes of it.
- `TomlTables`: a document is its statements, and a tree of tables is built from
  headers, arrays of tables, dotted keys and inline tables. Nodes are named by
  their paths; an item of an array of tables has a name of its own (`ItemNames`).
  Keys, values and items are constants. `CargoDeps` reads a tree of it: three kinds
  of table with their old spellings, at the root and under targets, with renamed and
  optional crates. The properties of `CargoDeps` compare its answer with the
  statements themselves. In `MCReaders` both read through the one instance, "cargo"
  over the spellings of a dependency and "toml" over two keys in all combinations.
- `GoHeader`: the header is read line by line, a line being comments and ends of
  comments, the lines a file may have being a constant; the reference is a second
  account of `go/build` over the text as a whole.
- `GoImports`: a token at a time; files are made from Go's grammar and may then have
  one token lost or changed.
- `GoDeps`: go.mod line by line, then the files of the tree, with what `goIgnored`
  and `goImports` say of each as an input.
- `PortDeps`: `Check` is a whole run of the program. Manifests and register are
  edited by hand, and the problems a check reports are acted on one at a time, in
  the report's words, by when they may be out of date.

### Prose scripts: ValeCounts, ValeBlocks

`ValeCounts` has the claims of the comments as numbers, with a run in the steps in
which it can be killed: the scratch configuration written and removed, `.vale.ini`
written, the guide written. `ValeBlocks` has the file as lines of tokens, and shows
that a rewrite changes the claims and nothing else; edits and insertions are at
places of the file as it was read. `InOrder` says the order of the insertions by what
it is, so that it can be reasoned about.

### Translation parts: EmbedTranslate

One run reads the manifest, then each part in turn, refusing what is no string, and
then writes three ports file by file. A text is its version. Edits may come between
any two steps and a run may be killed at any of them. `FilesToWrite` names every file
of the three ports in order; `IsWritten` tells which of them are (`:98` writes
`translate.ts` always, `:107` and `:108` the others).

An empty text is where the copies fall short of the sources.
`rs/tests/translate_test.rs:11-13` says that `npm run embed` makes the copies under
`rs/translate` the same as the sources, but `embed-translate.js:108` writes a copy
`if (value?.source)`, which an empty text is not: the copies of a source that was
emptied stay as they were, while `translate.ts` gets the empty text (`:48` tests for
null). The model has this, and `PortsAgree` and `CopiesAreCurrent` are about the
texts that are not empty.

## Runs

| Run | Properties | Bounds |
|---|---|---|
| `ParserTexts` | `IInv`, `StackByNesting`, `LineByLine`, `Ends` | all texts of at most 6 of LF, CR, space, scalar; of at most 6 of LF, scalar, `[`, `]`, `,`; of at most 5 pieces of objects, or of whole records and what breaks them |
| `ClibTwo` | `IInv`, `Linearizable` | 2 threads, 2 engines, handles 0..3, all verdicts, all calls |
| `ClibThree` | `NoRegistryRace`, `FreedStaysFreed`, `EnginesNotShared`, `AnswersItsOwnSource` | 3 threads, 3 engines, handles 1, 2; symmetric threads |
| `ClibReturns` | `CallsReturn` | 3 threads, 1 engine |
| `ReleaseSafe` | `IInv`, `TaggedTogether`, `GoTagAfterNpm`, `PublicIsComplete`, `LateRepairKeepsLatest` | 2 runs, 3 commits, 2 failures; symmetric runs |
| `ReleaseRepair` | `HalfReleasesFinish` | 2 runs, 2 commits, 1 failure |
| `ReleaseAnchor` | `TagsNameWhatNpmServes` (violated) | 2 runs, 2 commits, 1 failure, no tag pushed by hand |
| `ReleaseLatest` | `LatestNotDisplaced` (violated) | 2 runs, 2 commits, no failure |
| `Library` | see below | 3 threads with 2 parses each; 6 steps of a program; 5 containers, 6 places, every content; text of at most 10 lexemes |
| `Readers` | see below | 5 TOML statements over 2 keys; 4 statements of dependencies; 4 entries of a `package.json`; 5 header lines of 15 kinds; 2 import declarations of 2 paths, one token damaged; 4 lines of go.mod and 2 files |
| `Ports` | `IInv`, `PassesIfExplained`, `RegisterPinsDifferences`, `AdviceConverges` | 2 repos, 2 edits by hand, 3 kinds of slip in the register, any number of fixes |
| `Scripts` | see below | 2 parts, 2 versions, 1 kill; 2 rules, counts to 2, 3 edits or kills; 4 lines of 8 kinds, 2 rewrites |

What they show:

- `ParserTexts`: whatever the layout of blank lines and whatever is wrong with a
  line, the rule machine answers what reading line by line answers (`LineByLine`,
  the refinement), on a stack as deep as the nesting and not as long as the
  document, and every parse ends.
- `ClibTwo`: the library implements an atomic table of handles, and the inductive
  invariant of the proofs holds. `ClibThree`: the registry is never raced, a freed
  handle stays freed, no engine has two handles, and a parse answers for its own
  source. `ClibReturns`: no deadlock, no starvation, no lock left held.
- Where a run has `IInv`, it is the inductive invariant of that module's proofs; in
  `Library` it is part of `TypesOK`, in `Scripts` of `CopiesAreTrue` and
  `RecordSettles`, and in `Readers` of `TreeIsTheDocument`, `FilesReadAsGoDoes` and
  `ModAsWritten`.
- `ReleaseSafe`: what carries one version agrees on one commit, the Go tag follows
  npm, a public Release is complete, and a repair made after a newer tag leaves
  "Latest" alone. `ReleaseRepair`: a release that failed half way can be finished.
  `ReleaseAnchor` and `ReleaseLatest` are the findings below.
- `Library`, for one part at a time: of `DefaultParser`, `ParsesWithAWholeEngine`
  and `OneEngineForAll`; of `PluginInstall`, `BaseCheckIsExact` (what is accepted
  becomes a strict parser of lines, and what is refused would not have) and
  `AgainIsHarmless`; of `JsonUnsafe`, `WithheldWithReason`; of `Render`,
  `RendersLines` (whole lines are let go, and the finished text reads back) and
  `StateIsNesting`; `EveryCallEnds` for parses that wait and for walks over cycles.
- `Readers`: the TOML tree holds each value that was given, once, in the table it
  was given for (`TreeIsTheDocument`); a dependency is read however it is spelled,
  and optional exactly if nothing requires it, in Cargo (`CargoAsStated`) and in npm
  (`NpmAsInstalled`); Go files are left out exactly when Go leaves them
  out, and damaged ones are not read part way (`FilesReadAsGoDoes`); go.mod is read
  as it is written (`ModAsWritten`), and nothing the port is built from goes unseen
  (`NothingUnseen`).
- `Ports`: a check passes only if every difference is recorded as it is, an entry
  is refused once its difference is gone, and acting on the advice, however late,
  comes to a check that passes.
- `Scripts`: a run of embed-translate that ends leaves three ports with the same
  texts (`CopiesAreTrue`), and a refused manifest leaves none changed
  (`RefusalWritesNothing`); a check of the counts passes exactly on a true record,
  and one rewrite makes it true after any edit, failure or kill (`RecordSettles`),
  changing the claims and nothing else (`RewriteIsRight`).

`Library`, `Readers` and `Scripts` each hold several modules that share no state. A
variable says which of them runs, and the others stay at their initial state: run
side by side their states would multiply and show nothing more.

Why the bounds are enough. No alternate looks further than two tokens, and the
tables' eight alternates with tokens tell one separator from two and from the
end. Six lexemes hold a record with two unmerged separators on one side of it and
one on the other, two records with two such separators between them, and three
separators in a row, before, after or instead of records.
In the C library a conflict needs two threads, and a writer that waits
behind a reader while another reader arrives needs three; three engines let one be
freed while a second is live and a third is built. In the release two runs can
interleave, a third commit lets a version change after a repair has begun, and two
failures can hit a run and its re-run. Ten lexemes let the renderer write a nested
container with two items and a line before or after it.

Six steps put three plugins, an option, a grammar and a derivation in any order.
Three threads at `sync.Once` are one that builds, one that waits and one that comes
late. A path through five containers is as long as the path set's keys can be told
apart. Four statements give a dependency in one spelling under a target, in another
at the root, and make it optional in either; a fifth in `TomlTables` reaches a
table below the second item of an array. Five lines hold a block comment, a
constraint in it and one after it, a blank line and the code. Two edits change a
manifest and its register against each other, which is what a stale entry takes.
Three edits or kills interrupt a rewrite between its files after a change of the
pages. Four lines hold two rules, or one with a claim wrapped over two comments,
and two insertions, where the order of insertion shows.

`CHECK_DEADLOCK` is off where the system may stop: a release when nobody
dispatches, and in `Library`, `Readers` and `Scripts`, whose programs, texts and
scripts come to an end or to their bounds. Where something must still happen a
liveness property says so (`HalfReleasesFinish`, `EveryCallEnds`).

### Fairness

- `JsonlParser`: weak fairness of a step. A parse is one synchronous call.
- `Clib`: weak fairness of what a thread does on its own; strong fairness of
  taking a free mutex, of announcing a write and of reading, since Go's mutexes
  bound how long a waiter is passed over. Without the writer's preference over new
  readers a free can wait for ever behind readers; the model has it because
  `sync.RWMutex` documents it. Waiting for the readers that are in needs only weak
  fairness. No fairness makes a host call.
- `Release`: a started job runs, and a failed job is run again. The workflow's own
  comments assume the second ("Re-run that job to repair it"). Nobody has to
  merge, dispatch or push.
- `DefaultParser` (in `Library`): a thread runs, and strong fairness of taking `sync.Once`'s mutex,
  which Go does not let a waiter lose for ever. Nobody has to call `parse`.
- `JsonUnsafe` (in `Library`): weak fairness of a step: the walk is one synchronous call.
- `PortDeps`: the check runs again on every change, and no kind of
  problem it reports is left for ever. This is an assumption about the maintainers;
  what is shown is that the advice, followed at whatever pace, comes to an end.

## Findings

`ReleaseAnchor`. `release.yml:158` says a repair must name the commit the release
happened at, "not whatever main has become since". That holds once a tag exists. If
the first run published to npm and failed before its tag step, and main moves on
without a version bump before someone dispatches again instead of re-running the
failed job, the new run finds no tag, anchors to its own HEAD (`:165`), skips the
publish because npm has the version (`:186`) and tags the new commit. npm then
serves one commit and the tags, the Go module and the crate another;
`crates-release.yml:31` describes the crate as built from the commit npm and the Go
proxy serve. Re-running the failed job is safe, since it runs at its first commit.

`ReleaseLatest`. `clib-release.yml:120` has "Latest" only for the highest version,
"so a backfill or late repair of an older tag does not displace it". The script
reads the tags (`:122`) and edits the Release some seconds later (`:126`), and no
concurrency group keeps two runs apart. If a newer version is tagged and its Release
published in between, the older one is made the latest after it. A repair that
reads the tags once the newer version is out keeps it (`LateRepairKeepsLatest`, in
`ReleaseSafe`).

## Proofs

Each holds for every value of the constants. The properties named are those the
runs check on small instances.

| Module | Theorem | States |
|---|---|---|
| `ClibProofs` | `Invariance`, `TypeCorrect` | `IInv`, `TypeOK` |
| | `RaceFree`, `HandlesNotReused`, `EnginesApart`, `OwnAnswers` | `NoRegistryRace`, `FreedStaysFreed`, `EnginesNotShared`, `AnswersItsOwnSource` |
| | `LibraryLinearizable` | `Linearizable`: `Clib` implements `HandleTable` |
| `ReleaseProofs` | `Invariance`, `TypeCorrect` | `IInv`, `TypeOK` |
| | `ReleasedTogether`, `GoAfterNpm`, `PublicReleasesComplete` | `TaggedTogether`, `GoTagAfterNpm`, `PublicIsComplete` |
| | `LatestNotTakenBack` | `LateRepairKeepsLatest` |
| `JsonlParserProofs` | `Invariance`, `TypeCorrect`, `StackBounded` | `IInv`, `TypeOK`, `StackByNesting` |
| `LibraryProofs` | `MadeOnce`, `WholeEngine`, `EngineShared` | `DefaultParser`: `IInv`, `ParsesWithAWholeEngine`, `OneEngineForAll` |
| | `BaseCheckExact`, `AgainHarmless` | `PluginInstall`: `BaseCheckIsExact`, `AgainIsHarmless` |
| | `WithheldRightly` | `JsonUnsafe`: `WithheldWithReason` |
| | `StateNests` | `Render`: `StateIsNesting` |
| | `TypesCorrect` | `TypesOK`: the four inductive invariants, and the depth of the walk |
| `PortDepsProofs` | `Invariance`, `PassesOnlyExplained`, `RegisterPins` | `IInv`, `PassesIfExplained`, `RegisterPinsDifferences` |
| `ReadersProofs` | `NpmRead` | `NpmDeps`: `NpmAsInstalled` |
| | `TreeRead` | `TomlTables`: `TreeIsTheDocument` |
| | `CargoRead` | `CargoDeps`: `CargoAsStated` |
| | `HeaderAsGoDoes`, `FilesRead` | `GoHeader`: `IgnoresAsGoDoes`; with `GoImports`: `FilesReadAsGoDoes` |
| | `ModRead`, `GoSeesAll` | `GoDeps`: `ModAsWritten`, `NothingUnseen` |
| `ScriptsProofs` | `EmbedInvariance`, `RefusesBeforeWriting`, `CopiesTrue` | `EmbedTranslate`: `IInv`, `RefusalWritesNothing`, `CopiesAreTrue` |
| | `RecordSettled` | `ValeCounts`: `RecordSettles` |
| | `RewriteRight` | `ValeBlocks`: `RewriteIsRight` |

Few of the safety properties are inductive. What the invariants add, and why:

- `Clib!IInv`: who holds which lock where (`RegHeld`, `MuHeld`), that a handle
  between `nextID++` and the table is the newest and in no other place
  (`FreshHandle`), that an engine on its way into the table is in no handle and on
  no other thread's way (`FreshEngine`), and that a call's locals fit its kind
  (`CallsFit`). Two writers at the registry would both hold `reg`; a freed handle
  could come back only through a new one, and a new one is above all before it; an
  engine holds the source of whoever holds its mutex, and nobody else enters. For
  the refinement, every step but three leaves `HandleTable`'s state alone
  (`PutLoaded`, `Lookup`, `Delete`), and the reply due to a thread is fixed at the one
  that is its own.
- `Release!IInv`: tags appear in order, a run's anchor is a commit of the version it
  read (`AnchorFits`), the Go tag is where the ts tag is (`GoFollowsTs`), crate and
  Release are built from the Go tag (`BuiltFromGoTag`), and the publish script edits
  by what it read of a Release that does not go back (`EditsWhatItRead`).
  `LateRepairKeepsLatest` compares with what the run read: a Release published in
  between may have moved "Latest" higher, and that case is the finding `ReleaseLatest`.
- `JsonlParser!IInv`: the rules on the stack come in threes (`RulesNest`: a value, a
  list or map, an element or pair, below `jsonl` and `record`), and the number of
  threes is the number of brackets read and not closed (`DeepAsBrackets`). One lemma
  goes through the alternates of all the rules and says how each moves both.
- `DefaultParser!IInv`: who is inside `sync.Once` (`OneAtATime`), in which order the
  engine is made (`MadeInOrder`), that there is one (`OneParser`), and that `done`
  is set only after it (`DoneFirst`). `PluginInstall!IInv`: the filter fits the
  alternates (`FilterFits`), which is why a base that passes the check cannot lose
  the JSON alternates when jsonl is applied.
- `JsonUnsafe!IInv`: the stack is a path through the value on which each container
  is once, and the set `onPath` is the keys of it (`StackIsPath`); what was walked is
  clean at every depth (`WalkedIsClean`). A key found on the path is that of the
  container itself, since `PathKey` tells all containers apart, and whatever is on a
  path is within all that is below it: so a cycle is one. A container whose
  children are all clean is clean, for if it were within itself, one of them would
  be within itself too.
- `Render!IInv`: the root marker is at the bottom and nowhere else (`RootIsFirst`),
  and the markers are as many as the brackets written (`StateIsNesting`).
- `PortDeps!IInv`: what a check that passed saw is pinned by the register it passed
  with (`PassedIsPinned`), and the advice at hand is about repos of the org
  (`TodoFits`).
- `EmbedTranslate!IInv`: a run has read the parts before the one it is at and no
  other, and writes only when all were read and accepted (`ReadsThenWrites`); the
  files it has passed hold the texts of its reading (`WrittenAsRead`), which are the
  sources' unless they were edited since (`ReadIsCurrent`).
- `ValeCounts!IInv`: while a rewrite is between its two files, `.vale.ini` already
  holds what was measured (`IniWritten`). A total is a fold over the set of rules, and
  is shown to be the number of hits of all of them, one rule at a time; so a claim
  that was measured is the true one, and rewriting it again changes nothing.
- `ValeBlocks!IInv` adds that nothing moved before the first rewrite. A rewrite puts
  lines in from the bottom up, so where each line of the old file comes to is known
  from the rules below it that had no count (`Spread`): the lines of a block stay
  together, the new line being its last, and what is joined above a rule is what was
  joined before, at other places (`JoinSpreads`). A number in a block is of one rule
  only (`ClaimOfOne`), so no edit undoes another; and a file that is right has no
  edits and nothing to put in (`RightStays`).
- `NpmDeps` needs only that sections hold known keys (`KeysKnown`): the answer is a
  function of the manifest, and each side of `NpmAsInstalled` names the same keys.
- `TomlTables!IInv`: a statement stands where it was stated and what it stated is
  there (`StatedIsThere`), so a second one at its path is refused; every node is on
  the way to a statement or in its value (`NothingElse`), so no table appears by
  itself. The items of an array have the first names, as many as were stated
  (`ItemsInOrder`), the last stated being the last of them (`LastStatedIsLast`), and
  the table assignments go to is in no inline table and in the latest item of each
  array it is below (`CurrentIsOpen`): that is what `UnderLatestItem` needs of a
  statement not yet read. A header's way down and an inline table's fields are
  recursive functions, gone through one key and one field at a time.
- `CargoAsStated` adds no invariant: in each state where the tree is the document's,
  a table that Cargo reads holds exactly the dependencies stated for it, so what
  `readRs` takes from the tree and what the statements say are one set, and a
  dependency is optional on one side when it is on the other.
- `GoHeader!IInv`: while the header lasts the text is comments only, in a block
  comment exactly when `inStar` says so, and `goBuild` is the only constraint of it
  (`TextSoFar`); `end` is the last blank line before what is no line comment
  (`LinesSoFar`). A line that ends the header decides what Go decides, whatever
  would follow. What a piece of text is in depends on the pieces before it only, so
  one more line leaves the account of the others as it was.
- `GoImports!IInv`: opened and closed groups differ by the one the reader is in, and
  the strings read are those reported, in order (`ReadSoFar`): nothing more is needed
  for a damaged file. For a whole one, what is left of it is one of the places of the
  grammar, with the paths that are still to be reported (`WholeSoFar`), and each step
  takes a file from one such place to another: so it is never refused.
- `GoDeps!IInv`: after each line, the open block, the module and the requires are
  what the lines so far say (`ModSoFar`), and every import of the files so far is
  accounted for (`SeenSoFar`). What a line says depends on those above it only
  (`OneMoreLine`), which is why one more line changes nothing that was said.
  `SeenSoFar` speaks of the first longest require, `NothingUnseen` of all that fit:
  a require that every other is a prefix of is the longest (`BestProvides`). Go
  accepts no block within a block; of a go.mod that has one `ModAsWritten` says nothing.

Induction over data is by a least counterexample: `Recursion` proves that a
non-empty set of numbers has a least member from the library's theorem on
well-founded relations, so no operator is passed to a theorem, and defines
a recursive function on an interval from its steps. That is how the lexer's tokens
(`Lex`, a recursive function for this reason), a chain of plugins, and the path of
the walk are gone through. `SelectSeq`, `@@` and filters over tuples are beyond
the provers, and the modules with proofs do without them.

Assumptions: those on the constants, each named in the module that declares them
(`ScriptsProofs`, `LibraryProofs` and `ReadersProofs` take those of their MC
modules). `LinesAreTokens` and `FilesAreKnown` of `GoDeps` say that paths are
sequences of names and not empty, `NoIdIsNoRepo` of `PortFold` that the mark for "no
repo" is none, `ItemsAreNamed`, `KeysAreKeyed` and `ValuesAreValued` of `TomlTables`
that the names of items are distinct and no keys, and that values are scalars or
inline tables of scalars, `LinesOfPieces` of `GoHeader` that lines are made of the
pieces it knows, `LinesAreKnown` and `HitsAreCounts` of `ValeBlocks` that a file's
lines are comments, rules or neither, and that each rule has a count, 0 where Vale
reports none. TLC evaluates all of them in every run.

Only model-checked:

- every liveness property (`CallsReturn`, `Ends`, `HalfReleasesFinish`,
  `EveryCallEnds`, `AdviceConverges`): fairness is out of the prover's reach;
- `LineByLine`, the refinement of the parser: it needs what the parser has built as
  a function of the tokens read;
- `RendersLines`, for the same reason.

## What is left out

- The engine's lexer below tokens, `lex.window` (`rs/src/lib.rs:364`), custom
  options passed to `make`, and error texts.
- `nextID`'s width: 2^63 grammar calls are out of reach.
- In `Release`: looking for a Release and creating it are one step; the darwin late
  attach, the manual dispatches of the two called workflows, `make publish-go` and
  Releases published by hand.
- The crates workflow's rewrite of sibling dependencies to registry versions: text
  handed to cargo once, with no state of its own.
- In port-deps: characters within tokens (a text that does not lex is refused, in
  any state that can meet one), line numbers, and the layout of the report.
- In the prose scripts: the regular expressions that find a claim in a comment, and
  a vocabulary or a guide that is not there.
- In `jsonUnsafe`: which fields of a struct are emitted, nil and empty containers,
  and the recovered panic.
- Transduce, the accessors of the translation parts, and CI, which keep no state.

## Plan

What is left, in order:

1. Proofs: `WholeLines` of `Render`; `JsonlParser` implements `JsonLines`.
2. `Release`: the darwin late attach and the manual dispatches, which publish without
   the release workflow's own checks.
3. `Clib` with a walk of its own (`JsonUnsafe`) in place of a verdict.

## Running

    tlc -workers 2 -config ClibTwo.cfg MCClib.tla
    tlapm ClibProofs.tla

A run takes from a second to three minutes on two cores, the proofs of a module up
to five, those of `ReadersProofs` a quarter of an hour.
