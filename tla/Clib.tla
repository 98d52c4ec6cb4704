-------------------------------- MODULE Clib --------------------------------
(***************************************************************************)
(* libtabnasjsonl, the C library: grammars built, parsed with and freed by *)
(* any number of host threads at once.  A registry (`reg', a read-write    *)
(* lock, over `nextID' and `loaded') finds an instance by its handle; each *)
(* instance has a mutex around its engine, which is not safe for more than *)
(* one parse at a time.                                                    *)
(*                                                                         *)
(* One action is one statement that other threads can see: a lock taken,   *)
(* the registry read or written, the engine entered or left, a lock let    *)
(* go.  What a thread does with its own locals goes with the step before.  *)
(***************************************************************************)
EXTENDS ClibCalls, FiniteSets, Functions

CONSTANT MaxInstances      \* bound: the engines ever built

ASSUME MaxInstancesIsNat == MaxInstances \in Nat

VARIABLES
    pc,            \* where each thread is in its call
    arg,           \* the call it makes, or Idle
    g,             \* the instance it has built or found
    id,            \* the handle it has been given
    reply,         \* what it is about to return
    nextID,        \* the last handle issued
    loaded,        \* the instance behind each live handle (a partial map)
    built,         \* how many instances there have been
    writer,        \* who holds reg for writing
    readers,       \* who holds it for reading
    mu,            \* who holds each instance's mutex
    engine,        \* the source each engine is parsing
    freed          \* history: the handles that were live and are no more

registry == <<nextID, loaded, freed>>
locks == <<writer, readers, mu>>
locals == <<arg, g, id, reply>>

vars == <<pc, locals, registry, built, locks, engine>>

Instances == 1 .. MaxInstances

NoOne == "no thread"
NoSource == "no source"

ASSUME NoOneIsNoThread == NoOne \notin Threads
ASSUME NoSourceIsNoSource == NoSource \notin Sources

-----------------------------------------------------------------------------
At(t, here, there) == pc[t] = here /\ pc' = [pc EXCEPT ![t] = there]

Becomes(t, r) == reply' = [reply EXCEPT ![t] = r]

(***************************************************************************)
(* sync.RWMutex, as the library uses it.  Lock first announces itself,     *)
(* which keeps other writers and new readers out, and then waits for the   *)
(* readers that are in.                                                    *)
(***************************************************************************)
Announce(t) == writer = NoOne /\ writer' = t

ReadersGone == readers = {}

Unlock == writer' = NoOne

RLock(t) == writer = NoOne /\ readers' = readers \cup {t}

RUnlock(t) == readers' = readers \ {t}

-----------------------------------------------------------------------------
Init ==
    /\ pc = [t \in Threads |-> "idle"]
    /\ arg = [t \in Threads |-> Idle]
    /\ g = [t \in Threads |-> Nothing]
    /\ id = [t \in Threads |-> Nothing]
    /\ reply = [t \in Threads |-> NoReply]
    /\ nextID = 0
    /\ loaded = [h \in {} |-> Nothing]
    /\ built = 0
    /\ writer = NoOne
    /\ readers = {}
    /\ mu = [i \in Instances |-> NoOne]
    /\ engine = [i \in Instances |-> NoSource]
    /\ freed = {}

(***************************************************************************)
(* A call begins.  goBytes refuses a buffer that is not one, and           *)
(* loadGrammar any options but none, before anything shared is touched.    *)
(***************************************************************************)
Began(t, c, there) ==
    /\ At(t, "idle", there)
    /\ arg' = [arg EXCEPT ![t] = c]

Misused == {k \in GrammarCalls : k.opts # "none"} \cup BadParseCalls

MisuseBegin(t) ==
    /\ \E c \in Misused : Began(t, c, "misuse")
    /\ UNCHANGED <<g, id, reply, registry, built, locks, engine>>

Misuse(t) ==
    /\ At(t, "misuse", "return")
    /\ Becomes(t, Fail("usage"))
    /\ UNCHANGED <<arg, g, id, registry, built, locks, engine>>

GrammarBegin(t) ==
    /\ \E c \in GrammarCalls : c.opts = "none" /\ Began(t, c, "safeNew")
    /\ UNCHANGED <<g, id, reply, registry, built, locks, engine>>

ParseBegin(t) ==
    /\ \E c \in ParseCalls : Began(t, c, "reg.RLock")
    /\ UNCHANGED <<g, id, reply, registry, built, locks, engine>>

FreeBegin(t) ==
    /\ \E c \in FreeCalls : Began(t, c, "free reg.Lock")
    /\ UNCHANGED <<g, id, reply, registry, built, locks, engine>>

-----------------------------------------------------------------------------
(* loadGrammar.                                                            *)

\* Slip: one engine is built and shared by every handle.
SafeNewOnce(t) ==
    /\ At(t, "safeNew", "reg.Lock")
    /\ built < MaxInstances
    /\ built' = 1
    /\ g' = [g EXCEPT ![t] = 1]
    /\ UNCHANGED <<arg, id, reply, registry, locks, engine>>

(***************************************************************************)
(* Construction yields an instance, or panics, which safeNew recovers.     *)
(* Bound: MaxInstances are built; after that every construction fails.     *)
(***************************************************************************)
SafeNew(t) ==
    /\ \/ /\ At(t, "safeNew", "reg.Lock")
          /\ built < MaxInstances
          /\ built' = built + 1
          /\ g' = [g EXCEPT ![t] = built']
          /\ UNCHANGED reply
       \/ /\ At(t, "safeNew", "return")
          /\ Becomes(t, Fail("grammar"))
          /\ UNCHANGED <<g, built>>
    /\ UNCHANGED <<arg, id, registry, locks, engine>>

LoadAnnounce(t) ==
    /\ At(t, "reg.Lock", "reg.Lock waits")
    /\ Announce(t)
    /\ UNCHANGED <<locals, registry, built, readers, mu, engine>>

LoadLock(t) ==
    /\ At(t, "reg.Lock waits", "nextID++")
    /\ ReadersGone
    /\ UNCHANGED <<locals, registry, built, locks, engine>>

\* Slip: the handle is the size of the table and one, so a freed one returns.
NextIDBySize(t) ==
    /\ At(t, "nextID++", "loaded[id]")
    /\ nextID' = Cardinality(DOMAIN loaded) + 1
    /\ id' = [id EXCEPT ![t] = nextID']
    /\ UNCHANGED <<arg, g, reply, loaded, freed, built, locks, engine>>

NextID(t) ==
    /\ At(t, "nextID++", "loaded[id]")
    /\ nextID' = nextID + 1
    /\ id' = [id EXCEPT ![t] = nextID']
    /\ UNCHANGED <<arg, g, reply, loaded, freed, built, locks, engine>>

PutLoaded(t) ==
    /\ At(t, "loaded[id]", "reg.Unlock")
    /\ loaded' = [h \in DOMAIN loaded \cup {id[t]} |->
                     IF h = id[t] THEN g[t] ELSE loaded[h]]
    /\ UNCHANGED <<locals, nextID, freed, built, locks, engine>>

LoadUnlock(t) ==
    /\ At(t, "reg.Unlock", "return")
    /\ Unlock
    /\ Becomes(t, Ok("handle", id[t]))
    /\ UNCHANGED <<arg, g, id, registry, built, readers, mu, engine>>

-----------------------------------------------------------------------------
(* parseWith.                                                              *)

LookupLock(t) ==
    /\ At(t, "reg.RLock", "lookup")
    /\ RLock(t)
    /\ UNCHANGED <<locals, registry, built, writer, mu, engine>>

\* A missing key of the map is the nil instance.
Lookup(t) ==
    /\ At(t, "lookup", "reg.RUnlock")
    /\ LET h == arg[t].handle
       IN  g' = [g EXCEPT ![t] = IF h \in DOMAIN loaded THEN loaded[h] ELSE Nothing]
    /\ UNCHANGED <<arg, id, reply, registry, built, locks, engine>>

\* Slip: the missing instance is not checked for.
LookupUnlockUnchecked(t) ==
    /\ RUnlock(t)
    /\ At(t, "reg.RUnlock", "mu.Lock")
    /\ UNCHANGED <<locals, registry, built, writer, mu, engine>>

LookupUnlock(t) ==
    /\ RUnlock(t)
    /\ IF g[t] = Nothing
       THEN At(t, "reg.RUnlock", "return") /\ Becomes(t, Fail("handle"))
       ELSE At(t, "reg.RUnlock", "mu.Lock") /\ UNCHANGED reply
    /\ UNCHANGED <<arg, g, id, registry, built, writer, mu, engine>>

\* Slip: the instance's mutex is not taken.
MuLockSkipped(t) ==
    /\ At(t, "mu.Lock", "safeParse")
    /\ UNCHANGED <<locals, registry, built, locks, engine>>

MuLock(t) ==
    /\ At(t, "mu.Lock", "safeParse")
    /\ mu[g[t]] = NoOne
    /\ mu' = [mu EXCEPT ![g[t]] = t]
    /\ UNCHANGED <<locals, registry, built, writer, readers, engine>>

EnterEngine(t) ==
    /\ At(t, "safeParse", "parsing")
    /\ engine' = [engine EXCEPT ![g[t]] = arg[t].src]
    /\ UNCHANGED <<locals, registry, built, locks>>

\* Slip: an instance that panicked is dropped from the registry.
LeaveEngineEvicts(t) ==
    /\ At(t, "parsing", "mu.Unlock")
    /\ LET src == engine[g[t]]
       IN  /\ Becomes(t, IF src = NoSource THEN Fail("internal")
                                            ELSE Answer(Verdict[src], src))
           /\ loaded' = IF src # NoSource /\ Verdict[src] = "panic"
                        THEN Restrict(loaded, DOMAIN loaded \ {arg[t].handle})
                        ELSE loaded
    /\ engine' = [engine EXCEPT ![g[t]] = NoSource]
    /\ UNCHANGED <<arg, g, id, nextID, freed, built, locks>>

(***************************************************************************)
(* The engine answers for the source it holds.  A panic out of it is       *)
(* recovered inside safeParse, so the mutex is let go whatever happens.    *)
(***************************************************************************)
LeaveEngine(t) ==
    /\ At(t, "parsing", "mu.Unlock")
    /\ LET src == engine[g[t]]
       IN  Becomes(t, IF src = NoSource THEN Fail("internal")
                                        ELSE Answer(Verdict[src], src))
    /\ engine' = [engine EXCEPT ![g[t]] = NoSource]
    /\ UNCHANGED <<arg, g, id, registry, built, locks>>

MuUnlock(t) ==
    /\ At(t, "mu.Unlock", "return")
    /\ mu' = [mu EXCEPT ![g[t]] = NoOne]
    /\ UNCHANGED <<locals, registry, built, writer, readers, engine>>

-----------------------------------------------------------------------------
(* freeGrammar.                                                            *)

\* Slip: freeing takes the lock for reading only.
FreeAnnounceShared(t) ==
    /\ At(t, "free reg.Lock", "delete")
    /\ RLock(t)
    /\ UNCHANGED <<locals, registry, built, writer, mu, engine>>

\* Slip: freeing tries for the lock and tries again, and never queues for it.
FreeAnnounceTries(t) ==
    /\ At(t, "free reg.Lock", "delete")
    /\ Announce(t)
    /\ ReadersGone
    /\ UNCHANGED <<locals, registry, built, readers, mu, engine>>

FreeAnnounce(t) ==
    /\ At(t, "free reg.Lock", "free reg.Lock waits")
    /\ Announce(t)
    /\ UNCHANGED <<locals, registry, built, readers, mu, engine>>

FreeLock(t) ==
    /\ At(t, "free reg.Lock waits", "delete")
    /\ ReadersGone
    /\ UNCHANGED <<locals, registry, built, locks, engine>>

\* Deleting a key that is not in the map changes nothing.
Delete(t) ==
    /\ At(t, "delete", "free reg.Unlock")
    /\ LET h == arg[t].handle
       IN  /\ loaded' = Restrict(loaded, DOMAIN loaded \ {h})
           /\ freed' = freed \cup ({h} \cap DOMAIN loaded)
    /\ UNCHANGED <<locals, nextID, built, locks, engine>>

FreeUnlock(t) ==
    /\ At(t, "free reg.Unlock", "return")
    /\ Unlock
    /\ Becomes(t, Ok("freed", Nothing))
    /\ UNCHANGED <<arg, g, id, registry, built, readers, mu, engine>>

-----------------------------------------------------------------------------
ReturnToCaller(t) ==
    /\ At(t, "return", "idle")
    /\ arg' = [arg EXCEPT ![t] = Idle]
    /\ Becomes(t, NoReply)
    /\ g' = [g EXCEPT ![t] = Nothing]
    /\ id' = [id EXCEPT ![t] = Nothing]
    /\ UNCHANGED <<registry, built, locks, engine>>

Begin(t) == MisuseBegin(t) \/ GrammarBegin(t) \/ ParseBegin(t) \/ FreeBegin(t)

Acquire(t) == LoadAnnounce(t) \/ LookupLock(t) \/ MuLock(t) \/ FreeAnnounce(t)

Proceed(t) ==
    \/ Misuse(t)
    \/ SafeNew(t) \/ LoadLock(t) \/ NextID(t) \/ PutLoaded(t) \/ LoadUnlock(t)
    \/ Lookup(t) \/ LookupUnlock(t) \/ EnterEngine(t) \/ LeaveEngine(t) \/ MuUnlock(t)
    \/ FreeLock(t) \/ Delete(t) \/ FreeUnlock(t)
    \/ ReturnToCaller(t)

Next == \E t \in Threads : Begin(t) \/ Acquire(t) \/ Proceed(t)

Spec == Init /\ [][Next]_vars

(***************************************************************************)
(* A thread keeps running, and one that waits for a mutex, or to read or   *)
(* to announce itself to reg, is let in if it is free again and again:     *)
(* Go's locks rule out starvation.  Nothing makes a host call.             *)
(***************************************************************************)
FairSpec ==
    Spec /\ \A t \in Threads : WF_vars(Proceed(t)) /\ SF_vars(Acquire(t))

-----------------------------------------------------------------------------
(* Properties.                                                             *)

GrammarSteps ==
    {"safeNew", "reg.Lock", "reg.Lock waits", "nextID++", "loaded[id]", "reg.Unlock"}
LookupSteps == {"reg.RLock", "lookup", "reg.RUnlock"}
EngineSteps == {"mu.Lock", "safeParse", "parsing", "mu.Unlock"}
FreeSteps == {"free reg.Lock", "free reg.Lock waits", "delete", "free reg.Unlock"}

Steps == {"idle", "misuse", "return"}
             \cup GrammarSteps \cup LookupSteps \cup EngineSteps \cup FreeSteps

Replies == [ok : BOOLEAN,
            say : {"", "usage", "grammar", "handle", "internal", "freed",
                   "accept, value", "accept, valueError", "not accepted"},
            about : Nat \cup Sources]

(***************************************************************************)
(* Every variable has its type; each local belongs to the call being made, *)
(* and a thread about to lock or to parse has an instance to do it with.   *)
(***************************************************************************)
LocalsTyped ==
    /\ pc \in [Threads -> Steps]
    /\ arg \in [Threads -> Calls \cup {Idle}]
    /\ g \in [Threads -> Instances \cup {Nothing}]
    /\ id \in [Threads -> Nat]
    /\ reply \in [Threads -> Replies]

RegistryTyped ==
    /\ nextID \in Nat
    /\ DOMAIN loaded \subseteq 1 .. nextID
    /\ loaded \in [DOMAIN loaded -> Instances]
    /\ freed \subseteq 1 .. nextID

SharedTyped ==
    /\ built \in 0 .. MaxInstances
    /\ writer \in Threads \cup {NoOne}
    /\ readers \subseteq Threads
    /\ mu \in [Instances -> Threads \cup {NoOne}]
    /\ engine \in [Instances -> Sources \cup {NoSource}]

LocalsFit ==
    \A t \in Threads :
        /\ pc[t] \in LookupSteps \cup EngineSteps => arg[t] \in ParseCalls
        /\ pc[t] \in FreeSteps => arg[t] \in FreeCalls
        /\ pc[t] \in (GrammarSteps \ {"safeNew"}) \cup EngineSteps => g[t] \in Instances
        /\ pc[t] \in {"loaded[id]", "reg.Unlock"} => id[t] \in 1 .. nextID

TypeOK == LocalsTyped /\ RegistryTyped /\ SharedTyped /\ LocalsFit

(***************************************************************************)
(* While one thread is at a statement that writes the registry, no other   *)
(* is at one that reads or writes it: a Go map and a Go counter shared     *)
(* without that are a data race.                                           *)
(***************************************************************************)
WritesRegistry == {"nextID++", "loaded[id]", "delete"}

ReadsRegistry == {"lookup"}

NoRegistryRace ==
    \A t, u \in Threads :
        t # u /\ pc[t] \in WritesRegistry => pc[u] \notin WritesRegistry \cup ReadsRegistry

(***************************************************************************)
(* A handle that has been freed never names a parser again, so a host that *)
(* kept a stale one is told so and never parses with someone else's        *)
(* instance.                                                               *)
(***************************************************************************)
FreedStaysFreed == freed \cap DOMAIN loaded = {}

\* No two handles share an engine, whoever was building at the same time.
EnginesNotShared ==
    \A h, k \in DOMAIN loaded : h # k => loaded[h] # loaded[k]

(***************************************************************************)
(* What a parse answers is what the engine makes of its own source, though *)
(* other threads parse other sources with the same handle, or free it,     *)
(* meanwhile.                                                              *)
(***************************************************************************)
AnswersItsOwnSource ==
    \A t \in Threads :
        pc[t] = "mu.Unlock" => reply[t] = Answer(Verdict[arg[t].src], arg[t].src)

(***************************************************************************)
(* The inductive invariant behind these.  A thread inside a critical       *)
(* section holds its lock; a handle or an engine on its way into the table *)
(* is in no other place; an engine holds the source of the thread that     *)
(* holds its mutex.                                                        *)
(***************************************************************************)
HoldsWrite == {"nextID++", "loaded[id]", "reg.Unlock", "delete", "free reg.Unlock"}

HoldsRead == {"lookup", "reg.RUnlock"}

HoldsMu == {"safeParse", "parsing", "mu.Unlock"}

AwaitsReaders == {"reg.Lock waits", "free reg.Lock waits"}

RegHeld ==
    \A t \in Threads : /\ pc[t] \in HoldsWrite \cup AwaitsReaders => writer = t
                       /\ pc[t] \in HoldsWrite => readers = {}
                       /\ pc[t] \in HoldsRead => t \in readers

MuHeld ==
    \A t \in Threads : /\ pc[t] \in HoldsMu => mu[g[t]] = t
                       /\ pc[t] = "parsing" => engine[g[t]] = arg[t].src

FreshHandle ==
    \A t \in Threads :
        pc[t] = "loaded[id]" => id[t] = nextID /\ nextID \notin DOMAIN loaded \cup freed

Fresh == {"reg.Lock", "reg.Lock waits", "nextID++", "loaded[id]"}

FreshEngine ==
    /\ \A h \in DOMAIN loaded : loaded[h] <= built
    /\ \A t \in Threads : pc[t] \in Fresh =>
          /\ g[t] <= built
          /\ \A h \in DOMAIN loaded : loaded[h] # g[t]
          /\ \A u \in Threads : u # t /\ pc[u] \in Fresh => g[u] # g[t]

\* A thread is at a statement of the call it makes, and returns a reply.
CallsFit ==
    \A t \in Threads :
        /\ pc[t] = "idle" => arg[t] = Idle
        /\ pc[t] = "misuse" => arg[t] \in Misused
        /\ pc[t] \in GrammarSteps => arg[t] \in GrammarCalls /\ arg[t].opts = "none"
        /\ pc[t] = "return" => reply[t] # NoReply

IInv ==
    /\ TypeOK
    /\ CallsFit
    /\ RegHeld
    /\ MuHeld
    /\ FreshHandle
    /\ FreshEngine
    /\ FreedStaysFreed
    /\ EnginesNotShared
    /\ AnswersItsOwnSource

(***************************************************************************)
(* The library is linearizable: it implements HandleTable, each call       *)
(* taking effect at the statement that reads or writes the registry.       *)
(***************************************************************************)
Due(t) ==
    CASE pc[t] = "reg.Unlock" -> Ok("handle", id[t])
      [] pc[t] \in {"reg.RUnlock"} \cup EngineSteps ->
             IF g[t] = Nothing THEN Fail("handle")
                               ELSE Answer(Verdict[arg[t].src], arg[t].src)
      [] pc[t] = "free reg.Unlock" -> Ok("freed", Nothing)
      [] pc[t] = "return" -> reply[t]
      [] OTHER -> NoReply

Issued == IF \E t \in Threads : pc[t] = "loaded[id]" THEN nextID - 1 ELSE nextID

Table == INSTANCE HandleTable
             WITH alive <- DOMAIN loaded,
                  last <- Issued,
                  op <- arg,
                  ans <- [t \in Threads |-> Due(t)]

Linearizable == Table!Spec

(***************************************************************************)
(* Every call returns: no lock is left held by a call that failed, panicked*)
(* or found nothing, and no order of calls leaves threads waiting on each  *)
(* other.                                                                  *)
(***************************************************************************)
CallsReturn == \A t \in Threads : pc[t] # "idle" ~> pc[t] = "idle"
=============================================================================
