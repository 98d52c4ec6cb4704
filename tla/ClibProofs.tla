----------------------------- MODULE ClibProofs -----------------------------
(***************************************************************************)
(* Theorems about Clib for any number of threads, sources and instances:   *)
(* the inductive invariant IInv, and the safety properties it gives.       *)
(***************************************************************************)
EXTENDS Clib, TLAPS

(***************************************************************************)
(* A reply that a parse computes is one of the library's replies.          *)
(***************************************************************************)
LEMMA AnswerType ==
    ASSUME NEW v, NEW s \in Sources
    PROVE  Answer(v, s) \in Replies
  BY DEF Answer, Ok, Fail, Replies, Nothing

\* A failure with one of the library's codes is one of its replies.
LEMMA FailType ==
    ASSUME NEW code \in {"", "usage", "grammar", "handle", "internal"}
    PROVE  Fail(code) \in Replies
  BY DEF Fail, Replies, Nothing

\* So is the success of a grammar call, with its handle, or of a free.
LEMMA OkType ==
    /\ \A n \in Nat : Ok("handle", n) \in Replies
    /\ Ok("freed", Nothing) \in Replies
  BY DEF Ok, Replies, Nothing

(***************************************************************************)
(* The arithmetic of the two counters, apart from the steps that use it.   *)
(***************************************************************************)
LEMMA HandleNumbers ==
    ASSUME NEW n \in Nat
    PROVE  /\ n + 1 \in Nat
           /\ n + 1 \in 1 .. (n + 1)
           /\ n + 1 \notin 1 .. n
           /\ 1 .. n \subseteq 1 .. (n + 1)
  OBVIOUS

\* A new engine's number is an instance, and above every engine's so far.
LEMMA EngineNumbers ==
    ASSUME NEW b \in 0 .. MaxInstances, b < MaxInstances
    PROVE  /\ b + 1 \in 0 .. MaxInstances
           /\ b + 1 \in Instances
           /\ \A i \in Instances : i <= b => i <= b + 1 /\ i # b + 1
           /\ b + 1 <= b + 1
  BY MaxInstancesIsNat DEF Instances

\* The library starts with no handle, no engine and no lock held.
LEMMA InitIInv == Init => IInv
  <1> SUFFICES ASSUME Init PROVE IInv
    OBVIOUS
  <1>1. TypeOK
    <2>1. NoReply \in Replies
      BY FailType DEF NoReply
    <2>2. 0 .. MaxInstances \subseteq Int /\ 0 \in 0 .. MaxInstances
      BY MaxInstancesIsNat
    <2>. QED
      BY <2>1, <2>2 DEF Init, TypeOK, LocalsTyped, RegistryTyped, SharedTyped, LocalsFit, Steps, LookupSteps, EngineSteps, FreeSteps,
                        GrammarSteps, Nothing
  <1>2. RegHeld /\ MuHeld /\ FreshHandle /\ FreshEngine
    BY DEF Init, RegHeld, MuHeld, FreshHandle, FreshEngine, HoldsWrite, HoldsRead,
           HoldsMu, AwaitsReaders, Fresh
  <1>3. FreedStaysFreed /\ EnginesNotShared /\ AnswersItsOwnSource
    BY DEF Init, FreedStaysFreed, EnginesNotShared, AnswersItsOwnSource
  <1>4. CallsFit
    BY DEF Init, CallsFit, GrammarSteps
  <1>. QED
    BY <1>1, <1>2, <1>3, <1>4 DEF IInv

(***************************************************************************)
(* Each local keeps its type: what a thread may hold at any statement.     *)
(***************************************************************************)
LEMMA LocalsTypedStep ==
    ASSUME TypeOK, NEW t \in Threads, Begin(t) \/ Acquire(t) \/ Proceed(t)
    PROVE  LocalsTyped'
  <1>. USE DEF TypeOK, LocalsTyped, RegistryTyped, SharedTyped, LocalsFit, At,
               Becomes, locals, registry, locks, Began, Steps, GrammarSteps,
               LookupSteps, EngineSteps, FreeSteps
  <1>1. CASE MisuseBegin(t)
    <2>1. PICK c \in Calls : Began(t, c, "misuse")
      BY <1>1 DEF MisuseBegin, Misused, Calls
    <2>2. arg' \in [Threads -> Calls \cup {Idle}]
      BY <2>1
    <2>3. pc' \in [Threads -> Steps]
      BY <2>1
    <2>. QED
      BY <1>1, <2>2, <2>3 DEF MisuseBegin
  <1>2. CASE GrammarBegin(t)
    <2>1. PICK c \in Calls : Began(t, c, "safeNew")
      BY <1>2 DEF GrammarBegin, Calls
    <2>2. arg' \in [Threads -> Calls \cup {Idle}]
      BY <2>1
    <2>3. pc' \in [Threads -> Steps]
      BY <2>1
    <2>. QED
      BY <1>2, <2>2, <2>3 DEF GrammarBegin
  <1>3. CASE ParseBegin(t)
    <2>1. PICK c \in Calls : Began(t, c, "reg.RLock")
      BY <1>3 DEF ParseBegin, Calls
    <2>2. arg' \in [Threads -> Calls \cup {Idle}]
      BY <2>1
    <2>3. pc' \in [Threads -> Steps]
      BY <2>1
    <2>. QED
      BY <1>3, <2>2, <2>3 DEF ParseBegin
  <1>4. CASE FreeBegin(t)
    <2>1. PICK c \in Calls : Began(t, c, "free reg.Lock")
      BY <1>4 DEF FreeBegin, Calls
    <2>2. arg' \in [Threads -> Calls \cup {Idle}]
      BY <2>1
    <2>3. pc' \in [Threads -> Steps]
      BY <2>1
    <2>. QED
      BY <1>4, <2>2, <2>3 DEF FreeBegin
  <1>5. CASE LoadAnnounce(t)  BY <1>5 DEF LoadAnnounce
  <1>6. CASE LookupLock(t)  BY <1>6 DEF LookupLock
  <1>7. CASE MuLock(t)  BY <1>7 DEF MuLock
  <1>8. CASE FreeAnnounce(t)  BY <1>8 DEF FreeAnnounce
  <1>9. CASE Misuse(t)
    <2>1. reply' \in [Threads -> Replies]
      BY <1>9, FailType DEF Misuse
    <2>. QED
      BY <1>9, <2>1 DEF Misuse
  <1>10. CASE SafeNew(t)
    <2>1. reply' \in [Threads -> Replies]
      BY <1>10, FailType DEF SafeNew
    <2>2. built < MaxInstances => built + 1 \in Instances
      BY EngineNumbers
    <2>3. \/ g' = [g EXCEPT ![t] = built + 1] /\ built < MaxInstances
          \/ g' = g
      BY <1>10 DEF SafeNew
    <2>4. g' \in [Threads -> Instances \cup {Nothing}]
      BY <2>2, <2>3
    <2>5. pc' \in [Threads -> Steps]
      BY <1>10 DEF SafeNew
    <2>. QED
      BY <1>10, <2>1, <2>5, <2>4 DEF SafeNew
  <1>11. CASE LoadLock(t)  BY <1>11 DEF LoadLock
  <1>12. CASE NextID(t)
    <2>1. nextID' \in Nat
      BY <1>12, HandleNumbers DEF NextID
    <2>. QED
      BY <1>12, <2>1 DEF NextID
  <1>13. CASE PutLoaded(t)  BY <1>13 DEF PutLoaded
  <1>14. CASE LoadUnlock(t)
    <2>1. reply' \in [Threads -> Replies]
      BY <1>14, OkType DEF LoadUnlock
    <2>. QED
      BY <1>14, <2>1 DEF LoadUnlock
  <1>15. CASE Lookup(t)  BY <1>15 DEF Lookup
  <1>16. CASE LookupUnlock(t)
    <2>1. reply' \in [Threads -> Replies]
      BY <1>16, FailType DEF LookupUnlock
    <2>. QED
      BY <1>16, <2>1 DEF LookupUnlock
  <1>17. CASE EnterEngine(t)  BY <1>17 DEF EnterEngine
  <1>18. CASE LeaveEngine(t)
    <2>1. g[t] \in Instances
      BY <1>18 DEF LeaveEngine
    <2>2. reply' \in [Threads -> Replies]
      BY <1>18, <2>1, FailType, AnswerType DEF LeaveEngine
    <2>. QED
      BY <1>18, <2>2 DEF LeaveEngine
  <1>19. CASE MuUnlock(t)  BY <1>19 DEF MuUnlock
  <1>20. CASE FreeLock(t)  BY <1>20 DEF FreeLock
  <1>21. CASE Delete(t)  BY <1>21 DEF Delete
  <1>22. CASE FreeUnlock(t)
    <2>1. reply' \in [Threads -> Replies]
      BY <1>22, OkType DEF FreeUnlock
    <2>. QED
      BY <1>22, <2>1 DEF FreeUnlock
  <1>23. CASE ReturnToCaller(t)
    <2>1. reply' \in [Threads -> Replies]
      BY <1>23, FailType DEF ReturnToCaller, NoReply
    <2>2. id' \in [Threads -> Nat]
      BY <1>23 DEF ReturnToCaller, Nothing
    <2>. QED
      BY <1>23, <2>1, <2>2 DEF ReturnToCaller
  <1>. QED
    BY <1>1, <1>2, <1>3, <1>4, <1>5, <1>6, <1>7, <1>8, <1>9, <1>10, <1>11, <1>12,
       <1>13, <1>14, <1>15, <1>16, <1>17, <1>18, <1>19, <1>20, <1>21, <1>22, <1>23
       DEF Begin, Acquire, Proceed

(***************************************************************************)
(* The registry keeps its type: every handle in it, or freed, was issued.  *)
(***************************************************************************)
LEMMA RegistryTypedStep ==
    ASSUME TypeOK, NEW t \in Threads, Begin(t) \/ Acquire(t) \/ Proceed(t)
    PROVE  RegistryTyped'
  <1>. USE DEF TypeOK, LocalsTyped, RegistryTyped, SharedTyped, LocalsFit, At,
               Becomes, locals, registry, locks, Began, Restrict, Steps,
               GrammarSteps, LookupSteps, EngineSteps, FreeSteps
  <1>1. CASE MisuseBegin(t)  BY <1>1 DEF MisuseBegin
  <1>2. CASE GrammarBegin(t)  BY <1>2 DEF GrammarBegin
  <1>3. CASE ParseBegin(t)  BY <1>3 DEF ParseBegin
  <1>4. CASE FreeBegin(t)  BY <1>4 DEF FreeBegin
  <1>5. CASE LoadAnnounce(t)  BY <1>5 DEF LoadAnnounce
  <1>6. CASE LookupLock(t)  BY <1>6 DEF LookupLock
  <1>7. CASE MuLock(t)  BY <1>7 DEF MuLock
  <1>8. CASE FreeAnnounce(t)  BY <1>8 DEF FreeAnnounce
  <1>9. CASE Misuse(t)  BY <1>9 DEF Misuse
  <1>10. CASE SafeNew(t)  BY <1>10 DEF SafeNew
  <1>11. CASE LoadLock(t)  BY <1>11 DEF LoadLock
  <1>12. CASE NextID(t)
    <2>1. nextID' \in Nat /\ 1 .. nextID \subseteq 1 .. nextID'
      BY <1>12, HandleNumbers DEF NextID
    <2>. QED
      BY <1>12, <2>1 DEF NextID
  <1>13. CASE PutLoaded(t)  BY <1>13 DEF PutLoaded
  <1>14. CASE LoadUnlock(t)  BY <1>14 DEF LoadUnlock
  <1>15. CASE Lookup(t)  BY <1>15 DEF Lookup
  <1>16. CASE LookupUnlock(t)  BY <1>16 DEF LookupUnlock
  <1>17. CASE EnterEngine(t)  BY <1>17 DEF EnterEngine
  <1>18. CASE LeaveEngine(t)  BY <1>18 DEF LeaveEngine
  <1>19. CASE MuUnlock(t)  BY <1>19 DEF MuUnlock
  <1>20. CASE FreeLock(t)  BY <1>20 DEF FreeLock
  <1>21. CASE Delete(t)  BY <1>21 DEF Delete
  <1>22. CASE FreeUnlock(t)  BY <1>22 DEF FreeUnlock
  <1>23. CASE ReturnToCaller(t)  BY <1>23 DEF ReturnToCaller
  <1>. QED
    BY <1>1, <1>2, <1>3, <1>4, <1>5, <1>6, <1>7, <1>8, <1>9, <1>10, <1>11, <1>12,
       <1>13, <1>14, <1>15, <1>16, <1>17, <1>18, <1>19, <1>20, <1>21, <1>22, <1>23
       DEF Begin, Acquire, Proceed

(***************************************************************************)
(* The locks, the engines and their count keep their types.                *)
(***************************************************************************)
LEMMA SharedTypedStep ==
    ASSUME TypeOK, NEW t \in Threads, Begin(t) \/ Acquire(t) \/ Proceed(t)
    PROVE  SharedTyped'
  <1>. USE DEF TypeOK, LocalsTyped, RegistryTyped, SharedTyped, LocalsFit, At,
               Becomes, locals, registry, locks, Began, Announce, Unlock, RLock,
               RUnlock, Steps, GrammarSteps, LookupSteps, EngineSteps, FreeSteps
  <1>1. CASE MisuseBegin(t)  BY <1>1 DEF MisuseBegin
  <1>2. CASE GrammarBegin(t)  BY <1>2 DEF GrammarBegin
  <1>3. CASE ParseBegin(t)  BY <1>3 DEF ParseBegin
  <1>4. CASE FreeBegin(t)  BY <1>4 DEF FreeBegin
  <1>5. CASE LoadAnnounce(t)  BY <1>5 DEF LoadAnnounce
  <1>6. CASE LookupLock(t)  BY <1>6 DEF LookupLock
  <1>7. CASE MuLock(t)  BY <1>7 DEF MuLock
  <1>8. CASE FreeAnnounce(t)  BY <1>8 DEF FreeAnnounce
  <1>9. CASE Misuse(t)  BY <1>9 DEF Misuse
  <1>10. CASE SafeNew(t)
    <2>1. built' \in 0 .. MaxInstances
      BY <1>10, EngineNumbers DEF SafeNew
    <2>. QED
      BY <1>10, <2>1 DEF SafeNew
  <1>11. CASE LoadLock(t)  BY <1>11 DEF LoadLock
  <1>12. CASE NextID(t)  BY <1>12 DEF NextID
  <1>13. CASE PutLoaded(t)  BY <1>13 DEF PutLoaded
  <1>14. CASE LoadUnlock(t)  BY <1>14 DEF LoadUnlock
  <1>15. CASE Lookup(t)  BY <1>15 DEF Lookup
  <1>16. CASE LookupUnlock(t)  BY <1>16 DEF LookupUnlock
  <1>17. CASE EnterEngine(t)
    <2>1. arg[t].src \in Sources
      BY <1>17 DEF EnterEngine, ParseCalls
    <2>. QED
      BY <1>17, <2>1 DEF EnterEngine
  <1>18. CASE LeaveEngine(t)  BY <1>18 DEF LeaveEngine
  <1>19. CASE MuUnlock(t)  BY <1>19 DEF MuUnlock
  <1>20. CASE FreeLock(t)  BY <1>20 DEF FreeLock
  <1>21. CASE Delete(t)  BY <1>21 DEF Delete
  <1>22. CASE FreeUnlock(t)  BY <1>22 DEF FreeUnlock
  <1>23. CASE ReturnToCaller(t)  BY <1>23 DEF ReturnToCaller
  <1>. QED
    BY <1>1, <1>2, <1>3, <1>4, <1>5, <1>6, <1>7, <1>8, <1>9, <1>10, <1>11, <1>12,
       <1>13, <1>14, <1>15, <1>16, <1>17, <1>18, <1>19, <1>20, <1>21, <1>22, <1>23
       DEF Begin, Acquire, Proceed

(***************************************************************************)
(* A thread's locals keep fitting the statement it is at.                  *)
(***************************************************************************)
LEMMA LocalsFitStep ==
    ASSUME TypeOK, NEW t \in Threads, Begin(t) \/ Acquire(t) \/ Proceed(t)
    PROVE  LocalsFit'
  <1>. USE DEF TypeOK, LocalsTyped, RegistryTyped, SharedTyped, LocalsFit, At,
               Becomes, locals, registry, locks, Began, Nothing, Steps,
               GrammarSteps, LookupSteps, EngineSteps, FreeSteps
  <1>1. CASE MisuseBegin(t)  BY ZenonT(30), <1>1 DEF MisuseBegin
  <1>2. CASE GrammarBegin(t)  BY ZenonT(30), <1>2 DEF GrammarBegin
  <1>3. CASE ParseBegin(t)  BY ZenonT(30), <1>3 DEF ParseBegin
  <1>4. CASE FreeBegin(t)  BY ZenonT(30), <1>4 DEF FreeBegin
  <1>5. CASE LoadAnnounce(t)  BY <1>5 DEF LoadAnnounce
  <1>6. CASE LookupLock(t)  BY <1>6 DEF LookupLock
  <1>7. CASE MuLock(t)  BY <1>7 DEF MuLock
  <1>8. CASE FreeAnnounce(t)  BY <1>8 DEF FreeAnnounce
  <1>9. CASE Misuse(t)  BY <1>9 DEF Misuse
  <1>10. CASE SafeNew(t)
    <2>2. built < MaxInstances => built + 1 \in Instances
      BY EngineNumbers
    <2>3. CASE pc'[t] = "return"
      BY <1>10, <2>3 DEF SafeNew
    <2>4. CASE pc'[t] # "return"
      <3>1. g' = [g EXCEPT ![t] = built + 1] /\ built < MaxInstances
        BY <1>10, <2>4 DEF SafeNew
      <3>2. g'[t] \in Instances /\ \A u \in Threads : u # t => g'[u] = g[u] /\ pc'[u] = pc[u]
        BY <1>10, <2>2, <3>1 DEF SafeNew
      <3>3. pc'[t] = "reg.Lock" /\ UNCHANGED <<arg, id, nextID>>
        BY <1>10, <2>4 DEF SafeNew
      <3>. QED
        BY <3>2, <3>3
    <2>. QED
      BY <2>3, <2>4
  <1>11. CASE LoadLock(t)  BY <1>11 DEF LoadLock
  <1>12. CASE NextID(t)
    <2>1. nextID' \in Nat /\ nextID' \in 1 .. nextID' /\ 1 .. nextID \subseteq 1 .. nextID'
      BY <1>12, HandleNumbers DEF NextID
    <2>2. id'[t] = nextID' /\ \A u \in Threads : u # t => id'[u] = id[u]
      BY <1>12 DEF NextID
    <2>. QED
      BY <1>12, <2>1, <2>2 DEF NextID
  <1>13. CASE PutLoaded(t)  BY <1>13 DEF PutLoaded
  <1>14. CASE LoadUnlock(t)  BY <1>14 DEF LoadUnlock
  <1>15. CASE Lookup(t)  BY <1>15 DEF Lookup
  <1>16. CASE LookupUnlock(t)  BY ZenonT(30), <1>16 DEF LookupUnlock
  <1>17. CASE EnterEngine(t)  BY <1>17 DEF EnterEngine
  <1>18. CASE LeaveEngine(t)  BY <1>18 DEF LeaveEngine
  <1>19. CASE MuUnlock(t)  BY <1>19 DEF MuUnlock
  <1>20. CASE FreeLock(t)  BY <1>20 DEF FreeLock
  <1>21. CASE Delete(t)  BY <1>21 DEF Delete
  <1>22. CASE FreeUnlock(t)  BY <1>22 DEF FreeUnlock
  <1>23. CASE ReturnToCaller(t)  BY <1>23 DEF ReturnToCaller
  <1>. QED
    BY <1>1, <1>2, <1>3, <1>4, <1>5, <1>6, <1>7, <1>8, <1>9, <1>10, <1>11, <1>12,
       <1>13, <1>14, <1>15, <1>16, <1>17, <1>18, <1>19, <1>20, <1>21, <1>22, <1>23
       DEF Begin, Acquire, Proceed

(***************************************************************************)
(* Whoever is in a critical section of the registry holds reg for it, and  *)
(* a writer that is through shares it with no reader.                      *)
(***************************************************************************)
LEMMA RegStep ==
    ASSUME TypeOK, RegHeld, NEW t \in Threads, Begin(t) \/ Acquire(t) \/ Proceed(t)
    PROVE  RegHeld'
  <1>. USE NoOneIsNoThread DEF TypeOK, LocalsTyped, RegistryTyped, SharedTyped,
                               LocalsFit, RegHeld, At, Becomes, locals, registry,
                               locks, Began, HoldsWrite, HoldsRead, AwaitsReaders,
                               Announce, ReadersGone, RLock, RUnlock, Unlock
  <1>1. CASE MisuseBegin(t)  BY ZenonT(30), <1>1 DEF MisuseBegin
  <1>2. CASE GrammarBegin(t)  BY <1>2 DEF GrammarBegin
  <1>3. CASE ParseBegin(t)  BY ZenonT(30), <1>3 DEF ParseBegin
  <1>4. CASE FreeBegin(t)  BY ZenonT(30), <1>4 DEF FreeBegin
  <1>5. CASE LoadAnnounce(t)  BY <1>5 DEF LoadAnnounce
  <1>6. CASE LookupLock(t)  BY <1>6 DEF LookupLock
  <1>7. CASE MuLock(t)  BY <1>7 DEF MuLock
  <1>8. CASE FreeAnnounce(t)  BY <1>8 DEF FreeAnnounce
  <1>9. CASE Misuse(t)  BY <1>9 DEF Misuse
  <1>10. CASE SafeNew(t)  BY ZenonT(30), <1>10 DEF SafeNew
  <1>11. CASE LoadLock(t)  BY <1>11 DEF LoadLock
  <1>12. CASE NextID(t)  BY <1>12 DEF NextID
  <1>13. CASE PutLoaded(t)  BY <1>13 DEF PutLoaded
  <1>14. CASE LoadUnlock(t)  BY <1>14 DEF LoadUnlock
  <1>15. CASE Lookup(t)  BY <1>15 DEF Lookup
  <1>16. CASE LookupUnlock(t)  BY ZenonT(30), <1>16 DEF LookupUnlock
  <1>17. CASE EnterEngine(t)  BY <1>17 DEF EnterEngine
  <1>18. CASE LeaveEngine(t)  BY <1>18 DEF LeaveEngine
  <1>19. CASE MuUnlock(t)  BY <1>19 DEF MuUnlock
  <1>20. CASE FreeLock(t)  BY <1>20 DEF FreeLock
  <1>21. CASE Delete(t)  BY <1>21 DEF Delete
  <1>22. CASE FreeUnlock(t)  BY <1>22 DEF FreeUnlock
  <1>23. CASE ReturnToCaller(t)  BY <1>23 DEF ReturnToCaller
  <1>. QED
    BY <1>1, <1>2, <1>3, <1>4, <1>5, <1>6, <1>7, <1>8, <1>9, <1>10, <1>11, <1>12,
       <1>13, <1>14, <1>15, <1>16, <1>17, <1>18, <1>19, <1>20, <1>21, <1>22, <1>23
       DEF Begin, Acquire, Proceed

(***************************************************************************)
(* Whoever is between safeParse's call and its mutex's release holds the   *)
(* mutex of its instance, and the engine parses its source.                *)
(***************************************************************************)
LEMMA MuStep ==
    ASSUME TypeOK, MuHeld, NEW t \in Threads, Begin(t) \/ Acquire(t) \/ Proceed(t)
    PROVE  MuHeld'
  <1>. USE NoOneIsNoThread DEF TypeOK, LocalsTyped, RegistryTyped, SharedTyped,
                               LocalsFit, MuHeld, At, Becomes, locals, registry,
                               locks, Began, HoldsMu, EngineSteps
  <1>1. CASE MisuseBegin(t)  BY <1>1 DEF MisuseBegin
  <1>2. CASE GrammarBegin(t)  BY <1>2 DEF GrammarBegin
  <1>3. CASE ParseBegin(t)  BY <1>3 DEF ParseBegin
  <1>4. CASE FreeBegin(t)  BY <1>4 DEF FreeBegin
  <1>5. CASE LoadAnnounce(t)  BY <1>5 DEF LoadAnnounce
  <1>6. CASE LookupLock(t)  BY <1>6 DEF LookupLock
  <1>7. CASE MuLock(t)  BY <1>7 DEF MuLock
  <1>8. CASE FreeAnnounce(t)  BY <1>8 DEF FreeAnnounce
  <1>9. CASE Misuse(t)  BY <1>9 DEF Misuse
  <1>10. CASE SafeNew(t)  BY <1>10 DEF SafeNew
  <1>11. CASE LoadLock(t)  BY <1>11 DEF LoadLock
  <1>12. CASE NextID(t)  BY <1>12 DEF NextID
  <1>13. CASE PutLoaded(t)  BY <1>13 DEF PutLoaded
  <1>14. CASE LoadUnlock(t)  BY <1>14 DEF LoadUnlock
  <1>15. CASE Lookup(t)  BY <1>15 DEF Lookup
  <1>16. CASE LookupUnlock(t)  BY <1>16 DEF LookupUnlock
  <1>17. CASE EnterEngine(t)  BY <1>17 DEF EnterEngine
  <1>18. CASE LeaveEngine(t)  BY <1>18 DEF LeaveEngine
  <1>19. CASE MuUnlock(t)  BY <1>19 DEF MuUnlock
  <1>20. CASE FreeLock(t)  BY <1>20 DEF FreeLock
  <1>21. CASE Delete(t)  BY <1>21 DEF Delete
  <1>22. CASE FreeUnlock(t)  BY <1>22 DEF FreeUnlock
  <1>23. CASE ReturnToCaller(t)  BY <1>23 DEF ReturnToCaller
  <1>. QED
    BY <1>1, <1>2, <1>3, <1>4, <1>5, <1>6, <1>7, <1>8, <1>9, <1>10, <1>11, <1>12,
       <1>13, <1>14, <1>15, <1>16, <1>17, <1>18, <1>19, <1>20, <1>21, <1>22, <1>23
       DEF Begin, Acquire, Proceed

(***************************************************************************)
(* A handle on its way into the table is the newest and in no other place, *)
(* so no freed handle can come back.                                       *)
(***************************************************************************)
LEMMA FreshHandleStep ==
    ASSUME TypeOK, RegHeld, FreshHandle, FreedStaysFreed,
           NEW t \in Threads, Begin(t) \/ Acquire(t) \/ Proceed(t)
    PROVE  (FreshHandle /\ FreedStaysFreed)'
  <1>. USE DEF TypeOK, LocalsTyped, RegistryTyped, SharedTyped, LocalsFit,
               FreshHandle, FreedStaysFreed, RegHeld, HoldsWrite, At, Becomes,
               locals, registry, locks, Began, Restrict
  <1>1. CASE MisuseBegin(t)  BY <1>1 DEF MisuseBegin
  <1>2. CASE GrammarBegin(t)  BY <1>2 DEF GrammarBegin
  <1>3. CASE ParseBegin(t)  BY <1>3 DEF ParseBegin
  <1>4. CASE FreeBegin(t)  BY <1>4 DEF FreeBegin
  <1>5. CASE LoadAnnounce(t)  BY <1>5 DEF LoadAnnounce
  <1>6. CASE LookupLock(t)  BY <1>6 DEF LookupLock
  <1>7. CASE MuLock(t)  BY <1>7 DEF MuLock
  <1>8. CASE FreeAnnounce(t)  BY <1>8 DEF FreeAnnounce
  <1>9. CASE Misuse(t)  BY <1>9 DEF Misuse
  <1>10. CASE SafeNew(t)  BY <1>10 DEF SafeNew
  <1>11. CASE LoadLock(t)  BY <1>11 DEF LoadLock
  <1>12. CASE NextID(t)
    <2>1. nextID' \notin DOMAIN loaded \cup freed
      BY <1>12, HandleNumbers DEF NextID
    <2>2. \A u \in Threads : u # t => pc'[u] # "loaded[id]"
      BY <1>12 DEF NextID
    <2>3. id'[t] = nextID'
      BY <1>12 DEF NextID
    <2>. QED
      BY <1>12, <2>1, <2>2, <2>3 DEF NextID
  <1>13. CASE PutLoaded(t)
    <2>1. DOMAIN loaded' = DOMAIN loaded \cup {nextID} /\ nextID \notin freed
      BY <1>13 DEF PutLoaded
    <2>2. \A u \in Threads : pc'[u] # "loaded[id]"
      BY <1>13 DEF PutLoaded
    <2>3. freed' = freed
      BY <1>13 DEF PutLoaded
    <2>4. (freed \cap DOMAIN loaded)' = {}
      BY <2>1, <2>3
    <2>. QED
      BY <2>2, <2>4
  <1>14. CASE LoadUnlock(t)  BY <1>14 DEF LoadUnlock
  <1>15. CASE Lookup(t)  BY <1>15 DEF Lookup
  <1>16. CASE LookupUnlock(t)  BY <1>16 DEF LookupUnlock
  <1>17. CASE EnterEngine(t)  BY <1>17 DEF EnterEngine
  <1>18. CASE LeaveEngine(t)  BY <1>18 DEF LeaveEngine
  <1>19. CASE MuUnlock(t)  BY <1>19 DEF MuUnlock
  <1>20. CASE FreeLock(t)  BY <1>20 DEF FreeLock
  <1>21. CASE Delete(t)  BY <1>21 DEF Delete
  <1>22. CASE FreeUnlock(t)  BY <1>22 DEF FreeUnlock
  <1>23. CASE ReturnToCaller(t)  BY <1>23 DEF ReturnToCaller
  <1>. QED
    BY <1>1, <1>2, <1>3, <1>4, <1>5, <1>6, <1>7, <1>8, <1>9, <1>10, <1>11, <1>12,
       <1>13, <1>14, <1>15, <1>16, <1>17, <1>18, <1>19, <1>20, <1>21, <1>22, <1>23
       DEF Begin, Acquire, Proceed

(***************************************************************************)
(* SafeNew numbers the new engine above every other.                       *)
(***************************************************************************)
LEMMA SafeNewFresh ==
    ASSUME TypeOK, FreshEngine, EnginesNotShared, NEW t \in Threads, SafeNew(t)
    PROVE  (FreshEngine /\ EnginesNotShared)'
  <1>1. CASE pc'[t] = "return"
    <2>1. /\ pc' = [pc EXCEPT ![t] = "return"]
          /\ g' = g /\ built' = built /\ loaded' = loaded
      BY <1>1 DEF SafeNew, At, TypeOK, LocalsTyped, registry
    <2>2. \A u \in Threads : pc'[u] \in Fresh => pc[u] \in Fresh
      BY <2>1 DEF TypeOK, LocalsTyped, Fresh
    <2>. QED
      BY <2>1, <2>2 DEF FreshEngine, EnginesNotShared
  <1>2. CASE pc'[t] # "return"
    <2>1. /\ built < MaxInstances /\ built' = built + 1
          /\ g' = [g EXCEPT ![t] = built + 1]
          /\ pc' = [pc EXCEPT ![t] = "reg.Lock"] /\ loaded' = loaded
      BY <1>2 DEF SafeNew, At, TypeOK, LocalsTyped, registry
    <2>2. \A i \in Instances : i <= built => i <= built' /\ i # built'
      BY <2>1, EngineNumbers DEF TypeOK, SharedTyped
    <2>3. \A h \in DOMAIN loaded : loaded[h] <= built' /\ loaded[h] # built'
      BY <2>2 DEF TypeOK, RegistryTyped, FreshEngine
    <2>4. \A u \in Threads : u # t => g'[u] = g[u] /\ pc'[u] = pc[u]
      BY <2>1 DEF TypeOK, LocalsTyped
    <2>5. \A u \in Threads : pc[u] \in Fresh => g[u] \in Instances
      BY DEF TypeOK, LocalsFit, GrammarSteps, Fresh
    <2>6. \A u \in Threads : u # t /\ pc'[u] \in Fresh => g'[u] <= built' /\ g'[u] # built'
      BY <2>2, <2>4, <2>5 DEF FreshEngine
    <2>7. g'[t] = built' /\ built' <= built'
      BY <2>1, EngineNumbers DEF TypeOK, LocalsTyped, SharedTyped
    <2>8. FreshEngine'
      <3>1. \A u \in Threads : pc'[u] \in Fresh => g'[u] <= built'
        BY <2>6, <2>7
      <3>2. \A u \in Threads, h \in DOMAIN loaded :
              pc'[u] \in Fresh => loaded[h] # g'[u]
        BY <2>3, <2>4, <2>7 DEF FreshEngine
      <3>3. \A u, v \in Threads :
              u # v /\ pc'[u] \in Fresh /\ pc'[v] \in Fresh => g'[u] # g'[v]
        BY <2>4, <2>6, <2>7 DEF FreshEngine
      <3>. QED
        BY <2>1, <2>3, <3>1, <3>2, <3>3 DEF FreshEngine
    <2>. QED
      BY <2>1, <2>8 DEF EnginesNotShared
  <1>. QED
    BY <1>1, <1>2

(***************************************************************************)
(* PutLoaded hands the engine over: it leaves the thread's hands as it     *)
(* enters the table.                                                       *)
(***************************************************************************)
LEMMA PutLoadedFresh ==
    ASSUME TypeOK, FreshEngine, EnginesNotShared, NEW t \in Threads, PutLoaded(t)
    PROVE  (FreshEngine /\ EnginesNotShared)'
  <1>1. \A h \in DOMAIN loaded' :
          \/ h = id[t] /\ loaded'[h] = g[t]
          \/ h # id[t] /\ h \in DOMAIN loaded /\ loaded'[h] = loaded[h]
    BY DEF PutLoaded
  <1>2. pc[t] \in Fresh /\ UNCHANGED <<g, built>>
    BY DEF PutLoaded, At, Fresh, locals
  <1>3. pc'[t] \notin Fresh /\ \A u \in Threads : u # t => pc'[u] = pc[u]
    BY DEF PutLoaded, At, Fresh, TypeOK, LocalsTyped
  <1>4. (\A h \in DOMAIN loaded : loaded[h] <= built)'
    BY <1>1, <1>2 DEF FreshEngine
  <1>5. \A u \in Threads : pc'[u] \in Fresh => u # t /\ pc[u] \in Fresh
    BY <1>3
  <1>6. \A u \in Threads, h \in DOMAIN loaded' : pc'[u] \in Fresh => loaded'[h] # g[u]
    BY <1>1, <1>2, <1>5 DEF FreshEngine
  <1>7. FreshEngine'
    <2>1. \A u \in Threads : pc'[u] \in Fresh => g[u] <= built
      BY <1>5 DEF FreshEngine
    <2>2. \A u, v \in Threads :
            u # v /\ pc'[u] \in Fresh /\ pc'[v] \in Fresh => g[u] # g[v]
      BY <1>5 DEF FreshEngine
    <2>. QED
      BY <1>2, <1>4, <1>6, <2>1, <2>2 DEF FreshEngine
  <1>8. EnginesNotShared'
    BY <1>1, <1>2 DEF EnginesNotShared, FreshEngine
  <1>. QED
    BY <1>7, <1>8

(***************************************************************************)
(* An engine on its way into the table is in no handle and on no other     *)
(* thread's way, so no two handles share one.                              *)
(***************************************************************************)
LEMMA FreshEngineStep ==
    ASSUME TypeOK, FreshEngine, EnginesNotShared,
           NEW t \in Threads, Begin(t) \/ Acquire(t) \/ Proceed(t)
    PROVE  (FreshEngine /\ EnginesNotShared)'
  <1>. USE DEF TypeOK, LocalsTyped, FreshEngine, EnginesNotShared, Fresh, At,
               Becomes, locals, registry, locks, Began, Restrict
  <1>1. CASE MisuseBegin(t)  BY <1>1 DEF MisuseBegin
  <1>2. CASE GrammarBegin(t)  BY ZenonT(30), <1>2 DEF GrammarBegin
  <1>3. CASE ParseBegin(t)  BY <1>3 DEF ParseBegin
  <1>4. CASE FreeBegin(t)  BY <1>4 DEF FreeBegin
  <1>5. CASE LoadAnnounce(t)  BY <1>5 DEF LoadAnnounce
  <1>6. CASE LookupLock(t)  BY <1>6 DEF LookupLock
  <1>7. CASE MuLock(t)  BY <1>7 DEF MuLock
  <1>8. CASE FreeAnnounce(t)  BY <1>8 DEF FreeAnnounce
  <1>9. CASE Misuse(t)  BY <1>9 DEF Misuse
  <1>10. CASE SafeNew(t)  BY <1>10, SafeNewFresh
  <1>11. CASE LoadLock(t)  BY <1>11 DEF LoadLock
  <1>12. CASE NextID(t)  BY <1>12 DEF NextID
  <1>13. CASE PutLoaded(t)  BY <1>13, PutLoadedFresh
  <1>14. CASE LoadUnlock(t)  BY <1>14 DEF LoadUnlock
  <1>15. CASE Lookup(t)  BY <1>15 DEF Lookup
  <1>16. CASE LookupUnlock(t)  BY ZenonT(30), <1>16 DEF LookupUnlock
  <1>17. CASE EnterEngine(t)  BY <1>17 DEF EnterEngine
  <1>18. CASE LeaveEngine(t)  BY <1>18 DEF LeaveEngine
  <1>19. CASE MuUnlock(t)  BY <1>19 DEF MuUnlock
  <1>20. CASE FreeLock(t)  BY <1>20 DEF FreeLock
  <1>21. CASE Delete(t)  BY ZenonT(30), <1>21 DEF Delete
  <1>22. CASE FreeUnlock(t)  BY <1>22 DEF FreeUnlock
  <1>23. CASE ReturnToCaller(t)  BY <1>23 DEF ReturnToCaller
  <1>. QED
    BY <1>1, <1>2, <1>3, <1>4, <1>5, <1>6, <1>7, <1>8, <1>9, <1>10, <1>11, <1>12,
       <1>13, <1>14, <1>15, <1>16, <1>17, <1>18, <1>19, <1>20, <1>21, <1>22, <1>23
       DEF Begin, Acquire, Proceed

(***************************************************************************)
(* What a parse is about to answer is the engine's verdict on its source.  *)
(***************************************************************************)
LEMMA AnswerStep ==
    ASSUME TypeOK, MuHeld, AnswersItsOwnSource,
           NEW t \in Threads, Begin(t) \/ Acquire(t) \/ Proceed(t)
    PROVE  AnswersItsOwnSource'
  <1>. USE DEF TypeOK, LocalsTyped, RegistryTyped, SharedTyped, LocalsFit, MuHeld,
               AnswersItsOwnSource, HoldsMu, EngineSteps, LookupSteps, At, Becomes,
               locals, registry, locks, Began
  <1>1. CASE MisuseBegin(t)  BY <1>1 DEF MisuseBegin
  <1>2. CASE GrammarBegin(t)  BY <1>2 DEF GrammarBegin
  <1>3. CASE ParseBegin(t)  BY <1>3 DEF ParseBegin
  <1>4. CASE FreeBegin(t)  BY <1>4 DEF FreeBegin
  <1>5. CASE LoadAnnounce(t)  BY <1>5 DEF LoadAnnounce
  <1>6. CASE LookupLock(t)  BY <1>6 DEF LookupLock
  <1>7. CASE MuLock(t)  BY <1>7 DEF MuLock
  <1>8. CASE FreeAnnounce(t)  BY <1>8 DEF FreeAnnounce
  <1>9. CASE Misuse(t)  BY <1>9 DEF Misuse
  <1>10. CASE SafeNew(t)  BY <1>10 DEF SafeNew
  <1>11. CASE LoadLock(t)  BY <1>11 DEF LoadLock
  <1>12. CASE NextID(t)  BY <1>12 DEF NextID
  <1>13. CASE PutLoaded(t)  BY <1>13 DEF PutLoaded
  <1>14. CASE LoadUnlock(t)  BY <1>14 DEF LoadUnlock
  <1>15. CASE Lookup(t)  BY <1>15 DEF Lookup
  <1>16. CASE LookupUnlock(t)  BY <1>16 DEF LookupUnlock
  <1>17. CASE EnterEngine(t)  BY <1>17 DEF EnterEngine
  <1>18. CASE LeaveEngine(t)
    <2>1. engine[g[t]] = arg[t].src /\ arg[t].src \in Sources
      BY <1>18 DEF LeaveEngine, ParseCalls
    <2>2. engine[g[t]] # NoSource
      BY <2>1, NoSourceIsNoSource
    <2>. QED
      BY <1>18, <2>1, <2>2 DEF LeaveEngine
  <1>19. CASE MuUnlock(t)  BY <1>19 DEF MuUnlock
  <1>20. CASE FreeLock(t)  BY <1>20 DEF FreeLock
  <1>21. CASE Delete(t)  BY <1>21 DEF Delete
  <1>22. CASE FreeUnlock(t)  BY <1>22 DEF FreeUnlock
  <1>23. CASE ReturnToCaller(t)  BY <1>23 DEF ReturnToCaller
  <1>. QED
    BY <1>1, <1>2, <1>3, <1>4, <1>5, <1>6, <1>7, <1>8, <1>9, <1>10, <1>11, <1>12,
       <1>13, <1>14, <1>15, <1>16, <1>17, <1>18, <1>19, <1>20, <1>21, <1>22, <1>23
       DEF Begin, Acquire, Proceed

\* Every reply but NoReply says something.
LEMMA RepliesSay ==
    /\ \A v, s : Answer(v, s) # NoReply
    /\ \A about : Ok("handle", about) # NoReply /\ Ok("freed", about) # NoReply
    /\ \A code \in {"usage", "grammar", "handle", "internal"} : Fail(code) # NoReply
  BY DEF Answer, Ok, Fail, NoReply

(***************************************************************************)
(* A call is at its own statements, and has something to return at the end.*)
(***************************************************************************)
LEMMA CallsFitStep ==
    ASSUME TypeOK, CallsFit, AnswersItsOwnSource,
           NEW t \in Threads, Begin(t) \/ Acquire(t) \/ Proceed(t)
    PROVE  CallsFit'
  <1>. USE DEF TypeOK, LocalsTyped, CallsFit, At, Becomes, locals, Began, GrammarSteps
  <1>1. CASE MisuseBegin(t)  BY <1>1 DEF MisuseBegin, Misused
  <1>2. CASE GrammarBegin(t)  BY <1>2 DEF GrammarBegin
  <1>3. CASE ParseBegin(t)  BY <1>3 DEF ParseBegin
  <1>4. CASE FreeBegin(t)  BY <1>4 DEF FreeBegin
  <1>5. CASE LoadAnnounce(t)  BY <1>5 DEF LoadAnnounce
  <1>6. CASE LookupLock(t)  BY <1>6 DEF LookupLock
  <1>7. CASE MuLock(t)  BY <1>7 DEF MuLock
  <1>8. CASE FreeAnnounce(t)  BY <1>8 DEF FreeAnnounce
  <1>9. CASE Misuse(t)  BY <1>9, RepliesSay DEF Misuse
  <1>10. CASE SafeNew(t)  BY <1>10, RepliesSay DEF SafeNew
  <1>11. CASE LoadLock(t)  BY <1>11 DEF LoadLock
  <1>12. CASE NextID(t)  BY <1>12 DEF NextID
  <1>13. CASE PutLoaded(t)  BY <1>13 DEF PutLoaded
  <1>14. CASE LoadUnlock(t)  BY <1>14, RepliesSay DEF LoadUnlock
  <1>15. CASE Lookup(t)  BY <1>15 DEF Lookup
  <1>16. CASE LookupUnlock(t)  BY <1>16, RepliesSay DEF LookupUnlock
  <1>17. CASE EnterEngine(t)  BY <1>17 DEF EnterEngine
  <1>18. CASE LeaveEngine(t)  BY <1>18 DEF LeaveEngine
  <1>19. CASE MuUnlock(t)
    <2>1. reply[t] = Answer(Verdict[arg[t].src], arg[t].src)
      BY <1>19 DEF MuUnlock, AnswersItsOwnSource
    <2>2. reply[t] # NoReply
      BY <2>1, RepliesSay
    <2>. QED
      BY <1>19, <2>2 DEF MuUnlock
  <1>20. CASE FreeLock(t)  BY <1>20 DEF FreeLock
  <1>21. CASE Delete(t)  BY <1>21 DEF Delete
  <1>22. CASE FreeUnlock(t)  BY <1>22, RepliesSay DEF FreeUnlock
  <1>23. CASE ReturnToCaller(t)  BY <1>23 DEF ReturnToCaller
  <1>. QED
    BY <1>1, <1>2, <1>3, <1>4, <1>5, <1>6, <1>7, <1>8, <1>9, <1>10, <1>11, <1>12,
       <1>13, <1>14, <1>15, <1>16, <1>17, <1>18, <1>19, <1>20, <1>21, <1>22, <1>23
       DEF Begin, Acquire, Proceed

(***************************************************************************)
(* Every step keeps the invariant.                                         *)
(***************************************************************************)
LEMMA NextIInv == IInv /\ [Next]_vars => IInv'
  <1> SUFFICES ASSUME IInv, [Next]_vars PROVE IInv'
    OBVIOUS
  <1>1. CASE Next
    <2>1. PICK t \in Threads : Begin(t) \/ Acquire(t) \/ Proceed(t)
      BY <1>1 DEF Next
    <2>2. TypeOK'
      BY <2>1, LocalsTypedStep, RegistryTypedStep, SharedTypedStep, LocalsFitStep
         DEF IInv, TypeOK
    <2>3. RegHeld' /\ MuHeld'
      BY <2>1, RegStep, MuStep DEF IInv
    <2>4. (FreshHandle /\ FreedStaysFreed)'
      BY <2>1, FreshHandleStep DEF IInv
    <2>5. (FreshEngine /\ EnginesNotShared)'
      BY <2>1, FreshEngineStep DEF IInv
    <2>6. AnswersItsOwnSource'
      BY <2>1, AnswerStep DEF IInv
    <2>7. CallsFit'
      BY <2>1, CallsFitStep DEF IInv
    <2>. QED
      BY <2>2, <2>3, <2>4, <2>5, <2>6, <2>7 DEF IInv
  <1>2. CASE UNCHANGED vars
    <2>1. UNCHANGED <<pc, arg, g, id, reply, nextID, loaded, freed, built,
                      writer, readers, mu, engine>>
      BY <1>2 DEF vars, locals, registry, locks
    <2>2. TypeOK'
      BY <2>1 DEF IInv, TypeOK, LocalsTyped, RegistryTyped, SharedTyped, LocalsFit
    <2>3. RegHeld' /\ MuHeld' /\ FreshHandle' /\ FreshEngine'
      BY <2>1 DEF IInv, RegHeld, MuHeld, FreshHandle, FreshEngine
    <2>4. FreedStaysFreed' /\ EnginesNotShared' /\ AnswersItsOwnSource' /\ CallsFit'
      BY <2>1 DEF IInv, FreedStaysFreed, EnginesNotShared, AnswersItsOwnSource, CallsFit
    <2>. QED
      BY <2>2, <2>3, <2>4 DEF IInv
  <1>. QED
    BY <1>1, <1>2

-----------------------------------------------------------------------------
(***************************************************************************)
(* IInv holds of every state the library reaches, however many threads     *)
(* call it and whatever they ask.                                          *)
(***************************************************************************)
THEOREM Invariance == Spec => []IInv
  <1>. QED
    BY InitIInv, NextIInv, PTL DEF Spec

(***************************************************************************)
(* Every variable keeps its type: no thread locks a mutex or enters an     *)
(* engine of the nil instance, which parseWith checks for after its lookup.*)
(***************************************************************************)
THEOREM TypeCorrect == Spec => []TypeOK
  <1>1. IInv => TypeOK
    BY DEF IInv
  <1>. QED
    BY <1>1, Invariance, PTL

(***************************************************************************)
(* The Go map and the counter behind the handles are never written while   *)
(* another thread writes or reads them.                                    *)
(***************************************************************************)
THEOREM RaceFree == Spec => []NoRegistryRace
  <1>1. IInv => NoRegistryRace
    <2> SUFFICES ASSUME IInv, NEW t \in Threads, NEW u \in Threads,
                        t # u, pc[t] \in WritesRegistry
                 PROVE  pc[u] \notin WritesRegistry \cup ReadsRegistry
      BY DEF NoRegistryRace
    <2>1. writer = t /\ readers = {}
      BY DEF IInv, RegHeld, WritesRegistry, HoldsWrite
    <2>2. pc[u] \notin WritesRegistry
      BY <2>1 DEF IInv, RegHeld, WritesRegistry, HoldsWrite
    <2>3. pc[u] \notin ReadsRegistry
      BY <2>1 DEF IInv, RegHeld, ReadsRegistry, HoldsRead
    <2>. QED
      BY <2>2, <2>3
  <1>. QED
    BY <1>1, Invariance, PTL

(***************************************************************************)
(* No handle freeGrammar has taken out of the table ever comes back in.    *)
(***************************************************************************)
THEOREM HandlesNotReused == Spec => []FreedStaysFreed
  <1>1. IInv => FreedStaysFreed
    BY DEF IInv
  <1>. QED
    BY <1>1, Invariance, PTL

(***************************************************************************)
(* Two live handles never stand for one engine, so a mutex per instance is *)
(* a mutex per engine.                                                     *)
(***************************************************************************)
THEOREM EnginesApart == Spec => []EnginesNotShared
  <1>1. IInv => EnginesNotShared
    BY DEF IInv
  <1>. QED
    BY <1>1, Invariance, PTL

(***************************************************************************)
(* A parse answers for its own source, whoever else parses with or frees   *)
(* the handle it was given.                                                *)
(***************************************************************************)
THEOREM OwnAnswers == Spec => []AnswersItsOwnSource
  <1>1. IInv => AnswersItsOwnSource
    BY DEF IInv
  <1>. QED
    BY <1>1, Invariance, PTL

-----------------------------------------------------------------------------
(* The library implements HandleTable.                                     *)

\* What a step of one thread leaves of the others.
LEMMA OthersStay ==
    ASSUME TypeOK, NEW t \in Threads, Begin(t) \/ Acquire(t) \/ Proceed(t),
           NEW u \in Threads, u # t
    PROVE  /\ pc'[u] = pc[u] /\ arg'[u] = arg[u] /\ g'[u] = g[u] /\ id'[u] = id[u]
           /\ reply'[u] = reply[u]
           /\ Due(u)' = Due(u)
  <1>1. /\ pc'[u] = pc[u] /\ arg'[u] = arg[u] /\ g'[u] = g[u] /\ id'[u] = id[u]
        /\ reply'[u] = reply[u]
    <2>. USE DEF TypeOK, LocalsTyped, At, Becomes, Began, locals
    <2>1. CASE Begin(t)
      BY <2>1 DEF Begin, MisuseBegin, GrammarBegin, ParseBegin, FreeBegin
    <2>2. CASE Acquire(t)
      BY <2>2 DEF Acquire, LoadAnnounce, LookupLock, MuLock, FreeAnnounce
    <2>3. CASE Misuse(t) \/ SafeNew(t) \/ LoadLock(t) \/ NextID(t) \/ PutLoaded(t)
               \/ LoadUnlock(t) \/ Lookup(t) \/ LookupUnlock(t)
      BY <2>3 DEF Misuse, SafeNew, LoadLock, NextID, PutLoaded, LoadUnlock, Lookup, LookupUnlock
    <2>4. CASE EnterEngine(t) \/ LeaveEngine(t) \/ MuUnlock(t) \/ FreeLock(t) \/ Delete(t)
               \/ FreeUnlock(t) \/ ReturnToCaller(t)
      BY <2>4 DEF EnterEngine, LeaveEngine, MuUnlock, FreeLock, Delete, FreeUnlock,
         ReturnToCaller
    <2>. QED
      BY <2>1, <2>2, <2>3, <2>4 DEF Proceed
  <1>. QED
    BY <1>1 DEF Due

(***************************************************************************)
(* A thread that has counted its handle, and not stored it yet, is alone   *)
(* in the registry.                                                        *)
(***************************************************************************)
LEMMA OneStoring ==
    ASSUME IInv, NEW t \in Threads, NEW u \in Threads, pc[t] = "loaded[id]",
           pc[u] \in {"nextID++", "loaded[id]"}
    PROVE  u = t
  BY DEF IInv, RegHeld, HoldsWrite

\* Unless a handle is counted or stored, none is issued.
LEMMA IssuedStays ==
    ASSUME TypeOK, NEW t \in Threads, Begin(t) \/ Acquire(t) \/ Proceed(t), nextID' = nextID,
           pc[t] = "loaded[id]" <=> pc'[t] = "loaded[id]"
    PROVE  Issued' = Issued
  <1>1. \A u \in Threads : pc'[u] = "loaded[id]" <=> pc[u] = "loaded[id]"
    BY OthersStay
  <1>. QED
    BY <1>1 DEF Issued

\* HandleTable's replies, as a step of one thread changes them.
Ans == [t \in Threads |-> Due(t)]

\* A step changes the reply of no thread but its own.
LEMMA AnsChanges ==
    ASSUME TypeOK, NEW t \in Threads, Begin(t) \/ Acquire(t) \/ Proceed(t)
    PROVE  /\ Ans' = [Ans EXCEPT ![t] = Due(t)']
           /\ Due(t)' = Due(t) => Ans' = Ans
  <1>1. \A u \in Threads : u # t => Due(u)' = Due(u)
    BY OthersStay
  <1>. QED
    BY <1>1 DEF Ans

\* The steps that HandleTable does not see.
LEMMA Unseen ==
    ASSUME IInv, NEW t \in Threads, Begin(t) \/ Acquire(t) \/ Proceed(t),
           nextID' = nextID, DOMAIN loaded' = DOMAIN loaded, arg' = arg,
           pc[t] = "loaded[id]" <=> pc'[t] = "loaded[id]", Due(t)' = Due(t)
    PROVE  UNCHANGED <<DOMAIN loaded, Issued, arg, Ans>>
  BY IssuedStays, AnsChanges DEF IInv

\* HandleTable's actions, over the library's state.
LEMMA TableActions ==
    ASSUME NEW t \in Threads
    PROVE  /\ arg[t] = Idle /\ (\E c \in Calls : arg' = [arg EXCEPT ![t] = c])
              /\ UNCHANGED <<DOMAIN loaded, Issued, Ans>>
              => Table!Invoke(t)
           /\ arg[t] \in Misused /\ Due(t) = NoReply
              /\ Ans' = [Ans EXCEPT ![t] = Fail("usage")]
              /\ UNCHANGED <<DOMAIN loaded, Issued, arg>>
              => Table!Usage(t)
           /\ arg[t] \in GrammarCalls /\ arg[t].opts = "none" /\ Due(t) = NoReply
              /\ Issued' = Issued + 1 /\ DOMAIN loaded' = DOMAIN loaded \cup {Issued'}
              /\ Ans' = [Ans EXCEPT ![t] = Ok("handle", Issued')]
              /\ UNCHANGED arg
              => Table!Grammar(t)
           /\ arg[t] \in GrammarCalls /\ arg[t].opts = "none" /\ Due(t) = NoReply
              /\ Ans' = [Ans EXCEPT ![t] = Fail("grammar")]
              /\ UNCHANGED <<DOMAIN loaded, Issued, arg>>
              => Table!Grammar(t)
           /\ arg[t] \in ParseCalls /\ Due(t) = NoReply
              /\ Ans' = [Ans EXCEPT ![t] =
                            IF arg[t].handle \in DOMAIN loaded
                            THEN Answer(Verdict[arg[t].src], arg[t].src) ELSE Fail("handle")]
              /\ UNCHANGED <<DOMAIN loaded, Issued, arg>>
              => Table!Parse(t)
           /\ arg[t] \in FreeCalls /\ Due(t) = NoReply
              /\ DOMAIN loaded' = DOMAIN loaded \ {arg[t].handle}
              /\ Ans' = [Ans EXCEPT ![t] = Ok("freed", Nothing)]
              /\ UNCHANGED <<Issued, arg>>
              => Table!Free(t)
           /\ Due(t) # NoReply
              /\ arg' = [arg EXCEPT ![t] = Idle] /\ Ans' = [Ans EXCEPT ![t] = NoReply]
              /\ UNCHANGED <<DOMAIN loaded, Issued>>
              => Table!Return(t)
  <1>1. Ans[t] = Due(t)
    BY DEF Ans
  <1>. USE DEF Table!Reply, Table!InEffect, Table!NoReply, NoReply, Table!Fail, Fail, Table!Ok,
             Ok, Table!Nothing, Nothing, Table!Idle, Idle, Ans
  <1>2. /\ arg[t] = Idle /\ (\E c \in Calls : arg' = [arg EXCEPT ![t] = c])
           /\ UNCHANGED <<DOMAIN loaded, Issued, Ans>>
        => Table!Invoke(t)
    BY DEF Table!Invoke, Calls, GrammarCalls, ParseCalls, BadParseCalls, FreeCalls,
       Table!Calls, Table!GrammarCalls, Table!ParseCalls, Table!BadParseCalls, Table!FreeCalls
  <1>3. /\ arg[t] \in Misused /\ Due(t) = NoReply
           /\ Ans' = [Ans EXCEPT ![t] = Fail("usage")]
           /\ UNCHANGED <<DOMAIN loaded, Issued, arg>>
        => Table!Usage(t)
    BY <1>1 DEF Table!Usage, Misused, GrammarCalls, Table!GrammarCalls, BadParseCalls,
       Table!BadParseCalls
  <1>4. /\ arg[t] \in GrammarCalls /\ arg[t].opts = "none" /\ Due(t) = NoReply
           /\ Issued' = Issued + 1 /\ DOMAIN loaded' = DOMAIN loaded \cup {Issued'}
           /\ Ans' = [Ans EXCEPT ![t] = Ok("handle", Issued')]
           /\ UNCHANGED arg
        => Table!Grammar(t)
    BY <1>1 DEF Table!Grammar, GrammarCalls, Table!GrammarCalls
  <1>5. /\ arg[t] \in GrammarCalls /\ arg[t].opts = "none" /\ Due(t) = NoReply
           /\ Ans' = [Ans EXCEPT ![t] = Fail("grammar")]
           /\ UNCHANGED <<DOMAIN loaded, Issued, arg>>
        => Table!Grammar(t)
    BY <1>1 DEF Table!Grammar, GrammarCalls, Table!GrammarCalls
  <1>6. /\ arg[t] \in ParseCalls /\ Due(t) = NoReply
           /\ Ans' = [Ans EXCEPT ![t] =
                         IF arg[t].handle \in DOMAIN loaded
                         THEN Answer(Verdict[arg[t].src], arg[t].src) ELSE Fail("handle")]
           /\ UNCHANGED <<DOMAIN loaded, Issued, arg>>
        => Table!Parse(t)
    BY <1>1 DEF Table!Parse, ParseCalls, Table!ParseCalls, Answer, Table!Answer
  <1>7. /\ arg[t] \in FreeCalls /\ Due(t) = NoReply
           /\ DOMAIN loaded' = DOMAIN loaded \ {arg[t].handle}
           /\ Ans' = [Ans EXCEPT ![t] = Ok("freed", Nothing)]
           /\ UNCHANGED <<Issued, arg>>
        => Table!Free(t)
    BY <1>1 DEF Table!Free, FreeCalls, Table!FreeCalls
  <1>8. /\ Due(t) # NoReply
           /\ arg' = [arg EXCEPT ![t] = Idle] /\ Ans' = [Ans EXCEPT ![t] = NoReply]
           /\ UNCHANGED <<DOMAIN loaded, Issued>>
        => Table!Return(t)
    BY <1>1 DEF Table!Return
  <1>. QED
    BY <1>2, <1>3, <1>4, <1>5, <1>6, <1>7, <1>8

(***************************************************************************)
(* Each step of the library is one of HandleTable's or none of its: a call *)
(* takes effect where it reads the table, stores its handle or deletes it. *)
(***************************************************************************)
LEMMA StepMaps ==
    ASSUME IInv, NEW t \in Threads, Begin(t) \/ Acquire(t) \/ Proceed(t)
    PROVE  \/ \/ Table!Invoke(t) \/ Table!Usage(t) \/ Table!Grammar(t) \/ Table!Parse(t)
              \/ Table!Free(t) \/ Table!Return(t)
           \/ UNCHANGED <<DOMAIN loaded, Issued, arg, Ans>>
  <1>. DEFINE Does == \/ Table!Invoke(t) \/ Table!Usage(t) \/ Table!Grammar(t) \/ Table!Parse(t)
                      \/ Table!Free(t) \/ Table!Return(t)
              Stutters == UNCHANGED <<DOMAIN loaded, Issued, arg, Ans>>
  <1>0. /\ TypeOK /\ CallsFit /\ AnswersItsOwnSource /\ LocalsFit
        /\ pc \in [Threads -> Steps] /\ arg \in [Threads -> Calls \cup {Idle}]
        /\ g \in [Threads -> Instances \cup {Nothing}] /\ id \in [Threads -> Nat]
        /\ reply \in [Threads -> Replies]
        /\ Ans' = [Ans EXCEPT ![t] = Due(t)'] /\ (Due(t)' = Due(t) => Ans' = Ans)
    BY AnsChanges DEF IInv, TypeOK, LocalsTyped
  <1>. USE DEF At, Becomes, Began, locals, registry, locks
  <1>1. CASE Begin(t)
    <2>1. /\ pc[t] = "idle" /\ pc'[t] \in {"misuse", "safeNew", "reg.RLock", "free reg.Lock"}
          /\ \E c \in Calls : arg' = [arg EXCEPT ![t] = c]
          /\ UNCHANGED <<loaded, nextID>>
      BY <1>0, <1>1 DEF Begin, MisuseBegin, GrammarBegin, ParseBegin, FreeBegin, Misused, Calls
    <2>2. Due(t)' = Due(t)
      BY <2>1 DEF Due, EngineSteps
    <2>3. Issued' = Issued
      BY <1>0, <2>1, IssuedStays
    <2>4. arg[t] = Idle
      BY <1>0, <2>1 DEF CallsFit
    <2>. QED
      BY <1>0, <2>1, <2>2, <2>3, <2>4, TableActions
  <1>2. CASE Acquire(t)
    <2>1. /\ UNCHANGED <<arg, g, id, reply, loaded, nextID>>
          /\ \/ pc[t] = "reg.Lock" /\ pc'[t] = "reg.Lock waits"
             \/ pc[t] = "reg.RLock" /\ pc'[t] = "lookup"
             \/ pc[t] = "mu.Lock" /\ pc'[t] = "safeParse"
             \/ pc[t] = "free reg.Lock" /\ pc'[t] = "free reg.Lock waits"
      BY <1>0, <1>2 DEF Acquire, LoadAnnounce, LookupLock, MuLock, FreeAnnounce
    <2>2. Due(t)' = Due(t)
      BY <2>1 DEF Due, EngineSteps
    <2>. QED
      BY <2>1, <2>2, Unseen
  <1>3. CASE Misuse(t)
    <2>1. /\ pc[t] = "misuse" /\ pc'[t] = "return" /\ reply'[t] = Fail("usage")
          /\ UNCHANGED <<loaded, nextID, arg>>
      BY <1>0, <1>3 DEF Misuse
    <2>2. Due(t) = NoReply /\ Due(t)' = Fail("usage") /\ arg[t] \in Misused
      BY <1>0, <2>1 DEF Due, EngineSteps, CallsFit
    <2>3. Issued' = Issued
      BY <1>0, <2>1, IssuedStays
    <2>. QED
      BY <1>0, <2>1, <2>2, <2>3, TableActions
  <1>4. CASE SafeNew(t)
    <2>1. /\ pc[t] = "safeNew" /\ UNCHANGED <<loaded, nextID, arg>>
          /\ \/ pc'[t] = "reg.Lock"
             \/ pc'[t] = "return" /\ reply'[t] = Fail("grammar")
      BY <1>0, <1>4 DEF SafeNew
    <2>2. Issued' = Issued /\ Due(t) = NoReply
      BY <1>0, <2>1, IssuedStays DEF Due, EngineSteps
    <2>3. CASE pc'[t] = "reg.Lock"
      <3>1. Due(t)' = Due(t)
        BY <2>1, <2>2, <2>3 DEF Due, EngineSteps
      <3>. QED
        BY <2>1, <2>3, <3>1, Unseen
    <2>4. CASE pc'[t] = "return"
      <3>1. Due(t)' = Fail("grammar")
        BY <2>1, <2>4 DEF Due, EngineSteps
      <3>2. arg[t] \in GrammarCalls /\ arg[t].opts = "none"
        BY <1>0, <2>1 DEF CallsFit, GrammarSteps
      <3>. QED
        BY <1>0, <2>1, <2>2, <3>1, <3>2, TableActions
    <2>. QED
      BY <2>1, <2>3, <2>4
  <1>5. CASE NextID(t)
    <2>1. /\ pc[t] = "nextID++" /\ pc'[t] = "loaded[id]" /\ nextID' = nextID + 1
          /\ UNCHANGED <<loaded, arg>> /\ nextID \in Nat
      BY <1>0, <1>5 DEF NextID, TypeOK, RegistryTyped
    <2>2. Due(t)' = Due(t)
      BY <2>1 DEF Due, EngineSteps
    <2>3. \A u \in Threads : pc[u] # "loaded[id]"
      BY <2>1, OneStoring
    <2>4. Issued = nextID /\ Issued' = nextID' - 1
      BY <2>1, <2>3 DEF Issued
    <2>5. Issued' = Issued
      BY <2>1, <2>4
    <2>. QED
      BY <1>0, <2>1, <2>2, <2>5
  <1>6. CASE PutLoaded(t)
    <2>1. /\ pc[t] = "loaded[id]" /\ pc'[t] = "reg.Unlock"
          /\ UNCHANGED <<nextID, arg, id>> /\ nextID \in Nat
          /\ DOMAIN loaded' = DOMAIN loaded \cup {id[t]}
      BY <1>0, <1>6 DEF PutLoaded, TypeOK, RegistryTyped
    <2>2. id[t] = nextID
      BY <2>1 DEF IInv, FreshHandle
    <2>3. Issued = nextID - 1
      BY <2>1 DEF Issued
    <2>4. \A u \in Threads : pc'[u] # "loaded[id]"
      <3>1. \A u \in Threads : u # t => pc[u] # "loaded[id]" /\ pc'[u] = pc[u]
        BY <1>0, <2>1, OneStoring, OthersStay
      <3>. QED
        BY <2>1, <3>1
    <2>5. Issued' = nextID /\ Issued' = Issued + 1
      BY <2>1, <2>3, <2>4 DEF Issued
    <2>6. Due(t) = NoReply /\ Due(t)' = Ok("handle", nextID)
      BY <2>1, <2>2 DEF Due, EngineSteps
    <2>7. arg[t] \in GrammarCalls /\ arg[t].opts = "none"
      BY <1>0, <2>1 DEF CallsFit, GrammarSteps
    <2>. QED
      BY <1>0, <2>1, <2>2, <2>5, <2>6, <2>7, TableActions
  <1>7. CASE LoadLock(t) \/ FreeLock(t) \/ EnterEngine(t)
    <2>1. /\ UNCHANGED <<arg, g, id, reply, loaded, nextID>>
          /\ \/ pc[t] = "reg.Lock waits" /\ pc'[t] = "nextID++"
             \/ pc[t] = "free reg.Lock waits" /\ pc'[t] = "delete"
             \/ pc[t] = "safeParse" /\ pc'[t] = "parsing"
      BY <1>0, <1>7 DEF LoadLock, FreeLock, EnterEngine
    <2>2. Due(t)' = Due(t)
      BY <2>1 DEF Due, EngineSteps
    <2>. QED
      BY <2>1, <2>2, Unseen
  <1>8. CASE LoadUnlock(t) \/ FreeUnlock(t)
    <2>1. /\ UNCHANGED <<arg, loaded, nextID>> /\ pc'[t] = "return"
          /\ \/ pc[t] = "reg.Unlock" /\ reply'[t] = Ok("handle", id[t])
             \/ pc[t] = "free reg.Unlock" /\ reply'[t] = Ok("freed", Nothing)
      BY <1>0, <1>8 DEF LoadUnlock, FreeUnlock
    <2>2. Due(t)' = Due(t)
      BY <2>1 DEF Due, EngineSteps
    <2>. QED
      BY <2>1, <2>2, Unseen
  <1>9. CASE Lookup(t)
    <2>1. /\ pc[t] = "lookup" /\ pc'[t] = "reg.RUnlock" /\ UNCHANGED <<arg, loaded, nextID>>
          /\ g'[t] = IF arg[t].handle \in DOMAIN loaded THEN loaded[arg[t].handle] ELSE Nothing
      BY <1>0, <1>9 DEF Lookup
    <2>2. arg[t] \in ParseCalls
      BY <1>0, <2>1 DEF LocalsFit, LookupSteps
    <2>3. \A h \in DOMAIN loaded : loaded[h] \in Instances /\ loaded[h] # Nothing
      BY <1>0 DEF TypeOK, RegistryTyped, Instances, Nothing
    <2>4. g'[t] = Nothing <=> arg[t].handle \notin DOMAIN loaded
      BY <2>1, <2>3
    <2>5. Due(t) = NoReply
      BY <2>1 DEF Due, EngineSteps
    <2>6. Due(t)' = IF arg[t].handle \in DOMAIN loaded
                    THEN Answer(Verdict[arg[t].src], arg[t].src) ELSE Fail("handle")
      BY <2>1, <2>4 DEF Due, EngineSteps
    <2>7. Issued' = Issued
      BY <1>0, <2>1, IssuedStays
    <2>. QED
      BY <1>0, <2>1, <2>2, <2>5, <2>6, <2>7, TableActions
  <1>10. CASE LookupUnlock(t)
    <2>1. /\ UNCHANGED <<arg, g, loaded, nextID>> /\ pc[t] = "reg.RUnlock"
          /\ IF g[t] = Nothing THEN pc'[t] = "return" /\ reply'[t] = Fail("handle")
                               ELSE pc'[t] = "mu.Lock"
      BY <1>0, <1>10 DEF LookupUnlock
    <2>2. Due(t)' = Due(t)
      BY <2>1 DEF Due, EngineSteps
    <2>. QED
      BY <2>1, <2>2, Unseen
  <1>11. CASE LeaveEngine(t)
    <2>1. /\ UNCHANGED <<arg, g, loaded, nextID>>
          /\ pc[t] = "parsing" /\ pc'[t] = "mu.Unlock"
      BY <1>0, <1>11 DEF LeaveEngine
    <2>2. Due(t)' = Due(t)
      BY <2>1 DEF Due, EngineSteps
    <2>. QED
      BY <2>1, <2>2, Unseen
  <1>12. CASE MuUnlock(t)
    <2>1. /\ UNCHANGED <<arg, g, reply, loaded, nextID>>
          /\ pc[t] = "mu.Unlock" /\ pc'[t] = "return"
      BY <1>0, <1>12 DEF MuUnlock
    <2>2. reply[t] = Answer(Verdict[arg[t].src], arg[t].src) /\ g[t] # Nothing
      BY <1>0, <2>1 DEF AnswersItsOwnSource, LocalsFit, EngineSteps, Instances, Nothing
    <2>3. Due(t)' = Due(t)
      BY <2>1, <2>2 DEF Due, EngineSteps
    <2>. QED
      BY <2>1, <2>3, Unseen
  <1>13. CASE Delete(t)
    <2>1. /\ pc[t] = "delete" /\ pc'[t] = "free reg.Unlock" /\ UNCHANGED <<arg, nextID>>
          /\ DOMAIN loaded' = DOMAIN loaded \ {arg[t].handle}
      BY <1>0, <1>13 DEF Delete, Restrict
    <2>2. Due(t) = NoReply /\ Due(t)' = Ok("freed", Nothing)
      BY <2>1 DEF Due, EngineSteps
    <2>3. arg[t] \in FreeCalls
      BY <1>0, <2>1 DEF LocalsFit, FreeSteps
    <2>4. Issued' = Issued
      BY <1>0, <2>1, IssuedStays
    <2>. QED
      BY <1>0, <2>1, <2>2, <2>3, <2>4, TableActions
  <1>14. CASE ReturnToCaller(t)
    <2>1. /\ pc[t] = "return" /\ pc'[t] = "idle" /\ UNCHANGED <<loaded, nextID>>
          /\ arg' = [arg EXCEPT ![t] = Idle]
      BY <1>0, <1>14 DEF ReturnToCaller
    <2>2. Due(t) # NoReply /\ Due(t)' = NoReply
      BY <1>0, <2>1 DEF Due, EngineSteps, CallsFit
    <2>3. Issued' = Issued
      BY <1>0, <2>1, IssuedStays
    <2>. QED
      BY <1>0, <2>1, <2>2, <2>3, TableActions
  <1>. QED
    BY <1>1, <1>2, <1>3, <1>4, <1>5, <1>6, <1>7, <1>8, <1>9, <1>10, <1>11, <1>12, <1>13, <1>14
    DEF Proceed

(***************************************************************************)
(* The library is linearizable: whatever its threads interleave, its       *)
(* callers see a table in which each call took effect at one moment        *)
(* between its invocation and its return.                                  *)
(***************************************************************************)
THEOREM LibraryLinearizable == Spec => Linearizable
  <1>1. Init => Table!Init
    <2>1. Init => Issued = 0
      BY DEF Init, Issued
    <2>2. Init => \A t \in Threads : Due(t) = NoReply
      BY DEF Init, Due, EngineSteps
    <2>. QED
      BY <2>1, <2>2 DEF Init, Table!Init, Table!Idle, Idle, Table!NoReply, NoReply,
         Table!Fail, Fail, Table!Nothing, Nothing
  <1>2. IInv /\ [Next]_vars => [Table!Next]_Table!vars
    <2>1. ASSUME IInv, Next
          PROVE  [Table!Next]_Table!vars
      <3>1. PICK t \in Threads : Begin(t) \/ Acquire(t) \/ Proceed(t)
        BY <2>1 DEF Next
      <3>. QED
        BY <2>1, <3>1, StepMaps DEF Table!Next, Table!vars, Ans
    <2>2. ASSUME UNCHANGED vars
          PROVE  UNCHANGED Table!vars
      <3>1. UNCHANGED <<pc, arg, g, id, reply, nextID, loaded>>
        BY <2>2 DEF vars, locals, registry
      <3>. QED
        BY <3>1 DEF Table!vars, Due, Issued
    <2>. QED
      BY <2>1, <2>2
  <1>. QED
    BY <1>1, <1>2, Invariance, PTL DEF Spec, Linearizable, Table!Spec
=============================================================================
