------------------------------- MODULE MCClib -------------------------------
(***************************************************************************)
(* Instances of Clib for TLC.                                              *)
(***************************************************************************)
EXTENDS Clib, TLC

CONSTANTS t1, t2, t3, good, lossy, bad, broken, crash

TwoThreads == {t1, t2}
ThreeThreads == {t1, t2, t3}

\* One text of each kind: its value fits JSON, does not, is rejected, makes
\* the engine report an internal error, makes it panic.
VerdictOf == good :> "value" @@ lossy :> "unsafe" @@ bad :> "reject"
                 @@ broken :> "internal" @@ crash :> "panic"

EveryVerdict == {good, lossy, bad, broken, crash}
GoodOrCrash == {good, crash}

AllVerdicts == [s \in EveryVerdict |-> VerdictOf[s]]
TwoVerdicts == [s \in GoodOrCrash |-> VerdictOf[s]]

AskedTwo == 0 .. 3
AskedSome == {1, 2}
AskedOne == {1}

AnyThread == Permutations(Threads)
=============================================================================
