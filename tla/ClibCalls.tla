----------------------------- MODULE ClibCalls -----------------------------
(***************************************************************************)
(* The calls a host makes to libtabnasjsonl and the replies it gets: the   *)
(* vocabulary HandleTable and Clib share.                                  *)
(***************************************************************************)
EXTENDS Integers

CONSTANTS
    Threads,       \* the host's threads
    Sources,       \* the texts they ask about
    Verdict,       \* what the engine makes of each of them
    Asked          \* the handles they pass: any number, given out or not

Verdicts == {"value", "unsafe", "reject", "internal", "panic"}

ASSUME VerdictOfEverySource == Verdict \in [Sources -> Verdicts]
ASSUME AskedAreNumbers == Asked \subseteq Int

Nothing == 0

(***************************************************************************)
(* A buffer that is not one (a negative length, or NULL with a length)     *)
(* reaches no parser; neither do options other than an empty object.       *)
(***************************************************************************)
GrammarCalls == [call : {"grammar"}, opts : {"none", "members", "malformed", "badbuffer"}]
ParseCalls == [call : {"parse"}, handle : Asked, src : Sources]
BadParseCalls == [call : {"badparse"}, handle : Asked]
FreeCalls == [call : {"free"}, handle : Asked]

Calls == GrammarCalls \cup ParseCalls \cup BadParseCalls \cup FreeCalls

Idle == [call |-> "idle"]

\* A reply document: ok:false with a code, or ok:true with what was asked.
Fail(code) == [ok |-> FALSE, say |-> code, about |-> Nothing]
Ok(say, about) == [ok |-> TRUE, say |-> say, about |-> about]

NoReply == Fail("")

(***************************************************************************)
(* A rejected source is an answer (ok:true, accept:false); ok:false says   *)
(* the call itself was wrong or the engine broke.  The value goes with the *)
(* answer unless JSON would corrupt it.                                    *)
(***************************************************************************)
Answer(verdict, src) ==
    CASE verdict = "value"  -> Ok("accept, value", src)
      [] verdict = "unsafe" -> Ok("accept, valueError", src)
      [] verdict = "reject" -> Ok("not accepted", src)
      [] OTHER              -> Fail("internal")
=============================================================================
