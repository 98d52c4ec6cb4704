---------------------------- MODULE HandleTable ----------------------------
(***************************************************************************)
(* What the C library promises its callers, with no locks and no engines:  *)
(* a table of live handles that every call reads or changes in one atomic  *)
(* step somewhere between its invocation and its return.  A handle is a    *)
(* number never given out before; a parse under a live handle answers for  *)
(* its own source and nothing else; freeing a handle that is not live does *)
(* nothing.  Clib is checked to implement this specification.              *)
(***************************************************************************)
EXTENDS ClibCalls

VARIABLES
    alive,         \* the live handles
    last,          \* the handle given out last
    op,            \* each thread's call, or Idle
    ans            \* its reply, once the call has taken effect

vars == <<alive, last, op, ans>>

Init ==
    /\ alive = {}
    /\ last = 0
    /\ op = [t \in Threads |-> Idle]
    /\ ans = [t \in Threads |-> NoReply]

Invoke(t) ==
    /\ op[t] = Idle
    /\ \E c \in Calls : op' = [op EXCEPT ![t] = c]
    /\ UNCHANGED <<alive, last, ans>>

InEffect(t, calls) == op[t] \in calls /\ ans[t] = NoReply

Reply(t, r) == ans' = [ans EXCEPT ![t] = r]

\* A call that is wrong in itself touches nothing.
Usage(t) ==
    /\ \/ InEffect(t, GrammarCalls) /\ op[t].opts # "none"
       \/ InEffect(t, BadParseCalls)
    /\ Reply(t, Fail("usage"))
    /\ UNCHANGED <<alive, last, op>>

\* A grammar call hands out the next number, or says the grammar failed.
Grammar(t) ==
    /\ InEffect(t, GrammarCalls)
    /\ op[t].opts = "none"
    /\ \/ /\ last' = last + 1
          /\ alive' = alive \cup {last'}
          /\ Reply(t, Ok("handle", last'))
       \/ /\ Reply(t, Fail("grammar"))
          /\ UNCHANGED <<alive, last>>
    /\ UNCHANGED op

Parse(t) ==
    /\ InEffect(t, ParseCalls)
    /\ Reply(t, IF op[t].handle \in alive
                THEN Answer(Verdict[op[t].src], op[t].src)
                ELSE Fail("handle"))
    /\ UNCHANGED <<alive, last, op>>

Free(t) ==
    /\ InEffect(t, FreeCalls)
    /\ alive' = alive \ {op[t].handle}
    /\ Reply(t, Ok("freed", Nothing))
    /\ UNCHANGED <<last, op>>

Return(t) ==
    /\ ans[t] # NoReply
    /\ op' = [op EXCEPT ![t] = Idle]
    /\ Reply(t, NoReply)
    /\ UNCHANGED <<alive, last>>

Next ==
    \E t \in Threads :
        Invoke(t) \/ Usage(t) \/ Grammar(t) \/ Parse(t) \/ Free(t) \/ Return(t)

Spec == Init /\ [][Next]_vars
=============================================================================
