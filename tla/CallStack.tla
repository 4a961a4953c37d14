------------------------------ MODULE CallStack ------------------------------
(***************************************************************************)
(* Threads that call the operations of voice objects, and callbacks that   *)
(* call back in.  A frame is one operation in progress: what it is (`fn`), *)
(* the lock or the callback it waits for (`at`), and its local values.     *)
(* Who holds an object's lock can be read off the stacks: every thread     *)
(* with a frame of that object past its "lock".                            *)
(***************************************************************************)
EXTENDS Naturals, Sequences, FiniteSets

CONSTANTS Threads,   \* threads of the process
          MaxDepth,  \* operations nested on one thread
          MaxCalls   \* operations ever called

ASSUME StackAssumption == MaxDepth \in Nat \ {0} /\ MaxCalls \in Nat

VARIABLES stack,   \* frames of each thread, outermost first
          value,   \* what the operation just ended returned to the frame below
          calls    \* operations called so far

stackVars == <<stack, value, calls>>
None == "none"
NoArg == [none |-> TRUE]

Top(t) == stack[t][Len(stack[t])]
At(t, fn, at) == stack[t] # <<>> /\ Top(t).fn = fn /\ Top(t).at = at
Frame(fn, at, arg) == [fn |-> fn, at |-> at, arg |-> arg, nested |-> FALSE]

\* Threads inside an object whose operations are fns.
Inside(fns) == {t \in Threads : \E i \in DOMAIN stack[t] :
                                   stack[t][i].fn \in fns /\ stack[t][i].at # "lock"}

Replace(t, frame) == stack' = [stack EXCEPT ![t] = Append(SubSeq(@, 1, Len(@) - 1), frame)]
Goto(t, at, arg) == /\ Replace(t, [Top(t) EXCEPT !.at = at, !.arg = arg, !.nested = FALSE])
                    /\ value' = [value EXCEPT ![t] = None] /\ UNCHANGED calls

\* Ends the operation: the frame below, if it waits for the result, takes it.
Return(t, v) ==
    /\ stack' = [stack EXCEPT ![t] = SubSeq(@, 1, Len(@) - 1)]
    /\ value' = [value EXCEPT ![t] =
          IF Len(stack[t]) > 1 /\ stack[t][Len(stack[t]) - 1].at = "result" THEN v ELSE None]
    /\ UNCHANGED calls

\* The operation itself calls another one and waits for its result.
Await(t, frame, arg) ==
    /\ stack' = [stack EXCEPT ![t] =
          Append(Append(SubSeq(@, 1, Len(@) - 1), [Top(t) EXCEPT !.at = "result", !.arg = arg]),
                 frame)]
    /\ UNCHANGED <<value, calls>>

\* A thread calls an operation from outside, or from the callback in progress
\* (each callback calls back once at most).
Call(t, fn, arg) ==
    /\ calls < MaxCalls /\ Len(stack[t]) < MaxDepth
    /\ stack[t] # <<>> => Top(t).at \notin {"lock", "result"} /\ ~Top(t).nested
    /\ stack' = [stack EXCEPT ![t] =
          Append(IF @ = <<>> THEN @ ELSE [@ EXCEPT ![Len(@)].nested = TRUE],
                 Frame(fn, "lock", arg))]
    /\ calls' = calls + 1 /\ UNCHANGED value
=============================================================================
