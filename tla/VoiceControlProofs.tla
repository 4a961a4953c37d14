------------------------- MODULE VoiceControlProofs -------------------------
(***************************************************************************)
(* Proofs about the voice controls, for any number of threads' calls,      *)
(* request IDs, tokens, windows and servers.                               *)
(***************************************************************************)
EXTENDS VoiceControl, TLAPS

-----------------------------------------------------------------------------
(* The endpoint *)

\* A server works under the directory's lock from taking it to releasing it, but a
\* closing one that was refused has it not; what it made is at the path until it
\* unlinks it.
Holding == {"locked", "absent", "bound", "identified", "listening"}
Phases == Holding \cup {"closed", "closing", "unlinked"}

EndpointInv ==
    /\ srv \in [Servers -> Phases]
    /\ identity \subseteq Servers
    /\ \A s \in Servers :
          /\ srv[s] \in Holding => dirLock = s
          /\ srv[s] = "bound" => endpoint = s
          /\ s \in identity => dirLock = s /\ srv[s] \in {"identified", "listening", "closing", "unlinked"}
          /\ s \in identity /\ srv[s] # "unlinked" => endpoint = s
          /\ srv[s] \in {"identified", "listening"} => s \in identity

\* No server runs and no socket file exists at first.
LEMMA EndpointStarts == Init => EndpointInv
<1>1. ASSUME AllDown PROVE EndpointInv
  BY <1>1 DEF AllDown, Down, EndpointInv, Holding, Phases
<1>2. ASSUME NEW s \in Servers, ListeningAlone(s) PROVE EndpointInv
  BY <1>2 DEF ListeningAlone, Down, EndpointInv, Holding, Phases
<1>3. (CHOOSE s \in Servers : TRUE) \in Servers
  BY ServerAssumption
<1>4. QED BY <1>1, <1>2, <1>3 DEF Init

\* Every step of a server keeps the endpoint its own.
LEMMA EndpointKeeps == EndpointInv /\ EndpointStep => EndpointInv'
<1> SUFFICES ASSUME EndpointInv, EndpointStep PROVE EndpointInv'
  OBVIOUS
<1>1. ASSUME NEW s \in Servers, NEW ok \in BOOLEAN,
             \/ TakeDirectory(s) \/ Probe(s) \/ Close(s) \/ Bind(s, ok) \/ Identify(s, ok) \/ Listen(s, ok)
      PROVE EndpointInv'
  BY <1>1, ServerAssumption
     DEF TakeDirectory, Probe, Close, Bind, Identify, Listen, Moves, EndpointInv, Holding, Phases
<1>2. ASSUME NEW s \in Servers, CloseUnlinks(s) PROVE EndpointInv'
  BY <1>2, ServerAssumption DEF CloseUnlinks, Removes, Moves, EndpointInv, Holding, Phases
<1>3. ASSUME NEW s \in Servers, CloseReleases(s) \/ ServerDies(s) PROVE EndpointInv'
  BY <1>3, ServerAssumption DEF CloseReleases, ServerDies, Forget, Moves, EndpointInv, Holding,
     Phases
<1>4. CASE EndpointCleared
  BY <1>4 DEF EndpointCleared, Down, EndpointInv, Holding, Phases
<1>5. QED BY <1>1, <1>2, <1>3, <1>4 DEF EndpointStep

\* One server listens at a time and the endpoint a client finds is its own,
\* whatever the others do over the same directory (control.py start and close).
THEOREM EndpointAlwaysOwned == Spec => []EndpointOwned
<1>1. EndpointInv /\ [Next]_vars => EndpointInv'
  <2> SUFFICES ASSUME EndpointInv, [Next]_vars PROVE EndpointInv'
    OBVIOUS
  <2>1. EndpointStep \/ UNCHANGED endpointVars
    <3>1. ASSUME NEW t \in Threads, HandleStep(t) PROVE UNCHANGED endpointVars
      BY <3>1 DEF HandleStep, HandleEnters, HandlerAnswered, HandleSamples, HandleActs,
         HandlerReturns, Handling
    <3>2. ASSUME NEW t \in Threads, Serve(t) \/ PressKey(t) \/ UsePanel(t)
          PROVE UNCHANGED endpointVars
      BY <3>2 DEF Serve, PressKey, UsePanel
    <3>3. QED BY <3>1, <3>2 DEF Next, World, Advance, vars
  <2>2. ASSUME UNCHANGED endpointVars PROVE EndpointInv'
    BY <2>2 DEF endpointVars, EndpointInv
  <2>3. QED BY <2>1, <2>2, EndpointKeeps
<1>2. EndpointInv => EndpointOwned
  BY DEF EndpointInv, EndpointOwned, Holding
<1>3. QED BY <1>1, <1>2, EndpointStarts, PTL DEF Spec

-----------------------------------------------------------------------------
(* Stacks *)

IsStack(s) == \E S : s \in Seq(S)
IsFrame(f) == \E S : f \in [fn : S, at : S, arg : S, nested : S]

\* The first n frames of two stacks are the same.
Alike(r, s, n) == \A i \in 1 .. n : r[i] = s[i]

\* The first n elements of a sequence.
LEMMA Front ==
    ASSUME NEW S, NEW s \in Seq(S), NEW n \in Nat, n <= Len(s)
    PROVE  /\ SubSeq(s, 1, n) \in Seq(S) /\ Len(SubSeq(s, 1, n)) = n
           /\ \A i \in 1 .. n : SubSeq(s, 1, n)[i] = s[i]
OBVIOUS

\* Replacing the top of a stack.
LEMMA StackTop ==
    ASSUME NEW s, IsStack(s), s # <<>>, NEW g,
           NEW r, r = Append(SubSeq(s, 1, Len(s) - 1), g)
    PROVE  /\ IsStack(r) /\ Len(s) \in Nat \ {0} /\ Len(r) = Len(s) /\ r[Len(s)] = g
           /\ Alike(r, s, Len(s) - 1)
<1> PICK S : s \in Seq(S)
  BY DEF IsStack
<1> DEFINE U == S \cup {g}
<1>1. s \in Seq(U) /\ g \in U
  OBVIOUS
<1> HIDE DEF U
<1>2. Len(s) \in Nat \ {0}
  BY <1>1
<1> DEFINE q == SubSeq(s, 1, Len(s) - 1)
<1>3. q \in Seq(U) /\ Len(q) = Len(s) - 1 /\ \A i \in 1 .. Len(s) - 1 : q[i] = s[i]
  <2>1. Len(s) - 1 \in Nat /\ Len(s) - 1 <= Len(s)
    BY <1>2
  <2>2. QED BY <1>1, <2>1, Front DEF Alike
<1> HIDE DEF q
<1>4. r = Append(q, g)
  BY DEF q
<1>5. r \in Seq(U) /\ Len(r) = Len(s) /\ r[Len(s)] = g /\ Alike(r, s, Len(s) - 1)
  BY <1>1, <1>2, <1>3, <1>4 DEF Alike
<1>6. QED BY <1>2, <1>5 DEF IsStack

\* Taking it off.
LEMMA StackPop ==
    ASSUME NEW s, IsStack(s), s # <<>>, NEW r, r = SubSeq(s, 1, Len(s) - 1)
    PROVE  /\ IsStack(r) /\ Len(s) \in Nat \ {0} /\ Len(r) = Len(s) - 1
           /\ Alike(r, s, Len(s) - 1)
<1> PICK S : s \in Seq(S)
  BY DEF IsStack
<1>1. Len(s) \in Nat \ {0}
  OBVIOUS
<1>2. r \in Seq(S) /\ Len(r) = Len(s) - 1 /\ Alike(r, s, Len(s) - 1)
  <2>1. Len(s) - 1 \in Nat /\ Len(s) - 1 <= Len(s)
    BY <1>1
  <2>2. QED BY <1>1, <2>1, Front DEF Alike
<1>3. QED BY <1>1, <1>2 DEF IsStack

\* Putting one on.
LEMMA StackPush ==
    ASSUME NEW s, IsStack(s), NEW f, NEW r, r = Append(s, f)
    PROVE  /\ IsStack(r) /\ Len(s) \in Nat /\ Len(r) = Len(s) + 1 /\ r[Len(s) + 1] = f
           /\ Alike(r, s, Len(s))
<1> PICK S : s \in Seq(S)
  BY DEF IsStack
<1> DEFINE U == S \cup {f}
<1>1. s \in Seq(U) /\ f \in U
  OBVIOUS
<1> HIDE DEF U
<1>2. r \in Seq(U) /\ Len(s) \in Nat /\ Len(r) = Len(s) + 1 /\ r[Len(s) + 1] = f
      /\ Alike(r, s, Len(s))
  BY <1>1 DEF Alike
<1>3. QED BY <1>2 DEF IsStack

Stacks ==
    /\ stack = [t \in Threads |-> stack[t]]
    /\ \A t \in Threads : IsStack(stack[t]) /\ \A i \in 1 .. Len(stack[t]) : IsFrame(stack[t][i])

\* A step of thread t leaves the other threads' frames alone, and those of its own
\* below the top.  The top goes on at another place, or ends; a new frame is added to
\* it, or is the first one.
Aside(t) ==
    /\ \A u \in Threads : u # t => stack'[u] = stack[u]
    /\ \A i \in 1 .. Len(stack[t]) - 1 : stack'[t][i] = stack[t][i]

TopIs(t, at, arg) ==
    /\ stack[t] # <<>> /\ Len(stack[t]) \in Nat \ {0}
    /\ LET f == stack'[t][Len(stack[t])] IN f.fn = Top(t).fn /\ f.at = at /\ f.arg = arg

Turns(t, at, arg) == Aside(t) /\ TopIs(t, at, arg) /\ Len(stack'[t]) = Len(stack[t])
Ends(t) == /\ Aside(t) /\ stack[t] # <<>> /\ Len(stack[t]) \in Nat \ {0}
           /\ Len(stack'[t]) = Len(stack[t]) - 1
Adds(t, at, arg, f) == /\ Aside(t) /\ TopIs(t, at, arg) /\ Len(stack'[t]) = Len(stack[t]) + 1
                       /\ stack'[t][Len(stack[t]) + 1] = f
Begins(t, f) == /\ Aside(t) /\ stack[t] = <<>> /\ Len(stack[t]) = 0
                /\ Len(stack'[t]) = 1 /\ stack'[t][1] = f

\* A new frame has the fields it was made with.
LEMMA FrameMade ==
    ASSUME NEW fn, NEW at, NEW arg
    PROVE  /\ IsFrame(Frame(fn, at, arg)) /\ Frame(fn, at, arg).fn = fn
           /\ Frame(fn, at, arg).at = at /\ Frame(fn, at, arg).arg = arg
<1> DEFINE S == {fn, at, arg, FALSE}
<1>1. Frame(fn, at, arg) \in [fn : S, at : S, arg : S, nested : S]
  BY DEF Frame
<1>2. IsFrame(Frame(fn, at, arg))
  BY <1>1 DEF IsFrame
<1>3. QED BY <1>2 DEF Frame

Moved(f, at, arg, nested) == [f EXCEPT !.at = at, !.arg = arg, !.nested = nested]

\* A frame that moves keeps its operation.
LEMMA FrameMoves ==
    ASSUME NEW f, IsFrame(f), NEW at, NEW arg, NEW nested
    PROVE  /\ IsFrame(Moved(f, at, arg, nested)) /\ Moved(f, at, arg, nested).fn = f.fn
           /\ Moved(f, at, arg, nested).at = at /\ Moved(f, at, arg, nested).arg = arg
<1> PICK S : f \in [fn : S, at : S, arg : S, nested : S]
  BY DEF IsFrame
<1> DEFINE U == S \cup {at, arg, nested}
           g == Moved(f, at, arg, nested)
<1>1. f \in [fn : U, at : U, arg : U, nested : U] /\ at \in U /\ arg \in U /\ nested \in U
  OBVIOUS
<1> HIDE DEF U
<1>2. g \in [fn : U, at : U, arg : U, nested : U] /\ g.fn = f.fn /\ g.at = at /\ g.arg = arg
  BY <1>1 DEF Moved
<1>3. QED BY <1>2 DEF IsFrame

\* The ways the actions write that.
LEMMA FrameKept ==
    ASSUME NEW f, IsFrame(f)
    PROVE  /\ \A at, arg : [f EXCEPT !.at = at, !.arg = arg]
                          = Moved(f, at, arg, f.nested)
           /\ [f EXCEPT !.nested = TRUE] = Moved(f, f.at, f.arg, TRUE)
<1> PICK S : f \in [fn : S, at : S, arg : S, nested : S]
  BY DEF IsFrame
<1>1. QED BY DEF Moved

\* Replacing the stack of one thread by another one.
LEMMA StacksSet ==
    ASSUME Stacks, NEW t \in Threads, NEW s, IsStack(s), \A i \in 1 .. Len(s) : IsFrame(s[i]),
           stack' = [stack EXCEPT ![t] = s]
    PROVE  Stacks' /\ stack'[t] = s /\ \A u \in Threads : u # t => stack'[u] = stack[u]
BY DEF Stacks

\* Goto moves the top frame and nothing else.
LEMMA GotoTurns ==
    ASSUME Stacks, NEW t \in Threads, stack[t] # <<>>, NEW at, NEW arg, Goto(t, at, arg)
    PROVE  Stacks' /\ Turns(t, at, arg)
<1> DEFINE g == [Top(t) EXCEPT !.at = at, !.arg = arg, !.nested = FALSE]
           s == stack[t]
           r == Append(SubSeq(s, 1, Len(s) - 1), g)
<1>1. IsStack(s) /\ \A i \in 1 .. Len(s) : IsFrame(s[i])
  BY DEF Stacks
<1>2. /\ IsStack(r) /\ Len(s) \in Nat \ {0} /\ Len(r) = Len(s) /\ r[Len(s)] = g
      /\ Alike(r, s, Len(s) - 1)
  <2>1. s # <<>> /\ r = Append(SubSeq(s, 1, Len(s) - 1), g)
    OBVIOUS
  <2> HIDE DEF g, s, r
  <2>2. QED BY <1>1, <2>1, StackTop, Zenon
<1>3. stack' = [stack EXCEPT ![t] = r]
  BY DEF Goto, Replace
<1>4. IsFrame(Top(t))
  <2> HIDE DEF g, r
  <2>1. Len(s) \in 1 .. Len(s)
    BY <1>2
  <2>2. QED BY <1>1, <2>1 DEF Top
<1>5. IsFrame(g) /\ g.fn = Top(t).fn /\ g.at = at /\ g.arg = arg
  <2>1. PICK no : no = FALSE
    OBVIOUS
  <2>2. g = Moved(Top(t), at, arg, no)
    BY <2>1 DEF Moved
  <2> HIDE DEF g
  <2>3. QED BY <1>4, <2>2, FrameMoves
<1> HIDE DEF g, r
<1>6. \A i \in 1 .. Len(r) : IsFrame(r[i])
  BY <1>1, <1>2, <1>5 DEF Alike
<1>7. Stacks' /\ stack'[t] = r /\ \A u \in Threads : u # t => stack'[u] = stack[u]
  BY <1>2, <1>3, <1>6, StacksSet
<1>8. QED BY <1>2, <1>5, <1>7 DEF Turns, TopIs, Aside, Alike

\* Return takes the top frame off and nothing else.
LEMMA ReturnEnds ==
    ASSUME Stacks, NEW t \in Threads, stack[t] # <<>>, NEW v, Return(t, v)
    PROVE  Stacks' /\ Ends(t)
<1> DEFINE s == stack[t]
           r == SubSeq(s, 1, Len(s) - 1)
<1>1. IsStack(s) /\ \A i \in 1 .. Len(s) : IsFrame(s[i])
  BY DEF Stacks
<1>2. /\ IsStack(r) /\ Len(s) \in Nat \ {0} /\ Len(r) = Len(s) - 1
      /\ Alike(r, s, Len(s) - 1)
  <2>1. s # <<>> /\ r = SubSeq(s, 1, Len(s) - 1)
    OBVIOUS
  <2> HIDE DEF s, r
  <2>2. QED BY <1>1, <2>1, StackPop, Zenon
<1>3. stack' = [stack EXCEPT ![t] = r]
  BY DEF Return
<1> HIDE DEF r
<1>4. \A i \in 1 .. Len(r) : IsFrame(r[i])
  BY <1>1, <1>2 DEF Alike
<1>5. Stacks' /\ stack'[t] = r /\ \A u \in Threads : u # t => stack'[u] = stack[u]
  BY <1>2, <1>3, <1>4, StacksSet
<1>6. QED BY <1>2, <1>5 DEF Ends, Aside, Alike

\* Await puts a frame on the one that will have its result.
LEMMA AwaitAdds ==
    ASSUME Stacks, NEW t \in Threads, stack[t] # <<>>, NEW f, IsFrame(f), NEW arg, Await(t, f, arg)
    PROVE  Stacks' /\ Adds(t, "result", arg, f)
<1> DEFINE g == [Top(t) EXCEPT !.at = "result", !.arg = arg]
           s == stack[t]
           q == Append(SubSeq(s, 1, Len(s) - 1), g)
           r == Append(q, f)
<1>1. IsStack(s) /\ \A i \in 1 .. Len(s) : IsFrame(s[i])
  BY DEF Stacks
<1>2. /\ IsStack(q) /\ Len(s) \in Nat \ {0} /\ Len(q) = Len(s) /\ q[Len(s)] = g
      /\ Alike(q, s, Len(s) - 1)
  <2>1. s # <<>> /\ q = Append(SubSeq(s, 1, Len(s) - 1), g)
    OBVIOUS
  <2> HIDE DEF g, s, q
  <2>2. QED BY <1>1, <2>1, StackTop, Zenon
<1>3. stack' = [stack EXCEPT ![t] = r]
  BY DEF Await
<1>4. IsFrame(Top(t))
  <2> HIDE DEF g, r, q
  <2>1. Len(s) \in 1 .. Len(s)
    BY <1>2
  <2>2. QED BY <1>1, <2>1 DEF Top
<1>5. IsFrame(g) /\ g.fn = Top(t).fn /\ g.at = "result" /\ g.arg = arg
  <2>1. g = Moved(Top(t), "result", arg, Top(t).nested)
    BY <1>4, FrameKept
  <2> HIDE DEF g
  <2>2. QED BY <1>4, <2>1, FrameMoves
<1> HIDE DEF g, q
<1>6. /\ IsStack(r) /\ Len(r) = Len(q) + 1 /\ r[Len(q) + 1] = f
      /\ Alike(r, q, Len(q))
  <2>1. r = Append(q, f)
    OBVIOUS
  <2> HIDE DEF r
  <2>2. QED BY <1>2, <2>1, StackPush, Zenon
<1> HIDE DEF r
<1>7. \A i \in 1 .. Len(r) : IsFrame(r[i])
  BY <1>1, <1>2, <1>5, <1>6 DEF Alike
<1>8. Stacks' /\ stack'[t] = r /\ \A u \in Threads : u # t => stack'[u] = stack[u]
  BY <1>3, <1>6, <1>7, StacksSet
<1>9. QED BY <1>2, <1>5, <1>6, <1>8 DEF Adds, TopIs, Aside, Alike

\* A call begins a stack or is nested in a callback.
LEMMA CallAdds ==
    ASSUME Stacks, NEW t \in Threads, NEW fn, NEW arg, Call(t, fn, arg)
    PROVE  /\ Stacks'
           /\ \/ Begins(t, Frame(fn, "lock", arg))
              \/ Adds(t, Top(t).at, Top(t).arg, Frame(fn, "lock", arg)) /\ Top(t).at \notin {"lock", "result"}
<1> DEFINE s == stack[t]
           f == Frame(fn, "lock", arg)
           g == [Top(t) EXCEPT !.nested = TRUE]
           q == IF s = <<>> THEN s ELSE [s EXCEPT ![Len(s)] = g]
           r == Append(q, f)
<1>1. IsStack(s) /\ \A i \in 1 .. Len(s) : IsFrame(s[i])
  BY DEF Stacks
<1>2. IsFrame(f)
  BY FrameMade
<1>3. /\ IsStack(q) /\ Len(s) \in Nat /\ Len(q) = Len(s)
      /\ s # <<>> => Len(s) # 0 /\ q[Len(s)] = g /\ Alike(q, s, Len(s) - 1)
      /\ s = <<>> => Len(s) = 0
  <2>1. PICK S : s \in Seq(S)
    BY <1>1 DEF IsStack
  <2> DEFINE U == S \cup {g}
  <2>2. s \in Seq(U) /\ g \in U
    BY <2>1
  <2> HIDE DEF U, g, s
  <2>3. /\ q \in Seq(U) /\ Len(s) \in Nat /\ Len(q) = Len(s)
        /\ s # <<>> => Len(s) # 0 /\ q[Len(s)] = g /\ Alike(q, s, Len(s) - 1)
        /\ s = <<>> => Len(s) = 0
    BY <2>2 DEF Alike
  <2>4. QED BY <2>3 DEF IsStack
<1>4. stack' = [stack EXCEPT ![t] = r] /\ (s # <<>> => Top(t).at \notin {"lock", "result"})
  BY DEF Call, Top
<1>5. s # <<>> => IsFrame(g) /\ g.fn = Top(t).fn /\ g.at = Top(t).at /\ g.arg = Top(t).arg
  <2> SUFFICES ASSUME s # <<>> PROVE IsFrame(g) /\ g.fn = Top(t).fn /\ g.at = Top(t).at /\ g.arg = Top(t).arg
    OBVIOUS
  <2>1. IsFrame(Top(t))
    BY <1>1, <1>3 DEF Top
  <2>2. PICK yes : yes = TRUE
    OBVIOUS
  <2>3. g = Moved(Top(t), Top(t).at, Top(t).arg, yes)
    BY <2>1, <2>2, FrameKept
  <2> HIDE DEF g
  <2>4. QED BY <2>1, <2>3, FrameMoves
<1> HIDE DEF g, q, f
<1>6. /\ IsStack(r) /\ Len(r) = Len(q) + 1 /\ r[Len(q) + 1] = f
      /\ Alike(r, q, Len(q))
  <2>1. r = Append(q, f)
    OBVIOUS
  <2> HIDE DEF r
  <2>2. QED BY <1>3, <2>1, StackPush, Zenon
<1> HIDE DEF r
<1>7. \A i \in 1 .. Len(r) : IsFrame(r[i])
  BY <1>1, <1>2, <1>3, <1>5, <1>6 DEF Alike
<1>8. Stacks' /\ stack'[t] = r /\ \A u \in Threads : u # t => stack'[u] = stack[u]
  BY <1>4, <1>6, <1>7, StacksSet
<1>9. CASE s = <<>>
  <2>1. Begins(t, f)
    BY <1>3, <1>6, <1>8, <1>9 DEF Begins, Aside
  <2>2. QED BY <1>8, <2>1 DEF f
<1>10. CASE s # <<>>
  <2>1. Len(s) \in Nat \ {0} /\ r[Len(s)] = g
    BY <1>3, <1>6, <1>10 DEF Alike
  <2>2. Alike(r, s, Len(s) - 1)
    BY <1>3, <1>6, <1>10 DEF Alike
  <2>3. Adds(t, Top(t).at, Top(t).arg, f)
    BY <1>3, <1>5, <1>6, <1>8, <1>10, <2>1, <2>2 DEF Adds, TopIs, Aside, Alike
  <2>4. QED BY <1>4, <1>8, <1>10, <2>3 DEF f
<1>11. QED BY <1>9, <1>10

\* A frame of one of fns that is past its lock; whoever has one is inside.
Owner(fns, u, j) == j \in 1 .. Len(stack[u]) /\ stack[u][j].fn \in fns /\ stack[u][j].at # "lock"

\* A step that neither lets a frame of fns past its lock nor takes it further.
Leaves(fns) ==
    \A u \in Threads : \A j \in Nat :
        /\ Owner(fns, u, j)' <=> Owner(fns, u, j)
        /\ Owner(fns, u, j) => /\ stack'[u][j].fn = stack[u][j].fn /\ stack'[u][j].at = stack[u][j].at
                               /\ stack'[u][j].arg = stack[u][j].arg

\* Thread t is in an operation of fns, which goes on or ends.
Goes(t, fns) ==
    /\ stack[t] # <<>> /\ Top(t).fn \in fns
    /\ Ends(t) \/ \E at, arg : Turns(t, at, arg)

\* An operation of one object does not advance those of another.
LEMMA GoesLeaves ==
    ASSUME NEW t \in Threads, NEW fns, NEW own, Goes(t, own), own \cap fns = {}
    PROVE  Leaves(fns)
<1>1. ASSUME Ends(t) PROVE Leaves(fns)
  BY <1>1 DEF Ends, Aside, Leaves, Owner, Top, Goes
<1>2. ASSUME NEW at, NEW arg, Turns(t, at, arg) PROVE Leaves(fns)
  BY <1>2 DEF Turns, TopIs, Aside, Leaves, Owner, Top, Goes
<1>3. QED BY <1>1, <1>2 DEF Goes

\* A call that waits for its lock advances nobody.
LEMMA AddsLeaves ==
    ASSUME NEW t \in Threads, NEW fns, NEW at, NEW arg, NEW f, Adds(t, at, arg, f), f.at = "lock",
           Top(t).fn \notin fns \/ (at = Top(t).at /\ arg = Top(t).arg)
    PROVE  Leaves(fns)
<1>1. ASSUME NEW u \in Threads, NEW j \in Nat, u # t \/ j # Len(stack[t]) + 1, Owner(fns, u, j)
      PROVE  /\ Owner(fns, u, j)'
             /\ stack'[u][j].fn = stack[u][j].fn /\ stack'[u][j].at = stack[u][j].at
             /\ stack'[u][j].arg = stack[u][j].arg
  BY <1>1 DEF Adds, TopIs, Aside, Owner, Top
<1>2. ASSUME NEW u \in Threads, NEW j \in Nat, Owner(fns, u, j)'
      PROVE  Owner(fns, u, j)
  <2>1. u # t \/ j # Len(stack[t]) + 1
    BY <1>2 DEF Adds, Owner
  <2>2. QED BY <1>2, <2>1 DEF Adds, TopIs, Aside, Owner, Top
<1>3. ASSUME NEW u \in Threads, NEW j \in Nat, Owner(fns, u, j) PROVE u # t \/ j # Len(stack[t]) + 1
  BY <1>3 DEF Adds, TopIs, Owner
<1>4. QED BY <1>1, <1>2, <1>3 DEF Leaves

\* So no call, nested or not, does.
LEMMA CallLeaves ==
    ASSUME Stacks, NEW t \in Threads, NEW fns, NEW fn, NEW arg, Call(t, fn, arg)
    PROVE  Leaves(fns)
<1> DEFINE f == Frame(fn, "lock", arg)
<1>1. f.at = "lock"
  BY FrameMade
<1> HIDE DEF f
<1>2. ASSUME Begins(t, f) PROVE Leaves(fns)
  BY <1>1, <1>2 DEF Begins, Aside, Leaves, Owner
<1>3. ASSUME Adds(t, Top(t).at, Top(t).arg, f) PROVE Leaves(fns)
  BY <1>1, <1>3, AddsLeaves
<1>4. QED BY <1>2, <1>3, CallAdds DEF f

\* Goto and Return are ways to go on.
LEMMA GotoGoes ==
    ASSUME Stacks, NEW t \in Threads, stack[t] # <<>>, NEW fns, Top(t).fn \in fns,
           (\E at, arg : Goto(t, at, arg)) \/ (\E v : Return(t, v))
    PROVE  Stacks' /\ Goes(t, fns)
BY GotoTurns, ReturnEnds DEF Goes

\* What dictation does to the stacks.
LEMMA DictationForms ==
    ASSUME NEW t \in Threads, DictationStep(t)
    PROVE  (\E at, arg : Goto(t, at, arg)) \/ (\E v : Return(t, v))
<1>1. ASSUME NEW ok \in BOOLEAN, Completed(t, ok) \/ Cleanup(t, ok) \/ HomeFocus(t, ok)
             \/ HomeStarting(t, ok) \/ HomeStart(t, ok)
      PROVE  (\E at, arg : Goto(t, at, arg)) \/ (\E v : Return(t, v))
  BY <1>1 DEF Completed, Cleanup, HomeFocus, HomeStarting, HomeStart, Complete
<1>2. ASSUME NEW ok \in BOOLEAN, EndStop(t, ok) \/ EndProcessing(t, ok) \/ EndTranscribe(t, ok)
             \/ EndFocus(t, ok)
      PROVE  \E at, arg : Goto(t, at, arg)
  BY <1>2 DEF EndStop, EndProcessing, EndTranscribe, EndFocus, Complete
<1>3. ASSUME NEW delivery \in Deliveries, EndType(t, delivery) \/ EndCopy(t, delivery)
      PROVE  \E at, arg : Goto(t, at, arg)
  BY <1>3 DEF EndType, EndCopy, Complete
<1>4. ASSUME HomeEnters(t) \/ EndEnters(t) \/ CancelEnters(t)
      PROVE  (\E at, arg : Goto(t, at, arg)) \/ (\E v : Return(t, v))
  BY <1>4 DEF HomeEnters, EndEnters, CancelEnters, Complete
<1>5. QED BY <1>1, <1>2, <1>3, <1>4 DEF DictationStep

\* Every step of dictation is one of dictation's operations going on.
LEMMA DictationGoes ==
    ASSUME Stacks, NEW t \in Threads, DictationStep(t)
    PROVE  Stacks' /\ Goes(t, DictationFns)
<1>1. stack[t] # <<>> /\ Top(t).fn \in DictationFns
  BY DEF DictationStep, HomeEnters, EndEnters, CancelEnters, HomeFocus, HomeStarting, HomeStart,
     EndStop,
     EndProcessing, EndTranscribe, EndFocus, Cleanup, Completed, EndType, EndCopy, Enters, At, DictationFns
<1>2. QED BY <1>1, DictationForms, GotoGoes

\* What the panel does to the stacks, but for sending its confirmation.
LEMMA PanelGoes ==
    ASSUME Stacks, NEW t \in Threads, PanelStep(t)
    PROVE  Stacks' /\ Goes(t, PanelFns)
<1>1. (\E at, arg : Goto(t, at, arg)) \/ (\E v : Return(t, v))
  <2>1. ASSUME NEW ok \in BOOLEAN, PresentNow(t, ok) \/ Samples(t, ok) \/ Presented(t, ok)
               \/ Viewed(t, ok) \/ ConfirmReads(t, ok)
        PROVE  (\E at, arg : Goto(t, at, arg)) \/ (\E v : Return(t, v))
    BY <2>1 DEF PresentNow, Samples, Presented, Viewed, ConfirmReads, Release
  <2>2. ASSUME Connect(t) \/ PresentEnters(t) \/ ViewEnters(t) \/ ConfirmEnters(t) \/ Confirmed(t)
        PROVE  (\E at, arg : Goto(t, at, arg)) \/ (\E v : Return(t, v))
    BY <2>2 DEF Connect, PresentEnters, ViewEnters, ConfirmEnters, Confirmed, Release
  <2>3. QED BY <2>1, <2>2 DEF PanelStep
<1>2. stack[t] # <<>> /\ Top(t).fn \in PanelFns
  BY DEF PanelStep, PresentNow, Samples, Presented, Viewed, ConfirmReads, Connect, PresentEnters,
     ViewEnters, ConfirmEnters, Confirmed, EntersPanel, At, PanelFns
<1>3. QED BY <1>1, <1>2, GotoGoes

\* What the dispatcher does to the stacks: it goes on, or calls dictation.
LEMMA HandleMoves ==
    ASSUME Stacks, NEW t \in Threads, HandleStep(t)
    PROVE  /\ Stacks'
           /\ \/ Goes(t, {"handle"})
              \/ /\ stack[t] # <<>> /\ Top(t).fn = "handle"
                 /\ \E arg, fn : Adds(t, "result", arg, Frame(fn, "lock", NoArg))
<1>1. stack[t] # <<>> /\ Top(t).fn = "handle"
  BY DEF HandleStep, HandleEnters, HandlerAnswered, HandleSamples, HandleActs, HandlerReturns, At
<1>2. \/ \E at, arg : Goto(t, at, arg)
      \/ \E v : Return(t, v)
      \/ \E fn, arg : Await(t, Frame(fn, "lock", NoArg), arg)
  <2>1. ASSUME NEW ok \in BOOLEAN, HandleSamples(t, ok)
        PROVE  (\E at, arg : Goto(t, at, arg)) \/ (\E v : Return(t, v))
    BY <2>1 DEF HandleSamples
  <2>2. ASSUME NEW ok \in BOOLEAN, HandleActs(t, ok)
        PROVE  \/ \E at, arg : Goto(t, at, arg)
               \/ \E v : Return(t, v)
               \/ \E fn, arg : Await(t, Frame(fn, "lock", NoArg), arg)
    BY <2>2 DEF HandleActs
  <2>3. ASSUME HandleEnters(t) \/ HandlerAnswered(t)
        PROVE  (\E at, arg : Goto(t, at, arg)) \/ (\E v : Return(t, v))
    BY <2>3 DEF HandleEnters, HandlerAnswered, Lock
  <2>4. ASSUME NEW reply, HandlerReturns(t, reply)
        PROVE  \E v : Return(t, v)
    BY <2>4 DEF HandlerReturns
  <2>5. QED BY <2>1, <2>2, <2>3, <2>4 DEF HandleStep
<1>3. ASSUME NEW fn, NEW arg, Await(t, Frame(fn, "lock", NoArg), arg)
      PROVE  Stacks' /\ Adds(t, "result", arg, Frame(fn, "lock", NoArg))
  BY <1>1, <1>3, FrameMade, AwaitAdds
<1>4. QED BY <1>1, <1>2, <1>3, GotoGoes

\* A panel that sends its confirmation.
LEMMA SendMoves ==
    ASSUME Stacks, NEW t \in Threads, NEW ok, NEW request, ConfirmSends(t, ok, request)
    PROVE  /\ Stacks' /\ stack[t] # <<>> /\ Top(t).fn = "confirm"
           /\ Goes(t, PanelFns) \/ Adds(t, "result", Top(t).arg, Frame("handle", "lock", request))
<1>1. stack[t] # <<>> /\ Top(t).fn = "confirm" /\ "confirm" \in PanelFns
  BY DEF ConfirmSends, At, PanelFns
<1>2. Await(t, Frame("handle", "lock", request), Top(t).arg) \/ \E v : Return(t, v)
  BY DEF ConfirmSends, Release
<1>3. QED BY <1>1, <1>2, FrameMade, AwaitAdds, GotoGoes

\* A step that touches no stack advances nobody.
LEMMA StacksKept ==
    ASSUME Stacks, stack' = stack
    PROVE  Stacks' /\ \A fns : Leaves(fns)
BY DEF Stacks, Leaves, Owner

\* Every step leaves stacks of frames.
LEMMA StacksKeep == Stacks /\ [Next]_vars => Stacks'
<1> SUFFICES ASSUME Stacks, [Next]_vars PROVE Stacks'
  OBVIOUS
<1>1. ASSUME NEW t \in Threads, Advance(t) PROVE Stacks'
  BY <1>1, HandleMoves, DictationGoes, PanelGoes, SendMoves DEF Advance
<1>2. ASSUME NEW t \in Threads, Serve(t) \/ PressKey(t) \/ UsePanel(t) PROVE Stacks'
  BY <1>2, CallAdds DEF Serve, PressKey, UsePanel
<1>3. ASSUME World \/ UNCHANGED vars PROVE stack' = stack
  BY <1>3 DEF World, FocusMoves, ContextMoves, PreviewExpires, vars, stackVars
<1>4. QED BY <1>1, <1>2, <1>3, StacksKept DEF Next

\* All stacks are empty at first.
LEMMA StacksStart == Init => Stacks
<1> SUFFICES ASSUME Init PROVE Stacks
  OBVIOUS
<1>1. stack = [t \in Threads |-> <<>>]
  BY DEF Init
<1>2. <<>> \in Seq({})
  OBVIOUS
<1>3. QED BY <1>1, <1>2 DEF Stacks, IsStack

-----------------------------------------------------------------------------
(* Who is inside *)

\* The one frame of fns past its lock.
Sole(fns, fn, at, arg) ==
    \E u \in Threads : \E n \in Nat :
        /\ \A w \in Threads : \A j \in Nat : Owner(fns, w, j) <=> w = u /\ j = n
        /\ stack[u][n].fn = fn /\ stack[u][n].at = at /\ stack[u][n].arg = arg
Nobody(fns) == \A u \in Threads : \A j \in Nat : ~ Owner(fns, u, j)
Alone(fns) == Nobody(fns) \/ \E fn, at, arg : Sole(fns, fn, at, arg)

\* A top frame past its lock is inside.
LEMMA TopOwns ==
    ASSUME Stacks, NEW t \in Threads, NEW fns, stack[t] # <<>>, Top(t).fn \in fns, Top(t).at # "lock"
    PROVE  Len(stack[t]) \in Nat \ {0} /\ Owner(fns, t, Len(stack[t]))
<1>1. PICK S : stack[t] \in Seq(S)
  BY DEF Stacks, IsStack
<1>2. Len(stack[t]) \in Nat \ {0}
  BY <1>1
<1>3. QED BY <1>2 DEF Owner, Top

\* If one frame only is inside, it is that one.
LEMMA SoleTop ==
    ASSUME Stacks, NEW t \in Threads, NEW fns, Alone(fns),
           stack[t] # <<>>, Top(t).fn \in fns, Top(t).at # "lock"
    PROVE  /\ Sole(fns, Top(t).fn, Top(t).at, Top(t).arg)
           /\ \A w \in Threads : \A j \in Nat : Owner(fns, w, j) <=> w = t /\ j = Len(stack[t])
BY TopOwns DEF Alone, Nobody, Sole, Top

\* A frame that goes on stays the only one inside.
LEMMA SoleGoesOn ==
    ASSUME Stacks, NEW t \in Threads, NEW fns, NEW fn \in fns, Top(t).fn = fn,
           Nobody(fns) \/ (Alone(fns) /\ Top(t).at # "lock"),
           NEW at, at # "lock", NEW arg, Turns(t, at, arg)
    PROVE  Sole(fns, fn, at, arg)'
<1>1. stack[t] # <<>> /\ Len(stack[t]) \in Nat \ {0}
  BY DEF Turns, TopIs
<1>2. \A w \in Threads : \A j \in Nat : Owner(fns, w, j) => w = t /\ j = Len(stack[t])
  BY <1>1, SoleTop DEF Nobody
<1>3. \A w \in Threads : \A j \in Nat : Owner(fns, w, j)' <=> w = t /\ j = Len(stack[t])
  BY <1>1, <1>2 DEF Turns, TopIs, Aside, Owner, Top
<1>4. QED BY <1>1, <1>3 DEF Turns, TopIs, Sole

\* When it ends nobody is inside.
LEMMA SoleEnds ==
    ASSUME Stacks, NEW t \in Threads, NEW fns, Alone(fns), Top(t).fn \in fns, Top(t).at # "lock", Ends(t)
    PROVE  Nobody(fns)'
<1>1. stack[t] # <<>> /\ Len(stack[t]) \in Nat \ {0}
  BY DEF Ends
<1>2. \A w \in Threads : \A j \in Nat : Owner(fns, w, j) => w = t /\ j = Len(stack[t])
  BY <1>1, SoleTop
<1>3. QED BY <1>1, <1>2 DEF Ends, Aside, Owner, Nobody

\* A call that is refused at its lock was never inside.
LEMMA RefusedLeaves ==
    ASSUME NEW t \in Threads, NEW fns, Top(t).at = "lock", Ends(t)
    PROVE  Leaves(fns)
BY DEF Ends, Aside, Leaves, Owner, Top

\* Who is inside does not change by what others do.
LEMMA LeavesKeeps ==
    ASSUME NEW fns, Leaves(fns)
    PROVE  /\ Nobody(fns) => Nobody(fns)'
           /\ \A fn, at, arg : Sole(fns, fn, at, arg) => Sole(fns, fn, at, arg)'
           /\ Alone(fns) => Alone(fns)'
<1>1. Nobody(fns) => Nobody(fns)'
  BY DEF Leaves, Nobody
<1>2. ASSUME NEW fn, NEW at, NEW arg, Sole(fns, fn, at, arg) PROVE Sole(fns, fn, at, arg)'
  BY <1>2 DEF Leaves, Sole
<1>3. QED BY <1>1, <1>2 DEF Alone

-----------------------------------------------------------------------------
(* Dictation *)

States == {"idle", "recording", "processing", "faulted"}
Texts == Windows \cup {"clipboard"}

\* The recording in progress has the window that was focused when it began.
Aimed == recording \in Interactions /\ target \in Windows /\ target = aimed[recording]
Unsent == effects[recording] = <<>>

DictationTypes ==
    /\ dstate \in States /\ recording \in 0 .. MaxCalls
    /\ mic \in BOOLEAN /\ window \in Windows
    /\ aimed \in [Interactions -> Windows \cup {None}]
    /\ effects \in [Interactions -> Seq(Texts)]

\* Between the operations: no microphone when idle; a recording has its target and
\* no effect yet; later recordings have none either.
DictationRests ==
    /\ dstate = "idle" => ~ mic
    /\ dstate = "recording" => Aimed /\ Unsent
    /\ \A i \in Interactions :
          /\ i > recording => effects[i] = <<>>
          /\ Len(effects[i]) <= 1
          /\ effects[i] # <<>> => effects[i][1] \in {aimed[i], "clipboard"}

\* Where the microphone is off.
Silent == {"focus", "starting", "start", "processing", "transcribe", "type", "refocus", "copy"}

\* What holds while the operation fn of dictation is at a place past its lock.
DictationAt(fn, at) ==
    /\ dstate \in {"processing", "faulted"} /\ (dstate = "faulted" => at = "complete")
    /\ recording \in Interactions
    /\ at = "complete" /\ mic => dstate = "faulted"
    /\ at \in Silent => ~ mic
    /\ at # "complete" => Unsent
    /\ fn = "home" /\ at \in {"starting", "start"} => Aimed
    /\ fn = "end" /\ at \notin {"cleanup", "complete"} => Aimed

\* One operation of dictation is past the lock, also with callbacks that call back
\* in, and it is the one the state speaks of.
DictationInside ==
    \/ Nobody(DictationFns) /\ dstate # "processing"
    \/ \E fn, at, arg : Sole(DictationFns, fn, at, arg) /\ DictationAt(fn, at)

DictationInv == DictationTypes /\ DictationRests /\ DictationInside

\* Other objects keep the invariant of dictation.
LEMMA DictationElsewhere ==
    ASSUME DictationInv, Leaves(DictationFns),
           UNCHANGED <<dstate, target, recording, mic, aimed, effects>>, window' \in Windows
    PROVE  DictationInv'
<1>1. DictationTypes' /\ DictationRests'
  BY DEF DictationInv, DictationTypes, DictationRests, Aimed, Unsent
<1>2. ASSUME NEW fn, NEW at, DictationAt(fn, at) PROVE DictationAt(fn, at)'
  BY <1>2 DEF DictationAt, Aimed, Unsent
<1>3. DictationInside'
  BY <1>2, LeavesKeeps DEF DictationInv, DictationInside
<1>4. QED BY <1>1, <1>3 DEF DictationInv

\* A dictation frame past its lock is the only one, and its place says what holds.
LEMMA DictationHere ==
    ASSUME Stacks, DictationInv, NEW t \in Threads, NEW fn \in DictationFns, NEW at, At(t, fn, at),
           at # "lock"
    PROVE  Alone(DictationFns) /\ DictationAt(fn, at)
<1>1. Len(stack[t]) \in Nat \ {0} /\ Owner(DictationFns, t, Len(stack[t]))
  BY TopOwns DEF At
<1>2. PICK f, a, x : Sole(DictationFns, f, a, x) /\ DictationAt(f, a)
  BY <1>1 DEF DictationInv, DictationInside, Nobody
<1>3. f = fn /\ a = at
  BY <1>1, <1>2 DEF Sole, At, Top
<1>4. QED BY <1>2, <1>3 DEF Alone

\* From one place of an operation to the next.
LEMMA DictationGoesOn ==
    ASSUME Stacks, DictationInv, NEW t \in Threads, NEW fn \in DictationFns, NEW from, At(t, fn, from),
           from # "lock" \/ Nobody(DictationFns),
           NEW at, NEW arg, Goto(t, at, arg), at # "lock", DictationAt(fn, at)'
    PROVE  DictationInside'
<1>1. Turns(t, at, arg)
  BY GotoTurns DEF At
<1>2. Nobody(DictationFns) \/ (Alone(DictationFns) /\ Top(t).at # "lock")
  BY DictationHere DEF At
<1>3. Sole(DictationFns, fn, at, arg)'
  BY <1>1, <1>2, SoleGoesOn DEF At
<1>4. QED BY <1>3 DEF DictationInside

\* From its last place back to rest.
LEMMA DictationReturns ==
    ASSUME Stacks, DictationInv, NEW t \in Threads, NEW fn \in DictationFns, NEW from, At(t, fn, from),
           from # "lock", NEW v, Return(t, v), dstate' # "processing"
    PROVE  DictationInside'
<1>1. Ends(t)
  BY ReturnEnds DEF At
<1>2. Nobody(DictationFns)'
  BY <1>1, DictationHere, SoleEnds DEF At
<1>3. QED BY <1>2 DEF DictationInside

\* A call that is refused changes nothing.
LEMMA DictationRefuses ==
    ASSUME Stacks, DictationInv, NEW t \in Threads, NEW fn, At(t, fn, "lock"), NEW v, Return(t, v),
           UNCHANGED dictationVars
    PROVE  DictationInv'
<1>1. Leaves(DictationFns)
  BY ReturnEnds, RefusedLeaves DEF At
<1>2. UNCHANGED <<dstate, target, recording, mic, aimed, effects>> /\ window' \in Windows
  BY DEF dictationVars, objectVars, worldVars, DictationInv, DictationTypes
<1>3. QED BY <1>1, <1>2, DictationElsewhere

\* home past its lock: a new recording, a stop or a refusal.
LEMMA HomeKeeps ==
    ASSUME Stacks, DictationInv, NEW t \in Threads, HomeEnters(t)
    PROVE  DictationInv'
<1>1. At(t, "home", "lock") /\ "home" \in DictationFns
  BY DEF HomeEnters, Enters, DictationFns
<1>2. CASE dstate # "idle"
  BY <1>1, <1>2, DictationRefuses DEF HomeEnters, dictationVars
<1>3. CASE dstate = "idle"
  <2>1. /\ recording < MaxCalls /\ dstate' = "processing" /\ recording' = recording + 1
        /\ UNCHANGED <<target, window, mic, aimed, effects>>
        /\ Goto(t, "focus", NoArg) \/ Goto(t, "complete", Finishing("blocked", FALSE))
    BY <1>3 DEF HomeEnters, worldVars, Complete
  <2>2. Nobody(DictationFns) /\ ~ mic
    BY <1>3 DEF DictationInv, DictationRests, DictationInside, DictationAt
  <2>3. recording' \in Interactions /\ recording' > recording /\ MaxCalls \in Nat
    BY <2>1, StackAssumption DEF DictationInv, DictationTypes, Interactions
  <2>4. DictationTypes'
    BY <2>1, <2>3 DEF DictationInv, DictationTypes, States, Interactions
  <2>5. DictationRests' /\ Unsent'
    BY <2>1, <2>3 DEF DictationInv, DictationTypes, DictationRests, Unsent, Interactions
  <2>6. DictationAt("home", "focus")' /\ DictationAt("home", "complete")'
    BY <2>1, <2>2, <2>3, <2>5 DEF DictationAt
  <2>7. DictationInside'
    BY <1>1, <2>1, <2>2, <2>6, DictationGoesOn
  <2>8. QED BY <2>4, <2>5, <2>7 DEF DictationInv
<1>4. QED BY <1>2, <1>3

\* Steps of home past its lock.
LEMMA HomeGoesOn ==
    ASSUME Stacks, DictationInv, NEW t \in Threads, NEW ok \in BOOLEAN,
           HomeFocus(t, ok) \/ HomeStarting(t, ok) \/ HomeStart(t, ok)
    PROVE  DictationInv'
<1>1. "home" \in DictationFns
  BY DEF DictationFns
<1>2. CASE HomeFocus(t, ok)
  <2>1. At(t, "home", "focus") /\ DictationAt("home", "focus")
    BY <1>1, <1>2, DictationHere DEF HomeFocus
  <2>2. UNCHANGED <<dstate, recording, window, mic, effects>>
    BY <1>2 DEF HomeFocus
  <2>3. \/ /\ Goto(t, "starting", NoArg)
           /\ target' = window /\ aimed' = [aimed EXCEPT ![recording] = window]
        \/ Goto(t, "complete", Finishing("blocked", FALSE)) /\ UNCHANGED <<target, aimed>>
    BY <1>2 DEF HomeFocus, Complete
  <2>4. DictationTypes' /\ Unsent'
    BY <2>1, <2>2, <2>3 DEF DictationInv, DictationTypes, DictationAt, Unsent
  <2>5. DictationRests'
    BY <2>1, <2>2, <2>3
       DEF DictationInv, DictationTypes, DictationRests, DictationAt, Unsent
  <2>6. DictationAt("home", "complete")'
    BY <2>1, <2>2 DEF DictationAt, Silent
  <2>7. ASSUME target' = window, aimed' = [aimed EXCEPT ![recording] = window]
        PROVE  DictationAt("home", "starting")'
    BY <2>1, <2>2, <2>4, <2>7 DEF DictationInv, DictationTypes, DictationAt, Aimed, Silent
  <2>8. DictationInside'
    BY <1>1, <2>1, <2>3, <2>6, <2>7, DictationGoesOn
  <2>9. QED BY <2>4, <2>5, <2>8 DEF DictationInv
<1>3. CASE HomeStarting(t, ok)
  <2>1. At(t, "home", "starting") /\ DictationAt("home", "starting")
    BY <1>1, <1>3, DictationHere DEF HomeStarting
  <2>2. UNCHANGED <<recording, window, mic, aimed, effects>>
    BY <1>3 DEF HomeStarting, worldVars
  <2>3. \/ Goto(t, "start", NoArg) /\ dstate' = "processing" /\ target' = target
        \/ Return(t, "blocked") /\ dstate' = "idle"
    BY <1>3 DEF HomeStarting
  <2>4. DictationTypes' /\ Unsent' /\ ~ mic
    BY <2>1, <2>2, <2>3 DEF DictationInv, DictationTypes, DictationAt, Unsent, States, Silent
  <2>5. DictationRests'
    BY <2>2, <2>3, <2>4 DEF DictationInv, DictationRests
  <2>6. ASSUME dstate' = "processing", target' = target PROVE DictationAt("home", "start")'
    BY <2>1, <2>2, <2>4, <2>6 DEF DictationAt, Aimed
  <2>7. DictationInside'
    BY <1>1, <2>1, <2>3, <2>6, DictationGoesOn, DictationReturns
  <2>8. QED BY <2>4, <2>5, <2>7 DEF DictationInv
<1>4. CASE HomeStart(t, ok)
  <2>1. At(t, "home", "start") /\ DictationAt("home", "start")
    BY <1>1, <1>4, DictationHere DEF HomeStart
  <2>2. UNCHANGED <<target, recording, window, aimed, effects>>
    BY <1>4 DEF HomeStart
  <2>3. mic' \in BOOLEAN
    BY <1>4, Zenon DEF HomeStart
  <2>4. \/ Goto(t, "cleanup", NoArg) /\ dstate' = dstate
        \/ Return(t, "recording") /\ dstate' = "recording"
    BY <1>4 DEF HomeStart
  <2>5. DictationTypes' /\ Unsent' /\ Aimed'
    BY <2>1, <2>2, <2>3, <2>4 DEF DictationInv, DictationTypes, DictationAt, Unsent, Aimed, States
  <2>6. DictationRests'
    BY <2>1, <2>2, <2>4, <2>5 DEF DictationInv, DictationRests, DictationAt
  <2>7. ASSUME dstate' = dstate PROVE DictationAt("home", "cleanup")'
    BY <2>1, <2>2, <2>5, <2>7 DEF DictationAt, Silent
  <2>8. DictationInside'
    BY <1>1, <2>1, <2>4, <2>7, DictationGoesOn, DictationReturns
  <2>9. QED BY <2>5, <2>6, <2>8 DEF DictationInv
<1>5. QED BY <1>2, <1>3, <1>4

\* end and cancel past their lock.
LEMMA EndKeeps ==
    ASSUME Stacks, DictationInv, NEW t \in Threads, EndEnters(t) \/ CancelEnters(t)
    PROVE  DictationInv'
<1>1. PICK fn \in {"end", "cancel"} : /\ At(t, fn, "lock")
                                      /\ fn = "end" => EndEnters(t)
                                      /\ fn = "cancel" => CancelEnters(t)
  BY DEF EndEnters, CancelEnters, Enters
<1>2. CASE dstate # "recording"
  <2>1. Return(t, "blocked") /\ UNCHANGED dictationVars
    BY <1>1, <1>2 DEF EndEnters, CancelEnters, dictationVars, objectVars
  <2>2. QED BY <1>1, <2>1, DictationRefuses
<1>3. CASE dstate = "recording"
  <2>1. /\ dstate' = "processing" /\ UNCHANGED <<target, recording, window, mic, aimed, effects>>
        /\ Goto(t, IF fn = "end" THEN "stop" ELSE "cleanup", NoArg)
    BY <1>1, <1>3 DEF EndEnters, CancelEnters, worldVars
  <2>2. Nobody(DictationFns) /\ Aimed /\ Unsent
    BY <1>3 DEF DictationInv, DictationRests, DictationInside, DictationAt
  <2>3. Aimed' /\ Unsent'
    BY <2>1, <2>2 DEF Aimed, Unsent
  <2>4. DictationTypes' /\ DictationRests'
    BY <2>1, <2>3 DEF DictationInv, DictationTypes, DictationRests, States
  <2>5. DictationAt("end", "stop")' /\ DictationAt("cancel", "cleanup")'
    BY <2>1, <2>3 DEF DictationAt, Aimed, Silent
  <2>6. fn \in DictationFns
    BY DEF DictationFns
  <2>7. DictationInside'
    <3>1. CASE fn = "end"
      BY <1>1, <2>1, <2>2, <2>5, <2>6, <3>1, DictationGoesOn
    <3>2. CASE fn = "cancel"
      BY <1>1, <2>1, <2>2, <2>5, <2>6, <3>2, DictationGoesOn
    <3>3. QED BY <3>1, <3>2
  <2>8. QED BY <2>4, <2>7 DEF DictationInv
<1>4. QED BY <1>2, <1>3

\* A step of end that has no effect on a window and leaves the state alone.
LEMMA EndPasses ==
    ASSUME Stacks, DictationInv, NEW t \in Threads,
           NEW from \in {"stop", "processing", "transcribe", "focus", "type", "refocus", "copy"},
           At(t, "end", from), NEW at, NEW arg, Goto(t, at, arg), at # "lock",
           UNCHANGED <<dstate, target, recording, window, aimed, effects>>,
           mic' \in BOOLEAN, at \in Silent \cup {"complete"} => ~ mic'
    PROVE  DictationInv'
<1>1. "end" \in DictationFns
  BY DEF DictationFns
<1>2. DictationAt("end", from)
  BY <1>1, DictationHere
<1>3. Aimed' /\ Unsent' /\ dstate = "processing"
  BY <1>2 DEF DictationAt, Aimed, Unsent
<1>4. DictationTypes' /\ DictationRests'
  BY <1>3 DEF DictationInv, DictationTypes, DictationRests
<1>5. DictationAt("end", at)'
  BY <1>2, <1>3 DEF DictationAt, Aimed
<1>6. DictationInside'
  BY <1>1, <1>5, DictationGoesOn
<1>7. QED BY <1>4, <1>6 DEF DictationInv

\* end after each of its callbacks, whether it returned or failed.
LEMMA EndGoesOn ==
    ASSUME Stacks, DictationInv, NEW t \in Threads, NEW ok \in BOOLEAN,
           EndStop(t, ok) \/ EndProcessing(t, ok) \/ EndTranscribe(t, ok) \/ EndFocus(t, ok)
    PROVE  DictationInv'
<1>1. "end" \in DictationFns /\ mic \in BOOLEAN
  BY DEF DictationFns, DictationInv, DictationTypes
<1>2. CASE EndStop(t, ok)
  <2>1. At(t, "end", "stop") /\ UNCHANGED <<dstate, target, recording, window, aimed, effects>>
    BY <1>2 DEF EndStop, objectVars
  <2>2. \/ Goto(t, "processing", NoArg) /\ mic' = FALSE
        \/ Goto(t, "cleanup", NoArg) /\ mic' = mic
    BY <1>2 DEF EndStop
  <2>3. mic' \in BOOLEAN
    BY <1>1, <2>2, Zenon
  <2>4. CASE Goto(t, "processing", NoArg) /\ mic' = FALSE
    BY <2>1, <2>3, <2>4, EndPasses
  <2>5. CASE Goto(t, "cleanup", NoArg) /\ mic' = mic
    <3>1. "cleanup" \notin Silent \cup {"complete"}
      BY DEF Silent
    <3>2. QED BY <2>1, <2>3, <2>5, <3>1, EndPasses
  <2>6. QED BY <2>2, <2>4, <2>5
<1>3. CASE EndProcessing(t, ok) \/ EndTranscribe(t, ok) \/ EndFocus(t, ok)
  <2>1. UNCHANGED <<dstate, target, recording, window, mic, aimed, effects>>
    BY <1>3 DEF EndProcessing, EndTranscribe, EndFocus, dictationVars, objectVars, worldVars
  <2>2. PICK from \in {"processing", "transcribe", "focus", "refocus"} : At(t, "end", from)
    BY <1>3 DEF EndProcessing, EndTranscribe, EndFocus
  <2>3. PICK at \in {"transcribe", "complete", "focus", "type", "copy"} : \E arg : Goto(t, at, arg)
    BY <1>3 DEF EndProcessing, EndTranscribe, EndFocus, Complete
  <2>4. ~ mic
    BY <1>1, <2>2, DictationHere DEF DictationAt, Silent
  <2>5. mic' \in BOOLEAN /\ ~ mic'
    BY <1>1, <2>1, <2>4
  <2>6. QED BY <2>1, <2>2, <2>3, <2>5, EndPasses
<1>4. QED BY <1>2, <1>3

\* Typing and copying: the only steps with an effect, on a recording that has none.
LEMMA DeliveryKeeps ==
    ASSUME Stacks, DictationInv, NEW t \in Threads, NEW delivery \in Deliveries,
           EndType(t, delivery) \/ EndCopy(t, delivery)
    PROVE  DictationInv'
<1>1. "end" \in DictationFns
  BY DEF DictationFns
<1>2. PICK from \in {"type", "copy"} : At(t, "end", from)
  BY DEF EndType, EndCopy
<1>3. DictationAt("end", from)
  BY <1>1, <1>2, DictationHere
<1>4. ~ mic /\ Aimed /\ Unsent /\ dstate = "processing"
  BY <1>3 DEF DictationAt, Silent
<1>5. UNCHANGED <<dstate, target, recording, window, mic, aimed>>
  BY DEF EndType, EndCopy, objectVars
<1>6. PICK how \in {target, "clipboard"} : Delivers(how, delivery)
  BY DEF EndType, EndCopy
<1>7. \/ effects' = effects /\ \E arg : Goto(t, "refocus", arg)
      \/ \E arg : Goto(t, "complete", arg)
  BY DEF EndType, EndCopy, Complete, MayCopy, Delivers
<1>8. effects' = effects \/ effects' = [effects EXCEPT ![recording] = Append(effects[recording], how)]
  BY <1>6 DEF Delivers, Deliveries
<1>9. how \in Texts /\ how \in {aimed[recording], "clipboard"}
  BY <1>4, <1>6 DEF Aimed, Texts
<1>10. Append(effects[recording], how) = <<how>> /\ <<how>> \in Seq(Texts) /\ <<how>> # <<>>
       /\ Len(<<how>>) = 1 /\ <<how>>[1] = how
  BY <1>4, <1>9 DEF Unsent
<1>11. effects' = effects \/ effects' = [effects EXCEPT ![recording] = <<how>>]
  BY <1>8, <1>10
<1>12. DictationTypes'
  BY <1>5, <1>10, <1>11 DEF DictationInv, DictationTypes
<1>13. DictationRests'
  <2>1. ASSUME NEW i \in Interactions
        PROVE  /\ i > recording => effects'[i] = <<>>
               /\ Len(effects'[i]) <= 1
               /\ effects'[i] # <<>> => effects'[i][1] \in {aimed[i], "clipboard"}
    <3>1. CASE effects'[i] = effects[i]
      BY <3>1 DEF DictationInv, DictationRests
    <3>2. CASE i = recording /\ effects'[i] = <<how>>
      BY <1>9, <1>10, <3>2, StackAssumption DEF Interactions
    <3>3. QED BY <1>11, <3>1, <3>2 DEF DictationInv, DictationTypes
  <2>2. QED BY <1>4, <1>5, <2>1 DEF DictationRests
<1>14. DictationAt("end", "complete")' /\ (effects' = effects => DictationAt("end", "refocus")')
  BY <1>3, <1>4, <1>5 DEF DictationAt, Aimed, Unsent
<1>15. DictationInside'
  BY <1>1, <1>2, <1>7, <1>14, DictationGoesOn
<1>16. QED BY <1>12, <1>13, <1>15 DEF DictationInv

\* The end of every operation.
LEMMA CompletionKeeps ==
    ASSUME Stacks, DictationInv, NEW t \in Threads, NEW ok \in BOOLEAN,
           Cleanup(t, ok) \/ Completed(t, ok)
    PROVE  DictationInv'
<1>1. CASE Cleanup(t, ok)
  <2>1. PICK fn \in DictationFns : At(t, fn, "cleanup")
    BY <1>1 DEF Cleanup
  <2>2. DictationAt(fn, "cleanup")
    BY <2>1, DictationHere
  <2>3. UNCHANGED <<target, recording, window, aimed, effects>> /\ \E arg : Goto(t, "complete", arg)
    BY <1>1 DEF Cleanup, Complete
  <2>4. (dstate' = "processing" /\ mic' = FALSE) \/ (dstate' = "faulted" /\ mic' \in {mic, FALSE})
    BY <1>1 DEF Cleanup
  <2>5. mic' \in BOOLEAN
    BY <2>4, Zenon DEF DictationInv, DictationTypes
  <2>6. DictationTypes' /\ DictationRests'
    BY <2>3, <2>4, <2>5 DEF DictationInv, DictationTypes, DictationRests, States
  <2>7. DictationAt(fn, "complete")'
    BY <2>2, <2>3, <2>4 DEF DictationAt, Silent
  <2>8. DictationInside'
    BY <2>1, <2>3, <2>7, DictationGoesOn
  <2>9. QED BY <2>6, <2>8 DEF DictationInv
<1>2. CASE Completed(t, ok)
  <2>1. PICK fn \in DictationFns : At(t, fn, "complete")
    BY <1>2 DEF Completed
  <2>2. DictationAt(fn, "complete")
    BY <2>1, DictationHere
  <2>3. UNCHANGED <<recording, window, mic, aimed, effects>> /\ \E v : Return(t, v)
    BY <1>2 DEF Completed, worldVars
  <2>4. dstate' = IF dstate = "faulted" THEN dstate ELSE "idle"
    BY <1>2 DEF Completed
  <2>5. DictationTypes' /\ DictationRests'
    BY <2>2, <2>3, <2>4 DEF DictationInv, DictationTypes, DictationRests, DictationAt, States
  <2>6. DictationInside'
    BY <2>1, <2>3, <2>4, DictationReturns
  <2>7. QED BY <2>5, <2>6 DEF DictationInv
<1>3. QED BY <1>1, <1>2

\* Every step of dictation keeps its invariant.
LEMMA DictationStepKeeps ==
    ASSUME Stacks, DictationInv, NEW t \in Threads, DictationStep(t)
    PROVE  DictationInv'
BY HomeKeeps, HomeGoesOn, EndKeeps, EndGoesOn, DeliveryKeeps, CompletionKeeps DEF DictationStep

\* Every other step leaves dictation alone, calls of its operations included.
LEMMA OthersLeaveDictation ==
    ASSUME Stacks, DictationInv, NEW t \in Threads, Advance(t), ~ DictationStep(t)
    PROVE  Leaves(DictationFns) /\ UNCHANGED dictationVars
<1>1. "handle" \notin DictationFns /\ "confirm" \notin DictationFns
      /\ {"handle"} \cap DictationFns = {} /\ PanelFns \cap DictationFns = {}
  BY DEF DictationFns, PanelFns
<1>2. CASE HandleStep(t)
  <2>1. UNCHANGED dictationVars
    BY <1>2 DEF HandleStep, HandleEnters, HandlerAnswered, HandleSamples, HandleActs,
       HandlerReturns,
       Handling
  <2>2. CASE Goes(t, {"handle"})
    BY <1>1, <2>1, <2>2, GoesLeaves
  <2>3. ASSUME NEW arg, NEW fn, Adds(t, "result", arg, Frame(fn, "lock", NoArg)), Top(t).fn = "handle"
        PROVE  Leaves(DictationFns)
    BY <1>1, <2>3, FrameMade, AddsLeaves
  <2>4. QED BY <1>2, <2>1, <2>2, <2>3, HandleMoves
<1>3. CASE PanelStep(t) /\ UNCHANGED <<dictationVars, endpointVars, controlVars>>
  BY <1>1, <1>3, PanelGoes, GoesLeaves
<1>4. ASSUME NEW ok, NEW request, ConfirmSends(t, ok, request), UNCHANGED dictationVars
      PROVE  Leaves(DictationFns)
  <2>1. Goes(t, PanelFns) \/ Adds(t, "result", Top(t).arg, Frame("handle", "lock", request))
    BY <1>4, SendMoves
  <2>2. Top(t).fn \notin DictationFns
    BY <1>1, <1>4, SendMoves
  <2>3. QED BY <1>1, <2>1, <2>2, GoesLeaves, FrameMade, AddsLeaves
<1>5. QED BY <1>2, <1>3, <1>4 DEF Advance

\* Every step of the system does.
LEMMA DictationKeeps == Stacks /\ DictationInv /\ [Next]_vars => DictationInv'
<1> SUFFICES ASSUME Stacks, DictationInv, [Next]_vars PROVE DictationInv'
  OBVIOUS
<1>1. ASSUME Leaves(DictationFns), UNCHANGED dictationVars PROVE DictationInv'
  <2>1. UNCHANGED <<dstate, target, recording, mic, aimed, effects>> /\ window' \in Windows
    BY <1>1 DEF dictationVars, objectVars, worldVars, DictationInv, DictationTypes
  <2>2. QED BY <1>1, <2>1, DictationElsewhere
<1>2. ASSUME NEW t \in Threads, Advance(t) PROVE DictationInv'
  BY <1>1, <1>2, DictationStepKeeps, OthersLeaveDictation
<1>3. ASSUME NEW t \in Threads, Serve(t) \/ PressKey(t) \/ UsePanel(t) PROVE DictationInv'
  BY <1>1, <1>3, CallLeaves DEF Serve, PressKey, UsePanel
<1>4. ASSUME NEW w \in Windows, FocusMoves(w) PROVE DictationInv'
  <2>1. stack' = stack /\ UNCHANGED <<dstate, target, recording, mic, aimed, effects>>
        /\ window' \in Windows
    BY <1>4 DEF FocusMoves, stackVars, objectVars
  <2>2. QED BY <2>1, StacksKept, DictationElsewhere
<1>5. ASSUME stack' = stack, UNCHANGED dictationVars PROVE DictationInv'
  BY <1>1, <1>5, StacksKept
<1>6. CASE World
  BY <1>4, <1>5, <1>6 DEF World, ContextMoves, PreviewExpires, stackVars
<1>7. CASE UNCHANGED vars
  BY <1>5, <1>7 DEF vars, stackVars
<1>8. QED BY <1>2, <1>3, <1>6, <1>7 DEF Next

\* Dictation is idle at first.
LEMMA DictationStarts == Init => DictationInv
<1> SUFFICES ASSUME Init PROVE DictationInv
  OBVIOUS
<1>1. Nobody(DictationFns)
  BY DEF Init, Nobody, Owner
<1>2. /\ dstate = "idle" /\ recording = 0 /\ mic = FALSE
      /\ window = (CHOOSE w \in Windows : TRUE)
      /\ aimed = [i \in Interactions |-> None] /\ effects = [i \in Interactions |-> <<>>]
  BY DEF Init, DictationInit
<1>3. mic \in BOOLEAN /\ ~ mic
  BY <1>2, Zenon
<1>4. window \in Windows
  BY <1>2, WindowAssumption
<1>5. DictationTypes
  BY <1>2, <1>3, <1>4, StackAssumption DEF DictationTypes, States
<1>6. DictationRests
  BY <1>2, <1>3 DEF DictationRests
<1>7. QED BY <1>1, <1>2, <1>5, <1>6 DEF DictationInv, DictationInside

\* The microphone records only for a recording that will be closed, or the fault is
\* latched; a recording has one effect at most, where it was aimed or in the
\* clipboard, whatever callbacks call back in and other threads do (dictation.py).
THEOREM DictationAlwaysAccounted == Spec => []DictationAccounted
<1>1. Stacks /\ DictationInv => DictationAccounted
  <2> SUFFICES ASSUME Stacks, DictationInv PROVE DictationAccounted
    OBVIOUS
  <2>1. dstate = "processing" => Inside(DictationFns) # {}
    <3> SUFFICES ASSUME dstate = "processing" PROVE Inside(DictationFns) # {}
      OBVIOUS
    <3>1. PICK u \in Threads, j \in Nat : Owner(DictationFns, u, j)
      BY DEF DictationInv, DictationInside, Sole
    <3>2. j \in DOMAIN stack[u]
      BY <3>1 DEF Owner, Stacks, IsStack
    <3>3. QED BY <3>1, <3>2 DEF Owner, Inside
  <2>2. mic => dstate \in {"recording", "faulted", "processing"}
    BY DEF DictationInv, DictationTypes, DictationRests, States
  <2>3. QED
    BY <2>1, <2>2, WindowAssumption DEF DictationInv, DictationRests, DictationAccounted, Aimed
<1>2. QED
  BY <1>1, StacksStart, StacksKeep, DictationStarts, DictationKeeps, PTL DEF Spec

-----------------------------------------------------------------------------
(* What the frames carry *)

Busy == {"present", "view", "confirm"}
HandleFns == {"handle"}

\* A request with an ID, and with a token if it confirms; a preview that is read.
IsRequest(r) == /\ \E S : r \in [id : Ids, op : S, epoch : S, token : S, sample : S]
                /\ r.op = "confirm" => r.token \in Tokens
IsReading(a) == (\E S : a \in [p : S, link : S, seen : S]) /\ a.p.token \in Tokens

Carries(fn, at, arg) ==
    /\ fn = "handle" => IsRequest(arg)
    /\ fn = "present" /\ at = "lock" => arg.token \in Tokens
    /\ fn \in Busy /\ at # "lock" => IsReading(arg)

CarryInv ==
    \A t \in Threads : \A i \in 1 .. Len(stack[t]) :
        Carries(stack[t][i].fn, stack[t][i].at, stack[t][i].arg)

CallInv ==
    /\ CarryInv
    /\ calls \in 0 .. MaxCalls /\ \A t \in Threads : stack[t] # <<>> => calls > 0
    /\ preview = NoPreview \/ preview.token \in Tokens

\* A new request has the fields it was made with.
LEMMA RequestMade ==
    ASSUME NEW id \in Ids, NEW op, NEW epoch, NEW token, op = "confirm" => token \in Tokens
    PROVE  /\ IsRequest(Request(id, op, epoch, token)) /\ Request(id, op, epoch, token).op = op
           /\ Request(id, op, epoch, token).token = token
<1> DEFINE S == {op, epoch, token, <<>>}
<1>1. Request(id, op, epoch, token) \in [id : Ids, op : S, epoch : S, token : S, sample : S]
  BY DEF Request
<1>2. QED BY <1>1 DEF IsRequest, Request

\* The state it samples does not change what it asks for.
LEMMA RequestSampled ==
    ASSUME NEW r, IsRequest(r), NEW x
    PROVE  /\ IsRequest([r EXCEPT !.sample = x]) /\ [r EXCEPT !.sample = x].id = r.id
           /\ [r EXCEPT !.sample = x].op = r.op /\ [r EXCEPT !.sample = x].token = r.token
<1> PICK S : r \in [id : Ids, op : S, epoch : S, token : S, sample : S]
  BY DEF IsRequest
<1> DEFINE U == S \cup {x}
           q == [r EXCEPT !.sample = x]
<1>1. r \in [id : Ids, op : U, epoch : U, token : U, sample : U] /\ x \in U
  OBVIOUS
<1> HIDE DEF U
<1>2. /\ q \in [id : Ids, op : U, epoch : U, token : U, sample : U]
      /\ q.id = r.id /\ q.op = r.op /\ q.token = r.token
  BY <1>1
<1>3. QED BY <1>2 DEF IsRequest

\* The same for a preview that is read.
LEMMA ReadingMade ==
    ASSUME NEW p, p.token \in Tokens, NEW l
    PROVE  /\ IsReading([p |-> p, link |-> l, seen |-> <<>>])
           /\ [p |-> p, link |-> l, seen |-> <<>>].p = p
<1> DEFINE S == {p, l, <<>>}
<1>1. [p |-> p, link |-> l, seen |-> <<>>] \in [p : S, link : S, seen : S]
  OBVIOUS
<1>2. QED BY <1>1 DEF IsReading

\* The state sampled for it does not change the preview.
LEMMA ReadingSampled ==
    ASSUME NEW a, IsReading(a), NEW x
    PROVE  IsReading([a EXCEPT !.seen = x]) /\ [a EXCEPT !.seen = x].p = a.p
<1> PICK S : a \in [p : S, link : S, seen : S]
  BY DEF IsReading
<1> DEFINE U == S \cup {x}
           b == [a EXCEPT !.seen = x]
<1>1. a \in [p : U, link : U, seen : U] /\ x \in U
  OBVIOUS
<1> HIDE DEF U
<1>2. b \in [p : U, link : U, seen : U] /\ b.p = a.p
  BY <1>1
<1>3. QED BY <1>2 DEF IsReading

\* Every frame carries the argument its place needs: a frame that moves.
LEMMA CarryTurns ==
    ASSUME CarryInv, NEW t \in Threads, NEW at, NEW arg, Turns(t, at, arg), Carries(Top(t).fn, at, arg)
    PROVE  CarryInv'
BY DEF CarryInv, Turns, TopIs, Aside

\* A frame that ends.
LEMMA CarryEnds ==
    ASSUME CarryInv, NEW t \in Threads, Ends(t)
    PROVE  CarryInv'
BY DEF CarryInv, Ends, Aside

\* A nested frame.
LEMMA CarryAdds ==
    ASSUME CarryInv, NEW t \in Threads, NEW at, NEW arg, NEW f, Adds(t, at, arg, f),
           Carries(Top(t).fn, at, arg), Carries(f.fn, f.at, f.arg)
    PROVE  CarryInv'
<1> SUFFICES ASSUME NEW u \in Threads, NEW i \in 1 .. Len(stack'[u])
             PROVE  Carries(stack'[u][i].fn, stack'[u][i].at, stack'[u][i].arg)
  BY DEF CarryInv
<1>1. CASE u # t
  BY <1>1 DEF CarryInv, Adds, Aside
<1>2. CASE u = t /\ i \in 1 .. Len(stack[t]) - 1
  BY <1>2 DEF CarryInv, Adds, TopIs, Aside
<1>3. CASE u = t /\ i = Len(stack[t])
  BY <1>3 DEF Adds, TopIs
<1>4. CASE u = t /\ i = Len(stack[t]) + 1
  BY <1>4 DEF Adds
<1>5. QED BY <1>1, <1>2, <1>3, <1>4 DEF Adds, TopIs

\* The first frame of a thread.
LEMMA CarryBegins ==
    ASSUME CarryInv, NEW t \in Threads, NEW f, Begins(t, f), Carries(f.fn, f.at, f.arg)
    PROVE  CarryInv'
BY DEF CarryInv, Begins, Aside

\* So the frame a step looks at does.
LEMMA TopCarries ==
    ASSUME Stacks, CarryInv, NEW t \in Threads, stack[t] # <<>>
    PROVE  Carries(Top(t).fn, Top(t).at, Top(t).arg)
<1>1. PICK S : stack[t] \in Seq(S)
  BY DEF Stacks, IsStack
<1>2. Len(stack[t]) \in 1 .. Len(stack[t])
  BY <1>1
<1>3. QED BY <1>2 DEF CarryInv, Top

\* Calls bring the right arguments.
LEMMA CarryCalls ==
    ASSUME Stacks, CarryInv, NEW t \in Threads, NEW fn, NEW arg, Call(t, fn, arg), Carries(fn, "lock", arg)
    PROVE  CarryInv'
<1> DEFINE f == Frame(fn, "lock", arg)
<1>1. f.fn = fn /\ f.at = "lock" /\ f.arg = arg
  BY FrameMade
<1> HIDE DEF f
<1>2. CASE Begins(t, f)
  BY <1>1, <1>2, CarryBegins
<1>3. CASE Adds(t, Top(t).at, Top(t).arg, f)
  <2>1. Carries(Top(t).fn, Top(t).at, Top(t).arg)
    BY <1>3, TopCarries DEF Adds, TopIs
  <2>2. QED BY <1>1, <1>3, <2>1, CarryAdds
<1>4. QED BY <1>2, <1>3, CallAdds DEF f

\* The number of calls, and that a frame comes of one.
LEMMA CallsGoOn ==
    ASSUME CallInv, NEW t \in Threads, stack[t] # <<>>, calls' = calls,
           \A u \in Threads : u # t => stack'[u] = stack[u]
    PROVE  calls' \in 0 .. MaxCalls /\ \A u \in Threads : stack'[u] # <<>> => calls' > 0
BY DEF CallInv

\* The dispatcher hands them on.
LEMMA HandleCarries ==
    ASSUME Stacks, CallInv, NEW t \in Threads, HandleStep(t)
    PROVE  CallInv'
<1>1. stack[t] # <<>> /\ Top(t).fn = "handle"
  BY DEF HandleStep, HandleEnters, HandlerAnswered, HandleSamples, HandleActs, HandlerReturns, At
<1>2. IsRequest(Top(t).arg)
  BY <1>1, TopCarries DEF CallInv, Carries
<1>3. ASSUME NEW at, NEW arg, Goto(t, at, arg), IsRequest(arg)
      PROVE  CarryInv' /\ Aside(t)
  <2>1. Carries("handle", at, arg)
    BY <1>3 DEF Carries, Busy
  <2>2. QED BY <1>1, <1>3, <2>1, GotoTurns, CarryTurns DEF CallInv, Turns
<1>4. ASSUME NEW v, Return(t, v)
      PROVE  CarryInv' /\ Aside(t)
  BY <1>1, <1>4, ReturnEnds, CarryEnds DEF CallInv, Ends
<1>5. ASSUME NEW fn \in DictationFns, Await(t, Frame(fn, "lock", NoArg), Top(t).arg)
      PROVE  CarryInv' /\ Aside(t)
  <2> DEFINE f == Frame(fn, "lock", NoArg)
  <2>1. IsFrame(f) /\ f.fn = fn /\ f.at = "lock"
    BY FrameMade
  <2> HIDE DEF f
  <2>2. Carries(f.fn, f.at, f.arg) /\ Carries("handle", "result", Top(t).arg)
    BY <1>2, <2>1 DEF Carries, Busy, DictationFns
  <2>3. Adds(t, "result", Top(t).arg, f)
    BY <1>1, <1>5, <2>1, AwaitAdds DEF f
  <2>4. QED BY <1>1, <2>2, <2>3, CarryAdds DEF CallInv, Adds
<1>6. CarryInv' /\ Aside(t)
  <2>1. ASSUME NEW ok \in BOOLEAN, HandleSamples(t, ok) PROVE CarryInv' /\ Aside(t)
    <3>1. (\E v : Return(t, v)) \/ Goto(t, "recheck", [Top(t).arg EXCEPT !.sample = Sample])
      BY <2>1 DEF HandleSamples
    <3>2. IsRequest([Top(t).arg EXCEPT !.sample = Sample])
      BY <1>2, RequestSampled
    <3>3. QED BY <1>3, <1>4, <3>1, <3>2
  <2>2. ASSUME NEW ok \in BOOLEAN, HandleActs(t, ok) PROVE CarryInv' /\ Aside(t)
    <3>1. \/ \E v : Return(t, v)
          \/ Goto(t, "handler", Top(t).arg)
          \/ /\ Top(t).arg.op \in DOMAIN HandlerOf
             /\ Await(t, Frame(HandlerOf[Top(t).arg.op], "lock", NoArg), Top(t).arg)
      BY <2>2 DEF HandleActs
    <3>2. \A op \in DOMAIN HandlerOf : HandlerOf[op] \in DictationFns
      BY DEF HandlerOf, DictationFns
    <3>3. QED BY <1>2, <1>3, <1>4, <1>5, <3>1, <3>2
  <2>3. ASSUME HandleEnters(t) \/ HandlerAnswered(t) PROVE CarryInv' /\ Aside(t)
    BY <1>2, <1>3, <1>4, <2>3 DEF HandleEnters, HandlerAnswered, Lock
  <2>4. ASSUME NEW reply, HandlerReturns(t, reply) PROVE CarryInv' /\ Aside(t)
    BY <1>4, <2>4 DEF HandlerReturns
  <2>5. QED BY <2>1, <2>2, <2>3, <2>4 DEF HandleStep
<1>7. calls' = calls /\ preview' = preview
  <2>1. preview' = preview
    BY DEF HandleStep, HandleEnters, HandlerAnswered, HandleSamples, HandleActs, HandlerReturns,
       Handling,
       panelVars, panelObject
  <2>2. calls' = calls
    BY DEF HandleStep, HandleEnters, HandlerAnswered, HandleSamples, HandleActs, HandlerReturns,
       Lock,
       Goto, Return, Await
  <2>3. QED BY <2>1, <2>2
<1>8. QED BY <1>1, <1>6, <1>7, CallsGoOn DEF CallInv, Aside

\* Dictation changes none of them.
LEMMA DictationCarries ==
    ASSUME Stacks, CallInv, NEW t \in Threads, DictationStep(t), preview' = preview
    PROVE  CallInv'
<1>1. Goes(t, DictationFns)
  BY DictationGoes
<1>2. CarryInv' /\ Aside(t)
  <2>1. ASSUME NEW at, NEW arg, Turns(t, at, arg) PROVE CarryInv' /\ Aside(t)
    <3>1. Carries(Top(t).fn, at, arg)
      BY <1>1 DEF Goes, Carries, Busy, DictationFns
    <3>2. QED BY <2>1, <3>1, CarryTurns DEF CallInv, Turns
  <2>2. QED BY <1>1, <2>1, CarryEnds DEF Goes, CallInv, Ends
<1>3. calls' = calls
  <2>1. (\E at, arg : Goto(t, at, arg)) \/ (\E v : Return(t, v))
    BY DictationForms
  <2>2. QED BY <2>1 DEF Goto, Return
<1>4. QED BY <1>1, <1>2, <1>3, CallsGoOn DEF CallInv, Aside, Goes

-----------------------------------------------------------------------------
(* The panel *)

\* Tokens that were shown and are not yet confirmed.
OpenTokens == {k \in shown : confirmed[k] = 0}

TokenInv ==
    /\ pbusy \in BOOLEAN
    /\ confirmed \in [Tokens -> Nat]
    /\ \A k \in Tokens : confirmed[k] <= 1 /\ (k \notin shown => confirmed[k] = 0)
    /\ preview # NoPreview => preview.token \in OpenTokens

\* What holds while an operation of the panel is at a place past its lock: a
\* confirmation has taken the preview, and until it is sent its token is open.
PanelAt(fn, at, arg) ==
    /\ fn = "present" /\ at \in {"state", "clock"} => arg.p.token \notin shown
    /\ fn = "confirm" => preview = NoPreview
    /\ fn = "confirm" /\ at \in {"state", "clock", "restate", "reclock"} => arg.p.token \in OpenTokens

\* One of them is, and only while the panel is busy.
PanelInside ==
    \/ Nobody(Busy) /\ ~ pbusy
    \/ pbusy /\ \E fn, at, arg : Sole(Busy, fn, at, arg) /\ PanelAt(fn, at, arg)

PanelInv == TokenInv /\ PanelInside

\* Other objects keep the invariant of the panel, and at most take its preview away.
LEMMA PanelElsewhere ==
    ASSUME PanelInv, Leaves(Busy), pbusy' = pbusy, shown' = shown, confirmed' = confirmed,
           preview' \in {preview, NoPreview}
    PROVE  PanelInv'
<1>1. TokenInv'
  BY DEF PanelInv, TokenInv, OpenTokens
<1>2. ASSUME NEW fn, NEW at, NEW arg, PanelAt(fn, at, arg) PROVE PanelAt(fn, at, arg)'
  BY <1>2 DEF PanelAt, OpenTokens
<1>3. PanelInside'
  BY <1>2, LeavesKeeps DEF PanelInv, PanelInside
<1>4. QED BY <1>1, <1>3 DEF PanelInv

\* A panel frame past its lock is the only one, and its place says what holds.
LEMMA PanelHere ==
    ASSUME Stacks, PanelInv, NEW t \in Threads, NEW fn \in Busy, NEW at, At(t, fn, at), at # "lock"
    PROVE  Alone(Busy) /\ pbusy /\ PanelAt(fn, at, Top(t).arg)
<1>1. Len(stack[t]) \in Nat \ {0} /\ Owner(Busy, t, Len(stack[t]))
  BY TopOwns DEF At
<1>2. PICK f, a, x : Sole(Busy, f, a, x) /\ PanelAt(f, a, x)
  BY <1>1 DEF PanelInv, PanelInside, Nobody
<1>3. f = fn /\ a = at /\ x = Top(t).arg
  BY <1>1, <1>2 DEF Sole, At, Top
<1>4. pbusy
  BY <1>1 DEF PanelInv, PanelInside, Nobody
<1>5. QED BY <1>2, <1>3, <1>4 DEF Alone

\* From one place of an operation to the next.
LEMMA PanelGoesOn ==
    ASSUME Stacks, CallInv, PanelInv, NEW t \in Threads, NEW fn \in Busy, NEW from, At(t, fn, from),
           from # "lock" \/ ~ pbusy,
           NEW at, NEW arg, Goto(t, at, arg), at # "lock", IsReading(arg), PanelAt(fn, at, arg)',
           pbusy' = TRUE
    PROVE  PanelInside' /\ CarryInv'
<1>1. Turns(t, at, arg)
  BY GotoTurns DEF At
<1>2. Nobody(Busy) \/ (Alone(Busy) /\ Top(t).at # "lock")
  BY PanelHere DEF At, PanelInv, PanelInside
<1>3. Sole(Busy, fn, at, arg)'
  BY <1>1, <1>2, SoleGoesOn DEF At
<1>4. Carries(fn, at, arg)
  BY DEF Carries, Busy
<1>5. CarryInv'
  BY <1>1, <1>4, CarryTurns DEF CallInv, At
<1>6. QED BY <1>3, <1>5 DEF PanelInside

\* From its last place back to rest.
LEMMA PanelReleases ==
    ASSUME Stacks, CallInv, PanelInv, NEW t \in Threads, NEW fn \in Busy, NEW from, At(t, fn, from),
           from # "lock", NEW v, Release(t, v)
    PROVE  PanelInside' /\ CarryInv' /\ pbusy' \in BOOLEAN
<1>1. Ends(t) /\ pbusy' = FALSE
  BY ReturnEnds DEF At, Release
<1>2. Nobody(Busy)'
  BY <1>1, PanelHere, SoleEnds DEF At
<1>3. CarryInv'
  BY <1>1, CarryEnds DEF CallInv
<1>4. pbusy' \in BOOLEAN
  BY <1>1, Zenon
<1>5. QED BY <1>1, <1>2, <1>3, <1>4 DEF PanelInside

\* A call that is refused, and connect and disconnect, which drop the preview.
LEMMA PanelRefuses ==
    ASSUME Stacks, CallInv, PanelInv, NEW t \in Threads, NEW fn, At(t, fn, "lock"), NEW v, Return(t, v),
           pbusy' = pbusy, shown' = shown, confirmed' = confirmed, preview' \in {preview, NoPreview}
    PROVE  PanelInv' /\ CarryInv'
<1>1. Leaves(Busy) /\ CarryInv'
  BY ReturnEnds, RefusedLeaves, CarryEnds DEF At, CallInv
<1>2. QED BY <1>1, PanelElsewhere

\* What the panel's steps leave for the tokens.
PanelKept ==
    PanelInv' /\ CarryInv' /\ shown \subseteq shown' /\ (preview' = NoPreview \/ preview'.token \in Tokens)

\* The operations of the panel past their lock.
LEMMA PanelEnters ==
    ASSUME Stacks, CallInv, PanelInv, NEW t \in Threads, confirmed' = confirmed,
           Connect(t) \/ PresentEnters(t) \/ ViewEnters(t) \/ ConfirmEnters(t)
    PROVE  PanelKept
<1> USE DEF PanelKept
<1>1. CASE Connect(t)
  <2>1. PICK fn : At(t, fn, "lock")
    BY <1>1 DEF Connect, EntersPanel
  <2>2. /\ Return(t, "ok") /\ pbusy' = pbusy /\ shown' = shown /\ preview' = NoPreview
    BY <1>1 DEF Connect
  <2>3. QED BY <2>1, <2>2, PanelRefuses
<1>2. CASE PresentEnters(t)
  <2>1. At(t, "present", "lock") /\ shown' = shown /\ "present" \in Busy
    BY <1>2 DEF PresentEnters, EntersPanel, Busy
  <2>2. CASE pbusy \/ ~ session
    <3>1. Return(t, "blocked") /\ pbusy' = pbusy /\ preview' = preview
      BY <1>2, <2>2 DEF PresentEnters
    <3>2. QED BY <2>1, <3>1, PanelRefuses DEF CallInv
  <2>3. CASE ~ (pbusy \/ ~ session)
    <3>1. PICK arg : /\ arg = [p |-> Top(t).arg, link |-> link, seen |-> <<>>]
                     /\ Goto(t, "now", arg) /\ pbusy' = TRUE /\ preview' = NoPreview
      BY <1>2, <2>3 DEF PresentEnters
    <3>2. Top(t).arg.token \in Tokens
      BY <2>1, TopCarries DEF CallInv, Carries, At
    <3>3. IsReading(arg)
      BY <3>1, <3>2, ReadingMade
    <3>4. PanelAt("present", "now", arg)'
      BY DEF PanelAt
    <3>5. PanelInside' /\ CarryInv'
      BY <2>1, <2>3, <3>1, <3>3, <3>4, PanelGoesOn
    <3>6. pbusy' \in BOOLEAN
      BY <3>1, Zenon
    <3>7. TokenInv'
      BY <2>1, <3>1, <3>6 DEF PanelInv, TokenInv, OpenTokens
    <3>8. QED BY <2>1, <3>1, <3>5, <3>7 DEF PanelInv
  <2>4. QED BY <2>2, <2>3
<1>3. CASE ViewEnters(t) \/ ConfirmEnters(t)
  <2>1. PICK fn \in {"view", "confirm"} : /\ At(t, fn, "lock")
                                         /\ \/ fn = "view" /\ ViewEnters(t)
                                            \/ fn = "confirm" /\ ConfirmEnters(t)
    BY <1>3 DEF ViewEnters, ConfirmEnters, EntersPanel
  <2>2. shown' = shown /\ fn \in Busy
    BY <1>3 DEF ViewEnters, ConfirmEnters, Busy
  <2>3. CASE pbusy \/ preview = NoPreview
    <3>1. CASE ViewEnters(t)
      <4>1. Return(t, "ok") /\ pbusy' = pbusy /\ preview' = preview
        BY <2>3, <3>1 DEF ViewEnters
      <4>2. QED BY <2>1, <2>2, <4>1, PanelRefuses DEF CallInv
    <3>2. CASE ConfirmEnters(t)
      <4>1. Return(t, "blocked") /\ pbusy' = pbusy /\ preview' = preview
        BY <2>3, <3>2 DEF ConfirmEnters
      <4>2. QED BY <2>1, <2>2, <4>1, PanelRefuses DEF CallInv
    <3>3. QED BY <2>1, <3>1, <3>2
  <2>4. CASE ~ (pbusy \/ preview = NoPreview)
    <3>1. PICK arg : /\ arg = [p |-> preview, link |-> link, seen |-> <<>>]
                     /\ Goto(t, "state", arg) /\ pbusy' = TRUE
                     /\ preview' = IF fn = "view" THEN preview ELSE NoPreview
      <4>1. CASE fn = "view" /\ ViewEnters(t)
        BY <2>4, <4>1 DEF ViewEnters, Reading
      <4>2. CASE fn = "confirm" /\ ConfirmEnters(t)
        BY <2>4, <4>2 DEF ConfirmEnters, Reading, Consumed
      <4>3. QED BY <2>1, <4>1, <4>2
    <3>2. preview.token \in Tokens /\ preview.token \in OpenTokens
      BY <2>4 DEF CallInv, PanelInv, TokenInv
    <3>3. IsReading(arg) /\ arg.p = preview
      BY <3>1, <3>2, ReadingMade
    <3>4. PanelAt(fn, "state", arg)'
      BY <2>2, <3>1, <3>2, <3>3 DEF PanelAt, OpenTokens
    <3>5. PanelInside' /\ CarryInv'
      BY <2>1, <2>2, <2>4, <3>1, <3>3, <3>4, PanelGoesOn
    <3>6. pbusy' \in BOOLEAN
      BY <3>1, Zenon
    <3>7. TokenInv'
      BY <2>2, <3>1, <3>6 DEF PanelInv, TokenInv, OpenTokens
    <3>8. QED BY <2>2, <3>1, <3>2, <3>5, <3>7 DEF PanelInv
  <2>5. QED BY <2>3, <2>4
<1>4. QED BY <1>1, <1>2, <1>3

\* An operation of the panel ends without showing anything new.
LEMMA PanelEnds ==
    ASSUME Stacks, CallInv, PanelInv, NEW t \in Threads, NEW fn \in Busy, NEW from, At(t, fn, from),
           from # "lock", NEW v, Release(t, v),
           shown' = shown, confirmed' = confirmed, preview' \in {preview, NoPreview}
    PROVE  PanelKept
<1>1. PanelInside' /\ CarryInv' /\ pbusy' \in BOOLEAN
  BY PanelReleases
<1>2. TokenInv'
  BY <1>1 DEF PanelInv, TokenInv, OpenTokens
<1>3. QED BY <1>1, <1>2 DEF PanelKept, PanelInv, CallInv

\* The panel after it has read the clock or the voice state.
LEMMA PanelReads ==
    ASSUME Stacks, CallInv, PanelInv, NEW t \in Threads, NEW ok \in BOOLEAN, confirmed' = confirmed,
           PresentNow(t, ok) \/ Samples(t, ok) \/ ConfirmReads(t, ok)
    PROVE  PanelKept
<1>1. PICK fn \in Busy, from \in {"now", "state", "restate", "clock"} :
         /\ At(t, fn, from)
         /\ \/ PresentNow(t, ok) /\ fn = "present" /\ from = "now"
            \/ /\ Samples(t, ok) /\ from \in {"state", "restate"}
               /\ \/ /\ Goto(t, IF from = "state" THEN "clock" ELSE "reclock",
                            [Top(t).arg EXCEPT !.seen = voiceState])
                     /\ UNCHANGED <<preview, pbusy>>
                  \/ /\ Release(t, "blocked")
                     /\ preview' \in {preview, NoPreview}
            \/ ConfirmReads(t, ok) /\ fn = "confirm" /\ from = "clock"
  BY DEF PresentNow, Samples, ConfirmReads, Busy
<1>2. shown' = shown
  BY DEF PresentNow, Samples, ConfirmReads
<1>3. Alone(Busy) /\ pbusy /\ PanelAt(fn, from, Top(t).arg)
  BY <1>1, PanelHere
<1>4. IsReading(Top(t).arg)
  BY <1>1, TopCarries DEF CallInv, Carries, At
<1>5. ASSUME NEW v, Release(t, v), preview' \in {preview, NoPreview} PROVE PanelKept
  BY <1>1, <1>2, <1>5, PanelEnds
<1>6. ASSUME NEW at, at # "lock", NEW arg, Goto(t, at, arg), IsReading(arg), arg.p = Top(t).arg.p,
             UNCHANGED <<preview, pbusy>>,
             fn = "present" /\ at \in {"state", "clock"} => Top(t).arg.p.token \notin shown
      PROVE  PanelKept
  <2>1. PanelAt(fn, at, arg)'
    BY <1>1, <1>2, <1>3, <1>6 DEF PanelAt, OpenTokens
  <2>2. pbusy' = TRUE
    BY <1>3, <1>6 DEF PanelInv, TokenInv
  <2>3. PanelInside' /\ CarryInv'
    BY <1>1, <1>6, <2>1, <2>2, PanelGoesOn
  <2>4. TokenInv'
    BY <1>2, <1>6 DEF PanelInv, TokenInv, OpenTokens
  <2>5. QED BY <1>2, <1>6, <2>3, <2>4 DEF PanelKept, PanelInv, CallInv
<1>7. CASE PresentNow(t, ok) /\ fn = "present" /\ from = "now"
  <2>1. preview' = preview
    BY <1>7 DEF PresentNow
  <2>2. \/ Goto(t, "state", Top(t).arg) /\ pbusy' = pbusy /\ Top(t).arg.p.token \notin shown
        \/ Release(t, "blocked")
    BY <1>7 DEF PresentNow
  <2>3. QED BY <1>4, <1>5, <1>6, <2>1, <2>2
<1>8. CASE ConfirmReads(t, ok) /\ fn = "confirm" /\ from = "clock"
  <2>1. preview' = preview
    BY <1>8 DEF ConfirmReads
  <2>2. (Goto(t, "restate", Top(t).arg) /\ pbusy' = pbusy) \/ Release(t, "blocked")
    BY <1>8 DEF ConfirmReads
  <2>3. QED BY <1>4, <1>5, <1>6, <1>8, <2>1, <2>2
<1>9. CASE Samples(t, ok) /\ from \in {"state", "restate"}
  <2>1. PICK arg : arg = [Top(t).arg EXCEPT !.seen = voiceState]
    OBVIOUS
  <2>2. IsReading(arg) /\ arg.p = Top(t).arg.p
    BY <1>4, <2>1, ReadingSampled
  <2>3. CASE /\ Goto(t, IF from = "state" THEN "clock" ELSE "reclock",
                     [Top(t).arg EXCEPT !.seen = voiceState])
             /\ UNCHANGED <<preview, pbusy>>
    <3>1. CASE from = "state"
      BY <1>3, <1>6, <2>1, <2>2, <2>3, <3>1 DEF PanelAt
    <3>2. CASE from = "restate"
      BY <1>6, <2>1, <2>2, <2>3, <3>2
    <3>3. QED BY <1>9, <3>1, <3>2
  <2>4. QED BY <1>1, <1>5, <1>9, <2>3
<1>10. QED BY <1>1, <1>7, <1>8, <1>9

\* The panel as it shows a preview, and as it has sent a confirmation.
LEMMA PanelShows ==
    ASSUME Stacks, CallInv, PanelInv, NEW t \in Threads, NEW ok \in BOOLEAN, confirmed' = confirmed,
           Presented(t, ok) \/ Viewed(t, ok) \/ Confirmed(t)
    PROVE  PanelKept
<1>1. CASE Presented(t, ok)
  <2>1. At(t, "present", "clock") /\ "present" \in Busy /\ Release(t, "ok")
    BY <1>1 DEF Presented, Busy
  <2>2. \/ shown' = shown \cup {Top(t).arg.p.token} /\ preview' = Top(t).arg.p
        \/ UNCHANGED <<shown, preview>>
    BY <1>1 DEF Presented
  <2>3. PanelAt("present", "clock", Top(t).arg)
    BY <2>1, PanelHere
  <2>4. Top(t).arg.p.token \in Tokens
    BY <2>1, TopCarries DEF CallInv, Carries, At, IsReading
  <2>5. Top(t).arg.p.token \notin shown /\ confirmed[Top(t).arg.p.token] = 0
    BY <2>3, <2>4 DEF PanelAt, PanelInv, TokenInv
  <2>6. PanelInside' /\ CarryInv' /\ pbusy' \in BOOLEAN
    BY <2>1, PanelReleases
  <2>7. TokenInv'
    BY <2>2, <2>5, <2>6 DEF PanelInv, TokenInv, OpenTokens
  <2>8. QED BY <2>2, <2>4, <2>6, <2>7 DEF PanelKept, PanelInv, CallInv
<1>2. CASE Viewed(t, ok)
  <2>1. At(t, "view", "clock") /\ "view" \in Busy /\ Release(t, "ok") /\ shown' = shown
        /\ preview' \in {preview, NoPreview}
    BY <1>2 DEF Viewed, Busy
  <2>2. QED BY <2>1, PanelEnds
<1>3. CASE Confirmed(t)
  <2>1. At(t, "confirm", "result") /\ "confirm" \in Busy /\ shown' = shown /\ preview' = preview
        /\ \E v : Release(t, v)
    BY <1>3 DEF Confirmed, Busy
  <2>2. QED BY <2>1, PanelEnds
<1>4. QED BY <1>1, <1>2, <1>3

-----------------------------------------------------------------------------
(* Confirmations on their way *)

\* A request to confirm is above the confirmation that sent it and waits for it;
\* until the handler runs, its token is open.
Sent(f) == f.fn = "handle" /\ f.arg.op = "confirm"
Waiting == {"lock", "state", "recheck"}

SentInv ==
    \A t \in Threads : \A i \in 1 .. Len(stack[t]) :
        Sent(stack[t][i]) =>
            /\ i > 1 /\ stack[t][i - 1].fn = "confirm" /\ stack[t][i - 1].at = "result"
            /\ stack[t][i].at \in Waiting => stack[t][i].arg.token \in OpenTokens

OpenStays == OpenTokens \subseteq OpenTokens'

\* Confirmations in frames that a step does not touch stay what they are.
LEMMA SentBelow ==
    ASSUME SentInv, OpenStays, NEW t \in Threads, Aside(t), Len(stack[t]) \in Nat,
           NEW u \in Threads, NEW i \in 1 .. Len(stack[u]),
           u # t \/ (u = t /\ i \in 1 .. Len(stack[t]) - 1), Sent(stack'[u][i])
    PROVE  /\ i > 1 /\ stack'[u][i - 1].fn = "confirm" /\ stack'[u][i - 1].at = "result"
           /\ stack'[u][i].at \in Waiting => stack'[u][i].arg.token \in OpenTokens'
<1>1. stack'[u][i] = stack[u][i]
  BY DEF Aside
<1>2. /\ i > 1 /\ stack[u][i - 1].fn = "confirm" /\ stack[u][i - 1].at = "result"
      /\ stack[u][i].at \in Waiting => stack[u][i].arg.token \in OpenTokens
  BY <1>1 DEF SentInv
<1>3. stack'[u][i - 1] = stack[u][i - 1]
  BY <1>2 DEF Aside
<1>4. QED BY <1>1, <1>2, <1>3 DEF OpenStays

\* A confirmation that moves on.
LEMMA SentTurns ==
    ASSUME SentInv, OpenStays, NEW t \in Threads, NEW at, NEW arg, Turns(t, at, arg),
           Top(t).fn = "handle" => /\ arg.op = Top(t).arg.op /\ arg.token = Top(t).arg.token
                                   /\ at \in Waiting => Top(t).at \in Waiting
    PROVE  SentInv'
<1> SUFFICES ASSUME NEW u \in Threads, NEW i \in 1 .. Len(stack'[u]), Sent(stack'[u][i])
             PROVE  /\ i > 1 /\ stack'[u][i - 1].fn = "confirm" /\ stack'[u][i - 1].at = "result"
                    /\ stack'[u][i].at \in Waiting => stack'[u][i].arg.token \in OpenTokens'
  BY DEF SentInv
<1>1. CASE u # t \/ (u = t /\ i \in 1 .. Len(stack[t]) - 1)
  <2>1. Aside(t) /\ Len(stack[t]) \in Nat /\ i \in 1 .. Len(stack[u])
    BY <1>1 DEF Turns, TopIs, Aside
  <2>2. QED BY <1>1, <2>1, SentBelow
<1>2. CASE u = t /\ i = Len(stack[t])
  <2>1. Sent(Top(t)) /\ Top(t) = stack[t][i] /\ i \in 1 .. Len(stack[t])
    BY <1>2 DEF Turns, TopIs, Sent, Top
  <2>2. /\ i > 1 /\ stack[t][i - 1].fn = "confirm" /\ stack[t][i - 1].at = "result"
        /\ Top(t).at \in Waiting => Top(t).arg.token \in OpenTokens
    BY <2>1 DEF SentInv
  <2>3. QED BY <1>2, <2>1, <2>2 DEF OpenStays, Turns, TopIs, Aside, Sent
<1>3. QED BY <1>1, <1>2 DEF Turns, TopIs

\* One that ends.
LEMMA SentEnds ==
    ASSUME SentInv, OpenStays, NEW t \in Threads, Ends(t)
    PROVE  SentInv'
<1> SUFFICES ASSUME NEW u \in Threads, NEW i \in 1 .. Len(stack'[u]), Sent(stack'[u][i])
             PROVE  /\ i > 1 /\ stack'[u][i - 1].fn = "confirm" /\ stack'[u][i - 1].at = "result"
                    /\ stack'[u][i].at \in Waiting => stack'[u][i].arg.token \in OpenTokens'
  BY DEF SentInv
<1>1. /\ Aside(t) /\ Len(stack[t]) \in Nat /\ i \in 1 .. Len(stack[u])
      /\ u # t \/ (u = t /\ i \in 1 .. Len(stack[t]) - 1)
  BY DEF Ends, Aside
<1>2. QED BY <1>1, SentBelow

\* One that is sent, by the panel's confirm and with an open token.
LEMMA SentAdds ==
    ASSUME SentInv, OpenStays, NEW t \in Threads, NEW at, NEW arg, NEW f, Adds(t, at, arg, f),
           Top(t).fn = "handle" => arg = Top(t).arg /\ (at \in Waiting => Top(t).at \in Waiting),
           Sent(f) => Top(t).fn = "confirm" /\ at = "result" /\ f.arg.token \in OpenTokens
    PROVE  SentInv'
<1> SUFFICES ASSUME NEW u \in Threads, NEW i \in 1 .. Len(stack'[u]), Sent(stack'[u][i])
             PROVE  /\ i > 1 /\ stack'[u][i - 1].fn = "confirm" /\ stack'[u][i - 1].at = "result"
                    /\ stack'[u][i].at \in Waiting => stack'[u][i].arg.token \in OpenTokens'
  BY DEF SentInv
<1>1. CASE u # t \/ (u = t /\ i \in 1 .. Len(stack[t]) - 1)
  <2>1. Aside(t) /\ Len(stack[t]) \in Nat /\ i \in 1 .. Len(stack[u])
    BY <1>1 DEF Adds, TopIs, Aside
  <2>2. QED BY <1>1, <2>1, SentBelow
<1>2. CASE u = t /\ i = Len(stack[t])
  <2>1. Sent(Top(t)) /\ Top(t) = stack[t][i] /\ i \in 1 .. Len(stack[t])
    BY <1>2 DEF Adds, TopIs, Sent, Top
  <2>2. /\ i > 1 /\ stack[t][i - 1].fn = "confirm" /\ stack[t][i - 1].at = "result"
        /\ Top(t).at \in Waiting => Top(t).arg.token \in OpenTokens
    BY <2>1 DEF SentInv
  <2>3. QED BY <1>2, <2>1, <2>2 DEF OpenStays, Adds, TopIs, Aside, Sent
<1>3. CASE u = t /\ i = Len(stack[t]) + 1
  BY <1>3 DEF OpenStays, Adds, TopIs
<1>4. QED BY <1>1, <1>2, <1>3 DEF Adds, TopIs

\* No confirmation begins a stack.
LEMMA SentBegins ==
    ASSUME SentInv, OpenStays, NEW t \in Threads, NEW f, Begins(t, f), ~ Sent(f)
    PROVE  SentInv'
BY DEF SentInv, OpenStays, Begins, Aside

\* Operations other than handle leave confirmations alone.
LEMMA SentGoes ==
    ASSUME SentInv, OpenStays, NEW t \in Threads, NEW fns, Goes(t, fns), "handle" \notin fns
    PROVE  SentInv'
<1>1. ASSUME NEW at, NEW arg, Turns(t, at, arg) PROVE SentInv'
  BY <1>1, SentTurns DEF Goes
<1>2. QED BY <1>1, SentEnds DEF Goes

\* Calls from outside the panel are not confirmations.
LEMMA SentCalls ==
    ASSUME Stacks, SentInv, OpenStays, NEW t \in Threads, NEW fn, NEW arg, Call(t, fn, arg),
           fn = "handle" => arg.op # "confirm"
    PROVE  SentInv'
<1> DEFINE f == Frame(fn, "lock", arg)
<1>1. ~ Sent(f)
  BY FrameMade DEF Sent
<1> HIDE DEF f
<1>2. CASE Begins(t, f)
  BY <1>1, <1>2, SentBegins
<1>3. CASE Adds(t, Top(t).at, Top(t).arg, f)
  BY <1>1, <1>3, SentAdds
<1>4. QED BY <1>2, <1>3, CallAdds DEF f

-----------------------------------------------------------------------------
(* The dispatcher *)

IdInv ==
    /\ seen \subseteq Ids /\ acted \in [Ids -> Nat]
    /\ \A i \in Ids : acted[i] <= 1 /\ (i \notin seen => acted[i] = 0)

\* The request about to run has consumed its ID, and nothing has run for it.
DispatchAt(at, arg) == at = "recheck" => arg.id \in seen /\ acted[arg.id] = 0

\* One request is past the dispatcher's lock.
DispatchInside ==
    \/ Nobody(HandleFns)
    \/ \E at, arg : Sole(HandleFns, "handle", at, arg) /\ DispatchAt(at, arg)

DispatchInv == IdInv /\ DispatchInside

ControlInv == CallInv /\ PanelInv /\ SentInv /\ DispatchInv

\* Other objects keep the invariant of the dispatcher.
LEMMA DispatchElsewhere ==
    ASSUME DispatchInv, Leaves(HandleFns), UNCHANGED <<seen, acted>>
    PROVE  DispatchInv'
<1>1. IdInv'
  BY DEF DispatchInv, IdInv
<1>2. ASSUME NEW at, NEW arg, DispatchAt(at, arg) PROVE DispatchAt(at, arg)'
  BY <1>2 DEF DispatchAt
<1>3. DispatchInside'
  BY <1>2, LeavesKeeps DEF DispatchInv, DispatchInside
<1>4. QED BY <1>1, <1>3 DEF DispatchInv

\* A request past the dispatcher's lock is the only one.
LEMMA DispatchHere ==
    ASSUME Stacks, DispatchInv, NEW t \in Threads, NEW at, At(t, "handle", at), at # "lock"
    PROVE  Alone(HandleFns) /\ DispatchAt(at, Top(t).arg)
<1>1. "handle" \in HandleFns
  BY DEF HandleFns
<1>2. Len(stack[t]) \in Nat \ {0} /\ Owner(HandleFns, t, Len(stack[t]))
  BY <1>1, TopOwns DEF At
<1>3. PICK a, x : Sole(HandleFns, "handle", a, x) /\ DispatchAt(a, x)
  BY <1>2 DEF DispatchInv, DispatchInside, Nobody
<1>4. a = at /\ x = Top(t).arg
  BY <1>2, <1>3 DEF Sole, At, Top
<1>5. QED BY <1>3, <1>4 DEF Alone

\* From one place of handle to the next.
LEMMA DispatchGoesOn ==
    ASSUME Stacks, DispatchInv, NEW t \in Threads, NEW from, At(t, "handle", from),
           from # "lock" \/ Nobody(HandleFns),
           NEW at, NEW arg, Goto(t, at, arg), at # "lock", DispatchAt(at, arg)'
    PROVE  DispatchInside'
<1>1. Turns(t, at, arg) /\ "handle" \in HandleFns
  BY GotoTurns DEF At, HandleFns
<1>2. Nobody(HandleFns) \/ (Alone(HandleFns) /\ Top(t).at # "lock")
  BY DispatchHere DEF At
<1>3. Sole(HandleFns, "handle", at, arg)'
  BY <1>1, <1>2, SoleGoesOn DEF At
<1>4. QED BY <1>3 DEF DispatchInside

\* A request that ends without a handler leaves its ID as it was.
LEMMA DispatchReturns ==
    ASSUME Stacks, DispatchInv, NEW t \in Threads, NEW from, At(t, "handle", from), NEW v, Return(t, v),
           UNCHANGED <<seen, acted>>
    PROVE  DispatchInv'
<1>1. Ends(t) /\ "handle" \in HandleFns
  BY ReturnEnds DEF At, HandleFns
<1>2. CASE from = "lock"
  BY <1>1, <1>2, RefusedLeaves, DispatchElsewhere DEF At
<1>3. CASE from # "lock"
  <2>1. Nobody(HandleFns)'
    BY <1>1, <1>3, DispatchHere, SoleEnds DEF At
  <2>2. QED BY <2>1 DEF DispatchInv, DispatchInside, IdInv
<1>4. QED BY <1>2, <1>3

\* What the dispatcher's steps mean for the panel, if nothing is confirmed.
LEMMA HandleLeavesPanel ==
    ASSUME Stacks, PanelInv, SentInv, NEW t \in Threads, HandleStep(t), confirmed' = confirmed,
           \/ \E v : Return(t, v)
           \/ \E at, arg : /\ Goto(t, at, arg) /\ arg.op = Top(t).arg.op /\ arg.token = Top(t).arg.token
                           /\ at \in Waiting => Top(t).at \in Waiting
           \/ \E fn \in DictationFns : Await(t, Frame(fn, "lock", NoArg), Top(t).arg)
    PROVE  PanelInv' /\ SentInv'
<1>1. stack[t] # <<>> /\ Top(t).fn = "handle"
  BY DEF HandleStep, HandleEnters, HandlerAnswered, HandleSamples, HandleActs, HandlerReturns, At
<1>2. {"handle"} \cap Busy = {} /\ "handle" \notin Busy
  BY DEF Busy
<1>3. Leaves(Busy)
  <2>1. ASSUME NEW arg, NEW fn, Adds(t, "result", arg, Frame(fn, "lock", NoArg))
        PROVE  Leaves(Busy)
    BY <1>1, <1>2, <2>1, FrameMade, AddsLeaves
  <2>2. QED BY <1>2, <2>1, HandleMoves, GoesLeaves
<1>4. shown' = shown /\ pbusy' = pbusy /\ preview' = preview
  BY DEF HandleStep, HandleEnters, HandlerAnswered, HandleSamples, HandleActs, HandlerReturns,
     Handling,
     panelVars, panelObject
<1>5. OpenStays
  BY <1>4 DEF OpenStays, OpenTokens
<1>6. ASSUME NEW v, Return(t, v) PROVE SentInv'
  BY <1>1, <1>5, <1>6, ReturnEnds, SentEnds
<1>7. ASSUME NEW at, NEW arg, Goto(t, at, arg), arg.op = Top(t).arg.op, arg.token = Top(t).arg.token,
             at \in Waiting => Top(t).at \in Waiting
      PROVE  SentInv'
  BY <1>1, <1>5, <1>7, GotoTurns, SentTurns
<1>8. ASSUME NEW fn \in DictationFns, Await(t, Frame(fn, "lock", NoArg), Top(t).arg) PROVE SentInv'
  <2> DEFINE f == Frame(fn, "lock", NoArg)
  <2>1. IsFrame(f) /\ f.fn = fn
    BY FrameMade
  <2> HIDE DEF f
  <2>2. ~ Sent(f) /\ "result" \notin Waiting
    BY <2>1 DEF Sent, DictationFns, Waiting
  <2>3. Adds(t, "result", Top(t).arg, f)
    BY <1>1, <1>8, <2>1, AwaitAdds DEF f
  <2>4. QED BY <1>5, <2>2, <2>3, SentAdds
<1>9. QED BY <1>3, <1>4, <1>6, <1>7, <1>8, PanelElsewhere

\* The frame past its lock waits for a call of its own.
LEMMA SoleWaits ==
    ASSUME Stacks, NEW t \in Threads, NEW fns, NEW fn \in fns, Top(t).fn = fn, Top(t).at # "lock", Alone(fns),
           NEW at, at # "lock", NEW arg, NEW f, f.at = "lock", Adds(t, at, arg, f)
    PROVE  Sole(fns, fn, at, arg)'
<1>1. stack[t] # <<>> /\ Len(stack[t]) \in Nat \ {0}
  BY DEF Adds, TopIs
<1>2. \A w \in Threads : \A j \in Nat : Owner(fns, w, j) => w = t /\ j = Len(stack[t])
  BY <1>1, SoleTop
<1>3. \A w \in Threads : \A j \in Nat : Owner(fns, w, j)' <=> w = t /\ j = Len(stack[t])
  BY <1>1, <1>2 DEF Adds, TopIs, Aside, Owner, Top
<1>4. QED BY <1>1, <1>3 DEF Adds, TopIs, Sole

\* A dispatcher that is not busy has no request inside.
LEMMA NobodyHandles ==
    ASSUME Stacks, Inside({"handle"}) = {}
    PROVE  Nobody(HandleFns)
<1> SUFFICES ASSUME NEW u \in Threads, NEW j \in Nat, Owner(HandleFns, u, j) PROVE FALSE
  BY DEF Nobody
<1>1. PICK S : stack[u] \in Seq(S)
  BY DEF Stacks, IsStack
<1>2. j \in DOMAIN stack[u]
  BY <1>1 DEF Owner
<1>3. u \in Inside({"handle"})
  BY <1>2 DEF Inside, Owner, HandleFns
<1>4. QED BY <1>3

\* A request passes the lock, or comes to its end.
LEMMA HandlePasses ==
    ASSUME Stacks, ControlInv, NEW t \in Threads,
           \/ HandleEnters(t) \/ HandlerAnswered(t)
           \/ \E reply \in {"ok", "blocked", "uncertain"} : HandlerReturns(t, reply)
    PROVE  ControlInv'
<1>1. HandleStep(t) /\ CallInv /\ PanelInv /\ SentInv /\ DispatchInv
  BY DEF HandleStep, ControlInv
<1>2. CallInv'
  BY <1>1, HandleCarries
<1>3. UNCHANGED <<seen, acted>> /\ confirmed' = confirmed
  BY DEF HandleEnters, HandlerAnswered, HandlerReturns, NothingRan, controlVars
<1>4. ASSUME NEW from, At(t, "handle", from), NEW v, Return(t, v) PROVE ControlInv'
  <2>1. DispatchInv'
    BY <1>1, <1>3, <1>4, DispatchReturns
  <2>2. PanelInv' /\ SentInv'
    BY <1>1, <1>3, <1>4, HandleLeavesPanel
  <2>3. QED BY <1>2, <2>1, <2>2 DEF ControlInv
<1>5. ASSUME At(t, "handle", "lock"), Inside({"handle"}) = {}, Goto(t, "state", Top(t).arg)
      PROVE  ControlInv'
  <2>1. PICK arg : arg = Top(t).arg
    OBVIOUS
  <2>2. Goto(t, "state", arg) /\ DispatchAt("state", arg)'
    BY <1>5, <2>1 DEF DispatchAt
  <2>3. Nobody(HandleFns)
    BY <1>5, NobodyHandles
  <2>4. DispatchInside'
    BY <1>1, <1>5, <2>2, <2>3, DispatchGoesOn
  <2>5. IdInv'
    BY <1>1, <1>3 DEF DispatchInv, IdInv
  <2>6. Top(t).at \in Waiting
    BY <1>5 DEF At, Waiting
  <2>7. PanelInv' /\ SentInv'
    BY <1>1, <1>3, <2>1, <2>2, <2>6, HandleLeavesPanel
  <2>8. QED BY <1>2, <2>4, <2>5, <2>7 DEF ControlInv, DispatchInv
<1>6. CASE HandleEnters(t)
  BY <1>4, <1>5, <1>6 DEF HandleEnters, Lock
<1>7. CASE HandlerAnswered(t)
  BY <1>4, <1>7 DEF HandlerAnswered
<1>8. ASSUME NEW reply, HandlerReturns(t, reply) PROVE ControlInv'
  BY <1>4, <1>8 DEF HandlerReturns
<1>9. QED BY <1>6, <1>7, <1>8

\* The ID is consumed, or the request refused.
LEMMA HandleConsumes ==
    ASSUME Stacks, ControlInv, NEW t \in Threads, NEW ok \in BOOLEAN, HandleSamples(t, ok)
    PROVE  ControlInv'
<1>1. HandleStep(t) /\ CallInv /\ PanelInv /\ SentInv /\ DispatchInv
  BY DEF HandleStep, ControlInv
<1>2. CallInv'
  BY <1>1, HandleCarries
<1>3. acted' = acted /\ confirmed' = confirmed /\ At(t, "handle", "state")
  BY DEF HandleSamples, NothingRan
<1>4. CASE \E v : Return(t, v) /\ UNCHANGED seen
  <2>1. PICK v : Return(t, v) /\ UNCHANGED seen
    BY <1>4
  <2>2. DispatchInv'
    BY <1>1, <1>3, <2>1, DispatchReturns
  <2>3. PanelInv' /\ SentInv'
    BY <1>1, <1>3, <2>1, HandleLeavesPanel
  <2>4. QED BY <1>2, <2>2, <2>3 DEF ControlInv
<1>5. CASE /\ Top(t).arg.id \notin seen /\ seen' = seen \cup {Top(t).arg.id}
           /\ Goto(t, "recheck", [Top(t).arg EXCEPT !.sample = Sample])
  <2>1. IsRequest(Top(t).arg)
    BY <1>1, <1>3, TopCarries DEF CallInv, Carries, At
  <2>2. Top(t).arg.id \in Ids
    BY <2>1 DEF IsRequest
  <2>3. PICK arg : arg = [Top(t).arg EXCEPT !.sample = Sample]
    OBVIOUS
  <2>4. arg.id = Top(t).arg.id /\ arg.op = Top(t).arg.op /\ arg.token = Top(t).arg.token
    BY <2>1, <2>3, RequestSampled
  <2>5. IdInv'
    BY <1>1, <1>3, <1>5, <2>2 DEF DispatchInv, IdInv
  <2>6. DispatchAt("recheck", arg)'
    BY <1>1, <1>3, <1>5, <2>2, <2>4 DEF DispatchInv, IdInv, DispatchAt
  <2>7. Goto(t, "recheck", arg)
    BY <1>5, <2>3
  <2>8. DispatchInside'
    BY <1>1, <1>3, <2>6, <2>7, DispatchGoesOn
  <2>9. Top(t).at \in Waiting
    BY <1>3 DEF At, Waiting
  <2>10. PanelInv' /\ SentInv'
    BY <1>1, <1>3, <2>4, <2>7, <2>9, HandleLeavesPanel
  <2>11. QED BY <1>2, <2>5, <2>8, <2>10 DEF ControlInv, DispatchInv
<1>6. QED BY <1>4, <1>5 DEF HandleSamples, Unused

\* The handler of a confirmation runs: it is the only one on its way, and its
\* token was open.
LEMMA HandleConfirms ==
    ASSUME Stacks, CallInv, PanelInv, SentInv, NEW t \in Threads, At(t, "handle", "recheck"),
           Top(t).arg.op = "confirm", Goto(t, "handler", Top(t).arg),
           confirmed' = [confirmed EXCEPT ![Top(t).arg.token] = @ + 1],
           UNCHANGED <<pbusy, shown, preview>>
    PROVE  PanelInv' /\ SentInv'
<1> DEFINE n == Len(stack[t])
<1>1. Turns(t, "handler", Top(t).arg) /\ n \in Nat \ {0} /\ n \in 1 .. n
  BY GotoTurns DEF At, Turns, TopIs
<1>2. Sent(stack[t][n]) /\ stack[t][n].at \in Waiting /\ stack[t][n].arg.token = Top(t).arg.token
  BY DEF At, Top, Sent, Waiting
<1>3. /\ n > 1 /\ stack[t][n - 1].fn = "confirm" /\ stack[t][n - 1].at = "result"
      /\ Top(t).arg.token \in OpenTokens
  BY <1>1, <1>2 DEF SentInv
<1>4. Owner(Busy, t, n - 1) /\ n - 1 \in Nat
  BY <1>1, <1>3 DEF Owner, Busy
<1>5. PICK fn, at, arg : Sole(Busy, fn, at, arg) /\ PanelAt(fn, at, arg) /\ pbusy
  BY <1>4 DEF PanelInv, PanelInside, Nobody
<1>6. /\ fn = "confirm" /\ at = "result"
      /\ \A w \in Threads : \A j \in Nat : Owner(Busy, w, j) <=> w = t /\ j = n - 1
  BY <1>3, <1>4, <1>5 DEF Sole
<1>7. preview = NoPreview
  BY <1>5, <1>6 DEF PanelAt
<1>8. Top(t).arg.token \in Tokens
  <2>1. IsRequest(Top(t).arg)
    BY TopCarries DEF CallInv, Carries, At
  <2>2. QED BY <2>1 DEF IsRequest
<1>9. TokenInv'
  BY <1>3, <1>7, <1>8 DEF PanelInv, TokenInv, OpenTokens
<1>10. Leaves(Busy)
  <2>1. Goes(t, {"handle"}) /\ {"handle"} \cap Busy = {}
    BY <1>1 DEF Goes, At, Busy
  <2>2. QED BY <2>1, GoesLeaves
<1>11. PanelInside'
  <2>1. Sole(Busy, fn, at, arg)'
    BY <1>5, <1>10, LeavesKeeps
  <2>2. PanelAt(fn, at, arg)'
    BY <1>6, <1>7 DEF PanelAt
  <2>3. QED BY <1>5, <2>1, <2>2 DEF PanelInside
<1>12. ASSUME NEW u \in Threads, NEW i \in 1 .. Len(stack'[u]), Sent(stack'[u][i])
       PROVE  /\ i > 1 /\ stack'[u][i - 1].fn = "confirm" /\ stack'[u][i - 1].at = "result"
              /\ stack'[u][i].at \in Waiting => stack'[u][i].arg.token \in OpenTokens'
  <2>1. CASE u # t \/ (u = t /\ i \in 1 .. n - 1)
    <3>1. stack'[u][i] = stack[u][i] /\ i \in 1 .. Len(stack[u])
      BY <1>1, <2>1 DEF Turns, Aside
    <3>2. i > 1 /\ stack[u][i - 1].fn = "confirm" /\ stack[u][i - 1].at = "result"
      BY <1>12, <3>1 DEF SentInv
    <3>3. Owner(Busy, u, i - 1) /\ i - 1 \in Nat
      BY <3>1, <3>2 DEF Owner, Busy
    <3>4. u = t /\ i - 1 = n - 1
      BY <1>6, <3>3
    <3>5. QED BY <1>1, <2>1, <3>4
  <2>2. CASE u = t /\ i = n
    <3>1. stack'[t][n].at \notin Waiting
      BY <1>1 DEF Turns, TopIs, Waiting
    <3>2. stack'[t][n - 1] = stack[t][n - 1]
      BY <1>1, <1>3 DEF Turns, Aside
    <3>3. QED BY <1>3, <2>2, <3>1, <3>2
  <2>3. QED BY <1>1, <2>1, <2>2 DEF Turns
<1>13. SentInv'
  BY <1>12 DEF SentInv
<1>14. QED BY <1>9, <1>11, <1>13 DEF PanelInv

\* The handler runs for the first time, or the state has changed.
LEMMA HandleRuns ==
    ASSUME Stacks, ControlInv, NEW t \in Threads, NEW ok \in BOOLEAN, HandleActs(t, ok)
    PROVE  ControlInv'
<1>1. HandleStep(t) /\ CallInv /\ PanelInv /\ SentInv /\ DispatchInv
  BY DEF HandleStep, ControlInv
<1>2. CallInv' /\ seen' = seen /\ At(t, "handle", "recheck")
  BY <1>1, HandleCarries DEF HandleActs
<1>3. UNCHANGED <<pbusy, shown, preview>>
  BY DEF HandleActs, Handling, panelVars, panelObject
<1>4. CASE \E v : Return(t, v) /\ NothingRan
  <2>1. PICK v : Return(t, v) /\ UNCHANGED <<seen, acted>> /\ confirmed' = confirmed
    BY <1>2, <1>4 DEF NothingRan
  <2>2. DispatchInv'
    BY <1>1, <1>2, <2>1, DispatchReturns
  <2>3. PanelInv' /\ SentInv'
    BY <1>1, <2>1, HandleLeavesPanel
  <2>4. QED BY <1>2, <2>2, <2>3 DEF ControlInv
<1>5. CASE /\ acted' = [acted EXCEPT ![Top(t).arg.id] = @ + 1]
           /\ confirmed' = IF Top(t).arg.op = "confirm"
                           THEN [confirmed EXCEPT ![Top(t).arg.token] = @ + 1] ELSE confirmed
           /\ IF Top(t).arg.op \in DOMAIN HandlerOf
              THEN Await(t, Frame(HandlerOf[Top(t).arg.op], "lock", NoArg), Top(t).arg)
              ELSE Goto(t, "handler", Top(t).arg)
  <2>1. IsRequest(Top(t).arg)
    BY <1>1, <1>2, TopCarries DEF CallInv, Carries, At
  <2>2. Top(t).arg.id \in Ids
    BY <2>1 DEF IsRequest
  <2>3. Alone(HandleFns) /\ DispatchAt("recheck", Top(t).arg)
    BY <1>1, <1>2, DispatchHere
  <2>4. IdInv'
    BY <1>1, <1>2, <1>5, <2>2, <2>3 DEF DispatchAt, DispatchInv, IdInv
  <2>5. PICK arg : arg = Top(t).arg
    OBVIOUS
  <2>6. DispatchAt("handler", arg)' /\ DispatchAt("result", arg)'
    BY DEF DispatchAt
  <2>7. CASE Goto(t, "handler", arg) /\ arg.op \notin DOMAIN HandlerOf
    <3>1. DispatchInside'
      BY <1>1, <1>2, <2>6, <2>7, DispatchGoesOn
    <3>2. PanelInv' /\ SentInv'
      <4>1. CASE arg.op = "confirm"
        BY <1>1, <1>2, <1>3, <1>5, <2>5, <2>7, <4>1, HandleConfirms
      <4>2. CASE arg.op # "confirm"
        <5>1. confirmed' = confirmed /\ "handler" \notin Waiting
          BY <1>5, <2>5, <4>2 DEF Waiting
        <5>2. QED BY <1>1, <2>5, <2>7, <5>1, HandleLeavesPanel
      <4>3. QED BY <4>1, <4>2
    <3>3. QED BY <1>2, <2>4, <3>1, <3>2 DEF ControlInv, DispatchInv
  <2>8. ASSUME NEW fn \in DictationFns, Await(t, Frame(fn, "lock", NoArg), arg), arg.op # "confirm"
        PROVE  ControlInv'
    <3> DEFINE f == Frame(fn, "lock", NoArg)
    <3>1. IsFrame(f) /\ f.at = "lock"
      BY FrameMade
    <3> HIDE DEF f
    <3>2. Adds(t, "result", arg, f)
      BY <1>2, <2>8, <3>1, AwaitAdds DEF At, f
    <3>3. Sole(HandleFns, "handle", "result", arg)'
      BY <1>2, <2>3, <3>1, <3>2, SoleWaits DEF At, HandleFns
    <3>4. DispatchInside'
      BY <2>6, <3>3 DEF DispatchInside
    <3>5. confirmed' = confirmed
      BY <1>5, <2>5, <2>8
    <3>6. PanelInv' /\ SentInv'
      BY <1>1, <2>5, <2>8, <3>5, HandleLeavesPanel
    <3>7. QED BY <1>2, <2>4, <3>4, <3>6 DEF ControlInv, DispatchInv
  <2>9. \A op \in DOMAIN HandlerOf : HandlerOf[op] \in DictationFns /\ op # "confirm"
    BY DEF HandlerOf, DictationFns
  <2>10. QED BY <1>5, <2>5, <2>7, <2>8, <2>9
<1>6. QED BY <1>4, <1>5 DEF HandleActs

\* A confirmation is sent with its token open, or is given up.
LEMMA SendKeeps ==
    ASSUME Stacks, ControlInv, NEW t \in Threads, NEW ok \in BOOLEAN,
           ConfirmSends(t, ok, Request(FreshId, "confirm", Top(t).arg.p.state[1], Top(t).arg.p.token)),
           UNCHANGED controlVars
    PROVE  ControlInv'
<1> DEFINE request == Request(FreshId, "confirm", Top(t).arg.p.state[1], Top(t).arg.p.token)
           f == Frame("handle", "lock", request)
<1>1. CallInv /\ PanelInv /\ SentInv /\ DispatchInv
  BY DEF ControlInv
<1>2. /\ At(t, "confirm", "reclock") /\ "confirm" \in Busy /\ stack[t] # <<>> /\ Top(t).fn = "confirm"
      /\ shown' = shown /\ preview' = preview
      /\ UNCHANGED <<seen, acted>> /\ confirmed' = confirmed
  BY DEF ConfirmSends, At, Busy, controlVars
<1>3. OpenStays
  BY <1>2 DEF OpenStays, OpenTokens
<1>4. /\ Alone(Busy) /\ pbusy /\ preview = NoPreview /\ Top(t).arg.p.token \in OpenTokens
      /\ IsReading(Top(t).arg)
  <2>1. Alone(Busy) /\ pbusy /\ PanelAt("confirm", "reclock", Top(t).arg)
    BY <1>1, <1>2, PanelHere
  <2>2. IsReading(Top(t).arg)
    BY <1>1, <1>2, TopCarries DEF CallInv, Carries, At
  <2>3. QED BY <2>1, <2>2 DEF PanelAt
<1>5. CASE Release(t, "blocked")
  <2>1. PanelKept
    BY <1>1, <1>2, <1>5, PanelEnds
  <2>2. Ends(t) /\ Aside(t) /\ calls' = calls
    BY <1>2, <1>5, ReturnEnds DEF Release, Ends, Return
  <2>3. SentInv'
    BY <1>1, <1>3, <2>2, SentEnds
  <2>4. Leaves(HandleFns)
    <3>1. Goes(t, {"confirm"}) /\ {"confirm"} \cap HandleFns = {}
      BY <1>2, <2>2 DEF Goes, HandleFns
    <3>2. QED BY <3>1, GoesLeaves
  <2>5. CallInv'
    BY <1>1, <1>2, <2>1, <2>2, CallsGoOn DEF PanelKept, CallInv, Aside
  <2>6. QED BY <1>1, <1>2, <2>1, <2>3, <2>4, <2>5, DispatchElsewhere DEF ControlInv, PanelKept
<1>6. CASE Await(t, f, Top(t).arg) /\ UNCHANGED pbusy
  <2>1. FreshId \in Ids
    BY <1>1, <1>2, ControlAssumption, StackAssumption DEF CallInv, FreshId, Ids
  <2>2. Top(t).arg.p.token \in Tokens
    BY <1>4 DEF IsReading
  <2>3. IsRequest(request) /\ request.op = "confirm" /\ request.token = Top(t).arg.p.token
    BY <2>1, <2>2, RequestMade
  <2> HIDE DEF request
  <2>4. IsFrame(f) /\ f.fn = "handle" /\ f.at = "lock" /\ f.arg = request
    BY FrameMade
  <2> HIDE DEF f
  <2>5. PICK arg : arg = Top(t).arg
    OBVIOUS
  <2>6. Adds(t, "result", arg, f) /\ Aside(t) /\ calls' = calls
    BY <1>2, <1>6, <2>4, <2>5, AwaitAdds DEF Await, Adds
  <2>7. CallInv'
    <3>1. Carries("confirm", "result", arg) /\ Carries(f.fn, f.at, f.arg)
      BY <1>4, <2>3, <2>4, <2>5 DEF Carries, Busy
    <3>2. CarryInv'
      BY <1>1, <1>2, <2>6, <3>1, CarryAdds DEF CallInv
    <3>3. QED BY <1>1, <1>2, <2>6, <3>2, CallsGoOn DEF CallInv, Aside
  <2>8. PanelInv'
    <3>1. Sole(Busy, "confirm", "result", arg)'
      BY <1>2, <1>4, <2>4, <2>6, SoleWaits DEF At
    <3>2. PanelAt("confirm", "result", arg)'
      BY <1>2, <1>4 DEF PanelAt
    <3>3. PanelInside'
      BY <1>4, <1>6, <3>1, <3>2 DEF PanelInside
    <3>4. TokenInv'
      BY <1>1, <1>2, <1>6 DEF PanelInv, TokenInv, OpenTokens
    <3>5. QED BY <3>3, <3>4 DEF PanelInv
  <2>9. SentInv'
    <3>1. f.arg.token \in OpenTokens
      BY <1>4, <2>3, <2>4
    <3>2. QED BY <1>1, <1>2, <1>3, <2>6, <3>1, SentAdds
  <2>10. Leaves(HandleFns)
    BY <1>2, <2>4, <2>6, AddsLeaves DEF HandleFns
  <2>11. QED BY <1>1, <1>2, <2>7, <2>8, <2>9, <2>10, DispatchElsewhere DEF ControlInv
<1>7. QED BY <1>5, <1>6 DEF ConfirmSends

\* Every step of the panel keeps the invariant of the controls.
LEMMA PanelStepKeeps ==
    ASSUME Stacks, ControlInv, NEW t \in Threads, PanelStep(t), UNCHANGED controlVars
    PROVE  ControlInv'
<1>1. CallInv /\ PanelInv /\ SentInv /\ DispatchInv
  BY DEF ControlInv
<1>2. UNCHANGED <<seen, acted>> /\ confirmed' = confirmed
  BY DEF controlVars
<1>3. PanelKept
  BY <1>1, <1>2, PanelEnters, PanelReads, PanelShows DEF PanelStep
<1>4. Goes(t, PanelFns)
  BY PanelGoes
<1>5. Aside(t) /\ stack[t] # <<>>
  BY <1>4 DEF Goes, Ends, Turns
<1>6. calls' = calls
  <2>1. ASSUME NEW ok \in BOOLEAN, PresentNow(t, ok) \/ Samples(t, ok) \/ Presented(t, ok)
               \/ Viewed(t, ok) \/ ConfirmReads(t, ok)
        PROVE  calls' = calls
    BY <2>1 DEF PresentNow, Samples, Presented, Viewed, ConfirmReads, Release, Goto, Return
  <2>2. ASSUME Connect(t) \/ PresentEnters(t) \/ ViewEnters(t) \/ ConfirmEnters(t) \/ Confirmed(t)
        PROVE  calls' = calls
    BY <2>2 DEF Connect, PresentEnters, ViewEnters, ConfirmEnters, Confirmed, Release, Goto, Return
  <2>3. QED BY <2>1, <2>2 DEF PanelStep
<1>7. CallInv'
  BY <1>1, <1>3, <1>5, <1>6, CallsGoOn DEF PanelKept, CallInv, Aside
<1>8. OpenStays
  BY <1>2, <1>3 DEF OpenStays, OpenTokens, PanelKept
<1>9. "handle" \notin PanelFns /\ PanelFns \cap HandleFns = {}
  BY DEF PanelFns, HandleFns
<1>10. SentInv'
  BY <1>1, <1>4, <1>8, <1>9, SentGoes
<1>11. DispatchInv'
  BY <1>1, <1>2, <1>4, <1>9, GoesLeaves, DispatchElsewhere
<1>12. QED BY <1>3, <1>7, <1>10, <1>11 DEF ControlInv, PanelKept

\* A step that concerns neither the panel nor the dispatcher.
LEMMA ControlElsewhere ==
    ASSUME ControlInv, CallInv', SentInv', Leaves(Busy), Leaves(HandleFns),
           UNCHANGED <<panelObject, controlVars>>
    PROVE  ControlInv'
<1>1. PanelInv /\ DispatchInv
  BY DEF ControlInv
<1>2. PanelInv'
  BY <1>1, PanelElsewhere DEF panelObject, controlVars
<1>3. DispatchInv'
  BY <1>1, DispatchElsewhere DEF controlVars
<1>4. QED BY <1>2, <1>3 DEF ControlInv

\* Every step of dictation does.
LEMMA DictationLeavesControl ==
    ASSUME Stacks, ControlInv, NEW t \in Threads, DictationStep(t), UNCHANGED <<panelVars, controlVars>>
    PROVE  ControlInv'
<1>1. Goes(t, DictationFns)
  BY DictationGoes
<1>2. "handle" \notin DictationFns /\ DictationFns \cap HandleFns = {} /\ DictationFns \cap Busy = {}
  BY DEF DictationFns, HandleFns, Busy
<1>3. Leaves(Busy) /\ Leaves(HandleFns)
  BY <1>1, <1>2, GoesLeaves
<1>4. CallInv'
  BY DictationCarries DEF ControlInv, panelVars, panelObject
<1>5. OpenStays
  BY DEF OpenStays, OpenTokens, panelVars, panelObject, controlVars
<1>6. SentInv'
  BY <1>1, <1>2, <1>5, SentGoes DEF ControlInv
<1>7. QED BY <1>3, <1>4, <1>6, ControlElsewhere DEF panelVars

\* A call, whoever makes it.
LEMMA CallKeeps ==
    ASSUME Stacks, ControlInv, NEW t \in Threads, NEW fn, NEW arg, Call(t, fn, arg),
           Carries(fn, "lock", arg), fn = "handle" => arg.op # "confirm",
           UNCHANGED <<panelVars, controlVars>>
    PROVE  ControlInv'
<1>1. Leaves(Busy) /\ Leaves(HandleFns)
  BY CallLeaves
<1>2. OpenStays
  BY DEF OpenStays, OpenTokens, panelVars, panelObject, controlVars
<1>3. SentInv'
  BY <1>2, SentCalls DEF ControlInv
<1>4. CarryInv'
  BY CarryCalls DEF ControlInv, CallInv
<1>5. calls' = calls + 1 /\ calls < MaxCalls /\ preview' = preview
  BY DEF Call, panelVars, panelObject
<1>6. CallInv'
  BY <1>4, <1>5, StackAssumption DEF ControlInv, CallInv
<1>7. QED BY <1>1, <1>3, <1>6, ControlElsewhere DEF panelVars

\* Requests, keys and uses of the panel do.
LEMMA CallsKeep ==
    ASSUME Stacks, ControlInv, NEW t \in Threads, Serve(t) \/ PressKey(t) \/ UsePanel(t)
    PROVE  ControlInv'
<1>1. CASE Serve(t)
  <2>1. PICK id \in 1 .. MaxIds, op \in Operations :
           Call(t, "handle", Request(id, op, context, None)) /\ UNCHANGED <<panelVars, controlVars>>
    BY <1>1 DEF Serve
  <2>2. id \in Ids /\ op # "confirm"
    BY <2>1, ControlAssumption, StackAssumption DEF Ids, Operations
  <2>3. PICK arg : arg = Request(id, op, context, None)
    OBVIOUS
  <2>4. IsRequest(arg) /\ arg.op # "confirm"
    BY <2>2, <2>3, RequestMade
  <2>5. Carries("handle", "lock", arg)
    BY <2>4 DEF Carries, Busy
  <2>6. QED BY <2>1, <2>3, <2>4, <2>5, CallKeeps
<1>2. CASE PressKey(t)
  <2>1. PICK fn \in DictationFns : Call(t, fn, NoArg) /\ UNCHANGED <<panelVars, controlVars>>
    BY <1>2 DEF PressKey
  <2>2. Carries(fn, "lock", NoArg) /\ fn # "handle"
    BY DEF Carries, DictationFns, Busy
  <2>3. QED BY <2>1, <2>2, CallKeeps
<1>3. CASE UsePanel(t)
  <2>1. PICK fn \in PanelFns, k \in Tokens :
           Call(t, fn, [token |-> k, state |-> voiceState]) /\ UNCHANGED <<panelVars, controlVars>>
    BY <1>3 DEF UsePanel
  <2>2. PICK arg : arg = [token |-> k, state |-> voiceState]
    OBVIOUS
  <2>3. arg.token \in Tokens /\ fn # "handle"
    BY <2>2 DEF PanelFns
  <2>4. Carries(fn, "lock", arg)
    BY <2>3 DEF Carries
  <2>5. QED BY <2>1, <2>2, <2>3, <2>4, CallKeeps
<1>4. QED BY <1>1, <1>2, <1>3

\* Every step of the system does.
LEMMA ControlKeeps == Stacks /\ ControlInv /\ [Next]_vars => ControlInv'
<1> SUFFICES ASSUME Stacks, ControlInv, [Next]_vars PROVE ControlInv'
  OBVIOUS
<1>1. ASSUME NEW t \in Threads, Advance(t) PROVE ControlInv'
  <2>1. CASE HandleStep(t)
    BY <2>1, HandlePasses, HandleConsumes, HandleRuns DEF HandleStep
  <2>2. CASE DictationStep(t) /\ UNCHANGED <<panelVars, endpointVars, controlVars>>
    BY <2>2, DictationLeavesControl
  <2>3. CASE PanelStep(t) /\ UNCHANGED <<dictationVars, endpointVars, controlVars>>
    BY <2>3, PanelStepKeeps
  <2>4. QED BY <1>1, <2>1, <2>2, <2>3, SendKeeps DEF Advance
<1>2. ASSUME NEW t \in Threads, Serve(t) \/ PressKey(t) \/ UsePanel(t) PROVE ControlInv'
  BY <1>2, CallsKeep
<1>3. CASE World \/ UNCHANGED vars
  <2>1. UNCHANGED <<stackVars, panelObject, controlVars>>
    BY <1>3 DEF World, FocusMoves, ContextMoves, PreviewExpires, vars, panelVars
  <2>2. Leaves(Busy) /\ Leaves(HandleFns)
    BY <2>1, StacksKept DEF stackVars
  <2>3. CallInv'
    BY <2>1 DEF ControlInv, CallInv, CarryInv, stackVars, panelObject
  <2>4. SentInv'
    BY <2>1 DEF ControlInv, SentInv, OpenTokens, stackVars, panelObject, controlVars
  <2>5. QED BY <2>1, <2>2, <2>3, <2>4, ControlElsewhere
<1>4. QED BY <1>1, <1>2, <1>3 DEF Next

\* Nothing is consumed, shown or confirmed at first.
LEMMA ControlStarts == Init => ControlInv
<1> SUFFICES ASSUME Init PROVE ControlInv
  OBVIOUS
<1>1. \A t \in Threads : stack[t] = <<>> /\ Len(stack[t]) = 0
  BY DEF Init
<1>2. Nobody(Busy) /\ Nobody(HandleFns)
  BY <1>1 DEF Nobody, Owner
<1>3. CarryInv /\ SentInv
  BY <1>1 DEF CarryInv, SentInv
<1>4. preview = NoPreview \/ preview.token \in Tokens
  <2>1. (CHOOSE k \in Tokens : TRUE) \in Tokens
    BY PanelAssumption
  <2>2. QED BY <2>1 DEF Init, PanelInit
<1>5. CallInv
  BY <1>1, <1>3, <1>4, StackAssumption DEF Init, CallInv
<1>6. pbusy \in BOOLEAN /\ ~ pbusy
  <2>1. pbusy = FALSE
    BY DEF Init, PanelInit
  <2>2. QED BY <2>1, Zenon
<1>7. preview # NoPreview => preview.token \in shown
  <2>1. shown = {preview.token} \ {None}
    BY DEF Init, PanelInit
  <2>2. QED BY <1>4, <2>1, PanelAssumption
<1>8. PanelInv
  <2>1. confirmed = [k \in Tokens |-> 0]
    BY DEF Init
  <2>2. TokenInv
    BY <1>4, <1>6, <1>7, <2>1 DEF TokenInv, OpenTokens
  <2>3. QED BY <1>2, <1>6, <2>2 DEF PanelInv, PanelInside
<1>9. DispatchInv
  BY <1>2 DEF Init, DispatchInv, DispatchInside, IdInv
<1>10. QED BY <1>3, <1>5, <1>8, <1>9 DEF ControlInv

\* However often a request comes again, and whatever the callbacks of dictation,
\* panel and dispatcher call, a request ID runs its handler once at most and a
\* preview's token is confirmed once at most (control.py handle, voice_panel.py
\* confirm), for every number of tokens, IDs and calls.
THEOREM AlwaysActedOnce == Spec => []ActedOnce
<1>1. ControlInv => ActedOnce
  BY DEF ControlInv, DispatchInv, IdInv, PanelInv, TokenInv, ActedOnce
<1>2. QED
  BY <1>1, StacksStart, StacksKeep, ControlStarts, ControlKeeps, PTL DEF Spec
=============================================================================
