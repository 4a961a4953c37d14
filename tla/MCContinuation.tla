--------------------------- MODULE MCContinuation ---------------------------
(* A goal with two leaves; `b`, a human gate too, blocks `a`.              *)
EXTENDS Orchestration

MCTickets == {"goal", "a", "b"}
MCRelations == {<<"child", "a", "goal">>, <<"child", "b", "goal">>,
                <<"blocks", "a", "b">>}
MCGates == {"b"}

Writer(key, owner, reviewer, worktree, paths, resources) ==
    [kind |-> "writer", key |-> key, owner |-> owner, reviewer |-> reviewer,
     worktrees |-> {worktree}, paths |-> paths, resources |-> resources]

\* A writer of `a`; two of `b`, one with a directory that holds the file of `a`, one
\* whose reviewer is the author of `a`; a quiet window; work preserved elsewhere.
WriterA == Writer("a", "ann", "rob", "w1", {{"f1"}}, {})
WriterB == Writer("b", "bob", "rob", "w3", {{"f1", "f2"}}, {"runtime"})

MCRecords == {
    WriterA, WriterB,
    Writer("b", "bob", "ann", "w3", {{"f3"}}, {}),
    [kind |-> "hold", key |-> "quiet", owner |-> "buford", reviewer |-> "none",
     worktrees |-> {}, paths |-> {}, resources |-> {"runtime"}],
    [kind |-> "preserved", key |-> "kept", owner |-> "none", reviewer |-> "none",
     worktrees |-> {"w2"}, paths |-> {{"f2"}}, resources |-> {}] }

Environment(who, held, begins, others, starts, ends, resolved) ==
    [actors |-> who, reserved |-> held, grants |-> begins, changes |-> others,
     runs |-> starts, crashes |-> ends, resolutions |-> resolved]

\* Two runs across a crash and somebody else's change of LIT; a crash, a resolution and
\* a pause; one run among reviews, and among other owners and writers; and messages.
MCEnvironments == {
    Environment({"people"}, {WriterA}, 2, 1, 2, 1, 0),
    Environment({"pause"}, {WriterB}, 1, 1, 2, 1, 1),
    Environment({"reviews", "clears"}, {WriterA}, 2, 1, 1, 0, 0),
    Environment({"owners", "writers"}, {}, 1, 1, 1, 0, 0),
    Environment({"mail", "pause"}, {}, 0, 2, 0, 2, 0) }
=============================================================================
