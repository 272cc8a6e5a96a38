------------------------------ MODULE Recovery ------------------------------
(***************************************************************************)
(* The dynamic path from end to end: the agent writes the trace and        *)
(* trace-to-bytecode groups it.  The trace is grouped as it grows, so what *)
(* is checked of the groups holds of every prefix of the file, which is    *)
(* what a killed target leaves behind.                                     *)
(***************************************************************************)
EXTENDS JniAgent, TraceGroups

VARIABLE groups     \* what trace-to-bytecode makes of the lines so far

RecoveryInit == Init /\ groups = Ungrouped(Thread)
RecoveryNext ==
    Next /\ groups' = Read(groups, SubSeq(lines', Len(lines) + 1, Len(lines')))
RecoverySpec == RecoveryInit /\ [][RecoveryNext]_<<vars, groups>>

-----------------------------------------------------------------------------
\* The first line about an invocation, and the line of its end.
EnterOf(k) == CHOOSE i \in DOMAIN lines : lines[i].ev = "enter" /\ lines[i].by = k
ExitOf(k) == CHOOSE i \in DOMAIN lines : lines[i].ev = "exit" /\ lines[i].by = k

\* The lines of thread t of event ev between the lines i and j.
Between(t, ev, i, j) ==
    {m \in (i + 1)..(j - 1) : lines[m].thr = t /\ lines[m].ev = ev}

TypeOK ==
    /\ running \subseteq Thread /\ hooked \subseteq running
    /\ stack \in [Thread -> Seq(Frame)]
    /\ depth \in [Thread -> 0..MaxFrames]
    /\ suppress \in [Thread -> 0..MaxNesting]
    /\ count \in [Thread -> Nat]
    /\ truncated \in [Thread -> BOOLEAN]
    /\ MaxFrameEvents > 0 => \A t \in Thread : count[t] <= MaxFrameEvents
    /\ lines \in Seq(Line)

\* The natives of the class libraries that run below one of the program.
QuietNatives(t) ==
    {j \in DOMAIN stack[t] : /\ stack[t][j].kind = "jdk"
                             /\ \E i \in 1..(j - 1) : stack[t][i].kind = "user"}

\* The two counters that steer the wrappers are those of the thread's stack:
\* nothing leaks into the thread's later frames.
CountersMatchStack ==
    caps = Events => \A t \in IF attached THEN hooked ELSE running :
        /\ depth[t] = Cardinality(Users(t))
        /\ suppress[t] = Cardinality(QuietNatives(t))

\* The calls of an invocation are collected by its own group, in order and
\* once, whatever runs on other threads or inside its calls.
Promise == INSTANCE RecoveredCalls WITH
    open <- groups.open, done <- groups.done,
    Invocation <- 0..MaxFrames,
    Call <- [by : ByAgent..MaxFrames, n : 0..MaxCalls]
CallsAreOwn == Promise!Spec

\* What an invocation called is told by its finished group: a call of that shape
\* is among those kept, unless the agent says that calls are missing (the budget
\* of the outermost invocation was used up and a marker was written), or the
\* invocation ran below a class library's native.
DropsAreMarked ==
    \A e \in ended : \A g \in ToSet(groups.done) :
        g.key = e.frame.id =>
        \/ e.quiet
        \/ Between(e.thr, "truncate", EnterOf(e.outer), ExitOf(g.key)) # {}
        \/ \A n \in 1..e.frame.n : \E m \in g.kept :
               Sig[g.calls[m]] = Sig[[by |-> g.key, n |-> n]]

\* No outermost invocation, with all that runs inside it, writes more call
\* events than the budget, nor more than one marker.
BudgetHolds ==
    MaxFrameEvents > 0 =>
    \A e \in ended :
        LET i == EnterOf(e.outer)
            j == ExitOf(e.frame.id)
            calls == {m \in Between(e.thr, "jni", i, j) :
                      lines[m].n > 0 \/ lines[m].by = ByAgent}
        IN /\ Cardinality(calls) <= MaxFrameEvents
           /\ Cardinality(Between(e.thr, "truncate", i, j)) <= 1

\* Every invocation seen from enter to exit has exactly one group, which says
\* of exceptions what happened while the invocation was active, also in the
\* natives it called.  After a live attach this is so on the threads started
\* since: on the others an exit may be lost before METHOD_EXIT is enabled, and
\* the exit of the caller then closes the callee's group.
EachEndsOnce ==
    \A e \in ended :
        e.hooked \/ ~attached =>
        /\ Cardinality({i \in DOMAIN groups.done :
                          groups.done[i].key = e.frame.id}) = 1
        /\ \A g \in ToSet(groups.done) :
             g.key = e.frame.id => g.exc = e.frame.exc

\* The calls of class-library natives stay out of the recovered bodies: "JDK
\* native methods called from inside a user native frame should not contribute
\* JNI events to the recovery trace" (agent.cpp:143-145).
JdkStaysOut ==
    \A g \in ToSet(groups.done) : \A c \in ToSet(g.calls) : c.by # ByLibrary

\* The other way round, too: "every JNI call the obfuscated native code makes
\* gets logged and lifted back to JVM bytecode. Bodies match javac output"
\* (README.md:294-296), so a body holds no call the agent itself makes.
AgentStaysOut ==
    \A g \in ToSet(groups.done) : \A c \in ToSet(g.calls) : c.by # ByAgent
====
