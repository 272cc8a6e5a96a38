------------------------------ MODULE JniAgent ------------------------------
(***************************************************************************)
(* The JVMTI agent (native/src/agent.cpp, jni_hook.cpp, trace_writer.cpp): *)
(* which native frames it sees on each thread, which JNI calls it writes   *)
(* to the trace, and what it leaves out.                                   *)
(*                                                                         *)
(* The JVM is the environment.  A thread's stack holds its native frames   *)
(* ("user" for a method of the program, "jdk" for one of the class         *)
(* libraries) and a marker "upcall" where native code is inside a          *)
(* Call*Method: above it Java code runs, which may enter natives again.    *)
(* The wrapper of such a call writes its record when the call has          *)
(* returned.  Every callback and every wrapper writes at most one line,    *)
(* under the writer's mutex, and otherwise touches thread-local state      *)
(* only, so each is one action.                                            *)
(*                                                                         *)
(* A line keeps its event, its thread and, for an enter or an exit, the    *)
(* method; an invocation is its own method here.  The fields by and n of   *)
(* a line are history: the invocation that made the call (or ByLibrary, or *)
(* ByAgent) and the number of the call within it.                          *)
(***************************************************************************)
EXTENDS Integers, Sequences, FiniteSetsExt

CONSTANTS
    Thread,
    MaxFrameEvents, \* the max-frame-events option, 0 for no limit
    AttachThread,   \* bound: threads of a VM the agent is attached to
    MaxFrames,      \* bound: invocations of user natives
    MaxNesting,     \* bound: entries of a thread's stack, and t_suppress_depth
    MaxCalls,       \* bound: JNI calls an invocation makes
    MaxNoise        \* bound: exceptions, and JNI calls of class libraries or
                    \*   of no frame

ASSUME AgentAssumption ==
    /\ MaxFrameEvents \in Nat /\ AttachThread \subseteq Thread
    /\ MaxFrames \in Nat /\ MaxNesting \in Nat /\ MaxCalls \in Nat
    /\ MaxNoise \in Nat

VARIABLES
    \* ---- the JVM
    stack,      \* the native frames of each thread
    running,    \* the threads that have started
    \* ---- the agent
    attached,   \* loaded by Agent_OnAttach, not by Agent_OnLoad
    logAll,     \* the log-all option
    pc,         \* how far init_agent has come
    caps,       \* the capabilities AddCapabilities granted
    hooked,     \* the threads whose JNIEnv has the wrappers
    depth,      \* t_frame_depth
    suppress,   \* t_suppress_depth
    count,      \* t_frame_event_count
    truncated,  \* t_frame_truncated
    lines,      \* the trace file
    \* ---- history, and the counters of the bounds
    ended,      \* the invocations the agent saw from enter to exit
    made, noise

jvm == <<stack, running>>
opts == <<attached, logAll>>
init == <<opts, pc, caps, hooked>>
locals == <<depth, suppress, count, truncated>>
bounds == <<ended, made, noise>>
vars == <<jvm, init, locals, lines, bounds>>

ByLibrary == 0
ByAgent == -1

Events == {"entry", "exit", "exc"}
Frame == [kind : {"user", "jdk", "upcall"}, id : Nat, n : Nat, seen : BOOLEAN,
          exc : BOOLEAN]
Line == [ev : {"enter", "exit", "jni", "jni-init", "truncate", "exc"},
         thr : Thread, by : Nat \cup {ByAgent}, n : Nat]

UserFrame(id, seen) ==
    [kind |-> "user", id |-> id, n |-> 0, seen |-> seen, exc |-> FALSE]
Other(kind) ==
    [kind |-> kind, id |-> 0, n |-> 0, seen |-> FALSE, exc |-> FALSE]

\* A live attach finds threads that may be inside an invocation; HotSpot grants
\* the events together, and on a live VM often none of them.  At startup, VMInit
\* has hooked the main thread, but no thread that started before it.
Init ==
    /\ attached \in BOOLEAN /\ logAll \in BOOLEAN
    /\ running \in SUBSET (IF attached THEN AttachThread ELSE Thread)
    /\ IF attached
       THEN /\ pc = "threadStart" /\ caps \in {{}, Events} /\ hooked = {}
            /\ stack \in [Thread -> {<<>>, <<UserFrame(0, FALSE)>>}]
            /\ \A t \in Thread \ running : stack[t] = <<>>
       ELSE /\ pc = "done" /\ caps = Events /\ hooked \in SUBSET running
            /\ stack = [t \in Thread |-> <<>>]
    /\ depth = [t \in Thread |-> 0] /\ suppress = [t \in Thread |-> 0]
    /\ count = [t \in Thread |-> 0] /\ truncated = [t \in Thread |-> FALSE]
    /\ lines = <<>> /\ ended = {} /\ made = 0 /\ noise = 0

-----------------------------------------------------------------------------
(* init_agent on a live VM: the events are enabled one after the other, and *)
(* only then are the wrappers built.                                        *)

Order == <<"threadStart", "entry", "exit", "exc", "install", "done">>
Past(step) == \E i, j \in 1..Len(Order) : Order[i] = step /\ Order[j] = pc /\ i < j

Enabled(e) == e \in caps /\ Past(e)

InitStep ==
    /\ pc # "done"
    /\ \E i \in 1..(Len(Order) - 1) : Order[i] = pc /\ pc' = Order[i + 1]
    /\ UNCHANGED <<jvm, opts, caps, hooked, locals, lines, bounds>>

\* on_thread_start: install does nothing before the table is built.
StartThread(t) ==
    /\ t \notin running /\ (attached => t \in AttachThread)
    /\ running' = running \cup {t}
    /\ hooked' = IF Past("install") THEN hooked \cup {t} ELSE hooked
    /\ UNCHANGED <<stack, opts, pc, caps, locals, lines, bounds>>

\* A thread ends; its number may be given to another.
EndThread(t) ==
    /\ t \in running /\ stack[t] = <<>>
    /\ running' = running \ {t} /\ hooked' = hooked \ {t}
    /\ depth' = [depth EXCEPT ![t] = 0]
    /\ suppress' = [suppress EXCEPT ![t] = 0]
    /\ count' = [count EXCEPT ![t] = 0]
    /\ truncated' = [truncated EXCEPT ![t] = FALSE]
    /\ UNCHANGED <<stack, opts, pc, caps, lines, bounds>>

-----------------------------------------------------------------------------
(* Method entry and exit.                                                  *)

Top(t) == stack[t][Len(stack[t])]
\* Under the first native there is Java code, as above an upcall.
TopKind(t) == IF stack[t] = <<>> THEN "upcall" ELSE Top(t).kind
Below(t) == SubSeq(stack[t], 1, Len(stack[t]) - 1)
WithTop(t, f) == [stack EXCEPT ![t] = Append(Below(t), f)]

\* Java code runs: nothing native is on the stack, or native code called up.
InJava(t) == t \in running /\ TopKind(t) = "upcall"
InNative(t) == t \in running /\ TopKind(t) \in {"user", "jdk"}

Record(ev, t, by, n) == [ev |-> ev, thr |-> t, by |-> by, n |-> n]
Write(ev, t, by, n) == lines' = Append(lines, Record(ev, t, by, n))

\* on_method_entry of a native of the program; the outermost frame starts a
\* new event budget.
EnterUser_KeepsBudget(t) ==
    /\ InJava(t) /\ made < MaxFrames /\ Len(stack[t]) < MaxNesting
    /\ made' = made + 1
    /\ stack' = [stack EXCEPT ![t] =
                   Append(@, UserFrame(made + 1, Enabled("entry")))]
    /\ IF Enabled("entry")
       THEN /\ depth' = [depth EXCEPT ![t] = @ + 1]
            /\ Write("enter", t, made + 1, 0)
            /\ UNCHANGED <<count, truncated>>
       ELSE UNCHANGED <<depth, count, truncated, lines>>
    /\ UNCHANGED <<running, init, suppress, noise, ended>>

EnterUser(t) ==
    /\ InJava(t) /\ made < MaxFrames /\ Len(stack[t]) < MaxNesting
    /\ made' = made + 1
    /\ stack' = [stack EXCEPT ![t] =
                   Append(@, UserFrame(made + 1, Enabled("entry")))]
    /\ IF Enabled("entry")
       THEN /\ depth' = [depth EXCEPT ![t] = @ + 1]
            /\ count' = [count EXCEPT ![t] = IF depth[t] = 0 THEN 0 ELSE @]
            /\ truncated' =
                 [truncated EXCEPT ![t] = depth[t] # 0 /\ truncated[t]]
            /\ Write("enter", t, made + 1, 0)
       ELSE UNCHANGED <<depth, count, truncated, lines>>
    /\ UNCHANGED <<running, init, suppress, noise, ended>>

\* on_method_entry of a native of the class libraries.
EnterJdk(t) ==
    /\ InJava(t) /\ Len(stack[t]) < MaxNesting /\ suppress[t] < MaxNesting
    /\ stack' = [stack EXCEPT ![t] = Append(@, Other("jdk"))]
    /\ suppress' = IF Enabled("entry") /\ depth[t] > 0
                   THEN [suppress EXCEPT ![t] = @ + 1] ELSE suppress
    /\ UNCHANGED <<running, init, depth, count, truncated, lines, bounds>>

\* The invocations on t the agent saw begin, and whether the top one was called
\* from a class library's native that an invocation called.
Users(t) == {i \in DOMAIN stack[t] : stack[t][i].kind = "user" /\ stack[t][i].seen}
Quiet(t) ==
    \E i, j \in 1..(Len(stack[t]) - 1) :
        i < j /\ stack[t][i].kind = "user" /\ stack[t][j].kind = "jdk"

\* on_method_exit, by return or by exception.
ExitUser(t) ==
    /\ InNative(t) /\ TopKind(t) = "user"
    /\ stack' = [stack EXCEPT ![t] = Below(t)]
    /\ IF Enabled("exit")
       THEN /\ Write("exit", t, Top(t).id, 0)
            /\ depth' = [depth EXCEPT ![t] = IF @ > 0 THEN @ - 1 ELSE @]
            /\ ended' = IF Top(t).seen
                 THEN ended \cup {[frame |-> Top(t), thr |-> t,
                                   outer |-> stack[t][Min(Users(t))].id,
                                   quiet |-> Quiet(t),
                                   hooked |-> t \in hooked]}
                 ELSE ended
       ELSE UNCHANGED <<lines, depth, ended>>
    /\ UNCHANGED <<running, init, suppress, count, truncated, made, noise>>

ExitJdk_Forgets(t) ==
    /\ InNative(t) /\ TopKind(t) = "jdk"
    /\ stack' = [stack EXCEPT ![t] = Below(t)]
    /\ UNCHANGED <<running, init, locals, lines, bounds>>

ExitJdk(t) ==
    /\ InNative(t) /\ TopKind(t) = "jdk"
    /\ stack' = [stack EXCEPT ![t] = Below(t)]
    /\ suppress' = IF Enabled("exit") /\ depth[t] > 0 /\ suppress[t] > 0
                   THEN [suppress EXCEPT ![t] = @ - 1] ELSE suppress
    /\ UNCHANGED <<running, init, depth, count, truncated, lines, bounds>>

-----------------------------------------------------------------------------
(* The wrappers.                                                           *)

\* emit: silent below a class library's native and outside frames, and only
\* one marker once the budget of the outermost frame is used up.
Silent(t) == suppress[t] > 0 \/ (depth[t] = 0 /\ ~logAll)

Full_OffByOne(t) ==
    depth[t] > 0 /\ MaxFrameEvents > 0 /\ count[t] > MaxFrameEvents

Full(t) == depth[t] > 0 /\ MaxFrameEvents > 0 /\ count[t] >= MaxFrameEvents

Emitted(t, by, n) ==
    IF Silent(t) THEN <<>>
    ELSE IF ~Full(t) THEN <<Record("jni", t, by, n)>>
    ELSE IF truncated[t] THEN <<>> ELSE <<Record("truncate", t, ByAgent, 0)>>

Charge(t) ==
    /\ count' = [count EXCEPT ![t] =
                   IF Silent(t) \/ Full(t) \/ depth[t] = 0 THEN @ ELSE @ + 1]
    /\ truncated' = [truncated EXCEPT ![t] = @ \/ (~Silent(t) /\ Full(t))]

Emit(t, by, n) == lines' = lines \o Emitted(t, by, n) /\ Charge(t)

\* A wrapper may run in a native frame, and in native code that no Java method
\* entered (a thread that attached itself).
MayCall(t) == t \in running \cap hooked /\ (stack[t] = <<>> \/ InNative(t))

\* A wrapper that reports through emit: it has run the original function.
Plain(t) ==
    /\ MayCall(t)
    /\ IF TopKind(t) = "user"
       THEN /\ Top(t).n < MaxCalls
            /\ stack' = WithTop(t, [Top(t) EXCEPT !.n = @ + 1])
            /\ Emit(t, Top(t).id, Top(t).n + 1)
            /\ UNCHANGED noise
       ELSE /\ noise < MaxNoise /\ noise' = noise + 1
            /\ Emit(t, ByLibrary, 0)
            /\ UNCHANGED stack
    /\ UNCHANGED <<running, init, depth, suppress, ended, made>>

\* GetMethodID and GetStaticMethodID do so in a frame only: outside, where the
\* tables of a program are set up, they write a line of their own in any case.
LookupOutside(t) ==
    /\ MayCall(t) /\ depth[t] = 0
    /\ noise < MaxNoise /\ noise' = noise + 1
    /\ Write("jni-init", t, ByLibrary, 0)
    /\ UNCHANGED <<jvm, init, locals, ended, made>>

\* NewGlobalRef, NewWeakGlobalRef, NewLocalRef report through emit_propagate,
\* which looks at neither the suppression nor the budget.
Reference(t) ==
    /\ MayCall(t) /\ noise < MaxNoise /\ noise' = noise + 1
    /\ IF depth[t] > 0 \/ logAll
       THEN Write("jni", t, IF stack[t] = <<>> THEN ByLibrary ELSE Top(t).id, 0)
       ELSE UNCHANGED lines
    /\ UNCHANGED <<jvm, init, locals, ended, made>>

\* Call*Method: the original runs first ...
CallUp(t) ==
    /\ InNative(t) /\ Len(stack[t]) < MaxNesting
    /\ IF Top(t).kind = "user" THEN Top(t).n < MaxCalls /\ UNCHANGED noise
       ELSE noise < MaxNoise /\ noise' = noise + 1
    /\ stack' = [stack EXCEPT ![t] = Append(@, Other("upcall"))]
    /\ UNCHANGED <<running, init, locals, lines, ended, made>>

\* ... and when it has returned the wrapper reports the call.
ReturnUp(t) ==
    /\ t \in running /\ stack[t] # <<>> /\ TopKind(t) = "upcall"
    /\ LET caller == stack[t][Len(stack[t]) - 1]
           n == IF caller.kind = "user" /\ t \in hooked THEN caller.n + 1
                ELSE caller.n
       IN /\ stack' = [stack EXCEPT ![t] =
                         Append(SubSeq(@, 1, Len(@) - 2), [caller EXCEPT !.n = n])]
          /\ IF t \in hooked THEN Emit(t, caller.id, n)
             ELSE UNCHANGED <<lines, count, truncated>>
    /\ UNCHANGED <<running, init, depth, suppress, bounds>>

\* on_exception and on_exception_catch, when the exception reaches Java code.
\* The callback itself calls GetObjectClass, through the thread's JNIEnv.
Exception(t) ==
    /\ InJava(t) /\ Enabled("exc")
    /\ noise < MaxNoise /\ noise' = noise + 1
    /\ IF t \in hooked
       THEN /\ lines' = Append(lines \o Emitted(t, ByAgent, 0),
                               Record("exc", t, ByAgent, 0))
            /\ Charge(t)
       ELSE Write("exc", t, ByAgent, 0) /\ UNCHANGED <<count, truncated>>
    /\ stack' = [stack EXCEPT ![t] =
                   [i \in 1..Len(@) |-> [@[i] EXCEPT !.exc = TRUE]]]
    /\ UNCHANGED <<running, init, depth, suppress, ended, made>>

Next ==
    \/ InitStep
    \/ \E t \in Thread :
       \/ StartThread(t) \/ EndThread(t)
       \/ EnterUser(t) \/ EnterJdk(t) \/ ExitUser(t) \/ ExitJdk(t)
       \/ Plain(t) \/ LookupOutside(t) \/ Reference(t)
       \/ CallUp(t) \/ ReturnUp(t)
       \/ Exception(t)

Spec == Init /\ [][Next]_vars
====
