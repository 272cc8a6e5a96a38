--------------------------- MODULE Recovery_proofs ---------------------------
(***************************************************************************)
(* Theorems about the agent and what trace-to-bytecode makes of its lines, *)
(* for any number of threads, any nesting and both ways of starting it.    *)
(*                                                                         *)
(* The agent.  That the counters are those of the stack is not inductive:  *)
(* the agent looks at the counters where the stack decides.  So the        *)
(* invariant also says that a thread the agent follows started when all    *)
(* events were enabled (Started), hence that each of its invocations was   *)
(* seen to begin, and that a thread that is not running left nothing       *)
(* behind (Sound).  The lemmas before it say how pushing and popping one   *)
(* frame changes the two sets that are counted.                            *)
(*                                                                         *)
(* The event budget needs more (BudgetInv): where the outermost invocation *)
(* of each stack began in the trace, that what the thread wrote since is   *)
(* what its counters say, that no invocation has two enters or two exits,  *)
(* and, of each one that ended, the bounds between its two lines.          *)
(*                                                                         *)
(* The groups: that the whole implements RecoveredCalls, that an           *)
(* invocation has one group, and that calls are missing from it only where *)
(* the agent says so.  The agent decides by its counters where a line      *)
(* goes, the reader by the order of the lines; what relates them is the    *)
(* thread's stack.  Where every invocation is seen, each invocation on the *)
(* stack has its group among the open ones of the thread, in the same      *)
(* order (Paired), and the group has as many numbered calls as the         *)
(* invocation has made, unless the budget has run out or a class library's *)
(* native lies below (Exact).  Groups of earlier threads of that number    *)
(* may lie under them, for a thread may end inside invocations the agent   *)
(* could not follow.  In turn: Paired under each kind of step; what a      *)
(* line, and the lines of a step, do to the groups; the bounds of the      *)
(* counters; that no two groups share an invocation; the actions of the    *)
(* agent one by one; and what is known of the invocations that have ended  *)
(* (EndsInv).                                                              *)
(***************************************************************************)
EXTENDS Recovery, FiniteSetTheorems, WellFoundedInduction, SequenceTheorems, TLAPS

\* What is counted, of any stack s.
UserAt(s) == {i \in DOMAIN s : s[i].kind = "user" /\ s[i].seen}
JdkAt(s) ==
    {j \in DOMAIN s : s[j].kind = "jdk" /\ \E i \in 1..(j - 1) : s[i].kind = "user"}

LEMMA Finite ==
    ASSUME NEW s \in Seq(Frame)
    PROVE  /\ UserAt(s) \subseteq 1..Len(s) /\ JdkAt(s) \subseteq 1..Len(s)
           /\ IsFiniteSet(UserAt(s)) /\ IsFiniteSet(JdkAt(s))
           /\ Cardinality(UserAt(s)) \in Nat /\ Cardinality(JdkAt(s)) \in Nat
<1>1. UserAt(s) \subseteq 1..Len(s) /\ JdkAt(s) \subseteq 1..Len(s)
  BY DEF UserAt, JdkAt
<1>2. IsFiniteSet(1..Len(s))
  BY FS_Interval
<1>3. QED
  BY <1>1, <1>2, FS_Subset, FS_CardinalityType

LEMMA Push ==
    ASSUME NEW s \in Seq(Frame), NEW f \in Frame
    PROVE  /\ UserAt(Append(s, f)) = UserAt(s) \cup
                IF f.kind = "user" /\ f.seen THEN {Len(s) + 1} ELSE {}
           /\ JdkAt(Append(s, f)) = JdkAt(s) \cup
                IF f.kind = "jdk" /\ (\E i \in 1..Len(s) : s[i].kind = "user")
                THEN {Len(s) + 1} ELSE {}
<1> DEFINE r == Append(s, f)
<1>1. /\ DOMAIN r = 1..(Len(s) + 1) /\ r[Len(s) + 1] = f
      /\ \A i \in 1..Len(s) : r[i] = s[i]
      /\ DOMAIN s = 1..Len(s) /\ Len(s) \in Nat
  OBVIOUS
<1> HIDE DEF r
<1>2. UserAt(r) = UserAt(s) \cup IF f.kind = "user" /\ f.seen THEN {Len(s) + 1} ELSE {}
  BY <1>1 DEF UserAt
<1>3. ASSUME NEW j \in 1..Len(s)
      PROVE  j \in JdkAt(r) <=> j \in JdkAt(s)
  BY <1>1, <1>3 DEF JdkAt
<1>4. Len(s) + 1 \in JdkAt(r) <=> f.kind = "jdk" /\ \E i \in 1..Len(s) : s[i].kind = "user"
  BY <1>1 DEF JdkAt
<1>5. JdkAt(r) \subseteq 1..(Len(s) + 1) /\ JdkAt(s) \subseteq 1..Len(s)
  BY <1>1 DEF JdkAt
<1>6. JdkAt(r) = JdkAt(s) \cup
         IF f.kind = "jdk" /\ (\E i \in 1..Len(s) : s[i].kind = "user") THEN {Len(s) + 1} ELSE {}
  BY <1>1, <1>3, <1>4, <1>5
<1>7. QED
  BY <1>2, <1>6 DEF r

\* The same frames, but for the number of calls or the exception flag.
LEMMA Alike ==
    ASSUME NEW s \in Seq(Frame), NEW r \in Seq(Frame), Len(r) = Len(s),
           \A i \in 1..Len(s) : r[i].kind = s[i].kind /\ r[i].seen = s[i].seen
    PROVE  UserAt(r) = UserAt(s) /\ JdkAt(r) = JdkAt(s)
<1>1. DOMAIN r = DOMAIN s /\ DOMAIN s = 1..Len(s) /\ Len(s) \in Nat
  OBVIOUS
<1>2. UserAt(r) = UserAt(s)
  BY <1>1 DEF UserAt
<1>3. ASSUME NEW j \in 1..Len(s) PROVE j \in JdkAt(r) <=> j \in JdkAt(s)
  BY <1>1, <1>3 DEF JdkAt
<1>4. JdkAt(r) \subseteq 1..Len(s) /\ JdkAt(s) \subseteq 1..Len(s)
  BY <1>1 DEF JdkAt
<1>5. QED
  BY <1>2, <1>3, <1>4

LEMMA Pop ==
    ASSUME NEW s \in Seq(Frame), s # <<>>
    PROVE  LET r == SubSeq(s, 1, Len(s) - 1)
           IN  /\ r \in Seq(Frame) /\ Len(r) = Len(s) - 1
               /\ \A i \in 1..Len(r) : r[i] = s[i]
               /\ UserAt(r) = UserAt(s) \ {Len(s)}
               /\ JdkAt(r) = JdkAt(s) \ {Len(s)}
               /\ Len(s) \in UserAt(s) <=> s[Len(s)].kind = "user" /\ s[Len(s)].seen
               /\ Len(s) \in JdkAt(s) <=>
                      s[Len(s)].kind = "jdk" /\ \E i \in 1..Len(r) : s[i].kind = "user"
<1> DEFINE r == SubSeq(s, 1, Len(s) - 1)
<1>1. /\ r \in Seq(Frame) /\ Len(r) = Len(s) - 1 /\ DOMAIN r = 1..(Len(s) - 1)
      /\ \A i \in 1..Len(r) : r[i] = s[i]
      /\ DOMAIN s = 1..Len(s) /\ Len(s) \in Nat /\ Len(s) > 0
  <2>1. Len(s) \in Nat /\ Len(s) # 0 /\ DOMAIN s = 1..Len(s)
    OBVIOUS
  <2>2. r \in Seq(Frame) /\ Len(r) = Len(s) - 1
    BY <2>1
  <2>3. \A i \in 1..Len(r) : r[i] = s[i]
    BY <2>1, <2>2
  <2>4. QED
    BY <2>1, <2>2, <2>3
<1> HIDE DEF r
<1>2. UserAt(r) = UserAt(s) \ {Len(s)}
  BY <1>1 DEF UserAt
<1>3. ASSUME NEW j \in 1..(Len(s) - 1) PROVE j \in JdkAt(r) <=> j \in JdkAt(s)
  <2>1. r[j] = s[j] /\ \A i \in 1..(j - 1) : r[i] = s[i]
    BY <1>1
  <2>2. j \in DOMAIN r /\ j \in DOMAIN s
    BY <1>1
  <2>3. QED
    BY <2>1, <2>2 DEF JdkAt
<1>4. JdkAt(r) \subseteq 1..(Len(s) - 1) /\ JdkAt(s) \subseteq 1..Len(s)
  BY <1>1 DEF JdkAt
<1>5. JdkAt(r) = JdkAt(s) \ {Len(s)}
  BY <1>1, <1>3, <1>4
<1>6. Len(s) \in UserAt(s) <=> s[Len(s)].kind = "user" /\ s[Len(s)].seen
  BY <1>1 DEF UserAt
<1>7. Len(s) \in JdkAt(s) <=> s[Len(s)].kind = "jdk" /\ \E i \in 1..Len(r) : s[i].kind = "user"
  BY <1>1 DEF JdkAt
<1>8. QED
  BY <1>1, <1>2, <1>5, <1>6, <1>7 DEF r

-----------------------------------------------------------------------------
InScope(t) == t \in IF attached THEN hooked ELSE running

Typed ==
    /\ running \subseteq Thread /\ hooked \subseteq running
    /\ stack \in [Thread -> Seq(Frame)]
    /\ depth \in [Thread -> Nat]
    /\ suppress \in [Thread -> Nat]
    /\ made \in Nat

\* Only a thread that started when the events were enabled is hooked.
Started ==
    /\ attached \in BOOLEAN
    /\ hooked # {} => pc = "done"
    /\ ~attached => pc = "done"

\* Of the thread t: no upcall without its native; a thread that is not running
\* left nothing; the counters are those of the stack.
Sound(t) ==
    /\ \A i \in 1..Len(stack[t]) : stack[t][i].kind = "upcall" => i > 1
    /\ t \notin running => stack[t] = <<>> /\ depth[t] = 0 /\ suppress[t] = 0
    /\ caps = Events /\ InScope(t) =>
        /\ \A i \in 1..Len(stack[t]) : stack[t][i].kind = "user" => stack[t][i].seen
        /\ depth[t] = Cardinality(UserAt(stack[t]))
        /\ suppress[t] = Cardinality(JdkAt(stack[t]))

AgentInv == Typed /\ Started /\ \A t \in Thread : Sound(t)

LEMMA EmptyStack ==
    /\ <<>> \in Seq(Frame) /\ UserAt(<<>>) = {} /\ JdkAt(<<>>) = {} /\ Cardinality({}) = 0
BY FS_EmptySet DEF UserAt, JdkAt

\* The events are enabled once the agent is through.
LEMMA AllEnabled ==
    /\ pc = "done" /\ caps = Events => Enabled("entry") /\ Enabled("exit")
    /\ Past("install") => pc = "done"
BY DEF Enabled, Events, Past, Order

\* Frames: they keep their type.
LEMMA FrameTypes ==
    /\ \A id \in Nat, seen \in BOOLEAN : UserFrame(id, seen) \in Frame
    /\ Other("jdk") \in Frame /\ Other("upcall") \in Frame
    /\ \A f \in Frame, n \in Nat :
         /\ [f EXCEPT !.n = n] \in Frame
         /\ [f EXCEPT !.n = n].kind = f.kind /\ [f EXCEPT !.n = n].seen = f.seen
    /\ \A f \in Frame :
         /\ [f EXCEPT !.exc = TRUE] \in Frame
         /\ [f EXCEPT !.exc = TRUE].kind = f.kind /\ [f EXCEPT !.exc = TRUE].seen = f.seen
BY DEF Frame, UserFrame, Other

\* What one thread does leaves the others as they are.
LEMMA OthersSound ==
    ASSUME NEW t \in Thread, NEW x \in Thread \ {t}, Sound(x), UNCHANGED <<attached, caps>>,
           x \in running' <=> x \in running, x \in hooked' <=> x \in hooked,
           stack'[x] = stack[x], depth'[x] = depth[x], suppress'[x] = suppress[x]
    PROVE  Sound(x)'
BY DEF Sound, InScope

LEMMA InitInv == Init => AgentInv
<1>1. SUFFICES ASSUME Init PROVE AgentInv
  OBVIOUS
<1>2. <<>> \in Seq(Frame) /\ <<UserFrame(0, FALSE)>> \in Seq(Frame)
  <2>1. UserFrame(0, FALSE) \in Frame
    BY FrameTypes
  <2>2. <<>> \in Seq(Frame)
    BY EmptyStack
  <2>3. \A f \in Frame : <<f>> \in Seq(Frame)
    OBVIOUS
  <2>4. QED
    BY <2>1, <2>2, <2>3
<1>3. stack \in [Thread -> Seq(Frame)]
  BY <1>1, <1>2 DEF Init
<1>4. Typed
  BY <1>1, <1>3, AgentAssumption DEF Init, Typed
<1>5. Started
  BY <1>1 DEF Init, Started
<1>6. ASSUME NEW t \in Thread PROVE Sound(t)
  <2>1. depth[t] = 0 /\ suppress[t] = 0 /\ (t \notin running => stack[t] = <<>>)
    BY <1>1 DEF Init
  <2>2. InScope(t) => stack[t] = <<>>
    BY <1>1 DEF Init, InScope
  <2>3. stack[t] = <<>> \/ stack[t] = <<UserFrame(0, FALSE)>>
    BY <1>1 DEF Init
  <2>4. \A i \in 1..Len(stack[t]) : stack[t][i].kind = "upcall" => i > 1
    BY <2>3 DEF UserFrame
  <2>5. stack[t] = <<>> => /\ \A i \in 1..Len(stack[t]) : FALSE
                           /\ Cardinality(UserAt(stack[t])) = 0
                           /\ Cardinality(JdkAt(stack[t])) = 0
    <3>1. Len(<<>>) = 0
      OBVIOUS
    <3>2. SUFFICES ASSUME stack[t] = <<>>
                   PROVE  /\ \A i \in 1..0 : FALSE
                          /\ UserAt(stack[t]) = {} /\ JdkAt(stack[t]) = {}
      BY <3>1, EmptyStack
    <3>3. QED
      BY <3>2, EmptyStack
  <2>6. QED
    BY <2>1, <2>2, <2>4, <2>5 DEF Sound
<1>7. QED
  BY <1>4, <1>5, <1>6 DEF AgentInv

-----------------------------------------------------------------------------
(* One lemma per kind of step of a thread that runs.                       *)

\* A step of t that leaves the agent's start and the set of threads alone.
LEMMA StepOfOne ==
    ASSUME AgentInv, NEW t \in Thread, UNCHANGED <<running, init>>,
           stack' \in [Thread -> Seq(Frame)], depth' \in [Thread -> Nat],
           suppress' \in [Thread -> Nat], made' \in Nat,
           \A x \in Thread \ {t} :
               stack'[x] = stack[x] /\ depth'[x] = depth[x] /\ suppress'[x] = suppress[x],
           Sound(t)'
    PROVE  AgentInv'
<1>1. Typed' /\ Started'
  BY DEF AgentInv, Typed, Started, init, opts
<1>2. ASSUME NEW x \in Thread PROVE Sound(x)'
  <2>1. CASE x = t
    BY <2>1
  <2>2. CASE x # t
    BY <2>2, OthersSound DEF AgentInv, init, opts
  <2>3. QED
    BY <2>1, <2>2
<1>3. QED
  BY <1>1, <1>2 DEF AgentInv

\* The frames of t change in nothing that the counters tell apart.
LEMMA StepAlike ==
    ASSUME AgentInv, NEW t \in Thread, UNCHANGED <<running, init, depth, suppress, made>>,
           NEW s \in Seq(Frame), stack' = [stack EXCEPT ![t] = s],
           t \in running, Len(s) = Len(stack[t]),
           \A i \in 1..Len(s) : s[i].kind = stack[t][i].kind /\ s[i].seen = stack[t][i].seen
    PROVE  AgentInv'
<1>1. stack[t] \in Seq(Frame) /\ stack'[t] = s
  BY DEF AgentInv, Typed
<1>2. UserAt(s) = UserAt(stack[t]) /\ JdkAt(s) = JdkAt(stack[t])
  BY <1>1, Alike
<1>3. UserAt(stack[t])' = UserAt(stack[t]) /\ JdkAt(stack[t])' = JdkAt(stack[t])
  BY <1>1, <1>2 DEF UserAt, JdkAt
<1>4. Sound(t)
  BY DEF AgentInv
<1>5. InScope(t)' = InScope(t)
  BY DEF InScope, init, opts
<1>6. Sound(t)'
  BY <1>1, <1>3, <1>4, <1>5 DEF Sound, init, opts
<1>7. QED
  BY <1>6, StepOfOne DEF AgentInv, Typed

\* An upcall is begun or has returned.
LEMMA StepUp ==
    ASSUME AgentInv, NEW t \in Thread, InNative(t), UNCHANGED <<running, init, depth, suppress, made>>,
           stack' = [stack EXCEPT ![t] = Append(@, Other("upcall"))]
    PROVE  AgentInv'
<1> DEFINE s == stack[t]
<1>1. /\ s \in Seq(Frame) /\ Other("upcall") \in Frame /\ stack'[t] = Append(s, Other("upcall"))
      /\ Len(s) # 0 /\ t \in running
  BY FrameTypes DEF AgentInv, Typed, InNative, TopKind
<1>2. UserAt(stack[t])' = UserAt(s) /\ JdkAt(stack[t])' = JdkAt(s)
  <2>1. Other("upcall").kind = "upcall"
    BY DEF Other
  <2>2. UserAt(Append(s, Other("upcall"))) = UserAt(s) /\ JdkAt(Append(s, Other("upcall"))) = JdkAt(s)
    BY <1>1, <2>1, Push
  <2>3. QED
    BY <1>1, <2>2 DEF UserAt, JdkAt
<1>3. Sound(t) /\ InScope(t)' = InScope(t)
  BY DEF AgentInv, InScope, init, opts
<1>4. \A i \in 1..Len(stack'[t]) : stack'[t][i] = IF i = Len(s) + 1 THEN Other("upcall") ELSE s[i]
  BY <1>1
<1>5. /\ \A i \in 1..Len(stack'[t]) : stack'[t][i].kind = "upcall" => i > 1
      /\ (\A i \in 1..Len(s) : s[i].kind = "user" => s[i].seen) =>
             \A i \in 1..Len(stack'[t]) : stack'[t][i].kind = "user" => stack'[t][i].seen
  BY <1>1, <1>3, <1>4 DEF Sound, Other
<1>6. Sound(t)'
  BY <1>1, <1>2, <1>3, <1>5 DEF Sound, init, opts
<1>7. stack' \in [Thread -> Seq(Frame)] /\ \A x \in Thread \ {t} : stack'[x] = stack[x]
  <2>1. Append(s, Other("upcall")) \in Seq(Frame)
    BY <1>1
  <2>2. QED
    BY <2>1 DEF AgentInv, Typed
<1>8. QED
  BY <1>1, <1>6, <1>7, StepOfOne DEF AgentInv, Typed

LEMMA StepReturn ==
    ASSUME AgentInv, NEW t \in Thread, ReturnUp(t)
    PROVE  AgentInv'
<1> DEFINE s == stack[t]
           r == SubSeq(s, 1, Len(s) - 1)
<1>1. /\ s \in Seq(Frame) /\ s # <<>> /\ Len(s) \in Nat /\ Len(s) # 0
      /\ s[Len(s)].kind = "upcall" /\ t \in running
  BY DEF AgentInv, Typed, ReturnUp, TopKind, Top
<1>2. Len(s) > 1
  BY <1>1 DEF AgentInv, Sound
<1>3. PICK f \in Frame : /\ stack' = [stack EXCEPT ![t] = Append(SubSeq(s, 1, Len(s) - 2), f)]
                         /\ f.kind = s[Len(s) - 1].kind /\ f.seen = s[Len(s) - 1].seen
  <2>1. s[Len(s) - 1] \in Frame
    BY <1>1, <1>2
  <2>2. s[Len(s) - 1].n \in Nat
    BY <2>1 DEF Frame
  <2>3. PICK n \in Nat : stack' = [stack EXCEPT ![t] =
                            Append(SubSeq(@, 1, Len(@) - 2), [s[Len(s) - 1] EXCEPT !.n = n])]
    <3> DEFINE c == s[Len(s) - 1]
               n == IF c.kind = "user" /\ t \in hooked THEN c.n + 1 ELSE c.n
    <3>1. n \in Nat
      BY <2>2
    <3>2. stack' = [stack EXCEPT ![t] = Append(SubSeq(@, 1, Len(@) - 2), [c EXCEPT !.n = n])]
      BY Zenon DEF ReturnUp
    <3> HIDE DEF n
    <3>3. QED
      BY <3>1, <3>2
  <2>4. QED
    BY <2>1, <2>3, FrameTypes
<1>4. /\ r \in Seq(Frame) /\ Len(r) = Len(s) - 1 /\ \A i \in 1..Len(r) : r[i] = s[i]
      /\ UserAt(r) = UserAt(s) /\ JdkAt(r) = JdkAt(s)
  <2>1. /\ r \in Seq(Frame) /\ Len(r) = Len(s) - 1 /\ \A i \in 1..Len(r) : r[i] = s[i]
        /\ UserAt(r) = UserAt(s) \ {Len(s)} /\ JdkAt(r) = JdkAt(s) \ {Len(s)}
        /\ Len(s) \notin UserAt(s) /\ Len(s) \notin JdkAt(s)
    BY <1>1, Pop
  <2>2. QED
    BY <2>1
<1> DEFINE w == Append(SubSeq(s, 1, Len(s) - 2), f)
<1>5. /\ w \in Seq(Frame) /\ Len(w) = Len(r)
      /\ \A i \in 1..Len(w) : w[i].kind = r[i].kind /\ w[i].seen = r[i].seen
  <2>1. SubSeq(s, 1, Len(s) - 2) \in Seq(Frame) /\ Len(SubSeq(s, 1, Len(s) - 2)) = Len(s) - 2
    BY <1>1, <1>2
  <2>2. \A i \in 1..(Len(s) - 2) : SubSeq(s, 1, Len(s) - 2)[i] = s[i]
    BY <1>1, <1>2
  <2>3. QED
    BY <1>2, <1>3, <1>4, <2>1, <2>2
<1>6. UserAt(w) = UserAt(s) /\ JdkAt(w) = JdkAt(s)
  BY <1>4, <1>5, Alike
<1> HIDE DEF w, r
<1>7. stack'[t] = w /\ stack' \in [Thread -> Seq(Frame)] /\ \A x \in Thread \ {t} : stack'[x] = stack[x]
  BY <1>3, <1>5 DEF AgentInv, Typed, w
<1>8. UserAt(stack[t])' = UserAt(s) /\ JdkAt(stack[t])' = JdkAt(s)
  BY <1>6, <1>7 DEF UserAt, JdkAt
<1>9. UNCHANGED <<running, init, depth, suppress, made>>
  BY DEF ReturnUp, bounds
<1>10. Sound(t) /\ InScope(t)' = InScope(t)
  BY <1>9 DEF AgentInv, InScope, init, opts
<1>11. /\ \A i \in 1..Len(stack'[t]) : stack'[t][i].kind = "upcall" => i > 1
       /\ (\A i \in 1..Len(s) : s[i].kind = "user" => s[i].seen) =>
              \A i \in 1..Len(stack'[t]) : stack'[t][i].kind = "user" => stack'[t][i].seen
  <2>1. \A i \in 1..Len(w) : i \in 1..Len(s) /\ w[i].kind = s[i].kind /\ w[i].seen = s[i].seen
    BY <1>1, <1>4, <1>5
  <2>2. \A i \in 1..Len(s) : s[i].kind = "upcall" => i > 1
    BY <1>10 DEF Sound
  <2>3. QED
    BY <1>7, <2>1, <2>2
<1>12. Sound(t)'
  BY <1>1, <1>7, <1>8, <1>9, <1>10, <1>11 DEF Sound, init, opts
<1>13. QED
  BY <1>7, <1>9, <1>12, StepOfOne DEF AgentInv, Typed

LEMMA StepEnterUser ==
    ASSUME AgentInv, NEW t \in Thread, EnterUser(t)
    PROVE  AgentInv'
<1> DEFINE s == stack[t]
           f == UserFrame(made + 1, Enabled("entry"))
<1>1. /\ s \in Seq(Frame) /\ f \in Frame /\ t \in running /\ Len(s) \in Nat
      /\ f.kind = "user" /\ f.seen = Enabled("entry")
  <2>1. Enabled("entry") \in BOOLEAN /\ made + 1 \in Nat
    BY DEF Enabled, AgentInv, Typed
  <2>2. f \in Frame
    BY <2>1, FrameTypes
  <2>3. QED
    BY <2>2 DEF AgentInv, Typed, EnterUser, InJava, UserFrame
<1> HIDE DEF f
<1>2. /\ stack'[t] = Append(s, f) /\ Append(s, f) \in Seq(Frame)
      /\ stack' \in [Thread -> Seq(Frame)] /\ \A x \in Thread \ {t} : stack'[x] = stack[x]
  <2>1. Append(s, f) \in Seq(Frame)
    BY <1>1
  <2>2. QED
    BY <2>1 DEF EnterUser, AgentInv, Typed, f
<1>3. /\ UNCHANGED <<running, init, suppress>> /\ made' \in Nat
      /\ depth' \in [Thread -> Nat] /\ \A x \in Thread \ {t} : depth'[x] = depth[x]
      /\ depth'[t] = IF Enabled("entry") THEN depth[t] + 1 ELSE depth[t]
  <2>1. UNCHANGED <<running, init, suppress>> /\ made' = made + 1
    BY DEF EnterUser
  <2>2. depth' = IF Enabled("entry") THEN [depth EXCEPT ![t] = depth[t] + 1] ELSE depth
    BY DEF EnterUser
  <2>3. QED
    BY <2>1, <2>2 DEF AgentInv, Typed
<1>4. Sound(t) /\ InScope(t)' = InScope(t)
  BY <1>3 DEF AgentInv, InScope, init, opts
<1>5. /\ UserAt(stack[t])' = UserAt(Append(s, f))
      /\ JdkAt(stack[t])' = JdkAt(Append(s, f))
  BY <1>2 DEF UserAt, JdkAt
<1>6. ASSUME caps = Events, InScope(t)
      PROVE  /\ \A i \in 1..Len(stack'[t]) : stack'[t][i].kind = "user" => stack'[t][i].seen
             /\ depth'[t] = Cardinality(UserAt(stack[t])')
             /\ suppress'[t] = Cardinality(JdkAt(stack[t])')
  <2>1. Enabled("entry")
    BY <1>6, AllEnabled DEF AgentInv, Started, InScope
  <2>2. f.seen
    BY <1>1, <2>1
  <2>3. /\ UserAt(Append(s, f)) = UserAt(s) \cup {Len(s) + 1}
        /\ JdkAt(Append(s, f)) = JdkAt(s)
    BY <1>1, <2>2, Push
  <2>4. Cardinality(UserAt(s) \cup {Len(s) + 1}) = Cardinality(UserAt(s)) + 1
    <3>1. IsFiniteSet(UserAt(s)) /\ UserAt(s) \subseteq 1..Len(s)
      BY <1>1, Finite
    <3>2. Len(s) + 1 \notin UserAt(s)
      BY <1>1, <3>1
    <3>3. QED
      BY <3>1, <3>2, FS_AddElement
  <2>5. \A i \in 1..Len(stack'[t]) : stack'[t][i] = IF i = Len(s) + 1 THEN f ELSE s[i]
    BY <1>1, <1>2
  <2>6. \A i \in 1..Len(s) : s[i].kind = "user" => s[i].seen
    BY <1>4, <1>6 DEF Sound
  <2>7. \A i \in 1..Len(stack'[t]) : stack'[t][i].kind = "user" => stack'[t][i].seen
    BY <1>1, <1>2, <2>2, <2>5, <2>6
  <2>8. QED
    BY <1>3, <1>4, <1>5, <1>6, <2>1, <2>3, <2>4, <2>7 DEF Sound
<1>7. \A i \in 1..Len(stack'[t]) : stack'[t][i].kind = "upcall" => i > 1
  <2>1. \A i \in 1..Len(stack'[t]) : stack'[t][i] = IF i = Len(s) + 1 THEN f ELSE s[i]
    BY <1>1, <1>2
  <2>2. QED
    BY <1>1, <1>2, <1>4, <2>1 DEF Sound
<1>8. Sound(t)'
  BY <1>1, <1>3, <1>4, <1>6, <1>7 DEF Sound, init, opts
<1>9. QED
  BY <1>2, <1>3, <1>8, StepOfOne DEF AgentInv, Typed

LEMMA StepEnterJdk ==
    ASSUME AgentInv, NEW t \in Thread, EnterJdk(t)
    PROVE  AgentInv'
<1> DEFINE s == stack[t]
           f == Other("jdk")
<1>1. s \in Seq(Frame) /\ f \in Frame /\ t \in running /\ Len(s) \in Nat /\ f.kind = "jdk"
  BY FrameTypes DEF AgentInv, Typed, EnterJdk, InJava, Other
<1> HIDE DEF f
<1>2. /\ stack'[t] = Append(s, f) /\ Append(s, f) \in Seq(Frame)
      /\ stack' \in [Thread -> Seq(Frame)] /\ \A x \in Thread \ {t} : stack'[x] = stack[x]
  <2>1. Append(s, f) \in Seq(Frame)
    BY <1>1
  <2>2. QED
    BY <2>1 DEF EnterJdk, AgentInv, Typed, f
<1>3. /\ UNCHANGED <<running, init, depth, made>>
      /\ suppress' \in [Thread -> Nat] /\ \A x \in Thread \ {t} : suppress'[x] = suppress[x]
      /\ suppress'[t] = IF Enabled("entry") /\ depth[t] > 0 THEN suppress[t] + 1 ELSE suppress[t]
  BY DEF EnterJdk, AgentInv, Typed, bounds
<1>4. Sound(t) /\ InScope(t)' = InScope(t)
  BY <1>3 DEF AgentInv, InScope, init, opts
<1>5. /\ UserAt(stack[t])' = UserAt(Append(s, f))
      /\ JdkAt(stack[t])' = JdkAt(Append(s, f))
  BY <1>2 DEF UserAt, JdkAt
<1>6. \A i \in 1..Len(stack'[t]) : stack'[t][i] = IF i = Len(s) + 1 THEN f ELSE s[i]
  BY <1>1, <1>2
<1>7. ASSUME caps = Events, InScope(t)
      PROVE  /\ \A i \in 1..Len(stack'[t]) : stack'[t][i].kind = "user" => stack'[t][i].seen
             /\ depth'[t] = Cardinality(UserAt(stack[t])')
             /\ suppress'[t] = Cardinality(JdkAt(stack[t])')
  <2>1. Enabled("entry")
    BY <1>7, AllEnabled DEF AgentInv, Started, InScope
  <2>2. /\ \A i \in 1..Len(s) : s[i].kind = "user" => s[i].seen
        /\ depth[t] = Cardinality(UserAt(s)) /\ suppress[t] = Cardinality(JdkAt(s))
    BY <1>4, <1>7 DEF Sound
  <2>3. UserAt(Append(s, f)) = UserAt(s)
    BY <1>1, Push
  <2>4. depth[t] > 0 <=> \E i \in 1..Len(s) : s[i].kind = "user"
    <3>1. depth[t] > 0 <=> UserAt(s) # {}
      BY <1>1, <2>2, Finite, FS_EmptySet
    <3>2. UserAt(s) # {} <=> \E i \in 1..Len(s) : s[i].kind = "user"
      BY <1>1, <2>2 DEF UserAt
    <3>3. QED
      BY <3>1, <3>2
  <2>5. CASE depth[t] > 0
    <3>1. JdkAt(Append(s, f)) = JdkAt(s) \cup {Len(s) + 1}
      BY <1>1, <2>4, <2>5, Push
    <3>2. Cardinality(JdkAt(s) \cup {Len(s) + 1}) = Cardinality(JdkAt(s)) + 1
      <4>1. IsFiniteSet(JdkAt(s)) /\ JdkAt(s) \subseteq 1..Len(s)
        BY <1>1, Finite
      <4>2. Len(s) + 1 \notin JdkAt(s)
        BY <1>1, <4>1
      <4>3. QED
        BY <4>1, <4>2, FS_AddElement
    <3>3. \A i \in 1..Len(stack'[t]) : stack'[t][i].kind = "user" => stack'[t][i].seen
      <4>1. ASSUME NEW i \in 1..Len(stack'[t]), stack'[t][i].kind = "user"
            PROVE  stack'[t][i].seen
        <5>1. i # Len(s) + 1
          BY <1>1, <1>6, <4>1
        <5>2. stack'[t][i] = s[i]
          BY <1>6, <5>1
        <5>3. Len(stack'[t]) = Len(s) + 1
          BY <1>1, <1>2
        <5>4. i \in 1..Len(s)
          BY <1>1, <5>1, <5>3
        <5>5. QED
          BY <2>2, <4>1, <5>2, <5>4
      <4>2. QED
        BY <4>1
    <3>4. depth'[t] = Cardinality(UserAt(stack[t])')
      BY <1>3, <1>5, <2>2, <2>3
    <3>5. suppress'[t] = Cardinality(JdkAt(stack[t])')
      BY <1>3, <1>5, <2>1, <2>2, <2>5, <3>1, <3>2
    <3>6. QED
      BY <3>3, <3>4, <3>5
  <2>6. CASE ~(depth[t] > 0)
    <3>1. JdkAt(Append(s, f)) = JdkAt(s)
      BY <1>1, <2>4, <2>6, Push
    <3>2. QED
      BY <1>3, <1>5, <1>6, <1>1, <1>2, <2>1, <2>2, <2>3, <2>6, <3>1
  <2>7. QED
    BY <2>5, <2>6
<1>8. \A i \in 1..Len(stack'[t]) : stack'[t][i].kind = "upcall" => i > 1
  BY <1>1, <1>2, <1>4, <1>6 DEF Sound
<1>9. Sound(t)'
  BY <1>1, <1>3, <1>4, <1>7, <1>8 DEF Sound, init, opts
<1>10. QED
  BY <1>2, <1>3, <1>9, StepOfOne DEF AgentInv, Typed

\* Taking an element out of a finite set.
LEMMA Removed ==
    ASSUME NEW S, IsFiniteSet(S), NEW x
    PROVE  /\ Cardinality(S) \in Nat
           /\ x \in S => Cardinality(S \ {x}) = Cardinality(S) - 1 /\ Cardinality(S) > 0
           /\ x \notin S => S \ {x} = S
<1>1. Cardinality(S) \in Nat
  BY FS_CardinalityType
<1>2. x \in S => Cardinality(S \ {x}) = Cardinality(S) - 1
  BY FS_RemoveElement
<1>3. x \in S => Cardinality(S) # 0
  BY FS_EmptySet
<1>4. QED
  BY <1>1, <1>2, <1>3

LEMMA StepExitUser ==
    ASSUME AgentInv, NEW t \in Thread, ExitUser(t)
    PROVE  AgentInv'
<1> DEFINE s == stack[t]
           r == SubSeq(s, 1, Len(s) - 1)
<1>1. /\ s \in Seq(Frame) /\ s # <<>> /\ Len(s) \in Nat /\ t \in running
      /\ s[Len(s)].kind = "user"
  <2>1. s \in Seq(Frame) /\ Len(s) \in Nat
    BY DEF AgentInv, Typed
  <2>2. t \in running /\ TopKind(t) = "user"
    BY DEF ExitUser, InNative
  <2>3. s # <<>>
    BY <2>2 DEF TopKind
  <2>4. s[Len(s)].kind = "user"
    BY <2>2, <2>3 DEF TopKind, Top
  <2>5. QED
    BY <2>1, <2>2, <2>3, <2>4
<1>2. /\ r \in Seq(Frame) /\ Len(r) = Len(s) - 1 /\ \A i \in 1..Len(r) : r[i] = s[i]
      /\ UserAt(r) = UserAt(s) \ {Len(s)} /\ JdkAt(r) = JdkAt(s) \ {Len(s)}
      /\ Len(s) \in UserAt(s) <=> s[Len(s)].seen
      /\ Len(s) \notin JdkAt(s) /\ Len(s) # 0
  BY <1>1, Pop
<1>3. /\ stack'[t] = r /\ stack' \in [Thread -> Seq(Frame)]
      /\ \A x \in Thread \ {t} : stack'[x] = stack[x]
  BY <1>2 DEF ExitUser, Below, AgentInv, Typed
<1> HIDE DEF r
<1>4. /\ UNCHANGED <<running, init, suppress, made>>
      /\ depth' \in [Thread -> Nat] /\ \A x \in Thread \ {t} : depth'[x] = depth[x]
      /\ depth'[t] = IF Enabled("exit") /\ depth[t] > 0 THEN depth[t] - 1 ELSE depth[t]
  <2>1. UNCHANGED <<running, init, suppress, made>>
    BY DEF ExitUser
  <2>2. depth' = IF Enabled("exit")
                 THEN [depth EXCEPT ![t] = IF depth[t] > 0 THEN depth[t] - 1 ELSE depth[t]]
                 ELSE depth
    BY DEF ExitUser
  <2>3. QED
    BY <2>1, <2>2 DEF AgentInv, Typed
<1>5. Sound(t) /\ InScope(t)' = InScope(t)
  BY <1>4 DEF AgentInv, InScope, init, opts
<1>6. UserAt(stack[t])' = UserAt(r) /\ JdkAt(stack[t])' = JdkAt(r)
  BY <1>3 DEF UserAt, JdkAt
<1>7. ASSUME caps = Events, InScope(t)
      PROVE  /\ \A i \in 1..Len(stack'[t]) : stack'[t][i].kind = "user" => stack'[t][i].seen
             /\ depth'[t] = Cardinality(UserAt(stack[t])')
             /\ suppress'[t] = Cardinality(JdkAt(stack[t])')
  <2>1. Enabled("exit")
    BY <1>7, AllEnabled DEF AgentInv, Started, InScope
  <2>2. /\ \A i \in 1..Len(s) : s[i].kind = "user" => s[i].seen
        /\ depth[t] = Cardinality(UserAt(s)) /\ suppress[t] = Cardinality(JdkAt(s))
    BY <1>5, <1>7 DEF Sound
  <2>3. Len(s) \in UserAt(s) /\ IsFiniteSet(UserAt(s))
    BY <1>1, <1>2, <2>2, Finite
  <2>4. Cardinality(UserAt(r)) = Cardinality(UserAt(s)) - 1 /\ Cardinality(UserAt(s)) > 0
    BY <1>2, <2>3, Removed
  <2>5. JdkAt(r) = JdkAt(s)
    BY <1>2
  <2>6. \A i \in 1..Len(stack'[t]) : stack'[t][i].kind = "user" => stack'[t][i].seen
    BY <1>1, <1>2, <1>3, <2>2
  <2>7. QED
    BY <1>4, <1>6, <2>1, <2>2, <2>4, <2>5, <2>6
<1>8. \A i \in 1..Len(stack'[t]) : stack'[t][i].kind = "upcall" => i > 1
  BY <1>1, <1>2, <1>3, <1>5 DEF Sound
<1>9. Sound(t)'
  BY <1>1, <1>4, <1>5, <1>7, <1>8 DEF Sound, init, opts
<1>10. QED
  BY <1>3, <1>4, <1>9, StepOfOne DEF AgentInv, Typed

LEMMA StepExitJdk ==
    ASSUME AgentInv, NEW t \in Thread, ExitJdk(t)
    PROVE  AgentInv'
<1> DEFINE s == stack[t]
           r == SubSeq(s, 1, Len(s) - 1)
<1>1. /\ s \in Seq(Frame) /\ s # <<>> /\ Len(s) \in Nat /\ t \in running
      /\ s[Len(s)].kind = "jdk"
  <2>1. s \in Seq(Frame) /\ Len(s) \in Nat
    BY DEF AgentInv, Typed
  <2>2. t \in running /\ TopKind(t) = "jdk"
    BY DEF ExitJdk, InNative
  <2>3. s # <<>>
    BY <2>2 DEF TopKind
  <2>4. s[Len(s)].kind = "jdk"
    BY <2>2, <2>3 DEF TopKind, Top
  <2>5. QED
    BY <2>1, <2>2, <2>3, <2>4
<1>2. /\ r \in Seq(Frame) /\ Len(r) = Len(s) - 1 /\ \A i \in 1..Len(r) : r[i] = s[i]
      /\ UserAt(r) = UserAt(s) \ {Len(s)} /\ JdkAt(r) = JdkAt(s) \ {Len(s)}
      /\ Len(s) \in JdkAt(s) <=> \E i \in 1..Len(r) : s[i].kind = "user"
      /\ Len(s) \notin UserAt(s) /\ Len(s) # 0
  BY <1>1, Pop
<1>3. /\ stack'[t] = r /\ stack' \in [Thread -> Seq(Frame)]
      /\ \A x \in Thread \ {t} : stack'[x] = stack[x]
  BY <1>2 DEF ExitJdk, Below, AgentInv, Typed
<1> HIDE DEF r
<1>4. /\ UNCHANGED <<running, init, depth, made>>
      /\ suppress' \in [Thread -> Nat] /\ \A x \in Thread \ {t} : suppress'[x] = suppress[x]
      /\ suppress'[t] = IF Enabled("exit") /\ depth[t] > 0 /\ suppress[t] > 0
                        THEN suppress[t] - 1 ELSE suppress[t]
  BY DEF ExitJdk, AgentInv, Typed, bounds
<1>5. Sound(t) /\ InScope(t)' = InScope(t)
  BY <1>4 DEF AgentInv, InScope, init, opts
<1>6. UserAt(stack[t])' = UserAt(r) /\ JdkAt(stack[t])' = JdkAt(r)
  BY <1>3 DEF UserAt, JdkAt
<1>7. ASSUME caps = Events, InScope(t)
      PROVE  /\ \A i \in 1..Len(stack'[t]) : stack'[t][i].kind = "user" => stack'[t][i].seen
             /\ depth'[t] = Cardinality(UserAt(stack[t])')
             /\ suppress'[t] = Cardinality(JdkAt(stack[t])')
  <2>1. Enabled("exit")
    BY <1>7, AllEnabled DEF AgentInv, Started, InScope
  <2>2. /\ \A i \in 1..Len(s) : s[i].kind = "user" => s[i].seen
        /\ depth[t] = Cardinality(UserAt(s)) /\ suppress[t] = Cardinality(JdkAt(s))
    BY <1>5, <1>7 DEF Sound
  <2>3. UserAt(r) = UserAt(s)
    BY <1>2
  <2>4. depth[t] > 0 <=> \E i \in 1..Len(r) : s[i].kind = "user"
    <3>1. depth[t] > 0 <=> UserAt(s) # {}
      BY <1>1, <2>2, Finite, FS_EmptySet
    <3>2. UserAt(s) # {} <=> \E i \in 1..Len(s) : s[i].kind = "user"
      BY <1>1, <2>2 DEF UserAt
    <3>3. QED
      BY <1>1, <1>2, <3>1, <3>2
  <2>5. IsFiniteSet(JdkAt(s))
    BY <1>1, Finite
  <2>6. suppress'[t] = Cardinality(JdkAt(r))
    <3>1. CASE Len(s) \in JdkAt(s)
      <4>1. Cardinality(JdkAt(r)) = Cardinality(JdkAt(s)) - 1 /\ Cardinality(JdkAt(s)) > 0
        BY <1>2, <2>5, <3>1, Removed
      <4>2. depth[t] > 0
        BY <1>2, <2>4, <3>1
      <4>3. QED
        BY <1>4, <2>1, <2>2, <4>1, <4>2
    <3>2. CASE Len(s) \notin JdkAt(s)
      <4>1. JdkAt(r) = JdkAt(s)
        BY <1>2, <3>2
      <4>2. ~(depth[t] > 0)
        BY <1>2, <2>4, <3>2
      <4>3. QED
        BY <1>4, <2>2, <4>1, <4>2
    <3>3. QED
      BY <3>1, <3>2
  <2>7. \A i \in 1..Len(stack'[t]) : stack'[t][i].kind = "user" => stack'[t][i].seen
    <3>1. \A i \in 1..Len(r) : i \in 1..Len(s)
      BY <1>1, <1>2
    <3>2. QED
      BY <1>2, <1>3, <2>2, <3>1
  <2>8. QED
    BY <1>4, <1>6, <2>2, <2>3, <2>6, <2>7
<1>8. \A i \in 1..Len(stack'[t]) : stack'[t][i].kind = "upcall" => i > 1
  BY <1>1, <1>2, <1>3, <1>5 DEF Sound
<1>9. Sound(t)'
  BY <1>1, <1>4, <1>5, <1>7, <1>8 DEF Sound, init, opts
<1>10. QED
  BY <1>3, <1>4, <1>9, StepOfOne DEF AgentInv, Typed

LEMMA StepPlain ==
    ASSUME AgentInv, NEW t \in Thread, Plain(t)
    PROVE  AgentInv'
<1> DEFINE s == stack[t]
<1>1. UNCHANGED <<running, init, depth, suppress, made>> /\ t \in running
  BY DEF Plain, MayCall
<1>2. s \in Seq(Frame) /\ Len(s) \in Nat
  BY DEF AgentInv, Typed
<1>3. CASE TopKind(t) = "user"
  <2>1. s # <<>> /\ Len(s) # 0
    BY <1>2, <1>3 DEF TopKind
  <2>2. s[Len(s)] \in Frame
    BY <1>2, <2>1
  <2>3. s[Len(s)].n + 1 \in Nat
    BY <2>2 DEF Frame
  <2>4. PICK f \in Frame : /\ stack' = [stack EXCEPT ![t] = Append(SubSeq(s, 1, Len(s) - 1), f)]
                           /\ f.kind = s[Len(s)].kind /\ f.seen = s[Len(s)].seen
    <3>1. stack' = [stack EXCEPT ![t] =
                       Append(SubSeq(s, 1, Len(s) - 1), [s[Len(s)] EXCEPT !.n = s[Len(s)].n + 1])]
      BY <1>3 DEF Plain, WithTop, Below, Top
    <3>2. QED
      BY <2>2, <2>3, <3>1, FrameTypes
  <2>5. /\ SubSeq(s, 1, Len(s) - 1) \in Seq(Frame) /\ Len(SubSeq(s, 1, Len(s) - 1)) = Len(s) - 1
        /\ \A i \in 1..(Len(s) - 1) : SubSeq(s, 1, Len(s) - 1)[i] = s[i]
    BY <1>2, <2>1
  <2>6. PICK w \in Seq(Frame) :
           /\ stack' = [stack EXCEPT ![t] = w] /\ Len(w) = Len(s)
           /\ \A i \in 1..Len(w) : w[i].kind = s[i].kind /\ w[i].seen = s[i].seen
    <3> DEFINE r == SubSeq(s, 1, Len(s) - 1)
               w == Append(r, f)
    <3>1. r \in Seq(Frame) /\ Len(r) = Len(s) - 1 /\ \A i \in 1..(Len(s) - 1) : r[i] = s[i]
      BY <2>5
    <3>2. stack' = [stack EXCEPT ![t] = w]
      BY <2>4
    <3> HIDE DEF r
    <3>3. /\ w \in Seq(Frame) /\ Len(w) = Len(s) /\ w[Len(s)] = f
          /\ \A i \in 1..(Len(s) - 1) : w[i] = s[i]
      BY <1>2, <2>1, <3>1
    <3> HIDE DEF w
    <3>4. \A i \in 1..Len(w) : w[i].kind = s[i].kind /\ w[i].seen = s[i].seen
      BY <1>2, <2>4, <3>3
    <3>5. QED
      BY <3>2, <3>3, <3>4
  <2>7. QED
    BY <1>1, <2>6, StepAlike
<1>4. CASE TopKind(t) # "user"
  <2>1. stack' = stack
    BY <1>4 DEF Plain
  <2>2. QED
    BY <1>1, <1>2, <2>1, StepAlike DEF AgentInv, Typed
<1>5. QED
  BY <1>3, <1>4

LEMMA StepException ==
    ASSUME AgentInv, NEW t \in Thread, Exception(t)
    PROVE  AgentInv'
<1> DEFINE s == stack[t]
           w == [i \in 1..Len(s) |-> [s[i] EXCEPT !.exc = TRUE]]
<1>1. UNCHANGED <<running, init, depth, suppress, made>> /\ t \in running
  BY DEF Exception, InJava
<1>2. s \in Seq(Frame) /\ Len(s) \in Nat
  BY DEF AgentInv, Typed
<1>3. \A i \in 1..Len(s) : s[i] \in Frame
  BY <1>2
<1>4. \A i \in 1..Len(s) : w[i] \in Frame /\ w[i].kind = s[i].kind /\ w[i].seen = s[i].seen
  BY <1>3, FrameTypes
<1>5. stack' = [stack EXCEPT ![t] = w]
  BY DEF Exception
<1> HIDE DEF w
<1>6. w \in Seq(Frame) /\ Len(w) = Len(s)
  <2>1. w \in [1..Len(s) -> Frame]
    BY <1>4 DEF w
  <2>2. QED
    BY <1>2, <2>1
<1>7. QED
  BY <1>1, <1>4, <1>5, <1>6, StepAlike

-----------------------------------------------------------------------------
(* Threads, the start of the agent, and the whole.                         *)

LEMMA StepThreads ==
    ASSUME AgentInv, NEW t \in Thread, StartThread(t) \/ EndThread(t)
    PROVE  AgentInv'
<1>1. /\ UNCHANGED <<stack, attached, pc, caps, made>>
      /\ depth' \in [Thread -> Nat] /\ suppress' \in [Thread -> Nat]
      /\ \A x \in Thread \ {t} :
            /\ depth'[x] = depth[x] /\ suppress'[x] = suppress[x]
            /\ (x \in running' <=> x \in running) /\ (x \in hooked' <=> x \in hooked)
      /\ stack[t] = <<>> /\ depth'[t] = 0 /\ suppress'[t] = 0
  <2>1. UNCHANGED <<stack, attached, pc, caps, made>>
    BY DEF StartThread, EndThread, opts, bounds
  <2>2. CASE StartThread(t)
    BY <2>1, <2>2 DEF StartThread, AgentInv, Typed, Sound, locals
  <2>3. CASE EndThread(t)
    BY <2>1, <2>3 DEF EndThread, AgentInv, Typed
  <2>4. QED
    BY <2>2, <2>3
<1>2. Typed'
  BY <1>1 DEF StartThread, EndThread, AgentInv, Typed
<1>3. Started'
  BY <1>1, AllEnabled DEF StartThread, EndThread, AgentInv, Started
<1>4. Sound(t)'
  <2>1. stack'[t] = <<>>
    BY <1>1
  <2>2. \A i \in 1..Len(stack'[t]) : FALSE
    <3>1. Len(<<>>) = 0
      OBVIOUS
    <3>2. QED
      BY <2>1, <3>1
  <2>3. UserAt(stack[t])' = {} /\ JdkAt(stack[t])' = {}
    <3>1. UserAt(<<>>) = {} /\ JdkAt(<<>>) = {}
      BY EmptyStack
    <3>2. QED
      BY <2>1, <3>1 DEF UserAt, JdkAt
  <2>4. QED
    BY <1>1, <2>1, <2>2, <2>3, EmptyStack DEF Sound
<1>5. ASSUME NEW x \in Thread PROVE Sound(x)'
  BY <1>1, <1>4, OthersSound DEF AgentInv
<1>6. QED
  BY <1>2, <1>3, <1>5 DEF AgentInv

LEMMA StepSame ==
    ASSUME AgentInv, UNCHANGED <<jvm, attached, caps, hooked, depth, suppress, made>>,
           pc = "done" => pc' = pc
    PROVE  AgentInv'
<1>1. UNCHANGED <<stack, running>>
  BY DEF jvm
<1>2. Typed' /\ Started'
  BY <1>1 DEF AgentInv, Typed, Started
<1>3. ASSUME NEW x \in Thread PROVE Sound(x)'
  <2>1. UserAt(stack[x])' = UserAt(stack[x]) /\ JdkAt(stack[x])' = JdkAt(stack[x])
    BY <1>1 DEF UserAt, JdkAt
  <2>2. Sound(x) /\ InScope(x)' = InScope(x)
    BY <1>1, <1>3 DEF AgentInv, InScope
  <2>3. QED
    BY <1>1, <2>1, <2>2 DEF Sound
<1>4. QED
  BY <1>2, <1>3 DEF AgentInv

LEMMA InvStep == AgentInv /\ [Next]_vars => AgentInv'
<1>1. SUFFICES ASSUME AgentInv, [Next]_vars PROVE AgentInv'
  OBVIOUS
<1>2. CASE UNCHANGED vars
  BY <1>1, <1>2, StepSame DEF vars, init, opts, locals, bounds
<1>3. CASE InitStep
  BY <1>1, <1>3, StepSame DEF InitStep, opts, locals, bounds
<1>4. ASSUME NEW t \in Thread, LookupOutside(t) \/ Reference(t) PROVE AgentInv'
  BY <1>1, <1>4, StepSame DEF LookupOutside, Reference, init, opts, locals
<1>5. ASSUME NEW t \in Thread, CallUp(t) PROVE AgentInv'
  BY <1>1, <1>5, StepUp DEF CallUp, locals
<1>6. QED
  BY <1>1, <1>2, <1>3, <1>4, <1>5, StepThreads, StepEnterUser, StepEnterJdk, StepExitUser,
     StepExitJdk, StepPlain, StepReturn, StepException DEF Next

\* The two counters that steer the wrappers are those of the thread's stack
\* (t_frame_depth and t_suppress_depth): for any number of threads, any nesting
\* of the program's natives with those of the class libraries, and any way the
\* agent was started, a thread that it follows from the start is counted right.
THEOREM CountersAreTrue == RecoverySpec => []CountersMatchStack
<1>1. AgentInv => CountersMatchStack
  BY DEF AgentInv, Typed, Sound, InScope, CountersMatchStack, UserAt, JdkAt, Users, QuietNatives
<1>2. RecoveryInit => AgentInv
  BY InitInv DEF RecoveryInit
<1>3. AgentInv /\ [RecoveryNext]_<<vars, groups>> => AgentInv'
  BY InvStep DEF RecoveryNext
<1>4. QED
  BY <1>1, <1>2, <1>3, PTL DEF RecoverySpec

-----------------------------------------------------------------------------
(* The event budget.                                                       *)

LEMMA Least ==
    ASSUME NEW S, S \subseteq Nat, S # {}
    PROVE  Min(S) \in S /\ \A x \in S : Min(S) <= x
<1> DEFINE R == OpToRel(<, Nat)
<1>1. \A y \in Nat, x \in Nat : y < x => <<y, x>> \in R
  <2>1. SUFFICES ASSUME NEW y \in Nat, NEW x \in Nat, y < x
                 PROVE  <<y, x>> \in R
    OBVIOUS
  <2>2. <<y, x>>[1] = y /\ <<y, x>>[2] = x /\ <<y, x>> \in Nat \X Nat
    OBVIOUS
  <2>3. QED
    BY <2>1, <2>2, Zenon DEF OpToRel
<1>2. S \in SUBSET Nat
  OBVIOUS
<1>3. \E x \in S : \A y \in S : ~ (<<y, x>> \in R)
  BY <1>2, WFMin, NatLessThanWellFounded
<1>4. \E x \in S : \A y \in S : ~ (y < x)
  BY <1>1, <1>2, <1>3, Zenon
<1> HIDE DEF R
<1>5. \E x \in S : \A y \in S : x <= y
  BY <1>2, <1>4
<1>6. QED
  BY <1>5, Zenon DEF Min

\* The call records that count, and the markers, of thread t; those after line i.
IsCall(l, t) == l.thr = t /\ l.ev = "jni" /\ (l.n > 0 \/ l.by = ByAgent)
IsMark(l, t) == l.thr = t /\ l.ev = "truncate"
CallsAfter(L, t, i) == {m \in (i + 1)..Len(L) : IsCall(L[m], t)}
MarksAfter(L, t, i) == {m \in (i + 1)..Len(L) : IsMark(L[m], t)}
Within(L, t, i, c, k) ==
    Cardinality(CallsAfter(L, t, i)) <= c /\ Cardinality(MarksAfter(L, t, i)) = k

LEMMA AfterAppend ==
    ASSUME NEW L \in Seq(Line), NEW l \in Line, NEW t, NEW i \in 1..Len(L),
           NEW c \in Nat, NEW k \in Nat, Within(L, t, i, c, k)
    PROVE  Within(Append(L, l), t, i, IF IsCall(l, t) THEN c + 1 ELSE c,
                                      IF IsMark(l, t) THEN k + 1 ELSE k)
<1> DEFINE M == Append(L, l)
<1>1. /\ Len(L) \in Nat /\ Len(M) = Len(L) + 1 /\ M[Len(L) + 1] = l
      /\ \A m \in 1..Len(L) : M[m] = L[m]
  OBVIOUS
<1> HIDE DEF M
<1>2. CallsAfter(M, t, i) = CallsAfter(L, t, i) \cup IF IsCall(l, t) THEN {Len(L) + 1} ELSE {}
  BY <1>1 DEF CallsAfter
<1>3. MarksAfter(M, t, i) = MarksAfter(L, t, i) \cup IF IsMark(l, t) THEN {Len(L) + 1} ELSE {}
  BY <1>1 DEF MarksAfter
<1>4. /\ IsFiniteSet(CallsAfter(L, t, i)) /\ IsFiniteSet(MarksAfter(L, t, i))
      /\ Cardinality(CallsAfter(L, t, i)) \in Nat /\ Cardinality(MarksAfter(L, t, i)) \in Nat
  <2>1. CallsAfter(L, t, i) \subseteq 1..Len(L) /\ MarksAfter(L, t, i) \subseteq 1..Len(L)
    BY <1>1 DEF CallsAfter, MarksAfter
  <2>2. IsFiniteSet(1..Len(L))
    BY <1>1, FS_Interval
  <2>3. QED
    BY <2>1, <2>2, FS_Subset, FS_CardinalityType
<1>5. Len(L) + 1 \notin CallsAfter(L, t, i) /\ Len(L) + 1 \notin MarksAfter(L, t, i)
  BY <1>1 DEF CallsAfter, MarksAfter
<1>6. /\ Cardinality(CallsAfter(L, t, i) \cup {Len(L) + 1}) = Cardinality(CallsAfter(L, t, i)) + 1
      /\ Cardinality(MarksAfter(L, t, i) \cup {Len(L) + 1}) = Cardinality(MarksAfter(L, t, i)) + 1
  BY <1>4, <1>5, FS_AddElement
<1>7. Cardinality(CallsAfter(L, t, i)) <= c /\ Cardinality(MarksAfter(L, t, i)) = k
  BY DEF Within
<1>8. Cardinality(CallsAfter(M, t, i)) <= IF IsCall(l, t) THEN c + 1 ELSE c
  <2>1. CASE IsCall(l, t)
    <3>1. Cardinality(CallsAfter(M, t, i)) = Cardinality(CallsAfter(L, t, i)) + 1
      BY <1>2, <1>6, <2>1
    <3>2. QED
      BY <1>4, <1>7, <2>1, <3>1
  <2>2. CASE ~IsCall(l, t)
    BY <1>2, <1>7, <2>2
  <2>3. QED
    BY <2>1, <2>2
<1>9. Cardinality(MarksAfter(M, t, i)) = IF IsMark(l, t) THEN k + 1 ELSE k
  <2>1. CASE IsMark(l, t)
    <3>1. Cardinality(MarksAfter(M, t, i)) = Cardinality(MarksAfter(L, t, i)) + 1
      BY <1>3, <1>6, <2>1
    <3>2. QED
      BY <1>4, <1>7, <2>1, <3>1
  <2>2. CASE ~IsMark(l, t)
    BY <1>3, <1>7, <2>2
  <2>3. QED
    BY <2>1, <2>2
<1>10. QED
  BY <1>8, <1>9 DEF Within, M

\* L has grown into M by lines of thread t that begin and end no invocation.
Grown(L, M, t) ==
    /\ M \in Seq(Line) /\ Len(L) <= Len(M)
    /\ \A m \in 1..Len(L) : M[m] = L[m]
    /\ \A m \in (Len(L) + 1)..Len(M) : M[m].thr = t /\ M[m].ev \notin {"enter", "exit"}

LEMMA GrownAppend ==
    ASSUME NEW L \in Seq(Line), NEW M, NEW t, Grown(L, M, t),
           NEW l \in Line, l.thr = t, l.ev \notin {"enter", "exit"}
    PROVE  Grown(L, Append(M, l), t)
<1> DEFINE N == Append(M, l)
<1>1. /\ Len(L) \in Nat /\ Len(M) \in Nat /\ N \in Seq(Line)
      /\ Len(N) = Len(M) + 1 /\ N[Len(M) + 1] = l /\ \A m \in 1..Len(M) : N[m] = M[m]
  BY DEF Grown
<1> HIDE DEF N
<1>2. Grown(L, N, t)
  BY <1>1 DEF Grown
<1>3. QED
  BY <1>2 DEF N

LEMMA GrownSame ==
    ASSUME NEW L \in Seq(Line), NEW t
    PROVE  Grown(L, L, t)
<1>1. Len(L) \in Nat
  OBVIOUS
<1>2. QED
  BY <1>1 DEF Grown

\* What another thread writes after line i does not count.
LEMMA GrownElsewhere ==
    ASSUME NEW L \in Seq(Line), NEW M, NEW t, NEW x, x # t, Grown(L, M, t),
           NEW i \in 1..Len(L), NEW c, NEW k, Within(L, x, i, c, k)
    PROVE  Within(M, x, i, c, k)
<1>1. Len(L) \in Nat /\ Len(M) \in Nat
  BY DEF Grown
<1>2. CallsAfter(M, x, i) = CallsAfter(L, x, i)
  BY <1>1 DEF CallsAfter, Grown, IsCall
<1>3. MarksAfter(M, x, i) = MarksAfter(L, x, i)
  BY <1>1 DEF MarksAfter, Grown, IsMark
<1>4. QED
  BY <1>2, <1>3 DEF Within

-----------------------------------------------------------------------------
\* The same invocations, at the same places.
SameUsers(s, r) ==
    \A i \in Nat :
        /\ i \in 1..Len(r) /\ r[i].kind = "user" <=> i \in 1..Len(s) /\ s[i].kind = "user"
        /\ i \in 1..Len(s) /\ s[i].kind = "user" =>
               r[i].id = s[i].id /\ (r[i].seen <=> s[i].seen)

LEMMA SameUsersAt ==
    ASSUME NEW s \in Seq(Frame), NEW r \in Seq(Frame), SameUsers(s, r)
    PROVE  UserAt(r) = UserAt(s)
<1>1. DOMAIN s = 1..Len(s) /\ DOMAIN r = 1..Len(r) /\ Len(s) \in Nat /\ Len(r) \in Nat
  OBVIOUS
<1>2. QED
  BY <1>1 DEF SameUsers, UserAt

LEMMA SamePush ==
    ASSUME NEW s \in Seq(Frame), NEW f \in Frame, f.kind # "user"
    PROVE  SameUsers(s, Append(s, f))
<1> DEFINE r == Append(s, f)
<1>1. /\ Len(s) \in Nat /\ Len(r) = Len(s) + 1 /\ r[Len(s) + 1] = f
      /\ \A i \in 1..Len(s) : r[i] = s[i]
  OBVIOUS
<1> HIDE DEF r
<1>2. SameUsers(s, r)
  BY <1>1 DEF SameUsers
<1>3. QED
  BY <1>2 DEF r

LEMMA SamePop ==
    ASSUME NEW s \in Seq(Frame), s # <<>>, s[Len(s)].kind # "user"
    PROVE  SameUsers(s, SubSeq(s, 1, Len(s) - 1))
<1> DEFINE r == SubSeq(s, 1, Len(s) - 1)
<1>1. Len(s) \in Nat /\ Len(s) # 0
  OBVIOUS
<1>2. Len(r) = Len(s) - 1 /\ \A i \in 1..Len(r) : r[i] = s[i]
  BY <1>1, Pop
<1> HIDE DEF r
<1>3. SameUsers(s, r)
  BY <1>1, <1>2 DEF SameUsers
<1>4. QED
  BY <1>3 DEF r

LEMMA SameTop ==
    ASSUME NEW s \in Seq(Frame), s # <<>>, NEW n \in Nat
    PROVE  /\ SameUsers(s, Append(SubSeq(s, 1, Len(s) - 1), [s[Len(s)] EXCEPT !.n = n]))
           /\ Append(SubSeq(s, 1, Len(s) - 1), [s[Len(s)] EXCEPT !.n = n]) \in Seq(Frame)
<1> DEFINE q == SubSeq(s, 1, Len(s) - 1)
           f == [s[Len(s)] EXCEPT !.n = n]
           r == Append(q, f)
<1>1. Len(s) \in Nat /\ Len(s) # 0 /\ s[Len(s)] \in Frame
  OBVIOUS
<1>2. q \in Seq(Frame) /\ Len(q) = Len(s) - 1 /\ \A i \in 1..Len(q) : q[i] = s[i]
  BY <1>1, Pop
<1>3. /\ f \in Frame /\ f.kind = s[Len(s)].kind /\ (f.seen <=> s[Len(s)].seen)
      /\ f.id = s[Len(s)].id
  BY <1>1 DEF Frame
<1> HIDE DEF q, f
<1>4. /\ r \in Seq(Frame) /\ Len(r) = Len(s) /\ r[Len(s)] = f
      /\ \A i \in 1..(Len(s) - 1) : r[i] = s[i]
  BY <1>1, <1>2, <1>3
<1> HIDE DEF r
<1>5. SameUsers(s, r)
  BY <1>1, <1>3, <1>4 DEF SameUsers
<1>6. QED
  BY <1>4, <1>5 DEF r, q, f

LEMMA SameUnder ==
    ASSUME NEW s \in Seq(Frame), Len(s) > 1, s[Len(s)].kind # "user", NEW n \in Nat
    PROVE  /\ SameUsers(s, Append(SubSeq(s, 1, Len(s) - 2), [s[Len(s) - 1] EXCEPT !.n = n]))
           /\ Append(SubSeq(s, 1, Len(s) - 2), [s[Len(s) - 1] EXCEPT !.n = n]) \in Seq(Frame)
<1> DEFINE q == SubSeq(s, 1, Len(s) - 2)
           f == [s[Len(s) - 1] EXCEPT !.n = n]
           r == Append(q, f)
<1>1. Len(s) \in Nat /\ Len(s) > 1 /\ s[Len(s) - 1] \in Frame
  OBVIOUS
<1>2. q \in Seq(Frame) /\ Len(q) = Len(s) - 2 /\ \A i \in 1..Len(q) : q[i] = s[i]
  <2>1. 1 \in Int /\ Len(s) - 2 \in Int /\ \A i \in 1..(Len(s) - 2) : s[i] \in Frame
    BY <1>1
  <2>2. /\ q \in Seq(Frame) /\ Len(q) = IF 1 <= Len(s) - 2 THEN (Len(s) - 2) - 1 + 1 ELSE 0
        /\ \A i \in 1..((Len(s) - 2) - 1 + 1) : q[i] = s[1 + i - 1]
    BY <2>1, SubSeqProperties
  <2> HIDE DEF q
  <2>3. Len(q) = Len(s) - 2
    <3>1. \A k \in Nat : k > 1 => (IF 1 <= k - 2 THEN (k - 2) - 1 + 1 ELSE 0) = k - 2
      OBVIOUS
    <3>2. Len(q) = IF 1 <= Len(s) - 2 THEN (Len(s) - 2) - 1 + 1 ELSE 0
      BY <2>2
    <3>3. QED
      BY <1>1, <3>1, <3>2, Zenon
  <2>4. \A i \in 1..Len(q) : q[i] = s[i]
    BY <1>1, <2>2, <2>3
  <2>5. QED
    BY <2>2, <2>3, <2>4
<1>3. /\ f \in Frame /\ f.kind = s[Len(s) - 1].kind /\ (f.seen <=> s[Len(s) - 1].seen)
      /\ f.id = s[Len(s) - 1].id
  BY <1>1 DEF Frame
<1> HIDE DEF q, f
<1>4. /\ r \in Seq(Frame) /\ Len(r) = Len(s) - 1 /\ r[Len(s) - 1] = f
      /\ \A i \in 1..(Len(s) - 2) : r[i] = s[i]
  BY <1>1, <1>2, <1>3
<1> HIDE DEF r
<1>5. SameUsers(s, r)
  BY <1>1, <1>3, <1>4 DEF SameUsers
<1>6. QED
  BY <1>4, <1>5 DEF r, q, f

LEMMA SameFlags ==
    ASSUME NEW s \in Seq(Frame)
    PROVE  /\ SameUsers(s, [i \in 1..Len(s) |-> [s[i] EXCEPT !.exc = TRUE]])
           /\ [i \in 1..Len(s) |-> [s[i] EXCEPT !.exc = TRUE]] \in Seq(Frame)
<1> DEFINE r == [i \in 1..Len(s) |-> [s[i] EXCEPT !.exc = TRUE]]
<1>1. Len(s) \in Nat /\ \A i \in 1..Len(s) : s[i] \in Frame
  OBVIOUS
<1>2. \A f \in Frame : /\ [f EXCEPT !.exc = TRUE] \in Frame
                       /\ [f EXCEPT !.exc = TRUE].kind = f.kind
                       /\ [f EXCEPT !.exc = TRUE].seen <=> f.seen
                       /\ [f EXCEPT !.exc = TRUE].id = f.id
  BY DEF Frame
<1>3. /\ DOMAIN r = 1..Len(s)
      /\ \A i \in 1..Len(s) : /\ r[i] \in Frame /\ r[i].kind = s[i].kind /\ r[i].id = s[i].id
                              /\ r[i].seen <=> s[i].seen
  BY <1>1, <1>2
<1>4. r \in [1..Len(s) -> Frame]
  BY <1>1, <1>2
<1>5. r \in Seq(Frame) /\ Len(r) = Len(s)
  BY <1>1, <1>4
<1> HIDE DEF r
<1>6. SameUsers(s, r)
  BY <1>1, <1>3, <1>5 DEF SameUsers
<1>7. QED
  BY <1>5, <1>6 DEF r

-----------------------------------------------------------------------------
\* The budget of the thread is kept so far, if an invocation runs on it: what
\* was written since the outermost began is what the counters say.
BeganAt(m, k) == m \in 1..Len(lines) /\ lines[m].ev = "enter" /\ lines[m].by = k
EndedAt(m, k) == m \in 1..Len(lines) /\ lines[m].ev = "exit" /\ lines[m].by = k

Spent(t) == IF t \in hooked THEN count[t] ELSE 0
Marked(t) == IF t \in hooked /\ truncated[t] THEN 1 ELSE 0

BudgetKept(t) ==
    UserAt(stack[t]) # {} =>
        \E i \in 1..Len(lines) :
            /\ BeganAt(i, stack[t][Min(UserAt(stack[t]))].id)
            /\ MaxFrameEvents > 0 => Within(lines, t, i, Spent(t), Marked(t))

CallsOf(L, t, i, j) == {m \in (i + 1)..(j - 1) : IsCall(L[m], t)}
MarksOf(L, t, i, j) == {m \in (i + 1)..(j - 1) : IsMark(L[m], t)}

\* An invocation that has ended: where it ended and its outermost one began, and
\* what lies between.
SpanKept(e) ==
    /\ e.outer # 0 /\ e.frame.id # 0
    /\ \E i, j \in 1..Len(lines) :
        /\ BeganAt(i, e.outer) /\ EndedAt(j, e.frame.id)
        /\ MaxFrameEvents > 0 =>
            /\ Cardinality(CallsOf(lines, e.thr, i, j)) <= MaxFrameEvents
            /\ Cardinality(MarksOf(lines, e.thr, i, j)) <= 1

Recorded ==
    /\ lines \in Seq(Line)
    /\ count \in [Thread -> Nat] /\ truncated \in [Thread -> BOOLEAN]
    /\ MaxFrameEvents > 0 => \A t \in Thread : count[t] <= MaxFrameEvents

\* The identity of an invocation: a frame not seen to begin may have none.
Known(f) ==
    f.kind = "user" =>
        /\ f.id <= made
        /\ f.seen => f.id # 0 /\ caps = Events
        /\ f.id # 0 => \A m \in 1..Len(lines) : ~EndedAt(m, f.id)

FramesKnown == \A t \in Thread : \A i \in 1..Len(stack[t]) : Known(stack[t][i])
FramesDiffer ==
    \A t, u \in Thread : \A i \in 1..Len(stack[t]), j \in 1..Len(stack[u]) :
        /\ stack[t][i].kind = "user" /\ stack[u][j].kind = "user"
        /\ stack[t][i].id # 0 /\ stack[t][i].id = stack[u][j].id
        => t = u /\ i = j
LinesDiffer ==
    /\ \A m \in 1..Len(lines) : lines[m].ev \in {"enter", "exit"} => lines[m].by <= made
    /\ \A m, k \in 1..Len(lines) :
        /\ lines[m].ev = lines[k].ev /\ lines[m].ev \in {"enter", "exit"}
        /\ lines[m].by = lines[k].by /\ lines[m].by # 0
        => m = k

\* HotSpot grants the events together, or none.
Granted == caps \in {{}, Events}

BudgetInv ==
    /\ Granted /\ Recorded /\ FramesKnown /\ FramesDiffer /\ LinesDiffer
    /\ \A t \in Thread : BudgetKept(t)
    /\ \A e \in ended : SpanKept(e)

LEMMA BudgetInit == Init => BudgetInv
<1>1. SUFFICES ASSUME Init PROVE BudgetInv
  OBVIOUS
<1>2. lines = <<>> /\ Len(lines) = 0 /\ lines \in Seq(Line) /\ ended = {} /\ made = 0
  BY <1>1 DEF Init
<1>3. Recorded
  BY <1>1, <1>2, AgentAssumption DEF Init, Recorded
<1>4. ASSUME NEW t \in Thread, NEW i \in 1..Len(stack[t])
      PROVE  stack[t][i].id = 0 /\ ~stack[t][i].seen
  <2>1. stack[t] = <<>> \/ stack[t] = <<UserFrame(0, FALSE)>>
    BY <1>1 DEF Init
  <2>2. QED
    BY <1>4, <2>1 DEF UserFrame
<1>5. FramesKnown /\ FramesDiffer
  BY <1>2, <1>4 DEF FramesKnown, FramesDiffer, Known, EndedAt
<1>6. LinesDiffer
  BY <1>2 DEF LinesDiffer
<1>7. ASSUME NEW t \in Thread PROVE BudgetKept(t)
  <2>1. stack[t] \in Seq(Frame)
    BY <1>1, InitInv DEF AgentInv, Typed
  <2>2. DOMAIN stack[t] = 1..Len(stack[t])
    BY <2>1
  <2>3. UserAt(stack[t]) = {}
    BY <1>4, <2>2 DEF UserAt
  <2>4. QED
    BY <2>3 DEF BudgetKept
<1>8. QED
  BY <1>1, <1>2, <1>3, <1>5, <1>6, <1>7 DEF BudgetInv, Granted, Init

\* What ended earlier is not touched by what is written later.
LEMMA SpanStays ==
    ASSUME lines \in Seq(Line), lines' \in Seq(Line), Len(lines) <= Len(lines'),
           \A m \in 1..Len(lines) : lines'[m] = lines[m],
           NEW e, SpanKept(e)
    PROVE  SpanKept(e)'
<1>1. Len(lines) \in Nat /\ Len(lines') \in Nat
  OBVIOUS
<1>2. PICK i \in 1..Len(lines), j \in 1..Len(lines) :
          /\ BeganAt(i, e.outer) /\ EndedAt(j, e.frame.id)
          /\ MaxFrameEvents > 0 =>
              /\ Cardinality(CallsOf(lines, e.thr, i, j)) <= MaxFrameEvents
              /\ Cardinality(MarksOf(lines, e.thr, i, j)) <= 1
  BY DEF SpanKept
<1>3. CallsOf(lines', e.thr, i, j) = CallsOf(lines, e.thr, i, j)
  BY <1>1 DEF CallsOf
<1>4. MarksOf(lines', e.thr, i, j) = MarksOf(lines, e.thr, i, j)
  BY <1>1 DEF MarksOf
<1>5. BeganAt(i, e.outer)' /\ EndedAt(j, e.frame.id)'
  BY <1>1, <1>2 DEF BeganAt, EndedAt
<1>6. i \in 1..Len(lines') /\ j \in 1..Len(lines')
  BY <1>1
<1>7. QED
  BY <1>2, <1>3, <1>4, <1>5, <1>6 DEF SpanKept

\* The outermost invocation seen on a stack stays, if one is left at all.
SameOutermost(s, r) ==
    UserAt(r) # {} =>
        UserAt(s) # {} /\ r[Min(UserAt(r))].id = s[Min(UserAt(s))].id

\* Then the budget of x is kept, if what is written keeps to it.
LEMMA KeptByOutermost ==
    ASSUME BudgetInv, NEW x \in Thread, SameOutermost(stack[x], stack'[x]),
           lines' \in Seq(Line), Len(lines) <= Len(lines'),
           \A m \in 1..Len(lines) : lines'[m] = lines[m],
           \A i \in 1..Len(lines) :
               /\ UserAt(stack[x]) # {} /\ MaxFrameEvents > 0
               /\ Within(lines, x, i, Spent(x), Marked(x))
               => Within(lines', x, i, Spent(x)', Marked(x)')
    PROVE  BudgetKept(x)'
<1> DEFINE k == stack[x][Min(UserAt(stack[x]))].id
<1>1. Len(lines) \in Nat /\ Len(lines') \in Nat
  BY DEF BudgetInv, Recorded
<1>2. SUFFICES ASSUME UserAt(stack'[x]) # {}
               PROVE  \E i \in 1..Len(lines') :
                        /\ BeganAt(i, stack[x][Min(UserAt(stack[x]))].id)'
                        /\ MaxFrameEvents > 0 => Within(lines', x, i, Spent(x)', Marked(x)')
  BY DEF BudgetKept
<1>3. UserAt(stack[x]) # {} /\ k' = k
  BY <1>2 DEF SameOutermost
<1>4. PICK i \in 1..Len(lines) :
          BeganAt(i, k) /\ (MaxFrameEvents > 0 => Within(lines, x, i, Spent(x), Marked(x)))
  BY <1>3 DEF BudgetKept, BudgetInv
<1>5. BeganAt(i, k)'
  BY <1>1, <1>3, <1>4 DEF BeganAt
<1>6. MaxFrameEvents > 0 => Within(lines', x, i, Spent(x)', Marked(x)')
  BY <1>3, <1>4
<1>7. QED
  BY <1>1, <1>5, <1>6

LEMMA KeptByUsers ==
    ASSUME BudgetInv, NEW x \in Thread, NEW t, stack \in [Thread -> Seq(Frame)],
           stack' \in [Thread -> Seq(Frame)], SameUsers(stack[x], stack'[x]),
           Grown(lines, lines', t),
           \A i \in 1..Len(lines) :
               /\ UserAt(stack[x]) # {} /\ MaxFrameEvents > 0
               /\ Within(lines, x, i, Spent(x), Marked(x))
               => Within(lines', x, i, Spent(x)', Marked(x)')
    PROVE  BudgetKept(x)'
<1>1. /\ lines' \in Seq(Line) /\ Len(lines) <= Len(lines')
      /\ \A m \in 1..Len(lines) : lines'[m] = lines[m]
  BY DEF Grown
<1>2. UserAt(stack'[x]) = UserAt(stack[x]) /\ UserAt(stack[x]) \subseteq 1..Len(stack[x])
  BY SameUsersAt, Finite
<1>3. UserAt(stack[x]) \subseteq Nat
  BY <1>2
<1>4. ASSUME UserAt(stack[x]) # {}
      PROVE  stack'[x][Min(UserAt(stack[x]))].id = stack[x][Min(UserAt(stack[x]))].id
  <2>1. Min(UserAt(stack[x])) \in UserAt(stack[x])
    BY <1>3, <1>4, Least
  <2>2. QED
    BY <1>2, <2>1 DEF SameUsers, UserAt
<1>5. SameOutermost(stack[x], stack'[x])
  BY <1>2, <1>4 DEF SameOutermost
<1>6. QED
  BY <1>1, <1>5, KeptByOutermost

\* A step of t that begins and ends no invocation.
LEMMA QuietStep ==
    ASSUME BudgetInv, NEW t \in Thread, stack \in [Thread -> Seq(Frame)],
           stack' \in [Thread -> Seq(Frame)], UNCHANGED <<caps, ended, made>>,
           \A x \in Thread : SameUsers(stack[x], stack'[x]),
           Grown(lines, lines', t), Recorded',
           \A x \in Thread \ {t} : /\ count'[x] = count[x] /\ truncated'[x] = truncated[x]
                                   /\ x \in hooked' <=> x \in hooked,
           BudgetKept(t)'
    PROVE  BudgetInv'
<1>1. /\ lines \in Seq(Line) /\ lines' \in Seq(Line) /\ Len(lines) \in Nat /\ Len(lines') \in Nat
      /\ Len(lines) <= Len(lines') /\ \A m \in 1..Len(lines) : lines'[m] = lines[m]
      /\ \A m \in (Len(lines) + 1)..Len(lines') :
            lines'[m].thr = t /\ lines'[m].ev \notin {"enter", "exit"}
  <2>1. lines \in Seq(Line)
    BY DEF BudgetInv, Recorded
  <2>2. QED
    BY <2>1 DEF Grown
<1>2. ASSUME NEW x \in Thread, NEW i \in 1..Len(stack'[x]), stack'[x][i].kind = "user"
      PROVE  /\ i \in 1..Len(stack[x]) /\ stack[x][i].kind = "user"
             /\ stack'[x][i].id = stack[x][i].id /\ (stack'[x][i].seen <=> stack[x][i].seen)
  BY <1>2 DEF SameUsers
<1>3. \A k : \A m \in 1..Len(lines') : EndedAt(m, k)' => m \in 1..Len(lines) /\ EndedAt(m, k)
  BY <1>1 DEF EndedAt
<1>4. FramesKnown'
  <2>1. ASSUME NEW x \in Thread, NEW i \in 1..Len(stack'[x]), stack'[x][i].kind = "user"
        PROVE  /\ stack'[x][i].id <= made
               /\ stack'[x][i].seen => stack'[x][i].id # 0 /\ caps = Events
               /\ stack'[x][i].id # 0 => \A m \in 1..Len(lines') : ~EndedAt(m, stack[x][i].id)'
    <3>1. /\ i \in 1..Len(stack[x]) /\ stack[x][i].kind = "user"
          /\ stack'[x][i].id = stack[x][i].id /\ (stack'[x][i].seen <=> stack[x][i].seen)
      BY <1>2, <2>1
    <3>2. Known(stack[x][i])
      BY <3>1 DEF FramesKnown, BudgetInv
    <3>3. \A m \in 1..Len(lines) : stack[x][i].id # 0 => ~EndedAt(m, stack[x][i].id)
      BY <3>1, <3>2 DEF Known
    <3>4. stack'[x][i].id # 0 => \A m \in 1..Len(lines') : ~EndedAt(m, stack[x][i].id)'
      BY <1>3, <3>1, <3>3
    <3>5. QED
      BY <3>1, <3>2, <3>4 DEF Known
  <2>2. QED
    BY <2>1 DEF FramesKnown, Known
<1>5. FramesDiffer'
  <2>1. SUFFICES ASSUME NEW x \in Thread, NEW u \in Thread,
                        NEW i \in 1..Len(stack'[x]), NEW j \in 1..Len(stack'[u]),
                        stack'[x][i].kind = "user", stack'[u][j].kind = "user",
                        stack'[x][i].id # 0, stack'[x][i].id = stack'[u][j].id
                 PROVE  x = u /\ i = j
    BY DEF FramesDiffer
  <2>2. /\ i \in 1..Len(stack[x]) /\ j \in 1..Len(stack[u])
        /\ stack[x][i].kind = "user" /\ stack[u][j].kind = "user"
        /\ stack[x][i].id # 0 /\ stack[x][i].id = stack[u][j].id
    BY <1>2, <2>1
  <2>3. QED
    BY <2>2 DEF FramesDiffer, BudgetInv
<1>6. LinesDiffer'
  <2>1. \A m \in 1..Len(lines') : lines'[m].ev \in {"enter", "exit"} =>
            m \in 1..Len(lines) /\ lines'[m] = lines[m]
    BY <1>1
  <2>2. LinesDiffer
    BY DEF BudgetInv
  <2>3. ASSUME NEW m \in 1..Len(lines'), lines'[m].ev \in {"enter", "exit"}
        PROVE  lines'[m].by <= made'
    BY <2>1, <2>2, <2>3 DEF LinesDiffer
  <2>4. ASSUME NEW m \in 1..Len(lines'), NEW k \in 1..Len(lines'),
               lines'[m].ev = lines'[k].ev, lines'[m].ev \in {"enter", "exit"},
               lines'[m].by = lines'[k].by, lines'[m].by # 0
        PROVE  m = k
    <3>1. m \in 1..Len(lines) /\ lines'[m] = lines[m] /\ k \in 1..Len(lines) /\ lines'[k] = lines[k]
      BY <2>1, <2>4
    <3>2. QED
      BY <2>2, <2>4, <3>1 DEF LinesDiffer
  <2>5. QED
    BY <2>3, <2>4 DEF LinesDiffer
<1>7. \A e \in ended' : SpanKept(e)'
  BY <1>1, SpanStays DEF BudgetInv
<1>8. ASSUME NEW x \in Thread, x # t PROVE BudgetKept(x)'
  <2>1. Spent(x)' = Spent(x) /\ Marked(x)' = Marked(x)
    BY <1>8 DEF Spent, Marked
  <2>2. ASSUME NEW i \in 1..Len(lines), Within(lines, x, i, Spent(x), Marked(x))
        PROVE  Within(lines', x, i, Spent(x)', Marked(x)')
    BY <1>1, <1>8, <2>1, <2>2, GrownElsewhere
  <2>3. QED
    BY <2>2, KeptByUsers
<1>9. QED
  BY <1>4, <1>5, <1>6, <1>7, <1>8 DEF BudgetInv, Granted

-----------------------------------------------------------------------------
(* The wrappers.                                                           *)

LEMMA RecordTyped ==
    ASSUME NEW t \in Thread, NEW by \in Nat \cup {ByAgent}, NEW n \in Nat,
           NEW ev \in {"enter", "exit", "jni", "jni-init", "truncate", "exc"}
    PROVE  /\ Record(ev, t, by, n) \in Line
           /\ Record(ev, t, by, n).ev = ev /\ Record(ev, t, by, n).thr = t
           /\ Record(ev, t, by, n).by = by /\ Record(ev, t, by, n).n = n
BY DEF Record, Line

\* On a thread with the wrappers, an invocation that was seen is counted.
LEMMA UsersCount ==
    ASSUME AgentInv, BudgetInv, NEW t \in hooked, UserAt(stack[t]) # {}
    PROVE  depth[t] > 0 /\ caps = Events /\ InScope(t)
<1>1. t \in Thread /\ t \in running /\ stack[t] \in Seq(Frame) /\ DOMAIN stack[t] = 1..Len(stack[t])
  BY DEF AgentInv, Typed
<1>2. caps = Events
  BY <1>1 DEF UserAt, BudgetInv, FramesKnown, Known
<1>3. InScope(t)
  BY <1>1 DEF InScope
<1>4. depth[t] = Cardinality(UserAt(stack[t]))
  BY <1>1, <1>2, <1>3 DEF AgentInv, Sound
<1>5. QED
  BY <1>1, <1>2, <1>3, <1>4, Finite, FS_EmptySet

\* emit, with the counters it keeps: what it writes it charges to the budget.
LEMMA EmitKeeps ==
    ASSUME BudgetInv, NEW t \in Thread, t \in hooked, hooked' = hooked,
           NEW by \in Nat \cup {ByAgent}, NEW n \in Nat, Charge(t),
           depth[t] \in Nat,
           NEW M, M = lines \o Emitted(t, by, n)
    PROVE  /\ Grown(lines, M, t)
           /\ count' \in [Thread -> Nat] /\ truncated' \in [Thread -> BOOLEAN]
           /\ MaxFrameEvents > 0 => \A x \in Thread : count'[x] <= MaxFrameEvents
           /\ \A x \in Thread \ {t} : count'[x] = count[x] /\ truncated'[x] = truncated[x]
           /\ \A i \in 1..Len(lines) :
                 /\ depth[t] > 0 /\ MaxFrameEvents > 0
                 /\ Within(lines, t, i, Spent(t), Marked(t))
                 => Within(M, t, i, Spent(t)', Marked(t)')
<1>1. /\ lines \in Seq(Line) /\ count \in [Thread -> Nat] /\ truncated \in [Thread -> BOOLEAN]
      /\ MaxFrameEvents > 0 => \A x \in Thread : count[x] <= MaxFrameEvents
  BY DEF BudgetInv, Recorded
<1>2. /\ count' = [count EXCEPT ![t] =
                     IF Silent(t) \/ Full(t) \/ depth[t] = 0 THEN @ ELSE @ + 1]
      /\ truncated' = [truncated EXCEPT ![t] = @ \/ (~Silent(t) /\ Full(t))]
  BY DEF Charge
<1>3. \A x \in Thread \ {t} : count'[x] = count[x] /\ truncated'[x] = truncated[x]
  BY <1>1, <1>2
<1>4. Spent(t) = count[t] /\ Spent(t)' = count'[t] /\ MaxFrameEvents \in Nat
  BY AgentAssumption DEF Spent
<1>5. CASE Silent(t) \/ (Full(t) /\ truncated[t])
  <2>1. Emitted(t, by, n) = <<>> /\ M = lines
    BY <1>1, <1>5 DEF Emitted
  <2>2. count' = count /\ truncated' = truncated
    BY <1>1, <1>2, <1>5
  <2>3. Spent(t)' = Spent(t) /\ Marked(t)' = Marked(t)
    BY <2>2 DEF Spent, Marked
  <2>4. QED
    BY <1>1, <1>3, <2>1, <2>2, <2>3, GrownSame
<1>6. CASE ~Silent(t) /\ ~Full(t)
  <2> DEFINE l == Record("jni", t, by, n)
  <2>1. l \in Line /\ l.ev = "jni" /\ l.thr = t
    BY DEF Record, Line
  <2>2. M = Append(lines, l)
    <3>1. Emitted(t, by, n) = <<l>>
      BY <1>6 DEF Emitted
    <3> HIDE DEF l
    <3>2. QED
      BY <1>1, <2>1, <3>1
  <2> HIDE DEF l
  <2>3. Grown(lines, M, t)
    BY <1>1, <2>1, <2>2, GrownSame, GrownAppend
  <2>4. truncated' = truncated /\ count'[t] = IF depth[t] = 0 THEN count[t] ELSE count[t] + 1
    BY <1>1, <1>2, <1>6
  <2>5. count' \in [Thread -> Nat]
    BY <1>1, <1>2
  <2>6. MaxFrameEvents > 0 => count'[t] <= MaxFrameEvents
    BY <1>1, <1>4, <1>6, <2>4 DEF Full
  <2>7. MaxFrameEvents > 0 => \A x \in Thread : count'[x] <= MaxFrameEvents
    BY <1>1, <1>3, <2>6
  <2>8. ASSUME NEW i \in 1..Len(lines), depth[t] > 0,
               Within(lines, t, i, Spent(t), Marked(t))
        PROVE  Within(M, t, i, Spent(t)', Marked(t)')
    <3>1. Marked(t) \in Nat /\ Marked(t)' = Marked(t) /\ Spent(t) \in Nat
      BY <1>1, <1>4, <2>4 DEF Marked
    <3>2. ~IsMark(l, t)
      BY <2>1 DEF IsMark
    <3>3. Within(M, t, i, IF IsCall(l, t) THEN Spent(t) + 1 ELSE Spent(t), Marked(t))
      BY <1>1, <2>1, <2>2, <2>8, <3>1, <3>2, AfterAppend
    <3>4. Spent(t)' = Spent(t) + 1
      BY <1>4, <2>4, <2>8
    <3>5. QED
      <4>1. CASE IsCall(l, t)
        BY <3>1, <3>3, <3>4, <4>1
      <4>2. CASE ~IsCall(l, t)
        <5>1. Within(M, t, i, Spent(t), Marked(t))
          BY <3>3, <4>2
        <5>2. Cardinality(CallsAfter(M, t, i)) \in Nat
          <6>1. Len(M) \in Nat /\ i + 1 \in Nat
            BY <1>1, <2>3 DEF Grown
          <6>2. CallsAfter(M, t, i) \subseteq 1..Len(M)
            BY <6>1 DEF CallsAfter
          <6>3. IsFiniteSet(1..Len(M))
            BY <6>1, FS_Interval
          <6>4. QED
            BY <6>2, <6>3, FS_Subset, FS_CardinalityType
        <5>3. QED
          BY <3>1, <3>4, <5>1, <5>2 DEF Within
      <4>3. QED
        BY <4>1, <4>2
  <2>9. QED
    BY <1>1, <1>3, <2>3, <2>4, <2>5, <2>7, <2>8
<1>7. CASE ~Silent(t) /\ Full(t) /\ ~truncated[t]
  <2> DEFINE l == Record("truncate", t, ByAgent, 0)
  <2>1. l \in Line /\ l.ev = "truncate" /\ l.thr = t
    BY RecordTyped
  <2>2. M = Append(lines, l)
    <3>1. Emitted(t, by, n) = <<l>>
      BY <1>7 DEF Emitted
    <3> HIDE DEF l
    <3>2. QED
      BY <1>1, <2>1, <3>1
  <2> HIDE DEF l
  <2>3. Grown(lines, M, t)
    BY <1>1, <2>1, <2>2, GrownSame, GrownAppend
  <2>4. count' = count /\ truncated' = [truncated EXCEPT ![t] = TRUE]
    BY <1>1, <1>2, <1>7
  <2>5. ASSUME NEW i \in 1..Len(lines),
               Within(lines, t, i, Spent(t), Marked(t))
        PROVE  Within(M, t, i, Spent(t)', Marked(t)')
    <3>1. Marked(t) = 0 /\ Marked(t)' = 1 /\ Spent(t) \in Nat /\ Spent(t)' = Spent(t)
      BY <1>1, <1>4, <1>7, <2>4 DEF Marked
    <3>2. ~IsCall(l, t) /\ IsMark(l, t)
      BY <2>1 DEF IsCall, IsMark
    <3>3. Within(M, t, i, Spent(t), 1)
      BY <1>1, <2>1, <2>2, <2>5, <3>1, <3>2, AfterAppend
    <3>4. QED
      BY <3>1, <3>3
  <2>6. truncated' \in [Thread -> BOOLEAN]
    BY <1>1, <2>4
  <2>7. QED
    BY <1>1, <1>3, <2>3, <2>4, <2>5, <2>6
<1>8. QED
  BY <1>5, <1>6, <1>7

LEMMA SameSame ==
    ASSUME NEW s
    PROVE  SameUsers(s, s)
BY DEF SameUsers

\* A step of t that writes nothing and leaves the invocations alone.
LEMMA SilentStep ==
    ASSUME BudgetInv, AgentInv, AgentInv', NEW t \in Thread,
           \A x \in Thread : SameUsers(stack[x], stack'[x]),
           UNCHANGED <<caps, ended, made, hooked, lines, count, truncated>>
    PROVE  BudgetInv'
<1>1. stack \in [Thread -> Seq(Frame)] /\ stack' \in [Thread -> Seq(Frame)] /\ lines \in Seq(Line)
  BY DEF AgentInv, Typed, BudgetInv, Recorded
<1>2. Grown(lines, lines', t)
  BY <1>1, GrownSame
<1>3. Spent(t)' = Spent(t) /\ Marked(t)' = Marked(t)
  BY DEF Spent, Marked
<1>4. BudgetKept(t)'
  BY <1>1, <1>2, <1>3, KeptByUsers
<1>5. Recorded'
  BY DEF BudgetInv, Recorded
<1>6. QED
  BY <1>1, <1>2, <1>4, <1>5, QuietStep

\* One that writes a line that is not charged.
LEMMA FreeLineStep ==
    ASSUME BudgetInv, AgentInv, AgentInv', NEW t \in Thread,
           \A x \in Thread : SameUsers(stack[x], stack'[x]),
           UNCHANGED <<caps, ended, made, hooked, count, truncated>>,
           NEW l \in Line, lines' = Append(lines, l), l.thr = t,
           l.ev \notin {"enter", "exit"}, ~IsCall(l, t), ~IsMark(l, t)
    PROVE  BudgetInv'
<1>1. stack \in [Thread -> Seq(Frame)] /\ stack' \in [Thread -> Seq(Frame)] /\ lines \in Seq(Line)
  BY DEF AgentInv, Typed, BudgetInv, Recorded
<1>2. Grown(lines, lines', t)
  BY <1>1, GrownSame, GrownAppend
<1>3. Spent(t)' = Spent(t) /\ Marked(t)' = Marked(t) /\ Spent(t) \in Nat /\ Marked(t) \in Nat
  BY DEF Spent, Marked, BudgetInv, Recorded
<1>4. ASSUME NEW i \in 1..Len(lines), Within(lines, t, i, Spent(t), Marked(t))
      PROVE  Within(lines', t, i, Spent(t)', Marked(t)')
  BY <1>1, <1>3, <1>4, AfterAppend
<1>5. BudgetKept(t)'
  BY <1>1, <1>2, <1>4, KeptByUsers
<1>6. Recorded'
  BY <1>2 DEF BudgetInv, Recorded, Grown
<1>7. QED
  BY <1>1, <1>2, <1>5, <1>6, QuietStep

\* One that goes through emit; on_exception writes its own line after that.
LEMMA EmitStep ==
    ASSUME BudgetInv, AgentInv, AgentInv', NEW t \in hooked,
           \A x \in Thread : SameUsers(stack[x], stack'[x]),
           UNCHANGED <<caps, ended, made, hooked>>, Charge(t),
           NEW by \in Nat \cup {ByAgent}, NEW n \in Nat,
           \/ lines' = lines \o Emitted(t, by, n)
           \/ lines' = Append(lines \o Emitted(t, by, n), Record("exc", t, ByAgent, 0))
    PROVE  BudgetInv'
<1> DEFINE M == lines \o Emitted(t, by, n)
           l == Record("exc", t, ByAgent, 0)
<1>1. /\ stack \in [Thread -> Seq(Frame)] /\ stack' \in [Thread -> Seq(Frame)] /\ lines \in Seq(Line)
      /\ t \in Thread /\ depth[t] \in Nat
  BY DEF AgentInv, Typed, BudgetInv, Recorded
<1>2. lines' = M \/ lines' = Append(M, l)
  OBVIOUS
<1>3. M = lines \o Emitted(t, by, n)
  OBVIOUS
<1> HIDE DEF M
<1>4. /\ Grown(lines, M, t)
      /\ count' \in [Thread -> Nat] /\ truncated' \in [Thread -> BOOLEAN]
      /\ MaxFrameEvents > 0 => \A x \in Thread : count'[x] <= MaxFrameEvents
      /\ \A x \in Thread \ {t} : count'[x] = count[x] /\ truncated'[x] = truncated[x]
      /\ \A i \in 1..Len(lines) :
            /\ depth[t] > 0 /\ MaxFrameEvents > 0
            /\ Within(lines, t, i, Spent(t), Marked(t))
            => Within(M, t, i, Spent(t)', Marked(t)')
  BY <1>1, <1>3, EmitKeeps
<1>5. /\ l \in Line /\ l.thr = t /\ l.ev \notin {"enter", "exit"}
      /\ ~IsCall(l, t) /\ ~IsMark(l, t)
  BY <1>1 DEF Record, Line, IsCall, IsMark
<1> HIDE DEF l
<1>6. Grown(lines, lines', t)
  <2>1. Grown(lines, M, t)
    BY <1>4
  <2>2. Grown(lines, Append(M, l), t)
    BY <1>1, <1>5, <2>1, GrownAppend
  <2>3. QED
    BY <1>2, <2>1, <2>2
<1>7. Spent(t)' \in Nat /\ Marked(t)' \in Nat
  BY <1>1, <1>4 DEF Spent, Marked
<1>8. ASSUME NEW i \in 1..Len(lines), UserAt(stack[t]) # {}, MaxFrameEvents > 0,
             Within(lines, t, i, Spent(t), Marked(t))
      PROVE  Within(lines', t, i, Spent(t)', Marked(t)')
  <2>1. Within(M, t, i, Spent(t)', Marked(t)')
    BY <1>4, <1>8, UsersCount
  <2>2. M \in Seq(Line) /\ i \in 1..Len(M)
    BY <1>1, <1>4 DEF Grown
  <2>3. Within(Append(M, l), t, i, Spent(t)', Marked(t)')
    BY <1>5, <1>7, <2>1, <2>2, AfterAppend
  <2>4. QED
    BY <1>2, <2>1, <2>3
<1>9. BudgetKept(t)'
  BY <1>1, <1>6, <1>8, KeptByUsers
<1>10. Recorded'
  BY <1>4, <1>6 DEF Recorded, Grown
<1>11. QED
  BY <1>1, <1>4, <1>6, <1>9, <1>10, QuietStep

\* The stack of t alone changes, and not in its invocations.
LEMMA SameOnAll ==
    ASSUME AgentInv, NEW t \in Thread, NEW r, SameUsers(stack[t], r),
           stack' = [stack EXCEPT ![t] = r]
    PROVE  \A x \in Thread : SameUsers(stack[x], stack'[x])
<1>1. \A x \in Thread : stack'[x] = IF x = t THEN r ELSE stack[x]
  BY DEF AgentInv, Typed
<1>2. QED
  BY <1>1, SameSame

LEMMA BudgetLibrary ==
    ASSUME BudgetInv, AgentInv, AgentInv', NEW t \in Thread,
           EnterJdk(t) \/ ExitJdk(t) \/ CallUp(t)
    PROVE  BudgetInv'
<1>1. stack[t] \in Seq(Frame) /\ Len(stack[t]) \in Nat
  BY DEF AgentInv, Typed
<1>2. UNCHANGED <<caps, ended, made, hooked, lines, count, truncated>>
  BY DEF EnterJdk, ExitJdk, CallUp, init, bounds, locals
<1>3. /\ Other("jdk") \in Frame /\ Other("upcall") \in Frame
      /\ Other("jdk").kind # "user" /\ Other("upcall").kind # "user"
  BY FrameTypes DEF Other
<1>4. CASE EnterJdk(t)
  <2>1. stack' = [stack EXCEPT ![t] = Append(stack[t], Other("jdk"))]
    BY <1>4 DEF EnterJdk
  <2>2. SameUsers(stack[t], Append(stack[t], Other("jdk")))
    BY <1>1, <1>3, SamePush
  <2>3. QED
    BY <1>2, <2>1, <2>2, SameOnAll, SilentStep
<1>5. CASE CallUp(t)
  <2>1. stack' = [stack EXCEPT ![t] = Append(stack[t], Other("upcall"))]
    BY <1>5 DEF CallUp
  <2>2. SameUsers(stack[t], Append(stack[t], Other("upcall")))
    BY <1>1, <1>3, SamePush
  <2>3. QED
    BY <1>2, <2>1, <2>2, SameOnAll, SilentStep
<1>6. CASE ExitJdk(t)
  <2>1. stack' = [stack EXCEPT ![t] = SubSeq(stack[t], 1, Len(stack[t]) - 1)]
    BY <1>6 DEF ExitJdk, Below
  <2>2. TopKind(t) = "jdk"
    BY <1>6 DEF ExitJdk
  <2>3. stack[t] # <<>> /\ stack[t][Len(stack[t])].kind # "user"
    BY <2>2 DEF TopKind, Top
  <2>4. SameUsers(stack[t], SubSeq(stack[t], 1, Len(stack[t]) - 1))
    BY <1>1, <2>3, SamePop
  <2>5. QED
    BY <1>2, <2>1, <2>4, SameOnAll, SilentStep
<1>7. QED
  BY <1>4, <1>5, <1>6

LEMMA BudgetOutside ==
    ASSUME BudgetInv, AgentInv, AgentInv', NEW t \in Thread, LookupOutside(t) \/ Reference(t)
    PROVE  BudgetInv'
<1>1. UNCHANGED <<caps, ended, made, hooked, count, truncated, stack>>
  BY DEF LookupOutside, Reference, init, jvm, locals
<1>2. \A x \in Thread : SameUsers(stack[x], stack'[x])
  BY <1>1, SameSame
<1>3. stack[t] \in Seq(Frame)
  BY DEF AgentInv, Typed
<1>4. CASE LookupOutside(t)
  <2> DEFINE l == Record("jni-init", t, ByLibrary, 0)
  <2>1. l \in Line /\ l.thr = t /\ l.ev = "jni-init"
    BY DEF Record, Line, ByLibrary
  <2>2. lines' = Append(lines, l)
    BY <1>4 DEF LookupOutside, Write
  <2> HIDE DEF l
  <2>3. ~IsCall(l, t) /\ ~IsMark(l, t) /\ l.ev \notin {"enter", "exit"}
    BY <2>1 DEF IsCall, IsMark
  <2>4. QED
    BY <1>1, <1>2, <2>1, <2>2, <2>3, FreeLineStep
<1>5. CASE Reference(t)
  <2>1. lines' = lines \/ \E by \in Nat : lines' = Append(lines, Record("jni", t, by, 0))
    <3>1. CASE depth[t] > 0 \/ logAll
      <4> DEFINE by == IF stack[t] = <<>> THEN ByLibrary ELSE Top(t).id
      <4>1. lines' = Append(lines, Record("jni", t, by, 0))
        BY <1>5, <3>1 DEF Reference, Write
      <4>2. by \in Nat
        <5>1. stack[t] # <<>> => Top(t) \in Frame
          BY <1>3 DEF Top
        <5>2. QED
          BY <5>1 DEF Frame, ByLibrary
      <4> HIDE DEF by
      <4>3. QED
        BY <4>1, <4>2
    <3>2. CASE ~(depth[t] > 0 \/ logAll)
      BY <1>5, <3>2 DEF Reference
    <3>3. QED
      BY <3>1, <3>2
  <2>2. CASE lines' = lines
    BY <1>1, <1>2, <2>2, SilentStep
  <2>3. ASSUME NEW by \in Nat, lines' = Append(lines, Record("jni", t, by, 0))
        PROVE  BudgetInv'
    <3> DEFINE l == Record("jni", t, by, 0)
    <3>1. l \in Line /\ l.thr = t /\ l.ev = "jni" /\ l.n = 0 /\ l.by \in Nat
      BY DEF Record, Line
    <3>2. lines' = Append(lines, l)
      BY <2>3
    <3> HIDE DEF l
    <3>3. ~IsCall(l, t) /\ ~IsMark(l, t) /\ l.ev \notin {"enter", "exit"}
      BY <3>1 DEF IsCall, IsMark, ByAgent
    <3>4. QED
      BY <1>1, <1>2, <3>1, <3>2, <3>3, FreeLineStep
  <2>4. QED
    BY <2>1, <2>2, <2>3
<1>6. QED
  BY <1>4, <1>5

LEMMA BudgetPlain ==
    ASSUME BudgetInv, AgentInv, AgentInv', NEW t \in Thread, Plain(t)
    PROVE  BudgetInv'
<1>1. UNCHANGED <<caps, ended, made, hooked>> /\ t \in hooked
  BY DEF Plain, MayCall, init
<1>2. stack[t] \in Seq(Frame) /\ Len(stack[t]) \in Nat
  BY DEF AgentInv, Typed
<1>3. CASE TopKind(t) = "user"
  <2>1. stack[t] # <<>>
    BY <1>3 DEF TopKind
  <2>2. Top(t) \in Frame /\ Top(t) = stack[t][Len(stack[t])]
    BY <1>2, <2>1 DEF Top
  <2>3. Top(t).id \in Nat /\ Top(t).n + 1 \in Nat
    BY <2>2 DEF Frame
  <2> DEFINE r == Append(SubSeq(stack[t], 1, Len(stack[t]) - 1),
                         [stack[t][Len(stack[t])] EXCEPT !.n = Top(t).n + 1])
  <2>4. stack' = [stack EXCEPT ![t] = r]
    BY <1>3, <2>2 DEF Plain, WithTop, Below
  <2>5. SameUsers(stack[t], r)
    BY <1>2, <2>1, <2>3, SameTop
  <2> HIDE DEF r
  <2>6. \A x \in Thread : SameUsers(stack[x], stack'[x])
    BY <2>4, <2>5, SameOnAll
  <2>7. lines' = lines \o Emitted(t, Top(t).id, Top(t).n + 1) /\ Charge(t)
    BY <1>3 DEF Plain, Emit
  <2>8. QED
    BY <1>1, <2>3, <2>6, <2>7, EmitStep
<1>4. CASE TopKind(t) # "user"
  <2>1. stack' = stack /\ lines' = lines \o Emitted(t, ByLibrary, 0) /\ Charge(t)
    BY <1>4 DEF Plain, Emit
  <2>2. \A x \in Thread : SameUsers(stack[x], stack'[x])
    BY <2>1, SameSame
  <2>3. ByLibrary \in Nat
    BY DEF ByLibrary
  <2>4. QED
    BY <1>1, <2>1, <2>2, <2>3, EmitStep
<1>5. QED
  BY <1>3, <1>4

LEMMA BudgetReturn ==
    ASSUME BudgetInv, AgentInv, AgentInv', NEW t \in Thread, ReturnUp(t)
    PROVE  BudgetInv'
<1> DEFINE s == stack[t]
           c == s[Len(s) - 1]
           n == IF c.kind = "user" /\ t \in hooked THEN c.n + 1 ELSE c.n
           r == Append(SubSeq(s, 1, Len(s) - 2), [c EXCEPT !.n = n])
<1>1. UNCHANGED <<caps, ended, made, hooked>>
  BY DEF ReturnUp, init, bounds
<1>2. s \in Seq(Frame) /\ Len(s) \in Nat /\ s # <<>> /\ s[Len(s)].kind = "upcall"
  BY DEF AgentInv, Typed, ReturnUp, TopKind, Top
<1>3. Len(s) > 1
  BY <1>2 DEF AgentInv, Sound
<1>4. c \in Frame
  BY <1>2, <1>3
<1>5. c.id \in Nat /\ n \in Nat
  BY <1>4 DEF Frame
<1>6. /\ stack' = [stack EXCEPT ![t] = r]
      /\ IF t \in hooked THEN lines' = lines \o Emitted(t, c.id, n) /\ Charge(t)
         ELSE UNCHANGED <<lines, count, truncated>>
  BY DEF ReturnUp, Emit
<1>7. SameUsers(s, r)
  BY <1>2, <1>3, <1>5, SameUnder
<1> HIDE DEF r, n, c
<1>8. \A x \in Thread : SameUsers(stack[x], stack'[x])
  BY <1>6, <1>7, SameOnAll
<1>9. CASE t \in hooked
  BY <1>1, <1>5, <1>6, <1>8, <1>9, EmitStep
<1>10. CASE t \notin hooked
  BY <1>1, <1>6, <1>8, <1>10, SilentStep
<1>11. QED
  BY <1>9, <1>10

LEMMA BudgetException ==
    ASSUME BudgetInv, AgentInv, AgentInv', NEW t \in Thread, Exception(t)
    PROVE  BudgetInv'
<1> DEFINE r == [i \in 1..Len(stack[t]) |-> [stack[t][i] EXCEPT !.exc = TRUE]]
<1>1. UNCHANGED <<caps, ended, made, hooked>> /\ ByAgent \in Nat \cup {ByAgent} /\ 0 \in Nat
  BY DEF Exception, init
<1>2. stack[t] \in Seq(Frame)
  BY DEF AgentInv, Typed
<1>3. stack' = [stack EXCEPT ![t] = r]
  BY DEF Exception
<1>4. SameUsers(stack[t], r)
  BY <1>2, SameFlags
<1> HIDE DEF r
<1>5. \A x \in Thread : SameUsers(stack[x], stack'[x])
  BY <1>3, <1>4, SameOnAll
<1>6. CASE t \in hooked
  <2>1. /\ lines' = Append(lines \o Emitted(t, ByAgent, 0), Record("exc", t, ByAgent, 0))
        /\ Charge(t)
    BY <1>6 DEF Exception
  <2>2. QED
    BY <1>1, <1>5, <1>6, <2>1, EmitStep
<1>7. CASE t \notin hooked
  <2> DEFINE l == Record("exc", t, ByAgent, 0)
  <2>1. l \in Line /\ l.thr = t /\ l.ev = "exc"
    BY DEF Record, Line
  <2>2. lines' = Append(lines, l) /\ UNCHANGED <<count, truncated>>
    BY <1>7 DEF Exception, Write
  <2> HIDE DEF l
  <2>3. ~IsCall(l, t) /\ ~IsMark(l, t) /\ l.ev \notin {"enter", "exit"}
    BY <2>1 DEF IsCall, IsMark
  <2>4. QED
    BY <1>1, <1>5, <2>1, <2>2, <2>3, FreeLineStep
<1>8. QED
  BY <1>6, <1>7

LEMMA BudgetThreads ==
    ASSUME BudgetInv, AgentInv, AgentInv', NEW t \in Thread, StartThread(t) \/ EndThread(t)
    PROVE  BudgetInv'
<1>1. /\ UNCHANGED <<stack, caps, ended, made, lines>> /\ stack[t] = <<>>
      /\ \A x \in Thread \ {t} :
            /\ count'[x] = count[x] /\ truncated'[x] = truncated[x]
            /\ x \in hooked' <=> x \in hooked
      /\ count' \in [Thread -> Nat] /\ truncated' \in [Thread -> BOOLEAN]
      /\ count'[t] \in {0, count[t]}
  <2>1. CASE StartThread(t)
    BY <2>1 DEF StartThread, locals, bounds, AgentInv, Sound, BudgetInv, Recorded
  <2>2. CASE EndThread(t)
    BY <2>2 DEF EndThread, bounds, BudgetInv, Recorded
  <2>3. QED
    BY <2>1, <2>2
<1>2. stack \in [Thread -> Seq(Frame)] /\ lines \in Seq(Line)
  BY DEF AgentInv, Typed, BudgetInv, Recorded
<1>3. Grown(lines, lines', t)
  BY <1>1, <1>2, GrownSame
<1>4. BudgetKept(t)'
  BY <1>1, EmptyStack DEF BudgetKept
<1>5. Recorded'
  BY <1>1, AgentAssumption DEF BudgetInv, Recorded
<1>6. \A x \in Thread : SameUsers(stack[x], stack'[x])
  BY <1>1, SameSame
<1>7. QED
  BY <1>1, <1>2, <1>3, <1>4, <1>5, <1>6, QuietStep

LEMMA BudgetSame ==
    ASSUME BudgetInv,
           UNCHANGED <<stack, lines, count, truncated, hooked, made, caps, ended>>
    PROVE  BudgetInv'
<1>1. Granted' /\ Recorded' /\ LinesDiffer'
  BY DEF BudgetInv, Granted, Recorded, LinesDiffer
<1>2. FramesKnown' /\ FramesDiffer'
  BY DEF BudgetInv, FramesKnown, Known, FramesDiffer, EndedAt
<1>3. ASSUME NEW t \in Thread PROVE BudgetKept(t)'
  <2>1. Spent(t)' = Spent(t) /\ Marked(t)' = Marked(t)
    BY DEF Spent, Marked
  <2>2. BudgetKept(t)
    BY DEF BudgetInv
  <2>3. QED
    BY <2>1, <2>2 DEF BudgetKept, BeganAt
<1>4. ASSUME NEW e \in ended' PROVE SpanKept(e)'
  <2>1. SpanKept(e)
    BY <1>4 DEF BudgetInv
  <2>2. QED
    BY <2>1 DEF SpanKept, BeganAt, EndedAt
<1>5. QED
  BY <1>1, <1>2, <1>3, <1>4 DEF BudgetInv

-----------------------------------------------------------------------------
(* An invocation begins, and ends.                                         *)

LEMMA LeastWithMore ==
    ASSUME NEW S, S \subseteq Nat, S # {}, NEW n \in Nat, \A x \in S : x <= n
    PROVE  /\ Min(S \cup {n}) = Min(S)
           /\ S \ {n} # {} => Min(S \ {n}) = Min(S)
<1>1. Min(S) \in S /\ \A x \in S : Min(S) <= x
  BY Least
<1>2. Min(S \cup {n}) \in S \cup {n} /\ \A x \in S \cup {n} : Min(S \cup {n}) <= x
  <2>1. S \cup {n} \subseteq Nat /\ S \cup {n} # {}
    OBVIOUS
  <2>2. QED
    BY <2>1, Least
<1>3. Min(S \cup {n}) = Min(S)
  <2>1. Min(S) \in Nat /\ Min(S \cup {n}) \in Nat /\ Min(S) <= n
    BY <1>1, <1>2
  <2>2. Min(S \cup {n}) <= Min(S) /\ Min(S) <= Min(S \cup {n})
    BY <1>1, <1>2, <2>1
  <2>3. QED
    BY <2>1, <2>2
<1>4. ASSUME S \ {n} # {} PROVE Min(S \ {n}) = Min(S)
  <2>1. Min(S \ {n}) \in S \ {n} /\ \A x \in S \ {n} : Min(S \ {n}) <= x
    <3>1. S \ {n} \subseteq Nat
      OBVIOUS
    <3>2. QED
      BY <1>4, <3>1, Least
  <2>2. Min(S) \in S \ {n}
    <3>1. Min(S) <= Min(S \ {n}) /\ Min(S \ {n}) <= n /\ Min(S \ {n}) # n
      BY <1>1, <2>1
    <3>2. Min(S) \in Nat /\ Min(S \ {n}) \in Nat
      BY <1>1, <2>1
    <3>3. QED
      BY <1>1, <3>1, <3>2
  <2>3. Min(S) <= Min(S \ {n}) /\ Min(S \ {n}) <= Min(S)
    BY <1>1, <2>1, <2>2
  <2>4. Min(S) \in Nat /\ Min(S \ {n}) \in Nat
    BY <1>1, <2>1
  <2>5. QED
    BY <2>3, <2>4
<1>5. QED
  BY <1>3, <1>4

LEMMA BudgetEnter ==
    ASSUME BudgetInv, AgentInv, AgentInv', NEW t \in Thread, EnterUser(t)
    PROVE  BudgetInv'
<1> DEFINE s == stack[t]
           r == stack'[t]
<1>1. /\ s \in Seq(Frame) /\ Len(s) \in Nat /\ made \in Nat /\ Enabled("entry") \in BOOLEAN
      /\ lines \in Seq(Line) /\ Len(lines) \in Nat
      /\ count \in [Thread -> Nat] /\ truncated \in [Thread -> BOOLEAN]
  BY DEF AgentInv, Typed, BudgetInv, Recorded, Enabled
<1>2. PICK en \in BOOLEAN : en <=> Enabled("entry")
  BY <1>1
<1>3. PICK f \in Frame : /\ f = UserFrame(made + 1, Enabled("entry"))
                         /\ f.kind = "user" /\ f.id = made + 1 /\ (f.seen <=> en)
  <2> DEFINE g == UserFrame(made + 1, Enabled("entry"))
  <2>1. made + 1 \in Nat
    BY <1>1
  <2>2. g \in Frame
    BY <1>1, <2>1, FrameTypes, Zenon
  <2>3. g.kind = "user" /\ g.id = made + 1 /\ g.seen = Enabled("entry")
    BY DEF UserFrame
  <2> HIDE DEF g
  <2>4. g.seen <=> en
    BY <1>2, <2>3
  <2>5. QED
    BY <2>2, <2>3, <2>4, Zenon DEF g
<1>4. PICK l \in Line : /\ l = Record("enter", t, made + 1, 0)
                        /\ l.thr = t /\ l.ev = "enter" /\ l.by = made + 1
  <2> DEFINE g == Record("enter", t, made + 1, 0)
  <2>1. g \in Line /\ g.thr = t /\ g.ev = "enter" /\ g.by = made + 1
    BY <1>1 DEF Record, Line
  <2> HIDE DEF g
  <2>2. QED
    BY <2>1 DEF g
<1>5. en => caps = Events
  BY <1>2 DEF Enabled, BudgetInv, Granted
<1>6. made' = made + 1 /\ UNCHANGED <<caps, hooked, ended>>
  BY DEF EnterUser, init
<1>7. r = Append(s, f) /\ \A x \in Thread \ {t} : stack'[x] = stack[x]
  BY <1>3 DEF EnterUser, AgentInv, Typed
<1>8. en => /\ lines' = Append(lines, l)
            /\ count' = [count EXCEPT ![t] = IF depth[t] = 0 THEN 0 ELSE count[t]]
            /\ truncated' = [truncated EXCEPT ![t] = depth[t] # 0 /\ truncated[t]]
  BY <1>2, <1>4 DEF EnterUser, Write
<1>9. ~en => UNCHANGED <<count, truncated, lines>>
  BY <1>2 DEF EnterUser
<1>10. /\ Len(r) = Len(s) + 1 /\ r[Len(s) + 1] = f /\ \A i \in 1..Len(s) : r[i] = s[i]
       /\ UserAt(r) = UserAt(s) \cup IF f.kind = "user" /\ f.seen THEN {Len(s) + 1} ELSE {}
       /\ UserAt(s) \subseteq 1..Len(s)
  <2>1. Len(r) = Len(s) + 1 /\ r[Len(s) + 1] = f /\ \A i \in 1..Len(s) : r[i] = s[i]
    BY <1>1, <1>7
  <2>2. UserAt(r) = UserAt(s) \cup IF f.kind = "user" /\ f.seen THEN {Len(s) + 1} ELSE {}
    BY <1>1, <1>7, Push
  <2>3. QED
    BY <1>1, <2>1, <2>2, Finite
<1>11. /\ lines' \in Seq(Line) /\ Len(lines') \in Nat
       /\ en => Len(lines') = Len(lines) + 1 /\ lines'[Len(lines) + 1] = l
       /\ ~en => Len(lines') = Len(lines)
       /\ \A m \in 1..Len(lines) : lines'[m] = lines[m]
  <2>1. CASE en
    <3>1. lines' = Append(lines, l)
      BY <1>8, <2>1
    <3>2. QED
      BY <1>1, <2>1, <3>1
  <2>2. CASE ~en
    BY <1>1, <1>9, <2>2
  <2>3. QED
    BY <2>1, <2>2
<1> HIDE DEF r
<1>12. Recorded'
  <2>1. count' \in [Thread -> Nat] /\ truncated' \in [Thread -> BOOLEAN]
    <3>1. CASE en
      <4>1. (IF depth[t] = 0 THEN 0 ELSE count[t]) \in Nat /\ (depth[t] # 0 /\ truncated[t]) \in BOOLEAN
        BY <1>1
      <4>2. QED
        BY <1>1, <1>8, <3>1, <4>1
    <3>2. CASE ~en
      BY <1>1, <1>9, <3>2
    <3>3. QED
      BY <3>1, <3>2
  <2>2. MaxFrameEvents > 0 => \A x \in Thread : count'[x] <= MaxFrameEvents
    <3>1. \A x \in Thread : count'[x] = count[x] \/ count'[x] = 0
      BY <1>1, <1>8, <1>9
    <3>2. QED
      BY <3>1, AgentAssumption DEF BudgetInv, Recorded
  <2>3. QED
    BY <1>11, <2>1, <2>2 DEF Recorded
<1>13. \A m \in 1..Len(lines') : \/ m \in 1..Len(lines) /\ lines'[m] = lines[m]
                                 \/ en /\ m = Len(lines) + 1 /\ lines'[m] = l
  BY <1>1, <1>11
<1>14. \A k : \A m \in 1..Len(lines') : EndedAt(m, k)' => m \in 1..Len(lines) /\ EndedAt(m, k)
  BY <1>4, <1>13 DEF EndedAt
<1>15. \A x \in Thread : \A i \in 1..Len(stack'[x]) :
          \/ i \in 1..Len(stack[x]) /\ stack'[x][i] = stack[x][i]
          \/ x = t /\ i = Len(s) + 1 /\ stack'[x][i] = f
  <2>1. ASSUME NEW i \in 1..Len(r)
        PROVE  (i \in 1..Len(s) /\ r[i] = s[i]) \/ (i = Len(s) + 1 /\ r[i] = f)
    BY <1>1, <1>10
  <2>2. \A i \in 1..Len(stack'[t]) :
            (i \in 1..Len(s) /\ stack'[t][i] = s[i]) \/ (i = Len(s) + 1 /\ stack'[t][i] = f)
    BY <2>1 DEF r
  <2>3. QED
    BY <1>7, <2>2
<1>16. \A x \in Thread : \A i \in 1..Len(stack[x]) :
          /\ stack[x][i] \in Frame /\ stack[x][i].id \in Nat
          /\ stack[x][i].kind = "user" => stack[x][i].id <= made
  <2>1. \A x \in Thread : stack[x] \in Seq(Frame)
    BY DEF AgentInv, Typed
  <2>2. \A x \in Thread : \A i \in 1..Len(stack[x]) : stack[x][i] \in Frame
    BY <2>1
  <2>3. \A h \in Frame : h.id \in Nat
    BY DEF Frame
  <2>4. \A x \in Thread : \A i \in 1..Len(stack[x]) :
            stack[x][i].kind = "user" => stack[x][i].id <= made
    BY DEF BudgetInv, FramesKnown, Known
  <2>5. QED
    BY <2>2, <2>3, <2>4
<1>17. FramesKnown'
  <2>1. \A h \in Frame : Known(h) /\ h.id \in Nat => Known(h)'
    BY <1>1, <1>6, <1>14 DEF Known
  <2>2. Known(f)'
    <3>1. \A m \in 1..Len(lines) : ~EndedAt(m, f.id)
      BY <1>1, <1>3 DEF BudgetInv, LinesDiffer, EndedAt
    <3>2. \A m \in 1..Len(lines') : ~EndedAt(m, f.id)'
      BY <1>14, <3>1
    <3>3. QED
      BY <1>1, <1>3, <1>5, <1>6, <3>2 DEF Known
  <2>3. ASSUME NEW x \in Thread, NEW i \in 1..Len(stack'[x])
        PROVE  Known(stack[x][i])'
    <3>1. CASE i \in 1..Len(stack[x]) /\ stack'[x][i] = stack[x][i]
      <4>1. PICK h \in Frame : h = stack[x][i]
        BY <1>16, <3>1
      <4>2. Known(h) /\ h.id \in Nat
        BY <1>16, <3>1, <4>1 DEF BudgetInv, FramesKnown
      <4>3. Known(h)'
        BY <2>1, <4>2
      <4>4. h = stack'[x][i]
        BY <3>1, <4>1
      <4>5. QED
        BY <4>3, <4>4
    <3>2. CASE x = t /\ i = Len(s) + 1 /\ stack'[x][i] = f
      BY <2>2, <3>2
    <3>3. QED
      BY <1>15, <3>1, <3>2
  <2>4. QED
    BY <2>3 DEF FramesKnown
<1>18. FramesDiffer'
  <2>1. SUFFICES ASSUME NEW x \in Thread, NEW u \in Thread,
                        NEW i \in 1..Len(stack'[x]), NEW j \in 1..Len(stack'[u]),
                        stack'[x][i].kind = "user", stack'[u][j].kind = "user",
                        stack'[x][i].id # 0, stack'[x][i].id = stack'[u][j].id
                 PROVE  x = u /\ i = j
    BY DEF FramesDiffer
  <2>2. CASE i \in 1..Len(stack[x]) /\ j \in 1..Len(stack[u])
             /\ stack'[x][i] = stack[x][i] /\ stack'[u][j] = stack[u][j]
    BY <2>1, <2>2 DEF BudgetInv, FramesDiffer
  <2>3. CASE x = t /\ i = Len(s) + 1 /\ u = t /\ j = Len(s) + 1
    BY <2>3
  <2>4. CASE i \in 1..Len(stack[x]) /\ stack'[x][i] = stack[x][i] /\ stack'[u][j] = f
    BY <1>1, <1>3, <1>16, <2>1, <2>4
  <2>5. CASE j \in 1..Len(stack[u]) /\ stack'[u][j] = stack[u][j] /\ stack'[x][i] = f
    BY <1>1, <1>3, <1>16, <2>1, <2>5
  <2>6. QED
    BY <1>15, <2>2, <2>3, <2>4, <2>5
<1>19. LinesDiffer'
  <2>1. LinesDiffer /\ \A m \in 1..Len(lines) : lines[m].by \in Nat \cup {ByAgent}
    <3>1. \A m \in 1..Len(lines) : lines[m] \in Line
      BY <1>1
    <3>2. \A k \in Line : k.by \in Nat \cup {ByAgent}
      BY DEF Line
    <3>3. QED
      BY <3>1, <3>2 DEF BudgetInv
  <2>2. ASSUME NEW m \in 1..Len(lines'), lines'[m].ev \in {"enter", "exit"}
        PROVE  lines'[m].by <= made'
    <3>1. CASE m \in 1..Len(lines) /\ lines'[m] = lines[m]
      <4>1. lines[m].by <= made /\ lines[m].by \in Int
        BY <2>1, <2>2, <3>1 DEF LinesDiffer, ByAgent
      <4>2. QED
        BY <1>1, <1>6, <3>1, <4>1
    <3>2. CASE lines'[m] = l
      BY <1>1, <1>4, <1>6, <3>2
    <3>3. QED
      BY <1>13, <3>1, <3>2
  <2>3. ASSUME NEW m \in 1..Len(lines'), NEW k \in 1..Len(lines'),
               lines'[m].ev = lines'[k].ev, lines'[m].ev \in {"enter", "exit"},
               lines'[m].by = lines'[k].by, lines'[m].by # 0
        PROVE  m = k
    <3>1. \A j \in 1..Len(lines) : lines[j].ev = "enter" => lines[j].by # made + 1
      BY <1>1, <2>1 DEF LinesDiffer
    <3>2. CASE m \in 1..Len(lines) /\ lines'[m] = lines[m] /\ k \in 1..Len(lines) /\ lines'[k] = lines[k]
      BY <2>1, <2>3, <3>2 DEF LinesDiffer
    <3>3. CASE m = Len(lines) + 1 /\ k = Len(lines) + 1
      BY <3>3
    <3>4. CASE m \in 1..Len(lines) /\ lines'[m] = lines[m] /\ lines'[k] = l
      BY <1>4, <2>3, <3>1, <3>4
    <3>5. CASE k \in 1..Len(lines) /\ lines'[k] = lines[k] /\ lines'[m] = l
      BY <1>4, <2>3, <3>1, <3>5
    <3>6. QED
      BY <1>13, <3>2, <3>3, <3>4, <3>5
  <2>4. QED
    BY <2>2, <2>3 DEF LinesDiffer
<1>20. \A e \in ended' : SpanKept(e)'
  <2>1. Len(lines) <= Len(lines')
    BY <1>1, <1>11
  <2>2. QED
    BY <1>1, <1>6, <1>11, <2>1, SpanStays DEF BudgetInv
<1>21. ASSUME NEW x \in Thread, NEW i \in 1..Len(lines), NEW c \in Nat, NEW k \in Nat,
              Within(lines, x, i, c, k)
       PROVE  Within(lines', x, i, c, k)
  <2>1. CASE en
    <3>1. ~IsCall(l, x) /\ ~IsMark(l, x)
      BY <1>4 DEF IsCall, IsMark
    <3>2. Within(Append(lines, l), x, i, IF IsCall(l, x) THEN c + 1 ELSE c,
                                         IF IsMark(l, x) THEN k + 1 ELSE k)
      BY <1>1, <1>21, AfterAppend
    <3>3. lines' = Append(lines, l)
      BY <1>8, <2>1
    <3>4. QED
      BY <3>1, <3>2, <3>3
  <2>2. CASE ~en
    BY <1>9, <1>21, <2>2
  <2>3. QED
    BY <2>1, <2>2
<1>22. ASSUME NEW x \in Thread
       PROVE  Spent(x) \in Nat /\ Marked(x) \in Nat
  BY <1>1 DEF Spent, Marked
<1>23. ASSUME NEW x \in Thread, x # t PROVE BudgetKept(x)'
  <2>1. Spent(x)' = Spent(x) /\ Marked(x)' = Marked(x)
    BY <1>1, <1>6, <1>8, <1>9, <1>23 DEF Spent, Marked
  <2>2. stack'[x] = stack[x]
    BY <1>7, <1>23
  <2>3. SameOutermost(stack[x], stack'[x])
    BY <2>2 DEF SameOutermost
  <2>4. Len(lines) <= Len(lines')
    BY <1>1, <1>11
  <2>5. \A i \in 1..Len(lines) : Within(lines, x, i, Spent(x), Marked(x)) =>
            Within(lines', x, i, Spent(x)', Marked(x)')
    BY <1>21, <1>22, <2>1
  <2>6. QED
    BY <1>11, <2>3, <2>4, <2>5, KeptByOutermost
<1>24. BudgetKept(t)'
  <2>1. CASE UserAt(s) # {}
    <3>1. Spent(t)' = Spent(t) /\ Marked(t)' = Marked(t)
      <4>1. t \in hooked => depth[t] > 0 /\ depth[t] # 0
        BY <2>1, UsersCount
      <4>2. t \in hooked => count'[t] = count[t] /\ (truncated'[t] <=> truncated[t])
        BY <1>1, <1>8, <1>9, <4>1
      <4>3. QED
        BY <1>6, <4>2 DEF Spent, Marked
    <3>2. SameOutermost(s, r)
      <4>1. /\ UserAt(s) \subseteq Nat /\ Len(s) + 1 \in Nat
            /\ \A i \in UserAt(s) : i <= Len(s) + 1 /\ i \in 1..Len(s)
        BY <1>1, <1>10
      <4>2. Min(UserAt(r)) = Min(UserAt(s))
        <5>1. UserAt(r) = UserAt(s) \cup {Len(s) + 1} \/ UserAt(r) = UserAt(s)
          BY <1>10
        <5>2. QED
          BY <2>1, <4>1, <5>1, LeastWithMore
      <4>3. Min(UserAt(s)) \in 1..Len(s)
        BY <2>1, <4>1, Least
      <4>4. QED
        BY <1>10, <2>1, <4>2, <4>3 DEF SameOutermost
    <3>3. Len(lines) <= Len(lines')
      BY <1>1, <1>11
    <3>4. \A i \in 1..Len(lines) : Within(lines, t, i, Spent(t), Marked(t)) =>
              Within(lines', t, i, Spent(t)', Marked(t)')
      BY <1>21, <1>22, <3>1
    <3>5. QED
      BY <1>11, <3>2, <3>3, <3>4, KeptByOutermost DEF r
  <2>2. CASE UserAt(s) = {} /\ ~en
    <3>1. UserAt(r) = {}
      BY <1>3, <1>10, <2>2
    <3>2. QED
      BY <3>1 DEF BudgetKept, r
  <2>3. CASE UserAt(s) = {} /\ en
    <3>1. UserAt(r) = {Len(s) + 1}
      BY <1>3, <1>10, <2>3
    <3>2. Min(UserAt(r)) = Len(s) + 1
      <4>1. UserAt(r) \subseteq Nat /\ UserAt(r) # {}
        BY <1>1, <3>1
      <4>2. QED
        BY <3>1, <4>1, Least
    <3>3. r[Min(UserAt(r))].id = made + 1
      BY <1>3, <1>10, <3>2
    <3>4. PICK i \in Nat : i = Len(lines) + 1
      BY <1>1
    <3>5. i \in 1..Len(lines') /\ lines'[i] = l
      BY <1>1, <1>11, <2>3, <3>4
    <3>6. BeganAt(i, stack[t][Min(UserAt(stack[t]))].id)'
      BY <1>4, <3>3, <3>5 DEF BeganAt, r
    <3>7. CallsAfter(lines', t, i) = {} /\ MarksAfter(lines', t, i) = {}
      BY <1>1, <1>11, <2>3, <3>4 DEF CallsAfter, MarksAfter
    <3>8. Spent(t)' \in Nat /\ Marked(t)' \in Nat
      BY <1>12 DEF Spent, Marked, Recorded
    <3>9. Marked(t)' = 0
      <4>1. CASE t \in hooked
        <5>1. InScope(t) /\ Sound(t)
          BY <4>1 DEF AgentInv, Typed, InScope
        <5>2. depth[t] = Cardinality(UserAt(s))
          BY <1>5, <2>3, <5>1 DEF Sound
        <5>3. ~truncated'[t]
          BY <1>1, <1>8, <2>3, <5>2, FS_EmptySet
        <5>4. QED
          BY <5>3 DEF Marked
      <4>2. CASE t \notin hooked
        BY <1>6, <4>2 DEF Marked
      <4>3. QED
        BY <4>1, <4>2
    <3>10. Within(lines', t, i, Spent(t)', Marked(t)')
      BY <3>7, <3>8, <3>9, FS_EmptySet DEF Within
    <3>11. QED
      BY <3>5, <3>6, <3>10 DEF BudgetKept
  <2>4. QED
    BY <2>1, <2>2, <2>3
<1>25. QED
  BY <1>12, <1>17, <1>18, <1>19, <1>20, <1>23, <1>24, <1>6 DEF BudgetInv, Granted

LEMMA BudgetExit ==
    ASSUME BudgetInv, AgentInv, AgentInv', NEW t \in Thread, ExitUser(t)
    PROVE  BudgetInv'
<1> DEFINE s == stack[t]
           r == stack'[t]
           k == s[Len(s)].id
<1>1. /\ s \in Seq(Frame) /\ Len(s) \in Nat /\ made \in Nat
      /\ lines \in Seq(Line) /\ Len(lines) \in Nat
      /\ count \in [Thread -> Nat] /\ truncated \in [Thread -> BOOLEAN]
  BY DEF AgentInv, Typed, BudgetInv, Recorded
<1>2. /\ UNCHANGED <<caps, hooked, made, count, truncated>>
      /\ r = SubSeq(s, 1, Len(s) - 1) /\ \A x \in Thread \ {t} : stack'[x] = stack[x]
  BY DEF ExitUser, Below, init, AgentInv, Typed
<1>3. s # <<>> /\ Top(t) = s[Len(s)] /\ s[Len(s)].kind = "user"
  BY DEF ExitUser, TopKind, Top
<1>4. Len(s) # 0 /\ Len(s) \in 1..Len(s) /\ s[Len(s)] \in Frame /\ k \in Nat
  <2>1. Len(s) # 0
    BY <1>1, <1>3
  <2>2. s[Len(s)] \in Frame
    BY <1>1, <2>1
  <2>3. k \in Nat
    BY <2>2 DEF Frame
  <2>4. QED
    BY <1>1, <2>1, <2>2, <2>3
<1>5. /\ Len(r) = Len(s) - 1 /\ \A i \in 1..Len(r) : r[i] = s[i]
      /\ UserAt(r) = UserAt(s) \ {Len(s)} /\ UserAt(s) \subseteq 1..Len(s)
      /\ Len(s) \in UserAt(s) <=> s[Len(s)].kind = "user" /\ s[Len(s)].seen
  BY <1>1, <1>2, <1>3, Pop, Finite
<1>6. PICK l \in Line : /\ l = Record("exit", t, k, 0)
                        /\ l.thr = t /\ l.ev = "exit" /\ l.by = k
  <2> DEFINE g == Record("exit", t, k, 0)
  <2>1. g \in Line /\ g.thr = t /\ g.ev = "exit" /\ g.by = k
    BY <1>4 DEF Record, Line
  <2> HIDE DEF g
  <2>2. QED
    BY <2>1 DEF g
<1>7. \/ lines' = lines /\ ended' = ended
      \/ /\ lines' = Append(lines, l)
         /\ ended' = IF s[Len(s)].seen
              THEN ended \cup {[frame |-> s[Len(s)], thr |-> t, outer |-> s[Min(UserAt(s))].id,
                                quiet |-> Quiet(t), hooked |-> t \in hooked]}
              ELSE ended
  BY <1>3, <1>6 DEF ExitUser, Write, Users, UserAt
<1> HIDE DEF r
<1>8. /\ lines' \in Seq(Line) /\ Len(lines') \in Nat /\ Len(lines) <= Len(lines')
      /\ \A m \in 1..Len(lines) : lines'[m] = lines[m]
      /\ \A m \in 1..Len(lines') :
            \/ m \in 1..Len(lines) /\ lines'[m] = lines[m]
            \/ m = Len(lines) + 1 /\ lines'[m] = l
  <2>1. CASE lines' = lines
    BY <1>1, <2>1
  <2>2. CASE lines' = Append(lines, l)
    BY <1>1, <2>2
  <2>3. QED
    BY <1>7, <2>1, <2>2
<1>9. Recorded'
  BY <1>1, <1>2, <1>8 DEF Recorded, BudgetInv
<1>10. \A x \in Thread : \A i \in 1..Len(stack'[x]) :
           /\ i \in 1..Len(stack[x]) /\ stack'[x][i] = stack[x][i]
           /\ x = t => i # Len(s)
  <2>1. \A i \in 1..Len(r) : i \in 1..Len(s) /\ r[i] = s[i] /\ i # Len(s)
    BY <1>1, <1>5
  <2>2. QED
    BY <1>2, <2>1 DEF r
<1>11. FramesKnown'
  <2>1. ASSUME NEW x \in Thread, NEW i \in 1..Len(stack'[x]), stack'[x][i].kind = "user"
        PROVE  /\ stack'[x][i].id <= made
               /\ stack'[x][i].seen => stack'[x][i].id # 0 /\ caps = Events
               /\ stack'[x][i].id # 0 => \A m \in 1..Len(lines') : ~EndedAt(m, stack[x][i].id)'
    <3>1. /\ i \in 1..Len(stack[x]) /\ stack[x][i].kind = "user" /\ stack'[x][i] = stack[x][i]
          /\ x = t => i # Len(s)
      BY <1>10, <2>1
    <3>2. Known(stack[x][i])
      BY <3>1 DEF FramesKnown, BudgetInv
    <3>3. \A m \in 1..Len(lines) : stack[x][i].id # 0 => ~EndedAt(m, stack[x][i].id)
      BY <3>1, <3>2 DEF Known
    <3>4. stack[x][i].id # 0 => stack[x][i].id # k
      BY <1>3, <1>4, <3>1 DEF BudgetInv, FramesDiffer
    <3>5. ASSUME NEW m \in 1..Len(lines'), stack[x][i].id # 0
          PROVE  ~EndedAt(m, stack[x][i].id)'
      BY <1>6, <1>8, <3>1, <3>3, <3>4, <3>5 DEF EndedAt
    <3>6. QED
      BY <3>1, <3>2, <3>5 DEF Known
  <2>2. QED
    BY <1>2, <2>1 DEF FramesKnown, Known
<1>12. FramesDiffer'
  <2>1. SUFFICES ASSUME NEW x \in Thread, NEW u \in Thread,
                        NEW i \in 1..Len(stack'[x]), NEW j \in 1..Len(stack'[u]),
                        stack'[x][i].kind = "user", stack'[u][j].kind = "user",
                        stack'[x][i].id # 0, stack'[x][i].id = stack'[u][j].id
                 PROVE  x = u /\ i = j
    BY DEF FramesDiffer
  <2>2. /\ i \in 1..Len(stack[x]) /\ j \in 1..Len(stack[u])
        /\ stack'[x][i] = stack[x][i] /\ stack'[u][j] = stack[u][j]
    BY <1>10
  <2>3. QED
    BY <2>1, <2>2 DEF FramesDiffer, BudgetInv
<1>13. k <= made /\ (k # 0 => \A m \in 1..Len(lines) : ~EndedAt(m, k))
  <2>1. Known(s[Len(s)])
    BY <1>4 DEF BudgetInv, FramesKnown
  <2>2. QED
    BY <1>3, <2>1 DEF Known
<1>14. LinesDiffer'
  <2>1. LinesDiffer
    BY DEF BudgetInv
  <2>2. ASSUME NEW m \in 1..Len(lines'), lines'[m].ev \in {"enter", "exit"}
        PROVE  lines'[m].by <= made'
    <3>1. CASE m \in 1..Len(lines) /\ lines'[m] = lines[m]
      BY <1>2, <2>1, <2>2, <3>1 DEF LinesDiffer
    <3>2. CASE lines'[m] = l
      BY <1>2, <1>6, <1>13, <3>2
    <3>3. QED
      BY <1>8, <3>1, <3>2
  <2>3. ASSUME NEW m \in 1..Len(lines'), NEW j \in 1..Len(lines'),
               lines'[m].ev = lines'[j].ev, lines'[m].ev \in {"enter", "exit"},
               lines'[m].by = lines'[j].by, lines'[m].by # 0
        PROVE  m = j
    <3>1. \A i \in 1..Len(lines) : lines[i].ev = "exit" /\ k # 0 => lines[i].by # k
      BY <1>13 DEF EndedAt
    <3>2. CASE m \in 1..Len(lines) /\ lines'[m] = lines[m] /\ j \in 1..Len(lines) /\ lines'[j] = lines[j]
      BY <2>1, <2>3, <3>2 DEF LinesDiffer
    <3>3. CASE m = Len(lines) + 1 /\ j = Len(lines) + 1
      BY <3>3
    <3>4. CASE m \in 1..Len(lines) /\ lines'[m] = lines[m] /\ lines'[j] = l
      BY <1>6, <2>3, <3>1, <3>4
    <3>5. CASE j \in 1..Len(lines) /\ lines'[j] = lines[j] /\ lines'[m] = l
      BY <1>6, <2>3, <3>1, <3>5
    <3>6. QED
      BY <1>8, <3>2, <3>3, <3>4, <3>5
  <2>4. QED
    BY <2>2, <2>3 DEF LinesDiffer
<1>15. ASSUME NEW x \in Thread, NEW i \in 1..Len(lines), NEW c \in Nat, NEW b \in Nat,
              Within(lines, x, i, c, b)
       PROVE  Within(lines', x, i, c, b)
  <2>1. CASE lines' = Append(lines, l)
    <3>1. ~IsCall(l, x) /\ ~IsMark(l, x)
      BY <1>6 DEF IsCall, IsMark
    <3>2. Within(Append(lines, l), x, i, IF IsCall(l, x) THEN c + 1 ELSE c,
                                         IF IsMark(l, x) THEN b + 1 ELSE b)
      BY <1>1, <1>15, AfterAppend
    <3>3. QED
      BY <2>1, <3>1, <3>2
  <2>2. CASE lines' = lines
    BY <1>15, <2>2
  <2>3. QED
    BY <1>7, <2>1, <2>2
<1>16. UserAt(s) \subseteq Nat /\ \A i \in UserAt(s) : i <= Len(s) /\ i \in 1..Len(s)
  BY <1>1, <1>5
<1>17. SameOutermost(s, r)
  <2>1. SUFFICES ASSUME UserAt(r) # {}
                 PROVE  UserAt(s) # {} /\ r[Min(UserAt(r))].id = s[Min(UserAt(s))].id
    BY DEF SameOutermost
  <2>2. UserAt(s) # {} /\ Min(UserAt(r)) = Min(UserAt(s))
    BY <1>1, <1>5, <1>16, <2>1, LeastWithMore
  <2>3. Min(UserAt(r)) \in UserAt(r)
    <3>1. UserAt(r) \subseteq Nat
      BY <1>5, <1>16
    <3>2. QED
      BY <2>1, <3>1, Least
  <2>4. Min(UserAt(r)) \in 1..Len(r)
    BY <1>1, <1>5, <1>16, <2>3
  <2>5. QED
    BY <1>5, <2>2, <2>4
<1>18. ASSUME NEW x \in Thread PROVE BudgetKept(x)'
  <2>1. Spent(x)' = Spent(x) /\ Marked(x)' = Marked(x) /\ Spent(x) \in Nat /\ Marked(x) \in Nat
    BY <1>1, <1>2 DEF Spent, Marked
  <2>2. SameOutermost(stack[x], stack'[x])
    <3>1. CASE x = t
      BY <1>17, <3>1 DEF r
    <3>2. CASE x # t
      BY <1>2, <3>2 DEF SameOutermost
    <3>3. QED
      BY <3>1, <3>2
  <2>3. \A i \in 1..Len(lines) : Within(lines, x, i, Spent(x), Marked(x)) =>
            Within(lines', x, i, Spent(x)', Marked(x)')
    BY <1>15, <2>1
  <2>4. QED
    BY <1>8, <2>2, <2>3, KeptByOutermost
<1>19. ASSUME NEW e \in ended PROVE SpanKept(e)'
  BY <1>1, <1>8, <1>19, SpanStays DEF BudgetInv
<1>20. ASSUME lines' = Append(lines, l), s[Len(s)].seen,
              NEW e, e.frame = s[Len(s)], e.thr = t, e.outer = s[Min(UserAt(s))].id
       PROVE  SpanKept(e)'
  <2>1. UserAt(s) # {}
    BY <1>3, <1>5, <1>20
  <2>2. Min(UserAt(s)) \in UserAt(s) /\ Min(UserAt(s)) \in 1..Len(s)
    BY <1>16, <2>1, Least
  <2>3. s[Min(UserAt(s))].kind = "user" /\ s[Min(UserAt(s))].seen
    BY <2>2 DEF UserAt
  <2>4. e.outer # 0 /\ e.frame.id # 0
    <3>1. Known(s[Len(s)]) /\ Known(s[Min(UserAt(s))])
      BY <1>4, <2>2 DEF BudgetInv, FramesKnown
    <3>2. QED
      BY <1>3, <1>20, <2>3, <3>1 DEF Known
  <2>5. PICK i \in 1..Len(lines) :
            /\ BeganAt(i, s[Min(UserAt(s))].id)
            /\ MaxFrameEvents > 0 => Within(lines, t, i, Spent(t), Marked(t))
    BY <2>1 DEF BudgetKept, BudgetInv
  <2>6. PICK j \in Nat : j = Len(lines) + 1
    BY <1>1
  <2>7. Len(lines') = Len(lines) + 1 /\ lines'[Len(lines) + 1] = l
    BY <1>1, <1>20
  <2>8. BeganAt(i, e.outer)' /\ EndedAt(j, e.frame.id)' /\ i \in 1..Len(lines') /\ j \in 1..Len(lines')
    BY <1>1, <1>6, <1>8, <1>20, <2>5, <2>6, <2>7 DEF BeganAt, EndedAt
  <2>9. CallsOf(lines', t, i, j) = CallsAfter(lines, t, i)
    BY <1>1, <1>8, <2>6 DEF CallsOf, CallsAfter
  <2>10. MarksOf(lines', t, i, j) = MarksAfter(lines, t, i)
    BY <1>1, <1>8, <2>6 DEF MarksOf, MarksAfter
  <2>11. ASSUME MaxFrameEvents > 0
         PROVE  /\ Cardinality(CallsOf(lines', t, i, j)) <= MaxFrameEvents
                /\ Cardinality(MarksOf(lines', t, i, j)) <= 1
    <3>1. Cardinality(CallsAfter(lines, t, i)) \in Nat /\ Cardinality(MarksAfter(lines, t, i)) \in Nat
      <4>1. CallsAfter(lines, t, i) \subseteq 1..Len(lines) /\ MarksAfter(lines, t, i) \subseteq 1..Len(lines)
        BY <1>1 DEF CallsAfter, MarksAfter
      <4>2. IsFiniteSet(1..Len(lines))
        BY <1>1, FS_Interval
      <4>3. QED
        BY <4>1, <4>2, FS_Subset, FS_CardinalityType
    <3>2. Spent(t) \in Nat /\ Spent(t) <= MaxFrameEvents /\ Marked(t) \in Nat /\ Marked(t) <= 1
      BY <1>1, <2>11, AgentAssumption DEF Spent, Marked, BudgetInv, Recorded
    <3>3. /\ Cardinality(CallsAfter(lines, t, i)) <= Spent(t)
          /\ Cardinality(MarksAfter(lines, t, i)) = Marked(t)
      BY <2>5, <2>11 DEF Within
    <3>4. QED
      BY <2>9, <2>10, <3>1, <3>2, <3>3, AgentAssumption
  <2>12. QED
    BY <1>20, <2>4, <2>8, <2>11 DEF SpanKept
<1>21. \A e \in ended' : SpanKept(e)'
  <2>1. CASE lines' = lines /\ ended' = ended
    BY <1>19, <2>1
  <2>2. CASE lines' = Append(lines, l) /\ ~s[Len(s)].seen
    BY <1>7, <1>19, <2>2
  <2>3. CASE lines' = Append(lines, l) /\ s[Len(s)].seen
    BY <1>7, <1>19, <1>20, <2>3
  <2>4. QED
    BY <1>7, <2>1, <2>2, <2>3
<1>22. QED
  BY <1>2, <1>9, <1>11, <1>12, <1>14, <1>18, <1>21 DEF BudgetInv, Granted

LEMMA BudgetStep == BudgetInv /\ AgentInv /\ AgentInv' /\ [Next]_vars => BudgetInv'
<1>1. SUFFICES ASSUME BudgetInv, AgentInv, AgentInv', [Next]_vars PROVE BudgetInv'
  OBVIOUS
<1>2. CASE InitStep \/ UNCHANGED vars
  BY <1>1, <1>2, BudgetSame DEF InitStep, vars, jvm, opts, init, locals, bounds
<1>3. ASSUME NEW t \in Thread, EnterJdk(t) \/ ExitJdk(t) \/ CallUp(t) PROVE BudgetInv'
  BY <1>1, <1>3, BudgetLibrary
<1>4. ASSUME NEW t \in Thread, LookupOutside(t) \/ Reference(t) PROVE BudgetInv'
  BY <1>1, <1>4, BudgetOutside
<1>5. ASSUME NEW t \in Thread, StartThread(t) \/ EndThread(t) PROVE BudgetInv'
  BY <1>1, <1>5, BudgetThreads
<1>6. QED
  BY <1>1, <1>2, <1>3, <1>4, <1>5, BudgetPlain, BudgetReturn, BudgetException,
     BudgetEnter, BudgetExit DEF Next

\* The event budget (max-frame-events): whatever other threads do and however the
\* program's natives, those of the class libraries and upcalls are nested, what
\* is written between the enter of an outermost invocation and the exit of any
\* one inside it stays within the budget, with one marker at most.
THEOREM BudgetIsKept == RecoverySpec => []BudgetHolds
<1>1. BudgetInv => BudgetHolds
  <2>1. SUFFICES ASSUME BudgetInv, MaxFrameEvents > 0, NEW e \in ended
                 PROVE  LET i == EnterOf(e.outer)
                            j == ExitOf(e.frame.id)
                            calls == {m \in Between(e.thr, "jni", i, j) :
                                      lines[m].n > 0 \/ lines[m].by = ByAgent}
                        IN  /\ Cardinality(calls) <= MaxFrameEvents
                            /\ Cardinality(Between(e.thr, "truncate", i, j)) <= 1
    BY DEF BudgetHolds
  <2>2. PICK i \in 1..Len(lines), j \in 1..Len(lines) :
            /\ BeganAt(i, e.outer) /\ EndedAt(j, e.frame.id)
            /\ e.outer # 0 /\ e.frame.id # 0
            /\ Cardinality(CallsOf(lines, e.thr, i, j)) <= MaxFrameEvents
            /\ Cardinality(MarksOf(lines, e.thr, i, j)) <= 1
    BY <2>1 DEF BudgetInv, SpanKept
  <2>3. DOMAIN lines = 1..Len(lines)
    BY <2>1 DEF BudgetInv, Recorded
  <2>4. LinesDiffer
    BY <2>1 DEF BudgetInv
  <2>5. EnterOf(e.outer) = i
    <3>1. \A m \in DOMAIN lines : lines[m].ev = "enter" /\ lines[m].by = e.outer <=> m = i
      BY <2>2, <2>3, <2>4 DEF BeganAt, LinesDiffer
    <3>2. QED
      BY <2>2, <2>3, <3>1 DEF EnterOf
  <2>6. ExitOf(e.frame.id) = j
    <3>1. \A m \in DOMAIN lines : lines[m].ev = "exit" /\ lines[m].by = e.frame.id <=> m = j
      BY <2>2, <2>3, <2>4 DEF EndedAt, LinesDiffer
    <3>2. QED
      BY <2>2, <2>3, <3>1 DEF ExitOf
  <2>7. Between(e.thr, "truncate", i, j) = MarksOf(lines, e.thr, i, j)
    BY DEF Between, MarksOf, IsMark
  <2>8. {m \in Between(e.thr, "jni", i, j) : lines[m].n > 0 \/ lines[m].by = ByAgent}
            = CallsOf(lines, e.thr, i, j)
    BY DEF Between, CallsOf, IsCall
  <2>9. QED
    BY <2>2, <2>5, <2>6, <2>7, <2>8
<1>2. RecoveryInit => AgentInv /\ BudgetInv
  BY InitInv, BudgetInit DEF RecoveryInit
<1>3. AgentInv /\ BudgetInv /\ [RecoveryNext]_<<vars, groups>> => AgentInv' /\ BudgetInv'
  BY InvStep, BudgetStep DEF RecoveryNext
<1>4. QED
  BY <1>1, <1>2, <1>3, PTL DEF RecoverySpec

-----------------------------------------------------------------------------
(* Collapsing a group: what goes is a run that repeats the one before it.   *)

LEMMA LeastNat ==
    ASSUME NEW T, T \subseteq Nat, T # {}
    PROVE  \E x \in T : \A y \in T : x <= y
BY Least

LEMMA GreatestNat ==
    ASSUME NEW n \in Nat, NEW S \in SUBSET (0..n), S # {}
    PROVE  \E x \in S : \A y \in S : x >= y
<1> DEFINE T == {n - x : x \in S}
<1>1. T \subseteq Nat /\ T # {}
  <2>1. ASSUME NEW x \in S PROVE n - x \in Nat
    <3>1. x \in 0..n
      OBVIOUS
    <3>2. QED
      BY <3>1
  <2>2. QED
    BY <2>1
<1>2. PICK z \in T : \A y \in T : z <= y
  BY <1>1, LeastNat
<1>3. PICK x \in S : z = n - x
  BY <1>2
<1>4. \A y \in S : n - x <= n - y
  BY <1>2, <1>3
<1>5. QED
  BY <1>3, <1>4

LEMMA MaxIs ==
    ASSUME NEW n \in Nat, NEW S \in SUBSET (0..n), S # {}
    PROVE  Max(S) \in S /\ \A y \in S : Max(S) >= y
<1>1. \E x \in S : \A y \in S : x >= y
  BY GreatestNat
<1>2. QED
  BY <1>1, Zenon DEF Max

\* n times len calls from i on, without multiplication beyond one step.
LEMMA Times ==
    /\ \A n, len \in Nat : n * len \in Nat /\ (n + 1) * len = n * len + len
    /\ \A n, len \in Nat : 1 * len = len /\ 0 * len = 0 /\ len * n = n * len
    /\ \A n, m, len \in Nat : n <= m => n * len <= m * len
  <1>1. \A n, m, len \in Nat : n <= m => n * len <= m * len
    <2>1. SUFFICES ASSUME NEW n \in Nat, NEW m \in Nat, NEW len \in Nat, n <= m
                   PROVE  n * len <= m * len
      OBVIOUS
    <2>2. PICK d \in Nat : m = n + d
      <3>1. m - n \in Nat /\ m = n + (m - n)
        BY <2>1
      <3>2. QED
        BY <3>1
    <2>3. m * len = n * len + d * len /\ n * len \in Nat /\ d * len \in Nat
      BY <2>2
    <2>4. QED
      BY <2>3
  <1>2. QED
    BY <1>1

\* A pattern that stands at i at all.
LEMMA RepsAre ==
    ASSUME NEW s, Len(s) \in Nat, NEW i \in 1..Len(s), NEW len \in Nat \ {0},
           i + len <= Len(s) + 1
    PROVE  /\ Reps(s, i, len) \in 1..Len(s)
           /\ i + Reps(s, i, len) * len <= Len(s) + 1
           /\ \A r \in 1..(Reps(s, i, len) - 1) : SameShape(s, i, i + r * len, len)
<1> DEFINE S == {n \in 1..Len(s) :
                    /\ i + n * len <= Len(s) + 1
                    /\ \A r \in 1..(n - 1) : SameShape(s, i, i + r * len, len)}
<1>1. 1 \in S
  <2>1. 1..(1 - 1) = {} /\ 1 * len = len /\ 1 \in 1..Len(s)
    OBVIOUS
  <2>2. QED
    BY <2>1
<1>2. S \in SUBSET (0..Len(s)) /\ S # {}
  BY <1>1
<1>3. Reps(s, i, len) = Max(S)
  BY DEF Reps
<1>4. Max(S) \in S
  <2> HIDE DEF S
  <2>1. QED
    BY <1>2, MaxIs
<1>5. QED
  BY <1>3, <1>4

\* What the scan does at i: one call is kept, or one of several equal runs.
AtOne(s, i) == KeptAt(s, i) = 1 /\ SkipAt(s, i) = 1
AtRuns(s, i) ==
    \E len \in 1..Len(s), n \in 2..Len(s) :
        /\ KeptAt(s, i) = len /\ SkipAt(s, i) = n * len
        /\ \A r \in 1..(n - 1) : SameShape(s, i, i + r * len, len)

LEMMA BlockIs ==
    ASSUME NEW s, Len(s) \in Nat, NEW i \in 1..Len(s)
    PROVE  /\ AtOne(s, i) \/ AtRuns(s, i)
           /\ KeptAt(s, i) \in Nat \ {0} /\ SkipAt(s, i) \in Nat
           /\ KeptAt(s, i) <= SkipAt(s, i) /\ i + SkipAt(s, i) <= Len(s) + 1
<1>1. CASE Lengths(s, i) = {}
  BY <1>1 DEF KeptAt, SkipAt, AtOne
<1>2. CASE Lengths(s, i) # {}
  <2> DEFINE Cover(len) == len * Reps(s, i, len)
             T == {Len(s) + 1 - Cover(len) : len \in Lengths(s, i)}
  <2>1. ASSUME NEW len \in Lengths(s, i)
        PROVE  /\ len \in 1..Len(s) /\ Reps(s, i, len) \in 2..Len(s)
               /\ Cover(len) = Reps(s, i, len) * len /\ Cover(len) \in Nat
               /\ i + Cover(len) <= Len(s) + 1 /\ len <= Cover(len)
               /\ \A r \in 1..(Reps(s, i, len) - 1) : SameShape(s, i, i + r * len, len)
    <3>1. len \in Nat \ {0} /\ i + 2 * len <= Len(s) + 1 /\ Reps(s, i, len) > 1
      BY CollapseAssumption DEF Lengths
    <3>2. len \in 1..Len(s) /\ i + len <= Len(s) + 1
      BY <3>1
    <3>3. /\ Reps(s, i, len) \in 1..Len(s)
          /\ i + Reps(s, i, len) * len <= Len(s) + 1
          /\ \A r \in 1..(Reps(s, i, len) - 1) : SameShape(s, i, i + r * len, len)
      BY <3>1, <3>2, RepsAre
    <3>4. PICK n \in 2..Len(s) : n = Reps(s, i, len)
      BY <3>1, <3>3
    <3>5. len * n = n * len /\ n * len \in Nat /\ len <= n * len
      <4>1. 1 * len <= n * len /\ 1 * len = len
        BY <3>1, Times
      <4>2. QED
        BY <3>1, <4>1, Times
    <3>6. QED
      BY <3>2, <3>3, <3>4, <3>5
  <2>2. \E len \in Lengths(s, i) : \A other \in Lengths(s, i) :
            \/ Cover(other) < Cover(len)
            \/ Cover(other) = Cover(len) /\ len <= other
    <3> HIDE DEF Cover
    <3>1. T \subseteq Nat /\ T # {}
      BY <1>2, <2>1
    <3>2. PICK least \in T : \A y \in T : least <= y
      BY <3>1, LeastNat
    <3>3. PICK l \in Lengths(s, i) : least = Len(s) + 1 - Cover(l)
      BY <3>2
    <3> DEFINE W == {len \in Lengths(s, i) : Cover(len) = Cover(l)}
    <3>4. W \subseteq Nat /\ W # {}
      <4>1. l \in W
        BY <3>3
      <4>2. \A len \in Lengths(s, i) : len \in Nat
        BY <2>1
      <4>3. QED
        BY <4>1, <4>2
    <3>5. PICK b \in W : \A y \in W : b <= y
      BY <3>4, LeastNat
    <3>6. ASSUME NEW other \in Lengths(s, i)
          PROVE  \/ Cover(other) < Cover(b)
                 \/ Cover(other) = Cover(b) /\ b <= other
      <4>1. Cover(other) <= Cover(l) /\ Cover(b) = Cover(l)
        <5>1. Len(s) + 1 - Cover(l) <= Len(s) + 1 - Cover(other)
          BY <3>2, <3>3
        <5>2. Cover(l) \in Nat /\ Cover(other) \in Nat
          BY <2>1
        <5>3. QED
          BY <3>5, <5>1, <5>2
      <4>2. Cover(l) \in Nat /\ Cover(other) \in Nat
        BY <2>1
      <4>3. Cover(other) = Cover(l) => b <= other
        BY <3>5
      <4>4. QED
        BY <4>1, <4>2, <4>3
    <3>7. QED
      BY <3>5, <3>6
  <2>3. Best(s, i) \in Lengths(s, i)
    BY <2>2, Zenon DEF Best
  <2>4. PICK len \in Lengths(s, i) : len = Best(s, i)
    BY <2>3
  <2>5. KeptAt(s, i) = len /\ SkipAt(s, i) = Cover(len)
    BY <1>2, <2>4 DEF KeptAt, SkipAt
  <2>6. PICK n \in 2..Len(s) : n = Reps(s, i, len)
    BY <2>1
  <2>7. /\ len \in 1..Len(s) /\ Cover(len) = n * len /\ Cover(len) \in Nat
        /\ i + Cover(len) <= Len(s) + 1 /\ len <= Cover(len)
        /\ \A r \in 1..(n - 1) : SameShape(s, i, i + r * len, len)
    BY <2>1, <2>6
  <2> HIDE DEF Cover
  <2>8. AtRuns(s, i)
    BY <2>5, <2>7 DEF AtRuns
  <2>9. QED
    BY <2>5, <2>7, <2>8
<1>3. QED
  BY <1>1, <1>2

LEMMA StopsAre ==
    ASSUME NEW s, Len(s) \in Nat
    PROVE  /\ Stops(s) \subseteq 1..(Len(s) + 1) /\ 1 \in Stops(s)
           /\ \A i \in Stops(s) : i <= Len(s) => i + SkipAt(s, i) \in Stops(s)
           /\ \A T \in SUBSET (1..(Len(s) + 1)) :
                1 \in T /\ (\A i \in T : i <= Len(s) => i + SkipAt(s, i) \in T)
                => Stops(s) \subseteq T
<1> DEFINE All == 1..(Len(s) + 1)
<1>1. /\ DOMAIN Skips(s) = 1..Len(s)
      /\ \A i \in 1..Len(s) : Skips(s)[i] = SkipAt(s, i)
  BY DEF Skips
<1>2. \A T \in SUBSET All :
          IsScan(Skips(s), T) <=>
              1 \in T /\ (\A i \in T : i <= Len(s) => i + SkipAt(s, i) \in T)
  <2>1. \A T \in SUBSET All : \A i \in T : i <= Len(s) <=> i \in 1..Len(s)
    OBVIOUS
  <2>2. QED
    BY <1>1, <2>1 DEF IsScan
<1>3. Stops(s) = {i \in All : \A T \in SUBSET All : IsScan(Skips(s), T) => i \in T}
  BY DEF Stops
<1>4. 1 \in Stops(s)
  <2>1. 1 \in All
    OBVIOUS
  <2>2. QED
    BY <1>3, <2>1 DEF IsScan
<1>5. ASSUME NEW i \in Stops(s), i <= Len(s) PROVE i + SkipAt(s, i) \in Stops(s)
  <2>1. i \in 1..Len(s)
    BY <1>3, <1>5
  <2>2. i + SkipAt(s, i) \in All
    <3>1. SkipAt(s, i) \in Nat /\ i + SkipAt(s, i) <= Len(s) + 1
      BY <2>1, BlockIs
    <3>2. QED
      BY <2>1, <3>1
  <2>3. ASSUME NEW T \in SUBSET All, IsScan(Skips(s), T) PROVE i + SkipAt(s, i) \in T
    <3>1. i \in T
      BY <1>3, <2>3
    <3>2. QED
      BY <1>2, <1>5, <2>3, <3>1
  <2>4. QED
    BY <1>3, <2>2, <2>3
<1>6. Stops(s) \subseteq All
  BY <1>3
<1>7. \A T \in SUBSET All :
          1 \in T /\ (\A i \in T : i <= Len(s) => i + SkipAt(s, i) \in T) => Stops(s) \subseteq T
  BY <1>2, <1>3
<1>8. QED
  BY <1>4, <1>5, <1>6, <1>7

\* The stop after i; nothing stops in between.
After(s, i) == i + SkipAt(s, i)

LEMMA AfterIs ==
    ASSUME NEW s, Len(s) \in Nat, NEW i \in 1..Len(s)
    PROVE  After(s, i) \in (i + 1)..(Len(s) + 1)
<1>1. /\ KeptAt(s, i) \in Nat \ {0} /\ SkipAt(s, i) \in Nat
      /\ KeptAt(s, i) <= SkipAt(s, i) /\ i + SkipAt(s, i) <= Len(s) + 1
  BY BlockIs
<1>2. QED
  BY <1>1 DEF After

LEMMA StopsApart ==
    ASSUME NEW s, Len(s) \in Nat, NEW i \in Stops(s), NEW j \in Stops(s), i < j
    PROVE  i + SkipAt(s, i) <= j
<1> DEFINE All == 1..(Len(s) + 1)
           P == Stops(s)
           T == {x \in P : \A y \in P : /\ y < x => After(s, y) <= x
                                        /\ x < y => After(s, x) <= y}
<1>1. /\ P \subseteq All /\ 1 \in P
      /\ \A x \in P : x <= Len(s) => After(s, x) \in P
      /\ \A R \in SUBSET All :
           1 \in R /\ (\A x \in R : x <= Len(s) => After(s, x) \in R) => P \subseteq R
  BY StopsAre DEF After
<1>2. \A x \in P : x \in Nat \ {0} /\ x <= Len(s) + 1
                   /\ (x <= Len(s) => After(s, x) \in Nat /\ After(s, x) > x)
  <2>1. \A x \in P : x \in Nat \ {0} /\ x <= Len(s) + 1 /\ (x <= Len(s) => x \in 1..Len(s))
    BY <1>1
  <2>2. QED
    BY <2>1, AfterIs
<1> HIDE DEF P
<1>3. ASSUME NEW x \in P, x <= Len(s), \A y \in P : y < x => After(s, y) <= x
      PROVE  \A y \in P : x < y => After(s, x) <= y
  <2> DEFINE R == {y \in P : y <= x \/ After(s, x) <= y}
  <2>1. R \in SUBSET All /\ 1 \in R
    <3>1. 1 <= x
      BY <1>2
    <3>2. QED
      BY <1>1, <3>1
  <2>2. ASSUME NEW y \in R, y <= Len(s) PROVE After(s, y) \in R
    <3>1. After(s, y) \in P /\ y \in P
      BY <1>1, <2>2
    <3>2. CASE y < x
      BY <1>3, <3>1, <3>2
    <3>3. CASE y = x
      BY <1>2, <3>1, <3>3
    <3>4. CASE x < y
      BY <1>2, <1>3, <2>2, <3>1, <3>4
    <3>5. QED
      BY <1>2, <3>1, <3>2, <3>3, <3>4
  <2>3. P \subseteq R
    BY <1>1, <2>1, <2>2
  <2>4. QED
    BY <1>2, <2>3
<1>4. 1 \in T
  <2>1. \A y \in P : ~(y < 1)
    BY <1>2
  <2>2. CASE 1 <= Len(s)
    BY <1>1, <1>3, <2>1, <2>2
  <2>3. CASE ~(1 <= Len(s))
    BY <1>1, <1>2, <2>1, <2>3
  <2>4. QED
    BY <2>2, <2>3
<1>5. ASSUME NEW x \in T, x <= Len(s) PROVE After(s, x) \in T
  <2>1. x \in P /\ After(s, x) \in P
    BY <1>1, <1>5
  <2>2. PICK z \in P : z = After(s, x)
    BY <2>1
  <2>3. ASSUME NEW y \in P, y < z PROVE After(s, y) <= z
    <3>1. CASE y < x
      <4>1. After(s, y) <= x /\ x < z
        BY <1>2, <1>5, <2>1, <2>2, <3>1
      <4>2. y <= Len(s)
        BY <1>2, <1>5, <2>1, <3>1
      <4>3. QED
        BY <1>2, <2>1, <4>1, <4>2
    <3>2. CASE y = x
      BY <1>2, <2>2, <3>2
    <3>3. CASE x < y
      BY <1>2, <1>5, <2>2, <2>3, <3>3
    <3>4. QED
      BY <1>2, <2>1, <3>1, <3>2, <3>3
  <2>4. \A y \in P : z < y => After(s, z) <= y
    <3>1. CASE z <= Len(s)
      BY <1>3, <2>3, <3>1
    <3>2. CASE ~(z <= Len(s))
      BY <1>2, <3>2
    <3>3. QED
      BY <3>1, <3>2
  <2>5. QED
    BY <2>2, <2>3, <2>4
<1>6. P \subseteq T
  <2>1. T \in SUBSET All
    BY <1>1
  <2>2. QED
    BY <1>1, <1>4, <1>5, <2>1
<1>7. QED
  BY <1>6 DEF P, After

\* Every call is in the block of some stop.
LEMMA StopsCover ==
    ASSUME NEW s, Len(s) \in Nat, NEW m \in 1..Len(s)
    PROVE  \E i \in Stops(s) : i <= m /\ m < i + SkipAt(s, i)
<1> DEFINE S == {i \in Stops(s) : i <= m}
<1>1. /\ Stops(s) \subseteq 1..(Len(s) + 1) /\ 1 \in Stops(s)
      /\ \A i \in Stops(s) : i <= Len(s) => i + SkipAt(s, i) \in Stops(s)
  BY StopsAre
<1>2. S \in SUBSET (0..m) /\ S # {}
  BY <1>1
<1>3. PICK i \in S : \A y \in S : i >= y
  <2> HIDE DEF S
  <2>1. m \in Nat
    OBVIOUS
  <2>2. QED
    BY <1>2, <2>1, GreatestNat
<1>4. i \in 1..Len(s) /\ i \in Stops(s) /\ i <= m
  BY <1>1
<1>5. After(s, i) \in (i + 1)..(Len(s) + 1) /\ After(s, i) \in Stops(s)
  BY <1>1, <1>4, AfterIs DEF After
<1>6. m < After(s, i)
  <2>1. SUFFICES ASSUME After(s, i) <= m PROVE FALSE
    BY <1>5
  <2>2. After(s, i) \in S
    BY <1>5, <2>1
  <2>3. QED
    BY <1>3, <1>4, <1>5, <2>2
<1>7. QED
  BY <1>4, <1>6 DEF After

\* The run of len calls from b on goes, and repeats the run before it.
Repeats(s, kept, b, len) ==
    \A k \in 0..(len - 1) :
        b + k \notin kept /\ Sig[s[b + k]] = Sig[s[b - len + k]]

LEMMA RepeatsGo ==
    ASSUME NEW s, Len(s) \in Nat, DOMAIN s = 1..Len(s),
           NEW m \in DOMAIN s \ CollapseRepeats(s)
    PROVE  \E len \in 1..m, b \in 1..m :
               /\ len < b /\ m < b + len /\ b + len <= Len(s) + 1
               /\ Repeats(s, CollapseRepeats(s), b, len)
<1> DEFINE kept == CollapseRepeats(s)
<1>1. /\ m \in 1..Len(s)
      /\ kept = {x \in DOMAIN s :
                    \E i \in Stops(s) \cap DOMAIN s : x \in i..(i + KeptAt(s, i) - 1)}
  BY DEF CollapseRepeats
<1>2. PICK i \in Stops(s) : i <= m /\ m < i + SkipAt(s, i)
  BY <1>1, StopsCover
<1>3. i \in 1..Len(s)
  <2>1. i \in 1..(Len(s) + 1)
    BY StopsAre
  <2>2. QED
    BY <1>1, <1>2, <2>1
<1>4. /\ AtOne(s, i) \/ AtRuns(s, i)
      /\ KeptAt(s, i) \in Nat \ {0} /\ SkipAt(s, i) \in Nat
      /\ KeptAt(s, i) <= SkipAt(s, i) /\ i + SkipAt(s, i) <= Len(s) + 1
  BY <1>3, BlockIs
<1>5. m >= i + KeptAt(s, i)
  BY <1>1, <1>2, <1>3, <1>4
<1>6. ASSUME NEW x \in 1..Len(s), i + KeptAt(s, i) <= x, x < i + SkipAt(s, i)
      PROVE  x \notin kept
  <2>1. SUFFICES ASSUME NEW j \in Stops(s) \cap DOMAIN s, x \in j..(j + KeptAt(s, j) - 1)
                 PROVE  FALSE
    BY <1>1
  <2>2. j \in 1..Len(s) /\ KeptAt(s, j) \in Nat /\ SkipAt(s, j) \in Nat
        /\ KeptAt(s, j) <= SkipAt(s, j)
    BY <1>1, BlockIs
  <2>3. j <= x /\ x < j + SkipAt(s, j)
    BY <2>1, <2>2
  <2>4. CASE j = i
    BY <1>3, <1>4, <1>6, <2>1, <2>2, <2>4
  <2>5. CASE j < i
    <3>1. j + SkipAt(s, j) <= i
      BY <1>2, <2>1, <2>5, StopsApart
    <3>2. QED
      BY <1>3, <1>4, <1>6, <2>2, <2>3, <3>1
  <2>6. CASE i < j
    <3>1. i + SkipAt(s, i) <= j
      BY <1>2, <2>1, <2>6, StopsApart
    <3>2. QED
      BY <1>3, <1>4, <1>6, <2>2, <2>3, <3>1
  <2>7. QED
    BY <1>3, <2>2, <2>4, <2>5, <2>6
<1>7. AtRuns(s, i)
  <2>1. SUFFICES ASSUME AtOne(s, i) PROVE FALSE
    BY <1>4
  <2>2. KeptAt(s, i) = 1 /\ SkipAt(s, i) = 1
    BY <2>1 DEF AtOne
  <2>3. QED
    BY <1>1, <1>2, <1>3, <1>5, <2>2
<1>8. PICK len \in 1..Len(s), n \in 2..Len(s) :
          /\ KeptAt(s, i) = len /\ SkipAt(s, i) = n * len
          /\ \A r \in 1..(n - 1) : SameShape(s, i, i + r * len, len)
  BY <1>7 DEF AtRuns
<1> HIDE DEF kept
\* The run in which m is.
<1> DEFINE S == {r \in 0..n : i + r * len <= m}
<1>9. S \in SUBSET (0..n) /\ 1 \in S
  <2>1. 1 * len = len /\ 1 \in 0..n
    OBVIOUS
  <2>2. i + 1 * len <= m
    BY <1>5, <1>8, <2>1
  <2>3. QED
    BY <2>1, <2>2
<1>10. PICK r \in S : \A y \in S : r >= y
  <2> HIDE DEF S
  <2>1. n \in Nat /\ S # {}
    BY <1>9
  <2>2. QED
    BY <1>9, <2>1, GreatestNat
<1>11. r \in 1..(n - 1) /\ i + r * len <= m /\ m < i + (r + 1) * len
  <2>1. r \in 0..n /\ r >= 1 /\ i + r * len <= m
    BY <1>9, <1>10
  <2>2. r # n
    <3>1. SUFFICES ASSUME r = n PROVE FALSE
      OBVIOUS
    <3>2. i + n * len <= m /\ m < i + n * len /\ n * len \in Nat
      <4>1. i + n * len <= m
        BY <2>1, <3>1
      <4>2. n * len \in Nat /\ m < i + n * len
        BY <1>2, <1>4, <1>8
      <4>3. QED
        BY <4>1, <4>2
    <3>3. QED
      BY <1>1, <1>3, <3>2
  <2>3. r + 1 \in 0..n /\ r + 1 \notin S
    BY <1>10, <2>1, <2>2
  <2>4. (r + 1) * len \in Nat
    BY <2>1, Times
  <2>5. QED
    BY <1>1, <1>3, <2>1, <2>2, <2>3, <2>4
<1>12. PICK a \in Nat : a = (r - 1) * len /\ r * len = a + len /\ (r + 1) * len = a + len + len
  <2>1. r - 1 \in Nat /\ r \in Nat /\ r = (r - 1) + 1
    BY <1>11
  <2>2. (r - 1) * len \in Nat
    BY <2>1, Times
  <2>3. ((r - 1) + 1) * len = (r - 1) * len + len /\ (r + 1) * len = r * len + len
    BY <2>1, Times
  <2>4. QED
    BY <2>1, <2>2, <2>3
<1>13. a + len + len <= n * len /\ n * len \in Nat
  <2>1. r + 1 \in Nat /\ n \in Nat /\ r + 1 <= n /\ len \in Nat
    BY <1>11
  <2>2. (r + 1) * len <= n * len
    BY <2>1, Times
  <2>3. QED
    BY <1>12, <2>1, <2>2, Times
<1> DEFINE b == i + a + len
<1>14. /\ len \in 1..m /\ b \in 1..m /\ len < b /\ m < b + len /\ b + len <= Len(s) + 1
       /\ b = i + r * len /\ b - len = i + (r - 1) * len /\ i + len <= b
       /\ b + len <= i + n * len
  <2>1. PICK nl \in Nat, rl \in Nat, ql \in Nat, pl \in Nat :
            nl = n * len /\ rl = r * len /\ ql = (r + 1) * len /\ pl = (r - 1) * len
    <3>1. r \in Nat /\ r - 1 \in Nat /\ n \in Nat /\ len \in Nat
      BY <1>11
    <3>2. QED
      BY <3>1, Times
  <2>2. /\ pl = a /\ rl = a + len /\ ql = a + len + len /\ a + len + len <= nl
        /\ i + rl <= m /\ m < i + ql /\ i + nl <= Len(s) + 1 /\ i >= 1
    BY <1>3, <1>4, <1>8, <1>11, <1>12, <1>13, <2>1
  <2>3. b = i + rl /\ b - len = i + pl /\ b + len <= i + nl
    BY <1>3, <2>2
  <2>4. len \in 1..m /\ b \in 1..m /\ len < b /\ m < b + len /\ b + len <= Len(s) + 1 /\ i + len <= b
    BY <1>1, <1>3, <2>2
  <2>5. QED
    BY <2>1, <2>3, <2>4
<1>15. SameShape(s, i, b, len) /\ SameShape(s, i, b - len, len)
  <2>1. SameShape(s, i, b, len)
    BY <1>8, <1>11, <1>14
  <2>2. CASE r = 1
    <3>1. b - len = i
      <4>1. (r - 1) * len = 0
        BY <2>2
      <4>2. QED
        BY <1>3, <1>14, <4>1
    <3>2. SameShape(s, i, i, len)
      BY DEF SameShape
    <3>3. QED
      BY <2>1, <3>1, <3>2
  <2>3. CASE r # 1
    <3>1. r - 1 \in 1..(n - 1)
      BY <1>11, <2>3
    <3>2. QED
      BY <1>8, <1>14, <2>1, <3>1
  <2>4. QED
    BY <2>2, <2>3
<1>16. Repeats(s, kept, b, len)
  <2>1. SUFFICES ASSUME NEW k \in 0..(len - 1)
                 PROVE  b + k \notin kept /\ Sig[s[b + k]] = Sig[s[b - len + k]]
    BY DEF Repeats
  <2>2. Sig[s[i + k]] = Sig[s[b + k]] /\ Sig[s[i + k]] = Sig[s[b - len + k]]
    BY <1>15 DEF SameShape
  <2>3. b + k \in 1..Len(s) /\ i + KeptAt(s, i) <= b + k /\ b + k < i + SkipAt(s, i)
    BY <1>3, <1>8, <1>13, <1>14
  <2>4. QED
    BY <1>6, <2>2, <2>3
<1>17. QED
  BY <1>14, <1>16 DEF kept

LEMMA KeptTyped ==
    ASSUME NEW s, Len(s) \in Nat, DOMAIN s = 1..Len(s)
    PROVE  CollapseRepeats(s) \subseteq DOMAIN s
BY DEF CollapseRepeats

\* So every call has one of its shape among those kept.
LEMMA ShapesStay ==
    ASSUME NEW s, Len(s) \in Nat, DOMAIN s = 1..Len(s), NEW m \in DOMAIN s
    PROVE  \E k \in CollapseRepeats(s) : Sig[s[k]] = Sig[s[m]]
<1> DEFINE Lost == {x \in 1..Len(s) :
                      ~\E k \in CollapseRepeats(s) : Sig[s[k]] = Sig[s[x]]}
<1>1. SUFFICES ASSUME Lost # {} PROVE FALSE
  OBVIOUS
<1>2. PICK x \in Lost : \A y \in Lost : x <= y
  <2>1. Lost \subseteq Nat
    OBVIOUS
  <2> HIDE DEF Lost
  <2>2. QED
    BY <1>1, <2>1, LeastNat
<1>3. x \in DOMAIN s \ CollapseRepeats(s)
  OBVIOUS
<1>4. PICK len \in 1..x, b \in 1..x :
          /\ len < b /\ x < b + len /\ b + len <= Len(s) + 1
          /\ Repeats(s, CollapseRepeats(s), b, len)
  BY <1>3, RepeatsGo
<1>5. x - b \in 0..(len - 1) /\ b + (x - b) = x /\ b - len + (x - b) = x - len
      /\ x - len \in 1..Len(s) /\ x - len < x
  BY <1>4
<1>6. Sig[s[x]] = Sig[s[x - len]]
  BY <1>4, <1>5 DEF Repeats
<1>7. x - len \notin Lost
  BY <1>2, <1>5
<1>8. QED
  BY <1>5, <1>6, <1>7

-----------------------------------------------------------------------------
(* The groups.                                                             *)

CallRec == [by : Int, n : Nat]
GroupRec == [key : Int, calls : Seq(CallRec), exc : BOOLEAN, kept : SUBSET Int]
GroupState == [open : [Thread -> Seq(GroupRec)], done : Seq(GroupRec)]

\* The numbered calls of a group: how many, and that they are 1, 2, 3 and so on.
NumberedAt(g) == {i \in DOMAIN g.calls : g.calls[i].n > 0}
Numbered(g) == Cardinality(NumberedAt(g))
Once(g) ==
    /\ \A i \in DOMAIN g.calls : g.calls[i].n <= Numbered(g)
    /\ \A i, j \in DOMAIN g.calls :
           g.calls[i].n > 0 /\ g.calls[i].n = g.calls[j].n => i = j
    /\ \A i \in DOMAIN g.calls : g.calls[i].n > 0 => g.calls[i].by = g.key

LEMMA NumberedIsNat ==
    ASSUME NEW g \in GroupRec
    PROVE  IsFiniteSet(NumberedAt(g)) /\ Numbered(g) \in Nat
<1>1. g.calls \in Seq(CallRec)
  BY DEF GroupRec
<1>2. Len(g.calls) \in Nat /\ NumberedAt(g) \subseteq 1..Len(g.calls)
  BY <1>1 DEF NumberedAt
<1>3. IsFiniteSet(1..Len(g.calls))
  BY <1>2, FS_Interval
<1>4. QED
  BY <1>2, <1>3, FS_Subset, FS_CardinalityType DEF Numbered

\* A call is added to a group.
LEMMA NumberedAppend ==
    ASSUME NEW g \in GroupRec, NEW c \in CallRec, NEW h \in GroupRec,
           h.calls = Append(g.calls, c), h.key = g.key
    PROVE  /\ c.n = 0 => Numbered(h) = Numbered(g)
           /\ c.n > 0 => Numbered(h) = Numbered(g) + 1
           /\ Once(g) /\ (c.n > 0 => c.n = Numbered(g) + 1 /\ c.by = g.key) => Once(h)
<1> DEFINE q == g.calls
           r == h.calls
<1>1. q \in Seq(CallRec) /\ Len(q) \in Nat /\ DOMAIN q = 1..Len(q)
  BY DEF GroupRec
<1>2. /\ Len(r) = Len(q) + 1 /\ DOMAIN r = 1..(Len(q) + 1)
      /\ r[Len(q) + 1] = c /\ \A i \in 1..Len(q) : r[i] = q[i]
  BY <1>1
<1>3. c.n \in Nat /\ \A i \in 1..Len(q) : q[i].n \in Nat
  <2>1. \A i \in 1..Len(q) : q[i] \in CallRec
    BY <1>1
  <2>2. \A d \in CallRec : d.n \in Nat
    BY DEF CallRec
  <2>3. QED
    BY <2>1, <2>2
<1>4. NumberedAt(g) \subseteq 1..Len(q) /\ NumberedAt(h) \subseteq 1..(Len(q) + 1)
  BY <1>1, <1>2 DEF NumberedAt
<1>5. \A i \in 1..Len(q) : i \in NumberedAt(h) <=> i \in NumberedAt(g)
  BY <1>1, <1>2 DEF NumberedAt
<1>6. Len(q) + 1 \in NumberedAt(h) <=> c.n > 0
  BY <1>1, <1>2 DEF NumberedAt
<1> HIDE DEF q, r
<1>7. ASSUME c.n = 0 PROVE Numbered(h) = Numbered(g)
  <2>1. Len(q) + 1 \notin NumberedAt(h)
    BY <1>6, <1>7
  <2>2. NumberedAt(h) = NumberedAt(g)
    <3>1. NumberedAt(h) \subseteq 1..Len(q)
      BY <1>1, <1>4, <2>1
    <3>2. QED
      BY <1>4, <1>5, <3>1
  <2>3. QED
    BY <2>2 DEF Numbered
<1>8. ASSUME c.n > 0 PROVE Numbered(h) = Numbered(g) + 1
  <2>1. Len(q) + 1 \in NumberedAt(h) /\ Len(q) + 1 \notin NumberedAt(g)
    BY <1>1, <1>4, <1>6, <1>8
  <2>2. NumberedAt(h) = NumberedAt(g) \cup {Len(q) + 1}
    BY <1>1, <1>4, <1>5, <2>1
  <2>3. IsFiniteSet(NumberedAt(g))
    BY NumberedIsNat
  <2>4. QED
    BY <2>1, <2>2, <2>3, FS_AddElement DEF Numbered
<1>9. ASSUME Once(g), c.n > 0 => c.n = Numbered(g) + 1 /\ c.by = g.key
      PROVE  Once(h)
  <2>1. Numbered(g) \in Nat /\ Numbered(h) \in Nat
    BY NumberedIsNat
  <2>2. /\ \A i \in 1..Len(q) : q[i].n <= Numbered(g)
        /\ \A i, j \in 1..Len(q) : q[i].n > 0 /\ q[i].n = q[j].n => i = j
    BY <1>1, <1>9 DEF Once, q
  <2>3. Numbered(g) <= Numbered(h)
    BY <1>3, <1>7, <1>8, <2>1
  <2>4. \A i \in 1..(Len(q) + 1) : r[i].n <= Numbered(h)
    <3>1. c.n <= Numbered(h)
      BY <1>3, <1>8, <1>9, <2>1
    <3>2. ASSUME NEW i \in 1..Len(q) PROVE r[i].n <= Numbered(h)
      BY <1>2, <1>3, <2>1, <2>2, <2>3
    <3>3. \A i \in 1..(Len(q) + 1) : i \in 1..Len(q) \/ i = Len(q) + 1
      BY <1>1
    <3>4. QED
      BY <1>2, <3>1, <3>2, <3>3
  <2>5. ASSUME NEW i \in 1..(Len(q) + 1), NEW j \in 1..(Len(q) + 1), r[i].n > 0, r[i].n = r[j].n
        PROVE  i = j
    <3>1. \A k \in 1..Len(q) : c.n > 0 => q[k].n # c.n
      BY <1>3, <1>9, <2>1, <2>2
    <3>2. CASE i \in 1..Len(q) /\ j \in 1..Len(q)
      BY <1>2, <2>2, <2>5, <3>2
    <3>3. CASE i = Len(q) + 1 /\ j \in 1..Len(q)
      BY <1>2, <2>5, <3>1, <3>3
    <3>4. CASE j = Len(q) + 1 /\ i \in 1..Len(q)
      BY <1>2, <2>5, <3>1, <3>4
    <3>5. QED
      BY <1>1, <2>5, <3>2, <3>3, <3>4
  <2>6. \A i \in 1..(Len(q) + 1) : r[i].n > 0 => r[i].by = h.key
    <3>1. \A i \in 1..Len(q) : q[i].n > 0 => q[i].by = h.key
      BY <1>1, <1>9 DEF Once, q
    <3>2. \A i \in 1..(Len(q) + 1) : i \in 1..Len(q) \/ i = Len(q) + 1
      BY <1>1
    <3>3. QED
      BY <1>2, <1>9, <3>1, <3>2
  <2>7. QED
    BY <1>2, <2>4, <2>5, <2>6 DEF Once, r
<1>10. QED
  BY <1>7, <1>8, <1>9

\* So as many different ones as there are.
LEMMA NumberedDiffer ==
    ASSUME NEW g \in GroupRec, Once(g)
    PROVE  Cardinality({c \in ToSet(g.calls) : c.n > 0}) = Numbered(g)
<1> DEFINE T == {c \in ToSet(g.calls) : c.n > 0}
           f == [i \in NumberedAt(g) |-> g.calls[i]]
<1>1. f \in [NumberedAt(g) -> T]
  BY DEF NumberedAt, ToSet
<1>2. \A c \in T : \E i \in NumberedAt(g) : f[i] = c
  BY DEF NumberedAt, ToSet
<1>3. \A i, j \in NumberedAt(g) : f[i] = f[j] => i = j
  BY DEF NumberedAt, Once
<1> HIDE DEF f, T
<1>4. f \in Bijection(NumberedAt(g), T)
  <2>1. DOMAIN f = NumberedAt(g)
    BY <1>1
  <2>2. IsInjective(f)
    BY <1>3, <2>1 DEF IsInjective
  <2>3. QED
    BY <1>1, <1>2, <2>2 DEF Bijection, Injection, Surjection
<1>5. IsFiniteSet(NumberedAt(g)) /\ ExistsBijection(NumberedAt(g), T)
  BY <1>4, NumberedIsNat DEF ExistsBijection
<1>6. QED
  BY <1>5, FS_Bijection DEF Numbered, T

-----------------------------------------------------------------------------
(* A stack and the groups that are open for its thread: each invocation has *)
(* its own, innermost last, above what earlier threads may have left.       *)

\* Position p is below a class library's native called from an invocation.
QuietAt(s, p) ==
    \E i, j \in 1..(p - 1) : i < j /\ s[i].kind = "user" /\ s[j].kind = "jdk"

Match(g, f) == g.key = f.id /\ (g.exc <=> f.exc)
Exact(s, i, g, loose) == loose \/ QuietAt(s, i) \/ Numbered(g) = s[i].n

\* place[i]: how many groups there were when position i was pushed.
Pairs(s, o, loose, place) ==
    /\ place \in [0..Len(s) -> Nat] /\ place[Len(s)] = Len(o)
    /\ \A i \in 1..Len(s) :
           /\ s[i].kind = "user" => place[i] = place[i - 1] + 1
           /\ s[i].kind # "user" => place[i] = place[i - 1]
    /\ \A i, j \in 0..Len(s) : i <= j => place[i] <= place[j]
    /\ \A i \in 1..Len(s) : s[i].kind = "user" =>
           Match(o[place[i]], s[i]) /\ Exact(s, i, o[place[i]], loose)
Paired(s, o, loose) == \E place : Pairs(s, o, loose, place)

LEMMA PairedEmpty ==
    ASSUME NEW o \in Seq(GroupRec), NEW loose
    PROVE  Paired(<<>>, o, loose)
<1> DEFINE place == [i \in {0} |-> Len(o)]
<1>1. Len(<<>>) = 0 /\ 0..0 = {0} /\ 1..0 = {} /\ Len(o) \in Nat
  OBVIOUS
<1>2. place \in [0..0 -> Nat] /\ place[0] = Len(o)
  BY <1>1
<1> HIDE DEF place
<1>3. Pairs(<<>>, o, loose, place)
  BY <1>1, <1>2 DEF Pairs
<1>4. QED
  BY <1>3 DEF Paired

\* Which group an invocation may have.
LEMMA PairsWhere ==
    ASSUME NEW s \in Seq(Frame), NEW o \in Seq(GroupRec), NEW loose, NEW place,
           Pairs(s, o, loose, place), NEW i \in 1..Len(s), s[i].kind = "user"
    PROVE  /\ place[i] \in 1..Len(o)
           /\ i = Len(s) => place[i] = Len(o)
           /\ i < Len(s) /\ s[Len(s)].kind = "user" => place[i] < Len(o)
<1>1. Len(s) \in Nat /\ Len(o) \in Nat /\ place \in [0..Len(s) -> Nat] /\ place[Len(s)] = Len(o)
  BY DEF Pairs
<1>2. place[i] = place[i - 1] + 1 /\ place[i] \in Nat /\ place[i - 1] \in Nat /\ place[i] <= place[Len(s)]
  <2>1. i \in 0..Len(s) /\ i - 1 \in 0..Len(s) /\ Len(s) \in 0..Len(s) /\ i <= Len(s)
    BY <1>1
  <2>2. place[i] = place[i - 1] + 1
    BY DEF Pairs
  <2>3. place[i] <= place[Len(s)]
    BY <2>1 DEF Pairs
  <2>4. QED
    BY <1>1, <2>1, <2>2, <2>3
<1>3. ASSUME i < Len(s), s[Len(s)].kind = "user" PROVE place[i] < Len(o)
  <2>1. place[Len(s)] = place[Len(s) - 1] + 1 /\ place[i] <= place[Len(s) - 1]
    BY <1>1, <1>3 DEF Pairs
  <2>2. place[Len(s) - 1] \in Nat
    <3>1. Len(s) - 1 \in 0..Len(s)
      BY <1>1, <1>3
    <3>2. QED
      BY <1>1, <3>1
  <2>3. QED
    BY <1>1, <1>2, <2>1, <2>2
<1>4. QED
  BY <1>1, <1>2, <1>3

\* The same positions and groups, with what they hold changed.
LEMMA PairedAlike ==
    ASSUME NEW s \in Seq(Frame), NEW s2 \in Seq(Frame), Len(s2) = Len(s),
           \A i \in 1..Len(s) : s2[i].kind = s[i].kind,
           NEW o \in Seq(GroupRec), NEW o2 \in Seq(GroupRec), Len(o2) = Len(o),
           NEW loose, NEW loose2, Paired(s, o, loose),
           \A i \in 1..Len(s), k \in 1..Len(o) :
               /\ s[i].kind = "user" /\ (i = Len(s) => k = Len(o))
               /\ i < Len(s) /\ s[Len(s)].kind = "user" => k < Len(o)
               /\ Match(o[k], s[i]) /\ Exact(s, i, o[k], loose)
               => Match(o2[k], s2[i]) /\ (QuietAt(s, i) \/ Exact(s2, i, o2[k], loose2))
    PROVE  Paired(s2, o2, loose2)
<1>1. PICK place : Pairs(s, o, loose, place)
  BY DEF Paired
<1>2. ASSUME NEW i \in 1..Len(s), s[i].kind = "user"
      PROVE  Match(o2[place[i]], s2[i]) /\ Exact(s2, i, o2[place[i]], loose2)
  <2>1. /\ place[i] \in 1..Len(o) /\ (i = Len(s) => place[i] = Len(o))
        /\ i < Len(s) /\ s[Len(s)].kind = "user" => place[i] < Len(o)
    BY <1>1, <1>2, PairsWhere
  <2>2. Match(o[place[i]], s[i]) /\ Exact(s, i, o[place[i]], loose)
    BY <1>1, <1>2 DEF Pairs
  <2>3. Match(o2[place[i]], s2[i]) /\ (QuietAt(s, i) \/ Exact(s2, i, o2[place[i]], loose2))
    BY <1>2, <2>1, <2>2
  <2>4. QuietAt(s, i) => QuietAt(s2, i)
    <3>1. Len(s) \in Nat
      OBVIOUS
    <3>2. QED
      BY <3>1 DEF QuietAt
  <2>5. QED
    BY <2>3, <2>4 DEF Exact
<1>3. Pairs(s2, o2, loose2, place)
  BY <1>1, <1>2 DEF Pairs
<1>4. QED
  BY <1>3 DEF Paired

\* A stack without invocations pairs with anything.
LEMMA PairedLoose ==
    ASSUME NEW s \in Seq(Frame), NEW o, NEW loose, NEW loose2, Paired(s, o, loose),
           \A i \in 1..Len(s) : s[i].kind # "user"
    PROVE  Paired(s, o, loose2)
BY DEF Paired, Pairs

LEMMA PairedPush ==
    ASSUME NEW s \in Seq(Frame), NEW f \in Frame, f.kind # "user",
           NEW o \in Seq(GroupRec), NEW loose, Paired(s, o, loose)
    PROVE  Paired(Append(s, f), o, loose)
<1>1. PICK place : Pairs(s, o, loose, place)
  BY DEF Paired
<1> DEFINE r == Append(s, f)
           put == [i \in 0..Len(r) |-> IF i <= Len(s) THEN place[i] ELSE Len(o)]
<1>2. /\ Len(s) \in Nat /\ Len(r) = Len(s) + 1 /\ r[Len(s) + 1] = f
      /\ \A i \in 1..Len(s) : r[i] = s[i] /\ i \in 1..Len(r)
      /\ \A i \in 1..Len(r) : i \in 1..Len(s) \/ i = Len(s) + 1
  OBVIOUS
<1> HIDE DEF r
<1>3. place \in [0..Len(s) -> Nat] /\ place[Len(s)] = Len(o) /\ Len(o) \in Nat
  BY <1>1 DEF Pairs
<1>4. /\ put \in [0..Len(r) -> Nat] /\ put[Len(s) + 1] = Len(o)
      /\ \A i \in 0..Len(s) : put[i] = place[i]
  BY <1>2, <1>3
<1> HIDE DEF put
<1>5. \A i \in 0..Len(s) : place[i] <= Len(o)
  BY <1>1, <1>2, <1>3 DEF Pairs
<1>6. \A i \in 0..Len(r) : \A j \in 0..Len(r) : i <= j => put[i] <= put[j]
  <2>1. SUFFICES ASSUME NEW i \in 0..Len(r), NEW j \in 0..Len(r), i <= j
                 PROVE  put[i] <= put[j]
    OBVIOUS
  <2>2. CASE j \in 0..Len(s)
    <3>1. i \in 0..Len(s)
      BY <1>2, <2>1, <2>2
    <3>2. place[i] <= place[j]
      BY <1>1, <2>1, <2>2, <3>1 DEF Pairs
    <3>3. QED
      BY <1>4, <2>2, <3>1, <3>2
  <2>3. CASE j = Len(s) + 1
    <3>1. i \in 0..Len(s) \/ i = Len(s) + 1
      BY <1>2, <2>1
    <3>2. QED
      BY <1>3, <1>4, <1>5, <2>3, <3>1
  <2>4. QED
    BY <1>2, <2>2, <2>3
<1>7. ASSUME NEW i \in 1..Len(r)
      PROVE  /\ r[i].kind = "user" => put[i] = put[i - 1] + 1
             /\ r[i].kind # "user" => put[i] = put[i - 1]
  <2>1. CASE i \in 1..Len(s)
    <3>1. i - 1 \in 0..Len(s) /\ i \in 0..Len(s)
      BY <1>2, <2>1
    <3>2. QED
      BY <1>1, <1>2, <1>4, <2>1, <3>1 DEF Pairs
  <2>2. CASE i = Len(s) + 1
    <3>1. i - 1 = Len(s) /\ Len(s) \in 0..Len(s)
      BY <1>2, <2>2
    <3>2. QED
      BY <1>2, <1>3, <1>4, <2>2, <3>1
  <2>3. QED
    BY <1>2, <2>1, <2>2
<1>8. ASSUME NEW i \in 1..Len(r), r[i].kind = "user"
      PROVE  Match(o[put[i]], r[i]) /\ Exact(r, i, o[put[i]], loose)
  <2>1. i \in 1..Len(s) /\ r[i] = s[i] /\ i \in 0..Len(s)
    BY <1>2, <1>8
  <2>2. Match(o[place[i]], s[i]) /\ Exact(s, i, o[place[i]], loose)
    BY <1>1, <1>8, <2>1 DEF Pairs
  <2>3. QuietAt(s, i) => QuietAt(r, i)
    BY <1>2, <2>1 DEF QuietAt
  <2>4. QED
    BY <1>4, <2>1, <2>2, <2>3 DEF Exact
<1>9. Pairs(r, o, loose, put)
  BY <1>2, <1>4, <1>6, <1>7, <1>8 DEF Pairs
<1>10. QED
  BY <1>9 DEF Paired, r

\* An invocation and its new group; it may be loose before the first one.
LEMMA PairedBegin ==
    ASSUME NEW s \in Seq(Frame), NEW f \in Frame, f.kind = "user", f.n = 0,
           NEW o \in Seq(GroupRec), NEW g \in GroupRec, Match(g, f), Numbered(g) = 0,
           NEW loose, Paired(s, o, loose)
    PROVE  Paired(Append(s, f), Append(o, g), loose)
<1>1. PICK place : Pairs(s, o, loose, place)
  BY DEF Paired
<1> DEFINE r == Append(s, f)
           q == Append(o, g)
           put == [i \in 0..Len(r) |-> IF i <= Len(s) THEN place[i] ELSE Len(o) + 1]
<1>2. /\ Len(s) \in Nat /\ Len(r) = Len(s) + 1 /\ r[Len(s) + 1] = f
      /\ \A i \in 1..Len(s) : r[i] = s[i] /\ i \in 1..Len(r)
      /\ \A i \in 1..Len(r) : i \in 1..Len(s) \/ i = Len(s) + 1
  OBVIOUS
<1>3. /\ Len(o) \in Nat /\ Len(q) = Len(o) + 1 /\ q[Len(o) + 1] = g
      /\ \A i \in 1..Len(o) : q[i] = o[i]
  OBVIOUS
<1> HIDE DEF r, q
<1>4. place \in [0..Len(s) -> Nat] /\ place[Len(s)] = Len(o)
  BY <1>1 DEF Pairs
<1>5. /\ put \in [0..Len(r) -> Nat] /\ put[Len(s) + 1] = Len(o) + 1
      /\ \A i \in 0..Len(s) : put[i] = place[i]
  BY <1>2, <1>3, <1>4
<1> HIDE DEF put
<1>6. \A i \in 0..Len(s) : place[i] <= Len(o)
  BY <1>1, <1>2, <1>4 DEF Pairs
<1>7. \A i \in 0..Len(r) : \A j \in 0..Len(r) : i <= j => put[i] <= put[j]
  <2>1. SUFFICES ASSUME NEW i \in 0..Len(r), NEW j \in 0..Len(r), i <= j
                 PROVE  put[i] <= put[j]
    OBVIOUS
  <2>2. CASE j \in 0..Len(s)
    <3>1. i \in 0..Len(s)
      BY <1>2, <2>1, <2>2
    <3>2. place[i] <= place[j]
      BY <1>1, <2>1, <2>2, <3>1 DEF Pairs
    <3>3. QED
      BY <1>5, <2>2, <3>1, <3>2
  <2>3. CASE j = Len(s) + 1
    <3>1. i \in 0..Len(s) \/ i = Len(s) + 1
      BY <1>2, <2>1
    <3>2. \A k \in 0..Len(s) : put[k] <= Len(o) + 1
      <4>1. ASSUME NEW k \in 0..Len(s) PROVE put[k] <= Len(o) + 1
        <5>1. put[k] = place[k] /\ place[k] <= Len(o) /\ place[k] \in Nat
          BY <1>4, <1>5, <1>6
        <5>2. QED
          BY <1>3, <5>1
      <4>2. QED
        BY <4>1
    <3>3. QED
      BY <1>3, <1>5, <2>3, <3>1, <3>2
  <2>4. QED
    BY <1>2, <2>2, <2>3
<1>8. ASSUME NEW i \in 1..Len(r)
      PROVE  /\ r[i].kind = "user" => put[i] = put[i - 1] + 1
             /\ r[i].kind # "user" => put[i] = put[i - 1]
  <2>1. CASE i \in 1..Len(s)
    <3>1. i - 1 \in 0..Len(s) /\ i \in 0..Len(s)
      BY <1>2, <2>1
    <3>2. QED
      BY <1>1, <1>2, <1>5, <2>1, <3>1 DEF Pairs
  <2>2. CASE i = Len(s) + 1
    <3>1. i - 1 = Len(s) /\ Len(s) \in 0..Len(s)
      BY <1>2, <2>2
    <3>2. QED
      BY <1>2, <1>4, <1>5, <2>2, <3>1
  <2>3. QED
    BY <1>2, <2>1, <2>2
<1>9. ASSUME NEW i \in 1..Len(r), r[i].kind = "user"
      PROVE  Match(q[put[i]], r[i]) /\ Exact(r, i, q[put[i]], loose)
  <2>1. CASE i \in 1..Len(s)
    <3>1. r[i] = s[i] /\ i \in 0..Len(s)
      BY <1>2, <2>1
    <3>2. Match(o[place[i]], s[i]) /\ Exact(s, i, o[place[i]], loose)
      BY <1>1, <1>9, <2>1, <3>1 DEF Pairs
    <3>3. QuietAt(s, i) => QuietAt(r, i)
      BY <1>2, <2>1 DEF QuietAt
    <3>4. place[i] \in 1..Len(o)
      BY <1>1, <1>9, <2>1, <3>1, PairsWhere
    <3>5. q[put[i]] = o[place[i]]
      BY <1>3, <1>5, <3>1, <3>4
    <3>6. QED
      BY <3>1, <3>2, <3>3, <3>5 DEF Exact
  <2>2. CASE i = Len(s) + 1
    BY <1>2, <1>3, <1>5, <2>2 DEF Exact
  <2>3. QED
    BY <1>2, <2>1, <2>2
<1>10. Pairs(r, q, loose, put)
  BY <1>2, <1>3, <1>5, <1>7, <1>8, <1>9 DEF Pairs
<1>11. QED
  BY <1>10 DEF Paired, r, q

LEMMA AllButLast ==
    ASSUME NEW S, NEW q \in Seq(S), q # <<>>
    PROVE  /\ SubSeq(q, 1, Len(q) - 1) \in Seq(S)
           /\ Len(SubSeq(q, 1, Len(q) - 1)) = Len(q) - 1 /\ Len(q) \in 1..Len(q)
           /\ \A i \in 1..(Len(q) - 1) : SubSeq(q, 1, Len(q) - 1)[i] = q[i]
<1>1. Len(q) \in Nat /\ Len(q) # 0
  OBVIOUS
<1>2. SubSeq(q, 1, Len(q) - 1) \in Seq(S) /\ Len(SubSeq(q, 1, Len(q) - 1)) = Len(q) - 1
  <2>1. SubSeq(q, 1, Len(q) - 1) \in Seq(S)
    BY <1>1
  <2>2. Len(SubSeq(q, 1, Len(q) - 1)) = Len(q) - 1
    <3>1. Len(SubSeq(q, 1, Len(q) - 1)) = IF 1 <= Len(q) - 1 THEN Len(q) - 1 - 1 + 1 ELSE 0
      <4>1. 1 \in Int /\ Len(q) - 1 \in Int /\ \A i \in 1..(Len(q) - 1) : q[i] \in S
        BY <1>1
      <4>2. QED
        BY <4>1, SubSeqProperties
    <3>2. \A k \in Nat : k # 0 => (IF 1 <= k - 1 THEN k - 1 - 1 + 1 ELSE 0) = k - 1
      OBVIOUS
    <3>3. QED
      BY <1>1, <3>1, <3>2, Zenon
  <2>3. QED
    BY <2>1, <2>2
<1>3. \A i \in 1..(Len(q) - 1) : SubSeq(q, 1, Len(q) - 1)[i] = q[i]
  BY <1>1
<1>4. QED
  BY <1>1, <1>2, <1>3

\* The top of the stack is popped, and with an invocation its group.
LEMMA PairedPop ==
    ASSUME NEW s \in Seq(Frame), s # <<>>,
           NEW o \in Seq(GroupRec), NEW loose, Paired(s, o, loose)
    PROVE  /\ s[Len(s)].kind # "user" => Paired(SubSeq(s, 1, Len(s) - 1), o, loose)
           /\ s[Len(s)].kind = "user" =>
                /\ o # <<>> /\ Len(o) \in 1..Len(o)
                /\ Match(o[Len(o)], s[Len(s)]) /\ Exact(s, Len(s), o[Len(o)], loose)
                /\ Paired(SubSeq(s, 1, Len(s) - 1), SubSeq(o, 1, Len(o) - 1), loose)
<1>1. PICK place : Pairs(s, o, loose, place)
  BY DEF Paired
<1> DEFINE r == SubSeq(s, 1, Len(s) - 1)
           put == [i \in 0..Len(r) |-> place[i]]
<1>2. Len(s) \in Nat /\ Len(s) # 0 /\ Len(o) \in Nat
  OBVIOUS
<1>3. r \in Seq(Frame) /\ Len(r) = Len(s) - 1 /\ \A i \in 1..Len(r) : r[i] = s[i]
  BY <1>2, Pop
<1> HIDE DEF r
<1>4. place \in [0..Len(s) -> Nat] /\ place[Len(s)] = Len(o)
  BY <1>1 DEF Pairs
<1>5. /\ put \in [0..Len(r) -> Nat] /\ \A i \in 0..Len(r) : put[i] = place[i] /\ i \in 0..Len(s)
      /\ \A i \in 1..Len(r) : i \in 1..Len(s) /\ i - 1 \in 0..Len(r) /\ i \in 0..Len(r)
  BY <1>2, <1>3, <1>4
<1> HIDE DEF put
<1>6. /\ \A i, j \in 0..Len(r) : i <= j => put[i] <= put[j]
      /\ \A i \in 1..Len(r) :
           /\ r[i].kind = "user" => put[i] = put[i - 1] + 1
           /\ r[i].kind # "user" => put[i] = put[i - 1]
  <2>1. \A i, j \in 0..Len(r) : i <= j => put[i] <= put[j]
    BY <1>1, <1>5 DEF Pairs
  <2>2. ASSUME NEW i \in 1..Len(r)
        PROVE  /\ r[i].kind = "user" => put[i] = put[i - 1] + 1
               /\ r[i].kind # "user" => put[i] = put[i - 1]
    BY <1>1, <1>3, <1>5 DEF Pairs
  <2>3. QED
    BY <2>1, <2>2
<1>7. ASSUME NEW i \in 1..Len(r), r[i].kind = "user"
      PROVE  /\ Match(o[place[i]], r[i]) /\ Exact(r, i, o[place[i]], loose)
             /\ place[i] \in 1..Len(o)
             /\ s[Len(s)].kind = "user" => place[i] < Len(o)
  <2>1. i \in 1..Len(s) /\ s[i] = r[i] /\ i < Len(s)
    BY <1>2, <1>3, <1>5
  <2>2. Match(o[place[i]], s[i]) /\ Exact(s, i, o[place[i]], loose)
    BY <1>1, <1>7, <2>1 DEF Pairs
  <2>3. QuietAt(s, i) => QuietAt(r, i)
    <3>1. \A j \in 1..(i - 1) : s[j] = r[j]
      BY <1>3
    <3>2. QED
      BY <3>1 DEF QuietAt
  <2>4. place[i] \in 1..Len(o) /\ (s[Len(s)].kind = "user" => place[i] < Len(o))
    BY <1>1, <1>7, <2>1, PairsWhere
  <2>5. QED
    BY <2>1, <2>2, <2>3, <2>4 DEF Exact
<1>8. Len(s) \in 1..Len(s) /\ Len(s) - 1 \in 0..Len(r) /\ Len(r) = Len(s) - 1
  BY <1>2, <1>3
<1>9. ASSUME s[Len(s)].kind # "user"
      PROVE  Paired(r, o, loose)
  <2>1. put[Len(r)] = Len(o)
    BY <1>1, <1>4, <1>5, <1>8, <1>9 DEF Pairs
  <2>2. Pairs(r, o, loose, put)
    BY <1>5, <1>6, <1>7, <2>1 DEF Pairs
  <2>3. QED
    BY <2>2 DEF Paired
<1>10. ASSUME s[Len(s)].kind = "user"
       PROVE  /\ o # <<>> /\ Len(o) \in 1..Len(o)
              /\ Match(o[Len(o)], s[Len(s)]) /\ Exact(s, Len(s), o[Len(o)], loose)
              /\ Paired(r, SubSeq(o, 1, Len(o) - 1), loose)
  <2>1. place[Len(s)] = Len(o) /\ Len(o) \in 1..Len(o)
    BY <1>1, <1>8, <1>10, PairsWhere
  <2>2. Match(o[Len(o)], s[Len(s)]) /\ Exact(s, Len(s), o[Len(o)], loose)
    BY <1>1, <1>8, <1>10, <2>1 DEF Pairs
  <2> DEFINE q == SubSeq(o, 1, Len(o) - 1)
  <2>3. o # <<>>
    BY <2>1
  <2>4. Len(q) = Len(o) - 1 /\ \A k \in 1..(Len(o) - 1) : q[k] = o[k]
    BY <2>3, AllButLast
  <2> HIDE DEF q
  <2>5. put[Len(r)] = Len(o) - 1
    <3>1. place[Len(s)] = place[Len(s) - 1] + 1 /\ place[Len(s) - 1] \in Nat
      BY <1>1, <1>4, <1>5, <1>8, <1>10 DEF Pairs
    <3>2. put[Len(r)] = place[Len(s) - 1]
      BY <1>5, <1>8
    <3>3. QED
      BY <1>2, <2>1, <3>1, <3>2
  <2>6. ASSUME NEW i \in 1..Len(r), r[i].kind = "user"
        PROVE  Match(q[put[i]], r[i]) /\ Exact(r, i, q[put[i]], loose)
    <3>1. place[i] \in 1..(Len(o) - 1) /\ put[i] = place[i]
      BY <1>2, <1>5, <1>7, <1>10, <2>6
    <3>2. q[put[i]] = o[place[i]]
      BY <2>4, <3>1
    <3>3. QED
      BY <1>7, <2>6, <3>2
  <2>7. Pairs(r, q, loose, put)
    BY <1>5, <1>6, <2>4, <2>5, <2>6 DEF Pairs
  <2>8. QED
    BY <2>1, <2>2, <2>3, <2>7 DEF Paired, q
<1>11. QED
  BY <1>9, <1>10 DEF r

-----------------------------------------------------------------------------
(* The lines a step has written, one by one.                               *)

LEMMA ReadOne ==
    ASSUME NEW L \in Seq(Line), NEW l \in Line, NEW p
    PROVE  Read(p, SubSeq(Append(L, l), Len(L) + 1, Len(Append(L, l)))) = Group(p, l)
<1> DEFINE M == Append(L, l)
           ls == SubSeq(M, Len(L) + 1, Len(M))
<1>1. Len(L) \in Nat /\ Len(M) = Len(L) + 1 /\ M[Len(L) + 1] = l /\ M \in Seq(Line)
  OBVIOUS
<1> HIDE DEF M
<1>2. /\ Len(ls) = IF Len(L) + 1 <= Len(M) THEN Len(M) - (Len(L) + 1) + 1 ELSE 0
      /\ \A i \in 1..(Len(M) - (Len(L) + 1) + 1) : ls[i] = M[Len(L) + 1 + i - 1]
  <2>1. Len(L) + 1 \in Int /\ Len(M) \in Int /\ \A i \in (Len(L) + 1)..Len(M) : M[i] \in Line
    BY <1>1
  <2>2. QED
    BY <2>1, SubSeqProperties
<1> HIDE DEF ls
<1>3. Len(ls) = 1 /\ ls[1] = l
  BY <1>1, <1>2
<1>4. Read(p, ls) = Group(p, l)
  BY <1>3 DEF Read
<1>5. QED
  BY <1>4 DEF ls, M

LEMMA ReadTwo ==
    ASSUME NEW L \in Seq(Line), NEW l \in Line, NEW k \in Line, NEW p
    PROVE  Read(p, SubSeq(Append(Append(L, l), k), Len(L) + 1, Len(Append(Append(L, l), k))))
             = Group(Group(p, l), k)
<1> DEFINE M == Append(Append(L, l), k)
           ls == SubSeq(M, Len(L) + 1, Len(M))
<1>1. /\ Len(L) \in Nat /\ Len(M) = Len(L) + 2 /\ M \in Seq(Line)
      /\ M[Len(L) + 1] = l /\ M[Len(L) + 2] = k
  <2> DEFINE N == Append(L, l)
  <2>1. Len(L) \in Nat /\ Len(N) = Len(L) + 1 /\ N[Len(L) + 1] = l /\ N \in Seq(Line)
    OBVIOUS
  <2> HIDE DEF N
  <2>2. /\ Len(Append(N, k)) = Len(N) + 1 /\ Append(N, k) \in Seq(Line)
        /\ Append(N, k)[Len(N) + 1] = k /\ \A i \in 1..Len(N) : Append(N, k)[i] = N[i]
    BY <2>1
  <2>3. M = Append(N, k)
    BY DEF N
  <2>4. QED
    BY <2>1, <2>2, <2>3
<1> HIDE DEF M
<1>2. /\ Len(ls) = IF Len(L) + 1 <= Len(M) THEN Len(M) - (Len(L) + 1) + 1 ELSE 0
      /\ \A i \in 1..(Len(M) - (Len(L) + 1) + 1) : ls[i] = M[Len(L) + 1 + i - 1]
  <2>1. Len(L) + 1 \in Int /\ Len(M) \in Int /\ \A i \in (Len(L) + 1)..Len(M) : M[i] \in Line
    BY <1>1
  <2>2. QED
    BY <2>1, SubSeqProperties
<1> HIDE DEF ls
<1>3. Len(ls) = 2 /\ ls[1] = l /\ ls[2] = k
  BY <1>1, <1>2
<1>4. Read(p, ls) = Group(Group(p, l), k)
  BY <1>3 DEF Read
<1>5. QED
  BY <1>4 DEF ls, M

LEMMA ReadNone ==
    ASSUME NEW L \in Seq(Line), NEW p
    PROVE  Read(p, SubSeq(L, Len(L) + 1, Len(L))) = p
<1>1. Len(L) \in Nat /\ Len(L) + 1 \in Int /\ Len(L) \in Int /\ Len(L) < Len(L) + 1
  OBVIOUS
<1>2. SubSeq(L, Len(L) + 1, Len(L)) = <<>>
  BY <1>1, SubSeqEmpty
<1>3. Len(<<>>) = 0
  OBVIOUS
<1>4. QED
  BY <1>2, <1>3 DEF Read

\* The innermost group of o is replaced.
WithLast(o, h) == Append(SubSeq(o, 1, Len(o) - 1), h)

LEMMA LastReplaced ==
    ASSUME NEW o \in Seq(GroupRec), o # <<>>, NEW h \in GroupRec
    PROVE  /\ WithLast(o, h) \in Seq(GroupRec) /\ Len(WithLast(o, h)) = Len(o)
           /\ WithLast(o, h)[Len(o)] = h /\ Len(o) \in 1..Len(o)
           /\ \A i \in 1..(Len(o) - 1) : WithLast(o, h)[i] = o[i]
<1> DEFINE q == SubSeq(o, 1, Len(o) - 1)
<1>1. /\ q \in Seq(GroupRec) /\ Len(q) = Len(o) - 1 /\ Len(o) \in 1..Len(o)
      /\ \A i \in 1..(Len(o) - 1) : q[i] = o[i]
  BY AllButLast
<1> HIDE DEF q
<1>2. Len(o) \in Nat
  OBVIOUS
<1>3. /\ Append(q, h) \in Seq(GroupRec) /\ Len(Append(q, h)) = Len(o)
      /\ Append(q, h)[Len(o)] = h
      /\ \A i \in 1..(Len(o) - 1) : Append(q, h)[i] = o[i]
  BY <1>1, <1>2
<1>4. QED
  BY <1>1, <1>3 DEF WithLast, q

\* What a line does to the groups.
LEMMA GroupEnter ==
    ASSUME NEW p \in GroupState, NEW l \in Line, l.ev = "enter",
           NEW g \in GroupRec, g = [key |-> l.by, calls |-> <<>>, exc |-> FALSE, kept |-> {}]
    PROVE  /\ Group(p, l) \in GroupState
           /\ Group(p, l) = [open |-> [p.open EXCEPT ![l.thr] = Append(p.open[l.thr], g)],
                             done |-> p.done]
<1>1. l.thr \in Thread /\ p = [open |-> p.open, done |-> p.done]
      /\ p.open \in [Thread -> Seq(GroupRec)] /\ p.done \in Seq(GroupRec)
  BY DEF Line, GroupState
<1>2. Group(p, l) = PushFrame(p, l)
  BY DEF Group
<1>3. Group(p, l) = [open |-> [p.open EXCEPT ![l.thr] = Append(p.open[l.thr], g)],
                     done |-> p.done]
  BY <1>1, <1>2 DEF PushFrame
<1>4. Append(p.open[l.thr], g) \in Seq(GroupRec)
  BY <1>1
<1>5. QED
  BY <1>1, <1>3, <1>4 DEF GroupState

\* A finished group differs from what was collected in what it keeps.
LEMMA CollapsedIs ==
    ASSUME NEW g \in GroupRec
    PROVE  /\ Collapsed(g) \in GroupRec /\ Collapsed(g).key = g.key
           /\ Collapsed(g).exc = g.exc /\ Collapsed(g).calls = g.calls
           /\ Collapsed(g).kept = CollapseRepeats(g.calls)
           /\ Collapsed(g).kept \subseteq DOMAIN g.calls
           /\ Numbered(Collapsed(g)) = Numbered(g) /\ (Once(g) => Once(Collapsed(g)))
<1>1. PICK k \in Int, cs \in Seq(CallRec), b \in BOOLEAN, ks \in SUBSET Int :
          g = [key |-> k, calls |-> cs, exc |-> b, kept |-> ks]
  BY DEF GroupRec
<1>2. /\ CollapseRepeats(cs) \subseteq DOMAIN cs
      /\ DOMAIN cs = 1..Len(cs) /\ Len(cs) \in Nat
  BY KeptTyped
<1>3. PICK ks2 \in SUBSET Int : ks2 = CollapseRepeats(cs)
  BY <1>2
<1>4. [key |-> k, calls |-> cs, exc |-> b, kept |-> ks].calls = cs
  OBVIOUS
<1>5. Collapsed(g) = [[key |-> k, calls |-> cs, exc |-> b, kept |-> ks] EXCEPT !.kept = ks2]
  BY <1>1, <1>3, <1>4, Zenon DEF Collapsed
<1>6. Collapsed(g) = [key |-> k, calls |-> cs, exc |-> b, kept |-> ks2]
  <2>1. \A e : [[key |-> k, calls |-> cs, exc |-> b, kept |-> ks] EXCEPT !.kept = e]
                = [key |-> k, calls |-> cs, exc |-> b, kept |-> e]
    OBVIOUS
  <2>2. QED
    BY <1>5, <2>1, Zenon
<1>7. PICK h : h = Collapsed(g)
  OBVIOUS
<1>8. /\ h \in GroupRec /\ h.key = k /\ h.calls = cs /\ h.kept = ks2
      /\ g.key = k /\ g.calls = cs
  BY <1>1, <1>6, <1>7 DEF GroupRec
<1>9. h.exc = b /\ g.exc = b
  <2>1. \A x : [key |-> k, calls |-> cs, exc |-> b, kept |-> x].exc = b
    OBVIOUS
  <2>2. h = [key |-> k, calls |-> cs, exc |-> b, kept |-> ks2]
    BY <1>6, <1>7
  <2>3. QED
    BY <1>1, <2>1, <2>2, Zenon
<1>10. Numbered(h) = Numbered(g)
  BY <1>8 DEF Numbered, NumberedAt
<1>11. Once(g) => Once(h)
  BY <1>8, <1>10 DEF Once
<1>12. QED
  BY <1>2, <1>3, <1>7, <1>8, <1>9, <1>10, <1>11

LEMMA GroupExit ==
    ASSUME NEW p \in GroupState, NEW l \in Line, l.ev = "exit"
    PROVE  /\ Group(p, l) \in GroupState
           /\ p.open[l.thr] = <<>> => Group(p, l) = p
           /\ p.open[l.thr] # <<>> =>
                Group(p, l) =
                  [open |-> [p.open EXCEPT ![l.thr] =
                               SubSeq(p.open[l.thr], 1, Len(p.open[l.thr]) - 1)],
                   done |-> Append(p.done, Collapsed(p.open[l.thr][Len(p.open[l.thr])]))]
<1>1. l.thr \in Thread /\ p = [open |-> p.open, done |-> p.done]
      /\ p.open \in [Thread -> Seq(GroupRec)] /\ p.done \in Seq(GroupRec)
  BY DEF Line, GroupState
<1>2. Group(p, l) = PopFrame(p, l)
  BY DEF Group
<1>3. CASE p.open[l.thr] = <<>>
  BY <1>2, <1>3 DEF PopFrame
<1>4. CASE p.open[l.thr] # <<>>
  <2> DEFINE o == p.open[l.thr]
  <2>1. Group(p, l) = [open |-> [p.open EXCEPT ![l.thr] = SubSeq(o, 1, Len(o) - 1)],
                       done |-> Append(p.done, Collapsed(o[Len(o)]))]
    BY <1>1, <1>2, <1>4 DEF PopFrame, Front, Last
  <2>2. SubSeq(o, 1, Len(o) - 1) \in Seq(GroupRec) /\ Len(o) \in 1..Len(o)
    BY <1>1, <1>4, AllButLast
  <2>3. Collapsed(o[Len(o)]) \in GroupRec
    BY <1>1, <2>2, CollapsedIs
  <2>4. Append(p.done, Collapsed(o[Len(o)])) \in Seq(GroupRec)
    BY <1>1, <2>3
  <2>5. [p.open EXCEPT ![l.thr] = SubSeq(o, 1, Len(o) - 1)] \in [Thread -> Seq(GroupRec)]
    BY <1>1, <2>2
  <2>6. QED
    BY <1>4, <2>1, <2>4, <2>5 DEF GroupState
<1>5. QED
  BY <1>3, <1>4

\* One call more in the innermost group of o, if there is one; all of o flagged.
AddedTo(g, c) == [key |-> g.key, calls |-> Append(g.calls, c), exc |-> g.exc, kept |-> g.kept]
Collected(o, c) == IF o = <<>> THEN o ELSE WithLast(o, AddedTo(o[Len(o)], c))
Flagged(o) == [i \in 1..Len(o) |-> [o[i] EXCEPT !.exc = TRUE]]

LEMMA AddedTyped ==
    ASSUME NEW g \in GroupRec, NEW c \in CallRec
    PROVE  /\ AddedTo(g, c) \in GroupRec
           /\ AddedTo(g, c).key = g.key /\ AddedTo(g, c).exc = g.exc
           /\ AddedTo(g, c).kept = g.kept
           /\ AddedTo(g, c).calls = Append(g.calls, c)
           /\ AddedTo(g, c) = [g EXCEPT !.calls = Append(g.calls, c)]
<1> DEFINE cs == Append(g.calls, c)
<1>1. g.calls \in Seq(CallRec) /\ g.key \in Int /\ g.exc \in BOOLEAN /\ g.kept \in SUBSET Int
  BY DEF GroupRec
<1>2. cs \in Seq(CallRec)
  BY <1>1
<1> HIDE DEF cs
<1>3. [key |-> g.key, calls |-> cs, exc |-> g.exc, kept |-> g.kept] \in GroupRec
  BY <1>1, <1>2 DEF GroupRec
<1>4. [key |-> g.key, calls |-> cs, exc |-> g.exc, kept |-> g.kept] = [g EXCEPT !.calls = cs]
  BY DEF GroupRec
<1>5. AddedTo(g, c) = [key |-> g.key, calls |-> cs, exc |-> g.exc, kept |-> g.kept]
  BY DEF AddedTo, cs
<1>6. QED
  BY <1>3, <1>4, <1>5 DEF cs

LEMMA CollectedTyped ==
    ASSUME NEW o \in Seq(GroupRec), NEW c \in CallRec
    PROVE  /\ Collected(o, c) \in Seq(GroupRec) /\ Len(Collected(o, c)) = Len(o)
           /\ \A i \in 1..(Len(o) - 1) : Collected(o, c)[i] = o[i]
           /\ o # <<>> => /\ Len(o) \in 1..Len(o) /\ o[Len(o)] \in GroupRec
                          /\ Collected(o, c)[Len(o)] = AddedTo(o[Len(o)], c)
<1>1. CASE o = <<>>
  <2>1. Collected(o, c) = o /\ Len(o) = 0
    BY <1>1 DEF Collected
  <2>2. QED
    BY <1>1, <2>1
<1>2. CASE o # <<>>
  <2>1. Len(o) \in 1..Len(o)
    BY <1>2, AllButLast
  <2>2. o[Len(o)] \in GroupRec
    BY <2>1
  <2>3. PICK h \in GroupRec : h = AddedTo(o[Len(o)], c)
    BY <2>2, AddedTyped
  <2>4. Collected(o, c) = WithLast(o, h)
    BY <1>2, <2>3 DEF Collected
  <2>5. /\ WithLast(o, h) \in Seq(GroupRec) /\ Len(WithLast(o, h)) = Len(o)
        /\ WithLast(o, h)[Len(o)] = h /\ \A i \in 1..(Len(o) - 1) : WithLast(o, h)[i] = o[i]
    BY <1>2, LastReplaced
  <2>6. QED
    BY <2>1, <2>2, <2>3, <2>4, <2>5
<1>3. QED
  BY <1>1, <1>2

LEMMA FlaggedTyped ==
    ASSUME NEW o \in Seq(GroupRec)
    PROVE  /\ Flagged(o) \in Seq(GroupRec) /\ Len(Flagged(o)) = Len(o)
           /\ \A i \in 1..Len(o) : /\ Flagged(o)[i].key = o[i].key
                                   /\ Flagged(o)[i].calls = o[i].calls
                                   /\ Flagged(o)[i].exc
                                   /\ Flagged(o)[i] =
                                        [key |-> o[i].key, calls |-> o[i].calls, exc |-> TRUE, kept |-> o[i].kept]
<1> DEFINE q == Flagged(o)
<1>1. Len(o) \in Nat
  OBVIOUS
<1>2. \A i \in 1..Len(o) : o[i] \in GroupRec
  BY <1>1
<1>3. \A g \in GroupRec : [g EXCEPT !.exc = TRUE] = [key |-> g.key, calls |-> g.calls, exc |-> TRUE, kept |-> g.kept]
  <2>1. SUFFICES ASSUME NEW g \in GroupRec
                 PROVE  [g EXCEPT !.exc = TRUE] = [key |-> g.key, calls |-> g.calls, exc |-> TRUE, kept |-> g.kept]
    OBVIOUS
  <2>2. PICK k \in Int, cs \in Seq(CallRec), b \in BOOLEAN, ks \in SUBSET Int : g = [key |-> k, calls |-> cs, exc |-> b, kept |-> ks]
    BY DEF GroupRec
  <2>3. \A e : [[key |-> k, calls |-> cs, exc |-> b, kept |-> ks] EXCEPT !.exc = e] = [key |-> k, calls |-> cs, exc |-> e, kept |-> ks]
    OBVIOUS
  <2>4. [[key |-> k, calls |-> cs, exc |-> b, kept |-> ks] EXCEPT !.exc = TRUE] = [key |-> k, calls |-> cs, exc |-> TRUE, kept |-> ks]
    BY <2>3, Zenon
  <2>5. QED
    BY <2>2, <2>4
<1>4. \A g \in GroupRec : [key |-> g.key, calls |-> g.calls, exc |-> TRUE, kept |-> g.kept] \in GroupRec
  BY DEF GroupRec
<1>5. \A i \in 1..Len(o) : /\ [o[i] EXCEPT !.exc = TRUE] = [key |-> o[i].key, calls |-> o[i].calls, exc |-> TRUE, kept |-> o[i].kept]
                          /\ [key |-> o[i].key, calls |-> o[i].calls, exc |-> TRUE, kept |-> o[i].kept] \in GroupRec
  BY <1>2, <1>3, <1>4
<1>6. q = [i \in 1..Len(o) |-> [key |-> o[i].key, calls |-> o[i].calls, exc |-> TRUE, kept |-> o[i].kept]]
  BY <1>5 DEF Flagged
<1> HIDE DEF q
<1>7. q \in [1..Len(o) -> GroupRec]
  BY <1>5, <1>6
<1>8. q \in Seq(GroupRec) /\ Len(q) = Len(o)
  BY <1>1, <1>7
<1>9. \A i \in 1..Len(o) : q[i] = [key |-> o[i].key, calls |-> o[i].calls, exc |-> TRUE, kept |-> o[i].kept]
  BY <1>6
<1>10. \A i \in 1..Len(o) : q[i].key = o[i].key /\ q[i].calls = o[i].calls /\ q[i].exc
  <2>1. ASSUME NEW i \in 1..Len(o) PROVE q[i].key = o[i].key /\ q[i].calls = o[i].calls /\ q[i].exc
    <3>1. q[i] = [key |-> o[i].key, calls |-> o[i].calls, exc |-> TRUE, kept |-> o[i].kept]
      BY <1>9
    <3>2. q[i].exc
      <4>1. PICK g : g = q[i]
        OBVIOUS
      <4>2. g = [key |-> o[i].key, calls |-> o[i].calls, exc |-> TRUE, kept |-> o[i].kept]
        BY <3>1, <4>1
      <4>3. g.exc
        BY <4>2, Zenon
      <4>4. QED
        BY <4>1, <4>3
    <3>3. q[i].key = o[i].key /\ q[i].calls = o[i].calls
      BY <3>1
    <3>4. QED
      BY <3>2, <3>3
  <2>2. QED
    BY <2>1
<1>11. QED
  BY <1>8, <1>9, <1>10 DEF q

LEMMA GroupCall ==
    ASSUME NEW p \in GroupState, NEW l \in Line, l.ev = "jni",
           NEW c \in CallRec, c = [by |-> l.by, n |-> l.n]
    PROVE  /\ Group(p, l) \in GroupState
           /\ Group(p, l) = [open |-> [p.open EXCEPT ![l.thr] = Collected(p.open[l.thr], c)],
                             done |-> p.done]
<1>1. /\ l.thr \in Thread /\ p = [open |-> p.open, done |-> p.done]
      /\ p.open \in [Thread -> Seq(GroupRec)] /\ p.done \in Seq(GroupRec)
  BY DEF Line, GroupState
<1>2. Group(p, l) = AddCall(p, l)
  BY DEF Group
<1> DEFINE o == p.open[l.thr]
           q == Collected(o, c)
<1>3. o \in Seq(GroupRec) /\ q \in Seq(GroupRec)
  BY <1>1, CollectedTyped
<1>4. Group(p, l) = [open |-> [p.open EXCEPT ![l.thr] = q], done |-> p.done]
  <2>1. CASE o = <<>>
    <3>1. q = o /\ Group(p, l) = p
      BY <1>2, <2>1 DEF AddCall, Collected
    <3>2. QED
      BY <1>1, <3>1
  <2>2. CASE o # <<>>
    <3> DEFINE h == AddedTo(o[Len(o)], c)
    <3>1. Len(o) \in 1..Len(o) /\ o[Len(o)] \in GroupRec /\ q = WithLast(o, h)
      BY <1>3, <2>2, CollectedTyped DEF Collected
    <3>2. h \in GroupRec /\ h = [o[Len(o)] EXCEPT !.calls = Append(o[Len(o)].calls, c)]
      BY <3>1, AddedTyped
    <3>3. Group(p, l) = [open |-> [p.open EXCEPT ![l.thr] = [o EXCEPT ![Len(o)] =
                                     [o[Len(o)] EXCEPT !.calls = Append(o[Len(o)].calls, c)]]],
                         done |-> p.done]
      BY <1>1, <1>2, <2>2 DEF AddCall
    <3>4. Group(p, l) = [open |-> [p.open EXCEPT ![l.thr] = [o EXCEPT ![Len(o)] = h]],
                         done |-> p.done]
      BY <3>2, <3>3
    <3>5. [o EXCEPT ![Len(o)] = h] = WithLast(o, h)
      <4> DEFINE v == [o EXCEPT ![Len(o)] = h]
      <4> HIDE DEF h, o
      <4>1. v \in Seq(GroupRec) /\ Len(v) = Len(o) /\ \A i \in 1..Len(o) : v[i] = IF i = Len(o) THEN h ELSE o[i]
        BY <1>3, <3>1, <3>2
      <4>2. /\ WithLast(o, h) \in Seq(GroupRec) /\ Len(WithLast(o, h)) = Len(o)
            /\ WithLast(o, h)[Len(o)] = h /\ \A i \in 1..(Len(o) - 1) : WithLast(o, h)[i] = o[i]
        BY <1>3, <2>2, <3>2, LastReplaced
      <4> HIDE DEF v
      <4>3. \A i \in 1..Len(o) : v[i] = WithLast(o, h)[i]
        BY <1>3, <3>1, <4>1, <4>2
      <4>4. v = WithLast(o, h)
        BY <4>1, <4>2, <4>3, SeqEqual
      <4>5. QED
        BY <4>4 DEF v
    <3>6. QED
      BY <3>1, <3>4, <3>5
  <2>3. QED
    BY <2>1, <2>2
<1> HIDE DEF q, o
<1>5. [p.open EXCEPT ![l.thr] = q] \in [Thread -> Seq(GroupRec)]
  BY <1>1, <1>3
<1>6. Group(p, l) \in GroupState
  BY <1>1, <1>4, <1>5 DEF GroupState
<1>7. QED
  BY <1>4, <1>6 DEF q, o

LEMMA GroupException ==
    ASSUME NEW p \in GroupState, NEW l \in Line, l.ev = "exc"
    PROVE  /\ Group(p, l) \in GroupState
           /\ Group(p, l) = [open |-> [p.open EXCEPT ![l.thr] = Flagged(p.open[l.thr])],
                             done |-> p.done]
<1>1. l.thr \in Thread /\ p = [open |-> p.open, done |-> p.done]
      /\ p.open \in [Thread -> Seq(GroupRec)] /\ p.done \in Seq(GroupRec)
  BY DEF Line, GroupState
<1>2. Group(p, l) = AddException(p, l)
  BY DEF Group
<1>3. Group(p, l) = [open |-> [p.open EXCEPT ![l.thr] = Flagged(p.open[l.thr])], done |-> p.done]
  BY <1>1, <1>2 DEF AddException, Flagged
<1>4. Flagged(p.open[l.thr]) \in Seq(GroupRec)
  BY <1>1, FlaggedTyped
<1>5. Group(p, l) \in GroupState
  BY <1>1, <1>3, <1>4 DEF GroupState
<1>6. QED
  BY <1>3, <1>5

LEMMA GroupOther ==
    ASSUME NEW p, NEW l, l.ev \in {"jni-init", "truncate"}
    PROVE  Group(p, l) = p
BY DEF Group

\* What a step makes of the groups: those of t become o.
Reading == groups' = Read(groups, SubSeq(lines', Len(lines) + 1, Len(lines')))
Become(t, o) == groups' = [open |-> [groups.open EXCEPT ![t] = o], done |-> groups.done]

LEMMA ReadSame ==
    ASSUME groups \in GroupState, lines \in Seq(Line), Reading, lines' = lines
    PROVE  groups' = groups
BY ReadNone DEF Reading

LEMMA SameIsBecome ==
    ASSUME groups \in GroupState, NEW t \in Thread, groups' = groups
    PROVE  Become(t, groups.open[t])
BY DEF GroupState, Become

LEMMA AgentLine ==
    ASSUME NEW t \in Thread, NEW ev \in {"jni", "truncate", "exc"}
    PROVE  \E l \in Line : /\ l = Record(ev, t, ByAgent, 0)
                           /\ l.ev = ev /\ l.thr = t /\ l.by = ByAgent /\ l.n = 0
<1> DEFINE l == Record(ev, t, ByAgent, 0)
<1>1. ByAgent \in Nat \cup {ByAgent} /\ 0 \in Nat
  OBVIOUS
<1>2. l \in Line
  BY <1>1 DEF Record, Line
<1>3. l.ev = ev /\ l.thr = t /\ l.by = ByAgent /\ l.n = 0
  BY DEF Record
<1> HIDE DEF l
<1>4. QED
  BY <1>2, <1>3 DEF l

LEMMA EmitRead ==
    ASSUME groups \in GroupState, lines \in Seq(Line), NEW t \in Thread,
           NEW by \in Nat \cup {ByAgent}, NEW n \in Nat,
           NEW c \in CallRec, c = [by |-> by, n |-> n],
           lines' = lines \o Emitted(t, by, n), Reading
    PROVE  /\ Silent(t) \/ Full(t) => Become(t, groups.open[t])
           /\ ~Silent(t) /\ ~Full(t) => Become(t, Collected(groups.open[t], c))
<1>1. CASE Silent(t) \/ (Full(t) /\ truncated[t])
  <2>1. lines' = lines
    BY <1>1 DEF Emitted
  <2>2. QED
    BY <1>1, <2>1, ReadSame, SameIsBecome
<1>2. CASE ~Silent(t) /\ ~Full(t)
  <2>1. PICK l \in Line : /\ l = Record("jni", t, by, n) /\ l.ev = "jni"
                          /\ l.thr = t /\ l.by = by /\ l.n = n
    BY RecordTyped
  <2>2. lines' = Append(lines, l)
    <3>1. Emitted(t, by, n) = <<l>>
      BY <1>2, <2>1 DEF Emitted
    <3>2. QED
      BY <2>1, <3>1
  <2>3. groups' = Group(groups, l)
    BY <2>2, ReadOne DEF Reading
  <2>4. QED
    BY <1>2, <2>1, <2>3, GroupCall DEF Become
<1>3. CASE ~Silent(t) /\ Full(t) /\ ~truncated[t]
  <2>1. PICK l \in Line : l = Record("truncate", t, ByAgent, 0) /\ l.ev = "truncate"
    BY AgentLine
  <2>2. lines' = Append(lines, l)
    <3>1. Emitted(t, by, n) = <<l>>
      BY <1>3, <2>1 DEF Emitted
    <3>2. QED
      BY <2>1, <3>1
  <2>3. groups' = Group(groups, l)
    BY <2>2, ReadOne DEF Reading
  <2>4. groups' = groups
    BY <2>1, <2>3, GroupOther
  <2>5. QED
    BY <1>3, <2>4, SameIsBecome
<1>4. QED
  BY <1>1, <1>2, <1>3

LEMMA ExceptionRead ==
    ASSUME groups \in GroupState, lines \in Seq(Line), NEW t \in Thread, Reading,
           NEW c \in CallRec, c = [by |-> ByAgent, n |-> 0],
           lines' = Append(lines \o Emitted(t, ByAgent, 0), Record("exc", t, ByAgent, 0))
    PROVE  \/ Become(t, Flagged(groups.open[t]))
           \/ Become(t, Flagged(Collected(groups.open[t], c)))
<1>1. PICK x \in Line : x = Record("exc", t, ByAgent, 0) /\ x.ev = "exc" /\ x.thr = t
  BY AgentLine
<1>2. CASE Silent(t) \/ (Full(t) /\ truncated[t])
  <2>1. lines' = Append(lines, x)
    BY <1>1, <1>2 DEF Emitted
  <2>2. groups' = Group(groups, x)
    BY <2>1, ReadOne DEF Reading
  <2>3. QED
    BY <1>1, <2>2, GroupException DEF Become
<1>3. CASE ~Silent(t) /\ ~Full(t)
  <2>1. PICK l \in Line : /\ l = Record("jni", t, ByAgent, 0) /\ l.ev = "jni"
                          /\ l.thr = t /\ l.by = ByAgent /\ l.n = 0
    BY AgentLine
  <2>2. lines' = Append(Append(lines, l), x)
    <3>1. Emitted(t, ByAgent, 0) = <<l>>
      BY <1>3, <2>1 DEF Emitted
    <3>2. lines \o <<l>> = Append(lines, l)
      BY <2>1
    <3>3. QED
      BY <1>1, <3>1, <3>2
  <2>3. groups' = Group(Group(groups, l), x)
    <3> DEFINE M == Append(Append(lines, l), x)
    <3>1. Read(groups, SubSeq(M, Len(lines) + 1, Len(M))) = Group(Group(groups, l), x)
      BY ReadTwo
    <3>2. groups' = Read(groups, SubSeq(M, Len(lines) + 1, Len(M)))
      BY <2>2, Zenon DEF Reading
    <3>3. QED
      BY <3>1, <3>2
  <2> DEFINE p == Group(groups, l)
             o == Collected(groups.open[t], c)
  <2>4. p \in GroupState /\ p = [open |-> [groups.open EXCEPT ![t] = o], done |-> groups.done]
    BY <2>1, GroupCall
  <2>5. p.open[t] = o /\ p.done = groups.done
    BY <2>4 DEF GroupState
  <2> HIDE DEF o
  <2>6. groups' = [open |-> [p.open EXCEPT ![t] = Flagged(o)], done |-> p.done]
    <3> HIDE DEF p
    <3>1. Group(p, x) = [open |-> [p.open EXCEPT ![t] = Flagged(p.open[t])], done |-> p.done]
      BY <1>1, <2>4, GroupException
    <3>2. groups' = Group(p, x)
      BY <2>3 DEF p
    <3>3. QED
      BY <2>5, <3>1, <3>2
  <2> HIDE DEF p
  <2>7. [p.open EXCEPT ![t] = Flagged(o)] = [groups.open EXCEPT ![t] = Flagged(o)]
    BY <2>4 DEF GroupState
  <2>8. Become(t, Flagged(o))
    BY <2>5, <2>6, <2>7 DEF Become
  <2>9. QED
    BY <2>8 DEF o
<1>4. CASE ~Silent(t) /\ Full(t) /\ ~truncated[t]
  <2>1. PICK l \in Line : l = Record("truncate", t, ByAgent, 0) /\ l.ev = "truncate"
    BY AgentLine
  <2>2. lines' = Append(Append(lines, l), x)
    <3>1. Emitted(t, ByAgent, 0) = <<l>>
      BY <1>4, <2>1 DEF Emitted
    <3>2. lines \o <<l>> = Append(lines, l)
      BY <2>1
    <3>3. QED
      BY <1>1, <3>1, <3>2
  <2>3. groups' = Group(Group(groups, l), x)
    <3> DEFINE M == Append(Append(lines, l), x)
    <3>1. Read(groups, SubSeq(M, Len(lines) + 1, Len(M))) = Group(Group(groups, l), x)
      BY ReadTwo
    <3>2. groups' = Read(groups, SubSeq(M, Len(lines) + 1, Len(M)))
      BY <2>2, Zenon DEF Reading
    <3>3. QED
      BY <3>1, <3>2
  <2>4. Group(groups, l) = groups
    BY <2>1, GroupOther
  <2>5. QED
    BY <1>1, <2>3, <2>4, GroupException DEF Become
<1>5. QED
  BY <1>2, <1>3, <1>4

-----------------------------------------------------------------------------
(* The calls of the invocations on a stack are within their bound, and a    *)
(* thread that was truncated has used up its budget.                        *)

CountsOk(s, h) ==
    \A i \in 1..Len(s) :
        /\ s[i].n <= MaxCalls
        /\ s[i].kind # "user" => s[i].n = 0 /\ s[i].id = 0
        /\ ~h => s[i].n = 0
        /\ i > 1 /\ s[i].kind = "upcall" /\ s[i - 1].kind = "user" => s[i - 1].n < MaxCalls

LEMMA CountsPush ==
    ASSUME NEW s \in Seq(Frame), NEW h, CountsOk(s, h), NEW f \in Frame,
           f.n = 0, f.kind # "user" => f.id = 0,
           s # <<>> /\ f.kind = "upcall" /\ s[Len(s)].kind = "user" => s[Len(s)].n < MaxCalls
    PROVE  CountsOk(Append(s, f), h)
<1> DEFINE r == Append(s, f)
<1>1. /\ Len(s) \in Nat /\ Len(r) = Len(s) + 1 /\ r[Len(s) + 1] = f
      /\ \A i \in 1..Len(s) : r[i] = s[i]
  OBVIOUS
<1>2. MaxCalls >= 0 /\ (Len(s) # 0 => s # <<>>)
  BY AgentAssumption
<1> HIDE DEF r
<1>3. ASSUME NEW i \in 1..Len(s)
      PROVE  /\ r[i].n <= MaxCalls
             /\ r[i].kind # "user" => r[i].n = 0 /\ r[i].id = 0
             /\ ~h => r[i].n = 0
             /\ i > 1 /\ r[i].kind = "upcall" /\ r[i - 1].kind = "user" => r[i - 1].n < MaxCalls
  <2>1. r[i] = s[i] /\ (i > 1 => r[i - 1] = s[i - 1])
    BY <1>1
  <2>2. QED
    BY <2>1 DEF CountsOk
<1>4. ASSUME NEW i, i = Len(s) + 1
      PROVE  /\ r[i].n <= MaxCalls
             /\ r[i].kind # "user" => r[i].n = 0 /\ r[i].id = 0
             /\ ~h => r[i].n = 0
             /\ i > 1 /\ r[i].kind = "upcall" /\ r[i - 1].kind = "user" => r[i - 1].n < MaxCalls
  <2>1. r[i] = f /\ (i > 1 => r[i - 1] = s[Len(s)] /\ s # <<>>)
    BY <1>1, <1>2, <1>4
  <2>2. QED
    BY <1>2, <2>1
<1>5. \A i \in 1..Len(r) : i \in 1..Len(s) \/ i = Len(s) + 1
  BY <1>1
<1>6. CountsOk(r, h)
  BY <1>3, <1>4, <1>5 DEF CountsOk
<1>7. QED
  BY <1>6 DEF r

LEMMA CountsPop ==
    ASSUME NEW s \in Seq(Frame), s # <<>>, NEW h, CountsOk(s, h)
    PROVE  CountsOk(SubSeq(s, 1, Len(s) - 1), h)
<1> DEFINE r == SubSeq(s, 1, Len(s) - 1)
<1>1. Len(s) \in Nat /\ Len(r) = Len(s) - 1 /\ \A i \in 1..(Len(s) - 1) : r[i] = s[i]
  BY AllButLast
<1> HIDE DEF r
<1>2. ASSUME NEW i \in 1..Len(r)
      PROVE  i \in 1..Len(s) /\ r[i] = s[i] /\ (i > 1 => r[i - 1] = s[i - 1])
  BY <1>1
<1>3. CountsOk(r, h)
  BY <1>2 DEF CountsOk
<1>4. QED
  BY <1>3 DEF r

\* r is q, but for the number of calls of the top frame.
Retopped(q, r, n) ==
    /\ r \in Seq(Frame) /\ Len(r) = Len(q) /\ Len(q) \in 1..Len(q)
    /\ \A i \in 1..(Len(q) - 1) : r[i] = q[i]
    /\ r[Len(q)] = [q[Len(q)] EXCEPT !.n = n]

LEMMA RetoppedFrame ==
    ASSUME NEW q \in Seq(Frame), NEW r, NEW n \in Nat, Retopped(q, r, n)
    PROVE  /\ q[Len(q)] \in Frame
           /\ r[Len(q)].kind = q[Len(q)].kind /\ r[Len(q)].id = q[Len(q)].id
           /\ r[Len(q)].n = n /\ (r[Len(q)].exc <=> q[Len(q)].exc)
           /\ \A i \in 1..Len(q) : r[i].kind = q[i].kind
<1>1. Len(q) \in 1..Len(q) /\ r[Len(q)] = [q[Len(q)] EXCEPT !.n = n]
  BY DEF Retopped
<1>2. q[Len(q)] \in Frame
  BY <1>1
<1>3. \A f \in Frame : /\ [f EXCEPT !.n = n].kind = f.kind /\ [f EXCEPT !.n = n].id = f.id
                       /\ [f EXCEPT !.n = n].n = n
                       /\ [f EXCEPT !.n = n].exc <=> f.exc
  BY DEF Frame
<1>4. /\ r[Len(q)].kind = q[Len(q)].kind /\ r[Len(q)].id = q[Len(q)].id
      /\ r[Len(q)].n = n /\ (r[Len(q)].exc <=> q[Len(q)].exc)
  BY <1>1, <1>2, <1>3
<1>5. \A i \in 1..Len(q) : i \in 1..(Len(q) - 1) \/ i = Len(q)
  OBVIOUS
<1>6. \A i \in 1..Len(q) : r[i].kind = q[i].kind
  BY <1>4, <1>5 DEF Retopped
<1>7. QED
  BY <1>2, <1>4, <1>6

LEMMA CountsTop ==
    ASSUME NEW q \in Seq(Frame), NEW h, CountsOk(q, h), NEW r, NEW n \in Nat, Retopped(q, r, n),
           n = q[Len(q)].n \/ (h /\ q[Len(q)].kind = "user" /\ n <= MaxCalls)
    PROVE  CountsOk(r, h)
<1>1. /\ Len(r) = Len(q) /\ Len(q) \in 1..Len(q) /\ Len(q) \in Nat
      /\ \A i \in 1..(Len(q) - 1) : r[i] = q[i]
  BY DEF Retopped
<1>2. /\ r[Len(q)].kind = q[Len(q)].kind /\ r[Len(q)].id = q[Len(q)].id
      /\ r[Len(q)].n = n /\ \A i \in 1..Len(q) : r[i].kind = q[i].kind
  BY RetoppedFrame
<1>3. ASSUME NEW i \in 1..Len(q), i > 1, r[i].kind = "upcall", r[i - 1].kind = "user"
      PROVE  r[i - 1].n < MaxCalls
  <2>1. r[i - 1] = q[i - 1] /\ q[i].kind = "upcall"
    BY <1>1, <1>2, <1>3
  <2>2. QED
    BY <1>3, <2>1 DEF CountsOk
<1>4. ASSUME NEW i \in 1..Len(q)
      PROVE  /\ r[i].n <= MaxCalls
             /\ r[i].kind # "user" => r[i].n = 0 /\ r[i].id = 0
             /\ ~h => r[i].n = 0
  <2>1. CASE i = Len(q)
    BY <1>1, <1>2, <2>1 DEF CountsOk
  <2>2. CASE i \in 1..(Len(q) - 1)
    BY <1>1, <2>2 DEF CountsOk
  <2>3. QED
    BY <1>1, <2>1, <2>2
<1>5. QED
  BY <1>1, <1>3, <1>4 DEF CountsOk

LEMMA CountsFlags ==
    ASSUME NEW s \in Seq(Frame), NEW h, CountsOk(s, h)
    PROVE  CountsOk([i \in 1..Len(s) |-> [s[i] EXCEPT !.exc = TRUE]], h)
<1> DEFINE r == [i \in 1..Len(s) |-> [s[i] EXCEPT !.exc = TRUE]]
<1>1. Len(s) \in Nat /\ DOMAIN r = 1..Len(s)
  OBVIOUS
<1>2. Len(r) = Len(s)
  <2>1. r \in Seq(Frame)
    BY SameFlags
  <2>2. QED
    BY <1>1, <2>1
<1>3. \A f \in Frame : /\ [f EXCEPT !.exc = TRUE].kind = f.kind /\ [f EXCEPT !.exc = TRUE].id = f.id
                       /\ [f EXCEPT !.exc = TRUE].n = f.n
  BY DEF Frame
<1>4. \A i \in 1..Len(s) : r[i].kind = s[i].kind /\ r[i].id = s[i].id /\ r[i].n = s[i].n
  <2>1. \A i \in 1..Len(s) : s[i] \in Frame
    OBVIOUS
  <2>2. QED
    BY <1>3, <2>1
<1> HIDE DEF r
<1>5. ASSUME NEW i \in 1..Len(s), i > 1, r[i].kind = "upcall", r[i - 1].kind = "user"
      PROVE  r[i - 1].n < MaxCalls
  <2>1. i - 1 \in 1..Len(s)
    BY <1>1, <1>5
  <2>2. QED
    BY <1>4, <1>5, <2>1 DEF CountsOk
<1>6. CountsOk(r, h)
  BY <1>2, <1>4, <1>5 DEF CountsOk
<1>7. QED
  BY <1>6 DEF r

\* How a call leaves the stack: the top frame, or the one below the upcall.
LEMMA PlainTop ==
    ASSUME AgentInv, NEW t \in Thread, Plain(t), TopKind(t) = "user"
    PROVE  \E q \in Seq(Frame), n \in Nat :
               /\ q = stack[t] /\ q # <<>> /\ q[Len(q)].kind = "user"
               /\ n = q[Len(q)].n + 1 /\ n <= MaxCalls /\ Retopped(q, stack'[t], n)
               /\ lines' = lines \o Emitted(t, q[Len(q)].id, n)
<1> DEFINE q == stack[t]
           f == q[Len(q)]
           n == f.n + 1
           r == Append(SubSeq(q, 1, Len(q) - 1), [f EXCEPT !.n = n])
<1>1. q \in Seq(Frame) /\ q # <<>> /\ f = Top(t) /\ f.kind = "user"
  BY DEF AgentInv, Typed, TopKind, Top
<1>2. Len(q) \in 1..Len(q) /\ Len(q) \in Nat
  BY <1>1, AllButLast
<1>3. f \in Frame
  BY <1>1, <1>2
<1>4. f.n \in Nat /\ n \in Nat
  BY <1>3 DEF Frame
<1>5. /\ f.n < MaxCalls /\ stack' = [stack EXCEPT ![t] = r]
      /\ lines' = lines \o Emitted(t, f.id, n)
  BY <1>1 DEF Plain, WithTop, Below, Emit
<1>6. stack'[t] = r /\ n <= MaxCalls
  BY <1>4, <1>5, AgentAssumption DEF AgentInv, Typed
<1>7. Retopped(q, r, n)
  <2> DEFINE p == SubSeq(q, 1, Len(q) - 1)
             g == [f EXCEPT !.n = n]
  <2>1. p \in Seq(Frame) /\ Len(p) = Len(q) - 1 /\ \A i \in 1..(Len(q) - 1) : p[i] = q[i]
    BY <1>1, AllButLast
  <2>2. g \in Frame
    BY <1>3, <1>4, FrameTypes
  <2> HIDE DEF p, g
  <2>3. /\ Append(p, g) \in Seq(Frame) /\ Len(Append(p, g)) = Len(q)
        /\ Append(p, g)[Len(q)] = g /\ \A i \in 1..(Len(q) - 1) : Append(p, g)[i] = q[i]
    BY <1>2, <2>1, <2>2
  <2>4. QED
    BY <1>2, <2>3 DEF Retopped, p, g
<1> HIDE DEF n, r
<1>8. QED
  BY <1>1, <1>4, <1>5, <1>6, <1>7 DEF n

LEMMA ReturnTop ==
    ASSUME AgentInv, NEW t \in Thread, ReturnUp(t)
    PROVE  \E q \in Seq(Frame), n \in Nat :
               /\ stack[t] # <<>> /\ stack[t][Len(stack[t])].kind = "upcall"
               /\ q = SubSeq(stack[t], 1, Len(stack[t]) - 1) /\ Len(q) = Len(stack[t]) - 1
               /\ q # <<>> /\ \A i \in 1..Len(q) : q[i] = stack[t][i]
               /\ q[Len(q)].kind = "user" /\ t \in hooked => n = q[Len(q)].n + 1
               /\ ~(q[Len(q)].kind = "user" /\ t \in hooked) => n = q[Len(q)].n
               /\ Retopped(q, stack'[t], n)
               /\ t \in hooked => lines' = lines \o Emitted(t, q[Len(q)].id, n) /\ Charge(t)
               /\ t \notin hooked => UNCHANGED <<lines, count, truncated>>
<1> DEFINE s == stack[t]
           q == SubSeq(s, 1, Len(s) - 1)
           c == s[Len(s) - 1]
           n == IF c.kind = "user" /\ t \in hooked THEN c.n + 1 ELSE c.n
           p == SubSeq(s, 1, Len(s) - 2)
           g == [c EXCEPT !.n = n]
<1>1. s \in Seq(Frame) /\ Len(s) \in Nat /\ s # <<>> /\ s[Len(s)].kind = "upcall"
  BY DEF AgentInv, Typed, ReturnUp, TopKind, Top
<1>2. Len(s) > 1
  BY <1>1 DEF AgentInv, Sound
<1>3. c \in Frame
  BY <1>1, <1>2
<1>4. c.id \in Nat /\ n \in Nat
  BY <1>3 DEF Frame
<1>5. /\ stack' = [stack EXCEPT ![t] = Append(p, g)]
      /\ t \in hooked => lines' = lines \o Emitted(t, c.id, n) /\ Charge(t)
      /\ t \notin hooked => UNCHANGED <<lines, count, truncated>>
  BY DEF ReturnUp, Emit
<1>6. stack'[t] = Append(p, g)
  BY <1>5 DEF AgentInv, Typed
<1>7. q \in Seq(Frame) /\ Len(q) = Len(s) - 1 /\ \A i \in 1..(Len(s) - 1) : q[i] = s[i]
  BY <1>1, AllButLast
<1>8. Append(p, g) \in Seq(Frame)
  BY <1>1, <1>2, <1>4, SameUnder
<1>9. g \in Frame
  BY <1>3, <1>4, FrameTypes
<1>10. p \in Seq(Frame) /\ Len(p) = Len(s) - 2 /\ \A i \in 1..(Len(s) - 2) : p[i] = s[i]
  <2>3. 1 \in Int /\ Len(s) - 2 \in Int /\ \A i \in 1..(Len(s) - 2) : s[i] \in Frame
    BY <1>1, <1>2
  <2>4. /\ p \in Seq(Frame) /\ Len(p) = IF 1 <= Len(s) - 2 THEN (Len(s) - 2) - 1 + 1 ELSE 0
        /\ \A i \in 1..((Len(s) - 2) - 1 + 1) : p[i] = s[1 + i - 1]
    BY <2>3, SubSeqProperties
  <2> HIDE DEF p
  <2>5. \A k \in Nat : k > 1 => (IF 1 <= k - 2 THEN (k - 2) - 1 + 1 ELSE 0) = k - 2
    OBVIOUS
  <2>6. Len(p) = Len(s) - 2
    BY <1>1, <1>2, <2>4, <2>5, Zenon
  <2>7. QED
    BY <1>1, <1>2, <2>4, <2>6
<1> HIDE DEF q, n, p, g
<1>11. /\ Len(Append(p, g)) = Len(q) /\ Append(p, g)[Len(q)] = g
       /\ \A i \in 1..(Len(q) - 1) : Append(p, g)[i] = q[i]
  BY <1>1, <1>2, <1>7, <1>9, <1>10
<1>12. Len(q) \in 1..Len(q) /\ q[Len(q)] = c /\ q # <<>>
  BY <1>1, <1>2, <1>7
<1>13. Retopped(q, stack'[t], n)
  BY <1>6, <1>8, <1>11, <1>12 DEF Retopped, g
<1>14. /\ q[Len(q)].kind = "user" /\ t \in hooked => n = q[Len(q)].n + 1
       /\ ~(q[Len(q)].kind = "user" /\ t \in hooked) => n = q[Len(q)].n
  BY <1>12 DEF n
<1>15. t \in hooked => lines' = lines \o Emitted(t, q[Len(q)].id, n) /\ Charge(t)
  BY <1>5, <1>12
<1>16. \A i \in 1..Len(q) : q[i] = s[i]
  BY <1>7
<1>17. q = SubSeq(stack[t], 1, Len(stack[t]) - 1)
  BY DEF q
<1>18. QED
  BY <1>1, <1>4, <1>5, <1>7, <1>12, <1>13, <1>14, <1>15, <1>16, <1>17

Budgeted(t) == truncated[t] => MaxFrameEvents > 0 /\ count[t] >= MaxFrameEvents

CallsInv ==
    /\ made <= MaxFrames
    /\ \A t \in Thread : CountsOk(stack[t], t \in hooked) /\ Budgeted(t)

LEMMA CallsInit == Init => CallsInv
<1>1. SUFFICES ASSUME Init PROVE CallsInv
  OBVIOUS
<1>2. made <= MaxFrames /\ \A t \in Thread : Budgeted(t)
  BY <1>1, AgentAssumption DEF Init, Budgeted
<1>3. ASSUME NEW t \in Thread PROVE CountsOk(stack[t], t \in hooked)
  <2>1. stack[t] = <<>> \/ stack[t] = <<UserFrame(0, FALSE)>>
    BY <1>1 DEF Init
  <2>2. CASE stack[t] = <<>>
    <3>1. Len(<<>>) = 0
      OBVIOUS
    <3>2. QED
      BY <2>2, <3>1 DEF CountsOk
  <2>3. CASE stack[t] = <<UserFrame(0, FALSE)>>
    <3>1. Len(stack[t]) = 1 /\ stack[t][1].n = 0 /\ stack[t][1].kind = "user"
      BY <2>3 DEF UserFrame
    <3>2. QED
      BY <3>1, AgentAssumption DEF CountsOk
  <2>4. QED
    BY <2>1, <2>2, <2>3
<1>4. QED
  BY <1>2, <1>3 DEF CallsInv

LEMMA ChargeBudgets ==
    ASSUME BudgetInv, CallsInv, NEW t \in Thread, Charge(t)
    PROVE  /\ \A x \in Thread : Budgeted(x)'
           /\ \A x \in Thread \ {t} : truncated'[x] = truncated[x]
           /\ truncated'[t] <=> truncated[t] \/ (~Silent(t) /\ Full(t))
<1>1. count \in [Thread -> Nat] /\ truncated \in [Thread -> BOOLEAN]
  BY DEF BudgetInv, Recorded
<1>2. /\ count' = [count EXCEPT ![t] =
                     IF Silent(t) \/ Full(t) \/ depth[t] = 0 THEN @ ELSE @ + 1]
      /\ truncated' = [truncated EXCEPT ![t] = @ \/ (~Silent(t) /\ Full(t))]
  BY DEF Charge
<1>3. \A x \in Thread \ {t} : count'[x] = count[x] /\ truncated'[x] = truncated[x]
  BY <1>1, <1>2
<1>4. count'[t] = count[t] \/ count'[t] = count[t] + 1
  BY <1>1, <1>2
<1>5. truncated'[t] <=> truncated[t] \/ (~Silent(t) /\ Full(t))
  BY <1>1, <1>2
<1>6. Budgeted(t)'
  <2>1. truncated[t] \/ Full(t) => MaxFrameEvents > 0 /\ count[t] >= MaxFrameEvents
    BY DEF CallsInv, Budgeted, Full
  <2>2. count[t] \in Nat /\ MaxFrameEvents \in Nat
    BY <1>1, AgentAssumption
  <2>3. QED
    BY <1>4, <1>5, <2>1, <2>2 DEF Budgeted
<1>7. ASSUME NEW x \in Thread \ {t} PROVE Budgeted(x)'
  BY <1>3 DEF CallsInv, Budgeted
<1>8. QED
  BY <1>3, <1>5, <1>6, <1>7

\* A step of t keeps the counts, if it does so for t.
LEMMA CallsOfOne ==
    ASSUME AgentInv, CallsInv, NEW t \in Thread, hooked' = hooked, made' <= MaxFrames,
           NEW r, stack' = [stack EXCEPT ![t] = r], CountsOk(r, t \in hooked),
           \A x \in Thread : Budgeted(x)'
    PROVE  CallsInv'
<1>1. stack'[t] = r /\ \A x \in Thread \ {t} : stack'[x] = stack[x]
  BY DEF AgentInv, Typed
<1>2. CountsOk(stack[t], t \in hooked)'
  BY <1>1 DEF CountsOk
<1>3. ASSUME NEW x \in Thread \ {t} PROVE CountsOk(stack[x], x \in hooked)'
  <2>1. stack'[x] = stack[x]
    BY <1>1
  <2>2. CountsOk(stack[x], x \in hooked)
    BY DEF CallsInv
  <2>3. QED
    BY <2>1, <2>2 DEF CountsOk
<1>4. QED
  BY <1>2, <1>3 DEF CallsInv

LEMMA CallsStep == AgentInv /\ BudgetInv /\ CallsInv /\ [Next]_vars => CallsInv'
<1>1. SUFFICES ASSUME AgentInv, BudgetInv, CallsInv, [Next]_vars PROVE CallsInv'
  OBVIOUS
<1>2. /\ stack \in [Thread -> Seq(Frame)] /\ made <= MaxFrames
      /\ \A t \in Thread : CountsOk(stack[t], t \in hooked) /\ Budgeted(t)
      /\ \A t \in Thread : stack[t] \in Seq(Frame)
  BY <1>1 DEF AgentInv, Typed, CallsInv
<1>3. ASSUME UNCHANGED <<count, truncated>> PROVE \A x \in Thread : Budgeted(x)'
  BY <1>2, <1>3 DEF Budgeted
<1>4. ASSUME UNCHANGED <<stack, hooked, made>>, \A x \in Thread : Budgeted(x)'
      PROVE  CallsInv'
  BY <1>2, <1>4 DEF CallsInv, CountsOk
<1>5. CASE InitStep \/ UNCHANGED vars
  <2>1. UNCHANGED <<stack, hooked, made, count, truncated>>
    BY <1>5 DEF InitStep, vars, jvm, init, locals, bounds
  <2>2. QED
    BY <1>3, <1>4, <2>1
<1>6. ASSUME NEW t \in Thread, LookupOutside(t) \/ Reference(t) PROVE CallsInv'
  <2>1. UNCHANGED <<stack, hooked, made, count, truncated>>
    BY <1>6 DEF LookupOutside, Reference, jvm, init, locals
  <2>2. QED
    BY <1>3, <1>4, <2>1
<1>7. ASSUME NEW t \in Thread, EnterUser(t) PROVE CallsInv'
  <2>1. PICK f \in Frame : f = UserFrame(made + 1, Enabled("entry")) /\ f.n = 0 /\ f.kind = "user"
    <3> DEFINE f == UserFrame(made + 1, Enabled("entry"))
    <3>1. made + 1 \in Nat /\ Enabled("entry") \in BOOLEAN
      BY <1>1 DEF AgentInv, Typed, Enabled
    <3>2. f \in Frame
      BY <3>1, FrameTypes, Zenon
    <3>3. f.n = 0 /\ f.kind = "user"
      BY DEF UserFrame
    <3> HIDE DEF f
    <3>4. QED
      BY <3>2, <3>3 DEF f
  <2>2. stack' = [stack EXCEPT ![t] = Append(stack[t], f)] /\ hooked' = hooked /\ made' <= MaxFrames
    <3>1. made < MaxFrames /\ made' = made + 1 /\ hooked' = hooked
      BY <1>7 DEF EnterUser, init
    <3>2. made' <= MaxFrames
      BY <1>1, <3>1, AgentAssumption DEF AgentInv, Typed
    <3>3. stack' = [stack EXCEPT ![t] = Append(stack[t], f)]
      BY <1>7, <2>1 DEF EnterUser
    <3>4. QED
      BY <3>1, <3>2, <3>3
  <2>3. CountsOk(Append(stack[t], f), t \in hooked)
    BY <1>2, <2>1, CountsPush
  <2>4. \A x \in Thread : Budgeted(x)'
    <3>1. CASE Enabled("entry")
      <4>1. /\ count' = [count EXCEPT ![t] = IF depth[t] = 0 THEN 0 ELSE @]
            /\ truncated' = [truncated EXCEPT ![t] = depth[t] # 0 /\ truncated[t]]
        BY <1>7, <3>1 DEF EnterUser
      <4>2. \A x \in Thread : truncated'[x] => truncated[x] /\ count'[x] = count[x]
        BY <1>1, <4>1 DEF BudgetInv, Recorded
      <4>3. QED
        BY <1>2, <4>2 DEF Budgeted
    <3>2. CASE ~Enabled("entry")
      BY <1>3, <1>7, <3>2 DEF EnterUser
    <3>3. QED
      BY <3>1, <3>2
  <2>5. QED
    BY <1>1, <2>2, <2>3, <2>4, CallsOfOne
<1>8. ASSUME NEW t \in Thread, EnterJdk(t) PROVE CallsInv'
  <2>1. /\ Other("jdk") \in Frame /\ Other("jdk").n = 0 /\ Other("jdk").id = 0
        /\ Other("jdk").kind = "jdk"
    BY FrameTypes DEF Other
  <2>2. /\ stack' = [stack EXCEPT ![t] = Append(stack[t], Other("jdk"))]
        /\ UNCHANGED <<hooked, made, count, truncated>>
    BY <1>8 DEF EnterJdk, init, bounds
  <2>3. CountsOk(Append(stack[t], Other("jdk")), t \in hooked)
    BY <1>2, <2>1, CountsPush
  <2>4. QED
    BY <1>1, <1>2, <1>3, <2>2, <2>3, CallsOfOne
<1>9. ASSUME NEW t \in Thread, CallUp(t) PROVE CallsInv'
  <2>1. /\ Other("upcall") \in Frame /\ Other("upcall").n = 0 /\ Other("upcall").id = 0
        /\ Other("upcall").kind = "upcall"
    BY FrameTypes DEF Other
  <2>2. /\ stack' = [stack EXCEPT ![t] = Append(stack[t], Other("upcall"))]
        /\ UNCHANGED <<hooked, made, count, truncated>>
    BY <1>9 DEF CallUp, init, locals
  <2>3. stack[t][Len(stack[t])].kind = "user" => stack[t][Len(stack[t])].n < MaxCalls
    BY <1>9 DEF CallUp, Top
  <2>4. CountsOk(Append(stack[t], Other("upcall")), t \in hooked)
    BY <1>2, <2>1, <2>3, CountsPush
  <2>5. QED
    BY <1>1, <1>2, <1>3, <2>2, <2>4, CallsOfOne
<1>10. ASSUME NEW t \in Thread, ExitUser(t) \/ ExitJdk(t) PROVE CallsInv'
  <2>1. /\ stack' = [stack EXCEPT ![t] = SubSeq(stack[t], 1, Len(stack[t]) - 1)]
        /\ UNCHANGED <<hooked, made, count, truncated>>
    BY <1>10 DEF ExitUser, ExitJdk, Below, init, bounds
  <2>2. stack[t] # <<>>
    BY <1>10 DEF ExitUser, ExitJdk, TopKind
  <2>3. CountsOk(SubSeq(stack[t], 1, Len(stack[t]) - 1), t \in hooked)
    BY <1>2, <2>2, CountsPop
  <2>4. QED
    BY <1>1, <1>2, <1>3, <2>1, <2>3, CallsOfOne
<1>11. ASSUME NEW t \in Thread, Plain(t) PROVE CallsInv'
  <2>1. UNCHANGED <<hooked, made>> /\ t \in hooked /\ Charge(t)
    BY <1>11 DEF Plain, MayCall, init, Emit
  <2>2. \A x \in Thread : Budgeted(x)'
    BY <1>1, <2>1, ChargeBudgets
  <2>3. CASE TopKind(t) = "user"
    <3>1. PICK q \in Seq(Frame), n \in Nat :
             /\ q = stack[t] /\ q[Len(q)].kind = "user" /\ n <= MaxCalls
             /\ Retopped(q, stack'[t], n)
      BY <1>1, <1>11, <2>3, PlainTop
    <3>2. CountsOk(stack'[t], t \in hooked)
      BY <1>2, <2>1, <3>1, CountsTop
    <3>3. stack' = [stack EXCEPT ![t] = stack'[t]]
      BY <1>2, <1>11, <2>3 DEF Plain, WithTop
    <3>4. QED
      BY <1>1, <1>2, <2>1, <2>2, <3>2, <3>3, CallsOfOne
  <2>4. CASE TopKind(t) # "user"
    BY <1>4, <1>11, <2>1, <2>2, <2>4 DEF Plain
  <2>5. QED
    BY <2>3, <2>4
<1>12. ASSUME NEW t \in Thread, ReturnUp(t) PROVE CallsInv'
  <2>1. UNCHANGED <<hooked, made>>
    BY <1>12 DEF ReturnUp, bounds, init
  <2>2. PICK q \in Seq(Frame), n \in Nat :
               /\ stack[t] # <<>> /\ stack[t][Len(stack[t])].kind = "upcall"
               /\ q = SubSeq(stack[t], 1, Len(stack[t]) - 1) /\ Len(q) = Len(stack[t]) - 1
               /\ q # <<>> /\ \A i \in 1..Len(q) : q[i] = stack[t][i]
               /\ q[Len(q)].kind = "user" /\ t \in hooked => n = q[Len(q)].n + 1
               /\ ~(q[Len(q)].kind = "user" /\ t \in hooked) => n = q[Len(q)].n
               /\ Retopped(q, stack'[t], n)
               /\ t \in hooked => Charge(t)
               /\ t \notin hooked => UNCHANGED <<lines, count, truncated>>
    BY <1>1, <1>12, ReturnTop
  <2>3. \A x \in Thread : Budgeted(x)'
    BY <1>1, <1>3, <2>2, ChargeBudgets
  <2>4. CountsOk(q, t \in hooked)
    BY <1>2, <2>2, CountsPop
  <2>5. Len(q) \in 1..Len(q) /\ q[Len(q)] = stack[t][Len(stack[t]) - 1] /\ Len(stack[t]) \in Nat
        /\ Len(stack[t]) > 1 /\ Len(stack[t]) \in 1..Len(stack[t])
    <3>1. Len(q) \in 1..Len(q) /\ Len(stack[t]) \in Nat /\ Len(q) = Len(stack[t]) - 1
      BY <1>2, <2>2 DEF Retopped
    <3>2. QED
      BY <2>2, <3>1
  <2>6. q[Len(q)].kind = "user" => q[Len(q)].n < MaxCalls
    BY <1>2, <2>2, <2>5 DEF CountsOk
  <2>7. q[Len(q)].n \in Nat
    <3>1. q[Len(q)] \in Frame
      BY <2>5
    <3>2. QED
      BY <3>1 DEF Frame
  <2>8. n = q[Len(q)].n \/ (t \in hooked /\ q[Len(q)].kind = "user" /\ n <= MaxCalls)
    BY <2>2, <2>6, <2>7, AgentAssumption
  <2>9. CountsOk(stack'[t], t \in hooked)
    BY <2>2, <2>4, <2>8, CountsTop
  <2>10. stack' = [stack EXCEPT ![t] = stack'[t]]
    <3>1. PICK r : stack' = [stack EXCEPT ![t] = r]
      BY <1>12 DEF ReturnUp
    <3>2. QED
      BY <1>2, <3>1
  <2>11. QED
    BY <1>1, <1>2, <2>1, <2>3, <2>9, <2>10, CallsOfOne
<1>13. ASSUME NEW t \in Thread, Exception(t) PROVE CallsInv'
  <2>1. /\ UNCHANGED <<hooked, made>>
        /\ stack' = [stack EXCEPT ![t] =
                         [i \in 1..Len(stack[t]) |-> [stack[t][i] EXCEPT !.exc = TRUE]]]
        /\ t \in hooked => Charge(t)
        /\ t \notin hooked => UNCHANGED <<count, truncated>>
    BY <1>13 DEF Exception, init
  <2>2. \A x \in Thread : Budgeted(x)'
    BY <1>1, <1>3, <2>1, ChargeBudgets
  <2>3. CountsOk([i \in 1..Len(stack[t]) |-> [stack[t][i] EXCEPT !.exc = TRUE]], t \in hooked)
    BY <1>2, CountsFlags
  <2>4. QED
    BY <1>1, <1>2, <2>1, <2>2, <2>3, CallsOfOne
<1>14. ASSUME NEW t \in Thread, StartThread(t) \/ EndThread(t) PROVE CallsInv'
  <2>1. stack[t] = <<>> /\ UNCHANGED <<stack, made>>
    BY <1>1, <1>14 DEF StartThread, EndThread, AgentInv, Sound, bounds
  <2>2. \A x \in Thread \ {t} : x \in hooked' <=> x \in hooked
    BY <1>14 DEF StartThread, EndThread
  <2>3. \A x \in Thread : truncated'[x] => truncated[x] /\ count'[x] = count[x]
    BY <1>1, <1>14 DEF StartThread, EndThread, locals, BudgetInv, Recorded
  <2>4. \A x \in Thread : Budgeted(x)'
    BY <1>2, <2>3 DEF Budgeted
  <2>5. CountsOk(stack[t], t \in hooked)'
    <3>1. Len(<<>>) = 0
      OBVIOUS
    <3>2. QED
      BY <2>1, <3>1 DEF CountsOk
  <2>6. ASSUME NEW x \in Thread \ {t} PROVE CountsOk(stack[x], x \in hooked)'
    <3>1. CountsOk(stack[x], x \in hooked)
      BY <1>2
    <3>2. QED
      BY <2>1, <2>2, <3>1 DEF CountsOk
  <2>7. QED
    BY <1>2, <2>1, <2>4, <2>5, <2>6 DEF CallsInv
<1>15. QED
  BY <1>1, <1>5, <1>6, <1>7, <1>8, <1>9, <1>10, <1>11, <1>12, <1>13, <1>14 DEF Next

-----------------------------------------------------------------------------
(* Stack and groups stay paired as calls and exceptions are reported.       *)

\* The stack keeps its frames; a call without a number may be added.
LEMMA PairedNote ==
    ASSUME NEW s \in Seq(Frame), NEW s2 \in Seq(Frame), Len(s2) = Len(s),
           \A i \in 1..Len(s) : /\ s2[i].kind = s[i].kind /\ s2[i].id = s[i].id
                                /\ s2[i].n = s[i].n /\ (s2[i].exc <=> s[i].exc),
           NEW o \in Seq(GroupRec), NEW c \in CallRec, c.n = 0,
           NEW o2, o2 = o \/ o2 = Collected(o, c),
           NEW loose, NEW loose2, loose => loose2, Paired(s, o, loose)
    PROVE  Paired(s2, o2, loose2)
<1>1. /\ o2 \in Seq(GroupRec) /\ Len(o2) = Len(o) /\ Len(o) \in Nat
      /\ \A k \in 1..Len(o) : /\ o2[k].key = o[k].key /\ (o2[k].exc <=> o[k].exc)
                              /\ Numbered(o2[k]) = Numbered(o[k])
  <2>1. CASE o2 = o
    BY <2>1
  <2>2. CASE o2 = Collected(o, c)
    <3>1. /\ o2 \in Seq(GroupRec) /\ Len(o2) = Len(o)
          /\ \A k \in 1..(Len(o) - 1) : o2[k] = o[k]
          /\ o # <<>> => /\ Len(o) \in 1..Len(o) /\ o[Len(o)] \in GroupRec
                         /\ o2[Len(o)] = AddedTo(o[Len(o)], c)
      BY <2>2, CollectedTyped
    <3>2. ASSUME o # <<>>
          PROVE  /\ o2[Len(o)].key = o[Len(o)].key /\ (o2[Len(o)].exc <=> o[Len(o)].exc)
                 /\ Numbered(o2[Len(o)]) = Numbered(o[Len(o)])
      <4>1. PICK g \in GroupRec : g = o[Len(o)] /\ o2[Len(o)] = AddedTo(g, c)
        BY <3>1, <3>2
      <4>2. /\ AddedTo(g, c) \in GroupRec
            /\ AddedTo(g, c).key = g.key /\ AddedTo(g, c).exc = g.exc
            /\ AddedTo(g, c).calls = Append(g.calls, c)
        BY AddedTyped
      <4>3. PICK h \in GroupRec : h = AddedTo(g, c)
        BY <4>2
      <4>4. Numbered(h) = Numbered(g)
        BY <4>2, <4>3, NumberedAppend
      <4>5. h.key = g.key /\ (h.exc <=> g.exc)
        BY <4>2, <4>3, Zenon
      <4>6. QED
        BY <4>1, <4>3, <4>4, <4>5
    <3>3. Len(o) \in Nat /\ \A k \in 1..Len(o) : k \in 1..(Len(o) - 1) \/ (k = Len(o) /\ o # <<>>)
      OBVIOUS
    <3>4. ASSUME NEW k \in 1..Len(o)
          PROVE  /\ o2[k].key = o[k].key /\ (o2[k].exc <=> o[k].exc)
                 /\ Numbered(o2[k]) = Numbered(o[k])
      BY <3>1, <3>2, <3>3
    <3>5. QED
      BY <3>1, <3>3, <3>4
  <2>3. QED
    BY <2>1, <2>2
<1>2. ASSUME NEW i \in 1..Len(s), NEW k \in 1..Len(o),
             Match(o[k], s[i]), Exact(s, i, o[k], loose)
      PROVE  Match(o2[k], s2[i]) /\ (QuietAt(s, i) \/ Exact(s2, i, o2[k], loose2))
  BY <1>1, <1>2 DEF Match, Exact
<1>3. QED
  BY <1>1, <1>2, PairedAlike

\* The top invocation has made a call: it is added to its group, unless such
\* calls are left out there.
CallOf(q, r, n) ==
    q # <<>> /\ q[Len(q)].kind = "user" /\ n = q[Len(q)].n + 1 /\ Retopped(q, r, n)
Counted(q, o, o2, c, loose, loose2) ==
    /\ loose => loose2
    /\ \/ o2 = o /\ (loose2 \/ QuietAt(q, Len(q)))
       \/ o2 = Collected(o, c) /\ ~loose /\ ~QuietAt(q, Len(q))

LEMMA PairedCount ==
    ASSUME NEW q \in Seq(Frame), NEW n \in Nat, NEW r, CallOf(q, r, n),
           NEW o \in Seq(GroupRec), NEW c \in CallRec, c.n = n,
           NEW loose, NEW loose2, Paired(q, o, loose),
           NEW o2, Counted(q, o, o2, c, loose, loose2)
    PROVE  /\ Paired(r, o2, loose2)
           /\ o # <<>> /\ Len(o) \in 1..Len(o) /\ o[Len(o)].key = q[Len(q)].id
           /\ ~loose /\ ~QuietAt(q, Len(q)) => n = Numbered(o[Len(o)]) + 1
<1> USE DEF CallOf, Counted
<1>1. /\ o # <<>> /\ Len(o) \in 1..Len(o) /\ Len(o) \in Nat
      /\ Match(o[Len(o)], q[Len(q)]) /\ Exact(q, Len(q), o[Len(o)], loose)
  BY PairedPop
<1>2. o[Len(o)].key = q[Len(q)].id
  BY <1>1 DEF Match
<1>3. ~loose /\ ~QuietAt(q, Len(q)) => n = Numbered(o[Len(o)]) + 1
  BY <1>1 DEF Exact
<1>4. /\ q[Len(q)] \in Frame /\ Len(q) \in 1..Len(q) /\ Len(q) \in Nat
      /\ r[Len(q)].kind = q[Len(q)].kind /\ r[Len(q)].id = q[Len(q)].id
      /\ r[Len(q)].n = n /\ (r[Len(q)].exc <=> q[Len(q)].exc)
      /\ \A i \in 1..Len(q) : r[i].kind = q[i].kind
      /\ r \in Seq(Frame) /\ Len(r) = Len(q)
      /\ \A i \in 1..(Len(q) - 1) : r[i] = q[i]
  BY RetoppedFrame DEF Retopped
<1>5. /\ o2 \in Seq(GroupRec) /\ Len(o2) = Len(o)
      /\ \A k \in 1..(Len(o) - 1) : o2[k] = o[k]
      /\ o2[Len(o)].key = o[Len(o)].key /\ (o2[Len(o)].exc <=> o[Len(o)].exc)
      /\ loose2 \/ QuietAt(q, Len(q)) \/ Numbered(o2[Len(o)]) = n
  <2>1. CASE o2 = o /\ (loose2 \/ QuietAt(q, Len(q)))
    BY <2>1
  <2>2. CASE o2 = Collected(o, c) /\ ~loose /\ ~QuietAt(q, Len(q))
    <3>1. /\ o2 \in Seq(GroupRec) /\ Len(o2) = Len(o)
          /\ \A k \in 1..(Len(o) - 1) : o2[k] = o[k]
          /\ o[Len(o)] \in GroupRec /\ o2[Len(o)] = AddedTo(o[Len(o)], c)
      BY <1>1, <2>2, CollectedTyped
    <3>2. PICK g \in GroupRec : g = o[Len(o)] /\ o2[Len(o)] = AddedTo(g, c)
      BY <3>1
    <3>3. /\ AddedTo(g, c) \in GroupRec
          /\ AddedTo(g, c).key = g.key /\ AddedTo(g, c).exc = g.exc
          /\ AddedTo(g, c).calls = Append(g.calls, c)
      BY AddedTyped
    <3>4. PICK h \in GroupRec : h = AddedTo(g, c)
      BY <3>3
    <3>5. Numbered(h) = Numbered(g) + 1
      <4>1. c.n > 0
        <5>1. q[Len(q)].n \in Nat
          BY <1>4 DEF Frame
        <5>2. QED
          BY <5>1
      <4>2. QED
        BY <3>3, <3>4, <4>1, NumberedAppend
    <3>6. h.key = g.key /\ (h.exc <=> g.exc)
      BY <3>3, <3>4, Zenon
    <3>7. Numbered(h) = n
      BY <1>3, <2>2, <3>2, <3>5
    <3>8. QED
      BY <3>1, <3>2, <3>4, <3>6, <3>7
  <2>3. QED
    BY <2>1, <2>2
<1>6. ASSUME NEW i \in 1..Len(q), NEW k \in 1..Len(o), q[i].kind = "user",
             i = Len(q) => k = Len(o),
             i < Len(q) /\ q[Len(q)].kind = "user" => k < Len(o),
             Match(o[k], q[i]), Exact(q, i, o[k], loose)
      PROVE  Match(o2[k], r[i]) /\ (QuietAt(q, i) \/ Exact(r, i, o2[k], loose2))
  <2>1. CASE i = Len(q)
    BY <1>4, <1>5, <1>6, <2>1 DEF Match, Exact
  <2>2. CASE i # Len(q)
    <3>1. i \in 1..(Len(q) - 1) /\ k \in 1..(Len(o) - 1)
      BY <1>1, <1>4, <1>6, <2>2
    <3>2. r[i] = q[i] /\ o2[k] = o[k]
      BY <1>4, <1>5, <3>1
    <3>3. QED
      BY <1>6, <3>2 DEF Exact
  <2>3. QED
    BY <2>1, <2>2
<1>7. Paired(r, o2, loose2)
  BY <1>4, <1>5, <1>6, PairedAlike
<1>8. QED
  BY <1>1, <1>2, <1>3, <1>7

\* An exception is noted in the frames and in the groups.
LEMMA PairedRaise ==
    ASSUME NEW s \in Seq(Frame), NEW o \in Seq(GroupRec),
           NEW loose, NEW loose2, loose => loose2, Paired(s, o, loose)
    PROVE  Paired([i \in 1..Len(s) |-> [s[i] EXCEPT !.exc = TRUE]], Flagged(o), loose2)
<1> DEFINE r == [i \in 1..Len(s) |-> [s[i] EXCEPT !.exc = TRUE]]
<1>1. r \in Seq(Frame) /\ Len(r) = Len(s)
  <2>1. r \in Seq(Frame)
    BY SameFlags
  <2>2. DOMAIN r = 1..Len(s) /\ Len(s) \in Nat
    OBVIOUS
  <2>3. QED
    BY <2>1, <2>2
<1>2. \A f \in Frame : /\ [f EXCEPT !.exc = TRUE].kind = f.kind /\ [f EXCEPT !.exc = TRUE].id = f.id
                       /\ [f EXCEPT !.exc = TRUE].n = f.n
  BY DEF Frame
<1>3. \A f \in Frame : [f EXCEPT !.exc = TRUE].exc
  <2>1. \A f \in Frame : \A e : [f EXCEPT !.exc = e].exc = e
    BY DEF Frame
  <2>2. QED
    BY <2>1, Zenon
<1>4. \A i \in 1..Len(s) : s[i] \in Frame
  OBVIOUS
<1>5. \A i \in 1..Len(s) : r[i].kind = s[i].kind /\ r[i].id = s[i].id /\ r[i].n = s[i].n
  BY <1>2, <1>4
<1>6. \A i \in 1..Len(s) : r[i].exc
  <2>1. \A i \in 1..Len(s) : r[i] = [s[i] EXCEPT !.exc = TRUE]
    OBVIOUS
  <2>2. QED
    BY <1>3, <1>4, <2>1, Zenon
<1> HIDE DEF r
<1>7. /\ Flagged(o) \in Seq(GroupRec) /\ Len(Flagged(o)) = Len(o)
      /\ \A k \in 1..Len(o) : /\ Flagged(o)[k].key = o[k].key
                              /\ Flagged(o)[k].calls = o[k].calls
                              /\ Flagged(o)[k].exc
  BY FlaggedTyped
<1>8. ASSUME NEW i \in 1..Len(s), NEW k \in 1..Len(o),
             Match(o[k], s[i]), Exact(s, i, o[k], loose)
      PROVE  Match(Flagged(o)[k], r[i]) /\ (QuietAt(s, i) \/ Exact(r, i, Flagged(o)[k], loose2))
  <2>1. Numbered(Flagged(o)[k]) = Numbered(o[k])
    BY <1>7 DEF Numbered, NumberedAt
  <2>2. Match(Flagged(o)[k], r[i])
    <3>1. Flagged(o)[k].key = r[i].id
      BY <1>5, <1>7, <1>8 DEF Match
    <3>2. Flagged(o)[k].exc <=> r[i].exc
      BY <1>6, <1>7
    <3>3. QED
      BY <3>1, <3>2 DEF Match
  <2>3. QED
    BY <1>5, <1>8, <2>1, <2>2 DEF Exact
<1>9. Paired(r, Flagged(o), loose2)
  BY <1>1, <1>5, <1>7, <1>8, PairedAlike
<1>10. QED
  BY <1>9 DEF r

-----------------------------------------------------------------------------
(* The groups of all threads.                                              *)

\* The keys are those of invocations that began, and no two groups share one.
UpTo(q, m) == \A i \in 1..Len(q) : q[i].key <= m
Distinct(q) == \A i, j \in 1..Len(q) : q[i].key = q[j].key => i = j
Apart(q, r) == \A i \in 1..Len(q), j \in 1..Len(r) : q[i].key # r[j].key

KeysDiffer(open, done, m) ==
    /\ UpTo(done, m) /\ Distinct(done)
    /\ \A t \in Thread : UpTo(open[t], m) /\ Distinct(open[t]) /\ Apart(open[t], done)
    /\ \A t, u \in Thread : t # u => Apart(open[t], open[u])

OnceIn(q) == \A i \in 1..Len(q) : Once(q[i])
AllOnce(open, done) == OnceIn(done) /\ \A t \in Thread : OnceIn(open[t])

\* o2 are the groups o, with calls and exceptions noted in them.
Kept(o, o2) ==
    /\ o2 \in Seq(GroupRec) /\ Len(o2) = Len(o)
    /\ \A i \in 1..Len(o) : o2[i].key = o[i].key /\ (Once(o[i]) => Once(o2[i]))

LEMMA CollectedKept ==
    ASSUME NEW o \in Seq(GroupRec), NEW c \in CallRec,
           o # <<>> /\ c.n > 0 =>
               c.n = Numbered(o[Len(o)]) + 1 /\ c.by = o[Len(o)].key
    PROVE  Kept(o, Collected(o, c))
<1> DEFINE o2 == Collected(o, c)
<1>1. /\ o2 \in Seq(GroupRec) /\ Len(o2) = Len(o) /\ Len(o) \in Nat
      /\ \A k \in 1..(Len(o) - 1) : o2[k] = o[k]
      /\ o # <<>> => /\ Len(o) \in 1..Len(o) /\ o[Len(o)] \in GroupRec
                     /\ o2[Len(o)] = AddedTo(o[Len(o)], c)
  BY CollectedTyped
<1> HIDE DEF o2
<1>2. ASSUME o # <<>>
      PROVE  o2[Len(o)].key = o[Len(o)].key /\ (Once(o[Len(o)]) => Once(o2[Len(o)]))
  <2>1. PICK g \in GroupRec : g = o[Len(o)] /\ o2[Len(o)] = AddedTo(g, c)
    BY <1>1, <1>2
  <2>2. AddedTo(g, c) \in GroupRec /\ AddedTo(g, c).key = g.key
        /\ AddedTo(g, c).calls = Append(g.calls, c)
    BY AddedTyped
  <2>3. PICK h \in GroupRec : h = AddedTo(g, c)
    BY <2>2
  <2>4. (c.n > 0 => c.n = Numbered(g) + 1 /\ c.by = g.key) /\ h.key = g.key
    BY <1>2, <2>1, <2>2, <2>3
  <2>5. Once(g) => Once(h)
    BY <2>2, <2>3, <2>4, NumberedAppend
  <2>6. QED
    BY <2>1, <2>2, <2>3, <2>5
<1>3. \A k \in 1..Len(o) : k \in 1..(Len(o) - 1) \/ (k = Len(o) /\ o # <<>>)
  BY <1>1
<1>4. ASSUME NEW k \in 1..Len(o) PROVE o2[k].key = o[k].key /\ (Once(o[k]) => Once(o2[k]))
  BY <1>1, <1>2, <1>3
<1>5. QED
  BY <1>1, <1>4 DEF Kept, o2

LEMMA FlaggedKept ==
    ASSUME NEW o \in Seq(GroupRec)
    PROVE  Kept(o, Flagged(o))
<1>1. /\ Flagged(o) \in Seq(GroupRec) /\ Len(Flagged(o)) = Len(o)
      /\ \A i \in 1..Len(o) : Flagged(o)[i].key = o[i].key /\ Flagged(o)[i].calls = o[i].calls
  BY FlaggedTyped
<1>2. \A i \in 1..Len(o) : Once(o[i]) => Once(Flagged(o)[i])
  BY <1>1 DEF Once, Numbered, NumberedAt
<1>3. QED
  BY <1>1, <1>2 DEF Kept

\* The groups of one thread are replaced.
Replaced(p, t, o, d) == [open |-> [p.open EXCEPT ![t] = o], done |-> d]

LEMMA OpenReplaced ==
    ASSUME NEW p \in GroupState, NEW t \in Thread, NEW o \in Seq(GroupRec), NEW d \in Seq(GroupRec)
    PROVE  /\ Replaced(p, t, o, d) \in GroupState
           /\ Replaced(p, t, o, d).done = d /\ Replaced(p, t, o, d).open[t] = o
           /\ \A x \in Thread \ {t} : Replaced(p, t, o, d).open[x] = p.open[x]
<1>1. p.open \in [Thread -> Seq(GroupRec)]
  BY DEF GroupState
<1> DEFINE w == [p.open EXCEPT ![t] = o]
<1>2. w \in [Thread -> Seq(GroupRec)] /\ w[t] = o /\ \A x \in Thread \ {t} : w[x] = p.open[x]
  BY <1>1
<1>3. Replaced(p, t, o, d) = [open |-> w, done |-> d]
  BY DEF Replaced
<1> HIDE DEF w
<1>4. Replaced(p, t, o, d).open = w /\ Replaced(p, t, o, d).done = d
  BY <1>3
<1>5. Replaced(p, t, o, d) \in GroupState
  BY <1>2, <1>3 DEF GroupState
<1>6. QED
  BY <1>2, <1>4, <1>5

LEMMA KeptKeys ==
    ASSUME NEW q \in Seq(GroupRec), NEW q2, Kept(q, q2)
    PROVE  /\ \A m : UpTo(q, m) => UpTo(q2, m)
           /\ Distinct(q) => Distinct(q2)
           /\ OnceIn(q) => OnceIn(q2)
           /\ \A r : Apart(q, r) => Apart(q2, r)
           /\ \A r : Apart(r, q) => Apart(r, q2)
<1>1. Len(q2) = Len(q) /\ \A i \in 1..Len(q) : q2[i].key = q[i].key /\ (Once(q[i]) => Once(q2[i]))
  BY DEF Kept
<1>2. \A m : UpTo(q, m) => UpTo(q2, m)
  BY <1>1 DEF UpTo
<1>3. Distinct(q) => Distinct(q2)
  BY <1>1 DEF Distinct
<1>4. OnceIn(q) => OnceIn(q2)
  BY <1>1 DEF OnceIn
<1>5. \A r : Apart(q, r) => Apart(q2, r)
  BY <1>1 DEF Apart
<1>6. \A r : Apart(r, q) => Apart(r, q2)
  BY <1>1 DEF Apart
<1>7. QED
  BY <1>2, <1>3, <1>4, <1>5, <1>6

LEMMA KeptState ==
    ASSUME NEW open, NEW done, NEW m, KeysDiffer(open, done, m), AllOnce(open, done),
           NEW t \in Thread, open[t] \in Seq(GroupRec), NEW open2, Kept(open[t], open2[t]),
           \A x \in Thread \ {t} : open2[x] = open[x]
    PROVE  KeysDiffer(open2, done, m) /\ AllOnce(open2, done)
<1>1. /\ UpTo(open[t], m) => UpTo(open2[t], m)
      /\ Distinct(open[t]) => Distinct(open2[t])
      /\ OnceIn(open[t]) => OnceIn(open2[t])
      /\ \A r : Apart(open[t], r) => Apart(open2[t], r)
      /\ \A r : Apart(r, open[t]) => Apart(r, open2[t])
  BY KeptKeys
<1>2. \A x, u \in Thread : x # u => Apart(open2[x], open2[u])
  BY <1>1 DEF KeysDiffer
<1>3. \A x \in Thread : UpTo(open2[x], m) /\ Distinct(open2[x]) /\ Apart(open2[x], done)
  BY <1>1 DEF KeysDiffer
<1>4. \A x \in Thread : OnceIn(open2[x])
  BY <1>1 DEF AllOnce
<1>5. QED
  BY <1>2, <1>3, <1>4 DEF KeysDiffer, AllOnce

NewGroup(k) == [key |-> k, calls |-> <<>>, exc |-> FALSE, kept |-> {}]

LEMMA NewGroupTyped ==
    ASSUME NEW k \in Nat
    PROVE  \E g \in GroupRec : /\ g = NewGroup(k) /\ g.key = k /\ ~g.exc /\ g.calls = <<>>
                               /\ Numbered(g) = 0 /\ Once(g)
<1> DEFINE g == NewGroup(k)
<1>1. <<>> \in Seq(CallRec) /\ FALSE \in BOOLEAN /\ k \in Int
  OBVIOUS
<1>2. g \in GroupRec
  BY <1>1 DEF NewGroup, GroupRec
<1>3. g.key = k /\ g.calls = <<>>
  BY DEF NewGroup
<1>4. ~g.exc
  <2>1. \A e : [key |-> k, calls |-> <<>>, exc |-> e, kept |-> {}].exc = e
    OBVIOUS
  <2>2. g.exc = FALSE
    BY <2>1, Zenon DEF NewGroup
  <2>3. QED
    BY <2>2
<1>5. DOMAIN g.calls = {}
  BY <1>3
<1>6. NumberedAt(g) = {}
  BY <1>5 DEF NumberedAt
<1>7. Numbered(g) = 0
  BY <1>6, FS_EmptySet DEF Numbered
<1>8. Once(g)
  BY <1>5 DEF Once
<1> HIDE DEF g
<1>9. QED
  BY <1>2, <1>3, <1>4, <1>7, <1>8 DEF g

LEMMA NewKeys ==
    ASSUME NEW q \in Seq(GroupRec), NEW m \in Nat, UpTo(q, m),
           NEW g \in GroupRec, g.key = m + 1, Once(g)
    PROVE  /\ UpTo(Append(q, g), m + 1)
           /\ Distinct(q) => Distinct(Append(q, g))
           /\ OnceIn(q) => OnceIn(Append(q, g))
           /\ \A r \in Seq(GroupRec) : UpTo(r, m) =>
                /\ UpTo(r, m + 1)
                /\ Apart(q, r) => Apart(Append(q, g), r)
                /\ Apart(r, q) => Apart(r, Append(q, g))
<1> DEFINE p == Append(q, g)
<1>1. /\ Len(q) \in Nat /\ Len(p) = Len(q) + 1 /\ p[Len(q) + 1] = g
      /\ \A i \in 1..Len(q) : p[i] = q[i]
      /\ \A i \in 1..Len(p) : i \in 1..Len(q) \/ i = Len(q) + 1
  OBVIOUS
<1> HIDE DEF p
<1>2. \A r \in Seq(GroupRec) : UpTo(r, m) =>
          \A i \in 1..Len(r) : r[i].key <= m /\ r[i].key # m + 1 /\ r[i].key <= m + 1
  <2>1. SUFFICES ASSUME NEW r \in Seq(GroupRec), UpTo(r, m), NEW i \in 1..Len(r)
                 PROVE  r[i].key <= m /\ r[i].key # m + 1 /\ r[i].key <= m + 1
    OBVIOUS
  <2>2. r[i] \in GroupRec
    OBVIOUS
  <2>3. r[i].key \in Int
    BY <2>2 DEF GroupRec
  <2>4. r[i].key <= m
    BY <2>1 DEF UpTo
  <2>5. QED
    BY <2>3, <2>4
<1>3. \A i \in 1..Len(q) : q[i].key <= m /\ q[i].key # m + 1 /\ q[i].key <= m + 1
  BY <1>2
<1>4. UpTo(p, m + 1)
  BY <1>1, <1>3 DEF UpTo
<1>5. Distinct(q) => Distinct(p)
  BY <1>1, <1>3 DEF Distinct
<1>6. OnceIn(q) => OnceIn(p)
  BY <1>1 DEF OnceIn
<1>7. \A r \in Seq(GroupRec) : UpTo(r, m) => UpTo(r, m + 1)
  BY <1>2 DEF UpTo
<1>8. \A r \in Seq(GroupRec) : UpTo(r, m) /\ Apart(q, r) => Apart(p, r)
  BY <1>1, <1>2 DEF Apart
<1>9. \A r \in Seq(GroupRec) : UpTo(r, m) /\ Apart(r, q) => Apart(r, p)
  BY <1>1, <1>2 DEF Apart
<1>10. QED
  BY <1>4, <1>5, <1>6, <1>7, <1>8, <1>9 DEF p

LEMMA BeginState ==
    ASSUME NEW open, NEW done \in Seq(GroupRec), NEW m \in Nat,
           \A x \in Thread : open[x] \in Seq(GroupRec),
           KeysDiffer(open, done, m), AllOnce(open, done), NEW t \in Thread,
           NEW g \in GroupRec, g.key = m + 1, Once(g),
           NEW open2, open2[t] = Append(open[t], g),
           \A x \in Thread \ {t} : open2[x] = open[x]
    PROVE  KeysDiffer(open2, done, m + 1) /\ AllOnce(open2, done)
<1>1. UpTo(done, m) /\ \A x \in Thread : UpTo(open[x], m)
  BY DEF KeysDiffer
<1>2. /\ UpTo(open2[t], m + 1)
      /\ Distinct(open[t]) => Distinct(open2[t])
      /\ OnceIn(open[t]) => OnceIn(open2[t])
      /\ \A r \in Seq(GroupRec) : UpTo(r, m) =>
           /\ UpTo(r, m + 1)
           /\ Apart(open[t], r) => Apart(open2[t], r)
           /\ Apart(r, open[t]) => Apart(r, open2[t])
  BY <1>1, NewKeys
<1>3. \A x, u \in Thread : x # u => Apart(open2[x], open2[u])
  BY <1>1, <1>2 DEF KeysDiffer
<1>4. \A x \in Thread : UpTo(open2[x], m + 1) /\ Distinct(open2[x]) /\ Apart(open2[x], done)
  BY <1>1, <1>2 DEF KeysDiffer
<1>5. UpTo(done, m + 1)
  BY <1>1, <1>2
<1>6. \A x \in Thread : OnceIn(open2[x])
  BY <1>2 DEF AllOnce
<1>7. QED
  BY <1>3, <1>4, <1>5, <1>6 DEF KeysDiffer, AllOnce

\* The innermost group ends.
Outer(q) == SubSeq(q, 1, Len(q) - 1)
WithEnded(d, q) == Append(d, Collapsed(q[Len(q)]))

LEMMA LastKeys ==
    ASSUME NEW q \in Seq(GroupRec), q # <<>>, NEW d \in Seq(GroupRec), Distinct(q), Apart(q, d)
    PROVE  /\ Distinct(Outer(q)) /\ Apart(Outer(q), WithEnded(d, q))
           /\ Distinct(d) => Distinct(WithEnded(d, q))
           /\ \A m : UpTo(q, m) => UpTo(Outer(q), m)
           /\ \A m : UpTo(q, m) /\ UpTo(d, m) => UpTo(WithEnded(d, q), m)
           /\ OnceIn(q) /\ OnceIn(d) => OnceIn(Outer(q)) /\ OnceIn(WithEnded(d, q))
           /\ \A r : Apart(q, r) => Apart(Outer(q), r)
           /\ \A r : Apart(r, q) => Apart(r, Outer(q))
           /\ \A r : Apart(r, q) /\ Apart(r, d) => Apart(r, WithEnded(d, q))
<1> DEFINE f == Outer(q)
           e == WithEnded(d, q)
<1>1. /\ Len(f) = Len(q) - 1 /\ Len(q) \in 1..Len(q) /\ Len(q) \in Nat
      /\ \A i \in 1..(Len(q) - 1) : f[i] = q[i]
  BY AllButLast DEF Outer
<1>2. PICK g : g = Collapsed(q[Len(q)])
  OBVIOUS
<1>15. g \in GroupRec /\ g.key = q[Len(q)].key /\ (Once(q[Len(q)]) => Once(g))
  <2>1. q[Len(q)] \in GroupRec
    BY <1>1
  <2>2. QED
    BY <1>2, <2>1, CollapsedIs
<1>3. /\ Len(e) = Len(d) + 1 /\ e[Len(d) + 1] = g /\ Len(d) \in Nat
      /\ \A i \in 1..Len(d) : e[i] = d[i]
      /\ \A i \in 1..Len(e) : i \in 1..Len(d) \/ i = Len(d) + 1
  BY <1>2, <1>15 DEF WithEnded
<1> HIDE DEF f, e
<1>4. \A i \in 1..Len(f) : f[i] = q[i] /\ i \in 1..Len(q) /\ i # Len(q)
  BY <1>1
<1>5. \A i \in 1..Len(e) : (i \in 1..Len(d) /\ e[i] = d[i]) \/ (i = Len(d) + 1 /\ e[i] = g)
  BY <1>3
<1>6. Distinct(f) /\ Apart(f, e)
  <2>1. Distinct(f)
    BY <1>4 DEF Distinct
  <2>2. Apart(f, e)
    <3>1. ASSUME NEW i \in 1..Len(f), NEW j \in 1..Len(e) PROVE f[i].key # e[j].key
      <4>1. CASE j \in 1..Len(d) /\ e[j] = d[j]
        BY <1>4, <4>1 DEF Apart
      <4>2. CASE e[j] = g
        BY <1>1, <1>4, <1>15, <4>2 DEF Distinct
      <4>3. QED
        BY <1>5, <4>1, <4>2
    <3>2. QED
      BY <3>1 DEF Apart
  <2>3. QED
    BY <2>1, <2>2
<1>7. Distinct(d) => Distinct(e)
  BY <1>1, <1>5, <1>15 DEF Distinct, Apart
<1>8. \A m : UpTo(q, m) => UpTo(f, m)
  BY <1>4 DEF UpTo
<1>9. \A m : UpTo(q, m) /\ UpTo(d, m) => UpTo(e, m)
  BY <1>1, <1>5, <1>15 DEF UpTo
<1>10. OnceIn(q) /\ OnceIn(d) => OnceIn(f) /\ OnceIn(e)
  BY <1>1, <1>4, <1>5, <1>15 DEF OnceIn
<1>11. \A r : Apart(q, r) => Apart(f, r)
  BY <1>4 DEF Apart
<1>12. \A r : Apart(r, q) => Apart(r, f)
  BY <1>4 DEF Apart
<1>13. \A r : Apart(r, q) /\ Apart(r, d) => Apart(r, e)
  BY <1>1, <1>5, <1>15 DEF Apart
<1>14. QED
  BY <1>6, <1>7, <1>8, <1>9, <1>10, <1>11, <1>12, <1>13 DEF f, e

LEMMA EndState ==
    ASSUME NEW open, NEW done \in Seq(GroupRec), NEW m, NEW t \in Thread,
           open[t] \in Seq(GroupRec), open[t] # <<>>,
           KeysDiffer(open, done, m), AllOnce(open, done),
           NEW open2, open2[t] = Outer(open[t]),
           \A x \in Thread \ {t} : open2[x] = open[x],
           NEW done2, done2 = WithEnded(done, open[t])
    PROVE  KeysDiffer(open2, done2, m) /\ AllOnce(open2, done2)
<1>1. Distinct(open[t]) /\ Apart(open[t], done)
  BY DEF KeysDiffer
<1>2. /\ Distinct(open2[t]) /\ Apart(open2[t], done2) /\ (Distinct(done) => Distinct(done2))
      /\ UpTo(open[t], m) => UpTo(open2[t], m)
      /\ UpTo(open[t], m) /\ UpTo(done, m) => UpTo(done2, m)
      /\ OnceIn(open[t]) /\ OnceIn(done) => OnceIn(open2[t]) /\ OnceIn(done2)
      /\ \A r : Apart(open[t], r) => Apart(open2[t], r)
      /\ \A r : Apart(r, open[t]) => Apart(r, open2[t])
      /\ \A r : Apart(r, open[t]) /\ Apart(r, done) => Apart(r, done2)
  BY <1>1, LastKeys
<1>3. \A x, u \in Thread : x # u => Apart(open2[x], open2[u])
  BY <1>2 DEF KeysDiffer
<1>4. \A x \in Thread : UpTo(open2[x], m) /\ Distinct(open2[x]) /\ Apart(open2[x], done2)
  <2>1. UpTo(open2[t], m) /\ Distinct(open2[t]) /\ Apart(open2[t], done2)
    BY <1>2 DEF KeysDiffer
  <2>2. ASSUME NEW x \in Thread \ {t}
        PROVE  UpTo(open2[x], m) /\ Distinct(open2[x]) /\ Apart(open2[x], done2)
    BY <1>2 DEF KeysDiffer
  <2>3. QED
    BY <2>1, <2>2
<1>5. UpTo(done2, m) /\ Distinct(done2)
  BY <1>2 DEF KeysDiffer
<1>6. OnceIn(done2) /\ \A x \in Thread : OnceIn(open2[x])
  BY <1>2 DEF AllOnce
<1>7. QED
  BY <1>3, <1>4, <1>5, <1>6 DEF KeysDiffer, AllOnce

-----------------------------------------------------------------------------
(* What a step of the agent makes of the groups of one thread.             *)

Left == groups' = groups /\ made <= made'
Opened(t) ==
    /\ caps = Events /\ made' = made + 1 /\ made' <= MaxFrames
    /\ groups' = Replaced(groups, t, Append(groups.open[t], NewGroup(made + 1)), groups.done)
Closed(t) ==
    /\ made' = made /\ groups.open[t] # <<>>
    /\ groups' = Replaced(groups, t, Outer(groups.open[t]), WithEnded(groups.done, groups.open[t]))
\* A numbered call is the next one of the invocation that the group belongs to.
NextOf(c, o) ==
    o # <<>> /\ c.n > 0 => c.by = o[Len(o)].key /\ c.n = Numbered(o[Len(o)]) + 1
Added(t) ==
    /\ made' = made
    /\ \E c \in CallRec :
          /\ c.by \in ByAgent..MaxFrames /\ c.n \in 0..MaxCalls /\ NextOf(c, groups.open[t])
          /\ groups' = Replaced(groups, t, Collected(groups.open[t], c), groups.done)
Raised(t) ==
    /\ made' = made
    /\ \E c \in CallRec :
          /\ c.by = ByAgent /\ c.n = 0
          /\ \E o \in {groups.open[t], Collected(groups.open[t], c)} :
                groups' = Replaced(groups, t, Flagged(o), groups.done)
Effect(t) == Left \/ Opened(t) \/ Closed(t) \/ Added(t) \/ Raised(t)

GroupsOk ==
    /\ groups \in GroupState
    /\ KeysDiffer(groups.open, groups.done, made) /\ AllOnce(groups.open, groups.done)

LEMMA KeptTwice ==
    ASSUME NEW o, NEW o2, NEW o3, Kept(o, o2), Kept(o2, o3)
    PROVE  Kept(o, o3)
BY DEF Kept

LEMMA EffectKeeps ==
    ASSUME GroupsOk, made \in Nat, made' \in Nat, NEW t \in Thread, Effect(t)
    PROVE  /\ GroupsOk' /\ groups'.open[t] \in Seq(GroupRec)
           /\ \A x \in Thread \ {t} : groups'.open[x] = groups.open[x]
           /\ caps # Events /\ groups.open[t] = <<>> => groups'.open[t] = <<>>
           /\ \A i \in 1..Len(groups.done) :
                 i \in 1..Len(groups'.done) /\ groups'.done[i] = groups.done[i]
<1> DEFINE o == groups.open[t]
           Later == \A i \in 1..Len(groups.done) :
                       i \in 1..Len(groups'.done) /\ groups'.done[i] = groups.done[i]
<1>1. /\ o \in Seq(GroupRec) /\ groups.done \in Seq(GroupRec) /\ groups \in GroupState
      /\ \A x \in Thread : groups.open[x] \in Seq(GroupRec)
      /\ KeysDiffer(groups.open, groups.done, made) /\ AllOnce(groups.open, groups.done)
  BY DEF GroupsOk, GroupState
<1>2. ASSUME NEW q \in Seq(GroupRec), NEW d \in Seq(GroupRec), groups' = Replaced(groups, t, q, d)
      PROVE  /\ groups' \in GroupState /\ groups'.done = d /\ groups'.open[t] = q
             /\ \A x \in Thread \ {t} : groups'.open[x] = groups.open[x]
  <2>1. /\ Replaced(groups, t, q, d) \in GroupState
        /\ Replaced(groups, t, q, d).done = d /\ Replaced(groups, t, q, d).open[t] = q
        /\ \A x \in Thread \ {t} : Replaced(groups, t, q, d).open[x] = groups.open[x]
    BY <1>1, OpenReplaced
  <2>2. QED
    BY <1>2, <2>1, Zenon
<1>3. ASSUME NEW q, Kept(o, q), made' = made, groups' = Replaced(groups, t, q, groups.done)
      PROVE  /\ GroupsOk' /\ Later
             /\ groups'.open[t] = q /\ q \in Seq(GroupRec) /\ Len(q) = Len(o)
             /\ \A x \in Thread \ {t} : groups'.open[x] = groups.open[x]
  <2>1. q \in Seq(GroupRec) /\ Len(q) = Len(o)
    BY <1>3 DEF Kept
  <2>2. /\ groups' \in GroupState /\ groups'.done = groups.done /\ groups'.open[t] = q
        /\ \A x \in Thread \ {t} : groups'.open[x] = groups.open[x]
    BY <1>1, <1>2, <1>3, <2>1
  <2>3. PICK open2 : open2 = groups'.open
    OBVIOUS
  <2>4. Kept(groups.open[t], open2[t]) /\ \A x \in Thread \ {t} : open2[x] = groups.open[x]
    BY <1>3, <2>2, <2>3
  <2>5. KeysDiffer(open2, groups.done, made) /\ AllOnce(open2, groups.done)
    BY <1>1, <2>4, KeptState
  <2>6. GroupsOk'
    BY <1>3, <2>2, <2>3, <2>5 DEF GroupsOk
  <2>7. QED
    BY <2>1, <2>2, <2>6
<1>4. \A q \in Seq(GroupRec) : Len(q) = Len(o) /\ o = <<>> => q = <<>>
  OBVIOUS
<1>5. CASE Left
  <2>1. groups' = groups /\ made <= made'
    BY <1>5 DEF Left
  <2>2. KeysDiffer(groups.open, groups.done, made')
    <3>1. \A q \in Seq(GroupRec) : UpTo(q, made) => UpTo(q, made')
      <4>1. SUFFICES ASSUME NEW q \in Seq(GroupRec), UpTo(q, made), NEW i \in 1..Len(q)
                     PROVE  q[i].key <= made'
        BY DEF UpTo
      <4>2. q[i] \in GroupRec
        OBVIOUS
      <4>3. q[i].key \in Int /\ q[i].key <= made
        BY <4>1, <4>2 DEF GroupRec, UpTo
      <4>4. QED
        BY <2>1, <4>3
    <3>2. QED
      BY <1>1, <3>1 DEF KeysDiffer
  <2>3. GroupsOk'
    BY <1>1, <2>1, <2>2 DEF GroupsOk
  <2>4. QED
    BY <1>1, <2>1, <2>3
<1>6. CASE Opened(t)
  <2>1. PICK g \in GroupRec : g = NewGroup(made + 1) /\ g.key = made + 1 /\ Once(g)
    BY NewGroupTyped
  <2>2. /\ caps = Events /\ made' = made + 1
        /\ groups' = Replaced(groups, t, Append(o, g), groups.done)
    BY <1>6, <2>1 DEF Opened
  <2>3. Append(o, g) \in Seq(GroupRec)
    BY <1>1
  <2>4. /\ groups' \in GroupState /\ groups'.done = groups.done /\ groups'.open[t] = Append(o, g)
        /\ \A x \in Thread \ {t} : groups'.open[x] = groups.open[x]
    BY <1>1, <1>2, <2>2, <2>3
  <2>5. PICK open2 : open2 = groups'.open
    OBVIOUS
  <2>6. open2[t] = Append(groups.open[t], g) /\ \A x \in Thread \ {t} : open2[x] = groups.open[x]
    BY <2>4, <2>5
  <2>7. KeysDiffer(open2, groups.done, made + 1) /\ AllOnce(open2, groups.done)
    BY <1>1, <2>1, <2>6, BeginState
  <2>8. GroupsOk'
    BY <2>2, <2>4, <2>5, <2>7 DEF GroupsOk
  <2>9. QED
    BY <2>2, <2>3, <2>4, <2>8
<1>7. CASE Closed(t)
  <2> DEFINE q == Outer(o)
             d == WithEnded(groups.done, o)
  <2>1. made' = made /\ o # <<>> /\ groups' = Replaced(groups, t, q, d)
    BY <1>7 DEF Closed
  <2>2. q \in Seq(GroupRec) /\ Len(o) \in 1..Len(o)
    BY <1>1, <2>1, AllButLast DEF Outer
  <2>3. Collapsed(o[Len(o)]) \in GroupRec
    BY <1>1, <2>2, CollapsedIs
  <2>4. /\ d \in Seq(GroupRec)
        /\ \A i \in 1..Len(groups.done) : i \in 1..Len(d) /\ d[i] = groups.done[i]
    BY <1>1, <2>3 DEF WithEnded
  <2> HIDE DEF q, d
  <2>5. /\ groups' \in GroupState /\ groups'.done = d /\ groups'.open[t] = q
        /\ \A x \in Thread \ {t} : groups'.open[x] = groups.open[x]
    BY <1>1, <1>2, <2>1, <2>2, <2>4
  <2>6. PICK open2, done2 : open2 = groups'.open /\ done2 = groups'.done
    OBVIOUS
  <2>7. /\ open2[t] = Outer(groups.open[t]) /\ \A x \in Thread \ {t} : open2[x] = groups.open[x]
        /\ done2 = WithEnded(groups.done, groups.open[t])
    BY <2>5, <2>6 DEF q, d
  <2>8. KeysDiffer(open2, done2, made) /\ AllOnce(open2, done2)
    BY <1>1, <2>1, <2>7, EndState
  <2>9. GroupsOk'
    BY <2>1, <2>5, <2>6, <2>8 DEF GroupsOk
  <2>10. QED
    BY <2>1, <2>2, <2>4, <2>5, <2>9
<1>8. CASE Added(t)
  <2>1. PICK c \in CallRec : /\ NextOf(c, o)
                             /\ groups' = Replaced(groups, t, Collected(o, c), groups.done)
    BY <1>8 DEF Added
  <2>2. Kept(o, Collected(o, c)) /\ made' = made
    BY <1>1, <1>8, <2>1, CollectedKept DEF NextOf, Added
  <2>3. QED
    BY <1>3, <1>4, <2>1, <2>2
<1>9. CASE Raised(t)
  <2>1. PICK c \in CallRec : c.n = 0 /\ \E q \in {o, Collected(o, c)} :
              groups' = Replaced(groups, t, Flagged(q), groups.done)
    BY <1>9 DEF Raised
  <2>2. PICK q \in {o, Collected(o, c)} : groups' = Replaced(groups, t, Flagged(q), groups.done)
    BY <2>1
  <2>3. Kept(o, q) /\ q \in Seq(GroupRec)
    <3>1. Kept(o, Collected(o, c)) /\ Collected(o, c) \in Seq(GroupRec)
      BY <1>1, <2>1, CollectedKept, CollectedTyped
    <3>2. Kept(o, o)
      BY <1>1 DEF Kept
    <3>3. QED
      BY <1>1, <3>1, <3>2
  <2>4. Kept(o, Flagged(q)) /\ made' = made
    BY <1>9, <2>3, FlaggedKept, KeptTwice DEF Raised
  <2>5. QED
    BY <1>3, <1>4, <2>2, <2>4
<1>10. QED
  BY <1>5, <1>6, <1>7, <1>8, <1>9 DEF Effect

\* So it is a step of the promise.
LEMMA EffectPromise ==
    ASSUME groups \in GroupState, made \in Nat, NEW t \in Thread, Effect(t)
    PROVE  [Promise!Next]_(Promise!vars)
<1> DEFINE o == groups.open[t]
<1>1. /\ o \in Seq(GroupRec) /\ Len(o) \in Nat /\ groups.done \in Seq(GroupRec)
      /\ groups.open \in [Thread -> Seq(GroupRec)]
  BY DEF GroupState
<1>2. ASSUME NEW q, NEW d, groups' = Replaced(groups, t, q, d)
      PROVE  groups'.open = [groups.open EXCEPT ![t] = q] /\ groups'.done = d
  <2> DEFINE w == [groups.open EXCEPT ![t] = q]
  <2>1. groups' = [open |-> w, done |-> d]
    BY <1>2 DEF Replaced
  <2> HIDE DEF w
  <2>2. groups'.open = w /\ groups'.done = d
    BY <2>1
  <2>3. QED
    BY <2>2 DEF w
<1>3. CASE Left
  BY <1>3 DEF Left, Promise!vars
<1>4. CASE Opened(t)
  <2>1. /\ made + 1 \in 0..MaxFrames
        /\ groups'.open = [groups.open EXCEPT ![t] = Append(o, NewGroup(made + 1))]
        /\ groups'.done = groups.done
    <3>1. made' = made + 1 /\ made' <= MaxFrames
      BY <1>4 DEF Opened
    <3>2. made + 1 \in 0..MaxFrames
      BY <3>1, AgentAssumption
    <3>3. groups' = Replaced(groups, t, Append(o, NewGroup(made + 1)), groups.done)
      BY <1>4 DEF Opened
    <3>4. QED
      BY <1>2, <3>2, <3>3, Zenon
  <2>2. Promise!Begin(t)
    BY <2>1 DEF Promise!Begin, NewGroup
  <2>3. QED
    BY <2>2 DEF Promise!Next
<1>5. CASE Closed(t)
  <2>1. /\ o # <<>>
        /\ groups'.open = [groups.open EXCEPT ![t] = Outer(o)]
        /\ groups'.done = WithEnded(groups.done, o)
    BY <1>2, <1>5 DEF Closed
  <2>2. PICK g \in GroupRec : g = o[Len(o)]
    <3>1. Len(o) \in 1..Len(o)
      BY <1>1, <2>1, AllButLast
    <3>2. QED
      BY <1>1, <3>1
  <2>3. PICK kept : kept = CollapseRepeats(g.calls)
    OBVIOUS
  <2>4. kept \in SUBSET DOMAIN g.calls /\ Promise!OnlyRepeatsGo(g.calls, kept)
    <3>1. DOMAIN g.calls = 1..Len(g.calls) /\ Len(g.calls) \in Nat
      BY DEF GroupRec
    <3>2. \A m \in DOMAIN g.calls \ kept : \E len \in 1..m, b \in 1..m :
              /\ len < b /\ m < b + len /\ b + len <= Len(g.calls) + 1
              /\ Repeats(g.calls, kept, b, len)
      BY <2>3, <3>1, RepeatsGo
    <3>3. QED
      BY <2>3, <3>1, <3>2, KeptTyped DEF Promise!OnlyRepeatsGo, Repeats
  <2>5. groups'.done = Append(groups.done, [g EXCEPT !.kept = kept])
    BY <2>1, <2>2, <2>3 DEF WithEnded, Collapsed
  <2>6. Promise!End(t)
    BY <2>1, <2>2, <2>4, <2>5 DEF Promise!End, Promise!Outer, Promise!Innermost, Outer
  <2>7. QED
    BY <2>6 DEF Promise!Next
<1>6. CASE Added(t)
  <2>1. PICK c \in CallRec :
          /\ c.by \in ByAgent..MaxFrames /\ c.n \in 0..MaxCalls /\ NextOf(c, o)
          /\ groups' = Replaced(groups, t, Collected(o, c), groups.done)
    BY <1>6 DEF Added
  <2>2. groups'.open = [groups.open EXCEPT ![t] = Collected(o, c)] /\ groups'.done = groups.done
    BY <1>2, <2>1
  <2>3. CASE o = <<>>
    <3>1. Collected(o, c) = o
      BY <2>3 DEF Collected
    <3>2. groups'.open = groups.open
      BY <1>1, <2>2, <3>1
    <3>3. QED
      BY <2>2, <3>2 DEF Promise!vars
  <2>4. CASE o # <<>>
    <3>1. c \in [by : ByAgent..MaxFrames, n : 0..MaxCalls]
      BY <2>1 DEF CallRec
    <3>2. Collected(o, c) = Append(SubSeq(o, 1, Len(o) - 1),
              [key |-> o[Len(o)].key, calls |-> Append(o[Len(o)].calls, c),
               exc |-> o[Len(o)].exc, kept |-> o[Len(o)].kept])
      BY <2>4 DEF Collected, WithLast, AddedTo
    <3>3. c.n > 0 => c.by = o[Len(o)].key /\ Promise!IsNext(c, o[Len(o)])
      <4>1. ASSUME c.n > 0 PROVE c.by = o[Len(o)].key /\ c.n = Numbered(o[Len(o)]) + 1
        BY <2>1, <2>4, <4>1 DEF NextOf
      <4>2. Len(o) \in 1..Len(o)
        BY <1>1, <2>4, AllButLast
      <4>3. o[Len(o)] \in GroupRec
        BY <1>1, <4>2
      <4>4. Numbered(o[Len(o)]) \in Nat
        BY <4>3, NumberedIsNat
      <4>5. ASSUME c.n > 0 PROVE c.n = 1 + Numbered(o[Len(o)])
        BY <4>1, <4>4, <4>5
      <4>6. QED
        <5>1. PICK g \in GroupRec : g = o[Len(o)]
          BY <4>3
        <5>2. c.n > 0 => c.n = 1 + Cardinality(NumberedAt(g))
          BY <4>5, <5>1 DEF Numbered
        <5>3. NumberedAt(g) = {i \in DOMAIN g.calls : g.calls[i].n > 0}
          BY DEF NumberedAt
        <5>4. Promise!IsNext(c, g) <=> c.n = 1 + Cardinality(NumberedAt(g))
          <6>1. Promise!Cardinality(NumberedAt(g)) = Cardinality(NumberedAt(g))
            BY DEF Promise!Cardinality, Cardinality
          <6>2. QED
            BY <5>3, <6>1, Zenon DEF Promise!IsNext
        <5>5. QED
          BY <4>1, <5>1, <5>2, <5>4
    <3>4. Promise!Collect(t)
      BY <2>2, <2>4, <3>1, <3>2, <3>3 DEF Promise!Collect, Promise!Innermost, Promise!Outer
    <3>5. QED
      BY <3>4 DEF Promise!Next
  <2>5. QED
    BY <2>3, <2>4
<1>7. CASE Raised(t)
  <2>1. PICK c \in CallRec : c.by = ByAgent /\ c.n = 0 /\ \E q \in {o, Collected(o, c)} :
              groups' = Replaced(groups, t, Flagged(q), groups.done)
    BY <1>7 DEF Raised
  <2>2. PICK q \in {o, Collected(o, c)} : groups' = Replaced(groups, t, Flagged(q), groups.done)
    BY <2>1
  <2>3. groups'.open = [groups.open EXCEPT ![t] = Flagged(q)] /\ groups'.done = groups.done
    BY <1>2, <2>2
  <2>4. c \in {d \in [by : ByAgent..MaxFrames, n : 0..MaxCalls] : d.n = 0}
    <3>1. c = [by |-> c.by, n |-> c.n]
      BY DEF CallRec
    <3>2. c.by \in ByAgent..MaxFrames /\ c.n \in 0..MaxCalls
      BY <2>1, AgentAssumption DEF ByAgent
    <3>3. c \in [by : ByAgent..MaxFrames, n : 0..MaxCalls]
      BY <3>1, <3>2
    <3>4. QED
      BY <2>1, <3>3
  <2>5. \E own \in {<<>>} \cup {<<d>> : d \in {d \in [by : ByAgent..MaxFrames, n : 0..MaxCalls] : d.n = 0}} :
           Flagged(q) = [i \in DOMAIN o |->
                    [key |-> o[i].key,
                     calls |-> IF i = Len(o) THEN o[i].calls \o own ELSE o[i].calls,
                     exc |-> TRUE, kept |-> o[i].kept]]
    <3>1. \A i \in 1..Len(o) : o[i].calls \in Seq(CallRec)
      <4>1. \A i \in 1..Len(o) : o[i] \in GroupRec
        BY <1>1
      <4>2. \A g \in GroupRec : g.calls \in Seq(CallRec)
        BY DEF GroupRec
      <4>3. QED
        BY <4>1, <4>2
    <3>2. q \in Seq(GroupRec) /\ Len(q) = Len(o) /\ DOMAIN o = 1..Len(o)
      BY <1>1, CollectedTyped
    <3>3. Flagged(q) \in Seq(GroupRec) /\ Len(Flagged(q)) = Len(q)
          /\ \A i \in 1..Len(q) : Flagged(q)[i] = [key |-> q[i].key, calls |-> q[i].calls, exc |-> TRUE, kept |-> q[i].kept]
      BY <3>2, FlaggedTyped
    <3>4. Flagged(q) = [i \in 1..Len(o) |-> [key |-> q[i].key, calls |-> q[i].calls, exc |-> TRUE, kept |-> q[i].kept]]
      <4> DEFINE w == Flagged(q)
      <4>1. w \in Seq(GroupRec) /\ DOMAIN w = 1..Len(o)
        BY <3>2, <3>3 DEF Flagged
      <4>2. w = [i \in 1..Len(o) |-> w[i]]
        BY <4>1 DEF Flagged
      <4>3. \A i \in 1..Len(o) : w[i] = [key |-> q[i].key, calls |-> q[i].calls, exc |-> TRUE, kept |-> q[i].kept]
        BY <3>2, <3>3
      <4> HIDE DEF w
      <4>4. QED
        BY <4>2, <4>3 DEF w
    <3>5. CASE q = o
      <4>1. \A i \in 1..Len(o) : o[i].calls \o <<>> = o[i].calls
        BY <3>1
      <4>2. Flagged(q) = [i \in DOMAIN o |->
                    [key |-> o[i].key,
                     calls |-> IF i = Len(o) THEN o[i].calls \o <<>> ELSE o[i].calls,
                     exc |-> TRUE, kept |-> o[i].kept]]
        BY <3>2, <3>4, <3>5, <4>1
      <4>3. QED
        BY <4>2
    <3>6. CASE q = Collected(o, c)
      <4>1. /\ \A i \in 1..(Len(o) - 1) : q[i] = o[i]
            /\ o # <<>> => /\ Len(o) \in 1..Len(o) /\ o[Len(o)] \in GroupRec
                           /\ q[Len(o)] = AddedTo(o[Len(o)], c)
        BY <1>1, <3>6, CollectedTyped
      <4>2. ASSUME NEW i \in 1..Len(o)
            PROVE  /\ q[i].key = o[i].key
                   /\ q[i].kept = o[i].kept
                   /\ q[i].calls = IF i = Len(o) THEN o[i].calls \o <<c>> ELSE o[i].calls
        <5>1. CASE i # Len(o)
          BY <1>1, <4>1, <5>1
        <5>2. CASE i = Len(o)
          <6>1. o # <<>>
            BY <1>1, <4>2
          <6>2. q[i] = AddedTo(o[i], c) /\ o[i] \in GroupRec
            BY <4>1, <5>2, <6>1
          <6>3. q[i].key = o[i].key /\ q[i].calls = Append(o[i].calls, c) /\ q[i].kept = o[i].kept
            BY <6>2, AddedTyped
          <6>4. Append(o[i].calls, c) = o[i].calls \o <<c>>
            <7>1. PICK cs \in Seq(CallRec) : cs = o[i].calls
              BY <3>1
            <7>2. Append(cs, c) = cs \o <<c>>
              OBVIOUS
            <7>3. QED
              BY <7>1, <7>2
          <6>5. QED
            BY <5>2, <6>3, <6>4
        <5>3. QED
          BY <5>1, <5>2
      <4>3. Flagged(q) = [i \in DOMAIN o |->
                    [key |-> o[i].key,
                     calls |-> IF i = Len(o) THEN o[i].calls \o <<c>> ELSE o[i].calls,
                     exc |-> TRUE, kept |-> o[i].kept]]
        BY <3>2, <3>4, <4>2
      <4>4. QED
        BY <2>4, <4>3
    <3>7. QED
      BY <3>5, <3>6
  <2>6. Promise!Raise(t)
    BY <2>3, <2>5 DEF Promise!Raise
  <2>7. QED
    BY <2>6 DEF Promise!Next
<1>8. QED
  BY <1>3, <1>4, <1>5, <1>6, <1>7 DEF Effect

-----------------------------------------------------------------------------
(* Where every invocation is seen, stack and groups stay paired.            *)

Tracked(t) ==
    caps = Events /\ InScope(t) => Paired(stack[t], groups.open[t], truncated[t])

GroupsInv ==
    /\ GroupsOk
    /\ caps # Events => \A t \in Thread : groups.open[t] = <<>>
    /\ \A t \in Thread : Tracked(t)

AllInv == AgentInv /\ BudgetInv /\ CallsInv /\ GroupsInv

LEMMA AllTyped ==
    ASSUME AllInv, NEW t \in Thread
    PROVE  /\ stack \in [Thread -> Seq(Frame)] /\ stack[t] \in Seq(Frame)
           /\ lines \in Seq(Line) /\ groups \in GroupState
           /\ groups.open[t] \in Seq(GroupRec) /\ groups.done \in Seq(GroupRec)
           /\ truncated \in [Thread -> BOOLEAN] /\ made \in Nat /\ made <= MaxFrames
BY DEF AllInv, AgentInv, Typed, BudgetInv, Recorded, CallsInv, GroupsInv, GroupsOk, GroupState

LEMMA ScopeEnabled ==
    ASSUME AgentInv, BudgetInv, NEW t \in Thread
    PROVE  /\ caps = Events /\ InScope(t) => Enabled("entry") /\ Enabled("exit")
           /\ \A e : Enabled(e) => caps = Events
           /\ t \in hooked => InScope(t)
<1>1. caps = Events /\ InScope(t) => pc = "done"
  BY DEF InScope, AgentInv, Started
<1>2. \A e : Enabled(e) => caps = Events
  BY DEF Enabled, BudgetInv, Granted
<1>3. t \in hooked => InScope(t)
  BY DEF InScope, AgentInv, Typed
<1>4. QED
  BY <1>1, <1>2, <1>3, AllEnabled

LEMMA IdBound ==
    ASSUME AllInv, NEW t \in Thread, NEW i \in 1..Len(stack[t])
    PROVE  /\ stack[t][i].id \in 0..MaxFrames /\ stack[t][i] \in Frame
           /\ stack[t][i].kind # "user" => stack[t][i].n = 0 /\ stack[t][i].id = 0
<1>1. /\ stack[t] \in Seq(Frame) /\ made \in Nat /\ made <= MaxFrames
  BY AllTyped
<1>2. stack[t][i] \in Frame
  BY <1>1
<1>3. stack[t][i].id \in Nat
  BY <1>2 DEF Frame
<1>4. stack[t][i].kind # "user" => stack[t][i].n = 0 /\ stack[t][i].id = 0
  BY DEF AllInv, CallsInv, CountsOk
<1>5. stack[t][i].kind = "user" => stack[t][i].id <= made
  BY DEF AllInv, BudgetInv, FramesKnown, Known
<1>6. stack[t][i].id \in 0..MaxFrames
  BY <1>1, <1>3, <1>4, <1>5, AgentAssumption
<1>7. QED
  BY <1>2, <1>4, <1>6

LEMMA BecomeSame ==
    ASSUME groups \in GroupState, NEW t \in Thread, Become(t, groups.open[t])
    PROVE  groups' = groups
BY DEF GroupState, Become

LEMMA NothingWritten ==
    ASSUME AllInv, Reading, lines' = lines, made <= made'
    PROVE  Left
<1>1. groups \in GroupState /\ lines \in Seq(Line)
  BY DEF AllInv, GroupsInv, GroupsOk, BudgetInv, Recorded
<1>2. QED
  BY <1>1, ReadSame DEF Left

LEMMA LibraryTracks ==
    ASSUME AllInv, Reading, NEW t \in Thread, EnterJdk(t) \/ ExitJdk(t) \/ CallUp(t)
    PROVE  Effect(t) /\ Tracked(t)'
<1>1. UNCHANGED <<running, attached, hooked, caps, truncated, lines, made>>
  BY DEF EnterJdk, ExitJdk, CallUp, init, opts, bounds, locals
<1>2. /\ stack \in [Thread -> Seq(Frame)] /\ stack[t] \in Seq(Frame)
      /\ groups.open[t] \in Seq(GroupRec) /\ made \in Nat
  BY AllTyped
<1>3. Left
  BY <1>1, <1>2, NothingWritten
<1>4. Tracked(t)
  BY DEF AllInv, GroupsInv
<1>5. Paired(stack[t], groups.open[t], truncated[t]) =>
          Paired(stack'[t], groups.open[t], truncated[t])
  <2>1. CASE EnterJdk(t) \/ CallUp(t)
    <3>1. PICK f \in Frame : f.kind # "user" /\ stack' = [stack EXCEPT ![t] = Append(@, f)]
      <4>1. /\ Other("jdk") \in Frame /\ Other("upcall") \in Frame
            /\ Other("jdk").kind # "user" /\ Other("upcall").kind # "user"
        BY FrameTypes DEF Other
      <4>2. QED
        BY <2>1, <4>1 DEF EnterJdk, CallUp
    <3>2. stack'[t] = Append(stack[t], f)
      BY <1>2, <3>1
    <3>3. QED
      BY <1>2, <3>1, <3>2, PairedPush
  <2>2. CASE ExitJdk(t)
    <3>1. /\ stack' = [stack EXCEPT ![t] = SubSeq(stack[t], 1, Len(stack[t]) - 1)]
          /\ stack[t] # <<>> /\ stack[t][Len(stack[t])].kind = "jdk"
      BY <2>2 DEF ExitJdk, Below, TopKind, Top
    <3>2. stack'[t] = SubSeq(stack[t], 1, Len(stack[t]) - 1)
      BY <1>2, <3>1
    <3>3. QED
      BY <1>2, <3>1, <3>2, PairedPop
  <2>3. QED
    BY <2>1, <2>2
<1>6. Tracked(t)'
  BY <1>1, <1>3, <1>4, <1>5 DEF Tracked, InScope, Left
<1>7. QED
  BY <1>3, <1>6 DEF Effect

LEMMA ThreadsTrack ==
    ASSUME AllInv, Reading, NEW t \in Thread, StartThread(t) \/ EndThread(t)
    PROVE  Effect(t) /\ Tracked(t)'
<1>1. stack'[t] = <<>> /\ UNCHANGED <<lines, made>>
  BY DEF StartThread, EndThread, AllInv, AgentInv, Sound, bounds
<1>2. made \in Nat /\ groups.open[t] \in Seq(GroupRec)
  BY AllTyped
<1>3. Left
  BY <1>1, <1>2, NothingWritten
<1>4. Tracked(t)'
  <2>1. groups'.open[t] \in Seq(GroupRec)
    BY <1>2, <1>3 DEF Left
  <2>2. Paired(<<>>, groups'.open[t], truncated'[t])
    BY <2>1, PairedEmpty
  <2>3. QED
    BY <1>1, <2>2 DEF Tracked
<1>5. QED
  BY <1>3, <1>4 DEF Effect

\* A call without a number, or none, is added: the invocations are as they were.
LEMMA NoteTracks ==
    ASSUME AllInv, NEW t \in Thread, made' = made, UNCHANGED <<running, attached, hooked, caps>>,
           NEW c \in CallRec, c.by \in 0..MaxFrames, c.n = 0,
           Become(t, groups.open[t]) \/ Become(t, Collected(groups.open[t], c)),
           NEW q \in Seq(Frame), stack'[t] \in Seq(Frame), Len(stack'[t]) = Len(q),
           \A i \in 1..Len(q) : /\ stack'[t][i].kind = q[i].kind /\ stack'[t][i].id = q[i].id
                                /\ stack'[t][i].n = q[i].n /\ (stack'[t][i].exc <=> q[i].exc),
           Paired(stack[t], groups.open[t], truncated[t]) => Paired(q, groups.open[t], truncated[t]),
           truncated[t] => truncated'[t]
    PROVE  Effect(t) /\ Tracked(t)'
<1>1. groups \in GroupState /\ groups.open[t] \in Seq(GroupRec) /\ groups.done \in Seq(GroupRec) /\ made \in Nat
  BY AllTyped
<1>2. Effect(t) /\ groups'.open[t] \in {groups.open[t], Collected(groups.open[t], c)}
  <2>1. CASE Become(t, groups.open[t])
    BY <1>1, <2>1, BecomeSame DEF Effect, Left
  <2>2. CASE Become(t, Collected(groups.open[t], c))
    <3>1. groups' = Replaced(groups, t, Collected(groups.open[t], c), groups.done)
      BY <2>2 DEF Become, Replaced
    <3>2. Collected(groups.open[t], c) \in Seq(GroupRec)
      BY <1>1, CollectedTyped
    <3>3. c.by \in ByAgent..MaxFrames /\ c.n \in 0..MaxCalls /\ NextOf(c, groups.open[t])
      BY AgentAssumption DEF ByAgent, NextOf
    <3>4. Added(t)
      BY <3>1, <3>3 DEF Added
    <3>5. groups'.open[t] = Collected(groups.open[t], c)
      BY <1>1, <3>1, <3>2, OpenReplaced
    <3>6. QED
      BY <3>4, <3>5 DEF Effect
  <2>3. QED
    BY <2>1, <2>2
<1>3. Tracked(t)'
  <2>1. SUFFICES ASSUME caps' = Events, InScope(t)'
                 PROVE  Paired(stack'[t], groups'.open[t], truncated'[t])
    BY DEF Tracked
  <2>2. Paired(q, groups.open[t], truncated[t])
    BY <2>1 DEF AllInv, GroupsInv, Tracked, InScope
  <2>3. PICK s2 \in Seq(Frame), o \in Seq(GroupRec) : s2 = stack'[t] /\ o = groups.open[t]
    BY <1>1
  <2>7. PICK o2, loose, loose2 : o2 = groups'.open[t] /\ loose = truncated[t] /\ loose2 = truncated'[t]
    OBVIOUS
  <2>4. /\ Len(s2) = Len(q)
        /\ \A i \in 1..Len(q) : /\ s2[i].kind = q[i].kind /\ s2[i].id = q[i].id
                                /\ s2[i].n = q[i].n /\ (s2[i].exc <=> q[i].exc)
        /\ o2 = o \/ o2 = Collected(o, c)
        /\ Paired(q, o, loose) /\ (loose => loose2)
    BY <1>2, <2>2, <2>3, <2>7
  <2>5. Paired(s2, o2, loose2)
    BY <2>4, PairedNote
  <2>6. QED
    BY <2>3, <2>7, <2>5, Zenon
<1>4. QED
  BY <1>2, <1>3

LEMMA OutsideTracks ==
    ASSUME AllInv, Reading, NEW t \in Thread, LookupOutside(t) \/ Reference(t)
    PROVE  Effect(t) /\ Tracked(t)'
<1>1. UNCHANGED <<stack, running, attached, hooked, caps, truncated, made>>
  BY DEF LookupOutside, Reference, init, opts, jvm, locals
<1>2. /\ stack[t] \in Seq(Frame) /\ lines \in Seq(Line) /\ groups \in GroupState
      /\ groups.open[t] \in Seq(GroupRec) /\ made \in Nat
  BY AllTyped
<1> DEFINE Noted ==
        \E c \in CallRec : /\ c.by \in 0..MaxFrames /\ c.n = 0
                           /\ Become(t, groups.open[t]) \/ Become(t, Collected(groups.open[t], c))
<1>3. Noted
  <2>1. ASSUME lines' = lines PROVE Noted
    <3>1. groups' = groups
      BY <1>2, <2>1, ReadSame
    <3>2. [by |-> 0, n |-> 0] \in CallRec /\ [by |-> 0, n |-> 0].by \in 0..MaxFrames
      BY AgentAssumption DEF CallRec
    <3>3. QED
      BY <1>2, <3>1, <3>2, SameIsBecome
  <2>2. ASSUME NEW by \in 0..MaxFrames, NEW ev \in {"jni", "jni-init"}, Write(ev, t, by, 0)
        PROVE  Noted
    <3>1. PICK l \in Line : /\ l = Record(ev, t, by, 0) /\ l.ev = ev /\ l.thr = t
                            /\ l.by = by /\ l.n = 0
      BY RecordTyped
    <3>2. lines' = Append(lines, l)
      BY <2>2, <3>1 DEF Write
    <3>3. groups' = Group(groups, l)
      BY <1>2, <3>2, ReadOne DEF Reading
    <3>4. PICK c \in CallRec : c = [by |-> by, n |-> 0] /\ c.by = by /\ c.n = 0
      <4>1. by \in Int /\ 0 \in Nat
        OBVIOUS
      <4>2. [by |-> by, n |-> 0] \in CallRec
        BY <4>1 DEF CallRec
      <4>3. [by |-> by, n |-> 0].by = by /\ [by |-> by, n |-> 0].n = 0
        OBVIOUS
      <4>4. QED
        BY <4>2, <4>3, Zenon
    <3>5. CASE ev = "jni-init"
      <4>1. groups' = groups
        BY <3>1, <3>3, <3>5, GroupOther
      <4>2. QED
        BY <1>2, <3>4, <4>1, SameIsBecome
    <3>6. CASE ev = "jni"
      <4>1. Become(t, Collected(groups.open[t], c))
        BY <1>2, <3>1, <3>3, <3>4, <3>6, GroupCall DEF Become
      <4>2. QED
        BY <3>4, <4>1
    <3>7. QED
      BY <3>5, <3>6
  <2> HIDE DEF Noted
  <2>3. 0 \in 0..MaxFrames
    BY AgentAssumption
  <2>4. ASSUME stack[t] # <<>> PROVE Top(t).id \in 0..MaxFrames
    <3>1. Len(stack[t]) \in 1..Len(stack[t])
      BY <1>2, <2>4
    <3>2. QED
      BY <3>1, IdBound DEF Top
  <2>5. CASE LookupOutside(t)
    <3>1. Write("jni-init", t, 0, 0)
      BY <2>5 DEF LookupOutside, ByLibrary
    <3>2. QED
      BY <2>2, <2>3, <3>1
  <2>6. CASE Reference(t)
    <3>1. \/ lines' = lines
          \/ Write("jni", t, IF stack[t] = <<>> THEN ByLibrary ELSE Top(t).id, 0)
      BY <2>6 DEF Reference
    <3>2. (IF stack[t] = <<>> THEN ByLibrary ELSE Top(t).id) \in 0..MaxFrames
      BY <2>3, <2>4 DEF ByLibrary
    <3>3. PICK by \in 0..MaxFrames : lines' = lines \/ Write("jni", t, by, 0)
      BY <3>1, <3>2
    <3>4. QED
      BY <2>1, <2>2, <3>3
  <2>7. QED
    BY <2>5, <2>6
<1>4. PICK c \in CallRec : /\ c.by \in 0..MaxFrames /\ c.n = 0
                           /\ Become(t, groups.open[t]) \/ Become(t, Collected(groups.open[t], c))
  BY <1>3
<1>5. PICK q \in Seq(Frame) : q = stack[t]
  BY <1>2
<1>6. /\ stack'[t] \in Seq(Frame) /\ Len(stack'[t]) = Len(q)
      /\ \A i \in 1..Len(q) : /\ stack'[t][i].kind = q[i].kind /\ stack'[t][i].id = q[i].id
                              /\ stack'[t][i].n = q[i].n /\ (stack'[t][i].exc <=> q[i].exc)
  BY <1>1, <1>5
<1>7. Paired(stack[t], groups.open[t], truncated[t]) => Paired(q, groups.open[t], truncated[t])
  BY <1>5
<1>8. truncated[t] => truncated'[t]
  BY <1>1
<1>9. QED
  BY <1>1, <1>4, <1>6, <1>7, <1>8, NoteTracks

\* What is below a class library's native is silent, and what the budget of a
\* thread does not allow any more is not in a group that was complete.
LEMMA SilentIsQuiet ==
    ASSUME AllInv, NEW t \in hooked, caps = Events, NEW q \in Seq(Frame), q # <<>>,
           q[Len(q)].kind = "user", Len(q) <= Len(stack[t]),
           \A i \in 1..Len(q) : q[i] = stack[t][i],
           Len(q) # Len(stack[t]) =>
               Len(stack[t]) = Len(q) + 1 /\ stack[t][Len(stack[t])].kind # "jdk"
    PROVE  /\ Silent(t) <=> QuietAt(q, Len(q))
           /\ ~Silent(t) /\ ~Full(t) => ~truncated[t]
<1>1. t \in Thread /\ stack[t] \in Seq(Frame)
  <2>1. t \in Thread
    BY DEF AllInv, AgentInv, Typed
  <2>2. QED
    BY <2>1, AllTyped
<1>2. /\ Len(q) \in 1..Len(q) /\ Len(q) \in Nat /\ Len(stack[t]) \in Nat
      /\ DOMAIN stack[t] = 1..Len(stack[t])
  BY <1>1, AllButLast
<1>3. /\ \A i \in 1..Len(stack[t]) : stack[t][i].kind = "user" => stack[t][i].seen
      /\ suppress[t] = Cardinality(JdkAt(stack[t])) /\ depth[t] \in Nat
  BY <1>1, ScopeEnabled DEF AllInv, AgentInv, Typed, Sound
<1>4. UserAt(stack[t]) # {}
  BY <1>2, <1>3 DEF UserAt
<1>5. depth[t] > 0
  BY <1>4, UsersCount DEF AllInv
<1>6. suppress[t] > 0 <=> JdkAt(stack[t]) # {}
  <2>1. IsFiniteSet(JdkAt(stack[t])) /\ Cardinality(JdkAt(stack[t])) \in Nat
    BY <1>1, Finite
  <2>2. Cardinality(JdkAt(stack[t])) = 0 <=> JdkAt(stack[t]) = {}
    BY <2>1, FS_EmptySet
  <2>3. QED
    BY <1>3, <2>1, <2>2
<1>7. Silent(t) <=> JdkAt(stack[t]) # {}
  BY <1>3, <1>5, <1>6 DEF Silent
<1>8. JdkAt(stack[t]) # {} <=> QuietAt(q, Len(q))
  <2>1. ASSUME NEW j \in JdkAt(stack[t]) PROVE QuietAt(q, Len(q))
    <3>1. PICK i \in 1..(j - 1) : stack[t][i].kind = "user"
      BY <2>1 DEF JdkAt
    <3>2. j \in 1..Len(stack[t]) /\ stack[t][j].kind = "jdk"
      BY <1>2, <2>1 DEF JdkAt
    <3>3. j \in 1..(Len(q) - 1)
      <4>1. j # Len(q)
        BY <1>2, <3>2
      <4>2. j # Len(q) + 1
        BY <1>2, <3>2
      <4>3. QED
        BY <1>2, <3>2, <4>1, <4>2
    <3>4. i \in 1..(Len(q) - 1) /\ i < j
      BY <1>2, <3>1, <3>3
    <3>5. q[i].kind = "user" /\ q[j].kind = "jdk"
      BY <1>2, <3>1, <3>2, <3>3, <3>4
    <3>6. QED
      BY <3>3, <3>4, <3>5 DEF QuietAt
  <2>2. ASSUME QuietAt(q, Len(q)) PROVE JdkAt(stack[t]) # {}
    <3>1. PICK i \in 1..(Len(q) - 1), j \in 1..(Len(q) - 1) :
              i < j /\ q[i].kind = "user" /\ q[j].kind = "jdk"
      BY <2>2 DEF QuietAt
    <3>2. j \in 1..Len(stack[t]) /\ i \in 1..(j - 1)
      BY <1>2, <3>1
    <3>3. stack[t][i].kind = "user" /\ stack[t][j].kind = "jdk"
      BY <1>2, <3>1
    <3>4. j \in JdkAt(stack[t])
      BY <1>2, <3>2, <3>3 DEF JdkAt
    <3>5. QED
      BY <3>4
  <2>3. QED
    BY <2>1, <2>2
<1>9. ~Full(t) => ~truncated[t]
  BY <1>1, <1>5 DEF AllInv, CallsInv, Budgeted, Full
<1>10. QED
  BY <1>7, <1>8, <1>9

\* emit for the next call of an invocation.
LEMMA CountTracks ==
    ASSUME AllInv, Reading, NEW t \in hooked, made' = made,
           UNCHANGED <<running, attached, hooked, caps>>, Charge(t),
           NEW q \in Seq(Frame), q # <<>>, q[Len(q)].kind = "user", Len(q) <= Len(stack[t]),
           \A i \in 1..Len(q) : q[i] = stack[t][i],
           Len(q) # Len(stack[t]) =>
               Len(stack[t]) = Len(q) + 1 /\ stack[t][Len(stack[t])].kind # "jdk",
           Paired(stack[t], groups.open[t], truncated[t]) => Paired(q, groups.open[t], truncated[t]),
           NEW n \in Nat, n = q[Len(q)].n + 1, n <= MaxCalls, Retopped(q, stack'[t], n),
           lines' = lines \o Emitted(t, q[Len(q)].id, n)
    PROVE  Effect(t) /\ Tracked(t)'
<1>1. t \in Thread
  BY DEF AllInv, AgentInv, Typed
<1>2. /\ groups \in GroupState /\ groups.open[t] \in Seq(GroupRec)
      /\ groups.done \in Seq(GroupRec) /\ made \in Nat /\ lines \in Seq(Line)
  BY <1>1, AllTyped
<1>3. Len(q) \in 1..Len(q) /\ Len(q) \in 1..Len(stack[t]) /\ q[Len(q)].id \in 0..MaxFrames
  <2>1. Len(q) \in 1..Len(q) /\ Len(q) \in 1..Len(stack[t])
    <3>1. stack[t] \in Seq(Frame)
      BY <1>1, AllTyped
    <3>2. QED
      BY <3>1
  <2>2. q[Len(q)] = stack[t][Len(q)]
    BY <2>1
  <2>3. QED
    BY <1>1, <2>1, <2>2, IdBound
<1>4. PICK by \in 0..MaxFrames : by = q[Len(q)].id
  BY <1>3
<1>5. PICK c \in CallRec : c = [by |-> by, n |-> n] /\ c.by = by /\ c.n = n
  <2>1. by \in Int /\ n \in Nat
    OBVIOUS
  <2>2. [by |-> by, n |-> n] \in CallRec
    BY <2>1 DEF CallRec
  <2>3. [by |-> by, n |-> n].by = by /\ [by |-> by, n |-> n].n = n
    OBVIOUS
  <2>4. QED
    BY <2>2, <2>3, Zenon
<1>6. /\ Silent(t) \/ Full(t) => Become(t, groups.open[t])
      /\ ~Silent(t) /\ ~Full(t) => Become(t, Collected(groups.open[t], c))
  <2>1. by \in Nat \cup {ByAgent}
    OBVIOUS
  <2>2. lines' = lines \o Emitted(t, by, n)
    BY <1>4
  <2>3. QED
    BY <1>1, <1>2, <1>5, <2>1, <2>2, EmitRead
<1>7. PICK o \in Seq(GroupRec) : o = groups.open[t]
  BY <1>2
<1>8. PICK o2 : o2 = IF Silent(t) \/ Full(t) THEN o ELSE Collected(o, c)
  OBVIOUS
<1>9. groups' = Replaced(groups, t, o2, groups.done) /\ groups'.open[t] = o2
  <2>1. groups' = Replaced(groups, t, o2, groups.done)
    BY <1>6, <1>7, <1>8 DEF Become, Replaced
  <2>2. o2 \in Seq(GroupRec)
    BY <1>7, <1>8, CollectedTyped
  <2>3. Replaced(groups, t, o2, groups.done).open[t] = o2
    BY <1>1, <1>2, <2>2, OpenReplaced
  <2>4. QED
    BY <2>1, <2>3, Zenon
<1>10. CASE caps # Events
  <2>1. groups.open[t] = <<>>
    BY <1>1, <1>10 DEF AllInv, GroupsInv
  <2>2. Become(t, groups.open[t])
    BY <1>6, <2>1 DEF Collected
  <2>3. Effect(t)
    BY <1>1, <1>2, <2>2, BecomeSame DEF Effect, Left
  <2>4. QED
    BY <1>10, <2>3 DEF Tracked
<1>11. CASE caps = Events
  <2>1. /\ Silent(t) <=> QuietAt(q, Len(q))
        /\ ~Silent(t) /\ ~Full(t) => ~truncated[t]
    BY <1>11, SilentIsQuiet
  <2>2. truncated'[t] <=> truncated[t] \/ (~Silent(t) /\ Full(t))
    BY <1>1, ChargeBudgets DEF AllInv
  <2>3. PICK loose, loose2 : loose = truncated[t] /\ loose2 = truncated'[t]
    OBVIOUS
  <2>4. Paired(q, o, loose)
    BY <1>1, <1>7, <1>11, <2>3, ScopeEnabled DEF AllInv, GroupsInv, Tracked
  <2>5. loose => loose2
    BY <2>2, <2>3
  <2>6. \/ o2 = o /\ (loose2 \/ QuietAt(q, Len(q)))
        \/ o2 = Collected(o, c) /\ ~loose /\ ~QuietAt(q, Len(q))
    BY <1>8, <2>1, <2>2, <2>3
  <2>7. PICK r : r = stack'[t]
    OBVIOUS
  <2>8. Retopped(q, r, n) /\ c.n = n
    BY <1>5, <2>7
  <2>9. /\ Paired(r, o2, loose2)
        /\ o # <<>> /\ Len(o) \in 1..Len(o) /\ o[Len(o)].key = q[Len(q)].id
        /\ ~loose /\ ~QuietAt(q, Len(q)) => n = Numbered(o[Len(o)]) + 1
    <3>1. CallOf(q, r, n)
      BY <2>8 DEF CallOf
    <3>2. Counted(q, o, o2, c, loose, loose2)
      BY <2>5, <2>6 DEF Counted
    <3>3. QED
      BY <1>5, <2>4, <3>1, <3>2, PairedCount
  <2>10. Tracked(t)'
    BY <1>9, <2>3, <2>7, <2>9 DEF Tracked
  <2>11. ASSUME o2 = o PROVE Effect(t)
    <3>1. Become(t, groups.open[t])
      BY <1>7, <1>9, <2>11 DEF Become, Replaced
    <3>2. QED
      BY <1>1, <1>2, <3>1, BecomeSame DEF Effect, Left
  <2>12. ASSUME o2 = Collected(o, c), ~loose, ~QuietAt(q, Len(q)) PROVE Effect(t)
    <3>1. NextOf(c, o)
      BY <1>4, <1>5, <2>9, <2>12 DEF NextOf
    <3>2. c.by \in ByAgent..MaxFrames /\ c.n \in 0..MaxCalls
      BY <1>5, AgentAssumption DEF ByAgent
    <3>3. Added(t)
      BY <1>7, <1>9, <2>12, <3>1, <3>2 DEF Added
    <3>4. QED
      BY <3>3 DEF Effect
  <2>13. QED
    BY <2>6, <2>10, <2>11, <2>12
<1>12. QED
  BY <1>10, <1>11

\* emit for a call that is not of an invocation.
LEMMA EmitTracks ==
    ASSUME AllInv, Reading, NEW t \in hooked, made' = made,
           UNCHANGED <<running, attached, hooked, caps>>, Charge(t),
           lines' = lines \o Emitted(t, 0, 0),
           NEW q \in Seq(Frame), stack'[t] \in Seq(Frame), Len(stack'[t]) = Len(q),
           \A i \in 1..Len(q) : /\ stack'[t][i].kind = q[i].kind /\ stack'[t][i].id = q[i].id
                                /\ stack'[t][i].n = q[i].n /\ (stack'[t][i].exc <=> q[i].exc),
           Paired(stack[t], groups.open[t], truncated[t]) => Paired(q, groups.open[t], truncated[t])
    PROVE  Effect(t) /\ Tracked(t)'
<1>1. t \in Thread
  BY DEF AllInv, AgentInv, Typed
<1>2. groups \in GroupState /\ lines \in Seq(Line)
  BY <1>1, AllTyped
<1>3. PICK c \in CallRec : c = [by |-> 0, n |-> 0] /\ c.by = 0 /\ c.n = 0
  <2>1. [by |-> 0, n |-> 0] \in CallRec
    BY DEF CallRec
  <2>2. [by |-> 0, n |-> 0].by = 0 /\ [by |-> 0, n |-> 0].n = 0
    OBVIOUS
  <2>3. QED
    BY <2>1, <2>2, Zenon
<1>4. Become(t, groups.open[t]) \/ Become(t, Collected(groups.open[t], c))
  <2>1. 0 \in Nat \cup {ByAgent} /\ 0 \in Nat
    OBVIOUS
  <2>2. QED
    BY <1>1, <1>2, <1>3, <2>1, EmitRead
<1>5. truncated[t] => truncated'[t]
  BY <1>1, ChargeBudgets DEF AllInv
<1>6. c.by \in 0..MaxFrames
  BY <1>3, AgentAssumption
<1>7. QED
  BY <1>1, <1>3, <1>4, <1>5, <1>6, NoteTracks

LEMMA PlainTracks ==
    ASSUME AllInv, Reading, NEW t \in Thread, Plain(t)
    PROVE  Effect(t) /\ Tracked(t)'
<1>1. /\ UNCHANGED <<running, attached, hooked, caps, made>> /\ t \in hooked /\ Charge(t)
  BY DEF Plain, MayCall, init, opts, Emit
<1>2. stack[t] \in Seq(Frame) /\ AgentInv
  BY AllTyped DEF AllInv
<1>3. CASE TopKind(t) = "user"
  <2>1. PICK q \in Seq(Frame), n \in Nat :
            /\ q = stack[t] /\ q # <<>> /\ q[Len(q)].kind = "user"
            /\ n = q[Len(q)].n + 1 /\ n <= MaxCalls /\ Retopped(q, stack'[t], n)
            /\ lines' = lines \o Emitted(t, q[Len(q)].id, n)
    BY <1>2, <1>3, PlainTop
  <2>2. /\ Len(q) <= Len(stack[t]) /\ \A i \in 1..Len(q) : q[i] = stack[t][i]
        /\ Len(q) = Len(stack[t])
        /\ Paired(stack[t], groups.open[t], truncated[t]) => Paired(q, groups.open[t], truncated[t])
    BY <2>1
  <2>3. QED
    BY <1>1, <2>1, <2>2, CountTracks
<1>4. CASE TopKind(t) # "user"
  <2>1. stack' = stack /\ lines' = lines \o Emitted(t, 0, 0)
    BY <1>4 DEF Plain, Emit, ByLibrary
  <2>2. PICK q \in Seq(Frame) : q = stack[t]
    BY <1>2
  <2>3. /\ stack'[t] \in Seq(Frame) /\ Len(stack'[t]) = Len(q)
        /\ \A i \in 1..Len(q) : /\ stack'[t][i].kind = q[i].kind /\ stack'[t][i].id = q[i].id
                                /\ stack'[t][i].n = q[i].n /\ (stack'[t][i].exc <=> q[i].exc)
        /\ Paired(stack[t], groups.open[t], truncated[t]) => Paired(q, groups.open[t], truncated[t])
    BY <2>1, <2>2
  <2>4. QED
    BY <1>1, <2>1, <2>3, EmitTracks
<1>5. QED
  BY <1>3, <1>4


\* The frames of a retopped stack, when the number of calls stays.
LEMMA RetoppedSame ==
    ASSUME NEW q \in Seq(Frame), NEW r, Retopped(q, r, q[Len(q)].n)
    PROVE  /\ r \in Seq(Frame) /\ Len(r) = Len(q)
           /\ \A i \in 1..Len(q) : /\ r[i].kind = q[i].kind /\ r[i].id = q[i].id
                                   /\ r[i].n = q[i].n /\ (r[i].exc <=> q[i].exc)
<1>1. r \in Seq(Frame) /\ Len(r) = Len(q) /\ Len(q) \in 1..Len(q)
      /\ \A i \in 1..(Len(q) - 1) : r[i] = q[i]
  BY DEF Retopped
<1>2. PICK n \in Nat : n = q[Len(q)].n
  <2>1. q[Len(q)] \in Frame
    BY <1>1
  <2>2. QED
    BY <2>1 DEF Frame
<1>3. Retopped(q, r, n)
  BY <1>2
<1>4. /\ r[Len(q)].kind = q[Len(q)].kind /\ r[Len(q)].id = q[Len(q)].id
      /\ r[Len(q)].n = n /\ (r[Len(q)].exc <=> q[Len(q)].exc)
  BY <1>3, RetoppedFrame
<1>5. ASSUME NEW i \in 1..Len(q)
      PROVE  /\ r[i].kind = q[i].kind /\ r[i].id = q[i].id
             /\ r[i].n = q[i].n /\ (r[i].exc <=> q[i].exc)
  <2>1. CASE i = Len(q)
    BY <1>2, <1>4, <2>1
  <2>2. CASE i # Len(q)
    <3>1. i \in 1..(Len(q) - 1)
      BY <1>1, <2>2
    <3>2. QED
      BY <1>1, <3>1
  <2>3. QED
    BY <2>1, <2>2
<1>6. QED
  BY <1>1, <1>5

LEMMA ReturnTracks ==
    ASSUME AllInv, Reading, NEW t \in Thread, ReturnUp(t)
    PROVE  Effect(t) /\ Tracked(t)'
<1>1. UNCHANGED <<running, attached, hooked, caps, made>>
  BY DEF ReturnUp, init, opts, bounds
<1>2. /\ stack[t] \in Seq(Frame) /\ AgentInv /\ groups \in GroupState
      /\ groups.open[t] \in Seq(GroupRec) /\ made \in Nat
  BY AllTyped DEF AllInv
<1>3. PICK q \in Seq(Frame), n \in Nat :
          /\ stack[t] # <<>> /\ stack[t][Len(stack[t])].kind = "upcall"
          /\ q = SubSeq(stack[t], 1, Len(stack[t]) - 1) /\ Len(q) = Len(stack[t]) - 1
          /\ q # <<>> /\ \A i \in 1..Len(q) : q[i] = stack[t][i]
          /\ q[Len(q)].kind = "user" /\ t \in hooked => n = q[Len(q)].n + 1
          /\ ~(q[Len(q)].kind = "user" /\ t \in hooked) => n = q[Len(q)].n
          /\ Retopped(q, stack'[t], n)
          /\ t \in hooked => lines' = lines \o Emitted(t, q[Len(q)].id, n) /\ Charge(t)
          /\ t \notin hooked => UNCHANGED <<lines, count, truncated>>
  BY <1>2, ReturnTop
<1>4. Paired(stack[t], groups.open[t], truncated[t]) => Paired(q, groups.open[t], truncated[t])
  BY <1>2, <1>3, PairedPop
<1>5. /\ Len(q) \in 1..Len(q) /\ Len(stack[t]) \in 1..Len(stack[t]) /\ Len(q) \in 1..Len(stack[t])
      /\ Len(stack[t]) = Len(q) + 1 /\ Len(q) <= Len(stack[t])
  BY <1>2, <1>3
<1>6. CASE t \notin hooked
  <2>1. Retopped(q, stack'[t], q[Len(q)].n) /\ UNCHANGED <<lines, truncated>>
    BY <1>3, <1>6
  <2>2. PICK r : r = stack'[t]
    OBVIOUS
  <2>3. /\ r \in Seq(Frame) /\ Len(r) = Len(q)
        /\ \A i \in 1..Len(q) : /\ r[i].kind = q[i].kind /\ r[i].id = q[i].id
                                /\ r[i].n = q[i].n /\ (r[i].exc <=> q[i].exc)
    BY <2>1, <2>2, RetoppedSame
  <2>4. Become(t, groups.open[t])
    <3>1. groups' = groups
      BY <1>1, <1>2, <2>1, NothingWritten DEF Left
    <3>2. QED
      BY <1>2, <3>1, SameIsBecome
  <2>5. PICK c \in CallRec : c.by \in 0..MaxFrames /\ c.n = 0
    <3>1. [by |-> 0, n |-> 0] \in CallRec /\ [by |-> 0, n |-> 0].by \in 0..MaxFrames
          /\ [by |-> 0, n |-> 0].n = 0
      BY AgentAssumption DEF CallRec
    <3>2. QED
      BY <3>1, Zenon
  <2>6. /\ stack'[t] \in Seq(Frame) /\ Len(stack'[t]) = Len(q)
        /\ \A i \in 1..Len(q) : /\ stack'[t][i].kind = q[i].kind /\ stack'[t][i].id = q[i].id
                                /\ stack'[t][i].n = q[i].n /\ (stack'[t][i].exc <=> q[i].exc)
    BY <2>2, <2>3
  <2>7. truncated[t] => truncated'[t]
    BY <2>1
  <2>8. QED
    BY <1>1, <1>4, <2>4, <2>5, <2>6, <2>7, NoteTracks
<1>7. CASE t \in hooked /\ q[Len(q)].kind = "user"
  <2>1. n = q[Len(q)].n + 1 /\ lines' = lines \o Emitted(t, q[Len(q)].id, n) /\ Charge(t)
    BY <1>3, <1>7
  <2>2. n <= MaxCalls
    <3>1. CountsOk(stack[t], t \in hooked)
      BY DEF AllInv, CallsInv
    <3>2. /\ stack[t][Len(stack[t])].kind = "upcall"
          /\ stack[t][Len(stack[t]) - 1] = q[Len(q)] /\ Len(stack[t]) > 1
      BY <1>3, <1>5
    <3>3. q[Len(q)].n < MaxCalls
      BY <1>5, <1>7, <3>1, <3>2 DEF CountsOk
    <3>4. QED
      <4>1. q[Len(q)].n \in Nat
        <5>1. q[Len(q)] \in Frame
          BY <1>5
        <5>2. QED
          BY <5>1 DEF Frame
      <4>2. QED
        BY <2>1, <3>3, <4>1, AgentAssumption
  <2>3. Len(q) # Len(stack[t]) =>
            Len(stack[t]) = Len(q) + 1 /\ stack[t][Len(stack[t])].kind # "jdk"
    BY <1>3, <1>5
  <2>4. QED
    BY <1>1, <1>3, <1>4, <1>5, <1>7, <2>1, <2>2, <2>3, CountTracks
<1>8. CASE t \in hooked /\ q[Len(q)].kind # "user"
  <2>1. /\ Retopped(q, stack'[t], q[Len(q)].n) /\ n = q[Len(q)].n
        /\ lines' = lines \o Emitted(t, q[Len(q)].id, n) /\ Charge(t)
    BY <1>3, <1>8
  <2>2. q[Len(q)].n = 0 /\ q[Len(q)].id = 0
    <3>1. q[Len(q)] = stack[t][Len(q)]
      BY <1>3, <1>5
    <3>2. QED
      BY <1>5, <1>8, <3>1, IdBound
  <2>3. lines' = lines \o Emitted(t, 0, 0)
    BY <2>1, <2>2
  <2>4. PICK r : r = stack'[t]
    OBVIOUS
  <2>5. /\ r \in Seq(Frame) /\ Len(r) = Len(q)
        /\ \A i \in 1..Len(q) : /\ r[i].kind = q[i].kind /\ r[i].id = q[i].id
                                /\ r[i].n = q[i].n /\ (r[i].exc <=> q[i].exc)
    BY <2>1, <2>4, RetoppedSame
  <2>6. /\ stack'[t] \in Seq(Frame) /\ Len(stack'[t]) = Len(q)
        /\ \A i \in 1..Len(q) : /\ stack'[t][i].kind = q[i].kind /\ stack'[t][i].id = q[i].id
                                /\ stack'[t][i].n = q[i].n /\ (stack'[t][i].exc <=> q[i].exc)
    BY <2>4, <2>5
  <2>7. QED
    BY <1>1, <1>4, <1>8, <2>1, <2>3, <2>6, EmitTracks
<1>9. QED
  BY <1>6, <1>7, <1>8


LEMMA ExceptionTracks ==
    ASSUME AllInv, Reading, NEW t \in Thread, Exception(t)
    PROVE  Effect(t) /\ Tracked(t)'
<1>1. UNCHANGED <<running, attached, hooked, caps, made>>
  BY DEF Exception, init, opts
<1>2. /\ stack \in [Thread -> Seq(Frame)] /\ stack[t] \in Seq(Frame) /\ groups \in GroupState
      /\ groups.open[t] \in Seq(GroupRec) /\ groups.done \in Seq(GroupRec)
      /\ made \in Nat /\ lines \in Seq(Line)
  BY AllTyped
<1>3. PICK c \in CallRec : c = [by |-> ByAgent, n |-> 0] /\ c.by = ByAgent /\ c.n = 0
  <2>1. [by |-> ByAgent, n |-> 0] \in CallRec
    BY DEF CallRec, ByAgent
  <2>2. [by |-> ByAgent, n |-> 0].by = ByAgent /\ [by |-> ByAgent, n |-> 0].n = 0
    OBVIOUS
  <2>3. QED
    BY <2>1, <2>2, Zenon
<1>4. \/ Become(t, Flagged(groups.open[t]))
      \/ Become(t, Flagged(Collected(groups.open[t], c)))
  <2>1. CASE t \in hooked
    <3>1. lines' = Append(lines \o Emitted(t, ByAgent, 0), Record("exc", t, ByAgent, 0))
      BY <2>1 DEF Exception
    <3>2. QED
      BY <1>2, <1>3, <3>1, ExceptionRead
  <2>2. CASE t \notin hooked
    <3>1. PICK l \in Line : l = Record("exc", t, ByAgent, 0) /\ l.ev = "exc" /\ l.thr = t
      BY AgentLine
    <3>2. lines' = Append(lines, l)
      BY <2>2, <3>1 DEF Exception, Write
    <3>3. groups' = Group(groups, l)
      BY <1>2, <3>2, ReadOne DEF Reading
    <3>4. QED
      BY <1>2, <3>1, <3>3, GroupException DEF Become
  <2>3. QED
    BY <2>1, <2>2
<1>5. PICK o \in {groups.open[t], Collected(groups.open[t], c)} : Become(t, Flagged(o))
  BY <1>4
<1>6. o \in Seq(GroupRec) /\ Flagged(o) \in Seq(GroupRec)
  <2>1. o \in Seq(GroupRec)
    BY <1>2, CollectedTyped
  <2>2. QED
    BY <2>1, FlaggedTyped
<1>7. groups' = Replaced(groups, t, Flagged(o), groups.done)
  BY <1>5 DEF Become, Replaced
<1>8. Effect(t)
  BY <1>1, <1>3, <1>5, <1>7 DEF Effect, Raised
<1>9. groups'.open[t] = Flagged(o)
  <2>1. Replaced(groups, t, Flagged(o), groups.done).open[t] = Flagged(o)
    BY <1>2, <1>6, OpenReplaced
  <2>2. QED
    BY <1>7, <2>1, Zenon
<1>10. truncated[t] => truncated'[t]
  <2>1. t \in hooked => Charge(t)
    BY DEF Exception
  <2>2. t \notin hooked => truncated' = truncated
    BY DEF Exception
  <2>3. QED
    BY <2>1, <2>2, ChargeBudgets DEF AllInv
<1>11. Tracked(t)'
  <2>1. SUFFICES ASSUME caps' = Events, InScope(t)'
                 PROVE  Paired(stack'[t], groups'.open[t], truncated'[t])
    BY DEF Tracked
  <2>2. Paired(stack[t], groups.open[t], truncated[t])
    BY <1>1, <2>1 DEF AllInv, GroupsInv, Tracked, InScope
  <2>3. PICK s \in Seq(Frame), w \in Seq(GroupRec) : s = stack[t] /\ w = groups.open[t]
    BY <1>2
  <2>9. PICK loose, loose2 : loose = truncated[t] /\ loose2 = truncated'[t]
    OBVIOUS
  <2>4. (loose => loose2) /\ Paired(s, w, loose) /\ (o = w \/ o = Collected(w, c))
    BY <1>10, <2>2, <2>3, <2>9
  <2>5. Paired(s, o, loose)
    BY <1>3, <2>4, PairedNote
  <2>6. Paired([i \in 1..Len(s) |-> [s[i] EXCEPT !.exc = TRUE]], Flagged(o), loose2)
    BY <1>6, <2>4, <2>5, PairedRaise
  <2>7. stack'[t] = [i \in 1..Len(s) |-> [s[i] EXCEPT !.exc = TRUE]]
    BY <1>2, <2>3, <2>9 DEF Exception
  <2>8. QED
    BY <1>9, <2>3, <2>9, <2>6, <2>7, Zenon
<1>12. QED
  BY <1>8, <1>11


LEMMA EnterTracks ==
    ASSUME AllInv, Reading, NEW t \in Thread, EnterUser(t)
    PROVE  Effect(t) /\ Tracked(t)'
<1>1. /\ UNCHANGED <<running, attached, hooked, caps>> /\ made' = made + 1 /\ made < MaxFrames
      /\ stack' = [stack EXCEPT ![t] = Append(@, UserFrame(made + 1, Enabled("entry")))]
  BY DEF EnterUser, init, opts
<1>2. /\ stack \in [Thread -> Seq(Frame)] /\ stack[t] \in Seq(Frame) /\ groups \in GroupState
      /\ groups.open[t] \in Seq(GroupRec) /\ groups.done \in Seq(GroupRec)
      /\ made \in Nat /\ lines \in Seq(Line) /\ truncated \in [Thread -> BOOLEAN]
  BY AllTyped
<1>3. CASE ~Enabled("entry")
  <2>1. lines' = lines /\ made <= made'
    BY <1>1, <1>2, <1>3 DEF EnterUser
  <2>2. Left
    BY <2>1, NothingWritten
  <2>3. ~(caps' = Events /\ InScope(t)')
    <3>1. InScope(t)' <=> InScope(t)
      BY <1>1 DEF InScope
    <3>2. QED
      BY <1>1, <1>3, <3>1, ScopeEnabled DEF AllInv
  <2>4. QED
    BY <2>2, <2>3 DEF Effect, Tracked
<1>4. CASE Enabled("entry")
  <2>1. /\ Write("enter", t, made + 1, 0)
        /\ truncated' = [truncated EXCEPT ![t] = depth[t] # 0 /\ truncated[t]]
    BY <1>4 DEF EnterUser
  <2>2. PICK l \in Line : l = Record("enter", t, made + 1, 0) /\ l.ev = "enter" /\ l.thr = t /\ l.by = made + 1
    BY <1>2, RecordTyped
  <2>3. PICK g \in GroupRec : /\ g = NewGroup(made + 1) /\ g.key = made + 1 /\ ~g.exc
                              /\ g.calls = <<>> /\ Numbered(g) = 0 /\ Once(g)
    BY <1>2, NewGroupTyped
  <2>4. groups' = Group(groups, l)
    <3>1. lines' = Append(lines, l)
      BY <2>1, <2>2 DEF Write
    <3>2. QED
      BY <1>2, <3>1, ReadOne DEF Reading
  <2>5. groups' = Replaced(groups, t, Append(groups.open[t], g), groups.done)
    <3>1. g = [key |-> l.by, calls |-> <<>>, exc |-> FALSE, kept |-> {}]
      BY <2>2, <2>3 DEF NewGroup
    <3>2. Group(groups, l) = [open |-> [groups.open EXCEPT ![l.thr] = Append(groups.open[l.thr], g)],
                              done |-> groups.done]
      BY <1>2, <2>2, <3>1, GroupEnter
    <3>3. QED
      BY <2>2, <2>4, <3>2 DEF Replaced
  <2>6. Effect(t)
    <3>1. caps = Events
      BY <1>4, ScopeEnabled DEF AllInv
    <3>2. made' <= MaxFrames
      BY <1>1, <1>2, AgentAssumption
    <3>3. QED
      BY <1>1, <2>3, <2>5, <3>1, <3>2 DEF Effect, Opened
  <2>7. groups'.open[t] = Append(groups.open[t], g)
    <3>1. Append(groups.open[t], g) \in Seq(GroupRec)
      BY <1>2
    <3>2. PICK o2 \in Seq(GroupRec) : o2 = Append(groups.open[t], g)
      BY <3>1, Zenon
    <3>3. Replaced(groups, t, o2, groups.done).open[t] = o2
      BY <1>2, OpenReplaced
    <3>4. QED
      BY <2>5, <3>2, <3>3, Zenon
  <2>8. PICK f \in Frame : /\ f = UserFrame(made + 1, TRUE) /\ f.kind = "user" /\ f.n = 0
                           /\ f.id = made + 1 /\ ~f.exc
    <3>1. UserFrame(made + 1, TRUE) \in Frame
      <4>1. made + 1 \in Nat /\ TRUE \in BOOLEAN
        BY <1>2
      <4>2. QED
        BY <4>1, FrameTypes, Zenon
    <3>2. /\ UserFrame(made + 1, TRUE).kind = "user" /\ UserFrame(made + 1, TRUE).n = 0
          /\ UserFrame(made + 1, TRUE).id = made + 1 /\ ~UserFrame(made + 1, TRUE).exc
      BY DEF UserFrame
    <3>3. QED
      BY <3>1, <3>2, Zenon
  <2>9. stack'[t] = Append(stack[t], f)
    <3>1. Enabled("entry") = TRUE
      BY <1>4 DEF Enabled, Past
    <3>2. QED
      BY <1>1, <1>2, <2>8, <3>1
  <2>10. Tracked(t)'
    <3>1. SUFFICES ASSUME caps' = Events, InScope(t)'
                   PROVE  Paired(stack'[t], groups'.open[t], truncated'[t])
      BY DEF Tracked
    <3>2. caps = Events /\ InScope(t)
      BY <1>1, <3>1 DEF InScope
    <3>3. PICK s \in Seq(Frame), o \in Seq(GroupRec) : s = stack[t] /\ o = groups.open[t]
      BY <1>2
    <3>9. PICK loose, loose2 : loose = truncated[t] /\ loose2 = truncated'[t]
      OBVIOUS
    <3>4. Paired(s, o, loose)
      BY <3>2, <3>3, <3>9 DEF AllInv, GroupsInv, Tracked
    <3>5. Paired(s, o, loose2)
      <4>1. CASE depth[t] # 0
        <5>1. truncated'[t] = truncated[t]
          BY <1>2, <2>1, <4>1
        <5>2. loose2 = loose
          BY <3>3, <3>9, <5>1
        <5>3. QED
          BY <3>4, <5>2, Zenon
      <4>2. CASE depth[t] = 0
        <5>1. UserAt(stack[t]) = {}
          <6>1. depth[t] = Cardinality(UserAt(stack[t]))
            BY <3>2 DEF AllInv, AgentInv, Sound
          <6>2. IsFiniteSet(UserAt(stack[t]))
            BY <1>2, Finite
          <6>3. QED
            BY <4>2, <6>1, <6>2, FS_EmptySet
        <5>2. \A i \in 1..Len(s) : s[i].kind # "user"
          <6>1. \A i \in 1..Len(stack[t]) : stack[t][i].kind = "user" => stack[t][i].seen
            BY <3>2 DEF AllInv, AgentInv, Sound
          <6>2. DOMAIN s = 1..Len(s)
            OBVIOUS
          <6>3. QED
            BY <3>3, <3>9, <5>1, <6>1, <6>2 DEF UserAt
        <5>3. QED
          BY <3>4, <5>2, PairedLoose
      <4>3. QED
        BY <4>1, <4>2
    <3>6. Match(g, f)
      BY <2>3, <2>8 DEF Match
    <3>7. Paired(Append(s, f), Append(o, g), loose2)
      BY <2>3, <2>8, <3>5, <3>6, PairedBegin
    <3>8. QED
      BY <2>7, <2>9, <3>3, <3>9, <3>7, Zenon
  <2>11. QED
    BY <2>6, <2>10
<1>5. QED
  BY <1>3, <1>4


LEMMA ExitTracks ==
    ASSUME AllInv, Reading, NEW t \in Thread, ExitUser(t)
    PROVE  Effect(t) /\ Tracked(t)'
<1>1. /\ UNCHANGED <<running, attached, hooked, caps, truncated, made>>
      /\ stack[t] # <<>> /\ stack[t][Len(stack[t])].kind = "user"
      /\ stack' = [stack EXCEPT ![t] = SubSeq(stack[t], 1, Len(stack[t]) - 1)]
  BY DEF ExitUser, init, opts, Below, TopKind, Top
<1>2. /\ stack \in [Thread -> Seq(Frame)] /\ stack[t] \in Seq(Frame) /\ groups \in GroupState
      /\ groups.open[t] \in Seq(GroupRec) /\ groups.done \in Seq(GroupRec)
      /\ made \in Nat /\ made <= MaxFrames /\ lines \in Seq(Line)
  BY AllTyped
<1>3. CASE ~Enabled("exit")
  <2>1. lines' = lines /\ made <= made'
    BY <1>1, <1>2, <1>3 DEF ExitUser
  <2>2. Left
    BY <2>1, NothingWritten
  <2>3. ~(caps' = Events /\ InScope(t)')
    <3>1. InScope(t)' <=> InScope(t)
      BY <1>1 DEF InScope
    <3>2. QED
      BY <1>1, <1>3, <3>1, ScopeEnabled DEF AllInv
  <2>4. QED
    BY <2>2, <2>3 DEF Effect, Tracked
<1>4. CASE Enabled("exit")
  <2>1. Len(stack[t]) \in 1..Len(stack[t])
    BY <1>1, <1>2
  <2>2. PICK l \in Line : l.ev = "exit" /\ l.thr = t /\ lines' = Append(lines, l)
    <3>1. Write("exit", t, Top(t).id, 0)
      BY <1>4 DEF ExitUser
    <3>2. Top(t).id \in Nat
      BY <2>1, IdBound DEF Top
    <3>3. QED
      BY <3>1, <3>2, RecordTyped DEF Write
  <2>3. groups' = Group(groups, l)
    BY <1>2, <2>2, ReadOne DEF Reading
  <2>4. CASE groups.open[t] = <<>>
    <3>1. groups' = groups
      BY <1>2, <2>2, <2>3, <2>4, GroupExit
    <3>2. Effect(t)
      BY <1>1, <1>2, <3>1 DEF Effect, Left
    <3>3. ~(caps' = Events /\ InScope(t)')
      <4>1. SUFFICES ASSUME caps' = Events, InScope(t)' PROVE FALSE
        OBVIOUS
      <4>2. Paired(stack[t], groups.open[t], truncated[t])
        BY <1>1, <4>1 DEF AllInv, GroupsInv, Tracked, InScope
      <4>3. groups.open[t] # <<>>
        BY <1>1, <1>2, <4>2, PairedPop
      <4>4. QED
        BY <2>4, <4>3
    <3>4. QED
      BY <3>2, <3>3 DEF Tracked
  <2>5. CASE groups.open[t] # <<>>
    <3>1. groups' = Replaced(groups, t, Outer(groups.open[t]), WithEnded(groups.done, groups.open[t]))
      <4>1. Group(groups, l) =
              [open |-> [groups.open EXCEPT ![l.thr] =
                           SubSeq(groups.open[l.thr], 1, Len(groups.open[l.thr]) - 1)],
               done |-> Append(groups.done, Collapsed(groups.open[l.thr][Len(groups.open[l.thr])]))]
        BY <1>2, <2>2, <2>5, GroupExit
      <4>2. QED
        BY <2>2, <2>3, <4>1 DEF Replaced, Outer, WithEnded
    <3>2. Effect(t)
      BY <1>1, <2>5, <3>1 DEF Effect, Closed
    <3>3. groups'.open[t] = Outer(groups.open[t])
      <4>1. Outer(groups.open[t]) \in Seq(GroupRec)
        BY <1>2, <2>5, AllButLast DEF Outer
      <4>2. WithEnded(groups.done, groups.open[t]) \in Seq(GroupRec)
        <5>1. Collapsed(groups.open[t][Len(groups.open[t])]) \in GroupRec
          <6>1. Len(groups.open[t]) \in 1..Len(groups.open[t])
            BY <1>2, <2>5, AllButLast
          <6>2. groups.open[t][Len(groups.open[t])] \in GroupRec
            BY <1>2, <6>1
          <6>3. QED
            BY <6>2, CollapsedIs
        <5>2. QED
          BY <1>2, <5>1 DEF WithEnded
      <4>3. PICK o2 \in Seq(GroupRec), d2 \in Seq(GroupRec) :
                o2 = Outer(groups.open[t]) /\ d2 = WithEnded(groups.done, groups.open[t])
        BY <4>1, <4>2, Zenon
      <4>4. Replaced(groups, t, o2, d2).open[t] = o2
        BY <1>2, OpenReplaced
      <4>5. QED
        BY <3>1, <4>3, <4>4, Zenon
    <3>4. Tracked(t)'
      <4>1. SUFFICES ASSUME caps' = Events, InScope(t)'
                     PROVE  Paired(stack'[t], groups'.open[t], truncated'[t])
        BY DEF Tracked
      <4>2. PICK s \in Seq(Frame), o \in Seq(GroupRec) : s = stack[t] /\ o = groups.open[t]
        BY <1>2
      <4>9. PICK loose : loose = truncated[t]
        OBVIOUS
      <4>3. Paired(s, o, loose)
        BY <1>1, <4>1, <4>2, <4>9 DEF AllInv, GroupsInv, Tracked, InScope
      <4>4. s # <<>> /\ s[Len(s)].kind = "user"
        BY <1>1, <4>2, <4>9
      <4>5. Paired(SubSeq(s, 1, Len(s) - 1), SubSeq(o, 1, Len(o) - 1), loose)
        BY <4>3, <4>4, PairedPop
      <4>6. stack'[t] = SubSeq(s, 1, Len(s) - 1) /\ truncated'[t] = loose
        BY <1>1, <1>2, <4>2, <4>9
      <4>7. groups'.open[t] = SubSeq(o, 1, Len(o) - 1)
        BY <3>3, <4>2, <4>9 DEF Outer
      <4>8. QED
        BY <4>5, <4>6, <4>7, Zenon
    <3>5. QED
      BY <3>2, <3>4
  <2>6. QED
    BY <2>4, <2>5
<1>5. QED
  BY <1>3, <1>4


-----------------------------------------------------------------------------
(* Every step.                                                             *)

\* The groups that are final stay.
DoneGrows ==
    \A i \in 1..Len(groups.done) :
        i \in 1..Len(groups'.done) /\ groups'.done[i] = groups.done[i]

LEMMA EffectStep ==
    ASSUME AllInv, made' \in Nat, NEW t \in Thread, Effect(t), Tracked(t)', caps' = caps,
           \A x \in Thread \ {t} : /\ stack'[x] = stack[x] /\ truncated'[x] = truncated[x]
                                   /\ InScope(x)' => InScope(x)
    PROVE  GroupsInv' /\ [Promise!Next]_(Promise!vars) /\ DoneGrows
<1>1. GroupsOk /\ made \in Nat /\ groups \in GroupState
  BY DEF AllInv, GroupsInv, GroupsOk, AgentInv, Typed
<1>2. /\ GroupsOk'
      /\ \A x \in Thread \ {t} : groups'.open[x] = groups.open[x]
      /\ caps # Events /\ groups.open[t] = <<>> => groups'.open[t] = <<>>
      /\ DoneGrows
  BY <1>1, EffectKeeps DEF DoneGrows
<1>3. [Promise!Next]_(Promise!vars)
  BY <1>1, EffectPromise
<1>4. caps' # Events => \A x \in Thread : groups'.open[x] = <<>>
  BY <1>2 DEF AllInv, GroupsInv
<1>5. ASSUME NEW x \in Thread \ {t} PROVE Tracked(x)'
  <2>1. Tracked(x)
    BY DEF AllInv, GroupsInv
  <2>2. /\ stack'[x] = stack[x] /\ groups'.open[x] = groups.open[x]
        /\ truncated'[x] = truncated[x] /\ InScope(x)' => InScope(x)
    BY <1>2
  <2>3. SUFFICES ASSUME caps' = Events, InScope(x)'
                 PROVE  Paired(stack'[x], groups'.open[x], truncated'[x])
    BY DEF Tracked
  <2>4. Paired(stack[x], groups.open[x], truncated[x])
    BY <2>1, <2>2, <2>3 DEF Tracked
  <2>5. QED
    BY <2>2, <2>4, Zenon
<1>6. \A x \in Thread : Tracked(x)'
  BY <1>5
<1>7. QED
  BY <1>2, <1>3, <1>4, <1>6 DEF GroupsInv

LEMMA SameStep ==
    ASSUME AllInv, UNCHANGED <<stack, running, attached, hooked, caps, truncated, made, groups>>
    PROVE  GroupsInv' /\ [Promise!Next]_(Promise!vars) /\ DoneGrows
<1>1. groups'.open = groups.open /\ groups'.done = groups.done
  OBVIOUS
<1>2. GroupsOk'
  BY <1>1 DEF AllInv, GroupsInv, GroupsOk
<1>3. \A x \in Thread : Tracked(x)'
  BY DEF AllInv, GroupsInv, Tracked, InScope
<1>4. GroupsInv'
  BY <1>1, <1>2, <1>3 DEF AllInv, GroupsInv
<1>5. Promise!vars' = Promise!vars
  BY <1>1 DEF Promise!vars
<1>6. QED
  BY <1>1, <1>4, <1>5 DEF DoneGrows

LEMMA OthersStay ==
    ASSUME AllInv, NEW t \in Thread,
           \/ StartThread(t) \/ EndThread(t) \/ EnterUser(t) \/ EnterJdk(t) \/ ExitUser(t)
           \/ ExitJdk(t) \/ Plain(t) \/ LookupOutside(t) \/ Reference(t) \/ CallUp(t)
           \/ ReturnUp(t) \/ Exception(t)
    PROVE  /\ caps' = caps /\ made' \in Nat
           /\ \A x \in Thread \ {t} : /\ stack'[x] = stack[x] /\ truncated'[x] = truncated[x]
                                      /\ InScope(x)' => InScope(x)
<1>1. /\ stack \in [Thread -> Seq(Frame)] /\ truncated \in [Thread -> BOOLEAN] /\ made \in Nat
  BY AllTyped
<1>2. caps' = caps /\ attached' = attached
  BY DEF StartThread, EndThread, EnterUser, EnterJdk, ExitUser, ExitJdk, Plain, LookupOutside,
         Reference, CallUp, ReturnUp, Exception, init, opts
<1>3. made' \in Nat
  BY <1>1 DEF StartThread, EndThread, EnterUser, EnterJdk, ExitUser, ExitJdk, Plain, LookupOutside,
              Reference, CallUp, ReturnUp, Exception, bounds
<1>4. \A x \in Thread \ {t} : stack'[x] = stack[x]
  <2>1. stack' = stack \/ \E r : stack' = [stack EXCEPT ![t] = r]
    BY DEF StartThread, EndThread, EnterUser, EnterJdk, ExitUser, ExitJdk, Plain, LookupOutside,
           Reference, CallUp, ReturnUp, Exception, jvm, WithTop
  <2>2. QED
    BY <1>1, <2>1
<1>5. \A x \in Thread \ {t} : truncated'[x] = truncated[x]
  <2>1. truncated' = truncated \/ \E r : truncated' = [truncated EXCEPT ![t] = r]
    BY DEF StartThread, EndThread, EnterUser, EnterJdk, ExitUser, ExitJdk, Plain, LookupOutside,
           Reference, CallUp, ReturnUp, Exception, locals, Emit, Charge
  <2>2. QED
    BY <1>1, <2>1
<1>6. \A x \in Thread \ {t} : (x \in running' <=> x \in running) /\ (x \in hooked' <=> x \in hooked)
  <2>1. CASE StartThread(t) \/ EndThread(t)
    BY <2>1 DEF StartThread, EndThread
  <2>2. CASE ~(StartThread(t) \/ EndThread(t))
    <3>1. running' = running /\ hooked' = hooked
      BY <2>2 DEF EnterUser, EnterJdk, ExitUser, ExitJdk, Plain, LookupOutside,
                  Reference, CallUp, ReturnUp, Exception, init, jvm
    <3>2. QED
      BY <3>1
  <2>3. QED
    BY <2>1, <2>2
<1>7. \A x \in Thread \ {t} : InScope(x)' => InScope(x)
  BY <1>2, <1>6 DEF InScope
<1>8. QED
  BY <1>2, <1>3, <1>4, <1>5, <1>7

LEMMA GroupsStep ==
    ASSUME AllInv, [Next]_vars, Reading
    PROVE  GroupsInv' /\ [Promise!Next]_(Promise!vars) /\ DoneGrows
<1> DEFINE Goal == GroupsInv' /\ [Promise!Next]_(Promise!vars) /\ DoneGrows
<1>1. CASE InitStep \/ UNCHANGED vars
  <2>1. UNCHANGED <<stack, running, attached, hooked, caps, truncated, made, lines>>
    BY <1>1 DEF InitStep, vars, jvm, init, opts, locals, bounds
  <2>2. groups' = groups
    <3>1. made <= made'
      BY <2>1 DEF AllInv, AgentInv, Typed
    <3>2. QED
      BY <2>1, <3>1, NothingWritten DEF Left
  <2>3. QED
    BY <2>1, <2>2, SameStep
<1>2. ASSUME NEW t \in Thread,
             \/ StartThread(t) \/ EndThread(t) \/ EnterUser(t) \/ EnterJdk(t) \/ ExitUser(t)
             \/ ExitJdk(t) \/ Plain(t) \/ LookupOutside(t) \/ Reference(t) \/ CallUp(t)
             \/ ReturnUp(t) \/ Exception(t)
      PROVE  Goal
  <2>1. Effect(t) /\ Tracked(t)'
    BY <1>2, ThreadsTrack, EnterTracks, LibraryTracks, ExitTracks, PlainTracks, OutsideTracks,
       ReturnTracks, ExceptionTracks
  <2>2. /\ caps' = caps /\ made' \in Nat
        /\ \A x \in Thread \ {t} : /\ stack'[x] = stack[x] /\ truncated'[x] = truncated[x]
                                   /\ InScope(x)' => InScope(x)
    BY <1>2, OthersStay
  <2>3. QED
    BY <2>1, <2>2, EffectStep
<1> HIDE DEF Goal
<1>3. \/ InitStep \/ UNCHANGED vars
      \/ \E t \in Thread :
            \/ StartThread(t) \/ EndThread(t) \/ EnterUser(t) \/ EnterJdk(t) \/ ExitUser(t)
            \/ ExitJdk(t) \/ Plain(t) \/ LookupOutside(t) \/ Reference(t) \/ CallUp(t)
            \/ ReturnUp(t) \/ Exception(t)
  BY DEF Next
<1>4. InitStep \/ UNCHANGED vars => Goal
  BY <1>1 DEF Goal
<1>5. Goal
  BY <1>2, <1>3, <1>4
<1>6. QED
  BY <1>5 DEF Goal

LEMMA GroupsInit ==
    ASSUME RecoveryInit
    PROVE  GroupsInv /\ Promise!Init
<1>1. Init /\ groups = [open |-> [t \in Thread |-> <<>>], done |-> <<>>]
  BY DEF RecoveryInit, Ungrouped
<1>2. /\ groups.open = [t \in Thread |-> <<>>] /\ groups.done = <<>>
      /\ \A t \in Thread : groups.open[t] = <<>>
  BY <1>1
<1>3. <<>> \in Seq(GroupRec) /\ Len(<<>>) = 0
  OBVIOUS
<1>4. groups \in GroupState
  BY <1>1, <1>3 DEF GroupState
<1>5. \A i \in 1..0 : FALSE
  OBVIOUS
<1>6. KeysDiffer(groups.open, groups.done, made)
  BY <1>2, <1>3, <1>5 DEF KeysDiffer, UpTo, Distinct, Apart
<1>7. AllOnce(groups.open, groups.done)
  BY <1>2, <1>3, <1>5 DEF AllOnce, OnceIn
<1>8. ASSUME NEW t \in Thread PROVE Tracked(t)
  <2>1. InScope(t) => stack[t] = <<>>
    BY <1>1 DEF Init, InScope
  <2>2. Paired(<<>>, groups.open[t], truncated[t])
    BY <1>2, <1>3, PairedEmpty
  <2>3. QED
    BY <2>1, <2>2 DEF Tracked
<1>9. Promise!Init
  BY <1>2 DEF Promise!Init
<1>10. QED
  BY <1>2, <1>4, <1>6, <1>7, <1>8, <1>9 DEF GroupsInv, GroupsOk

LEMMA AllInit == RecoveryInit => AllInv /\ Promise!Init
BY InitInv, BudgetInit, CallsInit, GroupsInit DEF RecoveryInit, AllInv

LEMMA StutterReads ==
    ASSUME AllInv, UNCHANGED <<vars, groups>>
    PROVE  Reading
<1>1. lines \in Seq(Line) /\ lines' = lines /\ groups' = groups
  BY DEF AllInv, BudgetInv, Recorded, vars
<1>2. Read(groups, SubSeq(lines, Len(lines) + 1, Len(lines))) = groups
  BY <1>1, ReadNone
<1>3. QED
  BY <1>1, <1>2 DEF Reading

LEMMA AllStep ==
    ASSUME AllInv, [RecoveryNext]_<<vars, groups>>
    PROVE  AllInv' /\ [Promise!Next]_(Promise!vars) /\ DoneGrows /\ [Next]_vars /\ Reading
<1>1. [Next]_vars
  BY DEF RecoveryNext
<1>2. Reading
  BY StutterReads DEF RecoveryNext, Reading
<1>3. GroupsInv' /\ [Promise!Next]_(Promise!vars) /\ DoneGrows
  BY <1>1, <1>2, GroupsStep
<1>4. AgentInv' /\ BudgetInv' /\ CallsInv'
  BY <1>1, InvStep, BudgetStep, CallsStep DEF AllInv
<1>5. QED
  BY <1>1, <1>2, <1>3, <1>4 DEF AllInv

\* The calls are recovered invocation by invocation: whatever the threads, the
\* upcalls and the budget do, what trace-to-bytecode makes of the trace as it grows
\* collects the calls of an invocation in its own group, each once, in order.
THEOREM CallsAreRecovered == RecoverySpec => CallsAreOwn
<1>1. RecoveryInit => AllInv /\ Promise!Init
  BY AllInit
<1>2. AllInv /\ [RecoveryNext]_<<vars, groups>> => AllInv' /\ [Promise!Next]_(Promise!vars)
  BY AllStep
<1>3. QED
  BY <1>1, <1>2, PTL DEF RecoverySpec, CallsAreOwn, Promise!Spec


-----------------------------------------------------------------------------
(* The invocations that have ended.                                        *)

Longer(L, M) == M \in Seq(Line) /\ Len(L) <= Len(M) /\ \A m \in 1..Len(L) : M[m] = L[m]

LEMMA LongerByOne ==
    ASSUME NEW L \in Seq(Line), NEW M, Longer(L, M), NEW l \in Line
    PROVE  Longer(L, Append(M, l))
<1>1. M \in Seq(Line) /\ Len(L) <= Len(M) /\ Len(L) \in Nat /\ Len(M) \in Nat
  BY DEF Longer
<1>2. Append(M, l) \in Seq(Line) /\ Len(Append(M, l)) = Len(M) + 1
      /\ \A m \in 1..Len(M) : Append(M, l)[m] = M[m]
  BY <1>1
<1>3. \A m \in 1..Len(L) : m \in 1..Len(M)
  BY <1>1
<1>4. QED
  BY <1>1, <1>2, <1>3 DEF Longer

LEMMA LongerByEmit ==
    ASSUME NEW L \in Seq(Line), NEW t \in Thread, NEW by \in Nat \cup {ByAgent}, NEW n \in Nat
    PROVE  Longer(L, L \o Emitted(t, by, n))
<1>1. Longer(L, L)
  BY DEF Longer
<1>2. CASE Emitted(t, by, n) = <<>>
  <2>1. L \o <<>> = L
    OBVIOUS
  <2>2. QED
    BY <1>1, <1>2, <2>1
<1>3. CASE Emitted(t, by, n) # <<>>
  <2>1. PICK l \in Line : Emitted(t, by, n) = <<l>>
    BY <1>3, RecordTyped, AgentLine DEF Emitted
  <2>2. L \o <<l>> = Append(L, l)
    OBVIOUS
  <2>3. Longer(L, Append(L, l))
    BY <1>1, LongerByOne
  <2>4. QED
    BY <2>1, <2>2, <2>3
<1>4. QED
  BY <1>2, <1>3

LEMMA LinesGrow ==
    ASSUME AllInv, AllInv', [Next]_vars
    PROVE  Longer(lines, lines')
<1>1. lines \in Seq(Line) /\ lines' \in Seq(Line)
  BY DEF AllInv, BudgetInv, Recorded
<1>2. Longer(lines, lines)
  BY <1>1 DEF Longer
<1>3. CASE InitStep \/ UNCHANGED vars
  <2>1. lines' = lines
    BY <1>3 DEF InitStep, vars
  <2>2. QED
    BY <1>2, <2>1
<1>4. ASSUME NEW t \in Thread, NEW ev \in {"enter", "exit", "jni", "jni-init", "exc"},
             NEW by \in Nat \cup {ByAgent}, Write(ev, t, by, 0)
      PROVE  Longer(lines, lines')
  <2>1. PICK l \in Line : l = Record(ev, t, by, 0)
    BY RecordTyped
  <2>2. lines' = Append(lines, l)
    BY <1>4, <2>1 DEF Write
  <2>3. QED
    BY <1>1, <1>2, <2>2, LongerByOne
<1>5. ASSUME NEW t \in Thread, StartThread(t) \/ EndThread(t) \/ EnterJdk(t) \/ ExitJdk(t) \/ CallUp(t)
      PROVE  Longer(lines, lines')
  <2>1. lines' = lines
    BY <1>5 DEF StartThread, EndThread, EnterJdk, ExitJdk, CallUp
  <2>2. QED
    BY <1>2, <2>1
<1>6. ASSUME NEW t \in Thread, EnterUser(t) PROVE Longer(lines, lines')
  <2>1. lines' = lines \/ Write("enter", t, made + 1, 0)
    BY <1>6 DEF EnterUser
  <2>2. made + 1 \in Nat
    BY AllTyped
  <2>3. QED
    BY <1>2, <1>4, <2>1, <2>2
<1>7. ASSUME NEW t \in Thread, stack[t] # <<>> PROVE Top(t).id \in Nat /\ Top(t).n \in Nat
  <2>1. Top(t) \in Frame
    BY <1>7, AllTyped DEF Top
  <2>2. QED
    BY <2>1 DEF Frame
<1>8. ASSUME NEW t \in Thread, ExitUser(t) PROVE Longer(lines, lines')
  <2>1. lines' = lines \/ Write("exit", t, Top(t).id, 0)
    BY <1>8 DEF ExitUser
  <2>2. stack[t] # <<>>
    BY <1>8 DEF ExitUser, TopKind
  <2>3. QED
    BY <1>2, <1>4, <1>7, <2>1, <2>2
<1>9. ASSUME NEW t \in Thread, LookupOutside(t) \/ Reference(t) PROVE Longer(lines, lines')
  <2>1. \/ lines' = lines
        \/ Write("jni-init", t, 0, 0)
        \/ stack[t] = <<>> /\ Write("jni", t, 0, 0)
        \/ stack[t] # <<>> /\ Write("jni", t, Top(t).id, 0)
    BY <1>9 DEF LookupOutside, Reference, ByLibrary
  <2>2. QED
    BY <1>2, <1>4, <1>7, <2>1
<1>10. ASSUME NEW t \in Thread, Plain(t) PROVE Longer(lines, lines')
  <2>1. PICK by \in Nat, n \in Nat : lines' = lines \o Emitted(t, by, n)
    <3>1. CASE TopKind(t) = "user"
      <4>1. stack[t] # <<>> /\ lines' = lines \o Emitted(t, Top(t).id, Top(t).n + 1)
        BY <1>10, <3>1 DEF Plain, Emit, TopKind
      <4>2. Top(t).id \in Nat /\ Top(t).n + 1 \in Nat
        BY <1>7, <4>1
      <4>3. QED
        BY <4>1, <4>2
    <3>2. CASE TopKind(t) # "user"
      BY <1>10, <3>2 DEF Plain, Emit, ByLibrary
    <3>3. QED
      BY <3>1, <3>2
  <2>2. QED
    BY <1>1, <2>1, LongerByEmit
<1>11. ASSUME NEW t \in Thread, ReturnUp(t) PROVE Longer(lines, lines')
  <2>1. PICK q \in Seq(Frame), n \in Nat :
            /\ q # <<>>
            /\ t \in hooked => lines' = lines \o Emitted(t, q[Len(q)].id, n)
            /\ t \notin hooked => lines' = lines
    BY <1>11, ReturnTop DEF AllInv
  <2>2. q[Len(q)].id \in Nat
    <3>1. q[Len(q)] \in Frame
      BY <2>1
    <3>2. QED
      BY <3>1 DEF Frame
  <2>3. Longer(lines, lines \o Emitted(t, q[Len(q)].id, n))
    BY <1>1, <2>2, LongerByEmit
  <2>4. QED
    BY <1>2, <2>1, <2>3
<1>12. ASSUME NEW t \in Thread, Exception(t) PROVE Longer(lines, lines')
  <2>1. CASE t \notin hooked
    <3>1. Write("exc", t, ByAgent, 0)
      BY <1>12, <2>1 DEF Exception
    <3>2. QED
      BY <1>4, <3>1
  <2>2. CASE t \in hooked
    <3>1. PICK l \in Line : l = Record("exc", t, ByAgent, 0)
      BY AgentLine
    <3>2. lines' = Append(lines \o Emitted(t, ByAgent, 0), l)
      BY <1>12, <2>2, <3>1 DEF Exception
    <3>3. Longer(lines, lines \o Emitted(t, ByAgent, 0))
      BY <1>1, LongerByEmit
    <3>4. QED
      BY <1>1, <3>2, <3>3, LongerByOne
  <2>3. QED
    BY <2>1, <2>2
<1>13. QED
  BY <1>3, <1>5, <1>6, <1>8, <1>9, <1>10, <1>11, <1>12 DEF Next


\* An invocation followed to its end has its group; and a group from which calls
\* are missing is one of those that may lack some.
Grouped(e) ==
    e.hooked \/ ~attached =>
        \E k \in 1..Len(groups.done) :
            groups.done[k].key = e.frame.id /\ groups.done[k].exc = e.frame.exc
Dropping(e) ==
    \E i, j \in 1..Len(lines) :
        /\ BeganAt(i, e.outer) /\ EndedAt(j, e.frame.id)
        /\ MarksOf(lines, e.thr, i, j) # {}
Complete(e) ==
    \E k \in 1..Len(groups.done) :
        /\ groups.done[k].key = e.frame.id /\ Numbered(groups.done[k]) = e.frame.n
        /\ groups.done[k].kept = CollapseRepeats(groups.done[k].calls)
Told(e) == e.quiet \/ e.frame.n = 0 \/ Dropping(e) \/ Complete(e)

EndsInv == \A e \in ended : Grouped(e) /\ Told(e)

LEMMA EndStays ==
    ASSUME AllInv, Longer(lines, lines'), DoneGrows, attached' = attached,
           NEW e, Grouped(e), Told(e)
    PROVE  Grouped(e)' /\ Told(e)'
<1>1. lines \in Seq(Line) /\ Len(lines) \in Nat /\ Len(lines') \in Nat /\ Len(lines) <= Len(lines')
  BY DEF AllInv, BudgetInv, Recorded, Longer
<1>2. \A m \in 1..Len(lines) : m \in 1..Len(lines') /\ lines'[m] = lines[m]
  BY <1>1 DEF Longer
<1>3. Grouped(e)'
  BY DEF Grouped, DoneGrows
<1>4. Complete(e) => Complete(e)'
  BY DEF Complete, DoneGrows
<1>5. ASSUME Dropping(e) PROVE Dropping(e)'
  <2>1. PICK i \in 1..Len(lines), j \in 1..Len(lines) :
            /\ BeganAt(i, e.outer) /\ EndedAt(j, e.frame.id)
            /\ MarksOf(lines, e.thr, i, j) # {}
    BY <1>5 DEF Dropping
  <2>2. BeganAt(i, e.outer)' /\ EndedAt(j, e.frame.id)' /\ i \in 1..Len(lines') /\ j \in 1..Len(lines')
    BY <1>2, <2>1 DEF BeganAt, EndedAt
  <2>3. MarksOf(lines', e.thr, i, j) # {}
    <3>1. PICK m \in (i + 1)..(j - 1) : IsMark(lines[m], e.thr)
      BY <2>1 DEF MarksOf
    <3>2. m \in 1..Len(lines)
      BY <1>1
    <3>3. IsMark(lines'[m], e.thr)
      BY <1>2, <3>1, <3>2
    <3>4. QED
      BY <3>3 DEF MarksOf
  <2>4. QED
    BY <2>2, <2>3 DEF Dropping
<1>6. QED
  BY <1>3, <1>4, <1>5 DEF Told

\* The invocation at the top of t's stack ends.
EndOf(t) ==
    [frame |-> Top(t), thr |-> t, outer |-> stack[t][Min(Users(t))].id,
     quiet |-> Quiet(t), hooked |-> t \in hooked]

LEMMA EndNew ==
    ASSUME AllInv, Reading, NEW t \in Thread, ExitUser(t), Enabled("exit"), Top(t).seen,
           lines' \in Seq(Line), NEW e, e = EndOf(t)
    PROVE  Grouped(e)' /\ Told(e)'
<1>1. /\ attached' = attached /\ hooked' = hooked /\ caps = Events
      /\ stack[t] # <<>> /\ stack[t][Len(stack[t])].kind = "user" /\ t \in running
  BY ScopeEnabled DEF ExitUser, init, opts, TopKind, Top, InNative, AllInv
<1>2. /\ stack[t] \in Seq(Frame) /\ groups \in GroupState /\ lines \in Seq(Line)
      /\ groups.open[t] \in Seq(GroupRec) /\ groups.done \in Seq(GroupRec)
  BY AllTyped
<1>3. PICK s \in Seq(Frame), o \in Seq(GroupRec), d \in Seq(GroupRec) :
          s = stack[t] /\ o = groups.open[t] /\ d = groups.done
  BY <1>2
<1>4. s # <<>> /\ s[Len(s)].kind = "user" /\ Len(s) \in 1..Len(s) /\ s[Len(s)].seen
  BY <1>1, <1>3 DEF Top
<1>5. /\ e.frame = s[Len(s)] /\ e.thr = t /\ (e.hooked <=> t \in hooked) /\ (e.quiet <=> Quiet(t))
      /\ e.outer = s[Min(UserAt(s))].id
  <2>1. Users(t) = UserAt(s)
    BY <1>3 DEF Users, UserAt
  <2>2. e.frame = s[Len(s)] /\ e.thr = t /\ e.outer = s[Min(UserAt(s))].id
    BY <1>3, <2>1 DEF EndOf, Top
  <2>3. e.hooked = (t \in hooked) /\ e.quiet = Quiet(t)
    BY Zenon DEF EndOf
  <2>4. QED
    BY <2>2, <2>3
<1>6. e.quiet <=> QuietAt(s, Len(s))
  <2>1. Quiet(t) <=> QuietAt(stack[t], Len(stack[t]))
    BY DEF Quiet, QuietAt
  <2>2. Quiet(t) <=> QuietAt(s, Len(s))
    BY <1>3, <2>1, Zenon
  <2>3. QED
    BY <1>5, <2>2, Zenon
<1>7. t \notin hooked => e.frame.n = 0
  BY <1>3, <1>4, <1>5 DEF AllInv, CallsInv, CountsOk
<1>8. PICK l \in Line : /\ l.ev = "exit" /\ l.thr = t /\ l.by = e.frame.id
                        /\ lines' = Append(lines, l)
  <2>1. Write("exit", t, e.frame.id, 0)
    BY <1>3, <1>5 DEF ExitUser, Top
  <2>2. e.frame.id \in Nat
    <3>1. s[Len(s)] \in Frame
      BY <1>4
    <3>2. QED
      BY <1>5, <3>1 DEF Frame
  <2>3. PICK k \in Nat : k = e.frame.id
    BY <2>2
  <2>4. PICK l \in Line : l = Record("exit", t, k, 0) /\ l.ev = "exit" /\ l.thr = t /\ l.by = k
    BY RecordTyped
  <2>5. lines' = Append(lines, l)
    BY <2>1, <2>3, <2>4 DEF Write
  <2>6. QED
    BY <2>3, <2>4, <2>5
<1>9. CASE ~InScope(t)
  <2>1. attached /\ t \notin hooked
    BY <1>1, <1>9 DEF InScope
  <2>2. QED
    BY <1>1, <1>5, <1>7, <2>1 DEF Grouped, Told
<1>10. CASE InScope(t)
  <2>1. PICK loose : loose = truncated[t]
    OBVIOUS
  <2>2. Paired(s, o, loose)
    BY <1>1, <1>3, <1>10, <2>1 DEF AllInv, GroupsInv, Tracked
  <2>3. /\ o # <<>> /\ Len(o) \in 1..Len(o)
        /\ Match(o[Len(o)], s[Len(s)]) /\ Exact(s, Len(s), o[Len(o)], loose)
    BY <1>4, <2>2, PairedPop
  <2>4. PICK g0 \in GroupRec, g \in GroupRec : g0 = o[Len(o)] /\ g = Collapsed(g0)
    BY <2>3, CollapsedIs
  <2>12. /\ g.key = g0.key /\ g.exc = g0.exc /\ Numbered(g) = Numbered(g0)
                /\ g.kept = CollapseRepeats(g.calls)
    BY <2>4, CollapsedIs
  <2>5. g.key = e.frame.id /\ (g.exc <=> e.frame.exc)
        /\ (loose \/ e.quiet \/ Numbered(g) = e.frame.n)
    BY <1>5, <1>6, <2>3, <2>4, <2>12 DEF Match, Exact
  <2>6. PICK d2 : d2 = Append(d, g)
    OBVIOUS
  <2>7. groups'.done = d2
    <3>1. groups' = Group(groups, l)
      BY <1>2, <1>8, ReadOne DEF Reading
    <3>2. Group(groups, l) =
            [open |-> [groups.open EXCEPT ![l.thr] =
                         SubSeq(groups.open[l.thr], 1, Len(groups.open[l.thr]) - 1)],
             done |-> Append(groups.done, Collapsed(groups.open[l.thr][Len(groups.open[l.thr])]))]
      BY <1>2, <1>3, <1>8, <2>3, GroupExit
    <3>3. groups'.done = Append(groups.done, Collapsed(groups.open[t][Len(groups.open[t])]))
      BY <1>8, <3>1, <3>2
    <3>4. QED
      BY <1>3, <2>4, <2>6, <3>3
  <2>8. Len(d2) = Len(d) + 1 /\ Len(d2) \in 1..Len(d2) /\ d2[Len(d2)] = g
    BY <2>6
  <2>9. Grouped(e)'
    <3>1. g.exc = e.frame.exc
      <4>1. PICK f \in Frame : f = s[Len(s)]
        BY <1>4
      <4>2. g.exc \in BOOLEAN /\ f.exc \in BOOLEAN
        BY DEF GroupRec, Frame
      <4>3. g.exc <=> f.exc
        BY <2>3, <2>4, <2>12, <4>1 DEF Match
      <4>4. g.exc = f.exc
        BY <4>2, <4>3
      <4>5. QED
        BY <1>5, <4>1, <4>4, Zenon
    <3>2. d2[Len(d2)].key = e.frame.id /\ d2[Len(d2)].exc = e.frame.exc
      BY <2>5, <2>8, <3>1, Zenon
    <3>3. QED
      BY <2>7, <2>8, <3>2, Zenon DEF Grouped
  <2>10. Told(e)'
    <3>1. CASE Numbered(g) = e.frame.n
      <4>1. \E k \in 1..Len(d2) :
                /\ d2[k].key = e.frame.id /\ Numbered(d2[k]) = e.frame.n
                /\ d2[k].kept = CollapseRepeats(d2[k].calls)
        BY <2>5, <2>8, <2>12, <3>1
      <4>2. QED
        BY <2>7, <4>1 DEF Told, Complete
    <3>2. CASE e.quiet \/ t \notin hooked
      BY <1>7, <3>2 DEF Told
    <3>3. CASE t \in hooked /\ loose
      <4>1. MaxFrameEvents > 0 /\ truncated[t]
        BY <2>1, <3>3 DEF AllInv, CallsInv, Budgeted
      <4>2. Marked(t) = 1
        BY <3>3, <4>1 DEF Marked
      <4>3. UserAt(stack[t]) # {}
        <5>1. Len(s) \in DOMAIN s
          BY <1>4
        <5>2. QED
          BY <1>3, <1>4, <5>1 DEF UserAt
      <4>4. PICK i \in 1..Len(lines) :
                /\ BeganAt(i, stack[t][Min(UserAt(stack[t]))].id)
                /\ Within(lines, t, i, Spent(t), Marked(t))
        BY <4>1, <4>3 DEF AllInv, BudgetInv, BudgetKept
      <4>5. Cardinality(MarksAfter(lines, t, i)) = 1
        BY <4>2, <4>4 DEF Within
      <4>6. MarksAfter(lines, t, i) # {}
        <5>1. SUFFICES ASSUME MarksAfter(lines, t, i) = {} PROVE FALSE
          OBVIOUS
        <5>2. Cardinality(MarksAfter(lines, t, i)) = Cardinality({})
          BY <5>1, Zenon
        <5>3. QED
          BY <4>5, <5>2, EmptyStack
      <4>7. PICK m \in (i + 1)..Len(lines) : IsMark(lines[m], t)
        BY <4>6 DEF MarksAfter
      <4>8. PICK M : M = lines' /\ M = Append(lines, l)
        BY <1>8
      <4>9. /\ Len(lines) \in Nat /\ Len(M) = Len(lines) + 1 /\ M[Len(M)] = l
            /\ \A k \in 1..Len(lines) : M[k] = lines[k]
        BY <1>2, <4>8
      <4>10. i \in 1..Len(M) /\ Len(M) \in 1..Len(M) /\ m \in (i + 1)..(Len(M) - 1)
             /\ m \in 1..Len(lines)
        BY <4>9
      <4>11. BeganAt(i, e.outer)'
        BY <1>3, <1>5, <4>4, <4>8, <4>9, <4>10 DEF BeganAt
      <4>12. EndedAt(Len(M), e.frame.id)'
        BY <1>8, <4>8, <4>9, <4>10 DEF EndedAt
      <4>13. MarksOf(M, e.thr, i, Len(M)) # {}
        <5>1. IsMark(M[m], e.thr)
          BY <1>5, <4>7, <4>9, <4>10
        <5>2. QED
          BY <4>10, <5>1 DEF MarksOf
      <4>14. QED
        BY <4>8, <4>10, <4>11, <4>12, <4>13 DEF Told, Dropping
    <3>4. QED
      BY <2>5, <3>1, <3>2, <3>3
  <2>11. QED
    BY <2>9, <2>10
<1>11. QED
  BY <1>9, <1>10


LEMMA EndsStep ==
    ASSUME AllInv, AllInv', EndsInv, [Next]_vars, Reading, DoneGrows
    PROVE  EndsInv'
<1>1. Longer(lines, lines')
  BY LinesGrow
<1>2. attached' = attached
  BY DEF Next, InitStep, StartThread, EndThread, EnterUser, EnterJdk, ExitUser, ExitJdk, Plain,
         LookupOutside, Reference, CallUp, ReturnUp, Exception, vars, init, opts
<1>3. ASSUME NEW e \in ended PROVE Grouped(e)' /\ Told(e)'
  <2>1. Grouped(e) /\ Told(e)
    BY <1>3 DEF EndsInv
  <2>2. QED
    BY <1>1, <1>2, <2>1, EndStays
<1>4. CASE \E t \in Thread : ExitUser(t)
  <2>1. PICK t \in Thread : ExitUser(t)
    BY <1>4
  <2>2. CASE Enabled("exit") /\ Top(t).seen
    <3>1. PICK e : e = EndOf(t)
      OBVIOUS
    <3>2. ended' = ended \cup {e}
      BY <2>1, <2>2, <3>1 DEF ExitUser, EndOf
    <3>3. lines' \in Seq(Line)
      BY <1>1 DEF Longer
    <3>4. Grouped(e)' /\ Told(e)'
      BY <2>1, <2>2, <3>1, <3>3, EndNew
    <3>5. QED
      BY <1>3, <3>2, <3>4 DEF EndsInv
  <2>3. CASE ~(Enabled("exit") /\ Top(t).seen)
    <3>1. ended' = ended
      BY <2>1, <2>3 DEF ExitUser
    <3>2. QED
      BY <1>3, <3>1 DEF EndsInv
  <2>4. QED
    BY <2>2, <2>3
<1>5. CASE ~\E t \in Thread : ExitUser(t)
  <2>1. ended' = ended
    BY <1>5 DEF Next, InitStep, StartThread, EndThread, EnterUser, EnterJdk, ExitJdk, Plain,
                LookupOutside, Reference, CallUp, ReturnUp, Exception, vars, bounds
  <2>2. QED
    BY <1>3, <2>1 DEF EndsInv
<1>6. QED
  BY <1>4, <1>5

LEMMA EndsAlways == RecoverySpec => [](AllInv /\ EndsInv)
<1>1. RecoveryInit => AllInv /\ EndsInv
  BY AllInit DEF RecoveryInit, Init, EndsInv
<1>2. AllInv /\ EndsInv /\ [RecoveryNext]_<<vars, groups>> => AllInv' /\ EndsInv'
  BY AllStep, EndsStep
<1>3. QED
  BY <1>1, <1>2, PTL DEF RecoverySpec

\* The invocations are recovered one by one: each that the agent followed from its
\* enter to its exit has exactly one group, whatever is nested in it, and the group
\* says of exceptions what happened while it was active, in its callees too.
THEOREM GroupsAreOwn == RecoverySpec => []EachEndsOnce
<1>1. AllInv /\ EndsInv => EachEndsOnce
  <2>1. SUFFICES ASSUME AllInv, EndsInv, NEW e \in ended, e.hooked \/ ~attached
                 PROVE  /\ Cardinality({i \in DOMAIN groups.done : groups.done[i].key = e.frame.id}) = 1
                        /\ \A g \in ToSet(groups.done) : g.key = e.frame.id => g.exc = e.frame.exc
    BY DEF EachEndsOnce
  <2>2. PICK k \in 1..Len(groups.done) :
            groups.done[k].key = e.frame.id /\ groups.done[k].exc = e.frame.exc
    BY <2>1 DEF EndsInv, Grouped
  <2>3. groups.done \in Seq(GroupRec) /\ Distinct(groups.done)
    BY <2>1 DEF AllInv, GroupsInv, GroupsOk, GroupState, KeysDiffer
  <2>4. DOMAIN groups.done = 1..Len(groups.done)
    BY <2>3
  <2>5. {i \in DOMAIN groups.done : groups.done[i].key = e.frame.id} = {k}
    BY <2>2, <2>3, <2>4 DEF Distinct
  <2>6. Cardinality({k}) = 1
    BY FS_Singleton
  <2>7. ASSUME NEW g \in ToSet(groups.done), g.key = e.frame.id PROVE g.exc = e.frame.exc
    <3>1. PICK i \in 1..Len(groups.done) : g = groups.done[i]
      BY <2>4, <2>7 DEF ToSet
    <3>2. i = k
      BY <2>2, <2>3, <2>7, <3>1 DEF Distinct
    <3>3. QED
      BY <2>2, <3>1, <3>2, Zenon
  <2>8. QED
    BY <2>5, <2>6, <2>7
<1>2. QED
  BY <1>1, EndsAlways, PTL

\* The calls of a group to which none is missing are 1, 2, 3 and so on.
LEMMA AllNumbers ==
    ASSUME NEW g \in GroupRec, Once(g), NEW n \in 1..Numbered(g)
    PROVE  \E i \in DOMAIN g.calls : g.calls[i] = [by |-> g.key, n |-> n]
<1> DEFINE f == [i \in NumberedAt(g) |-> g.calls[i].n]
           T == {g.calls[i].n : i \in NumberedAt(g)}
<1>1. Numbered(g) \in Nat /\ IsFiniteSet(NumberedAt(g))
  BY NumberedIsNat
<1>2. \A i \in DOMAIN g.calls : g.calls[i] \in CallRec
  BY DEF GroupRec
<1>3. T \subseteq 1..Numbered(g)
  <2>1. ASSUME NEW i \in NumberedAt(g) PROVE g.calls[i].n \in 1..Numbered(g)
    <3>1. i \in DOMAIN g.calls /\ g.calls[i].n > 0 /\ g.calls[i].n <= Numbered(g)
      BY DEF Once, NumberedAt
    <3>2. g.calls[i].n \in Nat
      BY <1>2, <3>1 DEF CallRec
    <3>3. QED
      BY <1>1, <3>1, <3>2
  <2>2. QED
    BY <2>1
<1>4. f \in Bijection(NumberedAt(g), T)
  <2>1. f \in [NumberedAt(g) -> T] /\ DOMAIN f = NumberedAt(g)
    OBVIOUS
  <2>2. \A c \in T : \E i \in NumberedAt(g) : f[i] = c
    OBVIOUS
  <2>3. \A i, j \in NumberedAt(g) : f[i] = f[j] => i = j
    BY DEF NumberedAt, Once
  <2> HIDE DEF f, T
  <2>4. QED
    BY <2>1, <2>2, <2>3 DEF Bijection, Injection, Surjection, IsInjective
<1> HIDE DEF f, T
<1>5. Cardinality(T) = Numbered(g)
  <2>1. ExistsBijection(NumberedAt(g), T)
    BY <1>4 DEF ExistsBijection
  <2>2. QED
    BY <1>1, <2>1, FS_Bijection DEF Numbered
<1>6. IsFiniteSet(1..Numbered(g)) /\ Cardinality(1..Numbered(g)) = Numbered(g)
  <2>1. 1 \in Int /\ Numbered(g) \in Int
    BY <1>1
  <2>2. QED
    BY <1>1, <2>1, FS_Interval
<1>7. T = 1..Numbered(g)
  BY <1>3, <1>5, <1>6, FS_Subset
<1>8. PICK i \in NumberedAt(g) : g.calls[i].n = n
  BY <1>7 DEF T
<1>9. i \in DOMAIN g.calls /\ g.calls[i].n > 0 /\ g.calls[i].by = g.key
  BY DEF NumberedAt, Once
<1>10. PICK c \in CallRec : c = g.calls[i]
  BY <1>2, <1>9
<1>11. c = [by |-> c.by, n |-> c.n]
  BY DEF CallRec
<1>12. QED
  BY <1>8, <1>9, <1>10, <1>11

\* Nothing is dropped in silence: of every call of an invocation its group keeps
\* one of that shape, or the marker of a used-up budget stands between the enter
\* of the outermost invocation and the exit of this one, or it ran below a class
\* library.
THEOREM DropsAreTold == RecoverySpec => []DropsAreMarked
<1>1. AllInv /\ EndsInv => DropsAreMarked
  <2>1. SUFFICES ASSUME AllInv, EndsInv, NEW e \in ended, NEW g \in ToSet(groups.done),
                        g.key = e.frame.id
                 PROVE  \/ e.quiet
                        \/ Between(e.thr, "truncate", EnterOf(e.outer), ExitOf(g.key)) # {}
                        \/ \A n \in 1..e.frame.n : \E m \in g.kept :
                               Sig[g.calls[m]] = Sig[[by |-> g.key, n |-> n]]
    BY DEF DropsAreMarked
  <2>2. /\ groups.done \in Seq(GroupRec) /\ Distinct(groups.done) /\ OnceIn(groups.done)
        /\ lines \in Seq(Line) /\ LinesDiffer
    BY <2>1 DEF AllInv, GroupsInv, GroupsOk, GroupState, KeysDiffer, AllOnce, BudgetInv, Recorded
  <2>3. DOMAIN groups.done = 1..Len(groups.done) /\ DOMAIN lines = 1..Len(lines)
    BY <2>2
  <2>4. PICK i \in 1..Len(groups.done) : g = groups.done[i]
    BY <2>1, <2>3 DEF ToSet
  <2>5. g \in GroupRec /\ Once(g)
    BY <2>2, <2>4 DEF OnceIn
  <2>6. ASSUME Complete(e)
        PROVE  \A n \in 1..e.frame.n : \E m \in g.kept :
                   Sig[g.calls[m]] = Sig[[by |-> g.key, n |-> n]]
    <3>1. PICK k \in 1..Len(groups.done) :
              /\ groups.done[k].key = e.frame.id /\ Numbered(groups.done[k]) = e.frame.n
              /\ groups.done[k].kept = CollapseRepeats(groups.done[k].calls)
      BY <2>6 DEF Complete
    <3>2. k = i
      BY <2>1, <2>2, <2>4, <3>1 DEF Distinct
    <3>3. Numbered(g) = e.frame.n /\ g.kept = CollapseRepeats(g.calls)
      BY <2>4, <3>1, <3>2
    <3>4. DOMAIN g.calls = 1..Len(g.calls) /\ Len(g.calls) \in Nat
      BY <2>5 DEF GroupRec
    <3>5. ASSUME NEW n \in 1..e.frame.n
          PROVE  \E m \in g.kept : Sig[g.calls[m]] = Sig[[by |-> g.key, n |-> n]]
      <4>1. PICK p \in DOMAIN g.calls : g.calls[p] = [by |-> g.key, n |-> n]
        BY <2>5, <3>3, AllNumbers
      <4>2. \E m \in CollapseRepeats(g.calls) : Sig[g.calls[m]] = Sig[g.calls[p]]
        BY <3>4, ShapesStay
      <4>3. QED
        BY <3>3, <4>1, <4>2
    <3>6. QED
      BY <3>5
  <2>7. ASSUME e.frame.n = 0
        PROVE  \A n \in 1..e.frame.n : \E m \in g.kept :
                   Sig[g.calls[m]] = Sig[[by |-> g.key, n |-> n]]
    <3>1. 1..e.frame.n = {}
      BY <2>7
    <3>2. QED
      BY <3>1
  <2>8. e.quiet \/ e.frame.n = 0 \/ Dropping(e) \/ Complete(e)
    BY <2>1 DEF EndsInv, Told
  <2>9. ASSUME Dropping(e)
        PROVE  Between(e.thr, "truncate", EnterOf(e.outer), ExitOf(g.key)) # {}
    <3>1. PICK m \in 1..Len(lines), j \in 1..Len(lines) :
              /\ BeganAt(m, e.outer) /\ EndedAt(j, e.frame.id)
              /\ MarksOf(lines, e.thr, m, j) # {}
      BY <2>9 DEF Dropping
    <3>2. e.outer # 0 /\ e.frame.id # 0
      BY <2>1 DEF AllInv, BudgetInv, SpanKept
    <3>3. EnterOf(e.outer) = m
      <4>1. \A l \in DOMAIN lines : lines[l].ev = "enter" /\ lines[l].by = e.outer <=> l = m
        BY <2>2, <2>3, <3>1, <3>2 DEF BeganAt, LinesDiffer
      <4>2. QED
        BY <2>3, <4>1 DEF EnterOf
    <3>4. ExitOf(g.key) = j
      <4>1. \A l \in DOMAIN lines : lines[l].ev = "exit" /\ lines[l].by = e.frame.id <=> l = j
        BY <2>2, <2>3, <3>1, <3>2 DEF EndedAt, LinesDiffer
      <4>2. QED
        BY <2>1, <2>3, <4>1 DEF ExitOf
    <3>5. Between(e.thr, "truncate", m, j) = MarksOf(lines, e.thr, m, j)
      BY DEF Between, MarksOf, IsMark
    <3>6. QED
      BY <3>1, <3>3, <3>4, <3>5
  <2>10. QED
    BY <2>6, <2>7, <2>8, <2>9
<1>2. QED
  BY <1>1, EndsAlways, PTL
====
