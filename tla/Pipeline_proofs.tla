--------------------------- MODULE Pipeline_proofs ---------------------------
(***************************************************************************)
(* Theorems about the commands over one working directory, for any number  *)
(* of commands, kills and changes of the host, any jars and any file names *)
(* that collide.                                                           *)
(***************************************************************************)
EXTENDS Pipeline, TLAPS

(***************************************************************************)
(* A healthy host                                                          *)
(***************************************************************************)
HealthInv ==
    /\ host \in Hosts
    /\ healthy => Healthy(host)
    /\ HealthyRuns

\* What doctor found, as far as the stages rely on it.
LEMMA HealthyHas ==
    ASSUME NEW h, Healthy(h)
    PROVE  /\ Modules \subseteq h.built /\ "binary_introspect" \in h.imports /\ h.agent = "good"
           /\ CheckModules(h) = "ok" /\ CheckAgent(h) = "ok"
           /\ h.home = "unset" => h.path # "none"
<1>1. DOMAIN Checks(h) = {"java", "python", "deps", "modules", "agent"}
  BY DEF Checks
<1>2. \A c \in {"java", "python", "deps", "modules", "agent"} : Checks(h)[c] # "missing"
  BY <1>1 DEF Healthy, Blocking
<1>3. CheckJava(h) # "missing" /\ CheckDeps(h) # "missing" /\ CheckModules(h) # "missing"
      /\ CheckAgent(h) # "missing"
  BY <1>2 DEF Checks
<1>4. QED
  BY <1>3 DEF CheckJava, CheckDeps, CheckModules, CheckAgent, JavaExecutable

Tools == {"parse", "inspect", "merge", "stubs", "trace", "toBc", "lift", "rebuild"}

\* What a healthy host lacks can only be Java or a package that doctor does not try.
LEMMA HealthyNeeds ==
    ASSUME host \in Hosts, Healthy(host), NEW s \in Tools
    PROVE  /\ Needs(s) \in {"ok", "java", "manifest_merge", "ast_matcher"}
           /\ Needs(s) = "java" => host.home # "unset"
<1>1. /\ Modules \subseteq host.built /\ host.agent = "good"
      /\ host.home = "unset" => host.path # "none"
      /\ {"binary_introspect", "stub_recovery"} \subseteq host.imports
  BY HealthyHas, PipelineAssumption DEF IsHost
<1>2. \A m \in Modules : JvmNeeds(m) \in {"ok", "java"} /\ (JvmNeeds(m) = "java" => host.home # "unset")
  BY <1>1 DEF JvmNeeds, ScriptFindsJava
<1>3. TraceNeeds \in {"ok", "java"} /\ (TraceNeeds = "java" => host.home # "unset")
  BY <1>1 DEF TraceNeeds, AgentFound, AgentLoads
<1>4. {"jar-parser", "trace-to-bytecode", "class-rebuilder"} \subseteq Modules
  BY DEF Modules
<1>5. CASE s \in DOMAIN Imports
  BY <1>1, <1>5 DEF Needs, Imports
<1>6. CASE s \notin DOMAIN Imports
  BY <1>1, <1>2, <1>3, <1>4, <1>6 DEF Needs, Imports, Tools
<1>7. QED
  BY <1>5, <1>6

\* What a stage lacks is not the name of another outcome.
LEMMA NeedsNames ==
    ASSUME NEW s
    PROVE  Needs(s) \notin {"running", "idle"}
BY DEF Needs, JvmNeeds, TraceNeeds, Imports

Fine == {"running", "ok", "data", "target", "interrupted", "unhealthy"}

LEMMA HealthStep ==
    ASSUME HealthInv, [Next]_vars
    PROVE  HealthInv'
<1>1. CASE HostChanges
  BY <1>1 DEF HostChanges, HealthInv, HealthyRuns
<1>2. CASE DoctorStage
  BY <1>2 DEF DoctorStage, Ok, Stop, HealthInv, HealthyRuns
<1>3. CASE MissingTool
  <2>1. PICK s \in Tools : outcome' = Needs(s) /\ Needs(s) # "ok"
    BY <1>3 DEF MissingTool, Lacks, Stop, Tools
  <2>2. UNCHANGED <<host, healthy>>
    BY <1>3 DEF MissingTool, Lacks, Stop, NothingWritten
  <2>3. healthy => \/ Needs(s) = "java" /\ host.home # "unset"
                   \/ Needs(s) \in {"manifest_merge", "ast_matcher"}
    BY <2>1, HealthyNeeds DEF HealthInv
  <2>4. QED
    BY <2>1, <2>2, <2>3 DEF HealthInv, HealthyRuns
<1>4. CASE Preflight
  <2>1. healthy => ~("missing" \in PreflightNeeds(cmd))
    BY HealthyHas DEF HealthInv, PreflightNeeds
  <2>2. UNCHANGED <<host, healthy>>
    BY <1>4 DEF Preflight, Ok, Stop
  <2>3. healthy => outcome' \in {"ok", "running"}
    BY <1>4, <2>1 DEF Preflight, Ok
  <2>4. QED
    BY <2>2, <2>3 DEF HealthInv, HealthyRuns
<1>5. CASE Start \/ Interrupted
  BY <1>5 DEF Start, Interrupted, HealthInv, HealthyRuns
<1>6. CASE BadData
  BY <1>6 DEF BadData, Stop, NothingWritten, HealthInv, HealthyRuns
<1>7. CASE ParseJar \/ ExtractLib \/ InspectBinary \/ MergeManifest \/ DynamicTrace
           \/ TraceToBc \/ StaticReverse \/ SynthStubs \/ Rebuild
  <2>1. UNCHANGED <<host, healthy>> /\ outcome' \in Fine
    BY <1>7 DEF ParseJar, ExtractLib, InspectBinary, MergeManifest, DynamicTrace, TraceToBc,
                StaticReverse, SynthStubs, Rebuild, Ok, Stop, Fine
  <2>2. QED
    BY <2>1 DEF HealthInv, HealthyRuns, Fine
<1>8. CASE UNCHANGED vars
  BY <1>8 DEF vars, HealthInv, HealthyRuns
<1>9. QED
  BY <1>1, <1>2, <1>3, <1>4, <1>5, <1>6, <1>7, <1>8 DEF Next

\* As long as the host stays what doctor found healthy, no command, whatever its
\* stages, ends for want of a module, an agent, binary_introspect or, with
\* JAVA_HOME unset, Java.
THEOREM HealthyMeansRuns == Spec => []HealthyRuns
<1>1. Init => HealthInv
  BY DEF Init, HealthInv, HealthyRuns
<1>2. HealthInv /\ [Next]_vars => HealthInv'
  BY HealthStep
<1>3. HealthInv => HealthyRuns
  BY DEF HealthInv
<1>4. QED
  BY <1>1, <1>2, <1>3, PTL DEF Spec

(***************************************************************************)
(* The stages of recover                                                   *)
(***************************************************************************)
Late == {"trace", "toBc", "lift", "rebuild"}

LEMMA Tuples ==
    ASSUME NEW S, NEW x1 \in S, NEW x2 \in S, NEW x3 \in S, NEW x4 \in S, NEW x5 \in S
    PROVE  /\ <<>> \in Seq(S) /\ Len(<<>>) = 0
           /\ <<x1>> \in Seq(S) /\ Len(<<x1>>) = 1 /\ <<x1>>[1] = x1
           /\ <<x1, x2>> \in Seq(S) /\ Len(<<x1, x2>>) = 2
           /\ <<x1, x2>>[1] = x1 /\ <<x1, x2>>[2] = x2
           /\ <<x1, x2, x3, x4, x5>> \in Seq(S) /\ Len(<<x1, x2, x3, x4, x5>>) = 5
           /\ <<x1, x2, x3, x4, x5>>[1] = x1 /\ <<x1, x2, x3, x4, x5>>[2] = x2
           /\ <<x1, x2, x3, x4, x5>>[3] = x3 /\ <<x1, x2, x3, x4, x5>>[4] = x4
           /\ <<x1, x2, x3, x4, x5>>[5] = x5
  OBVIOUS

LEMMA Joined ==
    ASSUME NEW S, NEW s \in Seq(S), NEW r \in Seq(S)
    PROVE  /\ s \o r \in Seq(S) /\ Len(s \o r) = Len(s) + Len(r)
           /\ Len(s) \in Nat /\ Len(r) \in Nat
  OBVIOUS

LEMMA JoinedAt ==
    ASSUME NEW S, NEW s \in Seq(S), NEW r \in Seq(S), NEW i \in 1..Len(s) + Len(r)
    PROVE  (s \o r)[i] = IF i <= Len(s) THEN s[i] ELSE r[i - Len(s)]
  OBVIOUS

Early == {"preflight", "parse", "lib", "inspect", "merge"}

\* The order of the stages, as far as they rely on each other.
InOrder(q) ==
    /\ q \in Seq(Early \cup Late) /\ Len(q) >= 5
    /\ q[1] = "preflight" /\ q[2] = "parse" /\ q[3] = "lib" /\ q[4] = "inspect" /\ q[5] = "merge"
    /\ \A i \in 6..Len(q) : q[i] \in Late /\ (q[i] = "toBc" => q[i - 1] = "trace")

LEMMA OneStageMore ==
    ASSUME NEW q, InOrder(q), NEW x \in {"lift", "rebuild"}
    PROVE  InOrder(q \o <<x>>) /\ Len(q \o <<x>>) > 5
<1> DEFINE S == Early \cup Late
           r == <<x>>
           w == q \o r
<1>1. r \in Seq(S) /\ Len(r) = 1 /\ r[1] = x
  <2>1. x \in S
    BY DEF Late
  <2> HIDE DEF S
  <2>2. QED
    BY <2>1, Tuples
<1>2. q \in Seq(S) /\ Len(q) >= 5
  BY DEF InOrder
<1> HIDE DEF r, S
<1>3. /\ w \in Seq(S) /\ Len(w) = Len(q) + 1 /\ Len(q) \in Nat
      /\ \A i \in 1..Len(q) : w[i] = q[i]
      /\ w[Len(q) + 1] = x
  <2>1. /\ w \in Seq(S) /\ Len(w) = Len(q) + Len(r) /\ Len(q) \in Nat
        /\ \A i \in 1..Len(q) : w[i] = q[i]
        /\ \A i \in 1..Len(r) : w[Len(q) + i] = r[i]
    <3>1. q \in Seq(S) /\ r \in Seq(S)
      BY <1>1, <1>2
    <3>2. w \in Seq(S) /\ Len(w) = Len(q) + Len(r) /\ Len(q) \in Nat /\ Len(r) \in Nat
      BY <3>1, Joined
    <3>3. \A i \in 1..Len(q) + Len(r) : w[i] = IF i <= Len(q) THEN q[i] ELSE r[i - Len(q)]
      BY <3>1, JoinedAt
    <3> HIDE DEF w
    <3>4. QED
      BY <3>2, <3>3
  <2> HIDE DEF w
  <2>2. 1 \in 1..Len(r)
    BY <1>1
  <2>3. w[Len(q) + 1] = x
    BY <1>1, <2>1, <2>2
  <2>4. QED
    BY <1>1, <2>1, <2>3
<1> HIDE DEF w
<1>4. \A i \in 6..Len(w) : w[i] \in Late /\ (w[i] = "toBc" => w[i - 1] = "trace")
  <2>1. ASSUME NEW i \in 6..Len(w), i <= Len(q)
        PROVE  w[i] \in Late /\ (w[i] = "toBc" => w[i - 1] = "trace")
    <3>1. i \in 6..Len(q) /\ i \in 1..Len(q) /\ i - 1 \in 1..Len(q)
      BY <1>3, <2>1
    <3>2. w[i] = q[i] /\ w[i - 1] = q[i - 1]
      BY <1>3, <3>1
    <3>3. QED
      BY <3>1, <3>2 DEF InOrder
  <2>2. ASSUME NEW i \in 6..Len(w), ~(i <= Len(q)) PROVE w[i] = x
    BY <1>3, <2>2
  <2>3. x \in Late /\ x # "toBc"
    BY DEF Late
  <2>4. QED
    BY <2>1, <2>2, <2>3
<1>5. w[1] = q[1] /\ w[2] = q[2] /\ w[3] = q[3] /\ w[4] = q[4] /\ w[5] = q[5]
  BY <1>2, <1>3
<1>6. InOrder(w) /\ Len(w) > 5
  BY <1>2, <1>3, <1>4, <1>5 DEF InOrder, S
<1>7. QED
  BY <1>6 DEF w, r

LEMMA StagesOfRecover ==
    ASSUME NEW c
    PROVE  InOrder(RecoverStages(c)) /\ Len(RecoverStages(c)) > 5
<1> DEFINE a == <<"preflight", "parse", "lib", "inspect", "merge">>
           b == <<"trace", "toBc">>
           S == Early \cup Late
<1>1. /\ a \in Seq(S) /\ Len(a) = 5 /\ a[1] = "preflight" /\ a[2] = "parse"
      /\ a[3] = "lib" /\ a[4] = "inspect" /\ a[5] = "merge"
  <2>1. /\ "preflight" \in S /\ "parse" \in S /\ "lib" \in S /\ "inspect" \in S /\ "merge" \in S
    BY DEF Early
  <2> HIDE DEF S
  <2>2. QED
    BY <2>1, Tuples
<1>2. b \in Seq(S) /\ Len(b) = 2 /\ b[1] = "trace" /\ b[2] = "toBc"
  <2>1. "trace" \in S /\ "toBc" \in S
    BY DEF Late
  <2> HIDE DEF S
  <2>2. QED
    BY <2>1, Tuples
<1>3. <<>> \in Seq(S) /\ \A s \in Seq(S) : s \o <<>> = s
  OBVIOUS
<1> HIDE DEF a, b, S
<1>4. InOrder(a)
  BY <1>1 DEF InOrder, S
<1>5. InOrder(a \o b)
  <2> DEFINE w == a \o b
  <2>1. /\ w \in Seq(S) /\ Len(w) = 7 /\ \A i \in 1..5 : w[i] = a[i]
        /\ w[5 + 1] = b[1] /\ w[5 + 2] = b[2]
    <3>1. /\ w \in Seq(S) /\ Len(w) = Len(a) + Len(b)
          /\ \A i \in 1..Len(a) : w[i] = a[i]
          /\ \A i \in 1..Len(b) : w[Len(a) + i] = b[i]
      <4>1. a \in Seq(S) /\ b \in Seq(S)
        BY <1>1, <1>2
      <4>2. w \in Seq(S) /\ Len(w) = Len(a) + Len(b) /\ Len(a) \in Nat /\ Len(b) \in Nat
        BY <4>1, Joined
      <4>3. \A i \in 1..Len(a) + Len(b) : w[i] = IF i <= Len(a) THEN a[i] ELSE b[i - Len(a)]
        BY <4>1, JoinedAt
      <4> HIDE DEF w
      <4>4. QED
        BY <4>2, <4>3
    <3> HIDE DEF w
    <3>2. 1 \in 1..Len(b) /\ 2 \in 1..Len(b)
      BY <1>2
    <3>3. w[Len(a) + 1] = b[1] /\ w[Len(a) + 2] = b[2]
      BY <3>1, <3>2
    <3>4. QED
      BY <1>1, <1>2, <3>1, <3>3
  <2> HIDE DEF w
  <2>2. \A i \in 6..Len(w) : i = 6 \/ i = 7
    BY <2>1
  <2>3. w[6] = "trace" /\ w[7] = "toBc" /\ 7 - 1 = 6
    BY <1>2, <2>1
  <2>4. \A i \in 6..Len(w) : w[i] \in Late /\ (w[i] = "toBc" => w[i - 1] = "trace")
    BY <2>2, <2>3 DEF Late
  <2>5. InOrder(w)
    BY <1>1, <2>1, <2>4 DEF InOrder, S
  <2>6. QED
    BY <2>5 DEF w
<1>6. ASSUME NEW s, InOrder(s)
      PROVE  /\ InOrder(s \o <<>>) /\ InOrder(s \o <<"lift">>)
             /\ InOrder(s \o <<"rebuild">>) /\ Len(s \o <<"rebuild">>) > 5
  BY <1>3, <1>6, OneStageMore DEF InOrder, S
<1> DEFINE x == IF ~c.noDynamic /\ c.run THEN b ELSE <<>>
           y == IF ~c.noStatic /\ c.dump # {} THEN <<"lift">> ELSE <<>>
<1>7. InOrder(a \o x)
  BY <1>4, <1>5, <1>6
<1> HIDE DEF x
<1>8. InOrder((a \o x) \o y)
  BY <1>6, <1>7
<1> HIDE DEF y
<1>9. InOrder(((a \o x) \o y) \o <<"rebuild">>) /\ Len(((a \o x) \o y) \o <<"rebuild">>) > 5
  BY <1>6, <1>8
<1>10. RecoverStages(c) = ((a \o x) \o y) \o <<"rebuild">>
  BY DEF RecoverStages, a, b, x, y
<1>11. QED
  BY <1>9, <1>10

\* What is left of a sequence from place p on.
From(q, p) == SubSeq(q, p, Len(q))

LEMMA FromPlace ==
    ASSUME NEW S, NEW q \in Seq(S), NEW p \in 1..Len(q)
    PROVE  /\ Head(From(q, p)) = q[p]
           /\ Tail(From(q, p)) = From(q, p + 1)
           /\ From(q, Len(q) + 1) = <<>>
           /\ From(q, 1) = q
  BY DEF From

\* What the stages before place p of recover have left for the later ones.
Prepared(p) ==
    /\ p > 2 => classes.jar = cmd.jar
    /\ p > 4 => binary.lib = lib
    /\ p > 5 => manifest = [jar |-> cmd.jar, lib |-> lib, n |-> n]
    /\ RecoverStages(cmd)[p] = "toBc" => trace.jar = cmd.jar /\ trace.n = n

\* A recover that runs has come to some place of its stages.
StageInv ==
    Running /\ cmd.name = "recover" =>
        \E p \in 1..Len(RecoverStages(cmd)) :
            todo = From(RecoverStages(cmd), p) /\ Prepared(p)

LEMMA PlaceOf ==
    ASSUME NEW q, InOrder(q), NEW p \in 1..Len(q)
    PROVE  /\ q[p] = "preflight" => p = 1
           /\ q[p] = "parse" => p = 2
           /\ q[p] = "lib" => p = 3
           /\ q[p] = "inspect" => p = 4
           /\ q[p] = "merge" => p = 5
           /\ q[p] \in Late => p > 5
           /\ q[p] \in Early \cup Late
<1>1. Len(q) \in Nat /\ q[p] \in Early \cup Late
  BY DEF InOrder
<1>2. p \in 6..Len(q) => q[p] \in Late
  BY DEF InOrder
<1>3. p = 1 \/ p = 2 \/ p = 3 \/ p = 4 \/ p = 5 \/ p \in 6..Len(q)
  BY <1>1
<1>4. p \in 6..Len(q) => p > 5
  BY <1>1
<1>5. QED
  BY <1>1, <1>2, <1>3, <1>4 DEF InOrder, Late

LEMMA Halted ==
    ASSUME outcome' # "running"
    PROVE  StageInv'
  BY DEF StageInv, Running

\* A stage that ends well leaves the next one its place.
LEMMA Advance ==
    ASSUME StageInv, NEW s, Stage(s), Ok, cmd.name = "recover",
           \A p \in 1..Len(RecoverStages(cmd)) :
               /\ RecoverStages(cmd)[p] = s /\ Prepared(p) /\ p + 1 <= Len(RecoverStages(cmd))
               => Prepared(p + 1)'
    PROVE  StageInv'
<1> DEFINE q == RecoverStages(cmd)
<1>1. InOrder(q) /\ Len(q) > 5
  BY StagesOfRecover
<1>2. q \in Seq(Early \cup Late) /\ Len(q) \in Nat
  BY <1>1 DEF InOrder
<1>3. PICK p \in 1..Len(q) : todo = From(q, p) /\ Prepared(p)
  BY DEF StageInv, Stage
<1>4. /\ Head(todo) = q[p] /\ Tail(todo) = From(q, p + 1)
      /\ From(q, Len(q) + 1) = <<>>
  BY <1>2, <1>3, FromPlace
<1>5. cmd' = cmd /\ todo' = From(q, p + 1)
      /\ outcome' = IF From(q, p + 1) = <<>> THEN "ok" ELSE "running"
  BY <1>4 DEF Ok
<1>6. q[p] = s
  BY <1>4 DEF Stage
<1>7. p + 1 <= Len(q) => Prepared(p + 1)'
  BY <1>3, <1>6
<1>8. CASE p = Len(q)
  <2>1. outcome' = "ok"
    BY <1>4, <1>5, <1>8
  <2>2. QED
    BY <2>1, Halted
<1>9. CASE p # Len(q)
  <2>1. p + 1 \in 1..Len(q) /\ Prepared(p + 1)'
    BY <1>2, <1>7, <1>9
  <2>2. RecoverStages(cmd') = q /\ Len(RecoverStages(cmd')) = Len(q)
    BY <1>5
  <2> HIDE DEF q
  <2>3. QED
    BY <1>5, <2>1, <2>2 DEF StageInv
<1>10. QED
  BY <1>8, <1>9

LEMMA StageStep ==
    ASSUME StageInv, [Next]_vars
    PROVE  StageInv'
<1> DEFINE q == RecoverStages(cmd)
<1>1. InOrder(q) /\ Len(q) > 5 /\ Len(q) \in Nat /\ q \in Seq(Early \cup Late)
  BY StagesOfRecover DEF InOrder
<1>2. ASSUME NEW p \in 1..Len(q)
      PROVE  /\ q[p] = "preflight" => p = 1
             /\ q[p] = "parse" => p = 2
             /\ q[p] = "lib" => p = 3
             /\ q[p] = "inspect" => p = 4
             /\ q[p] = "merge" => p = 5
             /\ q[p] \in Late => p > 5
             /\ q[p] \in Early \cup Late
  BY <1>1, PlaceOf
<1>3. ASSUME NEW p \in 1..Len(q), cmd' = cmd, q[p] # "trace"
      PROVE  q[p + 1] = "toBc" /\ p + 1 <= Len(q) => FALSE
  <2>1. SUFFICES ASSUME q[p + 1] = "toBc", p + 1 <= Len(q) PROVE FALSE
    OBVIOUS
  <2>2. p + 1 \in 1..Len(q)
    BY <1>1, <2>1
  <2>3. p + 1 \in 6..Len(q)
    BY <1>1, <1>2, <2>1, <2>2 DEF Late
  <2>4. q[p + 1 - 1] = "trace"
    BY <1>1, <2>1, <2>3 DEF InOrder
  <2>5. QED
    BY <1>1, <1>3, <2>4
<1>4. CASE UNCHANGED vars
  BY <1>4 DEF vars, files, StageInv, Running, Prepared
<1>5. CASE HostChanges
  BY <1>5 DEF HostChanges, files, StageInv, Running, Prepared
<1>6. CASE Interrupted
  BY <1>6, Halted DEF Interrupted
<1>7. CASE BadData
  BY <1>7, Halted DEF BadData, Stop
<1>8. CASE MissingTool
  <2>1. PICK s \in Tools : outcome' = Needs(s)
    BY <1>8 DEF MissingTool, Lacks, Stop, Tools
  <2>2. Needs(s) # "running"
    BY NeedsNames
  <2>3. QED
    BY <2>1, <2>2, Halted
<1>9. CASE Start
  <2>1. PICK c \in Commands : cmd' = c /\ todo' = Stages(c)
    BY <1>9 DEF Start
  <2>2. SUFFICES ASSUME c.name = "recover" PROVE StageInv'
    BY <2>1 DEF StageInv
  <2> DEFINE r == RecoverStages(c)
  <2>3. InOrder(r) /\ Len(r) > 5 /\ r \in Seq(Early \cup Late) /\ Len(r) \in Nat
    BY StagesOfRecover DEF InOrder
  <2>4. 1 \in 1..Len(r) /\ From(r, 1) = r
    <3>1. 1 \in 1..Len(r)
      BY <2>3
    <3>2. QED
      BY <2>3, <3>1, FromPlace
  <2>5. todo' = r
    BY <2>1, <2>2 DEF Stages
  <2>6. r[1] # "toBc"
    BY <2>3 DEF InOrder
  <2>7. RecoverStages(cmd)' = r
    BY <2>1
  <2> HIDE DEF r
  <2>8. Prepared(1)'
    BY <2>6, <2>7 DEF Prepared
  <2>9. QED
    BY <2>4, <2>5, <2>7, <2>8 DEF StageInv
<1>10. SUFFICES ASSUME cmd.name = "recover", cmd' = cmd, n' = n, outcome' = "running",
                       Running,
                       Preflight \/ DoctorStage \/ ParseJar \/ ExtractLib \/ InspectBinary
                       \/ MergeManifest \/ DynamicTrace \/ TraceToBc \/ StaticReverse
                       \/ SynthStubs \/ Rebuild
                PROVE  StageInv'
  <2>1. ASSUME Preflight \/ DoctorStage \/ ParseJar \/ ExtractLib \/ InspectBinary
               \/ MergeManifest \/ DynamicTrace \/ TraceToBc \/ StaticReverse
               \/ SynthStubs \/ Rebuild
        PROVE  cmd' = cmd /\ n' = n /\ Running
    BY <2>1 DEF Preflight, DoctorStage, ParseJar, ExtractLib, InspectBinary, MergeManifest,
       DynamicTrace, TraceToBc, StaticReverse, SynthStubs, Rebuild, Works, Stage, Ok, Stop
  <2>2. cmd'.name # "recover" \/ outcome' # "running" => StageInv'
    BY DEF StageInv, Running
  <2>3. QED
    BY <1>4, <1>5, <1>6, <1>7, <1>8, <1>9, <2>1, <2>2 DEF Next
<1>11. PICK p \in 1..Len(q) : todo = From(q, p) /\ Prepared(p)
  BY <1>10 DEF StageInv
<1>12. Head(todo) = q[p]
  BY <1>1, <1>11, FromPlace
<1>13. ASSUME NEW s, Stage(s), Ok,
              \A k \in 1..Len(q) : /\ q[k] = s /\ Prepared(k) /\ k + 1 <= Len(q)
                                   => Prepared(k + 1)'
       PROVE  StageInv'
  BY <1>10, <1>13, Advance
<1>14. ~DoctorStage /\ ~SynthStubs
  <2>1. q[p] # "doctor" /\ q[p] # "stubs"
    BY <1>2 DEF Early, Late
  <2>2. QED
    BY <1>12, <2>1 DEF DoctorStage, SynthStubs, Works, Stage
<1>15. CASE Preflight
  <2>1. Stage("preflight") /\ Ok
    BY <1>10, <1>15 DEF Preflight, Stop
  <2>2. ASSUME NEW k \in 1..Len(q), q[k] = "preflight", k + 1 <= Len(q) PROVE Prepared(k + 1)'
    BY <1>1, <1>2, <1>3, <1>10, <2>2 DEF Prepared
  <2>3. QED
    BY <1>13, <2>1, <2>2
<1>16. CASE ParseJar
  <2>1. Stage("parse") /\ Ok /\ classes'.jar = cmd'.jar
    BY <1>10, <1>16 DEF ParseJar, Works
  <2>2. ASSUME NEW k \in 1..Len(q), q[k] = "parse", k + 1 <= Len(q) PROVE Prepared(k + 1)'
    BY <1>1, <1>2, <1>3, <1>10, <2>1, <2>2 DEF Prepared
  <2>3. QED
    BY <1>13, <2>1, <2>2
<1>17. CASE ExtractLib
  <2>1. Stage("lib") /\ Ok /\ UNCHANGED classes
    BY <1>17 DEF ExtractLib, files
  <2>2. ASSUME NEW k \in 1..Len(q), q[k] = "lib", Prepared(k), k + 1 <= Len(q) PROVE Prepared(k + 1)'
    BY <1>1, <1>2, <1>3, <1>10, <2>1, <2>2 DEF Prepared
  <2>3. QED
    BY <1>13, <2>1, <2>2
<1>18. CASE InspectBinary
  <2>1. Stage("inspect") /\ Ok /\ UNCHANGED <<classes, lib>> /\ binary'.lib = lib'
    BY <1>18 DEF InspectBinary, Works
  <2>2. ASSUME NEW k \in 1..Len(q), q[k] = "inspect", Prepared(k), k + 1 <= Len(q) PROVE Prepared(k + 1)'
    BY <1>1, <1>2, <1>3, <1>10, <2>1, <2>2 DEF Prepared
  <2>3. QED
    BY <1>13, <2>1, <2>2
<1>19. CASE MergeManifest
  <2>1. /\ Stage("merge") /\ Ok /\ UNCHANGED <<classes, lib, binary>>
        /\ manifest' = [jar |-> classes.jar, lib |-> IF lib = None THEN None ELSE binary.lib, n |-> n]
    BY <1>19 DEF MergeManifest, Works
  <2>2. ASSUME NEW k \in 1..Len(q), q[k] = "merge", Prepared(k), k + 1 <= Len(q) PROVE Prepared(k + 1)'
    <3>1. k = 5 /\ classes.jar = cmd.jar /\ binary.lib = lib
      BY <1>2, <2>2 DEF Prepared
    <3>3. classes'.jar = cmd'.jar /\ binary'.lib = lib'
      BY <1>10, <2>1, <3>1
    <3>4. manifest' = [jar |-> cmd'.jar, lib |-> lib', n |-> n']
      BY <1>10, <2>1, <3>1
    <3>5. QED
      BY <1>1, <1>3, <1>10, <2>2, <3>3, <3>4 DEF Prepared
  <2>3. QED
    BY <1>13, <2>1, <2>2
<1>20. CASE DynamicTrace
  <2>1. Stage("trace") /\ UNCHANGED <<classes, lib, binary, manifest>>
    BY <1>20 DEF DynamicTrace, Works
  <2>2. trace'.jar = cmd'.jar /\ trace'.n = n'
    BY <1>10, <1>20 DEF DynamicTrace
  <2>3. Ok
    BY <1>10, <1>20 DEF DynamicTrace, Stop
  <2>4. ASSUME NEW k \in 1..Len(q), q[k] = "trace", Prepared(k), k + 1 <= Len(q) PROVE Prepared(k + 1)'
    <3>1. k > 5
      BY <1>2, <2>4 DEF Late
    <3>2. QED
      BY <1>10, <2>1, <2>2, <2>4, <3>1 DEF Prepared
  <2>5. QED
    BY <1>13, <2>1, <2>3, <2>4
<1>21. CASE TraceToBc \/ StaticReverse \/ Rebuild
  <2>1. PICK s \in {"toBc", "lift", "rebuild"} : Stage(s)
    BY <1>21 DEF TraceToBc, StaticReverse, Rebuild, Works
  <2>2. Ok /\ UNCHANGED <<classes, lib, binary, manifest, trace>>
    BY <1>21 DEF TraceToBc, StaticReverse, Rebuild
  <2>3. ASSUME NEW k \in 1..Len(q), q[k] = s, Prepared(k), k + 1 <= Len(q) PROVE Prepared(k + 1)'
    <3>1. k > 5 /\ s # "trace"
      BY <1>2, <2>3 DEF Late
    <3>2. q[k + 1] # "toBc"
      BY <1>3, <1>10, <2>3, <3>1
    <3>3. QED
      BY <1>10, <2>2, <2>3, <3>1, <3>2 DEF Prepared
  <2>4. QED
    BY <1>13, <2>1, <2>2, <2>3
<1>22. QED
  BY <1>10, <1>14, <1>15, <1>16, <1>17, <1>18, <1>19, <1>20, <1>21

\* Whatever earlier commands left in the directory, and wherever they were cut
\* off: once recover traces, lifts or rebuilds, the manifest is the one it merged
\* itself, of its own jar and library, and the trace that is converted is its own.
THEOREM ManifestIsOwn == Spec => []OwnManifest
<1>1. Init => StageInv
  BY DEF Init, StageInv, Running
<1>2. StageInv /\ [Next]_vars => StageInv'
  BY StageStep
<1>3. StageInv => OwnManifest
  <2>1. SUFFICES ASSUME StageInv, Running, cmd.name = "recover",
                        Head(todo) \in {"trace", "toBc", "lift", "rebuild"}
                 PROVE  /\ manifest = [jar |-> cmd.jar, lib |-> lib, n |-> n]
                        /\ Head(todo) = "toBc" => trace.jar = cmd.jar /\ trace.n = n
    BY DEF OwnManifest
  <2> DEFINE q == RecoverStages(cmd)
  <2>2. InOrder(q) /\ q \in Seq(Early \cup Late)
    BY StagesOfRecover DEF InOrder
  <2>3. PICK p \in 1..Len(q) : todo = From(q, p) /\ Prepared(p)
    BY <2>1 DEF StageInv
  <2>4. Head(todo) = q[p]
    BY <2>2, <2>3, FromPlace
  <2>5. p > 5
    BY <2>1, <2>2, <2>4, PlaceOf DEF Late
  <2>6. QED
    BY <2>3, <2>4, <2>5 DEF Prepared
<1>4. QED
  BY <1>1, <1>2, <1>3, PTL DEF Spec

(***************************************************************************)
(* The recovered bodies                                                    *)
(***************************************************************************)
BodyInv ==
    /\ Running => cmd \in Commands
    /\ classes.jar \in Jar \cup {None, TornFile}
    /\ manifest.jar \in Jar \cup {None, TornFile}
    /\ trace.seen \subseteq Key /\ real \subseteq Key
    /\ KeepsReal

\* What may be written: bodies of methods, or stubs where no file is.
MayWrite(keys, stem, by) ==
    /\ keys \subseteq Key /\ stem \in {LiveStem, FlatStem}
    /\ by = "stub" => \A k \in keys : recovered[stem[k]] = NoFile

Kept(k) ==
    \/ recovered[LiveStem[k]] = Torn
    \/ recovered[LiveStem[k]].key = k /\ recovered[LiveStem[k]].by # "stub"

\* A method that shares its file name with no other has the file to itself.
LEMMA OwnFile ==
    ASSUME NEW k \in Key, Plain(k), NEW j \in Key, NEW stem \in {LiveStem, FlatStem},
           stem[j] = LiveStem[k]
    PROVE  j = k
BY DEF Plain

LEMMA KeptIsThere ==
    ASSUME NEW k \in Key, Kept(k)
    PROVE  recovered[LiveStem[k]] # NoFile
BY PipelineAssumption DEF Kept, Torn, NoFile

LEMMA WriteKeeps ==
    ASSUME BodyInv, NEW keys, NEW stem, NEW by, MayWrite(keys, stem, by),
           WriteAll(keys, stem, by),
           real' = IF by = "stub" THEN real ELSE real \cup keys
    PROVE  KeepsReal' /\ real' \subseteq Key
<1>1. PICK last \in [{stem[k] : k \in keys} -> keys] :
        /\ \A s \in DOMAIN last : stem[last[s]] = s
        /\ recovered' = [s \in Stem |->
              IF s \in DOMAIN last THEN [key |-> last[s], by |-> by, n |-> n] ELSE recovered[s]]
  BY DEF WriteAll
<1>2. real' \subseteq Key
  BY DEF BodyInv, MayWrite
<1>3. ASSUME NEW k \in real', Plain(k) PROVE Kept(k)'
  <2> DEFINE s == LiveStem[k]
  <2>1. k \in Key /\ s \in Stem
    BY <1>2, PipelineAssumption
  <2>2. CASE s \in DOMAIN last
    <3>1. last[s] \in keys /\ last[s] \in Key /\ stem[last[s]] = s
      BY <1>1, <2>2 DEF MayWrite
    <3>2. last[s] = k
      BY <1>3, <2>1, <3>1, OwnFile DEF MayWrite
    <3>3. recovered'[s].key = k /\ recovered'[s].by = by
      BY <1>1, <2>1, <2>2, <3>2
    <3>4. by # "stub"
      <4>1. SUFFICES ASSUME by = "stub" PROVE FALSE
        OBVIOUS
      <4>2. k \in real /\ recovered[s] = NoFile
        BY <1>3, <3>1, <3>2, <4>1 DEF MayWrite
      <4>3. Kept(k)
        BY <1>3, <4>2 DEF BodyInv, KeepsReal, Kept
      <4>4. QED
        BY <2>1, <4>2, <4>3, KeptIsThere
    <3>5. QED
      BY <3>3, <3>4 DEF Kept
  <2>3. CASE s \notin DOMAIN last
    <3>1. k \notin keys
      <4>1. stem[k] = s
        BY <1>3 DEF MayWrite, Plain
      <4>2. QED
        BY <1>1, <2>3, <4>1
    <3>2. k \in real /\ recovered'[s] = recovered[s]
      BY <1>1, <1>3, <2>1, <2>3, <3>1
    <3>3. QED
      BY <1>3, <3>2 DEF BodyInv, KeepsReal, Kept
  <2>4. QED
    BY <2>2, <2>3
<1>4. QED
  BY <1>2, <1>3 DEF KeepsReal, Kept, Plain

LEMMA CutKeeps ==
    ASSUME BodyInv, NEW keys, NEW stem, NEW by, MayWrite(keys, stem, by),
           CutAll(keys, stem, by)
    PROVE  KeepsReal' /\ real' \subseteq Key
<1>1. PICK some \in SUBSET keys, half \in SUBSET keys :
        /\ recovered' = [s \in Stem |->
                IF \E k \in half: stem[k] = s THEN Torn
                ELSE IF \E k \in some: stem[k] = s
                THEN [key |-> CHOOSE k \in some: stem[k] = s, by |-> by, n |-> n]
                ELSE recovered[s]]
        /\ real' = IF by = "stub" THEN real ELSE real \cup some
  BY DEF CutAll
<1>2. real' \subseteq Key
  BY <1>1 DEF BodyInv, MayWrite
<1>3. ASSUME NEW k \in real', Plain(k) PROVE Kept(k)'
  <2> DEFINE s == LiveStem[k]
             last == CHOOSE j \in some : stem[j] = s
  <2>1. k \in Key /\ s \in Stem
    BY <1>2, PipelineAssumption
  <2>2. CASE \E j \in half : stem[j] = s
    BY <1>1, <2>1, <2>2 DEF Kept, Torn
  <2>3. CASE ~(\E j \in half : stem[j] = s) /\ \E j \in some : stem[j] = s
    <3>1. last \in some /\ last \in keys /\ last \in Key /\ stem[last] = s
      BY <2>3 DEF MayWrite
    <3>2. recovered'[s] = [key |-> last, by |-> by, n |-> n]
      BY <1>1, <2>1, <2>3
    <3> HIDE DEF last
    <3>3. last = k
      BY <1>3, <2>1, <3>1, OwnFile DEF MayWrite
    <3>4. by # "stub"
      <4>1. SUFFICES ASSUME by = "stub" PROVE FALSE
        OBVIOUS
      <4>2. k \in real /\ recovered[s] = NoFile
        BY <1>1, <1>3, <3>1, <3>3, <4>1 DEF MayWrite
      <4>3. Kept(k)
        BY <1>3, <4>2 DEF BodyInv, KeepsReal, Kept
      <4>4. QED
        BY <2>1, <4>2, <4>3, KeptIsThere
    <3>5. QED
      BY <3>2, <3>3, <3>4 DEF Kept
  <2>4. CASE ~(\E j \in half : stem[j] = s) /\ ~(\E j \in some : stem[j] = s)
    <3>1. stem[k] = s
      BY <1>3 DEF MayWrite, Plain
    <3>2. k \in real
      BY <1>1, <1>3, <2>4, <3>1
    <3>3. recovered'[s] = recovered[s]
      BY <1>1, <2>1, <2>4
    <3>4. QED
      BY <1>3, <3>2, <3>3 DEF BodyInv, KeepsReal, Kept
  <2>5. QED
    BY <2>2, <2>3, <2>4
<1>4. QED
  BY <1>2, <1>3 DEF KeepsReal, Kept, Plain

\* What each writer may write.
LEMMA Writers ==
    ASSUME BodyInv, Running
    PROVE  /\ MayWrite(trace.seen, LiveStem, "trace")
           /\ MayWrite(cmd.dump, FlatStem, "lift")
           /\ ~Unreadable("stubs") => MayWrite(Stubbed(manifest), FlatStem, "stub")
           /\ Natives[cmd.jar] \subseteq Key /\ cmd.jar \in Jar
<1>1. cmd.dump \subseteq Key /\ cmd.jar \in Jar
  BY PipelineAssumption DEF BodyInv
<1>2. ~Unreadable("stubs") => manifest.jar \in Jar
  BY DEF Unreadable, IsWhole, BodyInv
<1>3. \A j \in Jar : Natives[j] \subseteq Key
  BY PipelineAssumption
<1>4. QED
  BY <1>1, <1>2, <1>3 DEF MayWrite, Stubbed, BodyInv

LEMMA BodyStep ==
    ASSUME BodyInv, [Next]_vars
    PROVE  BodyInv'
<1>1. CASE HostChanges \/ Preflight \/ DoctorStage \/ ExtractLib \/ InspectBinary \/ MissingTool
           \/ BadData \/ Rebuild \/ UNCHANGED vars
  <2>1. /\ UNCHANGED <<cmd, classes, manifest, trace, recovered, real>>
        /\ Running' => Running
    BY <1>1 DEF HostChanges, Preflight, DoctorStage, ExtractLib, InspectBinary, MissingTool,
       Lacks, BadData, Rebuild, NothingWritten, Works, Stage, Stop, Ok, files, vars, Running
  <2>2. QED
    BY <2>1 DEF BodyInv, KeepsReal
<1>2. CASE Start
  BY <1>2 DEF Start, files, BodyInv, KeepsReal, Running
<1>3. CASE ParseJar
  <2>1. /\ UNCHANGED <<cmd, manifest, trace, recovered, real>> /\ Running /\ classes'.jar = cmd.jar
    BY <1>3 DEF ParseJar, Ok, Works, Stage
  <2>2. QED
    BY <2>1, Writers DEF BodyInv, KeepsReal
<1>4. CASE MergeManifest
  <2>1. /\ UNCHANGED <<cmd, classes, trace, recovered, real>> /\ Running
        /\ manifest'.jar = classes.jar
    BY <1>4 DEF MergeManifest, Ok, Works, Stage
  <2>2. QED
    BY <2>1 DEF BodyInv, KeepsReal
<1>5. CASE DynamicTrace
  <2>1. /\ UNCHANGED <<cmd, classes, manifest, recovered, real>> /\ Running
        /\ trace'.seen \subseteq Natives[cmd.jar]
    BY <1>5 DEF DynamicTrace, Ok, Stop, Works, Stage
  <2>2. QED
    BY <2>1, Writers DEF BodyInv, KeepsReal
<1>6. CASE TraceToBc
  <2>1. /\ UNCHANGED <<cmd, classes, manifest, trace>> /\ Running
        /\ WriteAll(trace.seen, LiveStem, "trace") /\ real' = real \cup trace.seen
    BY <1>6 DEF TraceToBc, Ok, Works, Stage
  <2>2. KeepsReal' /\ real' \subseteq Key
    BY <2>1, Writers, WriteKeeps
  <2>3. QED
    BY <2>1, <2>2 DEF BodyInv
<1>7. CASE StaticReverse
  <2>1. /\ UNCHANGED <<cmd, classes, manifest, trace>> /\ Running
        /\ WriteAll(cmd.dump, FlatStem, "lift") /\ real' = real \cup cmd.dump
    BY <1>7 DEF StaticReverse, Ok, Works, Stage
  <2>2. KeepsReal' /\ real' \subseteq Key
    BY <2>1, Writers, WriteKeeps
  <2>3. QED
    BY <2>1, <2>2 DEF BodyInv
<1>8. CASE SynthStubs
  <2>1. /\ UNCHANGED <<cmd, classes, manifest, trace, real>> /\ Running /\ ~Unreadable("stubs")
        /\ WriteAll(Stubbed(manifest), FlatStem, "stub")
    BY <1>8 DEF SynthStubs, Ok, Works, Stage
  <2>2. KeepsReal' /\ real' \subseteq Key
    BY <2>1, Writers, WriteKeeps
  <2>3. QED
    BY <2>1, <2>2 DEF BodyInv
<1>9. CASE Interrupted
  <2>1. /\ Running /\ UNCHANGED <<cmd, trace>> /\ outcome' = "interrupted"
        /\ ~Unreadable(Head(todo))
        /\ classes' \in {classes, TornDoc} /\ manifest' \in {manifest, TornDoc}
    BY <1>9 DEF Interrupted, CutDoc
  <2>2. \/ CutAll(trace.seen, LiveStem, "trace")
        \/ CutAll(cmd.dump, FlatStem, "lift")
        \/ Head(todo) = "stubs" /\ CutAll(Stubbed(manifest), FlatStem, "stub")
        \/ UNCHANGED <<recovered, real>>
    <3>1. CASE Head(todo) = "toBc"
      BY <1>9, <3>1, Zenon DEF Interrupted
    <3>2. CASE Head(todo) = "lift"
      BY <1>9, <3>2, Zenon DEF Interrupted
    <3>3. CASE Head(todo) = "stubs"
      BY <1>9, <3>3, Zenon DEF Interrupted
    <3>4. CASE Head(todo) \notin {"toBc", "lift", "stubs"}
      BY <1>9, <3>4, Zenon DEF Interrupted
    <3>5. QED
      BY <3>1, <3>2, <3>3, <3>4
  <2>3. KeepsReal' /\ real' \subseteq Key
    <3>1. CASE UNCHANGED <<recovered, real>>
      BY <3>1 DEF BodyInv, KeepsReal
    <3>2. QED
      BY <2>1, <2>2, <3>1, Writers, CutKeeps
  <2>4. TornDoc.jar = TornFile
    BY DEF TornDoc
  <2>5. QED
    BY <2>1, <2>3, <2>4 DEF BodyInv, Running
<1>10. QED
  BY <1>1, <1>2, <1>3, <1>4, <1>5, <1>6, <1>7, <1>8, <1>9 DEF Next

\* A body that was traced or lifted is never given up for a stub, nor for the
\* body of another method, in whatever order the commands come and wherever they
\* are cut off; only its own file, cut off, takes its place.
THEOREM BodiesAreKept == Spec => []KeepsReal
<1>1. Init => BodyInv
  BY DEF Init, BodyInv, KeepsReal, Running, NoDoc, NoTrace
<1>2. BodyInv /\ [Next]_vars => BodyInv'
  BY BodyStep
<1>3. BodyInv => KeepsReal
  BY DEF BodyInv
<1>4. QED
  BY <1>1, <1>2, <1>3, PTL DEF Spec

(***************************************************************************)
(* What a recover leaves                                                   *)
(***************************************************************************)
Has(q, x) == \E i \in 1..Len(q) : q[i] = x
Paired(q) == \A i \in 1..Len(q) : q[i] = "trace" => i + 1 \in 1..Len(q) /\ q[i + 1] = "toBc"

LEMMA JoinedHas ==
    ASSUME NEW S, NEW s \in Seq(S), NEW r \in Seq(S)
    PROVE  /\ \A x : Has(s \o r, x) <=> Has(s, x) \/ Has(r, x)
           /\ Paired(s) /\ Paired(r) => Paired(s \o r)
<1> DEFINE w == s \o r
<1>1. Len(w) = Len(s) + Len(r) /\ Len(s) \in Nat /\ Len(r) \in Nat
  BY Joined
<1>2. \A i \in 1..Len(s) + Len(r) : w[i] = IF i <= Len(s) THEN s[i] ELSE r[i - Len(s)]
  BY JoinedAt
<1> HIDE DEF w
<1>3. /\ \A i \in 1..Len(s) : i \in 1..Len(w) /\ w[i] = s[i]
      /\ \A i \in 1..Len(r) : Len(s) + i \in 1..Len(w) /\ w[Len(s) + i] = r[i]
  BY <1>1, <1>2
<1>4. ASSUME NEW i \in 1..Len(w)
      PROVE  \/ i \in 1..Len(s) /\ w[i] = s[i]
             \/ i - Len(s) \in 1..Len(r) /\ w[i] = r[i - Len(s)]
  BY <1>1, <1>2
<1>5. \A x : Has(w, x) <=> Has(s, x) \/ Has(r, x)
  BY <1>3, <1>4, Zenon DEF Has
<1>6. ASSUME Paired(s), Paired(r), NEW i \in 1..Len(w), w[i] = "trace"
      PROVE  i + 1 \in 1..Len(w) /\ w[i + 1] = "toBc"
  <2>1. CASE i \in 1..Len(s) /\ w[i] = s[i]
    <3>1. i + 1 \in 1..Len(s) /\ s[i + 1] = "toBc"
      BY <1>6, <2>1 DEF Paired
    <3>2. QED
      BY <1>3, <3>1
  <2>2. CASE i - Len(s) \in 1..Len(r) /\ w[i] = r[i - Len(s)]
    <3>1. i - Len(s) + 1 \in 1..Len(r) /\ r[i - Len(s) + 1] = "toBc"
      BY <1>6, <2>2 DEF Paired
    <3>2. Len(s) + (i - Len(s) + 1) = i + 1
      BY <1>1
    <3>3. QED
      BY <1>3, <3>1, <3>2
  <2>3. QED
    BY <1>4, <2>1, <2>2
<1>7. QED
  BY <1>5, <1>6 DEF w, Paired

LEMMA Pieces ==
    /\ \A x : Has(<<"preflight", "parse", "lib", "inspect", "merge">>, x) => x \in Early
    /\ Paired(<<"preflight", "parse", "lib", "inspect", "merge">>)
    /\ \A x : Has(<<"trace", "toBc">>, x) <=> x \in {"trace", "toBc"}
    /\ Paired(<<"trace", "toBc">>)
    /\ \A x : ~Has(<<>>, x)
    /\ Paired(<<>>)
    /\ \A y \in {"lift", "rebuild"} : (\A x : Has(<<y>>, x) <=> x = y) /\ Paired(<<y>>)
<1> DEFINE S == Early \cup Late
<1>1. \A x \in Early \cup Late : x \in S
  OBVIOUS
<1>2. /\ "preflight" \in Early /\ "parse" \in Early /\ "lib" \in Early /\ "inspect" \in Early
      /\ "merge" \in Early /\ "trace" \in Late /\ "toBc" \in Late /\ "lift" \in Late
      /\ "rebuild" \in Late
  BY DEF Early, Late
<1> HIDE DEF S
<1>3. /\ \A x : Has(<<"preflight", "parse", "lib", "inspect", "merge">>, x) => x \in Early
      /\ Paired(<<"preflight", "parse", "lib", "inspect", "merge">>)
  <2> DEFINE a == <<"preflight", "parse", "lib", "inspect", "merge">>
  <2>1. /\ Len(a) = 5 /\ a[1] = "preflight" /\ a[2] = "parse"
        /\ a[3] = "lib" /\ a[4] = "inspect" /\ a[5] = "merge"
    BY <1>1, <1>2, Tuples
  <2> HIDE DEF a
  <2>2. \A i \in 1..Len(a) : a[i] \in {"preflight", "parse", "lib", "inspect", "merge"}
    BY <2>1
  <2>3. (\A x : Has(a, x) => x \in Early) /\ Paired(a)
    BY <2>2 DEF Has, Paired, Early
  <2>4. QED
    BY <2>3 DEF a
<1>4. /\ \A x : Has(<<"trace", "toBc">>, x) <=> x \in {"trace", "toBc"}
      /\ Paired(<<"trace", "toBc">>)
  <2> DEFINE b == <<"trace", "toBc">>
  <2>1. Len(b) = 2 /\ b[1] = "trace" /\ b[2] = "toBc"
    BY <1>1, <1>2, Tuples
  <2> HIDE DEF b
  <2>2. (\A x : Has(b, x) <=> x \in {"trace", "toBc"}) /\ Paired(b)
    BY <2>1 DEF Has, Paired
  <2>3. QED
    BY <2>2 DEF b
<1>5. (\A x : ~Has(<<>>, x)) /\ Paired(<<>>)
  BY DEF Has, Paired
<1>6. ASSUME NEW y \in {"lift", "rebuild"}
      PROVE  (\A x : Has(<<y>>, x) <=> x = y) /\ Paired(<<y>>)
  <2> DEFINE r == <<y>>
  <2>1. Len(r) = 1 /\ r[1] = y
    BY <1>1, <1>2, Tuples
  <2> HIDE DEF r
  <2>2. (\A x : Has(r, x) <=> x = y) /\ Paired(r)
    BY <2>1 DEF Has, Paired
  <2>3. QED
    BY <2>2 DEF r
<1>7. QED
  BY <1>3, <1>4, <1>5, <1>6

\* A trace is followed by its conversion, the rebuild comes last and only last, and a
\* recover that traces or lifts has the stage for it.
LEMMA LastStages ==
    ASSUME NEW c
    PROVE  LET q == RecoverStages(c) IN
           /\ Paired(q)
           /\ \A i \in 1..Len(q) : q[i] = "rebuild" <=> i = Len(q)
           /\ ~c.noDynamic /\ c.run => Has(q, "toBc")
           /\ ~c.noStatic /\ c.dump # {} => Has(q, "lift")
<1> DEFINE a == <<"preflight", "parse", "lib", "inspect", "merge">>
           b == <<"trace", "toBc">>
           x == IF ~c.noDynamic /\ c.run THEN b ELSE <<>>
           y == IF ~c.noStatic /\ c.dump # {} THEN <<"lift">> ELSE <<>>
           z == <<"rebuild">>
           s == (a \o x) \o y
           q == RecoverStages(c)
           S == Early \cup Late
<1>1. q = s \o z
  BY DEF RecoverStages
<1>2. a \in Seq(S) /\ b \in Seq(S) /\ z \in Seq(S) /\ <<"lift">> \in Seq(S) /\ <<>> \in Seq(S)
      /\ Len(z) = 1 /\ z[1] = "rebuild"
  <2>1. /\ "preflight" \in S /\ "parse" \in S /\ "lib" \in S /\ "inspect" \in S
        /\ "merge" \in S /\ "trace" \in S /\ "toBc" \in S /\ "lift" \in S /\ "rebuild" \in S
    BY DEF Early, Late
  <2> HIDE DEF S
  <2>2. QED
    BY <2>1, Tuples
<1>3. /\ \A e : Has(a, e) => e \in Early
      /\ \A e : Has(b, e) <=> e \in {"trace", "toBc"}
      /\ \A e : ~Has(<<>>, e)
      /\ \A e : Has(<<"lift">>, e) <=> e = "lift"
      /\ Paired(a) /\ Paired(b) /\ Paired(<<>>) /\ Paired(<<"lift">>) /\ Paired(z)
  BY Pieces
<1> HIDE DEF a, b, z
<1>4. x \in Seq(S) /\ Paired(x) /\ \A e : Has(x, e) => e \in {"trace", "toBc"}
  BY <1>2, <1>3
<1>5. y \in Seq(S) /\ Paired(y) /\ \A e : Has(y, e) => e = "lift"
  BY <1>2, <1>3
<1>6. /\ ~c.noDynamic /\ c.run => Has(x, "toBc")
      /\ ~c.noStatic /\ c.dump # {} => Has(y, "lift")
  BY <1>3
<1> HIDE DEF x, y, S
<1>7. /\ a \o x \in Seq(S) /\ Paired(a \o x)
      /\ \A e : Has(a \o x, e) <=> Has(a, e) \/ Has(x, e)
  BY <1>2, <1>3, <1>4, Joined, JoinedHas
<1>8. s \in Seq(S) /\ Paired(s) /\ (\A e : Has(s, e) <=> Has(a \o x, e) \/ Has(y, e))
  BY <1>5, <1>7, Joined, JoinedHas
<1> HIDE DEF s
<1>9. Paired(s \o z) /\ (\A e : Has(s \o z, e) <=> Has(s, e) \/ Has(z, e))
  BY <1>2, <1>3, <1>8, JoinedHas
<1>10. ~Has(s, "rebuild")
  BY <1>3, <1>4, <1>5, <1>7, <1>8 DEF Early
<1>11. Len(q) = Len(s) + 1 /\ Len(s) \in Nat
       /\ \A i \in 1..Len(s) + 1 : q[i] = IF i <= Len(s) THEN s[i] ELSE z[i - Len(s)]
  BY <1>1, <1>2, <1>8, Joined, JoinedAt
<1> HIDE DEF q
<1>12. ASSUME NEW i \in 1..Len(q) PROVE q[i] = "rebuild" <=> i = Len(q)
  <2>1. CASE i <= Len(s)
    <3>1. i \in 1..Len(s) /\ q[i] = s[i] /\ i # Len(q)
      BY <1>11, <2>1
    <3>2. QED
      BY <1>10, <3>1 DEF Has
  <2>2. CASE ~(i <= Len(s))
    <3>1. i = Len(q) /\ i - Len(s) = 1
      BY <1>11, <2>2
    <3>2. q[i] = z[1]
      BY <1>11, <2>2, <3>1
    <3>3. QED
      BY <1>2, <3>1, <3>2
  <2>3. QED
    BY <2>1, <2>2
<1>13. QED
  BY <1>1, <1>6, <1>7, <1>8, <1>9, <1>12, Zenon DEF q

\* The body is that of the method, from this command, and no stub.
Fresh(k) ==
    /\ recovered[LiveStem[k]].key = k /\ recovered[LiveStem[k]].n = n
    /\ recovered[LiveStem[k]].by # "stub"

\* A file holds a body of a method that it may be named after.
FileInv ==
    \A s \in Stem : recovered[s].key \in Key =>
        s \in {LiveStem[recovered[s].key], FlatStem[recovered[s].key]}

Ahead(p, s) == \E i \in p..Len(RecoverStages(cmd)) : RecoverStages(cmd)[i] = s

\* A recover has converted its trace, and lifted its dump, or has yet to.
FreshUp(p) ==
    /\ Traced => Ahead(p, "toBc") \/ \A k \in trace.seen : Plain(k) => Fresh(k)
    /\ Lifted => Ahead(p, "lift") \/ \A k \in cmd.dump : Plain(k) => Fresh(k)

FreshInv ==
    Running /\ cmd.name = "recover" =>
        \E p \in 1..Len(RecoverStages(cmd)) : todo = From(RecoverStages(cmd), p) /\ FreshUp(p)

LEMMA WriteIsFresh ==
    ASSUME NEW keys, NEW stem, NEW by, MayWrite(keys, stem, by), WriteAll(keys, stem, by),
           FileInv, n' = n
    PROVE  /\ FileInv'
           /\ by # "stub" => \A k \in keys : Plain(k) => Fresh(k)'
           /\ by # "stub" => \A k \in Key : Plain(k) /\ Fresh(k) => Fresh(k)'
<1>1. PICK last \in [{stem[k] : k \in keys} -> keys] :
        /\ \A s \in DOMAIN last : stem[last[s]] = s
        /\ recovered' = [s \in Stem |->
              IF s \in DOMAIN last THEN [key |-> last[s], by |-> by, n |-> n] ELSE recovered[s]]
  BY DEF WriteAll
<1>2. ASSUME NEW s \in DOMAIN last, s \in Stem
      PROVE  /\ recovered'[s].key = last[s] /\ recovered'[s].by = by /\ recovered'[s].n = n
             /\ last[s] \in Key /\ stem[last[s]] = s
  BY <1>1, <1>2 DEF MayWrite
<1>3. ASSUME NEW s \in Stem, s \notin DOMAIN last PROVE recovered'[s] = recovered[s]
  BY <1>1, <1>3
<1>4. FileInv'
  <2> SUFFICES ASSUME NEW s \in Stem, recovered'[s].key \in Key
               PROVE  s \in {LiveStem[recovered'[s].key], FlatStem[recovered'[s].key]}
    BY DEF FileInv
  <2>1. CASE s \in DOMAIN last
    BY <1>2, <2>1 DEF MayWrite
  <2>2. CASE s \notin DOMAIN last
    BY <1>3, <2>2 DEF FileInv
  <2>3. QED
    BY <2>1, <2>2
<1>5. ASSUME NEW k \in Key, Plain(k), by # "stub", LiveStem[k] \in DOMAIN last
      PROVE  Fresh(k)'
  <2> DEFINE s == LiveStem[k]
  <2>1. s \in Stem
    BY PipelineAssumption
  <2>2. last[s] = k
    BY <1>2, <1>5, <2>1, OwnFile DEF MayWrite
  <2>3. QED
    BY <1>2, <1>5, <2>1, <2>2 DEF Fresh
<1>6. ASSUME NEW k \in keys, Plain(k), by # "stub" PROVE Fresh(k)'
  <2>1. k \in Key /\ LiveStem[k] = stem[k]
    BY <1>6 DEF MayWrite, Plain
  <2>2. LiveStem[k] \in DOMAIN last
    BY <1>1, <2>1
  <2>3. QED
    BY <1>5, <1>6, <2>1, <2>2
<1>7. ASSUME NEW k \in Key, Plain(k), by # "stub", Fresh(k) PROVE Fresh(k)'
  <2>1. LiveStem[k] \in Stem
    BY PipelineAssumption
  <2>2. CASE LiveStem[k] \notin DOMAIN last
    BY <1>3, <1>7, <2>1, <2>2 DEF Fresh
  <2>3. QED
    BY <1>5, <1>7, <2>2
<1>8. QED
  BY <1>4, <1>6, <1>7

LEMMA CutKeepsNames ==
    ASSUME NEW keys, NEW stem, NEW by, MayWrite(keys, stem, by), CutAll(keys, stem, by), FileInv
    PROVE  FileInv'
<1>1. PICK some \in SUBSET keys, half \in SUBSET keys :
        recovered' = [s \in Stem |->
                IF \E k \in half: stem[k] = s THEN Torn
                ELSE IF \E k \in some: stem[k] = s
                THEN [key |-> CHOOSE k \in some: stem[k] = s, by |-> by, n |-> n]
                ELSE recovered[s]]
  BY DEF CutAll
<1> SUFFICES ASSUME NEW s \in Stem, recovered'[s].key \in Key
             PROVE  s \in {LiveStem[recovered'[s].key], FlatStem[recovered'[s].key]}
  BY DEF FileInv
<1>2. CASE \E k \in half : stem[k] = s
  <2>1. recovered'[s].key = TornFile
    BY <1>1, <1>2 DEF Torn
  <2>2. QED
    BY <2>1, PipelineAssumption
<1>3. CASE ~(\E k \in half : stem[k] = s) /\ \E k \in some : stem[k] = s
  <2> DEFINE last == CHOOSE k \in some : stem[k] = s
  <2>1. stem[last] = s
    BY <1>3
  <2>2. recovered'[s].key = last
    BY <1>1, <1>3
  <2> HIDE DEF last
  <2>3. QED
    BY <2>1, <2>2 DEF MayWrite
<1>4. CASE ~(\E k \in half : stem[k] = s) /\ ~(\E k \in some : stem[k] = s)
  BY <1>1, <1>4 DEF FileInv
<1>5. QED
  BY <1>2, <1>3, <1>4

LEMMA FileStep ==
    ASSUME BodyInv, FileInv, [Next]_vars
    PROVE  FileInv'
<1>1. CASE HostChanges \/ Preflight \/ DoctorStage \/ ExtractLib \/ InspectBinary \/ MissingTool
           \/ BadData \/ Rebuild \/ Start \/ ParseJar \/ MergeManifest \/ DynamicTrace
           \/ UNCHANGED vars
  <2>1. recovered' = recovered
    BY <1>1 DEF HostChanges, Preflight, DoctorStage, ExtractLib, InspectBinary, MissingTool,
       Lacks, BadData, Rebuild, Start, ParseJar, MergeManifest, DynamicTrace, NothingWritten,
       files, vars
  <2>2. QED
    BY <2>1 DEF FileInv
<1>2. CASE TraceToBc \/ StaticReverse \/ SynthStubs
  <2>1. /\ Running /\ n' = n
        /\ \/ WriteAll(trace.seen, LiveStem, "trace")
           \/ WriteAll(cmd.dump, FlatStem, "lift")
           \/ ~Unreadable("stubs") /\ WriteAll(Stubbed(manifest), FlatStem, "stub")
    BY <1>2 DEF TraceToBc, StaticReverse, SynthStubs, Works, Stage, Ok
  <2>2. QED
    BY <2>1, Writers, WriteIsFresh
<1>3. CASE Interrupted
  <2>1. Running /\ ~Unreadable(Head(todo))
    BY <1>3 DEF Interrupted
  <2>2. \/ CutAll(trace.seen, LiveStem, "trace")
        \/ CutAll(cmd.dump, FlatStem, "lift")
        \/ Head(todo) = "stubs" /\ CutAll(Stubbed(manifest), FlatStem, "stub")
        \/ recovered' = recovered
    <3>1. CASE Head(todo) = "toBc"
      BY <1>3, <3>1, Zenon DEF Interrupted
    <3>2. CASE Head(todo) = "lift"
      BY <1>3, <3>2, Zenon DEF Interrupted
    <3>3. CASE Head(todo) = "stubs"
      BY <1>3, <3>3, Zenon DEF Interrupted
    <3>4. CASE Head(todo) \notin {"toBc", "lift", "stubs"}
      BY <1>3, <3>4, Zenon DEF Interrupted
    <3>5. QED
      BY <3>1, <3>2, <3>3, <3>4
  <2>3. CASE recovered' = recovered
    BY <2>3 DEF FileInv
  <2>4. QED
    BY <2>1, <2>2, <2>3, Writers, CutKeepsNames
<1>4. QED
  BY <1>1, <1>2, <1>3 DEF Next

\* A stage that ends well is followed by the one at the next place.
LEMMA NextPlace ==
    ASSUME NEW q, InOrder(q), NEW p \in 1..Len(q), todo = From(q, p), NEW s, Stage(s), Ok
    PROVE  /\ q[p] = s
           /\ p = Len(q) => outcome' = "ok"
           /\ p # Len(q) => p + 1 \in 1..Len(q) /\ todo' = From(q, p + 1)
<1>1. q \in Seq(Early \cup Late) /\ Len(q) \in Nat
  BY DEF InOrder
<1>2. Head(todo) = q[p] /\ Tail(todo) = From(q, p + 1) /\ From(q, Len(q) + 1) = <<>>
  BY <1>1, FromPlace
<1>3. q[p] = s /\ todo' = From(q, p + 1)
  BY <1>2 DEF Stage, Ok
<1>4. p = Len(q) => outcome' = "ok"
  BY <1>2 DEF Ok
<1>5. QED
  BY <1>1, <1>3, <1>4

\* What no later stage is ahead of is not ahead any more.
LEMMA AheadStep ==
    ASSUME NEW p \in 1..Len(RecoverStages(cmd)), NEW s, Ahead(p, s), cmd' = cmd,
           RecoverStages(cmd)[p] # s
    PROVE  Ahead(p + 1, s)'
<1>1. Len(RecoverStages(cmd)) \in Nat
  BY StagesOfRecover DEF InOrder
<1>2. PICK i \in p..Len(RecoverStages(cmd)) : RecoverStages(cmd)[i] = s
  BY DEF Ahead
<1>3. i \in (p + 1)..Len(RecoverStages(cmd))
  BY <1>1, <1>2
<1>4. RecoverStages(cmd') = RecoverStages(cmd)
  OBVIOUS
<1>5. QED
  BY <1>2, <1>3, <1>4 DEF Ahead

\* One stage of recover: the next place is fresh, or the jar is.
LEMMA FreshAdvance ==
    ASSUME FreshInv, NEW s, Stage(s), Ok, cmd.name = "recover",
           s # "rebuild",
           \A p \in 1..Len(RecoverStages(cmd)) :
               RecoverStages(cmd)[p] = s /\ FreshUp(p) => FreshUp(p + 1)'
    PROVE  FreshInv' /\ outcome' = "running"
<1> DEFINE q == RecoverStages(cmd)
<1>1. InOrder(q) /\ Len(q) \in Nat
  BY StagesOfRecover DEF InOrder
<1>2. PICK p \in 1..Len(q) : todo = From(q, p) /\ FreshUp(p)
  BY DEF FreshInv, Stage
<1>3. /\ q[p] = s
      /\ p # Len(q) => p + 1 \in 1..Len(q) /\ todo' = From(q, p + 1)
  BY <1>1, <1>2, NextPlace
<1>4. p # Len(q)
  BY <1>3, LastStages
<1>5. p + 1 \in 1..Len(q) /\ todo' = From(q, p + 1) /\ FreshUp(p + 1)'
  BY <1>2, <1>3, <1>4
<1>6. RecoverStages(cmd') = q /\ cmd' = cmd
  BY DEF Ok
<1>7. outcome' = "running"
  <2>1. Len(todo') # 0
    <3> HIDE DEF q
    <3>1. q \in Seq(Early \cup Late)
      BY <1>1 DEF InOrder
    <3>2. Len(From(q, p + 1)) # 0
      BY <1>1, <1>5, <3>1 DEF From
    <3>3. QED
      BY <1>5, <3>2
  <2>2. todo' # <<>>
    BY <2>1
  <2>3. QED
    BY <2>2 DEF Ok
<1>8. FreshInv'
  <2> HIDE DEF q
  <2>1. QED
    BY <1>5, <1>6 DEF FreshInv
<1>9. QED
  BY <1>7, <1>8

\* A stage that writes no body and no trace.
LEMMA IdleStage ==
    ASSUME NEW s, Ok, UNCHANGED <<trace, recovered>>, s \notin {"toBc", "lift"},
           NEW p \in 1..Len(RecoverStages(cmd)), RecoverStages(cmd)[p] = s, FreshUp(p)
    PROVE  FreshUp(p + 1)'
<1>1. cmd' = cmd /\ n' = n
  BY DEF Ok
<1>2. \A x \in {"toBc", "lift"} : Ahead(p, x) => Ahead(p + 1, x)'
  BY <1>1, AheadStep
<1>3. \A k : Fresh(k)' <=> Fresh(k)
  BY <1>1 DEF Fresh
<1>4. QED
  BY <1>1, <1>2, <1>3 DEF FreshUp, Traced, Lifted

\* The rebuilt jar holds what recover recovered.
LEMMA RebuildIsFresh ==
    ASSUME BodyInv, FileInv, FreshInv, Rebuild, cmd.name = "recover"
    PROVE  FreshWins'
<1> DEFINE q == RecoverStages(cmd)
<1>1. InOrder(q) /\ Len(q) \in Nat
  BY StagesOfRecover DEF InOrder
<1>2. /\ Running /\ Stage("rebuild") /\ Ok /\ UNCHANGED <<cmd, n, trace, recovered>>
  BY DEF Rebuild, Works, Stage, Ok
<1>3. PICK p \in 1..Len(q) : todo = From(q, p) /\ FreshUp(p)
  BY <1>2 DEF FreshInv
<1>4. q[p] = "rebuild"
  BY <1>1, <1>2, <1>3, NextPlace
<1>5. p = Len(q)
  BY <1>4, LastStages
<1>6. ~Ahead(p, "toBc") /\ ~Ahead(p, "lift")
  <2>1. \A i \in p..Len(q) : q[i] = "rebuild"
    BY <1>1, <1>4, <1>5
  <2>2. QED
    BY <2>1 DEF Ahead
<1>7. PICK from \in [{k \in Natives[cmd.jar]: FilesOf(k) # {}} -> Stem] :
        /\ \A k \in DOMAIN from: from[k] \in FilesOf(k)
        /\ \E way \in [{ClassOf[k]: k \in DOMAIN from} -> Written]:
            out' = [jar |-> cmd.jar, written |-> way, n |-> n,
                    bodies |-> [k \in DOMAIN from |-> Shipped(recovered[from[k]], way[ClassOf[k]])]]
  BY DEF Rebuild
<1>8. PICK way \in [{ClassOf[k]: k \in DOMAIN from} -> Written] :
        out' = [jar |-> cmd.jar, written |-> way, n |-> n,
                bodies |-> [k \in DOMAIN from |-> Shipped(recovered[from[k]], way[ClassOf[k]])]]
  BY <1>7
<1>9. /\ out'.jar = cmd.jar /\ out'.n = n /\ out'.written = way /\ DOMAIN out'.bodies = DOMAIN from
       /\ \A k \in DOMAIN from : out'.bodies[k] = Shipped(recovered[from[k]], way[ClassOf[k]])
  BY <1>8
<1>10. ASSUME NEW k \in Natives[cmd.jar], Plain(k), Fresh(k)
      PROVE  /\ k \in DOMAIN out'.bodies
             /\ \/ out'.written[ClassOf[k]] = "restubbed"
                \/ out'.bodies[k].n = n /\ out'.bodies[k].by # "stub"
  <2>1. k \in Key /\ LiveStem[k] \in Stem
    BY <1>2, Writers, PipelineAssumption
  <2>2. LiveStem[k] \in FilesOf(k)
    BY <1>10, <2>1 DEF Fresh, FilesOf
  <2>3. k \in DOMAIN from
    BY <2>2
  <2>4. from[k] \in Stem /\ recovered[from[k]].key = k
    BY <1>7, <2>3 DEF FilesOf
  <2>5. from[k] = LiveStem[k]
    BY <1>10, <2>1, <2>4 DEF FileInv, Plain
  <2>6. \/ out'.written[ClassOf[k]] = "restubbed"
        \/ out'.bodies[k] = recovered[LiveStem[k]]
    BY <1>9, <2>3, <2>5 DEF Shipped
  <2>7. k \in DOMAIN out'.bodies
    BY <1>9, <2>3
  <2>8. QED
    BY <1>10, <2>6, <2>7 DEF Fresh
<1>11. ASSUME NEW k \in Natives[cmd.jar], Plain(k),
             (Traced /\ k \in trace.seen) \/ (Lifted /\ k \in cmd.dump)
      PROVE  Fresh(k)
  BY <1>3, <1>6, <1>11 DEF FreshUp
<1>12. out'.jar = cmd.jar /\ out'.n = n
  BY <1>9
<1>13. QED
  BY <1>2, <1>10, <1>11, <1>12 DEF FreshWins, Wanted, Traced, Lifted, Plain

LEMMA FreshStep ==
    ASSUME BodyInv, FileInv, FreshInv, FreshWins, [Next]_vars
    PROVE  FreshInv' /\ FreshWins'
<1> DEFINE q == RecoverStages(cmd)
<1>1. InOrder(q) /\ Len(q) \in Nat
  BY StagesOfRecover DEF InOrder
<1>2. ASSUME outcome' \notin {"running", "ok"} PROVE FreshInv' /\ FreshWins'
  BY <1>2 DEF FreshInv, FreshWins, Running, Recovered
<1>3. ASSUME cmd'.name # "recover" PROVE FreshInv' /\ FreshWins'
  BY <1>3 DEF FreshInv, FreshWins, Recovered
<1>4. ASSUME outcome' = "running" PROVE FreshWins'
  BY <1>4 DEF FreshWins, Recovered
<1>5. CASE HostChanges \/ UNCHANGED vars
  <2>1. UNCHANGED <<cmd, todo, n, outcome, trace, recovered, out>>
    BY <1>5 DEF HostChanges, vars, files
  <2>2. QED
    BY <2>1 DEF FreshInv, FreshUp, FreshWins, Wanted, Fresh, Ahead, Running, Recovered, Traced, Lifted
<1>6. CASE Interrupted \/ BadData
  BY <1>2, <1>6 DEF Interrupted, BadData, Stop
<1>7. CASE MissingTool
  <2>1. PICK s \in Tools : outcome' = Needs(s) /\ Needs(s) # "ok"
    BY <1>7 DEF MissingTool, Lacks, Stop, Tools
  <2>2. Needs(s) \notin {"running", "ok"}
    BY <2>1, NeedsNames
  <2>3. QED
    BY <1>2, <2>1, <2>2
<1>8. CASE Start
  <2>1. PICK c \in Commands : cmd' = c /\ todo' = Stages(c)
    BY <1>8 DEF Start
  <2>2. outcome' = "running"
    BY <1>8 DEF Start
  <2>3. SUFFICES ASSUME c.name = "recover" PROVE FreshInv'
    BY <1>3, <1>4, <2>1, <2>2
  <2> DEFINE r == RecoverStages(c)
  <2>4. InOrder(r) /\ Len(r) > 5 /\ r \in Seq(Early \cup Late) /\ Len(r) \in Nat
    BY StagesOfRecover DEF InOrder
  <2>5. 1 \in 1..Len(r) /\ From(r, 1) = r
    <3>1. 1 \in 1..Len(r)
      BY <2>4
    <3>2. QED
      BY <2>4, <3>1, FromPlace
  <2>6. todo' = r /\ RecoverStages(cmd') = r
    BY <2>1, <2>3 DEF Stages
  <2>7. FreshUp(1)'
    <3>1. ~c.noDynamic /\ c.run => Has(r, "toBc")
      BY LastStages
    <3>2. ~c.noStatic /\ c.dump # {} => Has(r, "lift")
      BY LastStages
    <3> HIDE DEF r
    <3>3. QED
      BY <2>1, <2>6, <3>1, <3>2 DEF FreshUp, Ahead, Has, Traced, Lifted
  <2> HIDE DEF r
  <2>8. QED
    BY <2>5, <2>6, <2>7 DEF FreshInv
<1>9. SUFFICES ASSUME cmd.name = "recover", cmd' = cmd, n' = n, Running,
                      Preflight \/ DoctorStage \/ ParseJar \/ ExtractLib \/ InspectBinary
                      \/ MergeManifest \/ DynamicTrace \/ TraceToBc \/ StaticReverse
                      \/ SynthStubs \/ Rebuild
               PROVE  FreshInv' /\ FreshWins'
  <2>1. ASSUME Preflight \/ DoctorStage \/ ParseJar \/ ExtractLib \/ InspectBinary
               \/ MergeManifest \/ DynamicTrace \/ TraceToBc \/ StaticReverse
               \/ SynthStubs \/ Rebuild
        PROVE  cmd' = cmd /\ n' = n /\ Running
    BY <2>1 DEF Preflight, DoctorStage, ParseJar, ExtractLib, InspectBinary, MergeManifest,
       DynamicTrace, TraceToBc, StaticReverse, SynthStubs, Rebuild, Works, Stage, Ok, Stop
  <2>2. QED
    BY <1>3, <1>5, <1>6, <1>7, <1>8, <2>1 DEF Next
<1>10. PICK p \in 1..Len(q) : todo = From(q, p) /\ FreshUp(p)
  BY <1>9 DEF FreshInv
<1>11. q[p] = Head(todo) /\ q[p] \in Early \cup Late
  <2>1. q \in Seq(Early \cup Late)
    BY <1>1 DEF InOrder
  <2>2. QED
    BY <1>1, <1>10, <2>1, FromPlace, PlaceOf
<1>12. ~DoctorStage /\ ~SynthStubs
  <2>1. q[p] # "doctor" /\ q[p] # "stubs"
    BY <1>11 DEF Early, Late
  <2>2. QED
    BY <1>11, <2>1 DEF DoctorStage, SynthStubs, Works, Stage
<1>13. CASE Preflight \/ ParseJar \/ ExtractLib \/ InspectBinary \/ MergeManifest
  <2>1. /\ UNCHANGED <<trace, recovered>>
        /\ \E s \in Early : Stage(s) /\ (Ok \/ outcome' = "preflight")
    BY <1>13 DEF Preflight, ParseJar, ExtractLib, InspectBinary, MergeManifest, Works, Stop,
       Early, files
  <2>2. PICK s \in Early : Stage(s) /\ (Ok \/ outcome' = "preflight")
    BY <2>1
  <2>3. CASE outcome' = "preflight"
    BY <1>2, <2>3
  <2>4. CASE Ok
    <3>1. s \notin {"toBc", "lift", "rebuild"}
      BY DEF Early
    <3>2. FreshInv' /\ outcome' = "running"
      BY <1>9, <2>1, <2>2, <2>4, <3>1, IdleStage, FreshAdvance
    <3>3. QED
      BY <1>4, <3>2
  <2>5. QED
    BY <2>2, <2>3, <2>4
<1>14. CASE DynamicTrace
  <2>1. Stage("trace") /\ recovered' = recovered /\ (Ok \/ outcome' = "target")
    BY <1>14 DEF DynamicTrace, Works, Stop
  <2>2. CASE outcome' = "target"
    BY <1>2, <2>2
  <2>3. CASE Ok
    <3>1. ASSUME NEW k \in 1..Len(q), q[k] = "trace", FreshUp(k) PROVE FreshUp(k + 1)'
      <4>1. k + 1 \in 1..Len(q) /\ q[k + 1] = "toBc"
        BY <3>1, LastStages DEF Paired
      <4>2. Ahead(k + 1, "toBc")'
        BY <1>1, <1>9, <4>1 DEF Ahead
      <4>3. Ahead(k, "lift") => Ahead(k + 1, "lift")'
        BY <1>9, <3>1, AheadStep
      <4>4. \A j : Fresh(j)' <=> Fresh(j)
        BY <1>9, <2>1 DEF Fresh
      <4>5. QED
        BY <1>9, <3>1, <4>2, <4>3, <4>4 DEF FreshUp, Traced, Lifted
    <3>2. FreshInv' /\ outcome' = "running"
      BY <1>9, <2>1, <2>3, <3>1, FreshAdvance
    <3>3. QED
      BY <1>4, <3>2
  <2>4. QED
    BY <2>1, <2>2, <2>3
<1>15. CASE TraceToBc
  <2>1. /\ Stage("toBc") /\ Ok /\ trace' = trace /\ WriteAll(trace.seen, LiveStem, "trace")
    BY <1>15 DEF TraceToBc, Works
  <2>2. /\ \A k \in trace.seen : Plain(k) => Fresh(k)'
        /\ \A k \in Key : Plain(k) /\ Fresh(k) => Fresh(k)'
        /\ cmd.dump \subseteq Key
    BY <1>9, <2>1, Writers, WriteIsFresh DEF MayWrite
  <2>3. ASSUME NEW k \in 1..Len(q), q[k] = "toBc", FreshUp(k) PROVE FreshUp(k + 1)'
    <3>1. Ahead(k, "lift") => Ahead(k + 1, "lift")'
      BY <1>9, <2>3, AheadStep
    <3>2. QED
      BY <1>9, <2>1, <2>2, <2>3, <3>1 DEF FreshUp, Traced, Lifted, Plain
  <2>4. FreshInv' /\ outcome' = "running"
    BY <1>9, <2>1, <2>3, FreshAdvance
  <2>5. QED
    BY <1>4, <2>4
<1>16. CASE StaticReverse
  <2>1. /\ Stage("lift") /\ Ok /\ trace' = trace /\ WriteAll(cmd.dump, FlatStem, "lift")
    BY <1>16 DEF StaticReverse, Works
  <2>2. /\ \A k \in cmd.dump : Plain(k) => Fresh(k)'
        /\ \A k \in Key : Plain(k) /\ Fresh(k) => Fresh(k)'
        /\ trace.seen \subseteq Key
    BY <1>9, <2>1, Writers, WriteIsFresh DEF MayWrite
  <2>3. ASSUME NEW k \in 1..Len(q), q[k] = "lift", FreshUp(k) PROVE FreshUp(k + 1)'
    <3>1. Ahead(k, "toBc") => Ahead(k + 1, "toBc")'
      BY <1>9, <2>3, AheadStep
    <3>2. QED
      BY <1>9, <2>1, <2>2, <2>3, <3>1 DEF FreshUp, Traced, Lifted, Plain
  <2>4. FreshInv' /\ outcome' = "running"
    BY <1>9, <2>1, <2>3, FreshAdvance
  <2>5. QED
    BY <1>4, <2>4
<1>17. CASE Rebuild
  <2>1. Stage("rebuild") /\ Ok
    BY <1>17 DEF Rebuild, Works
  <2>2. p = Len(q) /\ outcome' = "ok"
    <3>1. q[p] = "rebuild"
      BY <1>1, <1>10, <2>1, NextPlace
    <3>2. p = Len(q)
      BY <3>1, LastStages
    <3>3. QED
      BY <1>1, <1>10, <2>1, <3>2, NextPlace
  <2>3. FreshInv'
    BY <2>2 DEF FreshInv, Running
  <2>4. QED
    BY <1>9, <1>17, <2>3, RebuildIsFresh
<1>18. QED
  BY <1>9, <1>12, <1>13, <1>14, <1>15, <1>16, <1>17

\* Whatever earlier commands, finished or interrupted, left in the directory: when
\* recover ends well, its jar is this command's, and every method it traced or
\* lifted, and whose file is its own, has a body that this command recovered, but in
\* a class that could not be written with its bodies.
THEOREM RecoverIsFresh == Spec => []FreshWins
<1> DEFINE IInv == BodyInv /\ FileInv /\ FreshInv /\ FreshWins
<1>1. Init => IInv
  <2> SUFFICES ASSUME Init PROVE IInv
    OBVIOUS
  <2>1. BodyInv
    BY DEF Init, BodyInv, KeepsReal, Running, NoDoc, NoTrace
  <2>2. FileInv
    BY PipelineAssumption DEF Init, FileInv, NoFile
  <2>3. FreshInv /\ FreshWins
    BY DEF Init, FreshInv, FreshWins, Running, Recovered
  <2>4. QED
    BY <2>1, <2>2, <2>3
<1>2. IInv /\ [Next]_vars => IInv'
  BY BodyStep, FileStep, FreshStep
<1>3. IInv => FreshWins
  OBVIOUS
<1>4. QED
  BY <1>1, <1>2, <1>3, PTL DEF Spec
===============================================================================
