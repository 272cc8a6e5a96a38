------------------------------ MODULE Pipeline ------------------------------
(***************************************************************************)
(* j2c_dumper_cli/main.py: the commands of j2c-dumper over one working     *)
(* directory, one after the other.  A command is a sequence of stages; a   *)
(* stage runs a tool, reads files of the directory and writes others.      *)
(*                                                                         *)
(* Beside the stages: what is installed on the host may change between any *)
(* two of them, a tool may end with an error, the traced program too, and  *)
(* a command may be killed while a file is half written.                   *)
(*                                                                         *)
(* Each file carries n, the number of the command that wrote it.           *)
(***************************************************************************)
EXTENDS Doctor, Sequences, SequencesExt

CONSTANTS
    Jar, Lib, Key,   \* Key: a native method, [owner, name, desc]
    Natives,         \* jar |-> its native methods
    JarLibs,         \* jar |-> the libraries packed in it, in the order of the zip
    HostLib,         \* libraries whose name carries the host
    LiveStem,        \* key |-> the file name trace-to-bytecode gives it
    FlatStem,        \* key |-> the file name ast-matcher and synth-stubs give it
    Stem,
    ClassOf,         \* key |-> the class that declares it
    Commands,        \* the commands that may be given
    Hosts,           \* the hosts
    MaxCommands, MaxKills, MaxChanges,
    None, TornFile   \* in place of a jar or key: no file, and half a file

ASSUME PipelineAssumption ==
    /\ Natives \in [Jar -> SUBSET Key]
    /\ JarLibs \in [Jar -> Seq(Lib)]
    /\ LiveStem \in [Key -> Stem] /\ FlatStem \in [Key -> Stem] /\ DOMAIN ClassOf = Key
    /\ {None, TornFile} \cap (Jar \cup Lib \cup Key) = {} /\ None # TornFile
    /\ \A h \in Hosts: IsHost(h)
    /\ \A c \in Commands: c.jar \in Jar /\ c.lib \in Lib \cup {None} /\ c.dump \subseteq Key

VARIABLES
    host,
    cmd, todo,       \* the command and the stages it has still to run
    lib,             \* the library of this command
    n,               \* commands so far
    outcome,         \* "running", how the command ended, or "idle" before the first
    classes, binary, manifest, trace, recovered,   \* the files
    out,             \* the jar that is written
    kills, changes,  \* bounds
    healthy,         \* history: doctor found this host healthy
    real             \* history: methods of which a body was recovered

files == <<classes, binary, manifest, trace, recovered, out>>
vars == <<host, cmd, todo, lib, n, outcome, files, kills, changes, healthy, real>>

NoDoc == [jar |-> None, lib |-> None, n |-> 0]
TornDoc == [jar |-> TornFile, lib |-> None, n |-> 0]
NoTrace == [jar |-> None, seen |-> {}, n |-> 0]
NoFile == [key |-> None, by |-> None, n |-> 0]
Torn == [key |-> TornFile, by |-> None, n |-> 0]
NoOut == [jar |-> None, bodies |-> [k \in {} |-> NoFile], written |-> [c \in {} |-> None], n |-> 0]
TornOut == [NoOut EXCEPT !.jar = TornFile]
IsThere(d) == d.jar # None
IsWhole(d) == d.jar \notin {None, TornFile}

\* recover takes its stages in this order.
RecoverStages_MergeLate(c) ==
    <<"preflight", "parse", "lib", "inspect">>
    \o (IF ~c.noDynamic /\ c.run THEN <<"trace", "toBc">> ELSE <<>>)
    \o (IF ~c.noStatic /\ c.dump # {} THEN <<"lift">> ELSE <<>>) \o <<"merge", "rebuild">>

RecoverStages(c) ==
    <<"preflight", "parse", "lib", "inspect", "merge">>
    \o (IF ~c.noDynamic /\ c.run THEN <<"trace", "toBc">> ELSE <<>>)
    \o (IF ~c.noStatic /\ c.dump # {} THEN <<"lift">> ELSE <<>>) \o <<"rebuild">>

\* A command of one stage, and the stage
Single == [doctor |-> "doctor", parse_jar |-> "parse", inspect_binary |-> "inspect",
           merge_manifest |-> "merge", dynamic_trace |-> "trace", trace_to_bc |-> "toBc",
           static_reverse |-> "lift", synth_stubs |-> "stubs", rebuild |-> "rebuild"]
Stages(c) ==
    IF c.name = "recover" THEN RecoverStages(c)
    ELSE IF c.name = "static_lite" THEN <<"parse", "inspect", "merge", "stubs">>
    ELSE <<Single[c.name]>>

\* exists=True of the arguments that are files of the directory
Given(c) ==
    /\ c.name = "merge_manifest" => IsThere(classes) /\ (c.lib # None => IsThere(binary))
    /\ c.name \in {"synth_stubs", "trace_to_bc"} => IsThere(manifest)
    /\ c.name = "trace_to_bc" => trace # NoTrace
    /\ c.name = "rebuild" => \E s \in Stem: recovered[s] # NoFile

Init ==
    /\ host \in Hosts
    /\ cmd = CHOOSE c \in Commands: TRUE
    /\ todo = <<>> /\ lib = None /\ n = 0 /\ outcome = "idle"
    /\ classes = NoDoc /\ binary = NoDoc /\ manifest = NoDoc /\ trace = NoTrace
    /\ recovered = [s \in Stem |-> NoFile] /\ out = NoOut
    /\ kills = 0 /\ changes = 0 /\ healthy = FALSE /\ real = {}

Running == outcome = "running"

Start ==
    /\ ~Running /\ n < MaxCommands
    /\ \E c \in Commands:
        /\ Given(c)
        /\ cmd' = c /\ todo' = Stages(c) /\ lib' = c.lib
    /\ n' = n + 1 /\ outcome' = "running"
    /\ UNCHANGED <<host, files, kills, changes, healthy, real>>

\* Something is installed, built, removed or overwritten.
HostChanges ==
    /\ changes < MaxChanges
    /\ host' \in Hosts \ {host}
    /\ changes' = changes + 1 /\ healthy' = FALSE
    /\ UNCHANGED <<cmd, todo, lib, n, outcome, files, kills, real>>

(***************************************************************************)
(* Running a stage                                                         *)
(***************************************************************************)
Stage(s) == Running /\ Head(todo) = s
Ok ==
    /\ todo' = Tail(todo)
    /\ outcome' = IF Tail(todo) = <<>> THEN "ok" ELSE "running"
    /\ UNCHANGED <<host, cmd, n, kills, changes>>
Stop(why) == todo' = <<>> /\ outcome' = why /\ UNCHANGED <<host, cmd, n, kills, changes>>
NothingWritten == UNCHANGED <<lib, files, healthy, real>>

\* The start scripts of the JVM modules look for Java themselves: that of
\* JAVA_HOME if it is set, else that on PATH.
ScriptFindsJava(h) == IF h.home = "unset" THEN h.path # "none" ELSE h.home # "none"
\* jvm_bin, then the script
JvmNeeds(m) ==
    IF m \notin host.built THEN "artifact" ELSE IF ~ScriptFindsJava(host) THEN "java" ELSE "ok"
\* native_lib, then java of the command line
AgentFound == host.agent \in {"small", "unreadable", "foreign", "good"}
AgentLoads == host.agent = "good"
TraceNeeds ==
    IF ~AgentFound THEN "artifact" ELSE IF host.path = "none" THEN "java"
    ELSE IF ~AgentLoads THEN "load" ELSE "ok"

\* The package a stage imports when it runs
Imports == [inspect |-> "binary_introspect", merge |-> "manifest_merge",
            stubs |-> "stub_recovery", lift |-> "ast_matcher"]

Needs(s) ==
    CASE s = "parse" -> JvmNeeds("jar-parser")
      [] s = "toBc" -> JvmNeeds("trace-to-bytecode")
      [] s = "rebuild" -> JvmNeeds("class-rebuilder")
      [] s = "trace" -> TraceNeeds
      [] s \in DOMAIN Imports -> IF Imports[s] \in host.imports THEN "ok" ELSE Imports[s]
      [] OTHER -> "ok"

Lacks(s) == Stage(s) /\ Needs(s) # "ok" /\ Stop(Needs(s)) /\ NothingWritten
Works(s) == Stage(s) /\ Needs(s) = "ok"
MissingTool ==
    \E s \in {"parse", "inspect", "merge", "stubs", "trace", "toBc", "lift", "rebuild"}: Lacks(s)

\* A document that is cut off is not JSON: the tool that reads it raises.
Unreadable(s) ==
    \/ s = "merge" /\ (~IsWhole(classes) \/ (lib # None /\ ~IsWhole(binary)))
    \/ s \in {"toBc", "lift", "rebuild"} /\ manifest.jar = TornFile
    \/ s = "stubs" /\ ~IsWhole(manifest)
    \/ s = "rebuild" /\ \E st \in Stem: recovered[st] = Torn
BadData ==
    \E s \in {"merge", "toBc", "stubs", "lift", "rebuild"}:
        Works(s) /\ Unreadable(s) /\ Stop("data") /\ NothingWritten

(***************************************************************************)
(* The stages                                                              *)
(***************************************************************************)
PreflightNeeds(c) ==
    {CheckModules(host)} \cup IF c.run /\ ~c.noDynamic THEN {CheckAgent(host)} ELSE {}

Preflight ==
    /\ Stage("preflight")
    /\ IF "missing" \in PreflightNeeds(cmd) THEN Stop("preflight") ELSE Ok
    /\ UNCHANGED <<lib, files, healthy, real>>

DoctorStage ==
    /\ Stage("doctor")
    /\ healthy' = Healthy(host)
    /\ IF Healthy(host) THEN Ok ELSE Stop("unhealthy")
    /\ UNCHANGED <<lib, files, real>>

ParseJar ==
    /\ Works("parse") /\ Ok
    /\ classes' = [jar |-> cmd.jar, lib |-> None, n |-> n]
    /\ UNCHANGED <<lib, binary, manifest, trace, recovered, out, healthy, real>>

\* Without --lib: the first library in the jar that is for the host, or else
\* the first.
PickLib(j) ==
    LET mine == SelectSeq(JarLibs[j], LAMBDA l: l \in HostLib)
    IN  IF mine # <<>> THEN mine[1] ELSE IF JarLibs[j] # <<>> THEN JarLibs[j][1] ELSE None
ExtractLib ==
    /\ Stage("lib") /\ Ok
    /\ lib' = IF cmd.lib # None THEN cmd.lib ELSE PickLib(cmd.jar)
    /\ UNCHANGED <<files, healthy, real>>

InspectBinary ==
    /\ Works("inspect") /\ Ok
    /\ binary' = [jar |-> cmd.jar, lib |-> lib, n |-> n]
    /\ UNCHANGED <<lib, classes, manifest, trace, recovered, out, healthy, real>>

\* With no library the binary is left out, and no method gets an address.
MergeManifest ==
    /\ Works("merge") /\ ~Unreadable("merge") /\ Ok
    /\ manifest' = [jar |-> classes.jar, lib |-> IF lib = None THEN None ELSE binary.lib, n |-> n]
    /\ UNCHANGED <<lib, classes, binary, trace, recovered, out, healthy, real>>

\* The agent empties the trace and writes what the program calls; the program
\* may end with an error of its own, which ends the command.
DynamicTrace ==
    /\ Works("trace")
    /\ \E seen \in SUBSET Natives[cmd.jar]: trace' = [jar |-> cmd.jar, seen |-> seen, n |-> n]
    /\ Ok \/ Stop("target")
    /\ UNCHANGED <<lib, classes, binary, manifest, recovered, out, healthy, real>>

WriteAll_Keeps(keys, stem, by) ==
    \E last \in [{stem[k]: k \in keys} -> keys]:
        /\ \A s \in DOMAIN last: stem[last[s]] = s
        /\ recovered' = [s \in Stem |-> IF s \in DOMAIN last /\ recovered[s] = NoFile
                                        THEN [key |-> last[s], by |-> by, n |-> n] ELSE recovered[s]]

\* Of methods with the same file name the one that is written last stays.
WriteAll(keys, stem, by) ==
    \E last \in [{stem[k]: k \in keys} -> keys]:
        /\ \A s \in DOMAIN last: stem[last[s]] = s
        /\ recovered' = [s \in Stem |-> IF s \in DOMAIN last THEN [key |-> last[s], by |-> by, n |-> n]
                                        ELSE recovered[s]]

TraceToBc ==
    /\ Works("toBc") /\ ~Unreadable("toBc") /\ Ok
    /\ WriteAll(trace.seen, LiveStem, "trace")
    /\ real' = real \cup trace.seen
    /\ UNCHANGED <<lib, classes, binary, manifest, trace, out, healthy>>

StaticReverse ==
    /\ Works("lift") /\ ~Unreadable("lift") /\ Ok
    /\ WriteAll(cmd.dump, FlatStem, "lift")
    /\ real' = real \cup cmd.dump
    /\ UNCHANGED <<lib, classes, binary, manifest, trace, out, healthy>>

\* synthesize_stubs leaves out each method whose file is there.
Stubbed_All(m) == Natives[m.jar]

Stubbed(m) == {k \in Natives[m.jar]: recovered[FlatStem[k]] = NoFile}

SynthStubs ==
    /\ Works("stubs") /\ ~Unreadable("stubs") /\ Ok
    /\ WriteAll(Stubbed(manifest), FlatStem, "stub")
    /\ UNCHANGED <<lib, classes, binary, manifest, trace, out, healthy, real>>

\* RecoveredIndex.loadDir: of files for the same method the last one counts, in
\* the order in which the file system lists them.
FilesOf(k) == {s \in Stem: recovered[s].key = k}

\* processClass: a class whose bodies ASM can verify is written whole.  One whose
\* bodies it cannot is written unverified, and no JVM loads it; and one that it
\* cannot write at all, such as a body of more than 64K, gets a default return in
\* place of each of its recovered bodies.  None of the three is an error.
Written == {"whole", "unverified", "restubbed"}
Shipped(file, way) == IF way = "restubbed" THEN [file EXCEPT !.by = "restub"] ELSE file

Rebuild ==
    /\ Works("rebuild") /\ ~Unreadable("rebuild") /\ Ok
    /\ \E from \in [{k \in Natives[cmd.jar]: FilesOf(k) # {}} -> Stem]:
        /\ \A k \in DOMAIN from: from[k] \in FilesOf(k)
        /\ \E way \in [{ClassOf[k]: k \in DOMAIN from} -> Written]:
            out' = [jar |-> cmd.jar, written |-> way, n |-> n,
                    bodies |-> [k \in DOMAIN from |-> Shipped(recovered[from[k]], way[ClassOf[k]])]]
    /\ UNCHANGED <<lib, classes, binary, manifest, trace, recovered, healthy, real>>

(***************************************************************************)
(* Interrupted: the tool ends with an error or is killed.  The document    *)
(* it was writing is cut off, or was not opened yet; of many documents     *)
(* some are written and one may be cut off.  A tool whose input is cut off *)
(* has written nothing (BadData).                                          *)
(***************************************************************************)
CutDoc(doc, writes) == {doc} \cup IF writes THEN {TornDoc} ELSE {}

CutAll(keys, stem, by) ==
    \E some \in SUBSET keys, half \in SUBSET keys:
        /\ Cardinality(half) <= 1
        /\ recovered' = [s \in Stem |->
                IF \E k \in half: stem[k] = s THEN Torn
                ELSE IF \E k \in some: stem[k] = s
                THEN [key |-> CHOOSE k \in some: stem[k] = s, by |-> by, n |-> n]
                ELSE recovered[s]]
        /\ real' = IF by = "stub" THEN real ELSE real \cup some

Interrupted ==
    /\ Running /\ kills < MaxKills
    /\ Needs(Head(todo)) = "ok" /\ ~Unreadable(Head(todo))
    /\ kills' = kills + 1 /\ todo' = <<>> /\ outcome' = "interrupted"
    /\ classes' \in CutDoc(classes, Head(todo) = "parse")
    /\ binary' \in CutDoc(binary, Head(todo) = "inspect")
    /\ manifest' \in CutDoc(manifest, Head(todo) = "merge")
    /\ out' \in {out} \cup IF Head(todo) = "rebuild" THEN {TornOut} ELSE {}
    /\ CASE Head(todo) = "toBc" -> CutAll(trace.seen, LiveStem, "trace")
         [] Head(todo) = "lift" -> CutAll(cmd.dump, FlatStem, "lift")
         [] Head(todo) = "stubs" -> CutAll(Stubbed(manifest), FlatStem, "stub")
         [] OTHER -> UNCHANGED <<recovered, real>>
    /\ UNCHANGED <<host, cmd, lib, n, trace, changes, healthy>>

Next ==
    \/ Start \/ HostChanges \/ Interrupted \/ MissingTool \/ BadData
    \/ Preflight \/ DoctorStage \/ ParseJar \/ ExtractLib \/ InspectBinary \/ MergeManifest
    \/ DynamicTrace \/ TraceToBc \/ StaticReverse \/ SynthStubs \/ Rebuild

Spec == Init /\ [][Next]_vars

(***************************************************************************)
(* Properties                                                              *)
(***************************************************************************)
Outcomes == {"idle", "running", "ok", "preflight", "unhealthy", "artifact", "java", "load",
             "data", "target", "interrupted"} \cup Packages

\* A command runs as long as it has stages; each body in the rebuilt jar is one
\* that was recovered for that very method, also where file names collide.
TypeOK ==
    /\ host \in Hosts /\ cmd \in Commands /\ lib \in Lib \cup {None}
    /\ n \in 0 .. MaxCommands /\ outcome \in Outcomes /\ (Running <=> todo # <<>>)
    /\ \A d \in {classes, binary, manifest}: d.jar \in Jar \cup {None, TornFile} /\ d.n \in 0 .. n
    /\ trace.seen \subseteq Key
    /\ \A s \in Stem: recovered[s].key \in Key \cup {None, TornFile}
    /\ \A k \in DOMAIN out.bodies: k \in Natives[out.jar] /\ out.bodies[k].key = k
    /\ real \subseteq Key

\* Methods whose file name is the same from every tool, and no other's
Plain(k) ==
    /\ LiveStem[k] = FlatStem[k]
    /\ \A j \in Key \ {k}: LiveStem[k] \notin {LiveStem[j], FlatStem[j]}

Recovered == outcome = "ok" /\ cmd.name = "recover"
Traced == ~cmd.noDynamic /\ cmd.run
Lifted == ~cmd.noStatic /\ cmd.dump # {}

\* In a directory that is used again, recover never goes by a manifest or a trace
\* of an earlier command: what is recovered and rebuilt is told by the manifest of
\* this jar and this library, and by the trace of this run.
OwnManifest ==
    Running /\ cmd.name = "recover" /\ Head(todo) \in {"trace", "toBc", "lift", "rebuild"}
    => /\ manifest = [jar |-> cmd.jar, lib |-> lib, n |-> n]
       /\ Head(todo) = "toBc" => trace.jar = cmd.jar /\ trace.n = n

Wanted(k) == Plain(k) /\ ((Traced /\ k \in trace.seen) \/ (Lifted /\ k \in cmd.dump))

\* What this recover traced or lifted is what its jar holds, whatever earlier
\* commands, finished or interrupted, left in the directory: but for the methods of
\* a class that could not be written with its bodies (processClass, the last resort).
FreshWins ==
    Recovered =>
        /\ out.jar = cmd.jar /\ out.n = n
        /\ \A k \in Natives[cmd.jar]: Wanted(k) =>
            /\ k \in DOMAIN out.bodies
            /\ \/ out.written[ClassOf[k]] = "restubbed"
               \/ out.bodies[k].n = n /\ out.bodies[k].by # "stub"

\* Violated (README): a recover that ends well has put what it recovered into the jar.
BodiesShip ==
    Recovered =>
        \A k \in Natives[cmd.jar]: Wanted(k) => out.bodies[k].by \in {"trace", "lift"}

\* synth-stubs and static-lite fill in: where a body was recovered no stub takes
\* its place (synthesize_stubs, existing).
KeepsReal ==
    \A k \in real: Plain(k) =>
        \/ recovered[LiveStem[k]] = Torn
        \/ recovered[LiveStem[k]].key = k /\ recovered[LiveStem[k]].by # "stub"

\* After doctor has found the host healthy, and as long as the host stays so, no
\* command lacks a module, the agent or binary_introspect; Java may only be missing
\* where JAVA_HOME is set.
HealthyRuns ==
    healthy => /\ outcome \notin {"preflight", "artifact", "load", "binary_introspect", "stub_recovery"}
               /\ outcome = "java" => host.home # "unset"

\* Violated (README): nor does it lack a package.
HealthyHasAll == healthy => outcome \notin Packages

\* A method that was traced is given the traced body, not the lifted one
\* (docs/static-reverse-approach.md, section 8).
DynamicWins ==
    Recovered /\ Traced =>
        \A k \in trace.seen: Plain(k) => out.bodies[k].by # "lift"
=============================================================================
