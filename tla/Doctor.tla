------------------------------- MODULE Doctor -------------------------------
(***************************************************************************)
(* j2c_dumper_cli/doctor.py: what j2c-dumper finds on the host, and what   *)
(* it makes of it.  A host is a record:                                    *)
(*   path, home   the Java on PATH and the one of JAVA_HOME                *)
(*   python       the interpreter is 3.11 or later                         *)
(*   imports      the Python packages that can be imported                 *)
(*   built        the JVM modules that are built                           *)
(*   machine      this host is an x86-64                                   *)
(*   agent        what is at native/build/lib                              *)
(***************************************************************************)
EXTENDS Naturals, FiniteSets

JavaVersions == {"none", "old", "odd", "new"}
JavaHomes == JavaVersions \cup {"unset"}
AgentFiles == {"none", "stray", "small", "unreadable", "foreign", "good"}
Modules == {"jar-parser", "trace-to-bytecode", "class-rebuilder"}
\* stub_recovery is a part of binary_introspect that needs neither capstone nor
\* lief; ast_matcher needs tree_sitter.
Packages == {"binary_introspect", "stub_recovery", "manifest_merge", "ast_matcher"}

IsHost(h) ==
    /\ h.path \in JavaVersions /\ h.home \in JavaHomes
    /\ h.python \in BOOLEAN /\ h.machine \in BOOLEAN
    /\ h.imports \subseteq Packages
    /\ "binary_introspect" \in h.imports => "stub_recovery" \in h.imports
    /\ h.built \subseteq Modules /\ h.agent \in AgentFiles

\* _java_executable: the one of JAVA_HOME if there is one, else that on PATH
JavaExecutable(h) == IF h.home \in {"unset", "none"} THEN h.path ELSE h.home

CheckJava_Warns(h) == IF JavaExecutable(h) = "new" /\ h.home # "unset" THEN "ok" ELSE "warn"

CheckJava(h) ==
    IF JavaExecutable(h) \in {"none", "old"} THEN "missing"
    ELSE IF JavaExecutable(h) = "odd" \/ h.home = "unset" THEN "warn" ELSE "ok"

CheckPython(h) == IF h.python THEN "ok" ELSE "missing"
\* check_python_recover_deps: one package is tried, of those the stages import
CheckDeps(h) == IF "binary_introspect" \in h.imports THEN "ok" ELSE "missing"
CheckModules(h) == IF Modules \subseteq h.built THEN "ok" ELSE "missing"

\* Ready is a file of the right name that is long enough and is for an x86-64,
\* on an x86-64.
CheckAgent(h) == IF h.machine /\ h.agent = "good" THEN "ok" ELSE "missing"

\* Report.blocking, Report.healthy: a warning does not count, and nothing that
\* is optional (Ghidra, unicorn, zig) does.
Checks(h) ==
    [java |-> CheckJava(h), python |-> CheckPython(h), deps |-> CheckDeps(h),
     modules |-> CheckModules(h), agent |-> CheckAgent(h)]
Blocking(h) == {c \in DOMAIN Checks(h): Checks(h)[c] = "missing"}
Healthy(h) == Blocking(h) = {}
=============================================================================
