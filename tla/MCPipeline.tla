----------------------------- MODULE MCPipeline -----------------------------
(* Two jars that share a class and its methods.  The file names of "A$x" and *)
(* "A_x" differ from one tool but not from the others.                       *)
EXTENDS Pipeline

MCKey == {"p", "A$x", "A_x"}
MCNatives == [j1 |-> MCKey, j2 |-> {"p", "A_x"}]
MCJarLibs == [j1 |-> <<"win", "linux">>, j2 |-> <<>>]
MCLiveStem == [k \in MCKey |-> k]
MCClassOf == [k \in MCKey |-> "A"]
MCFlatStem == [k \in MCKey |-> IF k = "A$x" THEN "A_x" ELSE k]

Good == [path |-> "new", home |-> "new", python |-> TRUE, imports |-> Packages,
         machine |-> TRUE, built |-> Modules, agent |-> "good"]
MCHosts == {Good, [Good EXCEPT !.agent = "small", !.built = Modules \ {"class-rebuilder"}],
            [Good EXCEPT !.home = "unset", !.path = "none"], [Good EXCEPT !.home = "none"],
            [Good EXCEPT !.imports = {"binary_introspect", "stub_recovery"}],
            [Good EXCEPT !.imports = Packages \ {"binary_introspect"}, !.machine = FALSE, !.path = "odd"]}

C(name, jar) == [name |-> name, jar |-> jar, lib |-> "none", run |-> FALSE,
                 noDynamic |-> FALSE, noStatic |-> FALSE, dump |-> {}]
MCCommands ==
    {C("doctor", "j1"), C("trace_to_bc", "j1"), C("synth_stubs", "j1"),
     C("rebuild", "j1"), C("parse_jar", "j2"),
     [C("inspect_binary", "j1") EXCEPT !.lib = "linux"],
     [C("merge_manifest", "j1") EXCEPT !.lib = "linux"],
     [C("static_lite", "j1") EXCEPT !.lib = "linux"],
     [C("recover", "j1") EXCEPT !.run = TRUE],
     [C("recover", "j1") EXCEPT !.run = TRUE, !.dump = {"p"}, !.lib = "win"],
     [C("recover", "j2") EXCEPT !.run = TRUE, !.noDynamic = TRUE, !.dump = {"p", "A_x"}],
     [C("recover", "j2") EXCEPT !.run = TRUE, !.noStatic = TRUE, !.dump = {"p"}],
     [C("dynamic_trace", "j2") EXCEPT !.run = TRUE],
     [C("static_reverse", "j1") EXCEPT !.dump = {"A$x", "A_x"}]}
=============================================================================
