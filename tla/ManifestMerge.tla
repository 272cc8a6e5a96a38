--------------------------- MODULE ManifestMerge ---------------------------
(***************************************************************************)
(* manifest_merge/core.py: the native methods of the jar are joined with   *)
(* the tables found in the library.                                        *)
(*                                                                         *)
(* The registry is a sequence of entries: a Java_* export, a table read    *)
(* out of the image ("static"), a table known only by its function         *)
(* addresses ("stack"), a table the emulator captured ("emulation") or one *)
(* that was seen and could not be read ("unreadable").  merge walks it     *)
(* pass by pass and one action is one entry of one pass.  A method is a    *)
(* name and a descriptor; a class of the jar is the sequence of its        *)
(* obfuscated native methods (empty: not in the jar, or none).  truth is   *)
(* what the Java VM runs: only the properties read it.                     *)
(***************************************************************************)
EXTENDS Integers, Sequences

CONSTANTS
    Class,    \* classes of the jar and of the library
    Method,   \* names with descriptors
    Addr,     \* addresses of native functions
    NoClass, NoMethod, NoAddr

MethodType == Method \cup {NoMethod}
EntryType ==
    [source: {"export", "static", "stack", "emulation", "unreadable"},
     class: Class \cup {NoClass}, methods: Seq(MethodType), addrs: Seq(Addr),
     nMethods: Nat, short: BOOLEAN]

ASSUME MergeAssumption ==
    /\ NoClass \notin Class /\ NoMethod \notin Method /\ NoAddr \notin Addr

VARIABLES
    jar,        \* class |-> its obfuscated native methods in declaration order
    truth,      \* history: class |-> method |-> the function it is bound to
    registry,   \* nativeRegistry of binary.json
    pass,       \* the loop of merge, or "done" or "crash"; before, the step that
                \*   makes the registry
    pos,        \* the entry the loop is at
    fnIndex,    \* fn_index
    used,       \* used_classes
    ambiguous,  \* ambiguous_named_sites
    boundTo,    \* boundTo of the entries
    gaps        \* bindingGaps

merged == <<fnIndex, used, ambiguous, boundTo, gaps>>
mergeVars == <<jar, truth, registry, pass, pos, fnIndex, used, ambiguous, boundTo, gaps>>

Here == registry[pos]
NativeClasses == {c \in Class: jar[c] # <<>>}
IsSite(e) == e.source \in {"static", "stack", "emulation"}

\* The jar as jar-parser writes it: no class declares a method twice.
IsJar(j) ==
    /\ j \in [Class -> Seq(Method)]
    /\ \A c \in Class: \A i, k \in DOMAIN j[c]: j[c][i] = j[c][k] => i = k

\* The registry as binary.json holds it: where there are names, one goes with
\* each address.
IsRegistry(r) ==
    /\ r \in Seq(EntryType)
    /\ \A i \in DOMAIN r:
        /\ r[i].methods = <<>> \/ Len(r[i].methods) = Len(r[i].addrs)
        /\ r[i].source = "export" => Len(r[i].addrs) = 1 /\ Len(r[i].methods) = 1
                                     /\ r[i].class \in Class /\ r[i].methods[1] \in Method

Unbound == [c \in Class |-> [m \in Method |-> NoAddr]]

MergeStart ==
    /\ pos = 1
    /\ fnIndex = Unbound /\ used = {} /\ ambiguous = {} /\ gaps = {}

MergeInit ==
    /\ IsJar(jar) /\ truth \in [Class -> [Method -> Addr]]
    /\ IsRegistry(registry)
    /\ pass = "class"
    /\ MergeStart
    /\ boundTo = [i \in DOMAIN registry |-> NoClass]

(***************************************************************************)
(* One entry of one loop                                                   *)
(***************************************************************************)
At(p) == pass = p /\ pos <= Len(registry)
Step == pos' = pos + 1 /\ UNCHANGED <<jar, truth, registry, pass>>
NextPass(p, q) ==
    /\ pass = p /\ pos > Len(registry)
    /\ pass' = q /\ pos' = 1
    /\ UNCHANGED <<jar, truth, registry, merged>>

\* fn_index[(cls, m.name, m.desc)] for the rows of a table or of a class
Bound(c, methods, addrs) ==
    [fnIndex EXCEPT ![c] =
        [m \in Method |-> IF \E i \in DOMAIN methods: methods[i] = m
                          THEN addrs[CHOOSE i \in DOMAIN methods: methods[i] = m]
                          ELSE fnIndex[c][m]]]

\* A record of the emulator names its class.  A method whose name could not be
\* read has no "name", and the merge ends with a KeyError.
ByClassName ==
    /\ At("class")
    /\ IF Here.class = NoClass \/ ~IsSite(Here)
       THEN Step /\ UNCHANGED merged
       ELSE IF \E i \in DOMAIN Here.methods: Here.methods[i] = NoMethod
       THEN pass' = "crash" /\ UNCHANGED <<jar, truth, registry, pos, merged>>
       ELSE /\ fnIndex' = Bound(Here.class, Here.methods, Here.addrs)
            /\ Step
            /\ UNCHANGED <<used, ambiguous, boundTo, gaps>>

\* _jni_export_names: the long symbol of a method, or the short one, which the
\* overloads of the method share
Symbols(c, m, short) ==
    {i \in DOMAIN registry:
        /\ registry[i].source = "export" /\ registry[i].class = c
        /\ registry[i].short = short
        /\ registry[i].methods[1].name = m.name
        /\ short \/ registry[i].methods[1].desc = m.desc}
Newest(S) == CHOOSE i \in S: \A k \in S: k <= i
ExportOf(c, m) ==
    IF Symbols(c, m, FALSE) # {} THEN registry[Newest(Symbols(c, m, FALSE))].addrs[1]
    ELSE IF Symbols(c, m, TRUE) # {} THEN registry[Newest(Symbols(c, m, TRUE))].addrs[1]
    ELSE fnIndex[c][m]

Exports ==
    /\ pass = "class" /\ pos > Len(registry)
    /\ fnIndex' = [c \in Class |-> [m \in Method |->
            IF \E i \in DOMAIN jar[c]: jar[c][i] = m THEN ExportOf(c, m) ELSE fnIndex[c][m]]]
    /\ pass' = "named" /\ pos' = 1
    /\ UNCHANGED <<jar, truth, registry, used, ambiguous, boundTo, gaps>>

\* A table with names goes to the class that declares exactly those methods.
Signed(e) == {c \in NativeClasses: jar[c] = e.methods}

Named ==
    /\ At("named")
    /\ Step
    /\ UNCHANGED gaps
    /\ IF ~IsSite(Here) \/ Here.methods = <<>> \/ Signed(Here) = {}
       THEN UNCHANGED <<fnIndex, used, ambiguous, boundTo>>
       ELSE IF \E c, d \in Signed(Here): c # d
       THEN ambiguous' = ambiguous \cup {pos} /\ UNCHANGED <<fnIndex, used, boundTo>>
       ELSE \E c \in Signed(Here):
            /\ used' = used \cup {c}
            /\ fnIndex' = Bound(c, jar[c], Here.addrs)
            /\ boundTo' = [boundTo EXCEPT ![pos] = c]
            /\ UNCHANGED ambiguous

\* A table without names goes to the one unused class with as many methods.
Counted(e) == {c \in NativeClasses \ used: Len(jar[c]) = Len(e.addrs)}
Complete(c) == \A i \in DOMAIN jar[c]: fnIndex[c][jar[c][i]] # NoAddr

ByCount_TakesFirst ==
    /\ At("count")
    /\ Step
    /\ UNCHANGED <<ambiguous, gaps>>
    /\ IF ~IsSite(Here) \/ boundTo[pos] # NoClass \/ pos \in ambiguous \/ Counted(Here) = {}
       THEN UNCHANGED <<fnIndex, used, boundTo>>
       ELSE LET c == CHOOSE d \in Counted(Here): TRUE
            IN  /\ used' = used \cup {c}
                /\ fnIndex' = Bound(c, jar[c], Here.addrs)
                /\ boundTo' = [boundTo EXCEPT ![pos] = c]

ByCount_NoGap ==
    /\ At("count")
    /\ Step
    /\ UNCHANGED <<ambiguous, gaps>>
    /\ IF ~IsSite(Here) \/ boundTo[pos] # NoClass \/ pos \in ambiguous
            \/ Counted(Here) = {} \/ \E c, d \in Counted(Here): c # d
       THEN UNCHANGED <<fnIndex, used, boundTo>>
       ELSE \E c \in Counted(Here):
            /\ used' = used \cup {c}
            /\ fnIndex' = IF Complete(c) THEN fnIndex ELSE Bound(c, jar[c], Here.addrs)
            /\ boundTo' = [boundTo EXCEPT ![pos] = c]

ByCount ==
    /\ At("count")
    /\ Step
    /\ UNCHANGED ambiguous
    /\ IF ~IsSite(Here) \/ boundTo[pos] # NoClass \/ pos \in ambiguous \/ Counted(Here) = {}
       THEN UNCHANGED <<fnIndex, used, boundTo, gaps>>
       ELSE IF \E c, d \in Counted(Here): c # d
       THEN /\ gaps' = gaps \cup
                {[kind |-> "ambiguous-count-only-table", site |-> pos, candidates |-> Counted(Here)]}
            /\ UNCHANGED <<fnIndex, used, boundTo>>
       ELSE \E c \in Counted(Here):
            /\ used' = used \cup {c}
            /\ fnIndex' = IF Complete(c) THEN fnIndex ELSE Bound(c, jar[c], Here.addrs)
            /\ boundTo' = [boundTo EXCEPT ![pos] = c]
            /\ UNCHANGED gaps

Unreadable ==
    /\ At("unreadable")
    /\ Step
    /\ gaps' = IF Here.source = "unreadable"
               THEN gaps \cup {[kind |-> "unreadable-table", site |-> pos, candidates |-> {}]}
               ELSE gaps
    /\ UNCHANGED <<fnIndex, used, ambiguous, boundTo>>

MergeNext ==
    \/ ByClassName \/ Exports
    \/ Named \/ NextPass("named", "count")
    \/ ByCount \/ NextPass("count", "unreadable")
    \/ Unreadable \/ NextPass("unreadable", "done")

MergeSpec == MergeInit /\ [][MergeNext]_mergeVars

(***************************************************************************)
(* Properties                                                              *)
(***************************************************************************)
MergeTypeOK ==
    /\ pass \in {"scan", "harvest", "emulate", "class", "named", "count", "unreadable", "done", "crash"}
    /\ pos \in Nat \ {0}
    /\ fnIndex \in [Class -> [Method -> Addr \cup {NoAddr}]]
    /\ used \subseteq Class
    /\ ambiguous \subseteq DOMAIN registry
    /\ boundTo \in [DOMAIN registry -> Class \cup {NoClass}]
    /\ \A g \in gaps: g.site \in DOMAIN registry /\ g.candidates \subseteq Class

\* The addresses the Java VM has for the methods of a class, in order
Rows(c) == [i \in DOMAIN jar[c] |-> truth[c][jar[c][i]]]

\* Entry e is what class c registers, under its own name or none.
Describes(e, c) ==
    /\ e.class \in {NoClass, c}
    /\ jar[c] # <<>>
    /\ e.addrs = Rows(c)
    /\ e.methods \in {<<>>, jar[c]}

\* The registry tells what the Java VM would do: every export is the function
\* of each method its symbol stands for, every table is the whole table of a
\* class of the jar, and no class has both a table with names and one without.
Exact ==
    /\ \A i \in DOMAIN registry: IsSite(registry[i]) =>
            \E c \in Class: Describes(registry[i], c)
    /\ \A c \in Class, m \in Method, short \in BOOLEAN: \A i \in Symbols(c, m, short):
            registry[i].addrs[1] = truth[c][m]
    /\ \A i, k \in DOMAIN registry, c \in Class:
            /\ IsSite(registry[i]) /\ IsSite(registry[k])
            /\ Describes(registry[i], c) /\ Describes(registry[k], c)
            => (registry[i].methods = <<>> <=> registry[k].methods = <<>>)

\* Whatever the counts and signatures leave open, no method of the jar is given
\* an address that is not its own.
BoundIsTrue ==
    Exact => \A c \in Class, m \in Method: fnIndex[c][m] \in {NoAddr, truth[c][m]}

\* Every table that was found is accounted for when the merge is over: its
\* class has its addresses, or the manifest tells of the table in a gap.  That is
\* all but the tables with names and no class whose very methods several classes
\* declare.
Fitted(e) == \E c \in Class: Describes(e, c) /\ Complete(c)
Vague(e) == e.class = NoClass /\ \E c, d \in Signed(e): c # d
Accounted ==
    Exact /\ pass = "done" =>
        \A i \in DOMAIN registry:
            /\ registry[i].source = "unreadable" => \E g \in gaps: g.site = i
            /\ IsSite(registry[i]) /\ ~Vague(registry[i]) =>
                Fitted(registry[i]) \/ \E g \in gaps: g.site = i

\* Those are dropped without a word, which docs/ARCHITECTURE.md:171 denies: violated.
AmbiguousIsTold ==
    Exact /\ pass = "done" =>
        \A i \in DOMAIN registry: Vague(registry[i]) =>
            Fitted(registry[i]) \/ \E g \in gaps: g.site = i
=============================================================================
