----------------------------- MODULE StaticPath -----------------------------
(***************************************************************************)
(* From the library to the manifest without running the program: the       *)
(* harvest of JniTables, the report of binary_introspect/core.py, what     *)
(* the emulator adds to it, and the merge of ManifestMerge.                *)
(*                                                                         *)
(* A world is a jar, a library and what of it the emulator reaches: the    *)
(* properties say in which worlds the manifest is true, and how far.       *)
(***************************************************************************)
EXTENDS JniTables

CONSTANTS
    Worlds,    \* bound: [jar, truth, layout, skew, exports, emulated]
    Rebase     \* what the emulator adds to the addresses of a library linked at 0

RegistrationType ==
    [class: Class, form: {"static", "moved", "encrypted", "stack"}, count: {"before", "after", "none"},
     noise: {"none", "before", "after"}, gap: {"near", "far", "data"},
     call: {"call", "split", "veneer", "late", "shared"}]

\* A library registers native methods that a class has, and what else it stores
\* is none of them.  The emulator captures some of the registrations.
ASSUME WorldsAssumption ==
    \A w \in Worlds:
        /\ IsJar(w.jar) /\ w.truth \in [Class -> [Method -> Addr]]
        /\ w.layout \in Seq(RegistrationType)
        /\ \A k \in DOMAIN w.layout: LET c == w.layout[k].class IN
            w.jar[c] # <<>> /\ \A i \in DOMAIN w.jar[c]: w.truth[c][w.jar[c][i]] # Callback
        /\ \A i \in DOMAIN CodeOf(w.layout, w.jar, w.truth): w.skew[i] \in Nat
        /\ IsFiniteSet(w.exports) /\ w.exports \subseteq [class: Class, method: Method, short: BOOLEAN]
        /\ w.emulated.tables \in Seq(DOMAIN w.layout)
        /\ \A k \in DOMAIN w.layout: LET c == w.layout[k].class IN w.emulated.rebased =>
            \A i \in DOMAIN w.jar[c]: w.truth[c][w.jar[c][i]] + Rebase \in Addr

VARIABLE world

vars == <<world, tableVars, mergeVars>>

\* SelectSeq
Those(s, Is(_)) == Flat([i \in DOMAIN s |-> IF Is(s[i]) THEN <<s[i]>> ELSE <<>>])
Entries(set, Entry(_)) == LET s == SetToSeq(set) IN [i \in DOMAIN s |-> Entry(s[i])]

Init ==
    /\ world \in Worlds
    /\ jar = world.jar /\ truth = world.truth /\ layout = world.layout /\ skew = world.skew
    /\ TablesInit
    /\ registry = <<>> /\ boundTo = <<>>
    /\ MergeStart

(***************************************************************************)
(* introspect                                                              *)
(***************************************************************************)
ExportEntry(e) ==
    [source |-> "export", class |-> e.class, methods |-> <<e.method>>,
     addrs |-> <<truth[e.class][e.method]>>, nMethods |-> 1, short |-> e.short]
Read(t) == t.source # "unreadable"
Report ==
    Entries(world.exports, ExportEntry) \o Those(tables, Read)
        \o Those(tables, LAMBDA t: ~Read(t))

Introspect ==
    /\ pass = "harvest" /\ sites = <<>>
    /\ registry' = Report
    /\ boundTo' = [i \in DOMAIN registry' |-> NoClass]
    /\ pass' = "emulate"
    /\ UNCHANGED <<world, tableVars, jar, truth, pos, fnIndex, used, ambiguous, gaps>>

(***************************************************************************)
(* add_emulated_registry                                                   *)
(***************************************************************************)
Captured(e) ==
    Flat([k \in DOMAIN e.tables |->
        LET c == layout[e.tables[k]].class
        IN  [i \in DOMAIN jar[c] |->
                [class |-> IF e.named THEN c ELSE NoClass,
                 method |-> IF e.legible THEN jar[c][i] ELSE NoMethod,
                 fn |-> truth[c][jar[c][i]] + (IF e.rebased THEN Rebase ELSE 0)]]])

Known(r) == UNION {ToSet(r[i].addrs): i \in DOMAIN r}

SameTable_ByLength(r, rows) ==
    {i \in DOMAIN r: r[i].source # "export" /\ Len(r[i].addrs) = Len(rows)}

Addrs(rows) == [i \in DOMAIN rows |-> rows[i].fn]
Names(rows) == [i \in DOMAIN rows |-> rows[i].method]
SameTable(r, rows) == {i \in DOMAIN r: r[i].source # "export" /\ r[i].addrs = Addrs(rows)}
Fresh(r, rows) == Those(rows, LAMBDA row: row.fn \notin Known(r))
OfClass(rows, c) == Those(rows, LAMBDA row: row.class = c)

\* The rows of a class become the names of the first table with the same
\* addresses; if there is none, those whose address is new are a table.
Grouped(r, c, rows) ==
    LET same == SameTable(r, rows)
        fresh == Fresh(r, rows)
    IN  IF same # {}
        THEN [r EXCEPT ![Min(same)].methods = Names(rows),
                       ![Min(same)].class = IF c = NoClass THEN @ ELSE c]
        ELSE IF fresh = <<>> THEN r
        ELSE Append(r, [source |-> "emulation", class |-> c, methods |-> Names(fresh),
                        addrs |-> Addrs(fresh), nMethods |-> Len(fresh), short |-> FALSE])

WithEmulated(r, rows) ==
    LET classes == Distinct([i \in DOMAIN rows |-> rows[i].class])
        h[i \in 0..Len(classes)] ==
            IF i = 0 THEN r ELSE Grouped(h[i - 1], classes[i], OfClass(rows, classes[i]))
    IN  h[Len(classes)]

AddEmulated ==
    /\ pass = "emulate"
    /\ registry' = WithEmulated(registry, Captured(world.emulated))
    /\ boundTo' = [i \in DOMAIN registry' |-> NoClass]
    /\ pass' = "class"
    /\ UNCHANGED <<world, tableVars, jar, truth, pos, fnIndex, used, ambiguous, gaps>>

Next ==
    \/ (Scan \/ HarvestSite) /\ UNCHANGED <<world, jar, truth, registry, pos, merged>>
    \/ Introspect \/ AddEmulated
    \/ MergeNext /\ UNCHANGED <<world, tableVars>>

Spec == Init /\ [][Next]_vars

(***************************************************************************)
(* Properties                                                              *)
(***************************************************************************)
TypeOK ==
    /\ MergeTypeOK
    /\ \A i \in DOMAIN sites: sites[i] \in DOMAIN code
    /\ IsRegistry(registry)

\* A registration the harvest is made for: the call is within reach and goes
\* through a register the scan follows, the count is a constant of its own, the
\* last functions stored are the natives, and all of it is within the window, also
\* within one that misses its first instructions.
Plain(k) ==
    /\ \A i \in DOMAIN code: Len(BodyOf(layout, jar, truth, k)) + skew[i] <= Window + 1
    /\ layout[k].call \in {"call", "split", "veneer"}
    /\ layout[k].count # "none" /\ layout[k].noise # "after"
    /\ layout[k].gap # "data"

\* What the look back from call k may reach of the registrations before it: a
\* table that can be read would be taken for the table of a call that has none,
\* a function stored there for one of a call that stores none.
Near(l, k) == l < k /\ \A m \in l + 1..k: layout[m].gap # "far"
Readable(l) == layout[l].form \in {"static", "moved"}
Alone(k) ==
    /\ layout[k].form = "stack" => \A l \in DOMAIN layout: Near(l, k) => ~Readable(l)
    /\ layout[k].form = "encrypted" =>
            layout[k].noise = "none" /\ \A l \in DOMAIN layout: ~Near(l, k)

\* Two natives share a function.
Shares(c, d) ==
    \E i \in DOMAIN jar[c], k \in DOMAIN jar[d]:
        <<c, i>> # <<d, k>> /\ truth[c][jar[c][i]] = truth[d][jar[d][k]]
OwnFunctions ==
    \A k, l \in DOMAIN layout:
        /\ ~Shares(layout[k].class, layout[l].class)
        /\ k # l => layout[k].class # layout[l].class
AllPlain == OwnFunctions /\ \A k \in DOMAIN layout: Plain(k) /\ Alone(k)

\* In a library of such registrations the per-class harvest finds, in order, the
\* table of every class, and nothing else; where the table is encrypted it says
\* that there is one.
Table(k) ==
    LET c == layout[k].class
    IN  CASE layout[k].form = "stack" -> Found("stack", <<>>, Rows(c), Len(jar[c]))
          [] Readable(k) -> Found("static", jar[c], Rows(c), Len(jar[c]))
          [] OTHER -> Found("unreadable", <<>>, <<>>, Len(jar[c]))
PlainIsExact ==
    pass = "harvest" /\ sites = <<>> /\ AllPlain /\ strategy = "per_class" =>
        tables = [k \in DOMAIN layout |-> Table(k)]

\* Where every class fills its table and then sets its count, before the one
\* call they share, the dispatch harvest finds the table of every class, and
\* "auto" finds what "shared_dispatch" finds when there are two of them.
Dispatched ==
    /\ Len(code) <= DispatchWindow
    /\ \A k \in DOMAIN layout:
        /\ layout[k].form = "stack" /\ layout[k].count = "after"
        /\ layout[k].noise # "after" /\ layout[k].gap = "near"
        /\ layout[k].call = IF k = Len(layout) THEN "call" ELSE "shared"
    /\ \A k, l \in DOMAIN layout: ~Shares(layout[k].class, layout[l].class)
DispatchIsExact ==
    /\ pass = "harvest" /\ sites = <<>> /\ Dispatched
    /\ strategy = "shared_dispatch" \/ (strategy = "auto" /\ Len(layout) > 1)
    => tables = [k \in DOMAIN layout |-> Table(k)]

\* On top of a report that tells the truth, what the emulator saw a library
\* register leaves one that does: the tables that could not be read become those
\* of their classes, and no other is touched.  Two of them that the emulator could
\* name no class for would become one, and the addresses of a library that it
\* moved are not those of the file.
Unknown == {k \in ToSet(world.emulated.tables): ~(ToSet(Rows(layout[k].class)) \subseteq Known(registry))}
OneByOne ==
    /\ world.emulated.named \/ Cardinality(Unknown) <= 1
    /\ IsInjective(world.emulated.tables)
    /\ \A i, k \in DOMAIN tables: i # k /\ Read(tables[i]) => tables[i].addrs # tables[k].addrs
EmulationKeepsExact ==
    [][pass = "emulate" /\ Exact /\ OwnFunctions /\ OneByOne
           /\ world.emulated.legible /\ ~world.emulated.rebased
        => Exact']_vars

\* What none of that gives up, and the worlds of the run do.
EmulationNeverHarms == [][pass = "emulate" /\ Exact => Exact']_vars

\* Refuted: whatever comes before it, a call whose table is in the image and
\* cannot be read leaves a record of that table.
UnreadableIsTold ==
    pass = "harvest" /\ sites = <<>> /\ strategy = "per_class"
        /\ (\A k \in DOMAIN layout: Plain(k)) =>
    Cardinality({k \in DOMAIN layout: layout[k].form = "encrypted"}) =
    Cardinality({i \in DOMAIN tables: ~Read(tables[i])})
=============================================================================
