---------------------------- MODULE MCStaticPath ----------------------------
(* Four classes: A and B declare the same method, C two, and D one that is    *)
(* not the one of A.  A layout departs from the usual call in few fields.     *)
EXTENDS StaticPath

MCClass == {"A", "B", "C", "D"}
x == [name |-> "x", desc |-> "I"]
y == [name |-> "y", desc |-> "I"]
z == [name |-> "y", desc |-> "J"]
MCNoMethod == [name |-> "?", desc |-> "?"]
MCMethod == {x, y, z}
MCAddr == 1..50
MCJar == [c \in MCClass |-> CASE c \in {"A", "B"} -> <<x>> [] c = "C" -> <<y, z>> [] c = "D" -> <<z>>]
MCTruth == [c \in MCClass |-> [m \in MCMethod |->
    (CASE c = "A" -> 1 [] c = "B" -> 4 [] c = "C" -> 7 [] c = "D" -> 10)
        + (CASE m = x -> 0 [] m = y -> 1 [] m = z -> 2)]]

Usual(c, f) == [class |-> c, form |-> f, count |-> "before", noise |-> "none",
                gap |-> "near", call |-> "call"]
Forms == {"static", "moved", "encrypted", "stack"}
Regs(c) ==
    {u \in [class: {c}, form: Forms, count: {"before", "after", "none"},
            noise: {"none", "before", "after"}, gap: {"near", "far", "data"},
            call: {"call", "split", "veneer", "late", "shared"}]:
        Cardinality({f \in {"count", "noise", "gap", "call"}: u[f] # Usual(c, u.form)[f]}) <= 1}
    \cup [class: {c}, form: {"stack"}, count: {"after"}, noise: {"none"}, gap: {"near"}, call: {"call", "shared"}]
Orders == {<<"A", "C">>, <<"C", "A">>, <<"A", "D">>, <<"A", "B">>}
Two ==
    {<<r, s>>: r \in Regs("A"), s \in Regs("C")}
    \cup UNION {{<<r, Usual(o[2], f)>>: r \in Regs(o[1]), f \in Forms}: o \in Orders}
    \cup UNION {{<<Usual(o[1], f), s>>: s \in Regs(o[2]), f \in Forms}: o \in Orders}
Three == {<<Usual("A", f[1]), Usual("C", f[2]), Usual("D", f[3])>>: f \in [1..3 -> Forms]}
    \cup {<<[Usual("A", "stack") EXCEPT !.count = "after", !.call = "shared"],
             [Usual("C", "stack") EXCEPT !.count = "after", !.call = "shared"],
             [Usual("D", "stack") EXCEPT !.count = "after"]>>}
Far == {<<Usual(o[1], f[1]), [Usual(o[2], f[2]) EXCEPT !.gap = "far"]>>:
            o \in Orders, f \in [1..2 -> Forms]}
Pairs == {<<Usual(o[1], f[1]), Usual(o[2], f[2])>>: o \in Orders, f \in [1..2 -> Forms]}

Silent == [tables |-> <<>>, named |-> FALSE, legible |-> TRUE, rebased |-> FALSE]
Emulations == [tables: {<<1>>, <<2>>, <<1, 2>>}, named: BOOLEAN, legible: BOOLEAN, rebased: BOOLEAN]
ExportSets == SUBSET ([class: {"D"}, method: {z}, short: BOOLEAN] \cup [class: {"C"}, method: {z}, short: BOOLEAN])
Shared == [MCTruth EXCEPT !["C"][y] = 9]

\* Windows lose nothing, an instruction or all they hold, or every second one two.
Skews == {[i \in 1..40 |-> 0], [i \in 1..40 |-> 1], [i \in 1..40 |-> 6],
          [i \in 1..40 |-> 2 * (i % 2)]}
World(l, t, xs, e) == [jar |-> MCJar, truth |-> t, layout |-> l, skew |-> [i \in 1..40 |-> 0],
                       exports |-> xs, emulated |-> e]
MCWorlds == UNION {
    {World(l, MCTruth, {}, Silent): l \in Two \cup Three},
    {World(<<Usual("A", f[1]), Usual(d, f[2])>>, MCTruth, {}, e): d \in {"C", "D"}, f \in [1..2 -> Forms], e \in Emulations},
    {World(<<Usual("C", f[1]), Usual("A", f[2])>>, MCTruth, xs, Silent): f \in [1..2 -> Forms], xs \in ExportSets},
    {World(l, Shared, {}, Silent): l \in Pairs},
    {[World(l, MCTruth, {}, Silent) EXCEPT !.skew = w]: l \in Pairs \cup Far, w \in Skews}}
=============================================================================
