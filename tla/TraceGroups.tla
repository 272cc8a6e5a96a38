---------------------------- MODULE TraceGroups ----------------------------
(***************************************************************************)
(* What trace-to-bytecode makes of the lines of a trace                    *)
(* (groupByMethodInvocation): the calls written between the enter and the  *)
(* exit of an invocation are put together, per thread, and each group also *)
(* says whether an exception was reported while the invocation was active. *)
(* A finished group is collapsed: what a loop repeats is kept once.        *)
(***************************************************************************)
EXTENDS Integers, SequencesExt

CONSTANTS
    Sig,            \* the shape of a call: its name, its descriptor and its
                    \*   literal arguments, without handles and numbers
    CollapseFrom,   \* fewest calls of a group that is collapsed, 4 in the code
    MaxPattern      \* longest pattern looked for, 32 in the code

ASSUME CollapseAssumption == CollapseFrom \in Nat /\ MaxPattern \in Nat

-----------------------------------------------------------------------------
(* collapseRepeats: a pattern of calls that is repeated at once, as by a    *)
(* loop, is kept once.  The operators say which positions of s are kept.    *)

SameShape(s, i, j, len) ==
    \A k \in 0..(len - 1) : Sig[s[i + k]] = Sig[s[j + k]]

\* How often the pattern of len calls at i stands there in a row.
Reps(s, i, len) ==
    Max({n \in 1..Len(s) :
            /\ i + n * len <= Len(s) + 1
            /\ \A r \in 1..(n - 1) : SameShape(s, i, i + r * len, len)})

Lengths(s, i) ==
    {len \in 1..MaxPattern : /\ i + 2 * len <= Len(s) + 1
                             /\ Reps(s, i, len) > 1}

\* The shortest of the patterns that cover most.
Best(s, i) ==
    CHOOSE len \in Lengths(s, i) : \A other \in Lengths(s, i) :
        \/ other * Reps(s, i, other) < len * Reps(s, i, len)
        \/ other * Reps(s, i, other) = len * Reps(s, i, len) /\ len <= other

KeptAt(s, i) == IF Lengths(s, i) = {} THEN 1 ELSE Best(s, i)
SkipAt(s, i) ==
    IF Lengths(s, i) = {} THEN 1 ELSE Best(s, i) * Reps(s, i, Best(s, i))

\* The positions the scan stops at: the first, and from each the next.
Skips(s) == [i \in 1..Len(s) |-> SkipAt(s, i)]
IsScan(skips, stops) ==
    1 \in stops /\ \A i \in stops \cap DOMAIN skips : i + skips[i] \in stops
Stops(s) ==
    LET skips == Skips(s)
        scans == {stops \in SUBSET (1..(Len(s) + 1)) : IsScan(skips, stops)}
    IN {i \in 1..(Len(s) + 1) : \A stops \in scans : i \in stops}

CollapseRepeats(s) ==
    IF Len(s) < CollapseFrom THEN DOMAIN s
    ELSE {m \in DOMAIN s :
            \E i \in Stops(s) \cap DOMAIN s : m \in i..(i + KeptAt(s, i) - 1)}

-----------------------------------------------------------------------------
\* Nothing read yet; T is the set of thread numbers a trace may mention.
Ungrouped(T) == [open |-> [t \in T |-> <<>>], done |-> <<>>]

\* One line: p.open holds the active frames of each thread, innermost last.
PushFrame(p, l) ==
    [p EXCEPT !.open[l.thr] =
        Append(@, [key |-> l.by, calls |-> <<>>, exc |-> FALSE, kept |-> {}])]

\* A finished group: the calls it collected, and which of them it keeps.
Collapsed(g) == [g EXCEPT !.kept = CollapseRepeats(g.calls)]

PopFrame(p, l) ==
    IF p.open[l.thr] = <<>> THEN p
    ELSE [open |-> [p.open EXCEPT ![l.thr] = Front(@)],
          done |-> Append(p.done, Collapsed(Last(p.open[l.thr])))]

AddCall_ToOutermost(p, l) ==
    IF p.open[l.thr] = <<>> THEN p
    ELSE [p EXCEPT !.open[l.thr][1].calls =
             Append(@, [by |-> l.by, n |-> l.n])]

AddCall(p, l) ==
    IF p.open[l.thr] = <<>> THEN p
    ELSE [p EXCEPT !.open[l.thr][Len(p.open[l.thr])].calls =
             Append(@, [by |-> l.by, n |-> l.n])]

AddException_ToInnermost(p, l) ==
    [p EXCEPT !.open[l.thr] =
        [i \in 1..Len(@) |-> IF i = Len(@) THEN [@[i] EXCEPT !.exc = TRUE]
                             ELSE @[i]]]

AddException(p, l) ==
    [p EXCEPT !.open[l.thr] =
        [i \in 1..Len(@) |-> [@[i] EXCEPT !.exc = TRUE]]]

Group(p, l) ==
    CASE l.ev = "enter" -> PushFrame(p, l)
      [] l.ev = "exit" -> PopFrame(p, l)
      [] l.ev = "jni" -> AddCall(p, l)
      [] l.ev = "exc" -> AddException(p, l)
      [] OTHER -> p

\* The loop over lines that are new; a step of the agent writes two at most.
Read(p, ls) ==
    CASE Len(ls) = 0 -> p
      [] Len(ls) = 1 -> Group(p, ls[1])
      [] Len(ls) = 2 -> Group(Group(p, ls[1]), ls[2])
====
