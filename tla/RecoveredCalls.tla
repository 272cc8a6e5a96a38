--------------------------- MODULE RecoveredCalls ---------------------------
(***************************************************************************)
(* What the dynamic recovery promises about calls, whatever the threads    *)
(* do: a group belongs to one invocation of a native method, it collects   *)
(* the calls that this invocation itself makes while it is the innermost   *)
(* one of its thread, each of them once and in order, and it is final once *)
(* the invocation has ended.  A final group may keep fewer calls than it   *)
(* collected, but only where a run of calls has the shapes of the run right *)
(* before it.                                                              *)
(***************************************************************************)
EXTENDS Integers, Sequences, FiniteSets

CONSTANTS
    Thread,
    Invocation,
    Call,       \* records [by, n]: the n-th call of an invocation
    Sig         \* the shape of a call

VARIABLES
    open,   \* the groups being collected on each thread, innermost last
    done    \* the final groups, in the order they ended

vars == <<open, done>>

Init == open = [t \in Thread |-> <<>>] /\ done = <<>>

Innermost(t) == open[t][Len(open[t])]
Outer(t) == SubSeq(open[t], 1, Len(open[t]) - 1)

Begin(t) ==
    /\ \E key \in Invocation : open' = [open EXCEPT ![t] =
          Append(open[t], [key |-> key, calls |-> <<>>, exc |-> FALSE, kept |-> {}])]
    /\ UNCHANGED done

\* The numbered calls of a group are its invocation's first ones, in order:
\* only what comes after a point may be missing.
IsNext(c, g) == c.n = 1 + Cardinality({i \in DOMAIN g.calls : g.calls[i].n > 0})

Collect(t) ==
    /\ open[t] # <<>>
    /\ \E c \in Call :
          /\ c.n > 0 => c.by = Innermost(t).key /\ IsNext(c, Innermost(t))
          /\ open' = [open EXCEPT ![t] = Append(Outer(t),
                [key |-> Innermost(t).key,
                 calls |-> Append(Innermost(t).calls, c),
                 exc |-> Innermost(t).exc, kept |-> Innermost(t).kept])]
    /\ UNCHANGED done

\* An exception is noted in every active group; the recorder may leave
\* unnumbered calls of its own in the innermost one.
Raise(t) ==
    /\ \E own \in {<<>>} \cup {<<c>> : c \in {d \in Call : d.n = 0}} :
          open' = [open EXCEPT ![t] = [i \in DOMAIN open[t] |->
                    [key |-> open[t][i].key,
                     calls |-> IF i = Len(open[t]) THEN open[t][i].calls \o own
                               ELSE open[t][i].calls,
                     exc |-> TRUE, kept |-> open[t][i].kept]]]
    /\ UNCHANGED done

\* A call goes with a whole run of calls, which repeats the run before it.
OnlyRepeatsGo(calls, kept) ==
    \A m \in DOMAIN calls \ kept :
        \E len \in 1..m, b \in 1..m :
            /\ len < b /\ m < b + len /\ b + len <= Len(calls) + 1
            /\ \A k \in 0..(len - 1) :
                 /\ b + k \notin kept
                 /\ Sig[calls[b + k]] = Sig[calls[b - len + k]]

End(t) ==
    /\ open[t] # <<>>
    /\ \E kept \in SUBSET DOMAIN Innermost(t).calls :
          /\ OnlyRepeatsGo(Innermost(t).calls, kept)
          /\ done' = Append(done, [Innermost(t) EXCEPT !.kept = kept])
    /\ open' = [open EXCEPT ![t] = Outer(t)]

Next == \E t \in Thread : Begin(t) \/ Collect(t) \/ Raise(t) \/ End(t)

Spec == Init /\ [][Next]_vars
====
