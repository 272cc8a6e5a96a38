----------------------------- MODULE MCRecovery -----------------------------
(* Two threads, one of which may be inside an invocation at the attach.  The *)
(* first invocation repeats a call, the second makes two of different shape. *)
EXTENDS Recovery

CONSTANTS t1, t2
MCThread == {t1, t2}
MCAttachThread == {t1}
MCSig == [c \in [by : ByAgent..MaxFrames, n : 0..MaxCalls] |->
            IF c.by = 1 THEN "same" ELSE IF c.n = 1 THEN "one" ELSE "other"]

\* The loop of collapseRepeats, as it is written, from position i on.
RECURSIVE Scan(_, _)
Scan(s, i) ==
    IF i > Len(s) THEN {}
    ELSE LET Same(len, reps) ==
                 \A k \in 0..(len - 1) :
                     Sig[s[i + k]] = Sig[s[i + reps * len + k]]
             RECURSIVE Count(_, _)
             Count(len, reps) ==
                 IF i + reps * len + len <= Len(s) + 1 /\ Same(len, reps)
                 THEN Count(len, reps + 1) ELSE reps
             RECURSIVE Widest(_, _)
             Widest(len, best) ==
                 IF len > Min({MaxPattern, (Len(s) - i + 1) \div 2}) THEN best
                 ELSE LET reps == Count(len, 1)
                      IN Widest(len + 1,
                                IF reps > 1 /\ len * reps > best[1] * best[2]
                                THEN <<len, reps>> ELSE best)
             found == Widest(1, <<0, 1>>)
         IN IF found[2] > 1
            THEN (i..(i + found[1] - 1)) \cup Scan(s, i + found[1] * found[2])
            ELSE {i} \cup Scan(s, i + 1)

\* The operators keep what the loop keeps, on every sequence of up to six
\* calls of two shapes, and that is what the promise allows.
ASSUME CollapseIsTheLoop ==
    \A n \in 0..6 :
        \A s \in [1..n -> {[by |-> 2, n |-> 1], [by |-> 2, n |-> 2]}] :
            /\ CollapseRepeats(s) = IF n < CollapseFrom THEN 1..n ELSE Scan(s, 1)
            /\ Promise!OnlyRepeatsGo(s, CollapseRepeats(s))
====
