------------------------- MODULE StaticPath_proofs --------------------------
(***************************************************************************)
(* Theorems about the static path, for every set of worlds that meets      *)
(* WorldsAssumption: what the harvest of JniTables finds, and what the     *)
(* merge makes of a registry, whoever wrote it.                            *)
(*                                                                         *)
(* That the harvest is exact needs where each instruction of the library   *)
(* lies (CodeIs) and each row of its tables (ImageIs), and then what the   *)
(* walks of the two passes hold after every instruction: Scans, Looks and  *)
(* Branching.  In the first pass each registration adds one site; in the   *)
(* second the look back from a call holds, when it ends, the table of the  *)
(* register or the natives as the last functions stored, whatever the      *)
(* registrations before it left behind.                                    *)
(*                                                                         *)
(* That no method gets a wrong address needs to know why a class is used:  *)
(* either a table with names was bound to it, or no other class with as    *)
(* many methods was left when a table without was.                         *)
(* That no table is lost needs that the merge takes no address away, so    *)
(* that a class stays complete, and that a table without names waits,      *)
(* unbound, for its turn in the pass over the counts.                      *)
(*                                                                         *)
(* Both hold of the path as a whole because whatever the library the       *)
(* harvest, the report and the emulator leave a registry (Listed); and     *)
(* where the harvest is exact so is the report, and nothing is assumed of  *)
(* the registry any more (PathEnds).                                       *)
(***************************************************************************)
EXTENDS StaticPath, FiniteSetTheorems, WellFoundedInduction, TLAPS

-----------------------------------------------------------------------------
(* Sequences joined, and where their parts lie.                             *)

\* A set of numbers that is not empty has a smallest.
LEMMA SmallestNat ==
    ASSUME NEW T, T \subseteq Nat, T # {}
    PROVE  \E x \in T : \A y \in T : x <= y
<1> DEFINE L == OpToRel(<,Nat)
<1>1. \A y \in Nat, x \in Nat : y < x => <<y,x>> \in L
  <2>1. SUFFICES ASSUME NEW y \in Nat, NEW x \in Nat, y < x
                 PROVE  <<y,x>> \in L
    OBVIOUS
  <2>2. <<y,x>>[1] = y /\ <<y,x>>[2] = x /\ <<y,x>> \in Nat \X Nat
    OBVIOUS
  <2>3. QED
    BY <2>1, <2>2, Zenon DEF OpToRel
<1>2. PICK x \in T : \A y \in T : ~ (<<y, x>> \in L)
  BY WFMin, NatLessThanWellFounded
<1>3. \A y \in T : ~ (y < x)
  BY <1>1, <1>2, Zenon
<1> HIDE DEF L
<1>4. QED
  BY <1>3

\* What FlattenSeq computes of the first n parts of s.
IsFlat(f, s, n) == f = [i \in 1..n |-> IF i = 1 THEN s[i] ELSE f[i-1] \o s[i]]

\* A sequence of parts has at most one such function.
LEMMA FlatIs ==
    ASSUME NEW f, NEW s, NEW n \in Nat, IsFlat(f, s, n)
    PROVE  /\ DOMAIN f = 1..n
           /\ \A i \in 1..n : f[i] = IF i = 1 THEN s[i] ELSE f[i-1] \o s[i]
<1> DEFINE g == [i \in 1..n |-> IF i = 1 THEN s[i] ELSE f[i-1] \o s[i]]
<1>1. f = g
  BY DEF IsFlat
<1>2. DOMAIN g = 1..n /\ \A i \in 1..n : g[i] = IF i = 1 THEN s[i] ELSE f[i-1] \o s[i]
  OBVIOUS
<1> HIDE DEF g
<1>3. QED
  BY <1>1, <1>2, Zenon

\* FlattenSeq is its last value.
LEMMA FlatOf ==
    ASSUME NEW f, NEW s, NEW n \in Nat, f = [i \in 1..n |-> f[i]],
           \A i \in 1..n : f[i] = IF i = 1 THEN s[i] ELSE f[i-1] \o s[i]
    PROVE  IsFlat(f, s, n)
<1>1. [i \in 1..n |-> f[i]] = [i \in 1..n |-> IF i = 1 THEN s[i] ELSE f[i-1] \o s[i]]
  OBVIOUS
<1>2. QED
  BY <1>1, Zenon DEF IsFlat

\* Two of them for the same sequence agree as far as both go.
Alike(f, g, s, t, n, m) ==
    n <= m /\ IsFlat(f, s, n) /\ IsFlat(g, t, m) /\ \A i \in 1..n : s[i] = t[i]

LEMMA FlatAgrees ==
    ASSUME NEW f, NEW g, NEW s, NEW t, NEW n \in Nat, NEW m \in Nat, Alike(f, g, s, t, n, m)
    PROVE  \A i \in 1..n : f[i] = g[i]
<1> USE DEF Alike
<1> DEFINE T == {i \in 1..n : f[i] # g[i]}
<1>1. SUFFICES T = {}
  OBVIOUS
<1>2. SUFFICES ASSUME T # {} PROVE FALSE
  OBVIOUS
<1>3. T \subseteq Nat
  OBVIOUS
<1>4. PICK x \in T : \A y \in T : x <= y
  <2> HIDE DEF T
  <2>1. QED
    BY <1>2, <1>3, SmallestNat, Zenon
<1>5. f[x] = (IF x = 1 THEN s[x] ELSE f[x-1] \o s[x]) /\ g[x] = (IF x = 1 THEN t[x] ELSE g[x-1] \o t[x])
  BY FlatIs
<1>6. CASE x = 1
  BY <1>5, <1>6
<1>7. CASE x # 1
  <2>1. x - 1 \in 1..n /\ x - 1 \notin T
    BY <1>4, <1>7
  <2>2. f[x-1] = g[x-1] /\ s[x] = t[x]
    BY <2>1
  <2>3. QED
    BY <1>5, <1>7, <2>2
<1>8. QED
  BY <1>6, <1>7

\* The recursion defines a function.
LEMMA FlatIsThere ==
    ASSUME NEW s, NEW n \in Nat
    PROVE  \E f : IsFlat(f, s, n)
<1> DEFINE T == {k \in Nat : ~ \E f : IsFlat(f, s, k)}
<1>1. SUFFICES ASSUME T # {} PROVE FALSE
  OBVIOUS
<1>2. PICK x \in T : \A y \in T : x <= y
  <2>1. T \subseteq Nat
    OBVIOUS
  <2> HIDE DEF T
  <2>2. QED
    BY <1>1, <2>1, SmallestNat, Zenon
<1>3. CASE x = 0
  <2> DEFINE f == [i \in 1..x |-> s[i]]
  <2>1. f = [i \in 1..x |-> f[i]] /\ \A i \in 1..x : f[i] = IF i = 1 THEN s[i] ELSE f[i-1] \o s[i]
    BY <1>3
  <2> HIDE DEF f
  <2>2. IsFlat(f, s, x)
    BY <2>1, FlatOf
  <2>3. QED
    BY <2>2
<1>4. CASE x # 0
  <2>1. x - 1 \in Nat /\ x - 1 \notin T
    BY <1>2, <1>4
  <2>2. PICK g : IsFlat(g, s, x - 1)
    BY <2>1
  <2>3. \A i \in 1..x - 1 : g[i] = IF i = 1 THEN s[i] ELSE g[i-1] \o s[i]
    BY <2>1, <2>2, FlatIs
  <2> DEFINE f == [i \in 1..x |-> IF i = x THEN IF i = 1 THEN s[i] ELSE g[i-1] \o s[i] ELSE g[i]]
  <2>4. f = [i \in 1..x |-> f[i]]
    OBVIOUS
  <2>5. ASSUME NEW i \in 1..x PROVE f[i] = IF i = 1 THEN s[i] ELSE f[i-1] \o s[i]
    <3>1. CASE i = x
      <4>1. i # 1 => i - 1 \in 1..x /\ i - 1 # x
        BY <3>1
      <4>2. i # 1 => f[i-1] = g[i-1]
        BY <4>1
      <4>3. f[i] = IF i = 1 THEN s[i] ELSE g[i-1] \o s[i]
        BY <3>1
      <4>4. QED
        BY <4>2, <4>3
    <3>2. CASE i # x
      <4>1. i \in 1..x - 1
        BY <3>2
      <4>2. f[i] = g[i] /\ g[i] = IF i = 1 THEN s[i] ELSE g[i-1] \o s[i]
        BY <2>3, <3>2, <4>1
      <4>3. i # 1 => i - 1 \in 1..x /\ i - 1 # x
        BY <4>1
      <4>4. i # 1 => f[i-1] = g[i-1]
        BY <4>3
      <4>5. QED
        BY <4>2, <4>4
    <3>3. QED
      BY <3>1, <3>2
  <2> HIDE DEF f
  <2>6. IsFlat(f, s, x)
    BY <2>4, <2>5, FlatOf
  <2>7. QED
    BY <2>6
<1>5. QED
  BY <1>3, <1>4

LEMMA FlattenIs ==
    ASSUME NEW s, NEW n \in Nat, Len(s) = n, n # 0
    PROVE  \E f : IsFlat(f, s, n) /\ FlattenSeq(s) = f[n]
<1> DEFINE F == CHOOSE f : IsFlat(f, s, n)
<1>1. IsFlat(F, s, n)
  BY FlatIsThere
<1>2. FlattenSeq(s) = F[n]
  BY DEF FlattenSeq, IsFlat
<1>3. QED
  BY <1>1, <1>2

LEMMA Joined ==
    ASSUME NEW T, NEW a \in Seq(T), NEW b \in Seq(T)
    PROVE  a \o b \in Seq(T)
OBVIOUS

\* The joined parts are a sequence of what the parts are sequences of.
LEMMA FlatTyped ==
    ASSUME NEW T, NEW s \in Seq(Seq(T)), NEW n \in Nat, n <= Len(s), NEW f, IsFlat(f, s, n)
    PROVE  \A i \in 1..n : f[i] \in Seq(T)
<1> DEFINE B == {i \in 1..n : f[i] \notin Seq(T)}
<1>1. SUFFICES ASSUME B # {} PROVE FALSE
  OBVIOUS
<1>2. PICK x \in B : \A y \in B : x <= y
  <2>1. B \subseteq Nat
    OBVIOUS
  <2> HIDE DEF B
  <2>2. QED
    BY <1>1, <2>1, SmallestNat, Zenon
<1>3. x \in 1..n /\ s[x] \in Seq(T) /\ f[x] \notin Seq(T)
  OBVIOUS
<1>4. f[x] = IF x = 1 THEN s[x] ELSE f[x-1] \o s[x]
  BY <1>3, FlatIs
<1>5. CASE x = 1
  BY <1>3, <1>4, <1>5
<1>6. CASE x # 1
  <2>1. x - 1 \in 1..n /\ x - 1 \notin B
    BY <1>2, <1>3, <1>6
  <2>2. f[x-1] \in Seq(T)
    BY <2>1
  <2>3. f[x-1] \o s[x] \in Seq(T)
    BY <1>3, <2>2, Joined
  <2>4. QED
    BY <1>3, <1>4, <1>6, <2>3
<1>7. QED
  BY <1>5, <1>6

LEMMA FlattenTyped ==
    ASSUME NEW T, NEW s \in Seq(Seq(T))
    PROVE  FlattenSeq(s) \in Seq(T)
<1> DEFINE n == Len(s)
<1>1. n \in Nat
  OBVIOUS
<1>2. CASE n = 0
  <2>1. s = <<>>
    BY <1>2
  <2>2. FlattenSeq(s) = <<>>
    BY <2>1 DEF FlattenSeq
  <2>3. QED
    BY <2>2
<1>3. CASE n # 0
  <2> HIDE DEF n
  <2>1. PICK f : IsFlat(f, s, n) /\ FlattenSeq(s) = f[n]
    BY <1>1, <1>3, FlattenIs DEF n
  <2>2. \A i \in 1..n : f[i] \in Seq(T)
    BY <1>1, <2>1, FlatTyped DEF n
  <2>3. QED
    BY <1>1, <1>3, <2>1, <2>2
<1>4. QED
  BY <1>2, <1>3

\* Where the parts of s lie in the first n of them joined.
Off(f, i) == IF i = 1 THEN 0 ELSE Len(f[i-1])
Lies(f, s, n) ==
    /\ \A i \in 1..n : Len(f[i]) <= Len(f[n])
    /\ \A i \in 1..n : \A j \in 1..Len(s[i]) :
            Off(f, i) + j \in 1..Len(f[n]) /\ f[n][Off(f, i) + j] = s[i][j]
    /\ \A m \in 1..Len(f[n]) : \E i \in 1..n : \E j \in 1..Len(s[i]) : m = Off(f, i) + j

LEMMA JoinedAt ==
    ASSUME NEW T, NEW a \in Seq(T), NEW b \in Seq(T)
    PROVE  /\ Len(a) \in Nat /\ Len(b) \in Nat /\ Len(a \o b) = Len(a) + Len(b)
           /\ \A i \in 1..Len(a) : (a \o b)[i] = a[i]
           /\ \A j \in 1..Len(b) : (a \o b)[Len(a) + j] = b[j]
OBVIOUS

LEMMA LiesFirst ==
    ASSUME NEW T, NEW s \in Seq(Seq(T)), 1 <= Len(s), NEW f, f[1] = s[1]
    PROVE  Lies(f, s, 1)
<1>1. s[1] \in Seq(T) /\ Len(s[1]) \in Nat
  OBVIOUS
<1>2. Off(f, 1) = 0 /\ \A i \in 1..1 : i = 1
  BY DEF Off
<1>3. QED
  BY <1>1, <1>2 DEF Lies

\* One more part is put behind the others.
LEMMA LiesNext ==
    ASSUME NEW T, NEW s \in Seq(Seq(T)), NEW n \in Nat \ {0}, n + 1 <= Len(s), NEW f,
           \A i \in 1..n + 1 : f[i] \in Seq(T), f[n + 1] = f[n] \o s[n + 1], Lies(f, s, n)
    PROVE  Lies(f, s, n + 1)
<1> DEFINE a == f[n]
           b == s[n + 1]
           c == f[n + 1]
<1>1. a \in Seq(T) /\ b \in Seq(T) /\ c = a \o b
  OBVIOUS
<1>2. Off(f, n + 1) = Len(a)
  BY DEF Off
<1>3. /\ \A i \in 1..n : Len(f[i]) <= Len(a)
      /\ \A i \in 1..n : \A j \in 1..Len(s[i]) :
            Off(f, i) + j \in 1..Len(a) /\ a[Off(f, i) + j] = s[i][j]
      /\ \A m \in 1..Len(a) : \E i \in 1..n : \E j \in 1..Len(s[i]) : m = Off(f, i) + j
  BY Zenon DEF Lies
<1> HIDE DEF a, b, c
<1>4. /\ Len(a) \in Nat /\ Len(b) \in Nat /\ Len(c) = Len(a) + Len(b)
      /\ \A i \in 1..Len(a) : c[i] = a[i]
      /\ \A j \in 1..Len(b) : c[Len(a) + j] = b[j]
  BY <1>1, JoinedAt
<1>5. \A i \in 1..n + 1 : i \in 1..n \/ i = n + 1
  OBVIOUS
<1>6. ASSUME NEW i \in 1..n + 1 PROVE Len(f[i]) <= Len(c)
  <2>1. Len(f[i]) \in Nat
    OBVIOUS
  <2>2. CASE i \in 1..n
    <3>1. Len(f[i]) <= Len(a)
      BY <1>3, <2>2
    <3>2. QED
      BY <1>4, <2>1, <3>1
  <2>3. CASE i = n + 1
    <3>1. Len(f[i]) = Len(c)
      BY <2>3 DEF c
    <3>2. QED
      BY <2>1, <3>1
  <2>4. QED
    BY <1>5, <1>6, <2>2, <2>3
<1>7. ASSUME NEW i \in 1..n + 1, NEW j \in 1..Len(s[i])
      PROVE  Off(f, i) + j \in 1..Len(c) /\ c[Off(f, i) + j] = s[i][j]
  <2>1. CASE i \in 1..n
    <3>1. Off(f, i) + j \in 1..Len(a) /\ a[Off(f, i) + j] = s[i][j]
      BY <1>3, <1>7, <2>1
    <3>2. QED
      BY <1>4, <3>1
  <2>2. CASE i = n + 1
    <3>1. j \in 1..Len(b) /\ s[i][j] = b[j] /\ Off(f, i) = Len(a)
      BY <1>2, <1>7, <2>2 DEF b
    <3>2. QED
      BY <1>4, <3>1
  <2>3. QED
    BY <1>5, <1>7, <2>1, <2>2
<1>8. ASSUME NEW m \in 1..Len(c)
      PROVE  \E i \in 1..n + 1 : \E j \in 1..Len(s[i]) : m = Off(f, i) + j
  <2>1. CASE m \in 1..Len(a)
    <3>1. PICK i \in 1..n : \E j \in 1..Len(s[i]) : m = Off(f, i) + j
      BY <1>3, <2>1
    <3>2. i \in 1..n + 1
      OBVIOUS
    <3>3. QED
      BY <3>1, <3>2
  <2>2. CASE m \notin 1..Len(a)
    <3>1. m - Len(a) \in 1..Len(b) /\ m = Len(a) + (m - Len(a))
      BY <1>4, <1>8, <2>2
    <3>2. \E j \in 1..Len(s[n + 1]) : m = Off(f, n + 1) + j
      BY <1>2, <3>1 DEF b
    <3>3. n + 1 \in 1..n + 1
      OBVIOUS
    <3>4. QED
      BY <3>2, <3>3
  <2>3. QED
    BY <2>1, <2>2
<1>9. QED
  BY <1>6, <1>7, <1>8 DEF Lies, c

LEMMA LiesAll ==
    ASSUME NEW T, NEW s \in Seq(Seq(T)), NEW n \in Nat, n = Len(s), NEW f, IsFlat(f, s, n)
    PROVE  \A k \in 1..n : Lies(f, s, k)
<1> DEFINE B == {k \in 1..n : ~ Lies(f, s, k)}
<1>1. SUFFICES ASSUME B # {} PROVE FALSE
  OBVIOUS
<1>2. PICK x \in B : \A y \in B : x <= y
  <2>1. B \subseteq Nat
    OBVIOUS
  <2> HIDE DEF B
  <2>2. QED
    BY <1>1, <2>1, SmallestNat, Zenon
<1>3. x \in 1..n /\ ~ Lies(f, s, x)
  OBVIOUS
<1>4. \A i \in 1..n : f[i] = IF i = 1 THEN s[i] ELSE f[i-1] \o s[i]
  BY FlatIs
<1>5. \A i \in 1..n : f[i] \in Seq(T)
  <2>1. n <= Len(s)
    OBVIOUS
  <2>2. QED
    BY <2>1, FlatTyped
<1>6. CASE x = 1
  BY <1>3, <1>4, <1>6, LiesFirst
<1>7. CASE x # 1
  <2>1. PICK k \in Nat \ {0} : x = k + 1
    BY <1>3, <1>7
  <2>2. k \in 1..n /\ k \notin B /\ k + 1 <= Len(s)
    BY <1>2, <1>3, <2>1
  <2>3. Lies(f, s, k)
    BY <2>2
  <2>4. \A i \in 1..k + 1 : f[i] \in Seq(T)
    BY <1>3, <1>5, <2>1
  <2>5. f[k + 1] = f[k] \o s[k + 1]
    <3>1. f[x] = f[x-1] \o s[x]
      BY <1>3, <1>4, <1>7
    <3>2. x - 1 = k
      BY <2>1
    <3>3. QED
      BY <2>1, <3>1, <3>2
  <2>6. Lies(f, s, k + 1)
    BY <2>2, <2>3, <2>4, <2>5, LiesNext
  <2>7. QED
    BY <1>3, <2>1, <2>6
<1>8. QED
  BY <1>6, <1>7

LEMMA EmptySeq ==
    ASSUME NEW S, NEW s \in Seq(S), Len(s) = 0
    PROVE  s = <<>>
OBVIOUS

\* Where each part of s begins in r, and where r ends.
Laid(off, s, n, r) ==
    /\ off \in [1..n + 1 -> Nat] /\ off[1] = 0 /\ off[n + 1] = Len(r)
    /\ \A i \in 1..n : off[i + 1] = off[i] + Len(s[i])
    /\ \A i \in 1..n : \A j \in 1..Len(s[i]) : off[i] + j \in 1..Len(r) /\ r[off[i] + j] = s[i][j]
    /\ \A m \in 1..Len(r) : \E i \in 1..n : \E j \in 1..Len(s[i]) : m = off[i] + j
    /\ \A i, k \in 1..n + 1 : i <= k => off[i] <= off[k]

\* The first m parts of s end where the part after them begins.
Prefixed(off, s, n, T) ==
    \A t \in Seq(Seq(T)) : \A m \in 0..n :
        Len(t) = m /\ (\A i \in 1..m : t[i] = s[i]) => Len(Flat(t)) = off[m + 1]

\* The parts of a flattened sequence lie one after the other.
LEMMA FlattenLaid ==
    ASSUME NEW T, NEW s \in Seq(Seq(T)), NEW n \in Nat, n = Len(s)
    PROVE  \E off : Laid(off, s, n, Flat(s)) /\ Prefixed(off, s, n, T)
<1>1. DOMAIN s = 1..n /\ \A i \in 1..n : s[i] \in Seq(T) /\ Len(s[i]) \in Nat
  OBVIOUS
<1>2. CASE n = 0
  <2> DEFINE off == [i \in 1..n + 1 |-> 0]
  <2>0. s = <<>>
    BY <1>2, EmptySeq
  <2>1. s = <<>> /\ Flat(s) = <<>>
    BY <2>0 DEF Flat, FlattenSeq
  <2>2. off \in [1..n + 1 -> Nat] /\ \A i \in 1..n + 1 : off[i] = 0
    OBVIOUS
  <2>3. 1..n = {} /\ 1..n + 1 = {1}
    BY <1>2
  <2> HIDE DEF off
  <2>4. Laid(off, s, n, Flat(s))
    BY <1>2, <2>1, <2>2, <2>3 DEF Laid
  <2>5. Prefixed(off, s, n, T)
    <3>1. SUFFICES ASSUME NEW t \in Seq(Seq(T)), NEW m \in 0..n, Len(t) = m
                   PROVE  Len(Flat(t)) = off[m + 1]
      BY DEF Prefixed
    <3>2. m = 0 /\ t = <<>>
      BY <1>2, <3>1
    <3>3. Flat(t) = <<>>
      BY <3>2 DEF Flat, FlattenSeq
    <3>4. QED
      BY <2>2, <2>3, <3>2, <3>3
  <2>6. QED
    BY <2>4, <2>5
<1>3. CASE n # 0
  <2>1. PICK f : IsFlat(f, s, n) /\ FlattenSeq(s) = f[n]
    BY <1>3, FlattenIs
  <2>2. \A i \in 1..n : f[i] \in Seq(T) /\ f[i] = IF i = 1 THEN s[i] ELSE f[i-1] \o s[i]
    <3>1. n <= Len(s)
      OBVIOUS
    <3>2. QED
      BY <2>1, <3>1, FlatTyped, FlatIs
  <2>3. \A i \in 1..n : Lies(f, s, i)
    BY <2>1, LiesAll
  <2> DEFINE off == [i \in 1..n + 1 |-> Off(f, i)]
             r == f[n]
  <2>4. /\ \A i \in 1..n + 1 : off[i] = Off(f, i)
        /\ DOMAIN off = 1..n + 1
    OBVIOUS
  <2> HIDE DEF off
  <2>5. off[1] = 0 /\ \A i \in 1..n : off[i + 1] = Len(f[i])
    <3>1. SUFFICES ASSUME NEW i \in 1..n PROVE off[i + 1] = Len(f[i])
      BY <2>4 DEF Off
    <3>2. i + 1 \in 1..n + 1 /\ i + 1 # 1 /\ (i + 1) - 1 = i
      OBVIOUS
    <3>3. QED
      BY <2>4, <3>2 DEF Off
  <2>6. off = [i \in 1..n + 1 |-> off[i]] /\ \A i \in 1..n + 1 : off[i] \in Nat
    <3>1. off = [i \in 1..n + 1 |-> off[i]]
      BY DEF off
    <3>2. SUFFICES ASSUME NEW i \in 1..n + 1 PROVE off[i] \in Nat
      BY <3>1
    <3>3. CASE i = 1
      BY <2>5, <3>3
    <3>4. CASE i # 1
      <4>1. PICK k \in 1..n : i = k + 1
        BY <3>4
      <4>2. f[k] \in Seq(T)
        BY <2>2
      <4>3. off[i] = Len(f[k]) /\ Len(f[k]) \in Nat
        BY <2>5, <4>1, <4>2
      <4>4. QED
        BY <4>3
    <3>5. QED
      BY <3>3, <3>4
  <2>7. off \in [1..n + 1 -> Nat]
    BY <2>6
  <2>8. n \in 1..n
    BY <1>3
  <2>9. off[n + 1] = Len(r)
    BY <2>5, <2>8
  <2>10. ASSUME NEW i \in 1..n PROVE off[i + 1] = off[i] + Len(s[i])
    <3>1. off[i + 1] = Len(f[i]) /\ f[i] = IF i = 1 THEN s[i] ELSE f[i-1] \o s[i]
      BY <2>2, <2>5
    <3>2. CASE i = 1
      BY <1>1, <2>5, <3>1, <3>2
    <3>3. CASE i # 1
      <4>1. PICK k \in 1..n : i = k + 1
        BY <3>3
      <4>2. f[k] \in Seq(T) /\ s[i] \in Seq(T) /\ off[i] = Len(f[k])
        BY <1>1, <2>2, <2>5, <4>1
      <4>3. i - 1 = k
        BY <4>1
      <4>4. f[i] = f[k] \o s[i]
        BY <3>1, <3>3, <4>3
      <4>5. Len(f[k] \o s[i]) = Len(f[k]) + Len(s[i])
        BY <4>2
      <4>6. QED
        BY <3>1, <4>2, <4>4, <4>5
    <3>4. QED
      BY <3>2, <3>3
  <2>11. /\ \A i \in 1..n : \A j \in 1..Len(s[i]) : off[i] + j \in 1..Len(r) /\ r[off[i] + j] = s[i][j]
         /\ \A m \in 1..Len(r) : \E i \in 1..n : \E j \in 1..Len(s[i]) : m = off[i] + j
    <3>1. \A i \in 1..n : off[i] = Off(f, i)
      BY <2>4
    <3>2. Lies(f, s, n)
      BY <2>3, <2>8
    <3>3. ASSUME NEW i \in 1..n, NEW j \in 1..Len(s[i])
          PROVE  off[i] + j \in 1..Len(r) /\ r[off[i] + j] = s[i][j]
      <4>1. Off(f, i) + j \in 1..Len(f[n]) /\ f[n][Off(f, i) + j] = s[i][j]
        BY <3>2, <3>3 DEF Lies
      <4>2. QED
        BY <3>1, <4>1
    <3>4. ASSUME NEW m \in 1..Len(r)
          PROVE  \E i \in 1..n : \E j \in 1..Len(s[i]) : m = off[i] + j
      <4>1. PICK i \in 1..n : \E j \in 1..Len(s[i]) : m = Off(f, i) + j
        BY <3>2, <3>4, Zenon DEF Lies
      <4>2. off[i] = Off(f, i)
        BY <3>1
      <4>3. QED
        BY <4>1, <4>2
    <3>5. QED
      BY <3>3, <3>4
  <2>12. ASSUME NEW i \in 1..n + 1, NEW k \in 1..n + 1, i <= k PROVE off[i] <= off[k]
    <3>1. off[i] \in Nat /\ off[k] \in Nat
      BY <2>6
    <3>2. CASE i = 1
      BY <2>5, <3>1, <3>2
    <3>3. CASE i # 1
      <4>1. PICK a \in 1..n : i = a + 1
        BY <3>3
      <4>2. PICK b \in 1..n : k = b + 1
        BY <2>12, <3>3
      <4>3. a \in 1..b
        BY <2>12, <4>1, <4>2
      <4>4. Len(f[a]) <= Len(f[b])
        BY <2>3, <4>2, <4>3 DEF Lies
      <4>5. QED
        BY <2>5, <4>1, <4>2, <4>4
    <3>4. QED
      BY <3>2, <3>3
  <2>13. Laid(off, s, n, r)
    BY <2>5, <2>7, <2>9, <2>10, <2>11, <2>12 DEF Laid
  <2>14. Prefixed(off, s, n, T)
    <3>1. SUFFICES ASSUME NEW t \in Seq(Seq(T)), NEW m \in 0..n, Len(t) = m, \A i \in 1..m : t[i] = s[i]
                   PROVE  Len(Flat(t)) = off[m + 1]
      BY DEF Prefixed
    <3>2. CASE m = 0
      <4>1. t = <<>>
        BY <3>1, <3>2
      <4>2. Flat(t) = <<>>
        BY <4>1 DEF Flat, FlattenSeq
      <4>3. QED
        BY <2>5, <3>2, <4>2
    <3>3. CASE m # 0
      <4>1. m \in Nat /\ m <= n /\ m \in 1..m /\ m \in 1..n
        BY <3>3
      <4>2. PICK g : IsFlat(g, t, m) /\ FlattenSeq(t) = g[m]
        BY <3>1, <3>3, <4>1, FlattenIs
      <4>3. \A i \in 1..m : g[i] = f[i]
        <5>1. m \in Nat /\ n \in Nat /\ Alike(g, f, t, s, m, n)
          BY <2>1, <3>1, <4>1, <4>2 DEF Alike
        <5>2. QED
          BY <5>1, FlatAgrees
      <4>4. Flat(t) = f[m]
        BY <4>1, <4>2, <4>3 DEF Flat
      <4>5. QED
        BY <2>5, <4>1, <4>4
    <3>4. QED
      BY <3>2, <3>3
  <2>15. Flat(s) = r
    BY <2>1 DEF Flat
  <2>16. QED
    BY <2>13, <2>14, <2>15
<1>4. QED
  BY <1>2, <1>3

-----------------------------------------------------------------------------
(* The library: its code and its tables.                                    *)

Register == {"-", "M", "T", "S"}
InsType ==
    [op: {"nop", "lea", "store", "mov", "count", "slot", "branch", "call", "data"},
     reg: Register, arg: Nat \cup Register]

\* What a world gives.
Fits ==
    /\ IsJar(jar) /\ truth \in [Class -> [Method -> Addr]]
    /\ layout \in Seq(RegistrationType)
    /\ \A k \in DOMAIN layout :
        /\ jar[layout[k].class] # <<>>
        /\ \A i \in DOMAIN jar[layout[k].class] :
                truth[layout[k].class][jar[layout[k].class][i]] # Callback
    /\ \A i \in DOMAIN code : skew[i] \in Nat

N(k) == Len(jar[layout[k].class])

\* A class that is registered has methods, each with the address of a function.
LEMMA RowsFit ==
    ASSUME Fits, NEW k \in DOMAIN layout
    PROVE  /\ layout[k] \in RegistrationType
           /\ layout[k].class \in Class /\ jar[layout[k].class] \in Seq(Method)
           /\ N(k) \in Nat \ {0} /\ DOMAIN jar[layout[k].class] = 1..N(k)
           /\ Rows(layout[k].class) \in Seq(Addr) /\ Len(Rows(layout[k].class)) = N(k)
           /\ \A i \in 1..N(k) : /\ Rows(layout[k].class)[i] = truth[layout[k].class][jar[layout[k].class][i]]
                                 /\ Rows(layout[k].class)[i] \in Addr \ {Callback}
<1> DEFINE c == layout[k].class
           s == jar[c]
<1>1. layout[k] \in RegistrationType /\ c \in Class
  <2>1. layout[k] \in RegistrationType
    BY DEF Fits
  <2>2. QED
    BY <2>1 DEF RegistrationType
<1>2. s \in Seq(Method) /\ s # <<>>
  BY <1>1 DEF Fits, IsJar
<1>3. truth[c] \in [Method -> Addr]
  BY <1>1 DEF Fits
<1>4. \A i \in DOMAIN s : truth[c][s[i]] # Callback
  BY DEF Fits
<1>5. Len(s) \in Nat /\ DOMAIN s = 1..Len(s) /\ \A i \in 1..Len(s) : s[i] \in Method
  BY <1>2
<1>6. Len(s) # 0
  BY <1>2, EmptySeq
<1>7. Rows(c) = [i \in 1..Len(s) |-> truth[c][s[i]]]
  BY <1>5 DEF Rows
<1>8. \A i \in 1..Len(s) : truth[c][s[i]] \in Addr
  BY <1>3, <1>5
<1> HIDE DEF s
<1>9. Rows(c) \in Seq(Addr) /\ Len(Rows(c)) = Len(s)
  BY <1>5, <1>7, <1>8
<1>10. \A i \in 1..Len(s) : Rows(c)[i] = truth[c][s[i]] /\ Rows(c)[i] \in Addr \ {Callback}
  BY <1>4, <1>5, <1>7, <1>8
<1>11. QED
  BY <1>1, <1>2, <1>5, <1>6, <1>9, <1>10 DEF N, s

LEMMA FnsAreLow == ASSUME NEW a \in Addr PROVE a \in Nat /\ IsFn(a) /\ a < TableBase
BY TablesAssumption DEF IsFn

\* A part of a sequence from its start.
LEMMA FirstOnes ==
    ASSUME NEW S, NEW s \in Seq(S), NEW m \in 0..Len(s)
    PROVE  DOMAIN SubSeq(s, 1, m) = 1..m /\ \A i \in 1..m : SubSeq(s, 1, m)[i] = s[i]
OBVIOUS

\* Functions stored one after the other.
Stores(fs) == Flat([i \in DOMAIN fs |-> Store(fs[i])])

\* Two instructions for each function stored.
LEMMA StoresAre ==
    ASSUME NEW fs \in Seq(Nat), NEW n \in Nat, n = Len(fs)
    PROVE  /\ Stores(fs) \in Seq(InsType) /\ Len(Stores(fs)) = 2 * n
           /\ \A i \in 1..n : /\ Stores(fs)[2 * i - 1] = Ins("lea", "T", fs[i])
                              /\ Stores(fs)[2 * i] = Ins("store", "T", 0)
<1> DEFINE s == [i \in DOMAIN fs |-> Store(fs[i])]
<1>1. DOMAIN fs = 1..n /\ \A i \in 1..n : fs[i] \in Nat
  OBVIOUS
<1>2. \A i \in 1..n : s[i] = Store(fs[i]) /\ s[i] \in Seq(InsType) /\ Len(s[i]) = 2
                      /\ s[i][1] = Ins("lea", "T", fs[i]) /\ s[i][2] = Ins("store", "T", 0)
  <2>1. SUFFICES ASSUME NEW i \in 1..n
                 PROVE  s[i] = Store(fs[i]) /\ s[i] \in Seq(InsType) /\ Len(s[i]) = 2
                        /\ s[i][1] = Ins("lea", "T", fs[i]) /\ s[i][2] = Ins("store", "T", 0)
    OBVIOUS
  <2>2. s[i] = Store(fs[i])
    BY <1>1
  <2>3. Ins("lea", "T", fs[i]) \in InsType /\ Ins("store", "T", 0) \in InsType
    BY <1>1 DEF Ins, InsType, Register
  <2>4. QED
    BY <2>2, <2>3 DEF Store
<1>3. s \in Seq(Seq(InsType)) /\ Len(s) = n
  BY <1>1, <1>2
<1>4. Stores(fs) = Flat(s)
  BY DEF Stores
<1> HIDE DEF s
<1>5. Flat(s) \in Seq(InsType)
  BY <1>3, FlattenTyped DEF Flat
<1>6. PICK off : Laid(off, s, n, Flat(s))
  BY <1>3, FlattenLaid
<1>7. \A i \in 1..n + 1 : off[i] = 2 * i - 2
  <2> DEFINE B == {i \in 1..n + 1 : off[i] # 2 * i - 2}
  <2>1. SUFFICES ASSUME B # {} PROVE FALSE
    OBVIOUS
  <2>2. PICK x \in B : \A y \in B : x <= y
    <3>1. B \subseteq Nat
      OBVIOUS
    <3> HIDE DEF B
    <3>2. QED
      BY <2>1, <3>1, SmallestNat, Zenon
  <2>3. x \in 1..n + 1 /\ off[x] # 2 * x - 2
    OBVIOUS
  <2>4. x # 1
    BY <1>6, <2>3 DEF Laid
  <2>5. PICK k \in 1..n : x = k + 1
    BY <2>3, <2>4
  <2>6. k \in 1..n + 1 /\ k \notin B
    BY <2>2, <2>5
  <2>7. off[k] = 2 * k - 2
    BY <2>6
  <2>8. off[k + 1] = off[k] + 2
    BY <1>2, <1>6 DEF Laid
  <2>9. QED
    BY <2>3, <2>5, <2>7, <2>8
<1>8. Len(Flat(s)) = 2 * n
  <2>1. n + 1 \in 1..n + 1
    OBVIOUS
  <2>2. off[n + 1] = 2 * (n + 1) - 2
    BY <1>7, <2>1
  <2>3. QED
    BY <1>6, <2>2 DEF Laid
<1>9. ASSUME NEW i \in 1..n
      PROVE  Flat(s)[2 * i - 1] = Ins("lea", "T", fs[i]) /\ Flat(s)[2 * i] = Ins("store", "T", 0)
  <2>1. off[i] = 2 * i - 2
    BY <1>7
  <2>2. 1 \in 1..Len(s[i]) /\ 2 \in 1..Len(s[i])
    BY <1>2
  <2>3. Flat(s)[off[i] + 1] = s[i][1] /\ Flat(s)[off[i] + 2] = s[i][2]
    BY <1>6, <2>2 DEF Laid
  <2>4. off[i] + 1 = 2 * i - 1 /\ off[i] + 2 = 2 * i
    BY <2>1
  <2>5. QED
    BY <1>2, <2>3, <2>4
<1>10. QED
  BY <1>4, <1>5, <1>8, <1>9

\* Before and after the table is filled
Opening(k) == Noise(layout[k], "before") \o Count(layout[k], jar, "before")
Filling(k) == Filled(layout, jar, truth, k)
Closing(k) == (Noise(layout[k], "after") \o Count(layout[k], jar, "after")) \o Calling(layout[k].call)
Gap(k) == GapOf(layout[k])
Segm(k) == Segment(layout, jar, truth, k)
Tab(k) == TableAt(layout, jar, truth, k)

Row == [method: MethodType, fn: Addr]

\* What a table holds, by the form of the registration.
LEMMA SegmentIs ==
    ASSUME Fits, NEW k \in DOMAIN layout
    PROVE  /\ Segm(k) \in Seq(Row)
           /\ layout[k].form # "stack" => Len(Segm(k)) = N(k)
           /\ layout[k].form = "encrypted" => \A i \in 1..N(k) : Segm(k)[i].method = NoMethod
           /\ layout[k].form \in {"static", "moved"} =>
                \A i \in 1..N(k) : Segm(k)[i] = [method |-> jar[layout[k].class][i], fn |-> Rows(layout[k].class)[i]]
<1> DEFINE c == layout[k].class
           s == jar[c]
           n == N(k)
<1>1. /\ layout[k].form \in {"static", "moved", "encrypted", "stack"}
      /\ s \in Seq(Method) /\ n \in Nat /\ DOMAIN s = 1..n
      /\ \A i \in 1..n : Rows(c)[i] = truth[c][s[i]] /\ Rows(c)[i] \in Addr
  BY RowsFit DEF RegistrationType
<1>2. Callback \in Addr /\ \A i \in 1..n : s[i] \in Method
  BY <1>1, TablesAssumption DEF N
<1>3. CASE layout[k].form = "stack"
  BY <1>3 DEF Segm, Segment
<1>4. CASE layout[k].form = "encrypted"
  <2>1. Segm(k) = [i \in 1..n |-> [method |-> NoMethod, fn |-> Callback]]
    BY <1>1, <1>4 DEF Segm, Segment
  <2>2. [method |-> NoMethod, fn |-> Callback] \in Row
    BY <1>2 DEF Row, MethodType
  <2> HIDE DEF n
  <2>3. Segm(k) \in Seq(Row) /\ Len(Segm(k)) = n /\ \A i \in 1..n : Segm(k)[i].method = NoMethod
    BY <1>1, <2>1, <2>2
  <2>4. QED
    BY <1>4, <2>3 DEF n
<1>5. CASE layout[k].form \in {"static", "moved"}
  <2>1. Segm(k) = [i \in 1..n |-> [method |-> s[i], fn |-> truth[c][s[i]]]]
    BY <1>1, <1>5 DEF Segm, Segment, RowsOf
  <2>2. \A i \in 1..n : [method |-> s[i], fn |-> truth[c][s[i]]] \in Row
    BY <1>1, <1>2 DEF Row, MethodType
  <2> HIDE DEF n, s, c
  <2>3. Segm(k) \in Seq(Row) /\ Len(Segm(k)) = n
    BY <1>1, <2>1, <2>2
  <2>4. \A i \in 1..n : Segm(k)[i] = [method |-> s[i], fn |-> Rows(c)[i]]
    BY <1>1, <2>1
  <2>5. QED
    BY <1>5, <2>3, <2>4 DEF n, s, c
<1>6. QED
  BY <1>1, <1>3, <1>4, <1>5

\* The tables lie one after the other, and each registration names its own.
ImageIs(io) ==
    /\ io \in [1..Len(layout) + 1 -> Nat]
    /\ \A k \in DOMAIN layout : Tab(k) = TableBase + io[k]
    /\ \A k \in DOMAIN layout : \A i \in 1..Len(Segm(k)) :
            io[k] + i \in DOMAIN image /\ image[io[k] + i] = Segm(k)[i]

\* ImageOf is such an image.
LEMMA ImageLaid ==
    ASSUME Fits, image = ImageOf(layout, jar, truth)
    PROVE  \E io : ImageIs(io)
<1> DEFINE n == Len(layout)
           s == [k \in DOMAIN layout |-> Segm(k)]
<1>1. n \in Nat /\ DOMAIN layout = 1..n /\ layout = [k \in 1..n |-> layout[k]]
  BY DEF Fits
<1>2. \A k \in 1..n : s[k] = Segm(k) /\ s[k] \in Seq(Row)
  BY <1>1, SegmentIs
<1>3. image = Flat(s)
  BY DEF ImageOf, Segm
<1>4. s \in Seq(Seq(Row)) /\ Len(s) = n
  <2> HIDE DEF n
  <2>1. QED
    BY <1>1, <1>2
<1> HIDE DEF s
<1>5. Flat(s) \in Seq(Row)
  BY <1>4, FlattenTyped DEF Flat
<1> HIDE DEF n
<1>6. PICK io : Laid(io, s, n, Flat(s)) /\ Prefixed(io, s, n, Row)
  BY <1>1, <1>4, FlattenLaid
<1>7. ASSUME NEW k \in 1..n PROVE Tab(k) = TableBase + io[k]
  <2> DEFINE l == SubSeq(layout, 1, k - 1)
             t == [q \in DOMAIN l |-> Segment(l, jar, truth, q)]
  <2>1. layout \in Seq(RegistrationType) /\ n = Len(layout)
    BY DEF Fits, n
  <2>2. DOMAIN l = 1..k - 1 /\ \A q \in 1..k - 1 : l[q] = layout[q]
    <3>1. k - 1 \in 0..Len(layout)
      BY <2>1
    <3>2. QED
      BY <2>1, <3>1, FirstOnes
  <2>3. \A q \in 1..k - 1 : t[q] = s[q] /\ t[q] \in Seq(Row)
    <3>1. SUFFICES ASSUME NEW q \in 1..k - 1 PROVE t[q] = s[q] /\ t[q] \in Seq(Row)
      OBVIOUS
    <3>2. q \in 1..n /\ s[q] = Segm(q) /\ s[q] \in Seq(Row)
      BY <1>1, <1>2
    <3>3. t[q] = Segment(l, jar, truth, q) /\ l[q] = layout[q]
      BY <2>2
    <3>4. Segment(l, jar, truth, q) = Segm(q)
      BY <3>3 DEF Segm, Segment
    <3>5. QED
      BY <3>2, <3>3, <3>4
  <2>4. t = [q \in 1..k - 1 |-> t[q]]
    BY <2>2
  <2>5. Tab(k) = TableBase + Len(Flat(t))
    BY DEF Tab, TableAt, ImageOf
  <2> HIDE DEF t
  <2>6. t \in Seq(Seq(Row)) /\ Len(t) = k - 1 /\ k - 1 \in 0..n /\ (k - 1) + 1 = k
    <3>1. k - 1 \in 0..n /\ (k - 1) + 1 = k
      BY <1>1
    <3>2. PICK m \in Nat : m = k - 1
      BY <3>1
    <3>3. t \in Seq(Seq(Row)) /\ Len(t) = m
      BY <2>3, <2>4, <3>2
    <3>4. QED
      BY <3>1, <3>2, <3>3
  <2>7. Len(Flat(t)) = io[(k - 1) + 1]
    BY <1>6, <2>3, <2>6 DEF Prefixed
  <2>8. QED
    BY <2>5, <2>6, <2>7
<1>8. ASSUME NEW k \in 1..n, NEW i \in 1..Len(Segm(k))
      PROVE  io[k] + i \in DOMAIN image /\ image[io[k] + i] = Segm(k)[i]
  <2>1. i \in 1..Len(s[k]) /\ s[k] = Segm(k)
    BY <1>2
  <2>2. io[k] + i \in 1..Len(Flat(s)) /\ Flat(s)[io[k] + i] = s[k][i]
    BY <1>6, <2>1 DEF Laid
  <2>3. DOMAIN Flat(s) = 1..Len(Flat(s))
    BY <1>5
  <2>4. QED
    BY <1>3, <2>1, <2>2, <2>3
<1>9. io \in [1..Len(layout) + 1 -> Nat]
  BY <1>6 DEF Laid, n
<1>10. ImageIs(io)
  BY <1>1, <1>7, <1>8, <1>9 DEF ImageIs
<1>11. QED
  BY <1>10

LEMMA InsIs ==
    /\ Ins("nop", "-", 0) \in InsType /\ Ins("nop", "-", 0).op = "nop"
    /\ Ins("data", "-", 0) \in InsType /\ Ins("call", "-", 0) \in InsType
    /\ Ins("slot", "T", 0) \in InsType /\ Ins("mov", "S", "T") \in InsType /\ Ins("mov", "M", "T") \in InsType
    /\ Ins("branch", "T", 0) \in InsType /\ Ins("branch", "S", 0) \in InsType
    /\ Ins("store", "T", 0) \in InsType
BY DEF InsType, Register, Ins

\* What comes before a registration.
LEMMA GapIs ==
    ASSUME NEW k \in DOMAIN layout, layout[k] \in RegistrationType
    PROVE  /\ Gap(k) \in Seq(InsType)
           /\ layout[k].gap # "data" => \A j \in 1..Len(Gap(k)) : Gap(k)[j].op = "nop"
           /\ layout[k].gap = "far" => Len(Gap(k)) = Window
<1>1. layout[k].gap \in {"near", "far", "data"}
  BY DEF RegistrationType
<1>2. Nops(Window) = [i \in 1..Window |-> Ins("nop", "-", 0)] /\ Window \in Nat
  BY TablesAssumption DEF Nops
<1>3. Nops(Window) \in Seq(InsType) /\ Len(Nops(Window)) = Window /\ \A j \in 1..Window : Nops(Window)[j].op = "nop"
  BY <1>2, InsIs
<1>4. CASE layout[k].gap = "near"
  BY <1>4 DEF Gap, GapOf
<1>5. CASE layout[k].gap = "far"
  BY <1>3, <1>5 DEF Gap, GapOf
<1>6. CASE layout[k].gap = "data"
  <2>1. Gap(k) = <<Ins("data", "-", 0)>>
    BY <1>6 DEF Gap, GapOf
  <2>2. QED
    BY <1>6, <2>1, InsIs
<1>7. QED
  BY <1>1, <1>4, <1>5, <1>6

\* A store that is none of the natives.
LEMMA NoiseIs ==
    ASSUME NEW r, NEW when
    PROVE  /\ Noise(r, when) \in Seq(InsType)
           /\ r.noise # when => Noise(r, when) = <<>>
           /\ r.noise = when => /\ Len(Noise(r, when)) = 2
                                /\ Noise(r, when)[1] = Ins("lea", "T", Callback)
                                /\ Noise(r, when)[2] = Ins("store", "T", 0)
<1>1. Callback \in Nat
  BY TablesAssumption
<1>2. Ins("lea", "T", Callback) \in InsType /\ Ins("store", "T", 0) \in InsType
  BY <1>1 DEF InsType, Register, Ins
<1>3. QED
  BY <1>2 DEF Noise, Store

\* The number of methods, where it is set there.
LEMMA CountIs ==
    ASSUME Fits, NEW k \in DOMAIN layout, NEW when
    PROVE  /\ Count(layout[k], jar, when) \in Seq(InsType)
           /\ layout[k].count # when => Count(layout[k], jar, when) = <<>>
           /\ layout[k].count = when => /\ Len(Count(layout[k], jar, when)) = 1
                                        /\ Count(layout[k], jar, when)[1] = Ins("count", "-", N(k))
<1>1. N(k) \in Nat
  BY RowsFit
<1>2. Ins("count", "-", N(k)) \in InsType
  BY <1>1 DEF InsType, Register, Ins
<1>3. CASE layout[k].count = when
  <2>1. Count(layout[k], jar, when) = <<Ins("count", "-", N(k))>>
    BY <1>3 DEF Count, N
  <2>2. QED
    BY <1>2, <1>3, <2>1
<1>4. CASE layout[k].count # when
  BY <1>4 DEF Count
<1>5. QED
  BY <1>3, <1>4

LEMMA OpeningIs ==
    ASSUME Fits, NEW k \in DOMAIN layout
    PROVE  /\ Opening(k) \in Seq(InsType)
           /\ \A j \in 1..Len(Opening(k)) :
                \/ Opening(k)[j] = Ins("lea", "T", Callback) /\ layout[k].noise = "before"
                \/ Opening(k)[j] = Ins("store", "T", 0) /\ layout[k].noise = "before"
                \/ Opening(k)[j] = Ins("count", "-", N(k)) /\ layout[k].count = "before"
           /\ layout[k].count = "before" =>
                Len(Opening(k)) > 0 /\ Opening(k)[Len(Opening(k))] = Ins("count", "-", N(k))
           /\ layout[k].count # "before" => Opening(k) = Noise(layout[k], "before")
<1> DEFINE a == Noise(layout[k], "before")
           b == Count(layout[k], jar, "before")
<1>1. Opening(k) = a \o b
  BY DEF Opening
<1>2. /\ a \in Seq(InsType)
      /\ layout[k].noise # "before" => a = <<>>
      /\ layout[k].noise = "before" => Len(a) = 2 /\ a[1] = Ins("lea", "T", Callback) /\ a[2] = Ins("store", "T", 0)
  BY NoiseIs
<1>3. /\ b \in Seq(InsType)
      /\ layout[k].count # "before" => b = <<>>
      /\ layout[k].count = "before" => Len(b) = 1 /\ b[1] = Ins("count", "-", N(k))
  BY CountIs
<1> HIDE DEF a, b
<1>4. /\ Len(a) \in Nat /\ Len(b) \in Nat /\ Opening(k) \in Seq(InsType) /\ Len(Opening(k)) = Len(a) + Len(b)
      /\ \A i \in 1..Len(a) : Opening(k)[i] = a[i]
      /\ \A i \in 1..Len(b) : Opening(k)[Len(a) + i] = b[i]
  <2>1. a \in Seq(InsType) /\ b \in Seq(InsType)
    BY <1>2, <1>3
  <2>2. QED
    BY <1>1, <2>1, Joined, JoinedAt
<1>5. ASSUME NEW j \in 1..Len(Opening(k))
      PROVE  \/ Opening(k)[j] = Ins("lea", "T", Callback) /\ layout[k].noise = "before"
             \/ Opening(k)[j] = Ins("store", "T", 0) /\ layout[k].noise = "before"
             \/ Opening(k)[j] = Ins("count", "-", N(k)) /\ layout[k].count = "before"
  <2>1. CASE j \in 1..Len(a)
    <3>1. layout[k].noise = "before" /\ (j = 1 \/ j = 2) /\ Opening(k)[j] = a[j]
      BY <1>2, <1>4, <2>1
    <3>2. QED
      BY <1>2, <3>1
  <2>2. CASE j \notin 1..Len(a)
    <3>0. Len(a) \in Nat /\ Len(b) \in Nat /\ Len(Opening(k)) = Len(a) + Len(b)
      BY <1>4
    <3>1. PICK i \in 1..Len(b) : j = Len(a) + i
      <4>1. j - Len(a) \in 1..Len(b) /\ j = Len(a) + (j - Len(a))
        BY <2>2, <3>0
      <4>2. QED
        BY <4>1
    <3>2. layout[k].count = "before" /\ i = 1
      <4>1. CASE layout[k].count = "before"
        <5>1. Len(b) = 1
          BY <1>3, <4>1
        <5>2. QED
          BY <4>1, <5>1
      <4>2. CASE layout[k].count # "before"
        <5>1. Len(b) = 0
          BY <1>3, <4>2
        <5>2. QED
          BY <5>1
      <4>3. QED
        BY <4>1, <4>2
    <3>3. QED
      BY <1>3, <1>4, <3>1, <3>2
  <2>3. QED
    BY <2>1, <2>2
<1>6. ASSUME layout[k].count = "before"
      PROVE  Len(Opening(k)) > 0 /\ Opening(k)[Len(Opening(k))] = Ins("count", "-", N(k))
  <2>1. Len(b) = 1 /\ b[1] = Ins("count", "-", N(k))
    BY <1>3, <1>6
  <2>2. Len(a) \in Nat /\ Len(Opening(k)) = Len(a) + 1 /\ 1 \in 1..Len(b)
    BY <1>4, <2>1
  <2>3. Opening(k)[Len(a) + 1] = b[1]
    BY <1>4, <2>2
  <2>4. QED
    BY <2>1, <2>2, <2>3
<1>7. ASSUME layout[k].count # "before"
      PROVE  Opening(k) = Noise(layout[k], "before")
  <2>1. a \o <<>> = a
    BY <1>2
  <2>2. QED
    BY <1>1, <1>3, <1>7, <2>1 DEF a
<1>8. QED
  BY <1>4, <1>5, <1>6, <1>7

LEMMA Widens ==
    ASSUME NEW S, NEW T, S \subseteq T, NEW s \in Seq(S)
    PROVE  s \in Seq(T)
OBVIOUS

\* How the table is filled, by the form of the registration.
LEMMA FillingIs ==
    ASSUME Fits, NEW k \in DOMAIN layout, Tab(k) \in Nat
    PROVE  /\ Filling(k) \in Seq(InsType)
           /\ layout[k].form = "stack" => Filling(k) = Stores(Rows(layout[k].class))
           /\ layout[k].form = "moved" => /\ Len(Filling(k)) = 2
                                          /\ Filling(k)[1] = Ins("lea", "T", Tab(k))
                                          /\ Filling(k)[2] = Ins("mov", "M", "T")
           /\ layout[k].form \in {"static", "encrypted"} =>
                Len(Filling(k)) = 1 /\ Filling(k)[1] = Ins("lea", "M", Tab(k))
<1> DEFINE c == layout[k].class
<1>1. layout[k].form \in {"static", "moved", "encrypted", "stack"}
  BY RowsFit DEF RegistrationType
<1>2. CASE layout[k].form = "stack"
  <2>1. Filling(k) = Flat([i \in DOMAIN jar[c] |-> Store(truth[c][jar[c][i]])])
    BY <1>2 DEF Filling, Filled
  <2>2. Rows(c) = [i \in DOMAIN jar[c] |-> truth[c][jar[c][i]]]
    BY DEF Rows
  <2>3. Filling(k) = Stores(Rows(c))
    BY <2>1, <2>2 DEF Stores
  <2>4. Rows(c) \in Seq(Addr) /\ Len(Rows(c)) \in Nat
    BY RowsFit
  <2>5. Addr \subseteq Nat
    BY FnsAreLow
  <2>6. Rows(c) \in Seq(Nat)
    BY <2>4, <2>5, Widens
  <2>7. QED
    BY <1>2, <2>3, <2>4, <2>6, StoresAre
<1>3. CASE layout[k].form # "stack"
  <2>1. Ins("lea", "T", Tab(k)) \in InsType /\ Ins("lea", "M", Tab(k)) \in InsType /\ Ins("mov", "M", "T") \in InsType
    BY DEF Ins, InsType, Register
  <2>2. CASE layout[k].form = "moved"
    <3>1. Filling(k) = <<Ins("lea", "T", Tab(k)), Ins("mov", "M", "T")>>
      BY <2>2 DEF Filling, Filled, Tab
    <3>2. QED
      BY <2>1, <2>2, <3>1
  <2>3. CASE layout[k].form # "moved"
    <3>1. Filling(k) = <<Ins("lea", "M", Tab(k))>>
      BY <1>3, <2>3 DEF Filling, Filled, Tab
    <3>2. QED
      BY <1>1, <1>3, <2>1, <2>3, <3>1
  <2>4. QED
    BY <2>2, <2>3
<1>4. QED
  BY <1>2, <1>3

\* How the call is made: at the end, through a slot loaded just before it
Calls(s, how) ==
    CASE how = "call" -> Len(s) = 1 /\ s[1] = Ins("call", "-", 0)
      [] how = "split" -> Len(s) = 2 /\ s[1] = Ins("slot", "T", 0) /\ s[2] = Ins("branch", "T", 0)
      [] how = "veneer" -> /\ Len(s) = 3 /\ s[1] = Ins("slot", "T", 0)
                           /\ s[2] = Ins("mov", "S", "T") /\ s[3] = Ins("branch", "S", 0)
      [] how = "shared" -> s = <<>>
      [] OTHER -> TRUE
LEMMA CallingIs ==
    ASSUME NEW how \in {"call", "split", "veneer", "late", "shared"}
    PROVE  Calling(how) \in Seq(InsType) /\ Calls(Calling(how), how)
<1>3. CASE how = "call"
  <2>1. Calling(how) = <<Ins("call", "-", 0)>>
    BY <1>3 DEF Calling
  <2>2. Calling(how) \in Seq(InsType) /\ Len(Calling(how)) = 1 /\ Calling(how)[1] = Ins("call", "-", 0)
    BY <2>1, InsIs
  <2>3. QED
    BY <1>3, <2>2 DEF Calls
<1>4. CASE how = "split"
  <2>1. Calling(how) = <<Ins("slot", "T", 0), Ins("branch", "T", 0)>>
    BY <1>4 DEF Calling
  <2>2. Calling(how) \in Seq(InsType) /\ Len(Calling(how)) = 2 /\ Calling(how)[1] = Ins("slot", "T", 0) /\ Calling(how)[2] = Ins("branch", "T", 0)
    BY <2>1, InsIs
  <2>3. QED
    BY <1>4, <2>2 DEF Calls
<1>5. CASE how = "veneer"
  <2>1. Calling(how) = <<Ins("slot", "T", 0), Ins("mov", "S", "T"), Ins("branch", "S", 0)>>
    BY <1>5 DEF Calling
  <2>2. Calling(how) \in Seq(InsType) /\ Len(Calling(how)) = 3 /\ Calling(how)[1] = Ins("slot", "T", 0) /\ Calling(how)[2] = Ins("mov", "S", "T") /\ Calling(how)[3] = Ins("branch", "S", 0)
    BY <2>1, InsIs
  <2>3. QED
    BY <1>5, <2>2 DEF Calls
<1>6. CASE how = "shared"
  BY <1>6 DEF Calling, Calls
<1>7. CASE how = "late"
  <2>1. Nops(Reach + 1) \in Seq(InsType)
    <3>1. Nops(Reach + 1) = [i \in 1..Reach + 1 |-> Ins("nop", "-", 0)] /\ Reach + 1 \in Nat
      BY TablesAssumption DEF Nops
    <3>2. QED
      BY <3>1, InsIs
  <2>2. <<Ins("slot", "T", 0)>> \in Seq(InsType) /\ <<Ins("branch", "T", 0)>> \in Seq(InsType)
    BY InsIs
  <2>3. Calling(how) = <<Ins("slot", "T", 0)>> \o Nops(Reach + 1) \o <<Ins("branch", "T", 0)>>
    BY <1>7 DEF Calling
  <2>4. Calling(how) \in Seq(InsType)
    BY <2>1, <2>2, <2>3, Joined
  <2>5. QED
    BY <1>7, <2>4 DEF Calls
<1>8. QED
  BY <1>3, <1>4, <1>5, <1>6, <1>7

CallOf(k) == Calling(layout[k].call)
LEMMA ClosingIs ==
    ASSUME Fits, NEW k \in DOMAIN layout
    PROVE  /\ Closing(k) \in Seq(InsType) /\ CallOf(k) \in Seq(InsType) /\ Calls(CallOf(k), layout[k].call)
           /\ layout[k].noise # "after" =>
                /\ layout[k].count # "after" => Closing(k) = CallOf(k)
                /\ layout[k].count = "after" =>
                        /\ Len(Closing(k)) = Len(CallOf(k)) + 1 /\ Closing(k)[1] = Ins("count", "-", N(k))
                        /\ \A j \in 1..Len(CallOf(k)) : Closing(k)[1 + j] = CallOf(k)[j]
<1> DEFINE a == Noise(layout[k], "after")
           b == Count(layout[k], jar, "after")
           l == CallOf(k)
<1>1. l \in Seq(InsType) /\ Calls(l, layout[k].call)
  BY RowsFit, CallingIs DEF CallOf, RegistrationType
<1>2. a \in Seq(InsType) /\ (layout[k].noise # "after" => a = <<>>)
  BY NoiseIs
<1>3. /\ b \in Seq(InsType)
      /\ layout[k].count # "after" => b = <<>>
      /\ layout[k].count = "after" => Len(b) = 1 /\ b[1] = Ins("count", "-", N(k))
  BY CountIs
<1>4. Closing(k) = (a \o b) \o l
  BY DEF Closing, CallOf
<1> HIDE DEF a, b, l
<1>5. Closing(k) \in Seq(InsType)
  BY <1>1, <1>2, <1>3, <1>4, Joined
<1>6. ASSUME layout[k].noise # "after" PROVE Closing(k) = b \o l
  <2>1. b \in Seq(InsType)
    BY <1>3
  <2>2. <<>> \o b = b
    BY <2>1
  <2>3. QED
    BY <1>2, <1>4, <1>6, <2>2
<1>7. ASSUME layout[k].noise # "after", layout[k].count # "after" PROVE Closing(k) = l
  <2>1. <<>> \o l = l
    BY <1>1
  <2>2. QED
    BY <1>3, <1>6, <1>7, <2>1
<1>8. ASSUME layout[k].noise # "after", layout[k].count = "after"
      PROVE  /\ Len(Closing(k)) = Len(l) + 1 /\ Closing(k)[1] = Ins("count", "-", N(k))
             /\ \A j \in 1..Len(l) : Closing(k)[1 + j] = l[j]
  <2>1. /\ Len(b \o l) = Len(b) + Len(l) /\ Len(l) \in Nat
        /\ \A i \in 1..Len(b) : (b \o l)[i] = b[i]
        /\ \A i \in 1..Len(l) : (b \o l)[Len(b) + i] = l[i]
    <3>1. b \in Seq(InsType) /\ l \in Seq(InsType)
      BY <1>1, <1>3
    <3>2. QED
      BY <3>1, JoinedAt
  <2>2. QED
    <3>1. Len(b) = 1 /\ b[1] = Ins("count", "-", N(k)) /\ Closing(k) = b \o l
      BY <1>3, <1>6, <1>8
    <3>2. QED
      BY <2>1, <3>1
<1>9. QED
  BY <1>1, <1>5, <1>7, <1>8 DEF l

-----------------------------------------------------------------------------
(* Where the parts of a registration lie in the code.                       *)

\* Where the registrations and their parts lie in the code
GapTo(off, k) == off[k] + Len(Gap(k))
FillFrom(off, k) == GapTo(off, k) + Len(Opening(k))
FillTo(off, k) == FillFrom(off, k) + Len(Filling(k))

CodeIs(off) ==
    /\ code \in Seq(InsType) /\ off \in [1..Len(layout) + 1 -> Nat]
    /\ off[1] = 0 /\ off[Len(layout) + 1] = Len(code)
    /\ \A i, k \in 1..Len(layout) + 1 : i <= k => off[i] <= off[k]
    /\ \A m \in 1..Len(code) : \E k \in 1..Len(layout) : off[k] < m /\ m <= off[k + 1]
    /\ \A k \in 1..Len(layout) :
        /\ off[k + 1] = FillTo(off, k) + Len(Closing(k))
        /\ \A j \in 1..Len(Gap(k)) : code[off[k] + j] = Gap(k)[j]
        /\ \A j \in 1..Len(Opening(k)) : code[GapTo(off, k) + j] = Opening(k)[j]
        /\ \A j \in 1..Len(Filling(k)) : code[FillFrom(off, k) + j] = Filling(k)[j]
        /\ \A j \in 1..Len(Closing(k)) : code[FillTo(off, k) + j] = Closing(k)[j]

LEMMA TwoJoined ==
    ASSUME NEW T, NEW a \in Seq(T), NEW b \in Seq(T), NEW r, r = a \o b
    PROVE  /\ r \in Seq(T) /\ Len(r) = Len(a) + Len(b) /\ Len(a) \in Nat /\ Len(b) \in Nat
           /\ \A j \in 1..Len(a) : r[j] = a[j]
           /\ \A j \in 1..Len(b) : r[Len(a) + j] = b[j]
OBVIOUS

LEMMA FourJoined ==
    ASSUME NEW T, NEW g \in Seq(T), NEW h \in Seq(T), NEW f \in Seq(T), NEW t \in Seq(T),
           NEW r, r = g \o ((h \o f) \o t)
    PROVE  /\ r \in Seq(T) /\ Len(r) = Len(g) + Len(h) + Len(f) + Len(t)
           /\ Len((h \o f) \o t) = Len(h) + Len(f) + Len(t)
           /\ \A j \in 1..Len(g) : r[j] = g[j]
           /\ \A j \in 1..Len(h) : r[Len(g) + j] = h[j]
           /\ \A j \in 1..Len(f) : r[Len(g) + Len(h) + j] = f[j]
           /\ \A j \in 1..Len(t) : r[Len(g) + Len(h) + Len(f) + j] = t[j]
<1> DEFINE a == h \o f
           b == a \o t
<1>1. /\ a \in Seq(T) /\ Len(a) = Len(h) + Len(f) /\ Len(h) \in Nat /\ Len(f) \in Nat
      /\ \A j \in 1..Len(h) : a[j] = h[j]
      /\ \A j \in 1..Len(f) : a[Len(h) + j] = f[j]
  BY TwoJoined
<1> HIDE DEF a
<1>2. /\ b \in Seq(T) /\ Len(b) = Len(a) + Len(t) /\ Len(t) \in Nat
      /\ \A j \in 1..Len(a) : b[j] = a[j]
      /\ \A j \in 1..Len(t) : b[Len(a) + j] = t[j]
  <2>1. a \in Seq(T)
    BY <1>1
  <2>2. QED
    BY <2>1, TwoJoined
<1>3. r = g \o b
  BY DEF a
<1> HIDE DEF b
<1>4. /\ r \in Seq(T) /\ Len(r) = Len(g) + Len(b) /\ Len(g) \in Nat
      /\ \A j \in 1..Len(g) : r[j] = g[j]
      /\ \A j \in 1..Len(b) : r[Len(g) + j] = b[j]
  <2>1. b \in Seq(T)
    BY <1>2
  <2>2. QED
    BY <1>3, <2>1, TwoJoined
<1>5. ASSUME NEW j \in 1..Len(h) PROVE r[Len(g) + j] = h[j]
  <2>1. j \in 1..Len(a) /\ j \in 1..Len(b)
    BY <1>1, <1>2
  <2>2. QED
    BY <1>1, <1>2, <1>4, <2>1
<1>6. ASSUME NEW j \in 1..Len(f) PROVE r[Len(g) + Len(h) + j] = f[j]
  <2>1. Len(h) + j \in 1..Len(a) /\ Len(h) + j \in 1..Len(b) /\ Len(g) + Len(h) + j = Len(g) + (Len(h) + j)
    BY <1>1, <1>2, <1>4
  <2>2. r[Len(g) + (Len(h) + j)] = b[Len(h) + j] /\ b[Len(h) + j] = a[Len(h) + j] /\ a[Len(h) + j] = f[j]
    BY <1>1, <1>2, <1>4, <2>1
  <2>3. QED
    BY <2>1, <2>2
<1>7. ASSUME NEW j \in 1..Len(t) PROVE r[Len(g) + Len(h) + Len(f) + j] = t[j]
  <2>1. Len(a) + j \in 1..Len(b) /\ Len(g) + Len(h) + Len(f) + j = Len(g) + (Len(a) + j)
    BY <1>1, <1>2, <1>4
  <2>2. r[Len(g) + (Len(a) + j)] = b[Len(a) + j] /\ b[Len(a) + j] = t[j]
    BY <1>2, <1>4, <2>1
  <2>3. QED
    BY <2>1, <2>2
<1>8. Len(b) = Len(h) + Len(f) + Len(t) /\ Len(r) = Len(g) + Len(h) + Len(f) + Len(t)
  BY <1>1, <1>2, <1>4
<1>9. QED
  BY <1>4, <1>5, <1>6, <1>7, <1>8 DEF a, b

LEMMA LastJoined ==
    ASSUME NEW T, NEW g \in Seq(T), NEW h \in Seq(T), NEW f \in Seq(T), NEW t \in Seq(T),
           NEW r, r = g \o ((h \o f) \o t)
    PROVE  \A j \in 1..Len(t) : r[Len(g) + Len(h) + Len(f) + j] = t[j]
<1>1. TAKE j \in 1..Len(t)
<1>2. QED
  BY FourJoined

LEMMA PartsTyped ==
    ASSUME Fits, NEW k \in DOMAIN layout, Tab(k) \in Nat
    PROVE  /\ Gap(k) \in Seq(InsType) /\ Opening(k) \in Seq(InsType)
           /\ Filling(k) \in Seq(InsType) /\ Closing(k) \in Seq(InsType)
BY RowsFit, GapIs, OpeningIs, FillingIs, ClosingIs

\* CodeOf is such a code.
LEMMA CodeLaid ==
    ASSUME Fits, code = CodeOf(layout, jar, truth), \A k \in DOMAIN layout : Tab(k) \in Nat
    PROVE  \E off : CodeIs(off)
<1> DEFINE n == Len(layout)
           s == [k \in DOMAIN layout |-> RegistrationOf(layout, jar, truth, k)]
<1>1. n \in Nat /\ DOMAIN layout = 1..n
  BY DEF Fits
<1>2. ASSUME NEW k \in 1..n
      PROVE  /\ s[k] \in Seq(InsType)
             /\ Len(s[k]) = Len(Gap(k)) + Len(Opening(k)) + Len(Filling(k)) + Len(Closing(k))
             /\ \A j \in 1..Len(Gap(k)) : s[k][j] = Gap(k)[j]
             /\ \A j \in 1..Len(Opening(k)) : s[k][Len(Gap(k)) + j] = Opening(k)[j]
             /\ \A j \in 1..Len(Filling(k)) : s[k][Len(Gap(k)) + Len(Opening(k)) + j] = Filling(k)[j]
             /\ \A j \in 1..Len(Closing(k)) :
                    s[k][Len(Gap(k)) + Len(Opening(k)) + Len(Filling(k)) + j] = Closing(k)[j]
  <2>1. s[k] = Gap(k) \o ((Opening(k) \o Filling(k)) \o Closing(k))
    BY <1>1 DEF RegistrationOf, BodyOf, Gap, Opening, Filling, Closing
  <2>2. /\ Gap(k) \in Seq(InsType) /\ Opening(k) \in Seq(InsType)
        /\ Filling(k) \in Seq(InsType) /\ Closing(k) \in Seq(InsType)
    BY <1>1, PartsTyped
  <2> HIDE DEF s
  <2>3. QED
    <3>1. /\ s[k] \in Seq(InsType)
          /\ Len(s[k]) = Len(Gap(k)) + Len(Opening(k)) + Len(Filling(k)) + Len(Closing(k))
          /\ \A j \in 1..Len(Gap(k)) : s[k][j] = Gap(k)[j]
          /\ \A j \in 1..Len(Opening(k)) : s[k][Len(Gap(k)) + j] = Opening(k)[j]
      BY <2>1, <2>2, FourJoined
    <3>2. \A j \in 1..Len(Filling(k)) : s[k][Len(Gap(k)) + Len(Opening(k)) + j] = Filling(k)[j]
      BY <2>1, <2>2, FourJoined
    <3>3. \A j \in 1..Len(Closing(k)) :
                s[k][Len(Gap(k)) + Len(Opening(k)) + Len(Filling(k)) + j] = Closing(k)[j]
      <4> DEFINE g == Gap(k)
                 h == Opening(k)
                 f == Filling(k)
                 t == Closing(k)
                 r == s[k]
      <4>1. /\ g \in Seq(InsType) /\ h \in Seq(InsType) /\ f \in Seq(InsType) /\ t \in Seq(InsType)
            /\ r = g \o ((h \o f) \o t)
        BY <2>1, <2>2
      <4> HIDE DEF g, h, f, t, r
      <4>2. \A j \in 1..Len(t) : r[Len(g) + Len(h) + Len(f) + j] = t[j]
        BY <4>1, LastJoined
      <4>3. QED
        BY <4>2 DEF g, h, f, t, r
    <3>4. QED
      BY <3>1, <3>2, <3>3
<1>3. code = Flat(s)
  BY DEF CodeOf
<1>4. s \in Seq(Seq(InsType)) /\ Len(s) = n
  <2>1. \A k \in 1..n : s[k] \in Seq(InsType)
    BY <1>2
  <2>2. s = [k \in 1..n |-> s[k]]
    BY <1>1
  <2> HIDE DEF s, n
  <2>3. QED
    BY <1>1, <2>1, <2>2
<1> HIDE DEF s
<1>5. code \in Seq(InsType)
  BY <1>3, <1>4, FlattenTyped DEF Flat
<1> HIDE DEF n
<1>6. PICK off : Laid(off, s, n, code)
  BY <1>1, <1>3, <1>4, FlattenLaid
<1>7. /\ off \in [1..n + 1 -> Nat] /\ off[1] = 0 /\ off[n + 1] = Len(code)
      /\ \A i, k \in 1..n + 1 : i <= k => off[i] <= off[k]
  BY <1>6, Zenon DEF Laid
<1>8. ASSUME NEW m \in 1..Len(code) PROVE \E k \in 1..n : off[k] < m /\ m <= off[k + 1]
  <2>1. PICK k \in 1..n : \E j \in 1..Len(s[k]) : m = off[k] + j
    BY <1>6, Zenon DEF Laid
  <2>2. PICK j \in 1..Len(s[k]) : m = off[k] + j
    BY <2>1
  <2>3. off[k + 1] = off[k] + Len(s[k]) /\ off[k] \in Nat
    <3>1. off[k + 1] = off[k] + Len(s[k])
      BY <1>6 DEF Laid
    <3>2. QED
      BY <1>1, <1>7, <3>1
  <2>4. s[k] \in Seq(InsType)
    BY <1>2
  <2>5. off[k] < m /\ m <= off[k + 1]
    BY <2>2, <2>3, <2>4
  <2>6. QED
    BY <2>5
<1>9. ASSUME NEW k \in 1..n
      PROVE  /\ off[k + 1] = FillTo(off, k) + Len(Closing(k))
             /\ \A j \in 1..Len(Gap(k)) : code[off[k] + j] = Gap(k)[j]
             /\ \A j \in 1..Len(Opening(k)) : code[GapTo(off, k) + j] = Opening(k)[j]
             /\ \A j \in 1..Len(Filling(k)) : code[FillFrom(off, k) + j] = Filling(k)[j]
             /\ \A j \in 1..Len(Closing(k)) : code[FillTo(off, k) + j] = Closing(k)[j]
  <2>1. off[k + 1] = off[k] + Len(s[k]) /\ \A j \in 1..Len(s[k]) : code[off[k] + j] = s[k][j]
    BY <1>6, Zenon DEF Laid
  <2>2. off[k] \in Nat
    BY <1>1, <1>7
  <2>3. PICK a \in Nat : a = Len(Gap(k))
    BY <1>1, PartsTyped
  <2>4. PICK b \in Nat : b = Len(Opening(k))
    BY <1>1, PartsTyped
  <2>5. PICK c \in Nat : c = Len(Filling(k))
    BY <1>1, PartsTyped
  <2>6. PICK d \in Nat : d = Len(Closing(k))
    BY <1>1, PartsTyped
  <2>7. Len(s[k]) = a + b + c + d
    BY <1>2, <2>3, <2>4, <2>5, <2>6
  <2>8. ASSUME NEW j \in 1..a PROVE code[off[k] + j] = Gap(k)[j]
    <3>1. j \in 1..Len(s[k]) /\ s[k][j] = Gap(k)[j]
      BY <1>2, <2>3, <2>7
    <3>2. QED
      BY <2>1, <3>1
  <2>9. ASSUME NEW j \in 1..b PROVE code[GapTo(off, k) + j] = Opening(k)[j]
    <3>1. a + j \in 1..Len(s[k]) /\ s[k][a + j] = Opening(k)[j]
      BY <1>2, <2>3, <2>4, <2>7
    <3>2. code[off[k] + (a + j)] = s[k][a + j] /\ off[k] + (a + j) = (off[k] + a) + j
      BY <2>1, <2>2, <3>1
    <3>3. QED
      BY <2>3, <3>1, <3>2 DEF GapTo
  <2>10. ASSUME NEW j \in 1..c PROVE code[FillFrom(off, k) + j] = Filling(k)[j]
    <3>1. a + b + j \in 1..Len(s[k]) /\ s[k][a + b + j] = Filling(k)[j]
      BY <1>2, <2>3, <2>4, <2>5, <2>7
    <3>2. code[off[k] + (a + b + j)] = s[k][a + b + j]
      BY <2>1, <3>1
    <3>3. off[k] + (a + b + j) = ((off[k] + a) + b) + j
      BY <2>2
    <3>4. QED
      BY <2>3, <2>4, <3>1, <3>2, <3>3 DEF GapTo, FillFrom
  <2>11. ASSUME NEW j \in 1..d PROVE code[FillTo(off, k) + j] = Closing(k)[j]
    <3>1. a + b + c + j \in 1..Len(s[k]) /\ s[k][a + b + c + j] = Closing(k)[j]
      BY <1>2, <2>3, <2>4, <2>5, <2>6, <2>7
    <3>2. code[off[k] + (a + b + c + j)] = s[k][a + b + c + j]
      BY <2>1, <3>1
    <3>3. off[k] + (a + b + c + j) = (((off[k] + a) + b) + c) + j
      BY <2>2
    <3>4. QED
      BY <2>3, <2>4, <2>5, <3>1, <3>2, <3>3 DEF GapTo, FillFrom, FillTo
  <2>12. off[k + 1] = FillTo(off, k) + d
    <3>1. PICK o \in Nat : o = off[k]
      BY <2>2
    <3>2. off[k + 1] = o + (a + b + c + d)
      BY <2>1, <2>7, <3>1
    <3>3. FillTo(off, k) = ((o + a) + b) + c
      BY <2>3, <2>4, <2>5, <3>1 DEF GapTo, FillFrom, FillTo
    <3>4. o + (a + b + c + d) = (((o + a) + b) + c) + d
      OBVIOUS
    <3>5. QED
      BY <3>2, <3>3, <3>4
  <2>13. QED
    BY <2>3, <2>4, <2>5, <2>6, <2>8, <2>9, <2>10, <2>11, <2>12
<1>10. CodeIs(off)
  BY <1>5, <1>7, <1>8, <1>9 DEF CodeIs, n
<1>11. QED
  BY <1>10

-----------------------------------------------------------------------------
(* What a registration holds.                                               *)

\* A registration whose code can be followed
Tame(k) ==
    /\ layout[k].noise # "after" /\ layout[k].gap # "data"
    /\ layout[k].call \in {"call", "split", "veneer", "shared"}

\* An instruction of registration k that is no call
Quiet(k, x) ==
    \/ x.op = "nop"
    \/ x = Ins("lea", "T", Callback) /\ layout[k].noise = "before"
    \/ x = Ins("store", "T", 0)
    \/ x = Ins("count", "-", N(k))
    \/ layout[k].form = "stack" /\ \E q \in 1..N(k) : x = Ins("lea", "T", Rows(layout[k].class)[q])
    \/ layout[k].form = "moved" /\ (x = Ins("lea", "T", Tab(k)) \/ x = Ins("mov", "M", "T"))
    \/ layout[k].form \in {"static", "encrypted"} /\ x = Ins("lea", "M", Tab(k))
    \/ x = Ins("slot", "T", 0) \/ x = Ins("mov", "S", "T")

\* What comes after the table is filled
Trailing(k, x) ==
    \/ x = Ins("count", "-", N(k)) \/ x = Ins("slot", "T", 0) \/ x = Ins("mov", "S", "T")

\* The parts of a registration lie inside it, in order.
LEMMA Borders ==
    ASSUME Fits, NEW off, CodeIs(off), NEW k \in 1..Len(layout), Tab(k) \in Nat
    PROVE  /\ off[k] \in Nat /\ GapTo(off, k) \in Nat /\ FillFrom(off, k) \in Nat /\ FillTo(off, k) \in Nat
           /\ off[k + 1] \in Nat
           /\ off[k] <= GapTo(off, k) /\ GapTo(off, k) <= FillFrom(off, k)
           /\ FillFrom(off, k) <= FillTo(off, k) /\ FillTo(off, k) <= off[k + 1]
           /\ off[k + 1] <= Len(code) /\ Len(code) \in Nat
<1>1. k \in DOMAIN layout /\ Len(layout) \in Nat
  BY DEF Fits
<1>2. k \in 1..Len(layout) + 1 /\ k + 1 \in 1..Len(layout) + 1 /\ Len(layout) + 1 \in 1..Len(layout) + 1
      /\ k + 1 <= Len(layout) + 1
  BY <1>1
<1>3. off[k] \in Nat /\ off[k + 1] \in Nat /\ off[k + 1] <= Len(code)
  BY <1>2 DEF CodeIs
<1>4. Len(code) \in Nat
  BY DEF CodeIs
<1>5. Len(Gap(k)) \in Nat /\ Len(Opening(k)) \in Nat /\ Len(Filling(k)) \in Nat /\ Len(Closing(k)) \in Nat
  BY <1>1, PartsTyped
<1>6. off[k + 1] = FillTo(off, k) + Len(Closing(k))
  BY DEF CodeIs
<1>7. GapTo(off, k) = off[k] + Len(Gap(k)) /\ FillFrom(off, k) = GapTo(off, k) + Len(Opening(k))
      /\ FillTo(off, k) = FillFrom(off, k) + Len(Filling(k))
  BY DEF GapTo, FillFrom, FillTo
<1>8. GapTo(off, k) \in Nat /\ off[k] <= GapTo(off, k)
  BY <1>3, <1>5, <1>7
<1>9. FillFrom(off, k) \in Nat /\ GapTo(off, k) <= FillFrom(off, k)
  BY <1>5, <1>7, <1>8
<1>10. FillTo(off, k) \in Nat /\ FillFrom(off, k) <= FillTo(off, k)
  BY <1>5, <1>7, <1>9
<1>11. FillTo(off, k) <= off[k + 1]
  BY <1>5, <1>6, <1>10
<1>12. QED
  BY <1>3, <1>4, <1>8, <1>9, <1>10, <1>11

\* Each part holds nothing but what a tame registration may hold.
LEMMA InGap ==
    ASSUME Fits, NEW off, CodeIs(off), NEW k \in 1..Len(layout), Tab(k) \in Nat, layout[k].gap # "data",
           NEW i \in Nat, off[k] < i, i <= GapTo(off, k)
    PROVE  code[i].op = "nop"
<1>1. k \in DOMAIN layout /\ layout[k] \in RegistrationType /\ off[k] \in Nat /\ Len(Gap(k)) \in Nat
  <2>1. k \in DOMAIN layout
    BY DEF Fits
  <2>2. QED
    BY <2>1, Borders, PartsTyped, RowsFit
<1>2. PICK j \in 1..Len(Gap(k)) : i = off[k] + j
  <2>1. i - off[k] \in 1..Len(Gap(k)) /\ i = off[k] + (i - off[k])
    BY <1>1 DEF GapTo
  <2>2. QED
    BY <2>1
<1>3. code[i] = Gap(k)[j]
  BY <1>2 DEF CodeIs
<1>4. QED
  BY <1>1, <1>2, <1>3, GapIs

LEMMA InOpening ==
    ASSUME Fits, NEW off, CodeIs(off), NEW k \in 1..Len(layout), Tab(k) \in Nat,
           NEW i \in Nat, GapTo(off, k) < i, i <= FillFrom(off, k)
    PROVE  \/ code[i] = Ins("lea", "T", Callback) /\ layout[k].noise = "before"
           \/ code[i] = Ins("store", "T", 0) /\ layout[k].noise = "before"
           \/ code[i] = Ins("count", "-", N(k)) /\ layout[k].count = "before"
<1>1. k \in DOMAIN layout /\ GapTo(off, k) \in Nat /\ Len(Opening(k)) \in Nat
  <2>1. k \in DOMAIN layout
    BY DEF Fits
  <2>2. QED
    BY <2>1, Borders, PartsTyped
<1>2. PICK j \in 1..Len(Opening(k)) : i = GapTo(off, k) + j
  <2>1. i - GapTo(off, k) \in 1..Len(Opening(k)) /\ i = GapTo(off, k) + (i - GapTo(off, k))
    BY <1>1 DEF FillFrom
  <2>2. QED
    BY <2>1
<1>3. code[i] = Opening(k)[j]
  BY <1>2 DEF CodeIs
<1>4. QED
  BY <1>1, <1>2, <1>3, OpeningIs

\* Where each native is stored when the table is on the stack.
LEMMA StackFilling ==
    ASSUME Fits, NEW off, CodeIs(off), NEW k \in 1..Len(layout), Tab(k) \in Nat, layout[k].form = "stack"
    PROVE  /\ FillTo(off, k) = FillFrom(off, k) + 2 * N(k)
           /\ \A q \in 1..N(k) :
                /\ code[FillFrom(off, k) + (2 * q - 1)] = Ins("lea", "T", Rows(layout[k].class)[q])
                /\ code[FillFrom(off, k) + 2 * q] = Ins("store", "T", 0)
<1> DEFINE fs == Rows(layout[k].class)
<1>1. k \in DOMAIN layout
  BY DEF Fits
<1>2. Filling(k) = Stores(fs)
  BY <1>1, FillingIs
<1>3. fs \in Seq(Nat) /\ Len(fs) = N(k) /\ N(k) \in Nat
  <2>1. fs \in Seq(Addr) /\ Len(fs) = N(k) /\ N(k) \in Nat
    BY <1>1, RowsFit
  <2>2. Addr \subseteq Nat
    BY FnsAreLow
  <2>3. QED
    BY <2>1, <2>2, Widens
<1> HIDE DEF fs
<1>4. /\ Len(Stores(fs)) = 2 * N(k)
      /\ \A q \in 1..N(k) : /\ Stores(fs)[2 * q - 1] = Ins("lea", "T", fs[q])
                            /\ Stores(fs)[2 * q] = Ins("store", "T", 0)
  BY <1>3, StoresAre
<1>5. ASSUME NEW q \in 1..N(k)
      PROVE  /\ code[FillFrom(off, k) + (2 * q - 1)] = Ins("lea", "T", fs[q])
             /\ code[FillFrom(off, k) + 2 * q] = Ins("store", "T", 0)
  <2>1. 2 * q - 1 \in 1..Len(Filling(k)) /\ 2 * q \in 1..Len(Filling(k))
    BY <1>2, <1>3, <1>4
  <2>2. code[FillFrom(off, k) + (2 * q - 1)] = Filling(k)[2 * q - 1]
        /\ code[FillFrom(off, k) + 2 * q] = Filling(k)[2 * q]
    BY <2>1 DEF CodeIs
  <2>3. QED
    BY <1>2, <1>4, <2>2
<1>6. QED
  BY <1>2, <1>4, <1>5 DEF fs, FillTo

\* The address of the table is loaded, and perhaps moved.
LEMMA TableFilling ==
    ASSUME Fits, NEW off, CodeIs(off), NEW k \in 1..Len(layout), Tab(k) \in Nat
    PROVE  /\ layout[k].form = "moved" =>
                /\ FillTo(off, k) = FillFrom(off, k) + 2
                /\ code[FillFrom(off, k) + 1] = Ins("lea", "T", Tab(k))
                /\ code[FillFrom(off, k) + 2] = Ins("mov", "M", "T")
           /\ layout[k].form \in {"static", "encrypted"} =>
                /\ FillTo(off, k) = FillFrom(off, k) + 1
                /\ code[FillFrom(off, k) + 1] = Ins("lea", "M", Tab(k))
<1>1. k \in DOMAIN layout
  BY DEF Fits
<1>2. \A j \in 1..Len(Filling(k)) : code[FillFrom(off, k) + j] = Filling(k)[j]
  BY DEF CodeIs
<1>3. CASE layout[k].form = "moved"
  <2>1. Len(Filling(k)) = 2 /\ Filling(k)[1] = Ins("lea", "T", Tab(k)) /\ Filling(k)[2] = Ins("mov", "M", "T")
    BY <1>1, <1>3, FillingIs
  <2>2. QED
    BY <1>2, <1>3, <2>1 DEF FillTo
<1>4. CASE layout[k].form \in {"static", "encrypted"}
  <2>1. Len(Filling(k)) = 1 /\ Filling(k)[1] = Ins("lea", "M", Tab(k))
    BY <1>1, <1>4, FillingIs
  <2>2. QED
    BY <1>2, <1>4, <2>1 DEF FillTo
<1>5. QED
  BY <1>3, <1>4

LEMMA InFilling ==
    ASSUME Fits, NEW off, CodeIs(off), NEW k \in 1..Len(layout), Tab(k) \in Nat,
           NEW i \in Nat, FillFrom(off, k) < i, i <= FillTo(off, k)
    PROVE  \/ layout[k].form = "stack" /\ \E q \in 1..N(k) : code[i] = Ins("lea", "T", Rows(layout[k].class)[q])
           \/ layout[k].form = "stack" /\ code[i] = Ins("store", "T", 0)
           \/ layout[k].form = "moved" /\ (code[i] = Ins("lea", "T", Tab(k)) \/ code[i] = Ins("mov", "M", "T"))
           \/ layout[k].form \in {"static", "encrypted"} /\ code[i] = Ins("lea", "M", Tab(k))
<1>1. k \in DOMAIN layout
  BY DEF Fits
<1>2. layout[k].form \in {"static", "moved", "encrypted", "stack"} /\ N(k) \in Nat
  BY <1>1, RowsFit DEF RegistrationType
<1>3. PICK a \in Nat : a = FillFrom(off, k)
  BY Borders
<1>4. CASE layout[k].form = "stack"
  <2>1. /\ FillTo(off, k) = a + 2 * N(k)
        /\ \A q \in 1..N(k) : /\ code[a + (2 * q - 1)] = Ins("lea", "T", Rows(layout[k].class)[q])
                              /\ code[a + 2 * q] = Ins("store", "T", 0)
    BY <1>3, <1>4, StackFilling
  <2>2. PICK d \in Nat : i = a + d /\ d > 0 /\ d <= 2 * N(k)
    <3>1. i - a \in Nat /\ i = a + (i - a) /\ i - a > 0 /\ i - a <= 2 * N(k)
      BY <1>2, <1>3, <2>1
    <3>2. QED
      BY <3>1
  <2>3. PICK q \in 1..N(k) : d = 2 * q - 1 \/ d = 2 * q
    <3>1. (d + 1) \div 2 \in 1..N(k) /\ (d = 2 * ((d + 1) \div 2) - 1 \/ d = 2 * ((d + 1) \div 2))
      BY <1>2, <2>2
    <3>2. QED
      BY <3>1
  <2>4. QED
    BY <1>4, <2>1, <2>2, <2>3
<1>5. CASE layout[k].form = "moved"
  <2>1. FillTo(off, k) = a + 2 /\ code[a + 1] = Ins("lea", "T", Tab(k)) /\ code[a + 2] = Ins("mov", "M", "T")
    BY <1>3, <1>5, TableFilling
  <2>2. i = a + 1 \/ i = a + 2
    BY <1>3, <2>1
  <2>3. QED
    BY <1>5, <2>1, <2>2
<1>6. CASE layout[k].form \in {"static", "encrypted"}
  <2>1. FillTo(off, k) = a + 1 /\ code[a + 1] = Ins("lea", "M", Tab(k))
    BY <1>3, <1>6, TableFilling
  <2>2. i = a + 1
    BY <1>3, <2>1
  <2>3. QED
    BY <1>6, <2>1, <2>2
<1>7. QED
  BY <1>2, <1>4, <1>5, <1>6

\* The end of a registration: the call, and what leads to it
Ends(off, k) ==
    LET e == off[k + 1]
    IN  CASE layout[k].call = "call" -> FillTo(off, k) < e /\ code[e] = Ins("call", "-", 0)
          [] layout[k].call = "split" ->
                FillTo(off, k) < e - 1 /\ code[e - 1] = Ins("slot", "T", 0) /\ code[e] = Ins("branch", "T", 0)
          [] layout[k].call = "veneer" ->
                /\ FillTo(off, k) < e - 2 /\ code[e - 2] = Ins("slot", "T", 0)
                /\ code[e - 1] = Ins("mov", "S", "T") /\ code[e] = Ins("branch", "S", 0)
          [] OTHER -> TRUE

LEMMA InClosing ==
    ASSUME Fits, NEW off, CodeIs(off), NEW k \in 1..Len(layout), Tab(k) \in Nat, Tame(k)
    PROVE  /\ Ends(off, k)
           /\ layout[k].count = "after" =>
                FillTo(off, k) < off[k + 1] /\ code[FillTo(off, k) + 1] = Ins("count", "-", N(k))
           /\ \A i \in FillTo(off, k) + 1..off[k + 1] :
                Trailing(k, code[i]) \/ (i = off[k + 1] /\ layout[k].call # "shared")
<1> DEFINE s == CallOf(k)
           how == layout[k].call
           e == off[k + 1]
<1>1. k \in DOMAIN layout
  BY DEF Fits
<1>2. how \in {"call", "split", "veneer", "shared"}
  BY DEF Tame
<1>3. PICK f \in Nat : f = FillTo(off, k)
  BY Borders
<1>4. s \in Seq(InsType) /\ Calls(s, how) /\ Len(s) \in Nat
  <2>1. s \in Seq(InsType) /\ Calls(s, how)
    BY <1>1, ClosingIs
  <2>2. QED
    BY <2>1
<1>5. PICK b \in Nat : /\ e = f + b + Len(s)
                       /\ b = IF layout[k].count = "after" THEN 1 ELSE 0
                       /\ b = 1 => code[f + 1] = Ins("count", "-", N(k))
                       /\ \A j \in 1..Len(s) : code[f + b + j] = s[j]
  <2>1. e = f + Len(Closing(k)) /\ \A j \in 1..Len(Closing(k)) : code[f + j] = Closing(k)[j]
    BY <1>3 DEF CodeIs
  <2>2. CASE layout[k].count = "after"
    <3>1. /\ Len(Closing(k)) = Len(s) + 1 /\ Closing(k)[1] = Ins("count", "-", N(k))
          /\ \A j \in 1..Len(s) : Closing(k)[1 + j] = s[j]
      BY <1>1, <2>2, ClosingIs DEF Tame
    <3>2. code[f + 1] = Ins("count", "-", N(k))
      <4>1. 1 \in 1..Len(Closing(k))
        BY <1>4, <3>1
      <4>2. QED
        BY <2>1, <3>1, <4>1
    <3>3. ASSUME NEW j \in 1..Len(s) PROVE code[f + 1 + j] = s[j]
      <4>1. 1 + j \in 1..Len(Closing(k)) /\ f + 1 + j = f + (1 + j)
        BY <1>3, <1>4, <3>1
      <4>2. code[f + (1 + j)] = Closing(k)[1 + j] /\ Closing(k)[1 + j] = s[j]
        BY <2>1, <3>1, <4>1
      <4>3. QED
        BY <4>1, <4>2
    <3>4. e = f + 1 + Len(s)
      BY <1>3, <1>4, <2>1, <3>1
    <3>5. QED
      BY <2>2, <3>2, <3>3, <3>4
  <2>3. CASE layout[k].count # "after"
    <3>1. Closing(k) = s
      BY <1>1, <2>3, ClosingIs DEF Tame
    <3>2. e = f + 0 + Len(s) /\ \A j \in 1..Len(s) : code[f + 0 + j] = s[j]
      BY <1>3, <1>4, <2>1, <3>1
    <3>3. QED
      BY <2>3, <3>2
  <2>4. QED
    BY <2>2, <2>3
<1> HIDE DEF s, e
<1>6. layout[k].count = "after" => f < e /\ code[f + 1] = Ins("count", "-", N(k))
  BY <1>3, <1>4, <1>5
<1>7. ASSUME NEW i \in f + 1..e
      PROVE  \/ i = f + 1 /\ code[i] = Ins("count", "-", N(k))
             \/ \E j \in 1..Len(s) : i = f + b + j /\ code[i] = s[j]
  <2>1. CASE i <= f + b
    <3>1. i = f + 1 /\ b = 1
      BY <1>3, <1>5, <1>7, <2>1
    <3>2. QED
      BY <1>5, <3>1
  <2>2. CASE ~(i <= f + b)
    <3>1. i - (f + b) \in 1..Len(s) /\ i = f + b + (i - (f + b))
      BY <1>3, <1>4, <1>5, <1>7, <2>2
    <3>2. code[f + b + (i - (f + b))] = s[i - (f + b)]
      BY <1>5, <3>1
    <3>3. QED
      BY <3>1, <3>2
  <2>3. QED
    BY <2>1, <2>2
<1>8. /\ how = "call" => Len(s) = 1 /\ s[1] = Ins("call", "-", 0)
      /\ how = "split" => Len(s) = 2 /\ s[1] = Ins("slot", "T", 0) /\ s[2] = Ins("branch", "T", 0)
      /\ how = "veneer" => Len(s) = 3 /\ s[1] = Ins("slot", "T", 0) /\ s[2] = Ins("mov", "S", "T") /\ s[3] = Ins("branch", "S", 0)
      /\ how = "shared" => Len(s) = 0
  BY <1>4 DEF Calls
<1>9. Ends(off, k)
  <2>1. CASE how = "call"
    <3>0. Len(s) = 1 /\ s[1] = Ins("call", "-", 0)
      BY <1>8, <2>1
    <3>1. e = f + b + 1 /\ code[f + b + 1] = Ins("call", "-", 0)
      BY <1>5, <3>0
    <3>2. QED
      BY <1>3, <2>1, <3>1 DEF Ends, e
  <2>2. CASE how = "split"
    <3>0. Len(s) = 2 /\ s[1] = Ins("slot", "T", 0) /\ s[2] = Ins("branch", "T", 0)
      BY <1>8, <2>2
    <3>1. e = f + b + 2 /\ code[f + b + 1] = Ins("slot", "T", 0) /\ code[f + b + 2] = Ins("branch", "T", 0)
      BY <1>5, <3>0
    <3>2. e - 1 = f + b + 1
      BY <3>1
    <3>3. QED
      BY <1>3, <2>2, <3>1, <3>2 DEF Ends, e
  <2>3. CASE how = "veneer"
    <3>0. Len(s) = 3 /\ s[1] = Ins("slot", "T", 0) /\ s[2] = Ins("mov", "S", "T") /\ s[3] = Ins("branch", "S", 0)
      BY <1>8, <2>3
    <3>1. e = f + b + 3 /\ code[f + b + 1] = Ins("slot", "T", 0) /\ code[f + b + 2] = Ins("mov", "S", "T")
          /\ code[f + b + 3] = Ins("branch", "S", 0)
      BY <1>5, <3>0
    <3>2. e - 1 = f + b + 2 /\ e - 2 = f + b + 1
      BY <3>1
    <3>3. QED
      BY <1>3, <2>3, <3>1, <3>2 DEF Ends, e
  <2>4. CASE how = "shared"
    BY <2>4 DEF Ends
  <2>5. QED
    BY <1>2, <2>1, <2>2, <2>3, <2>4
<1>10. ASSUME NEW i \in f + 1..e PROVE Trailing(k, code[i]) \/ (i = e /\ how # "shared")
  <2>1. CASE code[i] = Ins("count", "-", N(k))
    BY <2>1 DEF Trailing
  <2>2. CASE code[i] # Ins("count", "-", N(k))
    <3>1. PICK j \in 1..Len(s) : i = f + b + j /\ code[i] = s[j]
      BY <1>7, <2>2
    <3>2. how # "shared"
      BY <1>8, <3>1
    <3>3. j = Len(s) => i = e
      BY <1>5, <3>1
    <3>4. ASSUME j # Len(s) PROVE code[i] = Ins("slot", "T", 0) \/ code[i] = Ins("mov", "S", "T")
      <4>1. CASE how = "call"
        <5>1. Len(s) = 1
          BY <1>8, <4>1
        <5>2. QED
          BY <3>4, <5>1
      <4>2. CASE how = "split"
        <5>0. Len(s) = 2
          BY <1>8, <4>2
        <5>1. j = 1
          BY <3>4, <5>0
        <5>2. QED
          BY <1>8, <3>1, <4>2, <5>1
      <4>3. CASE how = "veneer"
        <5>0. Len(s) = 3
          BY <1>8, <4>3
        <5>1. j = 1 \/ j = 2
          BY <3>4, <5>0
        <5>2. QED
          BY <1>8, <3>1, <4>3, <5>1
      <4>4. QED
        BY <1>2, <3>2, <4>1, <4>2, <4>3
    <3>5. QED
      BY <3>2, <3>3, <3>4 DEF Trailing
  <2>3. QED
    BY <2>1, <2>2
<1>11. QED
  BY <1>3, <1>6, <1>9, <1>10 DEF e

\* Whatever a registration holds, up to its call
LEMMA InBlock ==
    ASSUME Fits, NEW off, CodeIs(off), NEW k \in 1..Len(layout), Tab(k) \in Nat, Tame(k),
           NEW i \in Nat, off[k] < i, i <= off[k + 1]
    PROVE  \/ Quiet(k, code[i])
           \/ i = off[k + 1] /\ layout[k].call # "shared"
<1>1. /\ off[k] \in Nat /\ GapTo(off, k) \in Nat /\ FillFrom(off, k) \in Nat /\ FillTo(off, k) \in Nat
      /\ off[k + 1] \in Nat
  BY Borders
<1>2. CASE i <= GapTo(off, k)
  BY <1>2, InGap DEF Quiet, Tame
<1>3. CASE GapTo(off, k) < i /\ i <= FillFrom(off, k)
  BY <1>3, InOpening DEF Quiet
<1>4. CASE FillFrom(off, k) < i /\ i <= FillTo(off, k)
  BY <1>4, InFilling DEF Quiet
<1>5. CASE FillTo(off, k) < i
  <2>1. i \in FillTo(off, k) + 1..off[k + 1]
    BY <1>1, <1>5
  <2>2. Trailing(k, code[i]) \/ (i = off[k + 1] /\ layout[k].call # "shared")
    BY <2>1, InClosing
  <2>3. QED
    BY <2>2 DEF Trailing, Quiet
<1>6. QED
  BY <1>1, <1>2, <1>3, <1>4, <1>5

-----------------------------------------------------------------------------
(* The three walks over the code, step by step.                             *)

\* The walk of CallSites over the instructions a to b
IsScan(h, a, b) ==
    h = [i \in a - 1..b |-> IF i < a THEN [slots |-> <<>>, sites |-> <<>>]
                            ELSE ScanStep(h[i - 1], i)]
Scans(h, a, b) ==
    /\ h[a - 1] = [slots |-> <<>>, sites |-> <<>>]
    /\ \A i \in a..b : h[i] = ScanStep(h[i - 1], i)

\* Such a walk takes one ScanStep for each instruction.
LEMMA ScansIs ==
    ASSUME NEW h, NEW a \in Nat \ {0}, NEW b \in Nat, a - 1 <= b, IsScan(h, a, b)
    PROVE  Scans(h, a, b)
<1> DEFINE g == [i \in a - 1..b |-> IF i < a THEN [slots |-> <<>>, sites |-> <<>>] ELSE ScanStep(h[i - 1], i)]
<1>1. h = g
  BY DEF IsScan
<1>2. a - 1 \in a - 1..b /\ a - 1 < a /\ \A i \in a..b : i \in a - 1..b /\ ~(i < a)
  OBVIOUS
<1>3. g[a - 1] = [slots |-> <<>>, sites |-> <<>>] /\ \A i \in a..b : g[i] = ScanStep(h[i - 1], i)
  BY <1>2
<1> HIDE DEF g
<1>4. QED
  BY <1>1, <1>3, Zenon DEF Scans

LEMMA ScansThere ==
    ASSUME NEW a \in Nat \ {0}, NEW n \in Nat
    PROVE  \E h : IsScan(h, a, a - 1 + n)
<1> DEFINE T == {k \in Nat : ~ \E h : IsScan(h, a, a - 1 + k)}
<1>1. SUFFICES ASSUME T # {} PROVE FALSE
  OBVIOUS
<1>2. PICK x \in T : \A y \in T : x <= y
  <2>1. T \subseteq Nat
    OBVIOUS
  <2> HIDE DEF T
  <2>2. QED
    BY <1>1, <2>1, SmallestNat, Zenon
<1>3. CASE x = 0
  <2> DEFINE f == [i \in a - 1..a - 1 + x |-> [slots |-> <<>>, sites |-> <<>>]]
  <2>1. \A i \in a - 1..a - 1 + x : i < a
    BY <1>3
  <2>2. f = [i \in a - 1..a - 1 + x |-> IF i < a THEN [slots |-> <<>>, sites |-> <<>>] ELSE ScanStep(f[i - 1], i)]
    BY <2>1
  <2> HIDE DEF f
  <2>3. IsScan(f, a, a - 1 + x)
    BY <2>2, Zenon DEF IsScan
  <2>4. QED
    BY <2>3
<1>4. CASE x # 0
  <2>1. PICK y \in Nat : x = y + 1
    <3>1. x - 1 \in Nat /\ x = (x - 1) + 1
      BY <1>4
    <3>2. QED
      BY <3>1
  <2>2. y \notin T
    BY <1>2, <2>1
  <2>3. PICK g : IsScan(g, a, a - 1 + y)
    BY <2>2
  <2>4. a - 1 + y \in Nat /\ a - 1 <= a - 1 + y /\ a - 1 + x = (a - 1 + y) + 1
    BY <2>1
  <2>5. PICK b \in Nat : b = a - 1 + y
    BY <2>4
  <2>6. Scans(g, a, b)
    BY <2>3, <2>4, <2>5, ScansIs
  <2> DEFINE f == [i \in a - 1..b + 1 |-> IF i = b + 1 THEN ScanStep(g[b], b + 1) ELSE g[i]]
  <2>7. ASSUME NEW i \in a - 1..b + 1
        PROVE  f[i] = IF i < a THEN [slots |-> <<>>, sites |-> <<>>] ELSE ScanStep(f[i - 1], i)
    <3>1. CASE i < a
      <4>1. i = a - 1 /\ i # b + 1
        BY <2>4, <2>5, <3>1
      <4>2. f[i] = g[i]
        BY <4>1
      <4>3. QED
        BY <2>6, <3>1, <4>1, <4>2 DEF Scans
    <3>2. CASE ~(i < a)
      <4>1. i - 1 \in a - 1..b + 1 /\ i - 1 # b + 1
        BY <3>2
      <4>2. f[i - 1] = g[i - 1]
        BY <4>1
      <4>3. CASE i = b + 1
        <5>1. f[i] = ScanStep(g[b], b + 1) /\ i - 1 = b
          BY <4>3
        <5>2. QED
          BY <3>2, <4>2, <4>3, <5>1
      <4>4. CASE i # b + 1
        <5>1. i \in a..b /\ f[i] = g[i]
          BY <3>2, <4>4
        <5>2. g[i] = ScanStep(g[i - 1], i)
          BY <2>6, <5>1 DEF Scans
        <5>3. QED
          BY <3>2, <4>2, <5>1, <5>2
      <4>5. QED
        BY <4>3, <4>4
    <3>3. QED
      BY <3>1, <3>2
  <2>8. f = [i \in a - 1..b + 1 |-> f[i]]
    OBVIOUS
  <2> HIDE DEF f
  <2>9. [i \in a - 1..b + 1 |-> f[i]] =
            [i \in a - 1..b + 1 |-> IF i < a THEN [slots |-> <<>>, sites |-> <<>>] ELSE ScanStep(f[i - 1], i)]
    BY <2>7
  <2>10. f = [i \in a - 1..b + 1 |-> IF i < a THEN [slots |-> <<>>, sites |-> <<>>] ELSE ScanStep(f[i - 1], i)]
    BY <2>8, <2>9, Zenon
  <2>11. IsScan(f, a, b + 1)
    BY <2>10, Zenon DEF IsScan
  <2>12. QED
    BY <2>4, <2>5, <2>11
<1>5. QED
  BY <1>3, <1>4

\* CallSites is the end of such a walk.
LEMMA CallSitesWalks ==
    ASSUME NEW a, a = 1, NEW b \in Nat, b = Len(code),
           \A i \in a..b : code[i].op # "data"
    PROVE  \E h : Scans(h, a, b) /\ CallSites = h[b].sites
<1> DEFINE bad == {i \in a..b : code[i].op = "data"}
           h == CHOOSE h : IsScan(h, a, b)
<1>1. bad = {}
  OBVIOUS
<1>2. PICK n \in Nat : b = a - 1 + n
  <2>1. b - (a - 1) \in Nat /\ b = a - 1 + (b - (a - 1))
    OBVIOUS
  <2>2. QED
    BY <2>1
<1>3. IsScan(h, a, b)
  BY <1>2, ScansThere
<1>4. CallSites = h[b].sites
  BY <1>1 DEF CallSites, Walk, IsScan
<1> HIDE DEF h
<1>5. Scans(h, a, b)
  BY <1>3, ScansIs
<1>6. QED
  BY <1>4, <1>5

\* The walk of Looked over the instructions a to b
IsLook(h, a, b) ==
    h = [i \in a - 1..b |-> IF i < a THEN [last |-> <<>>, near |-> <<>>, arg3 |-> <<>>, fns |-> <<>>, n |-> 0]
                            ELSE HarvestStep(h[i - 1], i)]
Looks(h, a, b) ==
    /\ h[a - 1] = [last |-> <<>>, near |-> <<>>, arg3 |-> <<>>, fns |-> <<>>, n |-> 0]
    /\ \A i \in a..b : h[i] = HarvestStep(h[i - 1], i)

\* Such a walk takes one HarvestStep for each instruction.
LEMMA LooksIs ==
    ASSUME NEW h, NEW a \in Nat \ {0}, NEW b \in Nat, a - 1 <= b, IsLook(h, a, b)
    PROVE  Looks(h, a, b)
<1> DEFINE g == [i \in a - 1..b |-> IF i < a THEN [last |-> <<>>, near |-> <<>>, arg3 |-> <<>>, fns |-> <<>>, n |-> 0] ELSE HarvestStep(h[i - 1], i)]
<1>1. h = g
  BY DEF IsLook
<1>2. a - 1 \in a - 1..b /\ a - 1 < a /\ \A i \in a..b : i \in a - 1..b /\ ~(i < a)
  OBVIOUS
<1>3. g[a - 1] = [last |-> <<>>, near |-> <<>>, arg3 |-> <<>>, fns |-> <<>>, n |-> 0] /\ \A i \in a..b : g[i] = HarvestStep(h[i - 1], i)
  BY <1>2
<1> HIDE DEF g
<1>4. QED
  BY <1>1, <1>3, Zenon DEF Looks

LEMMA LooksThere ==
    ASSUME NEW a \in Nat \ {0}, NEW n \in Nat
    PROVE  \E h : IsLook(h, a, a - 1 + n)
<1> DEFINE T == {k \in Nat : ~ \E h : IsLook(h, a, a - 1 + k)}
<1>1. SUFFICES ASSUME T # {} PROVE FALSE
  OBVIOUS
<1>2. PICK x \in T : \A y \in T : x <= y
  <2>1. T \subseteq Nat
    OBVIOUS
  <2> HIDE DEF T
  <2>2. QED
    BY <1>1, <2>1, SmallestNat, Zenon
<1>3. CASE x = 0
  <2> DEFINE f == [i \in a - 1..a - 1 + x |-> [last |-> <<>>, near |-> <<>>, arg3 |-> <<>>, fns |-> <<>>, n |-> 0]]
  <2>1. \A i \in a - 1..a - 1 + x : i < a
    BY <1>3
  <2>2. f = [i \in a - 1..a - 1 + x |-> IF i < a THEN [last |-> <<>>, near |-> <<>>, arg3 |-> <<>>, fns |-> <<>>, n |-> 0] ELSE HarvestStep(f[i - 1], i)]
    BY <2>1
  <2> HIDE DEF f
  <2>3. IsLook(f, a, a - 1 + x)
    BY <2>2, Zenon DEF IsLook
  <2>4. QED
    BY <2>3
<1>4. CASE x # 0
  <2>1. PICK y \in Nat : x = y + 1
    <3>1. x - 1 \in Nat /\ x = (x - 1) + 1
      BY <1>4
    <3>2. QED
      BY <3>1
  <2>2. y \notin T
    BY <1>2, <2>1
  <2>3. PICK g : IsLook(g, a, a - 1 + y)
    BY <2>2
  <2>4. a - 1 + y \in Nat /\ a - 1 <= a - 1 + y /\ a - 1 + x = (a - 1 + y) + 1
    BY <2>1
  <2>5. PICK b \in Nat : b = a - 1 + y
    BY <2>4
  <2>6. Looks(g, a, b)
    BY <2>3, <2>4, <2>5, LooksIs
  <2> DEFINE f == [i \in a - 1..b + 1 |-> IF i = b + 1 THEN HarvestStep(g[b], b + 1) ELSE g[i]]
  <2>7. ASSUME NEW i \in a - 1..b + 1
        PROVE  f[i] = IF i < a THEN [last |-> <<>>, near |-> <<>>, arg3 |-> <<>>, fns |-> <<>>, n |-> 0] ELSE HarvestStep(f[i - 1], i)
    <3>1. CASE i < a
      <4>1. i = a - 1 /\ i # b + 1
        BY <2>4, <2>5, <3>1
      <4>2. f[i] = g[i]
        BY <4>1
      <4>3. QED
        BY <2>6, <3>1, <4>1, <4>2 DEF Looks
    <3>2. CASE ~(i < a)
      <4>1. i - 1 \in a - 1..b + 1 /\ i - 1 # b + 1
        BY <3>2
      <4>2. f[i - 1] = g[i - 1]
        BY <4>1
      <4>3. CASE i = b + 1
        <5>1. f[i] = HarvestStep(g[b], b + 1) /\ i - 1 = b
          BY <4>3
        <5>2. QED
          BY <3>2, <4>2, <4>3, <5>1
      <4>4. CASE i # b + 1
        <5>1. i \in a..b /\ f[i] = g[i]
          BY <3>2, <4>4
        <5>2. g[i] = HarvestStep(g[i - 1], i)
          BY <2>6, <5>1 DEF Looks
        <5>3. QED
          BY <3>2, <4>2, <5>1, <5>2
      <4>5. QED
        BY <4>3, <4>4
    <3>3. QED
      BY <3>1, <3>2
  <2>8. f = [i \in a - 1..b + 1 |-> f[i]]
    OBVIOUS
  <2> HIDE DEF f
  <2>9. [i \in a - 1..b + 1 |-> f[i]] =
            [i \in a - 1..b + 1 |-> IF i < a THEN [last |-> <<>>, near |-> <<>>, arg3 |-> <<>>, fns |-> <<>>, n |-> 0] ELSE HarvestStep(f[i - 1], i)]
    BY <2>7
  <2>10. f = [i \in a - 1..b + 1 |-> IF i < a THEN [last |-> <<>>, near |-> <<>>, arg3 |-> <<>>, fns |-> <<>>, n |-> 0] ELSE HarvestStep(f[i - 1], i)]
    BY <2>8, <2>9, Zenon
  <2>11. IsLook(f, a, b + 1)
    BY <2>10, Zenon DEF IsLook
  <2>12. QED
    BY <2>4, <2>5, <2>11
<1>5. QED
  BY <1>3, <1>4

\* Looked is the end of such a walk.
LEMMA LookedWalks ==
    ASSUME NEW e \in Nat \ {0}, NEW a \in Nat \ {0}, a = Back(e, Window), NEW b \in Nat, b = e - 1, a - 1 <= b,
           \A i \in a..b : code[i].op # "data"
    PROVE  \E h : Looks(h, a, b) /\ Looked(e) = h[b]
<1> DEFINE bad == {i \in a..b : code[i].op = "data"}
           h == CHOOSE h : IsLook(h, a, b)
<1>1. bad = {}
  OBVIOUS
<1>2. PICK n \in Nat : b = a - 1 + n
  <2>1. b - (a - 1) \in Nat /\ b = a - 1 + (b - (a - 1))
    OBVIOUS
  <2>2. QED
    BY <2>1
<1>3. IsLook(h, a, b)
  BY <1>2, LooksThere
<1>4. Looked(e) = h[b]
  BY <1>1 DEF Looked, Walk, IsLook
<1> HIDE DEF h
<1>5. Looks(h, a, b)
  BY <1>3, LooksIs
<1>6. QED
  BY <1>4, <1>5

\* The walk of Branches over the instructions a to b
IsBranching(h, a, b) ==
    h = [i \in a - 1..b |-> IF i < a THEN [last |-> <<>>, fns |-> <<>>, done |-> <<>>]
                            ELSE BranchStep(h[i - 1], i)]
Branching(h, a, b) ==
    /\ h[a - 1] = [last |-> <<>>, fns |-> <<>>, done |-> <<>>]
    /\ \A i \in a..b : h[i] = BranchStep(h[i - 1], i)

\* Such a walk takes one BranchStep for each instruction.
LEMMA BranchingIs ==
    ASSUME NEW h, NEW a \in Nat \ {0}, NEW b \in Nat, a - 1 <= b, IsBranching(h, a, b)
    PROVE  Branching(h, a, b)
<1> DEFINE g == [i \in a - 1..b |-> IF i < a THEN [last |-> <<>>, fns |-> <<>>, done |-> <<>>] ELSE BranchStep(h[i - 1], i)]
<1>1. h = g
  BY DEF IsBranching
<1>2. a - 1 \in a - 1..b /\ a - 1 < a /\ \A i \in a..b : i \in a - 1..b /\ ~(i < a)
  OBVIOUS
<1>3. g[a - 1] = [last |-> <<>>, fns |-> <<>>, done |-> <<>>] /\ \A i \in a..b : g[i] = BranchStep(h[i - 1], i)
  BY <1>2
<1> HIDE DEF g
<1>4. QED
  BY <1>1, <1>3, Zenon DEF Branching

LEMMA BranchingThere ==
    ASSUME NEW a \in Nat \ {0}, NEW n \in Nat
    PROVE  \E h : IsBranching(h, a, a - 1 + n)
<1> DEFINE T == {k \in Nat : ~ \E h : IsBranching(h, a, a - 1 + k)}
<1>1. SUFFICES ASSUME T # {} PROVE FALSE
  OBVIOUS
<1>2. PICK x \in T : \A y \in T : x <= y
  <2>1. T \subseteq Nat
    OBVIOUS
  <2> HIDE DEF T
  <2>2. QED
    BY <1>1, <2>1, SmallestNat, Zenon
<1>3. CASE x = 0
  <2> DEFINE f == [i \in a - 1..a - 1 + x |-> [last |-> <<>>, fns |-> <<>>, done |-> <<>>]]
  <2>1. \A i \in a - 1..a - 1 + x : i < a
    BY <1>3
  <2>2. f = [i \in a - 1..a - 1 + x |-> IF i < a THEN [last |-> <<>>, fns |-> <<>>, done |-> <<>>] ELSE BranchStep(f[i - 1], i)]
    BY <2>1
  <2> HIDE DEF f
  <2>3. IsBranching(f, a, a - 1 + x)
    BY <2>2, Zenon DEF IsBranching
  <2>4. QED
    BY <2>3
<1>4. CASE x # 0
  <2>1. PICK y \in Nat : x = y + 1
    <3>1. x - 1 \in Nat /\ x = (x - 1) + 1
      BY <1>4
    <3>2. QED
      BY <3>1
  <2>2. y \notin T
    BY <1>2, <2>1
  <2>3. PICK g : IsBranching(g, a, a - 1 + y)
    BY <2>2
  <2>4. a - 1 + y \in Nat /\ a - 1 <= a - 1 + y /\ a - 1 + x = (a - 1 + y) + 1
    BY <2>1
  <2>5. PICK b \in Nat : b = a - 1 + y
    BY <2>4
  <2>6. Branching(g, a, b)
    BY <2>3, <2>4, <2>5, BranchingIs
  <2> DEFINE f == [i \in a - 1..b + 1 |-> IF i = b + 1 THEN BranchStep(g[b], b + 1) ELSE g[i]]
  <2>7. ASSUME NEW i \in a - 1..b + 1
        PROVE  f[i] = IF i < a THEN [last |-> <<>>, fns |-> <<>>, done |-> <<>>] ELSE BranchStep(f[i - 1], i)
    <3>1. CASE i < a
      <4>1. i = a - 1 /\ i # b + 1
        BY <2>4, <2>5, <3>1
      <4>2. f[i] = g[i]
        BY <4>1
      <4>3. QED
        BY <2>6, <3>1, <4>1, <4>2 DEF Branching
    <3>2. CASE ~(i < a)
      <4>1. i - 1 \in a - 1..b + 1 /\ i - 1 # b + 1
        BY <3>2
      <4>2. f[i - 1] = g[i - 1]
        BY <4>1
      <4>3. CASE i = b + 1
        <5>1. f[i] = BranchStep(g[b], b + 1) /\ i - 1 = b
          BY <4>3
        <5>2. QED
          BY <3>2, <4>2, <4>3, <5>1
      <4>4. CASE i # b + 1
        <5>1. i \in a..b /\ f[i] = g[i]
          BY <3>2, <4>4
        <5>2. g[i] = BranchStep(g[i - 1], i)
          BY <2>6, <5>1 DEF Branching
        <5>3. QED
          BY <3>2, <4>2, <5>1, <5>2
      <4>5. QED
        BY <4>3, <4>4
    <3>3. QED
      BY <3>1, <3>2
  <2>8. f = [i \in a - 1..b + 1 |-> f[i]]
    OBVIOUS
  <2> HIDE DEF f
  <2>9. [i \in a - 1..b + 1 |-> f[i]] =
            [i \in a - 1..b + 1 |-> IF i < a THEN [last |-> <<>>, fns |-> <<>>, done |-> <<>>] ELSE BranchStep(f[i - 1], i)]
    BY <2>7
  <2>10. f = [i \in a - 1..b + 1 |-> IF i < a THEN [last |-> <<>>, fns |-> <<>>, done |-> <<>>] ELSE BranchStep(f[i - 1], i)]
    BY <2>8, <2>9, Zenon
  <2>11. IsBranching(f, a, b + 1)
    BY <2>10, Zenon DEF IsBranching
  <2>12. QED
    BY <2>4, <2>5, <2>11
<1>5. QED
  BY <1>3, <1>4

\* Branches is the end of such a walk.
LEMMA BranchesWalks ==
    ASSUME NEW e \in Nat \ {0}, NEW a \in Nat \ {0}, a = Back(e, DispatchWindow), NEW b \in Nat, b = e - 1, a - 1 <= b,
           \A i \in a..b : code[i].op # "data"
    PROVE  \E h : Branching(h, a, b) /\ Branches(e) = h[b].done
<1> DEFINE bad == {i \in a..b : code[i].op = "data"}
           h == CHOOSE h : IsBranching(h, a, b)
<1>1. bad = {}
  OBVIOUS
<1>2. PICK n \in Nat : b = a - 1 + n
  <2>1. b - (a - 1) \in Nat /\ b = a - 1 + (b - (a - 1))
    OBVIOUS
  <2>2. QED
    BY <2>1
<1>3. IsBranching(h, a, b)
  BY <1>2, BranchingThere
<1>4. Branches(e) = h[b].done
  BY <1>1 DEF Branches, Walk, IsBranching
<1> HIDE DEF h
<1>5. Branching(h, a, b)
  BY <1>3, BranchingIs
<1>6. QED
  BY <1>4, <1>5

-----------------------------------------------------------------------------
(* The first pass finds the call of each registration.                      *)

ScanForm(s) == s = [slots |-> s.slots, sites |-> s.sites]
\* A branch through a register that holds the slot
Taken(s, i) ==
    \/ code[i].op = "call"
    \/ /\ code[i].op = "branch" /\ code[i].reg \in DOMAIN s.slots
       /\ i - s.slots[code[i].reg] - 1 <= Reach

\* ScanStep, one kind of instruction at a time.
LEMMA ScanStepIs ==
    ASSUME NEW s, ScanForm(s), NEW i
    PROVE  /\ ScanForm(ScanStep(s, i))
           /\ ScanStep(s, i).sites = IF Taken(s, i) THEN Append(s.sites, i) ELSE s.sites
           /\ code[i].op = "slot" => ScanStep(s, i).slots = Put(s.slots, code[i].reg, i)
           /\ code[i].op = "mov" /\ code[i].arg \in DOMAIN s.slots =>
                ScanStep(s, i).slots = Put(s.slots, code[i].reg, s.slots[code[i].arg])
<1> DEFINE x == code[i]
           sl == s.slots
           st == s.sites
<1>1. s = [slots |-> sl, sites |-> st]
  BY DEF ScanForm
<1> HIDE DEF sl, st
<1>2. CASE x.op = "call"
  <2>1. ScanStep(s, i) = [slots |-> sl, sites |-> Append(st, i)]
    BY <1>1, <1>2 DEF ScanStep
  <2>2. QED
    BY <1>1, <1>2, <2>1 DEF ScanForm, Taken
<1>3. CASE x.op = "slot"
  <2>1. ScanStep(s, i) = [slots |-> Put(sl, x.reg, i), sites |-> st]
    BY <1>1, <1>3 DEF ScanStep
  <2>2. QED
    BY <1>1, <1>3, <2>1 DEF ScanForm, Taken
<1>4. CASE x.op = "mov" /\ x.arg \in DOMAIN sl
  <2>1. ScanStep(s, i) = [slots |-> Put(sl, x.reg, sl[x.arg]), sites |-> st]
    BY <1>1, <1>4 DEF ScanStep
  <2>2. QED
    BY <1>1, <1>4, <2>1 DEF ScanForm, Taken
<1>5. CASE x.op = "mov" /\ x.arg \notin DOMAIN sl
  <2>1. ScanStep(s, i) = [slots |-> Without(sl, x.reg), sites |-> st]
    BY <1>1, <1>5 DEF ScanStep
  <2>2. QED
    BY <1>1, <1>5, <2>1 DEF ScanForm, Taken
<1>6. CASE x.op = "branch" /\ Taken(s, i)
  <2>1. ScanStep(s, i) = [slots |-> sl, sites |-> Append(st, i)]
    BY <1>1, <1>6 DEF ScanStep, Taken
  <2>2. QED
    BY <1>1, <1>6, <2>1 DEF ScanForm
<1>7. CASE x.op \notin {"call", "slot", "mov"} /\ ~Taken(s, i)
  <2>1. ScanStep(s, i) = s
    BY <1>1, <1>7 DEF ScanStep, Taken
  <2>2. QED
    BY <1>1, <1>7, <2>1 DEF ScanForm
<1>8. QED
  BY <1>2, <1>3, <1>4, <1>5, <1>6, <1>7, <1>1 DEF Taken

LEMMA ScanFormed ==
    ASSUME NEW h, NEW b \in Nat, Scans(h, 1, b)
    PROVE  \A i \in 0..b : ScanForm(h[i])
<1> DEFINE T == {i \in 0..b : ~ScanForm(h[i])}
<1>1. SUFFICES ASSUME T # {} PROVE FALSE
  OBVIOUS
<1>2. PICK x \in T : \A y \in T : x <= y
  <2>1. T \subseteq Nat
    OBVIOUS
  <2> HIDE DEF T
  <2>2. QED
    BY <1>1, <2>1, SmallestNat, Zenon
<1>3. x # 0
  <2>1. h[0] = [slots |-> <<>>, sites |-> <<>>]
    BY DEF Scans
  <2>2. ScanForm(h[0])
    BY <2>1 DEF ScanForm
  <2>3. QED
    BY <2>2
<1>4. PICK y \in 0..b : x = y + 1 /\ y \notin T
  <2>1. x - 1 \in 0..b /\ x = (x - 1) + 1 /\ x - 1 \notin T
    BY <1>2, <1>3
  <2>2. QED
    BY <2>1
<1>5. x \in 1..b /\ x - 1 = y
  BY <1>4
<1>6. h[x] = ScanStep(h[y], x)
  BY <1>5 DEF Scans
<1>7. QED
  BY <1>4, <1>6, ScanStepIs

\* An instruction that is no call adds no site.
LEMMA ScanQuiet ==
    ASSUME NEW h, NEW b \in Nat, Scans(h, 1, b), NEW m \in 0..b, NEW n \in m..b,
           \A i \in m + 1..n : code[i].op \notin {"call", "branch"}
    PROVE  h[n].sites = h[m].sites
<1> DEFINE T == {i \in m..n : h[i].sites # h[m].sites}
<1>1. SUFFICES ASSUME T # {} PROVE FALSE
  OBVIOUS
<1>2. PICK x \in T : \A y \in T : x <= y
  <2>1. T \subseteq Nat
    OBVIOUS
  <2> HIDE DEF T
  <2>2. QED
    BY <1>1, <2>1, SmallestNat, Zenon
<1>3. x # m /\ x \in m..n /\ h[x].sites # h[m].sites
  OBVIOUS
<1>4. PICK y \in m..n : x = y + 1 /\ y \notin T
  <2>1. x - 1 \in m..n /\ x = (x - 1) + 1 /\ x - 1 \notin T
    BY <1>2, <1>3
  <2>2. QED
    BY <2>1
<1>5. x \in 1..b /\ x - 1 = y /\ x \in m + 1..n /\ y \in 0..b
  BY <1>3, <1>4
<1>6. h[x] = ScanStep(h[y], x) /\ ScanForm(h[y])
  BY <1>5, ScanFormed DEF Scans
<1>7. ~Taken(h[y], x)
  BY <1>5 DEF Taken
<1>8. h[x].sites = h[y].sites
  BY <1>6, <1>7, ScanStepIs
<1>9. QED
  BY <1>3, <1>4, <1>8

LEMMA PutGives == ASSUME NEW f, NEW x, NEW v PROVE x \in DOMAIN Put(f, x, v) /\ Put(f, x, v)[x] = v
BY DEF Put

LEMMA OpsOf ==
    /\ Ins("call", "-", 0).op = "call"
    /\ Ins("slot", "T", 0).op = "slot" /\ Ins("slot", "T", 0).reg = "T"
    /\ Ins("mov", "S", "T").op = "mov" /\ Ins("mov", "S", "T").reg = "S" /\ Ins("mov", "S", "T").arg = "T"
    /\ Ins("mov", "M", "T").op = "mov" /\ Ins("mov", "M", "T").reg = "M" /\ Ins("mov", "M", "T").arg = "T"
    /\ Ins("branch", "T", 0).op = "branch" /\ Ins("branch", "T", 0).reg = "T"
    /\ Ins("branch", "S", 0).op = "branch" /\ Ins("branch", "S", 0).reg = "S"
    /\ Ins("store", "T", 0).op = "store" /\ Ins("store", "T", 0).reg = "T"
    /\ \A n : Ins("count", "-", n).op = "count" /\ Ins("count", "-", n).arg = n
    /\ \A r, a : Ins("lea", r, a).op = "lea" /\ Ins("lea", r, a).reg = r /\ Ins("lea", r, a).arg = a
BY DEF Ins

LEMMA QuietOps ==
    ASSUME NEW k, NEW x, Quiet(k, x)
    PROVE  x.op \in {"nop", "lea", "store", "count", "mov", "slot"}
BY OpsOf DEF Quiet

\* A registration adds one site, its call.
LEMMA ScanBlock ==
    ASSUME Fits, NEW off, CodeIs(off), NEW k \in 1..Len(layout), Tab(k) \in Nat, Tame(k),
           NEW h, Scans(h, 1, Len(code))
    PROVE  h[off[k + 1]].sites =
                IF layout[k].call = "shared" THEN h[off[k]].sites ELSE Append(h[off[k]].sites, off[k + 1])
<1>1. /\ off[k] \in Nat /\ FillTo(off, k) \in Nat /\ off[k + 1] \in Nat /\ Len(code) \in Nat
      /\ off[k] <= FillTo(off, k) /\ FillTo(off, k) <= off[k + 1] /\ off[k + 1] <= Len(code)
  BY Borders
<1>2. PICK e \in Nat : e = off[k + 1]
  BY <1>1
<1>3. PICK o \in Nat : o = off[k]
  BY <1>1
<1>4. PICK f \in Nat : f = FillTo(off, k) /\ o <= f /\ f <= e
  BY <1>1, <1>2, <1>3
<1>5. \A i \in 0..Len(code) : ScanForm(h[i])
  BY <1>1, ScanFormed
<1>6. \A i \in 1..Len(code) : h[i] = ScanStep(h[i - 1], i)
  BY DEF Scans
<1>7. CASE layout[k].call = "shared"
  <2>1. \A i \in o + 1..e : code[i].op \notin {"call", "branch"}
    <3>1. SUFFICES ASSUME NEW i \in o + 1..e PROVE code[i].op \notin {"call", "branch"}
      OBVIOUS
    <3>2. Quiet(k, code[i])
      BY <1>2, <1>3, <1>7, InBlock
    <3>3. QED
      BY <3>2, QuietOps
  <2>2. o \in 0..Len(code) /\ e \in o..Len(code)
    BY <1>1, <1>2, <1>3, <1>4
  <2>3. h[e].sites = h[o].sites
    BY <1>1, <2>1, <2>2, ScanQuiet
  <2>4. QED
    BY <1>2, <1>3, <1>7, <2>3
<1>8. CASE layout[k].call # "shared"
  <2>1. Ends(off, k) /\ layout[k].call \in {"call", "split", "veneer"}
    BY <1>8, InClosing DEF Tame
  <2>2. f < e /\ e \in 1..Len(code)
    BY <1>1, <1>2, <1>4, <2>1 DEF Ends
  <2>3. PICK d \in Nat : e = d + 1
    <3>1. e - 1 \in Nat /\ e = (e - 1) + 1
      BY <2>2
    <3>2. QED
      BY <3>1
  <2>4. h[d].sites = h[o].sites
    <3>1. \A i \in o + 1..d : code[i].op \notin {"call", "branch"}
      <4>1. SUFFICES ASSUME NEW i \in o + 1..d PROVE code[i].op \notin {"call", "branch"}
        OBVIOUS
      <4>2. i \in Nat /\ off[k] < i /\ i <= off[k + 1] /\ i # off[k + 1]
        BY <1>2, <1>3, <2>3
      <4>3. Quiet(k, code[i])
        BY <4>2, InBlock
      <4>4. QED
        BY <4>3, QuietOps
    <3>2. o \in 0..Len(code) /\ d \in o..Len(code)
      BY <1>1, <1>2, <1>3, <1>4, <2>2, <2>3
    <3>3. QED
      BY <1>1, <3>1, <3>2, ScanQuiet
  <2>5. h[e] = ScanStep(h[d], e) /\ d \in 0..Len(code) /\ ScanForm(h[d])
    <3>1. e - 1 = d /\ d \in 0..Len(code)
      BY <1>1, <2>2, <2>3
    <3>2. QED
      BY <1>5, <1>6, <2>2, <3>1
  <2>6. Taken(h[d], e)
    <3>1. CASE layout[k].call = "call"
      <4>1. code[e] = Ins("call", "-", 0)
        BY <1>2, <2>1, <3>1 DEF Ends
      <4>2. QED
        BY <4>1, OpsOf DEF Taken
    <3>2. CASE layout[k].call = "split"
      <4>1. code[e - 1] = Ins("slot", "T", 0) /\ code[e] = Ins("branch", "T", 0) /\ f < e - 1
        BY <1>2, <1>4, <2>1, <3>2 DEF Ends
      <4>2. code[d] = Ins("slot", "T", 0) /\ d \in 1..Len(code) /\ d - 1 \in 0..Len(code)
        BY <1>1, <2>2, <2>3, <4>1
      <4>3. h[d] = ScanStep(h[d - 1], d) /\ ScanForm(h[d - 1])
        BY <1>5, <1>6, <4>2
      <4>4. h[d].slots = Put(h[d - 1].slots, "T", d)
        BY <4>2, <4>3, OpsOf, ScanStepIs
      <4>5. "T" \in DOMAIN h[d].slots /\ h[d].slots["T"] = d
        BY <4>4, PutGives
      <4>6. e - d - 1 <= Reach
        BY <2>3, TablesAssumption
      <4>7. QED
        BY <4>1, <4>5, <4>6, OpsOf DEF Taken
    <3>3. CASE layout[k].call = "veneer"
      <4>1. /\ code[e - 2] = Ins("slot", "T", 0) /\ code[e - 1] = Ins("mov", "S", "T")
            /\ code[e] = Ins("branch", "S", 0) /\ f < e - 2
        BY <1>2, <1>4, <2>1, <3>3 DEF Ends
      <4>2. PICK c \in Nat : d = c + 1 /\ c # 0
        <5>1. d - 1 \in Nat /\ d = (d - 1) + 1 /\ d - 1 # 0
          BY <2>3, <4>1
        <5>2. QED
          BY <5>1
      <4>3. /\ code[c] = Ins("slot", "T", 0) /\ code[d] = Ins("mov", "S", "T")
            /\ c \in 1..Len(code) /\ c - 1 \in 0..Len(code) /\ c \in 0..Len(code)
            /\ d \in 1..Len(code) /\ d - 1 = c
        <5>1. e - 2 = c /\ e - 1 = d
          BY <2>3, <4>2
        <5>2. c \in 1..Len(code) /\ c - 1 \in 0..Len(code) /\ c \in 0..Len(code)
              /\ d \in 1..Len(code) /\ d - 1 = c
          BY <1>1, <2>2, <2>3, <4>2
        <5>3. QED
          BY <4>1, <5>1, <5>2
      <4>4. h[c] = ScanStep(h[c - 1], c) /\ ScanForm(h[c - 1])
            /\ h[d] = ScanStep(h[c], d) /\ ScanForm(h[c])
        BY <1>5, <1>6, <4>3
      <4>5. h[c].slots = Put(h[c - 1].slots, "T", c)
        BY <4>3, <4>4, OpsOf, ScanStepIs
      <4>6. "T" \in DOMAIN h[c].slots /\ h[c].slots["T"] = c
        BY <4>5, PutGives
      <4>7. h[d].slots = Put(h[c].slots, "S", h[c].slots["T"])
        BY <4>3, <4>4, <4>6, OpsOf, ScanStepIs
      <4>8. "S" \in DOMAIN h[d].slots /\ h[d].slots["S"] = c
        BY <4>6, <4>7, PutGives
      <4>9. e - c - 1 <= Reach
        BY <2>3, <4>2, TablesAssumption
      <4>10. QED
        BY <4>1, <4>8, <4>9, OpsOf DEF Taken
    <3>4. QED
      BY <2>1, <3>1, <3>2, <3>3
  <2>7. h[e].sites = Append(h[d].sites, e)
    BY <2>5, <2>6, ScanStepIs
  <2>8. QED
    BY <1>2, <1>3, <1>8, <2>4, <2>7
<1>9. QED
  BY <1>7, <1>8

LEMMA EndOps ==
    ASSUME NEW off, NEW k, Ends(off, k), layout[k].call \in {"call", "split", "veneer"}
    PROVE  code[off[k + 1]].op \in {"call", "branch"}
BY OpsOf DEF Ends

LEMMA NoData ==
    ASSUME Fits, NEW off, CodeIs(off), \A k \in 1..Len(layout) : Tab(k) \in Nat /\ Tame(k)
    PROVE  \A i \in 1..Len(code) : code[i].op # "data"
<1>1. SUFFICES ASSUME NEW i \in 1..Len(code) PROVE code[i].op # "data"
  OBVIOUS
<1>2. PICK k \in 1..Len(layout) : off[k] < i /\ i <= off[k + 1]
  BY DEF CodeIs
<1>3. Tab(k) \in Nat /\ Tame(k) /\ i \in Nat
  BY Borders
<1>4. CASE Quiet(k, code[i])
  BY <1>4, QuietOps
<1>5. CASE ~Quiet(k, code[i])
  <2>1. i = off[k + 1] /\ layout[k].call # "shared"
    BY <1>2, <1>3, <1>5, InBlock
  <2>2. Ends(off, k) /\ layout[k].call \in {"call", "split", "veneer"}
    BY <1>3, <2>1, InClosing DEF Tame
  <2>3. code[i].op \in {"call", "branch"}
    BY <2>1, <2>2, EndOps
  <2>4. QED
    BY <2>3
<1>6. QED
  BY <1>4, <1>5

LEMMA AppendTo ==
    ASSUME NEW m \in Nat, NEW f
    PROVE  Append([q \in 1..m |-> f[q + 1]], f[(m + 1) + 1]) = [q \in 1..m + 1 |-> f[q + 1]]
<1> DEFINE s == [q \in 1..m |-> f[q + 1]]
           t == [q \in 1..m + 1 |-> f[q + 1]]
<1>1. Len(s) = m
  OBVIOUS
<1>2. QED
  BY <1>1

\* One call in each registration
LEMMA SitesAre ==
    ASSUME Fits, NEW off, CodeIs(off),
           \A k \in 1..Len(layout) : Tab(k) \in Nat /\ Tame(k) /\ layout[k].call # "shared"
    PROVE  CallSites = [k \in 1..Len(layout) |-> off[k + 1]]
<1>1. Len(layout) \in Nat /\ Len(code) \in Nat /\ off[1] = 0 /\ off[Len(layout) + 1] = Len(code)
  BY DEF Fits, CodeIs
<1>2. PICK h : Scans(h, 1, Len(code)) /\ CallSites = h[Len(code)].sites
  BY <1>1, NoData, CallSitesWalks
<1> DEFINE S(m) == h[off[m + 1]].sites = [q \in 1..m |-> off[q + 1]]
           T == {m \in 0..Len(layout) : ~S(m)}
<1>3. T = {}
  <2>1. SUFFICES ASSUME T # {} PROVE FALSE
    OBVIOUS
  <2>2. PICK x \in T : \A y \in T : x <= y
    <3>1. T \subseteq Nat
      OBVIOUS
    <3> HIDE DEF T
    <3>2. QED
      BY <2>1, <3>1, SmallestNat, Zenon
  <2>3. x \in 0..Len(layout) /\ ~S(x)
    OBVIOUS
  <2>4. S(0)
    <3>1. h[0].sites = <<>>
      BY <1>2 DEF Scans
    <3>2. [q \in 1..0 |-> off[q + 1]] = <<>>
      OBVIOUS
    <3>3. QED
      BY <1>1, <3>1, <3>2
  <2>5. PICK y \in 0..Len(layout) : x = y + 1
    <3>1. x # 0
      BY <2>3, <2>4
    <3>2. x - 1 \in 0..Len(layout) /\ x = (x - 1) + 1
      BY <1>1, <2>3, <3>1
    <3>3. QED
      BY <3>2
  <2>6. y \notin T
    BY <1>1, <2>2, <2>5
  <2>7. S(y) /\ y \in Nat /\ x \in 1..Len(layout)
    BY <1>1, <2>3, <2>5, <2>6
  <2> HIDE DEF T
  <2>8. h[off[x + 1]].sites = Append(h[off[x]].sites, off[x + 1])
    BY <1>2, <2>7, ScanBlock
  <2>9. h[off[x]].sites = [q \in 1..y |-> off[q + 1]]
    BY <2>5, <2>7
  <2>10. Append([q \in 1..y |-> off[q + 1]], off[(y + 1) + 1]) = [q \in 1..y + 1 |-> off[q + 1]]
    BY <2>7, AppendTo
  <2>11. QED
    BY <2>3, <2>5, <2>8, <2>9, <2>10
<1>4. S(Len(layout))
  <2>1. Len(layout) \in 0..Len(layout)
    BY <1>1
  <2>2. ASSUME ~S(Len(layout)) PROVE Len(layout) \in T
    BY <2>1, <2>2
  <2> HIDE DEF T
  <2>3. QED
    BY <1>3, <2>2
<1>5. QED
  BY <1>1, <1>2, <1>4

\* One call for all of them
LEMMA OneSite ==
    ASSUME Fits, NEW off, CodeIs(off), layout # <<>>,
           \A k \in 1..Len(layout) :
                /\ Tab(k) \in Nat /\ Tame(k)
                /\ layout[k].call = IF k = Len(layout) THEN "call" ELSE "shared"
    PROVE  CallSites = <<Len(code)>>
<1>1. Len(layout) \in Nat /\ Len(code) \in Nat /\ off[1] = 0 /\ off[Len(layout) + 1] = Len(code)
  BY DEF Fits, CodeIs
<1>2. PICK h : Scans(h, 1, Len(code)) /\ CallSites = h[Len(code)].sites
  BY <1>1, NoData, CallSitesWalks
<1>3. PICK n \in Nat : Len(layout) = n + 1
  <2>1. Len(layout) # 0
    BY EmptySeq DEF Fits
  <2>2. Len(layout) - 1 \in Nat /\ Len(layout) = (Len(layout) - 1) + 1
    BY <1>1, <2>1
  <2>3. QED
    BY <2>2
<1> DEFINE S(m) == h[off[m + 1]].sites = <<>>
           T == {m \in 0..n : ~S(m)}
<1>4. T = {}
  <2>1. SUFFICES ASSUME T # {} PROVE FALSE
    OBVIOUS
  <2>2. PICK x \in T : \A y \in T : x <= y
    <3>1. T \subseteq Nat
      OBVIOUS
    <3> HIDE DEF T
    <3>2. QED
      BY <2>1, <3>1, SmallestNat, Zenon
  <2>3. x \in 0..n /\ ~S(x)
    OBVIOUS
  <2>4. S(0)
    <3>1. h[0].sites = <<>>
      BY <1>2 DEF Scans
    <3>2. QED
      BY <1>1, <3>1
  <2>5. PICK y \in 0..n : x = y + 1
    <3>1. x # 0
      BY <2>3, <2>4
    <3>2. x - 1 \in 0..n /\ x = (x - 1) + 1
      BY <2>3, <3>1
    <3>3. QED
      BY <3>2
  <2>6. y \notin T
    BY <2>2, <2>5
  <2>7. S(y) /\ x \in 1..Len(layout) /\ x # Len(layout)
    BY <1>3, <2>3, <2>5, <2>6
  <2> HIDE DEF T
  <2>8. layout[x].call = "shared"
    BY <2>7
  <2>9. h[off[x + 1]].sites = h[off[x]].sites
    BY <1>2, <2>7, <2>8, ScanBlock
  <2>10. QED
    BY <2>3, <2>5, <2>7, <2>9
<1>5. S(n)
  <2>1. n \in 0..n
    OBVIOUS
  <2>2. ASSUME ~S(n) PROVE n \in T
    BY <2>1, <2>2
  <2> HIDE DEF T
  <2>3. QED
    BY <1>4, <2>2
<1>6. n + 1 \in 1..Len(layout) /\ layout[n + 1].call = "call"
  BY <1>3
<1>7. h[off[(n + 1) + 1]].sites = Append(h[off[n + 1]].sites, off[(n + 1) + 1])
  BY <1>2, <1>6, ScanBlock
<1>8. off[(n + 1) + 1] = Len(code)
  BY <1>1, <1>3
<1>9. Append(<<>>, Len(code)) = <<Len(code)>>
  OBVIOUS
<1>10. QED
  BY <1>2, <1>5, <1>7, <1>8, <1>9

-----------------------------------------------------------------------------
(* What is kept of the functions that were stored                           *)

SameItems(s, t) == Len(s) = Len(t) /\ \A i \in 1..Len(s) : s[i] = t[i]
LEMMA SameSeq ==
    ASSUME NEW S, NEW s \in Seq(S), NEW t \in Seq(S), SameItems(s, t)
    PROVE  s = t
BY DEF SameItems

IsEnd(t, r, o, n) == Len(t) = n /\ \A j \in 1..n : t[j] = r[o + j]

\* The last n of what was stored.
LEMMA LastOnes ==
    ASSUME NEW S, NEW r \in Seq(S), NEW o \in Nat, NEW n \in Nat, Len(r) = o + n
    PROVE  SubSeq(r, o + 1, Len(r)) \in Seq(S) /\ IsEnd(SubSeq(r, o + 1, Len(r)), r, o, n)
<1>1. PICK l \in Nat : l = Len(r)
  OBVIOUS
<1>2. \A j \in (o + 1)..l : j \in 1..Len(r)
  BY <1>1
<1>3. SubSeq(r, o + 1, l) \in Seq(S)
  BY <1>1, <1>2
<1>4. Len(SubSeq(r, o + 1, l)) = n
  BY <1>1
<1>5. \A j \in 1..n : SubSeq(r, o + 1, l)[j] = r[o + j]
  <2>1. SUFFICES ASSUME NEW j \in 1..n PROVE SubSeq(r, o + 1, l)[j] = r[o + j]
    OBVIOUS
  <2>2. (o + 1) + j - 1 = o + j
    OBVIOUS
  <2>3. QED
    BY <1>1, <2>2
<1>6. QED
  BY <1>1, <1>3, <1>4, <1>5 DEF IsEnd

LEMMA IsSequence ==
    ASSUME NEW S, NEW n \in Nat, NEW f, f = [i \in 1..n |-> f[i]], \A i \in 1..n : f[i] \in S
    PROVE  f \in Seq(S) /\ Len(f) = n
<1>1. f \in [1..n -> S]
  OBVIOUS
<1>2. QED
  BY <1>1

LEMMA DistinctOfNone == Distinct(<<>>) = <<>>
<1> DEFINE p == [k \in DOMAIN <<>> |-> IF \E i \in 1..k - 1 : <<>>[i] = <<>>[k] THEN <<>> ELSE <<<<>>[k]>>]
<1>1. p = <<>>
  OBVIOUS
<1>2. Distinct(<<>>) = Flat(p)
  BY DEF Distinct
<1> HIDE DEF p
<1>3. QED
  BY <1>1, <1>2 DEF Flat, FlattenSeq

\* b repeats nothing, neither of itself nor of a.
New(a, b) ==
    /\ \A i, k \in 1..Len(b) : b[i] = b[k] => i = k
    /\ \A i \in 1..Len(a), k \in 1..Len(b) : a[i] # b[k]

\* New functions at the end stay the end when repetitions are dropped.
LEMMA LastOfDistinct ==
    ASSUME NEW a \in Seq(Nat), NEW b \in Seq(Nat), New(a, b), NEW n \in Nat, n = Len(b)
    PROVE  LastN(Distinct(a \o b), n) = b /\ Len(Distinct(a \o b)) >= n /\ Len(Distinct(a \o b)) \in Nat
<1> DEFINE s == a \o b
           p == [k \in DOMAIN s |-> IF \E i \in 1..k - 1 : s[i] = s[k] THEN <<>> ELSE <<s[k]>>]
           r == Flat(p)
<1>1. PICK m \in Nat : m = Len(a)
  OBVIOUS
<1>2. /\ s \in Seq(Nat) /\ Len(s) = m + n
      /\ \A j \in 1..m : s[j] = a[j]
      /\ \A j \in 1..n : s[m + j] = b[j]
  BY <1>1, TwoJoined
<1>3. Distinct(a \o b) = r
  BY DEF Distinct
<1> HIDE DEF s
<1>4. DOMAIN s = 1..m + n /\ \A k \in 1..m + n : s[k] \in Nat
  BY <1>2
<1>5. p \in Seq(Seq(Nat)) /\ Len(p) = m + n /\ m + n \in Nat
  <2>1. \A k \in 1..m + n : p[k] \in Seq(Nat)
    <3>1. SUFFICES ASSUME NEW k \in 1..m + n PROVE p[k] \in Seq(Nat)
      OBVIOUS
    <3>2. <<s[k]>> \in Seq(Nat) /\ <<>> \in Seq(Nat)
      BY <1>4
    <3>3. p[k] = <<>> \/ p[k] = <<s[k]>>
      BY <1>4
    <3>4. QED
      BY <3>2, <3>3
  <2>2. p = [k \in 1..m + n |-> p[k]]
    BY <1>4
  <2> HIDE DEF p
  <2>3. PICK t \in Nat : t = m + n
    OBVIOUS
  <2>4. p = [k \in 1..t |-> p[k]] /\ \A k \in 1..t : p[k] \in Seq(Nat)
    BY <2>1, <2>2, <2>3
  <2>5. p \in Seq(Seq(Nat)) /\ Len(p) = t
    BY <2>4, IsSequence
  <2>6. QED
    BY <2>3, <2>5
<1>6. ASSUME NEW j \in 1..n PROVE Len(p[m + j]) = 1 /\ p[m + j][1] = b[j]
  <2>1. m + j \in 1..m + n /\ s[m + j] = b[j]
    BY <1>2
  <2>2. ASSUME NEW i \in 1..(m + j) - 1, s[i] = s[m + j] PROVE FALSE
    <3>1. CASE i <= m
      <4>1. i \in 1..m /\ s[i] = a[i]
        BY <1>2, <3>1
      <4>2. QED
        BY <1>1, <2>1, <2>2, <4>1 DEF New
    <3>2. CASE ~(i <= m)
      <4>1. PICK q \in 1..n : i = m + q /\ q < j
        <5>1. i - m \in 1..n /\ i = m + (i - m) /\ i - m < j
          BY <2>2, <3>2
        <5>2. QED
          BY <5>1
      <4>2. s[i] = b[q]
        BY <1>2, <4>1
      <4>3. b[q] = b[j] /\ q # j
        BY <2>1, <2>2, <4>1, <4>2
      <4>4. QED
        BY <4>3 DEF New
    <3>3. QED
      BY <3>1, <3>2
  <2>3. p[m + j] = <<s[m + j]>>
    BY <1>4, <2>1, <2>2
  <2> HIDE DEF p
  <2>4. QED
    BY <2>1, <2>3
<1> HIDE DEF p
<1>7. r \in Seq(Nat)
  BY <1>5, FlattenTyped DEF Flat
<1>8. PICK off : Laid(off, p, m + n, r)
  BY <1>5, FlattenLaid
<1> HIDE DEF r
<1>9. PICK o \in Nat : o = off[m + 1]
  <2>1. m + 1 \in 1..(m + n) + 1
    OBVIOUS
  <2>2. off[m + 1] \in Nat
    BY <1>8, <2>1 DEF Laid
  <2>3. QED
    BY <2>2
<1>10. \A j \in 0..n : off[m + 1 + j] = o + j
  <2> DEFINE B == {j \in 0..n : off[m + 1 + j] # o + j}
  <2>1. SUFFICES ASSUME B # {} PROVE FALSE
    OBVIOUS
  <2>2. PICK x \in B : \A y \in B : x <= y
    <3>1. B \subseteq Nat
      OBVIOUS
    <3> HIDE DEF B
    <3>2. QED
      BY <2>1, <3>1, SmallestNat, Zenon
  <2>3. x \in 0..n /\ off[m + 1 + x] # o + x
    OBVIOUS
  <2>4. x # 0
    BY <1>9, <2>3
  <2>5. PICK y \in 0..n : x = y + 1 /\ y \notin B
    <3>1. PICK y \in 0..n : x = y + 1
      <4>1. x - 1 \in 0..n /\ x = (x - 1) + 1
        BY <2>3, <2>4
      <4>2. QED
        BY <4>1
    <3>2. y \notin B
      <4> HIDE DEF B
      <4>1. QED
        BY <2>2, <3>1
    <3>3. QED
      BY <3>1, <3>2
  <2>6. off[m + 1 + y] = o + y
    BY <2>5
  <2>7. x \in 1..n /\ m + 1 + y = m + x /\ m + x \in 1..m + n /\ m + 1 + x = (m + x) + 1
    BY <2>3, <2>5
  <2>8. off[(m + x) + 1] = off[m + x] + Len(p[m + x])
    BY <1>8, <2>7 DEF Laid
  <2>9. Len(p[m + x]) = 1
    BY <1>6, <2>7
  <2>10. QED
    BY <2>3, <2>5, <2>6, <2>7, <2>8, <2>9
<1>11. Len(r) = o + n
  <2>1. off[m + 1 + n] = o + n
    BY <1>10
  <2>2. off[(m + n) + 1] = Len(r)
    BY <1>8 DEF Laid
  <2>3. m + 1 + n = (m + n) + 1
    OBVIOUS
  <2>4. QED
    BY <2>1, <2>2, <2>3
<1>12. ASSUME NEW j \in 1..n PROVE r[o + j] = b[j]
  <2>1. PICK i \in 0..n : j = i + 1
    <3>1. j - 1 \in 0..n /\ j = (j - 1) + 1
      OBVIOUS
    <3>2. QED
      BY <3>1
  <2>2. off[m + 1 + i] = o + i /\ m + 1 + i = m + j
    BY <1>10, <2>1
  <2>3. m + j \in 1..m + n /\ 1 \in 1..Len(p[m + j]) /\ p[m + j][1] = b[j]
    BY <1>6
  <2>4. r[off[m + j] + 1] = p[m + j][1]
    BY <1>8, <2>3 DEF Laid
  <2>5. off[m + j] + 1 = o + j
    BY <2>1, <2>2
  <2>6. QED
    BY <2>3, <2>4, <2>5
<1>13. LastN(r, n) = b
  <2>1. CASE n < Len(r)
    <3>1. LastN(r, n) = SubSeq(r, Len(r) - n + 1, Len(r))
      BY <2>1 DEF LastN
    <3>2. Len(r) - n + 1 = o + 1 /\ o + n \in Nat /\ o + 1 \in 1..Len(r) + 1
      BY <1>11
    <3>3. SubSeq(r, o + 1, Len(r)) \in Seq(Nat) /\ IsEnd(SubSeq(r, o + 1, Len(r)), r, o, n)
      BY <1>7, <1>11, LastOnes
    <3>4. SameItems(SubSeq(r, o + 1, Len(r)), b)
      BY <1>12, <3>3 DEF SameItems, IsEnd
    <3>5. QED
      BY <3>1, <3>2, <3>3, <3>4, SameSeq
  <2>2. CASE ~(n < Len(r))
    <3>1. LastN(r, n) = r /\ o = 0 /\ Len(r) = n
      BY <1>11, <2>2 DEF LastN
    <3>2. \A j \in 1..n : r[j] = b[j]
      BY <1>12, <3>1
    <3>3. SameItems(r, b)
      BY <3>1, <3>2 DEF SameItems
    <3>4. QED
      BY <1>7, <3>1, <3>3, SameSeq
  <2>3. QED
    BY <2>1, <2>2
<1>14. QED
  BY <1>3, <1>11, <1>13

\* Classes that share no function store different ones.
LEMMA RowsApart ==
    ASSUME Fits, NEW k \in DOMAIN layout, NEW l \in DOMAIN layout,
           ~Shares(layout[k].class, layout[l].class)
    PROVE  \A i \in 1..N(k), q \in 1..N(l) :
                Rows(layout[k].class)[i] = Rows(layout[l].class)[q] => layout[k].class = layout[l].class /\ i = q
<1> DEFINE c == layout[k].class
           d == layout[l].class
<1>1. SUFFICES ASSUME NEW i \in 1..N(k), NEW q \in 1..N(l), Rows(c)[i] = Rows(d)[q], <<c, i>> # <<d, q>> PROVE FALSE
  OBVIOUS
<1>2. i \in DOMAIN jar[c] /\ q \in DOMAIN jar[d] /\ Rows(c)[i] = truth[c][jar[c][i]] /\ Rows(d)[q] = truth[d][jar[d][q]]
  BY RowsFit
<1>3. truth[c][jar[c][i]] = truth[d][jar[d][q]]
  BY <1>1, <1>2
<1> HIDE DEF c, d
<1>4. Shares(c, d)
  BY <1>1, <1>2, <1>3 DEF Shares
<1>5. QED
  BY <1>4 DEF c, d

LEMMA FirstPart ==
    ASSUME NEW s \in Seq(Nat), NEW q \in 0..Len(s)
    PROVE  /\ SubSeq(s, 1, q) \in Seq(Nat) /\ Len(SubSeq(s, 1, q)) = q
           /\ \A i \in 1..q : SubSeq(s, 1, q)[i] = s[i]
<1>1. \A i \in 1..q : i \in 1..Len(s)
  OBVIOUS
<1>2. SubSeq(s, 1, q) \in Seq(Nat)
  BY <1>1
<1>3. DOMAIN SubSeq(s, 1, q) = 1..q /\ \A i \in 1..q : SubSeq(s, 1, q)[i] = s[i]
  BY FirstOnes
<1>4. Len(SubSeq(s, 1, q)) = q
  OBVIOUS
<1>5. QED
  BY <1>2, <1>3, <1>4

LEMMA AppendIs ==
    ASSUME NEW b \in Seq(Nat), NEW x \in Nat, NEW n \in Nat, n = Len(b)
    PROVE  /\ Append(b, x) \in Seq(Nat) /\ Len(Append(b, x)) = n + 1
           /\ \A i \in 1..n : Append(b, x)[i] = b[i]
           /\ Append(b, x)[n + 1] = x
OBVIOUS

Spliced(r, a, b) ==
    /\ r \in Seq(Nat) /\ Len(r) = Len(a) + Len(b)
    /\ \A i \in 1..Len(a) : r[i] = a[i]
    /\ \A i \in 1..Len(b) : r[Len(a) + i] = b[i]
LEMMA SplicedNat ==
    ASSUME NEW a \in Seq(Nat), NEW b \in Seq(Nat)
    PROVE  Spliced(a \o b, a, b)
<1> DEFINE r == a \o b
<1>1. r \in Seq(Nat) /\ Len(r) = Len(a) + Len(b)
  OBVIOUS
<1>2. \A i \in 1..Len(a) : r[i] = a[i]
  OBVIOUS
<1>3. \A i \in 1..Len(b) : r[Len(a) + i] = b[i]
  OBVIOUS
<1> HIDE DEF r
<1>4. Spliced(r, a, b)
  BY <1>1, <1>2, <1>3 DEF Spliced
<1>5. QED
  BY <1>4 DEF r

\* Storing the next native keeps those before it the end.
LEMMA AppendMore ==
    ASSUME NEW a \in Seq(Nat), NEW s \in Seq(Nat), NEW q \in Nat, q + 1 <= Len(s)
    PROVE  Append(a \o SubSeq(s, 1, q), s[q + 1]) = a \o SubSeq(s, 1, q + 1)
<1> DEFINE u == SubSeq(s, 1, q)
           v == SubSeq(s, 1, q + 1)
           b == a \o u
           c == a \o v
           e == Append(b, s[q + 1])
<1>1. PICK m \in Nat : m = Len(a)
  OBVIOUS
<1>2. q \in 0..Len(s) /\ q + 1 \in 0..Len(s) /\ q + 1 \in 1..Len(s)
  OBVIOUS
<1>3. u \in Seq(Nat) /\ Len(u) = q /\ \A i \in 1..q : u[i] = s[i]
  BY <1>2, FirstPart
<1>4. v \in Seq(Nat) /\ Len(v) = q + 1 /\ \A i \in 1..q + 1 : v[i] = s[i]
  BY <1>2, FirstPart
<1> HIDE DEF u, v
<1>5. /\ b \in Seq(Nat) /\ Len(b) = m + q
      /\ \A i \in 1..m : b[i] = a[i]
      /\ \A i \in 1..q : b[m + i] = s[i]
  <2>1. /\ b \in Seq(Nat) /\ Len(b) = Len(a) + Len(u)
        /\ \A i \in 1..Len(a) : b[i] = a[i]
        /\ \A i \in 1..Len(u) : b[Len(a) + i] = u[i]
    BY <1>3, SplicedNat DEF Spliced
  <2> HIDE DEF b
  <2>2. QED
    BY <1>1, <1>3, <2>1
<1>6. /\ c \in Seq(Nat) /\ Len(c) = m + (q + 1)
      /\ \A i \in 1..m : c[i] = a[i]
      /\ \A i \in 1..q + 1 : c[m + i] = s[i]
  <2>1. /\ c \in Seq(Nat) /\ Len(c) = Len(a) + Len(v)
        /\ \A i \in 1..Len(a) : c[i] = a[i]
        /\ \A i \in 1..Len(v) : c[Len(a) + i] = v[i]
    BY <1>4, SplicedNat DEF Spliced
  <2> HIDE DEF c
  <2>2. QED
    BY <1>1, <1>4, <2>1
<1>7. s[q + 1] \in Nat
  BY <1>2
<1> HIDE DEF b, c
<1>8. /\ e \in Seq(Nat) /\ Len(e) = (m + q) + 1
      /\ \A i \in 1..m + q : e[i] = b[i]
      /\ e[(m + q) + 1] = s[q + 1]
  <2>1. m + q \in Nat
    OBVIOUS
  <2>2. QED
    BY <1>5, <1>7, <2>1, AppendIs
<1> HIDE DEF e
<1>9. \A i \in 1..Len(e) : e[i] = c[i]
  <2>1. SUFFICES ASSUME NEW i \in 1..(m + q) + 1 PROVE e[i] = c[i]
    BY <1>8
  <2>2. CASE i <= m
    <3>1. i \in 1..m /\ i \in 1..m + q
      BY <2>2
    <3>2. QED
      BY <1>5, <1>6, <1>8, <3>1
  <2>3. CASE ~(i <= m)
    <3>1. PICK j \in 1..q + 1 : i = m + j
      <4>1. i - m \in 1..q + 1 /\ i = m + (i - m)
        BY <2>3
      <4>2. QED
        BY <4>1
    <3>2. CASE j = q + 1
      BY <1>6, <1>8, <3>1, <3>2
    <3>3. CASE j # q + 1
      <4>1. j \in 1..q /\ i \in 1..m + q
        BY <3>1, <3>3
      <4>2. QED
        BY <1>5, <1>6, <1>8, <3>1, <4>1
    <3>4. QED
      BY <3>2, <3>3
  <2>4. QED
    BY <2>2, <2>3
<1>10. SameItems(e, c)
  BY <1>6, <1>8, <1>9 DEF SameItems
<1>11. e = c
  BY <1>6, <1>8, <1>10, SameSeq
<1>12. QED
  BY <1>11 DEF b, c, e, u, v

LEMMA NoneAndAll ==
    ASSUME NEW a \in Seq(Nat), NEW s \in Seq(Nat)
    PROVE  a \o SubSeq(s, 1, 0) = a /\ SubSeq(s, 1, Len(s)) = s
OBVIOUS

-----------------------------------------------------------------------------
(* The harvest of a shared call finds the table of every class              *)

BranchForm(h) == h = [last |-> h.last, fns |-> h.fns, done |-> h.done]

\* BranchStep, one kind of instruction at a time.
LEMMA BranchStepIs ==
    ASSUME NEW h, BranchForm(h), NEW i
    PROVE  /\ code[i].op = "lea" /\ IsFn(code[i].arg) =>
                BranchStep(h, i) = [last |-> Put(h.last, code[i].reg, code[i].arg), fns |-> h.fns, done |-> h.done]
           /\ code[i].op = "store" /\ code[i].reg \in DOMAIN h.last =>
                BranchStep(h, i) = [last |-> Without(h.last, code[i].reg),
                                    fns |-> Append(h.fns, h.last[code[i].reg]), done |-> h.done]
           /\ code[i].op = "count" =>
                BranchStep(h, i) =
                    [last |-> <<>>, fns |-> <<>>,
                     done |-> IF code[i].arg > 0 /\ Len(Distinct(h.fns)) >= code[i].arg
                              THEN Append(h.done, LastN(Distinct(h.fns), code[i].arg)) ELSE h.done]
<1> DEFINE la == h.last
           fs == h.fns
           d == h.done
<1>1. h = [last |-> la, fns |-> fs, done |-> d]
  BY DEF BranchForm
<1> HIDE DEF la, fs, d
<1>2. ASSUME code[i].op = "lea", IsFn(code[i].arg)
      PROVE  BranchStep(h, i) = [last |-> Put(la, code[i].reg, code[i].arg), fns |-> fs, done |-> d]
  BY <1>1, <1>2 DEF BranchStep
<1>3. ASSUME code[i].op = "store", code[i].reg \in DOMAIN la
      PROVE  BranchStep(h, i) = [last |-> Without(la, code[i].reg), fns |-> Append(fs, la[code[i].reg]), done |-> d]
  BY <1>1, <1>3 DEF BranchStep
<1>4. ASSUME code[i].op = "count"
      PROVE  BranchStep(h, i) =
                    [last |-> <<>>, fns |-> <<>>,
                     done |-> IF code[i].arg > 0 /\ Len(Distinct(fs)) >= code[i].arg
                              THEN Append(d, LastN(Distinct(fs), code[i].arg)) ELSE d]
  BY <1>1, <1>4 DEF BranchStep
<1>5. QED
  BY <1>2, <1>3, <1>4 DEF la, fs, d

\* Two instructions store a function.
Stored(h, g, fn) == BranchForm(g) /\ g.fns = Append(h.fns, fn) /\ g.done = h.done
LEMMA BranchStores ==
    ASSUME NEW h, NEW i, NEW j, NEW fn, BranchForm(h), IsFn(fn),
           code[i] = Ins("lea", "T", fn), code[j] = Ins("store", "T", 0)
    PROVE  Stored(h, BranchStep(BranchStep(h, i), j), fn)
<1> DEFINE a == BranchStep(h, i)
           g == BranchStep(a, j)
<1>1. a = [last |-> Put(h.last, "T", fn), fns |-> h.fns, done |-> h.done]
  BY OpsOf, BranchStepIs
<1> HIDE DEF a
<1>2. BranchForm(a) /\ a.last = Put(h.last, "T", fn) /\ a.fns = h.fns /\ a.done = h.done
  BY <1>1 DEF BranchForm
<1>3. "T" \in DOMAIN a.last /\ a.last["T"] = fn
  BY <1>2, PutGives
<1>4. g = [last |-> Without(a.last, "T"), fns |-> Append(a.fns, fn), done |-> a.done]
  BY <1>2, <1>3, OpsOf, BranchStepIs
<1> HIDE DEF g
<1>5. BranchForm(g) /\ g.fns = Append(h.fns, fn) /\ g.done = h.done
  BY <1>2, <1>4 DEF BranchForm
<1>6. QED
  BY <1>5 DEF g, a, Stored

\* A class that fills its table and then sets its count
FillsFirst(k) ==
    /\ layout[k].form = "stack" /\ layout[k].count = "after" /\ layout[k].noise # "after"
    /\ layout[k].gap = "near" /\ layout[k].call \in {"call", "shared"}

\* Such a class adds its rows to what is done.
LEMMA BranchBlock ==
    ASSUME Fits, NEW off, CodeIs(off), NEW k \in 1..Len(layout), Tab(k) \in Nat, FillsFirst(k),
           ~Shares(layout[k].class, layout[k].class),
           NEW h, NEW b \in Nat, Branching(h, 1, b), FillTo(off, k) + 1 <= b,
           BranchForm(h[off[k]]), h[off[k]].fns = <<>>
    PROVE  h[FillTo(off, k) + 1] =
                [last |-> <<>>, fns |-> <<>>, done |-> Append(h[off[k]].done, Rows(layout[k].class))]
<1> DEFINE s == Rows(layout[k].class)
           D == h[off[k]].done
           n == N(k)
<1>1. k \in DOMAIN layout
  BY DEF Fits
<1>2. s \in Seq(Nat) /\ Len(s) = n /\ n \in Nat \ {0} /\ \A q \in 1..n : s[q] \in Nat /\ IsFn(s[q]) /\ s[q] # Callback
  <2>1. s \in Seq(Addr) /\ Len(s) = n /\ n \in Nat \ {0} /\ \A q \in 1..n : s[q] \in Addr /\ s[q] # Callback
    BY <1>1, RowsFit
  <2>2. Addr \subseteq Nat /\ \A a \in Addr : IsFn(a)
    BY FnsAreLow
  <2>3. QED
    BY <2>1, <2>2, Widens
<1>3. \A i, q \in 1..n : s[i] = s[q] => i = q
  BY <1>1, RowsApart
<1>4. PICK a \in Nat : a = FillFrom(off, k)
  BY Borders
<1>5. /\ FillTo(off, k) = a + 2 * n
      /\ \A q \in 1..n : /\ code[a + (2 * q - 1)] = Ins("lea", "T", s[q])
                         /\ code[a + 2 * q] = Ins("store", "T", 0)
  BY <1>4, StackFilling DEF FillsFirst
<1>6. code[FillTo(off, k) + 1] = Ins("count", "-", n)
  BY InClosing DEF Tame, FillsFirst
<1>7. \A i \in 1..b : h[i] = BranchStep(h[i - 1], i)
  BY DEF Branching
<1>8. Callback \in Nat /\ IsFn(Callback)
  BY TablesAssumption, FnsAreLow
<1> HIDE DEF s, n, D
<1>9. a <= a + 2 * n /\ a + 2 * n + 1 <= b
  BY <1>2, <1>5
<1>10. PICK A \in Seq(Nat) : /\ BranchForm(h[a]) /\ h[a].fns = A /\ h[a].done = D
                             /\ \A i \in 1..Len(A) : A[i] = Callback
  <2>1. PICK o \in Nat : o = off[k]
    BY Borders
  <2>2. a = o + Len(Opening(k))
    <3>1. Gap(k) = <<>>
      BY DEF Gap, GapOf, FillsFirst
    <3>2. Len(Gap(k)) = 0
      BY <3>1
    <3>3. QED
      BY <1>4, <2>1, <3>2 DEF FillFrom, GapTo
  <2>3. Opening(k) = Noise(layout[k], "before")
    BY <1>1, OpeningIs DEF FillsFirst
  <2>4. CASE layout[k].noise # "before"
    <3>1. Opening(k) = <<>>
      BY <2>3, <2>4, NoiseIs
    <3>2. a = o
      BY <2>1, <2>2, <3>1
    <3>3. BranchForm(h[a]) /\ h[a].fns = <<>> /\ h[a].done = D
      BY <2>1, <3>2 DEF D
    <3>4. <<>> \in Seq(Nat) /\ \A i \in 1..Len(<<>>) : <<>>[i] = Callback
      OBVIOUS
    <3>5. QED
      BY <3>3, <3>4
  <2>5. CASE layout[k].noise = "before"
    <3>1. Len(Opening(k)) = 2 /\ Opening(k)[1] = Ins("lea", "T", Callback) /\ Opening(k)[2] = Ins("store", "T", 0)
      BY <2>3, <2>5, NoiseIs
    <3>2. GapTo(off, k) = o
      <4>1. Gap(k) = <<>>
        BY DEF Gap, GapOf, FillsFirst
      <4>2. Len(Gap(k)) = 0
        BY <4>1
      <4>3. QED
        BY <2>1, <4>2 DEF GapTo
    <3>3. \A j \in 1..Len(Opening(k)) : code[GapTo(off, k) + j] = Opening(k)[j]
      BY DEF CodeIs
    <3>4. code[o + 1] = Ins("lea", "T", Callback) /\ code[o + 2] = Ins("store", "T", 0) /\ a = o + 2
      BY <2>2, <3>1, <3>2, <3>3
    <3>5. o + 1 \in 1..b /\ o + 2 \in 1..b /\ (o + 1) - 1 = o /\ (o + 2) - 1 = o + 1
      <4>1. o + 2 <= b
        BY <1>2, <1>9, <3>4
      <4>2. QED
        BY <4>1
    <3>6. h[o + 1] = BranchStep(h[o], o + 1) /\ h[o + 2] = BranchStep(h[o + 1], o + 2)
      BY <1>7, <3>5
    <3>7. BranchForm(h[o]) /\ h[o].fns = <<>> /\ h[o].done = D
      BY <2>1 DEF D
    <3>8. BranchForm(h[o + 2]) /\ h[o + 2].fns = Append(<<>>, Callback) /\ h[o + 2].done = D
      BY <1>8, <3>4, <3>6, <3>7, BranchStores DEF Stored
    <3>9. Append(<<>>, Callback) = <<Callback>> /\ <<Callback>> \in Seq(Nat)
          /\ \A i \in 1..Len(<<Callback>>) : <<Callback>>[i] = Callback
      BY <1>8
    <3>10. QED
      BY <3>4, <3>8, <3>9
  <2>6. QED
    BY <2>4, <2>5
<1> DEFINE S(q) == BranchForm(h[a + 2 * q]) /\ h[a + 2 * q].fns = A \o SubSeq(s, 1, q) /\ h[a + 2 * q].done = D
           T == {q \in 0..n : ~S(q)}
<1>11. T = {}
  <2>1. SUFFICES ASSUME T # {} PROVE FALSE
    OBVIOUS
  <2>2. PICK x \in T : \A y \in T : x <= y
    <3>1. T \subseteq Nat
      BY <1>2
    <3> HIDE DEF T
    <3>2. QED
      BY <2>1, <3>1, SmallestNat, Zenon
  <2>3. x \in 0..n /\ ~S(x)
    OBVIOUS
  <2>4. S(0)
    <3>1. a + 2 * 0 = a
      OBVIOUS
    <3>2. QED
      BY <1>2, <1>10, <3>1, NoneAndAll
  <2>5. PICK y \in 0..n : x = y + 1
    <3>1. x # 0
      BY <2>3, <2>4
    <3>2. x - 1 \in 0..n /\ x = (x - 1) + 1
      BY <1>2, <2>3, <3>1
    <3>3. QED
      BY <3>2
  <2>6. y \notin T
    <3> HIDE DEF T
    <3>1. QED
      BY <2>2, <2>5
  <2>7. S(y) /\ y \in Nat /\ x \in 1..n
    <3>1. y \in Nat /\ x \in 1..n
      BY <1>2, <2>3, <2>5
    <3> HIDE DEF S
    <3>2. S(y)
      BY <2>5, <2>6
    <3>3. QED
      BY <3>1, <3>2
  <2> HIDE DEF T
  <2>8. PICK p \in Nat : p = a + 2 * y
    BY <2>7
  <2>9. a + (2 * x - 1) = p + 1 /\ a + 2 * x = p + 2
    <3>1. x = y + 1 /\ y \in Nat
      BY <2>5, <2>7
    <3>2. \A v \in Nat : 2 * (v + 1) = 2 * v + 2 /\ 2 * v \in Nat
      OBVIOUS
    <3>3. 2 * x = 2 * y + 2 /\ 2 * y \in Nat
      BY <3>1, <3>2
    <3>4. QED
      BY <2>8, <3>3
  <2>10. code[p + 1] = Ins("lea", "T", s[x]) /\ code[p + 2] = Ins("store", "T", 0)
    BY <1>5, <2>7, <2>9
  <2>11. p + 1 \in 1..b /\ p + 2 \in 1..b /\ (p + 1) - 1 = p /\ (p + 2) - 1 = p + 1
    BY <1>2, <1>9, <2>3, <2>9
  <2>12. h[p + 1] = BranchStep(h[p], p + 1) /\ h[p + 2] = BranchStep(h[p + 1], p + 2)
    BY <1>7, <2>11
  <2>13. BranchForm(h[p]) /\ h[p].fns = A \o SubSeq(s, 1, y) /\ h[p].done = D
    BY <2>7, <2>8
  <2>14. BranchForm(h[p + 2]) /\ h[p + 2].fns = Append(A \o SubSeq(s, 1, y), s[x]) /\ h[p + 2].done = D
    <3>1. IsFn(s[x])
      BY <1>2, <2>7
    <3>2. Stored(h[p], h[p + 2], s[x])
      BY <2>10, <2>12, <2>13, <3>1, BranchStores
    <3>3. QED
      BY <2>13, <3>2 DEF Stored
  <2>15. Append(A \o SubSeq(s, 1, y), s[y + 1]) = A \o SubSeq(s, 1, y + 1)
    <3>1. y + 1 <= Len(s)
      BY <1>2, <2>3, <2>5
    <3>2. QED
      BY <1>2, <2>7, <3>1, AppendMore
  <2>16. S(x)
    BY <2>5, <2>9, <2>14, <2>15
  <2>17. QED
    BY <2>3, <2>16
<1>12. S(n)
  <2>1. n \in 0..n
    BY <1>2
  <2>2. ASSUME ~S(n) PROVE n \in T
    BY <2>1, <2>2
  <2> HIDE DEF T
  <2>3. QED
    BY <1>11, <2>2
<1> HIDE DEF T
<1>13. PICK e \in Nat : e = a + 2 * n
  BY <1>2
<1>14. BranchForm(h[e]) /\ h[e].fns = A \o s /\ h[e].done = D
  BY <1>2, <1>12, <1>13, NoneAndAll
<1>15. e + 1 \in 1..b /\ (e + 1) - 1 = e
  BY <1>9, <1>13
<1>16. h[e + 1] = BranchStep(h[e], e + 1) /\ code[e + 1] = Ins("count", "-", n)
  BY <1>5, <1>6, <1>7, <1>13, <1>15
<1>17. New(A, s)
  BY <1>2, <1>3, <1>10 DEF New
<1>18. LastN(Distinct(A \o s), n) = s /\ Len(Distinct(A \o s)) >= n
  BY <1>2, <1>17, LastOfDistinct
<1>19. n > 0
  BY <1>2
<1>20. h[e + 1] = [last |-> <<>>, fns |-> <<>>, done |-> Append(D, s)]
  <2>1. code[e + 1].op = "count" /\ code[e + 1].arg = n
    BY <1>16, OpsOf
  <2>2. BranchStep(h[e], e + 1) =
            [last |-> <<>>, fns |-> <<>>,
             done |-> IF code[e + 1].arg > 0 /\ Len(Distinct(h[e].fns)) >= code[e + 1].arg
                      THEN Append(h[e].done, LastN(Distinct(h[e].fns), code[e + 1].arg)) ELSE h[e].done]
    BY <1>14, <2>1, BranchStepIs
  <2>3. code[e + 1].arg > 0 /\ Len(Distinct(h[e].fns)) >= code[e + 1].arg
    BY <1>14, <1>18, <1>19, <2>1
  <2>4. LastN(Distinct(h[e].fns), code[e + 1].arg) = s
    BY <1>14, <1>18, <2>1
  <2>5. QED
    BY <1>14, <1>16, <2>2, <2>3, <2>4
<1>21. QED
  BY <1>5, <1>13, <1>20 DEF D, s

\* Every class fills its table and then sets its count, before the one call.
Sharing(off) ==
    /\ Fits /\ CodeIs(off) /\ layout # <<>> /\ Len(code) <= DispatchWindow
    /\ \A k \in 1..Len(layout) :
        /\ Tab(k) \in Nat /\ FillsFirst(k)
        /\ layout[k].call = IF k = Len(layout) THEN "call" ELSE "shared"
        /\ ~Shares(layout[k].class, layout[k].class)

LEMMA NextAppended ==
    ASSUME NEW m \in Nat, NEW g
    PROVE  Append([q \in 1..m |-> g[q]], g[m + 1]) = [q \in 1..m + 1 |-> g[q]]
<1> DEFINE s == [q \in 1..m |-> g[q]]
<1>1. Len(s) = m
  OBVIOUS
<1>2. QED
  BY <1>1

\* Where the count of a class stands
LEMMA CountsEnd ==
    ASSUME NEW off, Sharing(off), NEW k \in 1..Len(layout)
    PROVE  /\ FillTo(off, k) \in Nat /\ off[k + 1] \in Nat
           /\ k # Len(layout) => off[k + 1] = FillTo(off, k) + 1
           /\ k = Len(layout) => off[k + 1] = FillTo(off, k) + 2
<1>1. Fits /\ CodeIs(off) /\ k \in DOMAIN layout /\ Tab(k) \in Nat
  BY DEF Sharing, Fits
<1>2. FillTo(off, k) \in Nat /\ off[k + 1] \in Nat
  BY <1>1, Borders
<1>3. off[k + 1] = FillTo(off, k) + Len(Closing(k))
  BY <1>1 DEF CodeIs
<1>4. layout[k].noise # "after" /\ layout[k].count = "after"
      /\ layout[k].call = IF k = Len(layout) THEN "call" ELSE "shared"
  BY DEF Sharing, FillsFirst
<1>5. Len(Closing(k)) = Len(CallOf(k)) + 1 /\ Calls(CallOf(k), layout[k].call)
  BY <1>1, <1>4, ClosingIs
<1>6. CASE k # Len(layout)
  <2>1. CallOf(k) = <<>>
    BY <1>4, <1>5, <1>6 DEF Calls
  <2>2. Len(CallOf(k)) = 0
    BY <2>1
  <2>3. QED
    BY <1>2, <1>3, <1>5, <1>6, <2>2
<1>7. CASE k = Len(layout)
  <2>1. Len(CallOf(k)) = 1
    BY <1>4, <1>5, <1>7 DEF Calls
  <2>2. QED
    BY <1>2, <1>3, <1>5, <1>7, <2>1
<1>8. QED
  BY <1>6, <1>7

\* Branches finds the rows of every class, in order.
LEMMA BranchesAre ==
    ASSUME NEW off, Sharing(off)
    PROVE  Branches(Len(code)) = [k \in 1..Len(layout) |-> Rows(layout[k].class)]
<1>1. /\ Fits /\ CodeIs(off) /\ Len(code) <= DispatchWindow
      /\ \A k \in 1..Len(layout) : Tab(k) \in Nat /\ FillsFirst(k) /\ ~Shares(layout[k].class, layout[k].class)
  BY DEF Sharing
<1>2. Len(layout) \in Nat /\ Len(code) \in Nat /\ off[1] = 0 /\ off[Len(layout) + 1] = Len(code)
  BY <1>1 DEF Fits, CodeIs
<1>3. PICK n \in Nat : Len(layout) = n + 1
  <2>1. Len(layout) # 0
    BY EmptySeq DEF Fits, Sharing
  <2>2. Len(layout) - 1 \in Nat /\ Len(layout) = (Len(layout) - 1) + 1
    BY <1>2, <2>1
  <2>3. QED
    BY <2>2
<1>4. PICK f \in Nat : f = FillTo(off, n + 1)
  BY <1>3, CountsEnd
<1>5. Len(code) = f + 2
  BY <1>2, <1>3, <1>4, CountsEnd
<1>6. Back(Len(code), DispatchWindow) = 1
  BY <1>1, <1>5, TablesAssumption DEF Back
<1>7. PICK b \in Nat : b = Len(code) - 1 /\ b = f + 1
  BY <1>5
<1>8. \A k \in 1..Len(layout) : Tame(k)
  BY DEF Sharing, FillsFirst, Tame
<1>9. \A i \in 1..b : code[i].op # "data"
  <2>1. \A i \in 1..Len(code) : code[i].op # "data"
    BY <1>1, <1>8, NoData
  <2>2. QED
    BY <1>5, <1>7, <2>1
<1>10. PICK h : Branching(h, 1, b) /\ Branches(Len(code)) = h[b].done
  <2>1. Len(code) \in Nat \ {0} /\ 1 - 1 <= b
    BY <1>5
  <2>2. QED
    BY <1>6, <1>7, <1>9, <2>1, BranchesWalks
<1> DEFINE g == [k \in 1..n + 1 |-> Rows(layout[k].class)]
           Is(m) == [q \in 1..m |-> g[q]]
           S(m) == BranchForm(h[off[m + 1]]) /\ h[off[m + 1]].fns = <<>> /\ h[off[m + 1]].done = Is(m)
           T == {m \in 0..n : ~S(m)}
<1>11. ASSUME NEW x \in 1..n + 1, FillTo(off, x) + 1 <= b, NEW y \in Nat, x = y + 1, S(y)
       PROVE  h[FillTo(off, x) + 1] = [last |-> <<>>, fns |-> <<>>, done |-> Is(x)]
  <2>1. h[FillTo(off, x) + 1] =
            [last |-> <<>>, fns |-> <<>>, done |-> Append(h[off[x]].done, Rows(layout[x].class))]
    <3>1. x \in 1..Len(layout)
      BY <1>3
    <3>2. BranchForm(h[off[x]]) /\ h[off[x]].fns = <<>>
      BY <1>11
    <3> HIDE DEF S, g
    <3>3. QED
      BY <1>1, <1>10, <1>11, <3>1, <3>2, BranchBlock
  <2>2. Rows(layout[x].class) = g[x]
    OBVIOUS
  <2>3. h[off[x]].done = Is(y)
    BY <1>11
  <2> HIDE DEF g
  <2>4. Append(Is(y), g[y + 1]) = Is(y + 1)
    BY NextAppended
  <2>5. QED
    BY <1>11, <2>1, <2>2, <2>3, <2>4
<1>12. T = {}
  <2>1. SUFFICES ASSUME T # {} PROVE FALSE
    OBVIOUS
  <2>2. PICK x \in T : \A y \in T : x <= y
    <3>1. T \subseteq Nat
      OBVIOUS
    <3> HIDE DEF T
    <3>2. QED
      BY <2>1, <3>1, SmallestNat, Zenon
  <2>3. x \in 0..n /\ ~S(x)
    OBVIOUS
  <2>4. S(0)
    <3>1. h[0] = [last |-> <<>>, fns |-> <<>>, done |-> <<>>]
      BY <1>10 DEF Branching
    <3>2. Is(0) = <<>>
      OBVIOUS
    <3> HIDE DEF Is, g
    <3>3. QED
      BY <1>2, <3>1, <3>2 DEF BranchForm
  <2>5. PICK y \in 0..n : x = y + 1
    <3>1. x # 0
      BY <2>3, <2>4
    <3>2. x - 1 \in 0..n /\ x = (x - 1) + 1
      BY <2>3, <3>1
    <3>3. QED
      BY <3>2
  <2>6. y \notin T
    <3> HIDE DEF T
    <3>1. QED
      BY <2>2, <2>5
  <2>7. S(y) /\ y \in Nat /\ x \in 1..n
    BY <2>3, <2>5, <2>6
  <2> HIDE DEF T, S, g, Is
  <2>8. x \in 1..Len(layout) /\ x # Len(layout) /\ x \in 1..n + 1 /\ x + 1 \in 1..Len(layout) + 1
        /\ Len(layout) \in 1..Len(layout) + 1 /\ x + 1 <= Len(layout)
        /\ n + 1 \in 1..Len(layout)
    BY <1>3, <2>7
  <2>9. off[x + 1] = FillTo(off, x) + 1 /\ off[x + 1] \in Nat
    BY <2>8, CountsEnd
  <2>10. off[x + 1] <= b
    <3>1. off[x + 1] <= off[n + 1]
      BY <1>1, <1>3, <2>8 DEF CodeIs
    <3>2. off[n + 1] \in Nat /\ off[n + 1] <= f
      <4>1. /\ off[n + 1] \in Nat /\ GapTo(off, n + 1) \in Nat /\ FillFrom(off, n + 1) \in Nat
            /\ off[n + 1] <= GapTo(off, n + 1) /\ GapTo(off, n + 1) <= FillFrom(off, n + 1)
            /\ FillFrom(off, n + 1) <= FillTo(off, n + 1)
        BY <1>1, <2>8, Borders
      <4>2. QED
        BY <1>4, <4>1
    <3>3. QED
      BY <1>7, <2>9, <3>1, <3>2
  <2>11. h[off[x + 1]] = [last |-> <<>>, fns |-> <<>>, done |-> Is(x)]
    BY <1>11, <2>5, <2>7, <2>8, <2>9, <2>10
  <2>12. S(x)
    BY <2>11 DEF S, BranchForm
  <2>13. QED
    BY <2>3, <2>12
<1>13. S(n)
  <2>1. n \in 0..n
    OBVIOUS
  <2>2. ASSUME ~S(n) PROVE n \in T
    BY <2>1, <2>2
  <2> HIDE DEF T
  <2>3. QED
    BY <1>12, <2>2
<1>14. h[b] = [last |-> <<>>, fns |-> <<>>, done |-> Is(n + 1)]
  <2> HIDE DEF S, Is, g, T
  <2>1. n + 1 \in 1..n + 1 /\ FillTo(off, n + 1) + 1 = b /\ b <= b
    BY <1>4, <1>7
  <2>2. QED
    BY <1>11, <1>13, <2>1
<1>15. Branches(Len(code)) = Is(n + 1)
  <2> HIDE DEF Is
  <2>1. QED
    BY <1>10, <1>14
<1>16. QED
  BY <1>3, <1>15

-----------------------------------------------------------------------------
(* Where every table is on the stack the image holds none.                  *)
LEMMA NoImage ==
    ASSUME Fits, image = ImageOf(layout, jar, truth), \A k \in DOMAIN layout : layout[k].form = "stack"
    PROVE  image = <<>>
<1> DEFINE s == [k \in DOMAIN layout |-> Segment(layout, jar, truth, k)]
<1>1. PICK n \in Nat : n = Len(layout) /\ DOMAIN layout = 1..n
  BY DEF Fits
<1>2. \A k \in 1..n : s[k] = <<>>
  BY <1>1 DEF Segment
<1>3. s \in Seq(Seq(Row)) /\ Len(s) = n
  <2>1. s = [k \in 1..n |-> s[k]]
    BY <1>1
  <2> HIDE DEF s
  <2>2. <<>> \in Seq(Row)
    OBVIOUS
  <2>3. \A k \in 1..n : s[k] \in Seq(Row)
    BY <1>2, <2>2
  <2>4. QED
    BY <2>1, <2>3, IsSequence
<1>4. image = Flat(s)
  BY DEF ImageOf
<1> HIDE DEF s
<1>5. PICK off : Laid(off, s, n, Flat(s))
  BY <1>3, FlattenLaid
<1>6. Flat(s) \in Seq(Row)
  BY <1>3, FlattenTyped DEF Flat
<1>7. Len(Flat(s)) = 0
  <2>1. SUFFICES ASSUME Len(Flat(s)) # 0 PROVE FALSE
    OBVIOUS
  <2>2. 1 \in 1..Len(Flat(s))
    BY <1>6, <2>1
  <2>3. PICK i \in 1..n : \E j \in 1..Len(s[i]) : 1 = off[i] + j
    BY <1>5, <2>2 DEF Laid
  <2>4. Len(s[i]) = 0
    BY <1>2
  <2>5. QED
    BY <2>3, <2>4
<1>8. QED
  BY <1>4, <1>6, <1>7, EmptySeq

-----------------------------------------------------------------------------
(* What the look back from a call holds of the instructions it passes       *)
LookForm(h) == h = [last |-> h.last, near |-> h.near, arg3 |-> h.arg3, fns |-> h.fns, n |-> h.n]

\* HarvestStep, one kind of instruction at a time.
LEMMA LookStepIs ==
    ASSUME NEW h, LookForm(h), NEW i
    PROVE  /\ code[i].op = "lea" =>
                HarvestStep(h, i) =
                    [last |-> Put(h.last, code[i].reg, code[i].arg),
                     near |-> IF IsFn(code[i].arg) THEN h.near ELSE <<code[i].arg>> \o h.near,
                     arg3 |-> IF code[i].reg = "M" THEN <<code[i].arg>> ELSE h.arg3,
                     fns |-> h.fns, n |-> h.n]
           /\ code[i].op = "mov" /\ code[i].arg \in DOMAIN h.last =>
                HarvestStep(h, i) =
                    [last |-> Put(h.last, code[i].reg, h.last[code[i].arg]), near |-> h.near,
                     arg3 |-> IF code[i].reg = "M" THEN <<h.last[code[i].arg]>> ELSE h.arg3,
                     fns |-> h.fns, n |-> h.n]
           /\ code[i].op = "store" =>
                HarvestStep(h, i) =
                    [last |-> h.last, near |-> h.near, arg3 |-> h.arg3,
                     fns |-> IF code[i].reg \in DOMAIN h.last /\ IsFn(h.last[code[i].reg])
                             THEN Append(h.fns, h.last[code[i].reg]) ELSE h.fns,
                     n |-> h.n]
           /\ code[i].op = "count" =>
                HarvestStep(h, i) =
                    [last |-> h.last, near |-> h.near, arg3 |-> h.arg3, fns |-> h.fns, n |-> code[i].arg]
           /\ code[i].op \notin {"lea", "mov", "store", "count"} => HarvestStep(h, i) = h
           /\ code[i].op = "mov" /\ code[i].arg \notin DOMAIN h.last => HarvestStep(h, i) = h
<1> DEFINE la == h.last
           ne == h.near
           a3 == h.arg3
           fs == h.fns
           nn == h.n
<1>1. h = [last |-> la, near |-> ne, arg3 |-> a3, fns |-> fs, n |-> nn]
  BY DEF LookForm
<1> HIDE DEF la, ne, a3, fs, nn
<1>2. ASSUME code[i].op = "lea"
      PROVE  HarvestStep(h, i) =
                    [last |-> Put(la, code[i].reg, code[i].arg),
                     near |-> IF IsFn(code[i].arg) THEN ne ELSE <<code[i].arg>> \o ne,
                     arg3 |-> IF code[i].reg = "M" THEN <<code[i].arg>> ELSE a3,
                     fns |-> fs, n |-> nn]
  BY <1>1, <1>2 DEF HarvestStep
<1>3. ASSUME code[i].op = "mov", code[i].arg \in DOMAIN la
      PROVE  HarvestStep(h, i) =
                    [last |-> Put(la, code[i].reg, la[code[i].arg]), near |-> ne,
                     arg3 |-> IF code[i].reg = "M" THEN <<la[code[i].arg]>> ELSE a3,
                     fns |-> fs, n |-> nn]
  BY <1>1, <1>3 DEF HarvestStep
<1>4. ASSUME code[i].op = "store"
      PROVE  HarvestStep(h, i) =
                    [last |-> la, near |-> ne, arg3 |-> a3,
                     fns |-> IF code[i].reg \in DOMAIN la /\ IsFn(la[code[i].reg])
                             THEN Append(fs, la[code[i].reg]) ELSE fs,
                     n |-> nn]
  <2>1. CASE code[i].reg \in DOMAIN la /\ IsFn(la[code[i].reg])
    BY <1>1, <1>4, <2>1 DEF HarvestStep
  <2>2. CASE ~(code[i].reg \in DOMAIN la /\ IsFn(la[code[i].reg]))
    BY <1>1, <1>4, <2>2 DEF HarvestStep
  <2>3. QED
    BY <2>1, <2>2
<1>5. ASSUME code[i].op = "count"
      PROVE  HarvestStep(h, i) = [last |-> la, near |-> ne, arg3 |-> a3, fns |-> fs, n |-> code[i].arg]
  BY <1>1, <1>5 DEF HarvestStep
<1>6. ASSUME code[i].op \notin {"lea", "mov", "store", "count"} PROVE HarvestStep(h, i) = h
  BY <1>6 DEF HarvestStep
<1>7. ASSUME code[i].op = "mov", code[i].arg \notin DOMAIN la PROVE HarvestStep(h, i) = h
  BY <1>1, <1>7 DEF HarvestStep
<1>8. QED
  BY <1>2, <1>3, <1>4, <1>5, <1>6, <1>7 DEF la, ne, a3, fs, nn

\* All that is held was loaded from V by an instruction that was passed.
Low(V) == {v \in V : IsFn(v)}
High(V) == {v \in V : ~IsFn(v)}
Holds(g, V) ==
    /\ LookForm(g) /\ g.n \in Nat
    /\ g.arg3 \in Seq(V) /\ g.near \in Seq(High(V)) /\ g.fns \in Seq(Low(V))
    /\ \A r \in DOMAIN g.last : g.last[r] \in V
Loads(V, x) == (x.op = "lea" => x.arg \in V) /\ (x.op = "count" => x.arg \in Nat)

LEMMA PutHolds ==
    ASSUME NEW V, NEW f, \A r \in DOMAIN f : f[r] \in V, NEW x, NEW v \in V
    PROVE  \A r \in DOMAIN Put(f, x, v) : Put(f, x, v)[r] \in V
BY DEF Put

\* One step keeps it so.
LEMMA HoldsStep ==
    ASSUME NEW V, NEW g, Holds(g, V), NEW i, Loads(V, code[i])
    PROVE  Holds(HarvestStep(g, i), V)
<1> DEFINE s == HarvestStep(g, i)
           x == code[i].arg
           r == code[i].reg
<1>1. /\ LookForm(g) /\ g.n \in Nat /\ g.arg3 \in Seq(V) /\ g.near \in Seq(High(V)) /\ g.fns \in Seq(Low(V))
      /\ \A q \in DOMAIN g.last : g.last[q] \in V
  BY DEF Holds
<1>2. CASE code[i].op = "lea"
  <2>1. s = [last |-> Put(g.last, r, x), near |-> IF IsFn(x) THEN g.near ELSE <<x>> \o g.near,
             arg3 |-> IF r = "M" THEN <<x>> ELSE g.arg3, fns |-> g.fns, n |-> g.n]
    BY <1>1, <1>2, LookStepIs
  <2>2. x \in V
    BY <1>2 DEF Loads
  <2> HIDE DEF s, x, r
  <2>3. LookForm(s) /\ s.last = Put(g.last, r, x) /\ s.fns = g.fns /\ s.n = g.n
    BY <2>1 DEF LookForm
  <2>4. s.near \in Seq(High(V))
    <3>1. CASE IsFn(x)
      BY <1>1, <2>1, <3>1
    <3>2. CASE ~IsFn(x)
      <4>1. x \in High(V)
        BY <2>2, <3>2 DEF High
      <4>2. <<x>> \in Seq(High(V))
        BY <4>1
      <4>3. <<x>> \o g.near \in Seq(High(V))
        BY <1>1, <4>2, Joined
      <4>4. QED
        BY <2>1, <3>2, <4>3
    <3>3. QED
      BY <3>1, <3>2
  <2>5. s.arg3 \in Seq(V)
    BY <1>1, <2>1, <2>2
  <2>6. \A q \in DOMAIN s.last : s.last[q] \in V
    BY <1>1, <2>2, <2>3, PutHolds
  <2>7. Holds(s, V)
    BY <1>1, <2>3, <2>4, <2>5, <2>6 DEF Holds
  <2>8. QED
    BY <2>7 DEF s
<1>3. CASE code[i].op = "mov" /\ x \in DOMAIN g.last
  <2>1. s = [last |-> Put(g.last, r, g.last[x]), near |-> g.near,
             arg3 |-> IF r = "M" THEN <<g.last[x]>> ELSE g.arg3, fns |-> g.fns, n |-> g.n]
    BY <1>1, <1>3, LookStepIs
  <2>2. g.last[x] \in V
    BY <1>1, <1>3
  <2> HIDE DEF s, x, r
  <2>3. LookForm(s) /\ s.last = Put(g.last, r, g.last[x]) /\ s.near = g.near /\ s.fns = g.fns /\ s.n = g.n
    BY <2>1 DEF LookForm
  <2>4. s.arg3 \in Seq(V)
    BY <1>1, <2>1, <2>2
  <2>5. \A q \in DOMAIN s.last : s.last[q] \in V
    BY <1>1, <2>2, <2>3, PutHolds
  <2>6. Holds(s, V)
    BY <1>1, <2>3, <2>4, <2>5 DEF Holds
  <2>7. QED
    BY <2>6 DEF s
<1>4. CASE code[i].op = "store"
  <2>1. s = [last |-> g.last, near |-> g.near, arg3 |-> g.arg3,
             fns |-> IF r \in DOMAIN g.last /\ IsFn(g.last[r]) THEN Append(g.fns, g.last[r]) ELSE g.fns,
             n |-> g.n]
    BY <1>1, <1>4, LookStepIs
  <2> HIDE DEF s, r
  <2>2. LookForm(s) /\ s.last = g.last /\ s.near = g.near /\ s.arg3 = g.arg3 /\ s.n = g.n
    BY <2>1 DEF LookForm
  <2>3. s.fns \in Seq(Low(V))
    <3>1. CASE r \in DOMAIN g.last /\ IsFn(g.last[r])
      <4>1. g.last[r] \in Low(V)
        BY <1>1, <3>1 DEF Low
      <4>2. QED
        BY <1>1, <2>1, <3>1, <4>1
    <3>2. CASE ~(r \in DOMAIN g.last /\ IsFn(g.last[r]))
      BY <1>1, <2>1, <3>2
    <3>3. QED
      BY <3>1, <3>2
  <2>4. Holds(s, V)
    BY <1>1, <2>2, <2>3 DEF Holds
  <2>5. QED
    BY <2>4 DEF s
<1>5. CASE code[i].op = "count"
  <2>1. s = [last |-> g.last, near |-> g.near, arg3 |-> g.arg3, fns |-> g.fns, n |-> x]
    BY <1>1, <1>5, LookStepIs
  <2>2. x \in Nat
    BY <1>5 DEF Loads
  <2> HIDE DEF s, x
  <2>3. Holds(s, V)
    BY <1>1, <2>1, <2>2 DEF Holds, LookForm
  <2>4. QED
    BY <2>3 DEF s
<1>6. CASE code[i].op \notin {"lea", "mov", "store", "count"} \/ (code[i].op = "mov" /\ x \notin DOMAIN g.last)
  BY <1>1, <1>6, LookStepIs
<1>7. QED
  BY <1>2, <1>3, <1>4, <1>5, <1>6

LEMMA LookHolds ==
    ASSUME NEW V, NEW h, NEW a \in Nat \ {0}, NEW b \in Nat, Looks(h, a, b), NEW c \in Nat, c <= b, a - 1 <= c,
           \A i \in a..c : Loads(V, code[i])
    PROVE  Holds(h[c], V)
<1> DEFINE S(i) == Holds(h[i], V)
           T == {i \in a - 1..c : ~S(i)}
<1>1. T = {}
  <2>1. SUFFICES ASSUME T # {} PROVE FALSE
    OBVIOUS
  <2>2. PICK x \in T : \A y \in T : x <= y
    <3>1. T \subseteq Nat
      OBVIOUS
    <3> HIDE DEF T
    <3>2. QED
      BY <2>1, <3>1, SmallestNat, Zenon
  <2>3. x \in a - 1..c /\ ~S(x)
    OBVIOUS
  <2>4. S(a - 1)
    <3>1. h[a - 1] = [last |-> <<>>, near |-> <<>>, arg3 |-> <<>>, fns |-> <<>>, n |-> 0]
      BY DEF Looks
    <3>2. DOMAIN <<>> = {}
      OBVIOUS
    <3>3. <<>> \in Seq(V) /\ <<>> \in Seq(High(V)) /\ <<>> \in Seq(Low(V))
      OBVIOUS
    <3>4. QED
      BY <3>1, <3>2, <3>3 DEF Holds, LookForm
  <2>5. PICK y \in a - 1..c : x = y + 1
    <3>1. x # a - 1
      BY <2>3, <2>4
    <3>2. x - 1 \in a - 1..c /\ x = (x - 1) + 1
      BY <2>3, <3>1
    <3>3. QED
      BY <3>2
  <2>6. y \notin T
    <3> HIDE DEF T
    <3>1. QED
      BY <2>2, <2>5
  <2>7. S(y) /\ y = x - 1 /\ x \in a..c /\ x \in a..b
    BY <2>3, <2>5, <2>6
  <2> HIDE DEF T
  <2>8. h[x] = HarvestStep(h[x - 1], x)
    BY <2>7 DEF Looks
  <2>9. QED
    BY <2>3, <2>7, <2>8, HoldsStep
<1>2. S(c)
  <2>1. c \in a - 1..c
    OBVIOUS
  <2>2. ASSUME ~S(c) PROVE c \in T
    BY <2>1, <2>2
  <2> HIDE DEF T
  <2>3. QED
    BY <1>1, <2>2
<1>3. QED
  BY <1>2

\* The last instructions change nothing but the count.
Same(g, f) == LookForm(f) /\ f.near = g.near /\ f.arg3 = g.arg3 /\ f.fns = g.fns
LEMMA TrailStep ==
    ASSUME NEW g, LookForm(g), NEW k, NEW i, Trailing(k, code[i])
    PROVE  /\ Same(g, HarvestStep(g, i))
           /\ code[i] = Ins("count", "-", N(k)) => HarvestStep(g, i).n = N(k)
           /\ HarvestStep(g, i).n \in {g.n, N(k)}
<1>1. CASE code[i] = Ins("count", "-", N(k))
  <2>1. code[i].op = "count" /\ code[i].arg = N(k)
    BY <1>1, OpsOf
  <2>2. HarvestStep(g, i) = [last |-> g.last, near |-> g.near, arg3 |-> g.arg3, fns |-> g.fns, n |-> N(k)]
    <3>1. HarvestStep(g, i) = [last |-> g.last, near |-> g.near, arg3 |-> g.arg3, fns |-> g.fns, n |-> code[i].arg]
      BY <2>1, LookStepIs
    <3>2. QED
      BY <2>1, <3>1
  <2>3. QED
    BY <2>2 DEF Same, LookForm
<1>2. CASE code[i] = Ins("slot", "T", 0)
  <2>1. code[i].op = "slot"
    BY <1>2, OpsOf
  <2>2. HarvestStep(g, i) = g
    BY <2>1, LookStepIs
  <2>3. code[i] # Ins("count", "-", N(k))
    BY <2>1, OpsOf
  <2>4. QED
    BY <2>2, <2>3 DEF Same
<1>3. CASE code[i] = Ins("mov", "S", "T")
  <2>1. code[i].op = "mov" /\ code[i].reg = "S" /\ code[i].arg = "T"
    BY <1>3, OpsOf
  <2>2. code[i] # Ins("count", "-", N(k))
    BY <2>1, OpsOf
  <2>3. CASE "T" \in DOMAIN g.last
    <3>1. HarvestStep(g, i) = [last |-> Put(g.last, "S", g.last["T"]), near |-> g.near,
                               arg3 |-> g.arg3, fns |-> g.fns, n |-> g.n]
      <4>1. HarvestStep(g, i) = [last |-> Put(g.last, code[i].reg, g.last[code[i].arg]), near |-> g.near,
                                 arg3 |-> IF code[i].reg = "M" THEN <<g.last[code[i].arg]>> ELSE g.arg3,
                                 fns |-> g.fns, n |-> g.n]
        BY <2>1, <2>3, LookStepIs
      <4>2. QED
        BY <2>1, <4>1
    <3>2. QED
      BY <2>2, <3>1 DEF Same, LookForm
  <2>4. CASE "T" \notin DOMAIN g.last
    <3>1. HarvestStep(g, i) = g
      BY <2>1, <2>4, LookStepIs
    <3>2. QED
      BY <2>2, <3>1 DEF Same
  <2>5. QED
    BY <2>3, <2>4
<1>4. QED
  BY <1>1, <1>2, <1>3 DEF Trailing

\* So they do one after the other.
LEMMA LookTrail ==
    ASSUME NEW h, NEW a \in Nat \ {0}, NEW b \in Nat, Looks(h, a, b), NEW k, NEW f \in Nat, a - 1 <= f, f <= b,
           LookForm(h[f]), \A i \in f + 1..b : Trailing(k, code[i]),
           h[f].n = N(k) \/ (f < b /\ code[f + 1] = Ins("count", "-", N(k)))
    PROVE  Same(h[f], h[b]) /\ h[b].n = N(k)
<1> DEFINE S(i) == Same(h[f], h[i]) /\ (h[i].n = N(k) \/ i = f)
           T == {i \in f..b : ~S(i)}
<1>1. \A i \in f + 1..b : h[i] = HarvestStep(h[i - 1], i)
  BY DEF Looks
<1>2. T = {}
  <2>1. SUFFICES ASSUME T # {} PROVE FALSE
    OBVIOUS
  <2>2. PICK x \in T : \A y \in T : x <= y
    <3>1. T \subseteq Nat
      OBVIOUS
    <3> HIDE DEF T
    <3>2. QED
      BY <2>1, <3>1, SmallestNat, Zenon
  <2>3. x \in f..b /\ ~S(x)
    OBVIOUS
  <2>4. S(f)
    BY DEF Same
  <2>5. PICK y \in f..b : x = y + 1
    <3>1. x # f
      BY <2>3, <2>4
    <3>2. x - 1 \in f..b /\ x = (x - 1) + 1
      BY <2>3, <3>1
    <3>3. QED
      BY <3>2
  <2>6. y \notin T
    <3> HIDE DEF T
    <3>1. QED
      BY <2>2, <2>5
  <2>7. S(y) /\ y = x - 1 /\ x \in f + 1..b
    BY <2>3, <2>5, <2>6
  <2> HIDE DEF T
  <2>8. h[x] = HarvestStep(h[y], x) /\ Trailing(k, code[x]) /\ LookForm(h[y])
    BY <1>1, <2>7 DEF Same
  <2>9. Same(h[y], h[x]) /\ h[x].n \in {h[y].n, N(k)}
        /\ (code[x] = Ins("count", "-", N(k)) => h[x].n = N(k))
    BY <2>8, TrailStep
  <2>10. Same(h[f], h[x])
    BY <2>7, <2>9 DEF Same
  <2>11. h[x].n = N(k)
    <3>1. CASE y = f
      BY <2>5, <2>9, <3>1
    <3>2. CASE y # f
      BY <2>7, <2>9, <3>2
    <3>3. QED
      BY <3>1, <3>2
  <2>12. QED
    BY <2>3, <2>10, <2>11
<1>3. S(b)
  <2>1. b \in f..b
    OBVIOUS
  <2>2. ASSUME ~S(b) PROVE b \in T
    BY <2>1, <2>2
  <2> HIDE DEF T
  <2>3. QED
    BY <1>2, <2>2
<1>4. QED
  BY <1>3

-----------------------------------------------------------------------------
(* What can be read of the image.                                           *)

LEMMA ItemIn ==
    ASSUME NEW S, NEW s \in Seq(S), NEW i \in DOMAIN s
    PROVE  s[i] \in S
OBVIOUS

LEMMA SeqIsFun ==
    ASSUME NEW S, NEW s \in Seq(S), NEW n, n = Len(s)
    PROVE  s = [i \in 1..n |-> s[i]]
OBVIOUS

\* What can be read of the image
Undecodable(v) == \A n \in Nat : Decoded(v, n) = <<>>

\* The image is a sequence of rows.
LEMMA ImageTyped ==
    ASSUME Fits, image = ImageOf(layout, jar, truth)
    PROVE  image \in Seq(Row)
<1> DEFINE s == [k \in DOMAIN layout |-> Segment(layout, jar, truth, k)]
<1>1. PICK n \in Nat : n = Len(layout) /\ DOMAIN layout = 1..n
  BY DEF Fits
<1>2. \A k \in 1..n : s[k] \in Seq(Row)
  BY <1>1, SegmentIs DEF Segm
<1>3. s = [k \in 1..n |-> s[k]]
  BY <1>1
<1>4. image = Flat(s)
  BY DEF ImageOf
<1> HIDE DEF s
<1>5. s \in Seq(Seq(Row))
  BY <1>2, <1>3, IsSequence
<1>6. QED
  BY <1>4, <1>5, FlattenTyped DEF Flat

\* The address of a function is not that of a table.
LEMMA FnUndecodable ==
    ASSUME image \in Seq(Row), NEW v \in Addr
    PROVE  Undecodable(v)
<1>1. SUFFICES ASSUME NEW n \in Nat, Decoded(v, n) # <<>> PROVE FALSE
  BY DEF Undecodable
<1>2. n > 0 /\ \A i \in 1..n : v - TableBase + i \in DOMAIN image
  BY <1>1 DEF Decoded
<1>3. v - TableBase + 1 \in DOMAIN image
  BY <1>2
<1>4. v \in Nat /\ v < TableBase /\ TableBase \in Nat
  BY FnsAreLow, TablesAssumption
<1>5. v - TableBase + 1 \notin 1..Len(image)
  BY <1>4
<1>6. DOMAIN image = 1..Len(image)
  OBVIOUS
<1>7. QED
  BY <1>3, <1>5, <1>6

\* A table that is encrypted cannot be read.
LEMMA EncryptedUndecodable ==
    ASSUME Fits, NEW io, ImageIs(io), NEW k \in DOMAIN layout, layout[k].form = "encrypted"
    PROVE  Undecodable(Tab(k))
<1>1. SUFFICES ASSUME NEW n \in Nat, Decoded(Tab(k), n) # <<>> PROVE FALSE
  BY DEF Undecodable
<1>2. n > 0 /\ \A i \in 1..n : image[Tab(k) - TableBase + i].method # NoMethod
  BY <1>1 DEF Decoded
<1>3. image[Tab(k) - TableBase + 1].method # NoMethod
  BY <1>2
<1>4. io[k] \in Nat /\ Tab(k) = TableBase + io[k] /\ TableBase \in Nat
  BY TablesAssumption DEF ImageIs, Fits
<1>5. Tab(k) - TableBase + 1 = io[k] + 1
  BY <1>4
<1>6. Len(Segm(k)) = N(k) /\ 1 \in 1..N(k) /\ Segm(k)[1].method = NoMethod
  <2>1. N(k) \in Nat \ {0}
    BY RowsFit
  <2>2. 1 \in 1..N(k)
    BY <2>1
  <2>3. QED
    BY <2>2, SegmentIs
<1>7. image[io[k] + 1] = Segm(k)[1]
  BY <1>6 DEF ImageIs
<1>8. QED
  BY <1>3, <1>5, <1>6, <1>7

\* Any other can, and gives the rows of the class.
LEMMA ReadableDecodes ==
    ASSUME Fits, NEW io, ImageIs(io), NEW k \in DOMAIN layout, layout[k].form \in {"static", "moved"}
    PROVE  Decoded(Tab(k), N(k)) =
                [i \in 1..N(k) |-> [method |-> jar[layout[k].class][i], fn |-> Rows(layout[k].class)[i]]]
<1> DEFINE n == N(k)
           row(i) == Tab(k) - TableBase + i
           c == layout[k].class
<1>1. io[k] \in Nat /\ Tab(k) = TableBase + io[k] /\ TableBase \in Nat /\ n \in Nat \ {0}
  BY TablesAssumption, RowsFit DEF ImageIs, Fits
<1>2. Len(Segm(k)) = n
  BY SegmentIs
<1>3. ASSUME NEW i \in 1..n
      PROVE  row(i) \in DOMAIN image /\ image[row(i)] = [method |-> jar[c][i], fn |-> Rows(c)[i]]
             /\ jar[c][i] \in Method
  <2> HIDE DEF n
  <2>1. row(i) = io[k] + i
    BY <1>1
  <2> HIDE DEF row
  <2>2. io[k] + i \in DOMAIN image /\ image[io[k] + i] = Segm(k)[i]
    BY <1>2 DEF ImageIs
  <2>3. Segm(k)[i] = [method |-> jar[c][i], fn |-> Rows(c)[i]]
    BY SegmentIs DEF n
  <2>4. jar[c] \in Seq(Method) /\ DOMAIN jar[c] = 1..n
    BY RowsFit DEF n
  <2>5. jar[c][i] \in Method
    BY <2>4, ItemIn
  <2>6. QED
    BY <2>1, <2>2, <2>3, <2>5
<1>4. \A i \in 1..n : row(i) \in DOMAIN image /\ image[row(i)].method # NoMethod
  <2> HIDE DEF row, n, c
  <2>1. NoMethod \notin Method
    BY MergeAssumption
  <2>2. SUFFICES ASSUME NEW i \in 1..n PROVE row(i) \in DOMAIN image /\ image[row(i)].method # NoMethod
    OBVIOUS
  <2>3. row(i) \in DOMAIN image /\ image[row(i)] = [method |-> jar[c][i], fn |-> Rows(c)[i]] /\ jar[c][i] \in Method
    BY <1>3
  <2>4. image[row(i)].method = jar[c][i]
    BY <2>3
  <2>5. QED
    BY <2>1, <2>3, <2>4
<1>5. n > 0
  BY <1>1
<1>6. Decoded(Tab(k), n) = [i \in 1..n |-> image[row(i)]]
  <2> HIDE DEF n
  <2>1. QED
    BY <1>4, <1>5 DEF Decoded
<1>7. [i \in 1..n |-> image[row(i)]] = [i \in 1..n |-> [method |-> jar[c][i], fn |-> Rows(c)[i]]]
  <2> HIDE DEF row, n, c
  <2>1. QED
    BY <1>3
<1>8. QED
  BY <1>6, <1>7

\* What a harvest gives of what was held at the call
LEMMA HarvestUnread ==
    ASSUME NEW site, NEW g, Looked(site) = g, g.n \in Nat, NEW V, \A v \in V : Undecodable(v),
           g.arg3 \in Seq(V), g.near \in Seq(V)
    PROVE  /\ Harvest(site).methods = <<>> /\ Harvest(site).n = g.n /\ Harvest(site).arg3 = g.arg3
           /\ Harvest(site).addrs = IF g.n > 0 THEN LastN(Distinct(g.fns), g.n) ELSE Distinct(g.fns)
<1> DEFINE tried == g.arg3 \o g.near
           readable == {i \in DOMAIN tried : Decoded(tried[i], g.n) # <<>>}
<1>1. tried \in Seq(V)
  BY Joined
<1>2. readable = {}
  <2> HIDE DEF tried
  <2>1. \A i \in DOMAIN tried : tried[i] \in V
    BY <1>1, ItemIn
  <2>2. QED
    BY <2>1 DEF Undecodable
<1>3. [i \in DOMAIN <<>> |-> <<>>[i].method] = <<>> /\ [i \in DOMAIN <<>> |-> <<>>[i].fn] = <<>>
  OBVIOUS
<1> DEFINE rows == IF readable = {} THEN <<>> ELSE Decoded(tried[Min(readable)], g.n)
<1>4. Harvest(site) =
        [addrs |-> IF rows # <<>> THEN [i \in DOMAIN rows |-> rows[i].fn]
                   ELSE IF g.n > 0 THEN LastN(Distinct(g.fns), g.n) ELSE Distinct(g.fns),
         methods |-> [i \in DOMAIN rows |-> rows[i].method], n |-> g.n, arg3 |-> g.arg3]
  BY DEF Harvest
<1>5. rows = <<>>
  BY <1>2
<1> HIDE DEF rows
<1>6. QED
  BY <1>3, <1>4, <1>5

\* What the register of the third argument holds can be read.
LEMMA HarvestRead ==
    ASSUME Fits, NEW io, ImageIs(io), NEW k \in DOMAIN layout, layout[k].form \in {"static", "moved"},
           NEW site, NEW g, Looked(site) = g, g.arg3 = <<Tab(k)>>, g.n = N(k), NEW V, g.near \in Seq(V)
    PROVE  /\ Harvest(site).methods = jar[layout[k].class] /\ Harvest(site).n = N(k)
           /\ Harvest(site).addrs = Rows(layout[k].class)
<1> DEFINE tried == g.arg3 \o g.near
           readable == {i \in DOMAIN tried : Decoded(tried[i], g.n) # <<>>}
           rows == IF readable = {} THEN <<>> ELSE Decoded(tried[Min(readable)], g.n)
           c == layout[k].class
           d == [i \in 1..N(k) |-> [method |-> jar[c][i], fn |-> Rows(c)[i]]]
<1>1. Harvest(site) =
        [addrs |-> IF rows # <<>> THEN [i \in DOMAIN rows |-> rows[i].fn]
                   ELSE IF g.n > 0 THEN LastN(Distinct(g.fns), g.n) ELSE Distinct(g.fns),
         methods |-> [i \in DOMAIN rows |-> rows[i].method], n |-> g.n, arg3 |-> g.arg3]
  BY DEF Harvest
<1>2. tried[1] = Tab(k) /\ 1 \in DOMAIN tried /\ DOMAIN tried \subseteq Nat \ {0}
  <2>1. PICK t : t = g.arg3 \o g.near
    OBVIOUS
  <2>2. Len(g.arg3) = 1 /\ g.arg3[1] = Tab(k) /\ g.arg3 \in Seq({Tab(k)})
    OBVIOUS
  <2>3. g.arg3 \in Seq(V \cup {Tab(k)}) /\ g.near \in Seq(V \cup {Tab(k)})
    BY Widens
  <2>4. t \in Seq(V \cup {Tab(k)}) /\ Len(t) = Len(g.arg3) + Len(g.near) /\ Len(g.near) \in Nat
        /\ \A j \in 1..Len(g.arg3) : t[j] = g.arg3[j]
    BY <2>1, <2>3, TwoJoined
  <2>5. Len(t) = 1 + Len(g.near) /\ t[1] = Tab(k)
    BY <2>2, <2>4
  <2>6. DOMAIN t = 1..Len(t) /\ 1 \in 1..Len(t)
    BY <2>4, <2>5
  <2>7. QED
    BY <2>1, <2>5, <2>6
<1>3. Decoded(Tab(k), N(k)) = d
  BY ReadableDecodes
<1>4. /\ N(k) \in Nat \ {0} /\ jar[c] \in Seq(Method) /\ Len(jar[c]) = N(k) /\ DOMAIN jar[c] = 1..N(k)
      /\ Rows(c) \in Seq(Addr) /\ Len(Rows(c)) = N(k)
  BY RowsFit DEF N
<1>5. d # <<>>
  <2>1. DOMAIN d = 1..N(k) /\ 1 \in 1..N(k)
    BY <1>4
  <2> HIDE DEF d
  <2>2. DOMAIN <<>> = {}
    OBVIOUS
  <2>3. QED
    BY <2>1, <2>2
<1> HIDE DEF tried, d
<1>6. 1 \in readable
  BY <1>2, <1>3, <1>5
<1>7. Min(readable) = 1
  <2>1. readable \subseteq Nat \ {0}
    BY <1>2
  <2> HIDE DEF readable
  <2>2. \A y \in readable : 1 <= y
    BY <2>1
  <2>3. \A x \in readable : (\A y \in readable : x <= y) => x = 1
    BY <1>6, <2>1
  <2>4. QED
    BY <1>6, <2>2, <2>3 DEF Min
<1>8. rows = d
  BY <1>2, <1>3, <1>6, <1>7
<1> HIDE DEF rows, readable
<1>9. Harvest(site).addrs = [i \in DOMAIN d |-> d[i].fn] /\ Harvest(site).methods = [i \in DOMAIN d |-> d[i].method]
      /\ Harvest(site).n = N(k)
  BY <1>1, <1>5, <1>8
<1>10. [i \in DOMAIN d |-> d[i].fn] = Rows(c) /\ [i \in DOMAIN d |-> d[i].method] = jar[c]
  <2>1. DOMAIN d = 1..N(k) /\ \A i \in 1..N(k) : d[i].fn = Rows(c)[i] /\ d[i].method = jar[c][i]
    BY DEF d
  <2>2. DOMAIN Rows(c) = 1..N(k)
    BY <1>4
  <2>3. Rows(c) = [i \in 1..N(k) |-> Rows(c)[i]] /\ jar[c] = [i \in 1..N(k) |-> jar[c][i]]
    BY <1>4, SeqIsFun
  <2> HIDE DEF c
  <2>4. [i \in DOMAIN d |-> d[i].fn] = [i \in 1..N(k) |-> Rows(c)[i]]
        /\ [i \in DOMAIN d |-> d[i].method] = [i \in 1..N(k) |-> jar[c][i]]
    BY <2>1
  <2>5. QED
    BY <2>3, <2>4
<1>11. QED
  BY <1>9, <1>10

\* What the second pass says of a call
LEMMA TablesOf ==
    ASSUME strategy = "per_class", NEW site, NEW H, H = Harvest(site)
    PROVE  TablesAt(site) =
                IF H.addrs # <<>>
                THEN <<Found(IF H.methods = <<>> THEN "stack" ELSE "static", H.methods, H.addrs, H.n)>>
                ELSE IF H.arg3 # <<>> /\ H.n > 0 THEN <<Found("unreadable", <<>>, <<>>, H.n)>>
                ELSE <<>>
BY DEF TablesAt

-----------------------------------------------------------------------------
(* What the look back from a call passes.                                   *)

\* A library of registrations the harvest is made for
Follows(off, io) ==
    Fits /\ CodeIs(off) /\ ImageIs(io) /\ image \in Seq(Row) /\ AllPlain

\* In such a library every registration is tame and has natives of its own.
LEMMA FollowsIs ==
    ASSUME NEW off, NEW io, Follows(off, io), NEW k \in 1..Len(layout)
    PROVE  /\ k \in DOMAIN layout /\ layout[k] \in RegistrationType /\ Tab(k) \in Nat /\ Tame(k)
           /\ layout[k].call \in {"call", "split", "veneer"} /\ layout[k].count \in {"before", "after"}
           /\ Plain(k) /\ Alone(k)
<1>1. k \in DOMAIN layout
  BY DEF Follows, Fits
<1>2. Plain(k) /\ Alone(k)
  BY <1>1 DEF Follows, AllPlain
<1>3. layout[k] \in RegistrationType
  BY <1>1, RowsFit DEF Follows
<1>4. Tab(k) \in Nat
  <2>1. io[k] \in Nat /\ Tab(k) = TableBase + io[k]
    BY <1>1 DEF Follows, ImageIs, Fits
  <2>2. QED
    BY <2>1, TablesAssumption
<1>5. layout[k].call \in {"call", "split", "veneer"} /\ layout[k].count # "none" /\ layout[k].noise # "after"
      /\ layout[k].gap # "data"
  BY <1>2 DEF Plain
<1>6. layout[k].count \in {"before", "after"}
  BY <1>3, <1>5 DEF RegistrationType
<1>7. Tame(k)
  BY <1>5 DEF Tame
<1>8. QED
  BY <1>1, <1>2, <1>3, <1>4, <1>5, <1>6, <1>7

\* The instructions the look back from call k passes
Start(off, k) == Back(off[k + 1], Window)

\* How long a registration is without its gap.
LEMMA BodyLength ==
    ASSUME NEW off, NEW io, Follows(off, io), NEW k \in 1..Len(layout)
    PROVE  off[k + 1] = GapTo(off, k) + Len(BodyOf(layout, jar, truth, k))
<1>1. Fits /\ CodeIs(off) /\ k \in DOMAIN layout /\ Tab(k) \in Nat
  BY FollowsIs DEF Follows
<1>2. BodyOf(layout, jar, truth, k) = (Opening(k) \o Filling(k)) \o Closing(k)
  BY DEF BodyOf, Opening, Filling, Closing
<1>3. Gap(k) \in Seq(InsType) /\ Opening(k) \in Seq(InsType)
      /\ Filling(k) \in Seq(InsType) /\ Closing(k) \in Seq(InsType)
  BY <1>1, PartsTyped
<1>4. Len(BodyOf(layout, jar, truth, k)) = Len(Opening(k)) + Len(Filling(k)) + Len(Closing(k))
  <2>1. PICK r : r = Gap(k) \o ((Opening(k) \o Filling(k)) \o Closing(k))
    OBVIOUS
  <2>2. Len((Opening(k) \o Filling(k)) \o Closing(k)) = Len(Opening(k)) + Len(Filling(k)) + Len(Closing(k))
    BY <1>3, <2>1, FourJoined
  <2>3. QED
    BY <1>2, <2>2
<1>5. off[k + 1] = FillTo(off, k) + Len(Closing(k))
  BY <1>1 DEF CodeIs
<1>6. GapTo(off, k) \in Nat /\ Len(Opening(k)) \in Nat /\ Len(Filling(k)) \in Nat /\ Len(Closing(k)) \in Nat
  BY <1>1, <1>3, Borders
<1>7. QED
  BY <1>4, <1>5, <1>6 DEF FillTo, FillFrom

LEMMA LeastOfTwo ==
    ASSUME NEW x \in Nat, NEW y \in Nat
    PROVE  Min({x, y}) = IF x <= y THEN x ELSE y
<1>1. CASE x <= y
  <2>1. x \in {x, y} /\ \A z \in {x, y} : x <= z
    BY <1>1
  <2>2. \A m \in {x, y} : (\A z \in {x, y} : m <= z) => m = x
    BY <1>1
  <2>3. QED
    BY <1>1, <2>1, <2>2 DEF Min
<1>2. CASE ~(x <= y)
  <2>1. y \in {x, y} /\ \A z \in {x, y} : y <= z
    BY <1>2
  <2>2. \A m \in {x, y} : (\A z \in {x, y} : m <= z) => m = y
    BY <1>2
  <2>3. QED
    BY <1>2, <2>1, <2>2 DEF Min
<1>3. QED
  BY <1>1, <1>2

\* The look back starts at an instruction before the call or at the call, no
\* earlier than the window and no later than the instructions it misses allow.
LEMMA BackIs ==
    ASSUME Fits, DOMAIN code = 1..Len(code), Len(code) \in Nat,
           NEW e \in 1..Len(code), NEW w \in Nat
    PROVE  \E a \in Nat \ {0} :
               /\ a = Back(e, w) /\ a - 1 <= e - 1 /\ e - 1 \in Nat
               /\ \A m \in Nat : m + w < e => m < a
               /\ \A l \in Nat : l <= e /\ (\A i \in DOMAIN code : l + skew[i] <= w + 1) => a + l <= e + 1
<1>1. CASE e > w
  <2>1. PICK b \in Nat \ {0} : b = e - w /\ b \in DOMAIN code
    BY <1>1
  <2>2. PICK k \in Nat : k = skew[b]
    BY <2>1 DEF Fits
  <2>3. Back(e, w) = Min({e, b + k})
    BY <1>1, <2>1, <2>2 DEF Back
  <2>4. PICK a \in Nat \ {0} : a = Back(e, w) /\ a = IF e <= b + k THEN e ELSE b + k
    BY <2>1, <2>2, <2>3, LeastOfTwo
  <2>5. a - 1 <= e - 1 /\ e - 1 \in Nat /\ \A m \in Nat : m + w < e => m < a
    BY <1>1, <2>1, <2>2, <2>4
  <2>6. ASSUME NEW l \in Nat, l <= e, \A i \in DOMAIN code : l + skew[i] <= w + 1
        PROVE  a + l <= e + 1
    <3>1. l + k <= w + 1
      BY <2>1, <2>2, <2>6
    <3>2. QED
      BY <1>1, <2>1, <2>2, <2>4, <3>1
  <2>7. QED
    BY <2>4, <2>5, <2>6
<1>2. CASE ~(e > w)
  <2>1. 1 \in Nat \ {0} /\ 1 - 1 <= e - 1 /\ e - 1 \in Nat /\ Back(e, w) = 1
    BY <1>2 DEF Back
  <2>2. \A m \in Nat : m + w < e => m < 1
    BY <1>2
  <2>3. \A l \in Nat : l <= e => 1 + l <= e + 1
    OBVIOUS
  <2>4. QED
    BY <2>1, <2>2, <2>3
<1>3. QED
  BY <1>1, <1>2

\* The look back reaches the start of the registration.
LEMMA WindowIs ==
    ASSUME NEW off, NEW io, Follows(off, io), NEW k \in 1..Len(layout)
    PROVE  /\ off[k] \in Nat /\ off[k + 1] \in Nat \ {0} /\ Start(off, k) \in Nat \ {0}
           /\ GapTo(off, k) \in Nat /\ FillFrom(off, k) \in Nat /\ FillTo(off, k) \in Nat
           /\ Start(off, k) - 1 <= GapTo(off, k) /\ GapTo(off, k) <= FillFrom(off, k)
           /\ FillFrom(off, k) <= FillTo(off, k) /\ FillTo(off, k) <= off[k + 1] - 1
           /\ off[k] <= GapTo(off, k)
           /\ off[k + 1] <= Len(code) /\ Len(code) \in Nat
           /\ \A m \in Nat : m + Window < off[k + 1] => m < Start(off, k)
<1>1. Fits /\ CodeIs(off) /\ k \in DOMAIN layout /\ Tab(k) \in Nat /\ Tame(k) /\ Plain(k)
      /\ layout[k].call \in {"call", "split", "veneer"}
  BY FollowsIs DEF Follows
<1>2. PICK e \in Nat : e = off[k + 1] /\ e <= Len(code) /\ Len(code) \in Nat
  BY <1>1, Borders
<1>3. PICK g \in Nat : g = GapTo(off, k)
  BY <1>1, Borders
<1>4. PICK l \in Nat : l = Len(BodyOf(layout, jar, truth, k)) /\ e = g + l
                      /\ \A i \in DOMAIN code : l + skew[i] <= Window + 1
  <2>1. e = g + Len(BodyOf(layout, jar, truth, k))
        /\ \A i \in DOMAIN code : Len(BodyOf(layout, jar, truth, k)) + skew[i] <= Window + 1
    BY <1>1, <1>2, <1>3, BodyLength DEF Plain
  <2>2. Len(BodyOf(layout, jar, truth, k)) \in Nat
    <3>1. BodyOf(layout, jar, truth, k) = (Opening(k) \o Filling(k)) \o Closing(k)
      BY DEF BodyOf, Opening, Filling, Closing
    <3>2. Opening(k) \in Seq(InsType) /\ Filling(k) \in Seq(InsType) /\ Closing(k) \in Seq(InsType)
      BY <1>1, PartsTyped
    <3>3. (Opening(k) \o Filling(k)) \o Closing(k) \in Seq(InsType)
      BY <3>2, Joined
    <3>4. QED
      BY <3>1, <3>3
  <2>3. QED
    BY <2>1, <2>2
<1>5. PICK f \in Nat : f = FillTo(off, k)
  BY <1>1, Borders
<1>6. f < e
  <2>1. Ends(off, k)
    BY <1>1, InClosing
  <2>2. f < e \/ f < e - 1 \/ f < e - 2
    BY <1>1, <1>2, <1>5, <2>1 DEF Ends
  <2>3. QED
    BY <2>2
<1>7. PICK w \in Nat : w = Window
  BY TablesAssumption
<1>9. PICK a \in Nat \ {0} : a = Start(off, k) /\ a - 1 <= g /\ \A m \in Nat : m + w < e => m < a
  <2>1. e \in 1..Len(code)
    BY <1>2, <1>6
  <2>2. DOMAIN code = 1..Len(code)
    BY <1>1 DEF CodeIs
  <2>3. PICK a \in Nat \ {0} :
            /\ a = Back(e, w) /\ \A m \in Nat : m + w < e => m < a
            /\ \A q \in Nat : q <= e /\ (\A i \in DOMAIN code : q + skew[i] <= w + 1) => a + q <= e + 1
    BY <1>1, <1>2, <2>1, <2>2, BackIs
  <2>4. \A i \in DOMAIN code : l + skew[i] <= w + 1
    BY <1>4, <1>7
  <2>5. e = g + l /\ l <= e
    BY <1>2, <1>3, <1>4
  <2>6. a + l <= e + 1
    BY <2>3, <2>4, <2>5, Zenon
  <2>7. a - 1 <= g
    BY <1>2, <2>5, <2>6
  <2>8. QED
    BY <1>2, <1>7, <2>3, <2>7 DEF Start
<1>10. e # 0 /\ f <= e - 1
  BY <1>6
<1>11. /\ off[k] \in Nat /\ FillFrom(off, k) \in Nat /\ GapTo(off, k) <= FillFrom(off, k)
       /\ FillFrom(off, k) <= FillTo(off, k) /\ off[k] <= GapTo(off, k)
  BY <1>1, Borders
<1>12. QED
  BY <1>2, <1>3, <1>5, <1>7, <1>9, <1>10, <1>11

\* Where a far gap lies before call k the look back does not pass it.
LEMMA GapCuts ==
    ASSUME NEW off, NEW io, Follows(off, io), NEW k \in 1..Len(layout), NEW m \in 1..k, layout[m].gap = "far"
    PROVE  off[m] < Start(off, k)
<1>1. m \in 1..Len(layout) /\ m + 1 \in 1..Len(layout) + 1 /\ k + 1 \in 1..Len(layout) + 1 /\ m + 1 <= k + 1
  BY DEF Follows, Fits
<1>2. off[m + 1] <= off[k + 1]
  BY <1>1 DEF Follows, CodeIs
<1>3. Len(Gap(m)) = Window
  BY <1>1, FollowsIs, GapIs
<1>4. PICK w \in Nat : w = Window
  BY TablesAssumption
<1>5. PICK o \in Nat : o = off[m]
  BY <1>1, WindowIs
<1>6. PICK p \in Nat : p = off[m + 1]
  BY <1>1, WindowIs
<1>7. PICK q \in Nat : q = off[k + 1]
  BY <1>1, WindowIs
<1>8. GapTo(off, m) = o + w
  BY <1>3, <1>4, <1>5 DEF GapTo
<1>9. o + w < p
  <2>1. PICK x \in Nat : x = FillFrom(off, m)
    BY <1>1, WindowIs
  <2>2. PICK y \in Nat : y = FillTo(off, m)
    BY <1>1, WindowIs
  <2>3. o + w <= x /\ x <= y /\ y <= p - 1
    BY <1>1, <1>6, <1>8, <2>1, <2>2, WindowIs
  <2>4. QED
    BY <2>3
<1>10. o + w < q
  BY <1>2, <1>6, <1>7, <1>9
<1>11. QED
  BY <1>4, <1>5, <1>7, <1>10, WindowIs

\* What it passes belongs to registration k or to one near it.
LEMMA InWindow ==
    ASSUME NEW off, NEW io, Follows(off, io), NEW k \in 1..Len(layout),
           NEW i \in Nat, Start(off, k) <= i, i < off[k + 1]
    PROVE  \E l \in 1..k : /\ l = k \/ Near(l, k)
                           /\ off[l] < i /\ i <= off[l + 1]
                           /\ Quiet(l, code[i]) \/ code[i].op \in {"call", "branch"}
<1>1. Len(layout) \in Nat /\ Start(off, k) \in Nat \ {0} /\ off[k + 1] \in Nat
      /\ off[k + 1] <= Len(code) /\ Len(code) \in Nat
  BY WindowIs DEF Follows, Fits
<1>2. i \in 1..Len(code)
  BY <1>1
<1>3. PICK l \in 1..Len(layout) : off[l] < i /\ i <= off[l + 1]
  BY <1>2 DEF Follows, CodeIs
<1>4. off[l] \in Nat /\ off[l + 1] \in Nat
  BY WindowIs
<1>5. l <= k
  <2>1. SUFFICES ASSUME ~(l <= k) PROVE FALSE
    OBVIOUS
  <2>2. k + 1 <= l /\ k + 1 \in 1..Len(layout) + 1 /\ l \in 1..Len(layout) + 1
    BY <1>1, <2>1
  <2>3. off[k + 1] <= off[l]
    BY <2>2 DEF Follows, CodeIs
  <2>4. QED
    BY <1>1, <1>3, <1>4, <2>3
<1>6. l = k \/ Near(l, k)
  <2>1. SUFFICES ASSUME l # k, ~Near(l, k) PROVE FALSE
    OBVIOUS
  <2>2. PICK m \in l + 1..k : layout[m].gap = "far"
    BY <1>5, <2>1 DEF Near
  <2>3. m \in 1..k /\ l + 1 <= m /\ l + 1 \in 1..Len(layout) + 1 /\ m \in 1..Len(layout) + 1
    BY <1>1, <2>2
  <2>4. off[l + 1] <= off[m]
    BY <2>3 DEF Follows, CodeIs
  <2>5. off[m] < Start(off, k)
    BY <2>2, <2>3, GapCuts
  <2>6. off[m] \in Nat
    BY <2>3, WindowIs
  <2>7. QED
    BY <1>1, <1>3, <1>4, <2>4, <2>5, <2>6
<1>7. Quiet(l, code[i]) \/ code[i].op \in {"call", "branch"}
  <2>1. Fits /\ CodeIs(off) /\ Tab(l) \in Nat /\ Tame(l) /\ layout[l].call \in {"call", "split", "veneer"}
    BY FollowsIs DEF Follows
  <2>2. Quiet(l, code[i]) \/ i = off[l + 1]
    BY <1>3, <2>1, InBlock
  <2>3. Ends(off, l)
    BY <2>1, InClosing
  <2>4. code[off[l + 1]].op \in {"call", "branch"}
    BY <2>1, <2>3, EndOps
  <2>5. QED
    BY <2>2, <2>4
<1>8. QED
  BY <1>3, <1>5, <1>6, <1>7

\* What an instruction of a registration loads
LEMMA QuietLoads ==
    ASSUME NEW l, NEW x, Quiet(l, x) \/ x.op \in {"call", "branch"}, N(l) \in Nat
    PROVE  /\ x.op = "count" => x.arg \in Nat
           /\ x.op = "lea" =>
                \/ x.arg = Callback /\ layout[l].noise = "before"
                \/ layout[l].form = "stack" /\ \E q \in 1..N(l) : x.arg = Rows(layout[l].class)[q]
                \/ layout[l].form \in {"moved", "static", "encrypted"} /\ x.arg = Tab(l)
<1>1. CASE x.op \in {"call", "branch"} \/ x.op = "nop"
  BY <1>1
<1>2. CASE x = Ins("lea", "T", Callback) /\ layout[l].noise = "before"
  BY <1>2, OpsOf
<1>3. CASE x = Ins("count", "-", N(l))
  <2>1. x.op = "count" /\ x.arg = N(l)
    BY <1>3, OpsOf
  <2>2. QED
    BY <2>1
<1>4. CASE layout[l].form = "stack" /\ \E q \in 1..N(l) : x = Ins("lea", "T", Rows(layout[l].class)[q])
  <2>1. PICK q \in 1..N(l) : x = Ins("lea", "T", Rows(layout[l].class)[q])
    BY <1>4
  <2>2. x.op = "lea" /\ x.arg = Rows(layout[l].class)[q]
    BY <2>1, OpsOf
  <2>3. QED
    BY <1>4, <2>2
<1>5. CASE layout[l].form \in {"moved", "static", "encrypted"} /\ \E r : x = Ins("lea", r, Tab(l))
  <2>1. x.op = "lea" /\ x.arg = Tab(l)
    BY <1>5, OpsOf
  <2>2. QED
    BY <1>5, <2>1
<1>6. CASE x \in {Ins("store", "T", 0), Ins("slot", "T", 0), Ins("mov", "S", "T"), Ins("mov", "M", "T")}
  <2>1. x.op \in {"store", "slot", "mov"}
    BY <1>6, OpsOf
  <2>2. QED
    BY <2>1
<1>7. QED
  BY <1>1, <1>2, <1>3, <1>4, <1>5, <1>6 DEF Quiet

\* The walk of the look back from call k
Follow(h, off, k) ==
    /\ Looks(h, Start(off, k), off[k + 1] - 1)
    /\ Looked(off[k + 1]) = h[off[k + 1] - 1]

\* There is such a walk.
LEMMA FollowThere ==
    ASSUME NEW off, NEW io, Follows(off, io), NEW k \in 1..Len(layout)
    PROVE  \E h : Follow(h, off, k)
<1>1. PICK e \in Nat \ {0} : e = off[k + 1] /\ e <= Len(code) /\ Len(code) \in Nat
  BY WindowIs
<1>2. PICK a \in Nat \ {0} : a = Start(off, k) /\ a = Back(e, Window)
  BY <1>1, WindowIs DEF Start
<1>3. PICK b \in Nat : b = e - 1
  BY <1>1
<1>4. a - 1 <= b
  <2>1. PICK g \in Nat : g = GapTo(off, k)
    BY WindowIs
  <2>2. PICK f \in Nat : f = FillFrom(off, k)
    BY WindowIs
  <2>3. PICK t \in Nat : t = FillTo(off, k)
    BY WindowIs
  <2>4. a - 1 <= g /\ g <= f /\ f <= t /\ t <= b
    BY <1>1, <1>2, <1>3, <2>1, <2>2, <2>3, WindowIs
  <2>5. QED
    BY <2>4
<1>5. \A i \in a..b : code[i].op # "data"
  <2>1. \A i \in 1..Len(code) : code[i].op # "data"
    <3>1. Fits /\ CodeIs(off) /\ \A l \in 1..Len(layout) : Tab(l) \in Nat /\ Tame(l)
      BY FollowsIs DEF Follows
    <3>2. QED
      BY <3>1, NoData
  <2>2. \A i \in a..b : i \in 1..Len(code)
    BY <1>1, <1>3
  <2>3. QED
    BY <2>1, <2>2
<1>6. PICK h : Looks(h, a, b) /\ Looked(e) = h[b]
  BY <1>2, <1>3, <1>4, <1>5, LookedWalks
<1>7. QED
  BY <1>1, <1>2, <1>3, <1>6 DEF Follow

\* The part of the walk before the table of k is filled
LEMMA BeforeFilling ==
    ASSUME NEW off, NEW io, Follows(off, io), NEW k \in 1..Len(layout), NEW h, Follow(h, off, k),
           NEW V, Callback \in V \/ (layout[k].noise # "before" /\ \A l \in 1..k - 1 : ~Near(l, k)),
           \A l \in 1..k - 1 : Near(l, k) =>
                /\ layout[l].form = "stack" => \A q \in 1..N(l) : Rows(layout[l].class)[q] \in V
                /\ layout[l].form \in {"moved", "static", "encrypted"} => Tab(l) \in V
    PROVE  /\ Holds(h[FillFrom(off, k)], V)
           /\ layout[k].count = "before" => h[FillFrom(off, k)].n = N(k)
<1>1. PICK a \in Nat \ {0} : a = Start(off, k)
  BY WindowIs
<1>2. PICK g \in Nat : g = GapTo(off, k)
  BY WindowIs
<1>3. PICK f \in Nat : f = FillFrom(off, k)
  BY WindowIs
<1>4. PICK e \in Nat \ {0} : e = off[k + 1]
  BY WindowIs
<1>5. PICK b \in Nat : b = e - 1
  BY <1>4
<1>6. a - 1 <= g /\ g <= f /\ f <= b
  <2>1. PICK t \in Nat : t = FillTo(off, k)
    BY WindowIs
  <2>2. a - 1 <= g /\ g <= f /\ f <= t /\ t <= b
    BY <1>1, <1>2, <1>3, <1>4, <1>5, <2>1, WindowIs
  <2>3. QED
    BY <2>2
<1>7. Looks(h, a, b)
  BY <1>1, <1>4, <1>5 DEF Follow
<1>8. Fits /\ CodeIs(off) /\ k \in DOMAIN layout /\ Tab(k) \in Nat /\ layout[k].gap # "data"
  BY FollowsIs DEF Follows, Tame
<1>9. \A l \in 1..Len(layout) : N(l) \in Nat
  BY FollowsIs, RowsFit DEF Follows
<1>10. ASSUME NEW i \in a..f PROVE Loads(V, code[i])
  <2>1. i \in Nat /\ a <= i /\ i < e /\ i <= f
    BY <1>5, <1>6
  <2>2. PICK l \in 1..k : /\ l = k \/ Near(l, k)
                          /\ off[l] < i /\ i <= off[l + 1]
                          /\ Quiet(l, code[i]) \/ code[i].op \in {"call", "branch"}
    BY <1>1, <1>4, <2>1, InWindow
  <2>3. CASE l # k
    <3>1. l \in 1..k - 1 /\ l \in 1..Len(layout) /\ Near(l, k)
      BY <2>2, <2>3
    <3>2. /\ code[i].op = "count" => code[i].arg \in Nat
          /\ code[i].op = "lea" =>
                \/ code[i].arg = Callback
                \/ layout[l].form = "stack" /\ \E q \in 1..N(l) : code[i].arg = Rows(layout[l].class)[q]
                \/ layout[l].form \in {"moved", "static", "encrypted"} /\ code[i].arg = Tab(l)
      BY <1>9, <2>2, <3>1, QuietLoads
    <3>3. QED
      BY <3>1, <3>2 DEF Loads
  <2>4. CASE l = k
    <3>1. CASE i <= g
      <4>1. code[i].op = "nop"
        BY <1>2, <1>8, <2>1, <2>2, <2>4, <3>1, InGap
      <4>2. QED
        BY <4>1 DEF Loads
    <3>2. CASE ~(i <= g)
      <4>1. \/ code[i] = Ins("lea", "T", Callback) /\ layout[k].noise = "before"
            \/ code[i] = Ins("store", "T", 0)
            \/ code[i] = Ins("count", "-", N(k))
        <5>1. GapTo(off, k) < i /\ i <= FillFrom(off, k)
          BY <1>2, <1>3, <2>1, <3>2
        <5>2. QED
          BY <1>8, <2>1, <5>1, InOpening
      <4>2. CASE code[i] = Ins("lea", "T", Callback) /\ layout[k].noise = "before"
        <5>1. code[i].op = "lea" /\ code[i].arg = Callback
          BY <4>2, OpsOf
        <5>2. QED
          BY <4>2, <5>1 DEF Loads
      <4>3. CASE code[i] = Ins("store", "T", 0)
        <5>1. code[i].op = "store"
          BY <4>3, OpsOf
        <5>2. QED
          BY <5>1 DEF Loads
      <4>4. CASE code[i] = Ins("count", "-", N(k))
        <5>1. code[i].op = "count" /\ code[i].arg = N(k)
          BY <4>4, OpsOf
        <5>2. QED
          BY <1>9, <5>1 DEF Loads
      <4>5. QED
        BY <4>1, <4>2, <4>3, <4>4
    <3>3. QED
      BY <3>1, <3>2
  <2>5. QED
    BY <2>3, <2>4
<1>11. Holds(h[f], V)
  <2>1. a - 1 <= f /\ f <= b
    BY <1>6
  <2>2. \A i \in a..f : Loads(V, code[i])
    BY <1>10
  <2>3. QED
    BY <1>7, <2>1, <2>2, LookHolds
<1>12. ASSUME layout[k].count = "before" PROVE h[f].n = N(k)
  <2>1. Len(Opening(k)) > 0 /\ Opening(k)[Len(Opening(k))] = Ins("count", "-", N(k)) /\ Opening(k) \in Seq(InsType)
    BY <1>8, <1>12, OpeningIs
  <2>2. PICK n \in Nat \ {0} : n = Len(Opening(k))
    BY <2>1
  <2>3. f = g + n
    BY <1>2, <1>3, <2>2 DEF FillFrom
  <2>4. n \in 1..Len(Opening(k))
    BY <2>2
  <2>5. code[g + n] = Opening(k)[n]
    BY <1>2, <1>8, <2>4 DEF CodeIs
  <2>6. code[f] = Ins("count", "-", N(k))
    BY <2>1, <2>2, <2>3, <2>5
  <2>7. f \in a..b /\ f - 1 \in Nat /\ a - 1 <= f - 1 /\ f - 1 <= b
    BY <1>6, <2>3
  <2>8. h[f] = HarvestStep(h[f - 1], f)
    BY <1>7, <2>7 DEF Looks
  <2>9. Holds(h[f - 1], V)
    <3>1. \A i \in a..f - 1 : Loads(V, code[i])
      BY <1>10
    <3>2. QED
      BY <1>7, <2>7, <3>1, LookHolds
  <2>10. code[f].op = "count" /\ code[f].arg = N(k)
    BY <2>6, OpsOf
  <2>11. HarvestStep(h[f - 1], f) = [last |-> h[f - 1].last, near |-> h[f - 1].near, arg3 |-> h[f - 1].arg3,
                                     fns |-> h[f - 1].fns, n |-> code[f].arg]
    BY <2>9, <2>10, LookStepIs DEF Holds
  <2>12. QED
    BY <2>8, <2>10, <2>11
<1>13. QED
  BY <1>3, <1>11, <1>12

\* The part after it
LEMMA AfterFilling ==
    ASSUME NEW off, NEW io, Follows(off, io), NEW k \in 1..Len(layout), NEW h, Follow(h, off, k),
           LookForm(h[FillTo(off, k)]), layout[k].count = "before" => h[FillTo(off, k)].n = N(k)
    PROVE  Same(h[FillTo(off, k)], Looked(off[k + 1])) /\ Looked(off[k + 1]).n = N(k)
<1>1. PICK a \in Nat \ {0} : a = Start(off, k)
  BY WindowIs
<1>2. PICK f \in Nat : f = FillTo(off, k)
  BY WindowIs
<1>3. PICK e \in Nat \ {0} : e = off[k + 1]
  BY WindowIs
<1>4. PICK b \in Nat : b = e - 1
  BY <1>3
<1>5. a - 1 <= f /\ f <= b
  <2>1. PICK t \in Nat : t = FillFrom(off, k)
    BY WindowIs
  <2>2. PICK g \in Nat : g = GapTo(off, k)
    BY WindowIs
  <2>3. a - 1 <= g /\ g <= t /\ t <= f /\ f <= b
    BY <1>1, <1>2, <1>3, <1>4, <2>1, <2>2, WindowIs
  <2>4. QED
    BY <2>3
<1>6. Looks(h, a, b) /\ Looked(e) = h[b]
  BY <1>1, <1>3, <1>4 DEF Follow
<1>7. Fits /\ CodeIs(off) /\ k \in DOMAIN layout /\ Tab(k) \in Nat /\ Tame(k)
      /\ layout[k].count \in {"before", "after"} /\ layout[k].call \in {"call", "split", "veneer"}
  BY FollowsIs DEF Follows
<1>8. /\ Ends(off, k)
      /\ layout[k].count = "after" => f < e /\ code[f + 1] = Ins("count", "-", N(k))
      /\ \A i \in f + 1..e : Trailing(k, code[i]) \/ i = e
  BY <1>2, <1>3, <1>7, InClosing
<1>9. \A i \in f + 1..b : Trailing(k, code[i])
  BY <1>4, <1>8
<1>10. h[f].n = N(k) \/ (f < b /\ code[f + 1] = Ins("count", "-", N(k)))
  <2>1. CASE layout[k].count = "before"
    BY <1>2, <2>1
  <2>2. CASE layout[k].count = "after"
    <3>1. f < e /\ code[f + 1] = Ins("count", "-", N(k))
      BY <1>8, <2>2
    <3>2. code[e].op \in {"call", "branch"}
      BY <1>3, <1>7, <1>8, EndOps
    <3>3. code[f + 1].op = "count"
      BY <3>1, OpsOf
    <3>4. f + 1 # e
      BY <3>2, <3>3
    <3>5. f < b
      BY <1>4, <3>1, <3>4
    <3>6. QED
      BY <3>1, <3>5
  <2>3. QED
    BY <1>7, <2>1, <2>2
<1>11. Same(h[f], h[b]) /\ h[b].n = N(k)
  BY <1>2, <1>5, <1>6, <1>9, <1>10, LookTrail
<1>12. QED
  BY <1>2, <1>3, <1>6, <1>11

\* v comes into register r.
Gets(g, s, r, v) ==
    /\ LookForm(s) /\ s.last = Put(g.last, r, v) /\ s.fns = g.fns /\ s.n = g.n
    /\ r = "M" => s.arg3 = <<v>>
    /\ r # "M" => s.arg3 = g.arg3

Nears(g, s, v) == (IsFn(v) => s.near = g.near) /\ (~IsFn(v) => s.near = <<v>> \o g.near)

\* A load puts an address into a register.
LEMMA LookLea ==
    ASSUME NEW g, LookForm(g), NEW i, NEW r, NEW v, code[i] = Ins("lea", r, v)
    PROVE  /\ Gets(g, HarvestStep(g, i), r, v)
           /\ Nears(g, HarvestStep(g, i), v)
<1>1. code[i].op = "lea" /\ code[i].reg = r /\ code[i].arg = v
  BY OpsOf
<1>2. HarvestStep(g, i) =
            [last |-> Put(g.last, code[i].reg, code[i].arg),
             near |-> IF IsFn(code[i].arg) THEN g.near ELSE <<code[i].arg>> \o g.near,
             arg3 |-> IF code[i].reg = "M" THEN <<code[i].arg>> ELSE g.arg3,
             fns |-> g.fns, n |-> g.n]
  BY <1>1, LookStepIs
<1>3. HarvestStep(g, i) = [last |-> Put(g.last, r, v), near |-> IF IsFn(v) THEN g.near ELSE <<v>> \o g.near,
                           arg3 |-> IF r = "M" THEN <<v>> ELSE g.arg3, fns |-> g.fns, n |-> g.n]
  BY <1>1, <1>2
<1> DEFINE s == HarvestStep(g, i)
<1> HIDE DEF s
<1>4. LookForm(s) /\ s.last = Put(g.last, r, v) /\ s.fns = g.fns /\ s.n = g.n
  BY <1>3 DEF LookForm, s
<1>5. (r = "M" => s.arg3 = <<v>>) /\ (r # "M" => s.arg3 = g.arg3)
  BY <1>3 DEF s
<1>6. (IsFn(v) => s.near = g.near) /\ (~IsFn(v) => s.near = <<v>> \o g.near)
  BY <1>3 DEF s
<1>7. QED
  BY <1>4, <1>5, <1>6 DEF Gets, Nears, s

\* A move copies what a register holds.
LEMMA LookMov ==
    ASSUME NEW g, LookForm(g), NEW i, NEW r, NEW x, code[i] = Ins("mov", r, x),
           code[i].op = "mov" /\ code[i].reg = r /\ code[i].arg = x, x \in DOMAIN g.last
    PROVE  Gets(g, HarvestStep(g, i), r, g.last[x]) /\ HarvestStep(g, i).near = g.near
<1>1. HarvestStep(g, i) =
            [last |-> Put(g.last, code[i].reg, g.last[code[i].arg]), near |-> g.near,
             arg3 |-> IF code[i].reg = "M" THEN <<g.last[code[i].arg]>> ELSE g.arg3,
             fns |-> g.fns, n |-> g.n]
  BY LookStepIs
<1>2. HarvestStep(g, i) = [last |-> Put(g.last, r, g.last[x]), near |-> g.near,
                           arg3 |-> IF r = "M" THEN <<g.last[x]>> ELSE g.arg3, fns |-> g.fns, n |-> g.n]
  BY <1>1
<1> DEFINE s == HarvestStep(g, i)
<1> HIDE DEF s
<1>3. LookForm(s) /\ s.last = Put(g.last, r, g.last[x]) /\ s.fns = g.fns /\ s.n = g.n /\ s.near = g.near
  BY <1>2 DEF LookForm, s
<1>4. (r = "M" => s.arg3 = <<g.last[x]>>) /\ (r # "M" => s.arg3 = g.arg3)
  BY <1>2 DEF s
<1>5. QED
  BY <1>3, <1>4 DEF Gets, s

\* A table in the image is in the register when it was filled.
LEMMA TableHeld ==
    ASSUME NEW off, NEW io, Follows(off, io), NEW k \in 1..Len(layout), NEW h, Follow(h, off, k),
           layout[k].form \in {"static", "moved", "encrypted"}, NEW g, g = h[FillFrom(off, k)], LookForm(g),
           ~IsFn(Tab(k))
    PROVE  LET r == h[FillTo(off, k)]
           IN  /\ LookForm(r) /\ r.arg3 = <<Tab(k)>> /\ r.near = <<Tab(k)>> \o g.near
               /\ r.fns = g.fns /\ r.n = g.n
<1>1. PICK a \in Nat \ {0} : a = Start(off, k)
  BY WindowIs
<1>2. PICK f \in Nat : f = FillFrom(off, k)
  BY WindowIs
<1>3. PICK t \in Nat : t = FillTo(off, k)
  BY WindowIs
<1>4. PICK e \in Nat \ {0} : e = off[k + 1]
  BY WindowIs
<1>5. PICK b \in Nat : b = e - 1
  BY <1>4
<1>6. a - 1 <= f /\ f <= t /\ t <= b
  <2>1. PICK p \in Nat : p = GapTo(off, k)
    BY WindowIs
  <2>2. a - 1 <= p /\ p <= f /\ f <= t /\ t <= b
    BY <1>1, <1>2, <1>3, <1>4, <1>5, <2>1, WindowIs
  <2>3. QED
    BY <2>2
<1>7. \A i \in a..b : h[i] = HarvestStep(h[i - 1], i)
  BY <1>1, <1>4, <1>5 DEF Follow, Looks
<1>8. Fits /\ CodeIs(off) /\ k \in DOMAIN layout /\ Tab(k) \in Nat
  BY FollowsIs DEF Follows
<1>9. CASE layout[k].form \in {"static", "encrypted"}
  <2>1. t = f + 1 /\ code[t] = Ins("lea", "M", Tab(k))
    BY <1>2, <1>3, <1>8, <1>9, TableFilling
  <2>2. t \in a..b /\ t - 1 = f
    BY <1>6, <2>1
  <2>3. PICK r : r = h[t] /\ r = HarvestStep(g, t)
    BY <1>2, <1>7, <2>2
  <2>4. Gets(g, r, "M", Tab(k)) /\ r.near = <<Tab(k)>> \o g.near
    <3>1. PICK v : v = Tab(k)
      OBVIOUS
    <3>2. LookForm(g) /\ ~IsFn(v) /\ code[t] = Ins("lea", "M", v)
      BY <2>1, <3>1
    <3>3. Gets(g, HarvestStep(g, t), "M", v) /\ Nears(g, HarvestStep(g, t), v)
      BY <3>2, LookLea
    <3>4. QED
      BY <2>3, <3>1, <3>2, <3>3 DEF Nears
  <2>5. QED
    BY <1>3, <2>3, <2>4 DEF Gets
<1>10. CASE layout[k].form = "moved"
  <2>1. t = f + 2 /\ code[f + 1] = Ins("lea", "T", Tab(k)) /\ code[f + 2] = Ins("mov", "M", "T")
    BY <1>2, <1>3, <1>8, <1>10, TableFilling
  <2>2. PICK j \in Nat : j = f + 1 /\ j \in a..b /\ t \in a..b /\ j - 1 = f /\ t - 1 = j
    BY <1>6, <2>1
  <2>3. PICK w : w = h[j] /\ w = HarvestStep(g, j)
    BY <1>2, <1>7, <2>2
  <2>4. PICK r : r = h[t] /\ r = HarvestStep(w, t)
    BY <1>7, <2>2, <2>3
  <2>5. code[j] = Ins("lea", "T", Tab(k)) /\ code[t] = Ins("mov", "M", "T")
    BY <2>1, <2>2
  <2>6. Gets(g, w, "T", Tab(k)) /\ w.near = <<Tab(k)>> \o g.near
    <3>1. PICK v : v = Tab(k)
      OBVIOUS
    <3>2. LookForm(g) /\ ~IsFn(v) /\ code[j] = Ins("lea", "T", v)
      BY <2>5, <3>1
    <3>3. Gets(g, HarvestStep(g, j), "T", v) /\ Nears(g, HarvestStep(g, j), v)
      BY <3>2, LookLea
    <3>4. QED
      BY <2>3, <3>1, <3>2, <3>3 DEF Nears
  <2>7. LookForm(w) /\ "T" \in DOMAIN w.last /\ w.last["T"] = Tab(k)
    BY <2>6, PutGives DEF Gets
  <2>8. code[t].op = "mov" /\ code[t].reg = "M" /\ code[t].arg = "T"
    BY <2>5, OpsOf
  <2>9. Gets(w, r, "M", Tab(k)) /\ r.near = w.near
    BY <2>4, <2>5, <2>7, <2>8, LookMov
  <2>10. QED
    BY <1>3, <2>4, <2>6, <2>9 DEF Gets
<1>11. QED
  BY <1>9, <1>10

\* A table is no function.
LEMMA TabsAreHigh ==
    ASSUME NEW off, NEW io, Follows(off, io), NEW k \in 1..Len(layout)
    PROVE  ~IsFn(Tab(k))
<1>1. io[k] \in Nat /\ Tab(k) = TableBase + io[k] /\ TableBase \in Nat
  <2>1. k \in DOMAIN layout
    BY FollowsIs
  <2>2. QED
    BY <2>1, TablesAssumption DEF Follows, ImageIs
<1>2. QED
  BY <1>1 DEF IsFn

\* A table in the image that can be read is found.
LEMMA ReadTables ==
    ASSUME NEW off, NEW io, Follows(off, io), NEW k \in 1..Len(layout), strategy = "per_class",
           layout[k].form \in {"static", "moved"}
    PROVE  TablesAt(off[k + 1]) = <<Table(k)>>
<1>1. PICK h : Follow(h, off, k)
  BY FollowThere
<1>2. Fits /\ ImageIs(io) /\ k \in DOMAIN layout /\ \A l \in 1..Len(layout) : Tab(l) \in Nat
  BY FollowsIs DEF Follows
<1>3. Callback \in Nat /\ \A l \in 1..Len(layout) : \A q \in 1..N(l) : Rows(layout[l].class)[q] \in Nat
  <2>1. \A l \in 1..Len(layout) : \A q \in 1..N(l) : Rows(layout[l].class)[q] \in Addr
    BY FollowsIs, RowsFit DEF Follows
  <2>2. QED
    BY <2>1, TablesAssumption, FnsAreLow
<1>4. \A l \in 1..k - 1 : l \in 1..Len(layout)
  BY DEF Follows, Fits
<1> DEFINE g == h[FillFrom(off, k)]
           r == h[FillTo(off, k)]
           s == Looked(off[k + 1])
<1>5. Holds(g, Nat) /\ (layout[k].count = "before" => g.n = N(k))
  BY <1>1, <1>2, <1>3, <1>4, BeforeFilling
<1>6. LookForm(r) /\ r.arg3 = <<Tab(k)>> /\ r.near = <<Tab(k)>> \o g.near /\ r.n = g.n
  <2> HIDE DEF g
  <2>1. LookForm(g)
    BY <1>5 DEF Holds
  <2>2. ~IsFn(Tab(k))
    BY TabsAreHigh
  <2>3. QED
    BY <1>1, <2>1, <2>2, TableHeld DEF g
<1>7. Same(r, s) /\ s.n = N(k)
  BY <1>1, <1>5, <1>6, AfterFilling
<1>8. s.near \in Seq(Nat)
  <2>1. g.near \in Seq(High(Nat))
    BY <1>5 DEF Holds
  <2>2. High(Nat) \subseteq Nat
    BY DEF High
  <2> HIDE DEF g, r, s
  <2>3. g.near \in Seq(Nat)
    BY <2>1, <2>2, Widens
  <2>4. <<Tab(k)>> \in Seq(Nat)
    BY <1>2
  <2>5. r.near \in Seq(Nat)
    BY <1>6, <2>3, <2>4, Joined
  <2>6. QED
    BY <1>7, <2>5 DEF Same
<1>9. s.arg3 = <<Tab(k)>>
  <2> HIDE DEF g, r, s
  <2>1. QED
    BY <1>6, <1>7 DEF Same
<1> HIDE DEF g, r
<1>10. PICK H : H = Harvest(off[k + 1])
  OBVIOUS
<1>11. H.methods = jar[layout[k].class] /\ H.n = N(k) /\ H.addrs = Rows(layout[k].class)
  BY <1>2, <1>7, <1>8, <1>9, <1>10, HarvestRead
<1>12. jar[layout[k].class] # <<>> /\ Rows(layout[k].class) # <<>>
  <2>1. Len(Rows(layout[k].class)) = N(k) /\ N(k) # 0
    BY <1>2, RowsFit
  <2>2. Len(<<>>) = 0
    OBVIOUS
  <2>3. QED
    BY <2>1, <2>2 DEF N
<1>13. TablesAt(off[k + 1]) = <<Found("static", jar[layout[k].class], Rows(layout[k].class), N(k))>>
  BY <1>10, <1>11, <1>12, TablesOf
<1>14. Table(k) = Found("static", jar[layout[k].class], Rows(layout[k].class), N(k))
  BY DEF Table, Readable, N
<1>15. QED
  BY <1>13, <1>14

\* A table that is encrypted is told of.
LEMMA LockedTables ==
    ASSUME NEW off, NEW io, Follows(off, io), NEW k \in 1..Len(layout), strategy = "per_class",
           layout[k].form = "encrypted"
    PROVE  TablesAt(off[k + 1]) = <<Table(k)>>
<1>1. PICK h : Follow(h, off, k)
  BY FollowThere
<1>2. Fits /\ CodeIs(off) /\ ImageIs(io) /\ image \in Seq(Row) /\ k \in DOMAIN layout /\ Tab(k) \in Nat /\ Alone(k)
  BY FollowsIs DEF Follows
<1>3. layout[k].noise = "none" /\ \A l \in DOMAIN layout : ~Near(l, k)
  BY <1>2 DEF Alone
<1>4. \A l \in 1..k - 1 : ~Near(l, k)
  BY <1>3 DEF Fits, Follows
<1>5. ~IsFn(Tab(k)) /\ Undecodable(Tab(k))
  BY <1>2, TabsAreHigh, EncryptedUndecodable
<1> DEFINE V == {Tab(k)}
           g == h[FillFrom(off, k)]
           r == h[FillTo(off, k)]
           s == Looked(off[k + 1])
<1>6. Holds(g, V) /\ (layout[k].count = "before" => g.n = N(k))
  <2>1. layout[k].noise # "before"
    BY <1>3
  <2> HIDE DEF V
  <2>2. QED
    BY <1>1, <1>4, <2>1, BeforeFilling
<1>7. g.fns = <<>> /\ g.near \in Seq(V)
  <2>1. High(V) \subseteq V /\ Low(V) = {}
    BY <1>5 DEF High, Low
  <2> HIDE DEF g, V
  <2>2. g.fns \in Seq({}) /\ g.near \in Seq(High(V))
    BY <1>6, <2>1 DEF Holds
  <2>3. g.fns = <<>>
    BY <2>2
  <2>4. g.near \in Seq(V)
    BY <2>1, <2>2, Widens
  <2>5. QED
    BY <2>3, <2>4
<1>8. LookForm(r) /\ r.arg3 = <<Tab(k)>> /\ r.near = <<Tab(k)>> \o g.near /\ r.n = g.n /\ r.fns = g.fns
  <2> HIDE DEF g, V
  <2>1. LookForm(g)
    BY <1>6 DEF Holds
  <2>2. QED
    BY <1>1, <1>5, <2>1, TableHeld DEF g
<1>9. Same(r, s) /\ s.n = N(k)
  BY <1>1, <1>6, <1>8, AfterFilling
<1>10. s.arg3 = <<Tab(k)>> /\ s.fns = <<>> /\ s.arg3 \in Seq(V) /\ s.near \in Seq(V)
  <2>1. Tab(k) \in V
    OBVIOUS
  <2> HIDE DEF g, r, s, V
  <2>2. <<Tab(k)>> \in Seq(V)
    BY <2>1
  <2>3. r.near \in Seq(V)
    BY <1>7, <1>8, <2>2, Joined
  <2>4. QED
    BY <1>7, <1>8, <1>9, <2>2, <2>3 DEF Same
<1>11. N(k) \in Nat \ {0}
  BY <1>2, RowsFit
<1>12. \A v \in V : Undecodable(v)
  BY <1>5
<1>13. PICK H : H = Harvest(off[k + 1])
  OBVIOUS
<1>14. H.n = N(k) /\ H.arg3 = <<Tab(k)>> /\ H.addrs = LastN(Distinct(<<>>), N(k))
  <2> HIDE DEF g, r, V
  <2>1. /\ H.n = s.n /\ H.arg3 = s.arg3
        /\ H.addrs = IF s.n > 0 THEN LastN(Distinct(s.fns), s.n) ELSE Distinct(s.fns)
    BY <1>9, <1>10, <1>11, <1>12, <1>13, HarvestUnread
  <2> HIDE DEF s
  <2>2. N(k) > 0
    BY <1>11
  <2>3. QED
    BY <1>9, <1>10, <2>1, <2>2
<1>15. H.addrs = <<>>
  <2>1. LastN(<<>>, N(k)) = <<>>
    <3>1. Len(<<>>) = 0
      OBVIOUS
    <3>2. ~(N(k) < Len(<<>>))
      BY <1>11, <3>1
    <3>3. QED
      BY <3>2 DEF LastN
  <2>2. QED
    BY <1>14, <2>1, DistinctOfNone
<1>16. H.arg3 # <<>> /\ H.n > 0
  BY <1>11, <1>14
<1>17. TablesAt(off[k + 1]) = <<Found("unreadable", <<>>, <<>>, N(k))>>
  BY <1>13, <1>14, <1>15, <1>16, TablesOf
<1>18. Table(k) = Found("unreadable", <<>>, <<>>, N(k))
  BY DEF Table, Readable, N
<1>19. QED
  BY <1>17, <1>18

\* Two instructions store a function, and nothing else changes.
Keeps(g, s) == LookForm(s) /\ s.near = g.near /\ s.arg3 = g.arg3 /\ s.n = g.n

Adds(g, s, fn) == Keeps(g, s) /\ s.fns = Append(g.fns, fn)

\* Such are the instructions of Store.
LEMMA LookStores ==
    ASSUME NEW g, LookForm(g), NEW i, NEW j, NEW fn, IsFn(fn),
           code[i] = Ins("lea", "T", fn), code[j] = Ins("store", "T", 0)
    PROVE  Adds(g, HarvestStep(HarvestStep(g, i), j), fn)
<1> DEFINE a == HarvestStep(g, i)
           s == HarvestStep(a, j)
<1>1. Gets(g, a, "T", fn) /\ Nears(g, a, fn)
  BY LookLea
<1> HIDE DEF a
<1>2. LookForm(a) /\ a.last = Put(g.last, "T", fn) /\ a.fns = g.fns /\ a.n = g.n /\ a.arg3 = g.arg3 /\ a.near = g.near
  BY <1>1 DEF Gets, Nears
<1>3. "T" \in DOMAIN a.last /\ a.last["T"] = fn
  BY <1>2, PutGives
<1>4. code[j].op = "store" /\ code[j].reg = "T"
  BY OpsOf
<1>5. s = [last |-> a.last, near |-> a.near, arg3 |-> a.arg3,
           fns |-> IF code[j].reg \in DOMAIN a.last /\ IsFn(a.last[code[j].reg])
                   THEN Append(a.fns, a.last[code[j].reg]) ELSE a.fns,
           n |-> a.n]
  BY <1>2, <1>4, LookStepIs
<1>6. s = [last |-> a.last, near |-> a.near, arg3 |-> a.arg3, fns |-> Append(a.fns, fn), n |-> a.n]
  BY <1>3, <1>4, <1>5
<1> HIDE DEF s
<1>7. Keeps(g, s) /\ s.fns = Append(g.fns, fn)
  BY <1>2, <1>6 DEF Keeps, LookForm
<1>8. QED
  BY <1>7 DEF s, a, Adds

\* The natives of a table on the stack are the last functions held.
LEMMA StackHeld ==
    ASSUME NEW off, NEW io, Follows(off, io), NEW k \in 1..Len(layout), NEW h, Follow(h, off, k),
           layout[k].form = "stack", NEW g, g = h[FillFrom(off, k)], LookForm(g), g.fns \in Seq(Nat)
    PROVE  Keeps(g, h[FillTo(off, k)]) /\ h[FillTo(off, k)].fns = g.fns \o Rows(layout[k].class)
<1> DEFINE s == Rows(layout[k].class)
           n == N(k)
           A == g.fns
<1>1. PICK a \in Nat \ {0} : a = Start(off, k)
  BY WindowIs
<1>2. PICK f \in Nat : f = FillFrom(off, k)
  BY WindowIs
<1>3. PICK t \in Nat : t = FillTo(off, k)
  BY WindowIs
<1>4. PICK e \in Nat \ {0} : e = off[k + 1]
  BY WindowIs
<1>5. PICK b \in Nat : b = e - 1
  BY <1>4
<1>6. a - 1 <= f /\ f <= t /\ t <= b
  <2>1. PICK p \in Nat : p = GapTo(off, k)
    BY WindowIs
  <2>2. a - 1 <= p /\ p <= f /\ f <= t /\ t <= b
    BY <1>1, <1>2, <1>3, <1>4, <1>5, <2>1, WindowIs
  <2>3. QED
    BY <2>2
<1>7. \A i \in a..b : h[i] = HarvestStep(h[i - 1], i)
  BY <1>1, <1>4, <1>5 DEF Follow, Looks
<1>8. Fits /\ CodeIs(off) /\ k \in DOMAIN layout /\ Tab(k) \in Nat
  BY FollowsIs DEF Follows
<1>9. s \in Seq(Nat) /\ Len(s) = n /\ n \in Nat \ {0} /\ \A q \in 1..n : IsFn(s[q])
  <2>1. s \in Seq(Addr) /\ Len(s) = n /\ n \in Nat \ {0} /\ \A q \in 1..n : s[q] \in Addr
    BY <1>8, RowsFit
  <2>2. Addr \subseteq Nat /\ \A x \in Addr : IsFn(x)
    BY FnsAreLow
  <2> HIDE DEF s, n
  <2>3. s \in Seq(Nat)
    BY <2>1, <2>2, Widens
  <2>4. QED
    BY <2>1, <2>2, <2>3
<1>10. /\ t = f + 2 * n
       /\ \A q \in 1..n : /\ code[f + (2 * q - 1)] = Ins("lea", "T", s[q])
                          /\ code[f + 2 * q] = Ins("store", "T", 0)
  BY <1>2, <1>3, <1>8, StackFilling
<1> HIDE DEF s, n, A
<1> DEFINE S(q) == Keeps(g, h[f + 2 * q]) /\ h[f + 2 * q].fns = A \o SubSeq(s, 1, q)
           T == {q \in 0..n : ~S(q)}
<1>11. T = {}
  <2>1. SUFFICES ASSUME T # {} PROVE FALSE
    OBVIOUS
  <2>2. PICK x \in T : \A y \in T : x <= y
    <3>1. T \subseteq Nat
      BY <1>9
    <3> HIDE DEF T
    <3>2. QED
      BY <2>1, <3>1, SmallestNat, Zenon
  <2>3. x \in 0..n /\ ~S(x)
    OBVIOUS
  <2>4. S(0)
    <3>1. f + 2 * 0 = f /\ h[f] = g
      BY <1>2
    <3>2. A \o SubSeq(s, 1, 0) = A
      BY <1>9, NoneAndAll DEF A
    <3>3. g.fns = A
      BY DEF A
    <3>4. Keeps(g, g)
      BY DEF Keeps
    <3>5. QED
      BY <3>1, <3>2, <3>3, <3>4
  <2>5. PICK y \in 0..n : x = y + 1
    <3>1. x # 0
      BY <2>3, <2>4
    <3>2. x - 1 \in 0..n /\ x = (x - 1) + 1
      BY <1>9, <2>3, <3>1
    <3>3. QED
      BY <3>2
  <2>6. y \notin T
    <3> HIDE DEF T
    <3>1. QED
      BY <2>2, <2>5
  <2>7. S(y) /\ y \in Nat /\ x \in 1..n
    <3>1. y \in Nat /\ x \in 1..n
      BY <1>9, <2>3, <2>5
    <3> HIDE DEF S
    <3>2. S(y)
      BY <2>5, <2>6
    <3>3. QED
      BY <3>1, <3>2
  <2> HIDE DEF T
  <2>8. PICK p \in Nat : p = f + 2 * y
    BY <2>7
  <2>9. f + (2 * x - 1) = p + 1 /\ f + 2 * x = p + 2
    <3>1. x = y + 1 /\ y \in Nat
      BY <2>5, <2>7
    <3>2. \A v \in Nat : 2 * (v + 1) = 2 * v + 2 /\ 2 * v \in Nat
      OBVIOUS
    <3>3. 2 * x = 2 * y + 2 /\ 2 * y \in Nat
      BY <3>1, <3>2
    <3>4. QED
      BY <2>8, <3>3
  <2>10. code[p + 1] = Ins("lea", "T", s[x]) /\ code[p + 2] = Ins("store", "T", 0) /\ IsFn(s[x])
    BY <1>9, <1>10, <2>7, <2>9
  <2>11. p + 2 <= t
    BY <1>9, <1>10, <2>3, <2>9
  <2>12. PICK i \in Nat : i = p + 1 /\ i \in a..b /\ i - 1 = p
    BY <1>6, <2>8, <2>11
  <2>13. PICK j \in Nat : j = p + 2 /\ j \in a..b /\ j - 1 = i
    BY <1>6, <2>8, <2>11, <2>12
  <2>14. h[j] = HarvestStep(HarvestStep(h[p], i), j)
    <3>1. h[i] = HarvestStep(h[p], i)
      BY <1>7, <2>12
    <3>2. h[j] = HarvestStep(h[i], j)
      BY <1>7, <2>13
    <3>3. QED
      BY <3>1, <3>2
  <2>15. Keeps(g, h[p]) /\ h[p].fns = A \o SubSeq(s, 1, y)
    BY <2>7, <2>8
  <2>16. Keeps(h[p], h[j]) /\ h[j].fns = Append(h[p].fns, s[x])
    <3>1. PICK w : w = h[p] /\ LookForm(w)
      BY <2>15 DEF Keeps
    <3>2. code[i] = Ins("lea", "T", s[x]) /\ code[j] = Ins("store", "T", 0)
      BY <2>10, <2>12, <2>13
    <3>3. PICK v : v = s[x]
      OBVIOUS
    <3>4. IsFn(v) /\ code[i] = Ins("lea", "T", v)
      BY <2>10, <3>2, <3>3
    <3>5. Adds(w, HarvestStep(HarvestStep(w, i), j), v)
      BY <3>1, <3>2, <3>4, LookStores
    <3>6. QED
      BY <2>14, <3>1, <3>3, <3>5 DEF Adds
  <2>17. Keeps(g, h[j])
    BY <2>15, <2>16 DEF Keeps
  <2>18. Append(A \o SubSeq(s, 1, y), s[y + 1]) = A \o SubSeq(s, 1, y + 1)
    <3>1. y + 1 <= Len(s)
      BY <1>9, <2>3, <2>5
    <3>2. A \in Seq(Nat)
      BY DEF A
    <3>3. QED
      BY <1>9, <2>7, <3>1, <3>2, AppendMore
  <2>19. S(x)
    BY <2>5, <2>9, <2>13, <2>15, <2>16, <2>17, <2>18
  <2>20. QED
    BY <2>3, <2>19
<1>12. S(n)
  <2>1. n \in 0..n
    BY <1>9
  <2>2. ASSUME ~S(n) PROVE n \in T
    BY <2>1, <2>2
  <2> HIDE DEF T
  <2>3. QED
    BY <1>11, <2>2
<1> HIDE DEF T
<1>13. A \o SubSeq(s, 1, n) = A \o s
  BY <1>9, NoneAndAll DEF A
<1>14. QED
  BY <1>3, <1>10, <1>12, <1>13 DEF A, s

\* What was stored before is none of the natives.
LEMMA OthersFns ==
    ASSUME NEW off, NEW io, Follows(off, io), NEW k \in 1..Len(layout)
    PROVE  /\ \A i, q \in 1..N(k) : Rows(layout[k].class)[i] = Rows(layout[k].class)[q] => i = q
           /\ \A q \in 1..N(k) : Callback # Rows(layout[k].class)[q]
           /\ \A l \in 1..k - 1 : \A i \in 1..N(l), q \in 1..N(k) :
                    Rows(layout[l].class)[i] # Rows(layout[k].class)[q]
<1>1. Fits /\ k \in DOMAIN layout /\ AllPlain /\ DOMAIN layout = 1..Len(layout) /\ Len(layout) \in Nat
  BY DEF Follows, Fits
<1>2. \A i, q \in 1..N(k) : Rows(layout[k].class)[i] = Rows(layout[k].class)[q] => i = q
  BY <1>1, RowsApart DEF AllPlain, OwnFunctions
<1>3. \A q \in 1..N(k) : Callback # Rows(layout[k].class)[q]
  BY <1>1, RowsFit
<1>4. ASSUME NEW l \in 1..k - 1, NEW i \in 1..N(l), NEW q \in 1..N(k),
             Rows(layout[l].class)[i] = Rows(layout[k].class)[q]
      PROVE  FALSE
  <2>1. l \in DOMAIN layout /\ l # k
    BY <1>1
  <2>2. ~Shares(layout[l].class, layout[k].class) /\ layout[l].class # layout[k].class
    BY <1>1, <2>1 DEF AllPlain, OwnFunctions
  <2>3. QED
    BY <1>1, <1>4, <2>1, <2>2, RowsApart
<1>5. QED
  BY <1>2, <1>3, <1>4

\* A table on the stack is found.
LEMMA StackTables ==
    ASSUME NEW off, NEW io, Follows(off, io), NEW k \in 1..Len(layout), strategy = "per_class",
           layout[k].form = "stack"
    PROVE  TablesAt(off[k + 1]) = <<Table(k)>>
<1>1. PICK h : Follow(h, off, k)
  BY FollowThere
<1>2. Fits /\ ImageIs(io) /\ image \in Seq(Row) /\ k \in DOMAIN layout /\ Alone(k)
      /\ \A l \in 1..Len(layout) : l \in DOMAIN layout /\ Tab(l) \in Nat
  BY FollowsIs DEF Follows
<1>3. \A l \in 1..k - 1 : l \in 1..Len(layout) /\ l \in DOMAIN layout
  BY DEF Follows, Fits
<1>4. \A l \in 1..k - 1 : Near(l, k) => layout[l].form \notin {"static", "moved"}
  BY <1>2, <1>3 DEF Alone, Readable
<1> DEFINE Fns == {Callback} \cup {v \in Addr : \E l \in 1..k - 1 : \E q \in 1..N(l) : v = Rows(layout[l].class)[q]}
           Locked == {v \in Nat : ~IsFn(v) /\ Undecodable(v)}
           V == Fns \cup Locked
           g == h[FillFrom(off, k)]
           r == h[FillTo(off, k)]
           s == Looked(off[k + 1])
           R == Rows(layout[k].class)
<1>5. Holds(g, V) /\ (layout[k].count = "before" => g.n = N(k))
  <2>1. Callback \in V
    OBVIOUS
  <2>2. ASSUME NEW l \in 1..k - 1, Near(l, k)
        PROVE  /\ layout[l].form = "stack" => \A q \in 1..N(l) : Rows(layout[l].class)[q] \in V
               /\ layout[l].form \in {"moved", "static", "encrypted"} => Tab(l) \in V
    <3>1. \A q \in 1..N(l) : Rows(layout[l].class)[q] \in Addr
      BY <1>2, <1>3, RowsFit
    <3>2. \A q \in 1..N(l) : Rows(layout[l].class)[q] \in Fns
      BY <3>1
    <3>3. ASSUME layout[l].form \in {"moved", "static", "encrypted"} PROVE Tab(l) \in Locked
      <4>1. layout[l].form = "encrypted"
        BY <1>4, <2>2, <3>3
      <4>2. Undecodable(Tab(l)) /\ ~IsFn(Tab(l)) /\ Tab(l) \in Nat
        BY <1>2, <1>3, <4>1, EncryptedUndecodable, TabsAreHigh
      <4>3. QED
        BY <4>2
    <3>4. QED
      BY <3>2, <3>3
  <2> HIDE DEF V
  <2>3. QED
    BY <1>1, <2>1, <2>2, BeforeFilling
<1>6. \A v \in V : Undecodable(v)
  <2>1. \A v \in Fns : v \in Addr
    BY TablesAssumption
  <2>2. \A v \in Fns : Undecodable(v)
    BY <1>2, <2>1, FnUndecodable
  <2>3. QED
    BY <2>2
<1>7. Fns \subseteq Nat /\ Low(V) = Fns /\ High(V) \subseteq V
  <2>1. \A v \in Fns : v \in Addr
    BY TablesAssumption
  <2>2. \A v \in Fns : v \in Nat /\ IsFn(v)
    BY <2>1, FnsAreLow
  <2>3. QED
    BY <2>2 DEF Low, High
<1> HIDE DEF Locked, V
<1>8. LookForm(g) /\ g.fns \in Seq(Fns) /\ g.near \in Seq(V) /\ g.arg3 \in Seq(V)
  <2> HIDE DEF g, Fns
  <2>1. g.near \in Seq(High(V)) /\ LookForm(g) /\ g.fns \in Seq(Fns) /\ g.arg3 \in Seq(V)
    BY <1>5, <1>7 DEF Holds
  <2>2. QED
    BY <1>7, <2>1, Widens
<1>9. g.fns \in Seq(Nat)
  <2> HIDE DEF g, Fns
  <2>1. QED
    BY <1>7, <1>8, Widens
<1>10. Keeps(g, r) /\ r.fns = g.fns \o R
  <2>1. PICK w : w = g
    OBVIOUS
  <2>2. Keeps(w, r) /\ r.fns = w.fns \o R
    <3>1. w = h[FillFrom(off, k)] /\ LookForm(w) /\ w.fns \in Seq(Nat)
      BY <1>8, <1>9, <2>1
    <3>2. QED
      BY <1>1, <3>1, StackHeld
  <2>3. QED
    BY <2>1, <2>2
<1>11. Same(r, s) /\ s.n = N(k)
  <2>1. LookForm(r) /\ (layout[k].count = "before" => r.n = N(k))
    BY <1>5, <1>10 DEF Keeps
  <2>2. QED
    BY <1>1, <2>1, AfterFilling
<1>12. s.fns = g.fns \o R /\ s.near \in Seq(V) /\ s.arg3 \in Seq(V)
  <2> HIDE DEF g, r, s, R
  <2>1. QED
    BY <1>8, <1>10, <1>11 DEF Keeps, Same
<1>13. R \in Seq(Nat) /\ Len(R) = N(k) /\ N(k) \in Nat \ {0}
  <2>1. R \in Seq(Addr) /\ Len(R) = N(k) /\ N(k) \in Nat \ {0}
    BY <1>2, RowsFit
  <2>2. Addr \subseteq Nat
    BY FnsAreLow
  <2> HIDE DEF R
  <2>3. QED
    BY <2>1, <2>2, Widens
<1>14. New(g.fns, R)
  <2>1. \A i, q \in 1..N(k) : R[i] = R[q] => i = q
    BY OthersFns
  <2>2. ASSUME NEW v \in Fns, NEW q \in 1..N(k) PROVE v # R[q]
    <3>1. CASE v = Callback
      BY <3>1, OthersFns
    <3>2. CASE v # Callback
      <4>1. PICK l \in 1..k - 1 : \E i \in 1..N(l) : v = Rows(layout[l].class)[i]
        BY <3>2
      <4>2. PICK i \in 1..N(l) : v = Rows(layout[l].class)[i]
        BY <4>1
      <4>3. QED
        BY <4>2, OthersFns
    <3>3. QED
      BY <3>1, <3>2
  <2> HIDE DEF g, R, Fns
  <2>3. \A i \in 1..Len(g.fns) : g.fns[i] \in Fns
    BY <1>8
  <2>4. QED
    BY <1>13, <2>1, <2>2, <2>3 DEF New
<1>15. LastN(Distinct(g.fns \o R), N(k)) = R
  <2> HIDE DEF g, R
  <2>1. QED
    BY <1>9, <1>13, <1>14, LastOfDistinct
<1>16. PICK H : H = Harvest(off[k + 1])
  OBVIOUS
<1>17. H.methods = <<>> /\ H.n = N(k) /\ H.addrs = R
  <2> HIDE DEF g, r, R
  <2>1. /\ H.methods = <<>> /\ H.n = s.n
        /\ H.addrs = IF s.n > 0 THEN LastN(Distinct(s.fns), s.n) ELSE Distinct(s.fns)
    BY <1>6, <1>11, <1>12, <1>13, <1>16, HarvestUnread
  <2> HIDE DEF s
  <2>2. N(k) > 0
    BY <1>13
  <2>3. QED
    BY <1>11, <1>12, <1>15, <2>1, <2>2
<1>18. R # <<>>
  <2>1. Len(R) # 0
    BY <1>13
  <2>2. Len(<<>>) = 0
    OBVIOUS
  <2>3. QED
    BY <2>1, <2>2
<1>19. TablesAt(off[k + 1]) = <<Found("stack", <<>>, R, N(k))>>
  <2> HIDE DEF R
  <2>1. QED
    BY <1>16, <1>17, <1>18, TablesOf
<1>20. Table(k) = Found("stack", <<>>, R, N(k))
  <2> HIDE DEF R
  <2>1. Table(k) = Found("stack", <<>>, Rows(layout[k].class), Len(jar[layout[k].class]))
    BY DEF Table, Readable
  <2>2. QED
    BY <2>1 DEF N, R
<1>21. QED
  BY <1>19, <1>20

\* Every call of such a library gives the table of its class.
LEMMA PlainTables ==
    ASSUME NEW off, NEW io, Follows(off, io), NEW k \in 1..Len(layout), strategy = "per_class"
    PROVE  TablesAt(off[k + 1]) = <<Table(k)>>
<1>1. layout[k].form \in {"static", "moved", "encrypted", "stack"}
  BY FollowsIs DEF RegistrationType
<1>2. QED
  BY <1>1, ReadTables, LockedTables, StackTables

\* The one call of a library where all of them share it
LEMMA SharedTables ==
    ASSUME NEW off, Sharing(off), image = <<>>,
           strategy = "shared_dispatch" \/ (strategy = "auto" /\ Len(layout) > 1)
    PROVE  TablesAt(Len(code)) = [k \in 1..Len(layout) |-> Table(k)]
<1> DEFINE B == Branches(Len(code))
           H == Harvest(Len(code))
           split == [i \in DOMAIN B |-> Found("stack", <<>>, B[i], Len(B[i]))]
<1>1. Len(layout) \in Nat \ {0} /\ Fits /\ CodeIs(off) /\ DOMAIN layout = 1..Len(layout)
  <2>1. Len(layout) # 0
    BY EmptySeq DEF Fits, Sharing
  <2>2. QED
    BY <2>1 DEF Sharing, Fits
<1>2. B = [k \in 1..Len(layout) |-> Rows(layout[k].class)]
  BY BranchesAre
<1>3. DOMAIN B = 1..Len(layout) /\ Len(B) = Len(layout) /\ B # <<>>
  BY <1>1, <1>2
<1>4. PICK e \in Nat \ {0} : e = Len(code)
  <2>1. PICK k \in 1..Len(layout) : k = Len(layout)
    <3>1. \A q \in Nat \ {0} : q \in 1..q
      OBVIOUS
    <3>2. Len(layout) \in 1..Len(layout)
      BY <1>1, <3>1
    <3>3. QED
      BY <3>2
  <2>2. PICK f \in Nat : f = FillTo(off, k)
    BY CountsEnd
  <2>3. off[k + 1] = f + 2
    BY <2>1, <2>2, CountsEnd
  <2>4. Len(code) = f + 2
    BY <1>1, <2>1, <2>3 DEF CodeIs
  <2>5. QED
    BY <2>4
<1>5. PICK b \in Nat : b = e - 1
  BY <1>4
<1>6. \A k \in 1..Len(layout) : Tab(k) \in Nat /\ Tame(k)
  BY DEF Sharing, FillsFirst, Tame
<1>7. PICK a \in Nat \ {0} : a = Back(e, Window) /\ a - 1 <= b
  <2>1. e \in 1..Len(code) /\ Len(code) \in Nat /\ DOMAIN code = 1..Len(code)
    BY <1>1, <1>4 DEF CodeIs
  <2>2. QED
    BY <1>1, <1>5, <2>1, BackIs, TablesAssumption
<1>8. \A i \in a..b : i \in 1..Len(code) /\ i # Len(code)
  BY <1>4, <1>5
<1>9. PICK h : Looks(h, a, b) /\ Looked(e) = h[b]
  <2>1. \A i \in 1..Len(code) : code[i].op # "data"
    BY <1>1, <1>6, NoData
  <2>2. \A i \in a..b : code[i].op # "data"
    BY <1>8, <2>1
  <2>3. QED
    BY <1>5, <1>7, <2>2, LookedWalks
<1>10. ASSUME NEW i \in a..b PROVE Loads(Nat, code[i])
  <2>1. i \in 1..Len(code) /\ i # Len(code) /\ i \in Nat
    BY <1>8
  <2>2. PICK k \in 1..Len(layout) : off[k] < i /\ i <= off[k + 1]
    BY <1>1, <2>1 DEF CodeIs
  <2>3. Quiet(k, code[i])
    <3>1. Quiet(k, code[i]) \/ (i = off[k + 1] /\ layout[k].call # "shared")
      BY <1>1, <1>6, <2>1, <2>2, InBlock
    <3>2. layout[k].call # "shared" => k = Len(layout)
      BY DEF Sharing
    <3>3. off[Len(layout) + 1] = Len(code)
      BY <1>1 DEF CodeIs
    <3>4. QED
      BY <2>1, <3>1, <3>2, <3>3
  <2>4. N(k) \in Nat /\ \A q \in 1..N(k) : Rows(layout[k].class)[q] \in Addr
    BY <1>1, RowsFit
  <2>5. \A v \in Addr : v \in Nat
    BY FnsAreLow
  <2>6. Callback \in Nat /\ Tab(k) \in Nat
    BY <1>6, <2>5, TablesAssumption
  <2>7. QED
    BY <2>3, <2>4, <2>5, <2>6, QuietLoads DEF Loads
<1>11. Holds(h[b], Nat)
  <2>1. \A i \in a..b : Loads(Nat, code[i])
    BY <1>10
  <2>2. b <= b
    OBVIOUS
  <2>3. QED
    BY <1>7, <1>9, <2>1, <2>2, LookHolds
<1>12. H.methods = <<>>
  <2>1. \A v \in Nat : Undecodable(v)
    <3>1. SUFFICES ASSUME NEW v \in Nat, NEW n \in Nat, Decoded(v, n) # <<>> PROVE FALSE
      BY DEF Undecodable
    <3>2. n > 0 /\ \A i \in 1..n : v - TableBase + i \in DOMAIN image
      BY <3>1 DEF Decoded
    <3>3. v - TableBase + 1 \in DOMAIN image
      BY <3>2
    <3>4. DOMAIN image = {}
      OBVIOUS
    <3>5. QED
      BY <3>3, <3>4
  <2>2. PICK g : g = h[b] /\ Looked(Len(code)) = g
    BY <1>4, <1>9
  <2>3. g.n \in Nat /\ g.arg3 \in Seq(Nat) /\ g.near \in Seq(High(Nat))
    BY <1>11, <2>2 DEF Holds
  <2>4. High(Nat) \subseteq Nat
    BY DEF High
  <2>5. g.near \in Seq(Nat)
    BY <2>3, <2>4, Widens
  <2> HIDE DEF H
  <2>6. Harvest(Len(code)).methods = <<>>
    BY <2>1, <2>2, <2>3, <2>5, HarvestUnread
  <2>7. QED
    BY <2>6 DEF H
<1>13. ASSUME NEW k \in 1..Len(layout) PROVE Found("stack", <<>>, B[k], Len(B[k])) = Table(k)
  <2>1. layout[k].form = "stack"
    BY DEF Sharing, FillsFirst
  <2>2. Len(Rows(layout[k].class)) = Len(jar[layout[k].class])
    BY <1>1, RowsFit DEF N
  <2>3. B[k] = Rows(layout[k].class)
    BY <1>2
  <2> HIDE DEF B
  <2>4. QED
    BY <2>1, <2>2, <2>3 DEF Table, Readable
<1> HIDE DEF B, H
<1>14. TablesAt(Len(code)) = split
  <2>1. \/ strategy = "shared_dispatch" /\ B # <<>>
        \/ strategy = "auto" /\ H.methods = <<>> /\ Len(B) > 1
    BY <1>3, <1>12
  <2>2. QED
    BY <2>1 DEF TablesAt, B, H
<1>15. QED
  BY <1>3, <1>13, <1>14

-----------------------------------------------------------------------------
(* What a run keeps                                                         *)
World ==
    /\ world \in Worlds /\ jar = world.jar /\ truth = world.truth /\ layout = world.layout
    /\ code = CodeOf(layout, jar, truth) /\ image = ImageOf(layout, jar, truth)
    /\ skew = world.skew

\* A world gives what the lemmas ask of it.
LEMMA WorldFits == World => Fits
BY WorldsAssumption DEF World, Fits

\* The image and the code of a world are laid out as described.
LEMMA TabsThere ==
    ASSUME World
    PROVE  /\ \E io : ImageIs(io)
           /\ \A k \in DOMAIN layout : Tab(k) \in Nat
           /\ image \in Seq(Row)
           /\ \E off : CodeIs(off)
<1>1. Fits /\ image = ImageOf(layout, jar, truth) /\ code = CodeOf(layout, jar, truth)
  BY WorldFits DEF World
<1>2. PICK io : ImageIs(io)
  BY <1>1, ImageLaid
<1>3. ASSUME NEW k \in DOMAIN layout PROVE Tab(k) \in Nat
  <2>1. io[k] \in Nat /\ Tab(k) = TableBase + io[k]
    BY <1>1, <1>2 DEF ImageIs, Fits
  <2>2. QED
    BY <2>1, TablesAssumption
<1>4. image \in Seq(Row)
  BY <1>1, ImageTyped
<1>5. \E off : CodeIs(off)
  BY <1>1, <1>3, CodeLaid
<1>6. QED
  BY <1>2, <1>3, <1>4, <1>5

SameWorld == world' = world /\ jar' = jar /\ truth' = truth /\ layout' = layout /\ code' = code /\ image' = image
                /\ strategy' = strategy /\ skew' = skew

\* Only the two passes of the harvest change what the properties speak of.
LEMMA Steps ==
    ASSUME [Next]_vars
    PROVE  /\ SameWorld
           /\ \/ Scan \/ HarvestSite
              \/ pass' = pass /\ sites' = sites /\ tables' = tables
              \/ pass' \notin {"scan", "harvest"}
<1>1. CASE UNCHANGED vars
  BY <1>1 DEF vars, tableVars, mergeVars, SameWorld
<1>2. CASE (Scan \/ HarvestSite) /\ UNCHANGED <<world, jar, truth, registry, pos, merged>>
  BY <1>2 DEF Scan, HarvestSite, SameWorld
<1>3. CASE Introspect
  BY <1>3 DEF Introspect, tableVars, SameWorld
<1>4. CASE AddEmulated
  BY <1>4 DEF AddEmulated, tableVars, SameWorld
<1>5. CASE MergeNext /\ UNCHANGED <<world, tableVars>>
  <2>1. jar' = jar /\ truth' = truth /\ pass' \notin {"scan", "harvest"}
    BY <1>5 DEF MergeNext, ByClassName, Exports, Named, ByCount, Unreadable, NextPass, At, Step
  <2>2. QED
    BY <1>5, <2>1 DEF tableVars, SameWorld
<1>6. QED
  BY <1>1, <1>2, <1>3, <1>4, <1>5 DEF Next

\* What the properties speak of stays when the world does.
LEMMA CodeStays ==
    ASSUME SameWorld, NEW off
    PROVE  CodeIs(off)' <=> CodeIs(off)
<1>1. \A k : /\ Gap(k)' = Gap(k) /\ Opening(k)' = Opening(k)
             /\ Filling(k)' = Filling(k) /\ Closing(k)' = Closing(k)
  BY DEF SameWorld, Gap, Opening, Filling, Closing
<1>2. code' = code /\ layout' = layout
  BY DEF SameWorld
<1> HIDE DEF Gap, Opening, Filling, Closing, SameWorld
<1>3. QED
  BY <1>1, <1>2 DEF CodeIs, GapTo, FillFrom, FillTo

LEMMA TablesStay ==
    ASSUME SameWorld
    PROVE  \A k \in DOMAIN layout : Table(k)' = Table(k)
<1>1. SUFFICES ASSUME NEW k \in DOMAIN layout PROVE Table(k)' = Table(k)
  OBVIOUS
<1>2. layout' = layout /\ jar' = jar /\ truth' = truth
  BY DEF SameWorld
<1>3. Rows(layout[k].class)' = Rows(layout[k].class)
  BY <1>2 DEF Rows
<1>4. QED
  BY <1>2, <1>3 DEF Table, Readable

LEMMA HypothesesStay ==
    ASSUME SameWorld
    PROVE  (AllPlain' <=> AllPlain) /\ (Dispatched' <=> Dispatched)
<1>1. layout' = layout /\ jar' = jar /\ truth' = truth /\ code' = code /\ skew' = skew
  BY DEF SameWorld
<1>2. \A c, d : Shares(c, d)' <=> Shares(c, d)
  BY <1>1 DEF Shares
<1>3. \A k : Plain(k)' <=> Plain(k)
  BY <1>1 DEF Plain
<1>4. \A k : Alone(k)' <=> Alone(k)
  BY <1>1 DEF Alone, Near, Readable
<1>5. AllPlain' <=> AllPlain
  BY <1>1, <1>2, <1>3, <1>4 DEF AllPlain, OwnFunctions
<1>6. Dispatched' <=> Dispatched
  BY <1>1, <1>2 DEF Dispatched
<1>7. QED
  BY <1>5, <1>6

-----------------------------------------------------------------------------
(* The inductive invariant.                                                 *)

\* The calls still to look at are the last ones, and the tables found so far
\* those of the first.
Left(off, m) ==
    /\ CodeIs(off) /\ m \in 0..Len(layout)
    /\ tables = [k \in 1..m |-> Table(k)]
    /\ sites = [q \in 1..Len(layout) - m |-> off[m + q + 1]]
Harvested ==
    pass = "harvest" /\ AllPlain /\ strategy = "per_class" => \E off : \E m \in Nat : Left(off, m)
Shared ==
    /\ pass = "harvest" /\ Dispatched
    /\ strategy = "shared_dispatch" \/ (strategy = "auto" /\ Len(layout) > 1)
    => \/ layout # <<>> /\ sites = <<Len(code)>> /\ tables = <<>>
       \/ sites = <<>> /\ tables = [k \in DOMAIN layout |-> Table(k)]
StaticInv ==
    /\ World
    /\ pass = "scan" => sites = <<>> /\ tables = <<>>
    /\ Harvested /\ Shared

\* It holds at the start.
LEMMA StaticInit == Init => StaticInv
BY DEF Init, TablesInit, StaticInv, World, Harvested, Shared

\* The first pass finds the call of every registration.
LEMMA AllLeft ==
    ASSUME World, AllPlain, NEW off, CodeIs(off)
    PROVE  CallSites = [q \in 1..Len(layout) |-> off[q + 1]]
<1>1. PICK io : ImageIs(io)
  BY TabsThere
<1>2. Follows(off, io)
  BY <1>1, WorldFits, TabsThere DEF Follows
<1>3. \A k \in 1..Len(layout) : Tab(k) \in Nat /\ Tame(k) /\ layout[k].call # "shared"
  BY <1>2, FollowsIs
<1>4. QED
  BY <1>2, <1>3, SitesAre DEF Follows

\* After the scan every call is left.
LEMMA ScanPlain ==
    ASSUME StaticInv, Scan, SameWorld, AllPlain
    PROVE  \E off : \E m \in Nat : Left(off, m)'
<1>1. World /\ tables' = <<>> /\ sites' = CallSites /\ layout' = layout
  BY DEF StaticInv, Scan
<1>2. PICK off : CodeIs(off)
  BY <1>1, TabsThere
<1>3. PICK n \in Nat : n = Len(layout)
  BY <1>1, WorldFits DEF Fits
<1>4. CodeIs(off)'
  BY <1>2, CodeStays
<1>5. CallSites = [q \in 1..n |-> off[q + 1]]
  BY <1>1, <1>2, <1>3, AllLeft
<1>6. [q \in 1..n - 0 |-> off[0 + q + 1]] = [q \in 1..n |-> off[q + 1]]
  <2>1. n - 0 = n /\ \A q \in 1..n : 0 + q + 1 = q + 1
    BY <1>3
  <2>2. QED
    BY <2>1
<1>7. [k \in 1..0 |-> Table(k)'] = <<>>
  OBVIOUS
<1>8. 0 \in 0..n
  BY <1>3
<1>9. Left(off, 0)'
  BY <1>1, <1>3, <1>4, <1>5, <1>6, <1>7, <1>8 DEF Left
<1>10. QED
  BY <1>9

\* What is left of a sequence without its first element
LEMMA TailIs ==
    ASSUME NEW S, NEW s \in Seq(S), NEW l \in Nat, l = Len(s), s # <<>>
    PROVE  Tail(s) = [i \in 1..l - 1 |-> s[i + 1]]
<1>1. Tail(s) \in Seq(S) /\ Len(Tail(s)) = l - 1
  OBVIOUS
<1>2. \A i \in 1..l - 1 : Tail(s)[i] = s[i + 1]
  OBVIOUS
<1>3. PICK t \in Seq(S) : t = Tail(s) /\ Len(t) = l - 1
  BY <1>1
<1>4. t = [i \in 1..l - 1 |-> t[i]]
  BY <1>3, SeqIsFun
<1>5. \A i \in 1..l - 1 : t[i] = s[i + 1]
  BY <1>2, <1>3
<1>6. t = [i \in 1..l - 1 |-> s[i + 1]]
  BY <1>4, <1>5
<1>7. QED
  BY <1>3, <1>6

\* One site of the harvest adds the table of its class.
LEMMA HarvestPlain ==
    ASSUME StaticInv, HarvestSite, SameWorld, AllPlain, strategy = "per_class"
    PROVE  \E off : \E m \in Nat : Left(off, m)'
<1>1. World /\ pass = "harvest" /\ sites # <<>> /\ tables' = tables \o TablesAt(Head(sites)) /\ sites' = Tail(sites)
      /\ layout' = layout
  BY DEF StaticInv, HarvestSite
<1>2. PICK off, m : m \in Nat /\ Left(off, m)
  BY <1>1 DEF StaticInv, Harvested
<1>3. PICK n \in Nat : n = Len(layout) /\ DOMAIN layout = 1..n
  BY <1>1, WorldFits DEF Fits
<1>4. CodeIs(off) /\ m <= n /\ tables = [k \in 1..m |-> Table(k)] /\ sites = [q \in 1..n - m |-> off[m + q + 1]]
  BY <1>2, <1>3 DEF Left
<1>5. m + 1 <= n /\ m + 1 \in 1..n
  <2>1. SUFFICES ASSUME ~(m + 1 <= n) PROVE FALSE
    BY <1>2, <1>3
  <2>2. 1..n - m = {}
    BY <1>2, <1>3, <2>1
  <2>3. sites = <<>>
    BY <1>4, <2>2
  <2>4. QED
    BY <1>1, <2>3
<1>6. PICK p \in Nat : p = m + 1 /\ p \in 1..n
  BY <1>2, <1>5
<1>7. Head(sites) = off[p + 1]
  <2>1. 1 \in 1..n - m /\ m + 1 + 1 = p + 1
    BY <1>2, <1>3, <1>5, <1>6
  <2>2. sites[1] = off[m + 1 + 1]
    BY <1>4, <2>1
  <2>3. Head(sites) = sites[1]
    OBVIOUS
  <2>4. QED
    BY <2>1, <2>2, <2>3
<1>8. PICK io : ImageIs(io)
  BY <1>1, TabsThere
<1>9. Follows(off, io)
  BY <1>1, <1>4, <1>8, WorldFits, TabsThere DEF Follows
<1>10. TablesAt(Head(sites)) = <<Table(p)>>
  BY <1>3, <1>6, <1>7, <1>9, PlainTables
<1>11. tables' = [k \in 1..p |-> Table(k)]
  <2> DEFINE g == [k \in 1..p |-> Table(k)]
  <2>1. tables = [k \in 1..m |-> g[k]] /\ g[m + 1] = Table(p)
    BY <1>2, <1>4, <1>6
  <2>2. g = [k \in 1..m + 1 |-> g[k]]
    BY <1>6
  <2> HIDE DEF g
  <2>3. Append([k \in 1..m |-> g[k]], g[m + 1]) = [k \in 1..m + 1 |-> g[k]]
    BY <1>2, NextAppended
  <2>4. tables \o <<Table(p)>> = Append(tables, Table(p))
    <3>1. Len(tables) = m /\ DOMAIN tables = 1..m
      BY <1>2, <1>4
    <3>2. QED
      BY <1>2, <1>4, <3>1
  <2>5. QED
    BY <1>1, <1>10, <2>1, <2>2, <2>3, <2>4 DEF g
<1>12. sites' = [q \in 1..n - p |-> off[p + q + 1]]
  <2>1. Len(sites) = n - m /\ n - m \in Nat
    BY <1>2, <1>3, <1>4, <1>5
  <2>2. Tail(sites) = [i \in 1..(n - m) - 1 |-> sites[i + 1]]
    <3>1. PICK l \in Nat : l = n - m
      BY <2>1
    <3>2. sites \in Seq({sites[i] : i \in 1..l})
      BY <1>4, <3>1
    <3>3. l = Len(sites)
      BY <2>1, <3>1
    <3>4. Tail(sites) = [i \in 1..l - 1 |-> sites[i + 1]]
      BY <1>1, <3>2, <3>3, TailIs
    <3>5. QED
      BY <3>1, <3>4
  <2>3. (n - m) - 1 = n - p
    BY <1>2, <1>3, <1>6
  <2>4. ASSUME NEW i \in 1..n - p PROVE sites[i + 1] = off[p + i + 1]
    <3>1. i + 1 \in 1..n - m /\ m + (i + 1) + 1 = p + i + 1
      BY <1>2, <1>3, <1>6
    <3>2. sites[i + 1] = off[m + (i + 1) + 1]
      BY <1>4, <3>1
    <3>3. QED
      BY <3>1, <3>2
  <2>5. QED
    BY <1>1, <2>2, <2>3, <2>4
<1>13. CodeIs(off)'
  BY <1>4, CodeStays
<1>14. [k \in 1..p |-> Table(k)'] = [k \in 1..p |-> Table(k)]
  <2>1. \A k \in 1..p : k \in DOMAIN layout
    BY <1>3, <1>6
  <2>2. \A k \in 1..p : Table(k)' = Table(k)
    BY <2>1, TablesStay
  <2>3. QED
    BY <2>2
<1>15. p \in 0..n
  BY <1>6
<1>16. Left(off, p)'
  BY <1>1, <1>3, <1>11, <1>12, <1>13, <1>14, <1>15 DEF Left
<1>17. QED
  BY <1>6, <1>16

\* What the property asks is what the lemmas ask.
LEMMA SharingIs ==
    ASSUME World, Dispatched, layout # <<>>, NEW off, CodeIs(off)
    PROVE  Sharing(off) /\ image = <<>>
<1>1. Fits /\ DOMAIN layout = 1..Len(layout)
  BY WorldFits DEF Fits
<1>2. Len(code) <= DispatchWindow
  BY DEF Dispatched
<1>3. ASSUME NEW k \in 1..Len(layout)
      PROVE  /\ Tab(k) \in Nat /\ FillsFirst(k) /\ layout[k].form = "stack"
             /\ layout[k].call = IF k = Len(layout) THEN "call" ELSE "shared"
             /\ ~Shares(layout[k].class, layout[k].class)
  BY <1>1, TabsThere DEF Dispatched, FillsFirst
<1>4. Sharing(off)
  BY <1>1, <1>2, <1>3 DEF Sharing
<1>5. image = <<>>
  BY <1>1, <1>3, NoImage DEF World
<1>6. QED
  BY <1>4, <1>5

\* The first pass finds the one call.
LEMMA ScanShared ==
    ASSUME World, Dispatched
    PROVE  /\ layout # <<>> => CallSites = <<Len(code)>>
           /\ layout = <<>> => CallSites = <<>>
<1>1. PICK off : CodeIs(off)
  BY TabsThere
<1>2. ASSUME layout # <<>> PROVE CallSites = <<Len(code)>>
  <2>1. Sharing(off)
    BY <1>1, <1>2, SharingIs
  <2>2. Fits /\ \A k \in 1..Len(layout) :
                    /\ Tab(k) \in Nat /\ Tame(k)
                    /\ layout[k].call = IF k = Len(layout) THEN "call" ELSE "shared"
    BY <2>1 DEF Sharing, FillsFirst, Tame
  <2>3. QED
    BY <1>1, <1>2, <2>2, OneSite
<1>3. ASSUME layout = <<>> PROVE CallSites = <<>>
  <2>1. Len(layout) = 0
    BY <1>3
  <2>2. \A k \in 1..Len(layout) : Tab(k) \in Nat /\ Tame(k) /\ layout[k].call # "shared"
    BY <2>1
  <2>3. CallSites = [k \in 1..Len(layout) |-> off[k + 1]]
    BY <1>1, <2>2, WorldFits, SitesAre
  <2>4. QED
    BY <2>1, <2>3
<1>4. QED
  BY <1>2, <1>3

\* What the property says of the strategies, under a name
Dispatching == strategy = "shared_dispatch" \/ (strategy = "auto" /\ Len(layout) > 1)

\* Its harvest gives all of the tables.
LEMMA HarvestShared ==
    ASSUME StaticInv, HarvestSite, SameWorld, Dispatched, Dispatching
    PROVE  sites' = <<>> /\ tables' = [k \in DOMAIN layout |-> Table(k)]
<1>1. World /\ pass = "harvest" /\ sites # <<>> /\ tables' = tables \o TablesAt(Head(sites)) /\ sites' = Tail(sites)
  BY DEF StaticInv, HarvestSite
<1>2. layout # <<>> /\ sites = <<Len(code)>> /\ tables = <<>>
  BY <1>1 DEF StaticInv, Shared, Dispatching
<1>3. PICK off : CodeIs(off)
  BY <1>1, TabsThere
<1>4. Sharing(off) /\ image = <<>>
  BY <1>1, <1>2, <1>3, SharingIs
<1>5. TablesAt(Len(code)) = [k \in 1..Len(layout) |-> Table(k)]
  BY <1>4, SharedTables DEF Dispatching
<1>6. DOMAIN layout = 1..Len(layout) /\ Len(layout) \in Nat
  BY <1>1, WorldFits DEF Fits
<1>7. Head(sites) = Len(code) /\ Tail(sites) = <<>>
  BY <1>2
<1>8. tables' = <<>> \o [k \in 1..Len(layout) |-> Table(k)]
  BY <1>1, <1>2, <1>5, <1>7
<1>9. <<>> \o [k \in 1..Len(layout) |-> Table(k)] = [k \in 1..Len(layout) |-> Table(k)]
  <2> DEFINE f == [k \in 1..Len(layout) |-> Table(k)]
  <2>1. f \in Seq({f[k] : k \in 1..Len(layout)})
    BY <1>6
  <2> HIDE DEF f
  <2>2. <<>> \o f = f
    BY <2>1
  <2>3. QED
    BY <2>2 DEF f
<1>10. QED
  BY <1>1, <1>6, <1>7, <1>8, <1>9

LEMMA HarvestedStep ==
    ASSUME StaticInv, [Next]_vars
    PROVE  Harvested'
<1>1. SameWorld
  BY Steps
<1>2. SUFFICES ASSUME pass' = "harvest", AllPlain', strategy' = "per_class"
               PROVE  \E off : \E m \in Nat : Left(off, m)'
  BY DEF Harvested
<1>3. AllPlain /\ strategy = "per_class"
  BY <1>1, <1>2, HypothesesStay DEF SameWorld
<1>4. CASE Scan
  BY <1>1, <1>3, <1>4, ScanPlain
<1>5. CASE HarvestSite
  BY <1>1, <1>3, <1>5, HarvestPlain
<1>6. CASE pass' = pass /\ sites' = sites /\ tables' = tables
  <2>1. PICK off, m : m \in Nat /\ Left(off, m)
    BY <1>2, <1>3, <1>6 DEF StaticInv, Harvested
  <2>2. CodeIs(off)' /\ layout' = layout
    BY <1>1, <2>1, CodeStays DEF Left, SameWorld
  <2>3. PICK n \in Nat : n = Len(layout) /\ DOMAIN layout = 1..n
    BY WorldFits DEF StaticInv, Fits
  <2>4. m \in 0..n
    BY <2>1, <2>3 DEF Left
  <2>5. [k \in 1..m |-> Table(k)'] = [k \in 1..m |-> Table(k)]
    <3>1. \A k \in 1..m : k \in DOMAIN layout
      BY <2>3, <2>4
    <3>2. \A k \in 1..m : Table(k)' = Table(k)
      BY <1>1, <3>1, TablesStay
    <3>3. QED
      BY <3>2
  <2>6. Left(off, m)'
    BY <1>6, <2>1, <2>2, <2>5 DEF Left
  <2>7. QED
    BY <2>1, <2>6
<1>7. CASE pass' \notin {"scan", "harvest"}
  BY <1>2, <1>7
<1>8. QED
  BY <1>4, <1>5, <1>6, <1>7, Steps

LEMMA SharedStep ==
    ASSUME StaticInv, [Next]_vars
    PROVE  Shared'
<1>1. SameWorld
  BY Steps
<1>2. layout' = layout /\ code' = code /\ strategy' = strategy
  BY <1>1 DEF SameWorld
<1>3. \A k \in DOMAIN layout : Table(k)' = Table(k)
  BY <1>1, TablesStay
<1>4. [k \in DOMAIN layout |-> Table(k)'] = [k \in DOMAIN layout |-> Table(k)]
  BY <1>3
<1>5. SUFFICES ASSUME pass' = "harvest", Dispatched, Dispatching
               PROVE  \/ layout # <<>> /\ sites' = <<Len(code)>> /\ tables' = <<>>
                      \/ sites' = <<>> /\ tables' = [k \in DOMAIN layout |-> Table(k)]
  BY <1>1, <1>2, <1>4, HypothesesStay DEF Shared, Dispatching
<1>6. CASE Scan
  <2>1. sites' = CallSites /\ tables' = <<>>
    BY <1>6 DEF StaticInv, Scan
  <2>2. World
    BY DEF StaticInv
  <2>3. CASE layout # <<>>
    BY <1>5, <2>1, <2>2, <2>3, ScanShared
  <2>4. CASE layout = <<>>
    <3>1. sites' = <<>>
      BY <1>5, <2>1, <2>2, <2>4, ScanShared
    <3>2. [k \in DOMAIN layout |-> Table(k)] = <<>>
      BY <2>4
    <3>3. QED
      BY <2>1, <3>1, <3>2
  <2>5. QED
    BY <2>3, <2>4
<1>7. CASE HarvestSite
  BY <1>1, <1>5, <1>7, HarvestShared
<1>8. CASE pass' = pass /\ sites' = sites /\ tables' = tables
  BY <1>5, <1>8 DEF StaticInv, Shared, Dispatching
<1>9. CASE pass' \notin {"scan", "harvest"}
  BY <1>5, <1>9
<1>10. QED
  BY <1>6, <1>7, <1>8, <1>9, Steps

\* Every step keeps it.
LEMMA StaticStep == StaticInv /\ [Next]_vars => StaticInv'
<1>1. SUFFICES ASSUME StaticInv, [Next]_vars PROVE StaticInv'
  OBVIOUS
<1>2. SameWorld
  BY <1>1, Steps
<1>3. World'
  BY <1>1, <1>2 DEF StaticInv, World, SameWorld
<1>4. pass' = "scan" => sites' = <<>> /\ tables' = <<>>
  <2>1. CASE Scan
    BY <2>1 DEF Scan
  <2>2. CASE HarvestSite
    BY <2>2 DEF HarvestSite
  <2>3. CASE pass' = pass /\ sites' = sites /\ tables' = tables
    BY <1>1, <2>3 DEF StaticInv
  <2>4. QED
    BY <1>1, <2>1, <2>2, <2>3, Steps
<1>5. Harvested' /\ Shared'
  BY <1>1, HarvestedStep, SharedStep
<1>6. QED
  BY <1>3, <1>4, <1>5 DEF StaticInv

\* It implies both properties.
LEMMA StaticExact == StaticInv => PlainIsExact /\ DispatchIsExact
<1>1. SUFFICES ASSUME StaticInv, pass = "harvest", sites = <<>>
               PROVE  PlainIsExact /\ DispatchIsExact
  BY DEF PlainIsExact, DispatchIsExact
<1>2. PICK n \in Nat : n = Len(layout) /\ DOMAIN layout = 1..n
  BY <1>1, WorldFits DEF StaticInv, Fits
<1>3. PlainIsExact
  <2>1. SUFFICES ASSUME AllPlain, strategy = "per_class"
                 PROVE  tables = [k \in DOMAIN layout |-> Table(k)]
    BY DEF PlainIsExact
  <2>2. PICK off, m : m \in Nat /\ Left(off, m)
    BY <1>1, <2>1 DEF StaticInv, Harvested
  <2>3. m \in 0..n /\ tables = [k \in 1..m |-> Table(k)] /\ sites = [q \in 1..n - m |-> off[m + q + 1]]
    BY <1>2, <2>2 DEF Left
  <2>4. m = n
    <3>1. SUFFICES ASSUME m # n PROVE FALSE
      OBVIOUS
    <3>2. 1 \in 1..n - m
      BY <1>2, <2>3, <3>1
    <3>3. 1 \in DOMAIN sites
      BY <2>3, <3>2
    <3>4. DOMAIN sites = {}
      BY <1>1
    <3>5. QED
      BY <3>3, <3>4
  <2>5. QED
    BY <1>2, <2>3, <2>4
<1>4. DispatchIsExact
  <2>1. SUFFICES ASSUME Dispatched, Dispatching
                 PROVE  tables = [k \in DOMAIN layout |-> Table(k)]
    BY DEF DispatchIsExact, Dispatching
  <2>2. <<Len(code)>> # <<>>
    OBVIOUS
  <2>3. QED
    BY <1>1, <2>1, <2>2 DEF StaticInv, Shared, Dispatching
<1>5. QED
  BY <1>3, <1>4

\* For every set of worlds: in a library whose registrations the harvest is made
\* for, the per-class harvest ends with the table of every class, in order, and
\* nothing else, and tells of each table it cannot read.
THEOREM PlainExact == Spec => []PlainIsExact
<1>1. StaticInv => PlainIsExact
  BY StaticExact
<1>2. QED
  BY <1>1, StaticInit, StaticStep, PTL DEF Spec

\* For every set of worlds: where all classes share one call, the dispatch harvest
\* ends with the table of every class, and so does "auto" when there are two.
THEOREM DispatchExact == Spec => []DispatchIsExact
<1>1. StaticInv => DispatchIsExact
  BY StaticExact
<1>2. QED
  BY <1>1, StaticInit, StaticStep, PTL DEF Spec

-----------------------------------------------------------------------------
(* The merge.                                                               *)

USE MergeAssumption

-----------------------------------------------------------------------------
(* What the merge reads and never writes.                                  *)

Inputs ==
    /\ IsJar(jar) /\ truth \in [Class -> [Method -> Addr]]
    /\ IsRegistry(registry)

LEMMA InputsStay ==
    ASSUME Inputs, [MergeNext]_mergeVars
    PROVE  Inputs' /\ jar' = jar /\ truth' = truth /\ registry' = registry
<1>1. jar' = jar /\ truth' = truth /\ registry' = registry
  BY DEF MergeNext, mergeVars, ByClassName, Exports, Named, ByCount, Unreadable, NextPass, Step
<1>2. QED
  BY <1>1 DEF Inputs, IsJar, IsRegistry

LEMMA EntryTyped ==
    ASSUME Inputs, NEW i \in DOMAIN registry
    PROVE  /\ registry[i] \in EntryType
           /\ registry[i].methods \in Seq(MethodType) /\ registry[i].addrs \in Seq(Addr)
           /\ registry[i].class \in Class \cup {NoClass}
           /\ registry[i].methods = <<>> \/ Len(registry[i].methods) = Len(registry[i].addrs)
<1>1. registry \in Seq(EntryType)
  BY DEF Inputs, IsRegistry
<1>2. registry[i] \in EntryType
  BY <1>1
<1>3. QED
  BY <1>2 DEF Inputs, IsRegistry, EntryType

LEMMA JarTyped ==
    ASSUME Inputs, NEW c \in Class
    PROVE  jar[c] \in Seq(Method) /\ truth[c] \in [Method -> Addr]
BY DEF Inputs, IsJar

LEMMA JarWidens ==
    ASSUME Inputs, NEW c \in Class
    PROVE  jar[c] \in Seq(MethodType)
<1>1. jar[c] \in Seq(Method)
  BY JarTyped
<1>2. \A i \in 1..Len(jar[c]) : jar[c][i] \in MethodType
  BY <1>1 DEF MethodType
<1>3. QED
  BY <1>1, <1>2

LEMMA RowsTyped ==
    ASSUME Inputs, NEW c \in Class
    PROVE  Rows(c) \in Seq(Addr) /\ Len(Rows(c)) = Len(jar[c]) /\ DOMAIN Rows(c) = DOMAIN jar[c]
<1>1. jar[c] \in Seq(Method) /\ truth[c] \in [Method -> Addr]
  BY JarTyped
<1>2. Rows(c) = [i \in 1..Len(jar[c]) |-> truth[c][jar[c][i]]]
  BY <1>1 DEF Rows
<1>3. \A i \in 1..Len(jar[c]) : truth[c][jar[c][i]] \in Addr
  BY <1>1
<1>4. QED
  BY <1>1, <1>2, <1>3

\* The newest entry of a set of entries is one of them.
LEMMA NewestIsOne ==
    ASSUME NEW S, S \subseteq 1..Len(registry), S # {}, Inputs
    PROVE  Newest(S) \in S
<1> DEFINE n == Len(registry)
<1> DEFINE L == OpToRel(<,Nat)
<1> DEFINE T == {k \in Nat : \E i \in S : k = n - i}
<1>0. n \in Nat
  BY DEF Inputs, IsRegistry
<1>1. \A y \in Nat, x \in Nat : y < x => <<y,x>> \in L
  <2>1. SUFFICES ASSUME NEW y \in Nat, NEW x \in Nat, y < x
                 PROVE  <<y,x>> \in L
    OBVIOUS
  <2>2. <<y,x>>[1] = y /\ <<y,x>>[2] = x /\ <<y,x>> \in Nat \X Nat
    OBVIOUS
  <2>3. QED
    BY <2>1, <2>2, Zenon DEF OpToRel
<1>2. T # {}
  <2>1. PICK i \in S : TRUE
    OBVIOUS
  <2>2. n - i \in Nat
    BY <1>0, <2>1
  <2>3. QED
    BY <2>1, <2>2
<1>3. T \subseteq Nat
  OBVIOUS
<1>4. PICK x \in T : \A y \in T : ~ (<<y, x>> \in L)
  BY <1>2, <1>3, WFMin, NatLessThanWellFounded
<1>5. \A y \in T : ~ (y < x)
  BY <1>1, <1>3, <1>4, Zenon
<1>6. PICK i \in S : x = n - i
  BY <1>4
<1> HIDE DEF L
<1>7. \A k \in S : k <= i
  <2>1. SUFFICES ASSUME NEW k \in S PROVE k <= i
    OBVIOUS
  <2>2. n - k \in T
    BY <1>0
  <2>3. ~ (n - k < n - i)
    BY <1>5, <1>6, <2>2
  <2>4. QED
    BY <1>0, <2>3
<1>8. \E j \in S : \A k \in S : k <= j
  BY <1>6, <1>7
<1>9. QED
  BY <1>8, Zenon DEF Newest

-----------------------------------------------------------------------------
(* Types.                                                                  *)

LEMMA BoundTyped ==
    ASSUME NEW c \in Class, NEW methods \in Seq(MethodType), NEW addrs \in Seq(Addr),
           methods = <<>> \/ Len(methods) = Len(addrs),
           fnIndex \in [Class -> [Method -> Addr \cup {NoAddr}]]
    PROVE  Bound(c, methods, addrs) \in [Class -> [Method -> Addr \cup {NoAddr}]]
<1>1. \A m \in Method : (\E i \in DOMAIN methods : methods[i] = m) =>
          addrs[CHOOSE i \in DOMAIN methods : methods[i] = m] \in Addr
  <2>1. SUFFICES ASSUME NEW m \in Method, \E i \in DOMAIN methods : methods[i] = m
                 PROVE  addrs[CHOOSE i \in DOMAIN methods : methods[i] = m] \in Addr
    OBVIOUS
  <2>2. (CHOOSE i \in DOMAIN methods : methods[i] = m) \in DOMAIN methods
    BY <2>1
  <2>3. DOMAIN methods \subseteq 1..Len(addrs)
    BY <2>1
  <2>4. QED
    BY <2>2, <2>3
<1>2. QED
  BY <1>1 DEF Bound

\* The entry of a symbol is an export, so it has an address.
LEMMA SymbolAddress ==
    ASSUME Inputs, NEW c \in Class, NEW m \in Method, NEW short \in BOOLEAN,
           Symbols(c, m, short) # {}
    PROVE  registry[Newest(Symbols(c, m, short))].addrs[1] \in Addr
<1> DEFINE i == Newest(Symbols(c, m, short))
<1>1. Symbols(c, m, short) \subseteq 1..Len(registry)
  BY DEF Symbols, Inputs, IsRegistry
<1>2. i \in Symbols(c, m, short)
  BY <1>1, NewestIsOne
<1>3. i \in DOMAIN registry /\ registry[i].source = "export"
  BY <1>2 DEF Symbols
<1>4. Len(registry[i].addrs) = 1
  BY <1>3 DEF Inputs, IsRegistry
<1>5. registry[i].addrs \in Seq(Addr)
  BY <1>3, EntryTyped
<1>6. QED
  BY <1>4, <1>5

LEMMA ExportsTyped ==
    ASSUME Inputs, fnIndex \in [Class -> [Method -> Addr \cup {NoAddr}]],
           NEW c \in Class, NEW m \in Method
    PROVE  ExportOf(c, m) \in Addr \cup {NoAddr}
<1>1. \A short \in BOOLEAN : Symbols(c, m, short) # {} =>
          registry[Newest(Symbols(c, m, short))].addrs[1] \in Addr
  BY SymbolAddress
<1>2. QED
  BY <1>1 DEF ExportOf

TypeInv == Inputs /\ MergeTypeOK

LEMMA TypeInit == MergeInit => TypeInv
BY DEF MergeInit, MergeStart, TypeInv, Inputs, MergeTypeOK, Unbound

LEMMA TypeStep == TypeInv /\ [MergeNext]_mergeVars => TypeInv'
<1>1. SUFFICES ASSUME TypeInv, [MergeNext]_mergeVars
               PROVE  MergeTypeOK'
  BY InputsStay DEF TypeInv
<1>2. Inputs /\ MergeTypeOK
  BY <1>1 DEF TypeInv
<1>3. jar' = jar /\ truth' = truth /\ registry' = registry
  BY <1>1, <1>2, InputsStay
<1>4. registry \in Seq(EntryType) /\ DOMAIN registry = 1..Len(registry) /\ Len(registry) \in Nat
  BY <1>2 DEF Inputs, IsRegistry
<1>5. \A p : At(p) => pos \in DOMAIN registry
  BY <1>2, <1>4 DEF At, MergeTypeOK
<1>6. CASE UNCHANGED mergeVars
  BY <1>2, <1>3, <1>6 DEF mergeVars, MergeTypeOK
<1>7. CASE ByClassName
  <2>1. pos \in DOMAIN registry
    BY <1>5, <1>7 DEF ByClassName
  <2>2. Here.class # NoClass => Here.class \in Class
    BY <1>2, <2>1, EntryTyped DEF Here
  <2>3. Here.class \in Class => Bound(Here.class, Here.methods, Here.addrs) \in [Class -> [Method -> Addr \cup {NoAddr}]]
    BY <1>2, <2>1, EntryTyped, BoundTyped DEF Here, MergeTypeOK
  <2>4. QED
    BY <1>2, <1>3, <1>7, <2>2, <2>3 DEF ByClassName, MergeTypeOK, Step, merged
<1>8. CASE Exports
  <2>1. \A c \in Class, m \in Method : ExportOf(c, m) \in Addr \cup {NoAddr}
    BY <1>2, ExportsTyped DEF MergeTypeOK
  <2>2. fnIndex' \in [Class -> [Method -> Addr \cup {NoAddr}]]
    BY <1>2, <1>8, <2>1 DEF Exports, MergeTypeOK
  <2>3. QED
    BY <1>2, <1>3, <1>8, <2>2 DEF Exports, MergeTypeOK
<1>9. CASE Named
  <2>1. pos \in DOMAIN registry
    BY <1>5, <1>9 DEF Named
  <2>2. \A c \in Signed(Here) : c \in Class /\ jar[c] = Here.methods
    BY DEF Signed, NativeClasses
  <2>3. \A c \in Signed(Here) :
            Bound(c, jar[c], Here.addrs) \in [Class -> [Method -> Addr \cup {NoAddr}]]
    BY <1>2, <2>1, <2>2, EntryTyped, BoundTyped DEF Here, MergeTypeOK
  <2>4. CASE UNCHANGED <<fnIndex, used, ambiguous, boundTo>>
    BY <1>2, <1>3, <1>9, <2>4 DEF Named, MergeTypeOK, Step
  <2>5. CASE ambiguous' = ambiguous \cup {pos} /\ UNCHANGED <<fnIndex, used, boundTo>>
    BY <1>2, <1>3, <1>9, <2>1, <2>5 DEF Named, MergeTypeOK, Step
  <2>6. CASE \E c \in Signed(Here):
            /\ used' = used \cup {c}
            /\ fnIndex' = Bound(c, jar[c], Here.addrs)
            /\ boundTo' = [boundTo EXCEPT ![pos] = c]
            /\ UNCHANGED ambiguous
    BY <1>2, <1>3, <1>9, <2>1, <2>2, <2>3, <2>6 DEF Named, MergeTypeOK, Step
  <2>7. QED
    BY <1>9, <2>4, <2>5, <2>6 DEF Named
<1>10. CASE ByCount
  <2>1. pos \in DOMAIN registry
    BY <1>5, <1>10 DEF ByCount
  <2>2. \A c \in Counted(Here) : c \in Class /\ Len(jar[c]) = Len(Here.addrs)
    BY DEF Counted, NativeClasses
  <2>3. \A c \in Counted(Here) :
            Bound(c, jar[c], Here.addrs) \in [Class -> [Method -> Addr \cup {NoAddr}]]
    <3>1. \A c \in Counted(Here) : jar[c] \in Seq(MethodType)
      BY <1>2, <2>2, JarWidens
    <3>2. QED
      BY <1>2, <2>1, <2>2, <3>1, EntryTyped, BoundTyped DEF Here, MergeTypeOK
  <2>4. CASE UNCHANGED <<fnIndex, used, boundTo, gaps>>
    BY <1>2, <1>3, <1>10, <2>4 DEF ByCount, MergeTypeOK, Step
  <2>5. CASE /\ gaps' = gaps \cup
                {[kind |-> "ambiguous-count-only-table", site |-> pos, candidates |-> Counted(Here)]}
             /\ UNCHANGED <<fnIndex, used, boundTo>>
    BY <1>2, <1>3, <1>10, <2>1, <2>2, <2>5 DEF ByCount, MergeTypeOK, Step
  <2>6. CASE \E c \in Counted(Here):
            /\ used' = used \cup {c}
            /\ fnIndex' = IF Complete(c) THEN fnIndex ELSE Bound(c, jar[c], Here.addrs)
            /\ boundTo' = [boundTo EXCEPT ![pos] = c]
            /\ UNCHANGED gaps
    BY <1>2, <1>3, <1>10, <2>1, <2>2, <2>3, <2>6 DEF ByCount, MergeTypeOK, Step
  <2>7. QED
    BY <1>10, <2>4, <2>5, <2>6 DEF ByCount
<1>11. CASE Unreadable
  BY <1>2, <1>3, <1>5, <1>11 DEF Unreadable, MergeTypeOK, Step
<1>12. CASE NextPass("named", "count") \/ NextPass("count", "unreadable") \/ NextPass("unreadable", "done")
  BY <1>2, <1>3, <1>12 DEF NextPass, MergeTypeOK, merged
<1>13. QED
  BY <1>1, <1>6, <1>7, <1>8, <1>9, <1>10, <1>11, <1>12 DEF MergeNext

\* The merge keeps its types: what it writes into the manifest are classes of
\* the jar, entries of the registry and addresses the registry named.
THEOREM MergeTypes == MergeSpec => []MergeTypeOK
<1>1. MergeInit => TypeInv
  BY TypeInit
<1>2. TypeInv /\ [MergeNext]_mergeVars => TypeInv'
  BY TypeStep
<1>3. TypeInv => MergeTypeOK
  BY DEF TypeInv
<1>4. QED
  BY <1>1, <1>2, <1>3, PTL DEF MergeSpec

-----------------------------------------------------------------------------
(* No method gets an address that is not its own.                          *)

True(f) == \A c \in Class, m \in Method : f[c][m] \in {NoAddr, truth[c][m]}

\* Class c has a table with names in the registry.
HasNames(c) ==
    \E i \in DOMAIN registry :
        IsSite(registry[i]) /\ Describes(registry[i], c) /\ registry[i].methods # <<>>

\* Why a class is used.
UsedFor(U) ==
    \A c \in U : HasNames(c) \/ \A d \in NativeClasses \ U : Len(jar[d]) # Len(jar[c])

\* A table with names is settled by the end of the pass over such tables.
Settled(i) ==
    IsSite(registry[i]) /\ registry[i].methods # <<>> => boundTo[i] # NoClass \/ i \in ambiguous

TruthInv ==
    Exact =>
        /\ True(fnIndex)
        /\ UsedFor(used)
        /\ \A i \in DOMAIN registry :
              pass \in {"count", "unreadable", "done"} \/ (pass = "named" /\ i < pos) => Settled(i)

\* Binding a class to its own rows keeps the index true.
LEMMA BoundKeepsTrue ==
    ASSUME TypeInv, True(fnIndex), NEW c \in Class, NEW methods, methods \in {<<>>, jar[c]}
    PROVE  True(Bound(c, methods, Rows(c)))
<1>1. jar[c] \in Seq(Method)
  BY JarTyped DEF TypeInv
<1>2. ASSUME NEW m \in Method, \E i \in DOMAIN methods : methods[i] = m
      PROVE  Rows(c)[CHOOSE i \in DOMAIN methods : methods[i] = m] = truth[c][m]
  <2> DEFINE k == CHOOSE i \in DOMAIN methods : methods[i] = m
  <2>1. k \in DOMAIN methods /\ methods[k] = m
    BY <1>2
  <2>2. methods = jar[c]
    BY <2>1
  <2>3. QED
    BY <2>1, <2>2 DEF Rows
<1>3. fnIndex \in [Class -> [Method -> Addr \cup {NoAddr}]]
  BY DEF TypeInv, MergeTypeOK
<1>4. \A d \in Class, m \in Method : Bound(c, methods, Rows(c))[d][m] =
        IF d = c /\ (\E i \in DOMAIN methods : methods[i] = m)
        THEN Rows(c)[CHOOSE i \in DOMAIN methods : methods[i] = m] ELSE fnIndex[d][m]
  BY <1>3 DEF Bound
<1>5. ASSUME NEW d \in Class, NEW m \in Method
      PROVE  Bound(c, methods, Rows(c))[d][m] \in {NoAddr, truth[d][m]}
  <2>1. CASE d = c /\ (\E i \in DOMAIN methods : methods[i] = m)
    <3>1. Bound(c, methods, Rows(c))[d][m] = Rows(c)[CHOOSE i \in DOMAIN methods : methods[i] = m]
      BY <1>4, <2>1, Zenon
    <3>2. QED
      BY <1>2, <2>1, <3>1, Zenon
  <2>2. CASE ~ (d = c /\ (\E i \in DOMAIN methods : methods[i] = m))
    <3>1. Bound(c, methods, Rows(c))[d][m] = fnIndex[d][m]
      BY <1>4, <2>2, Zenon
    <3>2. QED
      BY <3>1 DEF True
  <2>3. QED
    BY <2>1, <2>2
<1>6. QED
  BY <1>5, Zenon DEF True

\* In an exact registry the class of a table with names is the one it fits.
LEMMA SignedIsTrue ==
    ASSUME TypeInv, Exact, NEW i \in DOMAIN registry, IsSite(registry[i]),
           registry[i].methods # <<>>
    PROVE  \E c \in Signed(registry[i]) : Describes(registry[i], c)
<1>1. PICK c \in Class : Describes(registry[i], c)
  BY Zenon DEF Exact
<1>2. c \in Signed(registry[i])
  BY <1>1 DEF Describes, Signed, NativeClasses
<1>3. QED
  BY <1>1, <1>2

\* The one unused class with as many methods is the class of the table.
LEMMA CountedIsTrue ==
    ASSUME TypeInv, Exact, UsedFor(used), NEW i \in DOMAIN registry, IsSite(registry[i]),
           registry[i].methods = <<>>, NEW c \in Counted(registry[i]),
           \A d \in Counted(registry[i]) : d = c
    PROVE  Describes(registry[i], c)
<1>1. PICK x \in Class : Describes(registry[i], x)
  BY Zenon DEF Exact
<1>2. x \in NativeClasses
  BY <1>1 DEF Describes, NativeClasses
<1>3. Len(registry[i].addrs) = Len(jar[x])
  BY <1>1, RowsTyped DEF Describes, TypeInv
<1>4. CASE x \notin used
  BY <1>1, <1>2, <1>3, <1>4 DEF Counted
<1>5. CASE x \in used
  <2>1. ~ HasNames(x)
    BY <1>1, Zenon DEF HasNames, Exact
  <2>2. \A d \in NativeClasses \ used : Len(jar[d]) # Len(jar[x])
    BY <1>5, <2>1 DEF UsedFor
  <2>3. QED
    BY <1>3, <2>2 DEF Counted
<1>6. QED
  BY <1>4, <1>5

\* An export with a symbol of a method is the function of that method.
LEMMA ExportsKeepTrue ==
    ASSUME TypeInv, Exact, True(fnIndex), NEW c \in Class, NEW m \in Method
    PROVE  ExportOf(c, m) \in {NoAddr, truth[c][m]}
<1>1. ASSUME NEW short \in BOOLEAN, Symbols(c, m, short) # {}
      PROVE  registry[Newest(Symbols(c, m, short))].addrs[1] = truth[c][m]
  <2>1. Symbols(c, m, short) \subseteq 1..Len(registry)
    BY DEF Symbols, TypeInv, Inputs, IsRegistry
  <2>2. Newest(Symbols(c, m, short)) \in Symbols(c, m, short)
    BY <1>1, <2>1, NewestIsOne DEF TypeInv
  <2>3. QED
    BY <2>2, Zenon DEF Exact
<1>2. fnIndex[c][m] \in {NoAddr, truth[c][m]}
  BY DEF True
<1>3. QED
  BY <1>1, <1>2 DEF ExportOf

-----------------------------------------------------------------------------
(* The invariant is inductive.                                             *)

\* What the properties read of the inputs stays as it is.
LEMMA ReadingsStay ==
    ASSUME Inputs, [MergeNext]_mergeVars
    PROVE  /\ Exact' <=> Exact
           /\ \A c \in Class : HasNames(c)' <=> HasNames(c)
<1>1. jar' = jar /\ truth' = truth /\ registry' = registry
  BY InputsStay
<1>2. \A c \in Class, m \in Method, short \in BOOLEAN :
          Symbols(c, m, short)' = Symbols(c, m, short)
  BY <1>1 DEF Symbols
<1>3. \A c \in Class, i \in DOMAIN registry :
          Describes(registry[i], c)' <=> Describes(registry[i], c)
  BY <1>1 DEF Describes, Rows
<1>4. Exact' <=> Exact
  <2>1. \A i \in DOMAIN registry : IsSite(registry[i])' <=> IsSite(registry[i])
    BY <1>1 DEF IsSite
  <2>2. QED
    BY <1>1, <1>2, <1>3, <2>1 DEF Exact
<1>5. QED
  BY <1>1, <1>3, <1>4, Zenon DEF HasNames

LEMMA TruthInit == MergeInit => TruthInv
BY DEF MergeInit, MergeStart, TruthInv, True, UsedFor, Unbound

\* Classes that are used stay used for the same reason, and a class that is
\* added has one of its own.
LEMMA UsedGrows ==
    ASSUME Inputs, [MergeNext]_mergeVars, UsedFor(used), NEW c \in Class,
           HasNames(c) \/ \A d \in NativeClasses \ (used \cup {c}) : Len(jar[d]) # Len(jar[c]),
           used \subseteq Class, used' = used \cup {c}
    PROVE  UsedFor(used)'
<1>1. jar' = jar /\ (\A x \in Class : HasNames(x)' <=> HasNames(x))
  BY InputsStay, ReadingsStay
<1>2. NativeClasses' = NativeClasses
  BY <1>1 DEF NativeClasses
<1>3. \A x \in used \cup {c} :
          HasNames(x) \/ \A d \in NativeClasses \ (used \cup {c}) : Len(jar[d]) # Len(jar[x])
  BY DEF UsedFor
<1>4. QED
  BY <1>1, <1>2, <1>3 DEF UsedFor

LEMMA TruthStep == TypeInv /\ TruthInv /\ [MergeNext]_mergeVars => TruthInv'
<1>1. SUFFICES ASSUME TypeInv, TruthInv, [MergeNext]_mergeVars, Exact'
               PROVE  /\ True(fnIndex)'
                      /\ UsedFor(used)'
                      /\ \A i \in DOMAIN registry :
                            pass' \in {"count", "unreadable", "done"} \/ (pass' = "named" /\ i < pos')
                            => Settled(i)'
  BY InputsStay, Zenon DEF TruthInv, TypeInv
<1>2. Inputs /\ MergeTypeOK
  BY <1>1 DEF TypeInv
<1>3. jar' = jar /\ truth' = truth /\ registry' = registry
  BY <1>1, <1>2, InputsStay
<1>4. Exact /\ (\A c \in Class : HasNames(c)' <=> HasNames(c))
  BY <1>1, <1>2, ReadingsStay
<1>5. /\ True(fnIndex) /\ UsedFor(used)
      /\ \A i \in DOMAIN registry :
            pass \in {"count", "unreadable", "done"} \/ (pass = "named" /\ i < pos) => Settled(i)
  BY <1>1, <1>4 DEF TruthInv
<1>6. \A p : At(p) => pos \in DOMAIN registry
  BY <1>2 DEF At, MergeTypeOK, Inputs, IsRegistry
<1>7. fnIndex' = fnIndex => True(fnIndex)'
  BY <1>3, <1>5 DEF True
<1>8. used' = used => UsedFor(used)'
  <2>1. NativeClasses' = NativeClasses
    BY <1>3 DEF NativeClasses
  <2>2. QED
    BY <1>2, <1>3, <1>4, <1>5, <2>1 DEF UsedFor, MergeTypeOK
\* What is settled stays so.
<1>9. ASSUME ambiguous \subseteq ambiguous',
             boundTo' = boundTo \/ \E c \in Class : boundTo' = [boundTo EXCEPT ![pos] = c],
             NEW i \in DOMAIN registry, Settled(i)
      PROVE  Settled(i)'
  <2>1. boundTo[i] # NoClass => boundTo'[i] # NoClass
    BY <1>2, <1>9, MergeAssumption DEF MergeTypeOK
  <2>2. QED
    BY <1>3, <1>9, <2>1 DEF Settled
<1>10. CASE UNCHANGED mergeVars
  BY <1>3, <1>5, <1>7, <1>8, <1>9, <1>10 DEF mergeVars
<1>11. CASE ByClassName
  <2>1. pos \in DOMAIN registry
    BY <1>6, <1>11 DEF ByClassName
  <2>2. True(fnIndex)'
    <3>1. CASE fnIndex' = fnIndex
      BY <1>7, <3>1
    <3>2. CASE /\ Here.class # NoClass /\ IsSite(Here)
               /\ fnIndex' = Bound(Here.class, Here.methods, Here.addrs)
      <4>1. PICK c \in Class : Describes(Here, c)
        BY <1>4, <2>1, <3>2, Zenon DEF Exact, Here
      <4>2. Here.class = c /\ Here.addrs = Rows(c) /\ Here.methods \in {<<>>, jar[c]}
        BY <3>2, <4>1 DEF Describes
      <4>3. True(Bound(c, Here.methods, Rows(c)))
        BY <1>1, <1>5, <4>2, BoundKeepsTrue
      <4>4. QED
        BY <1>3, <3>2, <4>2, <4>3 DEF True
    <3>3. QED
      BY <1>11, <3>1, <3>2 DEF ByClassName, merged, Step
  <2>3. used' = used /\ pass' \in {"class", "crash"}
    BY <1>11 DEF ByClassName, merged, Step, At
  <2>4. QED
    BY <1>8, <2>2, <2>3
<1>12. CASE Exports
  <2>1. \A c \in Class, m \in Method : fnIndex'[c][m] \in {NoAddr, truth[c][m]}
    <3>1. SUFFICES ASSUME NEW c \in Class, NEW m \in Method
                   PROVE  fnIndex'[c][m] \in {NoAddr, truth[c][m]}
      OBVIOUS
    <3>2. fnIndex'[c][m] \in {ExportOf(c, m), fnIndex[c][m]}
      BY <1>12 DEF Exports
    <3>3. QED
      BY <1>1, <1>4, <1>5, <3>2, ExportsKeepTrue DEF True
  <2>2. used' = used /\ pass' = "named" /\ pos' = 1
    BY <1>12 DEF Exports
  <2>3. QED
    BY <1>2, <1>3, <1>8, <2>1, <2>2 DEF True, Inputs, IsRegistry
<1>13. CASE Named
  <2>1. pos \in DOMAIN registry /\ pass = "named" /\ pass' = "named" /\ pos' = pos + 1
    BY <1>6, <1>13 DEF Named, At, Step
  <2>2. PICK p \in DOMAIN registry : p = pos
    BY <2>1
  <2>3. ASSUME IsSite(Here), Here.methods # <<>>
        PROVE  \E c \in Signed(Here) : Describes(Here, c)
    BY <1>1, <1>4, <2>1, <2>3, SignedIsTrue DEF Here
  <2>4. ASSUME Settled(p)', ambiguous \subseteq ambiguous',
               boundTo' = boundTo \/ \E c \in Class : boundTo' = [boundTo EXCEPT ![pos] = c]
        PROVE  \A i \in DOMAIN registry : i < pos' => Settled(i)'
    <3>1. SUFFICES ASSUME NEW i \in DOMAIN registry, i < pos'
                   PROVE  Settled(i)'
      OBVIOUS
    <3>2. CASE i = p
      BY <2>4, <3>2
    <3>3. CASE i < pos
      <4>1. Settled(i)
        BY <1>5, <2>1, <3>3
      <4>2. QED
        BY <1>9, <2>4, <4>1
    <3>4. i < pos \/ i = p
      BY <1>2, <2>1, <2>2, <3>1 DEF Inputs, IsRegistry, MergeTypeOK
    <3>5. QED
      BY <3>2, <3>3, <3>4
  <2>5. CASE ~IsSite(Here) \/ Here.methods = <<>> \/ Signed(Here) = {}
    <3>1. UNCHANGED <<fnIndex, used, ambiguous, boundTo>>
      BY <1>13, <2>5 DEF Named
    <3>2. ~IsSite(Here) \/ Here.methods = <<>>
      BY <2>3, <2>5
    <3>3. Settled(p)'
      BY <1>3, <2>2, <3>2 DEF Settled, Here, IsSite
    <3>4. QED
      BY <1>7, <1>8, <2>1, <2>4, <3>1, <3>3
  <2>6. CASE /\ ~(~IsSite(Here) \/ Here.methods = <<>> \/ Signed(Here) = {})
             /\ \E c, d \in Signed(Here) : c # d
    <3>1. ambiguous' = ambiguous \cup {pos} /\ UNCHANGED <<fnIndex, used, boundTo>>
      BY <1>13, <2>6 DEF Named
    <3>2. Settled(p)'
      BY <2>2, <3>1 DEF Settled
    <3>3. QED
      BY <1>7, <1>8, <2>1, <2>4, <3>1, <3>2
  <2>7. CASE /\ ~(~IsSite(Here) \/ Here.methods = <<>> \/ Signed(Here) = {})
             /\ ~(\E c, d \in Signed(Here) : c # d)
    <3>1. PICK c \in Signed(Here) :
              /\ used' = used \cup {c}
              /\ fnIndex' = Bound(c, jar[c], Here.addrs)
              /\ boundTo' = [boundTo EXCEPT ![pos] = c]
              /\ UNCHANGED ambiguous
      BY <1>13, <2>7 DEF Named
    <3>2. Describes(Here, c)
      BY <2>3, <2>7
    <3>3. c \in Class /\ Here.addrs = Rows(c)
      BY <3>2 DEF Signed, NativeClasses, Describes
    <3>4. True(fnIndex)'
      <4>1. True(Bound(c, jar[c], Rows(c)))
        BY <1>1, <1>5, <3>3, BoundKeepsTrue
      <4>2. QED
        BY <1>3, <3>1, <3>3, <4>1 DEF True
    <3>5. HasNames(c)
      BY <2>1, <2>7, <3>2 DEF HasNames, Here
    <3>6. UsedFor(used)'
      BY <1>1, <1>2, <1>5, <3>1, <3>3, <3>5, UsedGrows DEF MergeTypeOK
    <3>7. Settled(p)'
      BY <1>2, <2>2, <3>1, <3>3, MergeAssumption DEF Settled, MergeTypeOK
    <3>8. QED
      BY <2>1, <2>4, <3>1, <3>3, <3>4, <3>6, <3>7
  <2>8. QED
    BY <2>5, <2>6, <2>7
<1>14. CASE ByCount
  <2>1. pos \in DOMAIN registry /\ pass = "count" /\ pass' = "count"
    BY <1>6, <1>14 DEF ByCount, At, Step
  <2>2. ASSUME ambiguous' = ambiguous,
               boundTo' = boundTo \/ \E c \in Class : boundTo' = [boundTo EXCEPT ![pos] = c]
        PROVE  \A i \in DOMAIN registry : Settled(i)'
    BY <1>5, <1>9, <2>1, <2>2
  <2>3. ambiguous' = ambiguous
    BY <1>14 DEF ByCount
  <2>4. CASE UNCHANGED <<fnIndex, used, boundTo>>
    BY <1>7, <1>8, <2>2, <2>3, <2>4
  <2>5. CASE /\ IsSite(Here) /\ boundTo[pos] = NoClass /\ pos \notin ambiguous
             /\ ~(\E c, d \in Counted(Here) : c # d)
             /\ \E c \in Counted(Here) :
                  /\ used' = used \cup {c}
                  /\ fnIndex' = IF Complete(c) THEN fnIndex ELSE Bound(c, jar[c], Here.addrs)
                  /\ boundTo' = [boundTo EXCEPT ![pos] = c]
    <3>1. PICK c \in Counted(Here) :
              /\ used' = used \cup {c}
              /\ fnIndex' = IF Complete(c) THEN fnIndex ELSE Bound(c, jar[c], Here.addrs)
              /\ boundTo' = [boundTo EXCEPT ![pos] = c]
      BY <2>5
    <3>2. Here.methods = <<>>
      BY <1>5, <2>1, <2>5 DEF Settled, Here
    <3>3. Describes(Here, c)
      BY <1>1, <1>4, <1>5, <2>1, <2>5, <3>2, CountedIsTrue DEF Here
    <3>4. c \in Class /\ Here.addrs = Rows(c)
      BY <3>3 DEF Counted, NativeClasses, Describes
    <3>5. True(fnIndex)'
      <4>1. True(Bound(c, jar[c], Rows(c)))
        BY <1>1, <1>5, <3>4, BoundKeepsTrue
      <4>2. True(fnIndex')
        BY <1>5, <3>1, <3>4, <4>1
      <4>3. QED
        BY <1>3, <4>2 DEF True
    <3>6. \A d \in NativeClasses \ (used \cup {c}) : Len(jar[d]) # Len(jar[c])
      BY <2>5 DEF Counted
    <3>7. UsedFor(used)'
      BY <1>1, <1>2, <1>5, <3>1, <3>4, <3>6, UsedGrows DEF MergeTypeOK
    <3>8. QED
      BY <2>2, <2>3, <3>1, <3>4, <3>5, <3>7
  <2>6. QED
    BY <1>14, <2>4, <2>5 DEF ByCount
<1>15. CASE Unreadable
  BY <1>5, <1>7, <1>8, <1>9, <1>15 DEF Unreadable, At, Step
<1>16. CASE NextPass("named", "count")
  <2>1. \A i \in DOMAIN registry : i < pos
    BY <1>2, <1>16 DEF NextPass, MergeTypeOK, Inputs, IsRegistry
  <2>2. QED
    BY <1>5, <1>7, <1>8, <1>9, <1>16, <2>1 DEF NextPass, merged
<1>17. CASE NextPass("count", "unreadable") \/ NextPass("unreadable", "done")
  BY <1>5, <1>7, <1>8, <1>9, <1>17 DEF NextPass, merged
<1>18. QED
  BY <1>1, <1>10, <1>11, <1>12, <1>13, <1>14, <1>15, <1>16, <1>17 DEF MergeNext

\* If the registry tells what the Java VM would do, no method of the jar is
\* ever given an address that is not its own, whatever the order of the
\* entries and however many classes have as many methods.
THEOREM NoWrongAddress == MergeSpec => []BoundIsTrue
<1>1. MergeInit => TypeInv /\ TruthInv
  BY TypeInit, TruthInit
<1>2. TypeInv /\ TruthInv /\ [MergeNext]_mergeVars => (TypeInv /\ TruthInv)'
  BY TypeStep, TruthStep
<1>3. TruthInv => BoundIsTrue
  BY DEF TruthInv, BoundIsTrue, True
<1>4. QED
  BY <1>1, <1>2, <1>3, PTL DEF MergeSpec

-----------------------------------------------------------------------------
(* Every table that was found is accounted for.                             *)

\* An entry without names binds no class before the pass over the counts
\* comes to it.
Waiting(i) ==
    /\ registry[i].methods = <<>>
    /\ pass \in {"class", "named"} \/ (pass = "count" /\ pos <= i)

\* The entry has had its turn: in the pass over the names, or over the counts.
Turned(i) ==
    \/ pass \in {"unreadable", "done"}
    \/ pass = "count" /\ (registry[i].methods # <<>> \/ i < pos)
    \/ pass = "named" /\ registry[i].methods # <<>> /\ i < pos

\* The entry has had its turn in the pass over the names of classes.
Classed(i) ==
    pass \in {"named", "count", "unreadable", "done"} \/ (pass = "class" /\ i < pos)

\* What Accounted asks for one table, or what it leaves out.
Told(i) ==
    Fitted(registry[i]) \/ (\E g \in gaps : g.site = i) \/ Vague(registry[i])

AccountInv ==
    /\ \A c \in used : Complete(c)
    /\ \A i \in DOMAIN registry : Waiting(i) => boundTo[i] = NoClass
    /\ Exact => \A i \in DOMAIN registry : IsSite(registry[i]) /\ Turned(i) => Told(i)
    /\ \A i \in DOMAIN registry :
          pass = "done" \/ (pass = "unreadable" /\ i < pos) =>
              (registry[i].source = "unreadable" => \E g \in gaps : g.site = i)
    /\ \A i \in ambiguous : registry[i].methods # <<>> /\ \E c, d \in Signed(registry[i]) : c # d
    /\ Exact => \A i \in DOMAIN registry :
          IsSite(registry[i]) /\ registry[i].class # NoClass /\ registry[i].methods # <<>>
              /\ Classed(i) => Fitted(registry[i])

LEMMA AccountInit == MergeInit => AccountInv
<1>1. SUFFICES ASSUME MergeInit PROVE AccountInv
  OBVIOUS
<1>2. \A i \in DOMAIN registry : ~Classed(i)
  BY <1>1 DEF MergeInit, MergeStart, IsRegistry, Classed
<1>3. QED
  BY <1>1, <1>2 DEF MergeInit, MergeStart, AccountInv, Waiting, Turned

\* A class gets an address for each of its methods.
LEMMA BoundIsComplete ==
    ASSUME TypeInv, NEW c \in Class, NEW addrs \in Seq(Addr), Len(jar[c]) = Len(addrs)
    PROVE  \A k \in DOMAIN jar[c] : Bound(c, jar[c], addrs)[c][jar[c][k]] # NoAddr
<1>1. jar[c] \in Seq(Method)
  BY JarTyped DEF TypeInv
<1>2. fnIndex \in [Class -> [Method -> Addr \cup {NoAddr}]]
  BY DEF TypeInv, MergeTypeOK
<1>3. SUFFICES ASSUME NEW k \in DOMAIN jar[c]
               PROVE  Bound(c, jar[c], addrs)[c][jar[c][k]] # NoAddr
  OBVIOUS
<1>4. PICK m \in Method : m = jar[c][k]
  BY <1>1, <1>3
<1> DEFINE n == CHOOSE i \in DOMAIN jar[c] : jar[c][i] = m
<1>5. n \in DOMAIN jar[c]
  BY <1>4
<1>6. addrs[n] \in Addr
  BY <1>1, <1>5
<1>7. Bound(c, jar[c], addrs)[c][m] = addrs[n]
  BY <1>2, <1>4 DEF Bound
<1>8. QED
  BY <1>4, <1>6, <1>7, MergeAssumption

\* Binding the rows of a table takes no address away.
LEMMA BoundAdds ==
    ASSUME fnIndex \in [Class -> [Method -> Addr \cup {NoAddr}]],
           NEW d \in Class, NEW methods \in Seq(MethodType), NEW addrs \in Seq(Addr),
           methods = <<>> \/ Len(methods) = Len(addrs),
           NEW c \in Class, NEW m \in Method, fnIndex[c][m] # NoAddr
    PROVE  Bound(d, methods, addrs)[c][m] # NoAddr
<1> DEFINE k == CHOOSE i \in DOMAIN methods : methods[i] = m
<1>1. CASE c = d /\ \E i \in DOMAIN methods : methods[i] = m
  <2>1. k \in DOMAIN methods
    BY <1>1
  <2>2. DOMAIN methods \subseteq 1..Len(addrs)
    BY <1>1
  <2>3. addrs[k] \in Addr
    BY <2>1, <2>2
  <2>4. Bound(d, methods, addrs)[c][m] = addrs[k]
    BY <1>1 DEF Bound
  <2>5. QED
    BY <2>3, <2>4, MergeAssumption
<1>2. CASE ~ (c = d /\ \E i \in DOMAIN methods : methods[i] = m)
  <2>1. Bound(d, methods, addrs)[c][m] = fnIndex[c][m]
    BY <1>2 DEF Bound
  <2>2. QED
    BY <2>1
<1>3. QED
  BY <1>1, <1>2

\* An export takes no address away.
LEMMA ExportsAdd ==
    ASSUME TypeInv, NEW c \in Class, NEW m \in Method, fnIndex[c][m] # NoAddr
    PROVE  ExportOf(c, m) # NoAddr
<1>1. \A short \in BOOLEAN : Symbols(c, m, short) # {} =>
          registry[Newest(Symbols(c, m, short))].addrs[1] \in Addr
  BY SymbolAddress DEF TypeInv
<1>2. QED
  BY <1>1, MergeAssumption DEF ExportOf

\* No step of the merge takes an address away, so a class that has all of its
\* addresses keeps them.
LEMMA CompleteStays ==
    ASSUME TypeInv, [MergeNext]_mergeVars, NEW c \in Class, Complete(c)
    PROVE  Complete(c)'
<1>1. Inputs /\ MergeTypeOK
  BY DEF TypeInv
<1>2. jar' = jar /\ truth' = truth /\ registry' = registry
  BY <1>1, InputsStay
<1>3. jar[c] \in Seq(Method)
  BY <1>1, JarTyped
<1>4. fnIndex \in [Class -> [Method -> Addr \cup {NoAddr}]]
  BY <1>1 DEF MergeTypeOK
<1>5. \A p : At(p) => pos \in DOMAIN registry
  BY <1>1 DEF At, MergeTypeOK, Inputs, IsRegistry
<1>6. SUFFICES ASSUME NEW m \in Method, fnIndex[c][m] # NoAddr
               PROVE  fnIndex'[c][m] # NoAddr
  <2>1. \A k \in DOMAIN jar[c] : jar[c][k] \in Method
    BY <1>3
  <2>2. QED
    BY <1>2, <1>6, <2>1 DEF Complete
<1>7. CASE fnIndex' = fnIndex
  BY <1>6, <1>7
<1>8. CASE ByClassName
  <2>1. pos \in DOMAIN registry
    BY <1>5, <1>8 DEF ByClassName
  <2>2. CASE Here.class # NoClass /\ fnIndex' = Bound(Here.class, Here.methods, Here.addrs)
    <3>1. Here.class \in Class /\ Here.methods \in Seq(MethodType) /\ Here.addrs \in Seq(Addr)
          /\ (Here.methods = <<>> \/ Len(Here.methods) = Len(Here.addrs))
      BY <1>1, <2>1, <2>2, EntryTyped DEF Here
    <3>2. QED
      BY <1>4, <1>6, <2>2, <3>1, BoundAdds
  <2>3. QED
    BY <1>7, <1>8, <2>2 DEF ByClassName, merged
<1>9. CASE Exports
  <2>1. ExportOf(c, m) # NoAddr
    BY <1>6, ExportsAdd
  <2>2. fnIndex'[c][m] \in {ExportOf(c, m), fnIndex[c][m]}
    BY <1>9 DEF Exports
  <2>3. QED
    BY <1>6, <2>1, <2>2
<1>10. CASE Named
  <2>1. pos \in DOMAIN registry
    BY <1>5, <1>10 DEF Named
  <2>2. CASE ~IsSite(Here) \/ Here.methods = <<>> \/ Signed(Here) = {} \/ \E x, d \in Signed(Here) : x # d
    BY <1>7, <1>10, <2>2 DEF Named
  <2>3. CASE ~ (~IsSite(Here) \/ Here.methods = <<>> \/ Signed(Here) = {} \/ \E x, d \in Signed(Here) : x # d)
    <3>1. PICK d \in Signed(Here) : fnIndex' = Bound(d, jar[d], Here.addrs)
      BY <1>10, <2>3 DEF Named
    <3>2. d \in Class /\ jar[d] = Here.methods
      BY DEF Signed, NativeClasses
    <3>3. jar[d] \in Seq(MethodType) /\ Here.addrs \in Seq(Addr) /\ Len(jar[d]) = Len(Here.addrs)
      BY <1>1, <2>1, <2>3, <3>2, EntryTyped DEF Here
    <3>4. QED
      BY <1>4, <1>6, <3>1, <3>2, <3>3, BoundAdds
  <2>4. QED
    BY <2>2, <2>3
<1>11. CASE ByCount
  <2>1. pos \in DOMAIN registry
    BY <1>5, <1>11 DEF ByCount
  <2>2. CASE \E d \in Counted(Here) : fnIndex' = Bound(d, jar[d], Here.addrs)
    <3>1. PICK d \in Counted(Here) : fnIndex' = Bound(d, jar[d], Here.addrs)
      BY <2>2
    <3>2. d \in Class /\ Len(jar[d]) = Len(Here.addrs)
      BY DEF Counted, NativeClasses
    <3>3. jar[d] \in Seq(MethodType) /\ Here.addrs \in Seq(Addr)
      BY <1>1, <2>1, <3>2, EntryTyped, JarWidens DEF Here
    <3>4. QED
      BY <1>4, <1>6, <3>1, <3>2, <3>3, BoundAdds
  <2>3. QED
    BY <1>7, <1>11, <2>2 DEF ByCount
<1>12. CASE Unreadable \/ NextPass("named", "count") \/ NextPass("count", "unreadable") \/ NextPass("unreadable", "done")
  BY <1>7, <1>12 DEF Unreadable, NextPass, merged
<1>13. QED
  BY <1>7, <1>8, <1>9, <1>10, <1>11, <1>12 DEF MergeNext, mergeVars

\* A table that is accounted for stays so.
LEMMA FittedStays ==
    ASSUME TypeInv, [MergeNext]_mergeVars, NEW i \in DOMAIN registry, Fitted(registry[i])
    PROVE  Fitted(registry[i])'
<1>1. Inputs /\ MergeTypeOK
  BY DEF TypeInv
<1>2. jar' = jar /\ truth' = truth /\ registry' = registry
  BY <1>1, InputsStay
<1>3. \A c \in Class : Describes(registry[i], c)' <=> Describes(registry[i], c)
  BY <1>2 DEF Describes, Rows
<1>4. \A c \in Class : Complete(c) => Complete(c)'
  BY CompleteStays
<1>5. QED
  BY <1>2, <1>3, <1>4 DEF Fitted

LEMMA ToldStays ==
    ASSUME TypeInv, [MergeNext]_mergeVars, NEW i \in DOMAIN registry, Told(i)
    PROVE  Told(i)'
<1>1. Inputs /\ MergeTypeOK
  BY DEF TypeInv
<1>2. jar' = jar /\ registry' = registry
  BY <1>1, InputsStay
<1>3. gaps \subseteq gaps'
  BY DEF MergeNext, mergeVars, ByClassName, Exports, Named, ByCount, Unreadable, NextPass, merged
<1>4. Vague(registry[i])' <=> Vague(registry[i])
  BY <1>2 DEF Vague, Signed, NativeClasses
<1>5. CASE Fitted(registry[i])
  BY <1>5, FittedStays DEF Told
<1>6. CASE \E g \in gaps : g.site = i
  BY <1>3, <1>6 DEF Told
<1>7. CASE Vague(registry[i])
  BY <1>4, <1>7 DEF Told
<1>8. QED
  BY <1>5, <1>6, <1>7 DEF Told

\* The turn of the entry the loop is at, and no other, comes with a step of
\* the loop over the names or over the counts.
LEMMA TurnsCome ==
    ASSUME TypeInv, NEW i \in DOMAIN registry, [MergeNext]_mergeVars, Turned(i)', ~Turned(i)
    PROVE  \/ Named /\ i = pos /\ registry[i].methods # <<>>
           \/ ByCount /\ i = pos /\ registry[i].methods = <<>>
<1>1. Inputs /\ MergeTypeOK
  BY DEF TypeInv
<1>2. registry' = registry
  BY <1>1, InputsStay
<1>3. i \in 1..Len(registry) /\ Len(registry) \in Nat /\ pos \in Nat \ {0}
  BY <1>1 DEF Inputs, IsRegistry, MergeTypeOK
<1>4. QED
  BY <1>2, <1>3 DEF Turned, MergeNext, mergeVars, ByClassName, Exports, Named, ByCount,
     Unreadable, NextPass, At, Step

LEMMA AccountStep == TypeInv /\ AccountInv /\ [MergeNext]_mergeVars => AccountInv'
<1>1. SUFFICES ASSUME TypeInv, AccountInv, [MergeNext]_mergeVars
               PROVE  AccountInv'
  OBVIOUS
<1>2. Inputs /\ MergeTypeOK
  BY <1>1 DEF TypeInv
<1>3. jar' = jar /\ truth' = truth /\ registry' = registry
  BY <1>1, <1>2, InputsStay
<1>4. \A p : At(p) => pos \in DOMAIN registry
  BY <1>2 DEF At, MergeTypeOK, Inputs, IsRegistry
<1>5. pos \in Nat /\ registry \in Seq(EntryType) /\ DOMAIN registry = 1..Len(registry) /\ Len(registry) \in Nat
  BY <1>2 DEF MergeTypeOK, Inputs, IsRegistry
\* The class a table with names is bound to.
<1>6. ASSUME Named, NEW c \in Signed(Here), Here.methods # <<>>,
             fnIndex' = Bound(c, jar[c], Here.addrs)
      PROVE  c \in Class /\ Complete(c)'
  <2>1. c \in Class /\ jar[c] = Here.methods
    BY DEF Signed, NativeClasses
  <2>2. Here.addrs \in Seq(Addr) /\ Len(jar[c]) = Len(Here.addrs)
    BY <1>2, <1>4, <1>6, <2>1, EntryTyped DEF Here, Named
  <2>3. QED
    BY <1>1, <1>3, <1>6, <2>1, <2>2, BoundIsComplete DEF Complete
\* The class a table without names is bound to.
<1>7. ASSUME ByCount, NEW c \in Counted(Here),
             fnIndex' = IF Complete(c) THEN fnIndex ELSE Bound(c, jar[c], Here.addrs)
      PROVE  c \in Class /\ Complete(c)'
  <2>1. c \in Class /\ Len(jar[c]) = Len(Here.addrs)
    BY DEF Counted, NativeClasses
  <2>2. Here.addrs \in Seq(Addr)
    BY <1>2, <1>4, <1>7, EntryTyped DEF Here, ByCount
  <2>3. CASE Complete(c)
    BY <1>1, <2>1, <2>3, CompleteStays
  <2>4. CASE ~Complete(c)
    BY <1>1, <1>3, <1>7, <2>1, <2>2, <2>4, BoundIsComplete DEF Complete
  <2>5. QED
    BY <2>1, <2>3, <2>4
<1>8. \A c \in used' : Complete(c)'
  <2>1. \A c \in used : Complete(c)'
    BY <1>1, <1>2, CompleteStays DEF AccountInv, MergeTypeOK
  <2>2. CASE used' = used
    BY <2>1, <2>2
  <2>3. CASE Named /\ used' # used
    <3>1. Here.methods # <<>>
      BY <2>3 DEF Named
    <3>2. PICK c \in Signed(Here) : used' = used \cup {c} /\ fnIndex' = Bound(c, jar[c], Here.addrs)
      BY <2>3 DEF Named
    <3>3. Complete(c)'
      BY <1>6, <2>3, <3>1, <3>2
    <3>4. QED
      BY <2>1, <3>2, <3>3
  <2>4. CASE ByCount /\ used' # used
    <3>1. PICK c \in Counted(Here) :
              used' = used \cup {c}
              /\ fnIndex' = IF Complete(c) THEN fnIndex ELSE Bound(c, jar[c], Here.addrs)
      BY <2>4 DEF ByCount
    <3>2. Complete(c)'
      BY <1>7, <2>4, <3>1
    <3>3. QED
      BY <2>1, <3>1, <3>2
  <2>5. QED
    BY <1>1, <2>2, <2>3, <2>4 DEF MergeNext, mergeVars, ByClassName, Exports, Unreadable, NextPass, merged
<1>9. \A i \in DOMAIN registry : Waiting(i)' => boundTo'[i] = NoClass
  <2>1. SUFFICES ASSUME NEW i \in DOMAIN registry, Waiting(i)'
                 PROVE  boundTo'[i] = NoClass
    OBVIOUS
  <2>2. Waiting(i)
    BY <1>1, <1>3, <1>5, <2>1 DEF Waiting, MergeNext, mergeVars, ByClassName, Exports, Named,
       ByCount, Unreadable, NextPass, At, Step
  <2>3. boundTo[i] = NoClass
    BY <1>1, <2>2 DEF AccountInv
  <2>4. CASE boundTo' = boundTo
    BY <2>3, <2>4
  <2>5. CASE Named /\ boundTo' # boundTo
    <3>1. Here.methods # <<>> /\ \E c \in Class : boundTo' = [boundTo EXCEPT ![pos] = c]
      BY <2>5 DEF Named, Signed, NativeClasses
    <3>2. i # pos
      BY <2>2, <3>1 DEF Waiting, Here
    <3>3. QED
      BY <2>3, <3>1, <3>2
  <2>6. CASE ByCount /\ boundTo' # boundTo
    <3>1. \E c \in Class : boundTo' = [boundTo EXCEPT ![pos] = c]
      BY <2>6 DEF ByCount, Counted, NativeClasses
    <3>2. i # pos
      BY <1>5, <2>1, <2>6 DEF Waiting, ByCount, At, Step
    <3>3. QED
      BY <2>3, <3>1, <3>2
  <2>7. QED
    BY <1>1, <2>4, <2>5, <2>6 DEF MergeNext, mergeVars, ByClassName, Exports, Unreadable, NextPass, merged
<1>10. ASSUME Exact', NEW i \in DOMAIN registry, IsSite(registry[i]), Turned(i)'
       PROVE  Told(i)'
  <2>1. Exact
    BY <1>1, <1>2, <1>10, ReadingsStay
  <2>2. CASE Turned(i)
    <3>1. Told(i)
      BY <1>1, <1>10, <2>1, <2>2 DEF AccountInv
    <3>2. QED
      BY <1>1, <1>10, <3>1, ToldStays
  <2>3. CASE Named /\ i = pos /\ registry[i].methods # <<>>
    <3>1. IsSite(Here) /\ Here.methods # <<>> /\ Here = registry[i]
      BY <1>10, <2>3 DEF Here
    <3>2. PICK x \in Signed(Here) : Describes(registry[i], x)
      BY <1>1, <1>10, <2>1, <2>3, <3>1, SignedIsTrue
    <3>3. CASE \E c, d \in Signed(Here) : c # d
      <4>1. CASE registry[i].class = NoClass
        <5>1. Vague(registry[i])'
          BY <1>3, <3>1, <3>3, <4>1 DEF Vague, Signed, NativeClasses
        <5>2. QED
          BY <5>1 DEF Told
      <4>2. CASE registry[i].class # NoClass
        <5>1. Classed(i)
          BY <2>3 DEF Classed, Named, At
        <5>2. Fitted(registry[i])
          BY <1>1, <1>10, <2>1, <2>3, <4>2, <5>1 DEF AccountInv
        <5>3. QED
          BY <1>1, <5>2, FittedStays DEF Told
      <4>3. QED
        BY <4>1, <4>2
    <3>4. CASE ~ \E c, d \in Signed(Here) : c # d
      <4>1. PICK c \in Signed(Here) : fnIndex' = Bound(c, jar[c], Here.addrs)
        BY <2>3, <3>1, <3>2, <3>4 DEF Named
      <4>2. c = x
        BY <3>2, <3>4, <4>1
      <4>3. x \in Class /\ Complete(x)'
        BY <1>6, <2>3, <3>1, <4>1, <4>2
      <4>4. Describes(registry[i], x)'
        BY <1>3, <3>2 DEF Describes, Rows
      <4>5. QED
        BY <4>3, <4>4 DEF Told, Fitted
    <3>5. QED
      BY <3>3, <3>4
  <2>4. CASE ByCount /\ i = pos /\ registry[i].methods = <<>>
    <3>1. IsSite(Here) /\ Here = registry[i]
      BY <1>10, <2>4 DEF Here
    <3>2. i \notin ambiguous
      BY <1>1, <2>4 DEF AccountInv
    <3>3. Told(i)'
      <4>1. boundTo[pos] = NoClass
        <5>1. Waiting(i)
          BY <1>5, <2>4 DEF Waiting, ByCount, At
        <5>2. QED
          BY <1>1, <2>4, <5>1 DEF AccountInv
      <4>2. PICK x \in Class : Describes(registry[i], x)
        BY <1>10, <2>1, Zenon DEF Exact
      <4>3. Describes(registry[i], x)'
        BY <1>3, <4>2 DEF Describes, Rows
      <4>4. x \in NativeClasses /\ Len(jar[x]) = Len(Here.addrs)
        BY <1>2, <3>1, <4>2, RowsTyped DEF Describes, NativeClasses
      <4>5. CASE x \in used
        <5>1. Complete(x)'
          BY <1>1, <4>2, <4>5, CompleteStays DEF AccountInv
        <5>2. QED
          BY <4>2, <4>3, <5>1 DEF Told, Fitted
      <4>6. CASE x \notin used
        <5>1. x \in Counted(Here)
          BY <4>4, <4>6 DEF Counted
        <5>2. CASE \E c, d \in Counted(Here) : c # d
          <6>1. [kind |-> "ambiguous-count-only-table", site |-> pos, candidates |-> Counted(Here)] \in gaps'
            BY <2>4, <3>1, <3>2, <4>1, <5>1, <5>2 DEF ByCount
          <6>2. \E g \in gaps' : g.site = i
            BY <2>4, <6>1
          <6>3. QED
            BY <6>2 DEF Told
        <5>3. CASE ~ \E c, d \in Counted(Here) : c # d
          <6>1. PICK c \in Counted(Here) :
                    fnIndex' = IF Complete(c) THEN fnIndex ELSE Bound(c, jar[c], Here.addrs)
            BY <2>4, <3>1, <3>2, <4>1, <5>1, <5>3 DEF ByCount
          <6>2. c = x
            BY <5>1, <5>3, <6>1
          <6>3. Complete(x)'
            BY <1>7, <2>4, <6>1, <6>2
          <6>4. QED
            BY <4>2, <4>3, <6>3 DEF Told, Fitted
        <5>4. QED
          BY <5>2, <5>3
      <4>7. QED
        BY <4>5, <4>6
    <3>4. QED
      BY <3>3
  <2>5. QED
    BY <1>1, <1>10, <2>2, <2>3, <2>4, TurnsCome
<1>11. ASSUME NEW i \in DOMAIN registry, registry[i].source = "unreadable",
              pass' = "done" \/ (pass' = "unreadable" /\ i < pos')
       PROVE  \E g \in gaps' : g.site = i
  <2>1. CASE pass = "done" \/ (pass = "unreadable" /\ i < pos)
    <3>1. \E g \in gaps : g.site = i
      BY <1>1, <1>11, <2>1 DEF AccountInv
    <3>2. gaps \subseteq gaps'
      BY <1>1 DEF MergeNext, mergeVars, ByClassName, Exports, Named, ByCount, Unreadable, NextPass, merged
    <3>3. QED
      BY <3>1, <3>2
  <2>2. CASE ~ (pass = "done" \/ (pass = "unreadable" /\ i < pos))
    <3>1. Unreadable /\ i = pos
      BY <1>1, <1>5, <1>11, <2>2 DEF MergeNext, mergeVars, ByClassName, Exports, Named, ByCount,
         Unreadable, NextPass, At, Step
    <3>2. [kind |-> "unreadable-table", site |-> pos, candidates |-> {}] \in gaps'
      BY <1>11, <3>1 DEF Unreadable, Here
    <3>3. QED
      BY <3>1, <3>2
  <2>3. QED
    BY <2>1, <2>2
<1>12. \A i \in ambiguous' : registry'[i].methods # <<>> /\ \E c, d \in Signed(registry[i])' : c # d
  <2>1. \A i : Signed(registry[i])' = Signed(registry[i])
    BY <1>3 DEF Signed, NativeClasses
  <2>2. CASE ambiguous' = ambiguous
    BY <1>1, <1>3, <2>1, <2>2 DEF AccountInv
  <2>3. CASE Named
    <3>1. \/ ambiguous' = ambiguous
          \/ /\ ambiguous' = ambiguous \cup {pos}
             /\ Here.methods # <<>>
             /\ \E c, d \in Signed(Here) : c # d
      BY <2>3 DEF Named
    <3>2. QED
      BY <1>1, <1>3, <2>1, <2>2, <3>1 DEF AccountInv, Here
  <2>4. QED
    BY <1>1, <2>2, <2>3 DEF MergeNext, mergeVars, ByClassName, Exports, ByCount, Unreadable, NextPass, merged
<1>13. ASSUME Exact', NEW i \in DOMAIN registry, IsSite(registry[i]), registry[i].class # NoClass,
              registry[i].methods # <<>>, Classed(i)'
       PROVE  Fitted(registry[i])'
  <2>1. Exact
    BY <1>1, <1>2, <1>13, ReadingsStay
  <2>2. CASE Classed(i)
    <3>1. Fitted(registry[i])
      BY <1>1, <1>13, <2>1, <2>2 DEF AccountInv
    <3>2. QED
      BY <1>1, <3>1, FittedStays
  <2>3. CASE ~Classed(i)
    <3>1. ByClassName /\ i = pos /\ pass' = pass
      BY <1>1, <1>3, <1>5, <1>13, <2>3 DEF Classed, MergeNext, mergeVars, ByClassName, Exports, Named,
         ByCount, Unreadable, NextPass, At, Step
    <3>2. Here = registry[i] /\ fnIndex' = Bound(Here.class, Here.methods, Here.addrs)
      BY <1>13, <3>1 DEF ByClassName, At, Here
    <3>3. PICK x \in Class : Describes(registry[i], x)
      BY <1>13, <2>1, Zenon DEF Exact
    <3>4. Here.class = x /\ Here.methods = jar[x] /\ Here.addrs = Rows(x)
      BY <1>13, <3>2, <3>3 DEF Describes
    <3>5. Here.addrs \in Seq(Addr) /\ Len(jar[x]) = Len(Here.addrs)
      BY <1>2, <1>13, <3>2, <3>4, EntryTyped
    <3>6. Complete(x)'
      BY <1>1, <1>3, <3>2, <3>4, <3>5, BoundIsComplete DEF Complete
    <3>7. Describes(registry[i], x)'
      BY <1>3, <3>3 DEF Describes, Rows
    <3>8. QED
      BY <3>6, <3>7 DEF Fitted
  <2>4. QED
    BY <2>2, <2>3
<1>14. QED
  BY <1>3, <1>8, <1>9, <1>10, <1>11, <1>12, <1>13 DEF AccountInv, IsSite

\* If the registry tells what the Java VM would do, no table that was found is
\* lost: when merge is done its class has every address, or bindingGaps tells
\* of the table, but for the tables with names and no class whose very methods
\* several classes declare; and every table that could not be read is in
\* bindingGaps.
THEOREM TablesAreAccounted == MergeSpec => []Accounted
<1>1. MergeInit => TypeInv /\ AccountInv
  BY TypeInit, AccountInit
<1>2. TypeInv /\ AccountInv /\ [MergeNext]_mergeVars => (TypeInv /\ AccountInv)'
  BY TypeStep, AccountStep
<1>3. AccountInv => Accounted
  BY DEF AccountInv, Accounted, Turned, Told
<1>4. QED
  BY <1>1, <1>2, <1>3, PTL DEF MergeSpec

-----------------------------------------------------------------------------
(* Whatever the library, what is read of it is typed.                       *)

\* What an instruction may load: the address of a function or of a table
Loaded == {v \in Nat : IsFn(v) => v \in Addr}
Sound(x) == Loads(Loaded, x)
Code == {x \in InsType : Sound(x)}

\* An instruction that loads nothing is sound.
LEMMA InsSound ==
    /\ Ins("nop", "-", 0) \in Code /\ Ins("data", "-", 0) \in Code /\ Ins("call", "-", 0) \in Code
    /\ Ins("slot", "T", 0) \in Code /\ Ins("branch", "T", 0) \in Code
    /\ Ins("mov", "S", "T") \in Code /\ Ins("mov", "M", "T") \in Code /\ Ins("branch", "S", 0) \in Code
    /\ Ins("store", "T", 0) \in Code
BY DEF Code, Sound, Loads, InsType, Register, Ins

\* So is a load of what may be loaded.
LEMMA LeaSound ==
    ASSUME NEW v \in Loaded, NEW r \in Register
    PROVE  Ins("lea", r, v) \in Code
BY DEF Code, Sound, Loads, InsType, Ins, Loaded

LEMMA CountSound ==
    ASSUME NEW n \in Nat
    PROVE  Ins("count", "-", n) \in Code
BY DEF Code, Sound, Loads, InsType, Register, Ins

LEMMA AddrLoaded == Addr \subseteq Loaded
BY FnsAreLow DEF Loaded

LEMMA StoreSound ==
    ASSUME NEW fn \in Addr
    PROVE  Store(fn) \in Seq(Code)
<1>1. Ins("lea", "T", fn) \in Code
  <2>1. fn \in Loaded /\ "T" \in Register
    BY AddrLoaded DEF Register
  <2>2. QED
    BY <2>1, LeaSound
<1>2. Ins("store", "T", 0) \in Code
  BY InsSound
<1>3. QED
  BY <1>1, <1>2 DEF Store

LEMMA NopsSound ==
    ASSUME NEW n \in Nat
    PROVE  Nops(n) \in Seq(Code)
<1>1. [i \in 1..n |-> Ins("nop", "-", 0)] \in [1..n -> Code]
  BY InsSound
<1>2. QED
  BY <1>1 DEF Nops

LEMMA GapSound ==
    ASSUME Fits, NEW k \in DOMAIN layout
    PROVE  Gap(k) \in Seq(Code)
<1>1. layout[k].gap \in {"near", "far", "data"}
  BY RowsFit DEF RegistrationType
<1>2. Nops(Window) \in Seq(Code)
  BY NopsSound, TablesAssumption
<1>3. <<Ins("data", "-", 0)>> \in Seq(Code) /\ <<>> \in Seq(Code)
  BY InsSound
<1>4. QED
  BY <1>1, <1>2, <1>3 DEF Gap, GapOf

LEMMA NoiseSound ==
    ASSUME NEW r, NEW w
    PROVE  Noise(r, w) \in Seq(Code)
<1>1. Store(Callback) \in Seq(Code) /\ <<>> \in Seq(Code)
  BY StoreSound, TablesAssumption
<1>2. QED
  BY <1>1 DEF Noise

LEMMA CountPartSound ==
    ASSUME Fits, NEW k \in DOMAIN layout, NEW w
    PROVE  Count(layout[k], jar, w) \in Seq(Code)
<1>1. PICK n \in Nat : n = Len(jar[layout[k].class])
  BY RowsFit DEF N
<1>2. <<Ins("count", "-", n)>> \in Seq(Code) /\ <<>> \in Seq(Code)
  BY CountSound
<1>3. QED
  BY <1>1, <1>2 DEF Count

LEMMA CallingSound ==
    ASSUME NEW how \in {"call", "split", "veneer", "late", "shared"}
    PROVE  Calling(how) \in Seq(Code)
<1>1. <<Ins("call", "-", 0)>> \in Seq(Code) /\ <<>> \in Seq(Code)
  BY InsSound
<1>2. <<Ins("slot", "T", 0), Ins("branch", "T", 0)>> \in Seq(Code)
  BY InsSound
<1>3. <<Ins("slot", "T", 0), Ins("mov", "S", "T"), Ins("branch", "S", 0)>> \in Seq(Code)
  BY InsSound
<1>4. <<Ins("slot", "T", 0)>> \o Nops(Reach + 1) \o <<Ins("branch", "T", 0)>> \in Seq(Code)
  <2>1. <<Ins("slot", "T", 0)>> \in Seq(Code) /\ <<Ins("branch", "T", 0)>> \in Seq(Code)
    BY InsSound
  <2>2. Reach + 1 \in Nat
    BY TablesAssumption
  <2>3. Nops(Reach + 1) \in Seq(Code)
    BY <2>2, NopsSound
  <2>4. <<Ins("slot", "T", 0)>> \o Nops(Reach + 1) \in Seq(Code)
    BY <2>1, <2>3, Joined
  <2>5. QED
    BY <2>1, <2>4, Joined
<1>5. QED
  BY <1>1, <1>2, <1>3, <1>4 DEF Calling

LEMMA FillingSound ==
    ASSUME Fits, NEW k \in DOMAIN layout, Tab(k) \in Nat, Tab(k) >= TableBase
    PROVE  Filling(k) \in Seq(Code)
<1> DEFINE c == layout[k].class
           s == [i \in DOMAIN jar[c] |-> Store(truth[c][jar[c][i]])]
<1>1. PICK n \in Nat : n = N(k) /\ DOMAIN jar[c] = 1..n
  BY RowsFit
<1>2. \A i \in 1..n : truth[c][jar[c][i]] \in Addr
  BY <1>1, RowsFit
<1>3. \A i \in 1..n : s[i] \in Seq(Code)
  BY <1>1, <1>2, StoreSound
<1>4. s = [i \in 1..n |-> s[i]]
  BY <1>1
<1>5. Flat(s) \in Seq(Code)
  <2> HIDE DEF s
  <2>1. s \in Seq(Seq(Code))
    BY <1>1, <1>3, <1>4, IsSequence
  <2>2. QED
    BY <2>1, FlattenTyped DEF Flat
<1>6. Tab(k) \in Loaded
  BY TablesAssumption DEF Loaded, IsFn
<1>7. Ins("lea", "T", Tab(k)) \in Code /\ Ins("lea", "M", Tab(k)) \in Code
  BY <1>6, LeaSound DEF Register
<1>8. <<Ins("lea", "T", Tab(k)), Ins("mov", "M", "T")>> \in Seq(Code) /\ <<Ins("lea", "M", Tab(k))>> \in Seq(Code)
  BY <1>7, InsSound
<1>9. CASE layout[k].form = "stack"
  <2>1. Filling(k) = Flat(s)
    BY <1>9 DEF Filling, Filled
  <2>2. QED
    BY <1>5, <2>1
<1>10. CASE layout[k].form = "moved"
  <2>1. Filling(k) = <<Ins("lea", "T", Tab(k)), Ins("mov", "M", "T")>>
    BY <1>10 DEF Filling, Filled, Tab
  <2>2. QED
    BY <1>8, <2>1
<1>11. CASE layout[k].form \notin {"stack", "moved"}
  <2>1. Filling(k) = <<Ins("lea", "M", Tab(k))>>
    BY <1>11 DEF Filling, Filled, Tab
  <2>2. QED
    BY <1>8, <2>1
<1>12. QED
  BY <1>9, <1>10, <1>11

LEMMA TabsAbove ==
    ASSUME World, NEW k \in DOMAIN layout
    PROVE  Tab(k) \in Nat /\ Tab(k) >= TableBase
<1>1. Fits /\ image = ImageOf(layout, jar, truth)
  BY WorldFits DEF World
<1>2. PICK io : ImageIs(io)
  BY TabsThere
<1>3. io[k] \in Nat /\ Tab(k) = TableBase + io[k]
  BY <1>1, <1>2 DEF ImageIs, Fits
<1>4. QED
  BY <1>3, TablesAssumption

\* The code of any library
LEMMA CodeTyped == World => code \in Seq(Code)
<1>1. SUFFICES ASSUME World PROVE code \in Seq(Code)
  OBVIOUS
<1> DEFINE s == [k \in DOMAIN layout |-> RegistrationOf(layout, jar, truth, k)]
<1>2. PICK n \in Nat : n = Len(layout) /\ DOMAIN layout = 1..n
  BY <1>1, WorldFits DEF Fits
<1>3. ASSUME NEW k \in 1..n PROVE s[k] \in Seq(Code)
  <2>1. Fits /\ k \in DOMAIN layout
    BY <1>1, <1>2, WorldFits
  <2>2. Gap(k) \in Seq(Code) /\ Filling(k) \in Seq(Code)
    BY <1>1, <2>1, GapSound, FillingSound, TabsAbove
  <2>3. layout[k].call \in {"call", "split", "veneer", "late", "shared"}
    BY <2>1, RowsFit DEF RegistrationType
  <2>4. Opening(k) \in Seq(Code)
    BY <2>1, NoiseSound, CountPartSound, Joined DEF Opening
  <2>5. Closing(k) \in Seq(Code)
    <3>1. Noise(layout[k], "after") \o Count(layout[k], jar, "after") \in Seq(Code)
      BY <2>1, NoiseSound, CountPartSound, Joined
    <3>2. Calling(layout[k].call) \in Seq(Code)
      BY <2>3, CallingSound
    <3>3. QED
      BY <3>1, <3>2, Joined DEF Closing
  <2>6. (Opening(k) \o Filling(k)) \o Closing(k) \in Seq(Code)
    <3>1. Opening(k) \o Filling(k) \in Seq(Code)
      BY <2>2, <2>4, Joined
    <3>2. QED
      BY <2>5, <3>1, Joined
  <2>7. Gap(k) \o ((Opening(k) \o Filling(k)) \o Closing(k)) \in Seq(Code)
    BY <2>2, <2>6, Joined
  <2>8. s[k] = Gap(k) \o ((Opening(k) \o Filling(k)) \o Closing(k))
    BY <2>1 DEF RegistrationOf, BodyOf, Gap, Opening, Filling, Closing
  <2>9. QED
    BY <2>7, <2>8
<1>4. s = [k \in 1..n |-> s[k]]
  BY <1>2
<1>5. code = Flat(s)
  BY <1>1 DEF World, CodeOf
<1> HIDE DEF s
<1>6. s \in Seq(Seq(Code))
  BY <1>2, <1>3, <1>4, IsSequence
<1>7. QED
  BY <1>5, <1>6, FlattenTyped DEF Flat

\* Where a walk over the instructions a to b stops
Stops(a, b, e) ==
    LET bad == {i \in a..b : code[i].op = "data"}
    IN  e = IF bad = {} THEN b ELSE Min(bad) - 1

\* A walk stops somewhere, at its end or at the first bytes that are no instruction.
LEMMA StopsThere ==
    ASSUME NEW a \in Nat \ {0}, NEW b \in Nat, a - 1 <= b
    PROVE  \E e \in Nat : Stops(a, b, e) /\ a - 1 <= e /\ e <= b
<1> DEFINE bad == {i \in a..b : code[i].op = "data"}
<1>1. CASE bad = {}
  <2>1. Stops(a, b, b)
    BY <1>1 DEF Stops
  <2>2. QED
    BY <2>1
<1>2. CASE bad # {}
  <2>1. bad \subseteq Nat /\ \A i \in bad : a <= i /\ i <= b
    OBVIOUS
  <2> HIDE DEF bad
  <2>2. \E x \in bad : \A y \in bad : x <= y
    BY <1>2, <2>1, SmallestNat
  <2>3. Min(bad) \in bad
    BY <2>2 DEF Min
  <2>4. PICK x \in Nat : x = Min(bad) /\ a <= x /\ x <= b
    BY <2>1, <2>3
  <2>5. x - 1 \in Nat /\ a - 1 <= x - 1 /\ x - 1 <= b
    BY <2>4
  <2>6. Stops(a, b, x - 1)
    BY <1>2, <2>4 DEF Stops, bad
  <2>7. QED
    BY <2>5, <2>6
<1>3. QED
  BY <1>1, <1>2

\* What is walked over ends at e, and a walk as far as that is h.
Upto(a, e) == a \in Nat \ {0} /\ e \in Nat /\ a - 1 <= e /\ e <= Len(code)

\* Looked is the end of the walk that stops there.
LEMMA LookedEnds ==
    ASSUME Fits, DOMAIN code = 1..Len(code), NEW site \in 1..Len(code), Len(code) \in Nat
    PROVE  \E a, e, h : Upto(a, e) /\ Looks(h, a, e) /\ Looked(site) = h[e]
<1>1. PICK a \in Nat \ {0} : a = Back(site, Window) /\ a - 1 <= site - 1 /\ site - 1 \in Nat
  <2>1. Window \in Nat
    BY TablesAssumption
  <2>2. QED
    BY <2>1, BackIs
<1>2. PICK b \in Nat : b = site - 1 /\ b <= Len(code)
  BY <1>1
<1>3. PICK e \in Nat : Stops(a, b, e) /\ a - 1 <= e /\ e <= b
  BY <1>1, <1>2, StopsThere
<1>4. Upto(a, e)
  BY <1>2, <1>3 DEF Upto
<1>5. PICK n \in Nat : e = a - 1 + n
  <2>1. e - (a - 1) \in Nat /\ e = a - 1 + (e - (a - 1))
    BY <1>3
  <2>2. QED
    BY <2>1
<1> DEFINE h == CHOOSE h : IsLook(h, a, e)
<1>6. IsLook(h, a, e)
  BY <1>5, LooksThere
<1>7. Looked(site) = h[e]
  BY <1>1, <1>2, <1>3 DEF Looked, Walk, IsLook, Stops
<1> HIDE DEF h
<1>8. Looks(h, a, e)
  BY <1>3, <1>6, LooksIs
<1>9. QED
  BY <1>4, <1>7, <1>8

\* Branches is the end of such a walk.
LEMMA BranchesEnd ==
    ASSUME Fits, DOMAIN code = 1..Len(code), NEW site \in 1..Len(code), Len(code) \in Nat
    PROVE  \E a, e, h : Upto(a, e) /\ Branching(h, a, e) /\ Branches(site) = h[e].done
<1>1. PICK a \in Nat \ {0} : a = Back(site, DispatchWindow) /\ a - 1 <= site - 1 /\ site - 1 \in Nat
  <2>1. DispatchWindow \in Nat
    BY TablesAssumption
  <2>2. QED
    BY <2>1, BackIs
<1>2. PICK b \in Nat : b = site - 1 /\ b <= Len(code)
  BY <1>1
<1>3. PICK e \in Nat : Stops(a, b, e) /\ a - 1 <= e /\ e <= b
  BY <1>1, <1>2, StopsThere
<1>4. Upto(a, e)
  BY <1>2, <1>3 DEF Upto
<1>5. PICK n \in Nat : e = a - 1 + n
  <2>1. e - (a - 1) \in Nat /\ e = a - 1 + (e - (a - 1))
    BY <1>3
  <2>2. QED
    BY <2>1
<1> DEFINE h == CHOOSE h : IsBranching(h, a, e)
<1>6. IsBranching(h, a, e)
  BY <1>5, BranchingThere
<1>7. Branches(site) = h[e].done
  BY <1>1, <1>2, <1>3 DEF Branches, Walk, IsBranching, Stops
<1> HIDE DEF h
<1>8. Branching(h, a, e)
  BY <1>3, <1>6, BranchingIs
<1>9. QED
  BY <1>4, <1>7, <1>8

\* CallSites is the end of such a walk.
LEMMA CallSitesEnd ==
    ASSUME Len(code) \in Nat
    PROVE  \E a, e, h : Upto(a, e) /\ Scans(h, a, e) /\ CallSites = h[e].sites
<1>1. PICK a \in Nat \ {0} : a = 1
  OBVIOUS
<1>2. PICK b \in Nat : b = Len(code)
  OBVIOUS
<1>3. PICK e \in Nat : Stops(a, b, e) /\ a - 1 <= e /\ e <= b
  BY <1>1, StopsThere
<1>4. Upto(a, e)
  BY <1>2, <1>3 DEF Upto
<1>5. PICK n \in Nat : e = a - 1 + n
  <2>1. e - (a - 1) \in Nat /\ e = a - 1 + (e - (a - 1))
    BY <1>3
  <2>2. QED
    BY <2>1
<1> DEFINE h == CHOOSE h : IsScan(h, a, e)
<1>6. IsScan(h, a, e)
  BY <1>5, ScansThere
<1>7. CallSites = h[e].sites
  BY <1>1, <1>2, <1>3 DEF CallSites, Walk, IsScan, Stops
<1> HIDE DEF h
<1>8. Scans(h, a, e)
  BY <1>3, <1>6, ScansIs
<1>9. QED
  BY <1>4, <1>7, <1>8

-----------------------------------------------------------------------------
(* What the walks hold                                                      *)

\* What is held when the look back ends may be loaded.
LEMMA LookedTyped ==
    ASSUME World, NEW site \in 1..Len(code)
    PROVE  Holds(Looked(site), Loaded)
<1>1. code \in Seq(Code) /\ Len(code) \in Nat /\ DOMAIN code = 1..Len(code)
  BY CodeTyped
<1>2. PICK a, e, h : Upto(a, e) /\ Looks(h, a, e) /\ Looked(site) = h[e]
  BY <1>1, WorldFits, LookedEnds
<1>3. a \in Nat \ {0} /\ e \in Nat /\ a - 1 <= e
  BY <1>2 DEF Upto
<1>4. \A i \in a..e : Loads(Loaded, code[i])
  <2>1. \A i \in a..e : i \in DOMAIN code
    BY <1>1, <1>2 DEF Upto
  <2>2. \A i \in a..e : code[i] \in Code
    BY <1>1, <2>1, ItemIn
  <2>3. QED
    BY <2>2 DEF Code, Sound
<1>5. e <= e
  BY <1>3
<1>6. Holds(h[e], Loaded)
  BY <1>2, <1>3, <1>4, <1>5, LookHolds
<1>7. QED
  BY <1>2, <1>6

\* The sites are instructions of the code.
Sited(g) == ScanForm(g) /\ g.sites \in Seq(1..Len(code))

\* One step of the scan keeps it so.
LEMMA SitedStep ==
    ASSUME NEW g, Sited(g), NEW i \in 1..Len(code)
    PROVE  Sited(ScanStep(g, i))
<1>1. ScanForm(ScanStep(g, i)) /\ ScanStep(g, i).sites = IF Taken(g, i) THEN Append(g.sites, i) ELSE g.sites
  BY ScanStepIs DEF Sited
<1>2. PICK s : s = ScanStep(g, i)
  OBVIOUS
<1>3. PICK t : t = g.sites
  OBVIOUS
<1>4. t \in Seq(1..Len(code)) /\ Append(t, i) \in Seq(1..Len(code))
  BY <1>3 DEF Sited
<1>5. s.sites \in Seq(1..Len(code))
  BY <1>1, <1>2, <1>3, <1>4
<1>6. QED
  BY <1>1, <1>2, <1>5 DEF Sited

\* Every site is an instruction.
LEMMA SitesTyped ==
    ASSUME World
    PROVE  CallSites \in Seq(1..Len(code))
<1>1. Len(code) \in Nat
  BY CodeTyped
<1>2. PICK a, e, h : Upto(a, e) /\ Scans(h, a, e) /\ CallSites = h[e].sites
  BY <1>1, CallSitesEnd
<1>3. a \in Nat \ {0} /\ e \in Nat /\ a - 1 <= e /\ e <= Len(code)
  BY <1>2 DEF Upto
<1> DEFINE S(i) == Sited(h[i])
           T == {i \in a - 1..e : ~S(i)}
<1>4. T = {}
  <2>1. SUFFICES ASSUME T # {} PROVE FALSE
    OBVIOUS
  <2>2. PICK x \in T : \A y \in T : x <= y
    <3>1. T \subseteq Nat
      BY <1>3
    <3> HIDE DEF T
    <3>2. QED
      BY <2>1, <3>1, SmallestNat, Zenon
  <2>3. x \in a - 1..e /\ ~S(x)
    OBVIOUS
  <2>4. S(a - 1)
    BY <1>2 DEF Scans, Sited, ScanForm
  <2>5. PICK y \in a - 1..e : x = y + 1
    <3>1. x # a - 1
      BY <2>3, <2>4
    <3>2. x - 1 \in a - 1..e /\ x = (x - 1) + 1
      BY <1>3, <2>3, <3>1
    <3>3. QED
      BY <3>2
  <2>6. y \notin T
    <3> HIDE DEF T
    <3>1. QED
      BY <1>3, <2>2, <2>5
  <2>7. Sited(h[y])
    BY <2>5, <2>6
  <2>8. x \in a..e /\ x - 1 = y
    BY <1>3, <2>3, <2>5
  <2>9. h[x] = ScanStep(h[y], x)
    BY <1>2, <2>8 DEF Scans
  <2>10. x \in 1..Len(code)
    BY <1>3, <2>8
  <2>11. Sited(ScanStep(h[y], x))
    BY <2>7, <2>10, SitedStep
  <2>12. QED
    BY <2>3, <2>9, <2>11
<1>5. S(e)
  <2>1. e \in a - 1..e /\ e \notin T
    BY <1>3, <1>4
  <2>2. QED
    BY <2>1
<1>6. QED
  BY <1>2, <1>5 DEF Sited

\* Every table that was closed is one of functions.
Closed(g) ==
    /\ BranchForm(g) /\ g.fns \in Seq(Addr) /\ g.done \in Seq(Seq(Addr))
    /\ \A r \in DOMAIN g.last : g.last[r] \in Addr

\* Dropping repetitions, or all but the last items, leaves a sequence of the same.
LEMMA DistinctTyped ==
    ASSUME NEW T, NEW s \in Seq(T)
    PROVE  Distinct(s) \in Seq(T)
<1> DEFINE p == [k \in DOMAIN s |-> IF \E i \in 1..k - 1 : s[i] = s[k] THEN <<>> ELSE <<s[k]>>]
<1>1. PICK n \in Nat : n = Len(s) /\ DOMAIN s = 1..n
  OBVIOUS
<1>2. ASSUME NEW k \in 1..n PROVE p[k] \in Seq(T)
  <2>1. s[k] \in T
    BY <1>1, ItemIn
  <2>2. <<s[k]>> \in Seq(T) /\ <<>> \in Seq(T)
    BY <2>1
  <2>3. p[k] = IF \E i \in 1..k - 1 : s[i] = s[k] THEN <<>> ELSE <<s[k]>>
    BY <1>1
  <2> HIDE DEF p
  <2>4. QED
    BY <2>2, <2>3
<1>3. p = [k \in 1..n |-> p[k]]
  BY <1>1
<1>4. Distinct(s) = Flat(p)
  BY DEF Distinct
<1> HIDE DEF p
<1>5. p \in Seq(Seq(T))
  BY <1>2, <1>3, IsSequence
<1>6. QED
  BY <1>4, <1>5, FlattenTyped DEF Flat

LEMMA LastTyped ==
    ASSUME NEW T, NEW s \in Seq(T), NEW n \in Nat
    PROVE  LastN(s, n) \in Seq(T)
<1>1. CASE n < Len(s)
  <2>1. SubSeq(s, Len(s) - n + 1, Len(s)) \in Seq(T)
    BY <1>1
  <2>2. QED
    BY <1>1, <2>1 DEF LastN
<1>2. QED
  BY <1>1 DEF LastN

\* One step of the dispatch harvest keeps it so.
LEMMA ClosedStep ==
    ASSUME NEW g, Closed(g), NEW i, Sound(code[i])
    PROVE  Closed(BranchStep(g, i))
<1> DEFINE x == code[i].arg
           r == code[i].reg
<1>1. /\ BranchForm(g) /\ g.fns \in Seq(Addr) /\ g.done \in Seq(Seq(Addr))
      /\ \A q \in DOMAIN g.last : g.last[q] \in Addr
  BY DEF Closed
<1>2. CASE code[i].op = "lea" /\ IsFn(x)
  <2>1. x \in Addr
    BY <1>2 DEF Sound, Loads, Loaded
  <2>2. BranchStep(g, i) = [last |-> Put(g.last, r, x), fns |-> g.fns, done |-> g.done]
    BY <1>1, <1>2, BranchStepIs
  <2>3. \A q \in DOMAIN Put(g.last, r, x) : Put(g.last, r, x)[q] \in Addr
    BY <1>1, <2>1, PutHolds
  <2>4. QED
    BY <1>1, <2>2, <2>3 DEF Closed, BranchForm
<1>3. CASE code[i].op = "store" /\ r \in DOMAIN g.last
  <2>1. BranchStep(g, i) = [last |-> Without(g.last, r), fns |-> Append(g.fns, g.last[r]), done |-> g.done]
    BY <1>1, <1>3, BranchStepIs
  <2>2. \A q \in DOMAIN Without(g.last, r) : Without(g.last, r)[q] \in Addr
    BY <1>1 DEF Without
  <2>3. PICK v \in Addr : v = g.last[r]
    BY <1>1, <1>3
  <2>4. Append(g.fns, v) \in Seq(Addr)
    BY <1>1
  <2>5. QED
    BY <1>1, <2>1, <2>2, <2>3, <2>4 DEF Closed, BranchForm
<1>4. CASE code[i].op = "count"
  <2> DEFINE d == IF x > 0 /\ Len(Distinct(g.fns)) >= x THEN Append(g.done, LastN(Distinct(g.fns), x)) ELSE g.done
  <2>1. BranchStep(g, i) = [last |-> <<>>, fns |-> <<>>, done |-> d]
    BY <1>1, <1>4, BranchStepIs
  <2>2. x \in Nat
    BY <1>4 DEF Sound, Loads
  <2>3. Distinct(g.fns) \in Seq(Addr)
    BY <1>1, DistinctTyped
  <2>4. PICK t \in Seq(Addr) : t = LastN(Distinct(g.fns), x)
    BY <2>2, <2>3, LastTyped
  <2>5. PICK e \in Seq(Seq(Addr)) : e = g.done
    BY <1>1
  <2>6. Append(e, t) \in Seq(Seq(Addr))
    OBVIOUS
  <2>7. d \in Seq(Seq(Addr))
    BY <2>4, <2>5, <2>6
  <2> HIDE DEF d
  <2>8. <<>> \in Seq(Addr) /\ DOMAIN <<>> = {}
    OBVIOUS
  <2>9. QED
    BY <2>1, <2>7, <2>8 DEF Closed, BranchForm
<1>5. CASE ~(code[i].op = "lea" /\ IsFn(x)) /\ ~(code[i].op = "store" /\ r \in DOMAIN g.last) /\ code[i].op # "count"
  <2>1. BranchStep(g, i) = g
    BY <1>5 DEF BranchStep
  <2>2. QED
    BY <2>1
<1>6. QED
  BY <1>2, <1>3, <1>4, <1>5

\* The dispatch harvest finds sequences of functions.
LEMMA BranchesTyped ==
    ASSUME World, NEW site \in 1..Len(code)
    PROVE  Branches(site) \in Seq(Seq(Addr))
<1>1. code \in Seq(Code) /\ Len(code) \in Nat /\ DOMAIN code = 1..Len(code)
  BY CodeTyped
<1>2. PICK a, e, h : Upto(a, e) /\ Branching(h, a, e) /\ Branches(site) = h[e].done
  BY <1>1, WorldFits, BranchesEnd
<1>3. a \in Nat \ {0} /\ e \in Nat /\ a - 1 <= e /\ e <= Len(code)
  BY <1>2 DEF Upto
<1> DEFINE S(i) == Closed(h[i])
           T == {i \in a - 1..e : ~S(i)}
<1>4. T = {}
  <2>1. SUFFICES ASSUME T # {} PROVE FALSE
    OBVIOUS
  <2>2. PICK x \in T : \A y \in T : x <= y
    <3>1. T \subseteq Nat
      BY <1>3
    <3> HIDE DEF T
    <3>2. QED
      BY <2>1, <3>1, SmallestNat, Zenon
  <2>3. x \in a - 1..e /\ ~S(x)
    OBVIOUS
  <2>4. S(a - 1)
    <3>1. h[a - 1] = [last |-> <<>>, fns |-> <<>>, done |-> <<>>]
      BY <1>2 DEF Branching
    <3>2. <<>> \in Seq(Addr) /\ <<>> \in Seq(Seq(Addr)) /\ DOMAIN <<>> = {}
      OBVIOUS
    <3>3. QED
      BY <3>1, <3>2 DEF Closed, BranchForm
  <2>5. PICK y \in a - 1..e : x = y + 1
    <3>1. x # a - 1
      BY <2>3, <2>4
    <3>2. x - 1 \in a - 1..e /\ x = (x - 1) + 1
      BY <1>3, <2>3, <3>1
    <3>3. QED
      BY <3>2
  <2>6. y \notin T
    <3> HIDE DEF T
    <3>1. QED
      BY <1>3, <2>2, <2>5
  <2>7. Closed(h[y])
    BY <2>5, <2>6
  <2>8. x \in a..e /\ x - 1 = y
    BY <1>3, <2>3, <2>5
  <2>9. h[x] = BranchStep(h[y], x)
    BY <1>2, <2>8 DEF Branching
  <2>10. x \in DOMAIN code
    BY <1>1, <1>3, <2>8
  <2>11. Sound(code[x])
    BY <1>1, <2>10, ItemIn DEF Code
  <2>12. Closed(BranchStep(h[y], x))
    BY <2>7, <2>11, ClosedStep
  <2>13. QED
    BY <2>3, <2>9, <2>12
<1>5. S(e)
  <2>1. e \in a - 1..e /\ e \notin T
    BY <1>3, <1>4
  <2>2. QED
    BY <2>1
<1>6. QED
  BY <1>2, <1>5 DEF Closed

\* A table of the harvest
TableType ==
    {e \in EntryType : /\ e.source \in {"static", "stack", "unreadable"} /\ e.class = NoClass
                       /\ e.methods = <<>> \/ Len(e.methods) = Len(e.addrs)}

LEMMA FoundTyped ==
    ASSUME NEW source \in {"static", "stack", "unreadable"}, NEW methods \in Seq(MethodType),
           NEW addrs \in Seq(Addr), NEW n \in Nat, methods = <<>> \/ Len(methods) = Len(addrs)
    PROVE  Found(source, methods, addrs, n) \in TableType
BY DEF TableType, EntryType, Found

\* Rows that decode are rows of the image.
LEMMA DecodedTyped ==
    ASSUME World, NEW v, NEW n \in Nat
    PROVE  Decoded(v, n) \in Seq(Row)
<1>1. image \in Seq(Row)
  BY TabsThere
<1>2. CASE n > 0 /\ \A i \in 1..n : v - TableBase + i \in DOMAIN image /\ image[v - TableBase + i].method # NoMethod
  <2> DEFINE d == [i \in 1..n |-> image[v - TableBase + i]]
  <2>1. \A i \in 1..n : d[i] \in Row
    BY <1>1, <1>2, ItemIn
  <2>2. d = [i \in 1..n |-> d[i]]
    OBVIOUS
  <2>3. Decoded(v, n) = d
    BY <1>2 DEF Decoded
  <2> HIDE DEF d
  <2>4. QED
    BY <2>1, <2>2, <2>3, IsSequence
<1>3. CASE ~(n > 0 /\ \A i \in 1..n : v - TableBase + i \in DOMAIN image /\ image[v - TableBase + i].method # NoMethod)
  <2>1. Decoded(v, n) = <<>>
    BY <1>3 DEF Decoded
  <2>2. QED
    BY <2>1
<1>4. QED
  BY <1>2, <1>3

\* The harvest of a call gives functions, and as many names or none.
LEMMA HarvestTyped ==
    ASSUME World, NEW site \in 1..Len(code)
    PROVE  /\ Harvest(site).addrs \in Seq(Addr) /\ Harvest(site).methods \in Seq(MethodType)
           /\ Harvest(site).methods = <<>> \/ Len(Harvest(site).methods) = Len(Harvest(site).addrs)
           /\ Harvest(site).n \in Nat
<1>1. PICK g : g = Looked(site)
  OBVIOUS
<1>2. g.n \in Nat /\ g.fns \in Seq(Low(Loaded))
  BY <1>1, LookedTyped DEF Holds
<1>3. g.fns \in Seq(Addr)
  <2>1. Low(Loaded) \subseteq Addr
    BY DEF Low, Loaded
  <2>2. QED
    BY <1>2, <2>1, Widens
<1> DEFINE tried == g.arg3 \o g.near
           readable == {i \in DOMAIN tried : Decoded(tried[i], g.n) # <<>>}
           rows == IF readable = {} THEN <<>> ELSE Decoded(tried[Min(readable)], g.n)
           fns == IF g.n > 0 THEN LastN(Distinct(g.fns), g.n) ELSE Distinct(g.fns)
<1>4. Harvest(site) =
        [addrs |-> IF rows # <<>> THEN [i \in DOMAIN rows |-> rows[i].fn] ELSE fns,
         methods |-> [i \in DOMAIN rows |-> rows[i].method], n |-> g.n, arg3 |-> g.arg3]
  BY <1>1 DEF Harvest
<1>5. rows \in Seq(Row)
  <2>1. \A v : Decoded(v, g.n) \in Seq(Row)
    BY <1>2, DecodedTyped
  <2>2. <<>> \in Seq(Row)
    OBVIOUS
  <2>3. QED
    BY <2>1, <2>2
<1>6. fns \in Seq(Addr)
  <2>1. Distinct(g.fns) \in Seq(Addr)
    BY <1>3, DistinctTyped
  <2>2. LastN(Distinct(g.fns), g.n) \in Seq(Addr)
    BY <1>2, <2>1, LastTyped
  <2>3. QED
    BY <2>1, <2>2
<1> HIDE DEF rows, fns
<1> DEFINE a == [i \in DOMAIN rows |-> rows[i].fn]
           m == [i \in DOMAIN rows |-> rows[i].method]
<1>7. PICK l \in Nat : l = Len(rows) /\ DOMAIN rows = 1..l
  BY <1>5
<1>8. \A i \in 1..l : rows[i].fn \in Addr /\ rows[i].method \in MethodType
  <2>1. \A i \in 1..l : rows[i] \in Row
    BY <1>5, <1>7, ItemIn
  <2>2. QED
    BY <2>1 DEF Row
<1>9. a \in Seq(Addr) /\ Len(a) = l
  <2>1. a = [i \in 1..l |-> a[i]] /\ \A i \in 1..l : a[i] \in Addr
    BY <1>7, <1>8
  <2> HIDE DEF a
  <2>2. QED
    BY <2>1, IsSequence
<1>10. m \in Seq(MethodType) /\ Len(m) = l
  <2>1. m = [i \in 1..l |-> m[i]] /\ \A i \in 1..l : m[i] \in MethodType
    BY <1>7, <1>8
  <2> HIDE DEF m
  <2>2. QED
    BY <2>1, IsSequence
<1>11. Harvest(site).addrs = (IF rows # <<>> THEN a ELSE fns) /\ Harvest(site).methods = m /\ Harvest(site).n = g.n
  BY <1>4
<1>12. rows = <<>> => m = <<>>
  OBVIOUS
<1> HIDE DEF a, m
<1>13. QED
  BY <1>2, <1>6, <1>9, <1>10, <1>11, <1>12

\* So each table found is such a table.
LEMMA TablesTyped ==
    ASSUME World, NEW site \in 1..Len(code)
    PROVE  TablesAt(site) \in Seq(TableType)
<1>1. PICK b \in Seq(Seq(Addr)) : b = Branches(site)
  BY BranchesTyped
<1> DEFINE h == Harvest(site)
           split == [i \in DOMAIN b |-> Found("stack", <<>>, b[i], Len(b[i]))]
<1>2. split \in Seq(TableType)
  <2>1. PICK n \in Nat : n = Len(b) /\ DOMAIN b = 1..n
    OBVIOUS
  <2>2. ASSUME NEW i \in 1..n PROVE split[i] \in TableType
    <3>1. PICK r \in Seq(Addr) : r = b[i]
      BY <2>1, ItemIn
    <3>2. Len(r) \in Nat /\ <<>> \in Seq(MethodType)
      OBVIOUS
    <3>3. Found("stack", <<>>, r, Len(r)) \in TableType
      BY <3>2, FoundTyped
    <3>4. QED
      BY <2>1, <3>1, <3>3
  <2>3. split = [i \in 1..n |-> split[i]]
    BY <2>1
  <2> HIDE DEF split
  <2>4. QED
    BY <2>2, <2>3, IsSequence
<1>3. /\ h.addrs \in Seq(Addr) /\ h.methods \in Seq(MethodType) /\ h.n \in Nat
      /\ h.methods = <<>> \/ Len(h.methods) = Len(h.addrs)
  BY HarvestTyped
<1>4. Found(IF h.methods = <<>> THEN "stack" ELSE "static", h.methods, h.addrs, h.n) \in TableType
  <2>1. PICK s \in {"static", "stack", "unreadable"} : s = IF h.methods = <<>> THEN "stack" ELSE "static"
    OBVIOUS
  <2> HIDE DEF h
  <2>2. Found(s, h.methods, h.addrs, h.n) \in TableType
    BY <1>3, FoundTyped
  <2>3. QED
    BY <2>1, <2>2
<1>5. Found("unreadable", <<>>, <<>>, h.n) \in TableType
  <2>1. <<>> \in Seq(MethodType) /\ <<>> \in Seq(Addr)
    OBVIOUS
  <2> HIDE DEF h
  <2>2. QED
    BY <1>3, <2>1, FoundTyped
<1>6. TablesAt(site) \in
        {split, <<Found(IF h.methods = <<>> THEN "stack" ELSE "static", h.methods, h.addrs, h.n)>>,
         <<Found("unreadable", <<>>, <<>>, h.n)>>, <<>>}
  <2> HIDE DEF split
  <2>1. split = [i \in DOMAIN Branches(site) |-> Found("stack", <<>>, Branches(site)[i], Len(Branches(site)[i]))]
    BY <1>1 DEF split
  <2> HIDE DEF h
  <2>2. QED
    BY <1>1, <2>1 DEF TablesAt, h
<1> HIDE DEF split, h
<1>7. PICK u \in TableType : u = Found(IF h.methods = <<>> THEN "stack" ELSE "static", h.methods, h.addrs, h.n)
  BY <1>4
<1>8. PICK v \in TableType : v = Found("unreadable", <<>>, <<>>, h.n)
  BY <1>5
<1>9. <<u>> \in Seq(TableType) /\ <<v>> \in Seq(TableType) /\ <<>> \in Seq(TableType)
  OBVIOUS
<1>10. QED
  BY <1>2, <1>6, <1>7, <1>8, <1>9

-----------------------------------------------------------------------------
(* What the two passes of the harvest keep typed                            *)
HarvestInv ==
    /\ World
    /\ sites \in Seq(1..Len(code)) /\ tables \in Seq(TableType)

LEMMA PassesKeep ==
    ASSUME [Next]_vars
    PROVE  Scan \/ HarvestSite \/ (sites' = sites /\ tables' = tables)
BY DEF Next, vars, tableVars, mergeVars, Introspect, AddEmulated

\* Every step keeps them so.
LEMMA HarvestTypes == HarvestInv /\ [Next]_vars => HarvestInv'
<1>1. SUFFICES ASSUME HarvestInv, [Next]_vars PROVE HarvestInv'
  OBVIOUS
<1>2. SameWorld
  BY <1>1, Steps
<1>3. World' /\ code' = code
  BY <1>1, <1>2 DEF HarvestInv, World, SameWorld
<1>4. CASE Scan
  <2>1. sites' = CallSites /\ tables' = tables
    BY <1>4 DEF Scan
  <2>2. CallSites \in Seq(1..Len(code))
    BY <1>1, SitesTyped DEF HarvestInv
  <2>3. QED
    BY <1>1, <1>3, <2>1, <2>2 DEF HarvestInv
<1>5. CASE HarvestSite
  <2>1. sites # <<>> /\ tables' = tables \o TablesAt(Head(sites)) /\ sites' = Tail(sites)
    BY <1>5 DEF HarvestSite
  <2>2. PICK s \in Seq(1..Len(code)) : s = sites
    BY <1>1 DEF HarvestInv
  <2>3. Head(s) \in 1..Len(code) /\ Tail(s) \in Seq(1..Len(code))
    BY <2>1, <2>2
  <2>4. PICK t \in Seq(TableType) : t = TablesAt(Head(s))
    BY <1>1, <2>3, TablesTyped DEF HarvestInv
  <2>5. tables \o t \in Seq(TableType)
    BY <1>1, Joined DEF HarvestInv
  <2>6. QED
    BY <1>3, <2>1, <2>2, <2>3, <2>4, <2>5 DEF HarvestInv
<1>6. CASE sites' = sites /\ tables' = tables
  BY <1>1, <1>3, <1>6 DEF HarvestInv
<1>7. QED
  BY <1>1, <1>4, <1>5, <1>6, PassesKeep

-----------------------------------------------------------------------------
(* What the report and the emulator make of the tables is a registry.       *)
Listed ==
    {e \in EntryType :
        /\ e.methods = <<>> \/ Len(e.methods) = Len(e.addrs)
        /\ e.source = "export" => Len(e.addrs) = 1 /\ Len(e.methods) = 1
                                  /\ e.class \in Class /\ e.methods[1] \in Method}

\* A sequence of such entries is a registry.
LEMMA ListedIs ==
    ASSUME NEW r \in Seq(Listed)
    PROVE  IsRegistry(r)
<1>1. r \in Seq(EntryType)
  <2>1. Listed \subseteq EntryType
    BY DEF Listed
  <2>2. QED
    BY <2>1, Widens
<1>2. \A i \in DOMAIN r : r[i] \in Listed
  BY ItemIn
<1>3. QED
  BY <1>1, <1>2 DEF IsRegistry, Listed

\* Some of the items of a sequence
LEMMA PickedTyped ==
    ASSUME NEW T, NEW s \in Seq(T), NEW p, p = [k \in DOMAIN s |-> p[k]],
           \A k \in DOMAIN s : p[k] \in {<<>>, <<s[k]>>}
    PROVE  Flat(p) \in Seq(T)
<1>1. PICK n \in Nat : n = Len(s) /\ DOMAIN s = 1..n
  OBVIOUS
<1>2. ASSUME NEW k \in 1..n PROVE p[k] \in Seq(T)
  <2>1. PICK t \in T : t = s[k]
    BY <1>1, ItemIn
  <2>2. <<t>> \in Seq(T) /\ <<>> \in Seq(T)
    OBVIOUS
  <2>3. QED
    BY <1>1, <2>1, <2>2
<1>3. p \in Seq(Seq(T))
  BY <1>1, <1>2, IsSequence
<1>4. QED
  BY <1>3, FlattenTyped DEF Flat

\* Some of the tables, or of the rows, are a sequence of the same.
LEMMA ReadTyped ==
    ASSUME NEW T, NEW s \in Seq(T)
    PROVE  /\ Those(s, Read) \in Seq(T)
           /\ Those(s, LAMBDA t : ~Read(t)) \in Seq(T)
<1> DEFINE p == [i \in DOMAIN s |-> IF Read(s[i]) THEN <<s[i]>> ELSE <<>>]
           q == [i \in DOMAIN s |-> IF ~Read(s[i]) THEN <<s[i]>> ELSE <<>>]
<1>1. Those(s, Read) = Flat(p) /\ Those(s, LAMBDA t : ~Read(t)) = Flat(q)
  BY DEF Those
<1>2. p = [k \in DOMAIN s |-> p[k]] /\ \A k \in DOMAIN s : p[k] \in {<<>>, <<s[k]>>}
  OBVIOUS
<1>3. q = [k \in DOMAIN s |-> q[k]] /\ \A k \in DOMAIN s : q[k] \in {<<>>, <<s[k]>>}
  OBVIOUS
<1> HIDE DEF p, q
<1>4. QED
  BY <1>1, <1>2, <1>3, PickedTyped

LEMMA FreshTyped ==
    ASSUME NEW T, NEW s \in Seq(T), NEW r
    PROVE  Fresh(r, s) \in Seq(T)
<1> DEFINE p == [i \in DOMAIN s |-> IF s[i].fn \notin Known(r) THEN <<s[i]>> ELSE <<>>]
<1>1. Fresh(r, s) = Flat(p)
  BY DEF Those, Fresh
<1>2. p = [k \in DOMAIN s |-> p[k]] /\ \A k \in DOMAIN s : p[k] \in {<<>>, <<s[k]>>}
  OBVIOUS
<1> HIDE DEF p
<1>3. QED
  BY <1>1, <1>2, PickedTyped

LEMMA OfClassTyped ==
    ASSUME NEW T, NEW s \in Seq(T), NEW c
    PROVE  OfClass(s, c) \in Seq(T)
<1> DEFINE p == [i \in DOMAIN s |-> IF s[i].class = c THEN <<s[i]>> ELSE <<>>]
<1>1. OfClass(s, c) = Flat(p)
  BY DEF Those, OfClass
<1>2. p = [k \in DOMAIN s |-> p[k]] /\ \A k \in DOMAIN s : p[k] \in {<<>>, <<s[k]>>}
  OBVIOUS
<1> HIDE DEF p
<1>3. QED
  BY <1>1, <1>2, PickedTyped

\* A finite set has a sequence of its members.
LEMMA SetListed ==
    ASSUME NEW S, IsFiniteSet(S)
    PROVE  \E n \in Nat : SetToSeq(S) \in [1..n -> S]
<1>1. Cardinality(S) \in Nat /\ ExistsBijection(1..Cardinality(S), S)
  BY FS_CardinalityType
<1>2. PICK f : f \in Bijection(1..Cardinality(S), S)
  BY <1>1 DEF ExistsBijection
<1>3. f \in [1..Cardinality(S) -> S] /\ IsInjective(f)
  BY <1>2 DEF Bijection, Injection
<1>4. SetToSeq(S) \in [1..Cardinality(S) -> S]
  BY <1>3 DEF SetToSeq
<1>5. QED
  BY <1>1, <1>4

LEMMA ExportsListed ==
    ASSUME World
    PROVE  Entries(world.exports, ExportEntry) \in Seq(Listed)
<1> DEFINE S == world.exports
           s == SetToSeq(S)
           x == [i \in DOMAIN s |-> ExportEntry(s[i])]
<1>1. IsFiniteSet(S) /\ S \subseteq [class: Class, method: Method, short: BOOLEAN]
      /\ truth \in [Class -> [Method -> Addr]]
  BY WorldsAssumption DEF World
<1>2. ASSUME NEW e \in S PROVE ExportEntry(e) \in Listed
  <2>1. e.class \in Class /\ e.method \in Method /\ e.short \in BOOLEAN
    BY <1>1
  <2>2. truth[e.class][e.method] \in Addr
    BY <1>1, <2>1
  <2>3. QED
    BY <2>1, <2>2 DEF ExportEntry, Listed, EntryType, MethodType
<1>3. PICK n \in Nat : s \in [1..n -> S]
  BY <1>1, SetListed
<1>4. DOMAIN s = 1..n /\ \A i \in 1..n : s[i] \in S
  BY <1>3
<1>5. x = [i \in 1..n |-> x[i]] /\ \A i \in 1..n : x[i] \in Listed
  BY <1>2, <1>4
<1>6. Entries(S, ExportEntry) = x
  BY DEF Entries
<1> HIDE DEF x
<1>7. QED
  BY <1>5, <1>6, IsSequence

\* The report is a registry.
LEMMA ReportListed ==
    ASSUME HarvestInv
    PROVE  Report \in Seq(Listed)
<1>1. tables \in Seq(Listed)
  <2>1. TableType \subseteq Listed
    BY DEF TableType, Listed
  <2>2. QED
    BY <2>1, Widens DEF HarvestInv
<1>2. Those(tables, Read) \in Seq(Listed) /\ Those(tables, LAMBDA t : ~Read(t)) \in Seq(Listed)
  BY <1>1, ReadTyped
<1>3. Entries(world.exports, ExportEntry) \in Seq(Listed)
  BY ExportsListed DEF HarvestInv
<1>4. Entries(world.exports, ExportEntry) \o Those(tables, Read) \in Seq(Listed)
  BY <1>2, <1>3, Joined
<1>5. QED
  BY <1>2, <1>4, Joined DEF Report

-----------------------------------------------------------------------------
(* What the emulator adds                                                   *)
CapturedType == [class: Class \cup {NoClass}, method: MethodType, fn: Addr]

\* What the emulator captures has the addresses of functions.
LEMMA CapturedTyped ==
    ASSUME World
    PROVE  Captured(world.emulated) \in Seq(CapturedType)
<1> DEFINE e == world.emulated
           x(k) == [i \in DOMAIN jar[layout[e.tables[k]].class] |->
                    [class |-> IF e.named THEN layout[e.tables[k]].class ELSE NoClass,
                     method |-> IF e.legible THEN jar[layout[e.tables[k]].class][i] ELSE NoMethod,
                     fn |-> truth[layout[e.tables[k]].class][jar[layout[e.tables[k]].class][i]]
                                + (IF e.rebased THEN Rebase ELSE 0)]]
           p == [k \in DOMAIN e.tables |-> x(k)]
<1>1. Fits /\ e.tables \in Seq(DOMAIN layout)
  BY WorldFits, WorldsAssumption DEF World
<1>2. PICK n \in Nat : n = Len(e.tables) /\ DOMAIN e.tables = 1..n
  BY <1>1
<1>3. ASSUME NEW k \in 1..n PROVE x(k) \in Seq(CapturedType)
  <2>1. PICK t \in DOMAIN layout : t = e.tables[k]
    BY <1>1, <1>2, ItemIn
  <2> DEFINE c == layout[t].class
             v(i) == truth[c][jar[c][i]]
             w(i) == v(i) + (IF e.rebased THEN Rebase ELSE 0)
  <2>2. PICK m \in Nat : m = N(t) /\ DOMAIN jar[c] = 1..m
    BY <1>1, RowsFit
  <2>3. c \in Class /\ \A i \in 1..m : v(i) \in Addr /\ jar[c][i] \in Method
    BY <1>1, <2>2, RowsFit, ItemIn
  <2>4. e.rebased => \A i \in 1..m : v(i) + Rebase \in Addr
    <3>1. world \in Worlds /\ layout = world.layout /\ jar = world.jar /\ truth = world.truth
      BY DEF World
    <3>2. QED
      BY <2>1, <2>2, <3>1, WorldsAssumption
  <2>5. \A i \in 1..m : w(i) \in Addr
    <3>1. ASSUME NEW i \in 1..m PROVE w(i) \in Addr
      <4>1. v(i) \in Addr /\ v(i) \in Nat
        BY <2>3, FnsAreLow
      <4>2. v(i) + 0 = v(i)
        BY <4>1
      <4> HIDE DEF v, e
      <4>3. QED
        BY <2>4, <4>1, <4>2
    <3>2. QED
      BY <3>1
  <2> HIDE DEF w
  <2> DEFINE y == [i \in 1..m |->
                    [class |-> IF e.named THEN c ELSE NoClass,
                     method |-> IF e.legible THEN jar[c][i] ELSE NoMethod, fn |-> w(i)]]
  <2>6. x(k) = y
    BY <2>1, <2>2 DEF w
  <2>7. y = [i \in 1..m |-> y[i]] /\ \A i \in 1..m : y[i] \in CapturedType
    BY <2>3, <2>5 DEF CapturedType, MethodType
  <2> HIDE DEF y, x
  <2>8. y \in Seq(CapturedType)
    BY <2>7, IsSequence
  <2>9. QED
    BY <2>6, <2>8
<1>4. Captured(e) = Flat(p)
  BY DEF Captured
<1>5. p = [k \in 1..n |-> p[k]] /\ \A k \in 1..n : p[k] \in Seq(CapturedType)
  <2> HIDE DEF x, e
  <2>1. QED
    BY <1>2, <1>3
<1> HIDE DEF p, e
<1>6. p \in Seq(Seq(CapturedType))
  BY <1>5, IsSequence
<1>7. Flat(p) \in Seq(CapturedType)
  BY <1>6, FlattenTyped DEF Flat
<1>8. QED
  BY <1>4, <1>7 DEF e

\* What the rows of the emulator become
LEMMA RowsSplit ==
    ASSUME NEW rows \in Seq(CapturedType)
    PROVE  /\ Addrs(rows) \in Seq(Addr) /\ Names(rows) \in Seq(MethodType)
           /\ Len(Addrs(rows)) = Len(rows) /\ Len(Names(rows)) = Len(rows)
<1>1. PICK n \in Nat : n = Len(rows) /\ DOMAIN rows = 1..n
  OBVIOUS
<1>2. \A i \in 1..n : rows[i].fn \in Addr /\ rows[i].method \in MethodType
  <2>1. \A i \in 1..n : rows[i] \in CapturedType
    BY <1>1, ItemIn
  <2>2. QED
    BY <2>1 DEF CapturedType
<1> DEFINE a == [i \in DOMAIN rows |-> rows[i].fn]
           m == [i \in DOMAIN rows |-> rows[i].method]
<1>3. a = [i \in 1..n |-> a[i]] /\ \A i \in 1..n : a[i] \in Addr
  BY <1>1, <1>2
<1>4. m = [i \in 1..n |-> m[i]] /\ \A i \in 1..n : m[i] \in MethodType
  BY <1>1, <1>2
<1>5. Addrs(rows) = a /\ Names(rows) = m
  BY DEF Addrs, Names
<1> HIDE DEF a, m
<1>6. a \in Seq(Addr) /\ Len(a) = n
  BY <1>3, IsSequence
<1>7. m \in Seq(MethodType) /\ Len(m) = n
  BY <1>4, IsSequence
<1>8. QED
  BY <1>1, <1>5, <1>6, <1>7

\* A table of the registry is given the names and the class of the rows.
LEMMA RenamedListed ==
    ASSUME NEW r \in Seq(Listed), NEW i \in DOMAIN r, r[i].source # "export",
           NEW rows \in Seq(CapturedType), r[i].addrs = Addrs(rows),
           NEW c \in Class \cup {NoClass}
    PROVE  [r EXCEPT ![i].methods = Names(rows),
                     ![i].class = IF c = NoClass THEN @ ELSE c] \in Seq(Listed)
<1>1. PICK e \in Listed : e = r[i]
  BY ItemIn
<1> DEFINE f == [e EXCEPT !.methods = Names(rows), !.class = IF c = NoClass THEN @ ELSE c]
<1>2. f \in Listed
  <2>1. PICK m \in Seq(MethodType) : m = Names(rows) /\ Len(m) = Len(e.addrs)
    BY <1>1, RowsSplit
  <2>2. e \in EntryType /\ e.source # "export"
    BY <1>1 DEF Listed
  <2>3. PICK d \in Class \cup {NoClass} : d = IF c = NoClass THEN e.class ELSE c
    BY <2>2 DEF EntryType
  <2>4. f = [e EXCEPT !.methods = m, !.class = d]
    BY <2>1, <2>2, <2>3 DEF EntryType
  <2>5. [e EXCEPT !.methods = m, !.class = d] \in EntryType
    BY <2>2 DEF EntryType
  <2>6. f \in EntryType /\ f.source # "export" /\ Len(f.methods) = Len(f.addrs)
    <3> HIDE DEF f
    <3>1. [e EXCEPT !.methods = m, !.class = d].source = e.source
          /\ [e EXCEPT !.methods = m, !.class = d].methods = m
          /\ [e EXCEPT !.methods = m, !.class = d].addrs = e.addrs
      BY <2>2 DEF EntryType
    <3>2. QED
      BY <2>1, <2>2, <2>4, <2>5, <3>1
  <2>7. QED
    BY <2>6 DEF Listed
<1>3. [r EXCEPT ![i].methods = Names(rows), ![i].class = IF c = NoClass THEN @ ELSE c]
        = [r EXCEPT ![i] = f]
  <2>1. PICK n \in Nat : r \in [1..n -> Listed] /\ i \in 1..n
    OBVIOUS
  <2>2. e \in EntryType
    BY <1>1 DEF Listed
  <2>3. QED
    BY <1>1, <2>1, <2>2 DEF EntryType
<1> HIDE DEF f
<1>4. QED
  BY <1>2, <1>3

\* The rows of one class leave a registry.
LEMMA GroupedListed ==
    ASSUME NEW r \in Seq(Listed), NEW rows \in Seq(CapturedType), NEW c \in Class \cup {NoClass}
    PROVE  Grouped(r, c, rows) \in Seq(Listed)
<1>1. CASE SameTable(r, rows) # {}
  <2>1. SameTable(r, rows) \subseteq Nat
    BY DEF SameTable
  <2>2. PICK i \in SameTable(r, rows) : \A j \in SameTable(r, rows) : i <= j
    BY <1>1, <2>1, SmallestNat, Zenon
  <2>3. Min(SameTable(r, rows)) = i
    BY <2>1, <2>2 DEF Min
  <2>4. i \in DOMAIN r /\ r[i].source # "export" /\ r[i].addrs = Addrs(rows)
    BY DEF SameTable
  <2>5. Grouped(r, c, rows) = [r EXCEPT ![i].methods = Names(rows), ![i].class = IF c = NoClass THEN @ ELSE c]
    BY <1>1, <2>3 DEF Grouped
  <2>6. [r EXCEPT ![i].methods = Names(rows), ![i].class = IF c = NoClass THEN @ ELSE c] \in Seq(Listed)
    BY <2>4, RenamedListed
  <2>7. QED
    BY <2>5, <2>6
<1>2. CASE SameTable(r, rows) = {}
  <2>1. PICK fresh \in Seq(CapturedType) : fresh = Fresh(r, rows)
    BY FreshTyped
  <2> DEFINE e == [source |-> "emulation", class |-> c, methods |-> Names(fresh),
                   addrs |-> Addrs(fresh), nMethods |-> Len(fresh), short |-> FALSE]
  <2>2. Grouped(r, c, rows) = IF fresh = <<>> THEN r ELSE Append(r, e)
    BY <1>2, <2>1 DEF Grouped
  <2>3. e \in Listed
    <3>1. PICK a \in Seq(Addr) : a = Addrs(fresh)
      BY RowsSplit
    <3>2. PICK m \in Seq(MethodType) : m = Names(fresh)
      BY RowsSplit
    <3>3. Len(m) = Len(a) /\ Len(fresh) \in Nat
      BY <3>1, <3>2, RowsSplit
    <3>4. QED
      BY <3>1, <3>2, <3>3 DEF Listed, EntryType
  <2> HIDE DEF e
  <2>4. Append(r, e) \in Seq(Listed)
    BY <2>3
  <2>5. QED
    BY <2>2, <2>4
<1>3. QED
  BY <1>1, <1>2

-----------------------------------------------------------------------------
(* The classes of the emulator's rows, one after the other                  *)
IsGrouping(h, r, classes, rows, n) ==
    h = [i \in 0..n |-> IF i = 0 THEN r ELSE Grouped(h[i - 1], classes[i], OfClass(rows, classes[i]))]

\* There is such a sequence of registries,
LEMMA GroupingThere ==
    ASSUME NEW r, NEW classes, NEW rows, NEW n \in Nat
    PROVE  \E h : IsGrouping(h, r, classes, rows, n)
<1> DEFINE T == {k \in Nat : ~ \E h : IsGrouping(h, r, classes, rows, k)}
<1>1. SUFFICES ASSUME T # {} PROVE FALSE
  OBVIOUS
<1>2. PICK x \in T : \A y \in T : x <= y
  <2>1. T \subseteq Nat
    OBVIOUS
  <2> HIDE DEF T
  <2>2. QED
    BY <1>1, <2>1, SmallestNat, Zenon
<1>3. CASE x = 0
  <2> DEFINE f == [i \in 0..x |-> r]
  <2>1. \A i \in 0..x : i = 0
    BY <1>3
  <2>2. f = [i \in 0..x |-> IF i = 0 THEN r ELSE Grouped(f[i - 1], classes[i], OfClass(rows, classes[i]))]
    BY <2>1
  <2> HIDE DEF f
  <2>3. IsGrouping(f, r, classes, rows, x)
    BY <2>2, Zenon DEF IsGrouping
  <2>4. QED
    BY <2>3
<1>4. CASE x # 0
  <2>1. PICK y \in Nat : x = y + 1
    <3>1. x - 1 \in Nat /\ x = (x - 1) + 1
      BY <1>4
    <3>2. QED
      BY <3>1
  <2>2. y \notin T
    BY <1>2, <2>1
  <2>3. PICK g : IsGrouping(g, r, classes, rows, y)
    BY <2>2
  <2> DEFINE G(h, i) == Grouped(h, classes[i], OfClass(rows, classes[i]))
             gg == [i \in 0..y |-> IF i = 0 THEN r ELSE G(g[i - 1], i)]
             f == [i \in 0..x |-> IF i = x THEN G(g[y], x) ELSE g[i]]
  <2>4. g = gg
    BY <2>3 DEF IsGrouping
  <2>5. ASSUME NEW i \in 0..x PROVE f[i] = IF i = 0 THEN r ELSE G(f[i - 1], i)
    <3>1. CASE i = x
      <4>1. i - 1 = y /\ i - 1 \in 0..x /\ i - 1 # x /\ i # 0
        BY <2>1, <3>1
      <4> HIDE DEF G
      <4>2. f[i - 1] = g[y] /\ f[i] = G(g[y], x)
        BY <3>1, <4>1
      <4>3. QED
        BY <3>1, <4>1, <4>2
    <3>2. CASE i # x
      <4>1. i \in 0..y /\ (i # 0 => i - 1 \in 0..x /\ i - 1 # x)
        BY <2>1, <3>2
      <4> HIDE DEF G
      <4>2. f[i] = g[i] /\ (i # 0 => f[i - 1] = g[i - 1])
        BY <3>2, <4>1
      <4>3. gg[i] = IF i = 0 THEN r ELSE G(g[i - 1], i)
        BY <4>1
      <4> HIDE DEF f, gg
      <4>4. g[i] = gg[i]
        BY <2>4
      <4>5. QED
        BY <4>2, <4>3, <4>4
    <3>3. QED
      BY <3>1, <3>2
  <2>6. f = [i \in 0..x |-> f[i]]
    OBVIOUS
  <2> HIDE DEF f
  <2>7. f = [i \in 0..x |-> IF i = 0 THEN r ELSE G(f[i - 1], i)]
    <3> HIDE DEF G
    <3>1. QED
      BY <2>5, <2>6
  <2>8. IsGrouping(f, r, classes, rows, x)
    BY <2>7 DEF IsGrouping
  <2>9. QED
    BY <2>8
<1>5. QED
  BY <1>3, <1>4

\* and each of them is one.
LEMMA GroupingListed ==
    ASSUME NEW r \in Seq(Listed), NEW rows \in Seq(CapturedType),
           NEW classes \in Seq(Class \cup {NoClass}), NEW n, n = Len(classes),
           NEW h, IsGrouping(h, r, classes, rows, n)
    PROVE  h[n] \in Seq(Listed)
<1> DEFINE T == {k \in 0..n : h[k] \notin Seq(Listed)}
           g == [i \in 0..n |-> IF i = 0 THEN r ELSE Grouped(h[i - 1], classes[i], OfClass(rows, classes[i]))]
<1>1. n \in Nat /\ DOMAIN classes = 1..n
  OBVIOUS
<1>2. h = g
  BY DEF IsGrouping
<1>3. SUFFICES ASSUME T # {} PROVE FALSE
  BY <1>1
<1>4. PICK x \in T : \A y \in T : x <= y
  <2>1. T \subseteq Nat
    BY <1>1
  <2> HIDE DEF T
  <2>2. QED
    BY <1>3, <2>1, SmallestNat, Zenon
<1>5. x \in 0..n /\ h[x] \notin Seq(Listed)
  OBVIOUS
<1>6. CASE x = 0
  <2>1. g[0] = r
    BY <1>1
  <2> HIDE DEF g
  <2>2. QED
    BY <1>2, <1>5, <1>6, <2>1
<1>7. CASE x # 0
  <2>1. x \in 1..n /\ x - 1 \in 0..n /\ ~(x <= x - 1)
    BY <1>1, <1>5, <1>7
  <2>2. h[x - 1] \in Seq(Listed)
    <3>1. x - 1 \notin T
      BY <1>4, <2>1
    <3>2. QED
      BY <2>1, <3>1
  <2>3. g[x] = Grouped(h[x - 1], classes[x], OfClass(rows, classes[x]))
    BY <1>5, <1>7
  <2>4. PICK c \in Class \cup {NoClass} : c = classes[x]
    BY <1>1, <2>1, ItemIn
  <2>5. PICK p \in Seq(CapturedType) : p = OfClass(rows, classes[x])
    BY OfClassTyped
  <2>6. PICK q \in Seq(Listed) : q = h[x - 1]
    BY <2>2
  <2>7. Grouped(q, c, p) \in Seq(Listed)
    BY GroupedListed
  <2> HIDE DEF g
  <2>8. QED
    BY <1>2, <1>5, <2>3, <2>4, <2>5, <2>6, <2>7
<1>8. QED
  BY <1>6, <1>7

\* What add_emulated_registry leaves is a registry.
LEMMA EmulatedListed ==
    ASSUME NEW r \in Seq(Listed), NEW rows \in Seq(CapturedType)
    PROVE  WithEmulated(r, rows) \in Seq(Listed)
<1> DEFINE k == [i \in DOMAIN rows |-> rows[i].class]
<1>1. k \in Seq(Class \cup {NoClass})
  <2>1. PICK n \in Nat : n = Len(rows) /\ DOMAIN rows = 1..n
    OBVIOUS
  <2>2. \A i \in 1..n : rows[i].class \in Class \cup {NoClass}
    <3>1. \A i \in 1..n : rows[i] \in CapturedType
      BY <2>1, ItemIn
    <3>2. QED
      BY <3>1 DEF CapturedType
  <2>3. k = [i \in 1..n |-> k[i]] /\ \A i \in 1..n : k[i] \in Class \cup {NoClass}
    BY <2>1, <2>2
  <2> HIDE DEF k
  <2>4. QED
    BY <2>3, IsSequence
<1> HIDE DEF k
<1>2. PICK classes \in Seq(Class \cup {NoClass}) : classes = Distinct(k)
  BY <1>1, DistinctTyped
<1>3. PICK n \in Nat : n = Len(classes)
  OBVIOUS
<1> DEFINE h == CHOOSE h : IsGrouping(h, r, classes, rows, n)
<1>4. IsGrouping(h, r, classes, rows, n)
  BY GroupingThere
<1>5. WithEmulated(r, rows) = h[n]
  BY <1>2, <1>3 DEF WithEmulated, IsGrouping, k
<1> HIDE DEF h
<1>6. h[n] \in Seq(Listed)
  BY <1>3, <1>4, GroupingListed
<1>7. QED
  BY <1>5, <1>6

-----------------------------------------------------------------------------
(* The whole path.                                                          *)

\* Before the merge begins nothing is bound.
Untouched ==
    /\ MergeStart /\ boundTo = [i \in DOMAIN registry |-> NoClass]
    /\ pass \in {"scan", "harvest", "emulate", "class"}

PathInv ==
    /\ HarvestInv /\ TypeInv /\ TruthInv /\ AccountInv
    /\ pass \in {"scan", "harvest", "emulate"} => Untouched

\* A registry is a sequence of such entries.
LEMMA ListedAll ==
    ASSUME NEW r, IsRegistry(r)
    PROVE  r \in Seq(Listed)
<1>1. PICK n \in Nat : n = Len(r) /\ DOMAIN r = 1..n /\ r = [i \in 1..n |-> r[i]]
  BY DEF IsRegistry
<1>2. \A i \in 1..n : r[i] \in Listed
  <2>1. \A i \in 1..n : r[i] \in EntryType
    BY <1>1, ItemIn DEF IsRegistry
  <2>2. QED
    BY <1>1, <2>1 DEF IsRegistry, Listed
<1>3. QED
  BY <1>1, <1>2, IsSequence

\* Before the merge begins its invariants hold of any registry.
LEMMA FreshInv == World /\ IsRegistry(registry) /\ Untouched => TypeInv /\ TruthInv /\ AccountInv
<1>1. SUFFICES ASSUME World, IsRegistry(registry), Untouched PROVE TypeInv /\ TruthInv /\ AccountInv
  OBVIOUS
<1>2. Inputs
  BY <1>1, WorldsAssumption DEF World, Inputs
<1>3. MergeTypeOK
  BY <1>1 DEF Untouched, MergeStart, MergeTypeOK, Unbound
<1>4. TruthInv
  BY <1>1 DEF Untouched, MergeStart, TruthInv, True, UsedFor, Unbound
<1>5. AccountInv
  <2>1. \A i \in DOMAIN registry : ~Classed(i)
    BY <1>1 DEF Untouched, MergeStart, IsRegistry, Classed
  <2>2. QED
    BY <1>1, <2>1 DEF Untouched, MergeStart, AccountInv, Waiting, Turned
<1>6. QED
  BY <1>2, <1>3, <1>4, <1>5 DEF TypeInv

LEMMA FreshNext == World' /\ IsRegistry(registry)' /\ Untouched' => TypeInv' /\ TruthInv' /\ AccountInv'
BY FreshInv, PTL

\* The invariant holds at the start.
LEMMA PathInit == Init => PathInv
<1>1. SUFFICES ASSUME Init PROVE PathInv
  OBVIOUS
<1>2. World
  BY <1>1 DEF Init, TablesInit, World
<1>3. sites \in Seq(1..Len(code)) /\ tables \in Seq(TableType)
  BY <1>1 DEF Init, TablesInit
<1>4. IsRegistry(registry)
  <2>1. registry \in Seq(Listed)
    BY <1>1 DEF Init
  <2>2. QED
    BY <2>1, ListedIs
<1>5. Untouched
  BY <1>1 DEF Init, TablesInit, Untouched
<1>6. QED
  BY <1>2, <1>3, <1>4, <1>5, FreshInv DEF PathInv, HarvestInv

\* Every step keeps it.
LEMMA PathStep == PathInv /\ [Next]_vars => PathInv'
<1>1. SUFFICES ASSUME PathInv, [Next]_vars PROVE PathInv'
  OBVIOUS
<1>2. HarvestInv' /\ World'
  BY <1>1, HarvestTypes DEF PathInv, HarvestInv
<1>3. TypeInv /\ TruthInv /\ AccountInv
  BY <1>1 DEF PathInv
<1>4. IsRegistry(registry)
  BY <1>3 DEF TypeInv, Inputs
<1>5. SUFFICES (TypeInv /\ TruthInv /\ AccountInv)' /\ (pass' \in {"scan", "harvest", "emulate"} => Untouched')
  BY <1>2 DEF PathInv
<1>6. CASE IsRegistry(registry)' /\ Untouched'
  BY <1>2, <1>6, FreshNext
<1>7. CASE (Scan \/ HarvestSite) /\ UNCHANGED <<world, jar, truth, registry, pos, merged>>
  <2>1. Untouched
    BY <1>1, <1>7 DEF PathInv, Scan, HarvestSite
  <2>2. registry' = registry /\ pos' = pos /\ fnIndex' = fnIndex /\ used' = used
        /\ ambiguous' = ambiguous /\ boundTo' = boundTo /\ gaps' = gaps /\ pass' \in {"harvest"}
    BY <1>7 DEF merged, Scan, HarvestSite
  <2>3. IsRegistry(registry)' /\ Untouched'
    BY <1>4, <2>1, <2>2 DEF Untouched, MergeStart, Unbound
  <2>4. QED
    BY <1>6, <2>3
<1>8. CASE Introspect
  <2>1. Untouched
    BY <1>1, <1>8 DEF PathInv, Introspect
  <2>2. IsRegistry(Report)
    BY <1>1, ReportListed, ListedIs DEF PathInv
  <2>3. IsRegistry(registry)'
    BY <1>8, <2>2 DEF Introspect
  <2>4. Untouched'
    BY <1>8, <2>1 DEF Introspect, Untouched, MergeStart, Unbound
  <2>5. QED
    BY <1>6, <2>3, <2>4
<1>9. CASE AddEmulated
  <2>1. Untouched
    BY <1>1, <1>9 DEF PathInv, AddEmulated
  <2>2. registry \in Seq(Listed)
    BY <1>4, ListedAll
  <2>3. Captured(world.emulated) \in Seq(CapturedType)
    BY <1>1, CapturedTyped DEF PathInv, HarvestInv
  <2>4. IsRegistry(WithEmulated(registry, Captured(world.emulated)))
    BY <2>2, <2>3, EmulatedListed, ListedIs
  <2>5. IsRegistry(registry)'
    BY <1>9, <2>4 DEF AddEmulated
  <2>6. Untouched'
    BY <1>9, <2>1 DEF AddEmulated, Untouched, MergeStart, Unbound
  <2>7. QED
    BY <1>6, <2>5, <2>6
<1>10. CASE MergeNext
  <2>1. (TypeInv /\ TruthInv /\ AccountInv)'
    BY <1>3, <1>10, TypeStep, TruthStep, AccountStep
  <2>2. pass' \notin {"scan", "harvest", "emulate"}
    BY <1>10 DEF MergeNext, ByClassName, At, Exports, Named, ByCount, Unreadable, NextPass, Step
  <2>3. QED
    BY <2>1, <2>2
<1>11. CASE UNCHANGED mergeVars
  <2>1. (TypeInv /\ TruthInv /\ AccountInv)'
    BY <1>3, <1>11, TypeStep, TruthStep, AccountStep
  <2>2. Untouched => Untouched'
    BY <1>11 DEF mergeVars, Untouched, MergeStart, Unbound
  <2>3. pass' = pass
    BY <1>11 DEF mergeVars
  <2>4. QED
    BY <1>1, <2>1, <2>2, <2>3 DEF PathInv
<1>12. QED
  BY <1>1, <1>7, <1>8, <1>9, <1>10, <1>11 DEF Next, vars

\* For every set of worlds: whatever the harvest, the report and the emulator
\* leave is a registry, and the merge keeps its types on it.
THEOREM PathIsTyped == Spec => []TypeOK
<1>1. PathInv => TypeOK
  <2>1. ASSUME PathInv PROVE \A i \in DOMAIN sites : sites[i] \in DOMAIN code
    <3>1. World /\ sites \in Seq(1..Len(code))
      BY <2>1 DEF PathInv, HarvestInv
    <3>2. DOMAIN code = 1..Len(code)
      BY <3>1, CodeTyped
    <3>3. QED
      BY <3>1, <3>2, ItemIn
  <2>2. QED
    BY <2>1 DEF PathInv, TypeInv, Inputs, TypeOK
<1>2. QED
  BY <1>1, PathInit, PathStep, PTL DEF Spec

\* For every set of worlds: on a registry that is exact, however the harvest and
\* the emulator came by it, no method gets an address that is not its own.
THEOREM PathIsTrue == Spec => []BoundIsTrue
<1>1. PathInv => BoundIsTrue
  BY DEF PathInv, TruthInv, BoundIsTrue, True
<1>2. QED
  BY <1>1, PathInit, PathStep, PTL DEF Spec

\* For every set of worlds: every table that was found or told of is accounted
\* for when the merge is over, but for those whose names fit several classes.
THEOREM PathIsAccounted == Spec => []Accounted
<1>1. PathInv => Accounted
  BY DEF PathInv, AccountInv, Accounted, Turned, Told
<1>2. QED
  BY <1>1, PathInit, PathStep, PTL DEF Spec

-----------------------------------------------------------------------------
(* From the library to the end of the merge.                                *)

\* The libraries the harvest is made for, with a strategy that is made for them.
Covered ==
    \/ AllPlain /\ strategy = "per_class"
    \/ Dispatched /\ Dispatching

\* The methods that share the symbol of an export share its function.
Honest ==
    \A e \in world.exports, m \in Method :
        e.method.name = m.name /\ (e.short \/ e.method.desc = m.desc)
            => truth[e.class][m] = truth[e.class][e.method]

\* What the property says of such a library when the emulator saw nothing.
PathEnds ==
    Covered /\ Honest /\ world.emulated.tables = <<>> =>
        /\ \A c \in Class, m \in Method : fnIndex[c][m] \in {NoAddr, truth[c][m]}
        /\ pass = "done" => \A k \in DOMAIN layout : \E i \in DOMAIN registry :
              registry[i] = Table(k) /\ Told(i)

Holding(s, v) == \E i \in DOMAIN s : s[i] = v

\* An item that is picked is among those picked.
LEMMA PickedThere ==
    ASSUME NEW T, NEW s \in Seq(T), NEW p, p = [k \in DOMAIN s |-> p[k]],
           \A k \in DOMAIN s : p[k] \in {<<>>, <<s[k]>>},
           NEW k \in DOMAIN s, p[k] = <<s[k]>>
    PROVE  Holding(Flat(p), s[k])
<1>1. PICK n \in Nat : n = Len(s) /\ DOMAIN s = 1..n
  OBVIOUS
<1>2. ASSUME NEW i \in 1..n PROVE p[i] \in Seq(T)
  <2>1. PICK t \in T : t = s[i]
    BY <1>1, ItemIn
  <2>2. <<t>> \in Seq(T) /\ <<>> \in Seq(T)
    OBVIOUS
  <2>3. QED
    BY <1>1, <2>1, <2>2
<1>3. p \in Seq(Seq(T)) /\ Len(p) = n
  BY <1>1, <1>2, IsSequence
<1>4. Flat(p) \in Seq(T)
  BY <1>3, FlattenTyped DEF Flat
<1>5. PICK off : Laid(off, p, n, Flat(p))
  BY <1>3, FlattenLaid
<1>6. k \in 1..n /\ 1 \in 1..Len(p[k]) /\ p[k][1] = s[k]
  BY <1>1
<1>7. off[k] + 1 \in 1..Len(Flat(p)) /\ Flat(p)[off[k] + 1] = s[k]
  BY <1>5, <1>6 DEF Laid
<1>8. PICK f \in Seq(T) : f = Flat(p)
  BY <1>4
<1>9. 1..Len(f) = DOMAIN f
  OBVIOUS
<1>10. QED
  BY <1>7, <1>8, <1>9 DEF Holding

\* The tables that can be read, and the others.
LEMMA ReadThere ==
    ASSUME NEW T, NEW s \in Seq(T), NEW k \in DOMAIN s
    PROVE  \/ Holding(Those(s, Read), s[k])
           \/ Holding(Those(s, LAMBDA t : ~Read(t)), s[k])
<1> DEFINE p == [i \in DOMAIN s |-> IF Read(s[i]) THEN <<s[i]>> ELSE <<>>]
           q == [i \in DOMAIN s |-> IF ~Read(s[i]) THEN <<s[i]>> ELSE <<>>]
<1>1. Those(s, Read) = Flat(p) /\ Those(s, LAMBDA t : ~Read(t)) = Flat(q)
  BY DEF Those
<1>2. p = [i \in DOMAIN s |-> p[i]] /\ \A i \in DOMAIN s : p[i] \in {<<>>, <<s[i]>>}
  OBVIOUS
<1>3. q = [i \in DOMAIN s |-> q[i]] /\ \A i \in DOMAIN s : q[i] \in {<<>>, <<s[i]>>}
  OBVIOUS
<1>4. p[k] = <<s[k]>> \/ q[k] = <<s[k]>>
  OBVIOUS
<1> HIDE DEF p, q
<1>5. CASE p[k] = <<s[k]>>
  <2>1. Holding(Flat(p), s[k])
    BY <1>2, <1>5, PickedThere
  <2>2. QED
    BY <1>1, <2>1
<1>6. CASE q[k] = <<s[k]>>
  <2>1. Holding(Flat(q), s[k])
    BY <1>3, <1>6, PickedThere
  <2>2. QED
    BY <1>1, <2>1
<1>7. QED
  BY <1>4, <1>5, <1>6

\* What the report of such a library may hold.
Truths == {ExportEntry(e) : e \in world.exports} \cup {Table(k) : k \in DOMAIN layout}

\* The exports are in it.
LEMMA ExportsTrue ==
    ASSUME World
    PROVE  Entries(world.exports, ExportEntry) \in Seq(Truths)
<1> DEFINE S == world.exports
           s == SetToSeq(S)
           x == [i \in DOMAIN s |-> ExportEntry(s[i])]
<1>1. IsFiniteSet(S)
  BY WorldsAssumption DEF World
<1>2. ASSUME NEW e \in S PROVE ExportEntry(e) \in Truths
  BY DEF Truths
<1>3. PICK n \in Nat : s \in [1..n -> S]
  BY <1>1, SetListed
<1>4. DOMAIN s = 1..n /\ \A i \in 1..n : s[i] \in S
  BY <1>3
<1>5. x = [i \in 1..n |-> x[i]] /\ \A i \in 1..n : x[i] \in Truths
  BY <1>2, <1>4
<1>6. Entries(S, ExportEntry) = x
  BY DEF Entries
<1> HIDE DEF x
<1>7. QED
  BY <1>5, <1>6, IsSequence

\* An item of either part is an item of the whole.
LEMMA JoinedHolds ==
    ASSUME NEW T, NEW a \in Seq(T), NEW b \in Seq(T), NEW v
    PROVE  Holding(a, v) \/ Holding(b, v) => Holding(a \o b, v)
<1>1. PICK n \in Nat, m \in Nat : n = Len(a) /\ m = Len(b) /\ DOMAIN a = 1..n /\ DOMAIN b = 1..m
                                  /\ DOMAIN (a \o b) = 1..n + m
  OBVIOUS
<1>2. ASSUME NEW j \in DOMAIN a, a[j] = v PROVE \E i \in DOMAIN (a \o b) : (a \o b)[i] = v
  <2>1. j \in 1..n + m /\ (a \o b)[j] = a[j]
    BY <1>1, JoinedAt
  <2>2. QED
    BY <1>1, <1>2, <2>1
<1>3. ASSUME NEW j \in DOMAIN b, b[j] = v PROVE \E i \in DOMAIN (a \o b) : (a \o b)[i] = v
  <2>1. n + j \in 1..n + m /\ (a \o b)[n + j] = b[j]
    BY <1>1, JoinedAt
  <2>2. QED
    BY <1>1, <1>3, <2>1
<1>4. QED
  BY <1>2, <1>3 DEF Holding

\* The registry holds the exports, the table of every registration, and no more.
Telling(r) ==
    /\ r \in Seq(Truths)
    /\ \A k \in DOMAIN layout : Holding(r, Table(k))

\* The report of a harvest that found every table is such a registry.
LEMMA ReportTells ==
    ASSUME World, tables = [k \in DOMAIN layout |-> Table(k)]
    PROVE  Telling(Report)
<1> DEFINE u == Those(tables, LAMBDA t : ~Read(t))
<1>1. PICK x \in Seq(Truths) : x = Entries(world.exports, ExportEntry)
  BY ExportsTrue
<1>2. PICK n \in Nat : n = Len(layout) /\ DOMAIN layout = 1..n
  BY WorldFits DEF Fits
<1>3. tables \in Seq(Truths)
  <2>1. tables = [k \in 1..n |-> tables[k]] /\ \A k \in 1..n : tables[k] \in Truths
    BY <1>2 DEF Truths
  <2>2. QED
    BY <2>1, IsSequence
<1>4. PICK y \in Seq(Truths), z \in Seq(Truths) : y = Those(tables, Read) /\ z = u
  BY <1>3, ReadTyped
<1>5. Report = x \o y \o z
  BY <1>1, <1>4 DEF Report
<1>6. PICK w \in Seq(Truths) : w = x \o y
  BY Joined
<1>7. ASSUME NEW k \in DOMAIN layout PROVE Holding(Report, Table(k))
  <2>1. k \in DOMAIN tables /\ tables[k] = Table(k)
    BY <1>2
  <2>2. Holding(y, Table(k)) \/ Holding(z, Table(k))
    BY <1>3, <1>4, <2>1, ReadThere
  <2>3. Holding(w, Table(k)) \/ Holding(z, Table(k))
    BY <1>6, <2>2, JoinedHolds
  <2>4. QED
    BY <1>5, <1>6, <2>3, JoinedHolds
<1>8. Report \in Seq(Truths)
  BY <1>5, <1>6, Joined
<1>9. QED
  BY <1>7, <1>8 DEF Telling

\* Two registrations with the same rows have tables alike.
LEMMA RowsTell ==
    ASSUME World, Covered, NEW k \in DOMAIN layout, NEW l \in DOMAIN layout,
           Rows(layout[k].class) = Rows(layout[l].class)
    PROVE  Table(k).methods = <<>> <=> Table(l).methods = <<>>
<1>1. CASE AllPlain
  <2>1. k = l
    <3>1. SUFFICES ASSUME k # l PROVE FALSE
      OBVIOUS
    <3>2. ~Shares(layout[k].class, layout[l].class) /\ layout[k].class # layout[l].class
      BY <1>1, <3>1 DEF AllPlain, OwnFunctions
    <3>3. Fits
      BY WorldFits
    <3>4. 1 \in 1..N(k) /\ 1 \in 1..N(l)
      <4>1. N(k) \in Nat \ {0}
        BY <3>3, RowsFit
      <4>2. N(l) \in Nat \ {0}
        BY <3>3, RowsFit
      <4>3. QED
        BY <4>1, <4>2
    <3>5. QED
      BY <3>2, <3>3, <3>4, RowsApart
  <2>2. QED
    BY <2>1
<1>2. CASE Dispatched
  <2>1. layout[k].form = "stack" /\ layout[l].form = "stack"
    BY <1>2 DEF Dispatched
  <2>2. /\ Table(k) = Found("stack", <<>>, Rows(layout[k].class), N(k))
        /\ Table(l) = Found("stack", <<>>, Rows(layout[l].class), N(l))
    BY <2>1 DEF Table, N, Readable
  <2>3. QED
    BY <2>2 DEF Found
<1>3. QED
  BY <1>1, <1>2 DEF Covered

\* What is in the registry of such a library is what the Java VM would do.
LEMMA TellingIsExact ==
    ASSUME World, Covered, Honest, Telling(registry)
    PROVE  Exact
<1>1. ASSUME NEW i \in DOMAIN registry
      PROVE  \/ \E e \in world.exports : registry[i] = ExportEntry(e)
             \/ \E k \in DOMAIN layout : registry[i] = Table(k)
  <2>1. registry[i] \in Truths
    BY ItemIn DEF Telling
  <2>2. QED
    BY <2>1 DEF Truths
<1>2. \A e : ExportEntry(e).source = "export" /\ ~IsSite(ExportEntry(e))
  BY DEF ExportEntry, IsSite
<1>3. ASSUME NEW k \in DOMAIN layout
      PROVE  /\ Table(k).source # "export"
             /\ IsSite(Table(k)) => Describes(Table(k), layout[k].class)
                                    /\ Table(k).addrs = Rows(layout[k].class)
  <2>1. jar[layout[k].class] # <<>>
    BY WorldFits DEF Fits
  <2>2. QED
    BY <2>1 DEF Table, Found, IsSite, Describes
<1>4. ASSUME NEW i \in DOMAIN registry, IsSite(registry[i])
      PROVE  \E k \in DOMAIN layout : registry[i] = Table(k) /\ Describes(registry[i], layout[k].class)
                                      /\ registry[i].addrs = Rows(layout[k].class)
  <2>1. PICK k \in DOMAIN layout : registry[i] = Table(k)
    BY <1>1, <1>2, <1>4
  <2>2. QED
    BY <1>3, <1>4, <2>1
<1>5. ASSUME NEW i \in DOMAIN registry, IsSite(registry[i]) PROVE \E c \in Class : Describes(registry[i], c)
  <2>1. \A k \in DOMAIN layout : layout[k].class \in Class
    BY WorldFits, RowsFit
  <2>2. QED
    BY <1>4, <1>5, <2>1
<1>6. ASSUME NEW c \in Class, NEW m \in Method, NEW short \in BOOLEAN, NEW i \in Symbols(c, m, short)
      PROVE  registry[i].addrs[1] = truth[c][m]
  <2>1. /\ i \in DOMAIN registry /\ registry[i].source = "export" /\ registry[i].class = c
        /\ registry[i].short = short /\ registry[i].methods[1].name = m.name
        /\ short \/ registry[i].methods[1].desc = m.desc
    BY DEF Symbols
  <2>2. PICK e \in world.exports : registry[i] = ExportEntry(e)
    BY <1>1, <1>3, <2>1
  <2>3. /\ registry[i].class = e.class /\ registry[i].short = e.short
        /\ registry[i].methods[1] = e.method /\ registry[i].addrs[1] = truth[e.class][e.method]
    BY <2>2 DEF ExportEntry
  <2>4. truth[e.class][m] = truth[e.class][e.method]
    BY <2>1, <2>3 DEF Honest
  <2>5. QED
    BY <2>1, <2>3, <2>4
<1>7. ASSUME NEW i \in DOMAIN registry, NEW j \in DOMAIN registry, NEW c \in Class,
             IsSite(registry[i]), IsSite(registry[j]), Describes(registry[i], c), Describes(registry[j], c)
      PROVE  registry[i].methods = <<>> <=> registry[j].methods = <<>>
  <2>1. PICK k \in DOMAIN layout : registry[i] = Table(k) /\ registry[i].addrs = Rows(layout[k].class)
    BY <1>4, <1>7
  <2>2. PICK l \in DOMAIN layout : registry[j] = Table(l) /\ registry[j].addrs = Rows(layout[l].class)
    BY <1>4, <1>7
  <2>3. Rows(layout[k].class) = Rows(layout[l].class)
    BY <1>7, <2>1, <2>2 DEF Describes
  <2>4. Table(k).methods = <<>> <=> Table(l).methods = <<>>
    BY <2>3, RowsTell
  <2>5. QED
    BY <2>1, <2>2, <2>4
<1>8. QED
  BY <1>5, <1>6, <1>7 DEF Exact

-----------------------------------------------------------------------------

\* WithEmulated is the last of such a sequence.
LEMMA EmulatedWalks ==
    ASSUME NEW r, NEW rows, NEW classes, classes = Distinct([i \in DOMAIN rows |-> rows[i].class]),
           NEW n \in Nat, n = Len(classes)
    PROVE  \E h : IsGrouping(h, r, classes, rows, n) /\ WithEmulated(r, rows) = h[n]
<1> DEFINE h == CHOOSE h : IsGrouping(h, r, classes, rows, n)
<1>1. IsGrouping(h, r, classes, rows, n)
  BY GroupingThere
<1>2. WithEmulated(r, rows) = h[n]
  BY DEF WithEmulated, IsGrouping
<1> HIDE DEF h
<1>3. QED
  BY <1>1, <1>2

\* An emulator that saw nothing adds nothing.
LEMMA NoneCaptured ==
    ASSUME NEW r, world.emulated.tables = <<>>
    PROVE  WithEmulated(r, Captured(world.emulated)) = r
<1>1. Flat(<<>>) = <<>>
  <2>1. <<>> \in Seq(Seq(Nat)) /\ Len(<<>>) = 0
    OBVIOUS
  <2>2. PICK off : Laid(off, <<>>, 0, Flat(<<>>))
    BY <2>1, FlattenLaid
  <2>3. Flat(<<>>) \in Seq(Nat)
    BY <2>1, FlattenTyped DEF Flat
  <2>4. Len(Flat(<<>>)) = 0
    BY <2>2 DEF Laid
  <2>5. QED
    BY <2>3, <2>4, EmptySeq
<1>2. Captured(world.emulated) = <<>>
  <2> DEFINE x(k) == LET c == layout[world.emulated.tables[k]].class
                     IN  [i \in DOMAIN jar[c] |->
                            [class |-> IF world.emulated.named THEN c ELSE NoClass,
                             method |-> IF world.emulated.legible THEN jar[c][i] ELSE NoMethod,
                             fn |-> truth[c][jar[c][i]] + (IF world.emulated.rebased THEN Rebase ELSE 0)]]
             f == [k \in DOMAIN world.emulated.tables |-> x(k)]
  <2>1. Captured(world.emulated) = Flat(f)
    BY DEF Captured
  <2>2. f = <<>>
    <3> HIDE DEF x
    <3>1. DOMAIN world.emulated.tables = {}
      OBVIOUS
    <3>2. QED
      BY <3>1
  <2> HIDE DEF f
  <2>3. QED
    BY <1>1, <2>1, <2>2
<1>3. PICK rows : rows = <<>>
  OBVIOUS
<1> DEFINE k == [i \in DOMAIN rows |-> rows[i].class]
<1>4. PICK classes : classes = Distinct(k)
  OBVIOUS
<1>5. k = <<>>
  BY <1>3
<1>6. PICK n \in Nat : n = 0 /\ n = Len(classes)
  <2> HIDE DEF k
  <2>1. classes = <<>>
    BY <1>4, <1>5, DistinctOfNone
  <2>2. QED
    BY <2>1
<1>7. PICK h : IsGrouping(h, r, classes, rows, n) /\ WithEmulated(r, rows) = h[n]
  BY <1>4, <1>6, EmulatedWalks
<1>8. h[n] = r
  <2> DEFINE g == [i \in 0..n |-> IF i = 0 THEN r ELSE Grouped(h[i - 1], classes[i], OfClass(rows, classes[i]))]
  <2>1. h = g
    BY <1>7 DEF IsGrouping
  <2>2. g[n] = r
    BY <1>6
  <2> HIDE DEF g
  <2>3. QED
    BY <2>1, <2>2
<1>9. QED
  BY <1>2, <1>3, <1>7, <1>8

\* What the run of such a library keeps, from the report on.
EndInv ==
    /\ pass = "emulate" /\ Covered => Telling(registry)
    /\ pass \notin {"scan", "harvest", "emulate"} /\ Covered /\ world.emulated.tables = <<>> => Telling(registry)

\* What is said of the world stays.
LEMMA CoveredStays ==
    ASSUME SameWorld
    PROVE  /\ Covered' <=> Covered
           /\ Telling(registry') => Telling(registry)'
<1>1. layout' = layout /\ strategy' = strategy /\ world' = world /\ truth' = truth
  BY DEF SameWorld
<1>2. Covered' <=> Covered
  BY <1>1, HypothesesStay DEF Covered, Dispatching
<1>3. \A k \in DOMAIN layout : Table(k)' = Table(k)
  BY TablesStay
<1>4. \A e : ExportEntry(e)' = ExportEntry(e)
  BY <1>1 DEF ExportEntry
<1>5. Truths' = Truths
  BY <1>1, <1>3, <1>4 DEF Truths
<1>6. QED
  BY <1>1, <1>2, <1>3, <1>5 DEF Telling, Holding

LEMMA EndInit == Init => EndInv
BY DEF Init, TablesInit, EndInv

\* Every step keeps it.
LEMMA EndStep == StaticInv /\ EndInv /\ [Next]_vars => EndInv'
<1>1. SUFFICES ASSUME StaticInv, EndInv, [Next]_vars PROVE EndInv'
  OBVIOUS
<1>2. SameWorld
  BY <1>1, Steps
<1>3. Covered' <=> Covered
  BY <1>2, CoveredStays
<1>4. world' = world /\ World
  BY <1>1, <1>2 DEF SameWorld, StaticInv
<1>5. Telling(registry') => Telling(registry)'
  BY <1>2, CoveredStays
<1>6. CASE Introspect
  <2>1. pass = "harvest" /\ sites = <<>> /\ registry' = Report /\ pass' = "emulate"
    BY <1>6 DEF Introspect
  <2>2. ASSUME Covered PROVE Telling(Report)
    <3>1. tables = [k \in DOMAIN layout |-> Table(k)]
      BY <1>1, <2>1, <2>2, StaticExact DEF Covered, PlainIsExact, DispatchIsExact, Dispatching
    <3>2. QED
      BY <1>4, <3>1, ReportTells
  <2>3. QED
    BY <1>3, <1>5, <2>1, <2>2 DEF EndInv
<1>7. CASE AddEmulated
  <2>1. pass = "emulate" /\ pass' = "class" /\ registry' = WithEmulated(registry, Captured(world.emulated))
    BY <1>7 DEF AddEmulated
  <2>2. ASSUME Covered, world.emulated.tables = <<>> PROVE Telling(registry')
    BY <1>1, <2>1, <2>2, NoneCaptured DEF EndInv
  <2>3. QED
    BY <1>3, <1>4, <1>5, <2>1, <2>2 DEF EndInv
<1>8. CASE registry' = registry /\ (pass' \in {"emulate"} <=> pass = "emulate")
           /\ (pass' \in {"scan", "harvest", "emulate"} <=> pass \in {"scan", "harvest", "emulate"})
  BY <1>1, <1>3, <1>4, <1>5, <1>8 DEF EndInv
<1>9. CASE (Scan \/ HarvestSite) /\ UNCHANGED <<world, jar, truth, registry, pos, merged>>
  BY <1>8, <1>9 DEF Scan, HarvestSite
<1>10. CASE MergeNext
  BY <1>8, <1>10 DEF MergeNext, ByClassName, At, Exports, Named, ByCount, Unreadable, NextPass, Step
<1>11. CASE UNCHANGED vars
  BY <1>8, <1>11 DEF vars, mergeVars
<1>12. QED
  BY <1>1, <1>6, <1>7, <1>9, <1>10, <1>11 DEF Next

\* It implies what is said of the end.
LEMMA EndIsTrue == PathInv /\ EndInv => PathEnds
<1>1. SUFFICES ASSUME PathInv, EndInv, Covered, Honest, world.emulated.tables = <<>>
               PROVE  /\ \A c \in Class, m \in Method : fnIndex[c][m] \in {NoAddr, truth[c][m]}
                      /\ pass = "done" => \A k \in DOMAIN layout : \E i \in DOMAIN registry :
                            registry[i] = Table(k) /\ Told(i)
  BY DEF PathEnds
<1>2. CASE pass \in {"scan", "harvest", "emulate"}
  BY <1>1, <1>2 DEF PathInv, Untouched, MergeStart, Unbound
<1>3. CASE pass \notin {"scan", "harvest", "emulate"}
  <2>1. Telling(registry) /\ World
    BY <1>1, <1>3 DEF EndInv, PathInv, HarvestInv
  <2>2. Exact
    BY <1>1, <2>1, TellingIsExact
  <2>3. True(fnIndex) /\ AccountInv
    BY <1>1, <2>2 DEF PathInv, TruthInv
  <2>4. ASSUME pass = "done", NEW k \in DOMAIN layout
        PROVE  \E i \in DOMAIN registry : registry[i] = Table(k) /\ Told(i)
    <3>1. PICK i \in DOMAIN registry : registry[i] = Table(k)
      BY <2>1 DEF Telling, Holding
    <3>2. Table(k).source \in {"static", "stack", "unreadable"}
      BY DEF Table, Found
    <3>3. CASE IsSite(registry[i])
      BY <2>2, <2>3, <2>4, <3>1, <3>3 DEF AccountInv, Turned
    <3>4. CASE registry[i].source = "unreadable"
      BY <2>3, <2>4, <3>1, <3>4 DEF AccountInv, Told
    <3>5. QED
      BY <3>1, <3>2, <3>3, <3>4 DEF IsSite
  <2>5. QED
    BY <2>3, <2>4 DEF True
<1>4. QED
  BY <1>2, <1>3

\* For every set of worlds: in a library the harvest is made for, of which the
\* emulator saw nothing, no method of the jar ever gets an address that is not
\* its own, and when the merge is over the table of every registration is in the
\* report, and its class has its addresses or a gap tells of it, unless several
\* classes declare the methods it names.
THEOREM PathEndsTrue == Spec => []PathEnds
<1>1. StaticInv /\ PathInv /\ EndInv /\ [Next]_vars => StaticInv' /\ PathInv' /\ EndInv'
  BY StaticStep, PathStep, EndStep
<1>2. Init => StaticInv /\ PathInv /\ EndInv
  BY StaticInit, PathInit, EndInit
<1>3. QED
  BY <1>1, <1>2, EndIsTrue, PTL DEF Spec
=============================================================================
