---------------------------- MODULE Lifter_proofs ----------------------------
(***************************************************************************)
(* Theorems about the lifter, for every set of functions of the            *)
(* decompiler, ifs enclosed in ifs to any depth, any arguments that leave  *)
(* the local variables from FirstSlot on free, and any of them wide.       *)
(*                                                                         *)
(* A variable is steady when it is assigned once and from steady ones.     *)
(* What the lifter believes of such a variable stays true: it believes     *)
(* nothing of a variable before the assignment, and a local variable, once *)
(* handed out, is never written again (SlotsInv).  At the start            *)
(* that is a fact about _jni_param_slot_map, whose recursion is closed by  *)
(* a sum over the wide arguments (SlotAt).  A class or an ID stands for    *)
(* what the lifter takes it for (SymsInv).                                 *)
(*                                                                         *)
(* Each error text belongs to a statement still to come, in their order,   *)
(* and ahead of the index lies no other of its kind, as long as the texts  *)
(* of that kind fit (Tracks); so the next one is that of the access that   *)
(* asks (OwnText), also after an if gave way to a part of what it encloses:*)
(* the text that is left is cut out of the text before (Cut, IfCuts).      *)
(*                                                                         *)
(* A label is placed at most once because the labels still to come stay    *)
(* apart from each other and from those in the code (OnceTodo).  That      *)
(* _drop_dangling_jumps adds none and leaves each jump its label is read   *)
(* off the places FlattenSeq gives to the parts it joins (Placed).         *)
(***************************************************************************)
EXTENDS Lifter, FiniteSetTheorems, WellFoundedInduction, TLAPS

-----------------------------------------------------------------------------
(* Statements.                                                             *)

LEMMA StatementTyped ==
    ASSUME NEW s \in Statement
    PROVE  /\ s.op \in Ops /\ s.lhs \in Var \cup {NoVar} /\ s.recv \in Var \cup {NoVar}
           /\ s.id \in Var \cup {NoVar} /\ s.args \in Seq(Var \cup {NoVar})
           /\ s.then \in Nat /\ s.else \in Nat
           /\ s.op \in {"Copy", "NewRef"} => s.recv \in Var
           /\ s.op \in Accesses \cup {"FindClass", "GetID"} => s.member \in Member
BY DEF Statement

TodoInv == todo \in Seq(Statement) /\ Nested(todo)

\* What a step of the text is about.
LEMMA HeadTyped ==
    ASSUME TodoInv, todo # <<>>
    PROVE  /\ S \in Statement /\ S = todo[1]
           /\ S.op \in Ops /\ S.lhs \in Var \cup {NoVar} /\ S.recv \in Var \cup {NoVar}
           /\ S.id \in Var \cup {NoVar} /\ S.args \in Seq(Var \cup {NoVar})
           /\ S.op \in {"Copy", "NewRef"} => S.recv \in Var
           /\ S.op \in Accesses \cup {"FindClass", "GetID"} => S.member \in Member
<1>1. S \in Statement /\ S = todo[1]
  BY DEF TodoInv, S
<1>2. QED
  BY <1>1, StatementTyped

LEMMA Joined ==
    ASSUME NEW T, NEW a \in Seq(T), NEW b \in Seq(T)
    PROVE  a \o b \in Seq(T)
OBVIOUS

LEMMA JoinedAt ==
    ASSUME NEW T, NEW a \in Seq(T), NEW b \in Seq(T)
    PROVE  /\ Len(a) \in Nat /\ Len(b) \in Nat /\ Len(a \o b) = Len(a) + Len(b)
           /\ \A i \in 1..Len(a) : (a \o b)[i] = a[i]
           /\ \A j \in 1..Len(b) : (a \o b)[Len(a) + j] = b[j]
OBVIOUS

\* A part of the text
IsSlice(r, s, from, n) ==
    /\ n \in Nat /\ r \in Seq(Statement) /\ Len(r) = n
    /\ \A i \in 1..n : r[i] = s[i + from]

LEMMA Slices ==
    ASSUME NEW s \in Seq(Statement), NEW a \in Nat, NEW n \in Nat, a + n <= Len(s),
           NEW i \in Int, NEW j \in Int, i = a + 1, j = a + n
    PROVE  IsSlice(SubSeq(s, i, j), s, a, n)
<1>1. SubSeq(s, i, j) \in Seq(Statement) /\ Len(SubSeq(s, i, j)) = n
  OBVIOUS
<1>2. \A k \in 1..n : SubSeq(s, i, j)[k] = s[k + a]
  OBVIOUS
<1>3. QED
  BY <1>1, <1>2 DEF IsSlice

LEMMA SliceHas ==
    ASSUME NEW r, NEW s, NEW a, NEW n, a \in Nat, IsSlice(r, s, a, n)
    PROVE  \A q \in Int : a < q /\ q <= a + n => \E j \in DOMAIN r : r[j] = s[q]
<1>1. SUFFICES ASSUME NEW q \in Int, a < q, q <= a + n PROVE \E j \in DOMAIN r : r[j] = s[q]
  OBVIOUS
<1>2. q - a \in DOMAIN r /\ r[q - a] = s[(q - a) + a] /\ (q - a) + a = q
  BY <1>1 DEF IsSlice
<1>3. QED
  BY <1>2

LEMMA SlicesJoined ==
    ASSUME NEW s \in Seq(Statement), NEW a \in Nat, NEW n \in Nat, NEW m \in Nat, NEW r, NEW q,
           IsSlice(r, s, a, n), IsSlice(q, s, a + n, m)
    PROVE  IsSlice(r \o q, s, a, n + m)
<1>1. r \in Seq(Statement) /\ q \in Seq(Statement) /\ Len(r) = n /\ Len(q) = m
  BY DEF IsSlice
<1>2. /\ r \o q \in Seq(Statement) /\ Len(r \o q) = n + m
      /\ \A i \in 1..n : (r \o q)[i] = r[i]
      /\ \A j \in 1..m : (r \o q)[n + j] = q[j]
  <2>1. r \o q \in Seq(Statement)
    BY <1>1, Joined
  <2>0. r \in Seq(Statement) /\ q \in Seq(Statement)
    BY <1>1
  <2>2. /\ Len(r \o q) = Len(r) + Len(q)
        /\ \A i \in 1..Len(r) : (r \o q)[i] = r[i]
        /\ \A j \in 1..Len(q) : (r \o q)[Len(r) + j] = q[j]
    BY <2>0, JoinedAt
  <2>3. QED
    BY <1>1, <2>1, <2>2
<1>3. ASSUME NEW i \in 1..n + m PROVE (r \o q)[i] = s[i + a]
  <2>1. CASE i \in 1..n
    BY <1>2, <2>1 DEF IsSlice
  <2>2. CASE i \notin 1..n
    <3>1. PICK j \in 1..m : i = n + j
      <4>1. i - n \in 1..m /\ i = n + (i - n)
        BY <2>2
      <4>2. QED
        BY <4>1
    <3>2. (r \o q)[i] = q[j] /\ q[j] = s[j + (a + n)] /\ j + (a + n) = i + a
      BY <1>2, <3>1 DEF IsSlice
    <3>3. QED
      BY <3>2
  <2>3. QED
    BY <2>1, <2>2
<1>4. QED
  BY <1>2, <1>3 DEF IsSlice

\* td2 is what is left of the text td when a statement is done: n statements from
\* beyond the first x on, with all they enclose, and then all beyond n + y.
Cut(td, td2, n, x, y) ==
    /\ n \in Nat /\ x \in Nat \ {0} /\ y \in Nat /\ x <= y
    /\ td2 \in Seq(Statement) /\ Len(td) = Len(td2) + y /\ n <= Len(td2)
    /\ \A i \in 1..n : td2[i] = td[i + x]
    /\ \A i \in n + 1..Len(td2) : td2[i] = td[i + y]
    /\ \A k \in x + 1..x + n : End(td, k) <= x + n

LEMMA BothMoved ==
    ASSUME NEW i \in Nat, NEW d \in Nat, NEW a \in Nat, NEW b \in Nat, NEW m \in Nat,
           i + d + a + b <= m + d
    PROVE  i + a + b <= m
OBVIOUS

LEMMA CutNested ==
    ASSUME NEW td \in Seq(Statement), Nested(td), NEW td2, NEW n, NEW x, NEW y, Cut(td, td2, n, x, y)
    PROVE  Nested(td2)
<1>1. /\ n \in Nat /\ x \in Nat \ {0} /\ y \in Nat /\ x <= y
      /\ td2 \in Seq(Statement) /\ Len(td) = Len(td2) + y /\ n <= Len(td2) /\ Len(td2) \in Nat
      /\ DOMAIN td2 = 1..Len(td2) /\ DOMAIN td = 1..Len(td)
  BY DEF Cut
<1>2. \A i \in DOMAIN td : td[i].then \in Nat /\ td[i].else \in Nat
  BY StatementTyped
<1>3. SUFFICES ASSUME NEW i \in 1..Len(td2)
               PROVE  /\ End(td2, i) <= Len(td2)
                      /\ \A k \in i + 1..i + td2[i].then : End(td2, k) <= i + td2[i].then
                      /\ \A k \in i + td2[i].then + 1..End(td2, i) : End(td2, k) <= End(td2, i)
  BY <1>1 DEF Nested
\* d is the way the statement has come, and m the end of those that came with it.
<1>4. ASSUME NEW d \in Nat, NEW m \in Nat, i <= m, m <= Len(td2), m + d <= Len(td),
             \A k \in i..m : td2[k] = td[k + d], End(td, i + d) <= m + d
      PROVE  /\ End(td2, i) <= Len(td2)
             /\ \A k \in i + 1..i + td2[i].then : End(td2, k) <= i + td2[i].then
             /\ \A k \in i + td2[i].then + 1..End(td2, i) : End(td2, k) <= End(td2, i)
  <2>1. \A k \in i..m : k + d \in DOMAIN td /\ td2[k] = td[k + d]
    BY <1>1, <1>4
  <2>2. PICK a \in Nat, b \in Nat : a = td[i + d].then /\ b = td[i + d].else
    BY <1>2, <1>4, <2>1
  <2>3. td2[i].then = a /\ td2[i].else = b /\ End(td, i + d) = i + d + a + b /\ End(td2, i) = i + a + b
    <3>1. i \in i..m
      BY <1>4
    <3>2. td2[i] = td[i + d]
      BY <2>1, <3>1
    <3>3. QED
      BY <2>2, <3>2 DEF End
  <2>4. i + a + b <= m
    <3>1. i \in Nat /\ End(td, i + d) <= m + d
      <4>1. i \in i..m
        BY <1>4
      <4>2. QED
        BY <1>4, <4>1
    <3>2. i + d + a + b <= m + d
      BY <2>3, <3>1
    <3>3. d \in Nat /\ m \in Nat /\ a \in Nat /\ b \in Nat
      BY <1>4, <2>2
    <3>4. QED
      BY ONLY <3>1, <3>2, <3>3, BothMoved
  <2>5. \A k \in i..m : /\ End(td2, k) = k + td[k + d].then + td[k + d].else
                        /\ End(td, k + d) = k + d + td[k + d].then + td[k + d].else
                        /\ td[k + d].then \in Nat /\ td[k + d].else \in Nat
    BY <1>2, <2>1 DEF End
  <2>6. \A k \in i..m : End(td2, k) + d = End(td, k + d) /\ End(td2, k) \in Int /\ End(td, k + d) \in Int
    <3>1. SUFFICES ASSUME NEW k \in i..m
                   PROVE  End(td2, k) + d = End(td, k + d) /\ End(td2, k) \in Int /\ End(td, k + d) \in Int
      OBVIOUS
    <3>2. PICK e \in Nat, f \in Nat : e = td[k + d].then /\ f = td[k + d].else
      BY <2>5
    <3>3. End(td2, k) = k + e + f /\ End(td, k + d) = k + d + e + f
      BY <2>5, <3>2
    <3>4. QED
      BY <1>4, <3>3
  <2>7. i + d \in DOMAIN td
    BY <1>4, <2>1
  <2>8. ASSUME NEW k \in i + 1..i + a PROVE End(td2, k) <= i + a
    <3>1. k + d \in i + d + 1..i + d + a /\ k \in i..m
      BY <2>4, <2>8
    <3>2. End(td, k + d) <= i + d + a
      BY <2>2, <2>7, <3>1 DEF Nested
    <3>3. QED
      BY <2>6, <3>1, <3>2
  <2>9. ASSUME NEW k \in i + a + 1..i + a + b PROVE End(td2, k) <= i + a + b
    <3>1. k + d \in i + d + a + 1..i + d + a + b /\ k \in i..m
      BY <2>4, <2>9
    <3>2. End(td, k + d) <= i + d + a + b
      BY <2>2, <2>3, <2>7, <3>1 DEF Nested
    <3>3. QED
      BY <2>6, <3>1, <3>2
  <2>10. QED
    BY <1>1, <1>4, <2>3, <2>4, <2>8, <2>9
<1>5. CASE i <= n
  <2>1. \A k \in i..n : td2[k] = td[k + x]
    BY <1>1 DEF Cut
  <2>2. End(td, i + x) <= n + x
    BY <1>1, <1>5 DEF Cut
  <2>3. n + x <= Len(td)
    BY <1>1
  <2>4. QED
    BY <1>1, <1>4, <1>5, <2>1, <2>2, <2>3
<1>6. CASE ~(i <= n)
  <2>1. \A k \in i..Len(td2) : td2[k] = td[k + y]
    BY <1>1, <1>6 DEF Cut
  <2>2. i + y \in DOMAIN td
    BY <1>1, <1>6
  <2>3. End(td, i + y) <= Len(td2) + y /\ i <= Len(td2) /\ Len(td2) <= Len(td2)
    BY <1>1, <2>2 DEF Nested
  <2>4. PICK m \in Nat : m = Len(td2)
    BY <1>1
  <2>5. i <= m /\ m <= Len(td2) /\ m + y <= Len(td) /\ (\A k \in i..m : td2[k] = td[k + y])
        /\ End(td, i + y) <= m + y
    BY <1>1, <2>1, <2>3, <2>4
  <2>6. QED
    BY <1>1, <1>4, <2>5
<1>7. QED
  BY <1>5, <1>6

\* A statement is passed.
LEMMA TailCuts ==
    ASSUME NEW td \in Seq(Statement), td # <<>>
    PROVE  Cut(td, Tail(td), 0, 1, 1)
BY DEF Cut

\* A part of an if takes its place, or none, or both.
Splits(text, over) ==
    \/ text = Else /\ over = Then
    \/ text = Then /\ over = Else
    \/ text = <<>> /\ over = Then \o Else
    \/ text = Then \o Else /\ over = <<>>
Omits(td, over, n, x, y) ==
    \A q \in 2..n + y : q \in x + 1..x + n \/ \E i \in DOMAIN over : over[i] = td[q]

LEMMA SliceCuts ==
    ASSUME NEW td \in Seq(Statement), NEW m \in Nat, m <= Len(td), NEW text, NEW r, NEW n \in Nat,
           NEW x \in Nat \ {0}, x + n <= m, IsSlice(text, td, x, n), IsSlice(r, td, m, Len(td) - m),
           \A k \in x + 1..x + n : End(td, k) <= x + n
    PROVE  Cut(td, text \o r, n, x, m - n)
<1>1. text \in Seq(Statement) /\ r \in Seq(Statement) /\ Len(text) = n /\ Len(r) = Len(td) - m
  BY DEF IsSlice
<1>2. /\ text \o r \in Seq(Statement) /\ Len(text \o r) = n + (Len(td) - m)
      /\ \A i \in 1..n : (text \o r)[i] = text[i]
      /\ \A j \in 1..Len(td) - m : (text \o r)[n + j] = r[j]
  <2>1. text \o r \in Seq(Statement)
    BY <1>1, Joined
  <2>0. text \in Seq(Statement) /\ r \in Seq(Statement)
    BY <1>1
  <2>2. /\ Len(text \o r) = Len(text) + Len(r)
        /\ \A i \in 1..Len(text) : (text \o r)[i] = text[i]
        /\ \A j \in 1..Len(r) : (text \o r)[Len(text) + j] = r[j]
    BY <2>0, JoinedAt
  <2>3. QED
    BY <1>1, <2>1, <2>2
<1>3. Len(td) \in Nat /\ m - n \in Nat /\ x <= m - n /\ Len(td) = Len(text \o r) + (m - n)
      /\ n <= Len(text \o r)
  BY <1>2
<1>4. \A i \in 1..n : (text \o r)[i] = td[i + x]
  BY <1>2 DEF IsSlice
<1>5. ASSUME NEW i \in n + 1..Len(text \o r) PROVE (text \o r)[i] = td[i + (m - n)]
  <2>1. PICK j \in 1..Len(td) - m : i = n + j
    <3>1. i - n \in 1..Len(td) - m /\ i = n + (i - n)
      BY <1>2
    <3>2. QED
      BY <3>1
  <2>2. (text \o r)[i] = r[j] /\ r[j] = td[j + m] /\ j + m = i + (m - n)
    BY <1>2, <2>1 DEF IsSlice
  <2>3. QED
    BY <2>2
<1>6. QED
  BY <1>2, <1>3, <1>4, <1>5 DEF Cut

LEMMA IfCuts ==
    ASSUME TodoInv, todo # <<>>, NEW text, NEW over, Splits(text, over), todo' = text \o Rest
    PROVE  \E n, x, y : Cut(todo, todo', n, x, y) /\ Omits(todo, over, n, x, y)
<1>1. PICK a \in Nat, b \in Nat : a = S.then /\ b = S.else
  BY HeadTyped, StatementTyped
<1>2. /\ S = todo[1] /\ todo \in Seq(Statement) /\ Nested(todo) /\ 1 \in DOMAIN todo
      /\ Len(todo) \in Nat /\ DOMAIN todo = 1..Len(todo)
  BY HeadTyped DEF TodoInv
<1>3. 1 + a + b <= Len(todo) /\ End(todo, 1) = 1 + a + b
  <2>1. End(todo, 1) = 1 + a + b
    BY <1>1, <1>2 DEF End
  <2>2. QED
    BY <1>2, <2>1 DEF Nested
<1>4. \A k \in 2..1 + a : End(todo, k) <= 1 + a
  BY <1>1, <1>2 DEF Nested
<1>5. \A k \in 2 + a..1 + a + b : End(todo, k) <= 1 + a + b
  BY <1>1, <1>2, <1>3 DEF Nested
<1>6. IsSlice(Then, todo, 1, a)
  BY <1>1, <1>2, <1>3, Slices DEF Then
<1>7. IsSlice(Else, todo, 1 + a, b)
  BY <1>1, <1>2, <1>3, Slices DEF Else
<1>8. IsSlice(Then \o Else, todo, 1, a + b)
  BY <1>2, <1>6, <1>7, SlicesJoined
<1>9. IsSlice(<<>>, todo, 1, 0)
  BY DEF IsSlice
<1>10. PICK m \in Nat : m = 1 + a + b
  OBVIOUS
<1>11. PICK l \in Nat : l = Len(todo)
  BY <1>2, Zenon
<1>12. m <= l
  BY <1>3, <1>10, <1>11
<1>13. IsSlice(Rest, todo, m, Len(todo) - m)
  <2>1. PICK r \in Nat : r = l - m
    BY <1>12
  <2>2. PICK i \in Int, j \in Int : i = 2 + a + b /\ j = l
    OBVIOUS
  <2>3. i = m + 1 /\ j = m + r /\ m + r <= Len(todo)
    BY <1>10, <1>11, <1>12, <2>1, <2>2
  <2>4. IsSlice(SubSeq(todo, i, j), todo, m, r)
    BY <1>2, <2>3, Slices
  <2>5. Rest = SubSeq(todo, i, j)
    BY <1>1, <1>11, <2>2, Zenon DEF Rest
  <2>6. QED
    BY <1>11, <2>1, <2>4, <2>5
<1>14. CASE text = Else /\ over = Then
  <2>1. Cut(todo, todo', b, 1 + a, m - b)
    <3>1. m <= Len(todo) /\ 1 + a \in Nat \ {0} /\ (1 + a) + b <= m
          /\ \A k \in (1 + a) + 1..(1 + a) + b : End(todo, k) <= (1 + a) + b
      BY <1>3, <1>5, <1>10, <1>11, <1>12
    <3>2. Cut(todo, Else \o Rest, b, 1 + a, m - b)
      BY <1>2, <1>7, <1>13, <3>1, SliceCuts
    <3>3. QED
      BY <1>14, <3>2
  <2>2. Omits(todo, over, b, 1 + a, m - b)
    <3>1. SUFFICES ASSUME NEW q \in 2..m, q \notin 2 + a..m PROVE \E i \in DOMAIN over : over[i] = todo[q]
      BY <1>10, <1>11, <1>12 DEF Omits
    <3>2. q \in Int /\ 1 < q /\ q <= 1 + a
      BY <1>10, <1>11, <1>12, <3>1
    <3>3. 1 \in Nat /\ 1 + a \in Nat
      OBVIOUS
    <3>4. \A i \in Int : 1 < i /\ i <= 1 + a => \E j \in DOMAIN (Then) : (Then)[j] = todo[i]
      BY <1>6, <3>3, SliceHas, Zenon
    <3>5. QED
      BY <3>2, <1>14, <3>4
  <2>3. QED
    BY <2>1, <2>2
<1>15. CASE text = Then /\ over = Else
  <2>1. Cut(todo, todo', a, 1, m - a)
    BY <1>2, <1>3, <1>4, <1>6, <1>13, <1>10, <1>11, <1>12, <1>15, SliceCuts
  <2>2. Omits(todo, over, a, 1, m - a)
    <3>1. SUFFICES ASSUME NEW q \in 2..m, q \notin 2..1 + a PROVE \E i \in DOMAIN over : over[i] = todo[q]
      BY <1>10, <1>11, <1>12 DEF Omits
    <3>2. q \in Int /\ 1 + a < q /\ q <= (1 + a) + b
      BY <1>10, <1>11, <1>12, <3>1
    <3>3. 1 \in Nat /\ 1 + a \in Nat
      OBVIOUS
    <3>4. \A i \in Int : 1 + a < i /\ i <= (1 + a) + b => \E j \in DOMAIN (Else) : (Else)[j] = todo[i]
      BY <1>7, <3>3, SliceHas, Zenon
    <3>5. QED
      BY <3>2, <1>15, <3>4
  <2>3. QED
    BY <2>1, <2>2
<1>16. CASE text = <<>> /\ over = Then \o Else
  <2>1. Cut(todo, todo', 0, 1, m - 0)
    <3>1. \A k \in 1 + 1..1 + 0 : End(todo, k) <= 1 + 0
      OBVIOUS
    <3>2. m <= Len(todo) /\ 1 + 0 <= m /\ 0 \in Nat /\ 1 \in Nat \ {0}
      BY <1>3, <1>10, <1>11, <1>12
    <3>3. Cut(todo, <<>> \o Rest, 0, 1, m - 0)
      BY <1>2, <1>13, <1>9, <3>1, <3>2, SliceCuts
    <3>4. QED
      BY <1>16, <3>3
  <2>2. Omits(todo, over, 0, 1, m - 0)
    <3>1. SUFFICES ASSUME NEW q \in 2..m PROVE \E i \in DOMAIN over : over[i] = todo[q]
      BY <1>10, <1>11, <1>12 DEF Omits
    <3>2. q \in Int /\ 1 < q /\ q <= 1 + (a + b)
      BY <1>10, <1>11, <1>12, <3>1
    <3>3. 1 \in Nat /\ 1 + a \in Nat
      OBVIOUS
    <3>4. \A i \in Int : 1 < i /\ i <= 1 + (a + b) => \E j \in DOMAIN (Then \o Else) : (Then \o Else)[j] = todo[i]
      BY <1>8, <3>3, SliceHas, Zenon
    <3>5. QED
      BY <3>2, <1>16, <3>4
  <2>3. QED
    BY <2>1, <2>2
<1>17. CASE text = Then \o Else /\ over = <<>>
  <2>1. \A k \in 1 + 1..1 + (a + b) : End(todo, k) <= 1 + (a + b)
    <3>1. SUFFICES ASSUME NEW k \in 1 + 1..1 + (a + b) PROVE End(todo, k) <= 1 + (a + b)
      OBVIOUS
    <3>2. CASE k <= 1 + a
      <4>1. End(todo, k) <= 1 + a /\ End(todo, k) \in Int
        <5>1. k \in DOMAIN todo
          BY <1>2, <1>3, <3>1
        <5>2. todo[k].then \in Nat /\ todo[k].else \in Nat
          BY <1>2, <5>1, StatementTyped
        <5>3. QED
          BY <1>4, <3>1, <3>2, <5>2 DEF End
      <4>2. QED
        BY <4>1
    <3>3. CASE ~(k <= 1 + a)
      BY <1>5, <3>1, <3>3
    <3>4. QED
      BY <3>2, <3>3
  <2>2. Cut(todo, todo', a + b, 1, m - (a + b))
    BY <1>2, <1>3, <1>8, <1>13, <1>10, <1>11, <1>12, <1>17, <2>1, SliceCuts
  <2>3. Omits(todo, over, a + b, 1, m - (a + b))
    BY <1>10, <1>11, <1>12 DEF Omits
  <2>4. QED
    BY <2>2, <2>3
<1>18. QED
  BY <1>14, <1>15, <1>16, <1>17 DEF Splits

\* A step of the text leaves what follows the statement, or a part of it.
LEMMA IfSplits ==
    ASSUME SkipGuard \/ SkipTested \/ SkipCacheInit \/ IfGoto \/ IfBoth
    PROVE  /\ phase = "walk" /\ phase' = "walk" /\ todo # <<>> /\ S.op = "If" /\ UNCHANGED body
           /\ \E text, over : Splits(text, over) /\ Over(over) /\ todo' = text \o Rest
<1>1. /\ phase = "walk" /\ todo # <<>> /\ S.op = "If"
      /\ \E text, over : Splits(text, over) /\ Over(over) /\ Instead(text)
  <2>1. CASE SkipGuard
    BY <2>1 DEF SkipGuard, If, Splits
  <2>2. CASE SkipTested
    BY <2>2 DEF SkipTested, If, Splits
  <2>3. CASE SkipCacheInit
    BY <2>3 DEF SkipCacheInit, If, Splits
  <2>4. CASE IfGoto
    BY <2>4 DEF IfGoto, If, Splits
  <2>5. CASE IfBoth
    BY <2>5 DEF IfBoth, If, Splits
  <2>6. QED
    BY <2>1, <2>2, <2>3, <2>4, <2>5
<1>2. QED
  BY <1>1 DEF Instead

LEMMA TextStep ==
    ASSUME TodoInv, [Next]_vars
    PROVE  \/ UNCHANGED todo
           \/ /\ todo # <<>> /\ phase = "walk" /\ phase' = "walk"
              /\ \E n, x, y : Cut(todo, todo', n, x, y)
<1>1. CASE UNCHANGED vars \/ EndOfText \/ Clean \/ Close
  BY <1>1 DEF vars, EndOfText, Clean, Close
<1>2. CASE SkipGuard \/ SkipTested \/ SkipCacheInit \/ IfGoto \/ IfBoth
  <2>1. PICK text, over : Splits(text, over) /\ todo' = text \o Rest
    BY <1>2, IfSplits
  <2>2. \E n, x, y : Cut(todo, todo', n, x, y)
    BY <1>2, <2>1, IfSplits, IfCuts
  <2>3. QED
    BY <1>2, <2>2, IfSplits
<1>3. CASE FindClass \/ GetID \/ NewString \/ NewObject \/ NewRef \/ GetField \/ SetField \/ Call
           \/ Throw \/ ExceptionCheck \/ Opaque \/ Copy \/ LabelHere \/ Goto \/ Return
  <2>1. todo' = Tail(todo) /\ todo # <<>> /\ phase = "walk" /\ phase' = "walk"
    BY <1>3 DEF FindClass, GetID, NewString, NewObject, NewRef, GetField, SetField, Call, Throw,
       ExceptionCheck, Opaque, Copy, LabelHere, Goto, Return, Done, Walk
  <2>2. Cut(todo, todo', 0, 1, 1)
    BY <2>1, TailCuts DEF TodoInv
  <2>3. QED
    BY <2>1, <2>2
<1>4. QED
  BY <1>1, <1>2, <1>3 DEF Next

LEMMA TodoStep ==
    ASSUME TodoInv, [Next]_vars
    PROVE  TodoInv'
<1>1. CASE UNCHANGED todo
  BY <1>1 DEF TodoInv, Nested, End
<1>2. CASE \E n, x, y : Cut(todo, todo', n, x, y)
  <2>1. PICK n, x, y : Cut(todo, todo', n, x, y)
    BY <1>2
  <2>2. PICK td : td = todo'
    OBVIOUS
  <2>3. td \in Seq(Statement) /\ Nested(td)
    BY <2>1, <2>2, CutNested DEF TodoInv, Cut
  <2>4. QED
    BY <2>2, <2>3 DEF TodoInv, Nested, End
<1>3. QED
  BY <1>1, <1>2, TextStep

LEMMA TodoInit == Init => TodoInv
BY BodiesAssumption DEF Init, TodoInv

-----------------------------------------------------------------------------
(* What is loaded.                                                         *)

\* A sequence of instructions in which each sure load is the value the C
\* program has there; and one of such instructions and no label.
Fine(i) ==
    /\ i.op = "ALOAD" /\ i.sure => i.got = i.held
    /\ i.sure /\ i.member # NoMember => i.member = i.want
FineSeq(s) == \E T : s \in Seq(T) /\ \A i \in T : Fine(i)
Plain(i) == Fine(i) /\ i.op # "LABEL"
PlainSeq(s) == \E T : s \in Seq(T) /\ \A i \in T : Plain(i)

LEMMA PlainIsFine ==
    ASSUME NEW s, PlainSeq(s)
    PROVE  FineSeq(s)
<1>1. PICK T : s \in Seq(T) /\ \A i \in T : Plain(i)
  BY Zenon DEF PlainSeq
<1>2. \A i \in T : Fine(i)
  BY <1>1, Zenon DEF Plain
<1>3. QED
  BY <1>1, <1>2, Zenon DEF FineSeq

LEMMA PlainNone == PlainSeq(<<>>)
<1> DEFINE T == {}
<1>1. <<>> \in Seq(T) /\ \A i \in T : Plain(i)
  OBVIOUS
<1> HIDE DEF T
<1>2. QED
  BY <1>1, Zenon DEF PlainSeq

LEMMA FineOne ==
    ASSUME NEW i, Fine(i)
    PROVE  FineSeq(<<i>>)
<1> DEFINE T == {i}
<1>1. <<i>> \in Seq(T) /\ \A k \in T : Fine(k)
  OBVIOUS
<1> HIDE DEF T
<1>2. QED
  BY <1>1, Zenon DEF FineSeq

LEMMA PlainOne ==
    ASSUME NEW i, Plain(i)
    PROVE  PlainSeq(<<i>>)
<1> DEFINE T == {i}
<1>1. <<i>> \in Seq(T) /\ \A k \in T : Plain(k)
  OBVIOUS
<1> HIDE DEF T
<1>2. QED
  BY <1>1, Zenon DEF PlainSeq

LEMMA PlainTwo ==
    ASSUME NEW i, NEW k, Plain(i), Plain(k)
    PROVE  PlainSeq(<<i, k>>)
<1> DEFINE T == {i, k}
<1>1. <<i, k>> \in Seq(T) /\ \A x \in T : Plain(x)
  OBVIOUS
<1> HIDE DEF T
<1>2. QED
  BY <1>1, Zenon DEF PlainSeq

LEMMA InBoth ==
    ASSUME NEW A, NEW B, NEW a \in Seq(A), NEW b \in Seq(B)
    PROVE  a \o b \in Seq(A \cup B)
<1>1. a \in Seq(A \cup B) /\ b \in Seq(A \cup B)
  OBVIOUS
<1>2. QED
  BY <1>1, Joined

LEMMA FineBoth ==
    ASSUME NEW a, NEW b, FineSeq(a), FineSeq(b)
    PROVE  FineSeq(a \o b)
<1>1. PICK A : a \in Seq(A) /\ \A i \in A : Fine(i)
  BY Zenon DEF FineSeq
<1>2. PICK B : b \in Seq(B) /\ \A i \in B : Fine(i)
  BY Zenon DEF FineSeq
<1>3. a \o b \in Seq(A \cup B) /\ \A i \in A \cup B : Fine(i)
  BY <1>1, <1>2, InBoth
<1>4. QED
  BY <1>3, Zenon DEF FineSeq

LEMMA PlainBoth ==
    ASSUME NEW a, NEW b, PlainSeq(a), PlainSeq(b)
    PROVE  PlainSeq(a \o b)
<1>1. PICK A : a \in Seq(A) /\ \A i \in A : Plain(i)
  BY Zenon DEF PlainSeq
<1>2. PICK B : b \in Seq(B) /\ \A i \in B : Plain(i)
  BY Zenon DEF PlainSeq
<1>3. a \o b \in Seq(A \cup B) /\ \A i \in A \cup B : Plain(i)
  BY <1>1, <1>2, InBoth
<1>4. QED
  BY <1>3, Zenon DEF PlainSeq

LEMMA FineAre ==
    ASSUME NEW s, FineSeq(s)
    PROVE  \A i \in DOMAIN s : Fine(s[i])
<1>1. PICK T : s \in Seq(T) /\ \A i \in T : Fine(i)
  BY Zenon DEF FineSeq
<1>2. \A i \in DOMAIN s : s[i] \in T
  BY <1>1
<1>3. QED
  BY <1>1, <1>2

\* What the lifter believes of a variable is nothing before its assignment; a
\* local variable it names is one that was handed out; and for a steady variable
\* that local variable holds what the C variable holds.
SlotsTyped ==
    /\ DOMAIN syms = Var /\ DOMAIN slots = Var /\ DOMAIN holds = Var
    /\ nextSlot \in Nat /\ DOMAIN saved = SlotRange
    /\ \A v \in Var : slots[v] = NoSlot \/ slots[v] \in SlotRange
    /\ \A v \in Var : syms[v].kind = "slot" => syms[v].slot \in SlotRange
SlotsKnown == \A v \in Var \ assigned : slots[v] = NoSlot /\ syms[v].kind # "slot"
SlotsTrue ==
    \A v \in Var \ unsteady : Resolve(v).kind = "slot" => saved[Resolve(v).slot] = holds[v]
SlotsInv == SlotsTyped /\ SlotsKnown /\ SlotsTrue

LEMMA Resolved ==
    ASSUME SlotsTyped, NEW v \in Var \cup {NoVar}
    PROVE  /\ v = NoVar => Resolve(v) = NoSym
           /\ v # NoVar /\ slots[v] # NoSlot => Resolve(v) = SlotRef(slots[v])
           /\ v # NoVar /\ slots[v] = NoSlot => Resolve(v) = syms[v]
           /\ Resolve(v).kind = "slot" => v \in Var /\ Resolve(v).slot \in SlotRange
<1>1. NoSym.kind = "none"
  BY DEF NoSym, Sym
<1>2. \A n : SlotRef(n).kind = "slot" /\ SlotRef(n).slot = n
  BY DEF SlotRef
<1>3. QED
  BY <1>1, <1>2 DEF Resolve, SlotsTyped

\* A sure load is true where it is made.
LEMMA PushIsPlain ==
    ASSUME SlotsInv, NEW v \in Var \cup {NoVar}
    PROVE  Plain(Push(v))
<1>1. CASE Resolve(v).kind = "slot"
  <2>1. v \in Var
    BY <1>1, Resolved DEF SlotsInv
  <2>2. v \notin unsteady => saved[Resolve(v).slot] = holds[v]
    BY <1>1, <2>1 DEF SlotsInv, SlotsTrue
  <2>3. /\ Push(v).got = saved[Resolve(v).slot] /\ Push(v).held = holds[v]
        /\ Push(v).sure <=> v \notin unsteady
    BY <1>1 DEF Push, I
  <2>4. Push(v).op # "LABEL" /\ Push(v).member = NoMember
    BY <1>1 DEF Push, I
  <2>5. QED
    BY <2>2, <2>3, <2>4 DEF Fine, Plain
<1>2. CASE Resolve(v).kind # "slot"
  <2>1. Push(v).op # "ALOAD" /\ Push(v).op # "LABEL" /\ Push(v).member = NoMember
    BY <1>2 DEF Push, I
  <2>2. QED
    BY <2>1 DEF Fine, Plain
<1>3. QED
  BY <1>1, <1>2

LEMMA PushesArePlain ==
    ASSUME SlotsInv, NEW vs \in Seq(Var \cup {NoVar})
    PROVE  PlainSeq(Pushes(vs))
<1> DEFINE T == {Push(v) : v \in Var \cup {NoVar}}
<1>1. \A i \in T : Plain(i)
  BY PushIsPlain, Zenon
<1>2. \A i \in 1..Len(vs) : vs[i] \in Var \cup {NoVar}
  OBVIOUS
<1>3. \A i \in 1..Len(vs) : Push(vs[i]) \in T
  BY <1>2, Zenon
<1>4. Len(vs) \in Nat /\ DOMAIN vs = 1..Len(vs)
  OBVIOUS
<1> HIDE DEF T
<1>5. [i \in 1..Len(vs) |-> Push(vs[i])] \in Seq(T)
  <2> DEFINE P(i) == Push(vs[i])
  <2>1. \A i \in 1..Len(vs) : P(i) \in T
    BY <1>3
  <2> HIDE DEF P
  <2>2. [i \in 1..Len(vs) |-> P(i)] \in Seq(T)
    BY <1>4, <2>1
  <2>3. QED
    BY <2>2, Zenon DEF P
<1>6. Pushes(vs) \in Seq(T)
  BY <1>4, <1>5, Zenon DEF Pushes
<1>7. QED
  BY <1>1, <1>6, Zenon DEF PlainSeq

\* All that is neither a load nor a label is plain.
Others == {"ALOAD", "LABEL"}

LEMMA OthersArePlain ==
    /\ \A op : op \notin Others => Plain(I(op))
    /\ \A op, l : op \notin Others => Plain(Jump(op, l))
    /\ \A l : Fine(Jump("LABEL", l))
BY DEF Plain, Fine, Others, I, Jump

\* What a step leaves of a variable it is not about stays true.
LEMMA OtherStays ==
    ASSUME SlotsTyped, SlotsTrue, NEW w \in Var, w \notin unsteady',
           unsteady \subseteq unsteady', slots'[w] = slots[w], syms'[w] = syms[w], holds'[w] = holds[w],
           \A n \in SlotRange : saved'[n] = saved[n]
    PROVE  Resolve(w)'.kind = "slot" => saved'[Resolve(w)'.slot] = holds'[w]
<1>1. Resolve(w)' = Resolve(w)
  BY DEF Resolve
<1>2. Resolve(w).kind = "slot" => Resolve(w).slot \in SlotRange
  BY Resolved
<1>3. w \notin unsteady
  OBVIOUS
<1>4. QED
  BY <1>1, <1>2, <1>3 DEF SlotsTrue

LEMMA AssignsSlots ==
    ASSUME SlotsInv, NEW v \in Var \cup {NoVar}, NEW from, Assigns(v, from), KeepSlots,
           UNCHANGED syms \/ \E b : Believe(v, b) /\ b.kind # "slot"
    PROVE  SlotsInv'
<1>0. SlotsTyped /\ SlotsKnown /\ SlotsTrue
  BY DEF SlotsInv
<1>1. /\ slots' = slots /\ nextSlot' = nextSlot /\ saved' = saved
      /\ unsteady \subseteq unsteady' /\ assigned \subseteq assigned' /\ DOMAIN holds' = DOMAIN holds
      /\ v # NoVar => v \in assigned' /\ (v \in assigned => v \in unsteady')
  BY DEF KeepSlots, Assigns
<1>2. \A w \in Var \ {v} : syms'[w] = syms[w] /\ holds'[w] = holds[w]
  BY <1>0 DEF Believe, Assigns, SlotsTyped
<1>3. DOMAIN syms' = Var /\ (v \in Var => syms'[v] = syms[v] \/ syms'[v].kind # "slot")
  BY <1>0 DEF Believe, SlotsTyped
<1>4. SlotsTyped'
  BY <1>0, <1>1, <1>2, <1>3 DEF SlotsTyped, SlotRange
<1>5. SlotsKnown'
  BY <1>0, <1>1, <1>2, LifterAssumption DEF SlotsKnown
<1>6. ASSUME NEW w \in Var, w \notin unsteady'
      PROVE  Resolve(w)'.kind = "slot" => saved'[Resolve(w)'.slot] = holds'[w]
  <2>1. CASE w = v
    <3>1. slots[v] = NoSlot /\ syms[v].kind # "slot" /\ v # NoVar
      BY <1>0, <1>1, <1>6, <2>1, LifterAssumption DEF SlotsKnown
    <3>2. Resolve(w)' = syms'[v]
      BY <1>1, <2>1, <3>1 DEF Resolve
    <3>3. QED
      BY <1>3, <2>1, <3>1, <3>2
  <2>2. CASE w # v
    BY <1>0, <1>1, <1>2, <1>6, <2>2, OtherStays
  <2>3. QED
    BY <2>1, <2>2
<1>7. QED
  BY <1>4, <1>5, <1>6 DEF SlotsInv, SlotsTrue

\* _handle_rhs of a variable, NewGlobalRef: the saved value is handed on.
LEMMA CopiesSlots ==
    ASSUME SlotsInv, S.lhs \in Var \cup {NoVar}, S.recv \in Var, NewRef \/ Copy
    PROVE  SlotsInv'
<1> DEFINE v == S.lhs
           r == Resolve(S.recv)
<1>0. SlotsTyped /\ SlotsKnown /\ SlotsTrue
  BY DEF SlotsInv
<1>1. /\ nextSlot' = nextSlot /\ saved' = saved /\ Copies
      /\ \/ slots' = slots /\ (UNCHANGED syms \/ Believe(v, r))
         \/ r.kind = "slot" /\ slots' = [slots EXCEPT ![v] = r.slot] /\ UNCHANGED syms
  BY DEF NewRef, Copy, KeepSlots, Done
<1>2. r.kind = "slot" => r.slot \in SlotRange /\ r.slot # NoSlot
  <2>1. r.kind = "slot" => r.slot \in SlotRange
    BY <1>0, Resolved
  <2>2. NoSlot \notin SlotRange
    BY <1>0 DEF SlotsTyped, SlotRange, NoSlot
  <2>3. QED
    BY <2>1, <2>2
<1>3. S.recv \notin unsteady /\ r.kind = "slot" => saved[r.slot] = holds[S.recv]
  BY <1>0 DEF SlotsTrue
<1> HIDE DEF v, r
<1>4. /\ unsteady \subseteq unsteady' /\ assigned' = assigned \cup {v} /\ DOMAIN holds' = DOMAIN holds
      /\ v \in assigned \/ S.recv \in unsteady => v \in unsteady'
      /\ v \in Var => holds'[v] = holds[S.recv]
      /\ \A w \in Var \ {v} : holds'[w] = holds[w]
  BY <1>0, <1>1 DEF Copies, v, SlotsTyped
<1>5. \A w \in Var \ {v} : slots'[w] = slots[w] /\ syms'[w] = syms[w]
  BY <1>0, <1>1 DEF Believe, SlotsTyped
<1>6. DOMAIN slots' = Var /\ DOMAIN syms' = Var
  BY <1>0, <1>1 DEF Believe, SlotsTyped
<1>7. v \in Var => \/ slots'[v] = slots[v] /\ syms'[v] = syms[v]
                   \/ slots'[v] = slots[v] /\ syms'[v] = r
                   \/ r.kind = "slot" /\ slots'[v] = r.slot /\ syms'[v] = syms[v]
  BY <1>0, <1>1, LifterAssumption DEF Believe, SlotsTyped
<1>8. SlotsTyped'
  <2>1. SlotRange' = SlotRange
    BY <1>1 DEF SlotRange
  <2>2. ASSUME NEW w \in Var
        PROVE  /\ slots'[w] = NoSlot \/ slots'[w] \in SlotRange
               /\ syms'[w].kind = "slot" => syms'[w].slot \in SlotRange
    <3>1. CASE w = v
      BY <1>0, <1>2, <1>7, <3>1 DEF SlotsTyped
    <3>2. CASE w # v
      BY <1>0, <1>5, <3>2 DEF SlotsTyped
    <3>3. QED
      BY <3>1, <3>2
  <2>3. NoSlot' = NoSlot
    BY DEF NoSlot
  <2>4. QED
    BY <1>0, <1>1, <1>4, <1>6, <2>1, <2>2, <2>3 DEF SlotsTyped
<1>9. SlotsKnown'
  BY <1>0, <1>4, <1>5 DEF SlotsKnown
<1>10. ASSUME NEW w \in Var, w \notin unsteady'
       PROVE  Resolve(w)'.kind = "slot" => saved'[Resolve(w)'.slot] = holds'[w]
  <2>1. CASE w = v
    <3>1. slots[v] = NoSlot /\ syms[v].kind # "slot" /\ v # NoVar /\ S.recv \notin unsteady
      BY <1>0, <1>4, <1>10, <2>1, LifterAssumption DEF SlotsKnown
    <3>2. Resolve(w)' = IF slots'[v] # NoSlot THEN SlotRef(slots'[v]) ELSE syms'[v]
      BY <2>1, <3>1 DEF Resolve, SlotRef, NoSlot
    <3>3. SlotRef(r.slot).slot = r.slot
      BY DEF SlotRef
    <3>4. CASE slots'[v] = slots[v] /\ syms'[v] = syms[v]
      BY <3>1, <3>2, <3>4
    <3>5. CASE slots'[v] = slots[v] /\ syms'[v] = r
      BY <1>1, <1>3, <1>4, <2>1, <3>1, <3>2, <3>5
    <3>6. CASE r.kind = "slot" /\ slots'[v] = r.slot /\ syms'[v] = syms[v]
      BY <1>1, <1>2, <1>3, <1>4, <2>1, <3>1, <3>2, <3>3, <3>6
    <3>7. QED
      BY <1>7, <2>1, <3>4, <3>5, <3>6
  <2>2. CASE w # v
    BY <1>0, <1>1, <1>4, <1>5, <1>10, <2>2, OtherStays
  <2>3. QED
    BY <2>1, <2>2
<1>11. QED
  BY <1>8, <1>9, <1>10 DEF SlotsInv, SlotsTrue

\* bind_var_to_top: a local variable of its own for the value that was read
LEMMA SavesSlots ==
    ASSUME SlotsInv, S.lhs \in Var \cup {NoVar}, GetField
    PROVE  SlotsInv'
<1>1. CASE S.lhs = NoVar
  <2>1. KeepSlots /\ Assigns(S.lhs, {}) /\ UNCHANGED syms
    BY <1>1 DEF GetField
  <2>2. QED
    BY <2>1, AssignsSlots
<1>2. CASE S.lhs # NoVar
  <2> DEFINE v == S.lhs
  <2>0. SlotsTyped /\ SlotsKnown /\ SlotsTrue /\ v \in Var /\ v # NoVar
    BY <1>2 DEF SlotsInv
  <2>1. /\ slots' = [slots EXCEPT ![v] = nextSlot] /\ nextSlot' = nextSlot + 1
        /\ saved' = [n \in 0 .. nextSlot |-> IF n = nextSlot THEN count + 1 ELSE saved[n]]
        /\ syms' = syms /\ holds' = [holds EXCEPT ![v] = count + 1]
        /\ assigned' = assigned \cup {v} /\ unsteady \subseteq unsteady'
        /\ v \in assigned => v \in unsteady'
    BY <1>2 DEF GetField, Assigns
  <2> HIDE DEF v
  <2>2. SlotRange' = 0 .. nextSlot /\ SlotRange \subseteq 0 .. nextSlot /\ nextSlot \notin SlotRange
    BY <2>0, <2>1 DEF SlotsTyped, SlotRange
  <2>3. /\ \A n \in SlotRange : saved'[n] = saved[n]
        /\ saved'[nextSlot] = count + 1 /\ DOMAIN saved' = 0 .. nextSlot
    BY <2>0, <2>1, <2>2 DEF SlotsTyped
  <2>4. /\ slots'[v] = nextSlot /\ holds'[v] = count + 1
        /\ \A w \in Var \ {v} : slots'[w] = slots[w] /\ holds'[w] = holds[w]
        /\ DOMAIN slots' = Var /\ DOMAIN holds' = Var
    BY <2>0, <2>1 DEF SlotsTyped
  <2>5. SlotsTyped'
    <3>1. ASSUME NEW w \in Var
          PROVE  /\ slots'[w] = NoSlot \/ slots'[w] \in 0 .. nextSlot
                 /\ syms'[w].kind = "slot" => syms'[w].slot \in 0 .. nextSlot
      <4>1. slots[w] = NoSlot \/ slots[w] \in 0 .. nextSlot
        BY <2>0, <2>2 DEF SlotsTyped
      <4>2. slots'[w] = NoSlot \/ slots'[w] \in 0 .. nextSlot
        BY <2>0, <2>4, <4>1 DEF SlotsTyped
      <4>3. QED
        BY <2>0, <2>1, <2>2, <4>2 DEF SlotsTyped
    <3>2. nextSlot' \in Nat /\ DOMAIN syms' = Var
      BY <2>0, <2>1 DEF SlotsTyped
    <3>3. QED
      BY <2>2, <2>3, <2>4, <3>1, <3>2 DEF SlotsTyped, NoSlot
  <2>6. SlotsKnown'
    BY <2>0, <2>1, <2>4 DEF SlotsKnown, NoSlot
  <2>7. ASSUME NEW w \in Var, w \notin unsteady'
        PROVE  Resolve(w)'.kind = "slot" => saved'[Resolve(w)'.slot] = holds'[w]
    <3>1. CASE w = v
      <4>1. nextSlot # NoSlot
        BY <2>0 DEF SlotsTyped, NoSlot
      <4>2. Resolve(w)' = SlotRef(nextSlot)
        BY <2>0, <2>4, <3>1, <4>1 DEF Resolve, SlotRef, NoSlot
      <4>3. Resolve(w)'.slot = nextSlot
        BY <4>2 DEF SlotRef
      <4>4. QED
        BY <2>3, <2>4, <3>1, <4>3
    <3>2. CASE w # v
      BY <2>0, <2>1, <2>3, <2>4, <2>7, <3>2, OtherStays
    <3>3. QED
      BY <3>1, <3>2
  <2>8. QED
    BY <2>5, <2>6, <2>7 DEF SlotsInv, SlotsTrue
<1>3. QED
  BY <1>1, <1>2

LEMMA OverSlots ==
    ASSUME SlotsInv, UNCHANGED <<syms, slots, nextSlot, holds, saved, assigned>>,
           unsteady \subseteq unsteady'
    PROVE  SlotsInv'
BY DEF SlotsInv, SlotsTyped, SlotsKnown, SlotsTrue, Resolve, SlotRange, SlotRef, NoSlot, NoSym, Sym

-----------------------------------------------------------------------------
(* FlattenSeq, which _drop_dangling_jumps is written with and the error    *)
(* texts of a body are taken together with.                                *)

LEMMA SmallestNat ==
    ASSUME NEW T, T \subseteq Nat, T # {}
    PROVE  \E x \in T : \A y \in T : x <= y
<1> DEFINE L == OpToRel(<,Nat)
<1>1. \A y \in Nat, x \in Nat : y < x => <<y,x>> \in L
  <2>1. SUFFICES ASSUME NEW y \in Nat, NEW x \in Nat, y < x
                 PROVE  <<y,x>> \in L
    OBVIOUS
  <2>2. <<y,x>>[1] = y /\ <<y,x>>[2] = x /\ <<y,x>> \in Nat \X Nat
    OBVIOUS
  <2>3. QED
    BY <2>1, <2>2, Zenon DEF OpToRel
<1>2. PICK x \in T : \A y \in T : ~ (<<y, x>> \in L)
  BY WFMin, NatLessThanWellFounded
<1>3. \A y \in T : ~ (y < x)
  BY <1>1, <1>2, Zenon
<1> HIDE DEF L
<1>4. QED
  BY <1>3

\* What FlattenSeq computes of the first n parts of s.
IsFlat(f, s, n) == f = [i \in 1..n |-> IF i = 1 THEN s[i] ELSE f[i-1] \o s[i]]

LEMMA FlatIs ==
    ASSUME NEW f, NEW s, NEW n \in Nat, IsFlat(f, s, n)
    PROVE  /\ DOMAIN f = 1..n
           /\ \A i \in 1..n : f[i] = IF i = 1 THEN s[i] ELSE f[i-1] \o s[i]
<1> DEFINE g == [i \in 1..n |-> IF i = 1 THEN s[i] ELSE f[i-1] \o s[i]]
<1>1. f = g
  BY DEF IsFlat
<1>2. DOMAIN g = 1..n /\ \A i \in 1..n : g[i] = IF i = 1 THEN s[i] ELSE f[i-1] \o s[i]
  OBVIOUS
<1> HIDE DEF g
<1>3. QED
  BY <1>1, <1>2, Zenon

LEMMA FlatOf ==
    ASSUME NEW f, NEW s, NEW n \in Nat, f = [i \in 1..n |-> f[i]],
           \A i \in 1..n : f[i] = IF i = 1 THEN s[i] ELSE f[i-1] \o s[i]
    PROVE  IsFlat(f, s, n)
<1>1. [i \in 1..n |-> f[i]] = [i \in 1..n |-> IF i = 1 THEN s[i] ELSE f[i-1] \o s[i]]
  OBVIOUS
<1>2. QED
  BY <1>1, Zenon DEF IsFlat

\* Two of them for the same sequence agree as far as both go.
LEMMA FlatAgrees ==
    ASSUME NEW f, NEW g, NEW s, NEW t, NEW n \in Nat, NEW m \in Nat, n <= m,
           IsFlat(f, s, n), IsFlat(g, t, m), \A i \in 1..n : s[i] = t[i]
    PROVE  \A i \in 1..n : f[i] = g[i]
<1> DEFINE T == {i \in 1..n : f[i] # g[i]}
<1>1. SUFFICES T = {}
  OBVIOUS
<1>2. SUFFICES ASSUME T # {} PROVE FALSE
  OBVIOUS
<1>3. T \subseteq Nat
  OBVIOUS
<1>4. PICK x \in T : \A y \in T : x <= y
  <2> HIDE DEF T
  <2>1. QED
    BY <1>2, <1>3, SmallestNat, Zenon
<1>5. f[x] = (IF x = 1 THEN s[x] ELSE f[x-1] \o s[x]) /\ g[x] = (IF x = 1 THEN t[x] ELSE g[x-1] \o t[x])
  BY FlatIs
<1>6. CASE x = 1
  BY <1>5, <1>6
<1>7. CASE x # 1
  <2>1. x - 1 \in 1..n /\ x - 1 \notin T
    BY <1>4, <1>7
  <2>2. f[x-1] = g[x-1] /\ s[x] = t[x]
    BY <2>1
  <2>3. QED
    BY <1>5, <1>7, <2>2
<1>8. QED
  BY <1>6, <1>7

\* The recursion defines a function.
LEMMA FlatIsThere ==
    ASSUME NEW s, NEW n \in Nat
    PROVE  \E f : IsFlat(f, s, n)
<1> DEFINE T == {k \in Nat : ~ \E f : IsFlat(f, s, k)}
<1>1. SUFFICES ASSUME T # {} PROVE FALSE
  OBVIOUS
<1>2. PICK x \in T : \A y \in T : x <= y
  <2>1. T \subseteq Nat
    OBVIOUS
  <2> HIDE DEF T
  <2>2. QED
    BY <1>1, <2>1, SmallestNat, Zenon
<1>3. CASE x = 0
  <2> DEFINE f == [i \in 1..x |-> s[i]]
  <2>1. f = [i \in 1..x |-> f[i]] /\ \A i \in 1..x : f[i] = IF i = 1 THEN s[i] ELSE f[i-1] \o s[i]
    BY <1>3
  <2> HIDE DEF f
  <2>2. IsFlat(f, s, x)
    BY <2>1, FlatOf
  <2>3. QED
    BY <2>2
<1>4. CASE x # 0
  <2>1. x - 1 \in Nat /\ x - 1 \notin T
    BY <1>2, <1>4
  <2>2. PICK g : IsFlat(g, s, x - 1)
    BY <2>1
  <2>3. \A i \in 1..x - 1 : g[i] = IF i = 1 THEN s[i] ELSE g[i-1] \o s[i]
    BY <2>1, <2>2, FlatIs
  <2> DEFINE f == [i \in 1..x |-> IF i = x THEN IF i = 1 THEN s[i] ELSE g[i-1] \o s[i] ELSE g[i]]
  <2>4. f = [i \in 1..x |-> f[i]]
    OBVIOUS
  <2>5. ASSUME NEW i \in 1..x PROVE f[i] = IF i = 1 THEN s[i] ELSE f[i-1] \o s[i]
    <3>1. CASE i = x
      <4>1. i # 1 => i - 1 \in 1..x /\ i - 1 # x
        BY <3>1
      <4>2. i # 1 => f[i-1] = g[i-1]
        BY <4>1
      <4>3. f[i] = IF i = 1 THEN s[i] ELSE g[i-1] \o s[i]
        BY <3>1
      <4>4. QED
        BY <4>2, <4>3
    <3>2. CASE i # x
      <4>1. i \in 1..x - 1
        BY <3>2
      <4>2. f[i] = g[i] /\ g[i] = IF i = 1 THEN s[i] ELSE g[i-1] \o s[i]
        BY <2>3, <3>2, <4>1
      <4>3. i # 1 => i - 1 \in 1..x /\ i - 1 # x
        BY <4>1
      <4>4. i # 1 => f[i-1] = g[i-1]
        BY <4>3
      <4>5. QED
        BY <4>2, <4>4
    <3>3. QED
      BY <3>1, <3>2
  <2> HIDE DEF f
  <2>6. IsFlat(f, s, x)
    BY <2>4, <2>5, FlatOf
  <2>7. QED
    BY <2>6
<1>5. QED
  BY <1>3, <1>4

LEMMA FlattenIs ==
    ASSUME NEW s, NEW n \in Nat, Len(s) = n, n # 0
    PROVE  \E f : IsFlat(f, s, n) /\ FlattenSeq(s) = f[n]
<1> DEFINE F == CHOOSE f : IsFlat(f, s, n)
<1>1. IsFlat(F, s, n)
  BY FlatIsThere
<1>2. FlattenSeq(s) = F[n]
  BY DEF FlattenSeq, IsFlat
<1>3. QED
  BY <1>1, <1>2

LEMMA FlatTyped ==
    ASSUME NEW T, NEW s \in Seq(Seq(T)), NEW n \in Nat, n <= Len(s), NEW f, IsFlat(f, s, n)
    PROVE  \A i \in 1..n : f[i] \in Seq(T)
<1> DEFINE B == {i \in 1..n : f[i] \notin Seq(T)}
<1>1. SUFFICES ASSUME B # {} PROVE FALSE
  OBVIOUS
<1>2. PICK x \in B : \A y \in B : x <= y
  <2>1. B \subseteq Nat
    OBVIOUS
  <2> HIDE DEF B
  <2>2. QED
    BY <1>1, <2>1, SmallestNat, Zenon
<1>3. x \in 1..n /\ s[x] \in Seq(T) /\ f[x] \notin Seq(T)
  OBVIOUS
<1>4. f[x] = IF x = 1 THEN s[x] ELSE f[x-1] \o s[x]
  BY <1>3, FlatIs
<1>5. CASE x = 1
  BY <1>3, <1>4, <1>5
<1>6. CASE x # 1
  <2>1. x - 1 \in 1..n /\ x - 1 \notin B
    BY <1>2, <1>3, <1>6
  <2>2. f[x-1] \in Seq(T)
    BY <2>1
  <2>3. f[x-1] \o s[x] \in Seq(T)
    BY <1>3, <2>2, Joined
  <2>4. QED
    BY <1>3, <1>4, <1>6, <2>3
<1>7. QED
  BY <1>5, <1>6

LEMMA FlattenTyped ==
    ASSUME NEW T, NEW s \in Seq(Seq(T))
    PROVE  FlattenSeq(s) \in Seq(T)
<1> DEFINE n == Len(s)
<1>1. n \in Nat
  OBVIOUS
<1>2. CASE n = 0
  <2>1. s = <<>>
    BY <1>2
  <2>2. FlattenSeq(s) = <<>>
    BY <2>1 DEF FlattenSeq
  <2>3. QED
    BY <2>2
<1>3. CASE n # 0
  <2> HIDE DEF n
  <2>1. PICK f : IsFlat(f, s, n) /\ FlattenSeq(s) = f[n]
    BY <1>1, <1>3, FlattenIs DEF n
  <2>2. \A i \in 1..n : f[i] \in Seq(T)
    BY <1>1, <2>1, FlatTyped DEF n
  <2>3. QED
    BY <1>1, <1>3, <2>1, <2>2
<1>4. QED
  BY <1>2, <1>3

\* Where the parts of s lie in the first n of them joined.
Off(f, i) == IF i = 1 THEN 0 ELSE Len(f[i-1])
Lies(f, s, n) ==
    /\ \A i \in 1..n : Len(f[i]) <= Len(f[n])
    /\ \A i \in 1..n : \A j \in 1..Len(s[i]) :
            Off(f, i) + j \in 1..Len(f[n]) /\ f[n][Off(f, i) + j] = s[i][j]
    /\ \A m \in 1..Len(f[n]) : \E i \in 1..n : \E j \in 1..Len(s[i]) : m = Off(f, i) + j

LEMMA LiesFirst ==
    ASSUME NEW T, NEW s \in Seq(Seq(T)), 1 <= Len(s), NEW f, f[1] = s[1]
    PROVE  Lies(f, s, 1)
<1>1. s[1] \in Seq(T) /\ Len(s[1]) \in Nat
  OBVIOUS
<1>2. Off(f, 1) = 0 /\ \A i \in 1..1 : i = 1
  BY DEF Off
<1>3. QED
  BY <1>1, <1>2 DEF Lies

LEMMA LiesNext ==
    ASSUME NEW T, NEW s \in Seq(Seq(T)), NEW n \in Nat \ {0}, n + 1 <= Len(s), NEW f,
           \A i \in 1..n + 1 : f[i] \in Seq(T), f[n + 1] = f[n] \o s[n + 1], Lies(f, s, n)
    PROVE  Lies(f, s, n + 1)
<1> DEFINE a == f[n]
           b == s[n + 1]
           c == f[n + 1]
<1>1. a \in Seq(T) /\ b \in Seq(T) /\ c = a \o b
  OBVIOUS
<1>2. Off(f, n + 1) = Len(a)
  BY DEF Off
<1>3. /\ \A i \in 1..n : Len(f[i]) <= Len(a)
      /\ \A i \in 1..n : \A j \in 1..Len(s[i]) :
            Off(f, i) + j \in 1..Len(a) /\ a[Off(f, i) + j] = s[i][j]
      /\ \A m \in 1..Len(a) : \E i \in 1..n : \E j \in 1..Len(s[i]) : m = Off(f, i) + j
  BY Zenon DEF Lies
<1> HIDE DEF a, b, c
<1>4. /\ Len(a) \in Nat /\ Len(b) \in Nat /\ Len(c) = Len(a) + Len(b)
      /\ \A i \in 1..Len(a) : c[i] = a[i]
      /\ \A j \in 1..Len(b) : c[Len(a) + j] = b[j]
  BY <1>1, JoinedAt
<1>5. \A i \in 1..n + 1 : i \in 1..n \/ i = n + 1
  OBVIOUS
<1>6. ASSUME NEW i \in 1..n + 1 PROVE Len(f[i]) <= Len(c)
  <2>1. Len(f[i]) \in Nat
    OBVIOUS
  <2>2. CASE i \in 1..n
    <3>1. Len(f[i]) <= Len(a)
      BY <1>3, <2>2
    <3>2. QED
      BY <1>4, <2>1, <3>1
  <2>3. CASE i = n + 1
    <3>1. Len(f[i]) = Len(c)
      BY <2>3 DEF c
    <3>2. QED
      BY <2>1, <3>1
  <2>4. QED
    BY <1>5, <1>6, <2>2, <2>3
<1>7. ASSUME NEW i \in 1..n + 1, NEW j \in 1..Len(s[i])
      PROVE  Off(f, i) + j \in 1..Len(c) /\ c[Off(f, i) + j] = s[i][j]
  <2>1. CASE i \in 1..n
    <3>1. Off(f, i) + j \in 1..Len(a) /\ a[Off(f, i) + j] = s[i][j]
      BY <1>3, <1>7, <2>1
    <3>2. QED
      BY <1>4, <3>1
  <2>2. CASE i = n + 1
    <3>1. j \in 1..Len(b) /\ s[i][j] = b[j] /\ Off(f, i) = Len(a)
      BY <1>2, <1>7, <2>2 DEF b
    <3>2. QED
      BY <1>4, <3>1
  <2>3. QED
    BY <1>5, <1>7, <2>1, <2>2
<1>8. ASSUME NEW m \in 1..Len(c)
      PROVE  \E i \in 1..n + 1 : \E j \in 1..Len(s[i]) : m = Off(f, i) + j
  <2>1. CASE m \in 1..Len(a)
    <3>1. PICK i \in 1..n : \E j \in 1..Len(s[i]) : m = Off(f, i) + j
      BY <1>3, <2>1
    <3>2. i \in 1..n + 1
      OBVIOUS
    <3>3. QED
      BY <3>1, <3>2
  <2>2. CASE m \notin 1..Len(a)
    <3>1. m - Len(a) \in 1..Len(b) /\ m = Len(a) + (m - Len(a))
      BY <1>4, <1>8, <2>2
    <3>2. \E j \in 1..Len(s[n + 1]) : m = Off(f, n + 1) + j
      BY <1>2, <3>1 DEF b
    <3>3. n + 1 \in 1..n + 1
      OBVIOUS
    <3>4. QED
      BY <3>2, <3>3
  <2>3. QED
    BY <2>1, <2>2
<1>9. QED
  BY <1>6, <1>7, <1>8 DEF Lies, c

LEMMA LiesAll ==
    ASSUME NEW T, NEW s \in Seq(Seq(T)), NEW n \in Nat, n = Len(s), NEW f, IsFlat(f, s, n)
    PROVE  \A k \in 1..n : Lies(f, s, k)
<1> DEFINE B == {k \in 1..n : ~ Lies(f, s, k)}
<1>1. SUFFICES ASSUME B # {} PROVE FALSE
  OBVIOUS
<1>2. PICK x \in B : \A y \in B : x <= y
  <2>1. B \subseteq Nat
    OBVIOUS
  <2> HIDE DEF B
  <2>2. QED
    BY <1>1, <2>1, SmallestNat, Zenon
<1>3. x \in 1..n /\ ~ Lies(f, s, x)
  OBVIOUS
<1>4. \A i \in 1..n : f[i] = IF i = 1 THEN s[i] ELSE f[i-1] \o s[i]
  BY FlatIs
<1>5. \A i \in 1..n : f[i] \in Seq(T)
  <2>1. n <= Len(s)
    OBVIOUS
  <2>2. QED
    BY <2>1, FlatTyped
<1>6. CASE x = 1
  BY <1>3, <1>4, <1>6, LiesFirst
<1>7. CASE x # 1
  <2>1. PICK k \in Nat \ {0} : x = k + 1
    BY <1>3, <1>7
  <2>2. k \in 1..n /\ k \notin B /\ k + 1 <= Len(s)
    BY <1>2, <1>3, <2>1
  <2>3. Lies(f, s, k)
    BY <2>2
  <2>4. \A i \in 1..k + 1 : f[i] \in Seq(T)
    BY <1>3, <1>5, <2>1
  <2>5. f[k + 1] = f[k] \o s[k + 1]
    <3>1. f[x] = f[x-1] \o s[x]
      BY <1>3, <1>4, <1>7
    <3>2. x - 1 = k
      BY <2>1
    <3>3. QED
      BY <2>1, <3>1, <3>2
  <2>6. Lies(f, s, k + 1)
    BY <2>2, <2>3, <2>4, <2>5, LiesNext
  <2>7. QED
    BY <1>3, <2>1, <2>6
<1>8. QED
  BY <1>6, <1>7

\* Each element of each part has a place in the whole, and no other element has
\* it; and each place is one of theirs.  They keep their order.
Placed(off, s, r) ==
    /\ \A i \in DOMAIN s : off[i] \in Nat
    /\ \A i, k \in DOMAIN s : i < k => off[i] + Len(s[i]) <= off[k]
    /\ \A i \in DOMAIN s : \A j \in DOMAIN s[i] :
            off[i] + j \in DOMAIN r /\ r[off[i] + j] = s[i][j]
    /\ \A i, k \in DOMAIN s : \A j \in DOMAIN s[i] : \A l \in DOMAIN s[k] :
            off[i] + j = off[k] + l => i = k /\ j = l
    /\ \A m \in DOMAIN r : \E i \in DOMAIN s : \E j \in DOMAIN s[i] : m = off[i] + j

LEMMA FlattenPlaces ==
    ASSUME NEW T, NEW s \in Seq(Seq(T))
    PROVE  \E off : Placed(off, s, FlattenSeq(s))
<1> DEFINE n == Len(s)
<1>1. n \in Nat /\ DOMAIN s = 1..n /\ \A i \in 1..n : s[i] \in Seq(T)
  OBVIOUS
<1>2. CASE n = 0
  <2>1. s = <<>>
    BY <1>2
  <2>2. FlattenSeq(s) = <<>>
    BY <2>1 DEF FlattenSeq
  <2>3. Placed(<<>>, s, <<>>)
    BY <2>1 DEF Placed
  <2>4. QED
    BY <2>2, <2>3
<1>3. CASE n # 0
  <2> HIDE DEF n
  <2>0. n = Len(s)
    BY DEF n
  <2>1. PICK f : IsFlat(f, s, n) /\ FlattenSeq(s) = f[n]
    BY <1>1, <1>3, <2>0, FlattenIs
  <2>2. /\ \A i \in 1..n : f[i] \in Seq(T)
        /\ \A i \in 1..n : f[i] = IF i = 1 THEN s[i] ELSE f[i-1] \o s[i]
    <3>1. n <= Len(s)
      BY <1>1, <2>0
    <3>2. \A i \in 1..n : f[i] \in Seq(T)
      BY <1>1, <2>1, <3>1, FlatTyped
    <3>3. \A i \in 1..n : f[i] = IF i = 1 THEN s[i] ELSE f[i-1] \o s[i]
      BY <1>1, <2>1, FlatIs
    <3>4. QED
      BY <3>2, <3>3
  <2>3. \A i \in 1..n : Lies(f, s, i)
    BY <1>1, <2>0, <2>1, LiesAll
  <2> DEFINE off == [i \in 1..n |-> Off(f, i)]
  <2>4. \A i \in 1..n : off[i] = Off(f, i)
    OBVIOUS
  <2> HIDE DEF off
  <2>5. \A i \in 1..n : DOMAIN s[i] = 1..Len(s[i]) /\ Len(s[i]) \in Nat
    BY <1>1
  <2>6. \A i \in 1..n : Off(f, i) \in Nat /\ Len(f[i]) = Off(f, i) + Len(s[i])
    <3>1. SUFFICES ASSUME NEW i \in 1..n PROVE Off(f, i) \in Nat /\ Len(f[i]) = Off(f, i) + Len(s[i])
      OBVIOUS
    <3>2. CASE i = 1
      <4>1. f[i] = s[i]
        BY <2>2, <3>2
      <4>2. QED
        BY <2>5, <3>2, <4>1 DEF Off
    <3>3. CASE i # 1
      <4>0. f[i] = IF i = 1 THEN s[i] ELSE f[i-1] \o s[i]
        BY <2>2
      <4>1. i - 1 \in 1..n /\ f[i] = f[i-1] \o s[i]
        BY <1>1, <3>3, <4>0
      <4>2. f[i-1] \in Seq(T) /\ s[i] \in Seq(T)
        BY <1>1, <2>2, <4>1
      <4>3. Len(f[i]) = Len(f[i-1]) + Len(s[i]) /\ Len(f[i-1]) \in Nat
        BY <4>1, <4>2, JoinedAt
      <4>4. QED
        BY <3>3, <4>3 DEF Off
    <3>4. QED
      BY <3>2, <3>3
  <2>7. \A i, k \in 1..n : i < k => Len(f[i]) <= Off(f, k)
    <3>1. SUFFICES ASSUME NEW i \in 1..n, NEW k \in 1..n, i < k PROVE Len(f[i]) <= Off(f, k)
      OBVIOUS
    <3>2. k - 1 \in 1..n /\ i \in 1..k - 1 /\ k # 1
      BY <1>1, <3>1
    <3>3. Lies(f, s, k - 1)
      BY <2>3, <3>2
    <3>4. QED
      BY <3>2, <3>3 DEF Lies, Off
  <2>8. ASSUME NEW i \in 1..n, NEW k \in 1..n, NEW j \in 1..Len(s[i]), NEW l \in 1..Len(s[k]),
               Off(f, i) + j = Off(f, k) + l
        PROVE  i = k /\ j = l
    <3>1. /\ Off(f, i) \in Nat /\ Len(f[i]) = Off(f, i) + Len(s[i]) /\ Len(s[i]) \in Nat
          /\ Off(f, k) \in Nat /\ Len(f[k]) = Off(f, k) + Len(s[k]) /\ Len(s[k]) \in Nat
          /\ i < k => Len(f[i]) <= Off(f, k)
          /\ k < i => Len(f[k]) <= Off(f, i)
      BY <2>5, <2>6, <2>7
    <3>2. i = k
      BY <1>1, <2>8, <3>1
    <3>3. QED
      BY <2>8, <3>1, <3>2
  <2>9. n \in 1..n
    BY <1>1, <1>3
  <2>10. f[n] \in Seq(T) /\ DOMAIN f[n] = 1..Len(f[n]) /\ Lies(f, s, n)
    BY <2>2, <2>3, <2>9
  <2>11. Placed(off, s, f[n])
    <3>1. \A i \in 1..n : \A j \in DOMAIN s[i] :
                off[i] + j \in DOMAIN f[n] /\ f[n][off[i] + j] = s[i][j]
      BY <2>4, <2>5, <2>10 DEF Lies
    <3>2. ASSUME NEW i \in 1..n, NEW k \in 1..n, NEW j \in DOMAIN s[i], NEW l \in DOMAIN s[k],
                 off[i] + j = off[k] + l
          PROVE  i = k /\ j = l
      <4>1. j \in 1..Len(s[i]) /\ l \in 1..Len(s[k]) /\ Off(f, i) + j = Off(f, k) + l
        BY <2>4, <2>5, <3>2
      <4>2. QED
        BY <2>8, <4>1, Zenon
    <3>3. ASSUME NEW m \in DOMAIN f[n] PROVE \E i \in 1..n : \E j \in DOMAIN s[i] : m = off[i] + j
      <4>1. PICK i \in 1..n : \E j \in 1..Len(s[i]) : m = Off(f, i) + j
        BY <2>10, <3>3, Zenon DEF Lies
      <4>2. off[i] = Off(f, i) /\ DOMAIN s[i] = 1..Len(s[i])
        BY <2>4, <2>5
      <4>3. QED
        BY <4>1, <4>2
    <3>4. \A i \in 1..n : off[i] \in Nat
      BY <2>4, <2>6
    <3>5. \A i, k \in 1..n : i < k => off[i] + Len(s[i]) <= off[k]
      <4>1. SUFFICES ASSUME NEW i \in 1..n, NEW k \in 1..n, i < k PROVE off[i] + Len(s[i]) <= off[k]
        OBVIOUS
      <4>2. Len(f[i]) = Off(f, i) + Len(s[i]) /\ Len(f[i]) <= Off(f, k)
        BY <2>6, <2>7, <4>1
      <4>3. QED
        BY <2>4, <4>2
    <3>6. QED
      BY <1>1, <3>1, <3>2, <3>3, <3>4, <3>5 DEF Placed
  <2>12. QED
    BY <2>1, <2>11
<1>4. QED
  BY <1>2, <1>3

-----------------------------------------------------------------------------
(* What is known of a class or an ID.                                      *)

\* What is known of a class or an ID: nothing before its assignment, and for a
\* steady variable that it stands for the member the lifter takes it for.
Named(sym) == sym.kind \in {"class", "id"}
SymsTyped ==
    /\ DOMAIN syms = Var /\ DOMAIN slots = Var /\ DOMAIN holds = Var
    /\ count \in Nat /\ \A v \in Var : holds[v] \in 0 .. count
    /\ DOMAIN means \subseteq 1 .. count
    /\ \A v \in Var : syms[v].kind = "class" => syms[v].member \in Member
SymsKnown == \A v \in Var \ assigned : ~Named(syms[v])
SymsTrue ==
    \A v \in Var \ unsteady :
        Named(syms[v]) /\ syms[v].member # NoMember => Stands(v) = syms[v].member
SymsInv == SymsTyped /\ SymsKnown /\ SymsTrue

\* A variable that resolves to a class or an ID has no local variable.
LEMMA ResolvedName ==
    ASSUME SymsTyped, NEW v \in Var \cup {NoVar}, Named(Resolve(v))
    PROVE  v \in Var /\ v # NoVar /\ Resolve(v) = syms[v]
<1>1. NoSym.kind = "none" /\ \A n : SlotRef(n).kind = "slot"
  BY DEF NoSym, Sym, SlotRef
<1>2. QED
  BY <1>1 DEF Resolve, Named

\* The value in a variable that is not assigned stands for what it stood for.
LEMMA StandsStays ==
    ASSUME SymsTyped, NEW w \in Var, holds'[w] = holds[w],
           \A n \in DOMAIN means : n \in DOMAIN means' /\ means'[n] = means[n],
           DOMAIN means' \subseteq DOMAIN means \cup {count + 1}
    PROVE  Stands(w)' = Stands(w)
<1>1. holds[w] \in 0 .. count /\ count \in Nat
  BY DEF SymsTyped
<1>2. holds[w] # count + 1
  BY <1>1
<1>3. holds[w] \in DOMAIN means' <=> holds[w] \in DOMAIN means
  BY <1>2
<1>4. QED
  BY <1>3 DEF Stands

LEMMA AssignsSyms ==
    ASSUME SymsInv, NEW v \in Var \cup {NoVar}, NEW from, Assigns(v, from), DOMAIN slots' = Var,
           UNCHANGED means \/ (v # NoVar /\ DOMAIN means' = DOMAIN means \cup {count + 1} /\
                               \A n \in DOMAIN means : means'[n] = means[n]),
           DOMAIN syms' = Var, \A w \in Var \ {v} : syms'[w] = syms[w],
           v # NoVar => /\ syms'[v].kind = "class" => syms'[v].member \in Member
                        /\ v \notin assigned /\ v \notin unsteady' /\ Named(syms'[v])
                           /\ syms'[v].member # NoMember => Stands(v)' = syms'[v].member
    PROVE  SymsInv'
<1>0. SymsTyped /\ SymsKnown /\ SymsTrue /\ NoVar \notin Var
  BY LifterAssumption DEF SymsInv
<1>1. /\ unsteady \subseteq unsteady' /\ assigned \subseteq assigned'
      /\ v # NoVar => /\ v \in assigned' /\ (v \in assigned => v \in unsteady')
                      /\ count' = count + 1 /\ holds' = [holds EXCEPT ![v] = count + 1]
      /\ v = NoVar => UNCHANGED <<count, holds, means, assigned, unsteady>>
  BY DEF Assigns
<1>2. /\ count' \in Nat /\ count <= count' /\ (v # NoVar => count + 1 \in 1 .. count')
      /\ DOMAIN holds' = Var /\ \A w \in Var : holds'[w] \in 0 .. count'
  <2>1. CASE v = NoVar
    BY <1>0, <1>1, <2>1 DEF SymsTyped
  <2>2. CASE v # NoVar
    BY <1>0, <1>1, <2>2 DEF SymsTyped
  <2>3. QED
    BY <2>1, <2>2
<1>3. /\ \A n \in DOMAIN means : n \in DOMAIN means' /\ means'[n] = means[n]
      /\ DOMAIN means' \subseteq DOMAIN means \cup {count + 1}
      /\ DOMAIN means' \subseteq 1 .. count'
  <2>1. DOMAIN means \subseteq 1 .. count'
    BY <1>0, <1>2 DEF SymsTyped
  <2>2. QED
    BY <1>2, <2>1
<1>4. \A w \in Var \ {v} : holds'[w] = holds[w]
  BY <1>0, <1>1 DEF SymsTyped
<1>5. SymsTyped'
  BY <1>0, <1>2, <1>3 DEF SymsTyped
<1>6. SymsKnown'
  BY <1>0, <1>1 DEF SymsKnown
<1>7. SymsTrue'
  <2>1. SUFFICES ASSUME NEW w \in Var, w \notin unsteady', Named(syms'[w]), syms'[w].member # NoMember
                 PROVE  Stands(w)' = syms'[w].member
    BY DEF SymsTrue, Named
  <2>2. CASE w = v
    BY <1>0, <1>1, <2>1, <2>2
  <2>3. CASE w # v
    <3>1. Stands(w)' = Stands(w)
      BY <1>0, <1>3, <1>4, <2>3, StandsStays
    <3>2. syms'[w] = syms[w] /\ w \notin unsteady
      BY <1>1, <2>1, <2>3
    <3>3. QED
      BY <1>0, <2>1, <3>1, <3>2 DEF SymsTrue
  <2>4. QED
    BY <2>2, <2>3
<1>8. QED
  BY <1>5, <1>6, <1>7 DEF SymsInv

LEMMA CopiesSyms ==
    ASSUME SymsInv, S.lhs \in Var \cup {NoVar}, S.recv \in Var, Copies, UNCHANGED means,
           slots' = slots \/ (Resolve(S.recv).kind = "slot" /\ DOMAIN slots' = Var /\ syms' = syms),
           syms' = syms \/ Believe(S.lhs, Resolve(S.recv))
    PROVE  SymsInv'
<1>1. PICK v \in Var \cup {NoVar}, u \in Var : v = S.lhs /\ u = S.recv
  OBVIOUS
<1>2. SymsTyped /\ SymsKnown /\ SymsTrue /\ NoVar \notin Var
  BY LifterAssumption DEF SymsInv
<1>3. /\ holds' = [holds EXCEPT ![v] = holds[u]] /\ count' = count /\ assigned' = assigned \cup {v}
      /\ unsteady \subseteq unsteady' /\ (v \in assigned \/ u \in unsteady => v \in unsteady')
  BY <1>1 DEF Copies
<1>4. DOMAIN slots' = Var
  BY <1>2 DEF SymsTyped
<1>5. /\ DOMAIN syms' = Var /\ \A w \in Var \ {v} : syms'[w] = syms[w]
      /\ v \in Var => syms'[v] = syms[v] \/ syms'[v] = Resolve(u)
  BY <1>1, <1>2 DEF Believe, SymsTyped
<1>6. \A w \in Var \ {v} : holds'[w] = holds[w]
  BY <1>2, <1>3 DEF SymsTyped
<1>7. v \in Var => holds'[v] = holds[u]
  BY <1>2, <1>3 DEF SymsTyped
<1>8. Named(Resolve(u)) => Resolve(u) = syms[u]
  BY <1>2, ResolvedName
<1>9. SymsTyped'
  <2>1. DOMAIN holds' = Var /\ \A w \in Var : holds'[w] \in 0 .. count
    BY <1>2, <1>3, <1>6, <1>7 DEF SymsTyped
  <2>2. \A w \in Var : syms'[w].kind = "class" => syms'[w].member \in Member
    BY <1>2, <1>5, <1>8 DEF SymsTyped, Named
  <2>3. QED
    BY <1>2, <1>3, <1>4, <1>5, <2>1, <2>2 DEF SymsTyped
<1>10. SymsKnown'
  BY <1>2, <1>3, <1>5 DEF SymsKnown
<1>11. SymsTrue'
  <2>1. SUFFICES ASSUME NEW w \in Var, w \notin unsteady', Named(syms'[w]), syms'[w].member # NoMember
                 PROVE  Stands(w)' = syms'[w].member
    BY DEF SymsTrue, Named
  <2>2. CASE w = v
    <3>1. v \notin assigned /\ u \notin unsteady
      BY <1>3, <2>1, <2>2
    <3>2. ~Named(syms[v])
      BY <1>2, <2>1, <2>2, <3>1 DEF SymsKnown
    <3>3. syms'[v] = syms[u] /\ Named(syms[u])
      BY <1>5, <1>8, <2>1, <2>2, <3>2
    <3>4. Stands(u) = syms[u].member
      BY <1>2, <2>1, <2>2, <3>1, <3>3 DEF SymsTrue
    <3>5. Stands(v)' = Stands(u)
      BY <1>2, <1>7, <2>1, <2>2 DEF Stands
    <3>6. QED
      BY <2>2, <3>3, <3>4, <3>5
  <2>3. CASE w # v
    <3>1. Stands(w)' = Stands(w)
      BY <1>2, <1>6, <2>3 DEF Stands
    <3>2. syms'[w] = syms[w] /\ w \notin unsteady
      BY <1>3, <1>5, <2>1, <2>3
    <3>3. QED
      BY <1>2, <2>1, <3>1, <3>2 DEF SymsTrue
  <2>4. QED
    BY <2>2, <2>3
<1>12. QED
  BY <1>9, <1>10, <1>11 DEF SymsInv

LEMMA OverSyms ==
    ASSUME SymsInv, UNCHANGED <<syms, slots, holds, count, means, assigned>>, unsteady \subseteq unsteady'
    PROVE  SymsInv'
<1>1. \A w \in Var : Stands(w)' = Stands(w)
  BY DEF Stands
<1>2. QED
  BY <1>1 DEF SymsInv, SymsTyped, SymsKnown, SymsTrue

\* GetMethodID and the like: the value stands for what the lifter takes it for.
LEMMA IDSyms ==
    ASSUME TodoInv, SymsInv, GetID \/ FindClass
    PROVE  SymsInv'
<1>1. todo # <<>> /\ S.op \in {"GetID", "FindClass"} /\ UNCHANGED slots /\ Means
  BY DEF GetID, FindClass, Walk, KeepSlots, Done
<1>2. /\ S.lhs \in Var \cup {NoVar} /\ S.recv \in Var \cup {NoVar} /\ S.member \in Member
      /\ NoVar \notin Var /\ NoMember \notin Member
      /\ SymsTyped /\ SymsKnown /\ SymsTrue /\ DOMAIN slots' = Var
  BY <1>1, HeadTyped, LifterAssumption DEF SymsInv, SymsTyped
<1>3. PICK v \in Var \cup {NoVar}, u \in Var \cup {NoVar}, x \in Member :
            v = S.lhs /\ u = S.recv /\ x = S.member
  BY <1>2
<1>4. PICK m : m = IF S.op = "GetID" /\ Stands(u) # NoMember
                   THEN [class |-> Stands(u).class, name |-> x.name] ELSE x
  OBVIOUS
<1>5. PICK from : Assigns(v, from) /\ (S.op = "GetID" => from = {u})
  <2>1. CASE GetID
    BY <1>3, <2>1 DEF GetID
  <2>2. CASE FindClass
    <3>1. S.op # "GetID"
      BY <2>2 DEF FindClass, Walk
    <3>2. QED
      BY <1>3, <2>2, <3>1 DEF FindClass
  <2>3. QED
    BY <2>1, <2>2
<1>6. CASE v = NoVar
  <2>1. means' = means /\ syms' = syms
    BY <1>1, <1>3, <1>6 DEF Means, GetID, FindClass, Believe
  <2>2. QED
    BY <1>1, <1>2, <1>5, <1>6, <2>1, AssignsSyms DEF SymsTyped
<1>7. CASE v # NoVar
  <2>1. means' = [n \in DOMAIN means \cup {count + 1} |-> IF n # count + 1 THEN means[n] ELSE m]
    BY <1>1, <1>3, <1>4, <1>7 DEF Means
  <2>2. count + 1 \notin DOMAIN means
    BY <1>2 DEF SymsTyped
  <2>3. /\ DOMAIN means' = DOMAIN means \cup {count + 1} /\ \A n \in DOMAIN means : means'[n] = means[n]
        /\ means'[count + 1] = m
    BY <2>1, <2>2
  <2>4. holds'[v] = count + 1 /\ (v \in assigned => v \in unsteady')
        /\ (S.op = "GetID" /\ u \in unsteady => v \in unsteady')
    BY <1>2, <1>5, <1>7 DEF Assigns, SymsTyped
  <2>5. Stands(v)' = m
    BY <1>7, <2>3, <2>4 DEF Stands
  <2>6. CASE GetID
    <3>1. S.op = "GetID"
      BY <2>6 DEF GetID, Walk
    <3>2. PICK z : /\ z = (IF Resolve(u).kind # "class" THEN Sym("id", NoMember)
                           ELSE IF ~S.known THEN Sym("owner", Resolve(u).member)
                           ELSE Sym("id", [class |-> Resolve(u).member.class, name |-> x.name]))
                   /\ syms' = [syms EXCEPT ![v] = z]
      BY <1>3, <1>7, <2>6 DEF GetID, Believe
    <3>3. syms'[v] = z /\ DOMAIN syms' = Var /\ \A w \in Var \ {v} : syms'[w] = syms[w]
      BY <1>2, <1>7, <3>2 DEF SymsTyped
    <3>4. \A kind, n : Sym(kind, n).kind = kind /\ Sym(kind, n).member = n
      BY DEF Sym
    <3>5. z.kind # "class"
      BY <3>2, <3>4
    <3>6. ASSUME v \notin unsteady', Named(z), z.member # NoMember PROVE m = z.member
      <4>1. Resolve(u).kind = "class" /\ z.member = [class |-> Resolve(u).member.class, name |-> x.name]
        BY <3>2, <3>4, <3>6 DEF Named
      <4>2. u \in Var /\ Resolve(u) = syms[u]
        BY <1>2, <4>1, ResolvedName DEF Named
      <4>3. syms[u].member \in Member /\ u \notin unsteady
        BY <1>2, <2>4, <3>1, <3>6, <4>1, <4>2 DEF SymsTyped
      <4>4. Stands(u) = syms[u].member
        BY <1>2, <4>1, <4>2, <4>3 DEF SymsTrue, Named
      <4>5. QED
        BY <1>2, <1>4, <3>1, <4>1, <4>2, <4>3, <4>4
    <3>7. QED
      BY <1>2, <1>5, <1>7, <2>3, <2>5, <3>3, <3>5, <3>6, AssignsSyms
  <2>7. CASE FindClass
    <3>1. S.op = "FindClass"
      BY <2>7 DEF FindClass, Walk
    <3>2. m = x
      BY <1>4, <3>1
    <3>3. syms' = syms \/ syms' = [syms EXCEPT ![v] = Sym("class", x)]
      BY <1>3, <1>7, <2>7 DEF FindClass, Believe
    <3>4. DOMAIN syms' = Var /\ \A w \in Var \ {v} : syms'[w] = syms[w]
      BY <1>2, <3>3 DEF SymsTyped
    <3>5. syms'[v] = syms[v] \/ syms'[v] = Sym("class", x)
      BY <1>2, <1>7, <3>3 DEF SymsTyped
    <3>6. syms'[v] = Sym("class", x) => syms'[v].kind = "class" /\ syms'[v].member = x
      BY DEF Sym
    <3>7. syms'[v] = syms[v] => (syms[v].kind = "class" => syms[v].member \in Member)
                                /\ (v \notin assigned => ~Named(syms[v]))
      BY <1>2, <1>7 DEF SymsTyped, SymsKnown
    <3>8. QED
      BY <1>2, <1>5, <1>7, <2>3, <2>5, <3>2, <3>4, <3>5, <3>6, <3>7, AssignsSyms
  <2>8. QED
    BY <2>6, <2>7
<1>8. QED
  BY <1>6, <1>7

LEMMA SymsStep ==
    ASSUME TodoInv, SymsInv, [Next]_vars
    PROVE  SymsInv'
<1>0. SymsTyped
  BY DEF SymsInv
<1>1. CASE GetID \/ FindClass
  BY <1>1, IDSyms
<1>2. CASE NewString \/ NewObject \/ Call \/ ExceptionCheck \/ Opaque \/ GetField
  <2>1. /\ todo # <<>> /\ S.op \notin {"FindClass", "GetID"} /\ Means
    BY <1>2 DEF NewString, NewObject, Call, ExceptionCheck, Opaque, GetField, Walk, Reads, Makes, Done
  <2>2. UNCHANGED means
    BY <2>1 DEF Means
  <2>3. PICK v \in Var \cup {NoVar} : v = S.lhs
    BY <2>1, HeadTyped
  <2>4. \E from : Assigns(v, from)
    BY <1>2, <2>3 DEF NewString, NewObject, Call, ExceptionCheck, Opaque, GetField
  <2>5. UNCHANGED syms \/ \E b : Believe(v, b) /\ ~Named(b)
    <3>1. ~Named(Sym("string", NoMember)) /\ ~Named(Sym("object", NoMember))
      BY DEF Sym, Named
    <3>2. QED
      BY <1>2, <2>3, <3>1 DEF NewString, NewObject, Call, ExceptionCheck, Opaque, GetField
  <2>6. /\ DOMAIN syms' = Var /\ \A w \in Var \ {v} : syms'[w] = syms[w]
        /\ v # NoVar => syms'[v] = syms[v] \/ ~Named(syms'[v])
    BY <1>0, <2>5 DEF Believe, SymsTyped
  <2>7. v # NoVar => /\ syms'[v].kind = "class" => syms'[v].member \in Member
                     /\ v \notin assigned => ~Named(syms'[v])
    BY <1>0, <2>3, <2>6 DEF SymsInv, SymsKnown, SymsTyped, Named
  <2>8. DOMAIN slots' = Var
    BY <1>0, <1>2 DEF NewString, NewObject, Call, ExceptionCheck, Opaque, GetField, KeepSlots, SymsTyped
  <2>9. QED
    BY <2>2, <2>4, <2>6, <2>7, <2>8, AssignsSyms
<1>3. CASE NewRef \/ Copy
  <2>1. todo # <<>> /\ S.op \notin {"FindClass", "GetID"} /\ Means /\ Copies /\ S.op \in {"NewRef", "Copy"}
    BY <1>3 DEF NewRef, Copy, Walk, Done
  <2>2. S.lhs \in Var \cup {NoVar} /\ S.recv \in Var /\ UNCHANGED means
    BY <2>1, HeadTyped DEF Means
  <2>3. slots' = slots \/ (Resolve(S.recv).kind = "slot" /\ DOMAIN slots' = Var /\ syms' = syms)
    BY <1>0, <1>3 DEF NewRef, Copy, KeepSlots, SymsTyped
  <2>4. syms' = syms \/ Believe(S.lhs, Resolve(S.recv))
    BY <1>3 DEF NewRef, Copy
  <2>5. QED
    BY <2>1, <2>2, <2>3, <2>4, CopiesSyms
<1>4. CASE SkipGuard \/ SkipTested \/ SkipCacheInit \/ IfGoto \/ IfBoth
  <2>1. UNCHANGED <<syms, slots, holds, count, means, assigned>> /\ unsteady \subseteq unsteady'
    BY <1>4 DEF SkipGuard, SkipTested, SkipCacheInit, IfGoto, IfBoth, Over, Unsettles, Instead
  <2>2. QED
    BY <2>1, OverSyms
<1>5. CASE SetField \/ Throw \/ LabelHere \/ Goto \/ Return
  <2>1. S.op \notin {"FindClass", "GetID"} /\ Means
    BY <1>5 DEF SetField, Throw, LabelHere, Goto, Return, Walk, Writes, Done
  <2>2. UNCHANGED <<syms, slots, holds, count, assigned>> /\ unsteady \subseteq unsteady'
    BY <1>5 DEF SetField, Throw, LabelHere, Goto, Return, KeepSlots
  <2>3. QED
    BY <2>1, <2>2, OverSyms DEF Means
<1>6. CASE EndOfText \/ Clean \/ Close \/ UNCHANGED vars
  <2>1. UNCHANGED <<syms, slots, holds, count, means, assigned>> /\ unsteady \subseteq unsteady'
    BY <1>6 DEF EndOfText, Clean, Close, vars, beliefs, truth
  <2>2. QED
    BY <2>1, OverSyms
<1>7. QED
  BY <1>1, <1>2, <1>3, <1>4, <1>5, <1>6 DEF Next

LEMMA SymsInit == Init => SymsInv
<1>1. SUFFICES ASSUME Init PROVE SymsInv
  OBVIOUS
<1>2. /\ syms = [v \in Var |-> NoSym] /\ slots = ParamSlots(static /\ listed) /\ count = 1 + Len(Params)
      /\ holds = [v \in Var |-> ParamValue(v)] /\ means = <<>>
  BY <1>1 DEF Init
<1>3. ~Named(NoSym)
  BY DEF Named, NoSym, Sym
<1>4. /\ Len(Params) \in Nat /\ DOMAIN Params = 1 .. Len(Params)
  BY LifterAssumption
<1>5. ASSUME NEW v \in Var PROVE ParamValue(v) \in 0 .. count
  <2>1. CASE \E n \in DOMAIN Params : Params[n] = v
    <3>1. (CHOOSE n \in DOMAIN Params : Params[n] = v) \in DOMAIN Params
      BY <2>1
    <3>2. QED
      BY <1>2, <1>4, <2>1, <3>1 DEF ParamValue
  <2>2. CASE ~ \E n \in DOMAIN Params : Params[n] = v
    BY <1>2, <1>4, <2>2 DEF ParamValue
  <2>3. QED
    BY <2>1, <2>2
<1>6. DOMAIN slots = Var
  BY <1>2 DEF ParamSlots
<1>7. SymsTyped
  BY <1>2, <1>3, <1>4, <1>5, <1>6 DEF SymsTyped, Named
<1>8. QED
  BY <1>2, <1>3, <1>7 DEF SymsInv, SymsKnown, SymsTrue

-----------------------------------------------------------------------------
(* Which error text goes with which access.                                *)

\* The error texts.  What is pending is a statement of the text still to come,
\* at any depth, with an error text of its own.
Pending(td, ops) == {p \in DOMAIN td : td[p].hint /\ td[p].op \in ops}
KindsOf(ops) == {KindOf(op) : op \in ops}

\* e tells the place of the text of each pending statement, in their order; as
\* long as a kind fits, the index is at none of them later, and what else lies
\* ahead of it is of another kind.
Places(e, hints, td, ops) ==
    /\ \A p \in Pending(td, ops) : e[p] \in DOMAIN hints /\ hints[e[p]] = td[p]
    /\ \A p, q \in Pending(td, ops) : p < q => e[p] < e[q]
Ahead(e, hints, td, ops, at, k) ==
    /\ \A p \in Pending(td, ops) : at <= e[p]
    /\ \A j \in DOMAIN hints : at <= j /\ KindOf(hints[j].op) = k => \E p \in Pending(td, ops) : e[p] = j
Tracks(hints, td, ops, at, fit) ==
    \E e : /\ Places(e, hints, td, ops)
           /\ \A k \in KindsOf(ops) : fit[k] => Ahead(e, hints, td, ops, at, k)

\* The next text of a kind, if there is one
IsNext(hints, at, k, next) ==
    (\E j \in DOMAIN hints : at <= j /\ KindOf(hints[j].op) = k) =>
        /\ next \in DOMAIN hints /\ at <= next /\ KindOf(hints[next].op) = k
        /\ \A j \in DOMAIN hints : at <= j /\ KindOf(hints[j].op) = k => next <= j

\* How the pending statements of a text lie in those of the text before it.
Moves(t, td, td2, ops) ==
    /\ \A p \in Pending(td2, ops) : t[p] \in Pending(td, ops) /\ td[t[p]] = td2[p]
    /\ \A p, q \in Pending(td2, ops) : p < q => t[p] < t[q]

LEMMA PlacesMove ==
    ASSUME NEW hints, NEW td, NEW td2, NEW ops, NEW e, NEW e2, NEW t,
           Places(e, hints, td, ops), Moves(t, td, td2, ops),
           \A p \in Pending(td2, ops) : e2[p] = e[t[p]]
    PROVE  Places(e2, hints, td2, ops)
<1>1. ASSUME NEW p \in Pending(td2, ops) PROVE e2[p] \in DOMAIN hints /\ hints[e2[p]] = td2[p]
  <2>1. t[p] \in Pending(td, ops) /\ td[t[p]] = td2[p]
    BY DEF Moves
  <2>2. QED
    BY <2>1 DEF Places
<1>2. ASSUME NEW p \in Pending(td2, ops), NEW q \in Pending(td2, ops), p < q PROVE e2[p] < e2[q]
  <2>1. t[p] \in Pending(td, ops) /\ t[q] \in Pending(td, ops) /\ t[p] < t[q]
    BY <1>2 DEF Moves
  <2>2. QED
    BY <2>1 DEF Places
<1>3. QED
  BY <1>1, <1>2 DEF Places

LEMMA TracksOn ==
    ASSUME NEW hints, NEW td, NEW td2, NEW ops, NEW at, NEW at2, NEW fit, NEW fit2,
           Tracks(hints, td, ops, at, fit), NEW t, Moves(t, td, td2, ops),
           \A k \in KindsOf(ops) : fit2[k] =>
                /\ fit[k] /\ at2 = at
                /\ \A q \in Pending(td, ops) : KindOf(td[q].op) = k =>
                        \E p \in Pending(td2, ops) : t[p] = q
    PROVE  Tracks(hints, td2, ops, at2, fit2)
<1>1. PICK e : /\ Places(e, hints, td, ops)
               /\ \A k \in KindsOf(ops) : fit[k] => Ahead(e, hints, td, ops, at, k)
  BY Zenon DEF Tracks
<1> DEFINE e2 == [p \in Pending(td2, ops) |-> e[t[p]]]
<1>2. \A p \in Pending(td2, ops) : e2[p] = e[t[p]]
  OBVIOUS
<1> HIDE DEF e2
<1>3. Places(e2, hints, td2, ops)
  BY <1>1, <1>2, PlacesMove
<1>4. ASSUME NEW k \in KindsOf(ops), fit2[k] PROVE Ahead(e2, hints, td2, ops, at2, k)
  <2>1. fit[k] /\ at2 = at /\ Ahead(e, hints, td, ops, at, k)
    BY <1>1, <1>4
  <2>2. \A p \in Pending(td2, ops) : at2 <= e2[p]
    BY <1>2, <2>1 DEF Ahead, Moves
  <2>3. ASSUME NEW j \in DOMAIN hints, at2 <= j, KindOf(hints[j].op) = k
        PROVE  \E p \in Pending(td2, ops) : e2[p] = j
    <3>1. PICK q \in Pending(td, ops) : e[q] = j
      BY <2>1, <2>3 DEF Ahead
    <3>2. KindOf(td[q].op) = k
      BY <1>1, <2>3, <3>1 DEF Places
    <3>3. PICK p \in Pending(td2, ops) : t[p] = q
      BY <1>4, <3>2
    <3>4. QED
      BY <1>2, <3>1, <3>3
  <2>4. QED
    BY <2>2, <2>3 DEF Ahead
<1>5. QED
  BY <1>3, <1>4, Zenon DEF Tracks

\* What is cut out of a text keeps its order.
MovesAll(t, td, td2, ops, n, x, y) ==
    /\ Moves(t, td, td2, ops)
    /\ \A q \in Pending(td, ops) :
            q \in x + 1..x + n \/ n + y < q => \E p \in Pending(td2, ops) : t[p] = q
    /\ \A p \in Pending(td2, ops) : t[p] # 1

LEMMA CutMoves ==
    ASSUME NEW td \in Seq(Statement), NEW td2, NEW n, NEW x, NEW y, Cut(td, td2, n, x, y), NEW ops
    PROVE  \E t : MovesAll(t, td, td2, ops, n, x, y)
<1>1. /\ n \in Nat /\ x \in Nat \ {0} /\ y \in Nat /\ x <= y
      /\ td2 \in Seq(Statement) /\ Len(td) = Len(td2) + y /\ n <= Len(td2)
      /\ \A i \in 1..n : td2[i] = td[i + x]
      /\ \A i \in n + 1..Len(td2) : td2[i] = td[i + y]
  BY DEF Cut
<1>2. PICK l \in Nat : l = Len(td2)
  BY <1>1
<1>3. DOMAIN td2 = 1..l /\ DOMAIN td = 1..l + y /\ n <= l
  <2>1. DOMAIN td2 = 1..Len(td2) /\ DOMAIN td = 1..Len(td)
    BY <1>1
  <2>2. QED
    BY <1>1, <1>2, <2>1
<1> DEFINE t == [i \in 1..l |-> IF i <= n THEN i + x ELSE i + y]
<1>4. \A i \in 1..l : t[i] = IF i <= n THEN i + x ELSE i + y
  OBVIOUS
<1> HIDE DEF t
<1>5. \A i \in 1..l : /\ t[i] \in 1..l + y /\ t[i] # 1 /\ td[t[i]] = td2[i]
                      /\ t[i] = (IF i <= n THEN i + x ELSE i + y)
  <2>1. SUFFICES ASSUME NEW i \in 1..l
                 PROVE  t[i] \in 1..l + y /\ t[i] # 1 /\ td[t[i]] = td2[i]
    BY <1>4
  <2>2. CASE i <= n
    <3>1. t[i] = i + x /\ td2[i] = td[i + x]
      BY <1>1, <1>4, <2>2
    <3>2. i + x \in 1..l + y /\ i + x # 1
      BY <1>1, <1>3, <2>2
    <3>3. QED
      BY <3>1, <3>2
  <2>3. CASE ~(i <= n)
    <3>1. t[i] = i + y /\ td2[i] = td[i + y]
      BY <1>1, <1>2, <1>4, <2>3
    <3>2. i + y \in 1..l + y /\ i + y # 1
      BY <1>1, <1>3, <2>3
    <3>3. QED
      BY <3>1, <3>2
  <2>4. QED
    BY <2>2, <2>3
<1>6. \A i \in 1..l, j \in 1..l : i < j => t[i] < t[j]
  BY <1>1, <1>4
<1>7. \A p \in Pending(td2, ops) : p \in 1..l /\ td2[p].hint /\ td2[p].op \in ops
  BY <1>3 DEF Pending
<1>8. Moves(t, td, td2, ops) /\ \A p \in Pending(td2, ops) : t[p] # 1
  BY <1>3, <1>5, <1>6, <1>7 DEF Moves, Pending
<1>9. ASSUME NEW q \in Pending(td, ops), q \in x + 1..x + n \/ n + y < q
      PROVE  \E p \in Pending(td2, ops) : t[p] = q
  <2>1. q \in 1..l + y /\ td[q].hint /\ td[q].op \in ops
    BY <1>3 DEF Pending
  <2>2. PICK p \in 1..l : t[p] = q
    <3>1. CASE q \in x + 1..x + n
      <4>1. q - x \in 1..l /\ q - x <= n /\ (q - x) + x = q
        BY <1>1, <1>3, <3>1
      <4>2. QED
        BY <1>4, <4>1
    <3>2. CASE n + y < q
      <4>1. q - y \in 1..l /\ ~(q - y <= n) /\ (q - y) + y = q
        BY <1>1, <1>3, <2>1, <3>2
      <4>2. QED
        BY <1>4, <4>1
    <3>3. QED
      BY <1>9, <3>1, <3>2
  <2>3. td2[p] = td[q]
    BY <1>5, <2>2
  <2>4. QED
    BY <1>3, <2>1, <2>2, <2>3 DEF Pending
<1>10. QED
  BY <1>8, <1>9 DEF MovesAll

\* A statement is passed.
LEMMA TailMoves ==
    ASSUME NEW td \in Seq(Statement), td # <<>>, NEW ops
    PROVE  \E t : /\ Moves(t, td, Tail(td), ops)
                  /\ \A q \in Pending(td, ops) : q # 1 => \E p \in Pending(Tail(td), ops) : t[p] = q
                  /\ \A p \in Pending(Tail(td), ops) : t[p] # 1
<1>1. Cut(td, Tail(td), 0, 1, 1)
  BY TailCuts
<1>0. PICK td2, n, x, y : td2 = Tail(td) /\ n = 0 /\ x = 1 /\ y = 1
  OBVIOUS
<1>2. PICK t : MovesAll(t, td, td2, ops, n, x, y)
  <2>1. Cut(td, td2, n, x, y)
    BY <1>0, <1>1
  <2>2. QED
    BY <2>1, CutMoves
<1>3. \A q \in Pending(td, ops) : q # 1 => 0 + 1 < q
  BY DEF Pending
<1>4. n + y = 0 + 1
  BY <1>0
<1>5. QED
  BY <1>0, <1>2, <1>3, <1>4 DEF MovesAll

\* The next text of its kind is used by the statement it belongs to, or, where
\* its kind does not fit, is not beyond the place of that one.
Uses(hints, td, ops, at, at2, fit, next) ==
    /\ td \in Seq(Statement) /\ td # <<>> /\ at \in Nat /\ DOMAIN hints \subseteq Nat
    /\ Tracks(hints, td, ops, at, fit)
    /\ td[1].hint /\ td[1].op \in ops
    /\ IsNext(hints, at, KindOf(td[1].op), next)
    /\ next \in DOMAIN hints => at2 = next + 1

LEMMA TracksUse ==
    ASSUME NEW td, NEW ops, NEW hints, NEW at, NEW at2, NEW fit, NEW next,
           Uses(hints, td, ops, at, at2, fit, next)
    PROVE  /\ Tracks(hints, Tail(td), ops, at2, fit)
           /\ fit[KindOf(td[1].op)] => next \in DOMAIN hints /\ hints[next] = td[1]
<1>0. /\ td \in Seq(Statement) /\ td # <<>> /\ at \in Nat /\ DOMAIN hints \subseteq Nat
      /\ Tracks(hints, td, ops, at, fit)
      /\ td[1].hint /\ td[1].op \in ops
      /\ IsNext(hints, at, KindOf(td[1].op), next)
      /\ next \in DOMAIN hints => at2 = next + 1
  BY DEF Uses
<1>1. PICK e : /\ Places(e, hints, td, ops)
               /\ \A k \in KindsOf(ops) : fit[k] => Ahead(e, hints, td, ops, at, k)
  BY <1>0, Zenon DEF Tracks
<1> DEFINE k0 == KindOf(td[1].op)
<1>2. 1 \in Pending(td, ops) /\ k0 \in KindsOf(ops)
  BY <1>0 DEF Pending, KindsOf
<1>3. PICK t : /\ Moves(t, td, Tail(td), ops)
               /\ \A q \in Pending(td, ops) : q # 1 => \E p \in Pending(Tail(td), ops) : t[p] = q
               /\ \A p \in Pending(Tail(td), ops) : t[p] # 1
  BY <1>0, TailMoves
<1>4. \A q \in Pending(td, ops) : q = 1 \/ (q # 1 /\ 1 < q)
  BY <1>0 DEF Pending
<1> DEFINE e2 == [p \in Pending(Tail(td), ops) |-> e[t[p]]]
<1>5. \A p \in Pending(Tail(td), ops) : e2[p] = e[t[p]]
  OBVIOUS
<1> HIDE DEF e2
<1>6. \A p \in Pending(Tail(td), ops) : t[p] # 1 /\ e[1] < e[t[p]]
  <2>1. SUFFICES ASSUME NEW p \in Pending(Tail(td), ops) PROVE t[p] # 1 /\ e[1] < e[t[p]]
    OBVIOUS
  <2>2. t[p] \in Pending(td, ops)
    BY <1>3 DEF Moves
  <2>3. t[p] # 1
    BY <1>2, <1>3
  <2>4. QED
    BY <1>1, <1>2, <1>4, <2>2, <2>3 DEF Places
<1>7. Places(e2, hints, Tail(td), ops)
  BY <1>1, <1>3, <1>5, PlacesMove
<1>8. ASSUME NEW k \in KindsOf(ops), fit[k]
      PROVE  /\ Ahead(e, hints, td, ops, at, k) /\ next \in DOMAIN hints /\ at <= next /\ next <= e[1]
             /\ e[1] \in DOMAIN hints /\ hints[e[1]] = td[1] /\ at2 = next + 1
  <2>1. Ahead(e, hints, td, ops, at, k)
    BY <1>1, <1>8
  <2>2. at <= e[1] /\ e[1] \in DOMAIN hints /\ hints[e[1]] = td[1]
    BY <1>1, <1>2, <2>1 DEF Ahead, Places
  <2>3. QED
    BY <1>0, <2>1, <2>2 DEF IsNext
<1>9. ASSUME fit[k0] PROVE next = e[1]
  <2>1. Ahead(e, hints, td, ops, at, k0) /\ next \in DOMAIN hints /\ at <= next /\ next <= e[1]
    BY <1>2, <1>8, <1>9
  <2>2. e[1] \in DOMAIN hints /\ hints[e[1]] = td[1] /\ at <= e[1]
    BY <1>2, <1>8, <1>9, <2>1 DEF Ahead
  <2>3. KindOf(hints[next].op) = k0
    BY <1>0, <2>2 DEF IsNext
  <2>4. PICK q \in Pending(td, ops) : e[q] = next
    BY <2>1, <2>3 DEF Ahead
  <2>5. e[1] \in Nat /\ next \in Nat
    BY <1>0, <2>1, <2>2
  <2>6. q = 1 \/ e[1] < e[q]
    BY <1>1, <1>2, <1>4, <2>4 DEF Places
  <2>7. QED
    BY <2>1, <2>4, <2>5, <2>6
<1>10. ASSUME NEW k \in KindsOf(ops), fit[k] PROVE Ahead(e2, hints, Tail(td), ops, at2, k)
  <2>1. /\ Ahead(e, hints, td, ops, at, k) /\ next \in DOMAIN hints /\ at <= next /\ next <= e[1]
        /\ e[1] \in DOMAIN hints /\ hints[e[1]] = td[1] /\ at2 = next + 1
    BY <1>8, <1>10
  <2>2. next \in Nat /\ e[1] \in Nat
    BY <1>0, <2>1
  <2>3. ASSUME NEW p \in Pending(Tail(td), ops) PROVE at2 <= e2[p]
    <3>1. e2[p] = e[t[p]] /\ e[1] < e[t[p]] /\ e[t[p]] \in Nat
      BY <1>0, <1>1, <1>3, <1>5, <1>6 DEF Moves, Places
    <3>2. QED
      BY <2>1, <2>2, <3>1
  <2>4. ASSUME NEW j \in DOMAIN hints, at2 <= j, KindOf(hints[j].op) = k
        PROVE  \E p \in Pending(Tail(td), ops) : e2[p] = j
    <3>1. j \in Nat /\ at <= j
      BY <1>0, <2>1, <2>2, <2>4
    <3>2. PICK q \in Pending(td, ops) : e[q] = j
      BY <2>1, <2>4, <3>1 DEF Ahead
    <3>3. q # 1
      <4>1. SUFFICES ASSUME q = 1 PROVE FALSE
        OBVIOUS
      <4>2. k = k0
        BY <2>1, <2>4, <3>2, <4>1
      <4>3. next = e[1]
        BY <1>9, <1>10, <4>2
      <4>4. QED
        BY <2>1, <2>2, <2>4, <3>1, <3>2, <4>1, <4>3
    <3>4. PICK p \in Pending(Tail(td), ops) : t[p] = q
      BY <1>3, <1>4, <3>3
    <3>5. QED
      BY <1>5, <3>2, <3>4
  <2>5. QED
    BY <2>3, <2>4 DEF Ahead
<1>11. Tracks(hints, Tail(td), ops, at2, fit)
  BY <1>7, <1>10, Zenon DEF Tracks
<1>12. fit[k0] => next \in DOMAIN hints /\ hints[next] = td[1]
  BY <1>2, <1>8, <1>9
<1>13. QED
  BY <1>11, <1>12

\* What has a text of its own and is passed over spoils its kind.
Spoils(over, ops, fit, fit2) ==
    \A k \in KindsOf(ops) : fit2[k] =>
        fit[k] /\ \A i \in DOMAIN over : over[i].hint => KindOf(over[i].op) # k

LEMMA TracksInto ==
    ASSUME NEW td \in Seq(Statement), NEW td2, NEW n, NEW x, NEW y, Cut(td, td2, n, x, y), NEW ops,
           NEW over, Omits(td, over, n, x, y),
           NEW hints, NEW at, NEW fit, NEW fit2, Tracks(hints, td, ops, at, fit), td[1].op \notin ops,
           Spoils(over, ops, fit, fit2)
    PROVE  Tracks(hints, td2, ops, at, fit2)
<1>0. PICK t : MovesAll(t, td, td2, ops, n, x, y)
  BY CutMoves
<1>1. /\ Moves(t, td, td2, ops)
      /\ \A q \in Pending(td, ops) :
            q \in x + 1..x + n \/ n + y < q => \E p \in Pending(td2, ops) : t[p] = q
  BY <1>0 DEF MovesAll
<1>2. ASSUME NEW k \in KindsOf(ops), fit2[k], NEW q \in Pending(td, ops), KindOf(td[q].op) = k
      PROVE  q \in x + 1..x + n \/ n + y < q
  <2>1. q \in DOMAIN td /\ td[q].hint /\ td[q].op \in ops /\ q \in Nat \ {0} /\ q # 1
    BY DEF Pending
  <2>2. n + y \in Nat
    BY DEF Cut
  <2>3. SUFFICES ASSUME ~(n + y < q) PROVE q \in x + 1..x + n
    OBVIOUS
  <2>4. q \in 2..n + y
    BY <2>1, <2>2, <2>3
  <2>5. \A i \in DOMAIN over : over[i] # td[q]
    BY <1>2, <2>1 DEF Spoils
  <2>6. QED
    BY <2>4, <2>5 DEF Omits
<1>3. QED
  BY <1>1, <1>2, TracksOn DEF Spoils

LEMMA TracksPast ==
    ASSUME NEW td \in Seq(Statement), td # <<>>, NEW ops,
           NEW hints, NEW at, NEW at2, NEW fit, NEW fit2, Tracks(hints, td, ops, at, fit),
           \A k \in KindsOf(ops) : fit2[k] =>
                fit[k] /\ at2 = at /\ (td[1].hint /\ td[1].op \in ops => KindOf(td[1].op) # k)
    PROVE  Tracks(hints, Tail(td), ops, at2, fit2)
<1>1. PICK t : /\ Moves(t, td, Tail(td), ops)
               /\ \A q \in Pending(td, ops) : q # 1 => \E p \in Pending(Tail(td), ops) : t[p] = q
  BY TailMoves
<1>2. ASSUME NEW k \in KindsOf(ops), fit2[k], NEW q \in Pending(td, ops), KindOf(td[q].op) = k
      PROVE  q # 1
  BY <1>2 DEF Pending
<1>3. QED
  BY <1>1, <1>2, TracksOn

FieldOps == Reads \cup Writes
HintTyped ==
    /\ invokeHints \in Seq({s \in Statement : s.op \in Invokes})
    /\ fieldHints \in Seq({s \in Statement : s.op \in FieldOps})
    /\ invokeAt \in Nat \ {0} /\ fieldAt \in Nat \ {0}
    /\ DOMAIN fits = {"invoke", "read", "assign"}
HintInv ==
    /\ HintTyped
    /\ Tracks(invokeHints, todo, Invokes, invokeAt, fits)
    /\ Tracks(fieldHints, todo, FieldOps, fieldAt, fits)

LEMMA OpKinds ==
    /\ KindsOf(Invokes) = {"invoke"} /\ KindsOf(FieldOps) = {"read", "assign"}
    /\ Accesses = Invokes \cup FieldOps /\ Invokes \cap FieldOps = {}
    /\ \A op \in Invokes : KindOf(op) = "invoke"
    /\ \A op \in FieldOps : KindOf(op) \in {"read", "assign"}
BY DEF KindsOf, KindOf, FieldOps, Invokes, Reads, Writes, Accesses

\* The next text about a field of a kind
LEMMA NextFieldIs ==
    ASSUME HintTyped, NEW k
    PROVE  NextField(k) \in Nat \ {0} /\ IsNext(fieldHints, fieldAt, k, NextField(k))
<1> DEFINE ahead == {i \in fieldAt .. Len(fieldHints): KindOf(fieldHints[i].op) = k}
<1>1. fieldAt \in Nat \ {0} /\ Len(fieldHints) \in Nat /\ DOMAIN fieldHints = 1..Len(fieldHints)
  BY DEF HintTyped
<1>2. ahead \subseteq Nat /\ ahead \subseteq DOMAIN fieldHints
      /\ \A j \in DOMAIN fieldHints : fieldAt <= j /\ KindOf(fieldHints[j].op) = k => j \in ahead
  BY <1>1
<1>3. NextField(k) = IF ahead = {} THEN Len(fieldHints) + 1 ELSE Min(ahead)
  BY DEF NextField
<1>4. \A i \in ahead : fieldAt <= i /\ KindOf(fieldHints[i].op) = k
  BY <1>1
<1> HIDE DEF ahead
<1>5. CASE ahead = {}
  BY <1>1, <1>2, <1>3, <1>5 DEF IsNext
<1>6. CASE ahead # {}
  <2>1. \E x \in ahead : \A y \in ahead : x <= y
    BY <1>2, <1>6, SmallestNat
  <2>2. Min(ahead) \in ahead /\ \A y \in ahead : Min(ahead) <= y
    BY <2>1 DEF Min
  <2>3. PICK n : n = NextField(k) /\ n \in ahead /\ \A y \in ahead : n <= y
    BY <1>3, <1>6, <2>2
  <2>4. n \in DOMAIN fieldHints /\ n \in Nat \ {0} /\ fieldAt <= n /\ KindOf(fieldHints[n].op) = k
    BY <1>1, <1>2, <1>4, <2>3
  <2>5. \A j \in DOMAIN fieldHints : fieldAt <= j /\ KindOf(fieldHints[j].op) = k => n <= j
    BY <1>2, <2>3
  <2>6. QED
    BY <2>3, <2>4, <2>5 DEF IsNext
<1>7. QED
  BY <1>5, <1>6

\* An access that no variable and no cacheTable tells: as long as its kind fits,
\* the next text is its own.
LEMMA OwnText ==
    ASSUME TodoInv, HintInv, todo # <<>>, S.op \in Accesses, ~Told(S), Fits(S)[KindOf(S.op)]
    PROVE  IF S.op \in Invokes THEN invokeAt \in DOMAIN invokeHints /\ invokeHints[invokeAt] = S
           ELSE /\ NextField(KindOf(S.op)) \in DOMAIN fieldHints
                /\ fieldHints[NextField(KindOf(S.op))] = S
<1> DEFINE k == KindOf(S.op)
<1>1. S.hint /\ fits[k]
  <2>1. DOMAIN fits = {"invoke", "read", "assign"} /\ k \in DOMAIN fits /\ (k = "invoke" <=> S.op \in Invokes)
    BY OpKinds DEF HintInv, HintTyped, KindOf
  <2>2. S.hint
    BY <2>1 DEF Fits
  <2>3. QED
    BY <2>2 DEF Fits
<1>2. todo \in Seq(Statement) /\ todo # <<>> /\ S = todo[1] /\ S \in Statement
  BY HeadTyped DEF TodoInv
<1>3. HintTyped
  BY DEF HintInv
<1>4. CASE S.op \in Invokes
  <2>1. DOMAIN invokeHints \subseteq Nat /\ invokeAt \in Nat /\ Tracks(invokeHints, todo, Invokes, invokeAt, fits)
    BY <1>3 DEF HintTyped, HintInv
  <2>2. \A j \in DOMAIN invokeHints : KindOf(invokeHints[j].op) = "invoke"
    BY <1>3, OpKinds DEF HintTyped
  <2>3. k = "invoke"
    BY <1>4, OpKinds
  <2>4. IsNext(invokeHints, invokeAt, KindOf(todo[1].op), invokeAt)
    <3>1. (\E j \in DOMAIN invokeHints : invokeAt <= j) => invokeAt \in DOMAIN invokeHints
      BY <1>3 DEF HintTyped
    <3>2. QED
      BY <1>2, <2>1, <2>2, <2>3, <3>1 DEF IsNext
  <2>5. invokeAt \in DOMAIN invokeHints /\ invokeHints[invokeAt] = todo[1]
    <3>1. todo[1].hint /\ todo[1].op \in Invokes /\ fits[KindOf(todo[1].op)]
      BY <1>1, <1>2, <1>4
    <3>2. Uses(invokeHints, todo, Invokes, invokeAt, invokeAt + 1, fits, invokeAt)
      BY <1>2, <2>1, <2>4, <3>1 DEF Uses
    <3>3. QED
      BY <3>1, <3>2, TracksUse
  <2>6. QED
    BY <1>2, <1>4, <2>5
<1>5. CASE S.op \notin Invokes
  <2>1. /\ DOMAIN fieldHints \subseteq Nat /\ fieldAt \in Nat /\ S.op \in FieldOps
        /\ Tracks(fieldHints, todo, FieldOps, fieldAt, fits)
    BY <1>3, <1>5, OpKinds DEF HintTyped, HintInv
  <2>2. PICK next \in Nat \ {0} : next = NextField(k)
    BY <1>3, NextFieldIs
  <2>3. IsNext(fieldHints, fieldAt, KindOf(todo[1].op), next)
    BY <1>2, <1>3, <2>2, NextFieldIs
  <2>4. next \in DOMAIN fieldHints /\ fieldHints[next] = todo[1]
    <3>1. todo[1].hint /\ todo[1].op \in FieldOps /\ fits[KindOf(todo[1].op)]
      BY <1>1, <1>2, <2>1
    <3>2. Uses(fieldHints, todo, FieldOps, fieldAt, next + 1, fits, next)
      BY <1>2, <2>1, <2>3, <3>1 DEF Uses
    <3>3. QED
      BY <3>1, <3>2, TracksUse
  <2>5. QED
    BY <1>2, <1>5, <2>2, <2>4
<1>6. QED
  BY <1>4, <1>5

\* What an ID that is assigned once stands for
LEMMA IDIsTrue ==
    ASSUME SymsInv, S.id \in Var \cup {NoVar}, IdOf(S) # NoMember, ByID(S)
    PROVE  IdOf(S) = S.member
<1>1. Resolve(S.id).kind = "id" /\ IdOf(S) = Resolve(S.id).member
  BY DEF IdOf
<1>2. S.id \in Var /\ Resolve(S.id) = syms[S.id]
  BY <1>1, ResolvedName DEF SymsInv, Named
<1>3. S.id \notin unsteady /\ Stands(S.id) \in {NoMember, S.member}
  BY DEF ByID
<1>4. Stands(S.id) = IdOf(S)
  BY <1>1, <1>2, <1>3 DEF SymsInv, SymsTrue, Named
<1>5. QED
  BY <1>3, <1>4

\* The member an access is lifted with, and the one an object is made by
LEMMA NamesAreTrue ==
    ASSUME TodoInv, SymsInv, HintInv, todo # <<>>, S.op \in Accesses, Sure(S), Found(S) # NoMember
    PROVE  Found(S) = S.member
<1>1. /\ S \in Statement /\ S.member \in Member /\ S.id \in Var \cup {NoVar}
      /\ S.member # NoMember /\ S.member = [class |-> S.member.class, name |-> S.member.name]
  BY HeadTyped, LifterAssumption
<1>2. CASE IdOf(S) # NoMember
  <2>1. ByID(S) /\ Found(S) = IdOf(S)
    BY <1>2 DEF Sure, Found, Told
  <2>2. QED
    BY <1>1, <1>2, <2>1, IDIsTrue
<1>3. CASE IdOf(S) = NoMember /\ Cached(S)
  BY <1>3 DEF Found
<1>4. CASE ~Told(S)
  <2>1. Fits(S)[KindOf(S.op)] /\ (S.op \in Invokes \/ S.member.class = Own)
    BY <1>4 DEF Sure, Told
  <2>2. CASE S.op \in Invokes
    <3>1. invokeAt \in DOMAIN invokeHints /\ invokeHints[invokeAt] = S
      BY <1>4, <2>1, <2>2, OwnText
    <3>2. invokeAt <= Len(invokeHints)
      BY <3>1 DEF HintInv, HintTyped
    <3>3. QED
      BY <1>4, <2>2, <3>1, <3>2 DEF Found, Told, InvokeHint, HintIn
  <2>3. CASE S.op \notin Invokes
    <3>1. PICK next : next = NextField(KindOf(S.op))
      OBVIOUS
    <3>2. next \in DOMAIN fieldHints /\ fieldHints[next] = S
      BY <1>4, <2>1, <2>3, <3>1, OwnText
    <3>3. next <= Len(fieldHints)
      BY <3>2 DEF HintInv, HintTyped
    <3>4. HintIn(fieldHints, next) = S.member
      BY <3>2, <3>3 DEF HintIn
    <3>5. FieldHint(S) = [class |-> Own, name |-> S.member.name]
      BY <1>1, <3>1, <3>4 DEF FieldHint
    <3>6. QED
      BY <1>1, <1>4, <2>1, <2>3, <3>5 DEF Found, Told
  <2>4. QED
    BY <2>2, <2>3
<1>5. QED
  BY <1>2, <1>3, <1>4 DEF Told

\* The texts, step by step.
LEMMA HintsStay == UNCHANGED body => UNCHANGED <<invokeHints, fieldHints>>
BY DEF invokeHints, fieldHints

LEMMA UseStep ==
    ASSUME TodoInv, HintInv, todo # <<>>, S.op \in Accesses, UseHint, todo' = Tail(todo), UNCHANGED body
    PROVE  HintInv'
<1> DEFINE k == KindOf(S.op)
<1>1. todo \in Seq(Statement) /\ todo # <<>> /\ S = todo[1] /\ S \in Statement
  BY HeadTyped DEF TodoInv
<1>2. HintTyped
  BY DEF HintInv
<1>3. DOMAIN fits = {"invoke", "read", "assign"} /\ k \in DOMAIN fits /\ (k = "invoke" <=> S.op \in Invokes)
  BY <1>2 DEF HintTyped, KindOf
<1>4. fits' = Fits(S) /\ DOMAIN fits' = DOMAIN fits
  <2>1. fits' = Fits(S)
    BY DEF UseHint
  <2>2. QED
    BY <2>1 DEF Fits
<1>5. HintTyped'
  <2>1. invokeAt' \in Nat \ {0} /\ fieldAt' \in Nat \ {0}
    <3>1. PICK next \in Nat \ {0} : next = NextField(k)
      BY <1>2, NextFieldIs
    <3>2. fieldAt' \in {fieldAt, next, next + 1} /\ invokeAt' \in {invokeAt, invokeAt + 1}
      BY <3>1 DEF UseHint
    <3>3. QED
      BY <1>2, <3>1, <3>2 DEF HintTyped
  <2>2. QED
    BY <1>2, <1>4, <2>1, HintsStay DEF HintTyped
\* Where the statement does not use a text of its own, its kind is spoilt or it
\* had none.
<1>6. ASSUME ~(S.hint /\ ~Told(S))
      PROVE  \A kk \in {"invoke", "read", "assign"} : fits'[kk] =>
                /\ fits[kk] /\ (S.hint => kk # k)
                /\ ~Told(S) => (kk = "invoke" <=> S.op \notin Invokes)
  BY <1>3, <1>4, <1>6 DEF Fits
<1>7. ASSUME S.hint, ~Told(S) PROVE fits' = fits
  BY <1>4, <1>7 DEF Fits
<1>8. Tracks(invokeHints, Tail(todo), Invokes, invokeAt', fits')
  <2>0. Tracks(invokeHints, todo, Invokes, invokeAt, fits)
    BY DEF HintInv
  <2>1. CASE ~(S.op \in Invokes /\ S.hint /\ ~Told(S))
    <3>1. fits'["invoke"] => /\ fits["invoke"] /\ invokeAt' = invokeAt
                             /\ (S.hint /\ S.op \in Invokes => k # "invoke")
      <4>1. CASE S.hint /\ ~Told(S)
        BY <1>7, <2>1, <4>1 DEF UseHint
      <4>2. CASE ~(S.hint /\ ~Told(S))
        BY <1>6, <4>2 DEF UseHint
      <4>3. QED
        BY <4>1, <4>2
    <3>2. \A kk \in KindsOf(Invokes) : fits'[kk] =>
            fits[kk] /\ invokeAt' = invokeAt /\ (todo[1].hint /\ todo[1].op \in Invokes => KindOf(todo[1].op) # kk)
      BY <1>1, <3>1, OpKinds
    <3>3. QED
      BY <1>1, <2>0, <3>2, TracksPast
  <2>2. CASE S.op \in Invokes /\ S.hint /\ ~Told(S)
    <3>1. DOMAIN invokeHints = 1..Len(invokeHints) /\ Len(invokeHints) \in Nat /\ invokeAt \in Nat \ {0}
      BY <1>2 DEF HintTyped
    <3>2. \A j \in DOMAIN invokeHints : KindOf(invokeHints[j].op) = "invoke"
      BY <1>2, OpKinds DEF HintTyped
    <3>3. invokeAt <= Len(invokeHints) => invokeAt' = invokeAt + 1
      BY <2>2 DEF UseHint
    <3>4. /\ IsNext(invokeHints, invokeAt, KindOf(todo[1].op), invokeAt)
          /\ invokeAt \in DOMAIN invokeHints => invokeAt' = invokeAt + 1
      <4>1. KindOf(todo[1].op) = "invoke"
        BY <1>1, <2>2, OpKinds
      <4>2. QED
        BY <3>1, <3>2, <3>3, <4>1 DEF IsNext
    <3>5. DOMAIN invokeHints \subseteq Nat /\ invokeAt \in Nat
      BY <3>1
    <3>6. Uses(invokeHints, todo, Invokes, invokeAt, invokeAt', fits, invokeAt)
      BY <1>1, <2>0, <2>2, <3>4, <3>5 DEF Uses
    <3>7. Tracks(invokeHints, Tail(todo), Invokes, invokeAt', fits)
      BY <3>6, TracksUse
    <3>8. QED
      BY <1>7, <2>2, <3>7
  <2>3. QED
    BY <2>1, <2>2
<1>9. Tracks(fieldHints, Tail(todo), FieldOps, fieldAt', fits')
  <2>0. Tracks(fieldHints, todo, FieldOps, fieldAt, fits) /\ (S.op \in FieldOps <=> S.op \notin Invokes)
    BY OpKinds DEF HintInv
  <2>1. CASE ~(S.op \in FieldOps /\ S.hint /\ ~Told(S))
    <3>1. \A kk \in {"read", "assign"} :
            fits'[kk] => fits[kk] /\ fieldAt' = fieldAt /\ (S.hint /\ S.op \in FieldOps => k # kk)
      <4>1. CASE S.hint /\ ~Told(S)
        <5>1. fieldAt' = fieldAt
          BY <2>0, <2>1, <4>1 DEF UseHint
        <5>2. QED
          BY <1>7, <2>1, <4>1, <5>1
      <4>2. CASE ~(S.hint /\ ~Told(S))
        <5>1. S.op \notin FieldOps \/ Told(S) => fieldAt' = fieldAt
          BY <2>0 DEF UseHint
        <5>2. QED
          BY <1>6, <2>0, <4>2, <5>1
      <4>3. QED
        BY <4>1, <4>2
    <3>2. \A kk \in KindsOf(FieldOps) : fits'[kk] =>
            fits[kk] /\ fieldAt' = fieldAt /\ (todo[1].hint /\ todo[1].op \in FieldOps => KindOf(todo[1].op) # kk)
      BY <1>1, <3>1, OpKinds
    <3>3. QED
      BY <1>1, <2>0, <3>2, TracksPast
  <2>2. CASE S.op \in FieldOps /\ S.hint /\ ~Told(S)
    <3>1. DOMAIN fieldHints = 1..Len(fieldHints) /\ DOMAIN fieldHints \subseteq Nat /\ fieldAt \in Nat
      BY <1>2 DEF HintTyped
    <3>2. PICK next \in Nat \ {0} : next = NextField(k)
      BY <1>2, NextFieldIs
    <3>3. next <= Len(fieldHints) => fieldAt' = next + 1
      BY <2>0, <2>2, <3>2 DEF UseHint
    <3>4. IsNext(fieldHints, fieldAt, KindOf(todo[1].op), next) /\ (next \in DOMAIN fieldHints => fieldAt' = next + 1)
      BY <1>1, <1>2, <3>1, <3>2, <3>3, NextFieldIs
    <3>5. Uses(fieldHints, todo, FieldOps, fieldAt, fieldAt', fits, next)
      BY <1>1, <2>0, <2>2, <3>1, <3>4 DEF Uses
    <3>6. Tracks(fieldHints, Tail(todo), FieldOps, fieldAt', fits)
      BY <3>5, TracksUse
    <3>7. QED
      BY <1>7, <2>2, <3>6
  <2>3. QED
    BY <2>1, <2>2
<1>10. QED
  BY <1>5, <1>8, <1>9, HintsStay DEF HintInv

LEMMA PassStep ==
    ASSUME TodoInv, HintInv, todo # <<>>, S.op \notin Accesses \cup {"If"}, KeepHints,
           todo' = Tail(todo), UNCHANGED body
    PROVE  HintInv'
<1>1. todo \in Seq(Statement) /\ todo # <<>> /\ S = todo[1] /\ S \in Statement
  BY HeadTyped DEF TodoInv
<1>2. todo[1].op \notin Invokes /\ todo[1].op \notin FieldOps
  BY <1>1, OpKinds
<1>3. UNCHANGED <<invokeHints, fieldHints, invokeAt, fieldAt, fits>>
  BY HintsStay DEF KeepHints
<1>4. Tracks(invokeHints, Tail(todo), Invokes, invokeAt, fits)
  BY <1>1, <1>2, TracksPast DEF HintInv
<1>5. Tracks(fieldHints, Tail(todo), FieldOps, fieldAt, fits)
  BY <1>1, <1>2, TracksPast DEF HintInv
<1>6. QED
  BY <1>3, <1>4, <1>5 DEF HintInv, HintTyped

LEMMA IfStep ==
    ASSUME TodoInv, HintInv, SkipGuard \/ SkipTested \/ SkipCacheInit \/ IfGoto \/ IfBoth
    PROVE  HintInv'
<1>1. todo \in Seq(Statement) /\ todo # <<>> /\ S = todo[1] /\ S.op = "If" /\ UNCHANGED body
  BY IfSplits, HeadTyped DEF TodoInv
<1>2. todo[1].op \notin Invokes /\ todo[1].op \notin FieldOps
  BY <1>1 DEF Invokes, FieldOps, Reads, Writes
<1>3. PICK text, over : Splits(text, over) /\ Over(over) /\ todo' = text \o Rest
  BY IfSplits
<1>4. \E n, x, y : Cut(todo, todo', n, x, y) /\ Omits(todo, over, n, x, y)
  BY <1>1, <1>3, IfCuts
<1>5. PICK n, x, y : Cut(todo, todo', n, x, y) /\ Omits(todo, over, n, x, y)
  BY <1>4
<1>6. /\ UNCHANGED <<invokeHints, fieldHints, invokeAt, fieldAt>>
      /\ fits' = [k \in DOMAIN fits |-> fits[k] /\ \A i \in DOMAIN over: over[i].hint => KindOf(over[i].op) # k]
  BY <1>1, <1>3, HintsStay DEF Over
<1>7. HintTyped /\ HintTyped'
  BY <1>6 DEF HintInv, HintTyped
<1>8. \A k \in {"invoke", "read", "assign"} : fits'[k] =>
            fits[k] /\ \A i \in DOMAIN over: over[i].hint => KindOf(over[i].op) # k
  BY <1>6, <1>7 DEF HintTyped
<1>9. Tracks(invokeHints, todo', Invokes, invokeAt, fits')
  <2>1. Spoils(over, Invokes, fits, fits')
    BY <1>8, OpKinds DEF Spoils
  <2>2. QED
    BY <1>1, <1>2, <1>5, <2>1, TracksInto DEF HintInv
<1>10. Tracks(fieldHints, todo', FieldOps, fieldAt, fits')
  <2>1. Spoils(over, FieldOps, fits, fits')
    BY <1>8, OpKinds DEF Spoils
  <2>2. QED
    BY <1>1, <1>2, <1>5, <2>1, TracksInto DEF HintInv
<1>11. QED
  BY <1>6, <1>7, <1>9, <1>10 DEF HintInv

LEMMA HintStep ==
    ASSUME TodoInv, HintInv, [Next]_vars
    PROVE  HintInv'
<1>1. CASE GetField \/ SetField \/ Call
  <2>1. todo # <<>> /\ S.op \in Accesses /\ UseHint /\ Done
    BY <1>1 DEF GetField, SetField, Call, Walk, Accesses, Invokes
  <2>2. QED
    BY <2>1, UseStep DEF Done
<1>2. CASE FindClass \/ GetID \/ NewString \/ NewObject \/ NewRef \/ Throw \/ ExceptionCheck \/ Opaque
           \/ Copy \/ LabelHere \/ Goto \/ Return
  <2>1. todo # <<>> /\ S.op \notin Accesses \cup {"If"} /\ KeepHints /\ Done
    BY <1>2 DEF FindClass, GetID, NewString, NewObject, NewRef, Throw, ExceptionCheck, Opaque, Copy,
       LabelHere, Goto, Return, Walk, Accesses, Invokes, Reads, Writes, Makes
  <2>2. QED
    BY <2>1, PassStep DEF Done
<1>3. CASE SkipGuard \/ SkipTested \/ SkipCacheInit \/ IfGoto \/ IfBoth
  BY <1>3, IfStep
<1>4. CASE EndOfText \/ Clean \/ Close \/ UNCHANGED vars
  <2>1. UNCHANGED <<body, todo, invokeAt, fieldAt, fits>>
    BY <1>4 DEF EndOfText, Clean, Close, vars, beliefs
  <2>2. UNCHANGED <<invokeHints, fieldHints, todo, invokeAt, fieldAt, fits>>
    BY <2>1, HintsStay
  <2>3. QED
    BY <2>2 DEF HintInv, HintTyped
<1>5. QED
  BY <1>1, <1>2, <1>3, <1>4 DEF Next

-----------------------------------------------------------------------------
(* What is emitted, step by step.                                           *)

LEMMA CleanedTyped ==
    ASSUME NEW A, NEW s \in Seq(A)
    PROVE  [i \in DOMAIN s |-> Cleaned(s[i])] \in Seq(Seq(A \cup {I("POP")}))
<1> DEFINE T == A \cup {I("POP")}
           C(i) == Cleaned(s[i])
<1>1. \A x \in A : Cleaned(x) \in Seq(T)
  <2> SUFFICES ASSUME NEW x \in A PROVE Cleaned(x) \in Seq(T)
    OBVIOUS
  <2>1. x \in T /\ I("POP") \in T
    OBVIOUS
  <2> HIDE DEF T
  <2>2. <<x>> \in Seq(T) /\ <<>> \in Seq(T) /\ <<I("POP")>> \in Seq(T) /\ <<I("POP"), I("POP")>> \in Seq(T)
    BY <2>1
  <2>3. \/ Cleaned(x) = <<x>> \/ Cleaned(x) = <<>> \/ Cleaned(x) = <<I("POP")>>
        \/ Cleaned(x) = <<I("POP"), I("POP")>>
    BY Zenon DEF Cleaned
  <2>4. QED
    BY <2>2, <2>3, Zenon
<1>2. DOMAIN s = 1..Len(s) /\ Len(s) \in Nat /\ \A i \in 1..Len(s) : s[i] \in A
  OBVIOUS
<1>3. \A i \in 1..Len(s) : C(i) \in Seq(T)
  BY <1>1, <1>2
<1> HIDE DEF C, T
<1>4. [i \in 1..Len(s) |-> C(i)] \in Seq(Seq(T))
  BY <1>2, <1>3
<1>5. QED
  BY <1>2, <1>4, Zenon DEF C, T

LEMMA CleanFine ==
    ASSUME FineSeq(code), Clean
    PROVE  FineSeq(code')
<1>1. PICK A : code \in Seq(A) /\ \A i \in A : Fine(i)
  BY Zenon DEF FineSeq
<1> DEFINE T == A \cup {I("POP")}
<1>2. Fine(I("POP"))
  BY OthersArePlain DEF Plain, Others
<1>3. \A i \in T : Fine(i)
  BY <1>1, <1>2
<1>4. [i \in DOMAIN code |-> Cleaned(code[i])] \in Seq(Seq(T))
  BY <1>1, CleanedTyped
<1> HIDE DEF T
<1>5. code' \in Seq(T)
  BY <1>4, FlattenTyped, Zenon DEF Clean
<1>6. QED
  BY <1>3, <1>5, Zenon DEF FineSeq

LEMMA SlotsStep ==
    ASSUME TodoInv, SlotsInv, [Next]_vars
    PROVE  SlotsInv'
<1>1. CASE FindClass \/ GetID \/ NewString \/ NewObject \/ Call \/ ExceptionCheck \/ Opaque
  <2>1. todo # <<>> /\ KeepSlots /\ \E from : Assigns(S.lhs, from)
    BY <1>1 DEF FindClass, GetID, NewString, NewObject, Call, ExceptionCheck, Opaque, Walk
  <2>2. \A m : /\ Sym("class", m).kind # "slot" /\ Sym("id", m).kind # "slot"
               /\ Sym("string", m).kind # "slot" /\ Sym("object", m).kind # "slot"
               /\ Sym("owner", m).kind # "slot"
    BY DEF Sym
  <2>3. UNCHANGED syms \/ \E b : Believe(S.lhs, b) /\ b.kind # "slot"
    BY <1>1, <2>2 DEF FindClass, GetID, NewString, NewObject, Call, ExceptionCheck, Opaque
  <2>4. QED
    BY <2>1, <2>3, HeadTyped, AssignsSlots
<1>2. CASE NewRef \/ Copy
  <2>1. S.lhs \in Var \cup {NoVar} /\ S.recv \in Var
    BY <1>2, HeadTyped DEF NewRef, Copy, Walk
  <2>2. QED
    BY <1>2, <2>1, CopiesSlots
<1>3. CASE GetField
  <2>1. S.lhs \in Var \cup {NoVar}
    BY <1>3, HeadTyped DEF GetField
  <2>2. QED
    BY <1>3, <2>1, SavesSlots
<1>4. CASE SkipGuard \/ SkipTested \/ SkipCacheInit \/ IfGoto \/ IfBoth
  <2>1. UNCHANGED <<syms, slots, nextSlot, holds, saved, assigned>> /\ unsteady \subseteq unsteady'
    BY <1>4 DEF SkipGuard, SkipTested, SkipCacheInit, IfGoto, IfBoth, Over, Unsettles
  <2>2. QED
    BY <2>1, OverSlots
<1>5. CASE SetField \/ Throw \/ LabelHere \/ Goto \/ Return \/ EndOfText \/ Clean \/ Close \/ UNCHANGED vars
  <2>1. UNCHANGED <<syms, slots, nextSlot, holds, saved, assigned>> /\ unsteady \subseteq unsteady'
    BY <1>5 DEF SetField, Throw, LabelHere, Goto, Return, EndOfText, Clean, Close, vars, Done, beliefs,
       truth, KeepSlots
  <2>2. QED
    BY <2>1, OverSlots
<1>6. QED
  BY <1>1, <1>2, <1>3, <1>4, <1>5 DEF Next

\* An instruction that names a member names the one the C program uses.
LEMMA AccessIsPlain ==
    ASSUME TodoInv, SymsInv, HintInv, todo # <<>>, S.op \in Accesses
    PROVE  Plain(AccessOf(S))
<1>1. /\ AccessOf(S).op = S.op /\ AccessOf(S).member = Found(S) /\ AccessOf(S).want = S.member
      /\ AccessOf(S).sure <=> Sure(S)
  BY DEF AccessOf, I
<1>2. S.op # "ALOAD" /\ S.op # "LABEL"
  BY DEF Accesses, Invokes, Reads, Writes
<1>3. Sure(S) /\ Found(S) # NoMember => Found(S) = S.member
  BY NamesAreTrue
<1>4. QED
  BY <1>1, <1>2, <1>3 DEF Plain, Fine

LEMMA MakeIsPlain ==
    ASSUME TodoInv, SymsInv, todo # <<>>, IdOf(S) # NoMember
    PROVE  Plain([I("INVOKESPECIAL") EXCEPT !.member = IdOf(S), !.want = S.member, !.sure = ByID(S)])
<1> DEFINE i == [I("INVOKESPECIAL") EXCEPT !.member = IdOf(S), !.want = S.member, !.sure = ByID(S)]
<1>1. S.id \in Var \cup {NoVar}
  BY HeadTyped
<1>2. i.op = "INVOKESPECIAL" /\ i.member = IdOf(S) /\ i.want = S.member /\ (i.sure <=> ByID(S))
  BY DEF I
<1>3. ByID(S) => IdOf(S) = S.member
  BY <1>1, IDIsTrue
<1> HIDE DEF i
<1>4. Plain(i)
  BY <1>2, <1>3 DEF Plain, Fine
<1>5. QED
  BY <1>4 DEF i

\* What an object is made with: what is told only by its class is not sure.
LEMMA MadeIsPlain ==
    ASSUME TodoInv, SlotsInv, SymsInv, todo # <<>>
    PROVE  PlainSeq(Made(S))
<1>0. /\ \A op : op # "ALOAD" /\ op # "LABEL" => Plain(I(op)) /\ PlainSeq(<<I(op)>>)
      /\ PlainSeq(<<>>) /\ PlainSeq(Pushes(S.args))
  BY HeadTyped, PushesArePlain, OthersArePlain, PlainOne, PlainNone DEF Others
<1>1. PlainSeq(InitOf(S))
  <2> DEFINE i == [I("INVOKESPECIAL") EXCEPT !.member = IdOf(S), !.want = S.member, !.sure = ByID(S)]
             k == [I("INVOKESPECIAL") EXCEPT
                    !.member = [class |-> Resolve(S.id).member.class, name |-> Constructor], !.want = S.member]
  <2>1. (InitOf(S) = <<i>> /\ IdOf(S) # NoMember) \/ InitOf(S) = <<k>> \/ InitOf(S) = <<>>
    BY DEF InitOf
  <2>2. k.op = "INVOKESPECIAL" /\ k.sure = FALSE
    BY DEF I
  <2> HIDE DEF k
  <2>3. Plain(k)
    BY <2>2 DEF Plain, Fine
  <2>4. PlainSeq(<<k>>)
    BY <2>3, PlainOne
  <2>5. IdOf(S) # NoMember => PlainSeq(<<i>>)
    BY MakeIsPlain, PlainOne
  <2> HIDE DEF i
  <2>6. QED
    BY <1>0, <2>1, <2>4, <2>5
<1>2. PlainSeq(<<I("NEW"), I("DUP")>>) /\ PlainSeq(<<I("NEWARRAY")>>) /\ PlainSeq(<<I("ANEWARRAY")>>)
      /\ PlainSeq(<<I("NEW")>>)
  BY <1>0, PlainTwo
<1> DEFINE a == Pushes(S.args)
           b == IF Resolve(S.recv).kind = "class" THEN <<I("ANEWARRAY")>> ELSE <<>>
           c == <<I("NEWARRAY")>>
           d == <<I("NEW"), I("DUP")>>
           e == InitOf(S)
<1>3. PlainSeq(a) /\ PlainSeq(b) /\ PlainSeq(c) /\ PlainSeq(d) /\ PlainSeq(e)
  BY <1>0, <1>1, <1>2
<1>4. Made(S) \in {a \o c, a \o b, <<>>, <<I("NEW")>>, (d \o a) \o e}
  BY DEF Made
<1> HIDE DEF a, b, c, d, e
<1>5. PlainSeq(a \o c) /\ PlainSeq(a \o b) /\ PlainSeq(d \o a)
  BY <1>3, PlainBoth
<1>6. PlainSeq((d \o a) \o e)
  BY <1>3, <1>5, PlainBoth
<1>7. QED
  BY <1>0, <1>2, <1>4, <1>5, <1>6

\* What the instructions made so far rest on.
LoadInv == SlotsInv /\ SymsInv /\ HintInv /\ FineSeq(code)

\* The instructions of each statement.
EmitsPlain == \E instrs : Emit(instrs) /\ PlainSeq(instrs)

LEMMA EmitsOf ==
    ASSUME NEW instrs, Emit(instrs), PlainSeq(instrs)
    PROVE  EmitsPlain
BY Zenon DEF EmitsPlain

LEMMA EmitStep ==
    ASSUME TodoInv, SlotsInv, SymsInv, HintInv, [Next]_vars
    PROVE  UNCHANGED code \/ EmitsPlain \/ LabelHere \/ Clean
<1>0. /\ \A op : op # "ALOAD" /\ op # "LABEL" => Plain(I(op)) /\ PlainSeq(<<I(op)>>)
      /\ \A op, l : op # "ALOAD" /\ op # "LABEL" => PlainSeq(<<Jump(op, l)>>)
  BY OthersArePlain, PlainOne DEF Others
<1>1. CASE UNCHANGED code
  BY <1>1
<1>2. CASE NewString /\ ~ UNCHANGED code
  <2>1. Emit(<<I("LDC")>>)
    BY <1>2 DEF NewString
  <2>2. QED
    BY <1>0, <2>1, EmitsOf
<1>3. CASE NewObject
  <2>1. Emit(Made(S)) /\ todo # <<>>
    BY <1>3 DEF NewObject
  <2>2. QED
    BY <2>1, MadeIsPlain, EmitsOf
<1>4. CASE GetField \/ SetField \/ Call
  <2>1. /\ todo # <<>> /\ S.op \in Accesses
    BY <1>4 DEF GetField, SetField, Call, Walk, Accesses, Invokes
  <2>2. PlainSeq(<<AccessOf(S)>>)
    <3>1. Plain(AccessOf(S))
      BY <2>1, AccessIsPlain
    <3>2. QED
      BY <3>1, PlainOne
  <2>3. PlainSeq(<<Push(S.recv)>>) /\ PlainSeq(Pushes(S.args))
    BY <2>1, HeadTyped, PushIsPlain, PushesArePlain, PlainOne
  <2>4. CASE GetField
    <3> DEFINE a == IF S.op = "GetField" THEN <<Push(S.recv)>> ELSE <<>>
               b == IF S.lhs = NoVar THEN <<>> ELSE <<I("DUP"), I("ASTORE")>>
    <3>1. Emit(a \o <<AccessOf(S)>> \o b)
      BY <2>4 DEF GetField
    <3>2. PlainSeq(<<I("DUP"), I("ASTORE")>>)
      BY <1>0, PlainTwo
    <3>3. PlainSeq(a) /\ PlainSeq(b)
      BY <2>3, <3>2, PlainNone
    <3> HIDE DEF a, b
    <3>4. PlainSeq((a \o <<AccessOf(S)>>) \o b)
      BY <2>2, <3>3, PlainBoth
    <3>5. QED
      BY <3>1, <3>4, EmitsOf
  <2>5. CASE SetField
    <3> DEFINE a == IF S.op = "SetField" THEN <<Push(S.recv)>> ELSE <<>>
    <3>1. Emit(a \o Pushes(S.args) \o <<AccessOf(S)>>)
      BY <2>5 DEF SetField
    <3>2. PlainSeq(a)
      BY <2>3, PlainNone
    <3> HIDE DEF a
    <3>3. PlainSeq((a \o Pushes(S.args)) \o <<AccessOf(S)>>)
      BY <2>2, <2>3, <3>2, PlainBoth
    <3>4. QED
      BY <3>1, <3>3, EmitsOf
  <2>6. CASE Call
    <3> DEFINE a == IF S.recv = NoVar THEN <<>> ELSE <<Push(S.recv)>>
    <3>1. Emit(a \o Pushes(S.args) \o <<AccessOf(S)>>)
      BY <2>6 DEF Call
    <3>2. PlainSeq(a)
      BY <2>3, PlainNone
    <3> HIDE DEF a
    <3>3. PlainSeq((a \o Pushes(S.args)) \o <<AccessOf(S)>>)
      BY <2>2, <2>3, <3>2, PlainBoth
    <3>4. QED
      BY <3>1, <3>3, EmitsOf
  <2>7. QED
    BY <1>4, <2>4, <2>5, <2>6
<1>5. CASE Throw \/ Goto \/ IfGoto
  <2>1. \/ Emit(<<I("ATHROW")>>) \/ Emit(<<Jump("GOTO", S.label)>>)
        \/ \E l : Emit(<<Jump("IF_ICMP", l)>>) \/ Emit(<<Jump("IF", l)>>)
    BY <1>5 DEF Throw, Goto, IfGoto
  <2>2. QED
    BY <1>0, <2>1, EmitsOf
<1>6. CASE Return /\ ~ UNCHANGED code
  <2>1. Emit(<<I("RETURN")>>) \/ Emit(<<Push(S.recv), I("RETURN")>>)
    BY <1>6 DEF Return
  <2>2. Plain(Push(S.recv))
    BY <1>6, HeadTyped, PushIsPlain DEF Return, Walk
  <2>3. PlainSeq(<<Push(S.recv), I("RETURN")>>)
    BY <1>0, <2>2, PlainTwo
  <2>4. QED
    BY <1>0, <2>1, <2>3, EmitsOf
<1>7. CASE LabelHere \/ Clean
  BY <1>7
<1>8. CASE Close /\ ~ UNCHANGED code
  <2> DEFINE a == IF Returns THEN <<I("ICONST_0")>> ELSE <<>>
  <2>1. Emit(a \o <<I("RETURN")>>)
    BY <1>8 DEF Close
  <2>2. PlainSeq(a)
    BY <1>0, PlainNone
  <2> HIDE DEF a
  <2>3. PlainSeq(a \o <<I("RETURN")>>)
    BY <1>0, <2>2, PlainBoth
  <2>4. QED
    BY <2>1, <2>3, EmitsOf
<1>9. QED
  <2>1. CASE FindClass \/ GetID \/ NewRef \/ ExceptionCheck \/ Opaque \/ Copy \/ SkipGuard \/ SkipTested
             \/ SkipCacheInit \/ IfBoth \/ EndOfText \/ UNCHANGED vars
    BY <1>1, <2>1 DEF FindClass, GetID, NewRef, ExceptionCheck, Opaque, Copy, SkipGuard, SkipTested,
       SkipCacheInit, IfBoth, EndOfText, vars
  <2>2. QED
    BY <1>1, <1>2, <1>3, <1>4, <1>5, <1>6, <1>7, <1>8, <2>1 DEF Next

LEMMA FineStep ==
    ASSUME TodoInv, LoadInv, [Next]_vars
    PROVE  FineSeq(code')
<1>1. CASE UNCHANGED code
  BY <1>1 DEF LoadInv
<1>2. CASE EmitsPlain
  <2>1. PICK instrs : Emit(instrs) /\ PlainSeq(instrs)
    BY <1>2 DEF EmitsPlain
  <2>2. FineSeq(code \o instrs)
    BY <2>1, PlainIsFine, FineBoth DEF LoadInv
  <2>3. QED
    BY <2>1, <2>2, Zenon DEF Emit
<1>3. CASE LabelHere
  <2>1. Emit(<<Jump("LABEL", S.label)>>) /\ FineSeq(<<Jump("LABEL", S.label)>>)
    BY <1>3, OthersArePlain, FineOne DEF LabelHere
  <2>2. FineSeq(code \o <<Jump("LABEL", S.label)>>)
    BY <2>1, FineBoth DEF LoadInv
  <2>3. QED
    BY <2>1, <2>2, Zenon DEF Emit
<1>4. CASE Clean
  BY <1>4, CleanFine DEF LoadInv
<1>5. QED
  BY <1>1, <1>2, <1>3, <1>4, EmitStep DEF LoadInv

\* The frame.  The wide arguments among the first k
WideTo(k) == Cardinality({i \in 1 .. k : Params[i] \in Wide})

LEMMA WideToTyped ==
    ASSUME NEW k \in Int
    PROVE  /\ WideTo(k) \in Nat /\ WideTo(k) <= (IF k > 0 THEN k ELSE 0)
           /\ \A j \in Int : j <= k => WideTo(j) <= WideTo(k)
<1>1. \A j \in Int : IsFiniteSet(1 .. j) /\ Cardinality(1 .. j) = IF 1 > j THEN 0 ELSE j
  BY FS_Interval
<1> DEFINE W(j) == {i \in 1 .. j : Params[i] \in Wide}
<1>2. \A j \in Int : IsFiniteSet(W(j)) /\ Cardinality(W(j)) <= Cardinality(1 .. j)
  BY <1>1, FS_Subset
<1>3. \A j \in Int : Cardinality(W(j)) \in Nat
  BY <1>2, FS_CardinalityType
<1>4. \A j \in Int : j <= k => Cardinality(W(j)) <= Cardinality(W(k))
  <2>1. \A j \in Int : j <= k => W(j) \in SUBSET W(k)
    OBVIOUS
  <2>2. QED
    BY <1>2, <2>1, FS_Subset
<1>5. \A j \in Int : WideTo(j) = Cardinality(W(j))
  BY DEF WideTo
<1> HIDE DEF W
<1>6. QED
  BY <1>1, <1>2, <1>3, <1>4, <1>5

LEMMA WideBefore ==
    ASSUME NEW n \in DOMAIN Params
    PROVE  /\ WideTo(n - 1) \in Nat /\ WideTo(n - 1) <= n - 1
           /\ \A k \in DOMAIN Params : k < n => WideTo(k - 1) <= WideTo(n - 1)
<1>1. DOMAIN Params = 1 .. Len(Params) /\ Len(Params) \in Nat
  BY LifterAssumption
<1>2. n - 1 \in Int /\ (IF n - 1 > 0 THEN n - 1 ELSE 0) = n - 1
  BY <1>1
<1>3. \A k \in DOMAIN Params : k < n => k - 1 \in Int /\ k - 1 <= n - 1
  BY <1>1
<1>4. WideTo(n - 1) \in Nat /\ WideTo(n - 1) <= n - 1
  BY <1>2, WideToTyped
<1>5. \A j \in Int : j <= n - 1 => WideTo(j) <= WideTo(n - 1)
  BY <1>2, WideToTyped
<1>6. QED
  BY <1>3, <1>4, <1>5

LEMMA WideToNext ==
    ASSUME NEW k \in Nat
    PROVE  /\ WideTo(0) = 0 /\ WideTo(-1) = 0
           /\ WideTo(k + 1) = WideTo(k) + IF Params[k + 1] \in Wide THEN 1 ELSE 0
<1> DEFINE W(j) == {i \in 1 .. j : Params[i] \in Wide}
<1>1. WideTo(0) = 0 /\ WideTo(-1) = 0
  <2>1. W(0) = {} /\ W(-1) = {}
    OBVIOUS
  <2>2. QED
    BY <2>1, FS_EmptySet DEF WideTo
<1>2. IsFiniteSet(W(k))
  <2>1. IsFiniteSet(1 .. k) /\ W(k) \in SUBSET (1 .. k)
    BY FS_Interval
  <2>2. QED
    BY <2>1, FS_Subset
<1>3. Cardinality(W(k)) \in Nat
  BY <1>2, FS_CardinalityType
<1>4. CASE Params[k + 1] \in Wide
  <2>1. W(k + 1) = W(k) \cup {k + 1} /\ k + 1 \notin W(k)
    BY <1>4
  <2> HIDE DEF W
  <2>2. Cardinality(W(k + 1)) = Cardinality(W(k)) + 1
    BY <1>2, <2>1, FS_AddElement
  <2>3. QED
    BY <1>1, <1>4, <2>2 DEF WideTo, W
<1>5. CASE Params[k + 1] \notin Wide
  <2>1. W(k + 1) = W(k)
    BY <1>5
  <2> HIDE DEF W
  <2>2. Cardinality(W(k + 1)) = Cardinality(W(k)) + 0
    BY <1>3, <2>1
  <2>3. QED
    BY <1>1, <1>5, <2>2 DEF WideTo, W
<1>6. QED
  BY <1>4, <1>5

\* The local variables _jni_param_slot_map gives to the first n arguments
SlotsTo(at, isStatic) ==
    at = [n \in 0 .. Len(Params) |->
            IF n = 0 THEN (IF isStatic THEN -1 ELSE 0)
            ELSE IF n > 1 /\ Params[n - 1] \in Wide THEN at[n - 1] + 2 ELSE at[n - 1] + 1]
SlotAt(n, isStatic) == (IF isStatic THEN -1 ELSE 0) + n + WideTo(n - 1)

LEMMA SlotAtNext ==
    ASSUME NEW n \in Nat, NEW isStatic \in BOOLEAN
    PROVE  /\ SlotAt(0, isStatic) = IF isStatic THEN -1 ELSE 0
           /\ n # 0 => SlotAt(n, isStatic) =
                    IF n > 1 /\ Params[n - 1] \in Wide THEN SlotAt(n - 1, isStatic) + 2
                                                       ELSE SlotAt(n - 1, isStatic) + 1
<1>1. WideTo(0) = 0 /\ WideTo(-1) = 0 /\ 0 - 1 = -1
  BY WideToNext
<1>2. SlotAt(0, isStatic) = IF isStatic THEN -1 ELSE 0
  BY <1>1 DEF SlotAt
<1>3. CASE n > 1
  <2>1. n - 2 \in Nat /\ n - 2 + 1 = n - 1 /\ n - 1 - 1 = n - 2
    BY <1>3
  <2>2. WideTo(n - 1) = WideTo(n - 2) + IF Params[n - 1] \in Wide THEN 1 ELSE 0
    BY <2>1, WideToNext
  <2>3. WideTo(n - 2) \in Nat
    BY WideToTyped
  <2>4. QED
    BY <1>2, <1>3, <2>1, <2>2, <2>3 DEF SlotAt
<1>4. CASE n = 1
  BY <1>1, <1>2, <1>4 DEF SlotAt
<1>5. QED
  BY <1>2, <1>3, <1>4

LEMMA SlotsToIs ==
    ASSUME NEW at, NEW isStatic \in BOOLEAN, SlotsTo(at, isStatic)
    PROVE  \A n \in 0 .. Len(Params) : at[n] = SlotAt(n, isStatic)
<1> DEFINE B == {n \in 0 .. Len(Params) : at[n] # SlotAt(n, isStatic)}
<1>0. Len(Params) \in Nat
  BY LifterAssumption
<1>1. SUFFICES ASSUME B # {} PROVE FALSE
  OBVIOUS
<1>2. PICK x \in B : \A y \in B : x <= y
  <2>1. B \subseteq Nat
    OBVIOUS
  <2> HIDE DEF B
  <2>2. QED
    BY <1>1, <2>1, SmallestNat, Zenon
<1>3. \A n \in 0 .. Len(Params) : at[n] =
            IF n = 0 THEN (IF isStatic THEN -1 ELSE 0)
            ELSE IF n > 1 /\ Params[n - 1] \in Wide THEN at[n - 1] + 2 ELSE at[n - 1] + 1
  <2> DEFINE g == [n \in 0 .. Len(Params) |->
            IF n = 0 THEN (IF isStatic THEN -1 ELSE 0)
            ELSE IF n > 1 /\ Params[n - 1] \in Wide THEN at[n - 1] + 2 ELSE at[n - 1] + 1]
  <2>1. at = g
    BY DEF SlotsTo
  <2>2. \A n \in 0 .. Len(Params) : g[n] =
            IF n = 0 THEN (IF isStatic THEN -1 ELSE 0)
            ELSE IF n > 1 /\ Params[n - 1] \in Wide THEN at[n - 1] + 2 ELSE at[n - 1] + 1
    OBVIOUS
  <2> HIDE DEF g
  <2>3. QED
    BY <2>1, <2>2, Zenon
<1>4. CASE x = 0
  <2>1. at[0] = IF isStatic THEN -1 ELSE 0
    BY <1>3, <1>4
  <2>2. SlotAt(0, isStatic) = IF isStatic THEN -1 ELSE 0
    BY SlotAtNext
  <2>3. QED
    BY <1>4, <2>1, <2>2
<1>5. CASE x # 0
  <2>1. x \in Nat /\ x - 1 \in 0 .. Len(Params) /\ x - 1 \notin B
    BY <1>0, <1>2, <1>5
  <2>2. at[x - 1] = SlotAt(x - 1, isStatic)
    BY <2>1
  <2>3. at[x] = SlotAt(x, isStatic)
    BY <1>3, <1>5, <2>1, <2>2, SlotAtNext
  <2>4. QED
    BY <2>3
<1>6. QED
  BY <1>4, <1>5

LEMMA SlotsToIsThere ==
    ASSUME NEW isStatic \in BOOLEAN
    PROVE  \E at : SlotsTo(at, isStatic)
<1> DEFINE at == [n \in 0 .. Len(Params) |-> SlotAt(n, isStatic)]
           step(n) == IF n = 0 THEN (IF isStatic THEN -1 ELSE 0)
                      ELSE IF n > 1 /\ Params[n - 1] \in Wide THEN at[n - 1] + 2 ELSE at[n - 1] + 1
<1>1. ASSUME NEW n \in 0 .. Len(Params) PROVE SlotAt(n, isStatic) = step(n)
  <2>0. Len(Params) \in Nat /\ n \in Nat
    BY LifterAssumption
  <2>1. CASE n = 0
    BY <2>1, SlotAtNext
  <2>2. CASE n # 0
    <3>1. n - 1 \in 0 .. Len(Params)
      BY <2>0, <2>2
    <3>2. at[n - 1] = SlotAt(n - 1, isStatic)
      BY <3>1
    <3> HIDE DEF at
    <3>3. QED
      BY <2>0, <2>2, <3>2, SlotAtNext
  <2>3. QED
    BY <2>1, <2>2
<1>2. at = [n \in 0 .. Len(Params) |-> step(n)]
  <2> HIDE DEF step
  <2>1. QED
    BY <1>1, Zenon
<1>3. SlotsTo(at, isStatic)
  BY <1>2, Zenon DEF SlotsTo
<1>4. QED
  BY <1>3, Zenon

LEMMA ParamSlotsAre ==
    ASSUME NEW isStatic \in BOOLEAN
    PROVE  ParamSlots(isStatic) =
            [v \in Var |-> IF v = This THEN SlotAt(0, isStatic)
                           ELSE IF \E n \in DOMAIN Params: Params[n] = v
                           THEN SlotAt(CHOOSE n \in DOMAIN Params: Params[n] = v, isStatic) ELSE NoSlot]
<1> DEFINE A == CHOOSE at : SlotsTo(at, isStatic)
<1>0. DOMAIN Params = 1 .. Len(Params) /\ Len(Params) \in Nat
  BY LifterAssumption
<1>1. SlotsTo(A, isStatic)
  BY SlotsToIsThere
<1>2. ParamSlots(isStatic) =
            [v \in Var |-> IF v = This THEN A[0]
                           ELSE IF \E n \in DOMAIN Params: Params[n] = v
                           THEN A[CHOOSE n \in DOMAIN Params: Params[n] = v] ELSE NoSlot]
  BY Zenon DEF ParamSlots, SlotsTo
<1> HIDE DEF A
<1>3. \A n \in 0 .. Len(Params) : A[n] = SlotAt(n, isStatic)
  BY <1>1, SlotsToIs
<1>4. ASSUME NEW v \in Var, \E n \in DOMAIN Params: Params[n] = v
      PROVE  (CHOOSE n \in DOMAIN Params: Params[n] = v) \in 0 .. Len(Params)
  BY <1>0, <1>4
<1>5. QED
  BY <1>0, <1>2, <1>3, <1>4

\* It is the frame the Java VM makes.
LEMMA FrameIsJvms ==
    ASSUME static \in BOOLEAN
    PROVE  /\ \A n \in DOMAIN Params :
                /\ SlotAt(n, static) \in 0 .. FirstSlot - 1
                /\ JvmFrame[SlotAt(n, static)] = 1 + n
           /\ ~static => JvmFrame[0] = 1
<1>0. DOMAIN Params = 1 .. Len(Params) /\ Len(Params) \in Nat /\ FirstSlot \in Nat /\ FirstSlot > 2 * Len(Params)
  BY LifterAssumption
<1>1. \A n \in DOMAIN Params : JvmSlot(n) = SlotAt(n, static)
  <2>1. \A n \in DOMAIN Params : WideTo(n - 1) \in Nat
    BY WideBefore
  <2>2. QED
    BY <1>0, <2>1 DEF JvmSlot, SlotAt, WideTo
<1>2. \A n \in DOMAIN Params : SlotAt(n, static) \in (IF static THEN 0 ELSE 1) .. FirstSlot - 1
  <2>1. ASSUME NEW n \in DOMAIN Params
        PROVE  WideTo(n - 1) \in Nat /\ WideTo(n - 1) <= n - 1
    BY WideBefore
  <2>2. QED
    BY <1>0, <2>1 DEF SlotAt
<1>3. \A n, k \in DOMAIN Params : n < k => SlotAt(n, static) < SlotAt(k, static)
  <2>1. ASSUME NEW n \in DOMAIN Params, NEW k \in DOMAIN Params, n < k
        PROVE  /\ WideTo(n - 1) \in Nat /\ WideTo(k - 1) \in Nat
               /\ WideTo(n - 1) <= WideTo(k - 1)
    BY <2>1, WideBefore
  <2>2. QED
    BY <1>0, <2>1 DEF SlotAt
<1>4. \A n, k \in DOMAIN Params : SlotAt(n, static) = SlotAt(k, static) => n = k
  <2>1. SUFFICES ASSUME NEW n \in DOMAIN Params, NEW k \in DOMAIN Params,
                        SlotAt(n, static) = SlotAt(k, static), n # k
                 PROVE  FALSE
    OBVIOUS
  <2>2. SlotAt(n, static) \in Int /\ SlotAt(k, static) \in Int /\ (n < k \/ k < n)
    BY <1>0, <1>2, <2>1
  <2>3. QED
    BY <1>3, <2>1, <2>2
<1>5. ASSUME NEW n \in DOMAIN Params PROVE JvmFrame[SlotAt(n, static)] = 1 + n
  <2> DEFINE s == SlotAt(n, static)
  <2>1. s \in Nat /\ ~(~static /\ s = 0)
    BY <1>0, <1>2, <1>5
  <2>2. JvmSlot(n) = s /\ \A k \in DOMAIN Params : JvmSlot(k) = s => k = n
    BY <1>1, <1>4, <1>5
  <2> HIDE DEF s
  <2>3. (CHOOSE k \in DOMAIN Params : JvmSlot(k) = s) = n
    BY <1>5, <2>2
  <2>4. JvmFrame[s] = 1 + CHOOSE k \in DOMAIN Params : JvmSlot(k) = s
    BY <1>5, <2>1, <2>2 DEF JvmFrame
  <2>5. QED
    BY <2>3, <2>4 DEF s
<1>6. ~static => JvmFrame[0] = 1
  BY DEF JvmFrame
<1>7. QED
  BY <1>0, <1>2, <1>5, <1>6

LEMMA SlotsInit == Init => SlotsInv
<1>1. SUFFICES ASSUME Init PROVE SlotsInv
  OBVIOUS
<1> DEFINE told == static /\ listed
<1>2. /\ static \in BOOLEAN /\ told \in BOOLEAN
      /\ nextSlot = FirstSlot /\ slots = ParamSlots(told) /\ syms = [v \in Var |-> NoSym]
      /\ holds = [v \in Var |-> ParamValue(v)] /\ saved = [s \in 0 .. FirstSlot - 1 |-> JvmFrame[s]]
      /\ assigned = {This} \cup Range(Params)
      /\ unsteady = IF static /\ ~listed THEN assigned ELSE {}
  BY <1>1 DEF Init
<1>3. /\ DOMAIN Params = 1 .. Len(Params) /\ Len(Params) \in Nat /\ FirstSlot \in Nat
      /\ This \in Var /\ NoVar \notin Var /\ \A n \in DOMAIN Params : Params[n] \in Var \ {This}
      /\ \A i, k \in DOMAIN Params: Params[i] = Params[k] => i = k
      /\ FirstSlot > 2 * Len(Params)
  BY LifterAssumption
<1>4. slots = [v \in Var |-> IF v = This THEN SlotAt(0, told)
                             ELSE IF \E n \in DOMAIN Params: Params[n] = v
                             THEN SlotAt(CHOOSE n \in DOMAIN Params: Params[n] = v, told) ELSE NoSlot]
  BY <1>2, ParamSlotsAre
<1>5. NoSym.kind = "none"
  BY DEF NoSym, Sym
<1>6. SlotAt(0, told) = (IF told THEN NoSlot ELSE 0)
  BY <1>2, SlotAtNext DEF NoSlot
<1>7. \A n \in DOMAIN Params : SlotAt(n, told) \in 0 .. FirstSlot - 1
  <2>1. ASSUME NEW n \in DOMAIN Params
        PROVE  WideTo(n - 1) \in Nat /\ WideTo(n - 1) <= n - 1
    BY WideBefore
  <2>2. QED
    BY <1>2, <1>3, <2>1 DEF SlotAt
<1> HIDE DEF told
<1>8. ASSUME NEW v \in Var
      PROVE  \/ v = This /\ slots[v] = IF told THEN NoSlot ELSE 0
             \/ v # This /\ \E n \in DOMAIN Params : /\ Params[n] = v /\ slots[v] = SlotAt(n, told)
                                                     /\ ParamValue(v) = 1 + n
             \/ slots[v] = NoSlot /\ v \notin assigned
  <2>1. CASE v = This
    BY <1>4, <1>6, <2>1
  <2>2. CASE v # This /\ \E n \in DOMAIN Params : Params[n] = v
    <3>1. PICK n \in DOMAIN Params : n = CHOOSE i \in DOMAIN Params : Params[i] = v
      BY <2>2
    <3>2. Params[n] = v
      BY <2>2, <3>1
    <3>3. slots[v] = SlotAt(n, told)
      BY <1>4, <2>2, <3>1
    <3>4. ParamValue(v) = 1 + n
      BY <2>2, <3>1 DEF ParamValue
    <3>5. QED
      BY <2>2, <3>2, <3>3, <3>4
  <2>3. CASE v # This /\ ~ \E n \in DOMAIN Params : Params[n] = v
    BY <1>2, <1>4, <2>3 DEF Range
  <2>4. QED
    BY <2>1, <2>2, <2>3
<1>9. SlotsTyped
  <2>1. DOMAIN syms = Var /\ DOMAIN slots = Var /\ DOMAIN holds = Var /\ DOMAIN saved = SlotRange
    BY <1>2, <1>4, Zenon DEF SlotRange
  <2>2. \A v \in Var : syms[v].kind # "slot"
    BY <1>2, <1>5
  <2>3. \A v \in Var : slots[v] = NoSlot \/ slots[v] \in SlotRange
    BY <1>2, <1>3, <1>7, <1>8 DEF SlotRange
  <2>4. QED
    BY <1>2, <1>3, <2>1, <2>2, <2>3 DEF SlotsTyped
<1>10. SlotsKnown
  <2>1. \A v \in Var : syms[v].kind # "slot"
    BY <1>2, <1>5
  <2>2. ASSUME NEW v \in Var, slots[v] # NoSlot PROVE v \in assigned
    BY <1>2, <1>8, <2>2 DEF Range
  <2>3. QED
    BY <2>1, <2>2 DEF SlotsKnown
<1>11. SlotsTrue
  <2>1. SUFFICES ASSUME NEW v \in Var, v \notin unsteady, Resolve(v).kind = "slot"
                 PROVE  saved[Resolve(v).slot] = holds[v]
    BY DEF SlotsTrue
  <2>2. slots[v] # NoSlot /\ Resolve(v) = SlotRef(slots[v])
    BY <1>2, <1>3, <1>5, <2>1 DEF Resolve
  <2>3. Resolve(v).slot = slots[v] /\ holds[v] = ParamValue(v)
    BY <1>2, <2>2 DEF SlotRef
  <2>4. v \in assigned /\ (told <=> static)
    <3>1. v \in assigned
      BY <1>2, <1>8, <2>2 DEF Range
    <3>2. ~(static /\ ~listed)
      BY <1>2, <2>1, <3>1
    <3>3. QED
      BY <3>1, <3>2 DEF told
  <2>5. CASE v = This
    <3>1. ~static /\ slots[v] = 0
      BY <1>8, <2>2, <2>4, <2>5
    <3>2. saved[0] = 1
      BY <1>2, <1>3, <3>1, FrameIsJvms
    <3>3. QED
      BY <2>3, <2>5, <3>1, <3>2 DEF ParamValue
  <2>6. CASE v # This
    <3>1. PICK n \in DOMAIN Params : slots[v] = SlotAt(n, told) /\ ParamValue(v) = 1 + n
      BY <1>8, <2>2, <2>4, <2>6
    <3>2. told = static
      BY <1>2, <2>4
    <3>3. SlotAt(n, static) \in 0 .. FirstSlot - 1 /\ JvmFrame[SlotAt(n, static)] = 1 + n
      BY <1>2, FrameIsJvms
    <3>4. saved[SlotAt(n, static)] = JvmFrame[SlotAt(n, static)]
      BY <1>2, <3>3
    <3>5. QED
      BY <2>3, <3>1, <3>2, <3>3, <3>4
  <2>7. QED
    BY <2>5, <2>6
<1>12. QED
  BY <1>9, <1>10, <1>11 DEF SlotsInv

\* The texts of a body lie in the order of their statements.
TextsOf(text, ops) ==
    [i \in DOMAIN text |-> IF text[i].hint /\ text[i].op \in ops THEN <<text[i]>> ELSE <<>>]

LEMMA HintsAre ==
    /\ invokeHints = FlattenSeq(TextsOf(body, Invokes))
    /\ fieldHints = FlattenSeq(TextsOf(body, FieldOps))
BY DEF invokeHints, fieldHints, HintsOf, IsInvokeHint, IsFieldHint, TextsOf, FieldOps

LEMMA HintPlaces ==
    ASSUME NEW text \in Seq(Statement), NEW ops
    PROVE  /\ FlattenSeq(TextsOf(text, ops)) \in Seq({s \in Statement : s.op \in ops})
           /\ \E off : Placed(off, TextsOf(text, ops), FlattenSeq(TextsOf(text, ops)))
<1> DEFINE T == {s \in Statement : s.op \in ops}
           P(i) == IF text[i].hint /\ text[i].op \in ops THEN <<text[i]>> ELSE <<>>
<1>1. Len(text) \in Nat /\ DOMAIN text = 1..Len(text) /\ \A i \in 1..Len(text) : text[i] \in Statement
  OBVIOUS
<1>2. \A i \in 1..Len(text) : P(i) \in Seq(T)
  <2>1. SUFFICES ASSUME NEW i \in 1..Len(text) PROVE P(i) \in Seq(T)
    OBVIOUS
  <2>2. CASE text[i].hint /\ text[i].op \in ops
    <3>1. text[i] \in T
      BY <1>1, <2>2
    <3> HIDE DEF T
    <3>2. QED
      BY <2>2, <3>1
  <2>3. CASE ~(text[i].hint /\ text[i].op \in ops)
    <3> HIDE DEF T
    <3>1. QED
      BY <2>3
  <2>4. QED
    BY <2>2, <2>3
<1> HIDE DEF P, T
<1>3. [i \in 1..Len(text) |-> P(i)] \in Seq(Seq(T))
  BY <1>1, <1>2
<1>4. TextsOf(text, ops) \in Seq(Seq(T))
  BY <1>1, <1>3, Zenon DEF P, TextsOf
<1>5. FlattenSeq(TextsOf(text, ops)) \in Seq(T) /\ \E off : Placed(off, TextsOf(text, ops), FlattenSeq(TextsOf(text, ops)))
  BY <1>4, FlattenTyped, FlattenPlaces
<1>6. QED
  BY <1>5 DEF T

LEMMA TracksInit ==
    ASSUME NEW b \in Seq(Statement), NEW ops, NEW fit
    PROVE  Tracks(FlattenSeq(TextsOf(b, ops)), b, ops, 1, fit)
<1> DEFINE w == TextsOf(b, ops)
           hints == FlattenSeq(w)
<1>1. /\ DOMAIN w = DOMAIN b
      /\ \A i \in DOMAIN b : w[i] = IF b[i].hint /\ b[i].op \in ops THEN <<b[i]>> ELSE <<>>
  BY DEF TextsOf
<1>2. PICK at : Placed(at, w, hints)
  BY HintPlaces
<1>3. hints \in Seq({x \in Statement : x.op \in ops})
  BY HintPlaces
<1> HIDE DEF w, hints
<1> DEFINE e == [p \in Pending(b, ops) |-> at[p] + 1]
<1>4. \A p \in Pending(b, ops) : e[p] = at[p] + 1
  OBVIOUS
<1> HIDE DEF e
<1>5. \A p \in Pending(b, ops) : p \in DOMAIN w /\ w[p] = <<b[p]>>
  BY <1>1 DEF Pending
<1>6. ASSUME NEW p \in Pending(b, ops)
      PROVE  e[p] \in DOMAIN hints /\ hints[e[p]] = b[p] /\ e[p] \in Nat /\ 1 <= e[p] /\ at[p] \in Nat
  <2>1. p \in DOMAIN w /\ 1 \in DOMAIN w[p] /\ w[p][1] = b[p]
    BY <1>5
  <2>2. at[p] + 1 \in DOMAIN hints /\ hints[at[p] + 1] = b[p] /\ at[p] \in Nat
    BY <1>2, <2>1 DEF Placed
  <2>3. QED
    BY <1>4, <2>2
<1>7. Places(e, hints, b, ops)
  <2>1. ASSUME NEW p \in Pending(b, ops), NEW q \in Pending(b, ops), p < q PROVE e[p] < e[q]
    <3>0. p \in DOMAIN w /\ q \in DOMAIN w /\ w[p] = <<b[p]>>
      BY <1>5
    <3>1. p \in DOMAIN w /\ q \in DOMAIN w /\ Len(w[p]) = 1
      BY <3>0
    <3>2. at[p] + Len(w[p]) <= at[q]
      BY <1>2, <2>1, <3>1 DEF Placed
    <3>3. QED
      BY <1>4, <1>6, <3>1, <3>2
  <2>2. QED
    BY <1>6, <2>1 DEF Places
<1>8. ASSUME NEW j \in DOMAIN hints PROVE \E p \in Pending(b, ops) : e[p] = j
  <2>1. PICK i \in DOMAIN w : \E m \in DOMAIN w[i] : j = at[i] + m
    BY <1>2 DEF Placed
  <2>2. PICK m \in DOMAIN w[i] : j = at[i] + m
    BY <2>1
  <2>3. i \in Pending(b, ops) /\ w[i] = <<b[i]>>
    BY <1>1, <2>1, <2>2 DEF Pending
  <2>4. m = 1
    BY <2>2, <2>3
  <2>5. QED
    BY <1>4, <2>2, <2>3, <2>4
<1>9. \A k \in KindsOf(ops) : Ahead(e, hints, b, ops, 1, k)
  BY <1>6, <1>8 DEF Ahead
<1>10. Tracks(hints, b, ops, 1, fit)
  BY <1>7, <1>9, Zenon DEF Tracks
<1>11. QED
  BY <1>10 DEF hints, w

LEMMA HintInit == Init => HintInv
<1>1. SUFFICES ASSUME Init PROVE HintInv
  OBVIOUS
<1>2. /\ body \in Seq(Statement) /\ todo = body /\ invokeAt = 1 /\ fieldAt = 1
      /\ DOMAIN fits = {"invoke", "read", "assign"}
  BY <1>1, BodiesAssumption DEF Init
<1>3. HintTyped
  BY <1>2, HintsAre, HintPlaces DEF HintTyped
<1>4. /\ Tracks(invokeHints, todo, Invokes, invokeAt, fits)
      /\ Tracks(fieldHints, todo, FieldOps, fieldAt, fits)
  BY <1>2, HintsAre, TracksInit
<1>5. QED
  BY <1>3, <1>4 DEF HintInv

LEMMA LoadInit == Init => TodoInv /\ LoadInv
<1>1. Init => FineSeq(code)
  BY PlainNone, PlainIsFine DEF Init
<1>2. QED
  BY <1>1, TodoInit, SlotsInit, SymsInit, HintInit DEF LoadInv

LEMMA LoadStep ==
    ASSUME TodoInv, LoadInv, [Next]_vars
    PROVE  TodoInv' /\ LoadInv'
<1>1. SlotsInv /\ SymsInv /\ HintInv
  BY DEF LoadInv
<1>2. TodoInv' /\ SlotsInv' /\ SymsInv' /\ HintInv' /\ FineSeq(code')
  BY <1>1, TodoStep, SlotsStep, SymsStep, HintStep, FineStep
<1>3. QED
  BY <1>2 DEF LoadInv

\* Wherever the lifted method loads a local variable for a C variable that is
\* steady, the local variable holds what the C variable holds there: with as many
\* arguments as FirstSlot leaves room for, any of them wide, in any order of
\* statements and any nesting of ifs.
THEOREM LoadsAreHeld == Spec => []LoadsAreTrue
<1>1. TodoInv /\ LoadInv /\ [Next]_vars => (TodoInv /\ LoadInv)'
  BY LoadStep
<1>2. LoadInv => LoadsAreTrue
  BY FineAre DEF LoadInv, LoadsAreTrue, Fine
<1>3. QED
  BY LoadInit, <1>1, <1>2, PTL DEF Spec

\* The field or method an instruction names is the one the C program uses there:
\* by an ID that is assigned once, by the cacheTable, or by the error texts as
\* long as each went to the access it belongs to; for every function of the
\* decompiler, its ifs enclosed in one another to any depth.
THEOREM MembersAreNamed == Spec => []MembersAreTrue
<1>1. TodoInv /\ LoadInv /\ [Next]_vars => (TodoInv /\ LoadInv)'
  BY LoadStep
<1>2. LoadInv => MembersAreTrue
  BY FineAre DEF LoadInv, MembersAreTrue, Fine
<1>3. QED
  BY LoadInit, <1>1, <1>2, PTL DEF Spec

-----------------------------------------------------------------------------
(* Labels and jumps.                                                       *)

OnceCode ==
    \A i, k \in DOMAIN code :
        code[i].op = "LABEL" /\ code[k].op = "LABEL" /\ code[i].label = code[k].label => i = k

\* The labels that are still to come are apart from each other and from those
\* that were placed.
OnceTodo ==
    /\ LabelsOnce(todo)
    /\ \A i \in DOMAIN todo : todo[i].op = "Label" => todo[i].label \notin Labels

Lands ==
    \A i \in DOMAIN code : code[i].op \in Jumps =>
        \E k \in DOMAIN code : code[k].op = "LABEL" /\ code[k].label = code[i].label
Leaves == code # <<>> /\ Last(code).op \in Ends

JumpInv ==
    /\ OnceCode /\ OnceTodo
    /\ phase \in {"close", "done"} => Lands
    /\ phase = "done" => Leaves

\* What is cut out of the text has no label twice, and none that was placed.
LEMMA OnceAfter ==
    ASSUME TodoInv, todo # <<>>, OnceTodo, NEW n, NEW x, NEW y, Cut(todo, todo', n, x, y),
           \A l \in Labels' : l \in Labels \/ (S.op = "Label" /\ l = S.label)
    PROVE  OnceTodo'
<1>1. PICK td, td2 : td = todo /\ td2 = todo'
  OBVIOUS
<1>2. td \in Seq(Statement) /\ td[1] = S /\ 1 \in DOMAIN td
  BY <1>1, HeadTyped DEF TodoInv
<1>3. /\ n \in Nat /\ x \in Nat \ {0} /\ y \in Nat /\ x <= y
      /\ td2 \in Seq(Statement) /\ Len(td) = Len(td2) + y /\ n <= Len(td2)
      /\ \A i \in 1..n : td2[i] = td[i + x]
      /\ \A i \in n + 1..Len(td2) : td2[i] = td[i + y]
  BY <1>1 DEF Cut
<1>4. PICK l \in Nat : l = Len(td2)
  BY <1>3
<1>5. DOMAIN td2 = 1..l /\ DOMAIN td = 1..l + y /\ n <= l
  <2>1. DOMAIN td2 = 1..Len(td2) /\ DOMAIN td = 1..Len(td)
    BY <1>2, <1>3
  <2>2. QED
    BY <1>3, <1>4, <2>1
<1> DEFINE t == [i \in 1..l |-> IF i <= n THEN i + x ELSE i + y]
<1>6. \A i \in 1..l : t[i] = IF i <= n THEN i + x ELSE i + y
  OBVIOUS
<1> HIDE DEF t
<1>7. \A i \in 1..l : t[i] \in 1..l + y /\ t[i] # 1 /\ td2[i] = td[t[i]]
  <2>1. SUFFICES ASSUME NEW i \in 1..l
                 PROVE  t[i] \in 1..l + y /\ t[i] # 1 /\ td2[i] = td[t[i]]
    OBVIOUS
  <2>2. CASE i <= n
    <3>1. t[i] = i + x /\ td2[i] = td[i + x]
      BY <1>3, <1>6, <2>2
    <3>2. i + x \in 1..l + y /\ i + x # 1
      BY <1>3, <1>5, <2>2
    <3>3. QED
      BY <3>1, <3>2
  <2>3. CASE ~(i <= n)
    <3>1. t[i] = i + y /\ td2[i] = td[i + y]
      BY <1>3, <1>4, <1>6, <2>3
    <3>2. i + y \in 1..l + y /\ i + y # 1
      BY <1>3, <1>5, <2>3
    <3>3. QED
      BY <3>1, <3>2
  <2>4. QED
    BY <2>2, <2>3
<1>8. \A i \in 1..l, j \in 1..l : t[i] = t[j] => i = j
  <2>1. \A i \in 1..l, j \in 1..l : i < j => t[i] < t[j] /\ t[i] \in Nat /\ t[j] \in Nat
    <3>1. n \in Nat /\ x \in Nat /\ y \in Nat /\ x <= y
      BY <1>3
    <3>2. QED
      BY <1>6, <3>1
  <2>2. QED
    BY <2>1
<1>9. LabelsOnce(td2)
  <2>1. \A i, k \in DOMAIN td : td[i].op = "Label" /\ td[k].op = "Label" /\ td[i].label = td[k].label => i = k
    BY <1>1 DEF OnceTodo, LabelsOnce
  <2>2. QED
    BY <1>5, <1>7, <1>8, <2>1 DEF LabelsOnce
<1>10. ASSUME NEW i \in 1..l, td2[i].op = "Label" PROVE td2[i].label \notin Labels'
  <2>1. t[i] \in DOMAIN td /\ td[t[i]].op = "Label" /\ td[t[i]].label = td2[i].label
    BY <1>5, <1>7, <1>10
  <2>2. td2[i].label \notin Labels
    BY <1>1, <2>1 DEF OnceTodo
  <2>3. ~(S.op = "Label" /\ td2[i].label = S.label)
    BY <1>1, <1>2, <1>7, <2>1 DEF OnceTodo, LabelsOnce
  <2>4. QED
    BY <2>2, <2>3
<1>11. LabelsOnce(todo)' <=> LabelsOnce(td2)
  BY <1>1 DEF LabelsOnce
<1>12. QED
  BY <1>1, <1>5, <1>9, <1>10, <1>11 DEF OnceTodo

\* The labels of the code are those it had, and the new ones.
LEMMA CodeLabels ==
    ASSUME NEW T, code \in Seq(T), NEW U, NEW instrs \in Seq(U), code' = code \o instrs
    PROVE  /\ code' \in Seq(T \cup U)
           /\ Len(code) \in Nat /\ Len(instrs) \in Nat /\ DOMAIN code = 1..Len(code)
           /\ DOMAIN instrs = 1..Len(instrs) /\ DOMAIN code' = 1..Len(code) + Len(instrs)
           /\ \A i \in 1..Len(code) : code'[i] = code[i]
           /\ \A i \in DOMAIN code' : i \notin 1..Len(code) =>
                    i - Len(code) \in 1..Len(instrs) /\ code'[i] = instrs[i - Len(code)]
<1>1. code \in Seq(T \cup U) /\ instrs \in Seq(T \cup U)
  OBVIOUS
<1>2. /\ Len(code) \in Nat /\ Len(instrs) \in Nat /\ Len(code \o instrs) = Len(code) + Len(instrs)
      /\ \A i \in 1..Len(code) : (code \o instrs)[i] = code[i]
      /\ \A j \in 1..Len(instrs) : (code \o instrs)[Len(code) + j] = instrs[j]
      /\ code \o instrs \in Seq(T \cup U)
  BY <1>1, JoinedAt, Joined
<1>3. DOMAIN code' = 1..Len(code) + Len(instrs) /\ DOMAIN code = 1..Len(code) /\ DOMAIN instrs = 1..Len(instrs)
  BY <1>1, <1>2
<1>4. ASSUME NEW i \in DOMAIN code', i \notin 1..Len(code)
      PROVE  i - Len(code) \in 1..Len(instrs) /\ code'[i] = instrs[i - Len(code)]
  <2>1. i - Len(code) \in 1..Len(instrs) /\ Len(code) + (i - Len(code)) = i
    BY <1>2, <1>3, <1>4
  <2>2. QED
    BY <1>2, <2>1
<1>5. QED
  BY <1>2, <1>3, <1>4

LEMMA PlainKeeps ==
    ASSUME FineSeq(code), OnceCode, NEW instrs, PlainSeq(instrs), Emit(instrs)
    PROVE  OnceCode' /\ Labels' \subseteq Labels
<1>1. PICK T : code \in Seq(T)
  BY Zenon DEF FineSeq
<1>2. PICK U : instrs \in Seq(U) /\ \A i \in U : Plain(i)
  BY Zenon DEF PlainSeq
<1>3. code' = code \o instrs
  BY DEF Emit
<1>4. \A i \in DOMAIN code' : code'[i].op = "LABEL" => i \in DOMAIN code /\ code'[i] = code[i]
  <2>1. SUFFICES ASSUME NEW i \in DOMAIN code', code'[i].op = "LABEL"
                 PROVE  i \in DOMAIN code /\ code'[i] = code[i]
    OBVIOUS
  <2>2. \A j \in 1..Len(instrs) : instrs[j].op # "LABEL"
    BY <1>2 DEF Plain
  <2>3. i \in 1..Len(code)
    BY <1>1, <1>2, <1>3, <2>1, <2>2, CodeLabels
  <2>4. QED
    BY <1>1, <1>2, <1>3, <2>3, CodeLabels
<1>5. QED
  BY <1>4 DEF OnceCode, Labels

\* A label is placed that no other place has.
LEMMA LabelKeeps ==
    ASSUME FineSeq(code), OnceCode, OnceTodo, todo \in Seq(Statement), LabelHere
    PROVE  OnceCode' /\ S.op = "Label" /\ Labels' \subseteq Labels \cup {S.label}
<1> DEFINE new == Jump("LABEL", S.label)
<1>0. new.op = "LABEL" /\ new.label = S.label
  BY DEF Jump, I
<1>1. PICK T : code \in Seq(T)
  BY Zenon DEF FineSeq
<1>2. code' = code \o <<new>> /\ todo # <<>> /\ S.op = "Label"
  BY DEF LabelHere, Emit, Walk
<1>3. S.label \notin Labels
  <2>1. 1 \in DOMAIN todo /\ S = todo[1]
    BY <1>2 DEF S
  <2>2. QED
    BY <1>2, <2>1 DEF OnceTodo
<1> HIDE DEF new
<1>4. <<new>> \in Seq({new}) /\ Len(<<new>>) = 1 /\ <<new>>[1] = new
  OBVIOUS
<1>5. /\ Len(code) \in Nat /\ DOMAIN code = 1..Len(code) /\ DOMAIN code' = 1..Len(code) + 1
      /\ \A i \in 1..Len(code) : code'[i] = code[i]
      /\ \A i \in DOMAIN code' : i \notin 1..Len(code) =>
                    i - Len(code) \in 1..1 /\ code'[i] = <<new>>[i - Len(code)]
  BY <1>1, <1>2, <1>4, CodeLabels
<1>6. \A i \in DOMAIN code' : \/ i \in DOMAIN code /\ code'[i] = code[i]
                              \/ i = Len(code) + 1 /\ code'[i] = new
  <2>1. SUFFICES ASSUME NEW i \in DOMAIN code', i \notin 1..Len(code)
                 PROVE  i = Len(code) + 1 /\ code'[i] = new
    BY <1>5
  <2>2. i - Len(code) = 1 /\ i \in Nat
    BY <1>5, <2>1
  <2>3. code'[i] = new
    BY <1>4, <1>5, <2>1, <2>2
  <2>4. QED
    BY <1>5, <2>2, <2>3
<1>7. \A i \in DOMAIN code : code[i].op = "LABEL" => code[i].label \in Labels
  BY DEF Labels
<1>8. OnceCode'
  BY <1>0, <1>3, <1>6, <1>7 DEF OnceCode
<1>9. Labels' \subseteq Labels \cup {S.label}
  BY <1>0, <1>6 DEF Labels
<1>10. QED
  BY <1>2, <1>8, <1>9

\* _drop_dangling_jumps
LEMMA CleanLands ==
    ASSUME FineSeq(code), OnceCode, Clean
    PROVE  OnceCode' /\ Labels' \subseteq Labels /\ Lands'
<1> DEFINE s == [i \in DOMAIN code |-> Cleaned(code[i])]
<1>1. PICK T : code \in Seq(T)
  BY Zenon DEF FineSeq
<1>2. s \in Seq(Seq(T \cup {I("POP")}))
  BY <1>1, CleanedTyped
<1>3. DOMAIN s = DOMAIN code /\ \A i \in DOMAIN code : s[i] = Cleaned(code[i])
  OBVIOUS
<1>4. code' = FlattenSeq(s)
  BY DEF Clean
<1> HIDE DEF s
<1>5. PICK off : Placed(off, s, code')
  BY <1>2, <1>4, FlattenPlaces
<1>6. ASSUME NEW i \in DOMAIN code, NEW j \in DOMAIN s[i], s[i][j].op \in Jumps \cup {"LABEL"}
      PROVE  /\ j = 1 /\ s[i][j] = code[i]
             /\ code[i].op \in Jumps => code[i].label \in Labels
  <2>1. I("POP").op = "POP"
    BY DEF I
  <2>2. s[i] = <<code[i]>> /\ (code[i].op \in Jumps => code[i].label \in Labels)
    <3>1. s[i] = Cleaned(code[i])
      BY <1>3
    <3>2. CASE code[i].op \notin Jumps \/ code[i].label \in Labels
      BY <3>1, <3>2 DEF Cleaned
    <3>3. CASE ~(code[i].op \notin Jumps \/ code[i].label \in Labels)
      <4>1. s[i] = <<I("POP"), I("POP")>> \/ s[i] = <<I("POP")>> \/ s[i] = <<>>
        BY <3>1, <3>3 DEF Cleaned
      <4>2. s[i][j] = I("POP")
        BY <1>6, <4>1
      <4>3. QED
        BY <1>6, <2>1, <4>2 DEF Jumps
    <3>4. QED
      BY <3>2, <3>3
  <2>3. QED
    BY <1>6, <2>2
<1>7. ASSUME NEW m \in DOMAIN code', code'[m].op \in Jumps \cup {"LABEL"}
      PROVE  \E i \in DOMAIN code : /\ m = off[i] + 1 /\ code'[m] = code[i]
                                    /\ code[i].op \in Jumps => code[i].label \in Labels
  <2>1. PICK i \in DOMAIN code : \E j \in DOMAIN s[i] : m = off[i] + j
    BY <1>3, <1>5, <1>7 DEF Placed
  <2>2. PICK j \in DOMAIN s[i] : m = off[i] + j
    BY <2>1
  <2>3. code'[m] = s[i][j]
    BY <1>3, <1>5, <2>2 DEF Placed
  <2>4. QED
    BY <1>6, <1>7, <2>2, <2>3
<1>8. ASSUME NEW k \in DOMAIN code, code[k].op = "LABEL"
      PROVE  off[k] + 1 \in DOMAIN code' /\ code'[off[k] + 1] = code[k]
  <2>1. s[k] = <<code[k]>>
    BY <1>3, <1>8 DEF Cleaned, Jumps
  <2>2. 1 \in DOMAIN s[k] /\ s[k][1] = code[k]
    BY <2>1
  <2>3. QED
    BY <1>3, <1>5, <2>2 DEF Placed
<1>9. OnceCode'
  <2>1. SUFFICES ASSUME NEW m \in DOMAIN code', NEW l \in DOMAIN code',
                        code'[m].op = "LABEL", code'[l].op = "LABEL", code'[m].label = code'[l].label
                 PROVE  m = l
    BY DEF OnceCode
  <2>2. PICK i \in DOMAIN code : m = off[i] + 1 /\ code'[m] = code[i]
    BY <1>7, <2>1
  <2>3. PICK k \in DOMAIN code : l = off[k] + 1 /\ code'[l] = code[k]
    BY <1>7, <2>1
  <2>4. i = k
    BY <2>1, <2>2, <2>3 DEF OnceCode
  <2>5. QED
    BY <2>2, <2>3, <2>4
<1>10. Labels' \subseteq Labels
  <2>1. ASSUME NEW m \in DOMAIN code', code'[m].op = "LABEL" PROVE code'[m].label \in Labels
    BY <1>7, <2>1 DEF Labels
  <2>2. QED
    BY <2>1 DEF Labels
<1>11. Lands'
  <2>1. SUFFICES ASSUME NEW m \in DOMAIN code', code'[m].op \in Jumps
                 PROVE  \E l \in DOMAIN code' : code'[l].op = "LABEL" /\ code'[l].label = code'[m].label
    BY DEF Lands, Jumps
  <2>2. PICK i \in DOMAIN code : code'[m] = code[i] /\ code[i].label \in Labels
    BY <1>7, <2>1
  <2>3. PICK k \in DOMAIN code : code[k].op = "LABEL" /\ code[k].label = code[i].label
    BY <2>2 DEF Labels
  <2>4. QED
    BY <1>8, <2>2, <2>3
<1>12. QED
  BY <1>9, <1>10, <1>11

\* The end of the method
LEMMA CloseLeaves ==
    ASSUME FineSeq(code), Lands, Close
    PROVE  Lands' /\ Leaves'
<1>1. PICK T : code \in Seq(T)
  BY Zenon DEF FineSeq
<1>2. CASE Leaves
  BY <1>2 DEF Close, Leaves, Lands
<1>3. CASE ~Leaves
  <2> DEFINE U == {I("ICONST_0"), I("RETURN")}
             p == IF Returns THEN <<I("ICONST_0")>> ELSE <<>>
             q == <<I("RETURN")>>
             a == p \o q
  <2>1. I("ICONST_0").op = "ICONST_0" /\ I("RETURN").op = "RETURN"
    BY DEF I
  <2>2. code' = code \o a
    BY <1>3, Zenon DEF Close, Leaves, Emit
  <2>3. p \in Seq(U) /\ q \in Seq(U) /\ Len(q) = 1 /\ q[1] = I("RETURN")
    OBVIOUS
  <2>4. \A i \in U : i.op \notin Jumps
    BY <2>1 DEF Jumps
  <2> HIDE DEF p, q, U
  <2>5. /\ a \in Seq(U) /\ Len(p) \in Nat /\ Len(q) = 1 /\ q[1] = I("RETURN") /\ Len(a) = Len(p) + Len(q)
        /\ \A k \in 1..Len(q) : a[Len(p) + k] = q[k]
    <3>1. a \in Seq(U)
      BY <2>3, Joined
    <3>2. /\ Len(p) \in Nat /\ Len(p \o q) = Len(p) + Len(q)
          /\ \A k \in 1..Len(q) : (p \o q)[Len(p) + k] = q[k]
      BY <2>3, JoinedAt
    <3>3. QED
      BY <2>3, <3>1, <3>2
  <2> HIDE DEF a
  <2>6. Len(a) \in Nat \ {0} /\ a[Len(a)] = I("RETURN") /\ \A i \in 1..Len(a) : a[i] \in U
    BY <2>5
  <2>7. /\ code' \in Seq(T \cup U)
        /\ Len(code) \in Nat /\ DOMAIN code = 1..Len(code) /\ DOMAIN code' = 1..Len(code) + Len(a)
        /\ \A i \in 1..Len(code) : code'[i] = code[i]
        /\ \A i \in DOMAIN code' : i \notin 1..Len(code) =>
                    i - Len(code) \in 1..Len(a) /\ code'[i] = a[i - Len(code)]
    BY <1>1, <2>2, <2>5, CodeLabels
  <2>8. Lands'
    <3>1. SUFFICES ASSUME NEW i \in DOMAIN code', code'[i].op \in Jumps
                   PROVE  \E k \in DOMAIN code' : code'[k].op = "LABEL" /\ code'[k].label = code'[i].label
      BY DEF Lands, Jumps
    <3>2. i \in 1..Len(code)
      BY <2>4, <2>6, <2>7, <3>1
    <3>3. PICK k \in DOMAIN code : code[k].op = "LABEL" /\ code[k].label = code[i].label
      BY <2>7, <3>1, <3>2 DEF Lands
    <3>4. k \in DOMAIN code' /\ code'[k] = code[k] /\ code'[i] = code[i]
      BY <2>6, <2>7, <3>2
    <3>5. QED
      BY <3>3, <3>4
  <2>9. Leaves'
    <3>1. DOMAIN code' = 1..Len(code') /\ Len(code') \in Nat
      BY <2>7
    <3>2. Len(code') = Len(code) + Len(a)
      BY <2>6, <2>7, <3>1
    <3>3. Len(code') \in DOMAIN code' /\ Len(code') \notin 1..Len(code) /\ Len(code') - Len(code) = Len(a)
      BY <2>6, <2>7, <3>1, <3>2
    <3>4. code'[Len(code')] = a[Len(a)]
      BY <2>7, <3>3
    <3>5. code' # <<>> /\ Last(code') = I("RETURN")
      BY <2>6, <3>3, <3>4 DEF Last
    <3>6. QED
      BY <2>1, <3>5 DEF Leaves, Ends
  <2>10. QED
    BY <2>8, <2>9
<1>4. QED
  BY <1>2, <1>3

LEMMA JumpStep ==
    ASSUME TodoInv, LoadInv, JumpInv, [Next]_vars
    PROVE  JumpInv'
<1>0. OnceCode /\ OnceTodo /\ FineSeq(code)
  BY DEF JumpInv, LoadInv
<1>1. CASE UNCHANGED <<todo, phase, code>>
  BY <1>1 DEF JumpInv, OnceCode, OnceTodo, Lands, Leaves, Labels, LabelsOnce
<1>2. CASE phase = "walk" /\ todo # <<>> /\ ~ UNCHANGED <<todo, phase, code>>
  <2>1. ~ UNCHANGED todo
    <3>1. CASE SkipGuard \/ SkipTested \/ SkipCacheInit \/ IfGoto \/ IfBoth
      <4>1. PICK text, over : Splits(text, over) /\ todo' = text \o Rest
        BY <3>1, IfSplits
      <4>2. PICK n, x, y : Cut(todo, todo', n, x, y)
        BY <1>2, <4>1, IfCuts
      <4>3. QED
        BY <4>2 DEF Cut
    <3>2. CASE FindClass \/ GetID \/ NewString \/ NewObject \/ NewRef \/ GetField \/ SetField \/ Call
               \/ Throw \/ ExceptionCheck \/ Opaque \/ Copy \/ LabelHere \/ Goto \/ Return
      <4>1. todo' = Tail(todo)
        BY <3>2 DEF FindClass, GetID, NewString, NewObject, NewRef, GetField, SetField, Call, Throw,
           ExceptionCheck, Opaque, Copy, LabelHere, Goto, Return, Done
      <4>2. Cut(todo, todo', 0, 1, 1)
        BY <1>2, <4>1, TailCuts DEF TodoInv
      <4>3. QED
        BY <4>2 DEF Cut
    <3>3. ~EndOfText /\ ~Clean /\ ~Close /\ ~ UNCHANGED vars
      BY <1>2 DEF EndOfText, Clean, Close, vars
    <3>4. QED
      BY <3>1, <3>2, <3>3 DEF Next
  <2>2. phase' = "walk" /\ \E n, x, y : Cut(todo, todo', n, x, y)
    BY <2>1, TextStep
  <2>3. todo \in Seq(Statement)
    BY DEF TodoInv
  <2>4. /\ OnceCode'
        /\ \A l \in Labels' : l \in Labels \/ (S.op = "Label" /\ l = S.label)
    <3>1. CASE UNCHANGED code
      BY <1>0, <3>1 DEF OnceCode, Labels
    <3>2. CASE EmitsPlain
      BY <1>0, <3>2, PlainKeeps DEF EmitsPlain
    <3>3. CASE LabelHere
      BY <1>0, <2>3, <3>3, LabelKeeps
    <3>4. ~Clean
      BY <1>2 DEF Clean
    <3>5. QED
      BY <3>1, <3>2, <3>3, <3>4, EmitStep DEF LoadInv
  <2>5. OnceTodo'
    BY <1>0, <1>2, <2>2, <2>4, OnceAfter
  <2>6. QED
    BY <2>2, <2>4, <2>5 DEF JumpInv
<1>3. CASE EndOfText
  <2>1. UNCHANGED <<todo, code>> /\ phase' = "clean"
    BY <1>3 DEF EndOfText
  <2>2. QED
    BY <2>1 DEF JumpInv, OnceCode, OnceTodo, Labels, LabelsOnce
<1>4. CASE Clean
  <2>1. todo' = todo /\ phase' = "close"
    BY <1>4 DEF Clean
  <2>2. OnceCode' /\ Labels' \subseteq Labels /\ Lands'
    BY <1>0, <1>4, CleanLands
  <2>3. OnceTodo'
    BY <1>0, <2>1, <2>2 DEF OnceTodo, LabelsOnce
  <2>4. QED
    BY <2>1, <2>2, <2>3 DEF JumpInv
<1>5. CASE Close
  <2>1. todo' = todo /\ phase' = "done" /\ phase = "close"
    BY <1>5 DEF Close
  <2>2. Lands' /\ Leaves'
    BY <1>0, <1>5, <2>1, CloseLeaves DEF JumpInv
  <2>3. OnceCode' /\ Labels' \subseteq Labels
    <3>1. UNCHANGED code \/ EmitsPlain
      <4>1. ~LabelHere /\ ~Clean
        BY <2>1 DEF LabelHere, Walk, Clean
      <4>2. QED
        BY <4>1, EmitStep DEF LoadInv
    <3>2. CASE UNCHANGED code
      BY <1>0, <3>2 DEF OnceCode, Labels
    <3>3. CASE EmitsPlain
      BY <1>0, <3>3, PlainKeeps DEF EmitsPlain
    <3>4. QED
      BY <3>1, <3>2, <3>3
  <2>4. OnceTodo'
    BY <1>0, <2>1, <2>3 DEF OnceTodo, LabelsOnce
  <2>5. QED
    BY <2>2, <2>3, <2>4 DEF JumpInv
<1>6. QED
  <2>1. UNCHANGED vars \/ EndOfText \/ Clean \/ Close \/ (phase = "walk" /\ todo # <<>>)
    <3>1. SkipGuard \/ SkipTested \/ SkipCacheInit \/ IfGoto \/ IfBoth => phase = "walk" /\ todo # <<>>
      BY DEF SkipGuard, SkipTested, SkipCacheInit, IfGoto, IfBoth, If
    <3>2. FindClass \/ GetID \/ NewString \/ NewObject \/ NewRef \/ GetField \/ SetField \/ Call
          \/ Throw \/ ExceptionCheck \/ Opaque \/ Copy \/ LabelHere \/ Goto \/ Return
          => phase = "walk" /\ todo # <<>>
      BY DEF FindClass, GetID, NewString, NewObject, NewRef, GetField, SetField, Call, Throw,
         ExceptionCheck, Opaque, Copy, LabelHere, Goto, Return, Walk
    <3>3. QED
      BY <3>1, <3>2, Zenon DEF Next
  <2>2. UNCHANGED vars => UNCHANGED <<todo, phase, code>>
    BY DEF vars
  <2>3. QED
    BY <1>1, <1>2, <1>3, <1>4, <1>5, <2>1, <2>2

\* Every finished method loads: each jump has its label and no second one, and
\* the last instruction leaves, for every function whose labels are distinct.
THEOREM BodiesLoad == Spec => []JumpsLand
<1>1. Init => TodoInv /\ LoadInv /\ JumpInv
  <2>1. Init => TodoInv /\ LoadInv
    BY LoadInit
  <2>2. Init => JumpInv
    <3>1. SUFFICES ASSUME Init PROVE JumpInv
      OBVIOUS
    <3>2. LabelsOnce(body) /\ todo = body /\ code = <<>> /\ phase = "walk"
      BY <3>1, BodiesAssumption DEF Init
    <3>3. Labels = {} /\ OnceCode
      BY <3>2 DEF Labels, OnceCode
    <3>4. OnceTodo
      BY <3>2, <3>3 DEF OnceTodo
    <3>5. QED
      BY <3>2, <3>3, <3>4 DEF JumpInv
  <2>3. QED
    BY <2>1, <2>2
<1>2. TodoInv /\ LoadInv /\ JumpInv /\ [Next]_vars => (TodoInv /\ LoadInv /\ JumpInv)'
  <2>1. SUFFICES ASSUME TodoInv, LoadInv, JumpInv, [Next]_vars
                 PROVE  TodoInv' /\ LoadInv' /\ JumpInv'
    OBVIOUS
  <2>2. QED
    BY <2>1, LoadStep, JumpStep
<1>3. JumpInv => JumpsLand
  <2>1. SUFFICES ASSUME JumpInv, phase = "done" PROVE JumpsLand
    BY DEF JumpsLand
  <2>2. ASSUME NEW i \in DOMAIN code, code[i].op \in Jumps
        PROVE  Cardinality({k \in DOMAIN code: code[k].op = "LABEL" /\ code[k].label = code[i].label}) = 1
    <3>1. PICK k \in DOMAIN code : code[k].op = "LABEL" /\ code[k].label = code[i].label
      BY <2>1, <2>2 DEF JumpInv, Lands
    <3>2. {l \in DOMAIN code: code[l].op = "LABEL" /\ code[l].label = code[i].label} = {k}
      BY <2>1, <3>1 DEF JumpInv, OnceCode
    <3>3. QED
      BY <3>2, FS_Singleton
  <2>3. QED
    BY <2>1, <2>2 DEF JumpsLand, JumpInv, Leaves
<1>4. QED
  BY <1>1, <1>2, <1>3, PTL DEF Spec
=============================================================================
