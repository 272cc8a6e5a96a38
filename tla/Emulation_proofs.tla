--------------------------- MODULE Emulation_proofs ---------------------------
(***************************************************************************)
(* Theorems about the mock of the JNI environment, for any number of       *)
(* calls, any names, values and array lengths.  What a handle stands for   *)
(* needs the handles to be apart (SpaceInv); what is behind it, to be what *)
(* a Java VM would have there (ContentInv); what is registered under it,   *)
(* that it is still the class it was looked up as (NameInv).               *)
(***************************************************************************)
EXTENDS Emulation, FiniteSetTheorems, WellFoundedInduction, TLAPS

Kinds == {"class", "fieldid", "bytes", "chars", "obj", "str"}
Metas == ClassName \cup {FieldName[f] : f \in Field} \cup {NoName}
Entry == [kind: Kinds, content: Seq(Nat), meta: Metas]
Region == [at: Nat, size: Nat]
Span(r) == Max({1, r.size})

LEMMA MaxOfTwo ==
    ASSUME NEW x \in Int, NEW y \in Int
    PROVE  Max({x, y}) = IF x >= y THEN x ELSE y
<1>1. \E m \in {x, y} : \A z \in {x, y} : m >= z
  OBVIOUS
<1>2. Max({x, y}) \in {x, y} /\ \A z \in {x, y} : Max({x, y}) >= z
  BY <1>1 DEF Max
<1>3. QED
  BY <1>2

LEMMA MinOfTwo ==
    ASSUME NEW x \in Int, NEW y \in Int
    PROVE  Min({x, y}) = IF x <= y THEN x ELSE y
<1>1. \E m \in {x, y} : \A z \in {x, y} : m <= z
  OBVIOUS
<1>2. Min({x, y}) \in {x, y} /\ \A z \in {x, y} : Min({x, y}) <= z
  BY <1>1 DEF Min
<1>3. QED
  BY <1>2

LEMMA Part ==
    ASSUME NEW S, NEW s \in Seq(S), NEW from \in Nat \ {0}, NEW to \in Nat, to <= Len(s)
    PROVE  SubSeq(s, from, to) \in Seq(S)
  OBVIOUS

LEMMA IsASeq ==
    ASSUME NEW S, NEW n \in Nat, NEW f \in [1..n -> S]
    PROVE  f \in Seq(S)
  OBVIOUS

LEMMA AlignedUp ==
    ASSUME NEW n \in Nat
    PROVE  Aligned(n) \in Nat /\ Aligned(n) >= n
<1>1. n + 15 \in Nat /\ (n + 15) \div 16 \in Nat /\ ((n + 15) \div 16) * 16 >= n
  BY SMT
<1>2. QED
  BY <1>1 DEF Aligned

(***************************************************************************)
(* The address space                                                       *)
(***************************************************************************)
\* Every region lies below the bump pointer.
SpaceInv ==
    /\ hnext \in Nat
    /\ \A h \in DOMAIN handles : h = Default \/ h \in Nat
    /\ allocs \subseteq Region
    /\ \A r \in Regions : r.at + Span(r) <= hnext
    /\ BlocksDisjoint

\* One more region, at or above the bump pointer, leaves them disjoint.
LEMMA OneMore ==
    ASSUME SpaceInv, NEW r \in Region, r.at >= hnext,
           hnext' \in Nat, hnext' >= r.at + Span(r),
           allocs' \subseteq Region, Regions' = Regions \cup {r},
           \A h \in DOMAIN handles' : h = Default \/ h \in Nat
    PROVE  SpaceInv'
<1>1. Regions \subseteq Region
  BY DEF SpaceInv, Regions, Region
<1>2. ASSUME NEW s \in Region PROVE Span(s) \in Nat /\ s.at \in Nat
  BY MaxOfTwo DEF Span, Region
<1>3. \A s \in Regions : s.at + Span(s) <= r.at
  BY <1>1, <1>2 DEF SpaceInv, Region
<1>4. \A s \in Regions' : s.at + Span(s) <= hnext'
  BY <1>1, <1>2, <1>3
<1>5. BlocksDisjoint'
  BY <1>1, <1>2, <1>3 DEF SpaceInv, BlocksDisjoint, Span
<1>6. QED
  BY <1>4, <1>5 DEF SpaceInv

LEMMA NewSpace ==
    ASSUME SpaceInv, NEW k, NEW c, NEW m, New(k, c, m), UNCHANGED allocs
    PROVE  SpaceInv'
<1> DEFINE r == [at |-> hnext, size |-> 16]
<1>1. r \in Region /\ r.at = hnext /\ Span(r) = 16
  BY MaxOfTwo DEF SpaceInv, Region, Span
<1>2. DOMAIN handles' = DOMAIN handles \cup {hnext} /\ hnext' = hnext + 16
  BY DEF New, Put
<1>3. hnext # Default /\ hnext \in Nat
  BY DEF SpaceInv, Default
<1>4. Regions' = Regions \cup {r}
  BY <1>2, <1>3 DEF Regions
<1>5. \A h \in DOMAIN handles' : h = Default \/ h \in Nat
  BY <1>2, <1>3 DEF SpaceInv
<1>6. allocs' \subseteq Region
  BY DEF SpaceInv
<1> HIDE DEF r
<1>7. QED
  BY <1>1, <1>2, <1>3, <1>4, <1>5, <1>6, OneMore

LEMMA TakeSpace ==
    ASSUME SpaceInv, NEW n \in Nat, Take(n), UNCHANGED handles
    PROVE  SpaceInv'
<1>1. Block(n) \in Region /\ Block(n).at >= hnext /\ Block(n).size = n
      /\ Block(n).at = Aligned(hnext)
  BY AlignedUp DEF SpaceInv, Region, Block
<1>2. Span(Block(n)) = IF 1 >= n THEN 1 ELSE n
  BY <1>1, MaxOfTwo DEF Span
<1>3. hnext' = Aligned(hnext) + (IF 16 >= n THEN 16 ELSE n) + 32
  BY MaxOfTwo DEF Take
<1>4. hnext' \in Nat /\ hnext' >= Block(n).at + Span(Block(n))
  BY <1>1, <1>2, <1>3 DEF Region
<1>5. allocs' = allocs \cup {Block(n)} /\ allocs' \subseteq Region
  BY <1>1 DEF Take, SpaceInv
<1>6. Regions' = Regions \cup {Block(n)}
  BY <1>5 DEF Regions
<1>7. \A h \in DOMAIN handles' : h = Default \/ h \in Nat
  BY DEF SpaceInv
<1>8. QED
  BY <1>1, <1>4, <1>5, <1>6, <1>7, OneMore

LEMMA SameSpace ==
    ASSUME SpaceInv, UNCHANGED <<hnext, allocs>>,
           DOMAIN handles' \subseteq DOMAIN handles \cup {Default},
           DOMAIN handles \subseteq DOMAIN handles'
    PROVE  SpaceInv'
<1>1. DOMAIN handles' \ {Default} = DOMAIN handles \ {Default}
  OBVIOUS
<1>2. Regions' = Regions
  BY <1>1 DEF Regions
<1>3. QED
  BY <1>2 DEF SpaceInv, BlocksDisjoint

LEMMA StoredDomain ==
    ASSUME NEW a, NEW type, NEW from, NEW vs
    PROVE  DOMAIN Stored(a, type, from, vs) = DOMAIN handles \cup {a}
<1>1. CASE Known(a)
  BY <1>1 DEF Stored, Known
<1>2. CASE ~Known(a)
  BY <1>2 DEF Stored, Put
<1>3. QED
  BY <1>1, <1>2

LEMMA SomeStored ==
    ASSUME NEW a, \E type, from, bytes : handles' = Stored(a, type, from, bytes)
    PROVE  DOMAIN handles' = DOMAIN handles \cup {a}
<1>1. PICK type, from, bytes : handles' = Stored(a, type, from, bytes)
  OBVIOUS
<1>2. DOMAIN Stored(a, type, from, bytes) = DOMAIN handles \cup {a}
  BY StoredDomain
<1>3. QED
  BY <1>1, <1>2

\* The handles the mock and the Java VM know.
HandlesInv == DOMAIN of = DOMAIN handles \cup {Default}

LEMMA SpaceStep ==
    ASSUME SpaceInv, HandlesInv, [Next]_vars
    PROVE  SpaceInv'
<1>1. CASE Malloc
  BY <1>1, TakeSpace DEF Malloc
<1>2. CASE Calloc
  BY <1>2, TakeSpace DEF Calloc
<1>3. CASE FindClass
  BY <1>3, NewSpace DEF FindClass
<1>4. CASE NewArray
  BY <1>4, NewSpace DEF NewArray
<1>5. CASE AllocObject \/ GetFieldID
  BY <1>5, NewSpace DEF AllocObject, GetFieldID
<1>6. CASE SetRegion
  <2>1. PICK a \in DOMAIN of : \E type, from, bytes : handles' = Stored(a, type, from, bytes)
    BY <1>6 DEF SetRegion
  <2>2. DOMAIN handles' = DOMAIN handles \cup {a}
    BY <2>1, SomeStored, Zenon
  <2>3. QED
    BY <1>6, <2>2, SameSpace DEF SetRegion, HandlesInv
<1>7. CASE StringInit
  <2>1. DOMAIN handles' = DOMAIN handles
    BY <1>7 DEF StringInit
  <2>2. QED
    BY <1>7, <2>1, SameSpace DEF StringInit
<1>8. CASE SetStatic
  BY <1>8, SameSpace DEF SetStatic
<1>9. CASE GetStatic
  BY <1>9, NewSpace DEF GetStatic
<1>10. CASE RegisterNatives
  BY <1>10, SameSpace DEF RegisterNatives
<1>11. CASE Enter
  <2>1. CASE UNCHANGED <<handles, hnext>>
    BY <1>11, <2>1, SameSpace DEF Enter
  <2>2. CASE New("class", <<>>, NoName)
    BY <1>11, <2>2, NewSpace DEF Enter
  <2>3. QED
    BY <1>11, <2>1, <2>2 DEF Enter
<1>12. CASE Leave \/ Call \/ CallDone \/ OnLoadDone \/ RegistrarsDone \/ UNCHANGED vars
  <2>1. UNCHANGED <<hnext, allocs, handles>>
    BY <1>12 DEF Leave, Call, CallDone, OnLoadDone, RegistrarsDone, vars, mock
  <2>2. QED
    BY <2>1, SameSpace
<1>13. CASE Discover
  BY <1>13, SameSpace DEF Discover
<1>14. QED
  BY <1>1, <1>2, <1>3, <1>4, <1>5, <1>6, <1>7, <1>8, <1>9, <1>10, <1>11, <1>12, <1>13
     DEF Next, Guest

LEMMA HandlesStep ==
    ASSUME HandlesInv, [Next]_vars
    PROVE  HandlesInv'
<1>1. CASE FindClass \/ GetFieldID \/ NewArray \/ AllocObject \/ GetStatic
  <2>1. DOMAIN handles' = DOMAIN handles \cup {hnext} /\ DOMAIN of' = DOMAIN of \cup {hnext}
    BY <1>1 DEF FindClass, GetFieldID, NewArray, AllocObject, GetStatic, New, Born, Put
  <2>2. QED
    BY <2>1 DEF HandlesInv
<1>2. CASE Enter
  <2>1. CASE UNCHANGED <<handles, of>>
    BY <2>1 DEF HandlesInv
  <2>2. CASE New("class", <<>>, NoName) /\ Born("Object", <<>>)
    <3>1. DOMAIN handles' = DOMAIN handles \cup {hnext} /\ DOMAIN of' = DOMAIN of \cup {hnext}
      BY <2>2 DEF New, Born, Put
    <3>2. QED
      BY <3>1 DEF HandlesInv
  <2>3. QED
    BY <1>2, <2>1, <2>2 DEF Enter
<1>3. CASE SetRegion
  <2>1. PICK a \in DOMAIN of : \E type, from, bytes : handles' = Stored(a, type, from, bytes)
    BY <1>3 DEF SetRegion
  <2>2. DOMAIN handles' = DOMAIN handles \cup {a}
    BY <2>1, SomeStored, Zenon
  <2>4. of' = of
    BY <1>3 DEF SetRegion
  <2>3. QED
    BY <2>2, <2>4 DEF HandlesInv
<1>4. CASE StringInit
  <2>1. DOMAIN handles' = DOMAIN handles /\ of' = of
    BY <1>4 DEF StringInit
  <2>2. QED
    BY <2>1 DEF HandlesInv
<1>5. CASE Malloc \/ Calloc \/ SetStatic \/ RegisterNatives \/ Leave \/ Discover \/ OnLoadDone
           \/ RegistrarsDone \/ Call \/ CallDone \/ UNCHANGED vars
  <2>1. UNCHANGED <<handles, of>>
    BY <1>5 DEF Malloc, Calloc, SetStatic, RegisterNatives, Leave, Discover, OnLoadDone,
                RegistrarsDone, Call, CallDone, vars, mock, java, objects
  <2>2. QED
    BY <2>1 DEF HandlesInv
<1>6. QED
  BY <1>1, <1>2, <1>3, <1>4, <1>5 DEF Next, Guest

\* Whatever the guest allocates and however often, no two handles or blocks
\* overlap: _new and _malloc share one bump pointer.
THEOREM BlocksStayDisjoint == Spec => []BlocksDisjoint
<1>1. Init => SpaceInv /\ HandlesInv
  <2>1. SUFFICES ASSUME Init PROVE SpaceInv /\ HandlesInv
    OBVIOUS
  <2>2. hnext = 256 /\ DOMAIN handles = {} /\ allocs = {} /\ DOMAIN of = {Default}
    BY <2>1 DEF Init, Base
  <2>3. Regions = {}
    BY <2>2 DEF Regions
  <2>4. QED
    BY <2>2, <2>3 DEF SpaceInv, BlocksDisjoint, HandlesInv
<1>2. SpaceInv /\ HandlesInv /\ [Next]_vars => (SpaceInv /\ HandlesInv)'
  BY SpaceStep, HandlesStep
<1>3. SpaceInv /\ HandlesInv => BlocksDisjoint
  BY DEF SpaceInv
<1>4. QED
  BY <1>1, <1>2, <1>3, PTL DEF Spec

(***************************************************************************)
(* The contents                                                            *)
(***************************************************************************)
Types == {"unknown", "Object", "String", "Byte", "Char", "Int"}
JavaObject == [type: Types, elements: Seq(Nat)]
Same(content, elements) == \/ content = elements
                           \/ content = <<0>> /\ elements = <<>>

\* The objects behind the handles and in the fields
ObjectsInv ==
    /\ HandlesInv
    /\ heap \in [DOMAIN heap -> JavaObject] /\ DOMAIN heap \subseteq DOMAIN of
    /\ of \in [DOMAIN of -> DOMAIN heap]
    /\ held \in [DOMAIN held -> DOMAIN heap]
    /\ \A f \in DOMAIN held : f \in Field /\ FieldName[f] \in DOMAIN statics

\* A handle the mock is not wrong about holds what its object does, and a field
\* what the object in it does; it may be wrong about what it does not know.
AgreeInv ==
    /\ Default \in apart
    /\ \A h \in DOMAIN of \ apart : heap[of[h]].type # "unknown"
    /\ \A h \in DOMAIN handles \ apart : Same(handles[h].content, heap[of[h]].elements)
    /\ \A f \in DOMAIN held \ late : heap[held[f]].type # "unknown"
    /\ \A f \in DOMAIN held \ late : Same(statics[FieldName[f]], heap[held[f]].elements)

ContentInv ==
    /\ handles \in [DOMAIN handles -> Entry]
    /\ statics \in [DOMAIN statics -> Seq(Nat)]
    /\ ObjectsInv /\ AgreeInv

\* The next handle is new.
LEMMA FreshHandle ==
    ASSUME SpaceInv
    PROVE  hnext \notin DOMAIN handles /\ hnext # Default
<1>1. SUFFICES ASSUME hnext \in DOMAIN handles PROVE FALSE
  BY DEF SpaceInv, Default
<1>2. hnext # Default /\ hnext \in Nat
  BY DEF SpaceInv, Default
<1> DEFINE r == [at |-> hnext, size |-> 16]
<1>3. r \in Regions
  BY <1>1, <1>2 DEF Regions
<1>4. r.at = hnext /\ Span(r) = 16
  BY MaxOfTwo DEF Span
<1>5. r.at + Span(r) <= hnext
  BY <1>3 DEF SpaceInv
<1>6. QED
  BY <1>2, <1>4, <1>5

\* What a Java array holds after vs is stored at from: the cells elsewhere stay.
After(old, from, vs) ==
    [i \in 1..Max({Len(old), from + Len(vs)}) |->
        IF i > from /\ i <= from + Len(vs) THEN vs[i - from]
        ELSE IF i <= Len(old) THEN old[i] ELSE 0]

LEMMA WrittenIs ==
    ASSUME NEW old \in Seq(Nat), NEW from \in Nat, NEW vs \in Seq(Nat)
    PROVE  Written(old, from, vs) = After(old, from, vs) /\ After(old, from, vs) \in Seq(Nat)
<1> DEFINE top == from + Len(vs)
           more == Max({0, top - Len(old)})
           long == old \o Zeros(more)
           n == Max({Len(old), top})
<1>1. Len(old) \in Nat /\ Len(vs) \in Nat /\ top \in Nat
  OBVIOUS
<1>2. more = (IF top > Len(old) THEN top - Len(old) ELSE 0)
      /\ n = (IF top > Len(old) THEN top ELSE Len(old))
  <2>1. Max({0, top - Len(old)}) = IF 0 >= top - Len(old) THEN 0 ELSE top - Len(old)
    BY <1>1, MaxOfTwo
  <2>2. Max({Len(old), top}) = IF Len(old) >= top THEN Len(old) ELSE top
    BY <1>1, MaxOfTwo
  <2>3. QED
    BY <1>1, <2>1, <2>2
<1>3. more \in Nat /\ n \in Nat /\ n = Len(old) + more
  BY <1>1, <1>2
<1> HIDE DEF more, n
<1>4. Zeros(more) \in Seq(Nat) /\ Len(Zeros(more)) = more
      /\ \A i \in 1..more : Zeros(more)[i] = 0
  BY <1>3 DEF Zeros
<1>5. long \in Seq(Nat) /\ Len(long) = n /\ DOMAIN long = 1..n
  <2>1. long \in Seq(Nat) /\ Len(long) = Len(old) + Len(Zeros(more))
    <3>1. PICK z \in Seq(Nat) : z = Zeros(more)
      BY <1>4
    <3>2. QED
      BY <3>1
  <2>2. Len(long) = n
    BY <1>3, <1>4, <2>1
  <2>3. QED
    BY <2>1, <2>2
<1>6. \A i \in 1..n : long[i] = IF i <= Len(old) THEN old[i] ELSE 0
  BY <1>3, <1>4
<1> HIDE DEF long
<1>7. Written(old, from, vs) =
        [i \in 1..n |-> IF i \in from + 1..from + Len(vs) THEN vs[i - from] ELSE long[i]]
  BY <1>5 DEF Written, long, more
<1>8. ASSUME NEW i \in 1..n
      PROVE  (i \in from + 1..from + Len(vs)) <=> (i > from /\ i <= from + Len(vs))
  BY <1>1, <1>3
<1>9. Written(old, from, vs) = After(old, from, vs)
  BY <1>6, <1>7, <1>8 DEF After, n
<1>10. ASSUME NEW i \in 1..n PROVE After(old, from, vs)[i] \in Nat
  <2>1. CASE i > from /\ i <= from + Len(vs)
    <3>1. i - from \in 1..Len(vs)
      BY <1>1, <1>3, <2>1
    <3>2. QED
      BY <2>1, <3>1 DEF After, n
  <2>2. CASE ~(i > from /\ i <= from + Len(vs)) /\ i <= Len(old)
    BY <1>1, <1>3, <2>2 DEF After, n
  <2>3. CASE ~(i > from /\ i <= from + Len(vs)) /\ ~(i <= Len(old))
    BY <2>3 DEF After, n
  <2>4. QED
    BY <2>1, <2>2, <2>3
<1>11. After(old, from, vs) \in [1..n -> Nat]
  BY <1>10 DEF After, n
<1>12. After(old, from, vs) \in Seq(Nat)
  <2> DEFINE w == After(old, from, vs)
  <2>1. w \in [1..n -> Nat] /\ n \in Nat
    BY <1>3, <1>11
  <2> HIDE DEF w
  <2>2. w \in Seq(Nat)
    BY <2>1, IsASeq
  <2>3. QED
    BY <2>2 DEF w
<1>13. QED
  BY <1>9, <1>12

\* A new handle, of a new object or of one that is there already
LEMMA NewContent ==
    ASSUME ContentInv, SpaceInv, NEW k \in Kinds, NEW c \in Seq(Nat), NEW m \in Metas,
           NEW x, NEW ob \in JavaObject,
           New(k, c, m), of' = Put(of, hnext, x),
           \/ heap' = heap /\ x \in DOMAIN heap /\ ob = heap[x]
           \/ heap' = Put(heap, hnext, ob) /\ x = hnext,
           UNCHANGED <<statics, held, late>>,
           apart \subseteq apart', apart' \subseteq apart \cup {hnext},
           hnext \in apart' \/ (ob.type # "unknown" /\ Same(c, ob.elements))
    PROVE  ContentInv'
<1> DEFINE e == [kind |-> k, content |-> c, meta |-> m]
<1>1. e \in Entry /\ e.content = c
  BY DEF Entry
<1>2. handles' = Put(handles, hnext, e)
  BY DEF New
<1> HIDE DEF e
<1>3. hnext \notin DOMAIN handles /\ hnext # Default /\ hnext \notin DOMAIN of /\ hnext \notin DOMAIN heap
  BY FreshHandle DEF ContentInv, ObjectsInv, HandlesInv
<1>4. /\ handles \in [DOMAIN handles -> Entry] /\ heap \in [DOMAIN heap -> JavaObject]
      /\ of \in [DOMAIN of -> DOMAIN heap] /\ held \in [DOMAIN held -> DOMAIN heap]
  BY DEF ContentInv, ObjectsInv
<1>5. /\ handles' \in [DOMAIN handles \cup {hnext} -> Entry] /\ handles'[hnext] = e
      /\ \A y \in DOMAIN handles : handles'[y] = handles[y]
  BY <1>1, <1>2, <1>3, <1>4 DEF Put
<1>6. /\ heap' \in [DOMAIN heap' -> JavaObject] /\ DOMAIN heap \subseteq DOMAIN heap'
      /\ DOMAIN heap' \subseteq DOMAIN heap \cup {hnext} /\ x \in DOMAIN heap' /\ heap'[x] = ob
      /\ \A y \in DOMAIN heap : heap'[y] = heap[y]
  BY <1>3, <1>4 DEF Put
<1>7. DOMAIN of' = DOMAIN of \cup {hnext} /\ of'[hnext] = x /\ \A y \in DOMAIN of : of'[y] = of[y]
  BY <1>3 DEF Put
<1>8. of' \in [DOMAIN of' -> DOMAIN heap'] /\ held' \in [DOMAIN held' -> DOMAIN heap']
  <2>1. of' \in [DOMAIN of \cup {hnext} -> DOMAIN heap']
    BY <1>4, <1>6, <1>7 DEF Put
  <2>2. QED
    BY <1>4, <1>6, <1>7, <2>1
<1>9. DOMAIN handles' = DOMAIN handles \cup {hnext}
  BY <1>5
<1>10. ObjectsInv'
  BY <1>6, <1>7, <1>8, <1>9 DEF ContentInv, ObjectsInv, HandlesInv
<1>11. \A y \in DOMAIN of : heap'[of'[y]] = heap[of[y]]
  BY <1>4, <1>6, <1>7
<1>12. \A f \in DOMAIN held : heap'[held'[f]] = heap[held[f]]
  BY <1>4, <1>6
<1>13. heap'[of'[hnext]] = ob /\ handles'[hnext].content = c
  BY <1>1, <1>5, <1>6, <1>7
<1>14. DOMAIN handles \subseteq DOMAIN of
  BY DEF ContentInv, ObjectsInv, HandlesInv
<1>15. AgreeInv'
  <2>1. \A h \in DOMAIN of' \ apart' : heap'[of'[h]].type # "unknown"
    BY <1>7, <1>11, <1>13 DEF ContentInv, AgreeInv
  <2>2. \A h \in DOMAIN handles' \ apart' : Same(handles'[h].content, heap'[of'[h]].elements)
    BY <1>5, <1>9, <1>11, <1>13, <1>14 DEF ContentInv, AgreeInv
  <2>3. \A f \in DOMAIN held' \ late' : heap'[held'[f]].type # "unknown"
        /\ Same(statics'[FieldName[f]], heap'[held'[f]].elements)
    BY <1>12 DEF ContentInv, AgreeInv
  <2>4. QED
    BY <2>1, <2>2, <2>3 DEF ContentInv, AgreeInv
<1>16. statics' \in [DOMAIN statics' -> Seq(Nat)]
  BY DEF ContentInv
<1>17. QED
  BY <1>5, <1>9, <1>10, <1>15, <1>16 DEF ContentInv

\* A new object of its own
LEMMA BornContent ==
    ASSUME ContentInv, SpaceInv, NEW k \in Kinds, NEW c \in Seq(Nat), NEW m \in Metas,
           NEW type \in Types \ {"unknown"}, NEW elements \in Seq(Nat),
           New(k, c, m), Born(type, elements), UNCHANGED <<statics, held, apart, late>>,
           Same(c, elements)
    PROVE  ContentInv'
<1> DEFINE ob == [type |-> type, elements |-> elements]
<1>1. ob \in JavaObject /\ ob.type = type /\ ob.elements = elements
  BY DEF JavaObject
<1>2. of' = Put(of, hnext, hnext) /\ heap' = Put(heap, hnext, ob)
  BY DEF Born
<1> HIDE DEF ob
<1>3. QED
  BY <1>1, <1>2, NewContent

LEMMA ZerosAre ==
    ASSUME NEW n \in Nat
    PROVE  Zeros(n) \in Seq(Nat)
  BY DEF Zeros

LEMMA StaticIs ==
    ASSUME ContentInv, NEW f
    PROVE  StaticContent(f) \in Seq(Nat)
<1>1. CASE f \in DOMAIN statics
  BY <1>1 DEF StaticContent, ContentInv
<1>2. CASE f \notin DOMAIN statics /\ Cardinality(DOMAIN statics) = 1
  <2>1. DOMAIN statics # {}
    BY <1>2, FS_EmptySet
  <2>2. (CHOOSE g \in DOMAIN statics : TRUE) \in DOMAIN statics
    BY <2>1
  <2>3. statics[CHOOSE g \in DOMAIN statics : TRUE] \in Seq(Nat)
    BY <2>2 DEF ContentInv
  <2>4. QED
    BY <1>2, <2>3 DEF StaticContent
<1>3. CASE f \notin DOMAIN statics /\ Cardinality(DOMAIN statics) # 1
  BY <1>3 DEF StaticContent
<1>4. QED
  BY <1>1, <1>2, <1>3

LEMMA KeptIs ==
    ASSUME NEW type, NEW vs \in Seq(Nat)
    PROVE  Kept(type, vs) \in Seq(Nat) /\ Len(Kept(type, vs)) = Len(vs)
<1> DEFINE at(i) == IF type = "Int" THEN ByteOf(vs[((i - 1) \div 4) + 1], (i - 1) % 4)
                    ELSE vs[i] % 256
<1>1. Len(vs) \in Nat /\ DOMAIN vs = 1..Len(vs)
  OBVIOUS
<1>2. ASSUME NEW i \in 1..Len(vs) PROVE at(i) \in Nat
  <2>1. CASE type = "Int"
    <3>1. PICK q \in Int, r \in 0..3 : q = ((i - 1) \div 4) + 1 /\ r = (i - 1) % 4 /\ q >= 1 /\ q <= i
      <4>1. (i - 1) % 4 \in 0..3
        BY <1>1, SMT
      <4>2. ((i - 1) \div 4) + 1 \in Int /\ ((i - 1) \div 4) + 1 >= 1 /\ ((i - 1) \div 4) + 1 <= i
        BY <1>1, SMT
      <4>3. QED
        BY <4>1, <4>2
    <3>2. vs[q] \in Nat
      BY <1>1, <3>1
    <3>3. PICK d \in {1, 256, 65536, 16777216} : d = <<1, 256, 65536, 16777216>>[r + 1]
      BY <3>1
    <3>4. vs[q] \div d \in Int
      BY <3>2, <3>3, SMT
    <3>5. (vs[q] \div d) % 256 \in Nat
      BY <3>4, SMT
    <3>6. QED
      BY <2>1, <3>1, <3>3, <3>5 DEF ByteOf
  <2>2. CASE type # "Int"
    <3>1. vs[i] \in Nat
      BY <1>1
    <3>2. vs[i] % 256 \in Nat
      BY <3>1, SMT
    <3>3. QED
      BY <2>2, <3>2
  <2>3. QED
    BY <2>1, <2>2
<1>3. Kept(type, vs) = [i \in 1..Len(vs) |-> at(i)]
  BY <1>1 DEF Kept
<1> HIDE DEF at
<1>4. Kept(type, vs) \in [1..Len(vs) -> Nat]
  BY <1>2, <1>3
<1>5. PICK w : w = Kept(type, vs)
  OBVIOUS
<1>6. w \in Seq(Nat) /\ DOMAIN w = 1..Len(vs)
  BY <1>1, <1>4, <1>5, IsASeq
<1>7. Len(w) = Len(vs)
  BY <1>1, <1>6
<1>8. QED
  BY <1>5, <1>6, <1>7

LEMMA KnownKinds ==
    ASSUME NEW type PROVE KindOf(type) \in Kinds
  BY DEF KindOf, Kinds

LEMMA Edited ==
    ASSUME NEW e \in Entry, NEW k, NEW c
    PROVE  /\ [e EXCEPT !.content = c] = [kind |-> e.kind, content |-> c, meta |-> e.meta]
           /\ [[e EXCEPT !.kind = k] EXCEPT !.content = c] = [kind |-> k, content |-> c, meta |-> e.meta]
<1>1. PICK a \in Kinds, b \in Seq(Nat), m \in Metas : e = [kind |-> a, content |-> b, meta |-> m]
  BY DEF Entry
<1>2. [e EXCEPT !.kind = k] = [kind |-> k, content |-> b, meta |-> m]
  BY <1>1
<1>3. [[kind |-> k, content |-> b, meta |-> m] EXCEPT !.content = c]
      = [kind |-> k, content |-> c, meta |-> m]
  OBVIOUS
<1>4. [e EXCEPT !.content = c] = [kind |-> a, content |-> c, meta |-> m]
  BY <1>1
<1>5. e.kind = a /\ e.meta = m
  BY <1>1
<1>6. [[e EXCEPT !.kind = k] EXCEPT !.content = c] = [kind |-> k, content |-> c, meta |-> m]
  BY <1>2, <1>3
<1>7. QED
  BY <1>4, <1>5, <1>6

LEMMA EditedObject ==
    ASSUME NEW t, NEW el, NEW c
    PROVE  [[type |-> t, elements |-> el] EXCEPT !.elements = c] = [type |-> t, elements |-> c]
  OBVIOUS

\* The entry of an array after a store
AfterStore(hs, a, from, bytes) ==
    /\ hs \in [DOMAIN handles \cup {a} -> Entry]
    /\ hs[a].content = Written(ContentOf(a), from, bytes)
    /\ \A y \in DOMAIN handles : y # a => hs[y] = handles[y]

LEMMA StoredIs ==
    ASSUME handles \in [DOMAIN handles -> Entry], NEW a, NEW type, NEW from \in Nat,
           NEW bytes \in Seq(Nat)
    PROVE  AfterStore(Stored(a, type, from, bytes), a, from, bytes)
<1> DEFINE old == ContentOf(a)
           e == [kind |-> IF Known(a) THEN handles[a].kind ELSE KindOf(type),
                 content |-> Written(old, from, bytes),
                 meta |-> IF Known(a) THEN handles[a].meta ELSE NoName]
<1>1. old \in Seq(Nat)
  BY DEF ContentOf, Entry, Known
<1>2. Written(old, from, bytes) \in Seq(Nat)
  BY <1>1, WrittenIs
<1>3. e \in Entry
  <2>1. CASE Known(a)
    BY <1>2, <2>1 DEF Entry, Known
  <2>2. CASE ~Known(a)
    BY <1>2, <2>2, KnownKinds DEF Entry, Metas
  <2>3. QED
    BY <2>1, <2>2
<1>4. Stored(a, type, from, bytes) = Put(handles, a, e)
  <2>1. CASE Known(a)
    <3>1. Stored(a, type, from, bytes) = [handles EXCEPT ![a].content = Written(old, from, bytes)]
      BY <2>1 DEF Stored, ContentOf
    <3>2. handles[a] \in Entry /\ a \in DOMAIN handles
      BY <2>1 DEF Known
    <3>3. [handles[a] EXCEPT !.content = Written(old, from, bytes)] = e
      BY <2>1, <3>2, Edited
    <3>4. Stored(a, type, from, bytes) = [handles EXCEPT ![a] = e]
      BY <3>1, <3>3
    <3>5. QED
      BY <3>2, <3>4 DEF Put
  <2>2. CASE ~Known(a)
    BY <2>2 DEF Stored, ContentOf
  <2>3. QED
    BY <2>1, <2>2
<1>5. e.content = Written(ContentOf(a), from, bytes)
      /\ (Known(a) => e.kind = handles[a].kind /\ e.meta = handles[a].meta)
      /\ (~Known(a) => e.kind \in {"bytes", "chars"})
  BY DEF KindOf
<1> HIDE DEF e, old
<1>6. /\ Put(handles, a, e) \in [DOMAIN handles \cup {a} -> Entry] /\ Put(handles, a, e)[a] = e
      /\ \A y \in DOMAIN handles : y # a => Put(handles, a, e)[y] = handles[y]
  BY <1>3 DEF Put
<1>7. QED
  BY <1>4, <1>5, <1>6 DEF AfterStore

\* A change of one object the mock and the Java VM make alike: what else stands
\* for that object, or holds it, is given up.
LEMMA ChangeContent ==
    ASSUME ContentInv, NEW a \in DOMAIN of, NEW ob \in JavaObject,
           handles' \in [DOMAIN handles \cup {a} -> Entry],
           \A h \in DOMAIN handles : h # a => handles'[h] = handles[h],
           heap' = [heap EXCEPT ![of[a]] = ob] \/ (heap' = heap /\ a \in apart),
           UNCHANGED <<of, held, statics>>,
           apart \cup Others(a) \subseteq apart', late \cup Holders(a) \subseteq late',
           a \notin apart' => ob.type # "unknown" /\ Same(handles'[a].content, ob.elements)
    PROVE  ContentInv'
<1>1. /\ heap \in [DOMAIN heap -> JavaObject] /\ of \in [DOMAIN of -> DOMAIN heap]
      /\ held \in [DOMAIN held -> DOMAIN heap] /\ DOMAIN of = DOMAIN handles \cup {Default}
  BY DEF ContentInv, ObjectsInv, HandlesInv
<1>2. DOMAIN handles' = DOMAIN handles \cup {a}
  OBVIOUS
<1>3. heap' \in [DOMAIN heap -> JavaObject] /\ DOMAIN heap' = DOMAIN heap
      /\ \A o \in DOMAIN heap : o # of[a] => heap'[o] = heap[o]
  BY <1>1
<1>4. ObjectsInv'
  BY <1>1, <1>2, <1>3 DEF ContentInv, ObjectsInv, HandlesInv
<1>5. \A h \in DOMAIN of \ apart' : h # a => heap'[of'[h]] = heap[of[h]]
  BY <1>1, <1>3 DEF Others
<1>6. \A f \in DOMAIN held \ late' : heap'[held'[f]] = heap[held[f]]
  BY <1>1, <1>3 DEF Holders
<1>7. a \notin apart' => heap'[of'[a]] = ob
  BY <1>1
<1>8. AgreeInv'
  <2>1. \A h \in DOMAIN of' \ apart' : heap'[of'[h]].type # "unknown"
    BY <1>5, <1>7 DEF ContentInv, AgreeInv
  <2>2. ASSUME NEW h \in DOMAIN handles', h \notin apart'
        PROVE  Same(handles'[h].content, heap'[of'[h]].elements)
    <3>1. CASE h = a
      BY <1>7, <2>2, <3>1
    <3>2. CASE h # a
      <4>1. h \in DOMAIN handles \ apart /\ h \in DOMAIN of
        BY <1>1, <1>2, <2>2, <3>2
      <4>2. handles'[h] = handles[h] /\ heap'[of'[h]] = heap[of[h]]
        BY <1>5, <2>2, <3>2, <4>1
      <4>3. QED
        BY <4>1, <4>2 DEF ContentInv, AgreeInv
    <3>3. QED
      BY <3>1, <3>2
  <2>3. \A f \in DOMAIN held' \ late' : heap'[held'[f]].type # "unknown"
        /\ Same(statics'[FieldName[f]], heap'[held'[f]].elements)
    BY <1>6 DEF ContentInv, AgreeInv
  <2>4. QED
    BY <2>1, <2>2, <2>3 DEF ContentInv, AgreeInv
<1>9. QED
  BY <1>2, <1>4, <1>8 DEF ContentInv

\* _region_set changes its own array alone, and as Java would.
LEMMA SetRegionContent ==
    ASSUME ContentInv, SetRegion
    PROVE  ContentInv'
<1>1. PICK a \in DOMAIN of, type \in {"Byte", "Char", "Int"}, from \in 0..1, vs \in Elements :
        /\ Fits(a, type, from, Len(vs))
        /\ type = "Byte" => \A i \in DOMAIN vs: vs[i] < 256
        /\ handles' = Stored(a, type, from, Kept(type, vs))
        /\ fill' = Refilled(a)
        /\ heap' = IF Object(a).type = "unknown" THEN heap
                   ELSE [heap EXCEPT ![of[a]].elements =
                            [i \in DOMAIN @ |-> IF i > from /\ i <= from + Len(vs)
                                                THEN vs[i - from] ELSE @[i]]]
        /\ apart' = apart \cup Others(a) \cup IF Kept(type, vs) = vs THEN {} ELSE {a}
        /\ late' = late \cup Holders(a)
        /\ newest' = a
  BY Zenon DEF SetRegion
<1>2. vs \in Seq(Nat) /\ Len(vs) \in Nat /\ Len(vs) > 0 /\ from \in Nat
  <2>1. PICK n \in 1..MaxLen : vs \in [1..n -> Value]
    BY DEF Elements
  <2>2. n \in Nat /\ n > 0 /\ vs \in [1..n -> Nat]
    <3>1. n \in Nat /\ n > 0
      BY EmulationAssumption
    <3>2. vs \in [1..n -> Nat]
      BY <2>1, EmulationAssumption
    <3>3. QED
      BY <3>1, <3>2
  <2>3. vs \in Seq(Nat) /\ Len(vs) = n
    BY <2>2, IsASeq
  <2>4. QED
    BY <2>2, <2>3
<1>3. PICK bytes \in Seq(Nat) : bytes = Kept(type, vs)
  BY <1>2, KeptIs
<1>4. /\ handles \in [DOMAIN handles -> Entry] /\ heap \in [DOMAIN heap -> JavaObject]
      /\ of \in [DOMAIN of -> DOMAIN heap] /\ DOMAIN of = DOMAIN handles \cup {Default}
  BY DEF ContentInv, ObjectsInv, HandlesInv
<1>5. /\ handles' \in [DOMAIN handles \cup {a} -> Entry]
      /\ handles'[a].content = Written(ContentOf(a), from, bytes)
      /\ \A y \in DOMAIN handles : y # a => handles'[y] = handles[y]
  <2>1. handles' = Stored(a, type, from, bytes)
    BY <1>1, <1>3
  <2>6. PICK n \in Nat : n = from
    BY <1>2
  <2>7. handles \in [DOMAIN handles -> Entry]
    BY <1>4
  <2>2. handles' = Stored(a, type, n, bytes)
    BY <2>1, <2>6
  <2>3. AfterStore(handles', a, n, bytes)
    BY <2>7, <2>2, StoredIs, Zenon
  <2>4. QED
    BY <2>3, <2>6 DEF AfterStore
<1>6. UNCHANGED <<of, held, statics>>
  BY DEF SetRegion
<1>7. PICK o \in DOMAIN heap : o = of[a]
  BY <1>4
<1>8. PICK el \in Seq(Nat), t \in Types : heap[o] = [type |-> t, elements |-> el]
                                          /\ el = heap[o].elements /\ t = heap[o].type
  BY <1>4 DEF JavaObject
<1> DEFINE new == [i \in DOMAIN el |-> IF i > from /\ i <= from + Len(vs) THEN vs[i - from] ELSE el[i]]
           ob == [type |-> t, elements |-> new]
<1>9. new \in Seq(Nat) /\ Len(new) = Len(el)
  <2>1. DOMAIN el = 1..Len(el) /\ Len(el) \in Nat
    OBVIOUS
  <2>2. ASSUME NEW i \in 1..Len(el) PROVE new[i] \in Nat
    <3>1. CASE i > from /\ i <= from + Len(vs)
      <4>1. i - from \in 1..Len(vs)
        BY <1>2, <2>1, <3>1
      <4>2. QED
        BY <1>2, <2>1, <3>1, <4>1
    <3>2. CASE ~(i > from /\ i <= from + Len(vs))
      BY <2>1, <3>2
    <3>3. QED
      BY <3>1, <3>2
  <2>3. new \in [1..Len(el) -> Nat]
    BY <2>1, <2>2
  <2> HIDE DEF new
  <2>6. PICK n \in Nat : n = Len(el)
    BY <2>1
  <2>7. new \in Seq(Nat)
    BY <2>3, <2>6, IsASeq
  <2>4. new \in Seq(Nat) /\ DOMAIN new = 1..Len(el)
    BY <2>3, <2>7
  <2>5. QED
    BY <2>1, <2>4
<1>10. ob \in JavaObject /\ ob.type = t /\ ob.elements = new
  <2> HIDE DEF new
  <2>1. QED
    BY <1>9 DEF JavaObject
<1>11. CASE t = "unknown"
  <2>1. heap' = heap /\ a \in apart
    BY <1>1, <1>7, <1>8, <1>11 DEF Object, ContentInv, AgreeInv
  <2> HIDE DEF ob
  <2>2. QED
    BY <1>1, <1>5, <1>6, <1>10, <2>1, ChangeContent
<1>12. CASE t # "unknown"
  <2>1. heap' = [heap EXCEPT ![o] = ob]
    <3>1. heap' = [heap EXCEPT ![o].elements = new]
      BY <1>1, <1>7, <1>8, <1>12 DEF Object
    <3> HIDE DEF new
    <3>2. [heap[o] EXCEPT !.elements = new] = ob
      <4>1. [[type |-> t, elements |-> el] EXCEPT !.elements = new] = ob
        BY EditedObject
      <4> HIDE DEF ob
      <4>2. QED
        BY <1>8, <4>1
    <3> HIDE DEF ob
    <3>3. QED
      BY <3>1, <3>2
  <2>2. from + Len(vs) <= Len(el)
    BY <1>1, <1>7, <1>8, <1>12 DEF Fits, Object
  <2>3. ASSUME a \notin apart'
        PROVE  handles'[a].content = new
    <3>1. a \notin apart /\ bytes = vs
      BY <1>1, <1>3, <2>3
    <3>2. a \in DOMAIN handles /\ Same(handles[a].content, el)
      BY <1>4, <1>7, <1>8, <3>1 DEF ContentInv, AgreeInv
    <3>3. el # <<>>
      BY <1>2, <2>2
    <3>4. ContentOf(a) = el
      BY <3>2, <3>3 DEF Same, ContentOf, Known
    <3>5. handles'[a].content = After(el, from, vs)
      BY <1>2, <1>5, <3>1, <3>4, WrittenIs
    <3>6. Max({Len(el), from + Len(vs)}) = Len(el) /\ DOMAIN el = 1..Len(el) /\ Len(el) \in Nat
      <4>1. PICK x \in Nat, y \in Nat : x = Len(el) /\ y = from + Len(vs) /\ y <= x
        BY <1>2, <2>2
      <4>2. Max({x, y}) = x
        BY <4>1, MaxOfTwo
      <4>3. QED
        BY <4>1, <4>2
    <3>7. After(el, from, vs) = new
      <4>1. PICK x \in Nat, z \in Nat : x = Len(el) /\ x = Max({Len(el), from + Len(vs)})
                                      /\ z = from + Len(vs)
        BY <1>2, <3>6
      <4>2. After(el, from, vs) = [i \in 1..x |-> IF i > from /\ i <= z THEN vs[i - from]
                                                 ELSE IF i <= x THEN el[i] ELSE 0]
        BY <4>1 DEF After
      <4>3. new = [i \in 1..x |-> IF i > from /\ i <= z THEN vs[i - from] ELSE el[i]]
        BY <3>6, <4>1
      <4>4. ASSUME NEW i \in 1..x
            PROVE  (IF i > from /\ i <= z THEN vs[i - from] ELSE IF i <= x THEN el[i] ELSE 0)
                   = (IF i > from /\ i <= z THEN vs[i - from] ELSE el[i])
        OBVIOUS
      <4> HIDE DEF new
      <4>5. QED
        BY <4>2, <4>3, <4>4, Zenon
    <3>8. QED
      BY <3>5, <3>7
  <2>4. a \notin apart' => ob.type # "unknown" /\ Same(handles'[a].content, ob.elements)
    BY <1>10, <1>12, <2>3 DEF Same
  <2> HIDE DEF ob
  <2>5. QED
    BY <1>1, <1>5, <1>6, <1>7, <1>10, <2>1, <2>4, ChangeContent
<1>13. QED
  BY <1>11, <1>12

LEMMA SliceIs ==
    ASSUME NEW s \in Seq(Nat), NEW from \in Nat, NEW n \in Nat
    PROVE  /\ Slice(s, from, n) \in Seq(Nat)
           /\ Slice(s, 0, 0) = <<>>
<1>1. Len(s) \in Nat
  OBVIOUS
<1>2. PICK k \in Nat : k = Min({from + n, Len(s)}) /\ k <= Len(s)
  BY <1>1, MinOfTwo
<1>3. SubSeq(s, from + 1, k) \in Seq(Nat)
  <2>1. from + 1 \in Nat \ {0}
    OBVIOUS
  <2>2. QED
    BY <1>2, <2>1, Part
<1>4. Min({0 + 0, Len(s)}) = 0
  BY <1>1, MinOfTwo
<1>5. SubSeq(s, 0 + 1, 0) = <<>>
  OBVIOUS
<1>6. QED
  BY <1>2, <1>3, <1>4, <1>5 DEF Slice

\* A string is the part of what its array held.
LEMMA StringInitContent ==
    ASSUME ContentInv, StringInit
    PROVE  ContentInv'
<1>1. PICK o, a \in DOMAIN handles, type \in {"Byte", "Char"}, from \in 0..1, n \in 0..MaxLen :
        /\ handles[o].kind = "obj" /\ Fits(a, type, from, n)
        /\ handles' = [handles EXCEPT ![o].kind = "str",
                                      ![o].content = Slice(handles[a].content, from, n)]
        /\ heap' = [heap EXCEPT ![of[o]] =
                    [type |-> "String", elements |-> Slice(Object(a).elements, from, n)]]
        /\ apart' = apart \cup Others(o) \cup IF a \in apart THEN {o} ELSE {}
        /\ late' = late \cup Holders(o)
  BY Zenon DEF StringInit
<1>2. /\ handles \in [DOMAIN handles -> Entry] /\ heap \in [DOMAIN heap -> JavaObject]
      /\ of \in [DOMAIN of -> DOMAIN heap] /\ DOMAIN of = DOMAIN handles \cup {Default}
  BY DEF ContentInv, ObjectsInv, HandlesInv
<1>3. UNCHANGED <<of, held, statics>> /\ from \in Nat /\ n \in Nat
  BY <1>1, EmulationAssumption DEF StringInit
<1>4. PICK from_ \in Nat, n_ \in Nat : from_ = from /\ n_ = n
  BY <1>3
<1>5. PICK c \in Seq(Nat) : c = handles[a].content
  BY <1>2 DEF Entry
<1>6. PICK el \in Seq(Nat) : el = Object(a).elements
  BY <1>2 DEF Object, JavaObject
<1>7. PICK part \in Seq(Nat) : part = Slice(c, from, n)
  BY <1>4, <1>5, SliceIs
<1>8. PICK java_ \in Seq(Nat) : java_ = Slice(el, from, n)
  BY <1>4, <1>6, SliceIs
<1> DEFINE e == [kind |-> "str", content |-> part, meta |-> handles[o].meta]
           ob == [type |-> "String", elements |-> java_]
<1>9. ob \in JavaObject /\ ob.type = "String" /\ ob.elements = java_
  BY DEF JavaObject, Types
<1>10. handles[o] \in Entry
  BY <1>2
<1>11. e \in Entry /\ e.content = part
  BY <1>10 DEF Entry, Kinds
<1>12. handles' = [handles EXCEPT ![o] = e]
  <2>1. handles' = [handles EXCEPT ![o] = [[@ EXCEPT !.kind = "str"] EXCEPT !.content = part]]
    BY <1>1, <1>2, <1>5, <1>7
  <2>2. [[handles[o] EXCEPT !.kind = "str"] EXCEPT !.content = part] = e
    BY <1>10, Edited
  <2>3. QED
    BY <2>1, <2>2
<1> HIDE DEF e
<1>13. handles' \in [DOMAIN handles \cup {o} -> Entry] /\ handles'[o].content = part
       /\ \A h \in DOMAIN handles : h # o => handles'[h] = handles[h]
  BY <1>2, <1>11, <1>12
<1>14. heap' = [heap EXCEPT ![of[o]] = ob] /\ o \in DOMAIN of
  BY <1>1, <1>2, <1>6, <1>8
<1>15. ASSUME o \notin apart' PROVE Same(part, java_)
  <2>1. a \notin apart
    BY <1>1, <1>15
  <2>2. Same(c, el) /\ Object(a).type # "unknown"
    BY <1>2, <1>5, <1>6, <2>1 DEF ContentInv, AgreeInv, Object
  <2>3. from + n <= Len(el)
    BY <1>1, <1>6, <2>2 DEF Fits
  <2>4. CASE c = el
    BY <1>7, <1>8, <2>4 DEF Same
  <2>5. CASE el = <<>>
    <3>1. from = 0 /\ n = 0
      BY <1>3, <2>3, <2>5
    <3>2. part = <<>> /\ java_ = <<>>
      BY <1>7, <1>8, <3>1, SliceIs
    <3>3. QED
      BY <3>2 DEF Same
  <2>6. QED
    BY <2>2, <2>4, <2>5 DEF Same
<1>16. o \notin apart' => ob.type # "unknown" /\ Same(handles'[o].content, ob.elements)
  BY <1>9, <1>13, <1>15
<1> HIDE DEF ob
<1>17. QED
  BY <1>1, <1>3, <1>9, <1>13, <1>14, <1>16, ChangeContent

LEMMA SetStaticContent ==
    ASSUME ContentInv, SetStatic
    PROVE  ContentInv'
<1>1. PICK f \in Field, a \in DOMAIN handles :
        /\ statics' = Put(statics, FieldName[f], handles[a].content)
        /\ held' = Put(held, f, of[a])
        /\ late' = (late \cup {g \in Field: FieldName[g] = FieldName[f]})
                   \ IF a \in apart THEN {} ELSE {f}
  BY DEF SetStatic
<1>2. handles[a].content \in Seq(Nat) /\ a \in DOMAIN of /\ of[a] \in DOMAIN heap
  BY DEF ContentInv, Entry, ObjectsInv, HandlesInv
<1>3. UNCHANGED <<handles, heap, of, apart>>
  BY DEF SetStatic
<1>4. statics' \in [DOMAIN statics \cup {FieldName[f]} -> Seq(Nat)]
      /\ statics'[FieldName[f]] = handles[a].content
      /\ \A x \in DOMAIN statics : x # FieldName[f] => statics'[x] = statics[x]
  BY <1>1, <1>2 DEF Put, ContentInv
<1>5. held' \in [DOMAIN held \cup {f} -> DOMAIN heap] /\ held'[f] = of[a]
      /\ \A x \in DOMAIN held : x # f => held'[x] = held[x]
  BY <1>1, <1>2 DEF Put, ContentInv, ObjectsInv
<1>6. held' \in [DOMAIN held' -> DOMAIN heap] /\ statics' \in [DOMAIN statics' -> Seq(Nat)]
  BY <1>4, <1>5
<1>7. \A x \in DOMAIN held' : x \in Field /\ FieldName[x] \in DOMAIN statics'
  BY <1>4, <1>5 DEF ContentInv, ObjectsInv
<1>8. ObjectsInv'
  BY <1>3, <1>6, <1>7 DEF ContentInv, ObjectsInv, HandlesInv
<1>9. ASSUME NEW x \in DOMAIN held', x \notin late'
      PROVE  heap[held'[x]].type # "unknown" /\ Same(statics'[FieldName[x]], heap[held'[x]].elements)
  <2>1. CASE x = f
    <3>1. a \notin apart
      BY <1>1, <1>9, <2>1
    <3>2. QED
      BY <1>2, <1>4, <1>5, <2>1, <3>1 DEF ContentInv, AgreeInv
  <2>2. CASE x # f
    <3>1. x \in DOMAIN held /\ held'[x] = held[x] /\ x \notin late
      BY <1>1, <1>5, <1>9, <2>2
    <3>2. CASE x \in Field
      <4>1. FieldName[x] # FieldName[f]
        BY <1>1, <1>9, <2>2, <3>2
      <4>2. statics'[FieldName[x]] = statics[FieldName[x]]
        BY <1>4, <3>1, <4>1 DEF ContentInv, ObjectsInv
      <4>3. QED
        BY <3>1, <4>2 DEF ContentInv, AgreeInv
    <3>3. x \in Field
      BY <3>1 DEF ContentInv, ObjectsInv
    <3>4. QED
      BY <3>2, <3>3
  <2>3. QED
    BY <2>1, <2>2
<1>10. AgreeInv'
  BY <1>3, <1>9 DEF ContentInv, AgreeInv
<1>11. QED
  BY <1>3, <1>6, <1>8, <1>10 DEF ContentInv

\* What a static field is read as is what was put in it, unless something else
\* has been written under its name, or to its object, since.
LEMMA GetStaticContent ==
    ASSUME ContentInv, SpaceInv, GetStatic
    PROVE  ContentInv'
<1>1. PICK f \in Field :
        /\ New("chars", StaticContent(FieldName[f]), NoName)
        /\ IF f \in DOMAIN held
           THEN of' = Put(of, hnext, held[f]) /\ UNCHANGED heap
           ELSE Born("unknown", <<>>)
        /\ apart' = apart \cup IF f \in DOMAIN held \ late THEN {} ELSE {hnext}
  BY DEF GetStatic
<1>2. PICK c \in Seq(Nat) : c = StaticContent(FieldName[f])
  BY StaticIs
<1>3. "chars" \in Kinds /\ NoName \in Metas /\ UNCHANGED <<statics, held, late>>
  BY DEF Kinds, Metas, GetStatic
<1>4. CASE f \in DOMAIN held
  <2>1. PICK x \in DOMAIN heap : x = held[f]
    BY <1>4 DEF ContentInv, ObjectsInv
  <2>2. heap[x] \in JavaObject
    BY DEF ContentInv, ObjectsInv
  <2>3. f \notin late => heap[x].type # "unknown" /\ Same(c, heap[x].elements)
    <3>1. FieldName[f] \in DOMAIN statics
      BY <1>4 DEF ContentInv, ObjectsInv
    <3>2. c = statics[FieldName[f]]
      BY <1>2, <3>1 DEF StaticContent
    <3>3. QED
      BY <1>4, <2>1, <3>2 DEF ContentInv, AgreeInv
  <2>4. of' = Put(of, hnext, x) /\ heap' = heap
    BY <1>1, <1>4, <2>1
  <2>5. hnext \in apart' \/ (heap[x].type # "unknown" /\ Same(c, heap[x].elements))
    BY <1>1, <1>4, <2>3
  <2>6. QED
    BY <1>1, <1>2, <1>3, <2>2, <2>4, <2>5, NewContent
<1>5. CASE f \notin DOMAIN held
  <2> DEFINE ob == [type |-> "unknown", elements |-> <<>>]
  <2>1. ob \in JavaObject
    BY DEF JavaObject, Types
  <2>2. of' = Put(of, hnext, hnext) /\ heap' = Put(heap, hnext, ob) /\ hnext \in apart'
    BY <1>1, <1>5 DEF Born
  <2> HIDE DEF ob
  <2>3. QED
    BY <1>1, <1>2, <1>3, <2>1, <2>2, NewContent
<1>6. QED
  BY <1>4, <1>5

LEMMA ContentStep ==
    ASSUME ContentInv, SpaceInv, [Next]_vars
    PROVE  ContentInv'
<1>0. <<>> \in Seq(Nat) /\ NoName \in Metas /\ "Object" \in Types \ {"unknown"} /\ Same(<<>>, <<>>)
  BY DEF Metas, Types, Same
<1>1. CASE FindClass
  <2>1. PICK c \in ClassName \cup {NoName} : New("class", <<>>, c) /\ Born("Object", <<>>)
    BY <1>1 DEF FindClass
  <2>2. c \in Metas /\ "class" \in Kinds /\ UNCHANGED <<statics, held, apart, late>>
    BY <1>1 DEF Metas, Kinds, FindClass
  <2>3. QED
    BY <1>0, <2>1, <2>2, BornContent
<1>2. CASE NewArray
  <2>1. PICK type \in {"Byte", "Char", "Int"}, n \in 0..MaxLen :
          /\ New(KindOf(type), Zeros(Max({1, n})), NoName)
          /\ Born(type, Zeros(n))
    BY <1>2 DEF NewArray
  <2>2. n \in Nat /\ Max({1, n}) \in Nat /\ Max({1, n}) = IF 1 >= n THEN 1 ELSE n
    BY MaxOfTwo, EmulationAssumption
  <2>3. Zeros(Max({1, n})) \in Seq(Nat) /\ Zeros(n) \in Seq(Nat)
    BY <2>2, ZerosAre
  <2>4. Same(Zeros(Max({1, n})), Zeros(n))
    <3>1. CASE n = 0
      <4>1. Zeros(1) = <<0>> /\ Zeros(0) = <<>>
        BY DEF Zeros
      <4>2. QED
        BY <2>2, <3>1, <4>1 DEF Same
    <3>2. CASE n # 0
      BY <2>2, <3>2 DEF Same
    <3>3. QED
      BY <3>1, <3>2
  <2>5. type \in Types \ {"unknown"} /\ UNCHANGED <<statics, held, apart, late>>
    BY <1>2, <2>1 DEF Types, NewArray
  <2>6. QED
    BY <1>0, <2>1, <2>3, <2>4, <2>5, KnownKinds, BornContent
<1>3. CASE AllocObject
  <2>1. "obj" \in Kinds /\ UNCHANGED <<statics, held, apart, late>>
    BY <1>3 DEF Kinds, AllocObject
  <2>2. QED
    BY <1>0, <1>3, <2>1, BornContent DEF AllocObject
<1>4. CASE GetFieldID
  <2>1. PICK f \in Field : New("fieldid", <<>>, FieldName[f])
    BY <1>4 DEF GetFieldID
  <2>2. "fieldid" \in Kinds /\ FieldName[f] \in Metas /\ UNCHANGED <<statics, held, apart, late>>
    BY <1>4 DEF Kinds, Metas, GetFieldID
  <2>3. Born("Object", <<>>)
    BY <1>4 DEF GetFieldID
  <2>4. QED
    BY <1>0, <2>1, <2>2, <2>3, BornContent
<1>5. CASE Enter
  <2>1. CASE New("class", <<>>, NoName) /\ Born("Object", <<>>)
    <3>1. "class" \in Kinds /\ UNCHANGED <<statics, held, apart, late>>
      BY <1>5 DEF Kinds, Enter
    <3>2. QED
      BY <1>0, <2>1, <3>1, BornContent
  <2>2. CASE UNCHANGED <<handles, of, heap>>
    <3>1. UNCHANGED <<statics, held, apart, late>>
      BY <1>5 DEF Enter
    <3>2. QED
      BY <2>2, <3>1 DEF ContentInv, ObjectsInv, AgreeInv, HandlesInv
  <2>3. QED
    BY <1>5, <2>1, <2>2 DEF Enter
<1>6. CASE SetRegion
  BY <1>6, SetRegionContent
<1>7. CASE StringInit
  BY <1>7, StringInitContent
<1>8. CASE SetStatic
  BY <1>8, SetStaticContent
<1>9. CASE GetStatic
  BY <1>9, GetStaticContent
<1>10. CASE Malloc \/ Calloc \/ RegisterNatives \/ Leave \/ Discover \/ OnLoadDone
           \/ RegistrarsDone \/ Call \/ CallDone \/ UNCHANGED vars
  <2>1. UNCHANGED <<handles, statics, objects>>
    BY <1>10 DEF Malloc, Calloc, RegisterNatives, Leave, Discover, OnLoadDone,
                RegistrarsDone, Call, CallDone, vars, mock, java
  <2>2. QED
    BY <2>1 DEF ContentInv, ObjectsInv, AgreeInv, HandlesInv, objects
<1>11. QED
  BY <1>1, <1>2, <1>3, <1>4, <1>5, <1>6, <1>7, <1>8, <1>9, <1>10 DEF Next, Guest

LEMMA NothingThere ==
    ASSUME NEW S
    PROVE  <<>> \in [DOMAIN <<>> -> S] /\ DOMAIN <<>> = {}
  OBVIOUS

LEMMA FirstContent ==
    Init => SpaceInv /\ ContentInv
<1>1. SUFFICES ASSUME Init PROVE SpaceInv /\ ContentInv
  OBVIOUS
<1>2. /\ handles = <<>> /\ statics = <<>> /\ held = <<>> /\ allocs = {} /\ hnext = Base
      /\ of = [h \in {Default} |-> Default] /\ apart = {Default}
      /\ heap = [o \in {Default} |-> [type |-> "unknown", elements |-> <<>>]]
  BY <1>1 DEF Init
<1>3. DOMAIN handles = {} /\ DOMAIN statics = {} /\ DOMAIN held = {}
      /\ handles \in [DOMAIN handles -> Entry] /\ statics \in [DOMAIN statics -> Seq(Nat)]
      /\ held \in [DOMAIN held -> DOMAIN heap]
  BY <1>2, NothingThere
<1>4. DOMAIN of = {Default} /\ DOMAIN heap = {Default} /\ of \in [DOMAIN of -> DOMAIN heap]
  BY <1>2
<1>5. heap \in [DOMAIN heap -> JavaObject]
  <2> DEFINE ob == [type |-> "unknown", elements |-> <<>>]
  <2>1. ob \in JavaObject
    BY DEF JavaObject, Types
  <2>2. heap = [o \in {Default} |-> ob]
    BY <1>2
  <2> HIDE DEF ob
  <2>3. QED
    BY <1>4, <2>1, <2>2
<1>6. ContentInv
  BY <1>2, <1>3, <1>4, <1>5 DEF ContentInv, ObjectsInv, HandlesInv, AgreeInv
<1>7. Regions = {} /\ \A h \in DOMAIN handles : h = Default \/ h \in Nat
  BY <1>2, <1>3 DEF Regions
<1>8. SpaceInv
  BY <1>2, <1>7 DEF SpaceInv, BlocksDisjoint, Base
<1>9. QED
  BY <1>6, <1>8

\* Whatever is written where, for arrays of any length: behind every handle the
\* mock is right of is what a Java VM would hold.  What it may be wrong of is
\* only what was written through another handle of the object or since it was
\* stored, what shares the name of a field, what is no byte, and what it cannot
\* know.
THEOREM WritesAreKept == Spec => []ArraysHoldWrites
<1>1. Init => SpaceInv /\ ContentInv
  BY FirstContent
<1>2. SpaceInv /\ ContentInv /\ [Next]_vars => (SpaceInv /\ ContentInv)'
  BY SpaceStep, ContentStep DEF ContentInv, ObjectsInv
<1>3. SpaceInv /\ ContentInv => ArraysHoldWrites
  BY DEF ContentInv, AgreeInv, ArraysHoldWrites, Holds, Same, Object
<1>4. QED
  BY <1>1, <1>2, <1>3, PTL DEF Spec

(***************************************************************************)
(* The route that is reported                                              *)
(***************************************************************************)
Row == [class: Metas, fn: Fn \cup {"Java_x"}]
Table == [class: Metas, table: UNION {[1..n -> Fn] : n \in Nat}]
Reported == {"Java_* exports", "JNI_OnLoad emulation", "registrar emulation"}
Running == {"onload", "registrars"}
Entries == {"JNI_OnLoad", "registrar", "function"}
Way == IF route = "onload" THEN "JNI_OnLoad" ELSE "registrar"

\* While one way is tried, only its entry points run and only they have yielded
\* methods; a final route is reported with methods, and an unfinished one never.
RouteInv ==
    /\ job \in Jobs /\ queue \in Seq(Entries)
    /\ methods \in Seq(Row) /\ regd \in Seq(Table)
    /\ named \in [DOMAIN named -> ClassName \cup {NoName}]
    /\ route \in {"none"} \cup Running \cup Reported
    /\ pc = "start" => route = "none" /\ methods = <<>>
    /\ route = "none" =>
           pc = "start" \/ job.op = "call" \/ (pc = "done" /\ methods = <<>>)
    /\ job.op = "call" => route = "none"
    /\ route \in Running => pc \in {"next", "guest", "crash"}
    /\ route \in Reported => pc = "done" /\ methods # <<>> /\ came = Source
    /\ came = {} <=> methods = <<>>
    /\ route \in Running =>
           /\ \A i \in DOMAIN queue : queue[i] = Way
           /\ pc = "guest" => running = Way
           /\ came \subseteq {Way}

LEMMA Joined ==
    ASSUME NEW S, NEW s \in Seq(S), NEW r \in Seq(S)
    PROVE  s \o r \in Seq(S) /\ Len(s \o r) = Len(s) + Len(r)
  OBVIOUS

\* One call of RegisterNatives adds rows in the name of the entry point that runs.
LEMMA RegisterRoute ==
    ASSUME RouteInv, ContentInv, RegisterNatives
    PROVE  RouteInv'
<1>1. PICK c \in DOMAIN handles \cup {Default}, n \in 0..MaxTable + 1 :
        \E table \in [1..n -> Fn] :
            /\ methods' = methods \o Rows(ClassOf(c), table, Min({n, MaxTable}))
            /\ came' = came \cup IF Min({n, MaxTable}) = 0 THEN {} ELSE {running}
            /\ regd' = Append(regd, [class |-> IF c \in DOMAIN named THEN named[c] ELSE NoName,
                                    table |-> table])
  BY DEF RegisterNatives
<1>2. PICK table \in [1..n -> Fn] :
        /\ methods' = methods \o Rows(ClassOf(c), table, Min({n, MaxTable}))
        /\ came' = came \cup IF Min({n, MaxTable}) = 0 THEN {} ELSE {running}
        /\ regd' = Append(regd, [class |-> IF c \in DOMAIN named THEN named[c] ELSE NoName,
                                table |-> table])
  BY <1>1
<1> DEFINE k == Min({n, MaxTable})
           rows == Rows(ClassOf(c), table, k)
           t == [class |-> IF c \in DOMAIN named THEN named[c] ELSE NoName, table |-> table]
<1>3. MaxTable \in Nat /\ n \in Nat /\ k \in Nat /\ k <= n
  BY EmulationAssumption, MinOfTwo
<1>4. ClassOf(c) \in Metas
  BY DEF ClassOf, Known, ContentInv, Entry, Metas
<1>5. rows \in [1..k -> Row]
  <2>1. ASSUME NEW i \in 1..k PROVE [class |-> ClassOf(c), fn |-> table[i]] \in Row
    BY <1>3, <1>4 DEF Row
  <2> HIDE DEF k
  <2>2. QED
    BY <2>1 DEF Rows
<1>8. methods' = methods \o rows /\ regd' = Append(regd, t)
      /\ came' = came \cup IF k = 0 THEN {} ELSE {running}
  BY <1>2
<1> HIDE DEF k
<1>6. rows \in Seq(Row) /\ Len(rows) = k
  <2>1. DOMAIN rows = 1..k
    BY <1>5
  <2> HIDE DEF rows
  <2>2. rows \in Seq(Row)
    BY <1>3, <1>5, IsASeq
  <2>3. QED
    BY <1>3, <2>1, <2>2
<1>7. t \in Table
  <2>1. (IF c \in DOMAIN named THEN named[c] ELSE NoName) \in Metas
    BY DEF RouteInv, Metas
  <2>2. table \in UNION {[1..m -> Fn] : m \in Nat}
    BY <1>3
  <2>3. QED
    BY <2>1, <2>2 DEF Table
<1> HIDE DEF rows, t
<1>9. methods' \in Seq(Row) /\ Len(methods') = Len(methods) + k
      /\ regd' \in Seq(Table) /\ Len(methods) \in Nat
  <2>1. methods \in Seq(Row) /\ regd \in Seq(Table)
    BY DEF RouteInv
  <2>2. Len(methods) \in Nat
    BY <2>1
  <2>3. methods' \in Seq(Row) /\ Len(methods') = Len(methods) + k
    BY <1>6, <1>8, <2>1, Joined
  <2>4. regd' \in Seq(Table)
    BY <1>7, <1>8, <2>1
  <2>5. QED
    BY <2>2, <2>3, <2>4
<1>10. pc = "guest" /\ UNCHANGED <<pc, job, queue, route, running, named>>
  BY DEF RegisterNatives, Trap, Idle
<1>11. route \notin Reported
  BY <1>10 DEF RouteInv
<1>12. came' = {} <=> methods' = <<>>
  <2>1. methods = <<>> <=> Len(methods) = 0
    BY DEF RouteInv
  <2>2. methods' = <<>> <=> Len(methods') = 0
    BY <1>9
  <2>3. came = {} <=> methods = <<>>
    BY DEF RouteInv
  <2>4. QED
    BY <1>3, <1>8, <1>9, <2>1, <2>2, <2>3
<1>13. route \in Running => came' \subseteq {Way}
  BY <1>8, <1>10 DEF RouteInv
<1>14. Way' = Way
  BY <1>10 DEF Way
<1>15. route # "none" \/ job.op = "call"
  BY <1>10 DEF RouteInv
<1>16. QED
  BY <1>9, <1>10, <1>11, <1>12, <1>13, <1>14, <1>15 DEF RouteInv

\* What does not decide the route.
LEMMA SameRoute ==
    ASSUME RouteInv, UNCHANGED <<job, route, methods, regd, came>>,
           named' \in [DOMAIN named' -> ClassName \cup {NoName}],
           queue' \in Seq(Entries),
           route \in Running => (\A i \in DOMAIN queue' : queue'[i] = Way)
                                /\ (pc' = "guest" => running' = Way),
           pc # "start" /\ pc # "done" /\ pc' \in {"next", "guest", "crash"}
    PROVE  RouteInv'
<1>1. route \notin Reported /\ (route = "none" => job.op = "call")
  BY DEF RouteInv, Reported
<1>2. Way' = Way
  BY DEF Way
<1>3. QED
  BY <1>1, <1>2 DEF RouteInv

LEMMA RegistrarsAre ==
    ASSUME RouteInv
    PROVE  Registrars \in Seq(Entries) /\ \A i \in DOMAIN Registrars : Registrars[i] = "registrar"
<1>1. job.registrars \in Nat
  BY DEF RouteInv, Jobs
<1>2. PICK n \in Nat : n = job.registrars
  BY <1>1
<1>3. Registrars = [i \in 1..n |-> "registrar"]
  BY <1>2 DEF Registrars
<1>4. Registrars \in [1..n -> Entries] /\ \A i \in DOMAIN Registrars : Registrars[i] = "registrar"
  BY <1>3 DEF Entries
<1>5. QED
  BY <1>2, <1>4, IsASeq

LEMMA OneEntry ==
    ASSUME NEW e \in Entries
    PROVE  <<e>> \in Seq(Entries) /\ \A i \in DOMAIN <<e>> : <<e>>[i] = e
<1>1. <<e>> \in [1..1 -> Entries] /\ \A i \in 1..1 : <<e>>[i] = e
  OBVIOUS
<1>2. QED
  BY <1>1, IsASeq

LEMMA DiscoverRoute ==
    ASSUME RouteInv, Discover
    PROVE  RouteInv'
<1>0. UNCHANGED <<job, named, regd>> /\ job.op # "call"
  BY DEF Discover
<1>1. methods = <<>> /\ came = {} /\ pc = "start" /\ route = "none"
  BY DEF RouteInv, Discover
<1>2. CASE "Java_x" \in job.exports
  <2> DEFINE first == [class |-> NoName, fn |-> "Java_x"]
  <2>1. methods' = <<first>> /\ route' = "Java_* exports" /\ came' = {"Java_* exports"}
        /\ pc' = "done" /\ queue' = queue
    BY <1>2 DEF Discover
  <2>2. first \in Row
    BY DEF Row, Metas
  <2> HIDE DEF first
  <2>3. methods' \in Seq(Row) /\ methods' # <<>>
    <3>1. PICK m \in Row : m = first
      BY <2>2
    <3>2. <<m>> \in Seq(Row) /\ Len(<<m>>) = 1 /\ Len(<<>>) = 0
      OBVIOUS
    <3>3. QED
      BY <2>1, <3>1, <3>2
  <2>4. Source' = {"Java_* exports"}
    BY <2>1 DEF Source
  <2>5. QED
    BY <1>0, <2>1, <2>3, <2>4 DEF RouteInv, Reported, Running
<1>3. CASE "Java_x" \notin job.exports
  <2>1. /\ methods' = methods /\ came' = came /\ pc' = "next"
        /\ \/ route' = "onload" /\ queue' = <<"JNI_OnLoad">>
           \/ route' = "registrars" /\ queue' = Registrars
    BY <1>3 DEF Discover
  <2>2. CASE route' = "onload" /\ queue' = <<"JNI_OnLoad">>
    <3>1. Way' = "JNI_OnLoad"
      BY <2>2 DEF Way
    <3>2. queue' \in Seq(Entries) /\ \A i \in DOMAIN queue' : queue'[i] = Way'
      BY <2>2, <3>1, OneEntry DEF Entries
    <3>3. QED
      BY <1>0, <1>1, <2>1, <2>2, <3>2 DEF RouteInv, Reported, Running
  <2>3. CASE route' = "registrars" /\ queue' = Registrars
    <3>1. Way' = "registrar"
      BY <2>3 DEF Way
    <3>2. queue' \in Seq(Entries) /\ \A i \in DOMAIN queue' : queue'[i] = Way'
      BY <2>3, <3>1, RegistrarsAre
    <3>3. QED
      BY <1>0, <1>1, <2>1, <2>3, <3>2 DEF RouteInv, Reported, Running
  <2>4. QED
    BY <2>1, <2>2, <2>3
<1>4. QED
  BY <1>2, <1>3

LEMMA EnterRoute ==
    ASSUME RouteInv, Enter
    PROVE  RouteInv'
<1>1. /\ pc = "next" /\ queue # <<>> /\ queue' = Tail(queue) /\ pc' \in {"guest", "crash"}
      /\ pc' = "guest" => running' = Head(queue)
      /\ UNCHANGED <<job, route, methods, regd, came, named>>
  BY DEF Enter
<1>2. queue \in Seq(Entries) /\ Len(queue) \in Nat /\ Len(queue) # 0
  BY <1>1 DEF RouteInv
<1>3. queue' \in Seq(Entries) /\ Head(queue) = queue[1] /\ 1 \in DOMAIN queue
      /\ \A i \in DOMAIN queue' : i + 1 \in DOMAIN queue /\ queue'[i] = queue[i + 1]
  BY <1>1, <1>2
<1>4. route \in Running => (\A i \in DOMAIN queue' : queue'[i] = Way) /\ Head(queue) = Way
  BY <1>3 DEF RouteInv
<1>5. QED
  BY <1>1, <1>3, <1>4, SameRoute DEF RouteInv

LEMMA OnLoadRoute ==
    ASSUME RouteInv, OnLoadDone
    PROVE  RouteInv'
<1>1. UNCHANGED <<job, methods, regd, named, came>> /\ job.op # "call" /\ route = "onload"
  BY DEF OnLoadDone, RouteInv, mock, java
<1>2. came \subseteq {"JNI_OnLoad"} /\ (came = {} <=> methods = <<>>)
  BY <1>1 DEF RouteInv, Running, Way
<1>3. CASE methods # <<>>
  <2>1. route' = "JNI_OnLoad emulation" /\ pc' = "done" /\ queue' = queue
    BY <1>3 DEF OnLoadDone
  <2>2. Source' = {"JNI_OnLoad"}
    BY <2>1 DEF Source
  <2>3. came = {"JNI_OnLoad"}
    BY <1>2, <1>3
  <2>4. QED
    BY <1>1, <1>3, <2>1, <2>2, <2>3 DEF RouteInv, Reported, Running
<1>4. CASE methods = <<>>
  <2>1. route' = "registrars" /\ pc' = pc /\ queue' = Registrars /\ pc = "next"
    BY <1>4 DEF OnLoadDone
  <2>2. Way' = "registrar" /\ came = {}
    BY <1>2, <1>4, <2>1 DEF Way
  <2>3. queue' \in Seq(Entries) /\ \A i \in DOMAIN queue' : queue'[i] = Way'
    BY <2>1, <2>2, RegistrarsAre
  <2>4. QED
    BY <1>1, <1>4, <2>1, <2>2, <2>3 DEF RouteInv, Reported, Running
<1>5. QED
  BY <1>3, <1>4

LEMMA RegistrarsRoute ==
    ASSUME RouteInv, RegistrarsDone
    PROVE  RouteInv'
<1>1. UNCHANGED <<job, queue, methods, regd, named, came>> /\ job.op # "call" /\ route = "registrars"
      /\ pc' = "done" /\ route' = IF methods # <<>> THEN "registrar emulation" ELSE "none"
  BY DEF RegistrarsDone, RouteInv, Running, mock, java
<1>2. came \subseteq {"registrar"} /\ (came = {} <=> methods = <<>>)
  BY <1>1 DEF RouteInv, Running, Way
<1>3. methods # <<>> => came' = Source'
  BY <1>1, <1>2 DEF Source
<1>4. QED
  BY <1>1, <1>3 DEF RouteInv, Reported, Running

LEMMA RouteStep ==
    ASSUME RouteInv, ContentInv, [Next]_vars
    PROVE  RouteInv'
<1>1. CASE RegisterNatives
  BY <1>1, RegisterRoute
<1>2. CASE Discover
  BY <1>2, DiscoverRoute
<1>3. CASE FindClass
  <2>1. PICK c \in ClassName \cup {NoName} : named' = Put(named, hnext, c)
    BY <1>3 DEF FindClass
  <2>2. named' \in [DOMAIN named' -> ClassName \cup {NoName}]
    BY <2>1 DEF Put, RouteInv
  <2>3. pc = "guest" /\ UNCHANGED <<job, pc, queue, running, route, methods, regd, came>>
    BY <1>3 DEF FindClass, Trap, Idle
  <2>4. QED
    BY <2>2, <2>3, SameRoute DEF RouteInv
<1>4. CASE Malloc \/ GetFieldID \/ NewArray \/ AllocObject \/ SetRegion \/ StringInit
           \/ SetStatic \/ GetStatic
  <2>1. pc = "guest" /\ UNCHANGED <<job, pc, queue, running, route, methods, regd, came, named>>
    BY <1>4 DEF Malloc, GetFieldID, NewArray, AllocObject, SetRegion, StringInit, SetStatic,
                GetStatic, Trap, Idle, java
  <2>2. QED
    BY <2>1, SameRoute DEF RouteInv
<1>5. CASE Calloc \/ Leave
  <2>1. pc = "guest" /\ pc' \in {"next", "guest", "crash"}
        /\ UNCHANGED <<job, queue, running, route, methods, regd, came, named>>
    BY <1>5 DEF Calloc, Leave, Trap, java, mock
  <2>2. QED
    BY <2>1, SameRoute DEF RouteInv
<1>6. CASE Enter
  BY <1>6, EnterRoute
<1>7. CASE OnLoadDone
  BY <1>7, OnLoadRoute
<1>8. CASE RegistrarsDone
  BY <1>8, RegistrarsRoute
<1>9. CASE Call
  <2>1. queue' = <<"function">> /\ pc' = "next" /\ job.op = "call"
        /\ UNCHANGED <<job, route, methods, regd, came, named>>
    BY <1>9 DEF Call, mock, java
  <2>2. queue' \in Seq(Entries)
    BY <2>1, OneEntry DEF Entries
  <2>3. QED
    BY <2>1, <2>2 DEF RouteInv, Reported, Running
<1>10. CASE CallDone
  <2>1. job.op = "call" /\ pc' = "done" /\ UNCHANGED <<job, queue, route, methods, regd, came, named>>
    BY <1>10 DEF CallDone, mock, java
  <2>2. QED
    BY <2>1 DEF RouteInv, Reported, Running
<1>11. CASE UNCHANGED vars
  <2>1. UNCHANGED <<job, pc, queue, running, route, methods, regd, came, named>>
    BY <1>11 DEF vars, java, mock
  <2>2. UNCHANGED <<Way, Source>>
    BY <2>1 DEF Way, Source
  <2>3. QED
    BY <2>1, <2>2 DEF RouteInv
<1>12. QED
  BY <1>1, <1>2, <1>3, <1>4, <1>5, <1>6, <1>7, <1>8, <1>9, <1>10, <1>11 DEF Next, Guest

LEMMA FirstRoute ==
    Init => RouteInv
<1>1. SUFFICES ASSUME Init PROVE RouteInv
  OBVIOUS
<1>2. job \in Jobs /\ queue = <<>> /\ named = <<>> /\ methods = <<>>
      /\ regd = <<>> /\ pc = "start" /\ route = "none" /\ came = {}
  BY <1>1 DEF Init
<1>3. named \in [DOMAIN named -> ClassName \cup {NoName}]
  BY <1>2, NothingThere
<1>4. QED
  BY <1>2, <1>3 DEF RouteInv, Reported, Running

\* c_recover names the source its methods came from, every one of them: a way
\* that is tried after another finds no methods there, and it says "none"
\* exactly when there is no method.
THEOREM RouteIsTold == Spec => []RouteTold
<1>1. Init => RouteInv /\ SpaceInv /\ ContentInv
  BY FirstRoute, FirstContent
<1>2. RouteInv /\ SpaceInv /\ ContentInv /\ [Next]_vars => (RouteInv /\ SpaceInv /\ ContentInv)'
  BY RouteStep, SpaceStep, ContentStep DEF ContentInv, ObjectsInv
<1>3. RouteInv /\ SpaceInv /\ ContentInv => RouteTold
  <2>1. SUFFICES ASSUME RouteInv, pc = "done", job.op = "recover"
                 PROVE  came = Source /\ (Source = {} <=> methods = <<>>)
    BY DEF RouteTold
  <2>2. route \notin Running
    BY <2>1 DEF RouteInv
  <2>3. CASE route \in Reported
    <3>1. came = Source /\ came # {} /\ methods # <<>>
      BY <2>1, <2>3 DEF RouteInv
    <3>2. QED
      BY <3>1
  <2>4. CASE route = "none"
    <3>1. methods = <<>> /\ came = {} /\ Source = {}
      BY <2>1, <2>4 DEF RouteInv, Source
    <3>2. QED
      BY <3>1
  <2>5. QED
    BY <2>1, <2>2, <2>3, <2>4 DEF RouteInv
<1>4. QED
  BY <1>1, <1>2, <1>3, PTL DEF Spec

(***************************************************************************)
(* What the oracle answers                                                 *)
(***************************************************************************)
LEMMA SmallestNat ==
    ASSUME NEW T, T \subseteq Nat, T # {}
    PROVE  \E x \in T : \A y \in T : x <= y
<1> DEFINE L == OpToRel(<,Nat)
<1>1. \A y \in Nat, x \in Nat : y < x => <<y,x>> \in L
  <2>1. SUFFICES ASSUME NEW y \in Nat, NEW x \in Nat, y < x
                 PROVE  <<y,x>> \in L
    OBVIOUS
  <2>2. <<y,x>>[1] = y /\ <<y,x>>[2] = x /\ <<y,x>> \in Nat \X Nat
    OBVIOUS
  <2>3. QED
    BY <2>1, <2>2, Zenon DEF OpToRel
<1>2. PICK x \in T : \A y \in T : ~ (<<y, x>> \in L)
  BY WFMin, NatLessThanWellFounded
<1>3. \A y \in T : ~ (y < x)
  BY <1>1, <1>2, Zenon
<1> HIDE DEF L
<1>4. QED
  BY <1>3

\* list.remove takes one occurrence out, and the others stay in their order.
LEMMA Removed ==
    ASSUME NEW S, NEW s \in Seq(S), IsInjective(s), NEW e
    PROVE  /\ RemoveFirst(s, e) \in Seq(S)
           /\ IsInjective(RemoveFirst(s, e))
           /\ \A i \in DOMAIN RemoveFirst(s, e) : RemoveFirst(s, e)[i] # e
<1> DEFINE n == Len(s)
           I == {i \in 1..n : s[i] = e}
           r == RemoveFirst(s, e)
<1>1. CASE I = {}
  <2>1. r = s
    BY <1>1 DEF RemoveFirst
  <2>2. QED
    BY <1>1, <2>1
<1>2. CASE I # {}
  <2>1. I \subseteq Nat
    OBVIOUS
  <2>2. Min(I) \in I
    <3>1. \E m \in I : \A i \in I : m <= i
      <4> HIDE DEF I
      <4>1. QED
        BY <1>2, <2>1, SmallestNat, Zenon
    <3> HIDE DEF I
    <3>2. QED
      BY <3>1, Zenon DEF Min
  <2>3. PICK j \in I : j = Min(I)
    BY <2>2
  <2>4. r = SubSeq(s, 1, j - 1) \o SubSeq(s, j + 1, n)
    <3>1. \E i \in 1..Len(s) : s[i] = e
      BY <1>2
    <3>2. SelectInSeq(s, LAMBDA v : v = e) = j
      BY <1>2, <2>3 DEF SelectInSeq
    <3>3. r = RemoveAt(s, j)
      BY <3>1, <3>2, Zenon DEF RemoveFirst
    <3>4. QED
      BY <3>3 DEF RemoveAt
  <2> HIDE DEF r
  <2>5. j \in 1..n /\ s[j] = e /\ n \in Nat
    OBVIOUS
  <2>6. PICK p \in Seq(S) : p = SubSeq(s, 1, j - 1)
    <3>1. j - 1 \in Nat /\ j - 1 <= Len(s) /\ 1 \in Nat \ {0}
      BY <2>5
    <3>2. SubSeq(s, 1, j - 1) \in Seq(S)
      BY <3>1, Part
    <3>3. QED
      BY <3>2, Zenon
  <2>7. PICK q \in Seq(S) : q = SubSeq(s, j + 1, n)
    <3>1. j + 1 \in Nat \ {0} /\ n \in Nat /\ n <= Len(s)
      BY <2>5
    <3>2. SubSeq(s, j + 1, n) \in Seq(S)
      BY <3>1, Part
    <3>3. QED
      BY <3>2, Zenon
  <2>8. /\ Len(p) = j - 1 /\ Len(q) = n - j
        /\ \A i \in 1..j - 1 : p[i] = s[i]
        /\ \A i \in 1..n - j : q[i] = s[j + i]
    BY <2>5, <2>6, <2>7
  <2>9. r = p \o q
    BY <2>4, <2>6, <2>7
  <2>10. r \in Seq(S) /\ Len(r) = n - 1
    <3>1. r \in Seq(S) /\ Len(r) = Len(p) + Len(q)
      BY <2>9, Joined
    <3>2. QED
      BY <2>5, <2>8, <3>1
  <2>11. ASSUME NEW i \in 1..n - 1
        PROVE  r[i] = IF i < j THEN s[i] ELSE s[i + 1]
    <3>1. CASE i < j
      <4>1. i \in 1..Len(p)
        BY <2>5, <2>8, <3>1
      <4>2. r[i] = p[i]
        BY <2>9, <4>1
      <4>3. QED
        BY <2>5, <2>8, <3>1, <4>2
    <3>2. CASE ~ (i < j)
      <4>1. i \in Len(p) + 1..Len(p) + Len(q) /\ Len(p) \in Nat /\ Len(q) \in Nat
        BY <2>5, <2>8, <3>2
      <4>2. r[i] = q[i - Len(p)]
        BY <2>9, <4>1
      <4>3. i - Len(p) \in 1..n - j /\ j + (i - Len(p)) = i + 1
        BY <2>5, <2>8, <3>2
      <4>4. QED
        BY <2>8, <3>2, <4>2, <4>3
    <3>3. QED
      BY <3>1, <3>2
  <2> DEFINE at(i) == IF i < j THEN i ELSE i + 1
  <2>12. ASSUME NEW i \in 1..n - 1
        PROVE  at(i) \in 1..n /\ at(i) # j /\ r[i] = s[at(i)]
    BY <2>5, <2>11
  <2>13. DOMAIN r = 1..n - 1 /\ DOMAIN s = 1..n
    BY <2>5, <2>10
  <2>14. ASSUME NEW i \in 1..n - 1, NEW k \in 1..n - 1, r[i] = r[k]
        PROVE  i = k
    <3>1. s[at(i)] = s[at(k)] /\ at(i) \in DOMAIN s /\ at(k) \in DOMAIN s
      BY <2>12, <2>13, <2>14
    <3>2. at(i) = at(k)
      BY <3>1 DEF IsInjective
    <3>3. QED
      BY <2>5, <3>2
  <2>15. ASSUME NEW i \in 1..n - 1
        PROVE  r[i] # e
    BY <2>5, <2>12, <2>13 DEF IsInjective
  <2>16. IsInjective(r)
    BY <2>13, <2>14 DEF IsInjective
  <2>17. QED
    BY <2>10, <2>13, <2>15, <2>16 DEF r
<1>3. QED
  BY <1>1, <1>2

LEMMA AppendNew ==
    ASSUME NEW S, NEW s \in Seq(S), IsInjective(s), NEW e \in S,
           \A i \in DOMAIN s : s[i] # e
    PROVE  Append(s, e) \in Seq(S) /\ IsInjective(Append(s, e))
<1>1. Append(s, e) \in Seq(S) /\ Len(Append(s, e)) = Len(s) + 1 /\ Len(s) \in Nat
  OBVIOUS
<1>2. \A i \in 1..Len(s) + 1 : Append(s, e)[i] = IF i <= Len(s) THEN s[i] ELSE e
  BY <1>1
<1>3. QED
  BY <1>1, <1>2 DEF IsInjective

LEMMA LastIs ==
    ASSUME NEW S, NEW s \in Seq(S), NEW e \in S
    PROVE  Last(Append(s, e)) = e /\ Append(s, e) # <<>>
<1>1. Len(Append(s, e)) = Len(s) + 1 /\ Append(s, e)[Len(s) + 1] = e /\ Len(s) \in Nat
  OBVIOUS
<1>2. QED
  BY <1>1 DEF Last

\* fill_order names each array once, the one written last at its end; what
\* c_call printed is its reading of RAX.
AnswerInv ==
    /\ fill \in Seq(Int) /\ IsInjective(fill)
    /\ fill # <<>> => Last(fill) = newest /\ newest \in DOMAIN handles
    /\ rax \in DOMAIN handles \cup {Default}
    /\ pc = "done" /\ job.op = "call" => answer = Result(rax)

\* No handle is ever taken back.
LEMMA HandlesStay ==
    ASSUME [Next]_vars
    PROVE  DOMAIN handles \subseteq DOMAIN handles'
<1>1. CASE FindClass \/ GetFieldID \/ NewArray \/ AllocObject \/ GetStatic \/ Enter
  BY <1>1 DEF FindClass, GetFieldID, NewArray, AllocObject, GetStatic, Enter, New, Put
<1>2. CASE SetRegion
  <2>1. PICK a \in DOMAIN of : \E type, from, bytes : handles' = Stored(a, type, from, bytes)
    BY <1>2 DEF SetRegion
  <2>2. DOMAIN handles' = DOMAIN handles \cup {a}
    BY <2>1, SomeStored, Zenon
  <2>3. QED
    BY <2>2
<1>3. CASE StringInit
  BY <1>3 DEF StringInit
<1>4. CASE Malloc \/ Calloc \/ SetStatic \/ RegisterNatives \/ Leave \/ Discover \/ OnLoadDone
           \/ RegistrarsDone \/ Call \/ CallDone \/ UNCHANGED vars
  BY <1>4 DEF Malloc, Calloc, SetStatic, RegisterNatives, Leave, Discover, OnLoadDone,
              RegistrarsDone, Call, CallDone, vars, mock, java
<1>5. QED
  BY <1>1, <1>2, <1>3, <1>4 DEF Next, Guest

LEMMA FillStep ==
    ASSUME AnswerInv, SpaceInv, HandlesInv, [Next]_vars
    PROVE  /\ fill' \in Seq(Int) /\ IsInjective(fill')
           /\ fill' # <<>> => Last(fill') = newest' /\ newest' \in DOMAIN handles'
<1>1. CASE fill' = fill /\ newest' = newest
  BY <1>1, HandlesStay DEF AnswerInv
<1>2. CASE SetRegion
  <2>1. PICK a \in DOMAIN of :
          /\ fill' = Append(RemoveFirst(fill, a), a) /\ newest' = a
          /\ \E type, from, bytes : handles' = Stored(a, type, from, bytes)
    BY <1>2 DEF SetRegion, Refilled
  <2>2. a \in Int
    BY DEF SpaceInv, HandlesInv, Default
  <2>3. fill' \in Seq(Int) /\ IsInjective(fill') /\ Last(fill') = a
    BY <2>1, <2>2, Removed, AppendNew, LastIs DEF AnswerInv
  <2>4. DOMAIN handles' = DOMAIN handles \cup {a}
    BY <2>1, SomeStored, Zenon
  <2>5. QED
    BY <2>1, <2>3, <2>4
<1>3. CASE ~SetRegion
  BY <1>1, <1>3 DEF Next, Guest, FindClass, GetFieldID, NewArray, AllocObject, GetStatic, Enter,
     StringInit, Malloc, Calloc, SetStatic, RegisterNatives, Leave, Discover, OnLoadDone,
     RegistrarsDone, Call, CallDone, vars, mock, java
<1>4. QED
  BY <1>2, <1>3

\* A finished oracle takes no step.
LEMMA AnswerStep ==
    ASSUME AnswerInv, SpaceInv, HandlesInv, RouteInv, [Next]_vars
    PROVE  AnswerInv'
<1>1. /\ fill' \in Seq(Int) /\ IsInjective(fill')
      /\ fill' # <<>> => Last(fill') = newest' /\ newest' \in DOMAIN handles'
  BY FillStep
<1>2. rax' \in DOMAIN handles' \cup {Default}
  <2>1. CASE Leave
    BY <2>1 DEF Leave, mock
  <2>2. CASE rax' = rax
    BY <2>2, HandlesStay DEF AnswerInv
  <2>3. QED
    BY <2>1, <2>2 DEF Next, Guest, FindClass, GetFieldID, NewArray, AllocObject, GetStatic, Enter,
       StringInit, Malloc, Calloc, SetRegion, SetStatic, RegisterNatives, Discover, OnLoadDone,
       RegistrarsDone, Call, CallDone, vars, Idle
<1>3. ASSUME pc' = "done", job'.op = "call"
      PROVE  answer' = Result(rax)'
  <2>1. CASE CallDone
    BY <2>1 DEF CallDone, mock, Result, Known, ContentOf
  <2>2. CASE UNCHANGED vars
    BY <1>3, <2>2 DEF vars, mock, AnswerInv, Result, Known, ContentOf
  <2>3. CASE Next /\ ~CallDone
    <3>1. job' = job
      BY <2>3 DEF Next, Guest, FindClass, GetFieldID, NewArray, AllocObject, GetStatic, Enter,
         StringInit, Malloc, Calloc, SetRegion, SetStatic, RegisterNatives, Discover, OnLoadDone,
         RegistrarsDone, Call, CallDone, Leave, Idle
    <3>2. route = "none"
      BY <1>3, <3>1 DEF RouteInv
    <3>3. pc' # "done"
      BY <1>3, <2>3, <3>1, <3>2 DEF Next, Guest, FindClass, GetFieldID, NewArray, AllocObject,
         GetStatic, Enter, StringInit, Malloc, Calloc, SetRegion, SetStatic, RegisterNatives,
         Discover, OnLoadDone, RegistrarsDone, Call, CallDone, Leave, Idle, Trap
    <3>4. QED
      BY <1>3, <3>3
  <2>4. QED
    BY <2>1, <2>2, <2>3
<1>4. QED
  BY <1>1, <1>2, <1>3 DEF AnswerInv

\* Of nothing, and of one zero, nothing is left.
LEMMA StrippedEmpty ==
    Stripped(<<>>) = <<>> /\ Stripped(<<0>>) = <<>>
<1>1. ASSUME NEW K \in SUBSET Nat, 0 \in K PROVE Min(K) = 0
  <2>1. \E m \in K : \A y \in K : m <= y
    BY <1>1
  <2>2. Min(K) \in K /\ \A y \in K : Min(K) <= y
    BY <2>1, Zenon DEF Min
  <2>3. PICK x \in K : x = Min(K) /\ \A y \in K : x <= y
    BY <2>2, Zenon
  <2>4. x \in Nat /\ x <= 0
    BY <1>1, <2>3
  <2>5. QED
    BY <2>3, <2>4
<1>2. ASSUME NEW s, s = <<>> \/ s = << 0 >> PROVE Stripped(s) = <<>>
  <2> DEFINE K == {k \in 0..Len(s) : \A i \in k + 1..Len(s) : s[i] = 0}
  <2>1. K \in SUBSET Nat /\ 0 \in K
    BY <1>2
  <2> HIDE DEF K
  <2>2. Min(K) = 0
    BY <1>1, <2>1
  <2>3. SubSeq(s, 1, 0) = <<>>
    BY <1>2
  <2>4. QED
    BY <2>2, <2>3 DEF Stripped, K
<1>3. QED
  BY <1>2

\* Whatever the function did, the oracle answers with what the handle it
\* returned would hold in a Java VM or, where that is nothing, the array written
\* last, unless the mock may be wrong of it; fill_order never names an array
\* twice.
THEOREM OracleAnswers == Spec => []AnswerIsNewest
<1> DEFINE Inv == SpaceInv /\ ContentInv /\ RouteInv /\ AnswerInv
<1>1. Init => Inv
  <2>1. SUFFICES ASSUME Init PROVE AnswerInv
    BY FirstContent, FirstRoute
  <2>2. fill = <<>> /\ rax = Default /\ pc = "start"
    BY <2>1 DEF Init
  <2>3. QED
    BY <2>2 DEF AnswerInv, IsInjective
<1>2. Inv /\ [Next]_vars => Inv'
  BY SpaceStep, ContentStep, RouteStep, AnswerStep DEF ContentInv, ObjectsInv
<1>3. Inv => AnswerIsNewest
  <2>1. SUFFICES ASSUME ContentInv, AnswerInv, pc = "done", job.op = "call"
                 PROVE  /\ Known(rax) /\ handles[rax].content # <<>> => Answers(rax)
                        /\ ~Known(rax) \/ handles[rax].content = <<>> =>
                            IF fill = <<>> THEN answer = <<>> ELSE Answers(newest)
    BY DEF AnswerIsNewest, AnswerInv
  <2>2. answer = Result(rax)
    BY <2>1 DEF AnswerInv
  <2>3. ASSUME NEW h \in DOMAIN handles, answer = Stripped(handles[h].content)
        PROVE  Answers(h)
    <3>1. CASE h \in apart
      BY <3>1 DEF Answers
    <3>2. CASE h \notin apart
      <4>1. Same(handles[h].content, Object(h).elements)
        BY <2>1, <3>2 DEF ContentInv, AgreeInv, Object
      <4>2. Stripped(handles[h].content) = Stripped(Object(h).elements)
        BY <4>1, StrippedEmpty DEF Same
      <4>3. QED
        BY <2>3, <4>2 DEF Answers
    <3>3. QED
      BY <3>1, <3>2
  <2>4. CASE Known(rax) /\ handles[rax].content # <<>>
    <3>1. answer = Stripped(handles[rax].content) /\ rax \in DOMAIN handles
      BY <2>2, <2>4 DEF Result, ContentOf, Known
    <3>2. QED
      BY <2>3, <2>4, <3>1
  <2>5. CASE ~(Known(rax) /\ handles[rax].content # <<>>) /\ fill # <<>>
    <3>1. answer = Stripped(handles[Last(fill)].content)
      BY <2>2, <2>5 DEF Result
    <3>2. Last(fill) = newest /\ newest \in DOMAIN handles
      BY <2>1, <2>5 DEF AnswerInv
    <3>3. Answers(newest)
      BY <2>3, <3>1, <3>2
    <3>4. QED
      BY <2>5, <3>3
  <2>6. CASE ~(Known(rax) /\ handles[rax].content # <<>>) /\ fill = <<>>
    <3>1. answer = Stripped(<<>>)
      BY <2>2, <2>6 DEF Result, ContentOf
    <3>2. QED
      BY <2>6, <3>1, StrippedEmpty
  <2>7. QED
    BY <2>4, <2>5, <2>6
<1>4. QED
  BY <1>1, <1>2, <1>3, PTL DEF Spec

(***************************************************************************)
(* The methods that are captured                                           *)
(***************************************************************************)
\* What FlattenSeq computes of the first n parts of s.
IsFlat(f, s, n) == f = [i \in 1..n |-> IF i = 1 THEN s[i] ELSE f[i-1] \o s[i]]

LEMMA FlatIs ==
    ASSUME NEW f, NEW s, NEW n \in Nat, IsFlat(f, s, n)
    PROVE  /\ DOMAIN f = 1..n
           /\ \A i \in 1..n : f[i] = IF i = 1 THEN s[i] ELSE f[i-1] \o s[i]
<1> DEFINE g == [i \in 1..n |-> IF i = 1 THEN s[i] ELSE f[i-1] \o s[i]]
<1>1. f = g
  BY DEF IsFlat
<1>2. DOMAIN g = 1..n /\ \A i \in 1..n : g[i] = IF i = 1 THEN s[i] ELSE f[i-1] \o s[i]
  OBVIOUS
<1> HIDE DEF g
<1>3. QED
  BY <1>1, <1>2, Zenon

LEMMA FlatOf ==
    ASSUME NEW f, NEW s, NEW n \in Nat, f = [i \in 1..n |-> f[i]],
           \A i \in 1..n : f[i] = IF i = 1 THEN s[i] ELSE f[i-1] \o s[i]
    PROVE  IsFlat(f, s, n)
<1>1. [i \in 1..n |-> f[i]] = [i \in 1..n |-> IF i = 1 THEN s[i] ELSE f[i-1] \o s[i]]
  OBVIOUS
<1>2. QED
  BY <1>1, Zenon DEF IsFlat

\* Two of them for the same sequence agree as far as both go.
LEMMA FlatAgrees ==
    ASSUME NEW f, NEW g, NEW s, NEW t, NEW n \in Nat, NEW m \in Nat, n <= m,
           IsFlat(f, s, n), IsFlat(g, t, m), \A i \in 1..n : s[i] = t[i]
    PROVE  \A i \in 1..n : f[i] = g[i]
<1> DEFINE T == {i \in 1..n : f[i] # g[i]}
<1>1. SUFFICES T = {}
  OBVIOUS
<1>2. SUFFICES ASSUME T # {} PROVE FALSE
  OBVIOUS
<1>3. T \subseteq Nat
  OBVIOUS
<1>4. PICK x \in T : \A y \in T : x <= y
  <2> HIDE DEF T
  <2>1. QED
    BY <1>2, <1>3, SmallestNat, Zenon
<1>5. f[x] = (IF x = 1 THEN s[x] ELSE f[x-1] \o s[x]) /\ g[x] = (IF x = 1 THEN t[x] ELSE g[x-1] \o t[x])
  BY FlatIs
<1>6. CASE x = 1
  BY <1>5, <1>6
<1>7. CASE x # 1
  <2>1. x - 1 \in 1..n /\ x - 1 \notin T
    BY <1>4, <1>7
  <2>2. f[x-1] = g[x-1] /\ s[x] = t[x]
    BY <2>1
  <2>3. QED
    BY <1>5, <1>7, <2>2
<1>8. QED
  BY <1>6, <1>7

\* The recursion defines a function.
LEMMA FlatIsThere ==
    ASSUME NEW s, NEW n \in Nat
    PROVE  \E f : IsFlat(f, s, n)
<1> DEFINE T == {k \in Nat : ~ \E f : IsFlat(f, s, k)}
<1>1. SUFFICES ASSUME T # {} PROVE FALSE
  OBVIOUS
<1>2. PICK x \in T : \A y \in T : x <= y
  <2>1. T \subseteq Nat
    OBVIOUS
  <2> HIDE DEF T
  <2>2. QED
    BY <1>1, <2>1, SmallestNat, Zenon
<1>3. CASE x = 0
  <2> DEFINE f == [i \in 1..x |-> s[i]]
  <2>1. f = [i \in 1..x |-> f[i]] /\ \A i \in 1..x : f[i] = IF i = 1 THEN s[i] ELSE f[i-1] \o s[i]
    BY <1>3
  <2> HIDE DEF f
  <2>2. IsFlat(f, s, x)
    BY <2>1, FlatOf
  <2>3. QED
    BY <2>2
<1>4. CASE x # 0
  <2>1. x - 1 \in Nat /\ x - 1 \notin T
    BY <1>2, <1>4
  <2>2. PICK g : IsFlat(g, s, x - 1)
    BY <2>1
  <2>3. \A i \in 1..x - 1 : g[i] = IF i = 1 THEN s[i] ELSE g[i-1] \o s[i]
    BY <2>1, <2>2, FlatIs
  <2> DEFINE f == [i \in 1..x |-> IF i = x THEN IF i = 1 THEN s[i] ELSE g[i-1] \o s[i] ELSE g[i]]
  <2>4. f = [i \in 1..x |-> f[i]]
    OBVIOUS
  <2>5. ASSUME NEW i \in 1..x PROVE f[i] = IF i = 1 THEN s[i] ELSE f[i-1] \o s[i]
    <3>1. CASE i = x
      <4>1. i # 1 => i - 1 \in 1..x /\ i - 1 # x
        BY <3>1
      <4>2. i # 1 => f[i-1] = g[i-1]
        BY <4>1
      <4>3. f[i] = IF i = 1 THEN s[i] ELSE g[i-1] \o s[i]
        BY <3>1
      <4>4. QED
        BY <4>2, <4>3
    <3>2. CASE i # x
      <4>1. i \in 1..x - 1
        BY <3>2
      <4>2. f[i] = g[i] /\ g[i] = IF i = 1 THEN s[i] ELSE g[i-1] \o s[i]
        BY <2>3, <3>2, <4>1
      <4>3. i # 1 => i - 1 \in 1..x /\ i - 1 # x
        BY <4>1
      <4>4. i # 1 => f[i-1] = g[i-1]
        BY <4>3
      <4>5. QED
        BY <4>2, <4>4
    <3>3. QED
      BY <3>1, <3>2
  <2> HIDE DEF f
  <2>6. IsFlat(f, s, x)
    BY <2>4, <2>5, FlatOf
  <2>7. QED
    BY <2>6
<1>5. QED
  BY <1>3, <1>4

LEMMA FlattenIs ==
    ASSUME NEW s, NEW n \in Nat, Len(s) = n, n # 0
    PROVE  \E f : IsFlat(f, s, n) /\ FlattenSeq(s) = f[n]
<1> DEFINE F == CHOOSE f : IsFlat(f, s, n)
<1>1. IsFlat(F, s, n)
  BY FlatIsThere
<1>2. FlattenSeq(s) = F[n]
  BY DEF FlattenSeq, IsFlat
<1>3. QED
  BY <1>1, <1>2

\* One part more comes last.
LEMMA FlattenMore ==
    ASSUME NEW S, NEW s \in Seq(Seq(S)), NEW p \in Seq(S)
    PROVE  FlattenSeq(Append(s, p)) = FlattenSeq(s) \o p
<1> DEFINE n == Len(s)
           t == Append(s, p)
<1>1. n \in Nat /\ Len(t) = n + 1 /\ t[n + 1] = p /\ \A i \in 1..n : t[i] = s[i]
  OBVIOUS
<1> HIDE DEF n, t
<1>2. PICK g : IsFlat(g, t, n + 1) /\ FlattenSeq(t) = g[n + 1]
  BY <1>1, FlattenIs
<1>3. g[n + 1] = IF n + 1 = 1 THEN t[n + 1] ELSE g[n + 1 - 1] \o t[n + 1]
  BY <1>1, <1>2, FlatIs
<1>4. CASE n = 0
  <2>1. FlattenSeq(s) = s /\ s = <<>>
    BY <1>4 DEF n, FlattenSeq
  <2>2. FlattenSeq(t) = p
    BY <1>1, <1>2, <1>3, <1>4
  <2>3. <<>> \o p = p
    OBVIOUS
  <2>4. QED
    BY <2>1, <2>2, <2>3 DEF t
<1>5. CASE n # 0
  <2>1. PICK f : IsFlat(f, s, n) /\ FlattenSeq(s) = f[n]
    BY <1>1, <1>5, FlattenIs DEF n
  <2>2. \A i \in 1..n : f[i] = g[i]
    BY <1>1, <1>2, <2>1, FlatAgrees
  <2>3. f[n] = g[n + 1 - 1]
    BY <1>1, <1>5, <2>2
  <2>4. QED
    BY <1>1, <1>2, <1>3, <1>5, <2>1, <2>3 DEF t
<1>6. QED
  BY <1>4, <1>5

\* A class handle carries the name it was found by, and no other handle does.
NameInv ==
    /\ DOMAIN named \subseteq DOMAIN handles
    /\ \A h \in DOMAIN handles :
        IF handles[h].kind = "class"
        THEN handles[h].meta = (IF h \in DOMAIN named THEN named[h] ELSE NoName)
        ELSE h \notin DOMAIN named

CaptureInv == NameInv /\ CapturedInOrder

LEMMA NewNames ==
    ASSUME NameInv, SpaceInv, NEW k, NEW c, NEW m, New(k, c, m),
           \/ named' = named /\ (k = "class" => m = NoName)
           \/ k = "class" /\ named' = Put(named, hnext, m)
    PROVE  NameInv'
<1> DEFINE e == [kind |-> k, content |-> c, meta |-> m]
<1>1. hnext \notin DOMAIN handles /\ hnext \notin DOMAIN named
  BY FreshHandle DEF NameInv
<1>2. DOMAIN handles' = DOMAIN handles \cup {hnext} /\ handles'[hnext] = e
      /\ \A h \in DOMAIN handles : handles'[h] = handles[h]
  BY <1>1 DEF New, Put
<1>3. e.kind = k /\ e.meta = m
  OBVIOUS
<1> HIDE DEF e
<1>4. CASE named' = named /\ (k = "class" => m = NoName)
  BY <1>1, <1>2, <1>3, <1>4 DEF NameInv
<1>5. CASE k = "class" /\ named' = Put(named, hnext, m)
  <2>1. DOMAIN named' = DOMAIN named \cup {hnext} /\ named'[hnext] = m
        /\ \A h \in DOMAIN named : named'[h] = named[h]
    BY <1>1, <1>5 DEF Put
  <2>2. QED
    BY <1>1, <1>2, <1>3, <1>5, <2>1 DEF NameInv
<1>6. QED
  BY <1>4, <1>5

\* A write leaves the kind and the name of every handle as they were.
LEMMA StoredNames ==
    ASSUME NameInv, ContentInv, SetRegion
    PROVE  NameInv'
<1>1. PICK a \in DOMAIN of : \E type, from, bytes : handles' = Stored(a, type, from, bytes)
  BY DEF SetRegion
<1>6. PICK type, from, bytes : handles' = Stored(a, type, from, bytes)
  BY <1>1
<1>2. named' = named /\ handles \in [DOMAIN handles -> Entry]
  BY DEF SetRegion, ContentInv
<1>3. CASE Known(a)
  <2>1. handles[a] \in Entry
    BY <1>2, <1>3 DEF Known
  <2>2. PICK w : handles' = [handles EXCEPT ![a].content = w]
    BY <1>6, <1>3 DEF Stored
  <2>3. DOMAIN handles' = DOMAIN handles
        /\ \A h \in DOMAIN handles : handles'[h].kind = handles[h].kind /\ handles'[h].meta = handles[h].meta
    BY <1>2, <1>3, <2>1, <2>2 DEF Known, Entry
  <2>4. QED
    BY <1>2, <2>3 DEF NameInv
<1>4. CASE ~Known(a)
  <2> DEFINE e == [kind |-> KindOf(type), content |-> Written(<<>>, from, bytes), meta |-> NoName]
  <2>1. DOMAIN handles' = DOMAIN handles \cup {a} /\ handles'[a] = e
        /\ \A h \in DOMAIN handles : handles'[h] = handles[h]
    BY <1>6, <1>4 DEF Stored, Put, Known
  <2>2. e.kind # "class" /\ a \notin DOMAIN named
    BY <1>4 DEF Known, NameInv, KindOf
  <2> HIDE DEF e
  <2>3. QED
    BY <1>2, <2>1, <2>2 DEF NameInv
<1>5. QED
  BY <1>3, <1>4

\* An object that becomes a string is no class before or after.
LEMMA StringNames ==
    ASSUME NameInv, ContentInv, StringInit
    PROVE  NameInv'
<1>1. PICK o \in DOMAIN handles : \E w :
        /\ handles[o].kind = "obj"
        /\ handles' = [handles EXCEPT ![o].kind = "str", ![o].content = w]
  BY DEF StringInit
<1>2. PICK w : handles' = [handles EXCEPT ![o].kind = "str", ![o].content = w]
  BY <1>1
<1>3. named' = named /\ handles \in [DOMAIN handles -> Entry] /\ handles[o] \in Entry
  BY DEF StringInit, ContentInv
<1>4. DOMAIN handles' = DOMAIN handles /\ handles'[o].kind = "str"
      /\ \A h \in DOMAIN handles : h # o => handles'[h] = handles[h]
  BY <1>2, <1>3 DEF Entry
<1>5. QED
  BY <1>1, <1>3, <1>4 DEF NameInv

LEMMA NameStep ==
    ASSUME NameInv, SpaceInv, ContentInv, [Next]_vars
    PROVE  NameInv'
<1>1. CASE FindClass
  BY <1>1, NewNames DEF FindClass
<1>2. CASE GetFieldID \/ NewArray \/ AllocObject \/ GetStatic
  <2>1. \E k \in {"fieldid", "bytes", "obj", "chars"} : \E c, m : New(k, c, m)
    <3>1. \A type : KindOf(type) \in {"bytes", "chars"}
      BY DEF KindOf
    <3>2. QED
      BY <1>2, <3>1 DEF GetFieldID, NewArray, AllocObject, GetStatic
  <2>2. named' = named
    BY <1>2 DEF GetFieldID, NewArray, AllocObject, GetStatic
  <2>3. QED
    BY <2>1, <2>2, NewNames
<1>3. CASE Enter
  <2>1. named' = named
    BY <1>3 DEF Enter
  <2>2. CASE New("class", <<>>, NoName)
    BY <2>1, <2>2, NewNames
  <2>3. CASE UNCHANGED handles
    BY <2>1, <2>3 DEF NameInv
  <2>4. QED
    BY <1>3, <2>2, <2>3 DEF Enter
<1>4. CASE SetRegion
  BY <1>4, StoredNames
<1>5. CASE StringInit
  BY <1>5, StringNames
<1>6. CASE Malloc \/ Calloc \/ SetStatic \/ RegisterNatives \/ Leave \/ Discover \/ OnLoadDone
           \/ RegistrarsDone \/ Call \/ CallDone \/ UNCHANGED vars
  <2>1. UNCHANGED <<handles, named>>
    BY <1>6 DEF Malloc, Calloc, SetStatic, RegisterNatives, Leave, Discover, OnLoadDone,
                RegistrarsDone, Call, CallDone, vars, mock, java
  <2>2. QED
    BY <2>1 DEF NameInv
<1>7. QED
  BY <1>1, <1>2, <1>3, <1>4, <1>5, <1>6 DEF Next, Guest

\* The rows that are captured of each table, in order.
Captured(ts) == [i \in DOMAIN ts |-> Cut(ts[i])]

LEMMA CutTyped ==
    ASSUME NEW t \in Table
    PROVE  Cut(t) \in Seq(Row)
<1>1. PICK n \in Nat : t.table \in [1..n -> Fn]
  BY DEF Table
<1> DEFINE k == Min({Len(t.table), MaxTable})
<1>2. Len(t.table) = n /\ MaxTable \in Nat
  BY <1>1, EmulationAssumption
<1>3. k \in Nat /\ k <= n
  BY <1>2, MinOfTwo
<1> HIDE DEF k
<1>4. \A i \in 1..k : [class |-> t.class, fn |-> t.table[i]] \in Row
  BY <1>1, <1>3 DEF Row, Table
<1>5. Rows(t.class, t.table, k) \in [1..k -> Row]
  BY <1>4 DEF Rows
<1>6. PICK r \in Seq(Row) : r = Rows(t.class, t.table, k)
  <2>1. Rows(t.class, t.table, k) \in Seq(Row)
    BY <1>3, <1>5, IsASeq
  <2>2. QED
    BY <2>1, Zenon
<1>7. QED
  BY <1>6 DEF Cut, k

LEMMA CapturedMore ==
    ASSUME NEW ts \in Seq(Table), NEW t \in Table
    PROVE  Captured(ts) \in Seq(Seq(Row)) /\ Captured(Append(ts, t)) = Append(Captured(ts), Cut(t))
<1>1. Captured(ts) = [i \in 1..Len(ts) |-> Cut(ts[i])] /\ Len(ts) \in Nat
  BY DEF Captured
<1>2. \A i \in 1..Len(ts) : Cut(ts[i]) \in Seq(Row)
  BY CutTyped
<1>3. Captured(ts) \in Seq(Seq(Row)) /\ Len(Captured(ts)) = Len(ts)
  <2>1. Captured(ts) \in [1..Len(ts) -> Seq(Row)]
    BY <1>1, <1>2
  <2>2. QED
    BY <1>1, <2>1, IsASeq
<1>4. PICK us \in Seq(Table) : us = Append(ts, t)
  <2>1. Append(ts, t) \in Seq(Table)
    OBVIOUS
  <2>2. QED
    BY <2>1, Zenon
<1>5. DOMAIN us = 1..Len(ts) + 1 /\ us[Len(ts) + 1] = t /\ \A i \in 1..Len(ts) : us[i] = ts[i]
  BY <1>1, <1>4
<1>6. Captured(us) = [i \in 1..Len(ts) + 1 |-> Cut(us[i])]
  BY <1>5 DEF Captured
<1>7. PICK x \in Seq(Row) : x = Cut(t)
  BY CutTyped
<1>8. PICK cs \in Seq(Seq(Row)) : cs = Captured(ts)
  BY <1>3
<1>9. Len(cs) = Len(ts) /\ \A i \in 1..Len(ts) : cs[i] = Cut(ts[i])
  BY <1>1, <1>3, <1>8
<1>10. Append(cs, x) = [i \in 1..Len(ts) + 1 |-> IF i <= Len(ts) THEN cs[i] ELSE x]
  <2>1. PICK ds \in Seq(Seq(Row)) : ds = Append(cs, x)
    <3>1. Append(cs, x) \in Seq(Seq(Row))
      OBVIOUS
    <3>2. QED
      BY <3>1, Zenon
  <2>2. Len(ds) = Len(ts) + 1 /\ DOMAIN ds = 1..Len(ts) + 1
        /\ \A i \in 1..Len(ts) + 1 : ds[i] = IF i <= Len(ts) THEN cs[i] ELSE x
    BY <1>1, <1>9, <2>1
  <2>3. ds = [i \in 1..Len(ts) + 1 |-> IF i <= Len(ts) THEN cs[i] ELSE x]
    BY <2>2
  <2>4. QED
    BY <2>1, <2>3
<1>11. \A i \in 1..Len(ts) + 1 : Cut(us[i]) = IF i <= Len(ts) THEN cs[i] ELSE x
  BY <1>1, <1>5, <1>7, <1>9
<1>12. QED
  BY <1>3, <1>4, <1>6, <1>7, <1>8, <1>10, <1>11

\* One call of RegisterNatives adds the rows of its table under the name of its
\* class, and nothing else.
LEMMA RegisterCaptures ==
    ASSUME CaptureInv, RouteInv, ContentInv, RegisterNatives, route \notin Reported
    PROVE  CapturedInOrder'
<1>1. PICK c \in DOMAIN handles \cup {Default}, n \in 0..MaxTable + 1 :
        \E table \in [1..n -> Fn] :
            /\ methods' = methods \o Rows(ClassOf(c), table, Min({n, MaxTable}))
            /\ regd' = Append(regd, [class |-> IF c \in DOMAIN named THEN named[c] ELSE NoName,
                                    table |-> table])
  BY DEF RegisterNatives
<1>0. n \in Nat
  <2>1. MaxTable \in Nat /\ n \in 0..MaxTable + 1
    BY EmulationAssumption
  <2>2. QED
    BY <2>1
<1>2. PICK table \in [1..n -> Fn] :
        /\ methods' = methods \o Rows(ClassOf(c), table, Min({n, MaxTable}))
        /\ regd' = Append(regd, [class |-> IF c \in DOMAIN named THEN named[c] ELSE NoName,
                                table |-> table])
  BY <1>1
<1> DEFINE t == [class |-> IF c \in DOMAIN named THEN named[c] ELSE NoName, table |-> table]
<1>3. ClassOf(c) = t.class
  BY DEF ClassOf, Known, CaptureInv, NameInv
<1>4. t \in Table /\ t.table = table
  <2>1. (IF c \in DOMAIN named THEN named[c] ELSE NoName) \in Metas
    BY DEF RouteInv, Metas
  <2>2. table \in UNION {[1..m -> Fn] : m \in Nat}
    BY <1>0
  <2>3. QED
    BY <2>1, <2>2 DEF Table
<1>5. Len(table) = n
  <2>1. table \in Seq(Fn) /\ DOMAIN table = 1..n
    BY <1>0, IsASeq
  <2>2. QED
    BY <1>0, <2>1
<1>6. regd' = Append(regd, t)
  BY <1>2
<1> HIDE DEF t
<1>7. methods' = methods \o Cut(t)
  BY <1>2, <1>3, <1>4, <1>5 DEF Cut
<1>8. methods = FlattenSeq(Captured(regd))
  BY DEF CaptureInv, CapturedInOrder, Captured, Reported
<1>9. regd \in Seq(Table) /\ Cut(t) \in Seq(Row)
  BY <1>4, CutTyped DEF RouteInv
<1>10. Captured(regd) \in Seq(Seq(Row)) /\ Captured(regd') = Append(Captured(regd), Cut(t))
  BY <1>4, <1>6, <1>9, CapturedMore
<1>11. FlattenSeq(Append(Captured(regd), Cut(t))) = FlattenSeq(Captured(regd)) \o Cut(t)
  BY <1>9, <1>10, FlattenMore
<1>12. methods' = FlattenSeq(Captured(regd'))
  BY <1>7, <1>8, <1>10, <1>11, Zenon
<1>13. QED
  BY <1>12, Zenon DEF CapturedInOrder, Captured

LEMMA CaptureStep ==
    ASSUME CaptureInv, SpaceInv, RouteInv, ContentInv, [Next]_vars
    PROVE  CaptureInv'
<1>1. NameInv'
  BY NameStep DEF CaptureInv
<1>2. CapturedInOrder'
  <2>1. CASE RegisterNatives
    <3>1. route \notin Reported
      BY <2>1 DEF RegisterNatives, Trap, RouteInv, Reported
    <3>2. QED
      BY <2>1, <3>1, RegisterCaptures
  <2>2. CASE Discover
    <3>1. CASE "Java_x" \in job.exports
      <4>1. route' = "Java_* exports"
        BY <2>2, <3>1 DEF Discover
      <4>2. QED
        BY <4>1 DEF CapturedInOrder
    <3>2. CASE "Java_x" \notin job.exports
      <4>1. UNCHANGED <<methods, regd>> /\ route # "Java_* exports"
        BY <2>2, <3>2 DEF Discover, RouteInv, Reported, Running
      <4>2. QED
        BY <4>1 DEF CaptureInv, CapturedInOrder
    <3>3. QED
      BY <3>1, <3>2
  <2>3. CASE ~RegisterNatives /\ ~Discover
    <3>1. UNCHANGED <<methods, regd>>
      BY <2>3 DEF Next, Guest, FindClass, GetFieldID, NewArray, AllocObject, GetStatic, Enter, StringInit,
         Malloc, Calloc, SetRegion, SetStatic, OnLoadDone,
         RegistrarsDone, Call, CallDone, Leave, vars, mock, java
    <3>2. route = "Java_* exports" => route' = route
      BY <2>3 DEF Next, Guest, FindClass, GetFieldID, NewArray, AllocObject, GetStatic, Enter, StringInit,
         Malloc, Calloc, SetRegion, SetStatic, OnLoadDone,
         RegistrarsDone, Call, CallDone, Leave, vars, Idle
    <3>3. QED
      BY <3>1, <3>2 DEF CaptureInv, CapturedInOrder
  <2>4. QED
    BY <2>1, <2>2, <2>3
<1>3. QED
  BY <1>1, <1>2 DEF CaptureInv

\* The methods that are recovered are the tables the guest registered, in the
\* order of its calls, each cut at MaxTable rows and each under the name its
\* class handle was found by.
THEOREM TablesAreCaptured == Spec => []CapturedInOrder
<1> DEFINE Inv == SpaceInv /\ ContentInv /\ RouteInv /\ CaptureInv
<1>1. Init => Inv
  <2>1. SUFFICES ASSUME Init PROVE CaptureInv
    BY FirstContent, FirstRoute
  <2>2. handles = <<>> /\ named = <<>> /\ methods = <<>> /\ regd = <<>>
    BY <2>1 DEF Init
  <2>3. NameInv
    BY <2>2, NothingThere DEF NameInv
  <2>4. Len(Captured(regd)) = 0 /\ Captured(regd) = <<>>
    BY <2>2 DEF Captured
  <2>5. FlattenSeq(Captured(regd)) = <<>>
    BY <2>4 DEF FlattenSeq
  <2>6. CapturedInOrder
    BY <2>2, <2>5 DEF CapturedInOrder, Captured
  <2>7. QED
    BY <2>3, <2>6 DEF CaptureInv
<1>2. Inv /\ [Next]_vars => Inv'
  BY SpaceStep, ContentStep, RouteStep, CaptureStep DEF ContentInv, ObjectsInv
<1>3. Inv => CapturedInOrder
  BY DEF CaptureInv
<1>4. QED
  BY <1>1, <1>2, <1>3, PTL DEF Spec
===============================================================================
