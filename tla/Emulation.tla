----------------------------- MODULE Emulation -----------------------------
(***************************************************************************)
(* native_emulate/j2c_emu.py: the obfuscated library runs under a CPU      *)
(* emulator, against a mock of the JNI environment that hands out handles, *)
(* keeps what the guest stores behind them and records the methods it      *)
(* registers.                                                              *)
(*                                                                         *)
(* The guest is the environment: between two of its JNI calls it may do    *)
(* anything, so any call may follow any other, with any handle it holds;   *)
(* it returns, faults, or runs into the instruction count.  One action is  *)
(* one trap of _hook; a trap that changes nothing of the mock (a reader, a *)
(* store from memory that cannot be read) has no action.  Beside the mock  *)
(* runs what a Java VM would hold (java): the properties alone read it.    *)
(*                                                                         *)
(* An element of an array is a number, and the mock keeps bytes; a method  *)
(* is a function address.  Handles are offsets from HBASE.                 *)
(***************************************************************************)
EXTENDS Integers, Sequences, SequencesExt, FiniteSets, FiniteSetsExt

CONSTANTS
    ClassName,   \* names the guest passes to FindClass
    Field,       \* static fields
    FieldName,   \* their names, by which alone the mock tells fields apart
    Value,       \* values of array elements
    MaxLen,      \* bound: array lengths
    MaxTable,    \* the 64 of _capture_register
    Fn,          \* addresses of native methods
    RegionSize,  \* bytes mapped at HBASE
    StackSpace,  \* bytes between the first stack pointer and the mapped stack
    RunFrame,    \* the 0x800 a run leaves between itself and the stack pointer
    Uses,        \* bound: operation |-> the groups of JNI calls the guest makes in it
    MaxCalls     \* bound: operation |-> JNI calls in one emulation

ASSUME EmulationAssumption ==
    /\ Value \subseteq Nat
    /\ MaxLen \in Nat /\ MaxTable \in Nat /\ RegionSize \in Nat
    /\ StackSpace \in Nat /\ RunFrame \in Nat
    /\ MaxCalls \in [{"recover", "call"} -> Nat]

VARIABLES
    job,       \* the operation, the exports and the registrars
    pc,        \* "start", "guest" (emu_start runs), "next", "crash" or "done"
    queue,     \* entry points discover has still to run
    route,     \* the route discover reports
    sp,        \* bytes of stack used when the emulator is not running
    calls,     \* JNI calls of this emulation
    rax,       \* the register the run returned
    hnext,     \* the bump pointer (hnext - HBASE)
    handles,   \* handle |-> kind, content and meta
    allocs,    \* the blocks malloc and calloc returned
    statics,   \* static field |-> content
    fill,      \* fill_order: arrays by their last write
    methods,   \* em.methods
    answer,    \* what c_call prints
    of,        \* history: handle |-> the object of a Java VM it stands for
    heap,      \* history: object |-> its type and elements
    held,      \* history: static field |-> the object stored in it
    apart,     \* history: handles the mock may be wrong about
    late,      \* history: static fields it may be wrong about
    named,     \* history: class handle |-> the name it was found by
    regd,      \* history: the tables the guest registered, with their class
    running,   \* history: the entry point that runs
    came,      \* history: the entry points that yielded methods
    newest     \* history: the array written last

mock == <<hnext, handles, allocs, statics, fill, methods>>
objects == <<of, heap, held, apart, late>>
java == <<objects, named, regd, running, came, newest>>
vars == <<job, pc, queue, route, sp, calls, rax, mock, answer, java>>

Base == 256                    \* hnext starts at HBASE + 0x100
Default == -1                  \* ENV + 0x30000, what an unmodelled call returns
NoName == "none"
Put(f, x, v) == [y \in DOMAIN f \cup {x} |-> IF y = x THEN v ELSE f[y]]
Known(h) == h \in DOMAIN handles
Elements == UNION {[1..n -> Value]: n \in 1..MaxLen}
Zeros(n) == [i \in 1..n |-> 0]
Slice(s, from, n) == SubSeq(s, from + 1, Min({from + n, Len(s)}))

Jobs ==
    [op: {"recover"}, exports: SUBSET {"Java_x", "JNI_OnLoad"}, registrars: 0..2]
    \cup [op: {"call"}, exports: {{}}, registrars: {0}]

Init ==
    /\ job \in Jobs
    /\ pc = "start"
    /\ queue = <<>> /\ route = "none" /\ sp = 0 /\ calls = 0 /\ rax = Default
    /\ hnext = Base /\ handles = <<>> /\ allocs = {} /\ statics = <<>>
    /\ fill = <<>> /\ methods = <<>>
    /\ answer = <<>>
    /\ of = [h \in {Default} |-> Default]
    /\ heap = [o \in {Default} |-> [type |-> "unknown", elements |-> <<>>]]
    /\ held = <<>> /\ apart = {Default} /\ late = {}
    /\ named = <<>> /\ regd = <<>>
    /\ running = "none" /\ came = {} /\ newest = Default

(***************************************************************************)
(* Handles and blocks                                                      *)
(***************************************************************************)
Aligned(n) == ((n + 15) \div 16) * 16

\* _new: sixteen bytes of address space, none of them ever read or written
New(kind, content, meta) ==
    /\ handles' = Put(handles, hnext, [kind |-> kind, content |-> content, meta |-> meta])
    /\ hnext' = hnext + 16

\* The Java side of a new handle: an object of its own
Born(type, elements) ==
    /\ of' = Put(of, hnext, hnext)
    /\ heap' = Put(heap, hnext, [type |-> type, elements |-> elements])

\* _malloc
Block(n) == [at |-> Aligned(hnext), size |-> n]
Take_ExactSize(n) ==
    /\ allocs' = allocs \cup {Block(n)}
    /\ hnext' = Aligned(hnext) + n

Take(n) ==
    /\ allocs' = allocs \cup {Block(n)}
    /\ hnext' = Aligned(hnext) + Max({16, n}) + 32

(***************************************************************************)
(* Running a function: run, emu_start                                      *)
(***************************************************************************)
\* The return address is written below the stack pointer outside any try.
Enter ==
    /\ pc = "next"
    /\ queue # <<>>
    /\ queue' = Tail(queue)
    /\ IF sp + RunFrame > StackSpace
       THEN pc' = "crash" /\ UNCHANGED <<sp, handles, hnext, of, heap, running>>
       ELSE /\ pc' = "guest"
            /\ sp' = sp + RunFrame
            /\ running' = Head(queue)
            /\ IF Head(queue) = "JNI_OnLoad" THEN UNCHANGED <<handles, hnext, of, heap>>
               ELSE New("class", <<>>, NoName) /\ Born("Object", <<>>)
    /\ UNCHANGED <<job, route, calls, rax, allocs, statics, fill, methods, answer,
                   held, apart, late, named, regd, came, newest>>

\* RET, a fault and the instruction count all end in the same way: run returns
\* whatever RAX holds.  Only a return gives the frame of the guest back.
Leave ==
    /\ pc = "guest"
    /\ pc' = "next"
    /\ \E r \in DOMAIN handles \cup {Default}: rax' = r
    /\ \E frame \in {-8, 24}: sp' = sp + frame
    /\ UNCHANGED <<job, queue, route, calls, mock, answer, java>>

(***************************************************************************)
(* The traps of _hook.  Each hands the guest what rv holds.                *)
(***************************************************************************)
Trap(group) ==
    /\ pc = "guest" /\ group \in Uses[job.op]
    /\ calls < MaxCalls[job.op] /\ calls' = calls + 1
Idle == UNCHANGED <<job, pc, queue, route, sp, rax, answer, running>>

Malloc ==
    /\ Trap("space") /\ Idle
    /\ \E n \in {0, 17}: Take(n)
    /\ UNCHANGED <<handles, statics, fill, methods, java>>

\* The block is cleared, which stops the emulation where it is not mapped.
Calloc ==
    /\ Trap("space")
    /\ Take(16)
    /\ pc' = IF Aligned(hnext) + 16 > RegionSize THEN "next" ELSE pc
    /\ UNCHANGED <<job, queue, route, sp, rax, answer, handles, statics, fill, methods, java>>

\* _cstr reads no name that is over 80 characters, not printable, or less than
\* 96 bytes away from unmapped memory.
FindClass ==
    /\ Trap("names") /\ Idle
    /\ \E c \in ClassName \cup {NoName}:
        /\ New("class", <<>>, c)
        /\ named' = Put(named, hnext, c)
        /\ Born("Object", <<>>)
    /\ UNCHANGED <<allocs, statics, fill, methods, held, apart, late, regd, came, newest>>

\* GetFieldID and GetStaticFieldID
GetFieldID ==
    /\ Trap("names") /\ Idle
    /\ \E f \in Field: New("fieldid", <<>>, FieldName[f])
    /\ Born("Object", <<>>)
    /\ UNCHANGED <<allocs, statics, fill, methods, held, apart, late, named, regd, came, newest>>

\* An array of none is one of one zero to the mock.
KindOf(type) == IF type = "Char" THEN "chars" ELSE "bytes"
NewArray ==
    /\ Trap("arrays") /\ Idle
    /\ \E type \in {"Byte", "Char", "Int"}, n \in 0..MaxLen:
        /\ New(KindOf(type), Zeros(Max({1, n})), NoName)
        /\ Born(type, Zeros(n))
    /\ UNCHANGED <<allocs, statics, fill, methods, held, apart, late, named, regd, came, newest>>

AllocObject ==
    /\ Trap("arrays") /\ Idle
    /\ New("obj", <<>>, NoName)
    /\ Born("Object", <<>>)
    /\ UNCHANGED <<allocs, statics, fill, methods, held, apart, late, named, regd, came, newest>>

\* The bytes _region_set keeps of the elements: as many as there are elements,
\* every second byte of chars, and of ints the first bytes of all of them.
ByteOf(v, k) == (v \div <<1, 256, 65536, 16777216>>[k + 1]) % 256
Kept(type, vs) ==
    [i \in DOMAIN vs |-> IF type = "Int" THEN ByteOf(vs[((i - 1) \div 4) + 1], (i - 1) % 4)
                         ELSE vs[i] % 256]

Written_IgnoresStart(content, from, vs) ==
    LET long == content \o Zeros(Max({0, from + Len(vs) - Len(content)}))
    IN  [i \in DOMAIN long |-> IF i \in DOMAIN vs THEN vs[i] ELSE long[i]]

\* An array the mock never made gets an entry of its own here, and grows as far
\* as it is written.
Written(content, from, vs) ==
    LET long == content \o Zeros(Max({0, from + Len(vs) - Len(content)}))
    IN  [i \in DOMAIN long |-> IF i \in from + 1..from + Len(vs) THEN vs[i - from] ELSE long[i]]

Stored(a, type, from, bytes) ==
    IF Known(a) THEN [handles EXCEPT ![a].content = Written(@, from, bytes)]
    ELSE Put(handles, a,
             [kind |-> KindOf(type), content |-> Written(<<>>, from, bytes), meta |-> NoName])

Refilled_KeepsPlace(a) == IF Contains(fill, a) THEN fill ELSE Append(fill, a)
Refilled(a) == Append(RemoveFirst(fill, a), a)

ContentOf(h) == IF Known(h) THEN handles[h].content ELSE <<>>

\* A change of the object behind a does not reach the other handles of it, nor
\* the fields it is in.
Object(a) == heap[of[a]]
Others(a) == {h \in DOMAIN of: h # a /\ of[h] = of[a]}
Holders(a) == {f \in DOMAIN held: held[f] = of[a]}

\* A legal call: type is the array's, and the part lies in it.
Fits(a, type, from, n) ==
    \/ Object(a).type = "unknown"
    \/ Object(a).type = type /\ from + n <= Len(Object(a).elements)

SetRegion ==
    /\ Trap("arrays") /\ Idle
    /\ \E a \in DOMAIN of, type \in {"Byte", "Char", "Int"}, from \in 0..1, vs \in Elements:
        /\ Fits(a, type, from, Len(vs))
        /\ type = "Byte" => \A i \in DOMAIN vs: vs[i] < 256
        /\ handles' = Stored(a, type, from, Kept(type, vs))
        /\ fill' = Refilled(a)
        /\ heap' = IF Object(a).type = "unknown" THEN heap
                   ELSE [heap EXCEPT ![of[a]].elements =
                            [i \in DOMAIN @ |-> IF i > from /\ i <= from + Len(vs)
                                                THEN vs[i - from] ELSE @[i]]]
        /\ apart' = apart \cup Others(a) \cup IF Kept(type, vs) = vs THEN {} ELSE {a}
        /\ late' = late \cup Holders(a)
        /\ newest' = a
    /\ UNCHANGED <<hnext, allocs, statics, methods, of, held, named, regd, came>>

\* _maybe_string_init: <init> of an object from a part of an array
StringInit ==
    /\ Trap("arrays") /\ Idle
    /\ \E o, a \in DOMAIN handles, type \in {"Byte", "Char"}, from \in 0..1, n \in 0..MaxLen:
        /\ handles[o].kind = "obj" /\ Fits(a, type, from, n)
        /\ handles' = [handles EXCEPT ![o].kind = "str",
                                      ![o].content = Slice(handles[a].content, from, n)]
        /\ heap' = [heap EXCEPT ![of[o]] =
                    [type |-> "String", elements |-> Slice(Object(a).elements, from, n)]]
        /\ apart' = apart \cup Others(o) \cup IF a \in apart THEN {o} ELSE {}
        /\ late' = late \cup Holders(o)
    /\ UNCHANGED <<hnext, allocs, statics, fill, methods, of, held, named, regd, came, newest>>

\* A static field holds the bytes its array had when it was stored, and is the
\* field of every class that has one of that name.
SetStatic ==
    /\ Trap("arrays") /\ Idle
    /\ \E f \in Field, a \in DOMAIN handles:
        LET alike == {g \in Field: FieldName[g] = FieldName[f]}
        IN  /\ statics' = Put(statics, FieldName[f], handles[a].content)
            /\ held' = Put(held, f, of[a])
            /\ late' = (late \cup alike) \ IF a \in apart THEN {} ELSE {f}
    /\ UNCHANGED <<hnext, handles, allocs, fill, methods, of, heap, apart, named, regd,
                   came, newest>>

\* Reading it makes a new array.  With one static known it answers for all.
StaticContent(name) ==
    IF name \in DOMAIN statics THEN statics[name]
    ELSE IF Cardinality(DOMAIN statics) = 1
         THEN statics[CHOOSE s \in DOMAIN statics: TRUE]
    ELSE <<>>

GetStatic ==
    /\ Trap("arrays") /\ Idle
    /\ \E f \in Field:
        /\ New("chars", StaticContent(FieldName[f]), NoName)
        /\ IF f \in DOMAIN held
           THEN of' = Put(of, hnext, held[f]) /\ UNCHANGED heap
           ELSE Born("unknown", <<>>)
        /\ apart' = apart \cup IF f \in DOMAIN held \ late THEN {} ELSE {hnext}
    /\ UNCHANGED <<allocs, statics, fill, methods, held, late, named, regd, came, newest>>

ClassOf_AnyKind(h) == IF Known(h) THEN handles[h].meta ELSE NoName

\* _capture_register: the class is the name of the handle, if it is one of a
\* class; at most MaxTable rows are read, and a row that cannot be read is the
\* end: table is what can be read of the guest's.
ClassOf(h) == IF Known(h) /\ handles[h].kind = "class" THEN handles[h].meta ELSE NoName
Rows(cls, table, n) == [i \in 1..n |-> [class |-> cls, fn |-> table[i]]]

RegisterNatives ==
    /\ Trap("names") /\ Idle
    /\ \E c \in DOMAIN handles \cup {Default}, n \in 0..MaxTable + 1:
        \E table \in [1..n -> Fn]:
            /\ methods' = methods \o Rows(ClassOf(c), table, Min({n, MaxTable}))
            /\ came' = came \cup IF Min({n, MaxTable}) = 0 THEN {} ELSE {running}
            /\ regd' = Append(regd, [class |-> IF c \in DOMAIN named THEN named[c] ELSE NoName,
                                    table |-> table])
    /\ UNCHANGED <<hnext, handles, allocs, statics, fill, objects, named, newest>>

Guest ==
    \/ Malloc \/ Calloc \/ FindClass \/ GetFieldID \/ NewArray \/ AllocObject \/ SetRegion
    \/ StringInit \/ SetStatic \/ GetStatic \/ RegisterNatives

(***************************************************************************)
(* The driver: discover and c_recover, c_call                              *)
(***************************************************************************)
Registrars == [i \in 1..job.registrars |-> "registrar"]

\* Route 1 lists the exports and emulates nothing; route 2 runs JNI_OnLoad.
Discover ==
    /\ pc = "start" /\ job.op = "recover"
    /\ IF "Java_x" \in job.exports
       THEN /\ methods' = <<[class |-> NoName, fn |-> "Java_x"]>>
            /\ came' = {"Java_* exports"}
            /\ route' = "Java_* exports"
            /\ pc' = "done"
            /\ UNCHANGED queue
       ELSE /\ IF "JNI_OnLoad" \in job.exports
               THEN queue' = <<"JNI_OnLoad">> /\ route' = "onload"
               ELSE queue' = Registrars /\ route' = "registrars"
            /\ pc' = "next"
            /\ UNCHANGED <<methods, came>>
    /\ UNCHANGED <<job, sp, calls, rax, hnext, handles, allocs, statics, fill, answer,
                   objects, named, regd, running, newest>>

OnLoadDone_RunsRegistrars ==
    /\ pc = "next" /\ queue = <<>> /\ route = "onload"
    /\ queue' = Registrars /\ route' = "registrars"
    /\ UNCHANGED <<job, pc, sp, calls, rax, mock, answer, java>>

\* After JNI_OnLoad the registrars run only if it registered nothing.
OnLoadDone ==
    /\ pc = "next" /\ queue = <<>> /\ route = "onload"
    /\ IF methods # <<>>
       THEN pc' = "done" /\ route' = "JNI_OnLoad emulation" /\ UNCHANGED queue
       ELSE queue' = Registrars /\ route' = "registrars" /\ UNCHANGED pc
    /\ UNCHANGED <<job, sp, calls, rax, mock, answer, java>>

RegistrarsDone ==
    /\ pc = "next" /\ queue = <<>> /\ route = "registrars"
    /\ pc' = "done"
    /\ route' = IF methods # <<>> THEN "registrar emulation" ELSE "none"
    /\ UNCHANGED <<job, queue, sp, calls, rax, mock, answer, java>>

Call ==
    /\ pc = "start" /\ job.op = "call"
    /\ queue' = <<"function">> /\ pc' = "next"
    /\ UNCHANGED <<job, route, sp, calls, rax, mock, answer, java>>

\* bytes.rstrip of the zeros at the end
Stripped(s) ==
    SubSeq(s, 1, Min({k \in 0..Len(s): \A i \in k + 1..Len(s): s[i] = 0}))

\* c_call: the returned handle, or the array written last when it is empty
Result(r) ==
    IF (~Known(r) \/ handles[r].content = <<>>) /\ fill # <<>>
    THEN Stripped(handles[Last(fill)].content)
    ELSE Stripped(ContentOf(r))

CallDone ==
    /\ pc = "next" /\ queue = <<>> /\ job.op = "call"
    /\ pc' = "done"
    /\ answer' = Result(rax)
    /\ UNCHANGED <<job, queue, route, sp, calls, rax, mock, java>>

Next == Guest \/ Enter \/ Leave \/ Discover \/ OnLoadDone \/ RegistrarsDone \/ Call \/ CallDone

Spec == Init /\ [][Next]_vars

(***************************************************************************)
(* Properties                                                              *)
(***************************************************************************)
TypeOK ==
    /\ job \in Jobs
    /\ pc \in {"start", "guest", "next", "crash", "done"}
    /\ route \in {"none", "onload", "registrars", "Java_* exports",
                 "JNI_OnLoad emulation", "registrar emulation"}
    /\ calls \in 0..MaxCalls[job.op]
    /\ hnext >= Base
    /\ DOMAIN handles \subseteq Base..hnext \cup {Default}
    /\ \A h \in DOMAIN handles:
        handles[h].kind \in {"class", "fieldid", "bytes", "chars", "obj", "str"}
    /\ DOMAIN statics \subseteq {FieldName[f]: f \in Field}
    /\ rax \in DOMAIN handles \cup {Default}
    /\ fill \in Seq(DOMAIN handles)
    /\ DOMAIN of = DOMAIN handles \cup {Default} /\ \A h \in DOMAIN of: of[h] \in DOMAIN heap
    /\ DOMAIN held \subseteq Field /\ \A f \in DOMAIN held: held[f] \in DOMAIN heap

\* No handle lies in a block malloc returned, and no two of either overlap:
\* both come from one bump pointer, which only blocks align.
Regions ==
    {[at |-> h, size |-> 16]: h \in DOMAIN handles \ {Default}} \cup allocs
BlocksDisjoint ==
    \A r, s \in Regions: r # s => r.at + Max({1, r.size}) <= s.at \/ s.at + Max({1, s.size}) <= r.at

\* What the mock holds of a handle is what a Java VM holds of its object, but
\* for an empty array, which is one of one zero.
Holds(h) ==
    \/ handles[h].content = Object(h).elements
    \/ handles[h].content = <<0>> /\ Object(h).elements = <<>>

\* Behind every handle is what a Java VM would hold, except in four cases: the
\* object is one the mock cannot know (an unmodelled call, a field the guest
\* never set), it was written through another handle of it or after it went into
\* the field the handle was read from, the field is another class's of the same
\* name, or its elements are not bytes.
ArraysHoldWrites == \A h \in DOMAIN handles \ apart: Holds(h)

\* The methods recovered are the rows of the tables the guest registered, in
\* order, under the name its class was looked up by, each cut at the 64th row.
Cut(r) == Rows(r.class, r.table, Min({Len(r.table), MaxTable}))
CapturedInOrder ==
    route # "Java_* exports" => methods = FlattenSeq([i \in DOMAIN regd |-> Cut(regd[i])])

\* The source the output names is the one all its methods came from, and there
\* is one whenever there are methods.
Source ==
    CASE route = "Java_* exports" -> {"Java_* exports"}
      [] route = "JNI_OnLoad emulation" -> {"JNI_OnLoad"}
      [] route = "registrar emulation" -> {"registrar"}
      [] OTHER -> {}
RouteTold ==
    pc = "done" /\ job.op = "recover" => came = Source /\ (Source = {} <=> methods = <<>>)

\* fill_order names each array once, and the oracle answers with what the
\* function returned or, where that is nothing, with the array written last,
\* also when it was written before others too.  Where the mock is right of that
\* array, the answer is what a Java VM holds, without the zeros at its end.
Answers(h) == h \in apart \/ answer = Stripped(Object(h).elements)
AnswerIsNewest ==
    /\ IsInjective(fill)
    /\ pc = "done" /\ job.op = "call" =>
        /\ Known(rax) /\ handles[rax].content # <<>> => Answers(rax)
        /\ ~Known(rax) \/ handles[rax].content = <<>> =>
            IF fill = <<>> THEN answer = <<>> ELSE Answers(newest)

\* What the mock does not promise, and a run of the guest shows: every handle
\* holds what its object does, and every row of a table is recovered.
ArraysAreTheVMs == \A h \in DOMAIN handles \ {Default}: Holds(h)
AllRowsCaptured ==
    route # "Java_* exports" => methods = FlattenSeq([i \in DOMAIN regd |->
        Rows(regd[i].class, regd[i].table, Len(regd[i].table))])

=============================================================================
