----------------------------- MODULE JniTables -----------------------------
(***************************************************************************)
(* binary_introspect/jni_tables.py: the calls of RegisterNatives in the    *)
(* machine code of the library and the method table of each.               *)
(*                                                                         *)
(* The library is the environment: it registers the classes of layout one  *)
(* after the other, each in one of the forms compilers and obfuscators     *)
(* give the call.  The code is a sequence of instructions, an address of   *)
(* the code an index of it, and of an instruction only what the Abi tells  *)
(* the harvest is kept: M is the register of the third argument, T and S   *)
(* are others.  An address below TableBase is a function, one from there   *)
(* on a row of the image's tables.                                         *)
(***************************************************************************)
EXTENDS ManifestMerge, SequencesExt

CONSTANTS
    Window,          \* instructions _harvest_call looks back (0x600 bytes)
    DispatchWindow,  \* and _harvest_dispatch (0x4000 bytes)
    Reach,           \* instructions between a slot load and its branch (0x20 bytes)
    TableBase,       \* where the tables begin
    Callback,        \* a function that is stored and is no native method
    Strategy         \* harvest strategies of the profiles

ASSUME TablesAssumption ==
    /\ Window \in Nat /\ DispatchWindow \in Nat /\ Reach \in Nat \ {0} /\ TableBase \in Nat
    /\ Addr \subseteq 1..TableBase - 1 /\ Callback \in Addr

VARIABLES
    layout,    \* history: the registrations, in the order of their code
    strategy,  \* harvest_strategy of the profile
    code,      \* the executable section
    image,     \* rows of the tables in the image
    skew,      \* history: instruction |-> how many, from it on, a disassembly misses
               \*   that starts in the middle of it (none where all are of one size)
    sites,     \* call sites the second pass has still to look at
    tables     \* the tables of the sites done so far

tableVars == <<layout, strategy, code, image, skew, sites, tables>>

(***************************************************************************)
(* The library                                                             *)
(***************************************************************************)
Ins(op, reg, arg) == [op |-> op, reg |-> reg, arg |-> arg]
Nops(n) == [i \in 1..n |-> Ins("nop", "-", 0)]
Flat(seqs) == FlattenSeq(seqs)

RowsOf(j, t, c) == [i \in DOMAIN j[c] |-> [method |-> j[c][i], fn |-> t[c][j[c][i]]]]

\* The rows of a table in the image; those of an encrypted one do not decode.
Segment(l, j, t, k) ==
    CASE l[k].form = "stack" -> <<>>
      [] l[k].form = "encrypted" -> [i \in DOMAIN j[l[k].class] |-> [method |-> NoMethod, fn |-> Callback]]
      [] OTHER -> RowsOf(j, t, l[k].class)
ImageOf(l, j, t) == Flat([k \in DOMAIN l |-> Segment(l, j, t, k)])
TableAt(l, j, t, k) == TableBase + Len(ImageOf(SubSeq(l, 1, k - 1), j, t))

Store(fn) == <<Ins("lea", "T", fn), Ins("store", "T", 0)>>
Filled(l, j, t, k) ==
    CASE l[k].form = "stack" ->
            Flat([i \in DOMAIN j[l[k].class] |-> Store(t[l[k].class][j[l[k].class][i]])])
      [] l[k].form = "moved" -> <<Ins("lea", "T", TableAt(l, j, t, k)), Ins("mov", "M", "T")>>
      [] OTHER -> <<Ins("lea", "M", TableAt(l, j, t, k))>>

Calling(how) ==
    CASE how = "call"   -> <<Ins("call", "-", 0)>>
      [] how = "split"  -> <<Ins("slot", "T", 0), Ins("branch", "T", 0)>>
      [] how = "veneer" -> <<Ins("slot", "T", 0), Ins("mov", "S", "T"), Ins("branch", "S", 0)>>
      [] how = "late"   -> <<Ins("slot", "T", 0)>> \o Nops(Reach + 1) \o <<Ins("branch", "T", 0)>>
      [] how = "shared" -> <<>>

GapOf(r) ==
    CASE r.gap = "near" -> <<>>
      [] r.gap = "far"  -> Nops(Window)
      [] r.gap = "data" -> <<Ins("data", "-", 0)>>
Noise(r, when) == IF r.noise = when THEN Store(Callback) ELSE <<>>
Count(r, j, when) == IF r.count = when THEN <<Ins("count", "-", Len(j[r.class]))>> ELSE <<>>
BodyOf(l, j, t, k) ==
    (Noise(l[k], "before") \o Count(l[k], j, "before")) \o Filled(l, j, t, k)
        \o ((Noise(l[k], "after") \o Count(l[k], j, "after")) \o Calling(l[k].call))
RegistrationOf(l, j, t, k) == GapOf(l[k]) \o BodyOf(l, j, t, k)
CodeOf(l, j, t) == Flat([k \in DOMAIN l |-> RegistrationOf(l, j, t, k)])

(***************************************************************************)
(* Reading code and image                                                  *)
(***************************************************************************)
Put(f, x, v) == [y \in DOMAIN f \cup {x} |-> IF y = x THEN v ELSE f[y]]
Without(f, x) == [y \in DOMAIN f \ {x} |-> f[y]]
IsFn(a) == a < TableBase

\* The disassembler stops at the first bytes that are no instruction.
Walk(Do(_, _), start, from, to) ==
    LET bad == {i \in from..to: code[i].op = "data"}
        end == IF bad = {} THEN to ELSE Min(bad) - 1
        h[i \in from - 1..end] == IF i < from THEN start ELSE Do(h[i - 1], i)
    IN  h[end]

\* The window is cut out of the bytes, whatever instruction they belong to.
Back(site, n) == IF site > n THEN Min({site, (site - n) + skew[site - n]}) ELSE 1

\* _decode_static_method_table: all of the rows, or none
Decoded(at, n) ==
    LET row(i) == at - TableBase + i
    IN  IF n > 0 /\ \A i \in 1..n: row(i) \in DOMAIN image /\ image[row(i)].method # NoMethod
        THEN [i \in 1..n |-> image[row(i)]] ELSE <<>>

Distinct(s) ==
    Flat([k \in DOMAIN s |-> IF \E i \in 1..k - 1: s[i] = s[k] THEN <<>> ELSE <<s[k]>>])
LastN_First(s, n) == SubSeq(s, 1, Min({n, Len(s)}))

LastN(s, n) == IF n < Len(s) THEN SubSeq(s, Len(s) - n + 1, Len(s)) ELSE s

(***************************************************************************)
(* Pass 1: _find_register_natives_calls                                    *)
(***************************************************************************)
ScanStep(s, i) ==
    LET ins == code[i]
    IN  CASE ins.op = "call" -> [s EXCEPT !.sites = Append(@, i)]
          [] ins.op = "slot" -> [s EXCEPT !.slots = Put(@, ins.reg, i)]
          [] ins.op = "mov" /\ ins.arg \in DOMAIN s.slots ->
                [s EXCEPT !.slots = Put(@, ins.reg, s.slots[ins.arg])]
          [] ins.op = "mov" /\ ins.arg \notin DOMAIN s.slots -> [s EXCEPT !.slots = Without(@, ins.reg)]
          [] ins.op = "branch" /\ ins.reg \in DOMAIN s.slots /\ i - s.slots[ins.reg] - 1 <= Reach ->
                [s EXCEPT !.sites = Append(@, i)]
          [] OTHER -> s

CallSites ==
    Walk(ScanStep, [slots |-> <<>>, sites |-> <<>>], 1, Len(code)).sites

(***************************************************************************)
(* Pass 2: _harvest_call, _harvest_dispatch                                *)
(***************************************************************************)
HarvestStep(h, i) ==
    LET ins == code[i]
    IN  CASE ins.op = "lea" ->
                [h EXCEPT !.last = Put(@, ins.reg, ins.arg),
                          !.near = IF IsFn(ins.arg) THEN @ ELSE <<ins.arg>> \o @,
                          !.arg3 = IF ins.reg = "M" THEN <<ins.arg>> ELSE @]
          [] ins.op = "mov" /\ ins.arg \in DOMAIN h.last ->
                [h EXCEPT !.last = Put(@, ins.reg, h.last[ins.arg]),
                          !.arg3 = IF ins.reg = "M" THEN <<h.last[ins.arg]>> ELSE @]
          [] ins.op = "store" /\ ins.reg \in DOMAIN h.last /\ IsFn(h.last[ins.reg]) ->
                [h EXCEPT !.fns = Append(@, h.last[ins.reg])]
          [] ins.op = "count" -> [h EXCEPT !.n = ins.arg]
          [] OTHER -> h

Looked(site) ==
    Walk(HarvestStep, [last |-> <<>>, near |-> <<>>, arg3 |-> <<>>, fns |-> <<>>, n |-> 0],
         Back(site, Window), site - 1)

\* The table is the one in the register of the third argument, or else the
\* address seen last before the call that can be read as one.
Harvest(site) ==
    LET h == Looked(site)
        fns == Distinct(h.fns)
        tried == h.arg3 \o h.near
        readable == {i \in DOMAIN tried: Decoded(tried[i], h.n) # <<>>}
        rows == IF readable = {} THEN <<>> ELSE Decoded(tried[Min(readable)], h.n)
    IN  [addrs |-> IF rows # <<>> THEN [i \in DOMAIN rows |-> rows[i].fn]
                   ELSE IF h.n > 0 THEN LastN(fns, h.n) ELSE fns,
         methods |-> [i \in DOMAIN rows |-> rows[i].method],
         n |-> h.n, arg3 |-> h.arg3]

BranchStep_KeepsOpen(h, i) ==
    LET ins == code[i]
    IN  CASE ins.op = "lea" /\ IsFn(ins.arg) -> [h EXCEPT !.last = Put(@, ins.reg, ins.arg)]
          [] ins.op = "store" /\ ins.reg \in DOMAIN h.last ->
                [h EXCEPT !.last = Without(@, ins.reg), !.fns = Append(@, h.last[ins.reg])]
          [] ins.op = "count" /\ Len(Distinct(h.fns)) >= ins.arg ->
                [h EXCEPT !.done = Append(@, Distinct(h.fns))]
          [] OTHER -> h

\* Every count closes the table of a branch.
BranchStep(h, i) ==
    LET ins == code[i]
    IN  CASE ins.op = "lea" /\ IsFn(ins.arg) -> [h EXCEPT !.last = Put(@, ins.reg, ins.arg)]
          [] ins.op = "store" /\ ins.reg \in DOMAIN h.last ->
                [h EXCEPT !.last = Without(@, ins.reg), !.fns = Append(@, h.last[ins.reg])]
          [] ins.op = "count" ->
                [last |-> <<>>, fns |-> <<>>,
                 done |-> IF ins.arg > 0 /\ Len(Distinct(h.fns)) >= ins.arg
                          THEN Append(h.done, LastN(Distinct(h.fns), ins.arg)) ELSE h.done]
          [] OTHER -> h

Branches(site) ==
    Walk(BranchStep, [last |-> <<>>, fns |-> <<>>, done |-> <<>>],
         Back(site, DispatchWindow), site - 1).done

(***************************************************************************)
(* find_jni_method_tables                                                  *)
(***************************************************************************)
Found(source, methods, addrs, n) ==
    [source |-> source, class |-> NoClass, methods |-> methods, addrs |-> addrs,
     nMethods |-> n, short |-> FALSE]

TablesAt(site) ==
    LET h == Harvest(site)
        branches == Branches(site)
        split == [i \in DOMAIN branches |-> Found("stack", <<>>, branches[i], Len(branches[i]))]
    IN  IF \/ strategy = "shared_dispatch" /\ branches # <<>>
           \/ strategy = "auto" /\ h.methods = <<>> /\ Len(branches) > 1
        THEN split
        ELSE IF h.addrs # <<>>
        THEN <<Found(IF h.methods = <<>> THEN "stack" ELSE "static", h.methods, h.addrs, h.n)>>
        ELSE IF h.arg3 # <<>> /\ h.n > 0 THEN <<Found("unreadable", <<>>, <<>>, h.n)>>
        ELSE <<>>

TablesInit ==
    /\ strategy \in Strategy
    /\ code = CodeOf(layout, jar, truth)
    /\ image = ImageOf(layout, jar, truth)
    /\ sites = <<>> /\ tables = <<>>
    /\ pass = "scan"

Scan ==
    /\ pass = "scan"
    /\ pass' = "harvest"
    /\ sites' = CallSites
    /\ UNCHANGED <<layout, strategy, code, image, skew, tables>>

HarvestSite ==
    /\ pass = "harvest" /\ sites # <<>>
    /\ tables' = tables \o TablesAt(Head(sites))
    /\ sites' = Tail(sites)
    /\ UNCHANGED <<layout, strategy, code, image, skew, pass>>
=============================================================================
