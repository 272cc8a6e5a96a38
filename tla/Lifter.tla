------------------------------- MODULE Lifter -------------------------------
(***************************************************************************)
(* ast_matcher/lifter/driver.py: one function of decompiled C becomes the  *)
(* instructions of one Java method.                                        *)
(*                                                                         *)
(* The body is the sequence of its statements in the order of the text, an *)
(* if followed by what it encloses; an action is one statement.            *)
(* The lifter keeps what it believes of the C variables: the class, the    *)
(* ID or the string a variable holds (syms), the local variable where it   *)
(* has saved a value (var_slots), and which variables are the answer of    *)
(* ExceptionCheck.  A member that no variable tells is taken from the      *)
(* error texts of the body ("Cannot invoke ...", "Cannot read field ..."), *)
(* in the order of the text.                                               *)
(*                                                                         *)
(* Beside it runs the C program itself, in the order of its text: each     *)
(* assignment makes a new value, numbered by count, and each instruction   *)
(* carries what the C program uses at that place.  These history variables *)
(* serve the properties only.                                              *)
(***************************************************************************)
EXTENDS Integers, Sequences, FiniteSets, SequencesExt, Functions

CONSTANTS
    Var,         \* variables of the C function, its parameters among them
    This,        \* param_2: the receiver, or the class of a static method
    Params,      \* param_3 and on: the Java arguments in order
    Wide,        \* those that are long or double
    Member,      \* fields and methods: [class, name]
    Own,         \* method_owner
    Label,
    Constructor, \* <init>()V, put where an ID does not tell its name
    Returns,     \* the method returns a value
    FirstSlot,   \* next_synthetic_slot at the start: 64
    Bodies,      \* the bodies to lift
    NoVar, NoMember, NoLabel

ASSUME LifterAssumption ==
    /\ This \in Var /\ Params \in Seq(Var \ {This}) /\ NoVar \notin Var
    /\ \A i, k \in DOMAIN Params: Params[i] = Params[k] => i = k
    /\ \A m \in Member: m = [class |-> m.class, name |-> m.name]
    /\ NoMember \notin Member /\ NoLabel \notin Label
    /\ FirstSlot \in Nat /\ FirstSlot > 2 * Len(Params) /\ Returns \in BOOLEAN

VARIABLES
    body,        \* the function
    static,      \* it is a static method
    listed,      \* the manifest lists the method
    todo,        \* what is left of it
    syms,        \* syms
    slots,       \* var_slots
    nextSlot,    \* next_synthetic_slot
    checkVars,   \* exception_check_vars
    invokeAt,    \* invoke_hint_idx
    fieldAt,     \* field_hint_idx
    code,        \* instructions
    phase,       \* "walk", "clean", "close", "done"
    count,       \* history: the values made so far
    holds,       \* history: variable |-> its value
    saved,       \* history: local variable |-> the value saved there
    means,       \* history: the value of a class or an ID |-> what it stands for
    checks,      \* history: the values that ExceptionCheck gave
    guards,      \* history: the values tested by what was taken for a guard
    assigned,    \* history: the variables that have a value
    unsteady,    \* history: the variables that may have had another value, or
                 \*   have got theirs from such a variable
    fits         \* history: kind of hint |-> so far each went with its access

beliefs == <<syms, slots, nextSlot, checkVars, invokeAt, fieldAt>>
truth == <<count, holds, saved, means, checks, assigned, unsteady>>
vars == <<body, static, listed, todo, syms, slots, nextSlot, checkVars, invokeAt, fieldAt, code, phase,
          count, holds, saved, means, checks, guards, assigned, unsteady, fits>>

NoSlot == -1
Sym(kind, m) == [kind |-> kind, member |-> m, slot |-> NoSlot]
SlotRef(n) == [kind |-> "slot", member |-> NoMember, slot |-> n]
NoSym == Sym("none", NoMember)

(***************************************************************************)
(* Statements.  args are the variables passed on.  An If is followed by    *)
(* its two parts: then and else count their statements, those of enclosed  *)
(* ifs among them.  known: the text tells the name (a literal, or an ID    *)
(* that is in the cacheTable).  hint: an error text that names the member  *)
(* comes before it.                                                        *)
(***************************************************************************)
Blank == [op |-> "Opaque", lhs |-> NoVar, recv |-> NoVar, id |-> NoVar, args |-> <<>>,
          member |-> NoMember, known |-> FALSE, hint |-> FALSE,
          cond |-> "plain", then |-> 0, else |-> 0, label |-> NoLabel]

Invokes == {"Call"}
Reads == {"GetField", "GetStatic"}
Writes == {"SetField", "SetStatic"}
Accesses == Invokes \cup Reads \cup Writes
Makes == {"AllocObject", "NewObject", "NewArray", "NewObjectArray"}
Ops == Accesses \cup Makes \cup {"FindClass", "GetID", "NewString", "NewRef", "Throw",
    "ExceptionCheck", "Opaque", "Copy", "If", "Label", "Goto", "Return"}
KindOf(op) == IF op \in Invokes THEN "invoke" ELSE IF op \in Reads THEN "read" ELSE "assign"

\* v = w copies a variable of the function, and only an if encloses others.
Statement ==
    {s \in [op: Ops, lhs: Var \cup {NoVar}, recv: Var \cup {NoVar}, id: Var \cup {NoVar},
            args: Seq(Var \cup {NoVar}), member: Member \cup {NoMember},
            known: BOOLEAN, hint: BOOLEAN, cond: {"plain", "guard", "cache", "raised", "clear"},
            then: Nat, else: Nat, label: Label \cup {NoLabel}]:
        /\ s.op \in {"Copy", "NewRef"} => s.recv \in Var
        /\ s.op # "If" => s.then = 0 /\ s.else = 0
        /\ s.op \in Accesses \cup {"FindClass", "GetID"} => s.member \in Member}

\* Ifs enclose one another to any depth: one that begins in a part of another
\* ends in it.  A label is in the text once.
End(text, i) == i + text[i].then + text[i].else
Nested(text) ==
    \A i \in DOMAIN text:
        /\ End(text, i) <= Len(text)
        /\ \A k \in i + 1 .. i + text[i].then: End(text, k) <= i + text[i].then
        /\ \A k \in i + text[i].then + 1 .. End(text, i): End(text, k) <= End(text, i)
LabelsOnce(text) ==
    \A i, k \in DOMAIN text:
        text[i].op = "Label" /\ text[k].op = "Label" /\ text[i].label = text[k].label => i = k

ASSUME BodiesAssumption == Bodies \subseteq {b \in Seq(Statement): Nested(b) /\ LabelsOnce(b)}

\* InvokeHintParser.parse and FieldHintParser.parse: the whole text, also the
\* parts of it that will be skipped
IsInvokeHint(s) == s.hint /\ s.op \in Invokes
IsFieldHint(s) == s.hint /\ s.op \in Reads \cup Writes
HintsOf(text) ==
    [invoke |-> FlattenSeq([i \in DOMAIN text |-> IF IsInvokeHint(text[i]) THEN <<text[i]>> ELSE <<>>]),
     field |-> FlattenSeq([i \in DOMAIN text |-> IF IsFieldHint(text[i]) THEN <<text[i]>> ELSE <<>>])]
invokeHints == HintsOf(body).invoke
fieldHints == HintsOf(body).field

(***************************************************************************)
(* Instructions                                                            *)
(***************************************************************************)
I(op) == [op |-> op, member |-> NoMember, want |-> NoMember, sure |-> FALSE,
          got |-> 0, held |-> 0, label |-> NoLabel]
Jump(op, l) == [I(op) EXCEPT !.label = l]

\* _resolve_arg of a variable: a saved value hides what is known of it.
Resolve(v) ==
    IF v = NoVar THEN NoSym ELSE IF slots[v] # NoSlot THEN SlotRef(slots[v]) ELSE syms[v]

\* _emit_push of a variable: a saved value, a constant or a placeholder
Push(v) ==
    IF Resolve(v).kind = "slot"
    THEN [I("ALOAD") EXCEPT !.got = saved[Resolve(v).slot], !.held = holds[v],
                            !.sure = v \notin unsteady]
    ELSE IF Resolve(v).kind \in {"class", "string"} THEN I("LDC") ELSE I("ACONST_NULL")
Pushes(vs) == [i \in DOMAIN vs |-> Push(vs[i])]

(***************************************************************************)
(* The start                                                               *)
(***************************************************************************)
ParamSlots_Narrow(isStatic) ==
    [v \in Var |-> IF v = This THEN (IF isStatic THEN NoSlot ELSE 0)
                   ELSE IF \E n \in DOMAIN Params: Params[n] = v
                   THEN (CHOOSE n \in DOMAIN Params: Params[n] = v) - IF isStatic THEN 1 ELSE 0
                   ELSE NoSlot]

\* _jni_param_slot_map: a long or double takes two local variables.
ParamSlots(isStatic) ==
    LET at[n \in 0 .. Len(Params)] ==
            IF n = 0 THEN (IF isStatic THEN -1 ELSE 0)
            ELSE IF n > 1 /\ Params[n - 1] \in Wide THEN at[n - 1] + 2 ELSE at[n - 1] + 1
    IN  [v \in Var |-> IF v = This THEN at[0]
                       ELSE IF \E n \in DOMAIN Params: Params[n] = v
                       THEN at[CHOOSE n \in DOMAIN Params: Params[n] = v] ELSE NoSlot]

\* The Java VM puts the receiver and the arguments one after the other.
JvmSlot(n) ==
    (IF static THEN 0 ELSE 1) + (n - 1) + Cardinality({k \in 1 .. n - 1: Params[k] \in Wide})
JvmFrame == [s \in Nat |->
    IF ~static /\ s = 0 THEN 1
    ELSE IF \E n \in DOMAIN Params: JvmSlot(n) = s
    THEN 1 + CHOOSE n \in DOMAIN Params: JvmSlot(n) = s ELSE 0]
ParamValue(v) ==
    IF v = This THEN 1
    ELSE IF \E n \in DOMAIN Params: Params[n] = v
    THEN 1 + CHOOSE n \in DOMAIN Params: Params[n] = v ELSE 0

\* lift_ghidra_dump takes a method that the manifest does not list for an
\* instance method.
Init ==
    /\ body \in Bodies /\ static \in BOOLEAN /\ listed \in BOOLEAN
    /\ todo = body
    /\ syms = [v \in Var |-> NoSym]
    /\ slots = ParamSlots(static /\ listed)
    /\ nextSlot = FirstSlot
    /\ checkVars = {} /\ invokeAt = 1 /\ fieldAt = 1
    /\ code = <<>> /\ phase = "walk"
    /\ count = 1 + Len(Params)
    /\ holds = [v \in Var |-> ParamValue(v)]
    /\ saved = [s \in 0 .. FirstSlot - 1 |-> JvmFrame[s]]
    /\ means = <<>> /\ checks = {} /\ guards = {}
    /\ assigned = {This} \cup Range(Params)
    /\ unsteady = IF static /\ ~listed THEN assigned ELSE {}
    /\ fits = [k \in {"invoke", "read", "assign"} |-> TRUE]

(***************************************************************************)
(* What the C program does at a statement                                  *)
(***************************************************************************)
S == Head(todo)

\* A class or an ID is a value that stands for a member: the one it was found
\* as, or that of the class it was looked up in.
Stands(v) == IF v # NoVar /\ holds[v] \in DOMAIN means THEN means[holds[v]] ELSE NoMember
Means ==
    means' = IF S.lhs = NoVar \/ S.op \notin {"FindClass", "GetID"} THEN means
             ELSE [n \in DOMAIN means \cup {count + 1} |->
                    IF n # count + 1 THEN means[n]
                    ELSE IF S.op = "GetID" /\ Stands(S.recv) # NoMember
                    THEN [class |-> Stands(S.recv).class, name |-> S.member.name]
                    ELSE S.member]

Walk(op) == phase = "walk" /\ todo # <<>> /\ S.op = op
Done == todo' = Tail(todo) /\ Means /\ UNCHANGED <<body, static, listed, phase, guards>>
Emit(instrs) == code' = code \o instrs

\* The variable gets a new value; from are the variables that value is told by.
Assigns(v, from) ==
    IF v = NoVar THEN UNCHANGED <<count, holds, assigned, unsteady>>
    ELSE /\ count' = count + 1
         /\ holds' = [holds EXCEPT ![v] = count + 1]
         /\ assigned' = assigned \cup {v}
         /\ unsteady' = unsteady \cup IF v \in assigned \/ from \cap unsteady # {} THEN {v} ELSE {}
\* What is assigned in text that is passed over, or may not run
Unsettles(text) ==
    LET vs == {text[i].lhs: i \in DOMAIN text} \ {NoVar}
    IN  /\ unsteady' = unsteady \cup vs
        /\ UNCHANGED <<count, holds, saved, checks, assigned>>

\* v = w: the variable gets the value of the other.
Copies ==
    /\ holds' = [holds EXCEPT ![S.lhs] = holds[S.recv]]
    /\ assigned' = assigned \cup {S.lhs}
    /\ unsteady' = unsteady \cup
            IF S.lhs \in assigned \/ S.recv \in unsteady THEN {S.lhs} ELSE {}
    /\ UNCHANGED <<count, checks>>

Believe(v, s) == syms' = IF v = NoVar THEN syms ELSE [syms EXCEPT ![v] = s]
KeepHints == UNCHANGED <<invokeAt, fieldAt, fits>>
KeepSlots == UNCHANGED <<slots, nextSlot, saved>>

(***************************************************************************)
(* _handle_call: calls that make a symbol or an object                     *)
(***************************************************************************)
\* The C program uses the member that its ID, assigned once, stands for.
ByID(s) == s.id \notin unsteady /\ Stands(s.id) \in {NoMember, s.member}
IdOf(s) == IF Resolve(s.id).kind = "id" THEN Resolve(s.id).member ELSE NoMember

FindClass ==
    /\ Walk("FindClass") /\ Done
    /\ IF S.known THEN Believe(S.lhs, Sym("class", S.member)) ELSE UNCHANGED syms
    /\ Assigns(S.lhs, {})
    /\ KeepHints /\ KeepSlots /\ UNCHANGED <<checkVars, code, checks>>

\* The member an ID is for: its owner is the class that recv is believed to be.
\* Where the name is not told, only the owner is kept.
GetID ==
    /\ Walk("GetID") /\ Done
    /\ Believe(S.lhs,
            IF Resolve(S.recv).kind # "class" THEN Sym("id", NoMember)
            ELSE IF ~S.known THEN Sym("owner", Resolve(S.recv).member)
            ELSE Sym("id", [class |-> Resolve(S.recv).member.class, name |-> S.member.name]))
    /\ Assigns(S.lhs, {S.recv})
    /\ KeepHints /\ KeepSlots /\ UNCHANGED <<checkVars, code, checks>>

NewString ==
    /\ Walk("NewString") /\ Done
    /\ IF S.known THEN Believe(S.lhs, Sym("string", NoMember)) /\ Emit(<<I("LDC")>>)
                  ELSE UNCHANGED <<syms, code>>
    /\ Assigns(S.lhs, {})
    /\ KeepHints /\ KeepSlots /\ UNCHANGED <<checkVars, checks>>

\* AllocObject, NewObject, NewIntArray and the like, NewObjectArray: of the object
\* only the type is known.  args of an array is its length.
InitOf(s) ==
    CASE IdOf(s) # NoMember -> <<[I("INVOKESPECIAL") EXCEPT !.member = IdOf(s), !.want = s.member,
                                                            !.sure = ByID(s)]>>
      [] Resolve(s.id).kind = "owner" ->
            <<[I("INVOKESPECIAL") EXCEPT
                !.member = [class |-> Resolve(s.id).member.class, name |-> Constructor],
                !.want = s.member]>>
      [] OTHER -> <<>>

Made(s) ==
    CASE s.op = "NewArray" -> Pushes(s.args) \o <<I("NEWARRAY")>>
      [] s.op = "NewObjectArray" ->
            Pushes(s.args) \o IF Resolve(s.recv).kind = "class" THEN <<I("ANEWARRAY")>> ELSE <<>>
      [] Resolve(s.recv).kind # "class" -> <<>>
      [] s.op = "AllocObject" -> <<I("NEW")>>
      [] OTHER -> <<I("NEW"), I("DUP")>> \o Pushes(s.args) \o InitOf(s)

NewObject ==
    /\ phase = "walk" /\ todo # <<>> /\ S.op \in Makes /\ Done
    /\ Emit(Made(S))
    /\ IF S.op = "NewArray" \/ Resolve(S.recv).kind = "class"
       THEN Believe(S.lhs, Sym("object", NoMember)) ELSE UNCHANGED syms
    /\ Assigns(S.lhs, {})
    /\ KeepHints /\ KeepSlots /\ UNCHANGED <<checkVars, checks>>

\* NewGlobalRef and the like: another name for what is known.
NewRef ==
    /\ Walk("NewRef") /\ Done
    /\ IF Resolve(S.recv) # NoSym THEN Believe(S.lhs, Resolve(S.recv)) ELSE UNCHANGED syms
    /\ Copies
    /\ KeepHints /\ KeepSlots /\ UNCHANGED <<checkVars, code>>

(***************************************************************************)
(* _handle_call: fields and methods                                        *)
(***************************************************************************)
NextField_AnyKind(kind) == fieldAt

\* The next error text about a read or an assignment; what comes before it is
\* passed over for good.
NextField(kind) ==
    LET ahead == {i \in fieldAt .. Len(fieldHints): KindOf(fieldHints[i].op) = kind}
    IN  IF ahead = {} THEN Len(fieldHints) + 1 ELSE Min(ahead)

HintIn(hints, n) == IF n <= Len(hints) THEN hints[n].member ELSE NoMember

\* The cacheTable is asked for instance fields that are read and for methods.
Cached(s) == s.known /\ s.op \in {"GetField", "Call"}
Told(s) == IdOf(s) # NoMember \/ Cached(s)

\* Field texts do not tell the class: it is taken to be the class of the method.
FieldHint(s) ==
    IF HintIn(fieldHints, NextField(KindOf(s.op))) = NoMember THEN NoMember
    ELSE [class |-> Own, name |-> HintIn(fieldHints, NextField(KindOf(s.op))).name]
InvokeHint == HintIn(invokeHints, invokeAt)

Found(s) ==
    IF IdOf(s) # NoMember THEN IdOf(s)
    ELSE IF Cached(s) THEN s.member
    ELSE IF s.op \in Invokes THEN InvokeHint ELSE FieldHint(s)

\* The texts fit as long as each that is used is the one of the access that
\* uses it.  One left over spoils its own kind; an access without a text of its
\* own spoils all that share the index.
Fits(s) ==
    IF s.hint /\ Told(s) THEN [fits EXCEPT ![KindOf(s.op)] = FALSE]
    ELSE IF ~s.hint /\ ~Told(s)
    THEN [k \in DOMAIN fits |-> fits[k] /\ (k = "invoke" <=> s.op \notin Invokes)]
    ELSE fits

Sure(s) ==
    \/ IdOf(s) # NoMember /\ ByID(s)
    \/ IdOf(s) = NoMember /\ Cached(s)
    \/ ~Told(s) /\ Fits(s)[KindOf(s.op)] /\ (s.op \in Invokes \/ s.member.class = Own)

AccessOf(s) ==
    [I(s.op) EXCEPT !.member = Found(s), !.want = s.member, !.sure = Sure(s)]

UseHint ==
    /\ invokeAt' = IF S.op \in Invokes /\ ~Told(S) /\ invokeAt <= Len(invokeHints)
                   THEN invokeAt + 1 ELSE invokeAt
    /\ fieldAt' = IF S.op \notin Invokes /\ ~Told(S)
                  THEN IF NextField(KindOf(S.op)) <= Len(fieldHints)
                       THEN NextField(KindOf(S.op)) + 1 ELSE NextField(KindOf(S.op))
                  ELSE fieldAt
    /\ fits' = Fits(S)

\* The value that was read is saved for later (bind_var_to_top).
GetField ==
    /\ phase = "walk" /\ todo # <<>> /\ S.op \in Reads /\ Done
    /\ UseHint
    /\ Emit((IF S.op = "GetField" THEN <<Push(S.recv)>> ELSE <<>>) \o <<AccessOf(S)>> \o
            IF S.lhs = NoVar THEN <<>> ELSE <<I("DUP"), I("ASTORE")>>)
    /\ IF S.lhs = NoVar THEN KeepSlots
       ELSE /\ slots' = [slots EXCEPT ![S.lhs] = nextSlot]
            /\ nextSlot' = nextSlot + 1
            /\ saved' = [s \in 0 .. nextSlot |-> IF s = nextSlot THEN count + 1 ELSE saved[s]]
    /\ Assigns(S.lhs, {})
    /\ UNCHANGED <<syms, checkVars, checks>>

SetField ==
    /\ phase = "walk" /\ todo # <<>> /\ S.op \in Writes /\ Done
    /\ UseHint
    /\ Emit((IF S.op = "SetField" THEN <<Push(S.recv)>> ELSE <<>>) \o Pushes(S.args)
            \o <<AccessOf(S)>>)
    /\ KeepSlots /\ UNCHANGED <<syms, checkVars, count, holds, checks, assigned, unsteady>>

\* The result of a call is not saved; only its type is kept, if it is told.
Call ==
    /\ Walk("Call") /\ Done
    /\ UseHint
    /\ Emit((IF S.recv = NoVar THEN <<>> ELSE <<Push(S.recv)>>) \o Pushes(S.args) \o <<AccessOf(S)>>)
    /\ IF Found(S) # NoMember THEN Believe(S.lhs, Sym("object", NoMember)) ELSE UNCHANGED syms
    /\ Assigns(S.lhs, {})
    /\ KeepSlots /\ UNCHANGED <<checkVars, checks>>

Throw ==
    /\ Walk("Throw") /\ Done
    /\ Emit(<<I("ATHROW")>>)
    /\ KeepHints /\ KeepSlots
    /\ UNCHANGED <<syms, checkVars, count, holds, checks, assigned, unsteady>>

ExceptionCheck ==
    /\ Walk("ExceptionCheck") /\ Done
    /\ checkVars' = checkVars \cup ({S.lhs} \ {NoVar})
    /\ Assigns(S.lhs, {})
    /\ checks' = IF S.lhs = NoVar THEN checks ELSE checks \cup {count + 1}
    /\ KeepHints /\ KeepSlots /\ UNCHANGED <<syms, code>>

\* A statement the lifter makes nothing of: other JNI functions, arithmetic
Opaque ==
    /\ Walk("Opaque") /\ Done
    /\ Assigns(S.lhs, {})
    /\ KeepHints /\ KeepSlots /\ UNCHANGED <<syms, checkVars, code, checks>>

\* _handle_rhs of a variable: what is known of one is known of the other.
Copy ==
    /\ Walk("Copy") /\ Done
    /\ IF Resolve(S.recv).kind = "slot"
       THEN slots' = [slots EXCEPT ![S.lhs] = Resolve(S.recv).slot] /\ UNCHANGED syms
       ELSE /\ IF Resolve(S.recv) # NoSym THEN Believe(S.lhs, Resolve(S.recv)) ELSE UNCHANGED syms
            /\ UNCHANGED slots
    /\ Copies
    /\ KeepHints /\ UNCHANGED <<nextSlot, saved, checkVars, code>>

(***************************************************************************)
(* _emit_if, labels, jumps, returns                                        *)
(***************************************************************************)
If == phase = "walk" /\ todo # <<>> /\ S.op = "If"
Then == SubSeq(todo, 2, 1 + S.then)
Else == SubSeq(todo, 2 + S.then, 1 + S.then + S.else)
Rest == SubSeq(todo, 2 + S.then + S.else, Len(todo))
Instead(text) == todo' = text \o Rest /\ UNCHANGED <<body, static, listed, phase, means>>
Over(text) ==
    /\ Unsettles(Then \o Else)
    /\ fits' = [k \in DOMAIN fits |-> fits[k] /\
            \A i \in DOMAIN text: text[i].hint => KindOf(text[i].op) # k]
    /\ UNCHANGED <<syms, slots, nextSlot, checkVars, invokeAt, fieldAt>>

\* if (env->ExceptionCheck()) return 0;
SkipGuard ==
    /\ If /\ S.cond = "guard"
    /\ Instead(Else) /\ Over(Then)
    /\ UNCHANGED <<code, guards>>

IsTested(s) == s.cond \in {"raised", "clear"} /\ s.recv \in checkVars

\* if (c != 0) or if (c == 0) on an answer of ExceptionCheck: the way without
\* an exception is the way.
SkipTested ==
    /\ If /\ IsTested(S)
    /\ IF S.cond = "raised" THEN Instead(Else) /\ Over(Then) ELSE Instead(Then) /\ Over(Else)
    /\ guards' = guards \cup {holds[S.recv]}
    /\ UNCHANGED code

\* The block that fills a cache slot on first use
SkipCacheInit ==
    /\ If /\ S.cond = "cache"
    /\ Instead(<<>>) /\ Over(Then \o Else)
    /\ UNCHANGED <<code, guards>>

Gotos(text) == {i \in DOMAIN text: text[i].op = "Goto"}

\* if (...) goto L, the first one at any depth of the part: a jump, and nothing
\* else of the if
IfGoto ==
    /\ If /\ S.cond \notin {"guard", "cache"} /\ ~IsTested(S) /\ Gotos(Then) # {}
    /\ Instead(<<>>) /\ Over(Then \o Else)
    /\ Emit(<<Jump(IF S.cond = "plain" THEN "IF_ICMP" ELSE "IF", Then[Min(Gotos(Then))].label)>>)
    /\ UNCHANGED guards

\* Any other if: one part after the other
IfBoth ==
    /\ If /\ S.cond \notin {"guard", "cache"} /\ ~IsTested(S) /\ Gotos(Then) = {}
    /\ Instead(Then \o Else) /\ Over(<<>>)
    /\ UNCHANGED <<code, guards>>

LabelHere ==
    /\ Walk("Label") /\ Done
    /\ Emit(<<Jump("LABEL", S.label)>>)
    /\ KeepHints /\ KeepSlots
    /\ UNCHANGED <<syms, checkVars, count, holds, checks, assigned, unsteady>>

Goto ==
    /\ Walk("Goto") /\ Done
    /\ Emit(<<Jump("GOTO", S.label)>>)
    /\ KeepHints /\ KeepSlots
    /\ UNCHANGED <<syms, checkVars, count, holds, checks, assigned, unsteady>>

\* _emit_return: return 0 is taken for the padding at the end of the function.
Return ==
    /\ Walk("Return") /\ Done
    /\ IF ~Returns THEN Emit(<<I("RETURN")>>)
       ELSE IF S.recv = NoVar THEN UNCHANGED code
       ELSE Emit(<<Push(S.recv), I("RETURN")>>)
    /\ KeepHints /\ KeepSlots
    /\ UNCHANGED <<syms, checkVars, count, holds, checks, assigned, unsteady>>

EndOfText ==
    /\ phase = "walk" /\ todo = <<>>
    /\ phase' = "clean"
    /\ UNCHANGED <<body, static, listed, todo, beliefs, code, truth, guards, fits>>

\* _drop_dangling_jumps
Labels == {code[i].label: i \in {k \in DOMAIN code: code[k].op = "LABEL"}}
Jumps == {"GOTO", "IF", "IF_ICMP"}
Cleaned_KeepsIf(i) ==
    IF i.op # "GOTO" \/ i.label \in Labels THEN <<i>> ELSE <<>>

Cleaned(i) ==
    IF i.op \notin Jumps \/ i.label \in Labels THEN <<i>>
    ELSE IF i.op = "IF_ICMP" THEN <<I("POP"), I("POP")>>
    ELSE IF i.op = "IF" THEN <<I("POP")>> ELSE <<>>

Clean ==
    /\ phase = "clean"
    /\ phase' = "close"
    /\ code' = FlattenSeq([i \in DOMAIN code |-> Cleaned(code[i])])
    /\ UNCHANGED <<body, static, listed, todo, beliefs, truth, guards, fits>>

Ends == {"RETURN", "ATHROW"}
Close ==
    /\ phase = "close"
    /\ phase' = "done"
    /\ IF code # <<>> /\ Last(code).op \in Ends THEN UNCHANGED code
       ELSE Emit((IF Returns THEN <<I("ICONST_0")>> ELSE <<>>) \o <<I("RETURN")>>)
    /\ UNCHANGED <<body, static, listed, todo, beliefs, truth, guards, fits>>

Next ==
    \/ FindClass \/ GetID \/ NewString \/ NewObject \/ NewRef
    \/ GetField \/ SetField \/ Call \/ Throw \/ ExceptionCheck \/ Opaque \/ Copy
    \/ SkipGuard \/ SkipTested \/ SkipCacheInit \/ IfGoto \/ IfBoth
    \/ LabelHere \/ Goto \/ Return
    \/ EndOfText \/ Clean \/ Close

Spec == Init /\ [][Next]_vars

(***************************************************************************)
(* Properties                                                              *)
(***************************************************************************)
Kinds == {"none", "class", "id", "owner", "string", "object", "slot"}
SlotRange == 0 .. nextSlot - 1

\* What is believed of a variable is one of the known kinds, each local variable
\* is one of the frame or was handed out, and the indices stay in the hints.
TypeOK ==
    /\ \A v \in Var: syms[v].kind \in Kinds /\ slots[v] \in SlotRange \cup {NoSlot}
    /\ nextSlot \in FirstSlot .. FirstSlot + Len(body)
    /\ checkVars \subseteq Var
    /\ invokeAt \in 1 .. Len(invokeHints) + 1 /\ fieldAt \in 1 .. Len(fieldHints) + 1
    /\ phase \in {"walk", "clean", "close", "done"}
    /\ DOMAIN saved = SlotRange /\ \A s \in SlotRange: saved[s] \in 0 .. count
    /\ \A v \in Var: holds[v] \in 0 .. count
    /\ checks \subseteq 1 .. count /\ guards \subseteq 1 .. count

\* A local variable that is loaded for a C variable holds the value the C program
\* has there: the frame of _jni_param_slot_map is the Java VM's, and what
\* bind_var_to_top saved reaches each use through copies and new references.
\* Only for variables that are assigned once.
LoadsAreTrue ==
    \A i \in DOMAIN code: code[i].op = "ALOAD" /\ code[i].sure => code[i].got = code[i].held

\* A field or method that an instruction names is the one the C program uses:
\* by the ID (assigned once), by the cacheTable, or by the error texts as long
\* as each text went to the access it belongs to.
MembersAreTrue ==
    \A i \in DOMAIN code: code[i].sure /\ code[i].member # NoMember
                         => code[i].member = code[i].want

\* What _emit_if drops as the test of an exception does test the answer of
\* ExceptionCheck.  Violated: exception_check_vars keeps a variable that has been
\* given another value since.
GuardsAreChecks == guards \subseteq checks

\* A finished body can be loaded: each jump has its label, exactly one, and the
\* last instruction leaves the method.
JumpsLand ==
    phase = "done" =>
        /\ \A i \in DOMAIN code: code[i].op \in Jumps =>
                Cardinality({k \in DOMAIN code: code[k].op = "LABEL" /\ code[k].label = code[i].label}) = 1
        /\ code # <<>> /\ Last(code).op \in Ends
=============================================================================
