------------------------------ MODULE MCLifter ------------------------------
(* Bodies of up to three parts, each a statement of Lifter or an if with    *)
(* what it encloses, ifs in ifs among them, and some longer ones.           *)
EXTENDS Lifter

MCVar == {"this", "p1", "p2", "a", "b", "c"}
MCParams == <<"p1", "p2">>
MCWide == {"p1"}
f == [class |-> "Own", name |-> "f"]
g == [class |-> "Own", name |-> "g"]
h == [class |-> "Other", name |-> "h"]
m == [class |-> "Other", name |-> "m"]
n == [class |-> "Own", name |-> "n"]
MCMember == {f, g, h, m, n}
MCNoMember == [class |-> "?", name |-> "?"]

GetF == [Blank EXCEPT !.op = "GetField", !.lhs = "a", !.recv = "this", !.member = f, !.hint = TRUE]
GetH == [Blank EXCEPT !.op = "GetField", !.lhs = "b", !.recv = "a", !.member = h, !.hint = TRUE]
GetG == [Blank EXCEPT !.op = "GetField", !.lhs = "b", !.recv = "this", !.member = g, !.known = TRUE]
GetS == [Blank EXCEPT !.op = "GetStatic", !.lhs = "b", !.member = g, !.hint = TRUE]
SetG == [Blank EXCEPT !.op = "SetField", !.recv = "a", !.args = <<"p2">>, !.member = g, !.hint = TRUE]
SetS == [Blank EXCEPT !.op = "SetStatic", !.args = <<"b">>, !.member = f]
CallM == [Blank EXCEPT !.op = "Call", !.lhs = "b", !.recv = "a", !.args = <<"p2">>,
                       !.member = m, !.hint = TRUE]
CallN == [Blank EXCEPT !.op = "Call", !.recv = "this", !.args = <<"b">>, !.member = n, !.hint = TRUE]
CallI == [Blank EXCEPT !.op = "Call", !.recv = "a", !.id = "b", !.member = m]
CallK == [Blank EXCEPT !.op = "Call", !.recv = "p2", !.member = n, !.known = TRUE, !.hint = TRUE]
Cls == [Blank EXCEPT !.op = "FindClass", !.lhs = "c", !.member = m, !.known = TRUE]
ID == [Blank EXCEPT !.op = "GetID", !.lhs = "b", !.recv = "c", !.member = m, !.known = TRUE]
NewO == [Blank EXCEPT !.op = "NewObject", !.lhs = "a", !.recv = "c", !.id = "b",
                      !.args = <<"p1">>, !.member = m]
IDc == [Blank EXCEPT !.op = "GetID", !.lhs = "b", !.recv = "c", !.member = m]
NewA == [Blank EXCEPT !.op = "NewObjectArray", !.lhs = "a", !.recv = "c", !.args = <<"p2">>]
NewP == [Blank EXCEPT !.op = "NewArray", !.lhs = "a", !.args = <<"b">>]
Alloc == [Blank EXCEPT !.op = "AllocObject", !.lhs = "a", !.recv = "c"]
Str == [Blank EXCEPT !.op = "NewString", !.lhs = "b", !.known = TRUE]
CopyAB == [Blank EXCEPT !.op = "Copy", !.lhs = "b", !.recv = "a"]
CopyPA == [Blank EXCEPT !.op = "Copy", !.lhs = "a", !.recv = "p2"]
RefA == [Blank EXCEPT !.op = "NewRef", !.lhs = "b", !.recv = "a"]
Check == [Blank EXCEPT !.op = "ExceptionCheck", !.lhs = "c"]
OpC == [Blank EXCEPT !.op = "Opaque", !.lhs = "c"]
Ret == [Blank EXCEPT !.op = "Return", !.recv = "b"]
Ret0 == [Blank EXCEPT !.op = "Return"]
Throws == [Blank EXCEPT !.op = "Throw"]
LabelL == [Blank EXCEPT !.op = "Label", !.label = "L"]
GotoL == [Blank EXCEPT !.op = "Goto", !.label = "L"]

\* An if and its parts, as they follow it in the text
IfOf(cond, v, then, else) ==
    <<[Blank EXCEPT !.op = "If", !.cond = cond, !.recv = v, !.then = Len(then), !.else = Len(else)]>>
    \o then \o else
Raised == IfOf("raised", "c", <<Ret0>>, <<>>)
Clear == IfOf("clear", "c", <<CallM>>, <<>>)
Guard == IfOf("guard", "none", <<Ret0>>, <<CallN>>)
Cache == IfOf("cache", "none", <<Cls>>, <<>>)
Jumps1 == IfOf("plain", "none", <<SetG, GotoL>>, <<>>)
Jumps0 == IfOf("raised", "c", <<GotoL>>, <<>>)
Both == IfOf("plain", "none", <<GetF, LabelL>>, <<CallN>>)
\* Ifs in ifs: a jump that lies deeper, a label in the part that is passed over,
\* parts that are kept on two levels
Deep == IfOf("plain", "none", IfOf("raised", "c", <<Ret0>>, <<CallM, GotoL>>), <<GetF>>)
Inner == IfOf("clear", "c", <<GetF>> \o IfOf("plain", "none", <<CallN>>, <<LabelL>>),
                            IfOf("guard", "none", <<>>, <<CallM>>))
Outer == IfOf("plain", "none", Jumps1 \o <<CallN>>, <<SetG>>)
Else2 == IfOf("plain", "none", <<CallM>>, IfOf("raised", "c", <<Ret0>>, IfOf("plain", "none", <<GetF>>, <<GotoL>>)))

Simple == {GetF, GetH, GetG, GetS, SetG, SetS, CallM, CallN, CallI, CallK, Cls, ID, IDc, NewO, NewA, NewP,
           Alloc, Str, CopyAB, CopyPA, RefA, Check, OpC, Ret, Ret0, Throws, LabelL, GotoL}
Pool == {<<s>>: s \in Simple} \cup
        {Raised, Clear, Guard, Cache, Jumps1, Jumps0, Both, Deep, Inner, Outer, Else2}
Once(b) == Cardinality({i \in DOMAIN b: b[i].op = "Label"}) <= 1
MCBodies ==
    {b \in {FlattenSeq(u): u \in UNION {[1 .. k -> Pool]: k \in 0 .. 3}}: Once(b)}
    \cup {<<Cls, i>> \o b: i \in {ID, IDc}, b \in Pool}
    \cup {<<Cls, ID, GetF>> \o b: b \in Pool}
=============================================================================
