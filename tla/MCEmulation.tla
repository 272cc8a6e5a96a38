---------------------------- MODULE MCEmulation ----------------------------
(* Two classes, three static fields of which two have one name, two native    *)
(* methods, arrays of up to two elements, one of which does not fit a byte.   *)
(* A table of two rows is one row over the cap; three runs are one more than  *)
(* the stack has room for.  While the methods are looked for nothing works on  *)
(* arrays, and the function that is called for its answer does nothing else.  *)
EXTENDS Emulation, TLC
CONSTANTS C, D, f, g, k, m1, m2

MCFieldName == [x \in Field |-> IF x = k THEN "other" ELSE "name"]
MCSymmetry == Permutations({C, D}) \cup Permutations({f, g}) \cup Permutations({m1, m2})
MCMaxCalls == [recover |-> 3, call |-> 4]
MCUses == [recover |-> {"space", "names"}, call |-> {"arrays"}]
=============================================================================
