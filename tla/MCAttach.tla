------------------------------ MODULE MCAttach ------------------------------
(* Nine processes the pid may name: a plain VM, one that forbids attaching    *)
(* in its arguments, one in its environment, likewise for dynamic agents, a    *)
(* program that only looks like a VM, one that does not, others' VMs.         *)
EXTENDS Attach

Proc(owner, jvm, comm, sign, argv, env) ==
    [owner |-> owner, jvm |-> jvm, comm |-> comm, sign |-> sign,
     argv |-> argv, env |-> env]

MCProcess ==
    {Proc("me", TRUE, "java", TRUE, {"allowAttachSelf=false"}, {}),
     Proc("me", TRUE, "java", TRUE, {"DisableAttachMechanism"}, {}),
     Proc("me", TRUE, "app", TRUE, {"-EnableDynamicAgentLoading"}, {}),
     Proc("me", TRUE, "java", FALSE, {}, {"DisableAttachMechanism"}),
     Proc("me", TRUE, "java", FALSE, {}, {"-EnableDynamicAgentLoading"}),
     Proc("me", FALSE, "app", TRUE, {}, {}),
     Proc("me", FALSE, "app", FALSE, {}, {}),
     Proc("other", TRUE, "java", TRUE, {}, {}),
     Proc("root", TRUE, "java", FALSE, {}, {})}

(* The usual command line and machine, and all that differ from it in at most *)
(* two respects.                                                              *)
Usual == [confirm |-> TRUE, pid |-> 1, mechanism |-> "auto", quote |-> FALSE,
          agent |-> "good", me |-> "me", tools |-> Tools, compiles |-> TRUE]

MCInput ==
    {i \in InputType: Cardinality({f \in DOMAIN Usual: i[f] # Usual[f]}) <= 2}
=============================================================================
