------------------------------ MODULE Attach ------------------------------
(***************************************************************************)
(* `j2c attach` (main.py, cli_attach, with attach_support.py): read what   *)
(* /proc says of a pid, refuse the targets that should not be touched,     *)
(* find the agent, ask jcmd or a helper built on com.sun.tools.attach to   *)
(* load it, and classify what came back.                                   *)
(*                                                                         *)
(* The command reads the target in four separate looks and acts later, by  *)
(* pid.  The environment is the process behind that pid: it may exit at    *)
(* any moment and the kernel may give the pid to another process.  world   *)
(* is every process the pid has named so far; the last one is behind it    *)
(* while up is TRUE.                                                       *)
(*                                                                         *)
(* A command line is abstracted to the flags found in it, the output of an *)
(* attach tool to the phrases the classifier looks for and the agent's     *)
(* return codes printed in it.                                             *)
(***************************************************************************)
EXTENDS Integers, Sequences, FiniteSets

CONSTANTS
    Process,     \* the processes the pid may name (see ProcessType)
    Input,       \* command lines and machines (see InputType)
    MaxPids,     \* bound: processes the pid names one after the other
    SilentZero   \* jcmd may exit 0 and print no return code

Users == {"me", "other", "root"}
Tools == {"jcmd", "javac", "java"}
Flags == {"DisableAttachMechanism", "-EnableDynamicAgentLoading",
          "allowAttachSelf=false"}

\* owner; a VM or not; what comm and argv look like; the flags in argv and
\* those given where argv does not show them (JAVA_TOOL_OPTIONS)
ProcessType ==
    [owner: Users, jvm: BOOLEAN, comm: {"java", "app"}, sign: BOOLEAN,
     argv: SUBSET Flags, env: SUBSET Flags]

\* the options of the command and what is installed: a ' in the output path,
\* the agent given or built, the tools of the JDK, whether javac takes the helper
InputType ==
    [confirm: BOOLEAN, pid: {0, 1}, mechanism: {"auto", "jcmd", "vm", "other"},
     quote: BOOLEAN,
     agent: {"good", "fails", "noexport", "absent"},
     me: {"me", "root"}, tools: SUBSET Tools,
     compiles: BOOLEAN]

ASSUME AttachAssumption ==
    /\ Input \subseteq InputType
    /\ Process \subseteq ProcessType
    /\ MaxPids \in Nat \ {0}
    /\ SilentZero \in BOOLEAN

Phrases == {"socket", "nodyn", "permission", "noexport", "initfailed"}
Reasons == {"attach-disabled", "dynamic-agent-disabled", "not-a-jvm",
            "cross-user", "agent-onattach-missing", "agent-init-failed",
            "jcmd-false-success", "unknown"}

VARIABLES
    input,    \* the options of the command and the machine it runs on
    world,    \* the processes the pid has named
    up,       \* the last of them is running
    inited,   \* 0, or the index in world of the one that runs the agent
    pc,       \* where the command is
    snap,     \* the ProcInfo it has read
    looked,   \* which process each field of snap came from (history)
    warned,   \* the warnings printed
    asked,    \* the processes an attach tool was sent to (history)
    reply,    \* what the attach tool printed and its exit status
    out       \* how the command ended

target == <<world, up, inited>>
vars == <<input, world, up, inited, pc, snap, looked, warned, asked, reply, out>>

NoUid == "?"
Blank == [exists |-> FALSE, uid |-> NoUid, comm |-> "", sign |-> FALSE, argv |-> {}]
NoReply == [rc |-> 0, phrases |-> {}, codes |-> <<>>]
Unread == [uid |-> 0, argv |-> 0]
Ended(kind, code, reason) == [kind |-> kind, code |-> code, reason |-> reason]
Running == Ended("running", 0, "")
Refused(reason) == Ended("refused", 1, reason)
Crashed == Ended("exception", 1, "")

Init ==
    /\ input \in Input
    /\ \E p \in Process: world = <<p>>
    /\ up \in BOOLEAN
    /\ inited = 0
    /\ pc = "confirm"
    /\ snap = Blank
    /\ looked = Unread
    /\ warned = {}
    /\ asked = <<>>
    /\ reply = NoReply
    /\ out = Running

Current == world[Len(world)]
Now == IF up THEN Len(world) ELSE 0

(***************************************************************************)
(* attach_support.py: pure parts                                           *)
(***************************************************************************)
\* sign: a -jar, a .jar, -XX:, -javaagent or -agentpath in the argument vector
LooksLikeJava(s) == s.comm = "java" \/ s.sign

Refusals_ExemptsRoot(s, me) ==
    (IF s.uid # NoUid /\ s.uid # me /\ me # "root" THEN <<"cross-user">> ELSE <<>>)
    \o (IF LooksLikeJava(s) THEN <<>> ELSE <<"not-a-jvm">>)

\* the refusals of validate_attach_target, in the order they are appended
Refusals(s, me) ==
    (IF s.uid # NoUid /\ s.uid # me THEN <<"cross-user">> ELSE <<>>)
    \o (IF LooksLikeJava(s) THEN <<>> ELSE <<"not-a-jvm">>)

FlagRefusal_AttachOnly(argv) ==
    IF "DisableAttachMechanism" \in argv THEN "attach-disabled" ELSE ""

\* the severest flag first
FlagRefusal(argv) ==
    IF "DisableAttachMechanism" \in argv THEN "attach-disabled"
    ELSE IF "-EnableDynamicAgentLoading" \in argv THEN "dynamic-agent-disabled"
    ELSE ""

NoCode == 99   \* parse_jcmd_return_code found none
ReturnCode(r) == IF r.codes = <<>> THEN NoCode ELSE r.codes[Len(r.codes)]

LoadError_ExitStatusOnly(r) == r.rc # 0
LoadError_AnyCode(r) == r.rc # 0 \/ r.codes # <<>>

LoadError(r) == r.rc # 0 \/ ReturnCode(r) \notin {NoCode, 0}

Classify_InitBlamedOnUser(r, code) ==
    IF "socket" \in r.phrases THEN "attach-disabled"
    ELSE IF r.rc = 0 \/ "nodyn" \in r.phrases THEN "dynamic-agent-disabled"
    ELSE "cross-user"

\* The first case that applies decides.  code is NoCode on the vm path.
Classify(r, code) ==
    LET failed == code \notin {NoCode, 0}
    IN  CASE "socket" \in r.phrases -> "attach-disabled"
          [] "socket" \notin r.phrases /\ "nodyn" \in r.phrases
               -> "dynamic-agent-disabled"
          [] r.phrases \cap {"socket", "nodyn"} = {} /\ "permission" \in r.phrases
               -> "cross-user"
          [] r.phrases \cap {"socket", "nodyn", "permission"} = {}
             /\ "noexport" \in r.phrases -> "agent-onattach-missing"
          [] r.phrases \subseteq {"initfailed"} /\ r.rc = 0 /\ failed
               -> "jcmd-false-success"
          [] r.phrases \subseteq {"initfailed"} /\ r.rc # 0
             /\ ("initfailed" \in r.phrases \/ failed) -> "agent-init-failed"
          [] OTHER -> "unknown"

(***************************************************************************)
(* The attach tools, as the classifier and the tests know their output     *)
(* (external).  `how` is "jcmd" or "vm"; p is the process they reach.      *)
(***************************************************************************)
Blocking == {"DisableAttachMechanism", "-EnableDynamicAgentLoading"}
Barred(p) == p.argv \cup p.env

LoadsLibrary(p, me) ==
    /\ p.jvm
    /\ p.owner = me \/ me = "root"
    /\ Barred(p) \cap Blocking = {}

Said(rc, phrases, codes) == [rc |-> rc, phrases |-> phrases, codes |-> codes]
QuietFailure == IF SilentZero THEN {0, 1} ELSE {1}

Replies(p, how) ==
    IF p.owner # input.me /\ input.me # "root" THEN {Said(1, {"permission"}, <<>>)}
    ELSE IF ~p.jvm \/ "DisableAttachMechanism" \in Barred(p)
         THEN {Said(1, {"socket"}, <<>>)}
    ELSE IF "-EnableDynamicAgentLoading" \in Barred(p)
         THEN {Said(rc, {"nodyn"}, <<>>): rc \in IF how = "jcmd" THEN QuietFailure ELSE {1}}
    ELSE IF input.agent = "noexport" THEN {Said(1, {"noexport"}, <<>>)}
    ELSE IF input.agent = "fails"
         THEN IF how = "jcmd" THEN {Said(0, {}, <<-1>>)} ELSE {Said(1, {"initfailed"}, <<>>)}
    ELSE {Said(0, {}, IF how = "jcmd" THEN <<0>> ELSE <<>>)}

Gone == Said(1, {}, <<>>)

(***************************************************************************)
(* The process behind the pid                                              *)
(***************************************************************************)
ProcExit ==
    /\ up
    /\ up' = FALSE
    /\ UNCHANGED <<input, world, inited, pc, snap, looked, warned, asked, reply, out>>

PidReused ==
    /\ ~up
    /\ Len(world) < MaxPids
    /\ \E p \in Process: world' = Append(world, p)
    /\ up' = TRUE
    /\ UNCHANGED <<input, inited, pc, snap, looked, warned, asked, reply, out>>

(***************************************************************************)
(* cli_attach, step by step                                                *)
(***************************************************************************)
At(l) == pc = l
Goto(l) == pc' = l
End(o) == pc' = "end" /\ out' = o

Confirm ==
    /\ At("confirm")
    /\ IF input.confirm THEN Goto("exists") /\ UNCHANGED out
       ELSE End(Ended("unconfirmed", 2, ""))
    /\ UNCHANGED <<input, target, snap, looked, warned, asked, reply>>

\* Path.exists, and the liveness probe where procfs shows no such directory:
\* an exists found by the probe alone leaves every other field empty.
ReadExists ==
    /\ At("exists")
    /\ IF input.pid > 0 /\ up
       THEN snap' = [snap EXCEPT !.exists = TRUE] /\ Goto("stat")
       ELSE UNCHANGED snap /\ Goto("probe")
    /\ UNCHANGED <<input, target, looked, warned, asked, reply, out>>

ProbePid ==
    /\ At("probe")
    /\ snap' = [snap EXCEPT !.exists = input.pid > 0 /\ up]
    /\ Goto("validate")
    /\ UNCHANGED <<input, target, looked, warned, asked, reply, out>>

\* An OSError leaves the field as it was.
ReadStat ==
    /\ At("stat")
    /\ IF up
       THEN /\ snap' = [snap EXCEPT !.uid = Current.owner]
            /\ looked' = [looked EXCEPT !.uid = Now]
       ELSE UNCHANGED <<snap, looked>>
    /\ Goto("comm")
    /\ UNCHANGED <<input, target, warned, asked, reply, out>>

ReadComm ==
    /\ At("comm")
    /\ snap' = IF up THEN [snap EXCEPT !.comm = Current.comm] ELSE snap
    /\ Goto("cmdline")
    /\ UNCHANGED <<input, target, looked, warned, asked, reply, out>>

ReadCmdline ==
    /\ At("cmdline")
    /\ IF up
       THEN /\ snap' = [snap EXCEPT !.sign = Current.sign, !.argv = Current.argv]
            /\ looked' = [looked EXCEPT !.argv = Now]
       ELSE UNCHANGED <<snap, looked>>
    /\ Goto("validate")
    /\ UNCHANGED <<input, target, warned, asked, reply, out>>

Validate ==
    /\ At("validate")
    /\ IF input.pid <= 0 \/ ~snap.exists
       THEN End(Ended("error", 2, "")) /\ UNCHANGED warned
       ELSE LET refusals == Refusals(snap, input.me)
            IN  /\ warned' = IF snap.uid = NoUid THEN {"owner"} ELSE {}
                /\ IF refusals = <<>> THEN Goto("scan") /\ UNCHANGED out
                   ELSE End(Refused(refusals[1]))
    /\ UNCHANGED <<input, target, snap, looked, asked, reply>>

ScanFlags ==
    /\ At("scan")
    /\ warned' = warned \cup (snap.argv \cap {"allowAttachSelf=false"})
    /\ LET reason == FlagRefusal(snap.argv)
       IN  IF reason = "" THEN Goto("agent") /\ UNCHANGED out
           ELSE End(Refused(reason))
    /\ UNCHANGED <<input, target, snap, looked, asked, reply>>

\* --agent, or the library native_lib finds for this host
ResolveAgent ==
    /\ At("agent")
    /\ CASE input.agent = "absent" -> End(Ended("error", 2, ""))
         [] input.agent # "absent" /\ input.mechanism = "other"
              -> End(Ended("badparameter", 2, ""))
         [] input.agent # "absent" /\ input.mechanism = "vm" -> Goto("vm") /\ UNCHANGED out
         [] OTHER -> Goto("jcmd") /\ UNCHANGED out
    /\ UNCHANGED <<input, target, snap, looked, warned, asked, reply>>

\* The tool is looked up before the option string is quoted: only a missing
\* tool is a FileNotFoundError, which auto alone catches.
StartJcmd ==
    /\ At("jcmd")
    /\ CASE "jcmd" \notin input.tools /\ input.mechanism = "auto"
              -> Goto("vm") /\ UNCHANGED out
         [] "jcmd" \notin input.tools /\ input.mechanism # "auto" -> End(Crashed)
         [] "jcmd" \in input.tools /\ input.quote -> End(Crashed)
         [] OTHER -> Goto("jcmd-sent") /\ UNCHANGED out
    /\ UNCHANGED <<input, target, snap, looked, warned, asked, reply>>

\* run() ends the command with javac's status
StartVm ==
    /\ At("vm")
    /\ CASE ~({"javac", "java"} \subseteq input.tools) -> End(Crashed)
         [] {"javac", "java"} \subseteq input.tools /\ ~input.compiles
              -> End(Ended("error", 1, ""))
         [] OTHER -> Goto("vm-sent") /\ UNCHANGED out
    /\ UNCHANGED <<input, target, snap, looked, warned, asked, reply>>

Sent(how) == IF how = "jcmd" THEN "jcmd-sent" ELSE "vm-sent"
Back(how) == IF how = "jcmd" THEN "jcmd-back" ELSE "vm-back"

\* The attach tool meets whatever process the pid names now.
Load(how) ==
    /\ At(Sent(how))
    /\ IF up
       THEN /\ asked' = Append(asked, Now)
            /\ reply' \in Replies(Current, how)
            /\ inited' = IF LoadsLibrary(Current, input.me) /\ input.agent = "good"
                         THEN Now ELSE inited
       ELSE reply' = Gone /\ UNCHANGED <<asked, inited>>
    /\ Goto(Back(how))
    /\ UNCHANGED <<input, world, up, snap, looked, warned, out>>

\* The target dies under the attach tool, which then has no answer to print.
ReplyLost ==
    /\ pc \in {"jcmd-back", "vm-back"}
    /\ asked # <<>>
    /\ Now # asked[Len(asked)]
    /\ reply' = Gone
    /\ UNCHANGED <<input, target, pc, snap, looked, warned, asked, out>>

JcmdBack ==
    /\ At("jcmd-back")
    /\ End(IF LoadError(reply) THEN Refused(Classify(reply, ReturnCode(reply)))
           ELSE Ended("attached", 0, ""))
    /\ UNCHANGED <<input, target, snap, looked, warned, asked, reply>>

VmBack ==
    /\ At("vm-back")
    /\ End(IF reply.rc # 0 THEN Refused(Classify(reply, NoCode))
           ELSE Ended("attached", 0, ""))
    /\ UNCHANGED <<input, target, snap, looked, warned, asked, reply>>

Command ==
    \/ Confirm \/ ReadExists \/ ProbePid \/ ReadStat \/ ReadComm \/ ReadCmdline
    \/ Validate \/ ScanFlags \/ ResolveAgent \/ StartJcmd \/ StartVm
    \/ Load("jcmd") \/ Load("vm") \/ JcmdBack \/ VmBack

Next == Command \/ ProcExit \/ PidReused \/ ReplyLost

Spec == Init /\ [][Next]_vars

(***************************************************************************)
(* Properties                                                              *)
(***************************************************************************)
TypeOK ==
    /\ input \in Input
    /\ world \in Seq(Process) /\ Len(world) \in 1..MaxPids
    /\ up \in BOOLEAN
    /\ inited \in 0..MaxPids
    /\ pc \in {"confirm", "exists", "probe", "stat", "comm", "cmdline", "validate",
               "scan", "agent", "jcmd", "vm", "jcmd-sent", "vm-sent", "jcmd-back",
               "vm-back", "end"}
    /\ snap \in [exists: BOOLEAN, uid: Users \cup {NoUid}, comm: {"", "java", "app"},
                 sign: BOOLEAN, argv: SUBSET Flags]
    /\ looked \in [uid: 0..MaxPids, argv: 0..MaxPids]
    /\ warned \subseteq {"owner", "allowAttachSelf=false"}
    /\ asked \in Seq(1..MaxPids)
    /\ reply.rc \in {0, 1} /\ reply.phrases \subseteq Phrases
    /\ reply.codes \in Seq({-1, 0})
    /\ out.kind \in {"running", "unconfirmed", "error", "badparameter", "exception",
                     "refused", "attached"}
    /\ out.reason \in Reasons \cup {""}

\* "attached" is printed only when the agent was initialised in a process the
\* pid named (_report_refusal: "Never prints attached").
AttachedMeansLoaded == out.kind = "attached" => inited # 0

\* A refusal never leaves an agent running in the process now behind the pid,
\* whatever exits or answers got lost on the way.
RefusedMeansNotRunning ==
    out.kind \in {"refused", "error", "exception"} => inited = 0 \/ Now # inited

\* The agent gets into another user's process only when the pid changed hands
\* after its owner was read: the same-user check covers root as well.
CrossUserNeedsReuse ==
    inited # 0 /\ world[inited].owner # input.me => looked.uid # inited

\* A target whose own command line forbids attaching is not even asked, unless
\* the command line that was read is another process's.
ForbiddenIsNotAsked ==
    \A i \in DOMAIN asked:
        looked.argv = asked[i] => world[asked[i]].argv \cap Blocking = {}

\* Nothing is asked of a target before the user confirmed, and of no process
\* more than once: auto tries a second mechanism only if the first never ran.
AskedOnceWithConsent == Len(asked) <= (IF input.confirm THEN 1 ELSE 0)

\* A reason names its cause: the classifier blames flags, ownership or the
\* agent only when that is what stopped a process the command looked at or asked.
Blame(reason, p) ==
    CASE reason = "attach-disabled" -> ~p.jvm \/ "DisableAttachMechanism" \in Barred(p)
      [] reason = "dynamic-agent-disabled" -> "-EnableDynamicAgentLoading" \in Barred(p)
      [] reason = "cross-user" -> p.owner # input.me
      [] reason = "agent-onattach-missing" -> input.agent = "noexport"
      [] reason \in {"agent-init-failed", "jcmd-false-success"} -> input.agent = "fails"
      [] OTHER -> TRUE
ReasonNamesCause ==
    out.kind = "refused" => \E i \in DOMAIN world: Blame(out.reason, world[i])

=============================================================================
