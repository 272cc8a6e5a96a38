--------------------------- MODULE Attach_proofs ---------------------------
(***************************************************************************)
(* Theorems about the attach command, for every set of processes, every    *)
(* machine and however often the pid changes hands.                        *)
(*                                                                         *)
(* The command knows of the target only what it has read, so the invariant *)
(* says that what was read is true of the process it was read from (Read), *)
(* that it passed the tests before a tool was asked (Tested), and that a   *)
(* tool's answer tells whether the agent runs in the process behind the    *)
(* pid (Told).  A second one follows from it: whoever an answer or a       *)
(* refusal blames is to blame (Causes).                                    *)
(***************************************************************************)
EXTENDS Attach, SequenceTheorems, TLAPS

Reading == {"confirm", "exists", "probe", "stat", "comm", "cmdline", "validate"}
Deciding == {"scan", "agent"}
Sending == {"jcmd", "vm", "jcmd-sent", "vm-sent"}
Answered == {"jcmd-back", "vm-back"}
Labels == Reading \cup Deciding \cup Sending \cup Answered \cup {"end"}

\* The processes are those of world, and so is every index.
WorldInv ==
    /\ input \in Input
    /\ world \in Seq(Process) /\ Len(world) \in 1..MaxPids
    /\ up \in BOOLEAN
    /\ inited \in 0..Len(world)
    /\ asked \in Seq(1..Len(world))

\* What the command has read is what the process it was read from shows.
Read ==
    /\ snap = [exists |-> snap.exists, uid |-> snap.uid, comm |-> snap.comm,
               sign |-> snap.sign, argv |-> snap.argv]
    /\ looked \in [uid : 0..Len(world), argv : 0..Len(world)]
    /\ looked.uid # 0 => snap.uid = world[looked.uid].owner
    /\ looked.argv # 0 => snap.argv = world[looked.argv].argv

\* Each test was passed before anything was asked.
Tested ==
    /\ pc \in Labels
    /\ pc \in Reading \cup Deciding \cup Sending => asked = <<>> /\ inited = 0
    /\ pc \notin {"confirm", "end"} \/ asked # <<>> => input.confirm
    /\ pc \in Deciding \cup Sending \cup Answered \/ asked # <<>> => snap.uid \in {NoUid, input.me}
    /\ pc \in {"agent"} \cup Sending \cup Answered \/ asked # <<>> => snap.argv \cap Blocking = {}
    /\ pc \in Sending \cup Answered => input.agent # "absent"
    /\ Len(asked) <= 1
    /\ inited # 0 => asked # <<>> /\ inited = asked[1]

\* What came back tells whether the agent runs in the process behind the pid.
Told ==
    /\ pc = "jcmd-back" /\ LoadError(reply) => inited = 0 \/ Now # inited
    /\ pc = "vm-back" /\ reply.rc # 0 => inited = 0 \/ Now # inited
    /\ ~SilentZero /\ pc = "jcmd-back" /\ ~LoadError(reply) => inited # 0
    /\ ~SilentZero /\ pc = "vm-back" /\ reply.rc = 0 => inited # 0
    /\ pc # "end" => out = Running
    /\ ~SilentZero /\ out.kind = "attached" => inited # 0
    /\ out.kind \in {"refused", "error", "exception"} => inited = 0 \/ Now # inited

Inv == WorldInv /\ Read /\ Tested /\ Told

-----------------------------------------------------------------------------
LEMMA InputTyped ==
    ASSUME WorldInv
    PROVE  input \in InputType /\ input.confirm \in BOOLEAN
BY AttachAssumption DEF WorldInv, InputType

LEMMA InvInit == Init => Inv
<1>1. SUFFICES ASSUME Init PROVE Inv
  OBVIOUS
<1>2. PICK p \in Process : world = <<p>>
  BY <1>1 DEF Init
<1>3. Len(world) = 1 /\ world \in Seq(Process)
  BY <1>2
<1>4. WorldInv
  BY <1>1, <1>3, AttachAssumption DEF Init, WorldInv
<1>5. Read
  <2>1. snap = [exists |-> FALSE, uid |-> NoUid, comm |-> "", sign |-> FALSE, argv |-> {}]
    BY <1>1 DEF Init, Blank
  <2>2. looked = [uid |-> 0, argv |-> 0]
    BY <1>1 DEF Init, Unread
  <2>3. looked \in [uid : 0..Len(world), argv : 0..Len(world)]
    BY <1>3, <2>2
  <2>4. QED
    BY <2>1, <2>2, <2>3 DEF Read
<1>6. Tested
  <2>1. asked = <<>> /\ inited = 0 /\ pc = "confirm" /\ Len(asked) = 0
    BY <1>1 DEF Init
  <2>2. QED
    BY <2>1 DEF Tested, Reading, Deciding, Sending, Answered, Labels
<1>7. Told
  BY <1>1 DEF Init, Told, Running, Ended
<1>8. QED
  BY <1>4, <1>5, <1>6, <1>7 DEF Inv

\* Another process gets the pid: what was true of the earlier ones still is.
LEMMA InvReused == Inv /\ PidReused => Inv'
<1>1. SUFFICES ASSUME Inv, PidReused PROVE Inv'
  OBVIOUS
<1>2. PICK p \in Process : world' = Append(world, p)
  BY <1>1 DEF PidReused
<1>3. /\ world' \in Seq(Process) /\ Len(world') = Len(world) + 1
      /\ \A i \in 1..Len(world) : world'[i] = world[i]
  BY <1>1, <1>2 DEF Inv, WorldInv
<1>4. WorldInv'
  BY <1>1, <1>3, AttachAssumption DEF Inv, WorldInv, PidReused
<1>5. Read'
  BY <1>1, <1>3 DEF Inv, WorldInv, Read, PidReused
<1>6. Tested'
  BY <1>1 DEF Inv, Tested, PidReused
<1>7. Now' # inited \/ inited = 0
  BY <1>1, <1>3 DEF Inv, WorldInv, PidReused, Now
<1>8. Told'
  BY <1>1, <1>7 DEF Inv, Told, PidReused, Now
<1>9. QED
  BY <1>4, <1>5, <1>6, <1>8 DEF Inv

LEMMA InvExit == Inv /\ ProcExit => Inv'
<1>1. SUFFICES ASSUME Inv, ProcExit PROVE Inv'
  OBVIOUS
<1>2. WorldInv' /\ Read' /\ Tested'
  BY <1>1 DEF Inv, WorldInv, Read, Tested, ProcExit
<1>3. Now' = 0
  BY <1>1 DEF ProcExit, Now
<1>4. Told'
  BY <1>1, <1>3 DEF Inv, WorldInv, Told, ProcExit
<1>5. QED
  BY <1>2, <1>4 DEF Inv

LEMMA NoOutcomeYet ==
    ASSUME Inv, pc # "end"
    PROVE  out = Running /\ Running.kind = "running"
BY DEF Inv, Told, Running, Ended

\* What is said of a step that reads and decides, before any tool is asked.
Before == pc \in Reading \cup Deciding \cup {"jcmd", "vm"}

LEMMA InvBefore ==
    ASSUME Inv, Before, UNCHANGED <<input, target, asked, reply>>,
           pc' \in Labels \ Answered,
           pc' \notin {"confirm", "end"} => input.confirm,
           pc' \in Deciding \cup Sending => snap'.uid \in {NoUid, input.me},
           pc' \in {"agent"} \cup Sending => snap'.argv \cap Blocking = {},
           pc' \in Sending => input.agent # "absent",
           pc' # "end" => out' = out,
           pc' = "end" => out'.kind # "attached",
           Read'
    PROVE  Inv'
<1>1. asked = <<>> /\ inited = 0 /\ out = Running /\ Running.kind = "running"
  BY NoOutcomeYet DEF Inv, Tested, Before, Reading, Deciding, Sending
<1>2. WorldInv'
  BY DEF Inv, WorldInv, target
<1>3. Tested'
  BY <1>1 DEF target, Tested, Labels, Reading, Deciding, Sending, Answered
<1>4. Told'
  BY <1>1 DEF target, Told, Answered
<1>5. QED
  BY <1>2, <1>3, <1>4 DEF Inv

\* The outcomes a step before the tools can end with.
LEMMA EarlyEnds ==
    /\ \A code, reason : \A kind \in {"unconfirmed", "error", "badparameter"} :
           Ended(kind, code, reason).kind # "attached"
    /\ \A reason : Refused(reason).kind # "attached"
    /\ Crashed.kind # "attached"
BY DEF Ended, Refused, Crashed

LEMMA ReadStays ==
    ASSUME Read, UNCHANGED <<target, snap, looked>>
    PROVE  Read'
BY DEF Read, target

LEMMA InvConfirm == Inv /\ Confirm => Inv'
<1>1. SUFFICES ASSUME Inv, Confirm PROVE Inv'
  OBVIOUS
<1>2. Read'
  BY <1>1, ReadStays DEF Inv, Confirm
<1>3. /\ Before /\ UNCHANGED <<input, target, asked, reply>>
      /\ pc' \in {"exists", "end"}
      /\ pc' # "end" => out' = out
      /\ pc' = "end" => out'.kind # "attached"
  <2>1. Before /\ UNCHANGED <<input, target, asked, reply>>
    BY <1>1 DEF Confirm, At, Before, Reading
  <2>2. \/ pc' = "exists" /\ out' = out
        \/ pc' = "end" /\ out' = Ended("unconfirmed", 2, "")
    BY <1>1 DEF Confirm, Goto, End
  <2>3. QED
    BY <2>1, <2>2, EarlyEnds
<1>4. QED
  BY <1>1, <1>2, <1>3, InvBefore
     DEF Confirm, At, Goto, End, Labels, Reading, Deciding, Sending, Answered

LEMMA InvReadExists == Inv /\ (ReadExists \/ ProbePid) => Inv'
<1>1. SUFFICES ASSUME Inv, ReadExists \/ ProbePid PROVE Inv'
  OBVIOUS
<1>2. Read'
  BY <1>1 DEF Inv, Read, ReadExists, ProbePid, target
<1>3. input.confirm
  BY <1>1 DEF Inv, Tested, ReadExists, ProbePid, At
<1>4. /\ Before /\ UNCHANGED <<input, target, asked, reply>>
      /\ pc' \in {"stat", "probe", "validate"}
      /\ pc' # "end" => out' = out
      /\ pc' = "end" => out'.kind # "attached"
  BY <1>1 DEF ReadExists, ProbePid, At, Goto, End, Ended, Refused, Crashed, Before, Reading, Deciding, Sending
<1>5. QED
  BY <1>1, <1>2, <1>3, <1>4, InvBefore
     DEF ReadExists, ProbePid, At, Goto, End, Labels, Reading, Deciding, Sending, Answered

LEMMA InvReadProc == Inv /\ (ReadStat \/ ReadComm \/ ReadCmdline) => Inv'
<1>1. SUFFICES ASSUME Inv, ReadStat \/ ReadComm \/ ReadCmdline PROVE Inv'
  OBVIOUS
<1>2. Read'
  <2>1. Now \in 0..Len(world) /\ (up => Current = world[Now] /\ Now # 0)
    BY <1>1 DEF Inv, WorldInv, Now, Current
  <2>2. CASE ReadStat
    BY <1>1, <2>1, <2>2 DEF Inv, Read, ReadStat, target
  <2>3. CASE ReadComm
    BY <1>1, <2>3 DEF Inv, Read, ReadComm, target
  <2>4. CASE ReadCmdline /\ up
    <3>1. /\ snap' = [snap EXCEPT !.sign = Current.sign, !.argv = Current.argv]
          /\ looked' = [looked EXCEPT !.argv = Now] /\ world' = world
      BY <2>4 DEF ReadCmdline, target
    <3>2. /\ snap'.uid = snap.uid /\ snap'.argv = Current.argv
          /\ looked'.uid = looked.uid /\ looked'.argv = Now
          /\ looked' \in [uid : 0..Len(world'), argv : 0..Len(world')]
      BY <1>1, <2>1, <3>1 DEF Inv, Read
    <3>3. snap' = [exists |-> snap'.exists, uid |-> snap'.uid, comm |-> snap'.comm,
                   sign |-> snap'.sign, argv |-> snap'.argv]
      BY <1>1, <3>1 DEF Inv, Read
    <3>4. QED
      BY <1>1, <2>1, <2>4, <3>1, <3>2, <3>3 DEF Inv, Read
  <2>5. CASE ReadCmdline /\ ~up
    BY <1>1, <2>5, ReadStays DEF Inv, ReadCmdline
  <2>6. QED
    BY <1>1, <2>2, <2>3, <2>4, <2>5
<1>3. input.confirm
  BY <1>1 DEF Inv, Tested, ReadStat, ReadComm, ReadCmdline, At
<1>4. /\ Before /\ UNCHANGED <<input, target, asked, reply>>
      /\ pc' \in {"comm", "cmdline", "validate"}
      /\ pc' # "end" => out' = out
      /\ pc' = "end" => out'.kind # "attached"
  BY <1>1 DEF ReadStat, ReadComm, ReadCmdline, At, Goto, End, Ended, Refused, Crashed, Before, Reading, Deciding, Sending
<1>5. QED
  BY <1>1, <1>2, <1>3, <1>4, InvBefore
     DEF ReadStat, ReadComm, ReadCmdline, At, Goto, End, Labels, Reading, Deciding, Sending, Answered

\* No refusal: the owner is the user, or could not be read.
LEMMA InvValidate == Inv /\ Validate => Inv'
<1>1. SUFFICES ASSUME Inv, Validate PROVE Inv'
  OBVIOUS
<1>2. Refusals(snap, input.me) = <<>> => snap.uid \in {NoUid, input.me}
  BY DEF Refusals
<1>3. Read'
  BY <1>1, ReadStays DEF Inv, Validate
<1>4. input.confirm
  BY <1>1 DEF Inv, Tested, Validate, At
<1>5. /\ Before /\ UNCHANGED <<input, target, asked, reply>>
      /\ pc' \in {"scan", "end"}
      /\ pc' # "end" => out' = out
      /\ pc' = "end" => out'.kind # "attached"
  <2>1. Before /\ UNCHANGED <<input, target, asked, reply>>
    BY <1>1 DEF Validate, At, Before, Reading
  <2>2. \/ pc' = "scan" /\ out' = out
        \/ pc' = "end" /\ out' = Ended("error", 2, "")
        \/ pc' = "end" /\ out' = Refused(Refusals(snap, input.me)[1])
    BY <1>1 DEF Validate, Goto, End
  <2>3. QED
    BY <2>1, <2>2, EarlyEnds
<1>6. QED
  BY <1>1, <1>2, <1>3, <1>4, <1>5, InvBefore
     DEF Validate, At, Goto, End, Labels, Reading, Deciding, Sending, Answered

LEMMA InvScan == Inv /\ ScanFlags => Inv'
<1>1. SUFFICES ASSUME Inv, ScanFlags PROVE Inv'
  OBVIOUS
<1>2. FlagRefusal(snap.argv) = "" => snap.argv \cap Blocking = {}
  BY DEF FlagRefusal, Blocking
<1>3. Read'
  BY <1>1, ReadStays DEF Inv, ScanFlags
<1>4. input.confirm /\ snap.uid \in {NoUid, input.me}
  BY <1>1 DEF Inv, Tested, ScanFlags, At, Deciding
<1>5. /\ Before /\ UNCHANGED <<input, target, asked, reply>>
      /\ pc' \in {"agent", "end"}
      /\ pc' # "end" => out' = out
      /\ pc' = "end" => out'.kind # "attached"
  <2>1. Before /\ UNCHANGED <<input, target, asked, reply>>
    BY <1>1 DEF ScanFlags, At, Before, Deciding
  <2>2. \/ pc' = "agent" /\ out' = out
        \/ pc' = "end" /\ out' = Refused(FlagRefusal(snap.argv))
    BY <1>1 DEF ScanFlags, Goto, End
  <2>3. QED
    BY <2>1, <2>2, EarlyEnds
<1>6. QED
  BY <1>1, <1>2, <1>3, <1>4, <1>5, InvBefore
     DEF ScanFlags, At, Goto, End, Labels, Reading, Deciding, Sending, Answered

LEMMA InvDecide == Inv /\ (ResolveAgent \/ StartJcmd \/ StartVm) => Inv'
<1>1. SUFFICES ASSUME Inv, ResolveAgent \/ StartJcmd \/ StartVm PROVE Inv'
  OBVIOUS
<1>2. Read'
  BY <1>1, ReadStays DEF Inv, ResolveAgent, StartJcmd, StartVm
<1>3. /\ input.confirm /\ snap.uid \in {NoUid, input.me} /\ snap.argv \cap Blocking = {}
      /\ pc \in Sending => input.agent # "absent"
  BY <1>1 DEF Inv, Tested, ResolveAgent, StartJcmd, StartVm, At, Deciding, Sending
<1>4. /\ Before /\ UNCHANGED <<input, target, snap, asked, reply>>
      /\ pc' \in Sending \cup {"end"}
      /\ pc' # "end" => out' = out
      /\ pc' = "end" => out'.kind # "attached"
  <2>1. Before /\ UNCHANGED <<input, target, snap, asked, reply>>
    BY <1>1 DEF ResolveAgent, StartJcmd, StartVm, At, Before, Deciding
  <2>2. \/ pc' \in Sending /\ out' = out
        \/ pc' = "end" /\ out' \in {Ended("error", 2, ""), Ended("badparameter", 2, ""),
                                    Ended("error", 1, ""), Crashed}
    <3>1. CASE ResolveAgent
      BY <3>1 DEF ResolveAgent, Goto, End, Sending
    <3>2. CASE StartJcmd
      BY <3>2 DEF StartJcmd, Goto, End, Sending
    <3>3. CASE StartVm
      BY <3>3 DEF StartVm, Goto, End, Sending
    <3>4. QED
      BY <1>1, <3>1, <3>2, <3>3
  <2>3. "end" \notin Sending
    BY DEF Sending
  <2>4. QED
    BY <2>1, <2>2, <2>3, EarlyEnds
<1>5. pc' \in Sending => input.agent # "absent"
  BY <1>1, <1>3 DEF ResolveAgent, StartJcmd, StartVm, At, Goto, End, Sending
<1>6. QED
  BY <1>1, <1>2, <1>3, <1>4, <1>5, InvBefore DEF Labels, Reading, Deciding, Sending, Answered

-----------------------------------------------------------------------------
(* The attach tools.                                                       *)

\* A tool answers without an error just when the agent is loaded.
LEMMA Answers ==
    ASSUME WorldInv, NEW how, NEW p \in Process, NEW r \in Replies(p, how),
           input.agent # "absent"
    PROVE  /\ LoadsLibrary(p, input.me) /\ input.agent = "good" => ~LoadError(r)
           /\ ~SilentZero /\ ~LoadError(r) => LoadsLibrary(p, input.me) /\ input.agent = "good"
           /\ how # "jcmd" /\ r.rc = 0 => ~LoadError(r)
<1>1. input.agent \in {"good", "fails", "noexport"}
  BY InputTyped DEF InputType
<1>2. QED
  BY <1>1 DEF Replies, LoadsLibrary, Barred, Blocking, Said, QuietFailure, LoadError, ReturnCode, NoCode

LEMMA InvLoad == Inv /\ (Load("jcmd") \/ Load("vm")) => Inv'
<1>1. SUFFICES ASSUME Inv, NEW how \in {"jcmd", "vm"}, Load(how) PROVE Inv'
  OBVIOUS
<1>2. /\ pc \in Sending /\ asked = <<>> /\ inited = 0 /\ input.confirm
      /\ snap.uid \in {NoUid, input.me} /\ snap.argv \cap Blocking = {}
      /\ input.agent # "absent" /\ out = Running
  BY <1>1 DEF Inv, Tested, Told, Load, Sent, At, Sending
<1>3. /\ pc' = Back(how) /\ pc' \in Answered
      /\ UNCHANGED <<input, world, up, snap, looked, out>>
  BY <1>1 DEF Load, Goto, Back, Answered
<1>4. Read'
  BY <1>1, <1>3 DEF Inv, Read
<1>5. Now' = Now
  BY <1>3 DEF Now
<1>6. CASE ~up
  <2>1. reply' = Gone /\ asked' = asked /\ inited' = inited
    BY <1>1, <1>6 DEF Load
  <2>2. WorldInv' /\ Tested'
    BY <1>1, <1>2, <1>3, <2>1 DEF Inv, WorldInv, Tested, Answered, Labels, Deciding, Sending, Reading
  <2>3. LoadError(reply)' /\ reply'.rc = 1
    BY <2>1 DEF LoadError, Gone, Said
  <2>4. Told'
    <3>1. LoadError(reply)' /\ reply'.rc # 0
      BY <2>3
    <3>2. inited' = 0 /\ out' = Running
      BY <1>2, <1>3, <2>1
    <3>3. Running.kind = "running"
      BY DEF Running, Ended
    <3>4. pc' # "end"
      BY <1>3 DEF Answered
    <3>5. QED
      BY <3>1, <3>2, <3>3, <3>4 DEF Told
  <2>5. QED
    BY <1>4, <2>2, <2>4 DEF Inv
<1>7. CASE up
  <2>1. Now \in 1..Len(world) /\ Current \in Process
    BY <1>1, <1>7 DEF Inv, WorldInv, Now, Current
  <2>2. /\ asked' = <<Now>> /\ reply' \in Replies(Current, how)
        /\ inited' = IF LoadsLibrary(Current, input.me) /\ input.agent = "good"
                     THEN Now ELSE 0
    BY <1>1, <1>2, <1>7 DEF Load
  <2>3. asked'[1] = Now /\ Len(asked') = 1 /\ asked' # <<>> /\ asked' \in Seq(1..Len(world))
    BY <2>1, <2>2
  <2>4. WorldInv'
    BY <1>1, <1>3, <2>1, <2>2, <2>3 DEF Inv, WorldInv
  <2>5. Tested'
    BY <1>2, <1>3, <2>1, <2>2, <2>3 DEF Tested, Answered, Labels, Deciding, Sending, Reading
  <2>6. LoadError(reply)' <=> LoadError(reply')
    BY DEF LoadError, ReturnCode
  <2>7. /\ LoadError(reply') => inited' = 0
        /\ ~SilentZero /\ ~LoadError(reply') => inited' # 0
        /\ how # "jcmd" /\ reply'.rc = 0 => ~LoadError(reply')
    BY <1>1, <1>2, <2>1, <2>2, Answers DEF Inv
  <2>8. reply'.rc # 0 => LoadError(reply')
    BY DEF LoadError
  <2>9. Told'
    BY <1>2, <1>3, <2>6, <2>7, <2>8 DEF Told, Running, Ended, Answered, Back
  <2>10. QED
    BY <1>4, <2>4, <2>5, <2>9 DEF Inv
<1>8. QED
  BY <1>1, <1>6, <1>7 DEF Inv, WorldInv

\* An answer gets lost with the target that was asked.
LEMMA InvLost == Inv /\ ReplyLost => Inv'
<1>1. SUFFICES ASSUME Inv, ReplyLost PROVE Inv'
  OBVIOUS
<1>2. UNCHANGED <<input, world, up, inited, pc, snap, looked, asked, out>> /\ reply' = Gone
  BY <1>1 DEF ReplyLost, target
<1>3. WorldInv' /\ Read' /\ Tested'
  BY <1>1, <1>2 DEF Inv, WorldInv, Read, Tested
<1>4. inited = 0 \/ Now # inited
  <2>1. asked # <<>> /\ Len(asked) <= 1 /\ Now # asked[Len(asked)]
    BY <1>1 DEF ReplyLost, Inv, Tested
  <2>2. Len(asked) = 1
    <3>1. asked \in Seq(1..Len(world))
      BY <1>1 DEF Inv, WorldInv
    <3>2. Len(asked) # 0
      BY <2>1, <3>1
    <3>3. Len(asked) \in Nat
      BY <3>1
    <3>4. QED
      BY <2>1, <3>2, <3>3
  <2>3. QED
    BY <1>1, <2>1, <2>2 DEF Inv, Tested
<1>5. Now' = Now /\ reply'.rc = 1 /\ (LoadError(reply)' <=> LoadError(reply'))
  BY <1>2 DEF Now, Gone, Said, LoadError, ReturnCode
<1>6. LoadError(reply')
  BY <1>5 DEF LoadError
<1>7. Told'
  BY <1>1, <1>2, <1>4, <1>5, <1>6 DEF Inv, Told
<1>8. QED
  BY <1>3, <1>7 DEF Inv

LEMMA InvBack == Inv /\ (JcmdBack \/ VmBack) => Inv'
<1>1. SUFFICES ASSUME Inv, JcmdBack \/ VmBack PROVE Inv'
  OBVIOUS
<1>2. /\ UNCHANGED <<input, world, up, inited, snap, looked, asked, reply>>
      /\ pc \in Answered /\ pc' = "end"
  BY <1>1 DEF JcmdBack, VmBack, target, At, End, Answered
<1>3. WorldInv' /\ Read'
  BY <1>1, <1>2 DEF Inv, WorldInv, Read
<1>4. Tested'
  BY <1>1, <1>2 DEF Inv, Tested, Answered, Labels, Deciding, Sending, Reading
<1>5. Now' = Now
  BY <1>2 DEF Now
<1>6. /\ out'.kind = "attached" => /\ pc = "jcmd-back" => ~LoadError(reply)
                                   /\ pc = "vm-back" => reply.rc = 0
      /\ out'.kind \in {"refused", "error", "exception"} =>
             /\ pc = "jcmd-back" => LoadError(reply)
             /\ pc = "vm-back" => reply.rc # 0
  <2>1. CASE JcmdBack
    BY <2>1 DEF JcmdBack, At, End, Ended, Refused
  <2>2. CASE VmBack
    BY <2>2 DEF VmBack, At, End, Ended, Refused
  <2>3. QED
    BY <1>1, <2>1, <2>2
<1>7. Told'
  BY <1>1, <1>2, <1>5, <1>6 DEF Inv, Told, Answered
<1>8. QED
  BY <1>3, <1>4, <1>7 DEF Inv

LEMMA InvNext == Inv /\ [Next]_vars => Inv'
<1>1. CASE UNCHANGED vars
  BY <1>1 DEF vars, target, Inv, WorldInv, Read, Tested, Told, Now, LoadError, ReturnCode
<1>2. QED
  BY <1>1, InvConfirm, InvReadExists, InvReadProc, InvValidate, InvScan, InvDecide, InvLoad,
     InvBack, InvExit, InvReused, InvLost DEF Next, Command

LEMMA Invariance == Spec => []Inv
BY InvInit, InvNext, PTL DEF Spec

-----------------------------------------------------------------------------
(* The theorems.                                                           *)

\* A refusal never leaves an agent running in the process now behind the pid
\* (_report_refusal prints the reason and "agent not attached").
THEOREM RefusalIsClean == Spec => []RefusedMeansNotRunning
<1>1. Inv => RefusedMeansNotRunning
  BY DEF Inv, Told, RefusedMeansNotRunning
<1>2. QED
  BY <1>1, Invariance, PTL

\* If jcmd prints a return code whenever it exits 0 (_report_jcmd_result reads
\* it from the text), "attached" is printed only when the agent runs.
THEOREM SuccessIsTrue ==
    ASSUME ~SilentZero
    PROVE  Spec => []AttachedMeansLoaded
<1>1. Inv => AttachedMeansLoaded
  BY DEF Inv, Told, AttachedMeansLoaded
<1>2. QED
  BY <1>1, Invariance, PTL

\* The agent runs in another user's process only if the pid changed hands
\* after its owner was read (validate_attach_target).
THEOREM OwnUserOnly == Spec => []CrossUserNeedsReuse
<1>1. Inv => CrossUserNeedsReuse
  <2>1. SUFFICES ASSUME Inv, inited # 0, looked.uid = inited
                 PROVE  world[inited].owner = input.me
    BY DEF CrossUserNeedsReuse
  <2>2. snap.uid \in {NoUid, input.me}
    BY <2>1 DEF Inv, Tested
  <2>3. snap.uid = world[inited].owner
    BY <2>1 DEF Inv, Read
  <2>4. world[inited] \in Process
    BY <2>1 DEF Inv, WorldInv
  <2>5. world[inited].owner # NoUid
    BY <2>4, AttachAssumption DEF ProcessType, Users, NoUid
  <2>6. QED
    BY <2>2, <2>3, <2>5
<1>2. QED
  BY <1>1, Invariance, PTL

\* A target whose command line forbids it is not asked (scan_jvm_attach_flags).
THEOREM FlagsAreObeyed == Spec => []ForbiddenIsNotAsked
<1>1. Inv => ForbiddenIsNotAsked
  <2>1. SUFFICES ASSUME Inv, NEW i \in DOMAIN asked, looked.argv = asked[i]
                 PROVE  world[asked[i]].argv \cap Blocking = {}
    BY DEF ForbiddenIsNotAsked
  <2>2. asked # <<>> /\ asked[i] \in 1..Len(world)
    BY <2>1 DEF Inv, WorldInv
  <2>3. QED
    BY <2>1, <2>2 DEF Inv, Tested, Read
<1>2. QED
  BY <1>1, Invariance, PTL

\* Nothing is asked before the user confirmed, and nothing more than once:
\* auto turns to the second mechanism only if the first could not be run.
THEOREM AskedOnce == Spec => []AskedOnceWithConsent
<1>1. Inv => AskedOnceWithConsent
  BY DEF Inv, WorldInv, Tested, AskedOnceWithConsent
<1>2. QED
  BY <1>1, Invariance, PTL
-----------------------------------------------------------------------------
(* A reason names its cause.                                               *)

\* A field that was read came from some process; what an answer or an outcome
\* blames is true of a process the pid has named.
Blamed(reason) == \E i \in 1..Len(world) : Blame(reason, world[i])
Causes ==
    /\ snap.uid # NoUid => looked.uid # 0
    /\ snap.argv # {} => looked.argv # 0
    /\ pc = "jcmd-back" /\ LoadError(reply) => Blamed(Classify(reply, ReturnCode(reply)))
    /\ pc = "vm-back" /\ reply.rc # 0 => Blamed(Classify(reply, NoCode))
    /\ out.kind = "refused" => Blamed(out.reason)

\* Whom a tool's answer blames is to blame.
LEMMA AnswersBlame ==
    ASSUME WorldInv, NEW p \in Process, NEW how \in {"jcmd", "vm"},
           NEW r \in Replies(p, how), input.agent # "absent"
    PROVE  /\ how = "jcmd" /\ LoadError(r) => Blame(Classify(r, ReturnCode(r)), p)
           /\ how = "vm" /\ r.rc # 0 => Blame(Classify(r, NoCode), p)
<1>1. input.agent \in {"good", "fails", "noexport"}
  BY InputTyped DEF InputType
<1>2. CASE r = Said(1, {"permission"}, <<>>) /\ p.owner # input.me
  <2>1. Classify(r, NoCode) = "cross-user" /\ ReturnCode(r) = NoCode
    BY <1>2 DEF Classify, ReturnCode, Said
  <2>2. QED
    BY <1>2, <2>1 DEF Blame
<1>3. CASE /\ r = Said(1, {"socket"}, <<>>)
           /\ ~p.jvm \/ "DisableAttachMechanism" \in Barred(p)
  <2>1. Classify(r, NoCode) = "attach-disabled" /\ ReturnCode(r) = NoCode
    BY <1>3 DEF Classify, ReturnCode, Said
  <2>2. QED
    BY <1>3, <2>1 DEF Blame
<1>4. CASE \E rc \in {0, 1} : /\ r = Said(rc, {"nodyn"}, <<>>)
                              /\ "-EnableDynamicAgentLoading" \in Barred(p)
  <2>1. PICK rc \in {0, 1} : r = Said(rc, {"nodyn"}, <<>>)
    BY <1>4
  <2>2. Classify(r, NoCode) = "dynamic-agent-disabled" /\ ReturnCode(r) = NoCode
    BY <2>1 DEF Classify, ReturnCode, Said
  <2>3. QED
    BY <1>4, <2>2 DEF Blame
<1>5. CASE r = Said(1, {"noexport"}, <<>>) /\ input.agent = "noexport"
  <2>1. Classify(r, NoCode) = "agent-onattach-missing" /\ ReturnCode(r) = NoCode
    BY <1>5 DEF Classify, ReturnCode, Said
  <2>2. QED
    BY <1>5, <2>1 DEF Blame
<1>6. CASE how = "jcmd" /\ r = Said(0, {}, <<-1>>) /\ input.agent = "fails"
  <2>1. ReturnCode(r) = -1
    BY <1>6 DEF ReturnCode, Said
  <2>2. Classify(r, -1) = "jcmd-false-success"
    BY <1>6 DEF Classify, Said, NoCode
  <2>3. QED
    BY <1>6, <2>1, <2>2 DEF Blame
<1>7. CASE how = "vm" /\ r = Said(1, {"initfailed"}, <<>>) /\ input.agent = "fails"
  <2>1. Classify(r, NoCode) = "agent-init-failed"
    BY <1>7 DEF Classify, Said, NoCode
  <2>2. QED
    BY <1>7, <2>1 DEF Blame
<1>8. CASE r = Said(0, {}, IF how = "jcmd" THEN <<0>> ELSE <<>>)
  BY <1>8 DEF Said, LoadError, ReturnCode, NoCode
<1>9. QED
  BY <1>1, <1>2, <1>3, <1>4, <1>5, <1>6, <1>7, <1>8 DEF Replies, QuietFailure

\* A tool that found no process blames nothing.
LEMMA GoneBlames ==
    ASSUME WorldInv
    PROVE  Blamed(Classify(Gone, ReturnCode(Gone))) /\ Blamed(Classify(Gone, NoCode))
<1>1. Classify(Gone, NoCode) = "unknown" /\ ReturnCode(Gone) = NoCode
  BY DEF Gone, Said, Classify, NoCode, ReturnCode
<1>2. Blame("unknown", world[1]) /\ 1 \in 1..Len(world)
  BY DEF Blame, WorldInv
<1>3. QED
  BY <1>1, <1>2 DEF Blamed

\* Later processes do not take the blame from the earlier ones.
LEMMA StillBlamed ==
    ASSUME NEW reason, Blamed(reason), UNCHANGED input,
           Len(world) \in Nat, Len(world') \in Nat, Len(world') >= Len(world),
           \A i \in 1..Len(world) : world'[i] = world[i]
    PROVE  Blamed(reason)'
<1>1. PICK i \in 1..Len(world) : Blame(reason, world[i])
  BY DEF Blamed
<1>2. i \in 1..Len(world') /\ world'[i] = world[i]
  BY <1>1
<1>3. QED
  BY <1>1, <1>2 DEF Blamed, Blame

\* A step that leaves the command's own state alone keeps the causes.
LEMMA CausesKept ==
    ASSUME Causes, UNCHANGED <<input, pc, snap, looked, out>>,
           reply' = reply \/ reply' = Gone,
           WorldInv, WorldInv',
           Len(world') >= Len(world),
           \A i \in 1..Len(world) : world'[i] = world[i]
    PROVE  Causes'
<1>1. Len(world) \in Nat /\ Len(world') \in Nat
  BY DEF WorldInv
<1>2. (snap.uid # NoUid => looked.uid # 0)' /\ (snap.argv # {} => looked.argv # 0)'
  BY DEF Causes
<1>3. (pc = "jcmd-back" /\ LoadError(reply) => Blamed(Classify(reply, ReturnCode(reply))))'
  <2>1. CASE reply' = reply /\ pc = "jcmd-back" /\ LoadError(reply)
    <3>1. PICK c : c = Classify(reply, ReturnCode(reply))
      OBVIOUS
    <3>2. Blamed(c)'
      BY <1>1, <2>1, <3>1, StillBlamed DEF Causes
    <3>3. QED
      BY <2>1, <3>1, <3>2 DEF Blamed, Blame, Classify, ReturnCode
  <2>2. CASE reply' = Gone
    BY <2>2, GoneBlames DEF Blamed, Blame, Classify, ReturnCode, Gone, Said
  <2>3. QED
    BY <2>1, <2>2 DEF LoadError, ReturnCode
<1>4. (pc = "vm-back" /\ reply.rc # 0 => Blamed(Classify(reply, NoCode)))'
  <2>1. CASE reply' = reply /\ pc = "vm-back" /\ reply.rc # 0
    <3>1. PICK c : c = Classify(reply, NoCode)
      OBVIOUS
    <3>2. Blamed(c)'
      BY <1>1, <2>1, <3>1, StillBlamed DEF Causes
    <3>3. QED
      BY <2>1, <3>1, <3>2 DEF Blamed, Blame, Classify
  <2>2. CASE reply' = Gone
    BY <2>2, GoneBlames DEF Blamed, Blame, Classify, Gone, Said
  <2>3. QED
    BY <2>1, <2>2
<1>5. (out.kind = "refused" => Blamed(out.reason))'
  <2>1. SUFFICES ASSUME out'.kind = "refused" PROVE Blamed(out.reason)'
    OBVIOUS
  <2>2. PICK c : c = out.reason
    OBVIOUS
  <2>3. Blamed(c)'
    BY <1>1, <2>1, <2>2, StillBlamed DEF Causes
  <2>4. QED
    BY <2>2, <2>3 DEF Blamed, Blame
<1>6. QED
  BY <1>2, <1>3, <1>4, <1>5 DEF Causes

LEMMA CausesInit == Init => Causes
<1>1. Blank.uid = NoUid /\ Blank.argv = {} /\ Running.kind = "running"
  BY DEF Blank, Running, Ended
<1>2. QED
  BY <1>1 DEF Init, Causes

\* A step before the tools that ends with no refusal.
LEMMA CausesNoRefusal ==
    ASSUME Causes, UNCHANGED <<input, world>>, pc' \notin Answered,
           snap'.uid # NoUid => looked'.uid # 0,
           snap'.argv # {} => looked'.argv # 0,
           out'.kind # "refused"
    PROVE  Causes'
BY DEF Causes, Answered

\* A step before the tools that refuses: someone is to blame.
LEMMA CausesRefusal ==
    ASSUME Causes, UNCHANGED <<input, world, snap, looked>>, pc' = "end",
           NEW reason, out' = Refused(reason), Blamed(reason)
    PROVE  Causes'
<1>1. out'.reason = reason
  BY DEF Refused, Ended
<1>2. Blamed(out.reason)'
  BY <1>1 DEF Blamed, Blame
<1>3. QED
  BY <1>2 DEF Causes

LEMMA NotRefused ==
    /\ Running.kind # "refused" /\ Crashed.kind # "refused"
    /\ \A kind \in {"unconfirmed", "error", "badparameter", "attached"} :
           \A code, reason : Ended(kind, code, reason).kind # "refused"
BY DEF Running, Crashed, Ended

LEMMA CausesConfirm == Inv /\ Causes /\ Confirm => Causes'
<1>1. SUFFICES ASSUME Inv, Causes, Confirm PROVE Causes'
  OBVIOUS
<1>2. /\ UNCHANGED <<input, world, snap, looked>> /\ pc' \in {"exists", "end"}
      /\ out' \in {out, Ended("unconfirmed", 2, "")}
  BY <1>1 DEF Confirm, Goto, End, target
<1>3. out = Running
  BY <1>1 DEF Inv, Told, Confirm, At
<1>4. QED
  BY <1>1, <1>2, <1>3, NotRefused, CausesNoRefusal DEF Answered, Causes

LEMMA CausesRead ==
    Inv /\ Causes /\ (ReadExists \/ ProbePid \/ ReadStat \/ ReadComm \/ ReadCmdline) => Causes'
<1>1. SUFFICES ASSUME Inv, Causes, ReadExists \/ ProbePid \/ ReadStat \/ ReadComm \/ ReadCmdline
               PROVE  Causes'
  OBVIOUS
<1>2. UNCHANGED <<input, world, out>> /\ pc' \notin Answered
  BY <1>1 DEF ReadExists, ProbePid, ReadStat, ReadComm, ReadCmdline, Goto, target, Answered
<1>3. out' = Running
  BY <1>1, <1>2 DEF Inv, Told, ReadExists, ProbePid, ReadStat, ReadComm, ReadCmdline, At
<1>4. up => Now # 0
  BY <1>1 DEF Inv, WorldInv, Now
<1>5. /\ snap'.uid # NoUid => looked'.uid # 0
      /\ snap'.argv # {} => looked'.argv # 0
  <2>1. CASE ReadExists
    BY <1>1, <2>1 DEF ReadExists, Causes, Inv, Read
  <2>2. CASE ProbePid
    BY <1>1, <2>2 DEF ProbePid, Causes, Inv, Read
  <2>3. CASE ReadStat
    BY <1>1, <1>4, <2>3 DEF ReadStat, Causes, Inv, Read
  <2>4. CASE ReadComm
    BY <1>1, <2>4 DEF ReadComm, Causes, Inv, Read
  <2>5. CASE ReadCmdline
    BY <1>1, <1>4, <2>5 DEF ReadCmdline, Causes, Inv, Read
  <2>6. QED
    BY <1>1, <2>1, <2>2, <2>3, <2>4, <2>5
<1>6. QED
  BY <1>1, <1>2, <1>3, <1>5, NotRefused, CausesNoRefusal

\* The owner read is the owner of the process looked at.
LEMMA CausesValidate == Inv /\ Causes /\ Validate => Causes'
<1>1. SUFFICES ASSUME Inv, Causes, Validate PROVE Causes'
  OBVIOUS
<1>2. UNCHANGED <<input, world, snap, looked>> /\ out = Running
  BY <1>1 DEF Validate, target, Inv, Told, At
<1>3. CASE out' \in {out, Ended("error", 2, "")} /\ pc' \in {"scan", "end"}
  BY <1>1, <1>2, <1>3, NotRefused, CausesNoRefusal DEF Answered, Causes
<1>4. CASE /\ pc' = "end" /\ Refusals(snap, input.me) # <<>>
           /\ out' = Refused(Refusals(snap, input.me)[1])
  <2>1. PICK c : c = Refusals(snap, input.me)[1]
    OBVIOUS
  <2>2. \/ c = "cross-user" /\ snap.uid # NoUid /\ snap.uid # input.me
        \/ c = "not-a-jvm"
    BY <1>4, <2>1 DEF Refusals
  <2>3. CASE c = "cross-user" /\ snap.uid # NoUid /\ snap.uid # input.me
    <3>1. looked.uid \in 1..Len(world) /\ world[looked.uid].owner # input.me
      BY <1>1, <2>3 DEF Causes, Inv, Read, WorldInv
    <3>2. Blame(c, world[looked.uid])
      BY <2>3, <3>1 DEF Blame
    <3>3. QED
      BY <1>1, <1>2, <1>4, <2>1, <3>1, <3>2, CausesRefusal DEF Blamed
  <2>4. CASE c = "not-a-jvm"
    <3>1. Blame(c, world[1]) /\ 1 \in 1..Len(world)
      BY <1>1, <2>4 DEF Blame, Inv, WorldInv
    <3>2. QED
      BY <1>1, <1>2, <1>4, <2>1, <3>1, CausesRefusal DEF Blamed
  <2>5. QED
    BY <2>2, <2>3, <2>4
<1>5. QED
  BY <1>1, <1>3, <1>4 DEF Validate, Goto, End

\* The flags read are those of the process looked at.
LEMMA CausesScan == Inv /\ Causes /\ ScanFlags => Causes'
<1>1. SUFFICES ASSUME Inv, Causes, ScanFlags PROVE Causes'
  OBVIOUS
<1>2. UNCHANGED <<input, world, snap, looked>> /\ out = Running
  BY <1>1 DEF ScanFlags, target, Inv, Told, At
<1>3. CASE out' = out /\ pc' = "agent"
  BY <1>1, <1>2, <1>3, NotRefused, CausesNoRefusal DEF Answered, Causes
<1>4. CASE /\ pc' = "end" /\ FlagRefusal(snap.argv) # ""
           /\ out' = Refused(FlagRefusal(snap.argv))
  <2>1. PICK c : c = FlagRefusal(snap.argv)
    OBVIOUS
  <2>2. \/ c = "attach-disabled" /\ "DisableAttachMechanism" \in snap.argv
        \/ c = "dynamic-agent-disabled" /\ "-EnableDynamicAgentLoading" \in snap.argv
    BY <1>4, <2>1 DEF FlagRefusal
  <2>3. snap.argv # {}
    BY <2>2
  <2>4. looked.argv \in 1..Len(world) /\ world[looked.argv].argv = snap.argv
    BY <1>1, <2>3 DEF Causes, Inv, Read, WorldInv
  <2>5. Blame(c, world[looked.argv])
    BY <2>2, <2>4 DEF Blame, Barred
  <2>6. QED
    BY <1>1, <1>2, <1>4, <2>1, <2>4, <2>5, CausesRefusal DEF Blamed
<1>5. QED
  BY <1>1, <1>3, <1>4 DEF ScanFlags, Goto, End

LEMMA CausesDecide == Inv /\ Causes /\ (ResolveAgent \/ StartJcmd \/ StartVm) => Causes'
<1>1. SUFFICES ASSUME Inv, Causes, ResolveAgent \/ StartJcmd \/ StartVm PROVE Causes'
  OBVIOUS
<1>2. UNCHANGED <<input, world, snap, looked>> /\ out = Running
  BY <1>1 DEF ResolveAgent, StartJcmd, StartVm, target, Inv, Told, At
<1>3. /\ pc' \notin Answered
      /\ out' \in {out, Ended("error", 2, ""), Ended("badparameter", 2, ""),
                   Ended("error", 1, ""), Crashed}
  <2>1. CASE ResolveAgent
    BY <2>1 DEF ResolveAgent, Goto, End, Answered
  <2>2. CASE StartJcmd
    BY <2>2 DEF StartJcmd, Goto, End, Answered
  <2>3. CASE StartVm
    BY <2>3 DEF StartVm, Goto, End, Answered
  <2>4. QED
    BY <1>1, <2>1, <2>2, <2>3
<1>4. QED
  BY <1>1, <1>2, <1>3, NotRefused, CausesNoRefusal DEF Causes

LEMMA CausesLoad == Inv /\ Causes /\ (Load("jcmd") \/ Load("vm")) => Causes'
<1>1. SUFFICES ASSUME Inv, Causes, NEW how \in {"jcmd", "vm"}, Load(how) PROVE Causes'
  OBVIOUS
<1>2. /\ UNCHANGED <<input, world, up, snap, looked, out>>
      /\ pc' = Back(how) /\ input.agent # "absent" /\ out = Running
  BY <1>1 DEF Load, Goto, At, Sent, Inv, Tested, Told, Sending
<1>3. /\ how = "jcmd" /\ LoadError(reply)' => Blamed(Classify(reply, ReturnCode(reply)))'
      /\ how = "vm" /\ reply'.rc # 0 => Blamed(Classify(reply, NoCode))'
  <2>1. CASE ~up
    BY <1>1, <1>2, <2>1, GoneBlames
       DEF Load, Inv, Blamed, Blame, Classify, ReturnCode, Gone, Said
  <2>2. CASE up
    <3>1. Current \in Process /\ Current = world[Len(world)] /\ Len(world) \in 1..Len(world)
      BY <1>1 DEF Inv, WorldInv, Current
    <3>2. PICK r \in Replies(Current, how) : reply' = r
      BY <1>1, <2>2 DEF Load
    <3>3. /\ how = "jcmd" /\ LoadError(r) => Blame(Classify(r, ReturnCode(r)), world[Len(world)])
          /\ how = "vm" /\ r.rc # 0 => Blame(Classify(r, NoCode), world[Len(world)])
      BY <1>1, <1>2, <3>1, AnswersBlame DEF Inv
    <3>4. /\ LoadError(reply)' <=> LoadError(r)
          /\ Classify(reply, ReturnCode(reply))' = Classify(r, ReturnCode(r))
          /\ Classify(reply, NoCode)' = Classify(r, NoCode)
      BY <3>2 DEF LoadError, ReturnCode, Classify
    <3>5. PICK c, d : c = Classify(r, ReturnCode(r)) /\ d = Classify(r, NoCode)
      OBVIOUS
    <3>6. /\ Blame(c, world[Len(world)]) => Blamed(c)'
          /\ Blame(d, world[Len(world)]) => Blamed(d)'
      BY <1>2, <3>1 DEF Blamed, Blame
    <3>7. /\ how = "jcmd" /\ LoadError(reply)' => Blamed(c)'
          /\ how = "vm" /\ r.rc # 0 => Blamed(d)'
      BY <3>3, <3>4, <3>5, <3>6
    <3>8. /\ Blamed(c)' => Blamed(Classify(reply, ReturnCode(reply)))'
          /\ Blamed(d)' => Blamed(Classify(reply, NoCode))'
      BY <3>4, <3>5 DEF Blamed, Blame
    <3>9. QED
      BY <3>2, <3>7, <3>8
  <2>3. QED
    BY <2>1, <2>2
<1>4. QED
  BY <1>1, <1>2, <1>3, NotRefused DEF Causes, Back

LEMMA CausesBack == Inv /\ Causes /\ (JcmdBack \/ VmBack) => Causes'
<1>1. SUFFICES ASSUME Inv, Causes, JcmdBack \/ VmBack PROVE Causes'
  OBVIOUS
<1>2. UNCHANGED <<input, world, snap, looked>> /\ pc' = "end"
  BY <1>1 DEF JcmdBack, VmBack, target, End
<1>3. CASE out' = Ended("attached", 0, "")
  BY <1>1, <1>2, <1>3, NotRefused, CausesNoRefusal DEF Answered, Causes
<1>4. CASE \E reason : out' = Refused(reason) /\ Blamed(reason)
  BY <1>1, <1>2, <1>4, CausesRefusal
<1>5. CASE JcmdBack
  BY <1>1, <1>3, <1>4, <1>5 DEF JcmdBack, At, End, Causes
<1>6. CASE VmBack
  BY <1>1, <1>3, <1>4, <1>6 DEF VmBack, At, End, Causes
<1>7. QED
  BY <1>1, <1>5, <1>6

LEMMA CausesNext == Inv /\ Inv' /\ Causes /\ [Next]_vars => Causes'
<1>1. SUFFICES ASSUME Inv, Inv', Causes, [Next]_vars PROVE Causes'
  OBVIOUS
<1>2. WorldInv /\ WorldInv' /\ Len(world) \in Nat
  BY <1>1 DEF Inv, WorldInv
<1>3. CASE UNCHANGED vars
  BY <1>1, <1>2, <1>3, CausesKept DEF vars
<1>4. CASE ProcExit
  BY <1>1, <1>2, <1>4, CausesKept DEF ProcExit
<1>5. CASE PidReused
  <2>1. /\ Len(world') >= Len(world) /\ \A i \in 1..Len(world) : world'[i] = world[i]
    BY <1>2, <1>5 DEF PidReused, WorldInv
  <2>2. QED
    BY <1>1, <1>2, <1>5, <2>1, CausesKept DEF PidReused
<1>6. CASE ReplyLost
  BY <1>1, <1>2, <1>6, CausesKept DEF ReplyLost, target
<1>7. QED
  BY <1>1, <1>3, <1>4, <1>5, <1>6, CausesConfirm, CausesRead, CausesValidate, CausesScan,
     CausesDecide, CausesLoad, CausesBack DEF Next, Command

\* The classifier and the tests before it blame a flag, the owner or the agent
\* only if that is what stopped a process the pid has named.
THEOREM BlameIsJust == Spec => []ReasonNamesCause
<1>1. Inv /\ Causes => ReasonNamesCause
  BY DEF Inv, WorldInv, Causes, Blamed, ReasonNamesCause
<1>2. Spec => []Causes
  BY Invariance, CausesInit, CausesNext, PTL DEF Spec
<1>3. QED
  BY <1>1, <1>2, Invariance, PTL

=============================================================================
