---------------------------- MODULE LiveObserve ----------------------------
(***************************************************************************)
(* The Linux live pass of the native-x86 host (observe_linux.c, run_live): *)
(* attach to a process with ptrace, put an INT3 on the entry of every      *)
(* watched export, report a call-site record when one is hit, step the     *)
(* target over the restored byte, put a one-shot INT3 on the return        *)
(* address, and at the end restore every byte and detach.                  *)
(*                                                                         *)
(* Two parties move.  The host is the code of run_live: one action from    *)
(* one waitpid (or other blocking point) to the next, since nothing but a  *)
(* SIGKILL touches a stopped tracee between two of the host's requests;    *)
(* OpFails lets any request in between fail, with EIO or with ESRCH.  The  *)
(* target, together with the kernel, is the environment: it calls and      *)
(* returns from functions, executes the byte at its RIP whatever that byte *)
(* now is, gets signals, starts threads, exits or is killed at any time.   *)
(*                                                                         *)
(* Code is abstracted to the byte at the addresses where a breakpoint may  *)
(* be placed: "orig" or "int3".  Everything else the target executes is    *)
(* Nowhere.  RIP = a + 1, where the CPU is left after executing the INT3   *)
(* at a, is rip = a with past = TRUE.                                      *)
(***************************************************************************)
EXTENDS Integers, FiniteSets, Sequences

CONSTANTS
    Addr,           \* code addresses where a breakpoint may be placed
    Entry,          \* those the symbol scan may resolve for a watch
    Site,           \* return addresses found on the stack
    Nowhere,        \* any other code address; on the stack, the word 0
    MaxBps,         \* NX86_MAX_BREAKPOINTS
    MaxReturns,     \* NX86_MAX_RETURNS
    MaxCallEvents,  \* cfg->max_call_events, 0 for no cap
    HasBudget,      \* cfg->max_seconds > 0
    MaxCalls,       \* bound: calls of watched exports the target makes
    MaxDepth,       \* bound: nesting of those calls
    MaxFaults,      \* bound: ptrace requests that fail with EIO
    MaxSignals,     \* bound: benign signals sent to the target
    OwnTraps,       \* the target may raise a SIGTRAP of its own
    MayThread       \* the target may start a second thread

ASSUME LiveAssumption ==
    /\ Nowhere \notin Addr
    /\ Entry \subseteq Addr
    /\ Site \subseteq Addr \cup {Nowhere}
    /\ MaxBps \in Nat /\ MaxReturns \in Nat /\ MaxCallEvents \in Nat
    /\ MaxCalls \in Nat /\ MaxDepth \in Nat
    /\ MaxFaults \in Nat /\ MaxSignals \in Nat
    /\ HasBudget \in BOOLEAN
    /\ OwnTraps \in BOOLEAN /\ MayThread \in BOOLEAN

VARIABLES
    \* ---- the target and the kernel
    mem,        \* the byte now at each address
    rip, past,  \* where the target is (past: one byte beyond an INT3)
    stack,      \* watched calls in progress: function and return address
    tstate,     \* "run", "step", "stop" (ptrace), "jobstop" or "dead"
    traced,     \* the host is attached
    stopSig,    \* why a ptrace-stopped target is stopped
    news,       \* waitpid has a state change to report
    pending,    \* signals sent and not yet delivered
    groupStop,  \* a SIGSTOP was delivered: the group stops once untraced
    threads,    \* threads of the target
    fate,       \* what ended it: "none", "exit", "int3" or "derailed"
    \* ---- the host
    pc,         \* where run_live is
    bps, nBps,  \* the entry breakpoints
    rbs, nRbs,  \* the return breakpoints
    cur,        \* the breakpoint being stepped over
    status,     \* run_status
    alive,      \* target_alive
    alarm,      \* "off", "set" or "fired" (g_alarm_fired)
    callEvents, \* call_events
    \* ---- history and the counters of the bounds
    enters, returns,  \* call-site records emitted, by function
    ran,              \* executions of a function's entry while it is armed
    lost,             \* a benign signal was suppressed by the host
    calls, faults, signals

memory == <<mem, rip, past, stack>>
kernel == <<tstate, traced, stopSig, news, pending, groupStop, threads, fate>>
tables == <<bps, nBps, rbs, nRbs>>
control == <<cur, status, alive, alarm, callEvents>>
history == <<enters, returns, ran, lost>>
bounds == <<calls, faults, signals>>
vars == <<memory, kernel, pc, tables, control, history, bounds>>

Byte == {"orig", "int3"}
Signal == {"USR", "STOP"}
Frame == [fn : Entry, ret : Site]
Breakpoint == [addr : Addr \cup {Nowhere}, saved : Byte, armed : BOOLEAN]
ReturnBp == [addr : Addr \cup {Nowhere}, fn : Addr \cup {Nowhere},
             saved : Byte, active : BOOLEAN]
Current == [kind : {"none", "entry", "return"}, idx : Nat,
            ret : Addr \cup {Nowhere}]

NoBp == [addr |-> Nowhere, saved |-> "orig", armed |-> FALSE]
NoRb == [addr |-> Nowhere, fn |-> Nowhere, saved |-> "orig", active |-> FALSE]
NoCur == [kind |-> "none", idx |-> 0, ret |-> Nowhere]

Init ==
    /\ mem = [a \in Addr |-> "orig"]
    /\ rip = Nowhere /\ past = FALSE /\ stack = <<>>
    /\ tstate = "run" /\ traced = FALSE /\ stopSig = "none" /\ news = FALSE
    /\ pending = {} /\ groupStop = FALSE /\ fate = "none"
    /\ threads \in (IF MayThread THEN {1, 2} ELSE {1})
    /\ pc = "gate"
    /\ bps = [i \in 1..MaxBps |-> NoBp] /\ nBps = 0
    /\ rbs = [i \in 1..MaxReturns |-> NoRb] /\ nRbs = 0
    /\ cur = NoCur /\ status = "OK" /\ alive = TRUE
    /\ alarm = "off" /\ callEvents = 0
    /\ enters = [f \in Entry |-> 0] /\ returns = [f \in Entry |-> 0]
    /\ ran = [f \in Entry |-> 0] /\ lost = FALSE
    /\ calls = 0 /\ faults = 0 /\ signals = 0

-----------------------------------------------------------------------------
(* The breakpoint tables.                                                  *)

\* find_entry_bp and find_return_bp: the records in use at an address.
EntryBps(a) == {i \in 1..nBps : bps[i].armed /\ bps[i].addr = a}
ReturnBps(a) == {i \in 1..nRbs : rbs[i].active /\ rbs[i].addr = a}

\* The record a linear search finds.
First_Last(S) == CHOOSE i \in S : \A j \in S : i >= j

First(S) == CHOOSE i \in S : \A j \in S : i <= j

\* plan_restores: each patched address once, with the byte saved by the first
\* record that names it, entries before returns.
Planned == {a \in Addr : EntryBps(a) # {} \/ ReturnBps(a) # {}}
PlannedByte(a) == IF EntryBps(a) # {} THEN bps[First(EntryBps(a))].saved
                  ELSE rbs[First(ReturnBps(a))].saved

-----------------------------------------------------------------------------
(* What the kernel does for the host.                                      *)

\* The target dies; its tracer is told.
Die(how) ==
    /\ tstate' = "dead" /\ stopSig' = "none" /\ news' = traced
    /\ fate' = IF fate = "none" THEN how ELSE fate

\* The target stops under ptrace and its tracer is told.
TraceStop(why) ==
    /\ tstate' = "stop" /\ stopSig' = why /\ news' = TRUE

OpFails_SkipsCleanup ==
    \/ /\ tstate # "dead" /\ faults < MaxFaults
       /\ faults' = faults + 1
       /\ alive' = FALSE /\ news' = FALSE
       /\ UNCHANGED <<tstate, stopSig, fate, status>>
    \/ /\ Die("exit")
       /\ alive' = FALSE
       /\ UNCHANGED <<status, faults>>

\* A ptrace request of the host fails.  ESRCH: the target has been killed, the
\* loop ends with nothing to clean up.  Any other error fails the run.
OpFails ==
    \/ /\ tstate # "dead" /\ faults < MaxFaults
       /\ faults' = faults + 1
       /\ status' = "FAIL" /\ news' = FALSE
       /\ UNCHANGED <<tstate, stopSig, fate, alive>>
    \/ /\ Die("exit")
       /\ alive' = FALSE
       /\ UNCHANGED <<status, faults>>

\* PTRACE_CONT with signal sig ("none" for 0).  A SIGSTOP that is delivered
\* starts a group stop, which the tracer sees as one more stop.
Resume(sig) ==
    /\ tstate = "stop"
    /\ lost' = (lost \/ (stopSig = "USR" /\ sig # "USR"))
    /\ IF stopSig = "STOP" /\ sig = "STOP"
       THEN TraceStop("GROUP") /\ groupStop' = TRUE
       ELSE /\ tstate' = "run" /\ stopSig' = "none" /\ news' = FALSE
            /\ UNCHANGED groupStop

\* PTRACE_DETACH (or the tracer's exit) with no signal.
Release ==
    /\ traced' = FALSE /\ stopSig' = "none" /\ news' = FALSE
    /\ lost' = (lost \/ stopSig = "USR")
    /\ tstate' = IF tstate = "dead" THEN "dead"
                 ELSE IF groupStop THEN "jobstop" ELSE "run"

-----------------------------------------------------------------------------
(* Before the loop.                                                        *)

\* The read-only pass: modules and symbols from disk, the target untouched.
ReadOnly ==
    /\ pc' = "done" /\ status' \in {"OK", "FAIL"}
    /\ UNCHANGED <<memory, kernel, tables, cur, alive, alarm, callEvents,
                   history>>

\* count_task_threads: -1 (unreadable) is not more than one thread.
Gate ==
    /\ pc = "gate"
    /\ \/ /\ threads > 1
          /\ ReadOnly /\ UNCHANGED bounds
       \/ /\ threads = 1 \/ faults < MaxFaults
          /\ faults' = IF threads = 1 THEN faults ELSE faults + 1
          /\ pc' = "attach"
          /\ UNCHANGED <<memory, kernel, tables, control, history, calls,
                         signals>>

\* PTRACE_ATTACH sends the target a SIGSTOP; refused, the pass is read-only.
Attach ==
    /\ pc = "attach"
    /\ \/ ReadOnly /\ UNCHANGED bounds
       \/ /\ tstate # "dead"
          /\ traced' = TRUE /\ pending' = pending \cup {"STOP"}
          /\ pc' = "attachWait"
          /\ UNCHANGED <<memory, tstate, stopSig, news, groupStop, threads,
                         fate, tables, control, history, bounds>>

\* The first waitpid; whatever it reports is taken for the attach stop.
AttachWait ==
    /\ pc = "attachWait" /\ news
    /\ news' = FALSE /\ pc' = "scan"
    /\ UNCHANGED <<memory, tstate, traced, stopSig, pending, groupStop,
                   threads, fate, tables, control, history, bounds>>

\* The first waitpid fails: a best-effort detach, which a running target
\* refuses.
AttachWaitFails ==
    /\ pc = "attachWait" /\ faults < MaxFaults
    /\ faults' = faults + 1 /\ status' = "FAIL" /\ pc' = "done"
    /\ IF tstate = "stop" THEN Release
       ELSE UNCHANGED <<traced, stopSig, news, lost, tstate>>
    /\ UNCHANGED <<memory, pending, groupStop, threads, fate, tables, cur,
                   alive, alarm, callEvents, enters, returns, ran, calls,
                   signals>>

\* scan_all_modules fills the entry table, at most MaxBps records; the
\* duplicate filter remembers 512 symbols, so an address may come twice.
Scan ==
    /\ pc = "scan"
    /\ \/ /\ faults < MaxFaults \/ tstate = "dead"
          /\ faults' = IF tstate = "dead" THEN faults ELSE faults + 1
          /\ status' = "FAIL" /\ pc' = "cleanup"
          /\ UNCHANGED <<bps, nBps>>
       \/ \E n \in 0..MaxBps, at \in [1..MaxBps -> Entry] :
          /\ nBps' = n
          /\ bps' = [i \in 1..MaxBps |->
                        IF i <= n
                        THEN [addr |-> at[i], saved |-> "orig",
                              armed |-> FALSE]
                        ELSE NoBp]
          /\ pc' = IF n = 0 THEN "cleanup" ELSE "arm"
          /\ UNCHANGED <<status, faults>>
    /\ UNCHANGED <<memory, kernel, rbs, nRbs, cur, alive, alarm, callEvents,
                   history, calls, signals>>

\* The byte bp_insert saves for record i when the inserts of F fail: its own
\* INT3 if an earlier record already patched the address.
SavedBy(i, F) ==
    IF \E j \in (1..(i - 1)) \ F : bps[j].addr = bps[i].addr
    THEN "int3" ELSE mem[bps[i].addr]

\* The arming loop.  Any failed insert fails the run after a cleanup.
Arm ==
    /\ pc = "arm" /\ tstate # "dead"
    /\ \E F \in SUBSET (1..nBps) :
       /\ F # {} => faults < MaxFaults
       /\ faults' = IF F = {} THEN faults ELSE faults + 1
       /\ bps' = [i \in 1..MaxBps |->
                    IF i \in (1..nBps) \ F
                    THEN [addr |-> bps[i].addr, saved |-> SavedBy(i, F),
                          armed |-> TRUE]
                    ELSE bps[i]]
       /\ mem' = [a \in Addr |->
                    IF \E i \in (1..nBps) \ F : bps[i].addr = a
                    THEN "int3" ELSE mem[a]]
       /\ IF F = {} THEN pc' = "start" /\ UNCHANGED status
          ELSE pc' = "cleanup" /\ status' = "FAIL"
    /\ UNCHANGED <<rip, past, stack, kernel, nBps, rbs, nRbs, cur, alive,
                   alarm, callEvents, history, calls, signals>>

\* The target is found gone while arming: nothing is left in place.
ArmGone ==
    /\ pc = "arm" /\ Die("exit")
    /\ alive' = FALSE /\ pc' = "done"
    /\ UNCHANGED <<memory, traced, pending, groupStop, threads, tables, cur,
                   status, alarm, callEvents, history, bounds>>

\* The alarm is set and the target resumed, whatever signal stopped it.
Start ==
    /\ pc = "start"
    /\ alarm' = IF HasBudget THEN "set" ELSE "off"
    /\ \/ /\ Resume("none") /\ pc' = "wait"
          /\ UNCHANGED <<fate, status, alive, faults>>
       \/ /\ OpFails /\ pc' = "cleanup"
          /\ UNCHANGED <<lost, groupStop>>
    /\ UNCHANGED <<memory, traced, pending, threads, tables, cur, callEvents,
                   enters, returns, ran, calls, signals>>

-----------------------------------------------------------------------------
(* The event loop.                                                         *)

WaitExit_Ignored ==
    /\ pc = "wait" /\ news /\ tstate = "dead"
    /\ news' = FALSE
    /\ UNCHANGED <<memory, tstate, traced, stopSig, pending, groupStop,
                   threads, fate, pc, tables, control, history, bounds>>

\* waitpid reports that the target is gone.
WaitExit ==
    /\ pc = "wait" /\ news /\ tstate = "dead"
    /\ news' = FALSE /\ alive' = FALSE /\ pc' = "cleanup"
    /\ UNCHANGED <<memory, tstate, traced, stopSig, pending, groupStop,
                   threads, fate, tables, cur, status, alarm, callEvents,
                   history, bounds>>

\* waitpid reports a SIGTRAP stop.
WaitTrap ==
    /\ pc = "wait" /\ news /\ stopSig = "TRAP"
    /\ news' = FALSE /\ pc' = "trap"
    /\ UNCHANGED <<memory, tstate, traced, stopSig, pending, groupStop,
                   threads, fate, tables, control, history, bounds>>

WaitSignal_NeverResumes ==
    /\ pc = "wait" /\ news /\ stopSig \in {"USR", "STOP", "GROUP"}
    /\ news' = FALSE
    /\ UNCHANGED <<memory, tstate, traced, stopSig, pending, groupStop,
                   threads, fate, pc, tables, control, history, bounds>>

\* waitpid reports another stop: its signal is forwarded (cont_or_fail).
WaitSignal ==
    /\ pc = "wait" /\ news /\ stopSig \in {"USR", "STOP", "GROUP"}
    /\ \/ /\ Resume(IF stopSig = "USR" THEN "USR" ELSE "STOP")
          /\ UNCHANGED <<fate, pc, status, alive, faults>>
       \/ /\ OpFails /\ pc' = "cleanup"
          /\ UNCHANGED <<lost, groupStop>>
    /\ UNCHANGED <<memory, traced, pending, threads, tables, cur, alarm,
                   callEvents, enters, returns, ran, calls, signals>>

\* The alarm interrupts the blocked waitpid: kill(SIGSTOP), wait again.
WaitInterrupted ==
    /\ pc = "wait" /\ ~news /\ alarm = "set"
    /\ alarm' = "fired"
    /\ pending' = pending \cup {"STOP"}
    /\ pc' = "stopWait"
    /\ UNCHANGED <<memory, tstate, traced, stopSig, news, groupStop, threads,
                   fate, tables, cur, status, alive, callEvents, history,
                   bounds>>

\* Whatever the second waitpid reports is taken for that stop.
StopWait ==
    /\ pc = "stopWait" /\ news
    /\ news' = FALSE /\ pc' = "cleanup"
    /\ UNCHANGED <<memory, tstate, traced, stopSig, pending, groupStop,
                   threads, fate, tables, control, history, bounds>>

\* The alarm fires while the host is not blocked: only the flag is set.  The
\* moment just before it blocks is one of these.
AlarmFires ==
    /\ pc # "done" /\ pc # "exit" /\ alarm = "set"
    /\ alarm' = "fired"
    /\ UNCHANGED <<memory, kernel, pc, tables, cur, status, alive,
                   callEvents, history, bounds>>

-----------------------------------------------------------------------------
(* A SIGTRAP stop: the host works on the stopped target.                   *)

\* The end of a handler: the event cap leaves the loop, else resume.
CapReached == MaxCallEvents > 0 /\ callEvents >= MaxCallEvents

\* The word at the top of the stack when an entry is reached.
TopRet == IF stack = <<>> THEN Nowhere ELSE stack[Len(stack)].ret

\* The breakpoint a stop belongs to; an entry wins over a return.
HitEntry == past /\ EntryBps(rip) # {}
HitReturn == past /\ EntryBps(rip) = {} /\ ReturnBps(rip) # {}

PeekFails_Unreported ==
    /\ pc = "trap" /\ pc' = "cleanup"
    /\ UNCHANGED <<memory, kernel, tables, control, history, bounds>>

\* RIP, or RSP, cannot be read: no record is emitted.
PeekFails ==
    /\ pc = "trap" /\ OpFails /\ pc' = "cleanup"
    /\ UNCHANGED <<memory, traced, pending, groupStop, threads, tables, cur,
                   alarm, callEvents, history, calls, signals>>

\* The record is emitted, RIP rewound, the byte restored, the step started;
\* the target is left as the first request that failed found it.
Emit(count, f) ==
    /\ count' = [count EXCEPT ![f] = @ + 1]
    /\ callEvents' = callEvents + 1

BeginStep(saved) ==
    \/ /\ tstate = "stop"
       /\ past' = FALSE
       /\ mem' = [mem EXCEPT ![rip] = saved]
       /\ tstate' = "step" /\ stopSig' = "none" /\ news' = FALSE
       /\ pc' = "step"
       /\ UNCHANGED <<fate, status, alive, faults>>
    \/ /\ OpFails /\ pc' = "cleanup"
       /\ \/ UNCHANGED <<past, mem>>                            \* POKEUSER
          \/ past' = FALSE /\ UNCHANGED mem                     \* restore
          \/ past' = FALSE /\ mem' = [mem EXCEPT ![rip] = saved] \* SINGLESTEP

TrapEntry ==
    /\ pc = "trap" /\ HitEntry
    /\ LET i == First(EntryBps(rip)) IN
       /\ Emit(enters, bps[i].addr)
       /\ BeginStep(bps[i].saved)
       /\ \/ cur' = [kind |-> "entry", idx |-> i, ret |-> TopRet]
          \/ cur' = [kind |-> "entry", idx |-> i, ret |-> Nowhere] \* ~ret_ok
    /\ UNCHANGED <<rip, stack, traced, pending, groupStop, threads, tables,
                   alarm, returns, ran, lost, calls, signals>>

TrapReturn ==
    /\ pc = "trap" /\ HitReturn
    /\ LET i == First(ReturnBps(rip)) IN
       /\ Emit(returns, rbs[i].fn)
       /\ BeginStep(rbs[i].saved)
       /\ cur' = [kind |-> "return", idx |-> i, ret |-> Nowhere]
    /\ UNCHANGED <<rip, stack, traced, pending, groupStop, threads, tables,
                   alarm, enters, ran, lost, calls, signals>>

\* A trap the host did not place: restore, detach, fail.
TrapUnexpected ==
    /\ pc = "trap" /\ ~HitEntry /\ ~HitReturn
    /\ status' = "FAIL" /\ pc' = "cleanup"
    /\ UNCHANGED <<memory, kernel, tables, cur, alive, alarm, callEvents,
                   history, bounds>>

-----------------------------------------------------------------------------
(* The waitpid inside bp_step_over and bp_step_off.                        *)

\* The target exited during the step; a return record is cleared first.
StepExit ==
    /\ pc = "step" /\ news /\ tstate = "dead"
    /\ news' = FALSE /\ alive' = FALSE /\ pc' = "cleanup"
    /\ rbs' = IF cur.kind = "return"
              THEN [rbs EXCEPT ![cur.idx].active = FALSE] ELSE rbs
    /\ UNCHANGED <<memory, tstate, traced, stopSig, pending, groupStop,
                   threads, fate, bps, nBps, nRbs, cur, status, alarm,
                   callEvents, history, bounds>>

\* A stop that is not the step's trap fails the run.
StepOther ==
    /\ pc = "step" /\ news /\ stopSig \in {"USR", "STOP", "GROUP"}
    /\ news' = FALSE /\ status' = "FAIL" /\ pc' = "cleanup"
    /\ UNCHANGED <<memory, tstate, traced, stopSig, pending, groupStop,
                   threads, fate, tables, cur, alive, alarm, callEvents,
                   history, bounds>>

\* So does the alarm, whose EINTR the step does not retry.
StepInterrupted ==
    /\ pc = "step" /\ ~news /\ alarm = "set"
    /\ alarm' = "fired" /\ status' = "FAIL" /\ pc' = "cleanup"
    /\ UNCHANGED <<memory, kernel, tables, cur, alive, callEvents, history,
                   bounds>>

\* Leave the loop at the cap, else PTRACE_CONT.
Proceed ==
    \/ /\ CapReached /\ pc' = "cleanup"
       /\ news' = FALSE
       /\ UNCHANGED <<tstate, stopSig, fate, lost, groupStop, status, alive,
                      faults>>
    \/ /\ ~CapReached /\ Resume("none") /\ pc' = "wait"
       /\ UNCHANGED <<fate, status, alive, faults>>
    \/ /\ ~CapReached /\ OpFails /\ pc' = "cleanup"
       /\ UNCHANGED <<lost, groupStop>>

StepFails ==
    /\ OpFails /\ pc' = "cleanup"
    /\ UNCHANGED <<lost, groupStop>>

\* Whether a return breakpoint for cur is to be placed.
WantReturn ==
    /\ cur.ret # Nowhere
    /\ ReturnBps(cur.ret) = {}
    /\ EntryBps(cur.ret) = {}
    /\ nRbs < MaxReturns

\* The one-shot record of the return address of cur, a call of the export at a.
ReturnRecord_NamesSite(a, saved) ==
    [addr |-> cur.ret, fn |-> cur.ret, saved |-> saved, active |-> TRUE]

ReturnRecord(a, saved) ==
    [addr |-> cur.ret, fn |-> a, saved |-> saved, active |-> TRUE]

\* The re-insert at the end of bp_step_over.
Rearmed_Forgets(a) == mem

Rearmed(a) == [mem EXCEPT ![a] = "int3"]

\* bp_step_over returned: the entry is patched again, the return armed.
StepEntry ==
    /\ pc = "step" /\ news /\ stopSig = "TRAP" /\ cur.kind = "entry"
    /\ LET a == bps[cur.idx].addr
           rearmed == Rearmed(a)
       IN \/ StepFails /\ UNCHANGED <<mem, rbs, nRbs>>     \* re-insert
          \/ /\ WantReturn /\ StepFails                    \* return insert
             /\ mem' = rearmed /\ UNCHANGED <<rbs, nRbs>>
          \/ /\ WantReturn /\ Proceed
             /\ mem' = [rearmed EXCEPT ![cur.ret] = "int3"]
             /\ nRbs' = nRbs + 1
             /\ rbs' = [rbs EXCEPT ![nRbs + 1] =
                          ReturnRecord(a, rearmed[cur.ret])]
          \/ /\ ~WantReturn /\ Proceed
             /\ mem' = rearmed /\ UNCHANGED <<rbs, nRbs>>
    /\ UNCHANGED <<rip, past, stack, traced, pending, threads, bps, nBps,
                   cur, alarm, callEvents, enters, returns, ran, calls,
                   signals>>

\* bp_step_off returned: the one-shot breakpoint is gone.
StepReturn ==
    /\ pc = "step" /\ news /\ stopSig = "TRAP" /\ cur.kind = "return"
    /\ rbs' = [rbs EXCEPT ![cur.idx].active = FALSE]
    /\ Proceed
    /\ UNCHANGED <<memory, traced, pending, threads, bps, nBps, nRbs, cur,
                   alarm, callEvents, enters, returns, ran, calls, signals>>

-----------------------------------------------------------------------------
(* remove_breakpoints_and_detach, and the end of the run.                  *)

ClearTables ==
    /\ bps' = [i \in 1..MaxBps |-> [bps[i] EXCEPT !.armed = FALSE]]
    /\ rbs' = [i \in 1..MaxReturns |-> [rbs[i] EXCEPT !.active = FALSE]]

\* Every request fails with ESRCH when the target is not stopped: taken for
\* a target that is gone, and therefore clean.
CleanupGone ==
    /\ pc = "cleanup" /\ alive /\ tstate # "stop"
    /\ ClearTables /\ pc' = "sigcont"
    /\ UNCHANGED <<memory, kernel, nBps, nRbs, control, history, bounds>>

\* The restores of F fail, or the detach does: the run fails.
Cleanup ==
    /\ pc = "cleanup" /\ alive /\ tstate = "stop"
    /\ \E F \in SUBSET Planned, detached \in BOOLEAN :
       LET leaked == F # {} \/ ~detached IN
       /\ leaked => faults < MaxFaults
       /\ faults' = IF leaked THEN faults + 1 ELSE faults
       /\ status' = IF leaked THEN "FAIL" ELSE status
       /\ mem' = [a \in Addr |-> IF a \in Planned \ F
                                 THEN PlannedByte(a) ELSE mem[a]]
       /\ IF detached THEN Release
          ELSE UNCHANGED <<tstate, traced, stopSig, news, lost>>
    /\ ClearTables /\ pc' = "sigcont"
    /\ UNCHANGED <<rip, past, stack, pending, groupStop, threads, fate, nBps,
                   nRbs, cur, alive, alarm, callEvents, enters, returns, ran,
                   calls, signals>>

SigCont_Omitted ==
    /\ pc = "sigcont" /\ pc' = "done"
    /\ UNCHANGED <<memory, kernel, tables, control, history, bounds>>

\* After the alarm a SIGCONT undoes the SIGSTOP that stopped the target.
SigCont ==
    /\ pc = "sigcont"
    /\ IF alarm = "fired"
       THEN /\ pending' = pending \ {"STOP"} /\ groupStop' = FALSE
            /\ tstate' = IF tstate = "jobstop" THEN "run" ELSE tstate
       ELSE UNCHANGED <<pending, groupStop, tstate>>
    /\ pc' = "done"
    /\ UNCHANGED <<memory, traced, stopSig, news, threads, fate, tables,
                   control, history, bounds>>

\* A target that is gone needs no cleanup.
SkipCleanup ==
    /\ pc = "cleanup" /\ ~alive
    /\ pc' = "done"
    /\ UNCHANGED <<memory, kernel, tables, control, history, bounds>>

\* The host process ends; the kernel drops an attachment it still holds.
HostExit ==
    /\ pc = "done" /\ pc' = "exit"
    /\ IF traced THEN Release
       ELSE UNCHANGED <<traced, stopSig, news, lost, tstate>>
    /\ UNCHANGED <<memory, pending, groupStop, threads, fate, tables, control,
                   enters, returns, ran, bounds>>

Host ==
    \/ Gate \/ Attach \/ AttachWait \/ AttachWaitFails \/ Scan
    \/ Arm \/ ArmGone \/ Start
    \/ WaitExit \/ WaitTrap \/ WaitSignal \/ WaitInterrupted \/ StopWait
    \/ PeekFails \/ TrapEntry \/ TrapReturn \/ TrapUnexpected
    \/ StepExit \/ StepOther \/ StepInterrupted \/ StepEntry \/ StepReturn
    \/ Cleanup \/ CleanupGone \/ SigCont \/ SkipCleanup \/ HostExit

-----------------------------------------------------------------------------
(* The target: code outside the repository, free to do the following.      *)

\* A call of a watched export from unwatched code.
TargetCall ==
    /\ tstate = "run" /\ rip = Nowhere
    /\ calls < MaxCalls /\ Len(stack) < MaxDepth
    /\ \E f \in Entry, r \in Site :
       /\ stack' = Append(stack, [fn |-> f, ret |-> r])
       /\ rip' = f
    /\ calls' = calls + 1
    /\ UNCHANGED <<mem, past, kernel, pc, tables, control, history, faults,
                   signals>>

\* The callee returns to its caller's code.
TargetReturn ==
    /\ tstate = "run" /\ rip = Nowhere /\ TopRet # Nowhere
    /\ rip' = TopRet
    /\ stack' = SubSeq(stack, 1, Len(stack) - 1)
    /\ UNCHANGED <<mem, past, kernel, pc, tables, control, history, bounds>>

\* An armed entry is executed: what a complete trace has to report.
CountRun ==
    ran' = IF EntryBps(rip) # {} THEN [ran EXCEPT ![rip] = @ + 1] ELSE ran

\* The instruction at RIP runs, on its own or as a single step.
TargetExecutes ==
    /\ tstate \in {"run", "step"} /\ rip # Nowhere
    /\ ~past /\ mem[rip] = "orig"
    /\ rip' = Nowhere /\ CountRun
    /\ IF tstate = "step" THEN TraceStop("TRAP")
       ELSE UNCHANGED <<tstate, stopSig, news>>
    /\ UNCHANGED <<mem, past, stack, traced, pending, groupStop, threads,
                   fate, pc, tables, control, enters, returns, lost, bounds>>

\* It is an INT3: a stop for the tracer, death without one.
TargetTraps ==
    /\ tstate \in {"run", "step"} /\ rip # Nowhere
    /\ ~past /\ mem[rip] = "int3"
    /\ past' = TRUE
    /\ IF traced THEN TraceStop("TRAP") /\ UNCHANGED fate ELSE Die("int3")
    /\ UNCHANGED <<mem, rip, stack, traced, pending, groupStop, threads, pc,
                   tables, control, history, bounds>>

\* RIP was never rewound: the rest of the instruction is executed as code.
TargetDerails ==
    /\ tstate \in {"run", "step"} /\ past
    /\ Die("derailed")
    /\ UNCHANGED <<memory, traced, pending, groupStop, threads, pc, tables,
                   control, history, bounds>>

\* A trap of the target's own, at an address the host did not patch.
TargetOwnTrap ==
    /\ OwnTraps /\ tstate = "run" /\ traced /\ rip = Nowhere
    /\ TraceStop("TRAP")
    /\ UNCHANGED <<memory, traced, pending, groupStop, threads, fate, pc,
                   tables, control, history, bounds>>

\* A second thread starts; the host is not attached to it, so an INT3 it
\* executes kills the process.
SpawnThread ==
    /\ MayThread /\ tstate = "run" /\ threads = 1
    /\ threads' = 2
    /\ UNCHANGED <<memory, tstate, traced, stopSig, news, pending, groupStop,
                   fate, pc, tables, control, history, bounds>>

OtherThreadTraps ==
    /\ threads = 2 /\ tstate # "dead"
    /\ \E a \in Addr : mem[a] = "int3"
    /\ Die("int3")
    /\ UNCHANGED <<memory, traced, pending, groupStop, threads, pc, tables,
                   control, history, bounds>>

\* A signal is sent; a running target takes it at once.
SendSignal ==
    /\ tstate # "dead" /\ signals < MaxSignals /\ "USR" \notin pending
    /\ signals' = signals + 1 /\ pending' = pending \cup {"USR"}
    /\ UNCHANGED <<memory, tstate, traced, stopSig, news, groupStop, threads,
                   fate, pc, tables, control, history, calls, faults>>

TakeSignal ==
    /\ tstate \in {"run", "step"}
    /\ \E s \in pending :
       /\ pending' = pending \ {s}
       /\ IF traced THEN TraceStop(s)
          ELSE /\ tstate' = IF s = "STOP" THEN "jobstop" ELSE tstate
               /\ UNCHANGED <<stopSig, news>>
    /\ UNCHANGED <<memory, traced, groupStop, threads, fate, pc, tables,
                   control, history, bounds>>

\* The target exits, or is killed, even while stopped.
TargetEnds ==
    /\ tstate # "dead"
    /\ Die("exit")
    /\ UNCHANGED <<memory, traced, pending, groupStop, threads, pc, tables,
                   control, history, bounds>>

Target ==
    \/ TargetCall \/ TargetReturn \/ TargetExecutes \/ TargetTraps
    \/ TargetDerails \/ TargetOwnTrap \/ SpawnThread \/ OtherThreadTraps
    \/ SendSignal \/ TakeSignal \/ TargetEnds

Next == Host \/ AlarmFires \/ Target

Spec == Init /\ [][Next]_vars

\* The host is scheduled; a running CPU executes and takes its signals.  The
\* target need not call, exit or be signalled, and nothing has to fail.
Fairness ==
    /\ WF_vars(Host)
    /\ WF_vars(AlarmFires)
    /\ WF_vars(TargetExecutes) /\ WF_vars(TargetTraps) /\ WF_vars(TakeSignal)

FairSpec == Spec /\ Fairness

-----------------------------------------------------------------------------
(* Properties.                                                             *)

TargetType ==
    /\ mem \in [Addr -> Byte] /\ rip \in Addr \cup {Nowhere}
    /\ past \in BOOLEAN /\ stack \in Seq(Frame)
    /\ tstate \in {"run", "step", "stop", "jobstop", "dead"}
    /\ traced \in BOOLEAN /\ news \in BOOLEAN /\ groupStop \in BOOLEAN
    /\ stopSig \in {"none", "TRAP", "USR", "STOP", "GROUP"}
    /\ pending \subseteq Signal /\ threads \in {1, 2}
    /\ fate \in {"none", "exit", "int3", "derailed"}

TableType ==
    /\ nBps \in 0..MaxBps /\ bps \in [1..MaxBps -> Breakpoint]
    /\ nRbs \in 0..MaxReturns /\ rbs \in [1..MaxReturns -> ReturnBp]

ControlType ==
    /\ pc \in {"gate", "attach", "attachWait", "scan", "arm", "start", "wait",
               "trap", "step", "stopWait", "cleanup", "sigcont", "done",
               "exit"}
    /\ cur \in Current /\ status \in {"OK", "FAIL"} /\ alive \in BOOLEAN
    /\ alarm \in {"off", "set", "fired"}

CountType ==
    /\ callEvents \in Nat /\ lost \in BOOLEAN
    /\ enters \in [Entry -> Nat] /\ returns \in [Entry -> Nat]
    /\ ran \in [Entry -> Nat]
    /\ calls \in Nat /\ faults \in Nat /\ signals \in Nat

\* Every variable has its type: in particular the return table never holds
\* more than its MaxReturns records.
TypeOK == TargetType /\ TableType /\ ControlType /\ CountType

\* The run is over; the target is still there and the run is a success.
Succeeded == pc = "done" /\ status = "OK" /\ tstate # "dead"

\* Until the cleanup is over, every INT3 in the target's code is one that
\* plan_restores will visit, and the byte it will write there is the original
\* one: never an 0xCC that a second record captured at the same address.
PatchedIsPlanned ==
    pc \notin {"sigcont", "done", "exit"} =>
        \A a \in Addr : mem[a] = "int3" =>
            a \in Planned /\ PlannedByte(a) = "orig"

\* run_live never reports success while anything it installed may still be in
\* place: after an OK run the code is byte for byte what it was and the target
\* is not traced, whichever requests failed on the way.
OkMeansClean ==
    Succeeded => ~traced /\ \A a \in Addr : mem[a] = "orig"

\* An OK run that ended before its time budget ran out leaves RIP on an
\* instruction: "a failed rewind would leave execution one byte past the INT3, so
\* it can never be reported as success".
OkMeansRewound == Succeeded /\ alarm # "fired" => ~past

\* The same of every OK run: violated, as the SIGSTOP of the budget races a trap.
OkAlwaysRewound == Succeeded => ~past

\* The live pass never ends the target: it dies on a left-over INT3, or by
\* executing the middle of an instruction, only if the run had failed.
OkNeverHarms == fate \in {"int3", "derailed"} => status = "FAIL"

\* An OK run does not leave the target stopped, nor about to be stopped by a
\* SIGSTOP of the host's own.
OkLeavesNoStop ==
    Succeeded => tstate # "jobstop" /\ "STOP" \notin pending

\* Whenever the host waits for the target, the ENTER records are exactly the
\* executions of armed entries ("entries are always reported"): stepping over
\* the restored byte neither lets a call pass unreported nor reports it twice.
EveryCallReportedOnce == pc = "wait" => enters = ran

\* A RETURN record uses up a return breakpoint that an ENTER record of the same
\* function placed: returns never outnumber the breakpoints placed, nor those
\* the enters.
ReturnsMatchEnters ==
    \A f \in Entry :
        LET placed == {i \in 1..nRbs : rbs[i].fn = f}
        IN returns[f] <= Cardinality(placed) /\ Cardinality(placed) <= enters[f]

\* Signals other than SIGTRAP are forwarded, delivery is not altered.
SignalsForwarded == ~lost

\* A run that fails without any request failing of itself has still restored
\* the bytes and detached.
FailureStillReleases ==
    pc = "done" /\ status = "FAIL" /\ faults = 0 /\ tstate # "dead" =>
        ~traced /\ \A a \in Addr : mem[a] = "orig"

\* The parts of the inductive invariant behind PatchedIsPlanned and
\* OkMeansClean.  Nothing is installed before the arming loop ran.
Untouched ==
    /\ pc \in {"gate", "attach", "attachWait", "scan", "arm"} =>
        /\ \A a \in Addr : mem[a] = "orig"
        /\ \A i \in 1..MaxBps : ~bps[i].armed
        /\ nRbs = 0
    /\ pc \in {"gate", "attach"} => ~traced
    /\ pc = "arm" => \A i \in 1..nBps : bps[i].addr \in Entry

\* The first record armed at an address saved the original byte; an active
\* return breakpoint did too, and is not at an entry breakpoint's address.
SavedIsOriginal ==
    /\ \A i \in 1..nBps : bps[i].armed =>
        /\ bps[i].addr \in Entry
        /\ bps[i].saved = "orig" \/
           \E j \in 1..(i - 1) : bps[j].armed /\ bps[j].addr = bps[i].addr
    /\ \A i \in 1..nRbs : rbs[i].active =>
        /\ rbs[i].addr \in Addr /\ rbs[i].fn \in Entry
        /\ rbs[i].saved = "orig" /\ EntryBps(rbs[i].addr) = {}

\* An INT3 in the code has a record in use.
PatchedIsRecorded ==
    pc \notin {"sigcont", "done", "exit"} =>
        \A a \in Addr : mem[a] = "int3" => a \in Planned

\* The record being stepped over is in use; a return's byte is restored.
SteppedIsInUse ==
    pc = "step" =>
        \/ /\ cur.kind = "entry" /\ cur.idx \in 1..nBps /\ bps[cur.idx].armed
        \/ /\ cur.kind = "return" /\ cur.idx \in 1..nRbs
           /\ rbs[cur.idx].active /\ mem[rbs[cur.idx].addr] = "orig"

\* What the host believes of the target, and where the target cannot move.
HeldStill ==
    /\ ~alive => tstate = "dead"
    /\ news => tstate \in {"stop", "dead"}
    /\ pc \in {"scan", "arm", "start", "trap"} => tstate \in {"stop", "dead"}
    /\ pc = "cleanup" /\ status = "OK" => tstate \in {"stop", "dead"}

\* OkMeansClean from the end of the cleanup on.
CleanOnceReleased ==
    pc \in {"sigcont", "done"} /\ status = "OK" /\ tstate # "dead" =>
        ~traced /\ \A a \in Addr : mem[a] = "orig"

IndInv ==
    /\ TypeOK /\ Untouched /\ SavedIsOriginal /\ PatchedIsRecorded
    /\ SteppedIsInUse /\ HeldStill /\ CleanOnceReleased

\* Once the target is gone the host notices and ends.
ExitEndsRun == tstate = "dead" ~> pc = "exit"

\* A target stopped for the host is always let go again.
NeverFrozen == tstate = "stop" ~> tstate # "stop"

\* With a time budget the live pass comes to an end.
BudgetEnds == (pc = "wait" /\ HasBudget) ~> pc = "done"
====
