------------------------- MODULE LiveObserve_proofs -------------------------
(***************************************************************************)
(* Theorems about the Linux live pass (LiveObserve), for every set of      *)
(* addresses, every table size and every number of calls and faults.       *)
(*                                                                         *)
(* The induction is over IndInv.  PatchedIsPlanned alone is not inductive: *)
(* that the byte a restore writes is the original one needs to know what   *)
(* each record saved (SavedIsOriginal), which record a step is stepping    *)
(* over (SteppedIsInUse), that nothing is patched before the arming loop   *)
(* (Untouched) and, for OkMeansClean, that a target the host takes for     *)
(* gone in the cleanup is gone (HeldStill).                                *)
(*                                                                         *)
(* On top of it: ReportInv, what is counted on either side of a single     *)
(* step; ReturnInv, which records a RETURN has used up; RewindInv, where a *)
(* RIP past an INT3 may be until the time budget runs out; and StopInv,    *)
(* where a SIGSTOP of the host may be, for a target nobody else stops.     *)
(***************************************************************************)
EXTENDS LiveObserve, TLAPS, WellFoundedInduction, FiniteSetTheorems

USE LiveAssumption
USE DEF vars, memory, kernel, tables, control, history, bounds

-----------------------------------------------------------------------------
(* The tables.                                                             *)

\* The linear searches of find_entry_bp and find_return_bp return the least
\* matching index.
LEMMA FirstIsLeast ==
    ASSUME NEW S \in SUBSET Nat, S # {}
    PROVE  First(S) \in S /\ \A j \in S : First(S) <= j
<1> DEFINE L == OpToRel(<,Nat)
<1>1. \A y \in Nat, x \in Nat : y < x => <<y,x>> \in L
  <2>1. SUFFICES ASSUME NEW y \in Nat, NEW x \in Nat, y < x
                 PROVE  <<y,x>> \in L
    OBVIOUS
  <2>2. <<y,x>>[1] = y /\ <<y,x>>[2] = x /\ <<y,x>> \in Nat \X Nat
    OBVIOUS
  <2>3. QED
    BY <2>1, <2>2, Zenon DEF OpToRel
<1>2. \E x \in S : \A y \in S : ~ (<<y, x>> \in L)
  BY WFMin, NatLessThanWellFounded
<1>3. \E x \in S : \A y \in S : ~ (y < x)
  BY <1>1, <1>2, Zenon
<1> HIDE DEF L
<1>4. \E x \in S : \A y \in S : x <= y
  BY <1>3
<1>5. QED
  BY <1>4 DEF First

\* The record found for an address is in use there and saved the original
\* byte, and so the cleanup writes the original byte wherever it writes.
LEMMA Lookup ==
    ASSUME TypeOK, SavedIsOriginal, NEW a
    PROVE  /\ EntryBps(a) # {} =>
                /\ First(EntryBps(a)) \in 1..nBps /\ a \in Entry
                /\ bps[First(EntryBps(a))].armed
                /\ bps[First(EntryBps(a))].addr = a
                /\ bps[First(EntryBps(a))].saved = "orig"
           /\ ReturnBps(a) # {} =>
                /\ First(ReturnBps(a)) \in 1..nRbs /\ a \in Addr
                /\ rbs[First(ReturnBps(a))].active
                /\ rbs[First(ReturnBps(a))].addr = a
                /\ rbs[First(ReturnBps(a))].saved = "orig"
                /\ rbs[First(ReturnBps(a))].fn \in Entry
           /\ a \in Planned => PlannedByte(a) = "orig"
<1>1. EntryBps(a) \subseteq 1..nBps /\ ReturnBps(a) \subseteq 1..nRbs
  BY DEF EntryBps, ReturnBps
<1>2. EntryBps(a) \in SUBSET Nat /\ ReturnBps(a) \in SUBSET Nat
  BY <1>1 DEF TypeOK, TableType
<1>3. ASSUME EntryBps(a) # {}
      PROVE  /\ First(EntryBps(a)) \in 1..nBps /\ a \in Entry
             /\ bps[First(EntryBps(a))].armed
             /\ bps[First(EntryBps(a))].addr = a
             /\ bps[First(EntryBps(a))].saved = "orig"
  <2> DEFINE i == First(EntryBps(a))
  <2>1. i \in EntryBps(a) /\ \A j \in EntryBps(a) : i <= j
    BY <1>2, <1>3, FirstIsLeast
  <2> HIDE DEF i
  <2>2. i \in 1..nBps /\ bps[i].armed /\ bps[i].addr = a
    BY <2>1 DEF EntryBps
  <2>3. \A j \in 1..(i - 1) : ~(bps[j].armed /\ bps[j].addr = a)
    BY <2>1, <2>2 DEF EntryBps, TypeOK, TableType
  <2>4. bps[i].saved = "orig" /\ a \in Entry
    BY <2>2, <2>3 DEF SavedIsOriginal
  <2>5. QED
    BY <2>2, <2>4 DEF i
<1>4. ASSUME ReturnBps(a) # {}
      PROVE  /\ First(ReturnBps(a)) \in 1..nRbs /\ a \in Addr
             /\ rbs[First(ReturnBps(a))].active
             /\ rbs[First(ReturnBps(a))].addr = a
             /\ rbs[First(ReturnBps(a))].saved = "orig"
             /\ rbs[First(ReturnBps(a))].fn \in Entry
  <2> DEFINE i == First(ReturnBps(a))
  <2>1. i \in ReturnBps(a)
    BY <1>2, <1>4, FirstIsLeast
  <2> HIDE DEF i
  <2>2. i \in 1..nRbs /\ rbs[i].active /\ rbs[i].addr = a
    BY <2>1 DEF ReturnBps
  <2>3. rbs[i].saved = "orig" /\ a \in Addr /\ rbs[i].fn \in Entry
    BY <2>2 DEF SavedIsOriginal
  <2>4. QED
    BY <2>2, <2>3 DEF i
<1>5. a \in Planned => PlannedByte(a) = "orig"
  BY <1>3, <1>4 DEF Planned, PlannedByte
<1>6. QED
  BY <1>3, <1>4, <1>5

\* The lookups depend on the tables only.
LEMMA SameTables ==
    ASSUME UNCHANGED tables
    PROVE  /\ \A a : EntryBps(a)' = EntryBps(a) /\ ReturnBps(a)' = ReturnBps(a)
           /\ Planned' = Planned
BY DEF EntryBps, ReturnBps, Planned

-----------------------------------------------------------------------------
(* What the steps leave alone.                                             *)

\* The actions that touch the breakpoint tables.
LEMMA TablesFrame ==
    [Next]_vars =>
        \/ UNCHANGED tables
        \/ Scan \/ Arm \/ StepExit \/ StepEntry \/ StepReturn \/ Cleanup
        \/ CleanupGone
BY DEF Next, AlarmFires,
       Host, Gate, Attach, AttachWait, AttachWaitFails, Scan, Arm, ArmGone, Start,
       WaitExit, WaitTrap, WaitSignal, WaitInterrupted, StopWait, PeekFails,
       TrapEntry, TrapReturn, TrapUnexpected, StepExit, StepOther,
       StepInterrupted, StepEntry, StepReturn, Cleanup, CleanupGone,
       SigCont, SkipCleanup, HostExit, ReadOnly, Release, NoBp, SavedBy,
       Die, Resume, TraceStop, OpFails, Emit, BeginStep, StepFails, Proceed,
       ReturnRecord, Rearmed, ClearTables,
       Target, TargetCall, TargetReturn, TargetExecutes, TargetTraps,
       TargetDerails, TargetOwnTrap, SpawnThread, OtherThreadTraps,
       SendSignal, TakeSignal, TargetEnds, Die, TraceStop, CountRun

\* The actions that write the target's code.
LEMMA MemFrame ==
    [Next]_vars =>
        UNCHANGED mem \/ Arm \/ TrapEntry \/ TrapReturn \/ StepEntry \/ Cleanup
BY DEF Next, AlarmFires,
       Host, Gate, Attach, AttachWait, AttachWaitFails, Scan, Arm, ArmGone, Start,
       WaitExit, WaitTrap, WaitSignal, WaitInterrupted, StopWait, PeekFails,
       TrapEntry, TrapReturn, TrapUnexpected, StepExit, StepOther,
       StepInterrupted, StepEntry, StepReturn, Cleanup, CleanupGone,
       SigCont, SkipCleanup, HostExit, ReadOnly, Release, NoBp, SavedBy,
       Die, Resume, TraceStop, OpFails, Emit, BeginStep, StepFails, Proceed,
       ReturnRecord, Rearmed, ClearTables,
       Target, TargetCall, TargetReturn, TargetExecutes, TargetTraps,
       TargetDerails, TargetOwnTrap, SpawnThread, OtherThreadTraps,
       SendSignal, TakeSignal, TargetEnds, Die, TraceStop, CountRun

\* The target and the alarm act on nothing of the host's but the alarm flag.
LEMMA TargetFrame ==
    Target \/ AlarmFires =>
        /\ UNCHANGED <<mem, traced, tables, pc, cur, status, alive, callEvents>>
        /\ UNCHANGED <<enters, returns>>
BY DEF AlarmFires,
       Target, TargetCall, TargetReturn, TargetExecutes, TargetTraps,
       TargetDerails, TargetOwnTrap, SpawnThread, OtherThreadTraps,
       SendSignal, TakeSignal, TargetEnds, Die, TraceStop, CountRun

\* The host moves neither the target's RIP, apart from the rewind, nor its
\* stack.
LEMMA HostFrame ==
    Host => UNCHANGED <<rip, stack, threads, ran, calls, signals>>
BY DEF Host, Gate, Attach, AttachWait, AttachWaitFails, Scan, Arm, ArmGone, Start,
       WaitExit, WaitTrap, WaitSignal, WaitInterrupted, StopWait, PeekFails,
       TrapEntry, TrapReturn, TrapUnexpected, StepExit, StepOther,
       StepInterrupted, StepEntry, StepReturn, Cleanup, CleanupGone,
       SigCont, SkipCleanup, HostExit, ReadOnly, Release, NoBp, SavedBy,
       Die, Resume, TraceStop, OpFails, Emit, BeginStep, StepFails, Proceed,
       ReturnRecord, Rearmed, ClearTables

\* What counts calls and records.
LEMMA CountFrame ==
    [Next]_vars =>
        \/ UNCHANGED <<callEvents, enters, returns, ran>>
        \/ TrapEntry \/ TrapReturn \/ TargetExecutes
BY DEF Next, AlarmFires,
       Host, Gate, Attach, AttachWait, AttachWaitFails, Scan, Arm, ArmGone, Start,
       WaitExit, WaitTrap, WaitSignal, WaitInterrupted, StopWait, PeekFails,
       TrapEntry, TrapReturn, TrapUnexpected, StepExit, StepOther,
       StepInterrupted, StepEntry, StepReturn, Cleanup, CleanupGone,
       SigCont, SkipCleanup, HostExit, ReadOnly, Release, NoBp, SavedBy,
       Die, Resume, TraceStop, OpFails, Emit, BeginStep, StepFails, Proceed,
       ReturnRecord, Rearmed, ClearTables,
       Target, TargetCall, TargetReturn, TargetExecutes, TargetTraps,
       TargetDerails, TargetOwnTrap, SpawnThread, OtherThreadTraps,
       SendSignal, TakeSignal, TargetEnds, Die, TraceStop, CountRun

\* What is being stepped over changes with a new hit only.
LEMMA CurFrame ==
    [Next]_vars => UNCHANGED cur \/ TrapEntry \/ TrapReturn
BY DEF Next, AlarmFires,
       Host, Gate, Attach, AttachWait, AttachWaitFails, Scan, Arm, ArmGone, Start,
       WaitExit, WaitTrap, WaitSignal, WaitInterrupted, StopWait, PeekFails,
       TrapEntry, TrapReturn, TrapUnexpected, StepExit, StepOther,
       StepInterrupted, StepEntry, StepReturn, Cleanup, CleanupGone,
       SigCont, SkipCleanup, HostExit, ReadOnly, Release, NoBp, SavedBy,
       Die, Resume, TraceStop, OpFails, Emit, BeginStep, StepFails, Proceed,
       ReturnRecord, Rearmed, ClearTables,
       Target, TargetCall, TargetReturn, TargetExecutes, TargetTraps,
       TargetDerails, TargetOwnTrap, SpawnThread, OtherThreadTraps,
       SendSignal, TakeSignal, TargetEnds, Die, TraceStop, CountRun

\* The pass never leaves its last stages, enters them from the cleanup or
\* without having patched anything, and never goes back to its first ones.
LEMMA LastStages ==
    ASSUME [Next]_vars, pc \in {"sigcont", "done", "exit"}
    PROVE  pc' \in {"sigcont", "done", "exit"}
BY DEF Next, AlarmFires,
       Host, Gate, Attach, AttachWait, AttachWaitFails, Scan, Arm, ArmGone, Start,
       WaitExit, WaitTrap, WaitSignal, WaitInterrupted, StopWait, PeekFails,
       TrapEntry, TrapReturn, TrapUnexpected, StepExit, StepOther,
       StepInterrupted, StepEntry, StepReturn, Cleanup, CleanupGone,
       SigCont, SkipCleanup, HostExit, ReadOnly, Release, NoBp, SavedBy,
       Die, Resume, TraceStop, OpFails, Emit, BeginStep, StepFails, Proceed,
       ReturnRecord, Rearmed, ClearTables,
       Target, TargetCall, TargetReturn, TargetExecutes, TargetTraps,
       TargetDerails, TargetOwnTrap, SpawnThread, OtherThreadTraps,
       SendSignal, TakeSignal, TargetEnds, Die, TraceStop, CountRun

-----------------------------------------------------------------------------
(* Types.                                                                  *)

LEMMA InitInv == Init => IndInv
<1> SUFFICES ASSUME Init PROVE IndInv
  OBVIOUS
<1>1. TargetType
  <2>1. stack \in Seq(Frame)
    BY DEF Init
  <2>2. QED
    BY <2>1 DEF Init, TargetType, Byte, Signal
<1>2. TableType
  BY DEF Init, TableType, NoBp, NoRb, Breakpoint, ReturnBp, Byte
<1>3. ControlType
  BY DEF Init, ControlType, NoCur, Current
<1>4. CountType
  BY DEF Init, CountType
<1>5. Untouched
  BY DEF Init, Untouched, NoBp
<1>6. SavedIsOriginal
  BY DEF Init, SavedIsOriginal
<1>7. PatchedIsRecorded
  BY DEF Init, PatchedIsRecorded
<1>8. SteppedIsInUse /\ HeldStill /\ CleanOnceReleased
  BY DEF Init, SteppedIsInUse, HeldStill, CleanOnceReleased
<1>9. QED
  BY <1>1, <1>2, <1>3, <1>4, <1>5, <1>6, <1>7, <1>8 DEF IndInv, TypeOK

LEMMA BooleansStep ==
    ASSUME TypeOK, [Next]_vars
    PROVE  (/\ traced \in BOOLEAN /\ news \in BOOLEAN /\ groupStop \in BOOLEAN
            /\ past \in BOOLEAN /\ lost \in BOOLEAN /\ alive \in BOOLEAN)'
<1>1. CASE Host
  BY <1>1, ZenonT(60) DEF TypeOK, TargetType, CountType, ControlType,
       Host, Gate, Attach, AttachWait, AttachWaitFails, Scan, Arm, ArmGone, Start,
       WaitExit, WaitTrap, WaitSignal, WaitInterrupted, StopWait, PeekFails,
       TrapEntry, TrapReturn, TrapUnexpected, StepExit, StepOther,
       StepInterrupted, StepEntry, StepReturn, Cleanup, CleanupGone,
       SigCont, SkipCleanup, HostExit, ReadOnly, Release, NoBp, SavedBy,
       Die, Resume, TraceStop, OpFails, Emit, BeginStep, StepFails, Proceed,
       ReturnRecord, Rearmed, ClearTables
<1>2. CASE Target
  BY <1>2, ZenonT(60) DEF TypeOK, TargetType, CountType, ControlType,
       Target, TargetCall, TargetReturn, TargetExecutes, TargetTraps,
       TargetDerails, TargetOwnTrap, SpawnThread, OtherThreadTraps,
       SendSignal, TakeSignal, TargetEnds, Die, TraceStop, CountRun
<1>3. CASE AlarmFires \/ UNCHANGED vars
  BY <1>3 DEF AlarmFires, TypeOK, TargetType, CountType,
              ControlType
<1>4. QED
  BY <1>1, <1>2, <1>3 DEF Next

LEMMA MemStep ==
    ASSUME TypeOK, SavedIsOriginal, [Next]_vars
    PROVE  (mem \in [Addr -> Byte])'
<1>1. mem \in [Addr -> Byte]
  BY DEF TypeOK, TargetType
<1>2. CASE UNCHANGED mem
  BY <1>1, <1>2
<1>3. CASE Arm
  BY <1>1, <1>3 DEF Arm, Byte
<1>4. CASE TrapEntry
  <2>1. bps[First(EntryBps(rip))].saved \in Byte
    BY <1>4, Lookup DEF TrapEntry, HitEntry, Byte
  <2>2. QED
    BY <1>1, <1>4, <2>1 DEF TrapEntry, BeginStep
<1>5. CASE TrapReturn
  <2>1. rbs[First(ReturnBps(rip))].saved \in Byte
    BY <1>5, Lookup DEF TrapReturn, HitReturn, Byte
  <2>2. QED
    BY <1>1, <1>5, <2>1 DEF TrapReturn, BeginStep
<1>6. CASE StepEntry
  BY <1>1, <1>6 DEF StepEntry, Rearmed, Byte
<1>7. CASE Cleanup
  <2>1. \A a \in Planned : PlannedByte(a) \in Byte
    BY Lookup DEF Byte
  <2>2. QED
    BY <1>1, <1>7, <2>1 DEF Cleanup
<1>8. QED
  BY <1>2, <1>3, <1>4, <1>5, <1>6, <1>7, MemFrame

LEMMA HostTargetType ==
    ASSUME TypeOK, Host
    PROVE  (/\ rip \in Addr \cup {Nowhere} /\ stack \in Seq(Frame)
            /\ threads \in {1, 2}
            /\ tstate \in {"run", "step", "stop", "jobstop", "dead"}
            /\ stopSig \in {"none", "TRAP", "USR", "STOP", "GROUP"}
            /\ pending \subseteq Signal
            /\ fate \in {"none", "exit", "int3", "derailed"})'
<1>1. (/\ rip \in Addr \cup {Nowhere} /\ stack \in Seq(Frame)
       /\ threads \in {1, 2})'
  BY HostFrame DEF TypeOK, TargetType
<1>2. (fate \in {"none", "exit", "int3", "derailed"})'
  BY SMTT(60) DEF TypeOK, TargetType,
       Host, Gate, Attach, AttachWait, AttachWaitFails, Scan, Arm, ArmGone, Start,
       WaitExit, WaitTrap, WaitSignal, WaitInterrupted, StopWait, PeekFails,
       TrapEntry, TrapReturn, TrapUnexpected, StepExit, StepOther,
       StepInterrupted, StepEntry, StepReturn, Cleanup, CleanupGone,
       SigCont, SkipCleanup, HostExit, ReadOnly, Release, NoBp, SavedBy,
       Die, Resume, TraceStop, OpFails, Emit, BeginStep, StepFails, Proceed,
       ReturnRecord, Rearmed, ClearTables
<1>3. (/\ tstate \in {"run", "step", "stop", "jobstop", "dead"}
       /\ stopSig \in {"none", "TRAP", "USR", "STOP", "GROUP"}
       /\ pending \subseteq Signal)'
  BY SMTT(60) DEF TypeOK, TargetType, Signal,
       Host, Gate, Attach, AttachWait, AttachWaitFails, Scan, Arm, ArmGone, Start,
       WaitExit, WaitTrap, WaitSignal, WaitInterrupted, StopWait, PeekFails,
       TrapEntry, TrapReturn, TrapUnexpected, StepExit, StepOther,
       StepInterrupted, StepEntry, StepReturn, Cleanup, CleanupGone,
       SigCont, SkipCleanup, HostExit, ReadOnly, Release, NoBp, SavedBy,
       Die, Resume, TraceStop, OpFails, Emit, BeginStep, StepFails, Proceed,
       ReturnRecord, Rearmed, ClearTables
<1>4. QED
  BY <1>1, <1>2, <1>3

LEMMA TargetTargetType ==
    ASSUME TypeOK, Target
    PROVE  (/\ rip \in Addr \cup {Nowhere} /\ stack \in Seq(Frame)
            /\ threads \in {1, 2}
            /\ tstate \in {"run", "step", "stop", "jobstop", "dead"}
            /\ stopSig \in {"none", "TRAP", "USR", "STOP", "GROUP"}
            /\ pending \subseteq Signal
            /\ fate \in {"none", "exit", "int3", "derailed"})'
<1> USE DEF TypeOK, TargetType
<1>1. CASE TargetCall
  <2>1. PICK f \in Entry, r \in Site :
          stack' = Append(stack, [fn |-> f, ret |-> r]) /\ rip' = f
    BY <1>1 DEF TargetCall
  <2>2. [fn |-> f, ret |-> r] \in Frame
    BY DEF Frame
  <2>3. stack' \in Seq(Frame)
    BY <2>1, <2>2
  <2>4. QED
    BY <1>1, <2>1, <2>3 DEF TargetCall
<1>2. CASE TargetReturn
  <2>1. stack # <<>> /\ stack[Len(stack)] \in Frame
    BY <1>2 DEF TargetReturn, TopRet
  <2>2. stack' \in Seq(Frame)
    BY <1>2, <2>1 DEF TargetReturn
  <2>3. rip' \in Addr \cup {Nowhere}
    BY <1>2, <2>1 DEF TargetReturn, TopRet, Frame
  <2>4. QED
    BY <1>2, <2>2, <2>3 DEF TargetReturn
<1>3. CASE TargetExecutes
  BY <1>3 DEF TargetExecutes, TraceStop
<1>4. CASE TargetTraps \/ TargetDerails \/ TargetOwnTrap
  BY <1>4 DEF TargetTraps, TargetDerails, TargetOwnTrap, TraceStop, Die
<1>5. CASE SpawnThread \/ OtherThreadTraps \/ TargetEnds
  BY <1>5 DEF SpawnThread, OtherThreadTraps, TargetEnds, Die
<1>6. CASE SendSignal \/ TakeSignal
  BY <1>6 DEF SendSignal, TakeSignal, TraceStop, Signal
<1>7. QED
  BY <1>1, <1>2, <1>3, <1>4, <1>5, <1>6 DEF Target

LEMMA TableTypeStep ==
    ASSUME TypeOK, Untouched, SteppedIsInUse, SavedIsOriginal,
           [Next]_vars
    PROVE  TableType'
<1> USE DEF TypeOK, TableType
<1>1. CASE UNCHANGED tables
  BY <1>1
<1>2. CASE Scan
  <2>1. CASE UNCHANGED <<bps, nBps>>
    BY <1>2, <2>1 DEF Scan
  <2>2. ASSUME NEW n \in 0..MaxBps, NEW at \in [1..MaxBps -> Entry],
               nBps' = n,
               bps' = [i \in 1..MaxBps |->
                         IF i <= n
                         THEN [addr |-> at[i], saved |-> "orig",
                               armed |-> FALSE]
                         ELSE NoBp]
        PROVE  bps' \in [1..MaxBps -> Breakpoint] /\ nBps' \in 0..MaxBps
    <3>1. ASSUME NEW i \in 1..MaxBps
          PROVE  /\ [addr |-> at[i], saved |-> "orig", armed |-> FALSE]
                      \in Breakpoint
                 /\ NoBp \in Breakpoint
      BY DEF Breakpoint, Byte, NoBp
    <3>2. QED
      BY <2>2, <3>1
  <2>3. QED
    BY <1>2, <2>1, <2>2 DEF Scan
<1>3. CASE Arm
  <2>1. PICK F \in SUBSET (1..nBps) :
          bps' = [i \in 1..MaxBps |->
                    IF i \in (1..nBps) \ F
                    THEN [addr |-> bps[i].addr, saved |-> SavedBy(i, F),
                          armed |-> TRUE]
                    ELSE bps[i]]
    BY <1>3 DEF Arm
  <2>2. \A i \in 1..nBps : bps[i].addr \in Addr => SavedBy(i, F) \in Byte
    BY DEF SavedBy, TargetType, Byte
  <2>3. \A i \in 1..nBps : bps[i].addr \in Addr
    BY <1>3 DEF Untouched, Arm
  <2>4. QED
    BY <1>3, <2>1, <2>2, <2>3 DEF Arm, Breakpoint
<1>4. CASE StepExit
  BY <1>4 DEF StepExit, ReturnBp
<1>5. CASE StepReturn
  BY <1>5 DEF StepReturn, ReturnBp
<1>6. CASE StepEntry
  <2>1. CASE UNCHANGED <<rbs, nRbs>>
    BY <1>6, <2>1 DEF StepEntry
  <2>2. CASE WantReturn /\ ~UNCHANGED <<rbs, nRbs>>
    <3> DEFINE a == bps[cur.idx].addr
               r == ReturnRecord(a, Rearmed(a)[cur.ret])
    <3>1. nRbs' = nRbs + 1 /\ rbs' = [rbs EXCEPT ![nRbs + 1] = r]
      BY <1>6, <2>2 DEF StepEntry
    <3>2. cur.ret \in Addr /\ nRbs < MaxReturns
      BY <2>2 DEF WantReturn, ControlType, Current
    <3>3. a \in Addr
      BY <1>6 DEF StepEntry, SteppedIsInUse, SavedIsOriginal
    <3>4. Rearmed(a)[cur.ret] \in Byte
      BY <3>2, <3>3 DEF Rearmed, TargetType, Byte
    <3>5. r \in ReturnBp
      BY <3>2, <3>3, <3>4 DEF ReturnRecord, ReturnBp
    <3> HIDE DEF a, r
    <3>6. QED
      BY <1>6, <3>1, <3>2, <3>5 DEF StepEntry
  <2>3. QED
    BY <1>6, <2>1, <2>2 DEF StepEntry
<1>7. CASE Cleanup \/ CleanupGone
  <2>1. ClearTables /\ UNCHANGED <<nBps, nRbs>>
    BY <1>7 DEF Cleanup, CleanupGone
  <2>2. \A i \in 1..MaxBps : [bps[i] EXCEPT !.armed = FALSE] \in Breakpoint
    BY DEF Breakpoint
  <2>3. \A i \in 1..MaxReturns : [rbs[i] EXCEPT !.active = FALSE] \in ReturnBp
    BY DEF ReturnBp
  <2>4. QED
    BY <2>1, <2>2, <2>3 DEF ClearTables
<1>8. QED
  BY <1>1, <1>2, <1>3, <1>4, <1>5, <1>6, <1>7, TablesFrame

LEMMA ControlTypeStep ==
    ASSUME TypeOK, SavedIsOriginal, [Next]_vars
    PROVE  ControlType'
<1> SUFFICES cur' \in Current
  <2>1. (/\ pc \in {"gate", "attach", "attachWait", "scan", "arm", "start",
                    "wait", "trap", "step", "stopWait", "cleanup", "sigcont",
                    "done", "exit"}
         /\ status \in {"OK", "FAIL"} /\ alarm \in {"off", "set", "fired"})'
    BY SMTT(60) DEF Next, AlarmFires, TypeOK, ControlType,
       Host, Gate, Attach, AttachWait, AttachWaitFails, Scan, Arm, ArmGone, Start,
       WaitExit, WaitTrap, WaitSignal, WaitInterrupted, StopWait, PeekFails,
       TrapEntry, TrapReturn, TrapUnexpected, StepExit, StepOther,
       StepInterrupted, StepEntry, StepReturn, Cleanup, CleanupGone,
       SigCont, SkipCleanup, HostExit, ReadOnly, Release, NoBp, SavedBy,
       Die, Resume, TraceStop, OpFails, Emit, BeginStep, StepFails, Proceed,
       ReturnRecord, Rearmed, ClearTables,
       Target, TargetCall, TargetReturn, TargetExecutes, TargetTraps,
       TargetDerails, TargetOwnTrap, SpawnThread, OtherThreadTraps,
       SendSignal, TakeSignal, TargetEnds, Die, TraceStop, CountRun
  <2>2. (alive \in BOOLEAN)'
    BY BooleansStep
  <2>3. QED
    BY <2>1, <2>2 DEF ControlType
<1>1. CASE UNCHANGED cur
  BY <1>1 DEF TypeOK, ControlType
<1>2. CASE TrapEntry
  <2>1. First(EntryBps(rip)) \in Nat
    BY <1>2, Lookup DEF TrapEntry, HitEntry, TypeOK, TableType
  <2>2. TopRet \in Addr \cup {Nowhere}
    <3>1. stack # <<>> => stack[Len(stack)] \in Frame
      BY DEF TypeOK, TargetType
    <3>2. QED
      BY <3>1 DEF TopRet, Frame
  <2> HIDE DEF TopRet
  <2>3. QED
    BY <1>2, <2>1, <2>2 DEF TrapEntry, Current
<1>3. CASE TrapReturn
  <2>1. First(ReturnBps(rip)) \in Nat
    BY <1>3, Lookup DEF TrapReturn, HitReturn, TypeOK, TableType
  <2>2. QED
    BY <1>3, <2>1 DEF TrapReturn, Current
<1>4. QED
  BY <1>1, <1>2, <1>3, CurFrame

LEMMA CountTypeStep ==
    ASSUME TypeOK, SavedIsOriginal, [Next]_vars
    PROVE  CountType'
<1> USE DEF TypeOK, CountType
<1>1. (calls \in Nat /\ faults \in Nat /\ signals \in Nat)'
  BY SMTT(60) DEF Next, AlarmFires,
       Host, Gate, Attach, AttachWait, AttachWaitFails, Scan, Arm, ArmGone, Start,
       WaitExit, WaitTrap, WaitSignal, WaitInterrupted, StopWait, PeekFails,
       TrapEntry, TrapReturn, TrapUnexpected, StepExit, StepOther,
       StepInterrupted, StepEntry, StepReturn, Cleanup, CleanupGone,
       SigCont, SkipCleanup, HostExit, ReadOnly, Release, NoBp, SavedBy,
       Die, Resume, TraceStop, OpFails, Emit, BeginStep, StepFails, Proceed,
       ReturnRecord, Rearmed, ClearTables,
       Target, TargetCall, TargetReturn, TargetExecutes, TargetTraps,
       TargetDerails, TargetOwnTrap, SpawnThread, OtherThreadTraps,
       SendSignal, TakeSignal, TargetEnds, Die, TraceStop, CountRun
<1>2. (lost \in BOOLEAN)'
  BY BooleansStep
<1>3. (/\ callEvents \in Nat /\ enters \in [Entry -> Nat]
       /\ returns \in [Entry -> Nat] /\ ran \in [Entry -> Nat])'
  <2>1. CASE UNCHANGED <<callEvents, enters, returns, ran>>
    BY <2>1
  <2>2. CASE TrapEntry
    <3> DEFINE f == bps[First(EntryBps(rip))].addr
    <3>1. f \in Entry
      BY <2>2, Lookup DEF TrapEntry, HitEntry
    <3>2. /\ enters' = [enters EXCEPT ![f] = @ + 1]
          /\ callEvents' = callEvents + 1 /\ UNCHANGED <<returns, ran>>
      BY <2>2 DEF TrapEntry, Emit
    <3> HIDE DEF f
    <3>3. QED
      BY <3>1, <3>2
  <2>3. CASE TrapReturn
    <3> DEFINE f == rbs[First(ReturnBps(rip))].fn
    <3>1. f \in Entry
      BY <2>3, Lookup DEF TrapReturn, HitReturn
    <3>2. /\ returns' = [returns EXCEPT ![f] = @ + 1]
          /\ callEvents' = callEvents + 1 /\ UNCHANGED <<enters, ran>>
      BY <2>3 DEF TrapReturn, Emit
    <3> HIDE DEF f
    <3>3. QED
      BY <3>1, <3>2
  <2>4. CASE TargetExecutes
    <3>1. EntryBps(rip) # {} => rip \in Entry
      BY Lookup
    <3>2. QED
      BY <2>4, <3>1 DEF TargetExecutes, CountRun
  <2>5. QED
    BY <2>1, <2>2, <2>3, <2>4, CountFrame
<1>4. QED
  BY <1>1, <1>2, <1>3

\* Every step keeps every type.
LEMMA TypeStep ==
    ASSUME IndInv, [Next]_vars
    PROVE  TypeOK'
<1> USE DEF IndInv
<1>1. TargetType'
  <2>1. CASE Host
    BY <2>1, BooleansStep, MemStep, HostTargetType DEF TargetType
  <2>2. CASE Target
    BY <2>2, BooleansStep, MemStep, TargetTargetType DEF TargetType
  <2>3. CASE AlarmFires \/ UNCHANGED vars
    BY <2>3 DEF AlarmFires, TypeOK, TargetType
  <2>4. QED
    BY <2>1, <2>2, <2>3 DEF Next
<1>2. QED
  BY <1>1, TableTypeStep, ControlTypeStep, CountTypeStep DEF TypeOK

-----------------------------------------------------------------------------
(* The parts of the invariant.                                             *)

\* The stages before the breakpoints are in place.
Early == {"gate", "attach", "attachWait", "scan", "arm"}

\* They are not come back to, and change nothing but the entry table.
LEMMA EarlyFrame ==
    ASSUME [Next]_vars, pc' \in Early
    PROVE  /\ pc \in Early /\ UNCHANGED <<mem, rbs, nRbs>>
           /\ Scan \/ UNCHANGED <<bps, nBps>>
           /\ pc' = "arm" => pc = "arm" \/ Scan
           /\ pc' \in {"gate", "attach"} =>
                pc \in {"gate", "attach"} /\ traced' = traced
<1>1. /\ pc \in Early
      /\ pc' = "arm" => pc = "arm" \/ Scan
      /\ pc' \in {"gate", "attach"} => pc \in {"gate", "attach"}
  BY DEF Early, Next, AlarmFires,
       Host, Gate, Attach, AttachWait, AttachWaitFails, Scan, Arm, ArmGone, Start,
       WaitExit, WaitTrap, WaitSignal, WaitInterrupted, StopWait, PeekFails,
       TrapEntry, TrapReturn, TrapUnexpected, StepExit, StepOther,
       StepInterrupted, StepEntry, StepReturn, Cleanup, CleanupGone,
       SigCont, SkipCleanup, HostExit, ReadOnly, Release, NoBp, SavedBy,
       Die, Resume, TraceStop, OpFails, Emit, BeginStep, StepFails, Proceed,
       ReturnRecord, Rearmed, ClearTables,
       Target, TargetCall, TargetReturn, TargetExecutes, TargetTraps,
       TargetDerails, TargetOwnTrap, SpawnThread, OtherThreadTraps,
       SendSignal, TakeSignal, TargetEnds, Die, TraceStop, CountRun
<1>2. UNCHANGED mem
  BY MemFrame DEF Early, Arm, TrapEntry, TrapReturn, BeginStep, StepEntry,
                  StepFails, Proceed, Cleanup
<1>3. Scan \/ UNCHANGED tables
  BY TablesFrame DEF Early, Arm, StepExit, StepEntry, StepReturn, StepFails,
                     Proceed, Cleanup, CleanupGone
<1>4. pc' \in {"gate", "attach"} => traced' = traced
  BY DEF Next, AlarmFires,
       Host, Gate, Attach, AttachWait, AttachWaitFails, Scan, Arm, ArmGone, Start,
       WaitExit, WaitTrap, WaitSignal, WaitInterrupted, StopWait, PeekFails,
       TrapEntry, TrapReturn, TrapUnexpected, StepExit, StepOther,
       StepInterrupted, StepEntry, StepReturn, Cleanup, CleanupGone,
       SigCont, SkipCleanup, HostExit, ReadOnly, Release, NoBp, SavedBy,
       Die, Resume, TraceStop, OpFails, Emit, BeginStep, StepFails, Proceed,
       ReturnRecord, Rearmed, ClearTables,
       Target, TargetCall, TargetReturn, TargetExecutes, TargetTraps,
       TargetDerails, TargetOwnTrap, SpawnThread, OtherThreadTraps,
       SendSignal, TakeSignal, TargetEnds, Die, TraceStop, CountRun
<1>5. Scan => UNCHANGED <<rbs, nRbs>>
  BY DEF Scan
<1>6. UNCHANGED <<rbs, nRbs>> /\ (Scan \/ UNCHANGED <<bps, nBps>>)
  BY <1>3, <1>5
<1>7. UNCHANGED <<mem, rbs, nRbs>>
  BY <1>2, <1>6
<1>8. QED
  BY <1>1, <1>4, <1>6, <1>7

LEMMA UntouchedStep ==
    ASSUME IndInv, [Next]_vars
    PROVE  Untouched'
<1> SUFFICES ASSUME pc' \in Early
             PROVE  Untouched'
  BY DEF Untouched, Early
<1>1. /\ \A a \in Addr : mem[a] = "orig"
      /\ \A i \in 1..MaxBps : ~bps[i].armed
      /\ nRbs = 0
  BY EarlyFrame DEF IndInv, Untouched, Early
<1>2. pc' \in {"gate", "attach"} => ~traced'
  BY EarlyFrame DEF IndInv, Untouched
<1>3. CASE UNCHANGED <<bps, nBps>> /\ ~Scan
  BY <1>1, <1>2, <1>3, EarlyFrame DEF IndInv, Untouched
<1>4. CASE Scan
  <2>1. CASE UNCHANGED <<bps, nBps>> /\ pc' # "arm"
    BY <1>1, <1>2, <2>1, EarlyFrame DEF IndInv, Untouched
  <2>2. ASSUME NEW n \in 0..MaxBps, NEW at \in [1..MaxBps -> Entry],
               nBps' = n,
               bps' = [i \in 1..MaxBps |->
                         IF i <= n
                         THEN [addr |-> at[i], saved |-> "orig",
                               armed |-> FALSE]
                         ELSE NoBp]
        PROVE  Untouched'
    <3>1. \A i \in 1..MaxBps : ~bps'[i].armed
      BY <2>2 DEF NoBp
    <3>2. \A i \in 1..nBps' : bps'[i].addr \in Entry
      BY <2>2
    <3>3. QED
      BY <1>1, <1>2, <3>1, <3>2, EarlyFrame DEF Untouched
  <2>3. QED
    BY <1>4, <2>1, <2>2 DEF Scan
<1>5. QED
  BY <1>3, <1>4, EarlyFrame

LEMMA SavedIsOriginalStep ==
    ASSUME IndInv, [Next]_vars
    PROVE  SavedIsOriginal'
<1> USE DEF IndInv
<1>1. CASE UNCHANGED tables
  BY <1>1, SameTables DEF SavedIsOriginal
<1>2. CASE Scan
  <2>1. UNCHANGED <<rbs, nRbs>> /\ nRbs = 0 /\ pc = "scan"
    BY <1>2 DEF Scan, Untouched
  <2>2. \A i \in 1..nBps' : ~bps'[i].armed
    <3>1. CASE UNCHANGED <<bps, nBps>>
      BY <1>2, <2>1, <3>1 DEF Untouched, TypeOK, TableType
    <3>2. ASSUME NEW n \in 0..MaxBps, NEW at \in [1..MaxBps -> Entry],
                 nBps' = n,
                 bps' = [i \in 1..MaxBps |->
                           IF i <= n
                           THEN [addr |-> at[i], saved |-> "orig",
                                 armed |-> FALSE]
                           ELSE NoBp]
          PROVE  \A i \in 1..nBps' : ~bps'[i].armed
      BY <3>2
    <3>3. QED
      BY <1>2, <3>1, <3>2 DEF Scan
  <2>3. QED
    BY <2>1, <2>2 DEF SavedIsOriginal
<1>3. CASE Arm
  <2>1. PICK F \in SUBSET (1..nBps) :
          bps' = [i \in 1..MaxBps |->
                    IF i \in (1..nBps) \ F
                    THEN [addr |-> bps[i].addr, saved |-> SavedBy(i, F),
                          armed |-> TRUE]
                    ELSE bps[i]]
    BY <1>3 DEF Arm
  <2>2. UNCHANGED <<nBps, rbs, nRbs>> /\ nRbs = 0 /\ pc = "arm"
    BY <1>3 DEF Arm, Untouched
  <2>3. \A i \in 1..nBps : bps[i].addr \in Entry /\ ~bps[i].armed
    BY <2>2 DEF Untouched, TypeOK, TableType
  <2>4. ASSUME NEW i \in 1..nBps, bps'[i].armed
        PROVE  /\ bps'[i].addr \in Entry
               /\ \/ bps'[i].saved = "orig"
                  \/ \E j \in 1..(i - 1) :
                        bps'[j].armed /\ bps'[j].addr = bps'[i].addr
    <3>1. i \in 1..MaxBps /\ 1..(i - 1) \subseteq 1..MaxBps
      BY DEF TypeOK, TableType
    <3>2. i \notin F
      BY <2>1, <2>3, <2>4, <3>1
    <3>3. bps'[i].addr = bps[i].addr /\ bps'[i].saved = SavedBy(i, F)
      BY <2>1, <3>1, <3>2
    <3>4. CASE \E j \in (1..(i - 1)) \ F : bps[j].addr = bps[i].addr
      <4>1. PICK j \in (1..(i - 1)) \ F : bps[j].addr = bps[i].addr
        BY <3>4
      <4>2. j \in 1..nBps /\ bps'[j].armed /\ bps'[j].addr = bps[i].addr
        BY <2>1, <3>1, <4>1 DEF TypeOK, TableType
      <4>3. QED
        BY <2>3, <3>3, <4>1, <4>2
    <3>5. CASE ~\E j \in (1..(i - 1)) \ F : bps[j].addr = bps[i].addr
      <4>1. SavedBy(i, F) = "orig"
        BY <2>2, <2>3, <3>5 DEF SavedBy, Untouched
      <4>2. QED
        BY <2>3, <3>3, <4>1
    <3>6. QED
      BY <3>4, <3>5
  <2>5. QED
    BY <2>2, <2>4 DEF SavedIsOriginal
<1>4. CASE StepExit \/ StepReturn
  <2>1. UNCHANGED <<bps, nBps, nRbs>>
    BY <1>4 DEF StepExit, StepReturn
  <2>2. rbs' = rbs \/ rbs' = [rbs EXCEPT ![cur.idx].active = FALSE]
    BY <1>4 DEF StepExit, StepReturn
  <2>3. \A i \in 1..nRbs : rbs'[i].active => rbs'[i] = rbs[i]
    BY <2>2 DEF TypeOK, TableType, ReturnBp
  <2>4. \A a : EntryBps(a)' = EntryBps(a)
    BY <2>1 DEF EntryBps
  <2>5. QED
    BY <2>1, <2>3, <2>4 DEF SavedIsOriginal
<1>5. CASE StepEntry
  <2>1. UNCHANGED <<bps, nBps>> /\ pc = "step" /\ cur.kind = "entry"
    BY <1>5 DEF StepEntry
  <2>2. \A a : EntryBps(a)' = EntryBps(a)
    BY <2>1 DEF EntryBps
  <2>3. CASE UNCHANGED <<rbs, nRbs>>
    BY <2>1, <2>2, <2>3 DEF SavedIsOriginal
  <2>4. CASE ~UNCHANGED <<rbs, nRbs>>
    <3> DEFINE a == bps[cur.idx].addr
               r == ReturnRecord(a, Rearmed(a)[cur.ret])
    <3>1. /\ WantReturn
          /\ nRbs' = nRbs + 1 /\ rbs' = [rbs EXCEPT ![nRbs + 1] = r]
      BY <1>5, <2>4 DEF StepEntry
    <3>2. /\ cur.ret \in Addr /\ EntryBps(cur.ret) = {}
          /\ cur.ret \notin Planned
      BY <3>1 DEF WantReturn, TypeOK, ControlType, Current, Planned
    <3>3. a \in Entry /\ cur.idx \in EntryBps(a)
      BY <2>1 DEF SteppedIsInUse, SavedIsOriginal, EntryBps
    <3>4. mem[cur.ret] = "orig"
      BY <2>1, <3>2 DEF PatchedIsRecorded, TypeOK, TargetType, Byte
    <3>5. Rearmed(a)[cur.ret] = "orig"
      BY <3>2, <3>3, <3>4 DEF Rearmed, TypeOK, TargetType
    <3>6. /\ r.addr = cur.ret /\ r.fn = a /\ r.saved = "orig"
      BY <3>5 DEF ReturnRecord
    <3> HIDE DEF a, r
    <3>7. /\ nRbs \in Nat /\ nRbs + 1 \in 1..MaxReturns
          /\ rbs'[nRbs + 1] = r
          /\ \A i \in 1..nRbs : rbs'[i] = rbs[i]
      BY <3>1 DEF WantReturn, TypeOK, TableType
    <3>8. ASSUME NEW i \in 1..nRbs', rbs'[i].active
          PROVE  /\ rbs'[i].addr \in Addr /\ rbs'[i].fn \in Entry
                 /\ rbs'[i].saved = "orig" /\ EntryBps(rbs'[i].addr) = {}
      <4>1. CASE i \in 1..nRbs
        BY <3>7, <3>8, <4>1 DEF SavedIsOriginal
      <4>2. CASE i = nRbs + 1
        BY <3>2, <3>3, <3>6, <3>7, <4>2
      <4>3. QED
        BY <3>1, <3>7, <4>1, <4>2
    <3>9. QED
      BY <2>1, <2>2, <3>8 DEF SavedIsOriginal
  <2>5. QED
    BY <2>3, <2>4
<1>6. CASE Cleanup \/ CleanupGone
  <2>1. ClearTables /\ UNCHANGED <<nBps, nRbs>>
    BY <1>6 DEF Cleanup, CleanupGone
  <2>2. /\ \A i \in 1..nBps : ~bps'[i].armed
        /\ \A i \in 1..nRbs : ~rbs'[i].active
    BY <2>1 DEF ClearTables, TypeOK, TableType, Breakpoint, ReturnBp
  <2>3. QED
    BY <2>1, <2>2 DEF SavedIsOriginal
<1>7. QED
  BY <1>1, <1>2, <1>3, <1>4, <1>5, <1>6, TablesFrame

LEMMA PatchedIsRecordedStep ==
    ASSUME IndInv, [Next]_vars
    PROVE  PatchedIsRecorded'
<1> USE DEF IndInv
<1> SUFFICES ASSUME pc' \notin {"sigcont", "done", "exit"},
                    NEW a \in Addr, mem'[a] = "int3"
             PROVE  a \in Planned'
  BY DEF PatchedIsRecorded
<1>1. pc \notin {"sigcont", "done", "exit"}
  BY LastStages
<1>2. mem[a] = "int3" => a \in Planned
  BY <1>1 DEF PatchedIsRecorded
<1>3. CASE UNCHANGED <<mem, tables>>
  BY <1>2, <1>3, SameTables
<1>4. CASE Scan
  BY <1>4 DEF Scan, Untouched
<1>5. CASE Arm
  <2>1. PICK F \in SUBSET (1..nBps) :
          /\ bps' = [i \in 1..MaxBps |->
                       IF i \in (1..nBps) \ F
                       THEN [addr |-> bps[i].addr, saved |-> SavedBy(i, F),
                             armed |-> TRUE]
                       ELSE bps[i]]
          /\ mem' = [x \in Addr |->
                       IF \E i \in (1..nBps) \ F : bps[i].addr = x
                       THEN "int3" ELSE mem[x]]
    BY <1>5 DEF Arm
  <2>2. PICK i \in (1..nBps) \ F : bps[i].addr = a
    BY <1>5, <2>1 DEF Arm, Untouched
  <2>3. bps'[i].armed /\ bps'[i].addr = a /\ nBps' = nBps
    BY <1>5, <2>1, <2>2 DEF Arm, TypeOK, TableType
  <2>4. EntryBps(a)' # {}
    BY <2>2, <2>3 DEF EntryBps
  <2>5. QED
    BY <2>4 DEF Planned
<1>6. CASE TrapEntry
  <2>1. UNCHANGED tables
    BY <1>6 DEF TrapEntry
  <2>2. bps[First(EntryBps(rip))].saved = "orig"
    BY <1>6, Lookup DEF TrapEntry, HitEntry
  <2>3. mem' = mem \/ mem' = [mem EXCEPT ![rip] = "orig"]
    BY <1>6, <2>2 DEF TrapEntry, BeginStep
  <2>4. mem[a] = "int3"
    BY <2>3 DEF TypeOK, TargetType
  <2>5. QED
    BY <1>2, <2>1, <2>4, SameTables
<1>7. CASE TrapReturn
  <2>1. UNCHANGED tables
    BY <1>7 DEF TrapReturn
  <2>2. rbs[First(ReturnBps(rip))].saved = "orig"
    BY <1>7, Lookup DEF TrapReturn, HitReturn
  <2>3. mem' = mem \/ mem' = [mem EXCEPT ![rip] = "orig"]
    BY <1>7, <2>2 DEF TrapReturn, BeginStep
  <2>4. mem[a] = "int3"
    BY <2>3 DEF TypeOK, TargetType
  <2>5. QED
    BY <1>2, <2>1, <2>4, SameTables
<1>8. CASE StepExit \/ StepReturn
  <2>1. UNCHANGED <<mem, bps, nBps, nRbs>> /\ pc = "step"
    BY <1>8 DEF StepExit, StepReturn
  <2>2. \/ rbs' = rbs
        \/ cur.kind = "return" /\ rbs' = [rbs EXCEPT ![cur.idx].active = FALSE]
    BY <1>8 DEF StepExit, StepReturn
  <2>3. CASE rbs' = rbs
    BY <1>2, <2>1, <2>3, SameTables
  <2>4. CASE cur.kind = "return" /\ rbs' = [rbs EXCEPT ![cur.idx].active = FALSE]
    <3>1. a # rbs[cur.idx].addr
      BY <2>1, <2>4 DEF SteppedIsInUse
    <3>2. \A i \in 1..nRbs : rbs[i].addr = a => rbs'[i] = rbs[i]
      BY <2>4, <3>1 DEF TypeOK, TableType
    <3>3. EntryBps(a)' = EntryBps(a) /\ ReturnBps(a) \subseteq ReturnBps(a)'
      BY <2>1, <3>2 DEF EntryBps, ReturnBps
    <3>4. QED
      BY <1>2, <2>1, <3>3 DEF Planned
  <2>5. QED
    BY <2>2, <2>3, <2>4
<1>9. CASE StepEntry
  <2> DEFINE e == bps[cur.idx].addr
  <2>1. UNCHANGED <<bps, nBps>> /\ pc = "step" /\ cur.kind = "entry"
    BY <1>9 DEF StepEntry
  <2>2. EntryBps(e) # {} /\ e \in Addr
    BY <2>1 DEF SteppedIsInUse, SavedIsOriginal, EntryBps
  <2>3. \A x : EntryBps(x)' = EntryBps(x)
    BY <2>1 DEF EntryBps
  <2>4. CASE UNCHANGED <<rbs, nRbs>>
    <3>1. mem'[a] = mem[a] \/ a = e
      BY <1>9, <2>2, <2>4 DEF StepEntry, Rearmed, WantReturn, TypeOK,
                              TargetType, TableType
    <3>2. QED
      BY <1>2, <2>1, <2>2, <2>3, <2>4, <3>1, SameTables DEF Planned
  <2>5. CASE ~UNCHANGED <<rbs, nRbs>>
    <3> DEFINE r == ReturnRecord(e, Rearmed(e)[cur.ret])
    <3>1. /\ WantReturn
          /\ nRbs' = nRbs + 1 /\ rbs' = [rbs EXCEPT ![nRbs + 1] = r]
          /\ mem' = [Rearmed(e) EXCEPT ![cur.ret] = "int3"]
      BY <1>9, <2>5 DEF StepEntry
    <3>2. r.addr = cur.ret /\ r.active
      BY DEF ReturnRecord
    <3>3. mem'[a] = mem[a] \/ a = e \/ a = cur.ret
      BY <2>2, <3>1 DEF Rearmed, TypeOK, TargetType
    <3> HIDE DEF r
    <3>4. /\ nRbs \in Nat /\ nRbs + 1 \in 1..MaxReturns
          /\ rbs'[nRbs + 1] = r
          /\ \A i \in 1..nRbs : rbs'[i] = rbs[i]
      BY <3>1 DEF WantReturn, TypeOK, TableType
    <3>5. ReturnBps(a) \subseteq ReturnBps(a)'
      BY <3>1, <3>4 DEF ReturnBps
    <3>6. nRbs + 1 \in ReturnBps(cur.ret)'
      <4>1. nRbs + 1 \in 1..nRbs'
        BY <3>1, <3>4
      <4>2. rbs'[nRbs + 1].active /\ rbs'[nRbs + 1].addr = cur.ret
        BY <3>2, <3>4
      <4>3. cur' = cur
        BY <1>9 DEF StepEntry
      <4>4. QED
        BY <4>1, <4>2, <4>3 DEF ReturnBps
    <3>7. cur' = cur
      BY <1>9 DEF StepEntry
    <3>8. QED
      BY <1>2, <2>2, <2>3, <3>3, <3>5, <3>6, <3>7 DEF Planned
  <2>6. QED
    BY <2>4, <2>5
<1>10. CASE Cleanup \/ CleanupGone
  BY <1>10 DEF Cleanup, CleanupGone
<1>11. QED
  BY <1>3, <1>4, <1>5, <1>6, <1>7, <1>8, <1>9, <1>10, TablesFrame, MemFrame

LEMMA SteppedIsInUseStep ==
    ASSUME IndInv, [Next]_vars
    PROVE  SteppedIsInUse'
<1> USE DEF IndInv
<1> SUFFICES ASSUME pc' = "step"
             PROVE  SteppedIsInUse'
  BY DEF SteppedIsInUse
<1>1. \/ pc = "step" /\ UNCHANGED <<mem, tables, cur>>
      \/ TrapEntry \/ TrapReturn
  <2>1. (pc = "step" /\ UNCHANGED cur) \/ TrapEntry \/ TrapReturn
    BY DEF Next, AlarmFires,
       Host, Gate, Attach, AttachWait, AttachWaitFails, Scan, Arm, ArmGone, Start,
       WaitExit, WaitTrap, WaitSignal, WaitInterrupted, StopWait, PeekFails,
       TrapEntry, TrapReturn, TrapUnexpected, StepExit, StepOther,
       StepInterrupted, StepEntry, StepReturn, Cleanup, CleanupGone,
       SigCont, SkipCleanup, HostExit, ReadOnly, Release, NoBp, SavedBy,
       Die, Resume, TraceStop, OpFails, Emit, BeginStep, StepFails, Proceed,
       ReturnRecord, Rearmed, ClearTables,
       Target, TargetCall, TargetReturn, TargetExecutes, TargetTraps,
       TargetDerails, TargetOwnTrap, SpawnThread, OtherThreadTraps,
       SendSignal, TakeSignal, TargetEnds, Die, TraceStop, CountRun
  <2>2. UNCHANGED mem \/ TrapEntry \/ TrapReturn
    BY MemFrame DEF Arm, StepEntry, StepFails, Proceed, Cleanup
  <2>3. UNCHANGED tables \/ TrapEntry \/ TrapReturn
    BY TablesFrame DEF Scan, Arm, StepExit, StepEntry, StepReturn, StepFails,
                       Proceed, Cleanup, CleanupGone
  <2>4. QED
    BY <2>1, <2>2, <2>3
<1>2. CASE pc = "step" /\ UNCHANGED <<mem, tables, cur>>
  BY <1>2 DEF SteppedIsInUse
<1>3. CASE TrapEntry
  <2> DEFINE i == First(EntryBps(rip))
  <2>1. i \in 1..nBps /\ bps[i].armed
    BY <1>3, Lookup DEF TrapEntry, HitEntry
  <2>2. cur'.kind = "entry" /\ cur'.idx = i /\ UNCHANGED tables
    BY <1>3 DEF TrapEntry
  <2>3. QED
    BY <2>1, <2>2 DEF SteppedIsInUse
<1>4. CASE TrapReturn
  <2> DEFINE i == First(ReturnBps(rip))
  <2>1. /\ i \in 1..nRbs /\ rbs[i].active /\ rbs[i].saved = "orig"
        /\ rbs[i].addr = rip /\ rip \in Addr
    BY <1>4, Lookup DEF TrapReturn, HitReturn
  <2>2. cur'.kind = "return" /\ cur'.idx = i /\ UNCHANGED tables
    BY <1>4 DEF TrapReturn
  <2>3. mem' = [mem EXCEPT ![rip] = rbs[i].saved]
    BY <1>4 DEF TrapReturn, BeginStep
  <2>4. mem'[rip] = "orig"
    BY <2>1, <2>3 DEF TypeOK, TargetType
  <2>5. QED
    BY <2>1, <2>2, <2>4 DEF SteppedIsInUse
<1>5. QED
  BY <1>1, <1>2, <1>3, <1>4

LEMMA HeldStillStep ==
    ASSUME IndInv, [Next]_vars
    PROVE  HeldStill'
<1> USE DEF IndInv, HeldStill, TypeOK, TargetType
<1>1. CASE Target \/ AlarmFires \/ UNCHANGED vars
  BY <1>1 DEF AlarmFires,
       Target, TargetCall, TargetReturn, TargetExecutes, TargetTraps,
       TargetDerails, TargetOwnTrap, SpawnThread, OtherThreadTraps,
       SendSignal, TakeSignal, TargetEnds, Die, TraceStop, CountRun
<1>2. CASE Gate \/ Attach \/ AttachWait \/ AttachWaitFails \/ Scan \/ Arm
           \/ ArmGone
  BY <1>2 DEF Gate, ReadOnly, Attach, AttachWait, AttachWaitFails, Release,
              Scan, Arm, ArmGone, Die
<1>3. CASE Start \/ WaitSignal
  BY <1>3 DEF Start, WaitSignal, Resume, TraceStop, OpFails, Die
<1>4. CASE WaitExit \/ WaitTrap \/ WaitInterrupted \/ StopWait
  BY <1>4 DEF WaitExit, WaitTrap, WaitInterrupted, StopWait
<1>5. CASE PeekFails \/ TrapUnexpected
  BY <1>5 DEF PeekFails, TrapUnexpected, OpFails, Die
<1>6. CASE TrapEntry \/ TrapReturn
  <2>1. pc = "trap" /\ UNCHANGED traced
    BY <1>6 DEF TrapEntry, TrapReturn
  <2>2. \/ /\ tstate = "stop" /\ tstate' = "step" /\ news' = FALSE /\ pc' = "step"
           /\ UNCHANGED alive
        \/ OpFails /\ pc' = "cleanup"
    BY <1>6 DEF TrapEntry, TrapReturn, BeginStep
  <2>3. QED
    BY <2>1, <2>2 DEF OpFails, Die
<1>7. CASE StepExit \/ StepOther \/ StepInterrupted
  BY <1>7 DEF StepExit, StepOther, StepInterrupted
<1>8. CASE StepEntry \/ StepReturn
  <2>1. pc = "step" /\ news /\ (StepFails \/ Proceed)
    BY <1>8 DEF StepEntry, StepReturn
  <2>2. QED
    BY <2>1 DEF StepFails, Proceed, Resume, TraceStop, OpFails, Die
<1>9. CASE Cleanup \/ CleanupGone \/ SigCont \/ SkipCleanup \/ HostExit
  BY <1>9 DEF Cleanup, CleanupGone, SigCont, SkipCleanup, HostExit, Release
<1>10. QED
  BY <1>1, <1>2, <1>3, <1>4, <1>5, <1>6, <1>7, <1>8, <1>9 DEF Next, Host

LEMMA CleanOnceReleasedStep ==
    ASSUME IndInv, [Next]_vars
    PROVE  CleanOnceReleased'
<1> USE DEF IndInv
<1> SUFFICES ASSUME pc' \in {"sigcont", "done"}, status' = "OK",
                    tstate' # "dead"
             PROVE  ~traced' /\ \A a \in Addr : mem'[a] = "orig"
  BY DEF CleanOnceReleased
<1>1. \/ /\ pc \in {"sigcont", "done"} /\ status = "OK" /\ tstate # "dead"
         /\ traced' = traced
      \/ Gate \/ Attach \/ Cleanup \/ CleanupGone
      \/ pc = "cleanup" /\ ~alive /\ UNCHANGED tstate
  BY HeldStillStep DEF HeldStill, Next, AlarmFires,
       Host, Gate, Attach, AttachWait, AttachWaitFails, Scan, Arm, ArmGone, Start,
       WaitExit, WaitTrap, WaitSignal, WaitInterrupted, StopWait, PeekFails,
       TrapEntry, TrapReturn, TrapUnexpected, StepExit, StepOther,
       StepInterrupted, StepEntry, StepReturn, Cleanup, CleanupGone,
       SigCont, SkipCleanup, HostExit, ReadOnly, Release, NoBp, SavedBy,
       Die, Resume, TraceStop, OpFails, Emit, BeginStep, StepFails, Proceed,
       ReturnRecord, Rearmed, ClearTables,
       Target, TargetCall, TargetReturn, TargetExecutes, TargetTraps,
       TargetDerails, TargetOwnTrap, SpawnThread, OtherThreadTraps,
       SendSignal, TakeSignal, TargetEnds, Die, TraceStop, CountRun
<1>2. UNCHANGED mem \/ Cleanup
  BY MemFrame DEF Arm, TrapEntry, TrapReturn, BeginStep, StepEntry,
                  StepFails, Proceed
<1>3. CASE /\ pc \in {"sigcont", "done"} /\ status = "OK" /\ tstate # "dead"
           /\ traced' = traced
  BY <1>2, <1>3 DEF CleanOnceReleased, Cleanup
<1>4. CASE Gate \/ Attach
  BY <1>2, <1>4 DEF Gate, Attach, ReadOnly, Untouched, Cleanup
<1>5. CASE Cleanup
  <2>1. mem' = [a \in Addr |-> IF a \in Planned
                               THEN PlannedByte(a) ELSE mem[a]]
        /\ ~traced'
    BY <1>5 DEF Cleanup, Release
  <2>2. \A a \in Addr : a \notin Planned => mem[a] = "orig"
    BY <1>5 DEF Cleanup, PatchedIsRecorded, TypeOK, TargetType, Byte
  <2>3. \A a \in Addr : a \in Planned => PlannedByte(a) = "orig"
    BY Lookup
  <2>4. QED
    BY <2>1, <2>2, <2>3
<1>6. CASE CleanupGone
  BY <1>6 DEF CleanupGone, HeldStill
<1>7. CASE pc = "cleanup" /\ ~alive /\ UNCHANGED tstate
  BY <1>7 DEF HeldStill
<1>8. QED
  BY <1>1, <1>3, <1>4, <1>5, <1>6, <1>7

-----------------------------------------------------------------------------
(* The theorems.                                                           *)

\* IndInv is an inductive invariant of the live pass.
THEOREM Invariance == Spec => []IndInv
<1>1. ASSUME IndInv, [Next]_vars
      PROVE  IndInv'
  BY <1>1, TypeStep, UntouchedStep, SavedIsOriginalStep,
     PatchedIsRecordedStep, SteppedIsInUseStep, HeldStillStep,
     CleanOnceReleasedStep DEF IndInv
<1>2. QED
  BY InitInv, <1>1, PTL DEF Spec

\* Every variable of the live pass keeps its type; in particular neither
\* breakpoint table is ever indexed past its array.
THEOREM TypeCorrect == Spec => []TypeOK
<1>1. IndInv => TypeOK
  BY DEF IndInv
<1>2. QED
  BY Invariance, <1>1, PTL

\* Whatever requests failed and whichever records share an address, until the
\* cleanup is over every INT3 in the target is one plan_restores visits, and
\* the byte it writes there is the original one.
THEOREM CleanupKnowsEveryPatch == Spec => []PatchedIsPlanned
<1>1. IndInv => PatchedIsPlanned
  BY Lookup DEF IndInv, PatchedIsRecorded, PatchedIsPlanned
<1>2. QED
  BY Invariance, <1>1, PTL

\* run_live never reports success with anything of its own left in the target:
\* the code is byte for byte the original and the target is not traced.
THEOREM SuccessIsClean == Spec => []OkMeansClean
<1>1. IndInv => OkMeansClean
  BY DEF IndInv, CleanOnceReleased, OkMeansClean, Succeeded
<1>2. QED
  BY Invariance, <1>1, PTL

-----------------------------------------------------------------------------
(* Reports: what is counted on either side of a step.                      *)

\* While the target may run on its own, every armed entry holds its INT3, but
\* for the one that is being stepped over.
ArmedIsPatched ==
    pc \in {"start", "wait", "trap", "step"} =>
        \A a \in Addr : EntryBps(a) # {} =>
            mem[a] = "int3" \/ (pc = "step" /\ cur.kind = "entry" /\ a = bps[cur.idx].addr)

\* The address that is being stepped over.
SteppedAddr == IF cur.kind = "entry" THEN bps[cur.idx].addr ELSE rbs[cur.idx].addr

\* A step is under way, over the restored byte; or it has trapped and the entry
\* counts as run; or something else has come of it.
StepIsExact ==
    pc = "step" =>
        \/ tstate = "dead"
        \/ tstate = "stop" /\ stopSig \in {"USR", "STOP", "GROUP"}
        \/ tstate = "stop" /\ stopSig = "TRAP" /\ ~past /\ enters = ran
        \/ /\ tstate = "step" /\ ~past /\ rip = SteppedAddr /\ mem[rip] = "orig"
           /\ enters = IF cur.kind = "entry" THEN [ran EXCEPT ![rip] = @ + 1] ELSE ran

Reported == pc \in Early \cup {"start", "wait", "trap"} => enters = ran

\* From the attach to the end of the cleanup the host holds the target.
Attached ==
    pc \in {"attachWait", "scan", "arm", "start", "wait", "trap", "step", "stopWait", "cleanup"}
        => traced

ReportInv == Attached /\ ArmedIsPatched /\ StepIsExact /\ Reported


\* How the host comes to the stages in which it counts.
LEMMA HostStages ==
    ASSUME Host
    PROVE  \/ pc' \in {"stopWait", "cleanup", "sigcont", "done", "exit"}
           \/ pc' \in Early
           \/ Arm /\ pc = "arm" /\ pc' = "start" /\ UNCHANGED <<cur, enters, ran>>
           \/ /\ Start \/ WaitTrap \/ WaitSignal
              /\ pc \in {"start", "wait"} /\ pc' \in {"wait", "trap"}
              /\ UNCHANGED <<mem, tables, cur, enters, returns, ran>>
           \/ TrapEntry /\ pc = "trap" /\ pc' = "step"
           \/ TrapReturn /\ pc = "trap" /\ pc' = "step"
           \/ StepEntry /\ pc = "step" /\ pc' = "wait"
           \/ StepReturn /\ pc = "step" /\ pc' = "wait"
<1>1. CASE Gate \/ Attach \/ AttachWait \/ AttachWaitFails \/ Scan \/ ArmGone
  BY <1>1 DEF Early, Gate, Attach, AttachWait, AttachWaitFails, Scan, ArmGone, ReadOnly
<1>2. CASE Arm
  BY <1>2 DEF Arm
<1>3. CASE Start \/ WaitTrap \/ WaitSignal
  <2>1. /\ pc \in {"start", "wait"} /\ pc' \in {"wait", "trap", "cleanup"}
        /\ UNCHANGED <<mem, tables, cur, enters, returns, ran>>
    BY <1>3 DEF Start, WaitTrap, WaitSignal
  <2>2. QED
    BY <1>3, <2>1
<1>4. CASE WaitExit \/ WaitInterrupted \/ StopWait \/ PeekFails \/ TrapUnexpected
           \/ StepExit \/ StepOther \/ StepInterrupted
  BY <1>4 DEF WaitExit, WaitInterrupted, StopWait, PeekFails, TrapUnexpected,
              StepExit, StepOther, StepInterrupted
<1>5. CASE TrapEntry \/ TrapReturn
  <2>1. pc = "trap" /\ pc' \in {"step", "cleanup"}
    BY <1>5 DEF TrapEntry, TrapReturn, BeginStep
  <2>2. QED
    BY <1>5, <2>1
<1>6. CASE StepEntry \/ StepReturn
  <2>1. pc = "step" /\ (StepFails \/ Proceed)
    BY <1>6 DEF StepEntry, StepReturn
  <2>2. pc' \in {"wait", "cleanup"}
    BY <2>1 DEF StepFails, Proceed
  <2>3. QED
    BY <1>6, <2>1, <2>2
<1>7. CASE Cleanup \/ CleanupGone \/ SigCont \/ SkipCleanup \/ HostExit
  BY <1>7 DEF Cleanup, CleanupGone, SigCont, SkipCleanup, HostExit
<1>8. QED
  BY <1>1, <1>2, <1>3, <1>4, <1>5, <1>6, <1>7 DEF Host

LEMMA AttachedStep ==
    ASSUME Attached, [Next]_vars
    PROVE  Attached'
BY DEF Attached, Next, AlarmFires,
       Host, Gate, Attach, AttachWait, AttachWaitFails, Scan, Arm, ArmGone, Start,
       WaitExit, WaitTrap, WaitSignal, WaitInterrupted, StopWait, PeekFails,
       TrapEntry, TrapReturn, TrapUnexpected, StepExit, StepOther,
       StepInterrupted, StepEntry, StepReturn, Cleanup, CleanupGone,
       SigCont, SkipCleanup, HostExit, ReadOnly, Release, NoBp, SavedBy,
       Die, Resume, TraceStop, OpFails, Emit, BeginStep, StepFails, Proceed,
       ReturnRecord, Rearmed, ClearTables,
       Target, TargetCall, TargetReturn, TargetExecutes, TargetTraps,
       TargetDerails, TargetOwnTrap, SpawnThread, OtherThreadTraps,
       SendSignal, TakeSignal, TargetEnds, CountRun

LEMMA ArmedIsPatchedStep ==
    ASSUME IndInv, ReportInv, [Next]_vars
    PROVE  ArmedIsPatched'
<1> SUFFICES ASSUME pc' \in {"start", "wait", "trap", "step"},
                    NEW a \in Addr, EntryBps(a)' # {}
             PROVE  mem'[a] = "int3"
                    \/ (pc' = "step" /\ cur'.kind = "entry" /\ a = bps'[cur'.idx].addr)
  BY DEF ArmedIsPatched
<1> USE DEF IndInv, ReportInv
<1>1. CASE Target \/ AlarmFires \/ UNCHANGED vars
  <2>1. UNCHANGED <<mem, tables, pc, cur>>
    BY <1>1, TargetFrame
  <2>2. QED
    BY <2>1, SameTables DEF ArmedIsPatched
<1>2. CASE Start \/ WaitTrap \/ WaitSignal
  <2>1. pc \in {"start", "wait"} /\ UNCHANGED <<mem, tables, cur>>
    BY <1>2 DEF Start, WaitTrap, WaitSignal
  <2>2. QED
    BY <2>1, SameTables DEF ArmedIsPatched
<1>3. CASE Arm /\ pc' = "start"
  <2>1. PICK F \in SUBSET (1..nBps) :
          /\ bps' = [i \in 1..MaxBps |->
                       IF i \in (1..nBps) \ F
                       THEN [addr |-> bps[i].addr, saved |-> SavedBy(i, F),
                             armed |-> TRUE]
                       ELSE bps[i]]
          /\ mem' = [x \in Addr |->
                       IF \E i \in (1..nBps) \ F : bps[i].addr = x
                       THEN "int3" ELSE mem[x]]
          /\ nBps' = nBps
    BY <1>3 DEF Arm
  <2>2. PICK i \in 1..nBps : bps'[i].armed /\ bps'[i].addr = a
    BY <2>1 DEF EntryBps
  <2>3. i \in 1..MaxBps /\ ~bps[i].armed
    BY <1>3 DEF TypeOK, TableType, Untouched, Arm
  <2>4. i \in (1..nBps) \ F /\ bps[i].addr = a
    BY <2>1, <2>2, <2>3
  <2>5. QED
    BY <2>1, <2>4
<1>4. CASE TrapEntry /\ pc' = "step"
  <2> DEFINE i == First(EntryBps(rip))
  <2>1. /\ pc = "trap" /\ UNCHANGED tables /\ cur'.kind = "entry" /\ cur'.idx = i
        /\ mem' = [mem EXCEPT ![rip] = bps[i].saved]
    BY <1>4 DEF TrapEntry, BeginStep
  <2>2. bps[i].addr = rip
    BY <1>4, Lookup DEF TrapEntry, HitEntry
  <2> HIDE DEF i
  <2>3. CASE a = rip
    BY <1>4, <2>1, <2>2, <2>3
  <2>4. CASE a # rip
    BY <2>1, <2>4, SameTables DEF ArmedIsPatched, TypeOK, TargetType
  <2>5. QED
    BY <2>3, <2>4
<1>5. CASE TrapReturn /\ pc' = "step"
  <2>1. /\ pc = "trap" /\ UNCHANGED tables /\ EntryBps(rip) = {}
        /\ mem' = [mem EXCEPT ![rip] = rbs[First(ReturnBps(rip))].saved]
    BY <1>5 DEF TrapReturn, BeginStep, HitReturn
  <2>2. a # rip
    BY <2>1, SameTables
  <2>3. QED
    BY <2>1, <2>2, SameTables DEF ArmedIsPatched, TypeOK, TargetType
<1>6. CASE StepEntry /\ pc' = "wait"
  <2> DEFINE e == bps[cur.idx].addr
  <2>1. /\ UNCHANGED <<bps, nBps>> /\ pc = "step" /\ cur.kind = "entry"
        /\ mem' = Rearmed(e) \/ (WantReturn /\ mem' = [Rearmed(e) EXCEPT ![cur.ret] = "int3"])
    BY <1>6 DEF StepEntry, StepFails
  <2>2. EntryBps(a) # {} /\ e \in Addr
    BY <2>1 DEF EntryBps, SteppedIsInUse, SavedIsOriginal
  <2>3. Rearmed(e)[a] = "int3"
    BY <2>1, <2>2 DEF ArmedIsPatched, Rearmed, TypeOK, TargetType
  <2>4. QED
    BY <2>1, <2>2, <2>3 DEF Rearmed, TypeOK, TargetType
<1>7. CASE StepReturn /\ pc' = "wait"
  <2>1. UNCHANGED <<mem, bps, nBps>> /\ pc = "step" /\ cur.kind = "return"
    BY <1>7 DEF StepReturn
  <2>2. QED
    BY <2>1 DEF ArmedIsPatched, EntryBps
<1>8. QED
  BY <1>1, <1>2, <1>3, <1>4, <1>5, <1>6, <1>7, HostStages DEF Next, Early

LEMMA StepIsExactStep ==
    ASSUME IndInv, ReportInv, [Next]_vars
    PROVE  StepIsExact'
<1> SUFFICES ASSUME pc' = "step" PROVE StepIsExact'
  BY DEF StepIsExact
<1> USE DEF IndInv, ReportInv
<1>1. CASE Target \/ AlarmFires \/ UNCHANGED vars
  <2>1. UNCHANGED <<mem, tables, pc, cur, enters>>
    BY <1>1, TargetFrame
  <2>2. SteppedAddr' = SteppedAddr
    BY <2>1 DEF SteppedAddr
  <2>3. pc = "step" /\ StepIsExact
    BY <2>1
  <2>4. CASE TargetExecutes
    <3>1. CASE tstate = "step"
      <4>1. /\ tstate = "step" /\ ~past /\ rip = SteppedAddr /\ mem[rip] = "orig"
            /\ enters = IF cur.kind = "entry" THEN [ran EXCEPT ![rip] = @ + 1] ELSE ran
        BY <2>3, <3>1 DEF StepIsExact
      <4>2. cur.kind = "entry" => EntryBps(rip) # {}
        BY <2>3, <4>1 DEF SteppedIsInUse, SteppedAddr, EntryBps
      <4>3. cur.kind # "entry" => EntryBps(rip) = {}
        BY <2>3, <4>1 DEF SteppedIsInUse, SteppedAddr, SavedIsOriginal
      <4>4. ran' = enters
        BY <2>4, <4>1, <4>2, <4>3 DEF TargetExecutes, CountRun
      <4>5. tstate' = "stop" /\ stopSig' = "TRAP" /\ ~past'
        BY <2>4, <3>1, <4>1 DEF TargetExecutes, TraceStop
      <4>6. QED
        BY <2>1, <4>4, <4>5 DEF StepIsExact
    <3>2. CASE tstate # "step"
      BY <2>3, <2>4, <3>2 DEF StepIsExact, TargetExecutes
    <3>3. QED
      BY <3>1, <3>2
  <2>5. CASE TakeSignal
    <3>1. tstate = "step"
      BY <2>3, <2>5 DEF StepIsExact, TakeSignal
    <3>2. traced => tstate' = "stop" /\ stopSig' \in {"USR", "STOP", "GROUP"}
      BY <2>5 DEF TakeSignal, TraceStop, TypeOK, TargetType, Signal
    <3>3. traced
      BY <2>3 DEF Attached
    <3>4. QED
      BY <3>2, <3>3 DEF StepIsExact
  <2>6. CASE TargetEnds \/ OtherThreadTraps \/ TargetDerails
    BY <2>6 DEF TargetEnds, OtherThreadTraps, TargetDerails, Die, StepIsExact
  <2>7. CASE TargetCall \/ TargetReturn \/ TargetOwnTrap
    BY <2>3, <2>7 DEF TargetCall, TargetReturn, TargetOwnTrap, StepIsExact
  <2>8. CASE TargetTraps
    BY <2>3, <2>8 DEF TargetTraps, StepIsExact
  <2>9. CASE SpawnThread \/ SendSignal \/ AlarmFires \/ UNCHANGED vars
    <3>1. UNCHANGED <<tstate, stopSig, past, rip, ran>>
      BY <2>9 DEF SpawnThread, SendSignal, AlarmFires
    <3>2. QED
      BY <2>1, <2>2, <2>3, <3>1 DEF StepIsExact
  <2>10. QED
    BY <1>1, <2>4, <2>5, <2>6, <2>7, <2>8, <2>9 DEF Target
<1>2. CASE TrapEntry
  <2> DEFINE i == First(EntryBps(rip))
  <2>1. /\ pc = "trap" /\ UNCHANGED <<tables, rip, ran>> /\ cur'.kind = "entry" /\ cur'.idx = i
        /\ mem' = [mem EXCEPT ![rip] = bps[i].saved] /\ tstate' = "step" /\ past' = FALSE
        /\ enters' = [enters EXCEPT ![bps[i].addr] = @ + 1]
    BY <1>2 DEF TrapEntry, BeginStep, Emit
  <2>2. bps[i].addr = rip /\ rip \in Entry /\ bps[i].saved = "orig"
    BY <1>2, Lookup DEF TrapEntry, HitEntry
  <2> HIDE DEF i
  <2>3. SteppedAddr' = rip /\ mem'[rip] = "orig"
    BY <2>1, <2>2 DEF SteppedAddr, TypeOK, TargetType
  <2>4. enters = ran
    BY <2>1 DEF Reported
  <2>5. QED
    BY <2>1, <2>2, <2>3, <2>4 DEF StepIsExact
<1>3. CASE TrapReturn
  <2> DEFINE i == First(ReturnBps(rip))
  <2>1. /\ pc = "trap" /\ UNCHANGED <<tables, rip, ran, enters>> /\ cur'.kind = "return"
        /\ cur'.idx = i
        /\ mem' = [mem EXCEPT ![rip] = rbs[i].saved] /\ tstate' = "step" /\ past' = FALSE
    BY <1>3 DEF TrapReturn, BeginStep
  <2>2. rbs[i].addr = rip /\ rip \in Addr /\ rbs[i].saved = "orig"
    BY <1>3, Lookup DEF TrapReturn, HitReturn
  <2> HIDE DEF i
  <2>3. SteppedAddr' = rip /\ mem'[rip] = "orig"
    BY <2>1, <2>2 DEF SteppedAddr, TypeOK, TargetType
  <2>4. enters = ran
    BY <2>1 DEF Reported
  <2>5. QED
    BY <2>1, <2>3, <2>4 DEF StepIsExact
<1>4. QED
  BY <1>1, <1>2, <1>3, HostStages DEF Next, Early

LEMMA ReportedStep ==
    ASSUME IndInv, ReportInv, [Next]_vars
    PROVE  Reported'
<1> SUFFICES ASSUME pc' \in Early \cup {"start", "wait", "trap"} PROVE enters' = ran'
  BY DEF Reported
<1> USE DEF IndInv, ReportInv
<1>1. CASE Target \/ AlarmFires \/ UNCHANGED vars
  <2>1. UNCHANGED <<pc, enters>> /\ enters = ran
    BY <1>1, TargetFrame DEF Reported
  <2>2. CASE TargetExecutes
    <3>1. EntryBps(rip) = {}
      <4>1. CASE pc \in Early
        BY <4>1 DEF Untouched, Early, EntryBps, TypeOK, TableType
      <4>2. CASE pc = "wait"
        BY <2>2, <4>2 DEF ArmedIsPatched, TargetExecutes, TypeOK, TargetType
      <4>3. CASE pc \in {"start", "trap"}
        BY <2>2, <4>3 DEF HeldStill, TargetExecutes
      <4>4. QED
        BY <2>1, <4>1, <4>2, <4>3
    <3>2. QED
      BY <2>1, <2>2, <3>1 DEF TargetExecutes, CountRun
  <2>3. CASE ~TargetExecutes
    <3>1. UNCHANGED ran
      BY <1>1, <2>3 DEF AlarmFires, Target, TargetCall, TargetReturn, TargetTraps,
       TargetDerails, TargetOwnTrap, SpawnThread, OtherThreadTraps,
       SendSignal, TakeSignal, TargetEnds
    <3>2. QED
      BY <2>1, <3>1
  <2>4. QED
    BY <2>2, <2>3
<1>2. CASE pc' \in Early /\ Host
  <2>1. pc \in Early
    BY <1>2, EarlyFrame
  <2>2. UNCHANGED <<enters, ran>>
    BY <1>2, <2>1, CountFrame, HostFrame DEF Early, TrapEntry, TrapReturn, TargetExecutes
  <2>3. QED
    BY <2>1, <2>2 DEF Reported
<1>3. CASE Arm /\ pc = "arm" /\ UNCHANGED <<enters, ran>>
  BY <1>3 DEF Reported, Early
<1>4. CASE pc \in {"start", "wait"} /\ UNCHANGED <<enters, ran>>
  BY <1>4 DEF Reported
<1>5. CASE StepEntry \/ StepReturn
  <2>1. pc = "step" /\ stopSig = "TRAP" /\ UNCHANGED <<enters, ran>> /\ pc' = "wait"
    BY <1>5 DEF StepEntry, StepReturn, StepFails, Proceed, Early
  <2>2. tstate = "stop"
    BY <1>5, <2>1 DEF StepEntry, StepReturn, StepFails, Proceed, Resume
  <2>3. QED
    BY <2>1, <2>2 DEF StepIsExact
<1>6. QED
  BY <1>1, <1>2, <1>3, <1>4, <1>5, HostStages DEF Next, Early

LEMMA ReportInit == Init => ReportInv
BY DEF Init, ReportInv, Attached, ArmedIsPatched, StepIsExact, Reported

LEMMA ReportStep ==
    ASSUME IndInv, ReportInv, [Next]_vars
    PROVE  ReportInv'
BY AttachedStep, ArmedIsPatchedStep, StepIsExactStep, ReportedStep DEF ReportInv

\* The ENTER records are the executions of armed entries, wherever the target is
\* stopped, stepped or signalled, and whichever requests fail.
THEOREM EntriesAreReported == Spec => []EveryCallReportedOnce
<1>1. IndInv /\ ReportInv /\ [Next]_vars => ReportInv'
  BY ReportStep
<1>2. ReportInv => EveryCallReportedOnce
  BY DEF ReportInv, Reported, EveryCallReportedOnce
<1>3. QED
  BY Invariance, ReportInit, <1>1, <1>2, PTL DEF Spec

-----------------------------------------------------------------------------
(* Returns: every record in the table was placed for an ENTER, and is used *)
(* up by at most one RETURN.                                               *)

Placed(f) == {i \in 1..nRbs : rbs[i].fn = f}
UsedUp(f) ==
    {i \in Placed(f) : ~rbs[i].active \/ (cur.kind = "return" /\ cur.idx = i)}

\* The entry being stepped over has not got its record yet.
ToPlace(f) == pc = "step" /\ cur.kind = "entry" /\ bps[cur.idx].addr = f

ReturnInv ==
    /\ \A f \in Entry : returns[f] <= Cardinality(UsedUp(f))
    /\ \A f \in Entry : Cardinality(Placed(f)) + (IF ToPlace(f) THEN 1 ELSE 0) <= enters[f]
    /\ pc \in Early => cur.kind = "none"
    /\ pc \in {"start", "wait", "trap"} /\ cur.kind = "return" => ~rbs[cur.idx].active

LEMMA Placings ==
    ASSUME TypeOK, NEW f
    PROVE  /\ IsFiniteSet(Placed(f)) /\ IsFiniteSet(UsedUp(f))
           /\ Cardinality(Placed(f)) \in Nat /\ Cardinality(UsedUp(f)) \in Nat
           /\ Cardinality(UsedUp(f)) <= Cardinality(Placed(f))
<1>1. nRbs \in Nat /\ IsFiniteSet(1..nRbs)
  BY FS_Interval DEF TypeOK, TableType
<1>2. Placed(f) \subseteq 1..nRbs /\ UsedUp(f) \subseteq Placed(f)
  BY DEF Placed, UsedUp
<1>3. IsFiniteSet(Placed(f))
  BY <1>1, <1>2, FS_Subset
<1>4. QED
  BY <1>2, <1>3, FS_Subset, FS_CardinalityType

\* Neither count moves, nor anything they are compared with.
LEMMA SameReturns ==
    ASSUME ReturnInv, UNCHANGED <<rbs, nRbs, cur, enters, returns>>,
           pc' = "step" => pc = "step" /\ UNCHANGED bps,
           pc' \in Early => pc \in Early,
           pc' \in {"start", "wait", "trap"} => pc \in Early \cup {"start", "wait", "trap"},
           TypeOK
    PROVE  ReturnInv'
<1>1. \A f : Placed(f)' = Placed(f) /\ UsedUp(f)' = UsedUp(f)
  BY DEF Placed, UsedUp
<1>2. \A f : ToPlace(f)' => ToPlace(f)
  BY DEF ToPlace
<1>3. ASSUME NEW f \in Entry
      PROVE  /\ returns'[f] <= Cardinality(UsedUp(f)')
             /\ Cardinality(Placed(f)') + (IF ToPlace(f)' THEN 1 ELSE 0) <= enters'[f]
  <2>1. Cardinality(Placed(f)) \in Nat /\ enters[f] \in Nat
    BY Placings DEF TypeOK, CountType
  <2>2. /\ returns[f] <= Cardinality(UsedUp(f))
        /\ Cardinality(Placed(f)) + (IF ToPlace(f) THEN 1 ELSE 0) <= enters[f]
    BY DEF ReturnInv
  <2>3. QED
    BY <1>1, <1>2, <2>1, <2>2
<1>4. /\ pc' \in Early => cur'.kind = "none"
      /\ pc' \in {"start", "wait", "trap"} /\ cur'.kind = "return" => ~rbs'[cur'.idx].active
  BY DEF ReturnInv
<1>5. QED
  BY <1>3, <1>4 DEF ReturnInv

LEMMA ReturnStep ==
    ASSUME IndInv, ReturnInv, [Next]_vars
    PROVE  ReturnInv'
<1>1. CASE Target \/ AlarmFires \/ UNCHANGED vars
  <2>1. UNCHANGED <<tables, pc, cur, enters, returns>>
    BY <1>1, TargetFrame
  <2>2. QED
    BY <2>1, SameReturns DEF IndInv
<1>2. CASE Host /\ pc' \in Early
  <2>1. pc \in Early /\ UNCHANGED <<rbs, nRbs>> /\ pc' # "step"
    BY <1>2, EarlyFrame DEF Early
  <2>2. UNCHANGED <<cur, enters, returns>>
    BY <1>2, <2>1, CurFrame, CountFrame DEF Early, TrapEntry, TrapReturn, TargetExecutes
  <2>3. pc' \notin {"start", "wait", "trap"}
    BY <1>2 DEF Early
  <2>4. QED
    BY <1>2, <2>1, <2>2, <2>3, SameReturns DEF IndInv
<1>3. CASE Arm
  <2>1. UNCHANGED <<rbs, nRbs, cur, enters, returns>> /\ pc = "arm" /\ pc' \in {"start", "cleanup"}
    BY <1>3 DEF Arm
  <2>2. QED
    BY <2>1, SameReturns DEF IndInv, Early
<1>4. CASE /\ pc \in {"start", "wait"} /\ pc' \in {"wait", "trap"}
           /\ UNCHANGED <<mem, tables, cur, enters, returns, ran>>
  BY <1>4, SameReturns DEF IndInv, Early
<1>5. CASE TrapEntry
  <2> DEFINE i == First(EntryBps(rip))
             e == bps[i].addr
  <2>1. /\ pc = "trap" /\ UNCHANGED <<tables, returns>>
        /\ enters' = [enters EXCEPT ![e] = @ + 1]
        /\ cur'.kind = "entry" /\ cur'.idx = i /\ pc' \in {"step", "cleanup"}
    BY <1>5 DEF TrapEntry, Emit, BeginStep
  <2>2. e \in Entry
    BY <1>5, Lookup DEF TrapEntry, HitEntry, IndInv
  <2>3. \A f : Placed(f)' = Placed(f) /\ UsedUp(f)' = UsedUp(f)
    BY <2>1 DEF Placed, UsedUp, ReturnInv
  <2> HIDE DEF i
  <2>4. \A f : ToPlace(f)' => f = e
    BY <2>1 DEF ToPlace
  <2>5. ASSUME NEW f \in Entry
        PROVE  /\ returns'[f] <= Cardinality(UsedUp(f)')
               /\ Cardinality(Placed(f)') + (IF ToPlace(f)' THEN 1 ELSE 0) <= enters'[f]
    <3>1. Cardinality(Placed(f)) \in Nat /\ enters[f] \in Nat
      BY Placings DEF TypeOK, CountType, IndInv
    <3>2. /\ returns[f] <= Cardinality(UsedUp(f)) /\ Cardinality(Placed(f)) <= enters[f]
      BY <2>1, <3>1 DEF ReturnInv, ToPlace
    <3>3. enters'[f] = IF f = e THEN enters[f] + 1 ELSE enters[f]
      BY <2>1, <2>2 DEF IndInv, TypeOK, CountType
    <3>4. QED
      BY <2>1, <2>3, <2>4, <3>1, <3>2, <3>3
  <2>6. QED
    BY <2>1, <2>5 DEF ReturnInv, Early
<1>6. CASE TrapReturn
  <2> DEFINE i == First(ReturnBps(rip))
             e == rbs[i].fn
  <2>1. /\ pc = "trap" /\ UNCHANGED <<tables, enters>>
        /\ returns' = [returns EXCEPT ![e] = @ + 1]
        /\ cur'.kind = "return" /\ cur'.idx = i /\ pc' \in {"step", "cleanup"}
    BY <1>6 DEF TrapReturn, Emit, BeginStep
  <2>2. e \in Entry /\ i \in 1..nRbs /\ rbs[i].active
    BY <1>6, Lookup DEF TrapReturn, HitReturn, IndInv
  <2> HIDE DEF i
  <2>3. \A f : Placed(f)' = Placed(f) /\ ~ToPlace(f)'
    BY <2>1 DEF Placed, ToPlace
  <2>4. \A f : UsedUp(f)' = IF f = e THEN UsedUp(f) \cup {i} ELSE UsedUp(f)
    BY <2>1, <2>2 DEF Placed, UsedUp, ReturnInv
  <2>5. i \notin UsedUp(e)
    BY <2>1, <2>2 DEF UsedUp, ReturnInv
  <2>6. ASSUME NEW f \in Entry
        PROVE  /\ returns'[f] <= Cardinality(UsedUp(f)')
               /\ Cardinality(Placed(f)') + (IF ToPlace(f)' THEN 1 ELSE 0) <= enters'[f]
    <3>1. /\ Cardinality(Placed(f)) \in Nat /\ enters[f] \in Nat /\ returns[f] \in Nat
          /\ IsFiniteSet(UsedUp(f)) /\ Cardinality(UsedUp(f)) \in Nat
      BY Placings DEF TypeOK, CountType, IndInv
    <3>2. /\ returns[f] <= Cardinality(UsedUp(f)) /\ Cardinality(Placed(f)) <= enters[f]
      BY <2>1, <3>1 DEF ReturnInv, ToPlace
    <3>3. returns'[f] = IF f = e THEN returns[f] + 1 ELSE returns[f]
      BY <2>1, <2>2 DEF IndInv, TypeOK, CountType
    <3>4. f = e => Cardinality(UsedUp(f) \cup {i}) = Cardinality(UsedUp(f)) + 1
      BY <2>5, <3>1, FS_AddElement
    <3>5. returns'[f] <= Cardinality(UsedUp(f)')
      <4>1. CASE f = e
        <5>1. UsedUp(f)' = UsedUp(f) \cup {i}
          BY <2>4, <4>1
        <5>2. Cardinality(UsedUp(f)') = Cardinality(UsedUp(f)) + 1
          BY <3>4, <4>1, <5>1
        <5>3. returns'[f] = returns[f] + 1
          BY <3>3, <4>1
        <5>4. QED
          BY <3>1, <3>2, <5>2, <5>3
      <4>2. CASE f # e
        BY <2>4, <3>1, <3>2, <3>3, <4>2
      <4>3. QED
        BY <4>1, <4>2
    <3>6. QED
      BY <2>1, <2>3, <3>1, <3>2, <3>5
  <2>7. QED
    BY <2>1, <2>6 DEF ReturnInv, Early
<1>7. CASE StepEntry
  <2> DEFINE e == bps[cur.idx].addr
             r == ReturnRecord(e, Rearmed(e)[cur.ret])
  <2>1. /\ pc = "step" /\ cur.kind = "entry" /\ UNCHANGED <<bps, nBps, cur, enters, returns>>
        /\ pc' \in {"wait", "cleanup"}
    BY <1>7 DEF StepEntry, StepFails, Proceed
  <2>2. CASE UNCHANGED <<rbs, nRbs>>
    <3>1. \A f : Placed(f)' = Placed(f) /\ UsedUp(f)' = UsedUp(f) /\ ~ToPlace(f)'
      BY <2>1, <2>2 DEF Placed, UsedUp, ToPlace
    <3>2. ASSUME NEW f \in Entry
          PROVE  /\ returns'[f] <= Cardinality(UsedUp(f)')
                 /\ Cardinality(Placed(f)') + (IF ToPlace(f)' THEN 1 ELSE 0) <= enters'[f]
      <4>1. Cardinality(Placed(f)) \in Nat /\ enters[f] \in Nat
        BY Placings DEF TypeOK, CountType, IndInv
      <4>2. /\ returns[f] <= Cardinality(UsedUp(f))
            /\ Cardinality(Placed(f)) + (IF ToPlace(f) THEN 1 ELSE 0) <= enters[f]
        BY DEF ReturnInv
      <4>3. QED
        BY <2>1, <3>1, <4>1, <4>2
    <3>3. QED
      BY <2>1, <3>2 DEF ReturnInv, Early
  <2>3. CASE ~UNCHANGED <<rbs, nRbs>>
    <3>1. /\ WantReturn
          /\ nRbs' = nRbs + 1 /\ rbs' = [rbs EXCEPT ![nRbs + 1] = r]
      BY <1>7, <2>3 DEF StepEntry
    <3>2. r.fn = e /\ r.active
      BY DEF ReturnRecord
    <3>3. e \in Entry
      BY <2>1 DEF SteppedIsInUse, SavedIsOriginal, IndInv
    <3> HIDE DEF r
    <3>4. /\ nRbs \in Nat /\ nRbs + 1 \in 1..MaxReturns
          /\ rbs'[nRbs + 1] = r
          /\ \A i \in 1..nRbs : rbs'[i] = rbs[i]
      BY <3>1 DEF WantReturn, TypeOK, TableType, IndInv
    <3>5. 1..nRbs' = (1..nRbs) \cup {nRbs + 1} /\ nRbs + 1 \notin 1..nRbs
      BY <3>1, <3>4
    <3> HIDE DEF e
    <3>6. \A f : Placed(f)' = IF f = e THEN Placed(f) \cup {nRbs + 1} ELSE Placed(f)
      BY <3>2, <3>4, <3>5 DEF Placed
    <3>7. \A f : UsedUp(f)' = UsedUp(f) /\ ~ToPlace(f)'
      <4>1. \A i \in 1..nRbs' : ~rbs'[i].active => i \in 1..nRbs
        BY <3>2, <3>4, <3>5
      <4>2. QED
        BY <2>1, <3>4, <3>5, <4>1 DEF UsedUp, Placed, ToPlace
    <3>8. nRbs + 1 \notin Placed(e)
      BY <3>5 DEF Placed
    <3>9. ASSUME NEW f \in Entry
          PROVE  /\ returns'[f] <= Cardinality(UsedUp(f)')
                 /\ Cardinality(Placed(f)') + (IF ToPlace(f)' THEN 1 ELSE 0) <= enters'[f]
      <4>1. Cardinality(Placed(f)) \in Nat /\ enters[f] \in Nat /\ IsFiniteSet(Placed(f))
        BY Placings DEF TypeOK, CountType, IndInv
      <4>2. /\ returns[f] <= Cardinality(UsedUp(f))
            /\ Cardinality(Placed(f)) + (IF ToPlace(f) THEN 1 ELSE 0) <= enters[f]
        BY DEF ReturnInv
      <4>3. f = e => Cardinality(Placed(f) \cup {nRbs + 1}) = Cardinality(Placed(f)) + 1
        BY <3>8, <4>1, FS_AddElement
      <4>4. f = e => ToPlace(f)
        BY <2>1 DEF ToPlace, e
      <4>5. QED
        BY <2>1, <3>6, <3>7, <4>1, <4>2, <4>3, <4>4
    <3>10. QED
      BY <2>1, <3>9 DEF ReturnInv, Early
  <2>4. QED
    BY <2>2, <2>3
<1>8. CASE StepReturn \/ (StepExit /\ cur.kind = "return")
  <2>1. /\ pc = "step" /\ cur.kind = "return" /\ UNCHANGED <<bps, nRbs, cur, enters, returns>>
        /\ rbs' = [rbs EXCEPT ![cur.idx].active = FALSE] /\ pc' \in {"wait", "cleanup"}
    BY <1>8 DEF StepReturn, StepExit, Proceed
  <2>2. cur.idx \in 1..nRbs /\ cur.idx \in 1..MaxReturns
    BY <2>1 DEF SteppedIsInUse, IndInv, TypeOK, TableType
  <2>3. \A i \in 1..nRbs : /\ rbs'[i].fn = rbs[i].fn
                           /\ rbs'[i].active <=> rbs[i].active /\ i # cur.idx
    BY <2>1, <2>2 DEF IndInv, TypeOK, TableType, ReturnBp
  <2>4. \A f : Placed(f)' = Placed(f) /\ UsedUp(f)' = UsedUp(f) /\ ~ToPlace(f)'
    BY <2>1, <2>3 DEF Placed, UsedUp, ToPlace
  <2>5. ASSUME NEW f \in Entry
        PROVE  /\ returns'[f] <= Cardinality(UsedUp(f)')
               /\ Cardinality(Placed(f)') + (IF ToPlace(f)' THEN 1 ELSE 0) <= enters'[f]
    <3>1. Cardinality(Placed(f)) \in Nat /\ enters[f] \in Nat
      BY Placings DEF TypeOK, CountType, IndInv
    <3>2. /\ returns[f] <= Cardinality(UsedUp(f))
          /\ Cardinality(Placed(f)) + (IF ToPlace(f) THEN 1 ELSE 0) <= enters[f]
      BY DEF ReturnInv
    <3>3. QED
      BY <2>1, <2>4, <3>1, <3>2
  <2>6. ~rbs'[cur'.idx].active
    BY <2>1, <2>2, <2>3
  <2>7. QED
    BY <2>1, <2>5, <2>6 DEF ReturnInv, Early
<1>9. CASE Cleanup \/ CleanupGone
  <2>1. /\ ClearTables /\ UNCHANGED <<nRbs, cur, enters, returns>> /\ pc' = "sigcont"
    BY <1>9 DEF Cleanup, CleanupGone
  <2>2. \A i \in 1..nRbs : rbs'[i].fn = rbs[i].fn /\ ~rbs'[i].active
    BY <2>1 DEF ClearTables, IndInv, TypeOK, TableType, ReturnBp
  <2>3. \A f : Placed(f)' = Placed(f) /\ UsedUp(f)' = Placed(f) /\ ~ToPlace(f)'
    BY <2>1, <2>2 DEF Placed, UsedUp, ToPlace
  <2>4. ASSUME NEW f \in Entry
        PROVE  /\ returns'[f] <= Cardinality(UsedUp(f)')
               /\ Cardinality(Placed(f)') + (IF ToPlace(f)' THEN 1 ELSE 0) <= enters'[f]
    <3>1. /\ Cardinality(Placed(f)) \in Nat /\ enters[f] \in Nat /\ returns[f] \in Nat
          /\ Cardinality(UsedUp(f)) \in Nat
          /\ Cardinality(UsedUp(f)) <= Cardinality(Placed(f))
      BY Placings DEF TypeOK, CountType, IndInv
    <3>2. /\ returns[f] <= Cardinality(UsedUp(f))
          /\ Cardinality(Placed(f)) + (IF ToPlace(f) THEN 1 ELSE 0) <= enters[f]
      BY DEF ReturnInv
    <3>3. QED
      BY <2>1, <2>3, <3>1, <3>2
  <2>5. QED
    BY <2>1, <2>4 DEF ReturnInv, Early
<1>10. CASE /\ Host /\ pc' \in {"stopWait", "cleanup", "sigcont", "done", "exit"}
            /\ ~(Scan \/ Arm \/ TrapEntry \/ TrapReturn \/ StepEntry \/ StepReturn
                 \/ Cleanup \/ CleanupGone \/ (StepExit /\ cur.kind = "return"))
  <2>1. UNCHANGED cur
    BY <1>10, CurFrame
  <2>2. UNCHANGED <<enters, returns>>
    BY <1>10, CountFrame, HostFrame DEF TargetExecutes
  <2>3. UNCHANGED <<rbs, nRbs>>
    BY <1>10, TablesFrame DEF StepExit
  <2>4. QED
    BY <1>10, <2>1, <2>2, <2>3, SameReturns DEF IndInv, Early
<1>11. CASE Scan
  <2>1. UNCHANGED <<rbs, nRbs, cur, enters, returns>> /\ pc = "scan" /\ pc' \in {"cleanup", "arm"}
    BY <1>11 DEF Scan
  <2>2. QED
    BY <2>1, SameReturns DEF IndInv, Early
<1>12. QED
  BY <1>1, <1>2, <1>3, <1>4, <1>5, <1>6, <1>7, <1>8, <1>9, <1>10, <1>11, HostStages DEF Next

\* However calls nest and recurse, whichever records share a site, and whatever
\* is cut off: no RETURN without a record placed for it, no record without an ENTER.
THEOREM ReturnsAreCalls == Spec => []ReturnsMatchEnters
<1>1. Init => ReturnInv
  <2>1. SUFFICES ASSUME Init PROVE ReturnInv
    OBVIOUS
  <2>2. \A f : Placed(f) = {} /\ UsedUp(f) = {} /\ ~ToPlace(f)
    BY <2>1 DEF Init, Placed, UsedUp, ToPlace
  <2>3. Cardinality({}) = 0
    BY FS_EmptySet
  <2>4. ASSUME NEW f \in Entry
        PROVE  /\ returns[f] <= Cardinality(UsedUp(f))
               /\ Cardinality(Placed(f)) + (IF ToPlace(f) THEN 1 ELSE 0) <= enters[f]
    <3>1. returns[f] = 0 /\ enters[f] = 0
      BY <2>1 DEF Init
    <3>2. QED
      BY <2>2, <2>3, <3>1
  <2>5. cur.kind = "none"
    BY <2>1 DEF Init, NoCur
  <2>6. QED
    BY <2>4, <2>5 DEF ReturnInv
<1>2. IndInv /\ ReturnInv /\ [Next]_vars => ReturnInv'
  BY ReturnStep
<1>3. IndInv /\ ReturnInv => ReturnsMatchEnters
  <2>1. SUFFICES ASSUME IndInv, ReturnInv, NEW f \in Entry
                 PROVE  /\ returns[f] <= Cardinality(Placed(f))
                        /\ Cardinality(Placed(f)) <= enters[f]
    BY DEF ReturnsMatchEnters, Placed
  <2>2. TypeOK /\ returns[f] \in Nat /\ enters[f] \in Nat
    BY <2>1 DEF IndInv, TypeOK, CountType
  <2>3. /\ Cardinality(Placed(f)) \in Nat /\ Cardinality(UsedUp(f)) \in Nat
        /\ Cardinality(UsedUp(f)) <= Cardinality(Placed(f))
    BY <2>2, Placings
  <2>4. /\ returns[f] <= Cardinality(UsedUp(f))
        /\ Cardinality(Placed(f)) + (IF ToPlace(f) THEN 1 ELSE 0) <= enters[f]
    BY <2>1 DEF ReturnInv
  <2>5. QED
    BY <2>2, <2>3, <2>4
<1>4. QED
  BY Invariance, <1>1, <1>2, <1>3, PTL DEF Spec

-----------------------------------------------------------------------------
(* Rewinding, until the time budget runs out: RIP is one byte past an INT3 *)
(* only in a target that is stopped for it and that the host is about to   *)
(* rewind, in one that is gone, or in a run that has failed.               *)

PastIsHeld ==
    past => \/ status = "FAIL" \/ tstate = "dead"
            \/ tstate = "stop" /\ stopSig = "TRAP" /\ pc \in {"wait", "trap"}

RewindInv ==
    /\ ~HasBudget => alarm = "off"
    /\ pc = "stopWait" => alarm = "fired"
    /\ pc \in Early \cup {"start"} => alarm = "off"
    /\ pc \in {"gate", "attach"} => status = "OK"
    /\ alarm # "fired" => PastIsHeld
    /\ pc = "exit" /\ status = "OK" /\ tstate # "dead" =>
        ~traced /\ \A a \in Addr : mem[a] = "orig"

\* In a run that is no failure the target never meets an INT3 but where the
\* host waits for it.
LEMMA MetWhereWaited ==
    ASSUME IndInv, ReportInv, RewindInv, alarm # "fired", status = "OK", tstate \in {"run", "step"},
           rip \in Addr, mem[rip] = "int3", ~past
    PROVE  pc = "wait" /\ traced
<1>1. CASE pc \in Early
  BY <1>1 DEF IndInv, Untouched, Early
<1>2. CASE pc \in {"start", "trap", "cleanup"}
  BY <1>2 DEF IndInv, HeldStill
<1>3. CASE pc = "step"
  BY <1>3 DEF ReportInv, StepIsExact
<1>4. CASE pc \in {"sigcont", "done"}
  BY <1>4 DEF IndInv, CleanOnceReleased
<1>5. CASE pc = "exit"
  BY <1>5 DEF RewindInv
<1>6. CASE pc = "wait"
  BY <1>6 DEF ReportInv, Attached
<1>7. QED
  BY <1>1, <1>2, <1>3, <1>4, <1>5, <1>6 DEF IndInv, TypeOK, ControlType, RewindInv, Early

\* The alarm is set once, when the target is resumed, and fires once.
LEMMA AlarmStays ==
    ASSUME pc \in Early \cup {"start"} => alarm = "off", [Next]_vars
    PROVE  /\ alarm = "fired" => alarm' = "fired"
           /\ ~HasBudget /\ alarm = "off" => alarm' = "off"
           /\ pc = "stopWait" \/ pc' # "stopWait" \/ alarm' = "fired"
           /\ pc' \in Early \cup {"start"} => alarm' = "off"
BY DEF Early, Next, AlarmFires,
       Host, Gate, Attach, AttachWait, AttachWaitFails, Scan, Arm, ArmGone, Start,
       WaitExit, WaitTrap, WaitSignal, WaitInterrupted, StopWait, PeekFails,
       TrapEntry, TrapReturn, TrapUnexpected, StepExit, StepOther,
       StepInterrupted, StepEntry, StepReturn, Cleanup, CleanupGone,
       SigCont, SkipCleanup, HostExit, ReadOnly, BeginStep, StepFails, Proceed,
       Target, TargetCall, TargetReturn, TargetExecutes, TargetTraps,
       TargetDerails, TargetOwnTrap, SpawnThread, OtherThreadTraps,
       SendSignal, TakeSignal, TargetEnds

LEMMA PastIsHeldStep ==
    ASSUME IndInv, ReportInv, RewindInv, [Next]_vars, alarm' # "fired"
    PROVE  PastIsHeld'
<1>0. alarm # "fired"
  BY AlarmStays DEF RewindInv
<1> USE <1>0
<1> USE DEF RewindInv, PastIsHeld
<1>1. CASE TargetTraps
  <2>1. /\ tstate \in {"run", "step"} /\ rip \in Addr /\ mem[rip] = "int3" /\ ~past
        /\ UNCHANGED <<status, pc>>
    BY <1>1, TargetFrame DEF TargetTraps, IndInv, TypeOK, TargetType, Target
  <2>2. status = "FAIL" \/ (pc = "wait" /\ traced)
    BY <2>1, MetWhereWaited DEF IndInv, TypeOK, ControlType
  <2>3. traced => tstate' = "stop" /\ stopSig' = "TRAP"
    BY <1>1 DEF TargetTraps, TraceStop
  <2>4. QED
    BY <2>1, <2>2, <2>3
<1>2. CASE AlarmFires \/ UNCHANGED vars
  BY <1>2 DEF AlarmFires
<1>3. CASE Target /\ ~TargetTraps
  BY <1>3 DEF Target, TargetCall, TargetReturn, TargetExecutes,
       TargetDerails, TargetOwnTrap, SpawnThread, OtherThreadTraps,
       SendSignal, TakeSignal, TargetEnds, Die, TraceStop
<1>4. CASE Gate \/ Attach \/ AttachWait \/ AttachWaitFails \/ Scan \/ Arm \/ ArmGone
  BY <1>4 DEF Gate, ReadOnly, Attach, AttachWait, AttachWaitFails, Release, Scan, Arm,
              ArmGone, Die
<1>5. CASE Start \/ WaitSignal
  BY <1>5 DEF Start, WaitSignal, Resume, TraceStop, OpFails, Die
<1>6. CASE WaitExit \/ WaitTrap \/ WaitInterrupted \/ StopWait
  BY <1>6 DEF WaitExit, WaitTrap, WaitInterrupted, StopWait
<1>7. CASE PeekFails \/ TrapUnexpected
  BY <1>7 DEF PeekFails, TrapUnexpected, OpFails, Die
<1>8. CASE TrapEntry \/ TrapReturn
  <2>1. past' = FALSE \/ OpFails
    BY <1>8 DEF TrapEntry, TrapReturn, BeginStep
  <2>2. QED
    BY <2>1 DEF OpFails, Die
<1>9. CASE StepExit \/ StepOther \/ StepInterrupted
  BY <1>9 DEF StepExit, StepOther, StepInterrupted
<1>10. CASE StepEntry \/ StepReturn
  <2>1. pc = "step" /\ UNCHANGED past /\ (StepFails \/ Proceed)
    BY <1>10 DEF StepEntry, StepReturn
  <2>2. QED
    BY <2>1 DEF StepFails, Proceed, Resume, TraceStop, OpFails, Die
<1>11. CASE Cleanup \/ CleanupGone \/ SigCont \/ SkipCleanup \/ HostExit
  BY <1>11 DEF Cleanup, CleanupGone, SigCont, SkipCleanup, HostExit, Release
<1>12. QED
  BY <1>1, <1>2, <1>3, <1>4, <1>5, <1>6, <1>7, <1>8, <1>9, <1>10, <1>11 DEF Next, Host

LEMMA RewindStep ==
    ASSUME IndInv, ReportInv, RewindInv, [Next]_vars
    PROVE  RewindInv'
<1>1. /\ ~HasBudget => alarm' = "off"
      /\ pc' = "stopWait" => alarm' = "fired"
      /\ pc' \in Early \cup {"start"} => alarm' = "off"
  BY AlarmStays DEF RewindInv
<1>2. pc' \in {"gate", "attach"} => status' = "OK"
  <2>1. SUFFICES ASSUME pc' \in {"gate", "attach"} PROVE status' = "OK"
    OBVIOUS
  <2>2. pc \in {"gate", "attach"}
    BY <2>1, EarlyFrame DEF Early
  <2>3. UNCHANGED status
    BY <2>1, <2>2, TargetFrame DEF Next, AlarmFires, Host, Gate, Attach, AttachWait,
       AttachWaitFails, Scan, Arm, ArmGone, Start,
       WaitExit, WaitTrap, WaitSignal, WaitInterrupted, StopWait, PeekFails,
       TrapEntry, TrapReturn, TrapUnexpected, StepExit, StepOther,
       StepInterrupted, StepEntry, StepReturn, Cleanup, CleanupGone,
       SigCont, SkipCleanup, HostExit, ReadOnly
  <2>4. QED
    BY <2>2, <2>3 DEF RewindInv
<1>3. alarm' # "fired" => PastIsHeld'
  BY PastIsHeldStep
<1>4. ASSUME pc' = "exit", status' = "OK", tstate' # "dead"
      PROVE  ~traced' /\ \A a \in Addr : mem'[a] = "orig"
  <2>1. CASE Target \/ AlarmFires \/ UNCHANGED vars
    <3>1. UNCHANGED <<mem, traced, pc, status>>
      BY <2>1, TargetFrame
    <3>2. tstate # "dead"
      BY <1>4, <2>1 DEF AlarmFires, Target, TargetCall, TargetReturn, TargetExecutes, TargetTraps,
       TargetDerails, TargetOwnTrap, SpawnThread, OtherThreadTraps,
       SendSignal, TakeSignal, TargetEnds, Die, TraceStop
    <3>3. QED
      BY <1>4, <3>1, <3>2 DEF RewindInv
  <2>2. CASE HostExit
    BY <1>4, <2>2 DEF HostExit, Release, IndInv, CleanOnceReleased
  <2>3. CASE Host /\ ~HostExit
    BY <1>4, <2>3 DEF Host, Gate, Attach, AttachWait, AttachWaitFails, Scan, Arm, ArmGone, Start,
       WaitExit, WaitTrap, WaitSignal, WaitInterrupted, StopWait, PeekFails,
       TrapEntry, TrapReturn, TrapUnexpected, StepExit, StepOther,
       StepInterrupted, StepEntry, StepReturn, Cleanup, CleanupGone,
       SigCont, SkipCleanup, ReadOnly, BeginStep, StepFails, Proceed
  <2>4. QED
    BY <2>1, <2>2, <2>3 DEF Next
<1>5. QED
  BY <1>1, <1>2, <1>3, <1>4 DEF RewindInv

\* With a time budget or without, and whichever requests fail, an OK run that
\* ended before the alarm leaves RIP on an instruction.  (The SIGSTOP that the
\* alarm makes the host send races a breakpoint.)
THEOREM SuccessIsRewound == Spec => []OkMeansRewound
<1>1. Init => ReportInv /\ RewindInv
  BY ReportInit DEF Init, RewindInv, PastIsHeld
<1>2. IndInv /\ ReportInv /\ RewindInv /\ [Next]_vars => ReportInv' /\ RewindInv'
  BY ReportStep, RewindStep
<1>3. RewindInv => OkMeansRewound
  BY DEF RewindInv, PastIsHeld, OkMeansRewound, Succeeded
<1>4. QED
  BY Invariance, <1>1, <1>2, <1>3, PTL DEF Spec

\* In addition one thread only.
HarmInv == threads = 1 /\ OkNeverHarms

LEMMA HarmStep ==
    ASSUME ~HasBudget, ~MayThread, IndInv, ReportInv, RewindInv, HarmInv, [Next]_vars
    PROVE  HarmInv'
<1>1. threads' = 1
  BY HostFrame DEF HarmInv, Next, AlarmFires, Target, TargetCall, TargetReturn, TargetExecutes,
     TargetTraps, TargetDerails, TargetOwnTrap, SpawnThread, OtherThreadTraps,
     SendSignal, TakeSignal, TargetEnds
<1>2. CASE TargetTraps
  <2>1. /\ tstate \in {"run", "step"} /\ rip \in Addr /\ mem[rip] = "int3" /\ ~past
        /\ UNCHANGED status
    BY <1>2, TargetFrame DEF TargetTraps, IndInv, TypeOK, TargetType, Target
  <2>2. status = "FAIL" \/ traced
    BY <2>1, MetWhereWaited DEF IndInv, TypeOK, ControlType, RewindInv
  <2>3. traced => UNCHANGED fate
    BY <1>2 DEF TargetTraps
  <2>4. QED
    BY <1>1, <2>1, <2>2, <2>3 DEF HarmInv, OkNeverHarms
<1>3. CASE TargetDerails
  <2>1. status = "FAIL" /\ UNCHANGED status
    BY <1>3, TargetFrame DEF TargetDerails, Target, RewindInv, PastIsHeld
  <2>2. QED
    BY <1>1, <2>1 DEF HarmInv, OkNeverHarms
<1>4. CASE OtherThreadTraps
  BY <1>4 DEF OtherThreadTraps, HarmInv
<1>5. CASE TargetCall \/ TargetReturn \/ TargetExecutes \/ TargetOwnTrap \/ SpawnThread
           \/ SendSignal \/ TakeSignal \/ TargetEnds \/ AlarmFires \/ UNCHANGED vars
  <2>1. UNCHANGED status /\ (fate' \in {fate, "exit"})
    BY <1>5, TargetFrame DEF Target, TargetCall, TargetReturn, TargetExecutes, TargetOwnTrap,
       SpawnThread, SendSignal, TakeSignal, TargetEnds, AlarmFires, Die, TraceStop
  <2>2. QED
    BY <1>1, <2>1 DEF HarmInv, OkNeverHarms
<1>6. CASE Host
  <2>1. status = "FAIL" => status' = "FAIL" \/ pc \in {"gate", "attach"}
    BY <1>6 DEF Host, Gate, Attach, AttachWait, AttachWaitFails, Scan, Arm, ArmGone, Start,
       WaitExit, WaitTrap, WaitSignal, WaitInterrupted, StopWait, PeekFails,
       TrapEntry, TrapReturn, TrapUnexpected, StepExit, StepOther,
       StepInterrupted, StepEntry, StepReturn, Cleanup, CleanupGone,
       SigCont, SkipCleanup, HostExit, OpFails, BeginStep, StepFails, Proceed
  <2>2. fate' \in {fate, "exit"}
    BY <1>6 DEF Host, Gate, Attach, AttachWait, AttachWaitFails, Scan, Arm, ArmGone, Start,
       WaitExit, WaitTrap, WaitSignal, WaitInterrupted, StopWait, PeekFails,
       TrapEntry, TrapReturn, TrapUnexpected, StepExit, StepOther,
       StepInterrupted, StepEntry, StepReturn, Cleanup, CleanupGone,
       SigCont, SkipCleanup, HostExit, ReadOnly, OpFails, BeginStep, StepFails, Proceed, Die
  <2>3. QED
    BY <1>1, <2>1, <2>2 DEF HarmInv, OkNeverHarms, RewindInv
<1>7. QED
  BY <1>2, <1>3, <1>4, <1>5, <1>6 DEF Next, Target

\* The live pass on a target of one thread, without a time budget: the target
\* never dies of an INT3, nor in the middle of an instruction, unless a request
\* had failed and the run with it.
THEOREM SuccessNeverHarms == ~HasBudget /\ ~MayThread => (Spec => []OkNeverHarms)
<1> SUFFICES ASSUME ~HasBudget, ~MayThread PROVE Spec => []OkNeverHarms
  OBVIOUS
<1>1. Init => ReportInv /\ RewindInv /\ HarmInv
  BY ReportInit DEF Init, RewindInv, PastIsHeld, HarmInv, OkNeverHarms
<1>2. IndInv /\ ReportInv /\ RewindInv /\ HarmInv /\ [Next]_vars => ReportInv' /\ RewindInv' /\ HarmInv'
  BY ReportStep, RewindStep, HarmStep
<1>3. HarmInv => OkNeverHarms
  BY DEF HarmInv
<1>4. QED
  BY Invariance, <1>1, <1>2, <1>3, PTL DEF Spec

-----------------------------------------------------------------------------
(* Stops, for a target that is sent no signal by others and raises no trap *)
(* of its own: where a SIGSTOP of the host may be pending, and where the   *)
(* target may have stopped for it.                                         *)

Halfway == {"scan", "arm", "start", "wait", "trap", "step"}

StopInv ==
    /\ "USR" \notin pending /\ ~groupStop /\ stopSig \notin {"USR", "GROUP"}
    /\ pc \in {"gate", "attach"} =>
        pending = {} /\ stopSig = "none" /\ tstate \in {"run", "dead"}
    /\ pc = "attachWait" =>
        \/ tstate = "dead"
        \/ tstate = "run" /\ stopSig = "none"
        \/ tstate = "stop" /\ stopSig = "STOP" /\ pending = {}
    /\ pc \in Halfway => tstate = "dead" \/ "STOP" \notin pending
    /\ pc = "wait" => stopSig # "STOP"
    /\ pc = "stopWait" => alarm = "fired"
    /\ pc \in {"cleanup", "sigcont"} /\ status = "OK" /\ tstate # "dead" /\ alarm # "fired" =>
        "STOP" \notin pending
    /\ pc \in Halfway \cup {"stopWait", "cleanup"} => tstate # "jobstop"
    /\ pc = "sigcont" /\ status = "OK" /\ tstate = "jobstop" => alarm = "fired"
    /\ OkLeavesNoStop

LEMMA StopStep ==
    ASSUME MaxSignals = 0, ~OwnTraps, IndInv, ReportInv, StopInv, [Next]_vars
    PROVE  StopInv'
<1> USE DEF StopInv, Halfway, OkLeavesNoStop, Succeeded
<1>1. CASE Gate \/ Attach
  BY <1>1 DEF Gate, ReadOnly, Attach
<1>2. CASE AttachWait \/ AttachWaitFails
  BY <1>2 DEF AttachWait, AttachWaitFails, Release, IndInv, HeldStill
<1>3. CASE Scan \/ Arm \/ ArmGone
  BY <1>3 DEF Scan, Arm, ArmGone, Die
<1>4. CASE Start \/ WaitSignal
  BY <1>4 DEF Start, WaitSignal, Resume, TraceStop, OpFails, Die
<1>5. CASE WaitExit \/ WaitTrap \/ WaitInterrupted \/ StopWait
  BY <1>5 DEF WaitExit, WaitTrap, WaitInterrupted, StopWait
<1>6. CASE PeekFails \/ TrapUnexpected
  BY <1>6 DEF PeekFails, TrapUnexpected, OpFails, Die
<1>7. CASE TrapEntry \/ TrapReturn
  <2>1. /\ pc = "trap" /\ UNCHANGED <<pending, groupStop, alarm>>
        /\ \/ tstate = "stop" /\ tstate' = "step" /\ stopSig' = "none" /\ pc' = "step"
           \/ OpFails /\ pc' = "cleanup"
    BY <1>7 DEF TrapEntry, TrapReturn, BeginStep
  <2>2. QED
    BY <2>1 DEF OpFails, Die
<1>8. CASE StepExit \/ StepOther \/ StepInterrupted
  BY <1>8 DEF StepExit, StepOther, StepInterrupted
<1>9. CASE StepEntry \/ StepReturn
  <2>1. pc = "step" /\ UNCHANGED <<pending, alarm>> /\ (StepFails \/ Proceed) /\ stopSig = "TRAP"
    BY <1>9 DEF StepEntry, StepReturn
  <2>2. QED
    BY <2>1 DEF StepFails, Proceed, Resume, TraceStop, OpFails, Die
<1>10. CASE Cleanup \/ CleanupGone
  BY <1>10 DEF Cleanup, CleanupGone, Release, IndInv, HeldStill
<1>11. CASE SigCont \/ SkipCleanup \/ HostExit
  BY <1>11 DEF SigCont, SkipCleanup, HostExit, Release, IndInv, HeldStill
<1>12. CASE TargetTraps
  <2>1. pc # "attachWait" /\ UNCHANGED <<pc, status, alarm, pending, groupStop>>
    BY <1>12, TargetFrame DEF TargetTraps, Target, IndInv, Untouched, TypeOK, TargetType
  <2>2. pc \in {"gate", "attach"} => FALSE
    BY <1>12 DEF TargetTraps, IndInv, Untouched, TypeOK, TargetType
  <2>3. CASE traced
    BY <1>12, <2>1, <2>2, <2>3 DEF TargetTraps, TraceStop, IndInv, CleanOnceReleased
  <2>4. CASE ~traced
    BY <1>12, <2>1, <2>2, <2>4 DEF TargetTraps, Die
  <2>5. QED
    BY <2>3, <2>4
<1>13. CASE TakeSignal
  <2>1. PICK s \in pending :
          /\ tstate \in {"run", "step"} /\ pending' = pending \ {s}
          /\ IF traced THEN TraceStop(s)
             ELSE /\ tstate' = IF s = "STOP" THEN "jobstop" ELSE tstate
                  /\ UNCHANGED <<stopSig, news>>
    BY <1>13 DEF TakeSignal
  <2>2. s = "STOP" /\ pending' = {}
    BY <2>1 DEF IndInv, TypeOK, TargetType, Signal
  <2>3. UNCHANGED <<pc, status, alarm, groupStop>>
    BY <1>13 DEF TakeSignal
  <2>4. pc \notin {"gate", "attach"} \cup Halfway
    BY <2>1, <2>2
  <2>5. CASE traced
    <3>1. tstate' = "stop" /\ stopSig' = "STOP"
      BY <2>1, <2>2, <2>5 DEF TraceStop
    <3>2. QED
      BY <2>2, <2>3, <2>4, <3>1
  <2>6. CASE ~traced
    <3>1. tstate' = "jobstop" /\ UNCHANGED stopSig
      BY <2>1, <2>2, <2>6
    <3>2. pc \notin {"attachWait", "stopWait", "cleanup"}
      BY <2>6 DEF ReportInv, Attached
    <3>3. QED
      BY <2>1, <2>2, <2>3, <2>4, <3>1, <3>2
  <2>7. QED
    BY <2>5, <2>6
<1>14. CASE TargetExecutes
  BY <1>14 DEF TargetExecutes, TraceStop, IndInv, HeldStill
<1>15. CASE TargetEnds \/ OtherThreadTraps \/ TargetDerails
  BY <1>15 DEF TargetEnds, OtherThreadTraps, TargetDerails, Die
<1>16. CASE SendSignal \/ TargetOwnTrap
  BY <1>16 DEF SendSignal, TargetOwnTrap, IndInv, TypeOK, CountType
<1>17. CASE TargetCall \/ TargetReturn \/ SpawnThread \/ AlarmFires \/ UNCHANGED vars
  BY <1>17 DEF TargetCall, TargetReturn, SpawnThread, AlarmFires
<1>18. QED
  BY <1>1, <1>2, <1>3, <1>4, <1>5, <1>6, <1>7, <1>8, <1>9, <1>10, <1>11, <1>12, <1>13,
     <1>14, <1>15, <1>16, <1>17 DEF Next, Host, Target

\* With or without a time budget, with threads that start and requests that fail:
\* an OK run leaves no SIGSTOP of the host's pending and the target not stopped.
THEOREM SuccessLeavesNoStop == MaxSignals = 0 /\ ~OwnTraps => (Spec => []OkLeavesNoStop)
<1> SUFFICES ASSUME MaxSignals = 0, ~OwnTraps PROVE Spec => []OkLeavesNoStop
  OBVIOUS
<1>1. Init => ReportInv /\ StopInv
  BY ReportInit DEF Init, StopInv, Halfway, OkLeavesNoStop, Succeeded
<1>2. IndInv /\ ReportInv /\ StopInv /\ [Next]_vars => ReportInv' /\ StopInv'
  BY ReportStep, StopStep
<1>3. StopInv => OkLeavesNoStop
  BY DEF StopInv
<1>4. QED
  BY Invariance, <1>1, <1>2, <1>3, PTL DEF Spec
====
