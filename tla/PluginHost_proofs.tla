------------------------- MODULE PluginHost_proofs -------------------------
(***************************************************************************)
(* Theorems about the plugin host (PluginHost), for every set of plugins,  *)
(* every command line, also one that names a library twice, and every      *)
(* table size.  The induction for the types needs where main's loops are;  *)
(* the others need to know that the console keeps its slot and, for        *)
(* StoppedIsUnregistered, which entry each observer belongs to.            *)
(***************************************************************************)
EXTENDS PluginHost, FiniteSetTheorems, SequenceTheorems, WellFoundedInduction,
        TLAPS

USE HostAssumption
USE DEF vars, line, bus, counters, Entries

-----------------------------------------------------------------------------
(* The observer table.                                                     *)

\* The slot nx86_bus_register gives out is free.
LEMMA FirstFreeIsFree ==
    ASSUME FreeSlots # {}
    PROVE  FirstFree \in FreeSlots
<1> DEFINE L == OpToRel(<,Nat)
<1>1. \A y \in Nat, x \in Nat : y < x => <<y,x>> \in L
  <2>1. SUFFICES ASSUME NEW y \in Nat, NEW x \in Nat, y < x
                 PROVE  <<y,x>> \in L
    OBVIOUS
  <2>2. <<y,x>>[1] = y /\ <<y,x>>[2] = x /\ <<y,x>> \in Nat \X Nat
    OBVIOUS
  <2>3. QED
    BY <2>1, <2>2, Zenon DEF OpToRel
<1>2. FreeSlots \in SUBSET Nat
  BY DEF FreeSlots
<1>3. \E x \in FreeSlots : \A y \in FreeSlots : ~ (<<y, x>> \in L)
  BY <1>2, WFMin, NatLessThanWellFounded
<1>4. \E x \in FreeSlots : \A y \in FreeSlots : ~ (y < x)
  BY <1>1, <1>2, <1>3, Zenon
<1> HIDE DEF L
<1>5. \E x \in FreeSlots : \A y \in FreeSlots : x <= y
  BY <1>2, <1>4
<1>6. QED
  BY <1>5, Zenon DEF FirstFree

\* A published record counts a natural number of deliveries.
LEMMA HitsAreCounted ==
    ASSUME NEW S, NEW k, NEW o
    PROVE  Cardinality(Hits(S, k)) \in Nat /\ Cardinality(HitsOf(S, k, o)) \in Nat
<1>1. Hits(S, k) \subseteq 1..MaxObservers /\ HitsOf(S, k, o) \subseteq 1..MaxObservers
  BY DEF Hits, HitsOf
<1>2. IsFiniteSet(1..MaxObservers)
  BY FS_Interval
<1>3. IsFiniteSet(Hits(S, k)) /\ IsFiniteSet(HitsOf(S, k, o))
  BY <1>1, <1>2, FS_Subset
<1>4. QED
  BY <1>3, FS_CardinalityType

\* A delivery leaves the counters numbers.
LEMMA PublishTypes ==
    ASSUME NEW S, NEW k, Publish(S, k),
           published \in Nat, delivered \in Nat, sinkSeen \in Nat,
           received \in [Lib -> Nat]
    PROVE  /\ published' \in Nat /\ delivered' \in Nat /\ sinkSeen' \in Nat
           /\ received' \in [Lib -> Nat]
<1>1. CASE accepting
  <2> DEFINE c(o) == Cardinality(HitsOf(S, k, o))
  <2>1. \A o : c(o) \in Nat
    BY HitsAreCounted
  <2>2. Cardinality(Hits(S, k)) \in Nat
    BY HitsAreCounted
  <2>3. /\ published' = published + 1
        /\ delivered' = delivered + Cardinality(Hits(S, k))
        /\ sinkSeen' = sinkSeen + c(Sink)
        /\ received' = [l \in Lib |-> received[l] + c(l)]
    BY <1>1 DEF Publish
  <2> HIDE DEF c
  <2>4. QED
    BY <2>1, <2>2, <2>3
<1>2. CASE ~accepting
  BY <1>2 DEF Publish
<1>3. QED
  BY <1>1, <1>2

\* The table stays one of slots, whoever registers or leaves.
LEMMA TableTypes ==
    ASSUME slots \in [1..MaxObservers -> Slot], nextToken \in Nat \ {0},
           token \in [Lib -> Nat], NEW l \in Lib
    PROVE  /\ Register(l) => /\ slots' \in [1..MaxObservers -> Slot]
                             /\ token' \in [Lib -> Nat]
                             /\ nextToken' \in Nat \ {0}
           /\ Unregister(l) => slots' \in [1..MaxObservers -> Slot]
<1>1. ASSUME Register(l)
      PROVE  /\ slots' \in [1..MaxObservers -> Slot]
             /\ token' \in [Lib -> Nat]
             /\ nextToken' \in Nat \ {0}
  <2>1. FirstFree \in 1..MaxObservers
    BY <1>1, FirstFreeIsFree DEF Register, FreeSlots
  <2>2. [token |-> nextToken, mask |-> Mask[l], owner |-> l] \in Slot
    BY DEF Slot
  <2>3. QED
    BY <1>1, <2>1, <2>2 DEF Register
<1>2. NoSlot \in Slot
  BY DEF NoSlot, Slot
<1>3. QED
  BY <1>1, <1>2 DEF Unregister

-----------------------------------------------------------------------------
(* Types.                                                                  *)

\* Which actions leave the table, the tokens and the counters alone.
LEMMA HostFrame ==
    [Next]_vars =>
        /\ cmd' = cmd /\ pidSet' = pidSet
        /\ (slots' = slots /\ nextToken' = nextToken) \/ StartOne \/ StopOne
        /\ token' = token \/ StartOne \/ StopOne \/ LoadOne \/ ShutdownOne
        /\ UNCHANGED counters \/ LoadOne \/ StartOne \/ Observe \/ ShutdownOne
BY Zenon DEF Next, LoadOne, LoadFails, OpenWindow, StartOne, StartFails, AllStarted,
   Observe, ObserveDone, StopOne, CloseWindow, ShutdownOne, AllShutDown,
   CloseOne, Exit

\* The loop index, the entry count and the numbers main keeps.
LoopTypes ==
    /\ pc \in {"load", "start", "observe", "stop", "shutdown", "close", "exit"}
    /\ at \in 0..(Len(cmd) + 1) /\ nPlugins \in 0..Len(cmd)
    /\ rc \in {0, 1}
    /\ nWatches \in 0..MaxWatches /\ records \in 0..MaxRecords

LEMMA WatchedTypes ==
    ASSUME nWatches \in 0..MaxWatches, NEW n \in Nat
    PROVE  Watched(n) \in 0..MaxWatches
BY DEF Watched

LEMMA LoopStep ==
    ASSUME TypeOK, LoopsInRange, [Next]_vars
    PROVE  LoopTypes' /\ LoopsInRange'
<1> USE DEF TypeOK, LoopTypes, LoopsInRange
<1>1. cmd' = cmd
  BY HostFrame, Zenon
<1>2. Len(cmd) \in Nat /\ at \in Int /\ nPlugins \in Int /\ nWatches \in Int
      /\ records \in Int
  <2>1. /\ cmd \in Seq(Lib) /\ at \in 0..(Len(cmd) + 1) /\ nPlugins \in 0..Len(cmd)
        /\ nWatches \in 0..MaxWatches /\ records \in 0..MaxRecords
    BY Zenon
  <2> HIDE DEF TypeOK, LoopTypes, LoopsInRange
  <2>2. QED
    BY <2>1
<1>3. CASE LoadOne
  BY <1>1, <1>3 DEF LoadOne
<1>4. CASE LoadFails
  BY <1>1, <1>4 DEF LoadFails
<1>5. CASE OpenWindow
  BY <1>1, <1>5 DEF OpenWindow
<1>6. CASE StartOne
  <2>1. cmd[at] \in Lib
    BY <1>6 DEF StartOne
  <2>2. Watched(Watches[cmd[at]]) \in 0..MaxWatches
    BY <1>2, <2>1, WatchedTypes
  <2>3. nWatches' = Watched(Watches[cmd[at]])
    BY <1>6, Zenon DEF StartOne
  <2>4. QED
    BY <1>1, <1>6, <2>2, <2>3 DEF StartOne
<1>7. CASE StartFails
  <2>1. cmd[at] \in Lib
    BY <1>7 DEF StartFails
  <2>2. Watched(Watches[cmd[at]]) \in 0..MaxWatches
    BY <1>2, <2>1, WatchedTypes
  <2>3. nWatches' = Watched(Watches[cmd[at]])
    BY <1>7, Zenon DEF StartFails
  <2>4. QED
    BY <1>1, <1>7, <2>2, <2>3 DEF StartFails
<1>8. CASE AllStarted
  BY <1>1, <1>8 DEF AllStarted
<1>9. CASE Observe
  BY <1>1, <1>9 DEF Observe
<1>10. CASE ObserveDone
  BY <1>1, <1>10 DEF ObserveDone
<1>11. CASE StopOne
  BY <1>1, <1>11 DEF StopOne
<1>12. CASE CloseWindow
  BY <1>1, <1>12 DEF CloseWindow
<1>13. CASE ShutdownOne
  BY <1>1, <1>13 DEF ShutdownOne
<1>14. CASE AllShutDown
  BY <1>1, <1>14 DEF AllShutDown
<1>15. CASE CloseOne
  BY <1>1, <1>15 DEF CloseOne
<1>16. CASE Exit
  BY <1>1, <1>16 DEF Exit
<1>17. CASE UNCHANGED vars
  BY <1>17
<1>18. QED
  BY <1>3, <1>4, <1>5, <1>6, <1>7, <1>8, <1>9, <1>10, <1>11, <1>12, <1>13,
     <1>14, <1>15, <1>16, <1>17, Zenon DEF Next

\* The table, the tokens and the counters.
BusTypes ==
    /\ slots \in [1..MaxObservers -> Slot] /\ nextToken \in Nat \ {0}
    /\ published \in Nat /\ delivered \in Nat /\ sinkSeen \in Nat
    /\ token \in [Lib -> Nat] /\ received \in [Lib -> Nat]

LEMMA BusStep ==
    ASSUME TypeOK, LoopsInRange, [Next]_vars
    PROVE  BusTypes'
<1>1. /\ slots \in [1..MaxObservers -> Slot] /\ nextToken \in Nat \ {0}
      /\ published \in Nat /\ delivered \in Nat /\ sinkSeen \in Nat
      /\ token \in [Lib -> Nat] /\ received \in [Lib -> Nat]
      /\ cmd \in Seq(Lib) /\ at \in 0..(Len(cmd) + 1) /\ nPlugins \in 0..Len(cmd)
  BY Zenon DEF TypeOK
<1>2. CASE StartOne
  <2>1. cmd[at] \in Lib
    BY <1>1, <1>2 DEF StartOne, LoopsInRange
  <2>2. Register(cmd[at])
    BY <1>2, Zenon DEF StartOne
  <2>3. UNCHANGED counters \/ Publish(slots', "note")
    BY <1>2, Zenon DEF StartOne
  <2>4. /\ slots' \in [1..MaxObservers -> Slot] /\ token' \in [Lib -> Nat]
        /\ nextToken' \in Nat \ {0}
    BY <1>1, <2>1, <2>2, TableTypes, Zenon
  <2>5. /\ published' \in Nat /\ delivered' \in Nat /\ sinkSeen' \in Nat
        /\ received' \in [Lib -> Nat]
    BY <1>1, <2>3, PublishTypes
  <2>6. QED
    BY <2>4, <2>5 DEF BusTypes
<1>3. CASE StopOne
  <2>1. cmd[at] \in Lib
    BY <1>1, <1>3 DEF StopOne, LoopsInRange
  <2>2. slots' = slots \/ Unregister(cmd[at])
    BY <1>3, Zenon DEF StopOne
  <2>3. slots' \in [1..MaxObservers -> Slot]
    BY <1>1, <2>1, <2>2, TableTypes, Zenon
  <2>4. token' \in [Lib -> Nat]
    <3>1. token' = token \/ token' = [token EXCEPT ![cmd[at]] = 0]
      BY <1>3, SMT DEF StopOne
    <3>2. token \in [Lib -> Nat] /\ cmd[at] \in Lib
      BY <1>1, <2>1, Zenon
    <3>3. [token EXCEPT ![cmd[at]] = 0] \in [Lib -> Nat]
      BY <3>2
    <3>4. QED
      BY <3>1, <3>2, <3>3, Zenon
  <2>5. QED
    BY <1>1, <1>3, <2>3, <2>4 DEF StopOne, BusTypes
<1>4. CASE LoadOne
  BY <1>1, <1>4 DEF LoadOne, BusTypes
<1>5. CASE ShutdownOne
  BY <1>1, <1>5 DEF ShutdownOne, BusTypes
<1>6. CASE Observe
  <2>1. PICK k \in Kind : Publish(slots, k)
    BY <1>6, Zenon DEF Observe
  <2>2. /\ published' \in Nat /\ delivered' \in Nat /\ sinkSeen' \in Nat
        /\ received' \in [Lib -> Nat]
    BY <1>1, <2>1, PublishTypes
  <2>3. QED
    BY <1>1, <1>6, <2>2 DEF Observe, BusTypes
<1>7. CASE UNCHANGED <<slots, nextToken, token, counters>>
  BY <1>1, <1>7 DEF BusTypes
<1>8. QED
  BY HostFrame, <1>2, <1>3, <1>4, <1>5, <1>6, <1>7, Zenon

\* The entries: which are started, and the calls they got.
Calls == {"init", "start", "startFailed", "stop", "shutdown", "close"}

LEMMA EntryFrame ==
    [Next]_vars =>
        /\ started' = started \/ started' = [started EXCEPT ![at] = TRUE]
        /\ accepting' = accepting \/ accepting' = TRUE \/ accepting' = FALSE
        /\ \/ trail' = trail
           \/ pc = "load" /\ at <= Len(cmd) /\ Called(at, "init")
           \/ pc = "start" /\ at <= nPlugins /\ (Called(at, "start") \/ Called(at, "startFailed"))
           \/ pc \in {"stop", "shutdown"} /\ at >= 1
                /\ (Called(at, "stop") \/ Called(at, "shutdown"))
           \/ pc = "close" /\ at <= nPlugins /\ Called(at, "close")
BY ZenonT(60) DEF Next, LoadOne, LoadFails, OpenWindow, StartOne, StartFails, AllStarted,
   Observe, ObserveDone, StopOne, CloseWindow, ShutdownOne, AllShutDown,
   CloseOne, Exit

LEMMA EntryStep ==
    ASSUME TypeOK, LoopsInRange, [Next]_vars
    PROVE  /\ started' \in [Entries -> BOOLEAN] /\ accepting' \in BOOLEAN
           /\ trail' \in [Entries -> Seq(Calls)]
<1>1. /\ started \in [Entries -> BOOLEAN] /\ accepting \in BOOLEAN
      /\ trail \in [Entries -> Seq(Calls)]
      /\ at \in 0..(Len(cmd) + 1) /\ nPlugins \in 0..Len(cmd) /\ cmd \in Seq(Lib)
  BY Zenon DEF TypeOK, Calls
<1>2. started' \in [Entries -> BOOLEAN]
  <2>1. [started EXCEPT ![at] = TRUE] \in [Entries -> BOOLEAN]
    BY <1>1
  <2>2. QED
    BY <1>1, <2>1, EntryFrame, Zenon
<1>3. accepting' \in BOOLEAN
  BY <1>1, EntryFrame, Zenon
<1>4. trail' \in [Entries -> Seq(Calls)]
  <2>1. ASSUME NEW c \in Calls, NEW i \in Entries, Called(i, c)
        PROVE  trail' \in [Entries -> Seq(Calls)]
    BY <1>1, <2>1 DEF Called
  <2>2. trail' = trail \/ at \in Entries
    BY <1>1, EntryFrame DEF LoopsInRange
  <2>3. trail' = trail \/ \E c \in Calls : Called(at, c)
    BY EntryFrame, Zenon DEF Calls
  <2>4. QED
    BY <1>1, <2>1, <2>2, <2>3, Zenon
<1>5. QED
  BY <1>2, <1>3, <1>4

LEMMA TypesInit == Init => TypeOK /\ LoopsInRange
<1> SUFFICES ASSUME Init PROVE TypeOK /\ LoopsInRange
  OBVIOUS
<1>1. PICK n \in 1..MaxPlugins : cmd \in [1..n -> Lib]
  BY Zenon DEF Init
<1>2. cmd \in Seq(Lib) /\ Len(cmd) = n
  BY <1>1
<1>3. slots \in [1..MaxObservers -> Slot]
  <2>1. [token |-> 1, mask |-> Kind, owner |-> Sink] \in Slot /\ NoSlot \in Slot
    BY DEF Slot, NoSlot
  <2>2. QED
    BY <2>1, Zenon DEF Init
<1>4. /\ started \in [Entries -> BOOLEAN] /\ accepting \in BOOLEAN /\ pidSet \in BOOLEAN
  BY ZenonT(60) DEF Init
<1>5. trail \in [Entries -> Seq(Calls)]
  BY SMT DEF Init
<1>6. pc = "load" /\ at = 1 /\ nPlugins = 0 /\ rc = 0 /\ nWatches = 0 /\ records = 0
  BY Zenon DEF Init
<1>7. /\ at \in 0..(Len(cmd) + 1) /\ nPlugins \in 0..Len(cmd) /\ Len(cmd) \in 1..MaxPlugins
      /\ nWatches \in 0..MaxWatches /\ records \in 0..MaxRecords /\ rc \in {0, 1}
      /\ LoopsInRange
  BY <1>2, <1>6 DEF LoopsInRange
<1>8. /\ nextToken = 2 /\ published = 0 /\ delivered = 0 /\ sinkSeen = 0
      /\ token = [l \in Lib |-> 0] /\ received = [l \in Lib |-> 0]
  BY Zenon DEF Init
<1>9. /\ nextToken \in Nat \ {0} /\ published \in Nat /\ delivered \in Nat
      /\ sinkSeen \in Nat /\ token \in [Lib -> Nat] /\ received \in [Lib -> Nat]
  BY <1>8
<1>10. QED
  BY <1>2, <1>3, <1>4, <1>5, <1>6, <1>7, <1>9, Zenon DEF TypeOK, Calls

LEMMA TypesStep ==
    ASSUME TypeOK, LoopsInRange, [Next]_vars
    PROVE  TypeOK' /\ LoopsInRange'
<1>1. cmd' = cmd /\ pidSet' = pidSet
  BY HostFrame, Zenon
<1>2. LoopTypes' /\ LoopsInRange'
  BY LoopStep, Zenon
<1>3. BusTypes'
  BY BusStep, Zenon
<1>4. /\ started' \in [Entries -> BOOLEAN] /\ accepting' \in BOOLEAN
      /\ trail' \in [Entries -> Seq(Calls)]
  BY EntryStep, Zenon
<1>5. /\ cmd \in Seq(Lib) /\ Len(cmd) \in 1..MaxPlugins /\ pidSet \in BOOLEAN
  BY Zenon DEF TypeOK
<1>6. TypeOK'
  <2>1. /\ cmd' \in Seq(Lib) /\ Len(cmd') \in 1..MaxPlugins /\ pidSet' \in BOOLEAN
        /\ started' \in [1..Len(cmd') -> BOOLEAN] /\ accepting' \in BOOLEAN
        /\ trail' \in [1..Len(cmd') -> Seq(Calls)]
    BY <1>1, <1>4, <1>5, Zenon
  <2>2. QED
    BY <1>2, <1>3, <2>1, Zenon DEF TypeOK, LoopTypes, BusTypes, Calls
<1>7. QED
  BY <1>2, <1>6

\* The state of main, the observer table and the libraries keeps its type, for
\* every command line, table size and number of watches.
THEOREM TypeCorrect == Spec => []TypeOK
<1>1. TypeOK /\ LoopsInRange /\ [Next]_vars => (TypeOK /\ LoopsInRange)'
  BY TypesStep
<1>2. QED
  BY TypesInit, <1>1, PTL DEF Spec

-----------------------------------------------------------------------------
(* The console's slot and the tokens.                                      *)

\* Which tokens the table and the libraries hold are numbers.
LEMMA TokenTypes ==
    ASSUME TypeOK
    PROVE  /\ \A i \in 1..MaxObservers : slots[i].token \in Nat
           /\ \A l \in Lib : token[l] \in Nat
           /\ nextToken \in Nat
<1>1. /\ slots \in [1..MaxObservers -> Slot] /\ nextToken \in Nat \ {0}
      /\ token \in [Lib -> Nat]
  BY Zenon DEF TypeOK
<1>2. QED
  BY <1>1 DEF Slot

\* A start registers in a free slot, never in the console's.
LEMMA Registered ==
    ASSUME TypeOK, LoopsInRange, SinkIsFirst, StartOne
    PROVE  /\ cmd[at] \in Lib /\ at \in Entries /\ at <= nPlugins
           /\ FirstFree \in 2..MaxObservers /\ slots[FirstFree].token = 0
           /\ slots'[FirstFree].token = nextToken /\ slots'[FirstFree].owner = cmd[at]
           /\ \A i \in 1..MaxObservers \ {FirstFree} : slots'[i] = slots[i]
           /\ token'[cmd[at]] = nextToken
           /\ \A l \in Lib \ {cmd[at]} : token'[l] = token[l]
           /\ nextToken' = nextToken + 1
<1>1. /\ cmd \in Seq(Lib) /\ nPlugins \in 0..Len(cmd) /\ slots \in [1..MaxObservers -> Slot]
      /\ token \in [Lib -> Nat]
  BY Zenon DEF TypeOK
<1>2. cmd[at] \in Lib /\ at \in Entries /\ at <= nPlugins
  BY <1>1 DEF StartOne, LoopsInRange
<1>3. Register(cmd[at])
  BY Zenon DEF StartOne
<1>4. FirstFree \in 1..MaxObservers /\ slots[FirstFree].token = 0
  BY <1>3, FirstFreeIsFree DEF Register, FreeSlots
<1>5. slots[1].token = 1
  BY DEF SinkIsFirst
<1>6. QED
  BY <1>1, <1>2, <1>3, <1>4, <1>5 DEF Register

\* A stop removes the observer of the token that the library remembers.
LEMMA Unregistered ==
    ASSUME TypeOK, LoopsInRange, StopOne
    PROVE  /\ at \in Entries /\ cmd[at] \in Lib /\ nextToken' = nextToken
           /\ \/ /\ started[at] /\ token[cmd[at]] # 0
                 /\ \A i \in 1..MaxObservers :
                      IF slots[i].token = token[cmd[at]] THEN slots'[i].token = 0
                      ELSE slots'[i] = slots[i]
                 /\ token'[cmd[at]] = 0
                 /\ \A l \in Lib \ {cmd[at]} : token'[l] = token[l]
              \/ /\ ~(started[at] /\ token[cmd[at]] # 0)
                 /\ slots' = slots /\ token' = token
<1>1. cmd \in Seq(Lib) /\ nPlugins \in 0..Len(cmd) /\ token \in [Lib -> Nat]
  BY Zenon DEF TypeOK
<1>2. cmd[at] \in Lib /\ at \in Entries
  BY <1>1 DEF StopOne, LoopsInRange
<1>3. nextToken' = nextToken
  BY Zenon DEF StopOne
<1>4. CASE started[at] /\ token[cmd[at]] # 0
  <2>1. Unregister(cmd[at]) /\ token' = [token EXCEPT ![cmd[at]] = 0]
    BY <1>4, Zenon DEF StopOne
  <2>2. QED
    BY <1>1, <1>2, <1>3, <1>4, <2>1 DEF Unregister, NoSlot
<1>5. CASE ~(started[at] /\ token[cmd[at]] # 0)
  <2>1. slots' = slots /\ token' = token
    BY <1>5, Zenon DEF StopOne
  <2>2. QED
    BY <1>2, <1>3, <1>5, <2>1
<1>6. QED
  BY <1>4, <1>5

\* Loading and shutting down clear the token of the entry's library only.
LEMMA Cleared ==
    ASSUME TypeOK, LoopsInRange, LoadOne \/ ShutdownOne
    PROVE  /\ slots' = slots /\ nextToken' = nextToken
           /\ pc' = pc /\ pc \in {"load", "shutdown"}
           /\ \A l \in Lib : token'[l] = token[l] \/ token'[l] = 0
<1>1. cmd \in Seq(Lib) /\ nPlugins \in 0..Len(cmd) /\ token \in [Lib -> Nat]
  BY Zenon DEF TypeOK
<1>2. /\ slots' = slots /\ nextToken' = nextToken
      /\ pc' = pc /\ pc \in {"load", "shutdown"}
      /\ token' = [token EXCEPT ![cmd[at]] = 0]
  BY Zenon DEF LoadOne, ShutdownOne
<1>3. QED
  BY <1>1, <1>2

LEMMA SinkStep ==
    ASSUME TypeOK, LoopsInRange, SinkIsFirst, [Next]_vars
    PROVE  SinkIsFirst'
<1>1. /\ \A i \in 1..MaxObservers : slots[i].token \in Nat
      /\ \A l \in Lib : token[l] \in Nat
      /\ nextToken \in Nat
  BY TokenTypes
<1>2. CASE StartOne
  <2>1. slots'[1] = slots[1]
    BY <1>2, Registered
  <2>2. \A i \in 2..MaxObservers :
          slots'[i].token # 0 => slots'[i].token # 1 /\ slots'[i].owner \in Lib
    BY <1>2, Registered DEF SinkIsFirst
  <2>3. nextToken' > 1
    BY <1>1, <1>2, Registered DEF SinkIsFirst
  <2>4. \A l \in Lib : token'[l] # 1 /\ token'[l] < nextToken'
    BY <1>1, <1>2, Registered, SMTT(30) DEF SinkIsFirst
  <2>5. QED
    BY <2>1, <2>2, <2>3, <2>4, Zenon DEF SinkIsFirst
<1>3. CASE StopOne
  <2>1. slots'[1] = slots[1]
    BY <1>3, Unregistered DEF SinkIsFirst
  <2>2. \A i \in 2..MaxObservers :
          slots'[i].token # 0 => slots'[i].token # 1 /\ slots'[i].owner \in Lib
    BY <1>3, Unregistered DEF SinkIsFirst
  <2>3. nextToken' > 1 /\ \A l \in Lib : token'[l] # 1 /\ token'[l] < nextToken'
    BY <1>1, <1>3, Unregistered DEF SinkIsFirst
  <2>4. QED
    BY <2>1, <2>2, <2>3, Zenon DEF SinkIsFirst
<1>4. CASE LoadOne \/ ShutdownOne
  BY <1>1, <1>4, Cleared DEF SinkIsFirst
<1>5. CASE UNCHANGED <<slots, nextToken, token>>
  BY <1>5 DEF SinkIsFirst
<1>6. QED
  BY HostFrame, <1>2, <1>3, <1>4, <1>5, Zenon

LEMMA BusInit ==
    Init => SinkIsFirst /\ SinkSeesAll /\ ObserversHaveEntries
<1> SUFFICES ASSUME Init
             PROVE  SinkIsFirst /\ SinkSeesAll /\ ObserversHaveEntries
  OBVIOUS
<1>1. /\ slots = [i \in 1..MaxObservers |->
                    IF i = 1 THEN [token |-> 1, mask |-> Kind, owner |-> Sink]
                    ELSE NoSlot]
      /\ nextToken = 2 /\ token = [l \in Lib |-> 0]
      /\ published = 0 /\ sinkSeen = 0
  BY Zenon DEF Init
<1>2. SinkIsFirst
  BY <1>1 DEF SinkIsFirst, NoSlot
<1>3. \A l \in Lib : Observers(l) = {}
  BY <1>1 DEF Observers, NoSlot
<1>4. SinkSeesAll /\ ObserversHaveEntries
  BY <1>1, <1>3, Zenon DEF SinkSeesAll, ObserversHaveEntries
<1>5. QED
  BY <1>2, <1>4

-----------------------------------------------------------------------------
(* What the console sees.                                                  *)

\* In a table whose first slot is the console's and no other is, the console
\* gets each record once.
LEMMA ConsoleHit ==
    ASSUME NEW S, S[1] = [token |-> 1, mask |-> Kind, owner |-> Sink],
           \A i \in 2..MaxObservers : S[i].token # 0 => S[i].owner \in Lib,
           NEW k \in Kind
    PROVE  Cardinality(HitsOf(S, k, Sink)) = 1
<1>1. HitsOf(S, k, Sink) = {1}
  BY DEF HitsOf, Hits
<1>2. QED
  BY <1>1, FS_Singleton

LEMMA SinkCounts ==
    ASSUME TypeOK, LoopsInRange, SinkIsFirst, SinkSeesAll, [Next]_vars
    PROVE  SinkSeesAll'
<1>1. SinkIsFirst'
  BY SinkStep
<1>2. published \in Nat /\ sinkSeen = published
  BY Zenon DEF TypeOK, SinkSeesAll
<1>3. ASSUME NEW k \in Kind, NEW S, Publish(S, k), Cardinality(HitsOf(S, k, Sink)) = 1
      PROVE  SinkSeesAll'
  <2>1. CASE accepting
    <3>1. /\ published' = published + 1
          /\ sinkSeen' = sinkSeen + Cardinality(HitsOf(S, k, Sink))
      BY <1>3, <2>1, Zenon DEF Publish
    <3>2. QED
      BY <1>2, <1>3, <3>1 DEF SinkSeesAll
  <2>2. CASE ~accepting
    BY <1>2, <1>3, <2>2 DEF Publish, SinkSeesAll
  <2>3. QED
    BY <2>1, <2>2
<1>4. CASE StartOne
  <2>1. UNCHANGED counters \/ Publish(slots', "note")
    BY <1>4, Zenon DEF StartOne
  <2>2. Cardinality(HitsOf(slots', "note", Sink)) = 1
    <3>1. "note" \in Kind
      BY DEF Kind
    <3>2. QED
      BY <1>1, <3>1, ConsoleHit DEF SinkIsFirst
  <2>3. CASE UNCHANGED counters
    BY <1>2, <2>3 DEF SinkSeesAll
  <2>4. QED
    BY <1>3, <2>1, <2>2, <2>3 DEF Kind
<1>5. CASE Observe
  <2>1. PICK k \in Kind : Publish(slots, k)
    BY <1>5, Zenon DEF Observe
  <2>2. Cardinality(HitsOf(slots, k, Sink)) = 1
    BY ConsoleHit DEF SinkIsFirst
  <2>3. QED
    BY <1>3, <2>1, <2>2
<1>6. CASE LoadOne \/ ShutdownOne
  BY <1>2, <1>6 DEF LoadOne, ShutdownOne, SinkSeesAll
<1>7. CASE UNCHANGED counters
  BY <1>2, <1>7 DEF SinkSeesAll
<1>8. QED
  BY HostFrame, <1>4, <1>5, <1>6, <1>7, Zenon

\* The console shows every record the plugins can be given, for every set of
\* plugins and every order in which they come and go.
THEOREM ConsoleSeesAll == Spec => []SinkSeesAll
<1> DEFINE IInv == TypeOK /\ LoopsInRange /\ SinkIsFirst /\ SinkSeesAll
<1>1. IInv /\ [Next]_vars => IInv'
  BY TypesStep, SinkStep, SinkCounts, Zenon
<1>2. Init => IInv
  BY TypesInit, BusInit, Zenon
<1>3. QED
  BY <1>1, <1>2, PTL DEF Spec

-----------------------------------------------------------------------------
(* What is left after the stops.                                           *)

\* The entry of an observer in the table, as ObserversHaveEntries says it.
Owned(l, i, e) ==
    /\ cmd[e] = l /\ started[e] /\ e <= nPlugins
    /\ pc = "start" => e < at
    /\ pc = "stop" => e <= at

LEMMA EntriesStep ==
    ASSUME TypeOK, LoopsInRange, SinkIsFirst, ObserversHaveEntries, [Next]_vars
    PROVE  ObserversHaveEntries'
<1>1. /\ \A i \in 1..MaxObservers : slots[i].token \in Nat
      /\ \A l \in Lib : token[l] \in Nat
      /\ nextToken \in Nat
  BY TokenTypes
<1>2. cmd' = cmd
  BY HostFrame, Zenon
<1>3. /\ started \in [Entries -> BOOLEAN]
      /\ at \in 0..(Len(cmd) + 1) /\ nPlugins \in 0..Len(cmd) /\ cmd \in Seq(Lib)
  BY Zenon DEF TypeOK
<1>4. ASSUME NEW l \in Lib, NamedOnce(l), NEW i \in Observers(l)
      PROVE  /\ slots[i].token = token[l]
             /\ pc \in {"start", "observe", "stop"}
             /\ \E e \in Entries : Owned(l, i, e)
  BY <1>4, Zenon DEF ObserversHaveEntries, Owned
<1>5. SUFFICES ASSUME NEW l \in Lib, NamedOnce(l), NEW i \in Observers(l)'
               PROVE  /\ slots'[i].token = token'[l]
                      /\ pc' \in {"start", "observe", "stop"}
                      /\ \E e \in Entries : Owned(l, i, e)'
  <2>1. \A l \in Lib : NamedOnce(l)' <=> NamedOnce(l)
    BY <1>2 DEF NamedOnce
  <2>2. QED
    BY <1>2, <2>1, Zenon DEF ObserversHaveEntries, Owned
<1>6. i \in 1..MaxObservers /\ slots'[i].token # 0 /\ slots'[i].owner = l
  BY DEF Observers
<1>7. CASE StartOne
  <2>1. started' = [started EXCEPT ![at] = TRUE] /\ at' = at + 1
        /\ pc' = pc /\ pc = "start" /\ nPlugins' = nPlugins
    BY <1>7, Zenon DEF StartOne
  <2>2. CASE i = FirstFree
    <3>1. cmd[at] = l /\ at \in Entries /\ at <= nPlugins
          /\ slots'[i].token = token'[l]
      BY <1>6, <1>7, <2>2, Registered
    <3>2. started'[at]
      BY <1>3, <2>1, <3>1, Zenon
    <3>3. PICK e \in Entries : e = at
      BY <3>1
    <3>4. Owned(l, i, e)'
      BY <1>2, <1>3, <2>1, <3>1, <3>2, <3>3 DEF Owned
    <3>5. QED
      BY <2>1, <3>1, <3>4
  <2>3. CASE i # FirstFree
    <3>1. slots'[i] = slots[i] /\ cmd[at] \in Lib /\ at \in Entries
          /\ \A m \in Lib \ {cmd[at]} : token'[m] = token[m]
      BY <1>6, <1>7, <2>3, Registered
    <3>2. i \in Observers(l)
      BY <1>6, <3>1 DEF Observers
    <3>3. PICK e \in Entries : Owned(l, i, e)
      BY <1>4, <1>5, <3>2
    <3>4. e # at /\ cmd[e] = l /\ e < at /\ l # cmd[at]
      BY <1>3, <1>5, <2>1, <3>1, <3>3 DEF Owned, NamedOnce
    <3>5. Owned(l, i, e)'
      <4>1. started'[e] = started[e]
        BY <1>3, <2>1, <3>4
      <4>2. QED
        BY <1>2, <1>3, <2>1, <3>3, <3>4, <4>1 DEF Owned
    <3>6. QED
      BY <1>4, <1>5, <2>1, <3>1, <3>2, <3>4, <3>5
  <2>4. QED
    BY <2>2, <2>3
<1>8. CASE StopOne
  <2>1. started' = started /\ at' = at - 1 /\ pc' = pc /\ pc = "stop"
        /\ nPlugins' = nPlugins
    BY <1>8, Zenon DEF StopOne
  <2>2. /\ slots'[i] = slots[i]
        /\ l # cmd[at] => token'[l] = token[l]
        /\ l = cmd[at] => ~(started[at] /\ slots[i].token = token[l])
    BY <1>1, <1>6, <1>8, Unregistered
  <2>3. i \in Observers(l)
    BY <1>6, <2>2 DEF Observers
  <2>4. PICK e \in Entries : Owned(l, i, e)
    BY <1>4, <1>5, <2>3
  <2>5. e # at /\ l # cmd[at]
    BY <1>4, <1>5, <1>8, <2>2, <2>3, <2>4, Unregistered DEF Owned, NamedOnce
  <2>6. Owned(l, i, e)'
    BY <1>2, <1>3, <2>1, <2>4, <2>5 DEF Owned
  <2>7. QED
    BY <1>4, <1>5, <2>1, <2>2, <2>3, <2>5, <2>6
<1>9. CASE LoadOne \/ ShutdownOne
  <2>1. i \in Observers(l) /\ pc \in {"load", "shutdown"}
    BY <1>6, <1>9, Cleared DEF Observers
  <2>2. QED
    BY <1>4, <1>5, <2>1
<1>10. CASE UNCHANGED <<slots, nextToken, token>> /\ ~StartOne /\ ~StopOne
  <2>1. i \in Observers(l)
    BY <1>6, <1>10 DEF Observers
  <2>2. PICK e \in Entries : Owned(l, i, e)
    BY <1>4, <1>5, <2>1
  <2>3. slots'[i].token = token'[l] /\ pc \in {"start", "observe", "stop"}
    BY <1>4, <1>5, <1>10, <2>1
  <2>4. started' = started /\ nPlugins' = nPlugins
    BY <1>10, <2>3 DEF Next, LoadOne, LoadFails, OpenWindow, StartFails, AllStarted,
       Observe, ObserveDone, CloseWindow, ShutdownOne, AllShutDown, CloseOne, Exit
  <2>5. \/ pc' = pc /\ at' = at
        \/ pc' = "observe"
        \/ pc' = "stop" /\ at' = nPlugins
        \/ pc = "stop" /\ at < 1
    BY <1>10, <2>3 DEF Next, LoadOne, LoadFails, OpenWindow, StartFails, AllStarted,
       Observe, ObserveDone, CloseWindow, ShutdownOne, AllShutDown, CloseOne, Exit
  <2>6. ~(pc = "stop" /\ at < 1)
    BY <1>3, <2>2 DEF Owned
  <2>7. Owned(l, i, e)' /\ pc' \in {"start", "observe", "stop"}
    BY <1>2, <2>2, <2>3, <2>4, <2>5, <2>6 DEF Owned
  <2>8. QED
    BY <2>3, <2>7
<1>11. QED
  BY HostFrame, <1>7, <1>8, <1>9, <1>10, Zenon

\* On every command line, whichever plugins started: once the stop loop is
\* done, nothing of a library that was named once is in the observer table.
THEOREM StopsUnregister == Spec => []StoppedIsUnregistered
<1> DEFINE IInv == TypeOK /\ HostInv
<1>1. IInv /\ [Next]_vars => IInv'
  BY TypesStep, SinkStep, EntriesStep, Zenon DEF HostInv
<1>2. Init => IInv
  BY TypesInit, BusInit, Zenon DEF HostInv
<1>3. IInv => StoppedIsUnregistered
  <2> SUFFICES ASSUME ObserversHaveEntries, pc \in {"shutdown", "close", "exit"},
                      NEW l \in Lib, NamedOnce(l), NEW i \in Observers(l)
               PROVE  FALSE
    BY Zenon DEF HostInv, StoppedIsUnregistered
  <2>1. pc \in {"start", "observe", "stop"}
    BY Zenon DEF ObserversHaveEntries
  <2>2. QED
    BY <2>1
<1>4. QED
  BY <1>1, <1>2, <1>3, PTL DEF Spec

-----------------------------------------------------------------------------
(* The lifecycle.  An entry's history is a function of where main's loops   *)
(* are and of whether the entry was started.                                *)

Fresh == <<>>
Inited == <<"init">>
Up == <<"init", "start">>
Refused == <<"init", "startFailed">>
Down == <<"init", "start", "stop">>
Ends == { <<"init", "start", "stop", "shutdown">>,
          <<"init", "startFailed", "shutdown">>, <<"init", "shutdown">> }
Closes == { <<"init", "start", "stop", "shutdown", "close">>,
            <<"init", "startFailed", "shutdown", "close">>,
            <<"init", "shutdown", "close">> }

\* Before its turn in the stop loop, and after it.
Serving(i) == IF started[i] THEN trail[i] = Up ELSE trail[i] \in {Inited, Refused}
Retired(i) == IF started[i] THEN trail[i] = Down ELSE trail[i] \in {Inited, Refused}

LifeOf(i) ==
    /\ pc = "load" => ~started[i] /\ trail[i] = IF i < at THEN Inited ELSE Fresh
    /\ pc = "start" =>
         (started[i] <=> i < at) /\ trail[i] = IF i < at THEN Up ELSE Inited
    /\ pc = "observe" => started[i] /\ trail[i] = Up
    /\ pc = "stop" => IF i <= at THEN Serving(i) ELSE Retired(i)
    /\ pc = "shutdown" => IF i <= at THEN Retired(i) ELSE trail[i] \in Ends
    /\ pc = "close" => trail[i] \in (IF i < at THEN Closes ELSE Ends)
    /\ pc = "exit" => trail[i] \in Closes

\* A load that fails is the only way to miss an entry, and it closes at once.
LifeInv ==
    /\ pc \in {"start", "observe", "stop", "shutdown"} => nPlugins = Len(cmd)
    /\ pc = "load" \/ nPlugins = Len(cmd) => \A i \in Entries : LifeOf(i)

\* A tuple with one more element.
LEMMA Append1 ==
    ASSUME NEW S, NEW a \in S, NEW e \in S
    PROVE  Append(<<a>>, e) = <<a, e>>
<1>1. <<a>> \in Seq(S) /\ Append(<<a>>, e) \in Seq(S) /\ <<a, e>> \in Seq(S)
  OBVIOUS
<1>2. Len(Append(<<a>>, e)) = 2 /\ Len(<<a, e>>) = 2
  BY <1>1
<1>3. \A i \in 1..2 : Append(<<a>>, e)[i] = <<a, e>>[i]
  BY <1>1
<1>4. QED
  BY <1>1, <1>2, <1>3, SeqEqual

LEMMA Append2 ==
    ASSUME NEW S, NEW a \in S, NEW b \in S, NEW e \in S
    PROVE  Append(<<a, b>>, e) = <<a, b, e>>
<1>1. <<a, b>> \in Seq(S) /\ Append(<<a, b>>, e) \in Seq(S) /\ <<a, b, e>> \in Seq(S)
  OBVIOUS
<1>2. Len(Append(<<a, b>>, e)) = 3 /\ Len(<<a, b, e>>) = 3
  BY <1>1
<1>3. \A i \in 1..3 : Append(<<a, b>>, e)[i] = <<a, b, e>>[i]
  BY <1>1
<1>4. QED
  BY <1>1, <1>2, <1>3, SeqEqual

LEMMA Append3 ==
    ASSUME NEW S, NEW a \in S, NEW b \in S, NEW c \in S, NEW e \in S
    PROVE  Append(<<a, b, c>>, e) = <<a, b, c, e>>
<1>1. <<a, b, c>> \in Seq(S) /\ Append(<<a, b, c>>, e) \in Seq(S) /\ <<a, b, c, e>> \in Seq(S)
  OBVIOUS
<1>2. Len(Append(<<a, b, c>>, e)) = 4 /\ Len(<<a, b, c, e>>) = 4
  BY <1>1
<1>3. \A i \in 1..4 : Append(<<a, b, c>>, e)[i] = <<a, b, c, e>>[i]
  BY <1>1
<1>4. QED
  BY <1>1, <1>2, <1>3, SeqEqual

LEMMA Append4 ==
    ASSUME NEW S, NEW a \in S, NEW b \in S, NEW c \in S, NEW d \in S, NEW e \in S
    PROVE  Append(<<a, b, c, d>>, e) = <<a, b, c, d, e>>
<1>1. <<a, b, c, d>> \in Seq(S) /\ Append(<<a, b, c, d>>, e) \in Seq(S) /\ <<a, b, c, d, e>> \in Seq(S)
  OBVIOUS
<1>2. Len(Append(<<a, b, c, d>>, e)) = 5 /\ Len(<<a, b, c, d, e>>) = 5
  BY <1>1
<1>3. \A i \in 1..5 : Append(<<a, b, c, d>>, e)[i] = <<a, b, c, d, e>>[i]
  BY <1>1
<1>4. QED
  BY <1>1, <1>2, <1>3, SeqEqual

\* What one more call makes of a history.
LEMMA OneMoreCall ==
    /\ Append(Fresh, "init") = Inited
    /\ Append(Inited, "start") = Up
    /\ Append(Inited, "startFailed") = Refused
    /\ Append(Up, "stop") = Down
    /\ Append(Inited, "shutdown") \in Ends /\ Append(Refused, "shutdown") \in Ends
    /\ Append(Down, "shutdown") \in Ends
    /\ \A t \in Ends : Append(t, "close") \in Closes
<1> DEFINE C == Calls
<1>1. /\ "init" \in C /\ "start" \in C /\ "startFailed" \in C /\ "stop" \in C
      /\ "shutdown" \in C /\ "close" \in C
  BY DEF Calls
<1> HIDE DEF C
<1>2. Append(Fresh, "init") = Inited
  BY DEF Fresh, Inited
<1>3. Append(Inited, "start") = Up /\ Append(Inited, "startFailed") = Refused
  BY <1>1, Append1, Zenon DEF Inited, Up, Refused
<1>4. Append(Up, "stop") = Down
  BY <1>1, Append2 DEF Up, Down
<1>5. /\ Append(Inited, "shutdown") = <<"init", "shutdown">>
      /\ Append(Refused, "shutdown") = <<"init", "startFailed", "shutdown">>
      /\ Append(Down, "shutdown") = <<"init", "start", "stop", "shutdown">>
  <2>1. Append(Inited, "shutdown") = <<"init", "shutdown">>
    BY <1>1, Append1, Zenon DEF Inited
  <2>2. Append(Refused, "shutdown") = <<"init", "startFailed", "shutdown">>
    BY <1>1, Append2 DEF Refused
  <2>3. Append(Down, "shutdown") = <<"init", "start", "stop", "shutdown">>
    BY <1>1, Append3 DEF Down
  <2>4. QED
    BY <2>1, <2>2, <2>3
<1>6. /\ Append(<<"init", "start", "stop", "shutdown">>, "close")
           = <<"init", "start", "stop", "shutdown", "close">>
      /\ Append(<<"init", "startFailed", "shutdown">>, "close")
           = <<"init", "startFailed", "shutdown", "close">>
      /\ Append(<<"init", "shutdown">>, "close") = <<"init", "shutdown", "close">>
  <2>1. Append(<<"init", "start", "stop", "shutdown">>, "close")
          = <<"init", "start", "stop", "shutdown", "close">>
    BY <1>1, Append4
  <2>2. Append(<<"init", "startFailed", "shutdown">>, "close")
          = <<"init", "startFailed", "shutdown", "close">>
    BY <1>1, Append3
  <2>3. Append(<<"init", "shutdown">>, "close") = <<"init", "shutdown", "close">>
    BY <1>1, Append2
  <2>4. QED
    BY <2>1, <2>2, <2>3
<1>7. QED
  BY <1>2, <1>3, <1>4, <1>5, <1>6, Zenon DEF Ends, Closes

\* A call is written to the history of its entry only.
LEMMA CallFrame ==
    ASSUME TypeOK, NEW e \in Entries, NEW what, Called(e, what)
    PROVE  \A i \in Entries :
             trail'[i] = IF i = e THEN Append(trail[i], what) ELSE trail[i]
BY DEF TypeOK, Called

LEMMA LifeInit == Init => LifeInv
<1> SUFFICES ASSUME Init PROVE LifeInv
  OBVIOUS
<1>1. pc = "load" /\ at = 1 /\ nPlugins = 0
      /\ started = [i \in Entries |-> FALSE] /\ trail = [i \in Entries |-> Fresh]
  BY DEF Init, Fresh
<1>2. Len(cmd) \in Nat
  BY TypesInit DEF TypeOK
<1>3. \A i \in Entries : LifeOf(i)
  BY <1>1, <1>2 DEF LifeOf
<1>4. QED
  BY <1>1, <1>3 DEF LifeInv

LEMMA LifeStep ==
    ASSUME TypeOK, LoopsInRange, LifeInv, [Next]_vars
    PROVE  LifeInv'
<1>1. cmd' = cmd
  BY HostFrame, Zenon
<1>2. /\ Len(cmd) \in Nat /\ at \in 0..(Len(cmd) + 1) /\ nPlugins \in 0..Len(cmd)
      /\ started \in [Entries -> BOOLEAN]
  BY DEF TypeOK
<1>3. Entries' = Entries
  BY <1>1
<1>4. CASE LoadOne
  <2>1. /\ pc = "load" /\ pc' = "load" /\ at \in Entries /\ at' = at + 1
        /\ started' = started /\ Called(at, "init")
    <3>1. /\ pc = "load" /\ pc' = "load" /\ at <= Len(cmd) /\ at' = at + 1
          /\ started' = started /\ Called(at, "init")
      BY <1>4, Zenon DEF LoadOne
    <3>2. at \in Entries
      BY <1>2, <3>1 DEF LoopsInRange
    <3>3. QED
      BY <3>1, <3>2, Zenon
  <2>2. \A i \in Entries :
          trail'[i] = IF i = at THEN Append(trail[i], "init") ELSE trail[i]
    BY <2>1, CallFrame
  <2>3. \A i \in Entries : LifeOf(i)
    BY <2>1, Zenon DEF LifeInv
  <2>4. \A i \in Entries : LifeOf(i)'
    <3> SUFFICES ASSUME NEW i \in Entries PROVE LifeOf(i)'
      BY Zenon
    <3>1. i \in Int /\ at \in Int /\ i <= Len(cmd)
      BY <1>2
    <3>2. LifeOf(i) /\ trail'[i] = IF i = at THEN Append(trail[i], "init") ELSE trail[i]
      BY <2>2, <2>3, Zenon
    <3>3. CASE i = at
      BY <1>2, <2>1, <3>1, <3>2, <3>3, OneMoreCall DEF LifeOf
    <3>4. CASE i # at
      BY <1>2, <2>1, <3>1, <3>2, <3>4 DEF LifeOf
    <3>5. QED
      BY <3>3, <3>4, Zenon
  <2>5. QED
    BY <1>3, <2>1, <2>4 DEF LifeInv
<1>5. CASE LoadFails
  <2>1. pc' = "close" /\ nPlugins' = nPlugins /\ nPlugins < Len(cmd)
    BY <1>2, <1>5 DEF LoadFails, LoopsInRange
  <2>2. QED
    BY <1>1, <1>2, <2>1 DEF LifeInv
<1>6. CASE OpenWindow
  <2>1. /\ pc = "load" /\ pc' = "start" /\ at > Len(cmd) /\ at' = 1
        /\ nPlugins' = nPlugins /\ nPlugins = Len(cmd)
        /\ started' = started /\ trail' = trail
    BY <1>2, <1>6 DEF OpenWindow, LoopsInRange
  <2>2. \A i \in Entries : LifeOf(i)
    BY <2>1, Zenon DEF LifeInv
  <2>3. \A i \in Entries : LifeOf(i)'
    BY <1>2, <2>1, <2>2 DEF LifeOf
  <2>4. QED
    BY <1>1, <1>3, <2>1, <2>3 DEF LifeInv
<1>7. CASE StartOne
  <2>1. /\ pc = "start" /\ pc' = "start" /\ nPlugins' = nPlugins
        /\ at <= nPlugins /\ at' = at + 1
        /\ started' = [started EXCEPT ![at] = TRUE] /\ Called(at, "start")
    BY <1>7, Zenon DEF StartOne
  <2>2. nPlugins = Len(cmd) /\ \A i \in Entries : LifeOf(i)
    BY <2>1, Zenon DEF LifeInv
  <2>3. at \in Entries
    BY <1>2, <2>1, <2>2 DEF LoopsInRange
  <2>4. \A i \in Entries :
          trail'[i] = IF i = at THEN Append(trail[i], "start") ELSE trail[i]
    BY <2>1, <2>3, CallFrame
  <2>5. \A i \in Entries : LifeOf(i)'
    <3> SUFFICES ASSUME NEW i \in Entries PROVE LifeOf(i)'
      BY Zenon
    <3>1. i \in Int /\ at \in Int /\ i <= Len(cmd)
      BY <1>2
    <3>2. LifeOf(i) /\ trail'[i] = IF i = at THEN Append(trail[i], "start") ELSE trail[i]
      BY <2>2, <2>4, Zenon
    <3>3. CASE i = at
      <4>1. trail[i] = Inited
        BY <2>1, <3>1, <3>2, <3>3 DEF LifeOf
      <4>2. trail'[i] = Up
        BY <3>2, <3>3, <4>1, OneMoreCall, Zenon
      <4>3. started'[i] = TRUE /\ i < at'
        BY <1>2, <2>1, <3>1, <3>3
      <4>4. QED
        BY <2>1, <4>2, <4>3 DEF LifeOf
    <3>4. CASE i # at
      <4>1. started'[i] = started[i] /\ trail'[i] = trail[i] /\ (i < at' <=> i < at)
        BY <1>2, <2>1, <3>1, <3>2, <3>4
      <4>2. QED
        BY <2>1, <3>2, <4>1 DEF LifeOf
    <3>5. QED
      BY <3>3, <3>4, Zenon
  <2>6. QED
    BY <1>1, <1>3, <2>1, <2>2, <2>5 DEF LifeInv
<1>8. CASE StartFails
  <2>1. /\ pc = "start" /\ pc' = "stop" /\ nPlugins' = nPlugins
        /\ at <= nPlugins /\ at' = nPlugins
        /\ started' = started /\ Called(at, "startFailed")
    BY <1>8, Zenon DEF StartFails
  <2>2. nPlugins = Len(cmd) /\ \A i \in Entries : LifeOf(i)
    BY <2>1, Zenon DEF LifeInv
  <2>3. at \in Entries
    BY <1>2, <2>1, <2>2 DEF LoopsInRange
  <2>4. \A i \in Entries :
          trail'[i] = IF i = at THEN Append(trail[i], "startFailed") ELSE trail[i]
    BY <2>1, <2>3, CallFrame
  <2>5. ASSUME NEW i \in Entries
        PROVE  LifeOf(i)'
    <3>1. i \in Int /\ i <= at'
      BY <1>2, <2>1, <2>2
    <3>2. (started'[i] <=> i < at) /\ trail[i] = IF i < at THEN Up ELSE Inited
      BY <2>1, <2>2, Zenon DEF LifeOf
    <3>3. Serving(i)'
      <4>1. CASE i = at
        <5>1. ~started'[i] /\ trail[i] = Inited
          BY <1>2, <3>2, <4>1
        <5>2. trail'[i] = Refused
          BY <2>4, <4>1, <5>1, OneMoreCall, Zenon
        <5>3. QED
          BY <5>1, <5>2, Zenon DEF Serving
      <4>2. CASE i # at
        BY <2>4, <3>2, <4>2, Zenon DEF Serving
      <4>3. QED
        BY <4>1, <4>2, Zenon
    <3>4. QED
      BY <2>1, <3>1, <3>3 DEF LifeOf
  <2>6. QED
    BY <1>1, <1>3, <2>1, <2>2, <2>5 DEF LifeInv
<1>9. CASE AllStarted
  <2>1. /\ pc = "start" /\ pc' = "observe" /\ nPlugins' = nPlugins
        /\ at > nPlugins /\ started' = started /\ trail' = trail
    BY <1>9, Zenon DEF AllStarted
  <2>2. nPlugins = Len(cmd) /\ \A i \in Entries : LifeOf(i)
    BY <2>1, Zenon DEF LifeInv
  <2>3. \A i \in Entries : LifeOf(i)'
    BY <1>2, <2>1, <2>2 DEF LifeOf
  <2>4. QED
    BY <1>1, <1>3, <2>1, <2>2, <2>3 DEF LifeInv
<1>10. CASE ObserveDone
  <2>1. /\ pc = "observe" /\ pc' = "stop" /\ nPlugins' = nPlugins
        /\ at' = nPlugins /\ started' = started /\ trail' = trail
    BY <1>10, Zenon DEF ObserveDone
  <2>2. nPlugins = Len(cmd) /\ \A i \in Entries : LifeOf(i)
    BY <2>1, Zenon DEF LifeInv
  <2>3. \A i \in Entries : LifeOf(i)'
    BY <1>2, <2>1, <2>2 DEF LifeOf, Serving
  <2>4. QED
    BY <1>1, <1>3, <2>1, <2>2, <2>3 DEF LifeInv
<1>11. CASE StopOne
  <2>1. /\ pc = "stop" /\ pc' = "stop" /\ nPlugins' = nPlugins
        /\ at >= 1 /\ at' = at - 1 /\ started' = started
        /\ IF started[at] THEN Called(at, "stop") ELSE trail' = trail
    BY <1>11, Zenon DEF StopOne
  <2>2. nPlugins = Len(cmd) /\ \A i \in Entries : LifeOf(i)
    BY <2>1, Zenon DEF LifeInv
  <2>3. at \in Entries
    BY <1>2, <2>1, <2>2 DEF LoopsInRange
  <2>4. \A i \in Entries :
          trail'[i] = IF i = at /\ started[at] THEN Append(trail[i], "stop")
                      ELSE trail[i]
    <3>1. CASE started[at]
      BY <2>1, <2>3, <3>1, CallFrame, Zenon
    <3>2. CASE ~started[at]
      BY <2>1, <3>2, Zenon
    <3>3. QED
      BY <3>1, <3>2, Zenon
  <2>5. \A i \in Entries : LifeOf(i)'
    <3> SUFFICES ASSUME NEW i \in Entries PROVE LifeOf(i)'
      BY Zenon
    <3>1. i \in Int /\ at \in Int /\ i <= Len(cmd)
      BY <1>2
    <3>2. LifeOf(i) /\ trail'[i] = IF i = at /\ started[at] THEN Append(trail[i], "stop") ELSE trail[i]
      BY <2>2, <2>4, Zenon
    <3>3. CASE i = at
      BY <1>2, <2>1, <3>1, <3>2, <3>3, OneMoreCall DEF LifeOf, Serving, Retired
    <3>4. CASE i # at
      BY <1>2, <2>1, <3>1, <3>2, <3>4 DEF LifeOf, Serving, Retired
    <3>5. QED
      BY <3>3, <3>4, Zenon
  <2>6. QED
    BY <1>1, <1>3, <2>1, <2>2, <2>5 DEF LifeInv
<1>12. CASE CloseWindow
  <2>1. /\ pc = "stop" /\ pc' = "shutdown" /\ nPlugins' = nPlugins
        /\ at < 1 /\ at' = nPlugins /\ started' = started /\ trail' = trail
    BY <1>12, Zenon DEF CloseWindow
  <2>2. nPlugins = Len(cmd) /\ \A i \in Entries : LifeOf(i)
    BY <2>1, Zenon DEF LifeInv
  <2>3. ASSUME NEW i \in Entries
        PROVE  LifeOf(i)'
    <3>1. i \in Int /\ i <= Len(cmd) /\ i >= 1
      BY <1>2
    <3>2. Retired(i)
      BY <1>2, <2>1, <2>2, <3>1 DEF LifeOf
    <3>3. Retired(i)'
      BY <2>1, <3>2, Zenon DEF Retired
    <3>4. i <= at'
      BY <2>1, <2>2, <3>1
    <3>5. QED
      BY <2>1, <3>3, <3>4 DEF LifeOf
  <2>4. QED
    BY <1>1, <1>3, <2>1, <2>2, <2>3 DEF LifeInv
<1>13. CASE ShutdownOne
  <2>1. /\ pc = "shutdown" /\ pc' = "shutdown" /\ nPlugins' = nPlugins
        /\ at >= 1 /\ at' = at - 1 /\ started' = started /\ Called(at, "shutdown")
    BY <1>13, Zenon DEF ShutdownOne
  <2>2. nPlugins = Len(cmd) /\ \A i \in Entries : LifeOf(i)
    BY <2>1, Zenon DEF LifeInv
  <2>3. at \in Entries
    BY <1>2, <2>1, <2>2 DEF LoopsInRange
  <2>4. \A i \in Entries :
          trail'[i] = IF i = at THEN Append(trail[i], "shutdown") ELSE trail[i]
    BY <2>1, <2>3, CallFrame
  <2>5. \A i \in Entries : LifeOf(i)'
    <3> SUFFICES ASSUME NEW i \in Entries PROVE LifeOf(i)'
      BY Zenon
    <3>1. i \in Int /\ at \in Int /\ i <= Len(cmd)
      BY <1>2
    <3>2. LifeOf(i) /\ trail'[i] = IF i = at THEN Append(trail[i], "shutdown") ELSE trail[i]
      BY <2>2, <2>4, Zenon
    <3>3. CASE i = at
      BY <1>2, <2>1, <3>1, <3>2, <3>3, OneMoreCall DEF LifeOf, Retired
    <3>4. CASE i # at
      BY <1>2, <2>1, <3>1, <3>2, <3>4 DEF LifeOf, Retired
    <3>5. QED
      BY <3>3, <3>4, Zenon
  <2>6. QED
    BY <1>1, <1>3, <2>1, <2>2, <2>5 DEF LifeInv
<1>14. CASE AllShutDown
  <2>1. /\ pc = "shutdown" /\ pc' = "close" /\ nPlugins' = nPlugins
        /\ at < 1 /\ at' = 1 /\ trail' = trail
    BY <1>14, Zenon DEF AllShutDown
  <2>2. nPlugins = Len(cmd) /\ \A i \in Entries : LifeOf(i)
    BY <2>1, Zenon DEF LifeInv
  <2>3. \A i \in Entries : LifeOf(i)'
    BY <1>2, <2>1, <2>2 DEF LifeOf
  <2>4. QED
    BY <1>1, <1>3, <2>1, <2>2, <2>3 DEF LifeInv
<1>15. CASE CloseOne
  <2>1. /\ pc = "close" /\ pc' = "close" /\ nPlugins' = nPlugins
        /\ at <= nPlugins /\ at' = at + 1 /\ Called(at, "close")
    BY <1>15, Zenon DEF CloseOne
  <2>2. at \in Entries
    BY <1>2, <2>1 DEF LoopsInRange
  <2>3. \A i \in Entries :
          trail'[i] = IF i = at THEN Append(trail[i], "close") ELSE trail[i]
    BY <2>1, <2>2, CallFrame
  <2>4. ASSUME nPlugins = Len(cmd)
        PROVE  \A i \in Entries : LifeOf(i)'
    <3>1. \A i \in Entries : LifeOf(i)
      BY <2>4, Zenon DEF LifeInv
    <3>2. QED
      BY <1>2, <2>1, <2>2, <2>3, <3>1, OneMoreCall DEF LifeOf
  <2>5. QED
    BY <1>1, <1>3, <2>1, <2>4 DEF LifeInv
<1>16. CASE Exit
  <2>1. /\ pc = "close" /\ pc' = "exit" /\ nPlugins' = nPlugins
        /\ at > nPlugins /\ trail' = trail
    BY <1>16, Zenon DEF Exit
  <2>2. ASSUME nPlugins = Len(cmd)
        PROVE  \A i \in Entries : LifeOf(i)'
    <3>1. \A i \in Entries : LifeOf(i)
      BY <2>2, Zenon DEF LifeInv
    <3>2. QED
      BY <1>2, <2>1, <2>2, <3>1 DEF LifeOf
  <2>3. QED
    BY <1>1, <1>3, <2>1, <2>2 DEF LifeInv
<1>17. CASE Observe \/ UNCHANGED vars
  <2>1. UNCHANGED <<pc, at, nPlugins, started, trail>>
    BY <1>17, Zenon DEF Observe
  <2>2. QED
    BY <1>1, <1>3, <2>1, Zenon DEF LifeInv, LifeOf, Serving, Retired
<1>18. QED
  BY <1>4, <1>5, <1>6, <1>7, <1>8, <1>9, <1>10, <1>11, <1>12, <1>13, <1>14,
     <1>15, <1>16, <1>17, Zenon DEF Next

\* On every command line, also one that names a library twice: at the exit of
\* a run that loaded all its entries, each has had init, start, stop if and
\* only if its start succeeded, shutdown and unload, once and in that order.
THEOREM EntriesLiveByTheTable == Spec => []WholeLifecycle
<1> DEFINE IInv == TypeOK /\ LoopsInRange /\ LifeInv
<1>1. IInv /\ [Next]_vars => IInv'
  BY TypesStep, LoopStep, LifeStep, Zenon
<1>2. Init => IInv
  BY TypesInit, LifeInit, Zenon
<1>3. IInv => WholeLifecycle
  BY DEF LifeInv, LifeOf, Closes, WholeLifecycle
<1>4. QED
  BY <1>1, <1>2, <1>3, PTL DEF Spec
=============================================================================
