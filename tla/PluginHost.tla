----------------------------- MODULE PluginHost -----------------------------
(***************************************************************************)
(* The native-x86 host around an observation pass: main.c loads the        *)
(* plugins named on the command line, opens the delivery window, starts    *)
(* them in order, observes, and stops, shuts down and unloads them, while  *)
(* event_bus.c keeps the observer table and delivers every record.         *)
(*                                                                         *)
(* Plugins behave as the ones in native-x86/plugins do: start asks for its *)
(* watches, registers one observer and may emit a note, stop removes the   *)
(* observer of the token it remembers, shutdown clears the state.  That    *)
(* state is static in the library, so two command-line entries that name   *)
(* the same library share it.  The host is single-threaded and calls into  *)
(* a plugin one at a time: each call is one action, callbacks included.    *)
(*                                                                         *)
(* Records are abstracted to their kind, a library to its event mask, the  *)
(* number of its watches and whether its start emits a note.               *)
(***************************************************************************)
EXTENDS Integers, FiniteSetsExt, Sequences

CONSTANTS
    Lib,            \* plugin libraries
    Mask,           \* the kinds a library's observer subscribes to
    Watches,        \* the number of request_watch calls in its start
    EmitsNote,      \* the libraries whose start emits a note
    Sink,           \* the host's own console observer
    MaxPlugins,     \* NX86_HOST_MAX_PLUGINS
    MaxObservers,   \* NX86_HOST_MAX_OBSERVERS
    MaxWatches,     \* NX86_HOST_MAX_WATCHES
    MaxRecords      \* bound: records one observation pass publishes

Kind == {"note", "module", "symbol", "callsite"}

ASSUME HostAssumption ==
    /\ Mask \in [Lib -> SUBSET Kind] /\ Watches \in [Lib -> Nat]
    /\ EmitsNote \subseteq Lib /\ Sink \notin Lib
    /\ MaxPlugins \in Nat /\ MaxObservers \in Nat \ {0}
    /\ MaxWatches \in Nat /\ MaxRecords \in Nat

VARIABLES
    \* ---- main
    pc,         \* the loop or section of main
    cmd,        \* the libraries named on the command line
    pidSet,     \* --pid was given: a process is observed, not the sample
    at,         \* the loop index
    nPlugins,   \* entries loaded
    started,    \* plugins[i].started
    rc,         \* the exit code
    nWatches,
    records,    \* records the pass has published
    \* ---- the event bus
    slots, nextToken, accepting, published, delivered,
    \* ---- observers
    token,      \* a library's state->token, 0 for none
    received,   \* what its callback counted
    sinkSeen,
    \* ---- history
    trail       \* the lifecycle calls each entry got, in order

line == <<cmd, pidSet>>
bus == <<slots, nextToken, accepting>>
counters == <<published, delivered, received, sinkSeen>>
vars == <<pc, line, at, nPlugins, started, rc, nWatches, records, bus, counters,
          token, trail>>

Entries == 1..Len(cmd)
Slot == [token : Nat, mask : SUBSET Kind, owner : Lib \cup {Sink}]
NoSlot == [token |-> 0, mask |-> {}, owner |-> Sink]

\* bus_init, and the registration of the console sink.
Init ==
    /\ pc = "load" /\ at = 1 /\ nPlugins = 0 /\ rc = 0
    /\ cmd \in UNION {[1..n -> Lib] : n \in 1..MaxPlugins}
    /\ pidSet \in BOOLEAN
    /\ started = [i \in Entries |-> FALSE]
    /\ nWatches = 0 /\ records = 0
    /\ slots = [i \in 1..MaxObservers |->
                    IF i = 1 THEN [token |-> 1, mask |-> Kind, owner |-> Sink]
                    ELSE NoSlot]
    /\ nextToken = 2 /\ accepting = FALSE
    /\ published = 0 /\ delivered = 0 /\ sinkSeen = 0
    /\ token = [l \in Lib |-> 0] /\ received = [l \in Lib |-> 0]
    /\ trail = [i \in Entries |-> <<>>]

-----------------------------------------------------------------------------
(* event_bus.c                                                             *)

FreeSlots == {i \in 1..MaxObservers : slots[i].token = 0}
FirstFree == CHOOSE i \in FreeSlots : \A j \in FreeSlots : i <= j

\* nx86_bus_register, for library l; a full table is refused.
Register(l) ==
    /\ FreeSlots # {}
    /\ slots' = [slots EXCEPT ![FirstFree] =
                   [token |-> nextToken, mask |-> Mask[l], owner |-> l]]
    /\ token' = [token EXCEPT ![l] = nextToken]
    /\ nextToken' = nextToken + 1

\* nx86_bus_unregister of the token that library l remembers.
Unregister(l) ==
    slots' = [i \in 1..MaxObservers |->
                IF slots[i].token = token[l] THEN NoSlot ELSE slots[i]]

\* nx86_bus_publish: the slots of table S that get a record of kind k.
Hits(S, k) == {i \in 1..MaxObservers : S[i].token # 0 /\ k \in S[i].mask}

HitsOf(S, k, o) == {i \in Hits(S, k) : S[i].owner = o}

\* Every subscriber's callback runs before publish returns.  Outside the
\* window nothing is delivered.
Publish(S, k) ==
    IF accepting
    THEN /\ published' = published + 1
         /\ delivered' = delivered + Cardinality(Hits(S, k))
         /\ sinkSeen' = sinkSeen + Cardinality(HitsOf(S, k, Sink))
         /\ received' = [l \in Lib |->
                           received[l] + Cardinality(HitsOf(S, k, l))]
    ELSE UNCHANGED counters

-----------------------------------------------------------------------------
(* main                                                                    *)

Called(i, what) == trail' = [trail EXCEPT ![i] = Append(@, what)]

\* load_one_plugin: open, nx86_plugin_init (which clears the library's state)
\* and the ABI check.
LoadOne ==
    /\ pc = "load" /\ at <= Len(cmd)
    /\ nPlugins' = nPlugins + 1 /\ at' = at + 1
    /\ token' = [token EXCEPT ![cmd[at]] = 0]
    /\ received' = [received EXCEPT ![cmd[at]] = 0]
    /\ Called(at, "init")
    /\ UNCHANGED <<pc, line, started, rc, nWatches, records, bus, published,
                   delivered, sinkSeen>>

\* It fails: what was loaded so far is only closed.
LoadFails ==
    /\ pc = "load" /\ at <= Len(cmd)
    /\ rc' = 1 /\ pc' = "close" /\ at' = 1
    /\ UNCHANGED <<line, nPlugins, started, nWatches, records, bus, counters,
                   token, trail>>

\* All are loaded: the delivery window opens.
OpenWindow ==
    /\ pc = "load" /\ at > Len(cmd)
    /\ accepting' = TRUE /\ pc' = "start" /\ at' = 1
    /\ UNCHANGED <<line, nPlugins, started, rc, nWatches, records, slots,
                   nextToken, counters, token, trail>>

\* host_request_watch, asked n times; a full table is not reported on.
Watched(n) == IF nWatches + n <= MaxWatches THEN nWatches + n ELSE MaxWatches

\* The start of the entry at the index: watches, observer, then the note.
StartOne ==
    /\ pc = "start" /\ at <= nPlugins
    /\ LET l == cmd[at] IN
       /\ Register(l)
       /\ nWatches' = Watched(Watches[l])
       /\ IF l \in EmitsNote THEN Publish(slots', "note")
          ELSE UNCHANGED counters
    /\ started' = [started EXCEPT ![at] = TRUE]
    /\ at' = at + 1 /\ Called(at, "start")
    /\ UNCHANGED <<pc, line, nPlugins, rc, records, accepting>>

\* Its registration is refused, and with it the start: the run is aborted.
StartFails ==
    /\ pc = "start" /\ at <= nPlugins /\ FreeSlots = {}
    /\ nWatches' = Watched(Watches[cmd[at]])
    /\ rc' = 1 /\ pc' = "stop" /\ at' = nPlugins
    /\ Called(at, "startFailed")
    /\ UNCHANGED <<line, nPlugins, started, records, bus, counters, token>>

AllStarted ==
    /\ pc = "start" /\ at > nPlugins
    /\ pc' = "observe"
    /\ UNCHANGED <<line, at, nPlugins, started, rc, nWatches, records, bus,
                   counters, token, trail>>

\* nx86_observe_run, or the sample script, publishes a record; of a process,
\* symbols and call sites are reported for watches only.
Observe ==
    /\ pc = "observe" /\ records < MaxRecords
    /\ \E k \in Kind :
       /\ pidSet /\ k \in {"symbol", "callsite"} => nWatches > 0
       /\ Publish(slots, k)
    /\ records' = records + 1
    /\ UNCHANGED <<pc, line, at, nPlugins, started, rc, nWatches, bus, token,
                   trail>>

\* It returns; only the pass over a process can fail.
ObserveDone ==
    /\ pc = "observe"
    /\ rc' \in (IF pidSet THEN {0, 1} ELSE {0})
    /\ pc' = "stop" /\ at' = nPlugins
    /\ UNCHANGED <<line, nPlugins, started, nWatches, records, bus, counters,
                   token, trail>>

StopOne_Forgets ==
    /\ pc = "stop" /\ at >= 1
    /\ IF started[at] THEN Called(at, "stop") ELSE UNCHANGED trail
    /\ at' = at - 1
    /\ UNCHANGED <<pc, line, nPlugins, started, rc, nWatches, records,
                   bus, counters, token>>

StopOne_EvenUnstarted ==
    /\ pc = "stop" /\ at >= 1
    /\ Called(at, "stop")
    /\ IF token[cmd[at]] # 0
       THEN /\ Unregister(cmd[at])
            /\ token' = [token EXCEPT ![cmd[at]] = 0]
       ELSE UNCHANGED <<slots, token>>
    /\ at' = at - 1
    /\ UNCHANGED <<pc, line, nPlugins, started, rc, nWatches, records,
                   nextToken, accepting, counters>>

\* The stop of a started plugin, last first; others are passed over.
StopOne ==
    /\ pc = "stop" /\ at >= 1
    /\ IF started[at] THEN Called(at, "stop") ELSE UNCHANGED trail
    /\ IF started[at] /\ token[cmd[at]] # 0
       THEN /\ Unregister(cmd[at])
            /\ token' = [token EXCEPT ![cmd[at]] = 0]
       ELSE UNCHANGED <<slots, token>>
    /\ at' = at - 1
    /\ UNCHANGED <<pc, line, nPlugins, started, rc, nWatches, records,
                   nextToken, accepting, counters>>

\* All are stopped: the window closes.
CloseWindow ==
    /\ pc = "stop" /\ at < 1
    /\ accepting' = FALSE /\ pc' = "shutdown" /\ at' = nPlugins
    /\ UNCHANGED <<line, nPlugins, started, rc, nWatches, records, slots,
                   nextToken, counters, token, trail>>

\* The shutdown of every loaded plugin, which clears its state.
ShutdownOne ==
    /\ pc = "shutdown" /\ at >= 1
    /\ token' = [token EXCEPT ![cmd[at]] = 0]
    /\ received' = [received EXCEPT ![cmd[at]] = 0]
    /\ Called(at, "shutdown")
    /\ at' = at - 1
    /\ UNCHANGED <<pc, line, nPlugins, started, rc, nWatches, records, bus,
                   published, delivered, sinkSeen>>

AllShutDown ==
    /\ pc = "shutdown" /\ at < 1
    /\ pc' = "close" /\ at' = 1
    /\ UNCHANGED <<line, nPlugins, started, rc, nWatches, records, bus,
                   counters, token, trail>>

CloseOne ==
    /\ pc = "close" /\ at <= nPlugins
    /\ Called(at, "close") /\ at' = at + 1
    /\ UNCHANGED <<pc, line, nPlugins, started, rc, nWatches, records, bus,
                   counters, token>>

Exit ==
    /\ pc = "close" /\ at > nPlugins
    /\ pc' = "exit"
    /\ UNCHANGED <<line, at, nPlugins, started, rc, nWatches, records, bus,
                   counters, token, trail>>

Next ==
    \/ LoadOne \/ LoadFails \/ OpenWindow
    \/ StartOne \/ StartFails \/ AllStarted
    \/ Observe \/ ObserveDone
    \/ StopOne \/ CloseWindow \/ ShutdownOne \/ AllShutDown
    \/ CloseOne \/ Exit

Spec == Init /\ [][Next]_vars

-----------------------------------------------------------------------------
(* Properties.                                                             *)

TypeOK ==
    /\ pc \in {"load", "start", "observe", "stop", "shutdown", "close", "exit"}
    /\ cmd \in Seq(Lib) /\ Len(cmd) \in 1..MaxPlugins
    /\ at \in 0..(Len(cmd) + 1) /\ nPlugins \in 0..Len(cmd)
    /\ pidSet \in BOOLEAN /\ started \in [Entries -> BOOLEAN] /\ rc \in {0, 1}
    /\ nWatches \in 0..MaxWatches /\ records \in 0..MaxRecords
    /\ slots \in [1..MaxObservers -> Slot] /\ nextToken \in Nat \ {0}
    /\ accepting \in BOOLEAN /\ published \in Nat /\ delivered \in Nat
    /\ sinkSeen \in Nat
    /\ token \in [Lib -> Nat] /\ received \in [Lib -> Nat]
    /\ trail \in [Entries -> Seq({"init", "start", "startFailed", "stop",
                                  "shutdown", "close"})]

\* Observers of library l in the table.
Observers(l) ==
    {i \in 1..MaxObservers : slots[i].token # 0 /\ slots[i].owner = l}

\* The console shows every record that any plugin was given: the sink has
\* seen exactly what was published, whatever plugins came and went.
SinkSeesAll == sinkSeen = published

\* Each entry is treated by the lifecycle table: init, start, stop if and only
\* if start succeeded, shutdown, unload; at the end of a run that loaded all.
WholeLifecycle ==
    pc = "exit" /\ nPlugins = Len(cmd) =>
        \A i \in Entries : trail[i] \in
            { <<"init", "start", "stop", "shutdown", "close">>,
              <<"init", "startFailed", "shutdown", "close">>,
              <<"init", "shutdown", "close">> }

\* Only one entry of the command line names library l.
NamedOnce(l) == \A i, j \in Entries : cmd[i] = l /\ cmd[j] = l => i = j

\* Once the stop loop is done, a library that was named once has no observer
\* left, whatever was named beside it and however far the starts came:
\* "Unregister observers, flush. No events arrive after it returns".
StoppedIsUnregistered ==
    pc \in {"shutdown", "close", "exit"} =>
        \A l \in Lib : NamedOnce(l) => Observers(l) = {}

\* The same of every library.  The token is static in the library, so a second
\* entry that names it overwrites the first one's and the first stays.
AllUnregistered ==
    pc \in {"shutdown", "close", "exit"} => \A l \in Lib : Observers(l) = {}

\* No plugin's library is unloaded before its shutdown, the call in which it
\* releases its state.
ShutdownBeforeUnload ==
    \A i \in Entries : \A n \in 1..Len(trail[i]) :
        trail[i][n] = "close" => n > 1 /\ trail[i][n - 1] = "shutdown"

\* The parts of the inductive invariant behind SinkSeesAll and
\* StoppedIsUnregistered.  Where the loops of main are.
LoopsInRange ==
    /\ pc = "load" => at = nPlugins + 1
    /\ pc \in {"start", "observe", "close"} => at \in 1..(nPlugins + 1)
    /\ pc \in {"stop", "shutdown"} => at \in 0..nPlugins

\* The console has the first slot and the first token, and no plugin has them.
SinkIsFirst ==
    /\ slots[1] = [token |-> 1, mask |-> Kind, owner |-> Sink]
    /\ \A i \in 2..MaxObservers :
         slots[i].token # 0 => slots[i].token # 1 /\ slots[i].owner \in Lib
    /\ nextToken > 1
    /\ \A l \in Lib : token[l] # 1 /\ token[l] < nextToken

\* Of a library named once, an observer in the table is the one the library
\* remembers, and its entry is one that the stop loop has yet to reach.
ObserversHaveEntries ==
    \A l \in Lib : NamedOnce(l) =>
      \A i \in Observers(l) :
         /\ slots[i].token = token[l]
         /\ pc \in {"start", "observe", "stop"}
         /\ \E e \in Entries :
              /\ cmd[e] = l /\ started[e] /\ e <= nPlugins
              /\ pc = "start" => e < at
              /\ pc = "stop" => e <= at

HostInv == LoopsInRange /\ SinkIsFirst /\ ObserversHaveEntries
====
