# A verification project for c2j-native-deobfuscator

The repository recovers Java bytecode from jars whose method bodies were moved
into native code. It does so along three paths (static, dynamic, emulated), with
programs that exchange files: `manifest.json`, `trace.jsonl`,
`recovered/*.json`. This directory holds TLA+ models of what each of these
programs does, step by step, beside a model of what the programs they look at
really are. TLC checks them on small instances; TLAPS proves the theorems of
section 5 for all.

    tlc -workers 2 -config LiveObserve_faults.cfg MCLiveObserve.tla
    tlapm LiveObserve_proofs.tla

Line numbers are those of the commit the models were written against.

## 1. Inventory

| part | state | operations | what is hard |
|---|---|---|---|
| **native-x86 live observer** `native-x86/src/host/observe_linux.c` | two breakpoint tables, the bytes it patched, the ptrace state of the target, one alarm flag | gate, attach, scan, arm, event loop, step over, restore, detach | the target runs, is signalled, starts threads and dies at any time; SIGSTOP and SIGALRM race the breakpoint traps; any request can fail half way |
| **native-x86 plugin host** `main.c`, `event_bus.c`, plugins | plugin table, observer table, delivery counters; static state in each library | load, start, publish, stop, shut down, unload | partial failure of several plugins, full tables, one library named twice |
| **JVMTI agent** `native/src` | per thread: depth, suppression, budget; shared: hook table, caches, the trace file | callbacks for thread start, method entry and exit, exceptions; about a hundred JNI wrappers; startup and live attach | threads, natives nested in upcalls, events enabled one by one on a live VM, the agent calling through its own hooks |
| **trace to bytecode** `jvm/trace-to-bytecode` | per thread a stack of open invocations | group, collapse repeats, pick, translate, balance the stack | a trace cut off anywhere, threads mixed in one file |
| **CLI: attach** `main.py`, `attach_support.py` | what it has read of the target | read `/proc`, refuse, find the agent, jcmd or VM attach, classify | the pid may change hands between a look and the act; tools that fail with status 0 |
| **CLI: recover and its parts, doctor** `main.py`, `doctor.py` | the files of a working directory | a command is a sequence of stages that read and write files | stale files, a stage that fails, a command that is killed, a host that changes |
| **binary introspection** `jni_tables.py`, `core.py` | the tables found so far | find the calls of `RegisterNatives`, look back for their tables, report | the extent of a table; what earlier calls left in the window |
| **native emulation** `j2c_emu.py` | handle tables of a fake `JNIEnv`, one bump pointer | JNI functions, three ways to find the methods, the decryption oracle | stale handles, mixed routes, tables that are cut |
| **manifest merge** `core.py` | bindings and gaps | exports, named tables, elimination by count | ambiguity must become a gap, never a silent guess |
| **AST lifter** `lifter/driver.py` | what is believed of each C variable | one statement of decompiled C to bytecode | beliefs that outlive an assignment, hints used in the wrong order |
| **class rebuilder** | none | choose a body, emit | which of several bodies wins |
| desktop viewer: trace tail, attach, session browser | file offset; run state | poll; run; show | presentation around a file and the attach tools |
| AST pattern matcher, snippet importer, jar parser, Ghidra scripts, privileged observer, setup scripts | none | conversions of text or files | pure functions, or another tool's API |

How they interact. The agent runs in the target JVM and appends to
`trace.jsonl`; `trace-to-bytecode` reads the file afterwards. The command line
starts the agent with the program, or by live attach. The native-x86 host
observes any process from outside, with ptrace, and calls its plugins back over
the event bus. Binary introspection and the emulator both report what a library
registers; the merge joins that with the native methods of the jar, and every
later stage of `recover` reads the manifest it writes. Bodies recovered from the
trace, from decompiled C, or made up as stubs meet in `recovered/`, by file
name; the class rebuilder takes what it finds there.

What makes each part correct. *Observer*: whatever happens to the target, the host
knows every byte it patched and puts it back, never reports success with something
left behind, and ends. *Host*: every plugin goes through its lifecycle and nothing
stays registered. *Agent and grouping*: a recovered body holds the calls of its
method, in order; of what a loop repeats it keeps one round, and when other calls
are missing it says so. *Attach*: an honest outcome, and no agent where it must not
be. *Introspection, emulation, merge*: an address that is told is the method's own;
what could not be told is a gap. *Lifter*: an instruction names the member and loads
the value the C program uses there. *Recover*: what is rebuilt comes from this jar,
this library and this run. `PROJECT.json` lists the hazards at the lines where they
bite.

## 2. Modules

| module | models |
|---|---|
| `LiveObserve` | `run_live` and the target it observes |
| `PluginHost` | `main.c` around an observation, the event bus, the plugins' lifecycle |
| `JniAgent` | the agent's callbacks and wrappers, over a JVM as environment |
| `TraceGroups` | `groupByMethodInvocation` and `collapseRepeats`, as operators over a sequence of lines |
| `Recovery` | composes `JniAgent` and `TraceGroups`: the groups of the trace written so far |
| `RecoveredCalls` | abstract: what the groups promise; `Recovery` implements it |
| `Attach` | `j2c attach` against a pid that may change hands |
| `JniTables` | the harvest of `RegisterNatives` calls, over the code a compiler may have made of them |
| `ManifestMerge` | the merge of the jar with a registry of tables |
| `StaticPath` | composes them: library, harvest, report, emulator's additions, merge |
| `Emulation` | the mock `JNIEnv` and the three routes of the emulator, under any guest |
| `Lifter` | the lifting of a body, beside the C program it stands for |
| `Doctor` | what is found on a host, as operators |
| `Pipeline` | the commands over one working directory: merge, static, emulate, dynamic, rebuild, stubs, recover |
| `*_proofs` | theorems about `LiveObserve`, `PluginHost`, `Attach`, `StaticPath` with `JniTables` and `ManifestMerge`, `Recovery`, `Emulation`, `Lifter`, `Pipeline` |
| `MC*` | the small sets the runs use |

A mutated copy of a definition (`Full_OffByOne` beside `Full`) is never used by
a specification. It is there so that a run can be repeated with it and be seen
to fail: each checked property is broken by at least one of them.

Every module has a `TypeOK`, which documents its state. Those of `LiveObserve`,
`PluginHost` and the merge (`MergeTypeOK`) are proved; the others were checked
while the modules were written and take no place among the properties of the
runs, which are kept for what could go wrong.

### LiveObserve

The host moves from one blocking point to the next: nothing but a SIGKILL
touches a ptrace-stopped process in between, and `OpFails` lets any request in
between fail. So `pc` names the blocking point (`gate`, `attach`, `attachWait`,
`scan`, `arm`, `start`, `wait`, `trap`, `step`, `stopWait`, `cleanup`,
`sigcont`, `done`, `exit`) and an action is the code from there to the next
one: `TrapEntry` is the branch of the event loop for a hit entry up to the
`PTRACE_SINGLESTEP`, `StepEntry` what follows the step, up to `PTRACE_CONT`.
`bps` and `rbs` are the two tables, `ReturnBps` and `EntryBps` the linear
searches, `Planned` and `PlannedByte` what `plan_restores` computes. The target
is the environment: it calls and returns, executes whatever byte is at its RIP,
is signalled, starts a thread, dies. A byte of code is "orig" or "int3"; only
addresses where a breakpoint may be are kept, two exports and two return sites
in the largest instance. One return site is the entry of an export, so that an
entry and a return breakpoint meet at one address.

Left out: the parsing of ELF tables and of `/proc/<pid>/maps` (the scan leaves
any table of at most `MaxBps` entries, duplicates included) and the read-only
pass, which shares no state.

### PluginHost

One action per call into a plugin, callbacks included, since the host is single
threaded. `cmd` is the command line; `slots`, `nextToken`, `accepting` are the bus;
`token` is the static state of each *library*, which two entries naming one library
share; hence `StoppedIsUnregistered` is said of each library that the command line
names once, whatever else it names twice. `Publish` delivers a record to every
matching observer and counts it. The plugins are those of the repository: their
masks, their watches, whether they emit a note when started.

### JniAgent, TraceGroups, Recovery, RecoveredCalls

`stack[t]` is the JVM's: frames of natives of the program ("user") and of the
class libraries ("jdk"), and "upcall" where native code called back into Java.
`depth`, `suppress`, `count`, `truncated` are the four thread-local variables
of `jni_hook.cpp:50-53`. `EnterUser`, `EnterJdk`, `ExitUser`, `ExitJdk` are the
branches of `on_method_entry` and `on_method_exit`. The wrappers are modelled by
the way they report: `Plain` through `emit`, `LookupOutside` through
`emit_outside_frame`, `Reference` through `emit_propagate`, which checks
neither the suppression nor the budget; `CallUp` and `ReturnUp` are the two ends
of a `Call*Method` wrapper, which reports when the call has returned.
`Exception` is the callback including the `GetObjectClass` it calls through the
thread's own, hooked, table. `attached` and `logAll` are how the agent was
started, chosen at the beginning and never changed; `InitStep` enables the
events of a live attach one by one. A line keeps its event and thread; who made
a call, and its number, are history that only the properties look at. An
invocation is its own method: the model does not say which of several
invocations is picked.

`TraceGroups` is a fold over the lines, one operator per branch of the `when`.
A finished group is collapsed (`CollapseRepeats`, from `PopFrame`): a pattern of
calls that is repeated at once is kept one time, without a marker. Which calls are
alike is a constant, `Sig`, since the code compares name, descriptor and literal
arguments and neither handles nor numbers. The code looks through groups of at
least four calls for patterns of up to 32 (`CollapseFrom`, `MaxPattern`). Its loop
is stated as a set of positions that are kept, without recursion, so that it can be
proved about; `CollapseIsTheLoop` in `MCRecovery` compares that with the loop as it
is written, on every sequence of up to six calls of two shapes.
`Recovery` groups the trace after every step, so that its properties hold for
every prefix a killed target may leave. `RecoveredCalls` knows only threads and
the invocations open on them. A group collects the calls of its own invocation,
each once and in order, and when it ends it may keep fewer, but only where a run of
calls has the shapes of the run right before it (`OnlyRepeatsGo`). That `Recovery`
implements it under the mapping of `Recovery.tla` is the property `CallsAreOwn`;
`DropsAreMarked` adds that a call which is not kept has one of its shape in the
group, or the agent's marker stands in the trace.

Left out: the string and descriptor caches, the bind events, record arguments,
a second attach to one VM (`std::ofstream::open` on an open stream fails, and
the lines written after it are lost), and how a call becomes instructions.

### Attach

One action per look at the target and per decision: `ReadExists`, `ReadStat`,
`ReadComm` and `ReadCmdline` are four reads of `/proc` at four moments.
`world` is every process the pid has named so far, the last one alive while
`up`; `ProcExit` and `PidReused` may come between any two steps. `looked` is
history: which process the owner and the command line were read from. `Refusals`,
`FlagRefusal`, `LoadError` and `Classify` are the pure functions of
`attach_support.py`. The attach tools are external: `Replies` is what they print
for a process and an agent, in the phrases the classifier looks for. They run at
most once (`Load`); `ReplyLost` is a target that dies under them.

One assumption about the JDK is a constant: `SilentZero = FALSE` says that jcmd
prints a return code whenever it exits 0. `jcmd_load_error`
(`attach_support.py:268-283`) takes an exit of 0 without one for success; with
`SilentZero = TRUE` the property `AttachedMeansLoaded` fails.

Seen while modelling: a `'` in the output path ends the command with an uncaught
`ValueError`, also under `auto`, which falls back only from a missing tool; a
relative output path is resolved in the directory of the target.

### JniTables, ManifestMerge, StaticPath

`JniTables` starts from a `layout`: which class is registered in which form (a table
in the image, moved into a register earlier, built on the stack, encrypted), whether
the count comes before or after it or not at all, what call is used, what noise
surrounds it, and how far it is from the one before. `RegistrationOf` gives the
instructions, with as much detail as the scan tells apart. A window is cut out of
the bytes before a call (`jni_tables.py:391-400`) and may begin in the middle of an
instruction; `skew` says for each place how many instructions a disassembly that
begins there misses. What it decodes until it is in step again is taken to have no
effect, and where `capstone` stops at once the window holds nothing, and a table in
it is lost without a word. The harvest is the code's: `Scan` finds the calls,
`HarvestSite` looks through the window before one of them for tables, functions and
counts (a `Walk` of `HarvestStep`, or of `BranchStep` for the dispatcher), and
`strategy` decides between the per-class harvest, the one for a shared dispatcher,
and `auto`. Of the detection of a profile, whose scores depend on more than is
modelled, any strategy may come out.

`ManifestMerge` walks the registry pass by pass, one action per entry and pass:
exports, tables with names, tables bound by the number of their methods, gaps
for the rest. `truth` is what the Java VM would run; the merge never sees it.

`StaticPath` puts the harvest before the merge, and between them the report and
`add_emulated_registry`, which matches what the emulator captured with the
tables found. `Exact` is the premise of what is said of the manifest: every
table that was found is the table of the class that registers it.

Where the code is exact, and where it is not, is the content of the properties:
`PlainIsExact` names the registrations for which the harvest is right (within the
window, an own constant count, natives stored last, nothing readable of an earlier
call near, no class registered twice). Outside of them: a readable table of an
earlier call, still in the window, is taken for the table of a later one
(`jni_tables.py:450`); a count set before the table shifts every table of a
dispatcher by one; a class outside the jar takes part in no elimination, so another
may be given its functions; `capstone` without `skipdata` stops at the first data in
`.text` (a gap of `"data"`). An ELF library is emulated at `0x10000000`
(`j2c_emu.py:183`) and its report is not, so `add_emulated_registry` matches nothing
there and adds tables with addresses that are none of the file's; tables captured
without a readable class name become one entry (`core.py:511-521`, `547-557`); and
of two tables with the same addresses only the first gets the names.
`EmulationNeverHarms` denies all of that and is violated, while
`EmulationKeepsExact` says where a true report stays true: the library is not
rebased, its methods can be read, no two natives share a function and no two tables
their addresses, and the classes of the captured tables can be read or only one of
these tables is new (`OneByOne`). A table with names and no class, whose methods two
classes declare, is dropped without a `bindingGap` (`core.py:147-150`).
`docs/ARCHITECTURE.md:171` says that an ambiguity becomes one and is never silent:
that is `AmbiguousIsTold`, violated, and `Accounted` is what remains. An emulated
method without a readable name ends the merge with a `KeyError` (`core.py:89`).

### Emulation

The guest is the environment: any JNI call may follow any other, with any handle
it holds. One action is one function of the mock; `Enter` and `Leave` are the two
ends of a run, which returns, faults or runs into the instruction count, and
`Discover`, `OnLoadDone`, `RegistrarsDone`, `Call` and `CallDone` are the
commands around it. `route` is which of the three ways
(`JNI_OnLoad`, registrars, `Java_*` exports) gave the methods. The region of
handles is small enough to be run full.

Beside the mock runs a Java VM (`java`): `of` is the object a handle stands for,
`heap` the elements of each object, `held` the object in each static field. It takes
over none of the mock's shortcuts, and the two differ: an empty array is one zero;
elements wider than a byte keep some of their bytes (of ints, the first bytes of all
of them, `j2c_emu.py:509`); a static field holds a copy of the array it was given
(`j2c_emu.py:448`), under its name alone; a string that `_cstr` cannot read has no
name. `apart` and `late` are the handles and fields of which the mock may therefore
be wrong, and `ArraysHoldWrites` says that it is right of all others. `running` and
`came` keep which entry point yielded methods, against which `RouteTold` holds the
route that is reported. An answer is stripped of the zeros at its end
(`j2c_emu.py:695`), so an array that ends with zeros is told shorter than it is.

Seen while modelling: registrars given with `--binary-json` are run at
addresses that are not mapped where the library was rebased; the guest's stack
pointer is not put back after a fault, so many faulting registrars run out of it
(`pc = "crash"`).

### Lifter

An action is one statement of the body (`FindClass`, `GetID`, `NewRef`,
`GetField`, `Call`, `Copy`, `Return` ...), a condition has one action for each
thing `_emit_if` does with it (`SkipGuard`, `SkipTested`, `SkipCacheInit`,
`IfGoto`, `IfBoth`), and `Clean` and `Close` are the passes over the finished
code. `syms`, `slots` and `checkVars` are its
three tables of beliefs. Beside it runs the C program in the order of its text:
`holds[v]` numbers the value that `v` holds, `saved` the value in each local
variable, `means` tells what member a class or an ID stands for, and every
instruction emitted carries what the C program uses at that
place (`held`, `want`). All options of the profile for native-obfuscator are on.
A body is its text in order: an `if` carries the lengths of its two parts, which
follow it and may hold other ifs, to any depth (`Nested`). A member stands for a
name with its descriptor. An ID of which the lifter knows only the class gives
`<init>()V` (`driver.py:479-481`, the constant `Constructor`).

The properties are said of variables that are assigned once and of error texts that
fit, since the lifter believes of a variable whatever the last pattern said: a
result of `Call*Method` assigned to a variable that was saved before leaves the old
local variable in `slots`; a variable that once held the answer of `ExceptionCheck`
is one for ever, so that a test of what it holds later is dropped with what it
guards (`GuardsAreChecks`, stated in `Lifter`, is violated); texts are used in
order, so one call that resolves without its text shifts the rest; the owner of a
field is always the class of the last method's text. Also seen, and outside the
properties: `CallVoidMethodV/A`, `CallStatic*V/A` and nonvirtual calls of primitive
type are not in `INVOKE_OP` and are dropped; an `if` with a `goto` loses the rest of
its branches; both branches of any other `if` are lifted one after the other; `IF*`
is emitted with nothing pushed; a `return 0` inside a body is suppressed; a method
that the manifest does not list is lifted as an instance method.

### Doctor, Pipeline

`host` is what is installed, and may change once between two stages. The Python
packages are part of it (`imports`), each imported by the stage that needs it:
`main.py:410` takes `ast_matcher` and with it `tree_sitter`, `main.py:377`
`manifest_merge`, while doctor and preflight try `binary_introspect` at most
(`doctor.py:204-242`). A command
is the sequence `todo` of stages; the files are variables, each with the number
`n` of the command that wrote it, and `"torn"` where a writer was killed in the
middle (`Interrupted`). A stage reads the files as the code does, with its fallbacks,
and ends the command as its tool does: with an error, or with an exception that
is swallowed or not. The class rebuilder ends well in three ways, class by class
(its `Main.kt:330-372`): it writes the class whole; it writes it unverified; or, where
ASM cannot write it, it writes default returns in place of all its recovered bodies
("restubbed"). Recovered bodies are kept by file *stem*, and tools make
different stems of one key: `trace-to-bytecode` keeps `$` (`LiveStem`),
`synth-stubs` and `ast-matcher` do not (`FlatStem`), so the model has a key whose
files differ, and one whose file another key also gets. Where the files differ a
stub and a traced body of one method lie side by side, and the rebuild takes the one
that the file system lists last.

Seen while modelling: the preflight looks at the JVM modules and the agent only
(the doc string promises Java and the Python packages), so a recover can fail in
the middle; `doctor` calls a host healthy that has `JAVA_HOME` and no `java` on
the path, where `dynamic-trace` ends with `FileNotFoundError`; `run()` takes the
exit status of the *traced program* for its own; a jar without a library leaves
an empty `binary.json` and gives the merge no registry; `recovered/` is never
emptied, so bodies of another jar with the same method names are used; two
methods whose names become one stem overwrite each other; the class rebuilder
opens its output before it reads anything.

## 3. Runs

| run | asks | shows |
|---|---|---|
| `live_faults` | two entries and two sites, one failing request, one signal, a trap of the target's own, no time budget | the patch bookkeeping and the reports are right; a success is rewound and never harmed the target |
| `live_budget` | time budget, call cap, one entry record and one return record only, a second thread | a success is clean and leaves no SIGSTOP behind also when the budget ends the run and the tables are full; it is rewound unless the budget ran out |
| `live_ends` | fairness, one failing request, one signal | a dead target ends the run; a stopped target is always let go |
| `host` | any command line of up to three plugins, also with one named again, a failure at any entry, too few observer slots | lifecycles are whole; a plugin that was named once and stopped has no observer |
| `recovery` | two threads from the start, or one at a live attach; natives within natives, a budget of two, repeated calls that are collapsed, with and without log-all, exceptions | each call is in its own group; one that is missing repeats one that is kept, or is marked |
| `attach` | nine processes, the pid used again, a machine and command line that differ from the usual in up to two respects | the outcome is honest, and refusals hold also when the pid changes hands |
| `emulation` | any three JNI calls while methods are looked for in three ways, any four before the oracle answers | the methods are those of the route that is told, cut at the cap and nowhere else; what the mock holds is what a VM would hold, but in four named cases; the answer is the returned array or the newest |
| `static` | two or three registrations, each in every form with a few departures from the usual, windows that lose some or all of what they hold, three strategies | for which libraries the harvest is exact; under `Exact`, no wrong address; the rest is a gap |
| `lifter` | 39 parts, eleven of them ifs, some in each other; all bodies of up to three parts, some of four | loads, members and jumps are right within the limits of section 2 |
| `pipeline` | three commands out of 14 in one directory, two jars, six hosts, one change of the host, one kill | recover goes by this run's files; where its file name is its own, a body is not hidden by a stub and is in the jar, but for classes that cannot be written; a healthy host lacks nothing that doctor looks at |
| `static_v_unreadable` | what `docs/generic-recovery.md:208` says of tables that cannot be read | violated: a readable table of an earlier call is taken instead |
| `pipeline_v_dynamic` | what `docs/static-reverse-approach.md:313` says of methods with two bodies | violated: the lifted body replaces the traced one |

The three `live` runs and the two of `static` and `pipeline` share a module and
differ in their constants or their property.

Bounds, and why they are enough. *Observer*: two exports with two calls of depth two
is the least in which a call is nested in another, a return site is shared or is an
entry, and a record is used a second time; one fault reaches every error path, and
two would only repeat it during the cleanup, which already tolerates failure;
`MaxBps = 1` and `MaxReturns = 1` put the tables at their limits. *Host*: three
plugins and three slots (one the console's) make the table overflow at the last, and
are the least in which a library is named twice beside another. *Agent*: five stack
entries are the least that hold user, upcall, jdk, upcall, user: a native of the
program below a class library's, where suppression and ownership meet; a budget of
two with two calls each makes the budget run out in an outer, an inner and a later
invocation, and leaves groups of two, which are collapsed (`CollapseFrom = 2`,
`MaxPattern = 3`); one thread suffices at an attach, since threads share only the
file, and the startup interleaves two. *Attach*: two processes behind one pid; the
command reads and acts once, so a third adds nothing that a second does not.
*Emulation*: two classes, two methods, three fields of which two share a name,
arrays of two elements, one of which fits no byte; a table of two rows is one over
the cap, a stack with room for two runs meets three entry points. `Uses` and
`MaxCalls` keep apart what does not meet: while methods are looked for the guest
makes three calls on names, tables and blocks, and before the oracle answers four on
arrays, strings and fields, the least in which an array is made, stored, written and
read back. *Static*: three registrations are the least in which one lies between two
others; the windows (6 and 12 instructions for 0x600 and 0x4000 bytes) are chosen so
that a call sees some of the earlier ones and not all, and lose nothing, an
instruction, every second time two, or all. *Lifter*: three statements define,
disturb and use a variable; the longer ones add the class and the ID a call needs;
two ifs, one in the other, have a jump or a label in each of their parts.
*Pipeline*: three commands are one that leaves something, one that is killed and one
that meets both.

Fairness is assumed in `live_ends` only (`FairSpec`): the host process is
scheduled, an armed alarm fires, a running processor executes what is at its RIP
and takes pending signals. Nothing obliges the target to call, to exit or to be
signalled, and nothing has to fail. The other programs are sequential: their
runs end because each step shortens what is left, and no property of theirs is
about time. Deadlock is not checked: every one of these programs may stop.

## 4. What the code does and a document denies

Two runs are kept as counterexamples (`*_v_*` above). More statements of the
documents are refuted by the models; their operators stay in the modules, so
that each can be put into a configuration in place of the properties there:

* `BudgetEnds` (`LiveObserve_live.cfg`): the documented time limit. SIGALRM may
  arrive between the test of its flag and the next `waitpid`, which then blocks
  as long as the target stays silent.
* `FailureStillReleases` (`LiveObserve_budget.cfg`): a failure still restores
  and detaches. SIGALRM interrupts the wait inside a single step; the step
  reports failure, the target is still running, and every request of the cleanup
  fails with ESRCH, which it takes for "gone". The INT3s stay.
* `OkAlwaysRewound` (`LiveObserve_budget.cfg`; without a budget it holds): the
  budget's SIGSTOP races a breakpoint. The trap that arrives first is taken for
  the stop, its rewind never happens, and the run ends as a success with RIP one
  byte past the restored INT3.
* `SignalsForwarded`: a benign signal that arrives before the SIGSTOP of the
  attach is dropped. `OkLeavesNoStop` fails too once such a signal is in flight:
  SIGSTOP is overtaken and stops the target after the detach.
* `AllUnregistered` (`PluginHost.cfg`): the second
  entry for one library overwrites the token of the first, whose observer is
  never unregistered. `ShutdownBeforeUnload`: `main.c:551-556` unloads the
  earlier plugins without their shutdown when a later one does not load.
* `JdkStaysOut`, `AgentStaysOut` (`Recovery.cfg`): `emit_propagate` ignores the
  suppression depth, so a class library's `NewGlobalRef` appears in the program's
  body; the exception callbacks call `GetObjectClass` through the hooked table,
  so the agent records itself.
* `AmbiguousIsTold` (`StaticPath.cfg`): a table with names that two classes declare
  gets no class and no gap (`core.py:147-150`); `docs/ARCHITECTURE.md:171` says that an
  ambiguity becomes a `bindingGap` and is never silent.
* `EmulationNeverHarms` (`StaticPath.cfg`, as a property): what the emulator adds
  may make a true report untrue, in the ways section 2 lists.
* `ArraysAreTheVMs`, `AllRowsCaptured` (`Emulation.cfg`): the mock is not a Java VM in
  the cases section 2 lists, and a table of more than 64 methods is cut without a word
  (`j2c_emu.py:480`).
* `GuardsAreChecks` (`Lifter.cfg`): a variable that has been given another value
  since is still taken for the answer of `ExceptionCheck` (`driver.py:758`).
* `BodiesShip` (`Pipeline.cfg`): the class rebuilder writes default returns for all
  recovered bodies of a class that ASM cannot write, and recover ends well
  (`Main.kt:365-372`); `docs/ARCHITECTURE.md` (lines 168-170) says "falls back to a stub
  for that method only".
* `HealthyHasAll` (`Pipeline.cfg`): doctor tries one of the Python packages that the
  stages import; `docs/decisions.md:54` says that it must never misreport availability.

In an attached VM, `EachEndsOnce` and `CountersMatchStack` are restricted to
threads started since the attach, and need to be: an invocation that ends after
METHOD_ENTRY and before METHOD_EXIT is enabled leaves its group open, and the
exit of its caller, which names another method, closes it.

## 5. Proofs

Each theorem is proved from the named assumption of its module alone, which says
that the constants have their types, unless a premise is stated with it.

**`LiveObserve_proofs`** (`LiveAssumption`): `TypeCorrect`,
`CleanupKnowsEveryPatch` (`PatchedIsPlanned`), `SuccessIsClean`
(`OkMeansClean`), all from `Invariance`: `Spec => []IndInv`. `PatchedIsPlanned` is
not inductive: that the byte a restore writes is the original one depends on
what each record saved. `IndInv` adds `SavedIsOriginal` (the first record in use
at an address saved the original byte; an active return is never at an entry's
address), `PatchedIsRecorded` (an INT3 has a record in use), `SteppedIsInUse` (a
step is over a record in use), `Untouched` (nothing is patched before arming),
and for `OkMeansClean` `HeldStill` (a target the host takes for gone in a
successful run is gone) and `CleanOnceReleased`. The proof goes action by action;
the lemmas about the tables (`FirstIsLeast`, `Lookup`) say what the linear
searches return, and the actions that leave the tables alone share a frame
lemma. The theorems hold for every number of addresses, records, faults and
signals, and for either outcome of every request.

The five properties about the reports and about what a success means rest on
`IndInv` and one more invariant each. `EntriesAreReported`
(`EveryCallReportedOnce`): between the ENTER of a trap and the end of its single
step the counts differ by one, and only there (`ReportInv`). `ReturnsAreCalls`
(`ReturnsMatchEnters`): a RETURN uses up a record that was placed after an ENTER
of that function, and a record is used up once (`ReturnInv`, by counting the records
of each function). `SuccessIsRewound` (`OkMeansRewound`), with a budget and
without: a RIP past an INT3 is seen only by the host that waits for it
(`RewindInv`), in every run that ends before its alarm fires; of the others it is
false (section 4). `SuccessNeverHarms`
(`OkNeverHarms`), with the premises `~HasBudget` and `~MayThread`: a thread the host
does not trace dies of the first INT3 it meets, and the run may still end well.
`SuccessLeavesNoStop` (`OkLeavesNoStop`), with the premises `MaxSignals = 0` and
`~OwnTraps`, with a budget and with threads: `StopInv` says in which stages a
SIGSTOP of the host may be pending; a signal or a trap of the target's own that
overtakes it makes it stay (section 4).

**`PluginHost_proofs`** (`HostAssumption`): `TypeCorrect`, `ConsoleSeesAll` and
`StopsUnregister` (`StoppedIsUnregistered`). The invariant `HostInv` has three
parts. `LoopsInRange` places the index of each loop of `main`: without it an entry
might be taken from beyond the command line. `SinkIsFirst` says that the console
keeps the first slot and the first token; `ConsoleSeesAll` needs it because the
count of a delivery is the number of slots the console owns. `ObserversHaveEntries`
says, of each library that is named once, which entry its observer belongs to and
that the stop loop has yet to reach it; of one that is named twice it is false, as
the token an observer has and the one its library remembers then differ. Beside such
a library the others keep theirs, for tokens are handed out in order and none is
that of another. One lemma per action (`Registered`, `Unregistered`, `Cleared`) says
what it does to each slot and each token. `EntriesLiveByTheTable` (`WholeLifecycle`)
holds on every command line, also where a library is named twice: `LifeInv` makes
the history of an entry a function of where `main`'s loops are and of whether it was
started, as long as no load has failed.

**`Attach_proofs`** (`AttachAssumption`): all five properties of the run, for
every set of processes and machines and however often the pid is used again:
`RefusalIsClean`, `SuccessIsTrue` (premise `~SilentZero`), `OwnUserOnly`,
`FlagsAreObeyed`, `BlameIsJust`, and `AskedOnce`. The command knows of the target
only what it has read, so the invariant `Inv` ties three things together: what
was read is true of the process it was read from (`Read`), it passed the tests
before anything was asked (`Tested`), and the reply tells whether the agent runs
behind the pid (`Told`). `AnswersBlame` carries the argument of `BlameIsJust`: in
whichever way a tool refuses, the classifier blames what made it refuse.

**`StaticPath_proofs`** (`MergeAssumption`, `TablesAssumption`, `WorldsAssumption`):
`PlainExact` (`PlainIsExact`) and `DispatchExact` (`DispatchIsExact`), for every set of
worlds: any number of classes, methods and registrations, any window. `StaticInv`
says little: the calls still to look at are those of the last registrations and the
tables found are those of the first (`Left`), or the one shared call is still to be
looked at or gave everything (`Shared`). The work is in what one step computes. The
code is the parts of the registrations laid one after the other (`CodeIs`), the image
the tables of those that have one (`ImageIs`); a walk is a function from positions to
what is held there (`Scans`, `Looks`, `Branching`). `ScanBlock` says that a registration
adds one site, its call. The look back begins somewhere in an earlier registration and
picks up what lies there: `InWindow` says which registrations that can be (those with
no far gap between), `BeforeFilling` what can be held of them when the table of the
class begins to be filled, `TableHeld` and `StackHeld` what the filling makes of it, and
`AfterFilling` that the instructions up to the call change the count only. A
table that can be read is then the first that is tried (`ReadTables`), an encrypted one
leaves nothing that can be read (`LockedTables`), and natives on the stack are the
last `n` of what was stored, without repetitions (`StackTables`, `LastOfDistinct`). In a
dispatcher each class adds its rows to what is done (`BranchBlock`). Assumed of a world
(`WorldsAssumption`): a class that is registered has methods, and the function that is
stored as noise is none of them; the exports are finitely many, of classes and methods
there are; what the emulator captures are registrations of the library, and an address
it has moved is still that of a function. A window that misses its first instructions
is that of a later beginning, so the lemmas about windows are said of any beginning,
and `Plain` asks that what is left of the window still holds the registration.

`MergeTypes`, and `NoWrongAddress`:
`MergeSpec => []BoundIsTrue`, for every jar, every registry and every order of
its entries. A class is chosen by elimination, so the proof has to say why a
class is used when a table is looked at: `TruthInv` holds that the index is true,
that a class is used because a table with names was bound to it or because no
other unused class had as many methods (`UsedFor`), and that by the end of their
pass tables with names are bound or ambiguous (`Settled`). The premise `Exact` of
`BoundIsTrue` is about the registry.
`TablesAreAccounted` (`Accounted`) says what gets lost between the passes: tables with
names and no class whose very methods several classes declare, and no others. A
table may be matched long before the merge ends, so `AccountInv` has to keep what was
said of it: a class once used stays complete, for no pass takes an address away, a
gap stays a gap, and a table without names waits unbound for the pass over the counts.

`PathIsTyped` (`TypeOK`), `PathIsTrue` (`BoundIsTrue`) and `PathIsAccounted`
(`Accounted`) say the same of `Spec`, where the registry is what the harvest, the report
and the emulator make of a library, for every set of worlds and under every strategy.
They need that what the merge is given is a registry, whatever the library does: a load
may be of any function or table (`Loaded`), a count, a gap or a piece of data may stand
anywhere, a walk may stop before its end (`StopsThere`), and still a site is an
instruction (`SitesTyped`), a table has functions and as many names or none
(`TablesTyped`), and so have the report and what `Grouped` makes of it for one class of
the emulator's rows after the other (`ReportListed`, `EmulatedListed`). `PathInv` adds
that until then nothing is bound (`Untouched`).

`PathEndsTrue` joins the two halves and drops the premise `Exact`. In a library for
which the harvest is exact (`Covered`: that of `PlainIsExact` per class, or of
`DispatchIsExact`), whose exports are `Honest` (overloads that share a short symbol
share its function) and of which the emulator saw nothing, no method of the jar ever
gets an address that is not its own, and when the merge is over the table of every
registration is in the report and is bound, told of in a gap, or one whose methods
several classes declare. `EndInv` holds the registry to the exports and the tables
of the registrations (`Telling`), and `TellingIsExact` makes `Exact` of it: two
entries with the rows of one class are of registrations that share functions, hence
the same one or both without names.

**`Recovery_proofs`** (`AgentAssumption`): `CountersAreTrue`
(`CountersMatchStack`), for any number of threads, any nesting and both ways of
starting. It is not inductive: the agent decides by its counters whether a frame
counts, where the property counts the frames of the stack, and an exit takes back
what the entry added only if the entry was seen. `AgentInv` adds that only a thread
that started when all events were enabled is followed (`Started`), so that each of
its invocations was seen to begin, that an upcall has a native below it, and that a
thread that is not running left no frame and no count (`Sound`). The lemmas
`Push`, `Pop` and `Alike` say how one frame changes the two sets that are counted.

`BudgetIsKept` (`BudgetHolds`) is about two places of the trace that may be far
apart. `BudgetInv` says where in the trace the outermost invocation of each stack
began, that what the thread has written since is what its counters say, that no
invocation has two enters or two exits, and, of each that ended, the bounds between
its two lines; a line appended later is after both.

`CallsAreRecovered` (`CallsAreOwn`) is the refinement: the agent and
`trace-to-bytecode` together implement `RecoveredCalls`, step by step. The agent
decides by its counters where a line goes, the reader by the order of the lines;
what relates them is the thread's stack. `Paired` says that the invocations on the
stack have their groups among the open groups of the thread, in the same order, and
`Exact` that such a group has as many numbered calls as the invocation has made,
unless the budget ran out or a class library's native lies below. Under the groups
of a stack may lie those of an earlier thread with the same number, whose exits were
never seen. This holds once all events are enabled, for the threads
started since (`Tracked`); before that no group is open at all. What the collapsing
of a finished group takes away is shown to be a repetition from the definition of the
scan: each position it stops at keeps its pattern and skips whole rounds of it
(`StopsCover`, `RepeatsGo`). So every call has one of its shape that is kept
(`ShapesStay`): a first one without would have the shape of an earlier one. From the same
invariant, with `EndsInv` for the invocations that have ended, follow `GroupsAreOwn`
(`EachEndsOnce`) and `DropsAreTold` (`DropsAreMarked`).

**`Emulation_proofs`** (`EmulationAssumption`): `BlocksStayDisjoint`,
`WritesAreKept`, `RouteIsTold`, for any number of calls, any sizes and any array
lengths. `SpaceInv` adds to `BlocksDisjoint` that every region ends below the bump
pointer; `OneMore` says that one more region at or above it keeps both.
`ContentInv` adds to `ArraysHoldWrites` the types, without which a write need not
leave a sequence, that every handle and field stands for an object there is
(`ObjectsInv`), and that a static field outside `late` holds what its object holds
(`AgreeInv`); `WrittenIs` computes what `_region_set` leaves in an array. `RouteInv`
says of each stage of `discover` which entry points have yielded methods. `OracleAnswers`
(`AnswerIsNewest`) adds what stripping the zeros makes of an empty array, which is one
zero to the mock; `fill_order.remove` takes out the first of its kind only, so the
list has to be free of repetitions before an array is put at its end (`AnswerInv`).
`TablesAreCaptured` (`CapturedInOrder`) needs that the name behind a class handle is
still the one it was looked up by (`NameInv`): handles are never taken back, and no
write reaches the entry of a class.

**`Pipeline_proofs`** (`PipelineAssumption`): `ManifestIsOwn` (`OwnManifest`),
`BodiesAreKept` (`KeepsReal`) and `HealthyMeansRuns` (`HealthyRuns`), for any number
of commands, interruptions and changes of the host, any jars and any way file names
collide. `OwnManifest` looks at one stage; `StageInv` says for every place of
`recover` what the stages before it have prepared, over the order of the stages
(`StagesOfRecover`, whatever the options). `HealthyRuns` compares what each stage needs
with what doctor looks at (`NeedsNames`). `KeepsReal` is inductive with the types
(`BodyInv`): a stub is written only where no file is (`KeptIsThere`), and a method
whose file name is its own is not written over by another (`OwnFile`).
`RecoverIsFresh` (`FreshWins`) follows a body from the stage that recovers it to the
jar: `FreshUp` says of each stage whether the bodies of this run are already on disk,
and the stages after it write stubs only where there is no body; the rebuild then takes
it, but for the classes it writes "restubbed".

**`Lifter_proofs`** (`LifterAssumption`, `BodiesAssumption`), for every set of
functions, with ifs in ifs to any depth. `LoadsAreHeld` (`LoadsAreTrue`) is about
variables that are assigned once, from others of that kind. `SlotsInv` says that
nothing is believed of a variable before its assignment (`SlotsKnown`), and that a
local variable that stands for one holds its value (`SlotsTrue`); that stays so
since a local variable once handed out is not written again. At the start it is a
statement about `_jni_param_slot_map`, which adds up widths from argument to
argument: `SlotAt` gives its closed form, and the frame it describes is the Java
VM's. `MembersAreNamed` (`MembersAreTrue`) has two parts. What the lifter believes
of a class or an ID is what the value stands for in the C program (`SymsInv`), again
for variables assigned once. And the error texts, which are read over the whole body
before the walk begins: `Tracks` maps each statement still to come that has a text
to the place of that text, in their order, and says of each kind that fits so far
that the index is at none of them later and that what lies ahead of it belongs to
such a statement; so the next text of the kind is the own one of the access that
asks (`OwnText`). An `if` takes a part of what it encloses with it and spoils the
kinds of the rest (`TracksInto`). Whatever an `if` does, the text that is left is
cut out of the text before (`Cut`, `IfCuts`), and what is left of nested text is
nested (`CutNested`). `BodiesLoad` (`JumpsLand`): the labels still to come stay
apart from each other and from those in the code (`OnceTodo`), also when an `if`
gives way to a part of what it encloses; that `_drop_dangling_jumps` adds none and
leaves each jump its label is read off the places that joining gives to the parts
(`Placed`). What is assumed of a function: a label is in its text once, as a C
compiler requires, an `if` that begins in a part of another ends in it, an access
uses some member, and the arguments, wide or not, end below `next_synthetic_slot`
(`FirstSlot > 2 * Len(Params)`: fewer than 32). The last is not checked by the code,
which would put saved values over the arguments of a method that takes more than 64
local variables for them.

Only model-checked: the liveness of the observer (`ExitEndsRun`, `NeverFrozen`: TLAPS
does no fairness), and `EmulationKeepsExact`, which is said of what the emulator
captures in the worlds of `MCStaticPath`, under the premises section 2 gives.

## 6. Not modelled

* *Pure conversions*: the readers of ELF, PE and class files, of `/proc/<pid>/maps`,
  the pattern matching over decompiler text (`ast_matcher/core.py`), the instructions
  a call becomes, and the balancing of the stack in `trace-to-bytecode`,
  the snippet importer. They keep no state between inputs; what a model would say
  of them is their text again.
* *`cache_table.py`*: its propagation over instructions has the shape of the harvest,
  with many more forms. Named as the next candidate below.
* *The agent's caches* of strings and descriptors by reference, its bind events and a
  second attach to one VM. What a freed and reused local reference makes of the
  string cache is the largest hazard without a property.
* *Desktop viewer*: presentation around a file and around the attach chain modelled
  in `Attach`; its trace tail has state of its own and is left.
* *Windows and PE backends, privileged observer, Ghidra scripts, setup scripts*:
  another system's API, or installation.
* *Profiles*: which strategy the detection chooses is left open in `JniTables`; the
  lifter's options are those of native-obfuscator.

Parts are listed as partly modelled in `PROJECT.json` wherever one of their
operations is on this list.

## 7. Plan

Done: the observer, the host, the agent with its grouping, attach, the static
path with the merge, the emulator, the lifter, the pipeline. In this order next:

1. `AgentStrings` (`jni_hook.cpp:37-48`, `294-313`, `389-473`): the string cache
   against reuse of references.
2. `TraceTail` (`TraceTailer.kt:38-106`): the tailer against a writer that appends,
   truncates, replaces. Abstract: each complete line delivered once, in order.
3. `CacheTable` (`cache_table.py`), composed with `Lifter`, whose cacheTable is
   an input now.
