# Formal model of nanosandbox

TLA+ modules that model nanosandbox's execution of untrusted commands, the TLC
runs that check them on small instances, and TLAPS proofs of their safety
properties, and of most of their liveness, for every instance.  `PROJECT.json` lists
components, runs, mutants (small changes of the model that each property must
notice), findings, hazards and theorems, and maps each definition to the source
lines it translates.

## The system

`Sandbox::run_with_input` hands a command, its arguments and an optional input
to the platform's executor, which runs it confined and limited and returns an
`ExecutionResult`.

| component | state | operations | properties that make it correct |
|---|---|---|---|
| Linux executor, `platform/linux/mod.rs` | locals of `execute` (pipe ends, proxy, cgroup), the child, kernel objects | set up pipes, clone, map identities, limit, feed input, release the child, poll/kill/reap, drain, read statistics | the command never runs unconfined; output complete; nothing left behind; result says what happened; every call returns |
| `CgroupManager`, `platform/linux/cgroup.rs` | a directory of the cgroup tree, shared by all executions of a host and by hosts | create (with base and controllers), set limits, add process, statistics, kill and remove on drop | members are limited; executions do not disturb each other; directories are removed |
| Mount setup, `platform/linux/mod.rs:326-399` | the root file system on disk, shared by all runs on it; a mount namespace per child | bind the root, mount, make `old_root`, pivot, detach, remove | a command sees all of its mounts and nothing of the host's root |
| Namespaces, `platform/linux/namespace.rs` | none (writes `/proc/<pid>/*_map`) | `write_mappings` | done before the child goes on |
| Seccomp, `platform/linux/seccomp.rs` | none (a filter program) | `apply` | in force before exec |
| `ExecutionResult`, `result.rs` | a record | `new`, `success`, `failure_reason` | success means success of the command |
| macOS executor, `platform/macos/mod.rs` | a spawned process group, its pipes | spawn with limits, write input, poll `wait4`, group kill, read output | as on Linux; returns in time |
| Windows executor, `platform/windows/mod.rs` | a process, a job object | spawn, assign to job, write input, poll, kill, read output | process limited before it runs; returns in time |
| `ProxiedNetwork`, `network/manager.rs` | a port, a runtime, a shutdown channel | setup, env_vars, shutdown on drop | the URL belongs to this proxy; down after drop |
| `HttpProxy`, `network/proxy.rs` | whitelist, one task per connection | accept, parse, check, connect, copy | only whitelisted hosts are reached; bytes are forwarded in full; connections end |
| `SandboxBuilder`, `builder.rs` | a configuration | setters, `build` with validation | what was validated is what runs; what was asked for is what is in force |
| `Sandbox`, `sandbox.rs` | configuration, identifier, executor | `run`, presets, identifier from clock and `AtomicU64` | identifiers are unique |
| trait `PlatformExecutor`, `platform/mod.rs` | none | `execute`, `check_support` | one answer, which tells how the command ended and holds its output |
| errors, crate root | none | declarations | - |

Interaction: the executor calls `ProxiedNetwork::setup`, `write_mappings` and
`CgroupManager` in sequence in the caller's thread.  It meets the child only
through the kernel: the *gate* (a pipe the child reads one byte from before it
does anything), the output pipes, `waitpid`, `SIGKILL` and the cgroup files.
Different executions share the host's descriptor table, the root file systems on
disk, the cgroup tree, ports and the kernel's process identifiers.

What is hard here is the order of the parent's steps, the child's steps and
deaths (of the child, its descendants or the host), early returns with `?` at
every step, output and OOM events that arrive around the death of the command,
the timeout racing a normal exit, blocking reads and writes on bounded pipes,
and names (process identifiers, ports) that are reused.  `PROJECT.json`,
"hazards", lists each at its line.

## Modules

### `ExecutionResult`

The result record and `success()`.  Captured text is a number of chunks per
stream.

### `SandboxExecutor`

What the trait promises of one call of `execute`, without its mechanism: a
command that starts, prints, may be starved of memory and ends, a caller that
waits, and one answer, which may only be given once the command has ended and
must be true (`Tells`): exit code and signal are those of the end, the output is
all that was printed to every stream the platform can return as text,
`killed_by_timeout` only after the limit, `killed_by_oom` exactly after an OOM kill.
`LinuxExecutor` and `PipedExecutor` each instantiate it with a refinement mapping
(`Contract`) and have `ImplementsContract == Contract!Spec` as a property of their
runs and as a theorem.

### `LinuxExecutor`

One call of `execute` on an arbitrary configuration, as three groups of
variables: the parent (`ppc` is where it is in `execute` or
`wait_with_timeout`; `parentFds`, `result`, `outcome`, `proxy` are its locals),
the child (`cpc`, its copy of the descriptors, its descendants, its exit
status, what it has read and written) and the kernel (maps, cgroup, gate byte,
pipe contents, pending SIGKILL, OOM counter, elapsed time).

There is one action per step of the source between two points where another
process can intervene: `SetupProxy`, `CreatePipes`, `BuildArgs`, `Clone`,
`CloseChildEnds`, `WriteMappings`, `CreateCgroup`, `SetLimit`, `AddProcess`,
`PushInput`, `EndInput`, `SignalChild`; then the loop `ReadOutput`, `Poll`,
`CheckTimeout`; then `Drain`, `CollectStats`, `KillMembers`, `Return` (the two
halves of the cgroup's drop).  Every step with a `?` has an alternative that
fails, except for the closes of pipe ends in `CloseChildEnds`, `EndInput` and `SignalChild`:
`close` fails only on a number that is not open, and a call's numbers stay open and its
own (`NumbersStayOwn`; `Sandbox` has the table, and `CloseFails` the early return).  The child goes through `PassGate`, `RedirectStdio`, `SetupMounts`,
`SetEnvironment`, `ApplySeccomp`, `Exec`, each with its own error path, and then
is the command, which may write, read, fork, exit, crash.

A descriptor is a pair of pipe and side; who holds which end is state, because
most of what can go wrong here is a matter of who still holds an end: `Clone`
copies the parent's whole table, as `clone` without `CLONE_FILES` does with
pipes opened without `O_CLOEXEC`.  Two facts about Linux are built in: the child
is process 1 of its PID namespace, so its death takes its descendants along
before it can be reaped (`Die`), and an empty pipe reads as ended only when no
write end is open anywhere (`NoWriter`).

Abstracted: contents of streams (counts), the mount steps (one step), the
environment (one step, because of the locks it takes), the seccomp program, the
measurements, what the child prints about its own setup.

### `CgroupManager`

Any number of concurrent executions on one machine (`host`: whether identifiers are
reused, directories were left behind, and the tree was prepared), each with the
steps of `CgroupManager`
and the parts of `execute` around them.  They share the base directory, the
two `subtree_control` files, the directories, whose name is `nanobox-<pid>`, and
the kernel's identifiers, which are free again as soon as `waitpid` has reaped
the child, before the drop that removes the directory.  `LinuxExecutor` and
this module describe the same calls: the former in depth for one call, the
latter the shared tree for many, with the three limits as one step.

### `PipedExecutor`

One call of `execute` of macOS or of Windows.  They are one module because both
are the same program around `std::process`: spawn, write the whole input, poll
and perhaps kill, then `read_to_string` of stdout and of stderr, one after the
other; `call.platform` selects what differs.  `ppc` is where the thread is;
`leader` is the spawned process, `kids` its live descendants, `held` who has which
pipe open, `tied` the processes in the leader's group (macOS) or in the job
(Windows), `doomed` those a kill is under way to.

Actions: `SetupProxy`, `Spawn`, `CreateJob`, `SetJobLimit`, `AssignJob` (Windows),
`PushInput`, `EndInput`, `Poll`, `CheckTimeout`, `ReadMore`, `EndRead`; the command forks,
leaves its group (`setsid`), lets go of its pipes, writes text or other bytes,
reads, ends.  Unlike on Linux there is no namespace: a descendant outlives the
leader, and its end of a pipe keeps a read from ending.

Abstracted: the resource limits that `pre_exec` sets on macOS and the profile
(both in `SandboxConfig`); a stream that is not UTF-8 is a flag
(`garbled`).

### `ProxiedNetwork`

Any number of `ProxiedNetwork` values of one host with the accept loop of their
`HttpProxy`.  `phase` is the thread that owns the network, `task` the accept loop,
`owner` the kernel's table of ports, `conns` the connections, with the sandbox
whose command opened each and the proxy that serves it.  `FindPort`,
`ReleasePort`, `SpawnProxy`, `EndSetup` are `setup`; `Bind` and `StopListening` are
`HttpProxy::run`; `SendShutdown`, `Drop`, `DropRuntime` the end.  Outsiders bind and
close ports at any time.  A connection is only there or not: what happens in
it is the next module.

### `HttpProxy`

One connection: `task` is where `handle_connection` is, `taken`, `lines`, `dropped`,
`up`, `fetched`, `down` count the units that have got to each point between the two
sockets.  The BufReader is `taken - lines` while the headers are read and gone,
with what it held, at `Decide`.  `Decide` is `handle_connect` or `handle_http` up to
the connect; then `Connect`/`ConnectFails`, `Establish` or `ForwardHeaders`, and the
copies in one or both directions until `EndTransfer`.  Client and remote send,
finish and reset whenever they like, timers fire, and `Shutdown` drops the task
at any of its waits.  `IsAllowed` compares hosts and patterns as sequences of
characters with `to_lowercase`, as the code does.

Abstracted: ports, the rewriting of the request line, what a unit contains, and
all letters but one that `to_lowercase` changes.

### `DescriptorTable`, `RootFilesystem`, `Sandbox`

A host process on Linux whose threads build sandboxes and run commands at the
same time.  `LinuxExecutor` has one call in all its steps; these three have what
several calls share, and the order in which each uses it.

`DescriptorTable`: `table` is the host's descriptor table, a finite set of
numbers, each free, foreign or an end of some run's pipe; `fd` are the numbers a
run keeps in its locals, `copies` what its child has inherited.  The code keeps
bare numbers (`pipe_result.0.into_raw_fd()`), so a number may be closed, given to
another thread and used again: `CloseFd` closes what the number refers to *now*,
whoever owns it.  `Inherit` copies everything that is open, the other runs' ends
included.

`RootFilesystem`: one operation per call of `setup_mount_namespace` that the
children of several runs can disturb in each other.  `oldRoots` are the roots in
which the directory `old_root` exists; `remove_dir` also detaches what other mount
namespaces have mounted on it, so a child may find its own way out gone, and
fails.  `raced`, `met`, `broken` are history variables: whose setup failed for want of
`old_root`, who was in one at the same time, where a dead child left one.

`Sandbox` composes the two: `Validate`, `Count`, `Stamp` are `SandboxBuilder::build`
with its two-step identifier, `OpenNext`, `Clone`, `CloseNext`, `Configure`,
`WriteInput`, `SignalChild`, `Reap` the thread, `PassGate`, `SetUp`, `Die` its child;
`Vanish` removes a path after it has been validated.

Abstracted: the identity maps and the cgroup are one step that may fail, output
and timer are left out, and so are tmpfs mounts, which run in the child's own
namespace between the bind mounts and `MakeOldRoot`.

### `SandboxConfig`

From what a caller asks for to what holds for its command: `Default`, the setters,
the presets, `Build`, and then what each platform makes of the configuration: the
limits that reach the kernel after their conversions (`Quota` in whole
microseconds of a period, `CpuRate` in ten-thousandths of all cores, whole CPU
seconds), the directories the profile or the mounts allow writing to, and the
network.  `PutInForce` fails where the kernel refuses a converted value.  How the
limits are put in force, step by step and against failures, is in the executors'
modules.

Abstracted: bytes are MiB and the profile is the set of paths it lets the
command write to.

### `MCLinuxExecutor`, `MCCgroupManager`, `MCPipedExecutor`, `MCSandbox`, `MCHttpProxy`

Instances for TLC: the configurations of a call (on Linux the default one of
the builder, a memory limit on top of it, all features at once, a filter such as
`cat`, an input larger than a pipe, arguments with a NUL, and one without any
limit, which the builder cannot make but `LinuxExecutor::execute` accepts; on
macOS and Windows with and without input, limits and proxy), the requests, hosts
and the whitelist of a connection, and the symmetry of executions and
identifiers.  `ProxiedNetwork` and `SandboxConfig` need none: their constants can be
written in the configuration.

### `SandboxExecutorProofs`, `LinuxExecutorProofs`, `CgroupManagerProofs`, `PipedExecutorProofs`, `SandboxProofs`, `SandboxConfigProofs`, `HttpProxyProofs`, `ProxiedNetworkProofs`

The theorems, see below.

## Runs

| run | result | what it shows |
|---|---|---|
| `LinuxExecutor_execute` | holds | for every configuration above and every mixture of failing steps, outside kills, host death, foreign reaping and held locks: `TypeOK`, `ConfinedBeyondGate`, `OkOutputComplete`, `OkLeavesNothing`, `SuccessIsGenuine`, `OomIsReported`, `KillReachesAll` (one SIGKILL dooms the child and every descendant, also those born after it), `ImplementsContract`, and `ReturnsOrBlocked`: a call returns unless it waits for room for its input, before its timer starts, for a child that does not run yet |
| `LinuxExecutor_stdin_eof` | violated | a filter never sees the end of its input: it holds a write end of its own standard input |
| `CgroupManager_shared` | holds | three executions, on a prepared machine with fresh names and on one with reused identifiers, left-over directories and a base they race to create: `TypeOK`, `RunsLimited` and `CleanupKillsOnlyReused` on both: a cleanup does kill another execution's child there, but only one that was given its number after its own child was reaped; `OomAttributed`, `DirRemoved` where names are fresh |
| `PipedExecutor_execute` | holds | commands that fork, leave their group, keep or drop pipes, fill them, end early or never, on both platforms: `TypeOK`, `OkOutputFinal`, `LeaderCollected`, `OkRanInJob`, `GroupKillReachesAll`, `ImplementsContract`, and `ReturnsOrObstructed`, which names all that can hold up a call.  `OkOutputFinal` and `ImplementsContract` ask nothing of a stream that is not UTF-8, which is weaker than `src/docs/API.md:394`: see the next run |
| `PipedExecutor_lossy` | violated | one chunk that is not UTF-8 makes macOS and Windows return an empty stream, where the documentation has "lossy UTF-8" |
| `Sandbox_runs` | holds | two threads that build and run at the same time: `TypeOK`, `IdsAreUnique`, `NumbersStayOwn`, `OnlyFailuresLeave`, `CommandsConfined`, `LostOnlyTogether`, and `ReturnsOrInputBlocks`: the pipe ends a call leaves in other calls' children, also in those that wait for ever, keep nobody from returning |
| `SandboxConfig_readonly` | violated | on Linux the presets' read-only directories can be written to: nothing is mounted without a root file system |
| `HttpProxy_connection` | holds | every request and host, peers in any order, timeouts, a shutdown at any moment: `TypeOK`, `CoveredNotRefused`, `OneAnswer`, `ToldUnlessGone` (who asked and is still there hears how it went), `EndsOrUncovered` |
| `HttpProxy_headers` | violated | what a client sends together with its headers is lost in the BufReader |
| `HttpProxy_whitelist` | violated | under the pattern `*.x` the proxy connects to `yx`, no subdomain of `x`: `strip_prefix("*.")` has removed the dot, too.  `CoveredNotRefused` is the direction that holds |
| `ProxiedNetwork_lifecycle` | holds | two sandboxes and outsiders on two ports: `TypeOK`, `ListenersOwnPorts`, `NoPortLeaks`, `DownAfterDrop`, `ShutdownTakesEffect` |
| `ProxiedNetwork_ports` | violated | two setups return Ok with the same port |

The violated runs check a statement of the repository (a test, a comment, a
document) that the code does not keep; PROJECT.json, "findings", quotes it.

Bounds.  Pipes hold two chunks and a read of the loop takes one, so output
can be left for the drain and writers block; each stream gets up to two
chunks, the input up to three, one more than a pipe holds.  One descendant is enough, since descendants only matter by being there or
not: it can outlive a write, hold the pipes, be killed for memory.  Three
executions with three identifiers let two exchange an identifier while the
third interferes; the base directory is created by two that race.  In
`PipedExecutor` a pipe holds one chunk, inputs and streams have two, so that every
write can block.  In `HttpProxy` headers have two lines and each side has up to two
units more, so a line, its payload and the end of the headers can be taken from
the socket together or apart (`BufferSize` is two; three in the run about the
BufReader).  Names of one to three characters have every relation to a pattern
that matters: equal, equal but for case, a subdomain, a mere suffix, unrelated.
In `Sandbox_runs` two threads share one root file system and one vanishing source;
one of them may instead run without a root file system and with an input that
does not fit.  One output stream is enough, since `execute` treats both alike.  The
table has nine numbers, of which the host uses one: two runs of three pipes each
fit or not depending on what the other has closed.  Two networks on two ports can take each other's port or find both taken.

Fairness (`FairSpec`).  `WF(ParentStep)`: the operating system runs the calling
thread whenever it can go on; a parent blocked in its write to the input pipe
is not enabled.  `WF(Expire)`: time passes.  `WF(DeliverKill)`: a SIGKILL that was
sent kills.  Nothing is assumed of the child: its setup may block (a lock that
was held at the clone), the command may never exit.  `ReturnsOrBlocked` therefore rests
on the timeout alone.  In `CgroupManager` only safety is checked.  `PipedExecutor`
has the same fairness.  In `Sandbox` threads are scheduled, and the child of a run that waits
dies in the end, since the loop's timer (an hour when no limit was asked for)
kills it; a child at the gate of a failed run owes nothing.  In `HttpProxy` the
runtime polls a task that can go on
(`WF(Progress)`) and timers fire; no peer owes a step, so neither do the copies,
which wait for one, nor a write of large headers.  In `ProxiedNetwork` only the
accept loop is fair (it is polled by its runtime): the owner may keep its network
for ever.

## Proofs

Everything below holds for every set of calls, of faults, every bound and every
number of executions; the assumptions are only the types of the constants
(`CallsAssumption`, `FaultsAssumption`, `BoundsAssumption`, `SwitchesAssumption`,
`NoPidAssumption`, `ProcsAssumption`, `CharactersAssumption`, `RequestsAssumption`,
`HostsAssumption`, `WhitelistAssumption`, `NetsAssumption`, `PortsAssumption`,
`SandboxAssumption`).  The last includes that there is an output stream and a time
the clock can show: `Streams` are the two of `execute`, and a clock always shows
something; without either no run could go on.

`SandboxExecutorProofs`: what a caller may rely on, from the contract alone.  An answer
is true and stays true (`AnswersHold`), since nothing follows it in the sandbox
(`AnswerIsLast`), and success is only told of a command that was (`SuccessesHold`); a call
has one outcome (`OneOutcome`), a failed call is quiet (`ErrorsAreQuiet`), reasons are
not forgotten (`ReasonsStay`).  The executors inherit these through their refinement:
each instantiates the module with the mapping of its contract (`Caller`,
`ServesCaller`), and says the consequence in its own variables (`ReturnIsLast` of both,
`GenuineSuccess` of `PipedExecutorProofs`, which no run repeats).

`LinuxExecutorProofs`: `ConfinedBeyondGate` and the others are not inductive.  The
invariant `Inv` adds

- `InStep`: which child states go with which parent states; in particular a child
  the parent has stopped waiting for never leaves the gate;
- `GateHeld`: as long as the child is at the gate it holds the gate's write end
  itself, so the gate cannot open by an end of file, whatever becomes of the
  parent.  This is the heart of `Confinement`;
- `SetupOrder`: what is configured where the parent is, and that it is all
  configured once the byte is written;
- `Namespace`: a dead child has no descendants and no descriptors;
- `ParentEnds`, `CgroupLife`, `ResultParts`, `OwnZombie`: what the end of the call has
  closed, removed, recorded and reaped.

Each part has its own lemma with one case per action.  From `Invariance` follow
`TypeCorrect`, `Confinement`, `OutputComplete`, `NothingLeft`, `OomReported`
and `GenuineSuccess`.  `Implementation` is the refinement of
`SandboxExecutor`: `StepSimulation` takes the actions one by one, and each is a step
of the contract or changes nothing the contract sees (`Unseen`).  It needs one more
invariant, `Claims`: what the result already says while `execute` is still running is
true, which is what `Answer` demands at the return.  `OneKillSuffices` is about the loop that
sends SIGKILL once and never again: from then until the child is dead a kill is
under way (`KillSticks`), because nothing takes back a pending SIGKILL and no step of the
setup can miss it, and by `Namespace` no descendant outlives the child.

`CgroupManagerProofs`: `Limited` rests on two parts: an unreaped child's identifier is
its own (`Identifiers`), and a living member protects its directory from every
cleanup (`Membership`).  Between making its directory and joining it an
execution is unprotected: another that shares the name may remove it.  The
proof shows why this is harmless: the directory can then not come back, so
joining fails and the child is never released.  `Isolated` adds what holds where
names are fresh (`NamesAreFresh`: no identifier is reused and no directory was left
over): with the owners of OOM kills (`OomOwners`) it is an invariant of its own,
from which `OwnOom` and `Removes` follow.  `KillsOnlyReused` speaks of every machine and
needs `Blame`: two executions share an identifier only if one of them has reaped its
child, and an execution that has reaped its child holds a result.

`PipedExecutorProofs`: `Inv` says what the executor knows where it is
(`LeaderKnown`: a process it has read output of is one it has waited for itself;
`InJob`: on Windows a process is in the job, or ended in it, from the wait on),
and that a stream read to its end stays as it is (`StreamsFinal`).  The last rests
on `Released`: a stream that no live process holds can neither be written to nor
be passed on to a child, so nobody ever holds it again.  `AllReached` needs the
invariant that everything in the group is doomed after the kill: a doomed
process does not fork, and the others are outside the group, and so are their
children.  `Implementation` is laid out as for Linux.

`SandboxProofs`: `Inv` has three parts, each kept by the steps of any run while the
others hold.  `RunInv`: what a thread has still to open or close (`Agenda`), and
that counts handed out are below the counter and differ, which gives `UniqueIds`
whatever the clock shows.  `FsInv`: what a child has mounted and where it sees the
host's root at each step of its setup; a child that reaches its command went
through all of them (`Confined`), and `old_root` is missing where it should be only
for children that met (`LostTogether`).  `TableInv`: every number in use refers to its
own run's pipe, and every pipe in the table is in use or of a failed run; `Opening`,
`Closing` and `Leaving` show that for the three kinds of step, whatever the other
runs do (`OwnNumbers`, `NothingLeft`).  `BoundedLeak` bounds what a failing call leaks:
an end of a run has one number at most (`OneNumberEach`), also after the run has
failed and forgotten its numbers, so they are mapped one to one to the ends of its
pipes, two for each.  The bound is reached by a call that fails at the clone.

`SandboxConfigProofs`: `Tightens` goes over all configurations that setters and
presets can make, for Linux and macOS: what is in force is at most what was asked
for, because every conversion rounds down or fails.  It assumes nothing but that
`Platforms` are those three (and `TypeCorrect` that `Cores` is a number).  No run repeats it: the setters can be called in any
order, so already small sets of values have millions of configurations.

`HttpProxyProofs`: `Stages` says what has not happened yet where the task is,
`Admitted` that the host was checked before the connection and is the one
connected to, `Refused` what a 403 means.  `CoveredServed` adds an argument about
names of any length (`ShorterSuffix`, `LowerType`, `DocumentedAllowed`): whatever ends
with a dot and a name ends with the name.  `Told` is part of the invariant.  `Guarded` states the
whitelist by its documentation and for plain names only; with a wildcard that is
violated (`HttpProxy_whitelist`).

`ProxiedNetworkProofs`: `PortsOwned` and `PortsReturned` are proved together (no port is
owned but by a probe or a listener, each of which owns its own), with the stages
of thread and accept loop; `DownOnceDropped` follows.

### Liveness

`ShutdownEnds`, `EndsUnlessUncovered`, and `CallsReturn` of `SandboxProofs` are the liveness
properties of their runs; `CallReturns` and `InputlessCallEnds` (Linux), `CallReturns` and
`InputlessCallReturns` (macOS and Windows) are what holds of a call for every
configuration.  In the first two the accept loop and the task have few states, which the
proofs take one by one.  The calls have *stations*, numbered in the order of the code (20
to 26 of them; in the poll loop of Linux also by whether the limit has passed, the kill
was sent and the child is dead); a call's own steps take it to a later station
(`ParentAdvances`, `ThreadAdvances`) and nothing takes it back (`NeverBack`).  Fairness moves it on from a station where it can
go on by itself (`MovesOnAlone`); where it waits for the time limit or for a child to die,
fairness of the timer and of SIGKILL does (`MovesOnInTime`), for which the proofs need
that the kill cannot be missed (`KillSticks`, `DoomedOrMissed`).  What remains are the stations
where it may wait for ever, and these are the disjuncts of the property.

Weak fairness speaks of `ENABLED`, which the provers cannot evaluate.  So these
theorems have one hypothesis more: that the fair actions are enabled where the code can
go on (`ReadyStepsEnabled` of `LinuxExecutor`, `PipedExecutor` and `HttpProxy`, `ReadyTasksStep` of
`ProxiedNetwork`, `ReadyRunsStep` of `Sandbox`).  It is a state predicate and no assumption
about the system: it follows from the definitions of the actions, as their guards
are those conditions and every early return is an alternative of its own.  Added to
`INVARIANTS` of the run of its module, TLC finds it to hold in every reachable state of
`LinuxExecutor_execute`, `PipedExecutor_execute`, `HttpProxy_connection`, `ProxiedNetwork_lifecycle`
and `Sandbox_runs`.

Only model-checked: those `ENABLED` facts, and that an input that is being read comes
to its end.  Input is written chunk by chunk, any number of them, and counting
them down is an induction over data.  The theorems about the executors therefore
leave a third way out, `<>[]Writing`, that `ReturnsOrBlocked` and `ReturnsOrObstructed` exclude on
their runs; without input it is excluded by proof (`InputlessCallEnds`,
`InputlessCallReturns`).

## Divergences noted without a run

- A call on Linux that fails between `clone` and the signal (every `?` in
  `src/src/platform/linux/mod.rs:242-279`) returns without killing or waiting for its
  child: it stays at the gate, whose write end it holds itself, or a zombie.  A child
  with a cgroup is killed by the drop, but not waited for.
- A command that runs when its host dies runs on, without a timer: `clone` sets no
  parent-death signal.  `src/tests/security/process_management.rs:98-100` expects a
  cleanup on SIGTERM, which the crate leaves to the default action.
- `CgroupManager::create` enables controllers in the root's `cgroup.subtree_control` only, and
  only when it makes the base (`src/src/platform/linux/cgroup.rs:52-70`).  The base's own
  file is never written, so its children have no limit files and, unless somebody
  has prepared the tree, every call with a limit fails (`SetLimits`).
- A pattern with capitals never matches, because only the host is put in lower
  case.
- A command that ends between the last poll and the kill is reported as killed
  by the timeout, on every platform.
- An input larger than a pipe blocks `execute` on Linux for ever, since it is
  written before the child may read and before the timer starts
  (`InputBlocked` in `LinuxExecutor`).
- Limits that are accepted and have no effect: Linux ignores `cpu_time_limit`,
  `max_file_size` and `max_open_files`; macOS ignores `cpu_limit` and `max_pids`, a CPU
  time below a second, and the errors of `setrlimit`; Windows ignores `max_pids`
  (`src/docs/API.md:295`: "Hard limit via Job Object"), CPU time, file size and open
  files.
- On Windows `CpuRate` is a share of all cores together: `cpu_limit(0.5)` lets a
  command use half of the machine, and the documented `cpu_limit(1.5)`
  (`src/docs/API.md:268`) is refused by the kernel (`CpuRate`, `CpuRateType`).  This is
  why `ConversionsTighten` leaves Windows out.
- The profile of macOS lets a command write below its working directory, which by
  default is `/`, and below every writable mount, read-only directories in it included
  (`Writable`).
- `mount(2)` ignores `MS_RDONLY` next to `MS_BIND`: with a root file system a read-only
  mount on Linux can be written to as well (`src/docs/API.md:148`).
- Network mode `none` is not enforced on Windows (`Online`).
- `src/docs/API.md:677-678` says that executions are independent and serialized on one
  sandbox.  They are neither: they share `old_root`, and one can make the setup of
  another fail (`LostOldRoot`); `LostOnlyTogether` states what does hold.
- `create_dir_all` of the target of a mount nested in another creates directories in
  the first one's source, and tmpfs mounts come after the mounts and can hide them.
- Identifiers are a count and a time: two processes can make the same one
  (`IdsAreUnique` is about one process), and `src/docs/API.md:86` still has them as `u64`.
- `check_support` ignores the configuration it is given, where the comment at
  `src/src/platform/mod.rs:51-54` promises the features it requests.
- `clear_env(false)` is ignored on Linux.

## Not modelled, and why

- The seccomp tables and profiles: `apply` only sets `NO_NEW_PRIVS`, and no path
  reaches the tables.  `MountNamespace` and `UtsNamespace` are not used either.
- uid, gid, hostname, environment and the seccomp profile of a configuration: they
  are handed on and decide nothing.
- `failure_reason`, the error types, the crate root: wording and declarations.
- Measurements (peak memory, CPU time, duration), the text of the profile of macOS,
  the rewriting of a request line.
- Tmpfs mounts in `RootFilesystem`: private to a child's namespace.
- Benches, examples and the documentation.

## Plan

1. A host that runs both sandboxes and proxies: `ProxiedNetwork` takes descriptors
   that `Sandbox` has no place for yet, and its runtime's threads are among those whose
   locks a clone copies.
2. A second call on the same thread after a failure: `DescriptorTable` allows for
   what earlier calls left open (`Taken`), `LinuxExecutor` does not start twice.
3. Proofs: that no setter of the builder removes a limit and that a wall time limit is
   always in force (`SandboxConfig`); what identifiers shared by several hosts can still
   disturb in `CgroupManager`; that the threads of `Sandbox` do the steps of
   `LinuxExecutor`, seen from the descriptors.
