---------------------------- MODULE LinuxExecutor ----------------------------
(***************************************************************************)
(* One call of LinuxExecutor::execute (src/platform/linux/mod.rs): the     *)
(* parent thread that runs the call, the child process it clones, and the  *)
(* part of the kernel both rely on (pipes, the PID namespace, one cgroup,  *)
(* signals).  The parent's and the child's steps interleave freely.        *)
(*                                                                         *)
(* Data are counts: a stream is the number of chunks written to it, the    *)
(* standard input is a number of chunks.  A pipe end is <<pipe, side>>.    *)
(* Diagnostics the child prints about its own setup are not counted.       *)
(***************************************************************************)
EXTENDS Integers, Sequences, FiniteSets, ExecutionResult

CONSTANTS
  Calls,         \* the calls to explore, a subset of CallType
  Faults,        \* what the environment may do, a subset of FaultKinds
  PipeCapacity,  \* chunks a pipe holds
  ReadChunk,     \* chunks one read of the polling loop takes
  MaxInput,      \* bound on the chunks of a call's standard input
  MaxOutput,     \* bound on the chunks written to a stream
  MaxKids        \* bound on the command's live descendants

Limits == {"memory", "cpu", "pids"}

\* What a call depends on: the parts of SandboxConfig that change control,
\* the arguments of execute, and whether the command is a filter that only
\* exits once it has read its standard input to the end.
CallType ==
  [ has_stdin    : BOOLEAN,
    input        : 0 .. MaxInput,
    limits       : SUBSET Limits,
    proxied      : BOOLEAN,
    rootfs       : BOOLEAN,
    seccomp      : BOOLEAN,
    nul          : {"none", "cmd", "arg"},
    reads_to_eof : BOOLEAN ]

\* "kill": somebody outside sends the child SIGKILL.
\* "hostDeath": the host process dies in the middle of the call.
\* "foreignReap": the host process reaps children it does not know of
\*    (SIGCHLD ignored, or a wait for any child in another thread).
\* "lockHeld": clone happened while another thread of the host held a lock
\*    (environment, allocator) that the child's setup takes.
FaultKinds == {"kill", "hostDeath", "foreignReap", "lockHeld"}

ASSUME CallsAssumption == Calls \subseteq CallType
ASSUME FaultsAssumption == Faults \subseteq FaultKinds
ASSUME BoundsAssumption ==
  /\ PipeCapacity \in Nat \ {0}
  /\ ReadChunk \in Nat \ {0}
  /\ MaxInput \in Nat
  /\ MaxOutput \in Nat
  /\ MaxKids \in Nat

VARIABLES
  call,          \* the call under way
  \* --- the parent: locals of execute and wait_with_timeout
  ppc,           \* where the parent is
  parentFds,     \* pipe ends open in the parent
  result,        \* the result being filled in
  outcome,       \* "pending", or what execute returns: "ok", "err", "panic"
  proxy,         \* a ProxiedNetwork of this call is alive
  \* --- the child and its descendants
  cpc,           \* where the child is
  childFds,      \* pipe ends open in the child or its descendants
  kids,          \* live descendants of the command
  status,        \* how the child died: code, signal, had it become the command
  filtered,      \* a seccomp filter is installed in the child
  stdinRead,     \* chunks the command has read from its standard input
  produced,      \* chunks written to each stream
  \* --- the kernel
  mapped,        \* the child's UID and GID maps are written
  cgroup,        \* "none", "live", "gone" (removed), "stuck" (rmdir failed)
  limitsSet,     \* limits written to the cgroup
  member,        \* the child is in the cgroup
  gateByte,      \* the byte the child waits for is in the ready pipe
  stdinWritten,  \* chunks the parent has written to the stdin pipe
  pendingKill,   \* a SIGKILL for the child is under way
  oomKill,       \* memory.events counts an OOM kill
  expired        \* the wall time limit has passed

parentVars == <<ppc, parentFds, result, outcome, proxy>>
childVars  == <<cpc, childFds, kids, status, filtered, stdinRead, produced>>
kernelVars == <<mapped, cgroup, limitsSet, member, gateByte, stdinWritten,
                pendingKill, oomKill, expired>>
setupVars  == <<mapped, cgroup, limitsSet, member>>
vars == <<call, parentVars, childVars, kernelVars>>

-----------------------------------------------------------------------------
(* Helpers *)

ReadEnd(p)  == <<p, "read">>
WriteEnd(p) == <<p, "write">>
Ends(p)     == {ReadEnd(p), WriteEnd(p)}

AllPipes == {"stdout", "stderr", "ready", "stdin"}
AllFds   == AllPipes \X {"read", "write"}

\* The pipes of a call, in the order execute creates them.
PipesOf(c) ==
  IF c.has_stdin THEN <<"stdout", "stderr", "ready", "stdin">>
                 ELSE <<"stdout", "stderr", "ready">>

\* needs_cgroup()
NeedsCgroup(c) == c.limits # {}

\* Mutant: no PID namespace.
CloneFlagsWithoutPid == {"NEWUSER", "NEWNS", "NEWUTS", "NEWIPC"}

\* The namespaces every child gets.
CloneFlags == {"NEWUSER", "NEWPID", "NEWNS", "NEWUTS", "NEWIPC"}

SetupStates == {"gate", "stdio", "mount", "env", "wedged", "seccomp", "exec"}
Live        == SetupStates \cup {"run"}
BeyondGate  == Live \ {"gate"}
Terminal    == {"returned", "dead"}

\* The zombie is gone: "reaped" by this call, "stolen" by somebody else.
Collected == {"reaped", "stolen"}

\* Mutant: the sync pipe is closed on exec, or the child closes its copy.
InheritedWithoutReady == parentFds \ {WriteEnd("ready")}

\* clone without CLONE_FILES copies the table, and pipe() sets no O_CLOEXEC.
Inherited == parentFds

\* Somebody can still read what is written to pipe p.
HasReader(p) == ReadEnd(p) \in parentFds \cup childFds
\* A reader of an empty pipe p sees its end: nobody can write to it.
NoWriter(p)  == WriteEnd(p) \notin parentFds \cup childFds

\* The order execute sets the limits in.
Rank == [memory |-> 1, cpu |-> 2, pids |-> 3]
NextLimit(todo) == CHOOSE l \in todo : \A k \in todo : Rank[l] <= Rank[k]

\* Mutant: the whole buffer is taken instead of the part that was read.
Most(m, n) == IF m <= n THEN n ELSE m

\* A read fills its buffer or takes what is there.
Least(m, n) == IF m <= n THEN m ELSE n

\* An early return with `?`: the guards that exist are dropped, nothing else.
Fail == outcome' = "err" /\ ppc' = "drop"

-----------------------------------------------------------------------------
(* The parent up to the point where the child may run *)

\* ProxiedNetwork::setup(..)?
SetupProxy ==
  /\ ppc = "proxy"
  /\ \/ /\ proxy' = call.proxied
        /\ ppc' = "pipes"
        /\ UNCHANGED outcome
     \/ /\ call.proxied
        /\ Fail
        /\ UNCHANGED proxy
  /\ UNCHANGED <<call, parentFds, result, childVars, kernelVars>>

\* The pipe() calls; each may fail, and what the earlier ones opened stays.
CreatePipes ==
  /\ ppc = "pipes"
  /\ \E n \in 0 .. Len(PipesOf(call)) :
       /\ parentFds' = UNION {Ends(PipesOf(call)[i]) : i \in 1 .. n}
       /\ IF n = Len(PipesOf(call)) THEN ppc' = "args" /\ UNCHANGED outcome
                                    ELSE Fail
  /\ UNCHANGED <<call, result, proxy, childVars, kernelVars>>

\* CString::new: a NUL in the command is an error, in an argument a panic.
BuildArgs ==
  /\ ppc = "args"
  /\ CASE call.nul = "none" -> ppc' = "clone" /\ UNCHANGED outcome
       [] call.nul = "cmd"  -> Fail
       [] OTHER             -> ppc' = "drop" /\ outcome' = "panic"
  /\ UNCHANGED <<call, parentFds, result, proxy, childVars, kernelVars>>

\* clone(child_fn, ..)
Clone ==
  /\ ppc = "clone"
  /\ \/ /\ cpc' = "gate"
        /\ childFds' = Inherited
        /\ ppc' = "close"
        /\ UNCHANGED outcome
     \/ Fail /\ UNCHANGED <<cpc, childFds>>
  /\ UNCHANGED <<call, parentFds, result, proxy, kernelVars,
                 kids, status, filtered, stdinRead, produced>>

\* The `?` of these closes, and of those of EndInput and SignalChild, never
\* returns: close only fails on a number that is not open, and these are the
\* call's own (Sandbox has the table in which that is shown).
CloseChildEnds ==
  /\ ppc = "close"
  /\ parentFds' = parentFds \ {ReadEnd("ready"), WriteEnd("stdout"),
                               WriteEnd("stderr"), ReadEnd("stdin")}
  /\ ppc' = "mappings"
  /\ UNCHANGED <<call, result, outcome, proxy, childVars, kernelVars>>

\* UserNamespace::write_mappings: /proc/<pid>/{setgroups,uid_map,gid_map}.
WriteMappings ==
  /\ ppc = "mappings"
  /\ \/ /\ cpc \notin Collected
        /\ mapped' = TRUE
        /\ ppc' = IF NeedsCgroup(call) THEN "create" ELSE "input"
        /\ UNCHANGED outcome
     \/ Fail /\ UNCHANGED mapped
  /\ UNCHANGED <<call, parentFds, result, proxy, childVars, cgroup, limitsSet,
                 member, gateByte, stdinWritten, pendingKill, oomKill, expired>>

\* CgroupManager::create
CreateCgroup ==
  /\ ppc = "create"
  /\ \/ cgroup' = "live" /\ ppc' = "limit" /\ UNCHANGED outcome
     \/ Fail /\ UNCHANGED cgroup
  /\ UNCHANGED <<call, parentFds, result, proxy, childVars, mapped, limitsSet,
                 member, gateByte, stdinWritten, pendingKill, oomKill, expired>>

\* set_memory_limit, set_cpu_limit, set_pids_limit, one write each.
SetLimit ==
  /\ ppc = "limit"
  /\ limitsSet # call.limits
  /\ \/ /\ limitsSet' = limitsSet \cup {NextLimit(call.limits \ limitsSet)}
        /\ UNCHANGED <<ppc, outcome>>
     \/ Fail /\ UNCHANGED limitsSet
  /\ UNCHANGED <<call, parentFds, result, proxy, childVars, mapped, cgroup,
                 member, gateByte, stdinWritten, pendingKill, oomKill, expired>>

\* CgroupManager::add_process
AddProcess ==
  /\ ppc = "limit"
  /\ limitsSet = call.limits
  /\ \/ /\ cpc \notin Collected
        /\ member' = TRUE
        /\ ppc' = "input"
        /\ UNCHANGED outcome
     \/ Fail /\ UNCHANGED member
  /\ UNCHANGED <<call, parentFds, result, proxy, childVars, mapped, cgroup,
                 limitsSet, gateByte, stdinWritten, pendingKill, oomKill, expired>>

\* The blocking write of the whole input, one chunk after the other.
PushInput ==
  /\ ppc = "input"
  /\ call.has_stdin
  /\ stdinWritten < call.input
  /\ HasReader("stdin")
  /\ stdinWritten - stdinRead < PipeCapacity
  /\ stdinWritten' = stdinWritten + 1
  /\ UNCHANGED <<call, parentVars, childVars, setupVars, gateByte,
                 pendingKill, oomKill, expired>>

\* The write is over (all written, or nobody reads and its error is ignored):
\* close the parent's end.  Without input there is nothing to do.
EndInput ==
  /\ ppc = "input"
  /\ ~call.has_stdin \/ stdinWritten = call.input \/ ~HasReader("stdin")
  /\ parentFds' = parentFds \ {WriteEnd("stdin")}
  /\ ppc' = "signal"
  /\ UNCHANGED <<call, result, outcome, proxy, childVars, kernelVars>>

\* Tell the child to go on; EPIPE when it no longer exists.
SignalChild ==
  /\ ppc = "signal"
  /\ IF HasReader("ready")
     THEN /\ gateByte' = TRUE
          /\ parentFds' = parentFds \ {WriteEnd("ready")}
          /\ ppc' = "read"
          /\ UNCHANGED outcome
     ELSE Fail /\ UNCHANGED <<gateByte, parentFds>>
  /\ UNCHANGED <<call, result, proxy, childVars, setupVars, stdinWritten,
                 pendingKill, oomKill, expired>>

-----------------------------------------------------------------------------
(* The parent while it waits: the loop of wait_with_timeout *)

\* What is captured after one more non-blocking read of each stream ..
NextChunk(output) ==
  [s \in Streams |-> output[s] + Least(ReadChunk, produced[s] - output[s])]

\* .. and after drain_fd, which reads until nothing is left.
Drained(output) == produced

ReadOutput ==
  /\ ppc = "read"
  /\ result' = [result EXCEPT !.output = NextChunk(@)]
  /\ ppc' = "poll"
  /\ UNCHANGED <<call, parentFds, outcome, proxy, childVars, kernelVars>>

\* Mutant: the exit code of a process that a signal has ended is its own.
OwnCode(st) == st.code

\* The exit code and the signal a wait status stands for.
ReportedCode(st)   == IF st.signal = NoSignal THEN st.code ELSE 128 + st.signal
ReportedSignal(st) == st.signal

\* waitpid(pid, WNOHANG): reap, ECHILD, or still alive.
Poll ==
  /\ ppc = "poll"
  /\ CASE cpc = "zombie" ->
            /\ cpc' = "reaped"
            /\ result' = [result EXCEPT !.exit_code = ReportedCode(status),
                                        !.signal = ReportedSignal(status)]
            /\ ppc' = "drain"
            /\ UNCHANGED outcome
       [] cpc \in Collected -> Fail /\ UNCHANGED <<cpc, result>>
       [] OTHER -> ppc' = "alive" /\ UNCHANGED <<cpc, result, outcome>>
  /\ UNCHANGED <<call, parentFds, proxy, childFds, kids, status, filtered,
                 stdinRead, produced, kernelVars>>

\* Mutant: SIGKILL only reaches a child that has become the command.
KillReachesCommand == cpc = "run"

\* kill(pid, SIGKILL) finds every child that has not died yet.
KillReaches == cpc \in Live

\* StillAlive: past the limit, send SIGKILL once and remember it; a process
\* that has died meanwhile takes no harm.  Then sleep and go round again.
CheckTimeout ==
  /\ ppc = "alive"
  /\ IF expired /\ ~result.killed_by_timeout
     THEN /\ result' = [result EXCEPT !.killed_by_timeout = TRUE]
          /\ pendingKill' = (pendingKill \/ KillReaches)
     ELSE UNCHANGED <<result, pendingKill>>
  /\ ppc' = "read"
  /\ UNCHANGED <<call, parentFds, outcome, proxy, childVars, setupVars,
                 gateByte, stdinWritten, oomKill, expired>>

\* drain_fd on both streams, then close them.
Drain ==
  /\ ppc = "drain"
  /\ result' = [result EXCEPT !.output = Drained(@)]
  /\ parentFds' = parentFds \ {ReadEnd("stdout"), ReadEnd("stderr")}
  /\ ppc' = "stats"
  /\ UNCHANGED <<call, outcome, proxy, childVars, kernelVars>>

\* Mutant: an OOM kill is inferred from how the child died.
WasOomKilledBySignal == cgroup = "live" /\ oomKill /\ status.signal = 9

\* CgroupManager::was_oom_killed, as long as there is a cgroup to read.
WasOomKilled == cgroup = "live" /\ oomKill

\* Read the statistics and build Ok(ExecutionResult { .. }).
CollectStats ==
  /\ ppc = "stats"
  /\ result' = [result EXCEPT !.killed_by_oom = WasOomKilled]
  /\ outcome' = "ok"
  /\ ppc' = "drop"
  /\ UNCHANGED <<call, parentFds, proxy, childVars, kernelVars>>

-----------------------------------------------------------------------------
(* The end of the call: locals are dropped *)

\* CgroupManager::cleanup begins: kill_all signals every member.
KillMembers ==
  /\ ppc = "drop"
  /\ cgroup = "live"
  /\ pendingKill' = (pendingKill \/ (member /\ cpc \in Live))
  /\ ppc' = "rmdir"
  /\ UNCHANGED <<call, parentFds, result, outcome, proxy, childVars, setupVars,
                 gateByte, stdinWritten, oomKill, expired>>

\* .. and ends, after bounded waits, with a remove_dir whose error is ignored.
\* Without a cgroup only the proxy is dropped.
Return ==
  /\ \/ /\ ppc = "rmdir"
        /\ cgroup' = IF member /\ (cpc \in Live \/ kids > 0) THEN "stuck" ELSE "gone"
     \/ ppc = "drop" /\ cgroup = "none" /\ UNCHANGED cgroup
  /\ proxy' = FALSE
  /\ ppc' = "returned"
  /\ UNCHANGED <<call, parentFds, result, outcome, childVars, mapped, limitsSet,
                 member, gateByte, stdinWritten, pendingKill, oomKill, expired>>

\* The host process dies; the kernel closes what it had open.
HostDies ==
  /\ "hostDeath" \in Faults
  /\ ppc \notin Terminal
  /\ ppc' = "dead"
  /\ parentFds' = {}
  /\ proxy' = FALSE
  /\ UNCHANGED <<call, result, outcome, childVars, kernelVars>>

-----------------------------------------------------------------------------
(* The child: child_fn, then the command *)

childRest == <<call, parentVars, kernelVars>>

\* Process death.  The child is process 1 of its PID namespace, so the kernel
\* kills the rest of the namespace before the child becomes a zombie.
Die(code, signal) ==
  /\ cpc' = "zombie"
  /\ status' = [code |-> code, signal |-> signal, ran |-> cpc = "run"]
  /\ kids' = IF "NEWPID" \in CloneFlags THEN 0 ELSE kids
  /\ childFds' = IF kids' = 0 THEN {} ELSE childFds
  /\ UNCHANGED <<filtered, stdinRead, produced>>

\* child_fn returns, or the command exits.
Exit(code) == Die(code, NoSignal) /\ UNCHANGED childRest

\* Advance from one step of child_fn to another.
Advance(from, to) ==
  /\ cpc = from
  /\ cpc' = to
  /\ UNCHANGED <<call, parentVars, kids, status, stdinRead, produced>>

\* read(ready_read), whose outcome child_fn ignores: end of file passes too.
PassGate ==
  /\ gateByte \/ NoWriter("ready")
  /\ Advance("gate", "stdio")
  /\ gateByte' = FALSE
  /\ childFds' = childFds \ {ReadEnd("ready")}
  /\ UNCHANGED <<filtered, setupVars, stdinWritten, pendingKill, oomKill, expired>>

\* dup2 and close.  The write ends of "ready" and "stdin" stay open.
RedirectStdio ==
  /\ Advance("stdio", IF call.rootfs THEN "mount" ELSE "env")
  /\ childFds' = childFds \ {ReadEnd("stdout"), ReadEnd("stderr")}
  /\ UNCHANGED <<filtered, kernelVars>>

\* setup_mount_namespace; an error is child_fn's return value 1.
SetupMounts ==
  \/ Advance("mount", "env") /\ UNCHANGED <<childFds, filtered, kernelVars>>
  \/ cpc = "mount" /\ Exit(1)

\* remove_var, set_var, set_current_dir: takes locks of the copied process,
\* which nobody is left to release if another thread held them at the clone.
SetEnvironment ==
  /\ \/ Advance("env", "seccomp")
     \/ "lockHeld" \in Faults /\ Advance("env", "wedged")
  /\ UNCHANGED <<childFds, filtered, kernelVars>>

\* SeccompFilter::apply; an error is printed and the child goes on.
ApplySeccomp ==
  /\ Advance("seccomp", "exec")
  /\ filtered' \in IF call.seccomp THEN BOOLEAN ELSE {FALSE}
  /\ UNCHANGED <<childFds, kernelVars>>

\* execvp, or 127.
Exec ==
  \/ Advance("exec", "run") /\ UNCHANGED <<childFds, filtered, kernelVars>>
  \/ cpc = "exec" /\ Exit(127)

\* The command or a descendant writes a chunk to a stream.
Write(s) ==
  /\ cpc = "run" \/ kids > 0
  /\ produced[s] < MaxOutput
  /\ ReadEnd(s) \in parentFds
  /\ produced[s] - result.output[s] < PipeCapacity
  /\ produced' = [produced EXCEPT ![s] = @ + 1]
  /\ UNCHANGED <<childRest, cpc, childFds, kids, status, filtered, stdinRead>>

ReadStdin ==
  /\ cpc = "run"
  /\ stdinRead < stdinWritten
  /\ stdinRead' = stdinRead + 1
  /\ UNCHANGED <<childRest, cpc, childFds, kids, status, filtered, produced>>

Fork ==
  /\ cpc = "run"
  /\ kids < MaxKids
  /\ kids' = kids + 1
  /\ UNCHANGED <<childRest, cpc, childFds, status, filtered, stdinRead, produced>>

KidExits ==
  /\ kids > 0
  /\ kids' = kids - 1
  /\ childFds' = IF kids' = 0 /\ cpc \notin Live THEN {} ELSE childFds
  /\ UNCHANGED <<childRest, cpc, status, filtered, stdinRead, produced>>

\* The command has read everything and sees the end of its standard input.
AtEof == stdinRead = stdinWritten /\ NoWriter("stdin")

CommandExits ==
  /\ cpc = "run"
  /\ call.has_stdin /\ call.reads_to_eof => AtEof
  /\ \E code \in {0, 1} : Exit(code)

\* A fault of the command's own (SIGSEGV).
CommandCrashes == cpc = "run" /\ Die(0, 11) /\ UNCHANGED childRest

-----------------------------------------------------------------------------
(* The kernel and the environment *)

DieBySigkill ==
  /\ cpc \in Live
  /\ Die(0, 9)
  /\ pendingKill' = FALSE
  /\ UNCHANGED <<call, parentVars, setupVars, gateByte, stdinWritten, expired>>

DeliverKill == pendingKill /\ DieBySigkill /\ UNCHANGED oomKill

ExternalKill == "kill" \in Faults /\ DieBySigkill /\ UNCHANGED oomKill

\* Over its memory limit the cgroup loses the child or a descendant, and
\* memory.events counts it.
OomKill ==
  /\ "memory" \in limitsSet
  /\ member
  /\ cpc \in BeyondGate
  /\ oomKill' = TRUE
  /\ \/ DieBySigkill
     \/ /\ kids > 0
        /\ kids' = kids - 1
        /\ UNCHANGED <<call, parentVars, cpc, childFds, status, filtered,
                       stdinRead, produced, setupVars, gateByte, stdinWritten,
                       pendingKill, expired>>

\* Somebody else reaps the zombie: another part of the host, or init once the
\* host is dead.
ForeignReap ==
  /\ "foreignReap" \in Faults \/ ppc = "dead"
  /\ cpc = "zombie"
  /\ cpc' = "stolen"
  /\ UNCHANGED <<childRest, childFds, kids, status, filtered, stdinRead, produced>>

\* The wall time limit passes; the clock starts in wait_with_timeout.
Expire ==
  /\ ppc \in {"read", "poll", "alive"}
  /\ ~expired
  /\ expired' = TRUE
  /\ UNCHANGED <<call, parentVars, childVars, setupVars, gateByte, stdinWritten,
                 pendingKill, oomKill>>

\* The call is over for its host.
Over == ppc \in Terminal /\ UNCHANGED vars

-----------------------------------------------------------------------------
Init ==
  /\ call \in Calls
  /\ ppc = "proxy" /\ parentFds = {} /\ result = NewResult
  /\ outcome = "pending" /\ proxy = FALSE
  /\ cpc = "none" /\ childFds = {} /\ kids = 0 /\ filtered = FALSE
  /\ status = [code |-> 0, signal |-> NoSignal, ran |-> FALSE]
  /\ stdinRead = 0 /\ produced = [s \in Streams |-> 0]
  /\ mapped = FALSE /\ cgroup = "none" /\ limitsSet = {} /\ member = FALSE
  /\ gateByte = FALSE /\ stdinWritten = 0
  /\ pendingKill = FALSE /\ oomKill = FALSE /\ expired = FALSE

ParentStep ==
  \/ SetupProxy \/ CreatePipes \/ BuildArgs \/ Clone \/ CloseChildEnds
  \/ WriteMappings \/ CreateCgroup \/ SetLimit \/ AddProcess
  \/ PushInput \/ EndInput \/ SignalChild
  \/ ReadOutput \/ Poll \/ CheckTimeout \/ Drain \/ CollectStats
  \/ KillMembers \/ Return

ChildSetupStep ==
  PassGate \/ RedirectStdio \/ SetupMounts \/ SetEnvironment \/ ApplySeccomp \/ Exec

CommandStep ==
  \/ \E s \in Streams : Write(s)
  \/ ReadStdin \/ Fork \/ KidExits \/ CommandExits \/ CommandCrashes

EnvironmentStep ==
  DeliverKill \/ ExternalKill \/ OomKill \/ ForeignReap \/ Expire \/ HostDies

Next == ParentStep \/ ChildSetupStep \/ CommandStep \/ EnvironmentStep \/ Over

\* The scheduler runs the parent thread, time passes and the kernel delivers
\* SIGKILL.  Neither the child's setup nor the command owes anybody a step:
\* either may block for good.
Fairness ==
  /\ WF_vars(ParentStep)
  /\ WF_vars(Expire)
  /\ WF_vars(DeliverKill)

Spec     == Init /\ [][Next]_vars
FairSpec == Spec /\ Fairness

-----------------------------------------------------------------------------
(* Properties *)

ParentStates ==
  {"proxy", "pipes", "args", "clone", "close", "mappings", "create", "limit",
   "input", "signal", "read", "poll", "alive", "drain", "stats", "drop",
   "rmdir"} \cup Terminal

ChildStates == Live \cup {"none", "zombie"} \cup Collected

StatusType == [code : Nat, signal : Nat, ran : BOOLEAN]

ControlTypes ==
  /\ ppc \in ParentStates
  /\ outcome \in {"pending", "ok", "err", "panic"}
  /\ cpc \in ChildStates
  /\ cgroup \in {"none", "live", "gone", "stuck"}
  /\ {proxy, filtered, mapped, member, gateByte} \subseteq BOOLEAN
  /\ {pendingKill, oomKill, expired} \subseteq BOOLEAN

FdTypes == parentFds \subseteq AllFds /\ childFds \subseteq AllFds

\* The counters respect their bounds: in particular the pipes never hold more
\* than their capacity, whatever was killed in between.
CountTypes ==
  /\ call \in Calls
  /\ kids \in 0 .. MaxKids
  /\ limitsSet \subseteq call.limits
  /\ stdinWritten \in 0 .. call.input
  /\ stdinRead \in 0 .. stdinWritten
  /\ stdinWritten - stdinRead <= PipeCapacity

OutputTypes ==
  /\ status \in StatusType
  /\ result \in ExecutionResults
  /\ produced \in [Streams -> 0 .. MaxOutput]
  /\ \A s \in Streams : produced[s] - result.output[s] \in 0 .. PipeCapacity

\* Every variable has its type and every count its bound.
TypeOK == ControlTypes /\ FdTypes /\ CountTypes /\ OutputTypes

\* The parent has finished configuring the child.
Configured ==
  /\ mapped
  /\ call.limits # {} => cgroup = "live" /\ member /\ limitsSet = call.limits

\* No step of the child beyond the gate, and no step of the command, happens
\* before the identity maps are written and the child sits in a live cgroup
\* with every limit of the call; and it stays so for as long as it runs, also
\* when the parent fails, dies, or its ends of the pipes are closed early.
ConfinedBeyondGate == cpc \in BeyondGate => Configured

\* A result holds every chunk written to both streams, also the last ones
\* before the death of the command and those of its descendants.
OkOutputComplete == outcome = "ok" => result.output = produced

\* When execute has returned a result nothing of the sandbox is left: the
\* child is reaped, no descendant runs, no pipe end is open in the host or
\* in the sandbox, the cgroup is removed and the proxy is down.
OkLeavesNothing ==
  outcome = "ok" /\ ppc = "returned" =>
    /\ cpc = "reaped" /\ kids = 0
    /\ parentFds = {} /\ childFds = {}
    /\ cgroup \in {"none", "gone"}
    /\ ~proxy

\* A result that reports success() is never about anything but the command:
\* it was reached, ended by itself with exit code 0, and the
\* kernel killed nothing of it for lack of memory.
SuccessIsGenuine ==
  outcome = "ok" /\ Success(result) =>
    /\ status = [code |-> 0, signal |-> NoSignal, ran |-> TRUE]
    /\ ~oomKill

\* An OOM kill anywhere in the sandbox, of the child or of a descendant the
\* command survived, is in the result: the events are read before the cgroup
\* is removed and after the last process that could be killed is dead.
OomIsReported == outcome = "ok" /\ oomKill => result.killed_by_oom

\* wait_with_timeout sends SIGKILL once and never again, to one process, and
\* its comment relies on the PID namespace for the rest.  Nothing may escape
\* that one signal: for as long as the child or a descendant lives after it, a
\* SIGKILL is under way, also to a child that is still in its setup and to
\* descendants that are born later.
KillReachesAll ==
  result.killed_by_timeout /\ (cpc \in Live \/ kids > 0) => pendingKill

\* The parent waits for room in the stdin pipe, before its timer has started.
InputBlocked ==
  /\ ppc = "input"
  /\ stdinWritten < call.input
  /\ HasReader("stdin")
  /\ stdinWritten - stdinRead = PipeCapacity

\* Every call comes to an end, whatever the command does: the wall time limit
\* and SIGKILL see to it.  The one thing that can hold up a call for good is
\* an input larger than the pipe, whose reader waits for the parent.
ReturnsOrBlocked == <>(ppc \in Terminal) \/ <>[]InputBlocked

\* There is input left to write, and somebody who could read it.
Writing ==
  ppc = "input" /\ call.has_stdin /\ stdinWritten < call.input /\ HasReader("stdin")

\* Nothing but a full pipe holds up the parent, and nothing the time limit or
\* a kill.
ReadyStepsEnabled ==
  /\ ppc \notin Terminal /\ ~Writing => ENABLED <<ParentStep>>_vars
  /\ ppc \in {"read", "poll", "alive"} /\ ~expired => ENABLED <<Expire>>_vars
  /\ pendingKill /\ cpc \in Live => ENABLED <<DeliverKill>>_vars

-----------------------------------------------------------------------------
(* The contract of the trait *)

\* Where the caller, the command and the way it ended are in SandboxExecutor.
CallerView ==
  CASE ppc = "dead" -> "gone"
    [] ppc = "returned" -> IF outcome = "ok" THEN "answered" ELSE "failed"
    [] OTHER -> "waiting"

AnswerView == IF CallerView = "answered" THEN result ELSE NewResult

CommandView ==
  CASE cpc = "run" -> "running"
    [] cpc \in Collected \cup {"zombie"} -> "ended"
    [] OTHER -> "absent"

Contract ==
  INSTANCE SandboxExecutor WITH
    caller <- CallerView, answer <- AnswerView, command <- CommandView,
    ending <- [code |-> status.code, signal |-> status.signal],
    printed <- produced, garbled <- {}, late <- expired, starved <- oomKill

\* The executor does what the trait promises: one true answer, given when the
\* command has ended, after which nothing in the sandbox happens any more; and
\* no command starts or prints after an error.
ImplementsContract == Contract!Spec

-----------------------------------------------------------------------------
(* What the repository says of the program and the code does not do *)

\* tests/integration_test.rs, test_command_with_stdin: a command that has read
\* its whole input sees the end of it once execute has closed its own end.
InputEndReachesCommand ==
  /\ cpc = "run"
  /\ call.has_stdin
  /\ WriteEnd("stdin") \notin parentFds
  /\ stdinRead = stdinWritten
  => AtEof

=============================================================================
