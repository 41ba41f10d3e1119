---------------------------- MODULE PipedExecutor ----------------------------
(***************************************************************************)
(* One call of MacOSExecutor::execute (src/platform/macos/mod.rs) or of    *)
(* WindowsExecutor::execute (src/platform/windows/mod.rs).  Both are built *)
(* on std::process: spawn, write the whole input, poll until the process   *)
(* has ended, then read its output to the end.  They differ in what ties   *)
(* the command's processes together: a process group, which the timeout    *)
(* kills, on macOS; a job object, which limits them, on Windows.           *)
(*                                                                         *)
(* Streams are counts of chunks, as in LinuxExecutor.  The processes of a  *)
(* call are the one that was spawned (Leader) and its descendants.         *)
(***************************************************************************)
EXTENDS Integers, FiniteSets, ExecutionResult

CONSTANTS
  Calls,         \* the calls to explore, a subset of CallType
  Faults,        \* what the environment may do, a subset of FaultKinds
  Leader, Kids,  \* the process that is spawned; names for its descendants
  PipeCapacity,  \* chunks a pipe holds
  MaxInput,      \* bound on the chunks of a call's standard input
  MaxOutput      \* bound on the chunks written to a stream

Platforms == {"macos", "windows"}

\* What a job object limits; every other limit is ignored on Windows.
JobLimits == {"memory", "cpu"}

CallType ==
  [ platform  : Platforms,
    has_stdin : BOOLEAN,
    input     : 0 .. MaxInput,
    limits    : SUBSET JobLimits,
    proxied   : BOOLEAN ]

\* "foreignReap": another part of the host collects the leader (macOS).
\* "waitError": asking for the state of the process fails (Windows).
FaultKinds == {"foreignReap", "waitError"}

ASSUME CallsAssumption == Calls \subseteq CallType
ASSUME FaultsAssumption == Faults \subseteq FaultKinds
ASSUME ProcsAssumption == Leader \notin Kids
ASSUME BoundsAssumption ==
  PipeCapacity \in Nat \ {0} /\ MaxInput \in Nat /\ MaxOutput \in Nat

Procs == {Leader} \cup Kids
Pipes == Streams \cup {"stdin"}

VARIABLES
  call,          \* the call under way
  \* --- the thread that runs execute
  ppc,           \* where it is
  result,        \* the result being filled in
  outcome,       \* "pending", or what execute returns: "ok", "err"
  proxy,         \* a ProxiedNetwork of this call is alive
  received,      \* chunks read from each stream
  stdinWritten,  \* chunks written to the stdin pipe
  \* --- the processes of the command
  leader,        \* "none", "launch" (sandbox-exec), "run", "zombie", or collected
  kids,          \* live descendants
  held,          \* pipes a live process has an end of
  status,        \* how the leader ended, and whether tied at that time
  stdinRead,     \* chunks read from standard input
  produced,      \* chunks written to each stream
  garbled,       \* streams something was written to that is not UTF-8
  \* --- the kernel
  tied,          \* live processes in the leader's process group / in the job
  jobLimits,     \* limits set on the job object
  doomed,        \* live processes a kill is under way to
  expired        \* the wall time limit has passed

parentVars  == <<ppc, result, outcome, proxy, received, stdinWritten>>
commandVars == <<leader, kids, held, status, stdinRead, produced, garbled>>
kernelVars  == <<tied, jobLimits, doomed, expired>>
vars == <<call, parentVars, commandVars, kernelVars>>

-----------------------------------------------------------------------------
(* Helpers *)

Mac == call.platform = "macos"

LeaderLives == leader \in {"launch", "run"}
Collected   == {"reaped", "stolen"}
Living      == kids \cup (IF LeaderLives THEN {Leader} ELSE {})

\* Somebody holds an end of pipe p apart from the executor.
Held(p) == \E q \in Living : p \in held[q]

\* An early return: the proxy and the Child, with its pipes, are dropped; a
\* process that was started is not killed by that.
Fail == outcome' = "err" /\ ppc' = "returned" /\ proxy' = FALSE

-----------------------------------------------------------------------------
(* From the start to the wait *)

\* ProxiedNetwork::setup(..)?
SetupProxy ==
  /\ ppc = "proxy"
  /\ \/ /\ proxy' = call.proxied
        /\ ppc' = "spawn"
        /\ UNCHANGED outcome
     \/ call.proxied /\ Fail
  /\ UNCHANGED <<call, result, received, stdinWritten, commandVars, kernelVars>>

\* Command::spawn.  On macOS pre_exec makes the process the leader of its own
\* group and sets its limits before sandbox-exec is executed; a failure up to
\* that point is an error of spawn, which leaves no process.  On Windows the
\* command runs at once.
Spawn ==
  /\ ppc = "spawn"
  /\ \/ /\ leader' = IF Mac THEN "launch" ELSE "run"
        /\ tied' = IF Mac THEN {Leader} ELSE {}
        /\ held' = [held EXCEPT ![Leader] =
                      Streams \cup (IF call.has_stdin THEN {"stdin"} ELSE {})]
        /\ ppc' = IF Mac THEN "input" ELSE "job"
        /\ UNCHANGED <<outcome, proxy>>
     \/ Fail /\ UNCHANGED <<leader, tied, held>>
  /\ UNCHANGED <<call, result, received, stdinWritten, kids, status, stdinRead,
                 produced, garbled, jobLimits, doomed, expired>>

\* apply_job_limits: CreateJobObjectW.
CreateJob ==
  /\ ppc = "job"
  /\ \/ ppc' = "limits" /\ UNCHANGED <<outcome, proxy>>
     \/ Fail
  /\ UNCHANGED <<call, result, received, stdinWritten, commandVars, kernelVars>>

\* .. SetInformationJobObject, first for memory, then for the CPU rate.
SetJobLimit ==
  /\ ppc = "limits"
  /\ jobLimits # call.limits
  /\ \/ /\ \E l \in call.limits \ jobLimits :
             /\ l = "cpu" => "memory" \notin call.limits \ jobLimits
             /\ jobLimits' = jobLimits \cup {l}
        /\ UNCHANGED <<ppc, outcome, proxy>>
     \/ Fail /\ UNCHANGED jobLimits
  /\ UNCHANGED <<call, result, received, stdinWritten, commandVars,
                 tied, doomed, expired>>

\* Mutant: the error of AssignProcessToJobObject is ignored.
AssignIgnored == ppc' = "input" /\ UNCHANGED <<outcome, proxy>>

\* The error of AssignProcessToJobObject is returned.
AssignError == Fail

\* .. AssignProcessToJobObject, refused for a process that has ended.  Only
\* descendants born from now on are in the job, too.
AssignJob ==
  /\ ppc = "limits"
  /\ jobLimits = call.limits
  /\ \/ /\ LeaderLives
        /\ tied' = tied \cup {Leader}
        /\ ppc' = "input"
        /\ UNCHANGED <<outcome, proxy>>
     \/ AssignError /\ UNCHANGED tied
  /\ UNCHANGED <<call, result, received, stdinWritten, commandVars,
                 jobLimits, doomed, expired>>

\* write_all of the input, one chunk after the other.
PushInput ==
  /\ ppc = "input"
  /\ stdinWritten < call.input
  /\ Held("stdin")
  /\ stdinWritten - stdinRead < PipeCapacity
  /\ stdinWritten' = stdinWritten + 1
  /\ UNCHANGED <<call, ppc, result, outcome, proxy, received, commandVars,
                 kernelVars>>

\* It is all written, or nobody holds the other end and the error is ignored;
\* the pipe is closed.
EndInput ==
  /\ ppc = "input"
  /\ stdinWritten = call.input \/ ~Held("stdin")
  /\ ppc' = "poll"
  /\ UNCHANGED <<call, result, outcome, proxy, received, stdinWritten,
                 commandVars, kernelVars>>

-----------------------------------------------------------------------------
(* wait_with_timeout *)

\* Mutant: only WIFEXITED is asked, and the signal is not recorded.
NoReportedSignal(st) == NoSignal

\* WEXITSTATUS, or -1 and WTERMSIG; Windows only has codes.
ReportedCode(st)   == IF st.signal = NoSignal THEN st.code ELSE -1
ReportedSignal(st) == st.signal

\* Mutant: the process is killed by its number, whatever has become of it.
KillSpawned == {Leader}

\* Mutant: only the process that was spawned is killed.
KillLeader == {Leader} \cap Living

\* Mutant: the group is killed, but sandbox-exec is not in it yet.
KillCommand == IF leader = "run" THEN tied ELSE {}

\* kill(-pid, SIGKILL) reaches the whole process group, TerminateProcess the
\* one process.
KillTargets == IF Mac THEN tied ELSE {Leader} \cap Living

\* wait4(WNOHANG) or try_wait.  On macOS an error kills the group and waits;
\* the wait finds nothing either.
Poll ==
  /\ ppc = "poll"
  /\ \/ /\ leader = "zombie"
        /\ leader' = "reaped"
        /\ result' = [result EXCEPT !.exit_code = ReportedCode(status),
                                    !.signal = ReportedSignal(status)]
        /\ ppc' = "stdout"
        /\ UNCHANGED <<outcome, proxy, doomed>>
     \/ /\ LeaderLives
        /\ ppc' = "alive"
        /\ UNCHANGED <<leader, result, outcome, proxy, doomed>>
     \/ /\ leader \in Collected
        /\ doomed' = doomed \cup KillTargets
        /\ Fail
        /\ UNCHANGED <<leader, result>>
     \/ /\ ~Mac /\ "waitError" \in Faults
        /\ Fail
        /\ UNCHANGED <<leader, result, doomed>>
  /\ UNCHANGED <<call, received, stdinWritten, kids, held, status, stdinRead,
                 produced, garbled, tied, jobLimits, expired>>

\* Mutant: the timeout goes on to the output without waiting for the process.
ReadAfterKill == IF result'.killed_by_timeout THEN "stdout" ELSE "poll"

\* The process is polled again also after the kill.
AfterCheck == "poll"

\* Past the limit: kill, once on macOS, at every round on Windows.
CheckTimeout ==
  /\ ppc = "alive"
  /\ IF expired /\ (Mac => ~result.killed_by_timeout)
     THEN /\ doomed' = doomed \cup KillTargets
          /\ result' = [result EXCEPT !.killed_by_timeout = TRUE]
     ELSE UNCHANGED <<doomed, result>>
  /\ ppc' = AfterCheck
  /\ UNCHANGED <<call, outcome, proxy, received, stdinWritten, commandVars,
                 tied, jobLimits, expired>>

\* Mutant: the read ends with the data that is there.
EmptyIsEnd(s) == received[s] = produced[s]

\* A stream has ended: it is empty and nobody can write to it any more.
AtEnd(s) == received[s] = produced[s] /\ ~Held(s)

\* read_to_string keeps nothing of a stream that is not UTF-8 throughout.
Text(s) == IF s \in garbled THEN 0 ELSE received[s]

\* read_to_string goes on: it takes what there is ..
ReadMore(s) ==
  /\ ppc = s
  /\ received[s] < produced[s]
  /\ received' = [received EXCEPT ![s] = produced[s]]
  /\ UNCHANGED <<call, ppc, result, outcome, proxy, stdinWritten, commandVars,
                 kernelVars>>

\* .. until the end; its error is ignored.  After stderr the result is
\* returned and the proxy dropped.
EndRead(s) ==
  /\ ppc = s
  /\ AtEnd(s)
  /\ result' = [result EXCEPT !.output[s] = Text(s)]
  /\ IF s = "stdout"
     THEN ppc' = "stderr" /\ UNCHANGED <<outcome, proxy>>
     ELSE ppc' = "returned" /\ outcome' = "ok" /\ proxy' = FALSE
  /\ UNCHANGED <<call, received, stdinWritten, commandVars, kernelVars>>

-----------------------------------------------------------------------------
(* The command and its descendants *)

\* Process q ends: it lets go of its pipes and of its group or job.
Gone(q) ==
  /\ held' = [held EXCEPT ![q] = {}]
  /\ tied' = tied \ {q}
  /\ doomed' = doomed \ {q}
  /\ UNCHANGED <<call, parentVars, stdinRead, produced, garbled, jobLimits, expired>>

\* The leader ends; its descendants do not end with it.
LeaderEnds(code, signal) ==
  /\ LeaderLives
  /\ leader' = "zombie"
  /\ status' = [code |-> code, signal |-> signal, tied |-> Leader \in tied]
  /\ Gone(Leader)
  /\ UNCHANGED kids

KidEnds(k) ==
  /\ k \in kids
  /\ kids' = kids \ {k}
  /\ Gone(k)
  /\ UNCHANGED <<leader, status>>

\* sandbox-exec becomes the command, or ends because it cannot.
Launch ==
  \/ /\ leader = "launch"
     /\ leader' = "run"
     /\ UNCHANGED <<call, parentVars, kids, held, status, stdinRead, produced,
                    garbled, kernelVars>>
  \/ leader = "launch" /\ LeaderEnds(71, NoSignal)

\* The processes that execute code of the command.
Running == Living \ (IF leader = "launch" THEN {Leader} ELSE {})

\* A child has the pipes of its parent and is in the same group or job.  A
\* process that is being killed has no children any more.
Fork(q) ==
  /\ q \in Running \ doomed
  /\ \E k \in Kids \ kids :
       /\ kids' = kids \cup {k}
       /\ held' = [held EXCEPT ![k] = held[q]]
       /\ tied' = IF q \in tied THEN tied \cup {k} ELSE tied
  /\ UNCHANGED <<call, parentVars, leader, status, stdinRead, produced, garbled,
                 jobLimits, doomed, expired>>

\* setpgid or setsid: a process leaves the group; there is no way out of a job.
LeaveGroup(q) ==
  /\ Mac
  /\ q \in Running \cap tied
  /\ tied' = tied \ {q}
  /\ UNCHANGED <<call, parentVars, commandVars, jobLimits, doomed, expired>>

\* A process closes or redirects its standard streams.
LetGo(q) ==
  /\ q \in Running
  /\ held[q] # {}
  /\ held' = [held EXCEPT ![q] = {}]
  /\ UNCHANGED <<call, parentVars, leader, kids, status, stdinRead, produced,
                 garbled, kernelVars>>

\* A chunk is written to a stream as long as there is room and a reader; it
\* may or may not be text.
Write(q, s) ==
  /\ q \in Running
  /\ s \in held[q]
  /\ ppc # "returned"
  /\ produced[s] < MaxOutput
  /\ produced[s] - received[s] < PipeCapacity
  /\ produced' = [produced EXCEPT ![s] = @ + 1]
  /\ garbled' \in {garbled, garbled \cup {s}}
  /\ UNCHANGED <<call, parentVars, leader, kids, held, status, stdinRead, kernelVars>>

ReadStdin(q) ==
  /\ q \in Running
  /\ "stdin" \in held[q]
  /\ stdinRead < stdinWritten
  /\ stdinRead' = stdinRead + 1
  /\ UNCHANGED <<call, parentVars, leader, kids, held, status, produced, garbled,
                 kernelVars>>

\* The command exits, or crashes: a signal on macOS, a code on Windows.
CommandEnds ==
  /\ leader = "run"
  /\ \/ \E code \in {0, 1} : LeaderEnds(code, NoSignal)
     \/ IF Mac THEN LeaderEnds(0, 11) ELSE LeaderEnds(5, NoSignal)

-----------------------------------------------------------------------------
(* The kernel and the environment *)

\* SIGKILL; TerminateProcess makes 1 the exit code.
DeliverKill(q) ==
  /\ q \in doomed
  /\ IF q = Leader
     THEN IF Mac THEN LeaderEnds(0, 9) ELSE LeaderEnds(1, NoSignal)
     ELSE KidEnds(q)

\* Another part of the host waits for any child.
ForeignReap ==
  /\ "foreignReap" \in Faults
  /\ Mac
  /\ leader = "zombie"
  /\ leader' = "stolen"
  /\ UNCHANGED <<call, parentVars, kids, held, status, stdinRead, produced,
                 garbled, kernelVars>>

\* The wall time limit passes; the clock starts when execute is called.
Expire ==
  /\ ppc # "returned"
  /\ ~expired
  /\ expired' = TRUE
  /\ UNCHANGED <<call, parentVars, commandVars, tied, jobLimits, doomed>>

Over == ppc = "returned" /\ UNCHANGED vars

-----------------------------------------------------------------------------
Init ==
  /\ call \in Calls
  /\ ppc = "proxy" /\ result = NewResult /\ outcome = "pending" /\ proxy = FALSE
  /\ received = [s \in Streams |-> 0] /\ stdinWritten = 0
  /\ leader = "none" /\ kids = {} /\ held = [q \in Procs |-> {}]
  /\ status = [code |-> 0, signal |-> NoSignal, tied |-> FALSE]
  /\ stdinRead = 0 /\ produced = [s \in Streams |-> 0] /\ garbled = {}
  /\ tied = {} /\ jobLimits = {} /\ doomed = {} /\ expired = FALSE

ParentStep ==
  \/ SetupProxy \/ Spawn \/ CreateJob \/ SetJobLimit \/ AssignJob
  \/ PushInput \/ EndInput \/ Poll \/ CheckTimeout
  \/ \E s \in Streams : ReadMore(s) \/ EndRead(s)

CommandStep ==
  \/ Launch \/ CommandEnds
  \/ \E k \in Kids : KidEnds(k)
  \/ \E q \in Procs : \/ Fork(q) \/ LeaveGroup(q) \/ LetGo(q) \/ ReadStdin(q)
                      \/ \E s \in Streams : Write(q, s)

EnvironmentStep ==
  \/ \E q \in Procs : DeliverKill(q)
  \/ ForeignReap
  \/ Expire

Next == ParentStep \/ CommandStep \/ EnvironmentStep \/ Over

\* As for LinuxExecutor: the thread is scheduled, time passes, kills arrive;
\* the command owes nobody a step.
KillFairness(q) == WF_vars(DeliverKill(q))
KillsArrive     == \A q \in Procs : KillFairness(q)

Fairness == WF_vars(ParentStep) /\ WF_vars(Expire) /\ KillsArrive

Spec     == Init /\ [][Next]_vars
FairSpec == Spec /\ Fairness

-----------------------------------------------------------------------------
(* Properties *)

ParentStates ==
  {"proxy", "spawn", "job", "limits", "input", "poll", "alive", "stdout",
   "stderr", "returned"}

ControlTypes ==
  /\ ppc \in ParentStates
  /\ outcome \in {"pending", "ok", "err"}
  /\ leader \in {"none", "launch", "run", "zombie"} \cup Collected
  /\ proxy \in BOOLEAN /\ expired \in BOOLEAN

ProcessTypes ==
  /\ kids \subseteq Kids
  /\ held \in [Procs -> SUBSET Pipes]
  /\ tied \subseteq Living
  /\ doomed \subseteq Living
  /\ jobLimits \subseteq call.limits
  /\ status \in [code : Nat, signal : Nat, tied : BOOLEAN]

CountTypes ==
  /\ call \in Calls
  /\ result \in ExecutionResults
  /\ stdinWritten \in 0 .. call.input
  /\ stdinRead \in 0 .. stdinWritten
  /\ stdinWritten - stdinRead <= PipeCapacity
  /\ produced \in [Streams -> 0 .. MaxOutput]
  /\ received \in [Streams -> 0 .. MaxOutput]
  /\ garbled \subseteq Streams
  /\ \A s \in Streams : produced[s] - received[s] \in 0 .. PipeCapacity

\* Every variable has its type; only live processes are grouped or killed.
TypeOK == ControlTypes /\ ProcessTypes /\ CountTypes

\* A result holds all that will ever be in the streams that are text: no
\* process that could still write to any stream is left, in or out of the
\* group, whatever the other stream holds.  What a stream that is not text
\* should come back as is LossyOutput.
OkOutputFinal ==
  outcome = "ok" =>
    \A s \in Streams :
      /\ ~Held(s)
      /\ s \notin garbled => result.output[s] = produced[s]

\* macOS never returns, with a result or an error, while the process it has
\* spawned runs or is a zombie; Windows does not return a result then.
LeaderCollected ==
  ppc = "returned" /\ (Mac \/ outcome = "ok") => leader \in Collected \cup {"none"}

\* A result on Windows is about a process that was in the job, with all its
\* limits set, before it ended, also if it ended quickly.
OkRanInJob ==
  outcome = "ok" /\ ~Mac => status.tied /\ jobLimits = call.limits

\* One kill of the process group is enough, although nothing repeats it: from
\* then on no process is in the group that is not being killed, whatever is
\* born, leaves, or has ended between the poll and the kill.
GroupKillReachesAll ==
  Mac /\ result.killed_by_timeout => tied \subseteq doomed

\* What can hold up a call: a full pipe nobody empties, a leader that has left
\* its own group, a descendant that keeps an output pipe open.
Obstructed ==
  \/ ppc = "input" /\ Held("stdin") /\ stdinWritten - stdinRead = PipeCapacity
  \/ ppc \in {"poll", "alive"} /\ Mac /\ LeaderLives /\ Leader \notin tied
  \/ ppc \in Streams /\ Held(ppc)

\* Every call returns, or is held up for good by one of these: nothing else
\* in the executors, no failure and no race with the timeout, makes them hang.
ReturnsOrObstructed == <>(ppc = "returned") \/ <>[]Obstructed

\* There is input left to write, and somebody who could read it.
Writing == ppc = "input" /\ stdinWritten < call.input /\ Held("stdin")

\* Where execute can go on: everywhere but before the end of a stream that is
\* empty and held, or a pipe that may be full.
ParentReady ==
  \/ ppc \in {"proxy", "spawn", "job", "limits", "alive"}
  \/ ppc = "input" /\ ~Writing
  \/ ppc = "poll" /\ leader # "none"
  \/ ppc \in Streams /\ (received[ppc] < produced[ppc] \/ AtEnd(ppc))

\* Nothing else holds up the thread, the time limit or a kill.
ReadyStepsEnabled ==
  /\ ParentReady => ENABLED <<ParentStep>>_vars
  /\ ppc # "returned" /\ ~expired => ENABLED <<Expire>>_vars
  /\ Leader \in doomed => ENABLED <<DeliverKill(Leader)>>_vars

-----------------------------------------------------------------------------
(* The contract of the trait *)

\* Where the caller and the command are in SandboxExecutor.
CallerView ==
  IF ppc # "returned" THEN "waiting"
  ELSE IF outcome = "ok" THEN "answered" ELSE "failed"

AnswerView == IF CallerView = "answered" THEN result ELSE NewResult

CommandView ==
  IF leader = "run" THEN "running"
  ELSE IF leader \in Collected \cup {"zombie"} THEN "ended" ELSE "absent"

Contract ==
  INSTANCE SandboxExecutor WITH
    caller <- CallerView, answer <- AnswerView, command <- CommandView,
    ending <- [code |-> status.code, signal |-> status.signal],
    printed <- produced, garbled <- garbled, late <- expired, starved <- FALSE

\* The executor does what the trait promises: one true answer, given when the
\* command has ended, after which nothing more is printed, by it or by a
\* descendant that outlives it; and no command starts after an error.  The
\* answer may leave out the streams that are not text (garbled), which
\* docs/API.md does not allow: LossyOutput.
ImplementsContract == Contract!Spec

-----------------------------------------------------------------------------
(* What the repository says of the program and the code does not do *)

\* docs/API.md, ExecutionResult: stdout and stderr are "lossy UTF-8", so a
\* chunk that is not UTF-8 is replaced and everything around it is kept.
LossyOutput ==
  outcome = "ok" => \A s \in Streams : result.output[s] = produced[s]

=============================================================================
