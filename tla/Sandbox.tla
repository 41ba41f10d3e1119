------------------------------- MODULE Sandbox -------------------------------
(***************************************************************************)
(* A host process on Linux whose threads build sandboxes (src/builder.rs,  *)
(* src/sandbox.rs) and run commands in them at the same time.  What the    *)
(* runs share is in DescriptorTable, the host's descriptors, and in        *)
(* RootFilesystem, the directories they mount on.  Here are the checks the *)
(* builder makes once, and the order in which a thread and its child       *)
(* operate on what they share with the others.                             *)
(*                                                                         *)
(* A Sandbox has no state of its own that a run changes: threads that      *)
(* share one are threads that have built equal ones.  LinuxExecutor has    *)
(* the steps of one run in detail: mappings and cgroup are one step here,  *)
(* and output and timer are left out.                                      *)
(***************************************************************************)
EXTENDS Naturals

CONSTANTS
  Runs,   \* the threads: each builds a sandbox and runs one command
  Roots, Sources, NoRoot, Vanishing, Streams, TableSize, Free, Foreign,
  Calls,  \* what each may build and run, of CallType
  Taken,  \* the sets of descriptors the host may use for something else
  Times   \* what the clock may show

\* "big" input is more than a pipe holds.
CallType ==
  [ rootfs : Roots \cup {NoRoot},
    mounts : SUBSET Sources,
    input  : {"none", "small", "big"} ]

VARIABLES
  call,     \* what each thread builds and runs
  rpc,      \* where it is
  todo,     \* the pipes it has still to open, or the ends to close
  ids,      \* the identifier of its sandbox: a count and a time
  counter,  \* SANDBOX_COUNTER
  table, fd, copies,
  paths, oldRoots, spc, base, bound, hostRoot, raced, met, broken

T  == INSTANCE DescriptorTable
FS == INSTANCE RootFilesystem

ASSUME SandboxAssumption ==
  /\ T!TableConstants /\ FS!RootConstants
  /\ Calls \in [Runs -> SUBSET CallType] /\ Times # {}

idVars    == <<ids, counter>>
tableVars == <<table, fd, copies>>
fsVars    == <<paths, oldRoots, spc, base, bound, hostRoot, raced, met, broken>>
vars == <<call, rpc, todo, idVars, tableVars, fsVars>>

-----------------------------------------------------------------------------
(* SandboxBuilder::build *)

Goto(r, to)          == rpc' = [rpc EXCEPT ![r] = to] /\ UNCHANGED todo
Enter(r, to, things) == rpc' = [rpc EXCEPT ![r] = to] /\ todo' = [todo EXCEPT ![r] = things]

\* An early return: descriptors are not closed, and a child is left alone.
Fail(r) == Enter(r, "failed", {}) /\ T!ForgetFds(r) /\ UNCHANGED table

\* validate: the platform, the sources of the mounts, the root file system;
\* and check_support, which looks at the platform only.
Validate(r) ==
  /\ rpc[r] = "validate"
  /\ \/ /\ call[r].mounts \subseteq paths
        /\ call[r].rootfs \in paths \cup {NoRoot}
        /\ Goto(r, "count") /\ UNCHANGED <<table, fd>>
     \/ Fail(r)
  /\ UNCHANGED <<call, idVars, copies, fsVars>>

\* Mutant: the counter is read and written back in two steps.
Load == counter

\* fetch_add(1) leaves this in the counter.
FetchAdd == counter + 1

\* generate_sandbox_id: first the count ..
Count(r) ==
  /\ rpc[r] = "count"
  /\ Goto(r, "stamp")
  /\ ids' = [ids EXCEPT ![r] = [count |-> counter, time |-> ids[r].time]]
  /\ counter' = FetchAdd
  /\ UNCHANGED <<call, tableVars, fsVars>>

\* The pipes of a run.
PipesOf(r) ==
  Streams \cup {"ready"} \cup (IF call[r].input = "none" THEN {} ELSE {"stdin"})

\* .. then the time, which may have been set back meanwhile.  With that the
\* sandbox is built, and its run begins.
Stamp(r) ==
  /\ rpc[r] = "stamp"
  /\ \E t \in Times : ids' = [ids EXCEPT ![r] = [count |-> ids[r].count, time |-> t]]
  /\ Enter(r, "open", PipesOf(r))
  /\ UNCHANGED <<call, counter, tableVars, fsVars>>

-----------------------------------------------------------------------------
(* Sandbox::run: the thread *)

\* The order in which pipes are opened, and ends closed: the sync pipe first.
Rank == [stdout |-> 1, stderr |-> 2, ready |-> 3, stdin |-> 4]
FirstPipe(p, S) == p \in S /\ \A q \in S : Rank[p] <= Rank[q]
FirstEnd(e, S) ==
  /\ e \in S
  /\ \A f \in S : e[1] = "ready" \/ (f[1] # "ready" /\ Rank[e[1]] <= Rank[f[1]])

\* The ends that execute closes after clone ..
ChildEnds(r) ==
  ((PipesOf(r) \cap {"ready", "stdin"}) \X {"read"}) \cup (Streams \X {"write"})

\* Mutant: wait_with_timeout closes nothing.
NoEnds == {}

\* Mutant: everything is closed once more in the end.
AllReadEnds == (Streams \cup {"ready"}) \X {"read"}

\* .. and after the wait.
OutputEnds == Streams \X {"read"}

\* The next pipe().
OpenNext(r) ==
  /\ rpc[r] = "open"
  /\ \/ \E p \in todo[r] :
          /\ FirstPipe(p, todo[r])
          /\ T!OpenPipe(r, p)
          /\ Enter(r, IF todo[r] = {p} THEN "clone" ELSE "open", todo[r] \ {p})
     \/ T!TableFull /\ Fail(r) /\ UNCHANGED copies
  /\ UNCHANGED <<call, idVars, fsVars>>

\* The arguments are converted and the child is cloned.
Clone(r) ==
  /\ rpc[r] = "clone"
  /\ \/ /\ T!Inherit(r)
        /\ FS!Go(r, "gate")
        /\ Enter(r, "close", ChildEnds(r))
     \/ Fail(r) /\ UNCHANGED <<copies, spc>>
  /\ UNCHANGED <<call, idVars, paths, oldRoots, base, bound, hostRoot, raced,
                 met, broken>>

\* Where a run is when it has closed what it had to close.
AfterClosing(r) == IF rpc[r] = "close" THEN "configure" ELSE "returned"

\* e is done with: on to the next end, to the next phase, or out of execute.
Closed(r, e) ==
  /\ Enter(r, IF todo[r] = {e} THEN AfterClosing(r) ELSE rpc[r], todo[r] \ {e})
  /\ IF rpc[r] = "finish" /\ todo[r] = {e} THEN T!ForgetFds(r) ELSE UNCHANGED fd

\* The next close_raw: an error is returned, but ignored in the end.
CloseNext(r) ==
  /\ rpc[r] \in {"close", "finish"}
  /\ \E e \in todo[r] :
       /\ FirstEnd(e, todo[r])
       /\ \/ T!CloseFd(r, e) /\ Closed(r, e)
          \/ T!CloseFails(r, e) /\ rpc[r] = "close"  /\ Fail(r)
          \/ T!CloseFails(r, e) /\ rpc[r] = "finish" /\ Closed(r, e)
  /\ UNCHANGED <<call, idVars, copies, fsVars>>

\* close_raw(..)?, the last call of a step.
CloseThen(r, e, to) ==
  \/ T!CloseFd(r, e) /\ Goto(r, to) /\ UNCHANGED fd
  \/ T!CloseFails(r, e) /\ Fail(r)

\* write_mappings and the cgroup.
Configure(r) ==
  /\ rpc[r] = "configure"
  /\ \/ Goto(r, "input") /\ UNCHANGED <<table, fd>>
     \/ Fail(r)
  /\ UNCHANGED <<call, idVars, copies, fsVars>>

\* The input blocks the run as long as it does not fit and anybody, a child of
\* another run as well, could still read it.
InputBlocks(r) == call[r].input = "big" /\ T!HeldSomewhere(r, T!ReadEnd("stdin"))

\* Write the input and close the pipe.
WriteInput(r) ==
  /\ rpc[r] = "input"
  /\ ~InputBlocks(r)
  /\ IF call[r].input = "none"
     THEN Goto(r, "signal") /\ UNCHANGED <<table, fd>>
     ELSE CloseThen(r, T!WriteEnd("stdin"), "signal")
  /\ UNCHANGED <<call, idVars, copies, fsVars>>

\* The byte for the child, EPIPE when nobody at all could read it, and the
\* close of the pipe.
SignalChild(r) ==
  /\ rpc[r] = "signal"
  /\ IF T!HeldSomewhere(r, T!ReadEnd("ready"))
     THEN CloseThen(r, T!WriteEnd("ready"), "wait")
     ELSE Fail(r)
  /\ UNCHANGED <<call, idVars, copies, fsVars>>

\* Mutant: the streams are read to their end.
ReadToEnd(r) ==
  \A p \in Streams : ~T!HeldSomewhere(r, T!WriteEnd(p))

\* drain_fd takes what is there, whoever could still write.
DrainEnds(r) == TRUE

\* waitpid reaps the child, and the streams are drained.
Reap(r) ==
  /\ rpc[r] = "wait"
  /\ spc[r] = "zombie"
  /\ DrainEnds(r)
  /\ FS!Go(r, "reaped")
  /\ Enter(r, "finish", OutputEnds)
  /\ UNCHANGED <<call, idVars, tableVars, paths, oldRoots, base, bound, hostRoot,
                 raced, met, broken>>

-----------------------------------------------------------------------------
(* The child of a run *)

\* child_fn reads the byte and redirects its streams.  Mounts are set up only
\* in a root file system.
PassGate(r) ==
  /\ spc[r] = "gate"
  /\ rpc[r] = "wait"
  /\ T!Redirect(r)
  /\ FS!Go(r, IF call[r].rootfs = NoRoot THEN "run" ELSE "bind")
  /\ UNCHANGED <<call, rpc, todo, idVars, paths, oldRoots, base, bound, hostRoot,
                 raced, met, broken>>

\* A step of setup_mount_namespace, which may also fail and end the child.
SetUp(r) ==
  /\ \/ FS!BindRoot(r, call[r].rootfs)
     \/ \E p \in call[r].mounts : FS!BindMount(r, p)
     \/ FS!MakeOldRoot(r, call[r].mounts)
     \/ FS!Pivot(r) \/ FS!HideOldRoot(r) \/ FS!DetachOldRoot(r)
     \/ FS!RemoveOldRoot(r) \/ FS!LostOldRoot(r) \/ FS!Refused(r)
  /\ IF spc'[r] = "zombie" THEN T!DropCopies(r) ELSE UNCHANGED tableVars
  /\ UNCHANGED <<call, rpc, todo, idVars>>

\* The child is killed, by the timeout or by an outsider, or its command exits.
Die(r) ==
  /\ spc[r] \in FS!Living
  /\ FS!End(r)
  /\ T!DropCopies(r)
  /\ UNCHANGED <<call, rpc, todo, idVars, raced>>

-----------------------------------------------------------------------------
Vanish(p) == FS!Vanish(p) /\ UNCHANGED <<call, rpc, todo, idVars, tableVars>>

Ended(r) == rpc[r] \in {"returned", "failed"}

Over == (\A r \in Runs : Ended(r)) /\ UNCHANGED vars

\* Descriptors may be taken, also by what earlier runs left open.
Init ==
  /\ call \in [Runs -> CallType] /\ \A r \in Runs : call[r] \in Calls[r]
  /\ rpc = [r \in Runs |-> "validate"]
  /\ todo = [r \in Runs |-> {}]
  /\ ids = [r \in Runs |-> [count |-> 0, time |-> 0]]
  /\ counter = 0
  /\ \E taken \in Taken : T!TableInit(taken)
  /\ FS!FsInit

ThreadStep(r) ==
  \/ Validate(r) \/ Count(r) \/ Stamp(r)
  \/ OpenNext(r) \/ Clone(r) \/ CloseNext(r) \/ Configure(r) \/ WriteInput(r)
  \/ SignalChild(r) \/ Reap(r)

ChildStep(r) == PassGate(r) \/ SetUp(r) \/ Die(r)

Next ==
  \/ \E r \in Runs : ThreadStep(r) \/ ChildStep(r)
  \/ \E p \in Vanishing : Vanish(p)
  \/ Over

\* Threads are scheduled; the wall time limit ends the child of a run that
\* waits for it.
TimeOut(r)     == rpc[r] = "wait" /\ Die(r)
RunFairness(r) == WF_vars(ThreadStep(r)) /\ WF_vars(TimeOut(r))
Fairness       == \A r \in Runs : RunFairness(r)

Spec     == Init /\ [][Next]_vars
FairSpec == Spec /\ Fairness

-----------------------------------------------------------------------------
(* Properties *)

RunTypes ==
  /\ call \in [Runs -> CallType] /\ \A r \in Runs : call[r] \in Calls[r]
  /\ rpc \in [Runs -> {"validate", "count", "stamp", "open", "clone",
                       "close", "configure", "input", "signal", "wait", "finish",
                       "returned", "failed"}]
  /\ todo \in [Runs -> SUBSET (T!Pipes \cup T!Ends)]
  /\ ids \in [Runs -> [count : Nat, time : Times \cup {0}]]
  /\ counter \in Nat

TypeOK == RunTypes /\ T!TableTypes /\ FS!FsTypes

\* The sandbox of this run has been built.
Built(r) == rpc[r] \notin {"validate", "count", "stamp", "failed"}

\* No two sandboxes that threads of one process have built have the same
\* identifier, whatever the clock does between their two steps.
IdsAreUnique ==
  \A r, q \in Runs : r # q /\ Built(r) /\ Built(q) => ids[r] # ids[q]

\* The ends a run has open and goes on to use.
InUse(r) ==
  CASE rpc[r] = "open"   -> (PipesOf(r) \ todo[r]) \X {"read", "write"}
    [] rpc[r] = "clone"  -> PipesOf(r) \X {"read", "write"}
    [] rpc[r] = "close"  -> todo[r] \cup (PipesOf(r) \X {"read", "write"} \ ChildEnds(r))
    [] rpc[r] \in {"configure", "input"} -> PipesOf(r) \X {"read", "write"} \ ChildEnds(r)
    [] rpc[r] = "signal" -> OutputEnds \cup {T!WriteEnd("ready")}
    [] rpc[r] = "wait"   -> OutputEnds
    [] rpc[r] = "finish" -> todo[r]
    [] OTHER -> {}

\* Whatever other threads open and close, the numbers a run goes on to use
\* refer to its own pipes: no run writes to, reads from or closes a pipe of
\* another.
NumbersStayOwn == \A r \in Runs : \A e \in InUse(r) : T!Own(r, e)

\* What is left behind is left by a failure: a descriptor by a run that
\* returned an error, old_root by a child that ended in the middle.
OnlyFailuresLeave ==
  /\ \A n \in T!Fds, r \in Runs, e \in T!Ends :
       table[n] = <<r, e>> => rpc[r] = "failed" \/ e \in InUse(r)
  /\ \A root \in oldRoots :
       root \in broken \/ \E r \in Runs : spc[r] \in FS!Window /\ base[r] = root

\* A command with a root file system has all its mounts and no way to the
\* host's root, also when paths have vanished since they were checked and
\* other children remove the directory its setup works on.
CommandsConfined ==
  \A r \in Runs : spc[r] = "run" /\ call[r].rootfs # NoRoot =>
    hostRoot[r] = "nowhere" /\ base[r] = call[r].rootfs /\ bound[r] = call[r].mounts

\* A setup fails for want of old_root only if another run was setting up the
\* same root file system at that time: what earlier runs left does no harm.
LostOnlyTogether == raced \subseteq met

Stuck(r) == rpc[r] = "input" /\ InputBlocks(r)

\* Every call returns, unless its input is more than a pipe holds.  That the
\* children of other runs hold its pipes, also those that wait for ever since
\* their run has failed, does not keep it from returning.
ReturnsOrInputBlocks == \A r \in Runs : <>Ended(r) \/ <>[]Stuck(r)

\* Where a thread can go on: everywhere but before a reader of its input has
\* read, and before its child has ended.
ThreadReady(r) ==
  \/ rpc[r] \in {"validate", "count", "stamp", "clone", "configure", "signal"}
  \/ rpc[r] \in {"open", "close", "finish"} /\ todo[r] # {}
  \/ rpc[r] = "input" /\ ~InputBlocks(r)
  \/ rpc[r] = "wait" /\ spc[r] = "zombie"

\* Nothing else holds up a thread that can go on, nor the time limit.
ReadyRunsStep ==
  \A r \in Runs :
    /\ ThreadReady(r) => ENABLED <<ThreadStep(r)>>_vars
    /\ rpc[r] = "wait" /\ spc[r] \in FS!Living => ENABLED <<TimeOut(r)>>_vars

=============================================================================
