---------------------------- MODULE CgroupManager ----------------------------
(***************************************************************************)
(* Several executions with resource limits at the same time in one host:   *)
(* src/platform/linux/cgroup.rs as LinuxExecutor::execute uses it.  They   *)
(* share the cgroup file system, where a sandbox's directory is named      *)
(* after the process identifier of its child, and the kernel's allocation  *)
(* of process identifiers.  LinuxExecutor has the steps of one call in     *)
(* detail; here the three limits of a call are one step and its pipes and  *)
(* its timer are left out.                                                 *)
(***************************************************************************)
EXTENDS FiniteSets

CONSTANTS
  Runs,        \* the executions
  Pids,        \* the process identifiers the kernel hands out
  NoPid,       \* the identifier of a child that does not exist yet
  Hosts        \* the machines to explore, a subset of HostType

\* reuse: the kernel may hand out an identifier again once its process is
\* reaped; leftovers: directories of earlier hosts, now dead, may be there;
\* delegated: an administrator has certainly prepared the base cgroup.
HostType == [reuse : BOOLEAN, leftovers : BOOLEAN, delegated : BOOLEAN]

ASSUME HostsAssumption == Hosts \subseteq HostType
ASSUME NoPidAssumption == NoPid \notin Pids

VARIABLES
  host,         \* the machine
  rpc,          \* where each execution is
  pid,          \* its child's process identifier
  child,        \* its child
  report,       \* what it returned: "none" yet, "ok", "err"
  reportedOom,  \* the executions whose result says killed_by_oom
  baseExists,   \* /sys/fs/cgroup/nanobox exists
  baseEnabled,  \* .. and its own cgroup.subtree_control lists the controllers
  rootEnabled,  \* the root's cgroup.subtree_control lists them: all create does
  dirs,         \* nanobox/nanobox-<pid> exists
  oomDirs,      \* memory.events of the directory counts an OOM kill
  limited,      \* the executions whose limits are in force in their directory
  joined,       \* the executions whose child was written to cgroup.procs
  killedBy,     \* history: who signalled each execution's child
  oomHit        \* history: the executions that lost a process to the OOM killer

runVars    == <<rpc, pid, child, report, reportedOom>>
treeVars   == <<baseExists, baseEnabled, rootEnabled, dirs>>
memberVars == <<oomDirs, limited, joined>>
unseenVars == <<host, killedBy, oomHit>>   \* nothing the program reads
vars == <<runVars, treeVars, memberVars, unseenVars>>

-----------------------------------------------------------------------------
Alive == {"blocked", "running"}

\* Mutant: one directory for all executions.
SharedDir(r) == CHOOSE p \in Pids : TRUE

\* format!("nanobox-{}", child_pid)
Dir(r) == pid[r]

\* Mutant: processes are waited for that have died.
MembersEver(d) == {r \in joined : Dir(r) = d}

\* cgroup.procs of a directory: what was written to it and still lives.
Members(d) == {r \in joined : Dir(r) = d /\ child[r] \in Alive}

Goto(r, to) == rpc' = [rpc EXCEPT ![r] = to]

\* An early return before there is a manager: nothing is dropped.
FailEarly(r) ==
  /\ Goto(r, "returned")
  /\ report' = [report EXCEPT ![r] = "err"]

\* Mutant: errors of the cgroup files are ignored.
IgnoreError(r) == Goto(r, "signal") /\ UNCHANGED report

\* An early return after it: the manager is dropped.
FailLate(r) ==
  /\ Goto(r, "kill")
  /\ report' = [report EXCEPT ![r] = "err"]

\* The identifiers the kernel may give to a new process.
FreePids ==
  IF host.reuse
  THEN Pids \ {pid[r] : r \in {q \in Runs : child[q] \in Alive \cup {"zombie"}}}
  ELSE Pids \ {pid[r] : r \in Runs}

-----------------------------------------------------------------------------
(* CgroupManager::create *)

CloneChild(r) ==
  /\ rpc[r] = "clone"
  /\ \E p \in FreePids : pid' = [pid EXCEPT ![r] = p]
  /\ child' = [child EXCEPT ![r] = "blocked"]
  /\ Goto(r, "base")
  /\ UNCHANGED <<report, reportedOom, treeVars, memberVars, unseenVars>>

\* if !cgroup_base.exists()
CheckBase(r) ==
  /\ rpc[r] = "base"
  /\ Goto(r, IF baseExists THEN "mkdir" ELSE "mkbase")
  /\ UNCHANGED <<pid, child, report, reportedOom, treeVars, memberVars, unseenVars>>

\* create_dir_all(&cgroup_base): not an error when it exists by now.
MakeBase(r) ==
  /\ rpc[r] = "mkbase"
  /\ \/ baseExists' = TRUE /\ Goto(r, "enable") /\ UNCHANGED report
     \/ ~baseExists /\ FailEarly(r) /\ UNCHANGED baseExists
  /\ UNCHANGED <<pid, child, reportedOom, baseEnabled, rootEnabled, dirs,
                 memberVars, unseenVars>>

\* Enable every controller in the root's subtree_control; errors ignored.
EnableControllers(r) ==
  /\ rpc[r] = "enable"
  /\ rootEnabled' \in {rootEnabled, TRUE}
  /\ Goto(r, "mkdir")
  /\ UNCHANGED <<pid, child, report, reportedOom, baseExists, baseEnabled, dirs,
                 memberVars, unseenVars>>

\* create_dir_all(&path): a directory that is there already is taken over.
MakeDir(r) ==
  /\ rpc[r] = "mkdir"
  /\ \/ dirs' = dirs \cup {Dir(r)} /\ Goto(r, "limit") /\ UNCHANGED report
     \/ Dir(r) \notin dirs /\ FailEarly(r) /\ UNCHANGED dirs
  /\ UNCHANGED <<pid, child, reportedOom, baseExists, baseEnabled, rootEnabled,
                 memberVars, unseenVars>>

-----------------------------------------------------------------------------
(* Limits and membership *)

\* set_memory_limit, set_cpu_limit, set_pids_limit: the kernel has the files
\* only in a directory whose parent, the base, enables the controllers.
SetLimits(r) ==
  /\ rpc[r] = "limit"
  /\ \/ /\ Dir(r) \in dirs
        /\ baseEnabled
        /\ limited' = limited \cup {r}
        /\ Goto(r, "add")
        /\ UNCHANGED report
     \/ FailLate(r) /\ UNCHANGED limited
  /\ UNCHANGED <<pid, child, reportedOom, treeVars, oomDirs, joined, unseenVars>>

\* add_process
AddProcess(r) ==
  /\ rpc[r] = "add"
  /\ \/ /\ Dir(r) \in dirs
        /\ joined' = joined \cup {r}
        /\ Goto(r, "signal")
        /\ UNCHANGED report
     \/ FailLate(r) /\ UNCHANGED joined
  /\ UNCHANGED <<pid, child, reportedOom, treeVars, oomDirs, limited, unseenVars>>

\* Let the child go on; an error when it is dead.
SignalChild(r) ==
  /\ rpc[r] = "signal"
  /\ IF child[r] = "blocked"
     THEN /\ child' = [child EXCEPT ![r] = "running"]
          /\ Goto(r, "wait")
          /\ UNCHANGED report
     ELSE FailLate(r) /\ UNCHANGED child
  /\ UNCHANGED <<pid, reportedOom, treeVars, memberVars, unseenVars>>

\* wait_with_timeout returns: from here the identifier is free.
Reap(r) ==
  /\ rpc[r] = "wait"
  /\ child[r] = "zombie"
  /\ child' = [child EXCEPT ![r] = "reaped"]
  /\ Goto(r, "stats")
  /\ UNCHANGED <<pid, report, reportedOom, treeVars, memberVars, unseenVars>>

\* was_oom_killed: no directory, no events.
CollectStats(r) ==
  /\ rpc[r] = "stats"
  /\ reportedOom' = IF Dir(r) \in dirs \cap oomDirs THEN reportedOom \cup {r}
                                                    ELSE reportedOom
  /\ report' = [report EXCEPT ![r] = "ok"]
  /\ Goto(r, "kill")
  /\ UNCHANGED <<pid, child, treeVars, memberVars, unseenVars>>

-----------------------------------------------------------------------------
(* CgroupManager::drop *)

\* A round of kill_all: list cgroup.procs, signal every entry; the rounds are
\* bounded, so the loop may also end with members left.
KillRound(r) ==
  /\ rpc[r] = "kill"
  /\ killedBy' = [q \in Runs |-> IF q \in Members(Dir(r)) THEN killedBy[q] \cup {r}
                                                          ELSE killedBy[q]]
  /\ \E next \in IF Members(Dir(r)) = {} THEN {"rmdir"} ELSE {"kill", "rmdir"} :
       Goto(r, next)
  /\ UNCHANGED <<host, pid, child, report, reportedOom, treeVars, memberVars, oomHit>>

\* Mutant: the counters of a removed directory survive.
RemovedKeepingEvents(d) ==
  /\ dirs' = dirs \ {d}
  /\ limited' = {q \in limited : Dir(q) # d}
  /\ UNCHANGED oomDirs

\* A directory goes with its limits and its counters.
Removed(d) ==
  /\ dirs' = dirs \ {d}
  /\ limited' = {q \in limited : Dir(q) # d}
  /\ oomDirs' = oomDirs \ {d}

\* remove_dir after at most 50 polls; EBUSY and ENOENT are ignored.
RemoveDir(r) ==
  /\ rpc[r] = "rmdir"
  /\ IF Members(Dir(r)) = {}
     THEN Removed(Dir(r))
     ELSE UNCHANGED <<dirs, oomDirs, limited>>
  /\ Goto(r, "returned")
  /\ UNCHANGED <<pid, child, report, reportedOom, baseExists, baseEnabled,
                 rootEnabled, joined, unseenVars>>

-----------------------------------------------------------------------------
(* The kernel *)

\* The child dies: by itself, by its own execution's timeout or of a signal.
ChildDies(r) ==
  /\ child[r] \in Alive
  /\ child' = [child EXCEPT ![r] = "zombie"]
  /\ UNCHANGED <<rpc, pid, report, reportedOom, treeVars, memberVars, unseenVars>>

\* The cgroup of a running child exceeds its memory limit: the child or one of
\* its descendants is killed, and the directory's counter remembers.
OomKill(r) ==
  /\ r \in limited
  /\ r \in Members(Dir(r))
  /\ child[r] = "running"
  /\ child' \in {child, [child EXCEPT ![r] = "zombie"]}
  /\ oomDirs' = oomDirs \cup {Dir(r)}
  /\ oomHit' = oomHit \cup {r}
  /\ UNCHANGED <<host, rpc, pid, report, reportedOom, treeVars, limited, joined,
                 killedBy>>

AllReturned == (\A r \in Runs : rpc[r] = "returned") /\ UNCHANGED vars

Init ==
  /\ host \in Hosts
  /\ rpc = [r \in Runs |-> "clone"]
  /\ pid = [r \in Runs |-> NoPid]
  /\ child = [r \in Runs |-> "none"]
  /\ report = [r \in Runs |-> "none"]
  /\ reportedOom = {}
  /\ baseEnabled \in {host.delegated, TRUE}
  /\ baseExists \in {baseEnabled, TRUE}
  /\ rootEnabled \in {baseEnabled, TRUE}
  /\ dirs \in IF host.leftovers /\ baseExists THEN SUBSET Pids ELSE {{}}
  /\ oomDirs \in SUBSET dirs
  /\ limited = {}
  /\ joined = {}
  /\ killedBy = [r \in Runs |-> {}]
  /\ oomHit = {}

RunStep(r) ==
  \/ CloneChild(r) \/ CheckBase(r) \/ MakeBase(r) \/ EnableControllers(r)
  \/ MakeDir(r) \/ SetLimits(r) \/ AddProcess(r) \/ SignalChild(r)
  \/ Reap(r) \/ CollectStats(r) \/ KillRound(r) \/ RemoveDir(r)

KernelStep(r) == ChildDies(r) \/ OomKill(r)

Next == (\E r \in Runs : RunStep(r) \/ KernelStep(r)) \/ AllReturned

Spec == Init /\ [][Next]_vars

-----------------------------------------------------------------------------
(* Properties *)

TypeOK ==
  /\ host \in Hosts
  /\ rpc \in [Runs -> {"clone", "base", "mkbase", "enable", "mkdir", "limit",
                       "add", "signal", "wait", "stats", "kill", "rmdir",
                       "returned"}]
  /\ pid \in [Runs -> Pids \cup {NoPid}]
  /\ child \in [Runs -> Alive \cup {"none", "zombie", "reaped"}]
  /\ report \in [Runs -> {"none", "ok", "err"}]
  /\ reportedOom \subseteq Runs
  /\ baseExists \in BOOLEAN /\ baseEnabled \in BOOLEAN /\ rootEnabled \in BOOLEAN
  /\ dirs \subseteq Pids
  /\ oomDirs \subseteq dirs
  /\ limited \subseteq Runs
  /\ joined \subseteq Runs
  /\ killedBy \in [Runs -> SUBSET Runs]
  /\ oomHit \subseteq Runs

\* Whatever other executions create and remove, and even when identifiers are
\* reused or directories were left behind, a command only runs inside an
\* existing directory in which its own execution's limits are in force.
RunsLimited ==
  \A r \in Runs : child[r] = "running" =>
    Dir(r) \in dirs /\ r \in limited /\ r \in joined

\* No directory can have the name of another execution's.
NamesAreFresh == ~host.reuse /\ ~host.leftovers

\* Cleanup signals every process in the directory, which may by then be another
\* execution's.  That takes an identifier the kernel has given out again, and a
\* cleaner that has reaped its own child and holds a result: one that fails
\* early, or gives up between any two steps, harms nobody, also where it has
\* taken over a directory that was left behind.
CleanupKillsOnlyReused ==
  \A r \in Runs : \A q \in killedBy[r] \ {r} :
    /\ host.reuse /\ pid[q] = pid[r]
    /\ child[q] = "reaped" /\ report[q] = "ok"

\* Where names are fresh a result says killed_by_oom exactly when the execution's own sandbox
\* lost a process to the OOM killer.
OomAttributed ==
  NamesAreFresh =>
    \A r \in Runs : report[r] = "ok" => (r \in reportedOom <=> r \in oomHit)

\* There an execution that returned a result has removed its directory.
DirRemoved ==
  NamesAreFresh =>
    \A r \in Runs : rpc[r] = "returned" /\ report[r] = "ok" => Dir(r) \notin dirs

=============================================================================
