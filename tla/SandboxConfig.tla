---------------------------- MODULE SandboxConfig ----------------------------
(***************************************************************************)
(* From a caller's wishes to what holds for its command: the setters and   *)
(* presets of the builder (src/builder.rs, src/sandbox.rs), check_support, *)
(* and what each executor makes of a configuration.  How the executors put *)
(* it in force, step by step, is in LinuxExecutor and PipedExecutor.       *)
(*                                                                         *)
(* An Option is a set, of its value if there is one.  Memory and file      *)
(* sizes are in MiB, times in milliseconds, CPU limits in millionths of a  *)
(* core.                                                                   *)
(***************************************************************************)
EXTENDS Naturals

CONSTANTS
  Platforms,  \* those to explore, of "linux", "macos", "windows"
  Values,     \* the numbers that limits are set to
  Sources,    \* directories of the host that callers name
  Nested,     \* pairs of paths, the first below the second
  Cores       \* the cores of the machine

LimitNames ==
  {"memory", "cpu", "wall_time", "cpu_time", "pids", "file_size", "open_files"}
Permissions == {"ReadOnly", "ReadWrite"}
Networks    == {"none", "host", "proxied"}
MountType   == [source : Sources, permission : Permissions]

\* "scratch" stands for the directories every command on macOS may write to.
Paths == Sources \cup {"/", "/tmp", "/workspace", "scratch"}

Options == {option \in SUBSET Nat : \A a, b \in option : a = b}

ConfigType ==
  [ limits  : [LimitNames -> Options],
    mounts  : SUBSET MountType,
    tmpfs   : SUBSET Paths,
    workdir : Paths,
    rootfs  : SUBSET Sources,
    network : Networks ]

VARIABLES
  platform,  \* where the program runs
  stage,     \* "building", "built", "refused", "failed", "running"
  config,    \* the configuration of the builder, then of the sandbox
  inForce,   \* the limits the command runs under
  writable,  \* the directories it may write to, as far as nanosandbox goes
  online     \* it can reach the network without the proxy

effects == <<inForce, writable, online>>
vars    == <<platform, stage, config, effects>>

-----------------------------------------------------------------------------
(* The builder *)

\* SandboxConfig::default
Default ==
  [ limits |-> [l \in LimitNames |-> IF l = "pids" THEN {64} ELSE {}],
    mounts |-> {}, tmpfs |-> {}, workdir |-> "/", rootfs |-> {},
    network |-> "none" ]

\* What the presets have in common.
Preset(mounts, memory, cpu, pids) ==
  [ Default EXCEPT
      !.mounts = mounts, !.tmpfs = {"/tmp"}, !.workdir = "/workspace",
      !.limits = [@ EXCEPT !["memory"] = {memory}, !["cpu"] = {cpu}, !["pids"] = {pids}] ]

WithLimit(c, l, value) == [c EXCEPT !.limits = [@ EXCEPT ![l] = {value}]]

Mount(source, permission) == [source |-> source, permission |-> permission]

DataAnalysis(in, out) ==
  WithLimit(Preset({Mount(in, "ReadOnly"), Mount(out, "ReadWrite")},
                   2048, 2000000, 100),
            "wall_time", 300000)
CodeJudge(code) ==
  WithLimit(WithLimit(Preset({Mount(code, "ReadOnly")}, 256, 1000000, 10),
                      "wall_time", 10000),
            "cpu_time", 5000)
AgentExecutor(workspace) ==
  WithLimit(Preset({Mount(workspace, "ReadWrite")}, 4096, 4000000, 256),
            "wall_time", 600000)
Interactive(workspace) ==
  Preset({Mount(workspace, "ReadWrite")}, 8192, 4000000, 512)

Presets ==
  {DataAnalysis(in, out) : in, out \in Sources}
    \cup UNION {{CodeJudge(s), AgentExecutor(s), Interactive(s)} : s \in Sources}

Building(c) == stage = "building" /\ config' = c /\ UNCHANGED <<platform, stage, effects>>

\* memory_limit, cpu_limit, .. max_open_files: the last call counts.
SetLimit(l, value) == Building(WithLimit(config, l, value))

\* mount, tmpfs: every call counts.
AddMount(source, permission) ==
  Building([config EXCEPT !.mounts = @ \cup {Mount(source, permission)}])
AddTmpfs(path) == Building([config EXCEPT !.tmpfs = @ \cup {path}])

SetWorkingDir(path) == Building([config EXCEPT !.workdir = path])
SetRootfs(source)   == Building([config EXCEPT !.rootfs = {source}])

\* no_network, host_network, allow_network
SetNetwork(mode) == Building([config EXCEPT !.network = mode])

\* build refuses a configuration for paths that are not there, and for what
\* the platform lacks altogether; check_support does not look at it.
Build ==
  /\ stage = "building"
  /\ stage' \in {"built", "refused"}
  /\ UNCHANGED <<platform, config, effects>>

-----------------------------------------------------------------------------
(* What the executors make of it *)

\* The path p is d or in it.
Below(p, d) == p = d \/ d = "/" \/ <<p, d>> \in Nested

\* timeout: an hour when nothing was asked for.
WallTime(limits) ==
  IF limits["wall_time"] = {} THEN {3600000} ELSE limits["wall_time"]

\* cpu.max has whole microseconds of a period of 100000, and the kernel takes
\* no less than 1000.
Quota(cpu) == cpu \div 10
QuotaType  == {n \in Nat : n >= 1000}

\* CpuRate has ten-thousandths of all the cores together.
CpuRate(cpu) == cpu \div 100
CpuRateType  == 1 .. 10000

\* RLIMIT_CPU has whole seconds, and is not set to 0.
CpuSeconds(limits) == {t \div 1000 : t \in limits["cpu_time"]} \ {0}

\* set_memory_limit, set_cpu_limit, set_pids_limit
LinuxLimits(limits) ==
  [ l \in LimitNames |->
      CASE l \in {"memory", "pids"} -> limits[l]
        [] l = "cpu"       -> {Quota(c) * 10 : c \in limits[l]}
        [] l = "wall_time" -> WallTime(limits)
        [] OTHER           -> {} ]

\* apply_resource_limits
MacLimits(limits) ==
  [ l \in LimitNames |->
      CASE l \in {"memory", "open_files", "file_size"} -> limits[l]
        [] l = "cpu_time"  -> {s * 1000 : s \in CpuSeconds(limits)}
        [] l = "wall_time" -> WallTime(limits)
        [] OTHER           -> {} ]

\* apply_job_limits
WindowsLimits(limits) ==
  [ l \in LimitNames |->
      CASE l = "memory"    -> limits[l]
        [] l = "cpu"       -> {CpuRate(c) * Cores * 100 : c \in limits[l]}
        [] l = "wall_time" -> WallTime(limits)
        [] OTHER           -> {} ]

\* A value of cpu.max or CpuRate that the kernel refuses fails the call;
\* errors of setrlimit are ignored.
PutInForce ==
  CASE platform = "linux" ->
         /\ {Quota(c) : c \in config.limits["cpu"]} \subseteq QuotaType
         /\ inForce' = LinuxLimits(config.limits)
    [] platform = "macos" ->
         \E lost \in SUBSET {"memory", "open_files", "file_size", "cpu_time"} :
           inForce' = [ l \in LimitNames |->
                          IF l \in lost THEN {} ELSE MacLimits(config.limits)[l] ]
    [] platform = "windows" ->
         /\ {CpuRate(c) : c \in config.limits["cpu"]} \subseteq CpuRateType
         /\ inForce' = WindowsLimits(config.limits)

\* The rules of generate_profile that allow writing.
WriteRules ==
  {"scratch", config.workdir} \cup config.tmpfs \cup config.rootfs
    \cup {m.source : m \in {n \in config.mounts : n.permission = "ReadWrite"}}

\* Linux mounts only in a root file system, where mount(2) ignores MS_RDONLY
\* because it comes with MS_BIND.  Windows does not restrict files.
Writable ==
  CASE platform = "linux" /\ config.rootfs # {} ->
         config.rootfs \cup {m.source : m \in config.mounts}
    [] platform = "macos" -> {p \in Paths : \E d \in WriteRules : Below(p, d)}
    [] OTHER -> Paths

\* CLONE_NEWNET on Linux, no rule for the network on macOS, nothing on Windows.
Online == platform = "windows" \/ config.network # "none"

\* execute gets as far as running the command ..
Run ==
  /\ stage = "built"
  /\ stage' = "running"
  /\ PutInForce
  /\ writable' = Writable
  /\ online' = Online
  /\ UNCHANGED <<platform, config>>

\* .. or not.
Fail ==
  /\ stage = "built"
  /\ stage' = "failed"
  /\ UNCHANGED <<platform, config, effects>>

Over == stage \in {"refused", "failed", "running"} /\ UNCHANGED vars

Init ==
  /\ platform \in Platforms
  /\ stage = "building"
  /\ config \in {Default} \cup Presets
  /\ inForce = [l \in LimitNames |-> {}]
  /\ writable = {}
  /\ online = FALSE

Next ==
  \/ \E l \in LimitNames, v \in Values \cap Nat : SetLimit(l, v)
  \/ \E s \in Sources : SetRootfs(s) \/ \E p \in Permissions : AddMount(s, p)
  \/ \E p \in Paths : AddTmpfs(p) \/ SetWorkingDir(p)
  \/ \E n \in Networks : SetNetwork(n)
  \/ Build \/ Run \/ Fail \/ Over

Spec == Init /\ [][Next]_vars

-----------------------------------------------------------------------------
(* Properties *)

TypeOK ==
  /\ platform \in Platforms
  /\ stage \in {"building", "built", "refused", "failed", "running"}
  /\ config \in ConfigType
  /\ inForce \in [LimitNames -> Options]
  /\ writable \subseteq Paths
  /\ online \in BOOLEAN

\* On Linux and macOS no conversion on the way from a setter to the kernel
\* loosens a limit: what is in force is at most what was asked for last.
ConversionsTighten ==
  stage = "running" /\ platform # "windows" =>
    \A l \in LimitNames : \A asked \in config.limits[l] : \A got \in inForce[l] :
      got <= asked

-----------------------------------------------------------------------------
(* What the repository says of the program and the code does not do *)

\* sandbox.rs, data_analysis ("Read-only input directory"): a command cannot
\* write to a directory that is only mounted ReadOnly.
ReadOnlyHolds ==
  stage = "running" =>
    \A s \in Sources :
      {m.permission : m \in {n \in config.mounts : n.source = s}} = {"ReadOnly"}
        => s \notin writable

=============================================================================
