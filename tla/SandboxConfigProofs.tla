------------------------- MODULE SandboxConfigProofs -------------------------
(***************************************************************************)
(* No conversion loosens a limit, for every configuration that setters and *)
(* presets can make.                                                       *)
(***************************************************************************)
EXTENDS SandboxConfig, TLAPS

\* The builder's configuration is one.
Configured == config \in ConfigType

LEMMA DefaultType == Default \in ConfigType
  BY DEF Default, ConfigType, Options, LimitNames, Paths, Networks

\* A setter of a limit changes a configuration into another.
LEMMA WithLimitType ==
  ASSUME NEW c \in ConfigType, NEW l \in LimitNames, NEW value \in Nat
  PROVE  WithLimit(c, l, value) \in ConfigType
  BY DEF WithLimit, ConfigType, Options

\* What the presets have in common is a configuration.
LEMMA PresetType ==
  ASSUME NEW mounts \in SUBSET MountType,
         NEW memory \in Nat, NEW cpu \in Nat, NEW pids \in Nat
  PROVE  Preset(mounts, memory, cpu, pids) \in ConfigType
<1>1. {"/tmp"} \in SUBSET Paths /\ "/workspace" \in Paths
  BY DEF Paths
<1>2. /\ {memory} \in Options /\ {cpu} \in Options /\ {pids} \in Options
      /\ Default.limits \in [LimitNames -> Options]
  BY DefaultType DEF Options, ConfigType
<1>3. [Default.limits EXCEPT !["memory"] = {memory}, !["cpu"] = {cpu}, !["pids"] = {pids}]
        \in [LimitNames -> Options]
  BY <1>2
<1> QED BY <1>1, <1>3, DefaultType DEF Preset, ConfigType

LEMMA MountOfType ==
  ASSUME NEW s \in Sources, NEW p \in Permissions
  PROVE  Mount(s, p) \in MountType
  BY DEF Mount, MountType

\* The presets are configurations.
LEMMA PresetsType == Presets \subseteq ConfigType
<1> USE DEF Permissions
<1>1. ASSUME NEW in \in Sources, NEW out \in Sources
      PROVE  DataAnalysis(in, out) \in ConfigType
  <2>1. {Mount(in, "ReadOnly"), Mount(out, "ReadWrite")} \in SUBSET MountType
    BY MountOfType
  <2>2. Preset({Mount(in, "ReadOnly"), Mount(out, "ReadWrite")}, 2048, 2000000, 100)
          \in ConfigType
    BY <2>1, PresetType
  <2> QED BY <2>2, WithLimitType DEF DataAnalysis, LimitNames
<1>2. ASSUME NEW s \in Sources PROVE CodeJudge(s) \in ConfigType
  <2>1. {Mount(s, "ReadOnly")} \in SUBSET MountType
    BY MountOfType
  <2>2. Preset({Mount(s, "ReadOnly")}, 256, 1000000, 10) \in ConfigType
    BY <2>1, PresetType
  <2>3. WithLimit(Preset({Mount(s, "ReadOnly")}, 256, 1000000, 10),
                  "wall_time", 10000) \in ConfigType
    BY <2>2, WithLimitType DEF LimitNames
  <2> QED BY <2>3, WithLimitType DEF CodeJudge, LimitNames
<1>3. ASSUME NEW s \in Sources PROVE AgentExecutor(s) \in ConfigType
  <2>1. {Mount(s, "ReadWrite")} \in SUBSET MountType
    BY MountOfType
  <2>2. Preset({Mount(s, "ReadWrite")}, 4096, 4000000, 256) \in ConfigType
    BY <2>1, PresetType
  <2> QED BY <2>2, WithLimitType DEF AgentExecutor, LimitNames
<1>4. ASSUME NEW s \in Sources PROVE Interactive(s) \in ConfigType
  <2>1. {Mount(s, "ReadWrite")} \in SUBSET MountType
    BY MountOfType
  <2> QED BY <2>1, PresetType DEF Interactive
<1> QED BY <1>1, <1>2, <1>3, <1>4 DEF Presets

\* Setters make configurations out of configurations.
LEMMA ConfiguredStep == Configured /\ [Next]_vars => Configured'
<1> SUFFICES ASSUME Configured, [Next]_vars PROVE Configured'
  OBVIOUS
<1> USE DEF Configured
<1>1. ASSUME NEW l \in LimitNames, NEW v \in Values \cap Nat, SetLimit(l, v)
      PROVE  Configured'
  BY <1>1, WithLimitType DEF SetLimit, Building
<1>2. ASSUME NEW s \in Sources, SetRootfs(s) PROVE Configured'
  BY <1>2 DEF SetRootfs, Building, ConfigType
<1>3. ASSUME NEW s \in Sources, NEW p \in Permissions, AddMount(s, p)
      PROVE  Configured'
  BY <1>3, MountOfType DEF AddMount, Building, ConfigType
<1>4. ASSUME NEW p \in Paths, AddTmpfs(p) \/ SetWorkingDir(p) PROVE Configured'
  BY <1>4 DEF AddTmpfs, SetWorkingDir, Building, ConfigType
<1>5. ASSUME NEW n \in Networks, SetNetwork(n) PROVE Configured'
  BY <1>5 DEF SetNetwork, Building, ConfigType
<1>6. CASE Build \/ Run \/ Fail \/ Over \/ UNCHANGED vars
  BY <1>6 DEF Build, Run, Fail, Over, vars
<1> QED BY <1>1, <1>2, <1>3, <1>4, <1>5, <1>6 DEF Next

\* Only Run starts a command, and nothing changes its configuration or what is
\* in force then.
LEMMA RunningStays ==
  ASSUME [Next]_vars, stage' = "running"
  PROVE  \/ Run
         \/ stage = "running" /\ UNCHANGED <<platform, config, inForce>>
  BY DEF Next, SetLimit, SetRootfs, AddMount, AddTmpfs, SetWorkingDir, SetNetwork,
         Building, Build, Fail, Over, vars, effects

\* Rounding down.
LEMMA Rounding ==
  ASSUME NEW n \in Nat
  PROVE  (n \div 10) * 10 <= n /\ (n \div 1000) * 1000 <= n
  OBVIOUS

\* What Linux is given is no more than was asked for.
LEMMA LinuxTightens ==
  ASSUME NEW limits \in [LimitNames -> Options], NEW l \in LimitNames,
         NEW asked \in limits[l], NEW got \in LinuxLimits(limits)[l]
  PROVE  got <= asked
<1>1. asked \in Nat /\ \A x \in limits[l] : x = asked
  BY DEF Options
<1>2. CASE l = "cpu"
  <2>1. got = Quota(asked) * 10
    BY <1>1, <1>2 DEF LinuxLimits
  <2> QED BY <1>1, <2>1, Rounding DEF Quota
<1>3. CASE l # "cpu"
  <2>1. got \in limits[l]
    BY <1>3 DEF LinuxLimits, WallTime
  <2> QED BY <1>1, <2>1
<1> QED BY <1>2, <1>3

\* What macOS is given is no more than was asked for.
LEMMA MacTightens ==
  ASSUME NEW limits \in [LimitNames -> Options], NEW l \in LimitNames,
         NEW asked \in limits[l], NEW got \in MacLimits(limits)[l]
  PROVE  got <= asked
<1>1. asked \in Nat /\ \A x \in limits[l] : x = asked
  BY DEF Options
<1>2. CASE l = "cpu_time"
  <2>1. got = (asked \div 1000) * 1000
    BY <1>1, <1>2 DEF MacLimits, CpuSeconds
  <2> QED BY <1>1, <2>1, Rounding
<1>3. CASE l # "cpu_time"
  <2>1. got \in limits[l]
    BY <1>3 DEF MacLimits, WallTime
  <2> QED BY <1>1, <2>1
<1> QED BY <1>2, <1>3

\* A run that starts has no limit beyond what was asked for.
LEMMA RunTightens == Configured /\ platform \in {"linux", "macos", "windows"} /\ Run
                     => ConversionsTighten'
<1> SUFFICES ASSUME Configured, Run, platform # "windows",
                    platform \in {"linux", "macos", "windows"},
                    NEW l \in LimitNames, NEW asked \in config.limits[l],
                    NEW got \in inForce'[l]
             PROVE  got <= asked
  BY DEF ConversionsTighten, Run
<1>1. config.limits \in [LimitNames -> Options]
  BY DEF Configured, ConfigType
<1>2. CASE platform = "linux"
  <2>1. inForce' = LinuxLimits(config.limits)
    BY <1>2 DEF Run, PutInForce
  <2> QED BY <1>1, <2>1, LinuxTightens
<1>3. CASE platform = "macos"
  <2>1. got \in MacLimits(config.limits)[l]
    BY <1>3 DEF Run, PutInForce
  <2> QED BY <1>1, <2>1, MacTightens
<1> QED BY <1>2, <1>3

\* For every configuration that can be built, on Linux and macOS, every limit
\* in force is at least as tight as the one that was asked for.
THEOREM Tightens ==
  ASSUME Platforms \subseteq {"linux", "macos", "windows"}
  PROVE  Spec => []ConversionsTighten
<1> DEFINE Inv == /\ Configured
                  /\ platform \in {"linux", "macos", "windows"}
                  /\ ConversionsTighten
<1>1. Init => Inv
  BY DefaultType, PresetsType DEF Init, Configured, ConversionsTighten
<1>2. Inv /\ [Next]_vars => Inv'
  <2> SUFFICES ASSUME Inv, [Next]_vars PROVE Inv'
    OBVIOUS
  <2>1. Configured'
    BY ConfiguredStep
  <2>2. UNCHANGED platform
    BY DEF Next, SetLimit, SetRootfs, AddMount, AddTmpfs, SetWorkingDir,
           SetNetwork, Building, Build, Run, Fail, Over, vars
  <2>3. ConversionsTighten'
    <3>1. CASE Run
      BY <3>1, RunTightens
    <3>2. CASE stage' # "running"
      BY <3>2 DEF ConversionsTighten
    <3>3. CASE stage = "running" /\ UNCHANGED <<platform, config, inForce>>
      BY <3>3 DEF ConversionsTighten
    <3> QED BY <3>1, <3>2, <3>3, RunningStays
  <2> QED BY <2>1, <2>2, <2>3
<1>3. Inv => ConversionsTighten
  OBVIOUS
<1> QED BY <1>1, <1>2, <1>3, PTL DEF Spec

-----------------------------------------------------------------------------
(* Types *)

\* The conversions make limits out of limits.
LEMMA LimitTypes ==
  ASSUME NEW limits \in [LimitNames -> Options], Cores \in Nat
  PROVE  /\ LinuxLimits(limits) \in [LimitNames -> Options]
         /\ MacLimits(limits) \in [LimitNames -> Options]
         /\ WindowsLimits(limits) \in [LimitNames -> Options]
<1>1. WallTime(limits) \in Options /\ {} \in Options
  BY DEF WallTime, Options, LimitNames
<1>2. /\ {Quota(c) * 10 : c \in limits["cpu"]} \in Options
      /\ {CpuRate(c) * Cores * 100 : c \in limits["cpu"]} \in Options
  <2>1. limits["cpu"] \subseteq Nat /\ \A a, b \in limits["cpu"] : a = b
    BY DEF Options, LimitNames
  <2>2. \A c \in Nat : Quota(c) * 10 \in Nat /\ CpuRate(c) * Cores * 100 \in Nat
    <3>1. \A c \in Nat : Quota(c) \in Nat /\ CpuRate(c) \in Nat
      BY DEF Quota, CpuRate
    <3>2. \A m, n \in Nat : m * n \in Nat
      OBVIOUS
    <3> QED BY <3>1, <3>2
  <2> QED BY <2>1, <2>2 DEF Options
<1>3. {s * 1000 : s \in CpuSeconds(limits)} \in Options
  <2>1. limits["cpu_time"] \subseteq Nat /\ \A a, b \in limits["cpu_time"] : a = b
    BY DEF Options, LimitNames
  <2>2. CpuSeconds(limits) \subseteq Nat /\ \A a, b \in CpuSeconds(limits) : a = b
    BY <2>1 DEF CpuSeconds
  <2> QED BY <2>2 DEF Options
<1>4. \A l \in LimitNames : limits[l] \in Options
  OBVIOUS
<1>5. \A l \in LimitNames : LinuxLimits(limits)[l] \in Options
  BY <1>1, <1>2, <1>4 DEF LinuxLimits
<1>6. \A l \in LimitNames : MacLimits(limits)[l] \in Options
  BY <1>1, <1>3, <1>4 DEF MacLimits
<1>7. \A l \in LimitNames : WindowsLimits(limits)[l] \in Options
  BY <1>1, <1>2, <1>4 DEF WindowsLimits
<1> QED BY <1>5, <1>6, <1>7 DEF LinuxLimits, MacLimits, WindowsLimits

\* A run sets the effects to what they may be.
LEMMA RunTypes ==
  ASSUME TypeOK, Run, Cores \in Nat, platform \in {"linux", "macos", "windows"}
  PROVE  inForce' \in [LimitNames -> Options] /\ writable' \subseteq Paths /\ online' \in BOOLEAN
<1>1. /\ config.limits \in [LimitNames -> Options] /\ config.rootfs \subseteq Sources
      /\ config.mounts \subseteq MountType
  BY DEF TypeOK, ConfigType
<1>2. inForce' \in [LimitNames -> Options]
  <2>1. CASE platform = "macos"
    <3>1. \A l \in LimitNames : MacLimits(config.limits)[l] \in Options /\ {} \in Options
      BY <1>1, LimitTypes DEF Options
    <3>2. PICK lost \in SUBSET {"memory", "open_files", "file_size", "cpu_time"} :
            inForce' = [l \in LimitNames |->
                          IF l \in lost THEN {} ELSE MacLimits(config.limits)[l]]
      BY <2>1 DEF Run, PutInForce
    <3> QED BY <3>1, <3>2
  <2>2. CASE platform # "macos"
    BY <1>1, <2>2, LimitTypes DEF Run, PutInForce
  <2> QED BY <2>1, <2>2
<1>3. writable' \subseteq Paths
  <2>1. {m.source : m \in config.mounts} \subseteq Paths /\ config.rootfs \subseteq Paths
    BY <1>1 DEF MountType, Paths
  <2> QED BY <2>1 DEF Run, Writable
<1>4. online' \in BOOLEAN
  BY DEF Run, Online
<1> QED BY <1>2, <1>3, <1>4

\* Whatever is called in whatever order, a configuration stays one, with at
\* most one value for every limit, and so do the limits made of it.
THEOREM TypeCorrect ==
  ASSUME Platforms \subseteq {"linux", "macos", "windows"}, Cores \in Nat
  PROVE  Spec => []TypeOK
<1>1. Init => TypeOK
  BY DefaultType, PresetsType DEF Init, TypeOK, Options
<1>2. TypeOK /\ [Next]_vars => TypeOK'
  <2> SUFFICES ASSUME TypeOK, [Next]_vars PROVE TypeOK'
    OBVIOUS
  <2>1. config' \in ConfigType
    BY ConfiguredStep DEF Configured, TypeOK
  <2>2. CASE Run
    BY <2>1, <2>2, RunTypes DEF TypeOK, Run
  <2>3. CASE ~Run
    BY <2>1, <2>3
    DEF TypeOK, Next, SetLimit, SetRootfs, AddMount, AddTmpfs, SetWorkingDir,
        SetNetwork, Building, Build, Fail, Over, vars, effects
  <2> QED BY <2>2, <2>3
<1> QED BY <1>1, <1>2, PTL DEF Spec

=============================================================================
