------------------------- MODULE LinuxExecutorProofs -------------------------
(***************************************************************************)
(* The safety of one execution, for every set of calls, of faults and of   *)
(* bounds.  The theorems at the end follow from Inv, an inductive          *)
(* invariant whose parts say how far the parent and the child can be       *)
(* apart.                                                                  *)
(***************************************************************************)
EXTENDS LinuxExecutor, TLAPS

Early   == {"proxy", "pipes", "args", "clone"}
Setup   == {"close", "mappings", "create", "limit", "input", "signal"}
Waiting == {"read", "poll", "alive"}
Ending  == {"drain", "stats", "drop", "rmdir", "returned"}
Gone    == Collected \cup {"zombie"}

\* The child does not exist before clone and stays at the gate until the
\* parent signals; once the parent stopped waiting it never leaves the gate.
InStep ==
  /\ ppc \in Early => cpc = "none"
  /\ ppc \in Setup => cpc \in {"gate"} \cup Gone
  /\ ppc \in Early \cup Setup => ~gateByte
  /\ ppc \in Ending => cpc \notin BeyondGate
  /\ ppc \in Ending /\ cpc = "gate" => ~gateByte
  /\ ppc \in {"drain", "stats"} => cpc = "reaped"

\* The gate opens only by the parent's byte: the child's own copy of the
\* write end keeps it from seeing an end of file.
GateHeld ==
  /\ ppc \in {"args", "clone"} => WriteEnd("ready") \in parentFds
  /\ cpc = "gate" => WriteEnd("ready") \in childFds

\* How much of the setup is done where the parent is, and that whoever has
\* passed the gate, or is about to, is configured.
SetupOrder ==
  /\ ppc \in {"create", "limit"} => mapped /\ NeedsCgroup(call)
  /\ ppc = "limit" => cgroup = "live"
  /\ ppc \in {"input", "signal"} => Configured
  /\ cpc = "gate" /\ gateByte => Configured
  /\ cpc \in BeyondGate => Configured

\* Processes only die as a group, and what they held open goes with them.
Namespace ==
  /\ kids > 0 => cpc = "run"
  /\ cpc \in Gone \cup {"none"} => childFds = {}
  /\ cpc = "none" => /\ ppc \in Early \cup {"drop", "returned", "dead"}
                     /\ cgroup = "none"

OutEnds == {ReadEnd("stdout"), ReadEnd("stderr")}

\* The ends the parent still has open, by where it is.
ParentEnds ==
  /\ ppc \in {"mappings", "create", "limit", "input"} =>
       parentFds \subseteq OutEnds \cup {WriteEnd("ready"), WriteEnd("stdin")}
  /\ ppc = "signal" => parentFds \subseteq OutEnds \cup {WriteEnd("ready")}
  /\ ppc \in Waiting \cup {"drain"} => parentFds \subseteq OutEnds
  /\ ppc = "stats" \/ outcome = "ok" => parentFds = {}

\* The cgroup is there from the child's entry until the end of the call.
CgroupLife ==
  /\ cgroup = "none" => ~member
  /\ cgroup \in {"gone", "stuck"} => ppc = "returned"
  /\ ppc = "rmdir" => cgroup = "live"
  /\ ppc = "returned" => cgroup # "live" /\ ~proxy
  /\ cgroup = "stuck" => outcome # "ok"
  /\ oomKill => member

\* What a result is made of.
ResultParts ==
  /\ outcome = "ok" => /\ ppc \in {"drop", "rmdir", "returned", "dead"}
                       /\ cpc = "reaped"
  /\ ppc = "stats" \/ outcome = "ok" => result.output = produced
  /\ ppc \in {"drain", "stats"} \/ outcome = "ok" =>
       /\ result.exit_code = ReportedCode(status)
       /\ result.signal = ReportedSignal(status)
  /\ outcome = "ok" => (oomKill => result.killed_by_oom)
  /\ cpc \in Gone /\ status.code = 0 /\ status.signal = NoSignal => status.ran

\* Once its own waitpid has reaped the child, the parent stops waiting.
OwnZombie == cpc = "reaped" => ppc \in Ending \cup {"dead"}

Inv ==
  /\ TypeOK
  /\ InStep
  /\ GateHeld
  /\ SetupOrder
  /\ Namespace
  /\ ParentEnds
  /\ CgroupLife
  /\ ResultParts
  /\ OwnZombie

-----------------------------------------------------------------------------
(* Types *)

\* There is a first limit among those left: the one execute sets next.
LEMMA RankLemma ==
  ASSUME NEW todo \in SUBSET Limits, todo # {}
  PROVE  NextLimit(todo) \in todo
<1>1. \E l \in todo : \A k \in todo : Rank[l] <= Rank[k]
  <2>1. CASE "memory" \in todo
    BY <2>1 DEF Limits, Rank
  <2>2. CASE "memory" \notin todo /\ "cpu" \in todo
    BY <2>2 DEF Limits, Rank
  <2>3. CASE "memory" \notin todo /\ "cpu" \notin todo
    <3>1. todo = {"pids"}
      BY <2>3 DEF Limits
    <3> QED BY <3>1 DEF Rank
  <2> QED BY <2>1, <2>2, <2>3
<1> QED BY <1>1 DEF NextLimit

\* Every pipe end execute opens is a known descriptor.
LEMMA PipesLemma ==
  ASSUME NEW n \in 0 .. Len(PipesOf(call))
  PROVE  UNION {Ends(PipesOf(call)[i]) : i \in 1 .. n} \subseteq AllFds
<1>1. \A i \in 1 .. n : PipesOf(call)[i] \in AllPipes
  BY DEF PipesOf, AllPipes
<1>2. \A p \in AllPipes : Ends(p) \subseteq AllFds
  BY DEF Ends, ReadEnd, WriteEnd, AllFds
<1> QED BY <1>1, <1>2

\* The program counters and flags keep their types.
LEMMA ControlStep == ControlTypes /\ CountTypes /\ [Next]_vars => ControlTypes'
<1> SUFFICES ASSUME ControlTypes, CountTypes, [Next]_vars
             PROVE  ControlTypes' OBVIOUS
<1> USE DEF vars, parentVars, childVars, kernelVars, setupVars, ControlTypes,
        ParentStates, ChildStates, Collected, Terminal, Live, SetupStates, BeyondGate
<1>0. call \in CallType
  BY CallsAssumption DEF CountTypes
<1>1. CASE SetupProxy
  BY <1>0, <1>1 DEF SetupProxy, Fail, CallType
<1>2. CASE CreatePipes
  BY <1>2 DEF CreatePipes, Fail
<1>3. CASE BuildArgs
  BY <1>0, <1>3 DEF BuildArgs, Fail, CallType
<1>4. CASE Clone
  BY <1>4 DEF Clone, Inherited, Fail
<1>5. CASE CloseChildEnds
  BY <1>5 DEF CloseChildEnds
<1>6. CASE WriteMappings
  BY <1>6 DEF WriteMappings, Fail
<1>7. CASE CreateCgroup
  BY <1>7 DEF CreateCgroup, Fail
<1>8. CASE SetLimit
  BY <1>8 DEF SetLimit, Fail
<1>9. CASE AddProcess
  BY <1>9 DEF AddProcess, Fail
<1>10. CASE PushInput
  BY <1>10 DEF PushInput
<1>11. CASE EndInput
  BY <1>11 DEF EndInput
<1>12. CASE SignalChild
  BY <1>12 DEF SignalChild, Fail
<1>13. CASE ReadOutput
  BY <1>13 DEF ReadOutput, NextChunk
<1>14. CASE Poll
  BY <1>14 DEF Poll, Fail
<1>15. CASE CheckTimeout
  BY <1>15 DEF CheckTimeout, KillReaches
<1>16. CASE Drain
  BY <1>16 DEF Drain, Drained
<1>17. CASE CollectStats
  BY <1>17 DEF CollectStats
<1>18. CASE KillMembers
  BY <1>18 DEF KillMembers
<1>19. CASE Return
  BY <1>19 DEF Return
<1>20. CASE PassGate
  BY <1>20 DEF PassGate, Advance
<1>21. CASE RedirectStdio
  BY <1>21 DEF RedirectStdio, Advance
<1>22. CASE SetupMounts
  BY <1>22 DEF SetupMounts, Exit, Die, childRest, Advance
<1>23. CASE SetEnvironment
  BY <1>23 DEF SetEnvironment, Advance
<1>24. CASE ApplySeccomp
  BY <1>24 DEF ApplySeccomp, Advance
<1>25. CASE Exec
  BY <1>25 DEF Exec, Exit, Die, childRest, Advance
<1>26. CASE \E s \in Streams : Write(s)
  BY <1>26 DEF Write, childRest
<1>27. CASE ReadStdin
  BY <1>27 DEF ReadStdin, childRest
<1>28. CASE Fork
  BY <1>28 DEF Fork, childRest
<1>29. CASE KidExits
  BY <1>29 DEF KidExits, childRest
<1>30. CASE CommandExits
  BY <1>30 DEF CommandExits, Exit, Die, childRest
<1>31. CASE CommandCrashes
  BY <1>31 DEF CommandCrashes, Die, childRest
<1>32. CASE DeliverKill
  BY <1>32 DEF DeliverKill, DieBySigkill, Die
<1>33. CASE ExternalKill
  BY <1>33 DEF ExternalKill, DieBySigkill, Die
<1>34. CASE OomKill
  <2>1. oomKill' = TRUE
    BY <1>34 DEF OomKill
  <2>2. CASE DieBySigkill
    <3>1. cpc' = "zombie" /\ pendingKill' = FALSE
      BY <2>2 DEF DieBySigkill, Die
    <3>2. UNCHANGED <<ppc, outcome, cgroup, proxy, filtered, mapped, member,
                      gateByte, expired>>
      BY <2>2 DEF DieBySigkill, Die
    <3> QED BY <2>1, <3>1, <3>2
  <2>3. CASE UNCHANGED <<ppc, outcome, cpc, cgroup, proxy, filtered, mapped, member,
                         gateByte, pendingKill, expired>>
    BY <2>1, <2>3
  <2> QED BY <1>34, <2>2, <2>3 DEF OomKill
<1>35. CASE ForeignReap
  BY <1>35 DEF ForeignReap, childRest
<1>36. CASE Expire
  BY <1>36 DEF Expire
<1>37. CASE HostDies
  BY <1>37 DEF HostDies
<1>38. CASE Over
  BY <1>38 DEF Over
<1>39. CASE UNCHANGED vars
  BY <1>39
<1> QED
  BY <1>1, <1>2, <1>3, <1>4, <1>5, <1>6, <1>7, <1>8, <1>9, <1>10, <1>11,
     <1>12, <1>13, <1>14, <1>15, <1>16, <1>17, <1>18, <1>19, <1>20, <1>21,
     <1>22, <1>23, <1>24, <1>25, <1>26, <1>27, <1>28, <1>29, <1>30, <1>31,
     <1>32, <1>33, <1>34, <1>35, <1>36, <1>37, <1>38, <1>39 DEF Next,
     ParentStep, ChildSetupStep, CommandStep, EnvironmentStep

\* Descriptor tables only hold known descriptors.
LEMMA FdStep == FdTypes /\ [Next]_vars => FdTypes'
<1> SUFFICES ASSUME FdTypes, [Next]_vars PROVE FdTypes' OBVIOUS
<1> USE DEF vars, parentVars, childVars, kernelVars, setupVars, FdTypes
<1>1. CASE SetupProxy
  BY <1>1 DEF SetupProxy, Fail
<1>2. CASE CreatePipes
  BY <1>2, PipesLemma DEF CreatePipes, Fail
<1>3. CASE BuildArgs
  BY <1>3 DEF BuildArgs, Fail
<1>4. CASE Clone
  BY <1>4 DEF Clone, Inherited, Fail
<1>5. CASE CloseChildEnds
  BY <1>5 DEF CloseChildEnds
<1>6. CASE WriteMappings
  BY <1>6 DEF WriteMappings, Fail
<1>7. CASE CreateCgroup
  BY <1>7 DEF CreateCgroup, Fail
<1>8. CASE SetLimit
  BY <1>8 DEF SetLimit, Fail
<1>9. CASE AddProcess
  BY <1>9 DEF AddProcess, Fail
<1>10. CASE PushInput
  BY <1>10 DEF PushInput
<1>11. CASE EndInput
  BY <1>11 DEF EndInput
<1>12. CASE SignalChild
  BY <1>12 DEF SignalChild, Fail
<1>13. CASE ReadOutput
  BY <1>13 DEF ReadOutput, NextChunk
<1>14. CASE Poll
  BY <1>14 DEF Poll, Fail
<1>15. CASE CheckTimeout
  BY <1>15 DEF CheckTimeout, KillReaches
<1>16. CASE Drain
  BY <1>16 DEF Drain, Drained
<1>17. CASE CollectStats
  BY <1>17 DEF CollectStats
<1>18. CASE KillMembers
  BY <1>18 DEF KillMembers
<1>19. CASE Return
  BY <1>19 DEF Return
<1>20. CASE PassGate
  BY <1>20 DEF PassGate, Advance
<1>21. CASE RedirectStdio
  BY <1>21 DEF RedirectStdio, Advance
<1>22. CASE SetupMounts
  BY <1>22 DEF SetupMounts, Exit, Die, childRest, Advance
<1>23. CASE SetEnvironment
  BY <1>23 DEF SetEnvironment, Advance
<1>24. CASE ApplySeccomp
  BY <1>24 DEF ApplySeccomp, Advance
<1>25. CASE Exec
  BY <1>25 DEF Exec, Exit, Die, childRest, Advance
<1>26. CASE \E s \in Streams : Write(s)
  BY <1>26 DEF Write, childRest
<1>27. CASE ReadStdin
  BY <1>27 DEF ReadStdin, childRest
<1>28. CASE Fork
  BY <1>28 DEF Fork, childRest
<1>29. CASE KidExits
  BY <1>29 DEF KidExits, childRest
<1>30. CASE CommandExits
  BY <1>30 DEF CommandExits, Exit, Die, childRest
<1>31. CASE CommandCrashes
  BY <1>31 DEF CommandCrashes, Die, childRest
<1>32. CASE DeliverKill
  BY <1>32 DEF DeliverKill, DieBySigkill, Die
<1>33. CASE ExternalKill
  BY <1>33 DEF ExternalKill, DieBySigkill, Die
<1>34. CASE OomKill
  BY <1>34 DEF OomKill, DieBySigkill, Die
<1>35. CASE ForeignReap
  BY <1>35 DEF ForeignReap, childRest
<1>36. CASE Expire
  BY <1>36 DEF Expire
<1>37. CASE HostDies
  BY <1>37 DEF HostDies
<1>38. CASE Over
  BY <1>38 DEF Over
<1>39. CASE UNCHANGED vars
  BY <1>39
<1> QED
  BY <1>1, <1>2, <1>3, <1>4, <1>5, <1>6, <1>7, <1>8, <1>9, <1>10, <1>11,
     <1>12, <1>13, <1>14, <1>15, <1>16, <1>17, <1>18, <1>19, <1>20, <1>21,
     <1>22, <1>23, <1>24, <1>25, <1>26, <1>27, <1>28, <1>29, <1>30, <1>31,
     <1>32, <1>33, <1>34, <1>35, <1>36, <1>37, <1>38, <1>39 DEF Next,
     ParentStep, ChildSetupStep, CommandStep, EnvironmentStep

\* Input, descendants and limits keep their bounds.
LEMMA CountStep == CountTypes /\ [Next]_vars => CountTypes'
<1> SUFFICES ASSUME CountTypes, [Next]_vars PROVE CountTypes' OBVIOUS
<1> USE CallsAssumption, BoundsAssumption DEF vars, parentVars, childVars,
        kernelVars, setupVars, CountTypes, CallType
<1>1. CASE SetupProxy
  BY <1>1 DEF SetupProxy, Fail
<1>2. CASE CreatePipes
  BY <1>2 DEF CreatePipes, Fail
<1>3. CASE BuildArgs
  BY <1>3 DEF BuildArgs, Fail
<1>4. CASE Clone
  BY <1>4 DEF Clone, Inherited, Fail
<1>5. CASE CloseChildEnds
  BY <1>5 DEF CloseChildEnds
<1>6. CASE WriteMappings
  BY <1>6 DEF WriteMappings, Fail
<1>7. CASE CreateCgroup
  BY <1>7 DEF CreateCgroup, Fail
<1>8. CASE SetLimit
  <2>1. call.limits \ limitsSet \in SUBSET Limits
    BY CallsAssumption DEF CountTypes, CallType
  <2>2. call.limits \ limitsSet # {}
    BY <1>8 DEF SetLimit
  <2>3. NextLimit(call.limits \ limitsSet) \in call.limits
    BY <2>1, <2>2, RankLemma
  <2> QED BY <1>8, <2>3 DEF SetLimit
<1>9. CASE AddProcess
  BY <1>9 DEF AddProcess, Fail
<1>10. CASE PushInput
  BY <1>10 DEF PushInput
<1>11. CASE EndInput
  BY <1>11 DEF EndInput
<1>12. CASE SignalChild
  BY <1>12 DEF SignalChild, Fail
<1>13. CASE ReadOutput
  BY <1>13 DEF ReadOutput, NextChunk
<1>14. CASE Poll
  BY <1>14 DEF Poll, Fail
<1>15. CASE CheckTimeout
  BY <1>15 DEF CheckTimeout, KillReaches
<1>16. CASE Drain
  BY <1>16 DEF Drain, Drained
<1>17. CASE CollectStats
  BY <1>17 DEF CollectStats
<1>18. CASE KillMembers
  BY <1>18 DEF KillMembers
<1>19. CASE Return
  BY <1>19 DEF Return
<1>20. CASE PassGate
  BY <1>20 DEF PassGate, Advance
<1>21. CASE RedirectStdio
  BY <1>21 DEF RedirectStdio, Advance
<1>22. CASE SetupMounts
  BY <1>22 DEF SetupMounts, Exit, Die, childRest, Advance
<1>23. CASE SetEnvironment
  BY <1>23 DEF SetEnvironment, Advance
<1>24. CASE ApplySeccomp
  BY <1>24 DEF ApplySeccomp, Advance
<1>25. CASE Exec
  BY <1>25 DEF Exec, Exit, Die, childRest, Advance
<1>26. CASE \E s \in Streams : Write(s)
  BY <1>26 DEF Write, childRest
<1>27. CASE ReadStdin
  BY <1>27 DEF ReadStdin, childRest
<1>28. CASE Fork
  BY <1>28 DEF Fork, childRest
<1>29. CASE KidExits
  BY <1>29 DEF KidExits, childRest
<1>30. CASE CommandExits
  BY <1>30 DEF CommandExits, Exit, Die, childRest
<1>31. CASE CommandCrashes
  BY <1>31 DEF CommandCrashes, Die, childRest
<1>32. CASE DeliverKill
  BY <1>32 DEF DeliverKill, DieBySigkill, Die
<1>33. CASE ExternalKill
  BY <1>33 DEF ExternalKill, DieBySigkill, Die
<1>34. CASE OomKill
  <2>1. CASE DieBySigkill
    BY <1>34, <2>1 DEF DieBySigkill, Die
  <2>2. CASE ~DieBySigkill
    <3>1. kids > 0 /\ kids' = kids - 1
      BY <1>34, <2>2 DEF OomKill
    <3>2. UNCHANGED <<call, limitsSet, stdinWritten, stdinRead>>
      BY <1>34, <2>2 DEF OomKill
    <3> QED BY <3>1, <3>2
  <2> QED BY <2>1, <2>2
<1>35. CASE ForeignReap
  BY <1>35 DEF ForeignReap, childRest
<1>36. CASE Expire
  BY <1>36 DEF Expire
<1>37. CASE HostDies
  BY <1>37 DEF HostDies
<1>38. CASE Over
  BY <1>38 DEF Over
<1>39. CASE UNCHANGED vars
  BY <1>39
<1> QED
  BY <1>1, <1>2, <1>3, <1>4, <1>5, <1>6, <1>7, <1>8, <1>9, <1>10, <1>11,
     <1>12, <1>13, <1>14, <1>15, <1>16, <1>17, <1>18, <1>19, <1>20, <1>21,
     <1>22, <1>23, <1>24, <1>25, <1>26, <1>27, <1>28, <1>29, <1>30, <1>31,
     <1>32, <1>33, <1>34, <1>35, <1>36, <1>37, <1>38, <1>39 DEF Next,
     ParentStep, ChildSetupStep, CommandStep, EnvironmentStep

\* The streams and the result keep their types, the pipes their capacity.
LEMMA OutputStep == OutputTypes /\ [Next]_vars => OutputTypes'
<1> SUFFICES ASSUME OutputTypes, [Next]_vars PROVE OutputTypes' OBVIOUS
<1> USE BoundsAssumption DEF vars, parentVars, childVars, kernelVars, setupVars,
        OutputTypes, ExecutionResults, StatusType, NoSignal
<1>1. CASE SetupProxy
  BY <1>1 DEF SetupProxy, Fail
<1>2. CASE CreatePipes
  BY <1>2 DEF CreatePipes, Fail
<1>3. CASE BuildArgs
  BY <1>3 DEF BuildArgs, Fail
<1>4. CASE Clone
  BY <1>4 DEF Clone, Inherited, Fail
<1>5. CASE CloseChildEnds
  BY <1>5 DEF CloseChildEnds
<1>6. CASE WriteMappings
  BY <1>6 DEF WriteMappings, Fail
<1>7. CASE CreateCgroup
  BY <1>7 DEF CreateCgroup, Fail
<1>8. CASE SetLimit
  BY <1>8 DEF SetLimit, Fail
<1>9. CASE AddProcess
  BY <1>9 DEF AddProcess, Fail
<1>10. CASE PushInput
  BY <1>10 DEF PushInput
<1>11. CASE EndInput
  BY <1>11 DEF EndInput
<1>12. CASE SignalChild
  BY <1>12 DEF SignalChild, Fail
<1>13. CASE ReadOutput
  BY <1>13 DEF ReadOutput, NextChunk, Least
<1>14. CASE Poll
  <2>1. CASE cpc = "zombie"
    <3>1. ReportedCode(status) \in Int /\ ReportedSignal(status) \in Nat
      BY DEF ReportedCode, ReportedSignal
    <3> QED BY <1>14, <2>1, <3>1 DEF Poll
  <2>2. CASE cpc # "zombie"
    BY <1>14, <2>2 DEF Poll, Fail
  <2> QED BY <2>1, <2>2
<1>15. CASE CheckTimeout
  BY <1>15 DEF CheckTimeout, KillReaches
<1>16. CASE Drain
  BY <1>16 DEF Drain, Drained
<1>17. CASE CollectStats
  BY <1>17 DEF CollectStats, WasOomKilled
<1>18. CASE KillMembers
  BY <1>18 DEF KillMembers
<1>19. CASE Return
  BY <1>19 DEF Return
<1>20. CASE PassGate
  BY <1>20 DEF PassGate, Advance
<1>21. CASE RedirectStdio
  BY <1>21 DEF RedirectStdio, Advance
<1>22. CASE SetupMounts
  <2>1. CASE Exit(1)
    BY <2>1 DEF Exit, Die, childRest
  <2>2. CASE ~Exit(1)
    BY <1>22, <2>2 DEF SetupMounts, Advance
  <2> QED BY <2>1, <2>2
<1>23. CASE SetEnvironment
  BY <1>23 DEF SetEnvironment, Advance
<1>24. CASE ApplySeccomp
  BY <1>24 DEF ApplySeccomp, Advance
<1>25. CASE Exec
  <2>1. CASE Exit(127)
    BY <2>1 DEF Exit, Die, childRest
  <2>2. CASE ~Exit(127)
    BY <1>25, <2>2 DEF Exec, Advance
  <2> QED BY <2>1, <2>2
<1>26. CASE \E s \in Streams : Write(s)
  BY <1>26 DEF Write, childRest
<1>27. CASE ReadStdin
  BY <1>27 DEF ReadStdin, childRest
<1>28. CASE Fork
  BY <1>28 DEF Fork, childRest
<1>29. CASE KidExits
  BY <1>29 DEF KidExits, childRest
<1>30. CASE CommandExits
  BY <1>30 DEF CommandExits, Exit, Die, childRest
<1>31. CASE CommandCrashes
  BY <1>31 DEF CommandCrashes, Die, childRest
<1>32. CASE DeliverKill
  BY <1>32 DEF DeliverKill, DieBySigkill, Die
<1>33. CASE ExternalKill
  BY <1>33 DEF ExternalKill, DieBySigkill, Die
<1>34. CASE OomKill
  <2>1. CASE DieBySigkill
    BY <1>34, <2>1 DEF DieBySigkill, Die
  <2>2. CASE ~DieBySigkill
    BY <1>34, <2>2 DEF OomKill
  <2> QED BY <2>1, <2>2
<1>35. CASE ForeignReap
  BY <1>35 DEF ForeignReap, childRest
<1>36. CASE Expire
  BY <1>36 DEF Expire
<1>37. CASE HostDies
  BY <1>37 DEF HostDies
<1>38. CASE Over
  BY <1>38 DEF Over
<1>39. CASE UNCHANGED vars
  BY <1>39
<1> QED
  BY <1>1, <1>2, <1>3, <1>4, <1>5, <1>6, <1>7, <1>8, <1>9, <1>10, <1>11,
     <1>12, <1>13, <1>14, <1>15, <1>16, <1>17, <1>18, <1>19, <1>20, <1>21,
     <1>22, <1>23, <1>24, <1>25, <1>26, <1>27, <1>28, <1>29, <1>30, <1>31,
     <1>32, <1>33, <1>34, <1>35, <1>36, <1>37, <1>38, <1>39 DEF Next,
     ParentStep, ChildSetupStep, CommandStep, EnvironmentStep

-----------------------------------------------------------------------------
(* The parts of the invariant *)

\* No step moves the child further than the parent allows.
LEMMA InStepStep == InStep /\ GateHeld /\ [Next]_vars => InStep'
<1> SUFFICES ASSUME InStep /\ GateHeld, [Next]_vars PROVE InStep' OBVIOUS
<1> USE DEF vars, parentVars, childVars, kernelVars, setupVars, InStep,
        GateHeld, Early, Setup, Waiting, Ending, Gone, Collected, Live, SetupStates,
        BeyondGate, Terminal
<1>1. CASE SetupProxy
  BY <1>1 DEF SetupProxy, Fail
<1>2. CASE CreatePipes
  BY <1>2 DEF CreatePipes, Fail
<1>3. CASE BuildArgs
  BY <1>3 DEF BuildArgs, Fail
<1>4. CASE Clone
  BY <1>4 DEF Clone, Fail, Inherited
<1>5. CASE CloseChildEnds
  BY <1>5 DEF CloseChildEnds
<1>6. CASE WriteMappings
  BY <1>6 DEF WriteMappings, Fail
<1>7. CASE CreateCgroup
  BY <1>7 DEF CreateCgroup, Fail
<1>8. CASE SetLimit
  BY <1>8 DEF SetLimit, Fail
<1>9. CASE AddProcess
  BY <1>9 DEF AddProcess, Fail
<1>10. CASE PushInput
  BY <1>10 DEF PushInput
<1>11. CASE EndInput
  BY <1>11 DEF EndInput
<1>12. CASE SignalChild
  BY <1>12 DEF SignalChild, Fail
<1>13. CASE ReadOutput
  BY <1>13 DEF ReadOutput, NextChunk
<1>14. CASE Poll
  BY <1>14 DEF Poll, Fail
<1>15. CASE CheckTimeout
  BY <1>15 DEF CheckTimeout, KillReaches
<1>16. CASE Drain
  BY <1>16 DEF Drain, Drained
<1>17. CASE CollectStats
  BY <1>17 DEF CollectStats
<1>18. CASE KillMembers
  BY <1>18 DEF KillMembers
<1>19. CASE Return
  BY <1>19 DEF Return
<1>20. CASE PassGate
  BY <1>20 DEF PassGate, Advance, NoWriter
<1>21. CASE RedirectStdio
  BY <1>21 DEF RedirectStdio, Advance
<1>22. CASE SetupMounts
  BY <1>22 DEF SetupMounts, Exit, Die, childRest, Advance
<1>23. CASE SetEnvironment
  BY <1>23 DEF SetEnvironment, Advance
<1>24. CASE ApplySeccomp
  BY <1>24 DEF ApplySeccomp, Advance
<1>25. CASE Exec
  BY <1>25 DEF Exec, Exit, Die, childRest, Advance
<1>26. CASE \E s \in Streams : Write(s)
  BY <1>26 DEF Write, childRest
<1>27. CASE ReadStdin
  BY <1>27 DEF ReadStdin, childRest
<1>28. CASE Fork
  BY <1>28 DEF Fork, childRest
<1>29. CASE KidExits
  BY <1>29 DEF KidExits, childRest
<1>30. CASE CommandExits
  BY <1>30 DEF CommandExits, Exit, Die, childRest
<1>31. CASE CommandCrashes
  BY <1>31 DEF CommandCrashes, Die, childRest
<1>32. CASE DeliverKill
  BY <1>32 DEF DeliverKill, DieBySigkill, Die
<1>33. CASE ExternalKill
  BY <1>33 DEF ExternalKill, DieBySigkill, Die
<1>34. CASE OomKill
  BY <1>34 DEF OomKill, DieBySigkill, Die
<1>35. CASE ForeignReap
  BY <1>35 DEF ForeignReap, childRest
<1>36. CASE Expire
  BY <1>36 DEF Expire
<1>37. CASE HostDies
  BY <1>37 DEF HostDies
<1>38. CASE Over
  BY <1>38 DEF Over
<1>39. CASE UNCHANGED vars
  BY <1>39
<1> QED
  BY <1>1, <1>2, <1>3, <1>4, <1>5, <1>6, <1>7, <1>8, <1>9, <1>10, <1>11,
     <1>12, <1>13, <1>14, <1>15, <1>16, <1>17, <1>18, <1>19, <1>20, <1>21,
     <1>22, <1>23, <1>24, <1>25, <1>26, <1>27, <1>28, <1>29, <1>30, <1>31,
     <1>32, <1>33, <1>34, <1>35, <1>36, <1>37, <1>38, <1>39 DEF Next,
     ParentStep, ChildSetupStep, CommandStep, EnvironmentStep

\* No step closes the child's own write end of the gate while it waits.
LEMMA GateHeldStep ==
  InStep /\ GateHeld /\ Namespace /\ [Next]_vars => GateHeld'
<1> SUFFICES ASSUME InStep /\ GateHeld /\ Namespace, [Next]_vars
             PROVE  GateHeld' OBVIOUS
<1> USE DEF vars, parentVars, childVars, kernelVars, setupVars, InStep,
        GateHeld, Namespace, ReadEnd, WriteEnd, Early, Setup, Waiting, Ending,
        Gone, Collected, Live, SetupStates, BeyondGate, Terminal
<1>1. CASE SetupProxy
  BY <1>1 DEF SetupProxy, Fail
<1>2. CASE CreatePipes
  BY <1>2 DEF CreatePipes, Fail, PipesOf, Ends
<1>3. CASE BuildArgs
  BY <1>3 DEF BuildArgs, Fail
<1>4. CASE Clone
  BY <1>4 DEF Clone, Fail, Inherited
<1>5. CASE CloseChildEnds
  BY <1>5 DEF CloseChildEnds
<1>6. CASE WriteMappings
  BY <1>6 DEF WriteMappings, Fail
<1>7. CASE CreateCgroup
  BY <1>7 DEF CreateCgroup, Fail
<1>8. CASE SetLimit
  BY <1>8 DEF SetLimit, Fail
<1>9. CASE AddProcess
  BY <1>9 DEF AddProcess, Fail
<1>10. CASE PushInput
  BY <1>10 DEF PushInput
<1>11. CASE EndInput
  BY <1>11 DEF EndInput
<1>12. CASE SignalChild
  BY <1>12 DEF SignalChild, Fail
<1>13. CASE ReadOutput
  BY <1>13 DEF ReadOutput, NextChunk
<1>14. CASE Poll
  BY <1>14 DEF Poll, Fail
<1>15. CASE CheckTimeout
  BY <1>15 DEF CheckTimeout, KillReaches
<1>16. CASE Drain
  BY <1>16 DEF Drain, Drained
<1>17. CASE CollectStats
  BY <1>17 DEF CollectStats
<1>18. CASE KillMembers
  BY <1>18 DEF KillMembers
<1>19. CASE Return
  BY <1>19 DEF Return
<1>20. CASE PassGate
  BY <1>20 DEF PassGate, Advance
<1>21. CASE RedirectStdio
  BY <1>21 DEF RedirectStdio, Advance
<1>22. CASE SetupMounts
  BY <1>22 DEF SetupMounts, Exit, Die, childRest, Advance
<1>23. CASE SetEnvironment
  BY <1>23 DEF SetEnvironment, Advance
<1>24. CASE ApplySeccomp
  BY <1>24 DEF ApplySeccomp, Advance
<1>25. CASE Exec
  BY <1>25 DEF Exec, Exit, Die, childRest, Advance
<1>26. CASE \E s \in Streams : Write(s)
  BY <1>26 DEF Write, childRest
<1>27. CASE ReadStdin
  BY <1>27 DEF ReadStdin, childRest
<1>28. CASE Fork
  BY <1>28 DEF Fork, childRest
<1>29. CASE KidExits
  BY <1>29 DEF KidExits, childRest
<1>30. CASE CommandExits
  BY <1>30 DEF CommandExits, Exit, Die, childRest
<1>31. CASE CommandCrashes
  BY <1>31 DEF CommandCrashes, Die, childRest
<1>32. CASE DeliverKill
  BY <1>32 DEF DeliverKill, DieBySigkill, Die
<1>33. CASE ExternalKill
  BY <1>33 DEF ExternalKill, DieBySigkill, Die
<1>34. CASE OomKill
  BY <1>34 DEF OomKill, DieBySigkill, Die
<1>35. CASE ForeignReap
  BY <1>35 DEF ForeignReap, childRest
<1>36. CASE Expire
  BY <1>36 DEF Expire
<1>37. CASE HostDies
  BY <1>37 DEF HostDies
<1>38. CASE Over
  BY <1>38 DEF Over
<1>39. CASE UNCHANGED vars
  BY <1>39
<1> QED
  BY <1>1, <1>2, <1>3, <1>4, <1>5, <1>6, <1>7, <1>8, <1>9, <1>10, <1>11,
     <1>12, <1>13, <1>14, <1>15, <1>16, <1>17, <1>18, <1>19, <1>20, <1>21,
     <1>22, <1>23, <1>24, <1>25, <1>26, <1>27, <1>28, <1>29, <1>30, <1>31,
     <1>32, <1>33, <1>34, <1>35, <1>36, <1>37, <1>38, <1>39 DEF Next,
     ParentStep, ChildSetupStep, CommandStep, EnvironmentStep

\* No step lets the child pass unconfigured, or undoes its configuration.
LEMMA SetupOrderStep ==
  InStep /\ GateHeld /\ SetupOrder /\ CgroupLife /\ [Next]_vars => SetupOrder'
<1> SUFFICES ASSUME InStep /\ GateHeld /\ SetupOrder /\ CgroupLife, [Next]_vars
             PROVE  SetupOrder' OBVIOUS
<1> USE DEF vars, parentVars, childVars, kernelVars, setupVars, InStep,
        GateHeld, SetupOrder, CgroupLife, Configured, Early, Setup, Waiting,
        Ending, Gone, Collected, Live, SetupStates, BeyondGate, Terminal
<1>1. CASE SetupProxy
  BY <1>1 DEF SetupProxy, Fail
<1>2. CASE CreatePipes
  BY <1>2 DEF CreatePipes, Fail
<1>3. CASE BuildArgs
  BY <1>3 DEF BuildArgs, Fail
<1>4. CASE Clone
  BY <1>4 DEF Clone, Fail, Inherited
<1>5. CASE CloseChildEnds
  BY <1>5 DEF CloseChildEnds
<1>6. CASE WriteMappings
  BY <1>6 DEF WriteMappings, Fail, NeedsCgroup
<1>7. CASE CreateCgroup
  BY <1>7 DEF CreateCgroup, Fail
<1>8. CASE SetLimit
  BY <1>8 DEF SetLimit, Fail
<1>9. CASE AddProcess
  BY <1>9 DEF AddProcess, Fail, NeedsCgroup
<1>10. CASE PushInput
  BY <1>10 DEF PushInput
<1>11. CASE EndInput
  BY <1>11 DEF EndInput
<1>12. CASE SignalChild
  BY <1>12 DEF SignalChild, Fail
<1>13. CASE ReadOutput
  BY <1>13 DEF ReadOutput, NextChunk
<1>14. CASE Poll
  BY <1>14 DEF Poll, Fail
<1>15. CASE CheckTimeout
  BY <1>15 DEF CheckTimeout, KillReaches
<1>16. CASE Drain
  BY <1>16 DEF Drain, Drained
<1>17. CASE CollectStats
  BY <1>17 DEF CollectStats
<1>18. CASE KillMembers
  BY <1>18 DEF KillMembers
<1>19. CASE Return
  BY <1>19 DEF Return
<1>20. CASE PassGate
  BY <1>20 DEF PassGate, Advance, NoWriter
<1>21. CASE RedirectStdio
  BY <1>21 DEF RedirectStdio, Advance
<1>22. CASE SetupMounts
  BY <1>22 DEF SetupMounts, Exit, Die, childRest, Advance
<1>23. CASE SetEnvironment
  BY <1>23 DEF SetEnvironment, Advance
<1>24. CASE ApplySeccomp
  BY <1>24 DEF ApplySeccomp, Advance
<1>25. CASE Exec
  BY <1>25 DEF Exec, Exit, Die, childRest, Advance
<1>26. CASE \E s \in Streams : Write(s)
  BY <1>26 DEF Write, childRest
<1>27. CASE ReadStdin
  BY <1>27 DEF ReadStdin, childRest
<1>28. CASE Fork
  BY <1>28 DEF Fork, childRest
<1>29. CASE KidExits
  BY <1>29 DEF KidExits, childRest
<1>30. CASE CommandExits
  BY <1>30 DEF CommandExits, Exit, Die, childRest
<1>31. CASE CommandCrashes
  BY <1>31 DEF CommandCrashes, Die, childRest
<1>32. CASE DeliverKill
  BY <1>32 DEF DeliverKill, DieBySigkill, Die
<1>33. CASE ExternalKill
  BY <1>33 DEF ExternalKill, DieBySigkill, Die
<1>34. CASE OomKill
  <2>1. CASE DieBySigkill
    BY <1>34, <2>1 DEF DieBySigkill, Die, OomKill
  <2>2. CASE ~DieBySigkill
    <3>1. UNCHANGED <<call, ppc, cpc, mapped, cgroup, limitsSet, member, gateByte>>
      BY <1>34, <2>2 DEF OomKill
    <3> QED BY <3>1
  <2> QED BY <2>1, <2>2
<1>35. CASE ForeignReap
  BY <1>35 DEF ForeignReap, childRest
<1>36. CASE Expire
  BY <1>36 DEF Expire
<1>37. CASE HostDies
  BY <1>37 DEF HostDies
<1>38. CASE Over
  BY <1>38 DEF Over
<1>39. CASE UNCHANGED vars
  BY <1>39
<1> QED
  BY <1>1, <1>2, <1>3, <1>4, <1>5, <1>6, <1>7, <1>8, <1>9, <1>10, <1>11,
     <1>12, <1>13, <1>14, <1>15, <1>16, <1>17, <1>18, <1>19, <1>20, <1>21,
     <1>22, <1>23, <1>24, <1>25, <1>26, <1>27, <1>28, <1>29, <1>30, <1>31,
     <1>32, <1>33, <1>34, <1>35, <1>36, <1>37, <1>38, <1>39 DEF Next,
     ParentStep, ChildSetupStep, CommandStep, EnvironmentStep

\* No step leaves a descendant or a descriptor behind a dead child.
LEMMA NamespaceStep == InStep /\ Namespace /\ [Next]_vars => Namespace'
<1> SUFFICES ASSUME InStep /\ Namespace, [Next]_vars PROVE Namespace' OBVIOUS
<1> USE DEF vars, parentVars, childVars, kernelVars, setupVars, InStep,
        Namespace, CloneFlags, Early, Setup, Waiting, Ending, Gone, Collected, Live,
        SetupStates, BeyondGate, Terminal
<1>1. CASE SetupProxy
  BY <1>1 DEF SetupProxy, Fail
<1>2. CASE CreatePipes
  BY <1>2 DEF CreatePipes, Fail
<1>3. CASE BuildArgs
  BY <1>3 DEF BuildArgs, Fail
<1>4. CASE Clone
  BY <1>4 DEF Clone, Fail, Inherited
<1>5. CASE CloseChildEnds
  BY <1>5 DEF CloseChildEnds
<1>6. CASE WriteMappings
  BY <1>6 DEF WriteMappings, Fail
<1>7. CASE CreateCgroup
  BY <1>7 DEF CreateCgroup, Fail
<1>8. CASE SetLimit
  BY <1>8 DEF SetLimit, Fail
<1>9. CASE AddProcess
  BY <1>9 DEF AddProcess, Fail
<1>10. CASE PushInput
  BY <1>10 DEF PushInput
<1>11. CASE EndInput
  BY <1>11 DEF EndInput
<1>12. CASE SignalChild
  BY <1>12 DEF SignalChild, Fail
<1>13. CASE ReadOutput
  BY <1>13 DEF ReadOutput, NextChunk
<1>14. CASE Poll
  BY <1>14 DEF Poll, Fail
<1>15. CASE CheckTimeout
  BY <1>15 DEF CheckTimeout, KillReaches
<1>16. CASE Drain
  BY <1>16 DEF Drain, Drained
<1>17. CASE CollectStats
  BY <1>17 DEF CollectStats
<1>18. CASE KillMembers
  BY <1>18 DEF KillMembers
<1>19. CASE Return
  BY <1>19 DEF Return
<1>20. CASE PassGate
  BY <1>20 DEF PassGate, Advance
<1>21. CASE RedirectStdio
  BY <1>21 DEF RedirectStdio, Advance
<1>22. CASE SetupMounts
  BY <1>22 DEF SetupMounts, Exit, Die, childRest, Advance
<1>23. CASE SetEnvironment
  BY <1>23 DEF SetEnvironment, Advance
<1>24. CASE ApplySeccomp
  BY <1>24 DEF ApplySeccomp, Advance
<1>25. CASE Exec
  BY <1>25 DEF Exec, Exit, Die, childRest, Advance
<1>26. CASE \E s \in Streams : Write(s)
  BY <1>26 DEF Write, childRest
<1>27. CASE ReadStdin
  BY <1>27 DEF ReadStdin, childRest
<1>28. CASE Fork
  BY <1>28 DEF Fork, childRest
<1>29. CASE KidExits
  BY <1>29 DEF KidExits, childRest
<1>30. CASE CommandExits
  BY <1>30 DEF CommandExits, Exit, Die, childRest
<1>31. CASE CommandCrashes
  BY <1>31 DEF CommandCrashes, Die, childRest
<1>32. CASE DeliverKill
  BY <1>32 DEF DeliverKill, DieBySigkill, Die
<1>33. CASE ExternalKill
  BY <1>33 DEF ExternalKill, DieBySigkill, Die
<1>34. CASE OomKill
  <2>1. CASE DieBySigkill
    BY <1>34, <2>1 DEF DieBySigkill, Die, OomKill
  <2>2. CASE ~DieBySigkill
    BY <1>34, <2>2 DEF OomKill
  <2> QED BY <2>1, <2>2
<1>35. CASE ForeignReap
  BY <1>35 DEF ForeignReap, childRest
<1>36. CASE Expire
  BY <1>36 DEF Expire
<1>37. CASE HostDies
  BY <1>37 DEF HostDies
<1>38. CASE Over
  BY <1>38 DEF Over
<1>39. CASE UNCHANGED vars
  BY <1>39
<1> QED
  BY <1>1, <1>2, <1>3, <1>4, <1>5, <1>6, <1>7, <1>8, <1>9, <1>10, <1>11,
     <1>12, <1>13, <1>14, <1>15, <1>16, <1>17, <1>18, <1>19, <1>20, <1>21,
     <1>22, <1>23, <1>24, <1>25, <1>26, <1>27, <1>28, <1>29, <1>30, <1>31,
     <1>32, <1>33, <1>34, <1>35, <1>36, <1>37, <1>38, <1>39 DEF Next,
     ParentStep, ChildSetupStep, CommandStep, EnvironmentStep

\* The parent closes its ends in the order of its steps.
LEMMA ParentEndsStep ==
  FdTypes /\ InStep /\ ParentEnds /\ ResultParts /\ [Next]_vars => ParentEnds'
<1> SUFFICES ASSUME FdTypes /\ InStep /\ ParentEnds /\ ResultParts, [Next]_vars
             PROVE  ParentEnds' OBVIOUS
<1> USE DEF vars, parentVars, childVars, kernelVars, setupVars, InStep,
        ParentEnds, ResultParts, OutEnds, ReadEnd, WriteEnd, Early, Setup,
        Waiting, Ending, Gone, Collected, Live, SetupStates, BeyondGate, Terminal
<1>1. CASE SetupProxy
  BY <1>1 DEF SetupProxy, Fail
<1>2. CASE CreatePipes
  BY <1>2 DEF CreatePipes, Fail
<1>3. CASE BuildArgs
  BY <1>3 DEF BuildArgs, Fail
<1>4. CASE Clone
  BY <1>4 DEF Clone, Fail, Inherited
<1>5. CASE CloseChildEnds
  BY <1>5 DEF CloseChildEnds, FdTypes, AllFds, AllPipes
<1>6. CASE WriteMappings
  BY <1>6 DEF WriteMappings, Fail
<1>7. CASE CreateCgroup
  BY <1>7 DEF CreateCgroup, Fail
<1>8. CASE SetLimit
  BY <1>8 DEF SetLimit, Fail
<1>9. CASE AddProcess
  BY <1>9 DEF AddProcess, Fail
<1>10. CASE PushInput
  BY <1>10 DEF PushInput
<1>11. CASE EndInput
  BY <1>11 DEF EndInput
<1>12. CASE SignalChild
  BY <1>12 DEF SignalChild, Fail
<1>13. CASE ReadOutput
  BY <1>13 DEF ReadOutput, NextChunk
<1>14. CASE Poll
  BY <1>14 DEF Poll, Fail
<1>15. CASE CheckTimeout
  BY <1>15 DEF CheckTimeout, KillReaches
<1>16. CASE Drain
  BY <1>16 DEF Drain, Drained
<1>17. CASE CollectStats
  BY <1>17 DEF CollectStats
<1>18. CASE KillMembers
  <2>1. ppc' = "rmdir" /\ UNCHANGED <<parentFds, outcome>>
    BY <1>18 DEF KillMembers
  <2> QED BY <2>1
<1>19. CASE Return
  BY <1>19 DEF Return
<1>20. CASE PassGate
  BY <1>20 DEF PassGate, Advance
<1>21. CASE RedirectStdio
  BY <1>21 DEF RedirectStdio, Advance
<1>22. CASE SetupMounts
  BY <1>22 DEF SetupMounts, Exit, Die, childRest, Advance
<1>23. CASE SetEnvironment
  BY <1>23 DEF SetEnvironment, Advance
<1>24. CASE ApplySeccomp
  BY <1>24 DEF ApplySeccomp, Advance
<1>25. CASE Exec
  BY <1>25 DEF Exec, Exit, Die, childRest, Advance
<1>26. CASE \E s \in Streams : Write(s)
  BY <1>26 DEF Write, childRest
<1>27. CASE ReadStdin
  BY <1>27 DEF ReadStdin, childRest
<1>28. CASE Fork
  BY <1>28 DEF Fork, childRest
<1>29. CASE KidExits
  BY <1>29 DEF KidExits, childRest
<1>30. CASE CommandExits
  BY <1>30 DEF CommandExits, Exit, Die, childRest
<1>31. CASE CommandCrashes
  BY <1>31 DEF CommandCrashes, Die, childRest
<1>32. CASE DeliverKill
  BY <1>32 DEF DeliverKill, DieBySigkill, Die
<1>33. CASE ExternalKill
  BY <1>33 DEF ExternalKill, DieBySigkill, Die
<1>34. CASE OomKill
  <2>1. CASE DieBySigkill
    BY <1>34, <2>1 DEF DieBySigkill, Die, OomKill
  <2>2. CASE ~DieBySigkill
    BY <1>34, <2>2 DEF OomKill
  <2> QED BY <2>1, <2>2
<1>35. CASE ForeignReap
  BY <1>35 DEF ForeignReap, childRest
<1>36. CASE Expire
  BY <1>36 DEF Expire
<1>37. CASE HostDies
  BY <1>37 DEF HostDies
<1>38. CASE Over
  BY <1>38 DEF Over
<1>39. CASE UNCHANGED vars
  BY <1>39
<1> QED
  BY <1>1, <1>2, <1>3, <1>4, <1>5, <1>6, <1>7, <1>8, <1>9, <1>10, <1>11,
     <1>12, <1>13, <1>14, <1>15, <1>16, <1>17, <1>18, <1>19, <1>20, <1>21,
     <1>22, <1>23, <1>24, <1>25, <1>26, <1>27, <1>28, <1>29, <1>30, <1>31,
     <1>32, <1>33, <1>34, <1>35, <1>36, <1>37, <1>38, <1>39 DEF Next,
     ParentStep, ChildSetupStep, CommandStep, EnvironmentStep

\* The cgroup is only removed by the last step of the call.
LEMMA CgroupLifeStep ==
  ControlTypes /\ InStep /\ SetupOrder /\ Namespace /\ CgroupLife /\ ResultParts
  /\ [Next]_vars => CgroupLife'
<1> SUFFICES ASSUME ControlTypes /\ InStep /\ SetupOrder /\ Namespace /\
                    CgroupLife /\ ResultParts, [Next]_vars
             PROVE  CgroupLife' OBVIOUS
<1> USE DEF vars, parentVars, childVars, kernelVars, setupVars, InStep,
        SetupOrder, Namespace, CgroupLife, ResultParts, Early, Setup, Waiting,
        Ending, Gone, Collected, Live, SetupStates, BeyondGate, Terminal
<1>1. CASE SetupProxy
  BY <1>1 DEF SetupProxy, Fail
<1>2. CASE CreatePipes
  BY <1>2 DEF CreatePipes, Fail
<1>3. CASE BuildArgs
  BY <1>3 DEF BuildArgs, Fail
<1>4. CASE Clone
  BY <1>4 DEF Clone, Fail, Inherited
<1>5. CASE CloseChildEnds
  BY <1>5 DEF CloseChildEnds
<1>6. CASE WriteMappings
  BY <1>6 DEF WriteMappings, Fail
<1>7. CASE CreateCgroup
  BY <1>7 DEF CreateCgroup, Fail
<1>8. CASE SetLimit
  BY <1>8 DEF SetLimit, Fail
<1>9. CASE AddProcess
  BY <1>9 DEF AddProcess, Fail
<1>10. CASE PushInput
  BY <1>10 DEF PushInput
<1>11. CASE EndInput
  BY <1>11 DEF EndInput
<1>12. CASE SignalChild
  BY <1>12 DEF SignalChild, Fail
<1>13. CASE ReadOutput
  BY <1>13 DEF ReadOutput, NextChunk
<1>14. CASE Poll
  BY <1>14 DEF Poll, Fail
<1>15. CASE CheckTimeout
  BY <1>15 DEF CheckTimeout, KillReaches
<1>16. CASE Drain
  BY <1>16 DEF Drain, Drained
<1>17. CASE CollectStats
  BY <1>17 DEF CollectStats
<1>18. CASE KillMembers
  BY <1>18 DEF KillMembers
<1>19. CASE Return
  BY <1>19 DEF Return, ControlTypes
<1>20. CASE PassGate
  BY <1>20 DEF PassGate, Advance
<1>21. CASE RedirectStdio
  BY <1>21 DEF RedirectStdio, Advance
<1>22. CASE SetupMounts
  BY <1>22 DEF SetupMounts, Exit, Die, childRest, Advance
<1>23. CASE SetEnvironment
  BY <1>23 DEF SetEnvironment, Advance
<1>24. CASE ApplySeccomp
  BY <1>24 DEF ApplySeccomp, Advance
<1>25. CASE Exec
  BY <1>25 DEF Exec, Exit, Die, childRest, Advance
<1>26. CASE \E s \in Streams : Write(s)
  BY <1>26 DEF Write, childRest
<1>27. CASE ReadStdin
  BY <1>27 DEF ReadStdin, childRest
<1>28. CASE Fork
  BY <1>28 DEF Fork, childRest
<1>29. CASE KidExits
  BY <1>29 DEF KidExits, childRest
<1>30. CASE CommandExits
  BY <1>30 DEF CommandExits, Exit, Die, childRest
<1>31. CASE CommandCrashes
  BY <1>31 DEF CommandCrashes, Die, childRest
<1>32. CASE DeliverKill
  BY <1>32 DEF DeliverKill, DieBySigkill, Die
<1>33. CASE ExternalKill
  BY <1>33 DEF ExternalKill, DieBySigkill, Die
<1>34. CASE OomKill
  BY <1>34 DEF OomKill, DieBySigkill, Die
<1>35. CASE ForeignReap
  BY <1>35 DEF ForeignReap, childRest
<1>36. CASE Expire
  BY <1>36 DEF Expire
<1>37. CASE HostDies
  BY <1>37 DEF HostDies
<1>38. CASE Over
  BY <1>38 DEF Over
<1>39. CASE UNCHANGED vars
  BY <1>39
<1> QED
  BY <1>1, <1>2, <1>3, <1>4, <1>5, <1>6, <1>7, <1>8, <1>9, <1>10, <1>11,
     <1>12, <1>13, <1>14, <1>15, <1>16, <1>17, <1>18, <1>19, <1>20, <1>21,
     <1>22, <1>23, <1>24, <1>25, <1>26, <1>27, <1>28, <1>29, <1>30, <1>31,
     <1>32, <1>33, <1>34, <1>35, <1>36, <1>37, <1>38, <1>39 DEF Next,
     ParentStep, ChildSetupStep, CommandStep, EnvironmentStep

\* What a result says stays true of the child it is about.
LEMMA ResultPartsStep ==
  ControlTypes /\ OutputTypes /\ InStep /\ SetupOrder /\ Namespace /\ CgroupLife
  /\ ResultParts /\ [Next]_vars => ResultParts'
<1> SUFFICES ASSUME ControlTypes /\ OutputTypes /\ InStep /\ SetupOrder /\
                    Namespace /\ CgroupLife /\ ResultParts, [Next]_vars
             PROVE  ResultParts' OBVIOUS
<1> USE DEF vars, parentVars, childVars, kernelVars, setupVars, InStep,
        SetupOrder, Namespace, CgroupLife, ResultParts, NoSignal, Early, Setup,
        Waiting, Ending, Gone, Collected, Live, SetupStates, BeyondGate, Terminal
<1>1. CASE SetupProxy
  BY <1>1 DEF SetupProxy, Fail
<1>2. CASE CreatePipes
  BY <1>2 DEF CreatePipes, Fail
<1>3. CASE BuildArgs
  BY <1>3 DEF BuildArgs, Fail
<1>4. CASE Clone
  BY <1>4 DEF Clone, Fail, Inherited
<1>5. CASE CloseChildEnds
  BY <1>5 DEF CloseChildEnds
<1>6. CASE WriteMappings
  BY <1>6 DEF WriteMappings, Fail
<1>7. CASE CreateCgroup
  BY <1>7 DEF CreateCgroup, Fail
<1>8. CASE SetLimit
  BY <1>8 DEF SetLimit, Fail
<1>9. CASE AddProcess
  BY <1>9 DEF AddProcess, Fail
<1>10. CASE PushInput
  BY <1>10 DEF PushInput
<1>11. CASE EndInput
  BY <1>11 DEF EndInput
<1>12. CASE SignalChild
  BY <1>12 DEF SignalChild, Fail
<1>13. CASE ReadOutput
  BY <1>13 DEF ReadOutput, NextChunk
<1>14. CASE Poll
  BY <1>14 DEF Poll, Fail, OutputTypes, ExecutionResults
<1>15. CASE CheckTimeout
  BY <1>15 DEF CheckTimeout, KillReaches
<1>16. CASE Drain
  BY <1>16 DEF Drain, Drained
<1>17. CASE CollectStats
  BY <1>17 DEF CollectStats, WasOomKilled, ControlTypes, OutputTypes,
     ExecutionResults
<1>18. CASE KillMembers
  BY <1>18 DEF KillMembers
<1>19. CASE Return
  BY <1>19 DEF Return
<1>20. CASE PassGate
  BY <1>20 DEF PassGate, Advance
<1>21. CASE RedirectStdio
  BY <1>21 DEF RedirectStdio, Advance
<1>22. CASE SetupMounts
  BY <1>22 DEF SetupMounts, Exit, Die, childRest, Advance
<1>23. CASE SetEnvironment
  BY <1>23 DEF SetEnvironment, Advance
<1>24. CASE ApplySeccomp
  BY <1>24 DEF ApplySeccomp, Advance
<1>25. CASE Exec
  BY <1>25 DEF Exec, Exit, Die, childRest, Advance
<1>26. CASE \E s \in Streams : Write(s)
  BY <1>26 DEF Write, childRest
<1>27. CASE ReadStdin
  BY <1>27 DEF ReadStdin, childRest
<1>28. CASE Fork
  BY <1>28 DEF Fork, childRest
<1>29. CASE KidExits
  BY <1>29 DEF KidExits, childRest
<1>30. CASE CommandExits
  <2>1. status'.ran
    <3>1. cpc = "run"
      BY <1>30 DEF CommandExits
    <3>2. status'.ran = (cpc = "run")
      BY <1>30 DEF CommandExits, Exit, Die
    <3> QED BY <3>1, <3>2, Zenon
  <2> QED BY <1>30, <2>1 DEF CommandExits, Exit, Die, childRest
<1>31. CASE CommandCrashes
  BY <1>31 DEF CommandCrashes, Die, childRest
<1>32. CASE DeliverKill
  BY <1>32 DEF DeliverKill, DieBySigkill, Die
<1>33. CASE ExternalKill
  BY <1>33 DEF ExternalKill, DieBySigkill, Die
<1>34. CASE OomKill
  <2>1. CASE DieBySigkill
    BY <1>34, <2>1 DEF DieBySigkill, Die, OomKill
  <2>2. CASE ~DieBySigkill
    BY <1>34, <2>2 DEF OomKill
  <2> QED BY <2>1, <2>2
<1>35. CASE ForeignReap
  BY <1>35 DEF ForeignReap, childRest
<1>36. CASE Expire
  BY <1>36 DEF Expire
<1>37. CASE HostDies
  BY <1>37 DEF HostDies
<1>38. CASE Over
  BY <1>38 DEF Over
<1>39. CASE UNCHANGED vars
  BY <1>39
<1> QED
  BY <1>1, <1>2, <1>3, <1>4, <1>5, <1>6, <1>7, <1>8, <1>9, <1>10, <1>11,
     <1>12, <1>13, <1>14, <1>15, <1>16, <1>17, <1>18, <1>19, <1>20, <1>21,
     <1>22, <1>23, <1>24, <1>25, <1>26, <1>27, <1>28, <1>29, <1>30, <1>31,
     <1>32, <1>33, <1>34, <1>35, <1>36, <1>37, <1>38, <1>39 DEF Next,
     ParentStep, ChildSetupStep, CommandStep, EnvironmentStep

\* Without a foreign reaper only the own waitpid ends the zombie.
LEMMA OwnZombieStep ==
  InStep /\ Namespace /\ OwnZombie /\ [Next]_vars => OwnZombie'
<1> SUFFICES ASSUME InStep /\ Namespace /\ OwnZombie, [Next]_vars
             PROVE  OwnZombie' OBVIOUS
<1> USE DEF vars, parentVars, childVars, kernelVars, setupVars, InStep,
        Namespace, OwnZombie, Early, Setup, Waiting, Ending, Gone, Collected, Live,
        SetupStates, BeyondGate, Terminal
<1>1. CASE SetupProxy
  BY <1>1 DEF SetupProxy, Fail
<1>2. CASE CreatePipes
  BY <1>2 DEF CreatePipes, Fail
<1>3. CASE BuildArgs
  BY <1>3 DEF BuildArgs, Fail
<1>4. CASE Clone
  BY <1>4 DEF Clone, Fail, Inherited
<1>5. CASE CloseChildEnds
  BY <1>5 DEF CloseChildEnds
<1>6. CASE WriteMappings
  BY <1>6 DEF WriteMappings, Fail
<1>7. CASE CreateCgroup
  BY <1>7 DEF CreateCgroup, Fail
<1>8. CASE SetLimit
  BY <1>8 DEF SetLimit, Fail
<1>9. CASE AddProcess
  BY <1>9 DEF AddProcess, Fail
<1>10. CASE PushInput
  BY <1>10 DEF PushInput
<1>11. CASE EndInput
  BY <1>11 DEF EndInput
<1>12. CASE SignalChild
  BY <1>12 DEF SignalChild, Fail
<1>13. CASE ReadOutput
  BY <1>13 DEF ReadOutput, NextChunk
<1>14. CASE Poll
  BY <1>14 DEF Poll, Fail
<1>15. CASE CheckTimeout
  BY <1>15 DEF CheckTimeout, KillReaches
<1>16. CASE Drain
  BY <1>16 DEF Drain, Drained
<1>17. CASE CollectStats
  BY <1>17 DEF CollectStats
<1>18. CASE KillMembers
  BY <1>18 DEF KillMembers
<1>19. CASE Return
  BY <1>19 DEF Return
<1>20. CASE PassGate
  BY <1>20 DEF PassGate, Advance
<1>21. CASE RedirectStdio
  BY <1>21 DEF RedirectStdio, Advance
<1>22. CASE SetupMounts
  BY <1>22 DEF SetupMounts, Exit, Die, childRest, Advance
<1>23. CASE SetEnvironment
  BY <1>23 DEF SetEnvironment, Advance
<1>24. CASE ApplySeccomp
  BY <1>24 DEF ApplySeccomp, Advance
<1>25. CASE Exec
  BY <1>25 DEF Exec, Exit, Die, childRest, Advance
<1>26. CASE \E s \in Streams : Write(s)
  BY <1>26 DEF Write, childRest
<1>27. CASE ReadStdin
  BY <1>27 DEF ReadStdin, childRest
<1>28. CASE Fork
  BY <1>28 DEF Fork, childRest
<1>29. CASE KidExits
  BY <1>29 DEF KidExits, childRest
<1>30. CASE CommandExits
  BY <1>30 DEF CommandExits, Exit, Die, childRest
<1>31. CASE CommandCrashes
  BY <1>31 DEF CommandCrashes, Die, childRest
<1>32. CASE DeliverKill
  BY <1>32 DEF DeliverKill, DieBySigkill, Die
<1>33. CASE ExternalKill
  BY <1>33 DEF ExternalKill, DieBySigkill, Die
<1>34. CASE OomKill
  BY <1>34 DEF OomKill, DieBySigkill, Die
<1>35. CASE ForeignReap
  BY <1>35 DEF ForeignReap, childRest
<1>36. CASE Expire
  BY <1>36 DEF Expire
<1>37. CASE HostDies
  BY <1>37 DEF HostDies
<1>38. CASE Over
  BY <1>38 DEF Over
<1>39. CASE UNCHANGED vars
  BY <1>39
<1> QED
  BY <1>1, <1>2, <1>3, <1>4, <1>5, <1>6, <1>7, <1>8, <1>9, <1>10, <1>11,
     <1>12, <1>13, <1>14, <1>15, <1>16, <1>17, <1>18, <1>19, <1>20, <1>21,
     <1>22, <1>23, <1>24, <1>25, <1>26, <1>27, <1>28, <1>29, <1>30, <1>31,
     <1>32, <1>33, <1>34, <1>35, <1>36, <1>37, <1>38, <1>39 DEF Next,
     ParentStep, ChildSetupStep, CommandStep, EnvironmentStep

\* killed_by_timeout only becomes true in the arm StillAlive, and there the
\* child has not been reaped.
LEMMA OnlyCheckTimeoutKills ==
  OutputTypes /\ [Next]_vars
  /\ result'.killed_by_timeout /\ ~result.killed_by_timeout
  => ppc = "alive"
<1> SUFFICES ASSUME OutputTypes, [Next]_vars,
                      result'.killed_by_timeout, ~result.killed_by_timeout
               PROVE  ppc = "alive"
  OBVIOUS
<1> USE DEF vars, parentVars, childVars, kernelVars, setupVars, OutputTypes,
        ExecutionResults
<1>1. CASE SetupProxy
  BY <1>1 DEF SetupProxy, Fail
<1>2. CASE CreatePipes
  BY <1>2 DEF CreatePipes, Fail
<1>3. CASE BuildArgs
  BY <1>3 DEF BuildArgs, Fail
<1>4. CASE Clone
  BY <1>4 DEF Clone, Fail, Inherited
<1>5. CASE CloseChildEnds
  BY <1>5 DEF CloseChildEnds
<1>6. CASE WriteMappings
  BY <1>6 DEF WriteMappings, Fail
<1>7. CASE CreateCgroup
  BY <1>7 DEF CreateCgroup, Fail
<1>8. CASE SetLimit
  BY <1>8 DEF SetLimit, Fail
<1>9. CASE AddProcess
  BY <1>9 DEF AddProcess, Fail
<1>10. CASE PushInput
  BY <1>10 DEF PushInput
<1>11. CASE EndInput
  BY <1>11 DEF EndInput
<1>12. CASE SignalChild
  BY <1>12 DEF SignalChild, Fail
<1>13. CASE ReadOutput
  BY <1>13 DEF ReadOutput, NextChunk
<1>14. CASE Poll
  BY <1>14 DEF Poll, Fail
<1>15. CASE CheckTimeout
  BY <1>15 DEF CheckTimeout, KillReaches
<1>16. CASE Drain
  BY <1>16 DEF Drain, Drained
<1>17. CASE CollectStats
  BY <1>17 DEF CollectStats
<1>18. CASE KillMembers
  BY <1>18 DEF KillMembers
<1>19. CASE Return
  BY <1>19 DEF Return
<1>20. CASE PassGate
  BY <1>20 DEF PassGate, Advance
<1>21. CASE RedirectStdio
  BY <1>21 DEF RedirectStdio, Advance
<1>22. CASE SetupMounts
  BY <1>22 DEF SetupMounts, Exit, Die, childRest, Advance
<1>23. CASE SetEnvironment
  BY <1>23 DEF SetEnvironment, Advance
<1>24. CASE ApplySeccomp
  BY <1>24 DEF ApplySeccomp, Advance
<1>25. CASE Exec
  BY <1>25 DEF Exec, Exit, Die, childRest, Advance
<1>26. CASE \E s \in Streams : Write(s)
  BY <1>26 DEF Write, childRest
<1>27. CASE ReadStdin
  BY <1>27 DEF ReadStdin, childRest
<1>28. CASE Fork
  BY <1>28 DEF Fork, childRest
<1>29. CASE KidExits
  BY <1>29 DEF KidExits, childRest
<1>30. CASE CommandExits
  BY <1>30 DEF CommandExits, Exit, Die, childRest
<1>31. CASE CommandCrashes
  BY <1>31 DEF CommandCrashes, Die, childRest
<1>32. CASE DeliverKill
  BY <1>32 DEF DeliverKill, DieBySigkill, Die
<1>33. CASE ExternalKill
  BY <1>33 DEF ExternalKill, DieBySigkill, Die
<1>34. CASE OomKill
  BY <1>34 DEF OomKill, DieBySigkill, Die
<1>35. CASE ForeignReap
  BY <1>35 DEF ForeignReap, childRest
<1>36. CASE Expire
  BY <1>36 DEF Expire
<1>37. CASE HostDies
  BY <1>37 DEF HostDies
<1>38. CASE Over
  BY <1>38 DEF Over
<1>39. CASE UNCHANGED vars
  BY <1>39
<1> QED
  BY <1>1, <1>2, <1>3, <1>4, <1>5, <1>6, <1>7, <1>8, <1>9, <1>10, <1>11,
     <1>12, <1>13, <1>14, <1>15, <1>16, <1>17, <1>18, <1>19, <1>20, <1>21,
     <1>22, <1>23, <1>24, <1>25, <1>26, <1>27, <1>28, <1>29, <1>30, <1>31,
     <1>32, <1>33, <1>34, <1>35, <1>36, <1>37, <1>38, <1>39 DEF Next,
     ParentStep, ChildSetupStep, CommandStep, EnvironmentStep

-----------------------------------------------------------------------------
(* The invariant *)

\* The initial states satisfy the invariant.
LEMMA InvInit == Init => Inv
<1> SUFFICES ASSUME Init PROVE Inv OBVIOUS
<1> USE CallsAssumption, BoundsAssumption DEF Init
<1>0. call \in CallType
  OBVIOUS
<1>1. ControlTypes
  BY DEF ControlTypes, ParentStates, ChildStates, Collected, Terminal
<1>2. FdTypes
  BY DEF FdTypes
<1>3. CountTypes
  BY <1>0 DEF CountTypes, CallType
<1>4. OutputTypes
  BY DEF OutputTypes, StatusType, ExecutionResults, NewResult, NoSignal, Streams
<1>5. InStep /\ GateHeld /\ SetupOrder /\ Namespace /\ OwnZombie
  BY DEF InStep, GateHeld, SetupOrder, Namespace, OwnZombie, Early, Setup,
         Ending, Gone, Collected, Live, SetupStates, BeyondGate
<1>6. ParentEnds /\ CgroupLife /\ ResultParts
  BY DEF ParentEnds, CgroupLife, ResultParts, Waiting, Gone, Collected
<1> QED BY <1>1, <1>2, <1>3, <1>4, <1>5, <1>6 DEF Inv, TypeOK

\* Every step preserves the invariant: its parts, taken together.
LEMMA InvStep == Inv /\ [Next]_vars => Inv'
<1> SUFFICES ASSUME Inv, [Next]_vars PROVE Inv' OBVIOUS
<1>1. TypeOK'
  BY ControlStep, FdStep, CountStep, OutputStep DEF Inv, TypeOK
<1>2. InStep' /\ GateHeld' /\ SetupOrder' /\ Namespace' /\ OwnZombie'
  BY InStepStep, GateHeldStep, SetupOrderStep, NamespaceStep, OwnZombieStep
     DEF Inv
<1>3. ParentEnds' /\ CgroupLife' /\ ResultParts'
  BY ParentEndsStep, CgroupLifeStep, ResultPartsStep DEF Inv, TypeOK
<1> QED BY <1>1, <1>2, <1>3 DEF Inv

\* The parent and the child never get further apart than Inv allows.
THEOREM Invariance == Spec => []Inv
<1> QED BY InvInit, InvStep, PTL DEF Spec

\* Every reachable state of every execution is well typed and within bounds.
THEOREM TypeCorrect == Spec => []TypeOK
<1>1. Inv => TypeOK
  BY DEF Inv
<1> QED BY <1>1, Invariance, PTL

\* Nothing of the sandbox runs unconfined, also when the parent fails or dies
\* at any point: the child cannot pass the gate by an end of file.
THEOREM Confinement == Spec => []ConfinedBeyondGate
<1>1. Inv => ConfinedBeyondGate
  BY DEF Inv, SetupOrder, ConfinedBeyondGate
<1> QED BY <1>1, Invariance, PTL

\* A returned result holds all the output there ever was.
THEOREM OutputComplete == Spec => []OkOutputComplete
<1>1. Inv => OkOutputComplete
  BY DEF Inv, ResultParts, OkOutputComplete
<1> QED BY <1>1, Invariance, PTL

\* A call that returned a result leaves no process, no pipe end, no cgroup and
\* no proxy behind.
THEOREM NothingLeft == Spec => []OkLeavesNothing
<1>1. Inv => OkLeavesNothing
  <2> SUFFICES ASSUME Inv, outcome = "ok", ppc = "returned"
               PROVE  /\ cpc = "reaped" /\ kids = 0
                      /\ parentFds = {} /\ childFds = {}
                      /\ cgroup \in {"none", "gone"}
                      /\ ~proxy
    BY DEF OkLeavesNothing
  <2>1. cpc = "reaped" /\ parentFds = {}
    BY DEF Inv, ResultParts, ParentEnds
  <2>2. kids = 0 /\ childFds = {}
    BY <2>1 DEF Inv, Namespace, Gone, Collected, TypeOK, CountTypes
  <2>3. cgroup \in {"none", "gone"} /\ ~proxy
    BY DEF Inv, CgroupLife, TypeOK, ControlTypes
  <2> QED BY <2>1, <2>2, <2>3
<1> QED BY <1>1, Invariance, PTL

\* An OOM kill is never missing from the result.
THEOREM OomReported == Spec => []OomIsReported
<1>1. Inv => OomIsReported
  BY DEF Inv, ResultParts, OomIsReported
<1> QED BY <1>1, Invariance, PTL

\* success() is only ever said of a command that ended by itself with 0.
THEOREM GenuineSuccess == Spec => []SuccessIsGenuine
<1>1. Inv => SuccessIsGenuine
  <2> SUFFICES ASSUME Inv, outcome = "ok", Success(result)
               PROVE  /\ status = [code |-> 0, signal |-> NoSignal, ran |-> TRUE]
                      /\ ~oomKill
    BY DEF SuccessIsGenuine
  <2>1. ~oomKill
    BY DEF Inv, ResultParts, Success
  <2>2. status.signal = NoSignal /\ status.code = 0
    BY DEF Inv, ResultParts, Success, ReportedCode, ReportedSignal
  <2>3. status.ran
    BY <2>2 DEF Inv, ResultParts, Gone, Collected
  <2>4. status \in StatusType
    BY DEF Inv, TypeOK, OutputTypes
  <2> QED BY <2>1, <2>2, <2>3, <2>4 DEF StatusType
<1> QED BY <1>1, Invariance, PTL

-----------------------------------------------------------------------------
(* The contract of the trait *)

\* What a result claims beyond ResultParts, and that a dead host reads nothing.
Claims ==
  /\ result.killed_by_timeout => expired
  /\ result.killed_by_oom => oomKill
  /\ ppc = "dead" => parentFds = {}

\* A result never claims a timeout or an OOM kill that did not happen.
LEMMA ClaimsStep == TypeOK /\ Claims /\ [Next]_vars => Claims'
<1> SUFFICES ASSUME TypeOK, Claims, [Next]_vars PROVE Claims' OBVIOUS
<1>0. result \in ExecutionResults
  BY DEF TypeOK, OutputTypes
<1> USE <1>0 DEF vars, parentVars, childVars, kernelVars, setupVars, Claims,
        ExecutionResults, Terminal
<1>1. CASE SetupProxy
  BY <1>1 DEF SetupProxy, Fail
<1>2. CASE CreatePipes
  BY <1>2 DEF CreatePipes, Fail
<1>3. CASE BuildArgs
  BY <1>3 DEF BuildArgs, Fail
<1>4. CASE Clone
  BY <1>4 DEF Clone, Inherited, Fail
<1>5. CASE CloseChildEnds
  BY <1>5 DEF CloseChildEnds
<1>6. CASE WriteMappings
  BY <1>6 DEF WriteMappings, Fail
<1>7. CASE CreateCgroup
  BY <1>7 DEF CreateCgroup, Fail
<1>8. CASE SetLimit
  BY <1>8 DEF SetLimit, Fail
<1>9. CASE AddProcess
  BY <1>9 DEF AddProcess, Fail
<1>10. CASE PushInput
  BY <1>10 DEF PushInput
<1>11. CASE EndInput
  BY <1>11 DEF EndInput
<1>12. CASE SignalChild
  BY <1>12 DEF SignalChild, Fail
<1>13. CASE ReadOutput
  BY <1>13 DEF ReadOutput, NextChunk
<1>14. CASE Poll
  BY <1>14 DEF Poll, Fail
<1>15. CASE CheckTimeout
  BY <1>15 DEF CheckTimeout
<1>16. CASE Drain
  BY <1>16 DEF Drain, Drained
<1>17. CASE CollectStats
  BY <1>17 DEF CollectStats, WasOomKilled
<1>18. CASE KillMembers
  BY <1>18 DEF KillMembers
<1>19. CASE Return
  BY <1>19 DEF Return
<1>20. CASE PassGate
  BY <1>20 DEF PassGate, Advance
<1>21. CASE RedirectStdio
  BY <1>21 DEF RedirectStdio, Advance
<1>22. CASE SetupMounts
  BY <1>22 DEF SetupMounts, Exit, Die, childRest, Advance
<1>23. CASE SetEnvironment
  BY <1>23 DEF SetEnvironment, Advance
<1>24. CASE ApplySeccomp
  BY <1>24 DEF ApplySeccomp, Advance
<1>25. CASE Exec
  BY <1>25 DEF Exec, Exit, Die, childRest, Advance
<1>26. CASE \E s \in Streams : Write(s)
  BY <1>26 DEF Write, childRest
<1>27. CASE ReadStdin
  BY <1>27 DEF ReadStdin, childRest
<1>28. CASE Fork
  BY <1>28 DEF Fork, childRest
<1>29. CASE KidExits
  BY <1>29 DEF KidExits, childRest
<1>30. CASE CommandExits
  BY <1>30 DEF CommandExits, Exit, Die, childRest
<1>31. CASE CommandCrashes
  BY <1>31 DEF CommandCrashes, Die, childRest
<1>32. CASE DeliverKill
  BY <1>32 DEF DeliverKill, DieBySigkill, Die
<1>33. CASE ExternalKill
  BY <1>33 DEF ExternalKill, DieBySigkill, Die
<1>34. CASE OomKill
  <2>1. oomKill' = TRUE /\ UNCHANGED <<result, expired, ppc, parentFds>>
    BY <1>34 DEF OomKill, DieBySigkill
  <2> QED BY <2>1
<1>35. CASE ForeignReap
  BY <1>35 DEF ForeignReap, childRest
<1>36. CASE Expire
  BY <1>36 DEF Expire
<1>37. CASE HostDies
  BY <1>37 DEF HostDies
<1>38. CASE Over
  BY <1>38 DEF Over
<1>39. CASE UNCHANGED vars
  BY <1>39
<1> QED
  BY <1>1, <1>2, <1>3, <1>4, <1>5, <1>6, <1>7, <1>8, <1>9, <1>10, <1>11, <1>12,
     <1>13, <1>14, <1>15, <1>16, <1>17, <1>18, <1>19, <1>20, <1>21, <1>22,
     <1>23, <1>24, <1>25, <1>26, <1>27, <1>28, <1>29, <1>30, <1>31, <1>32,
     <1>33, <1>34, <1>35, <1>36, <1>37, <1>38, <1>39
  DEF Next, ParentStep, ChildSetupStep, CommandStep, EnvironmentStep

\* A step that changes nothing the contract sees.
LEMMA Unseen ==
  ASSUME UNCHANGED <<CallerView, AnswerView, CommandView, status, produced,
                     expired, oomKill>>
  PROVE  UNCHANGED Contract!vars
BY DEF Contract!vars

\* The death of the sandboxed process is the end of the command, before the
\* caller has a result.
LEMMA DeathSeen ==
  ASSUME Inv, cpc \in Live, NEW code \in Nat, NEW signal \in Nat,
         Die(code, signal), UNCHANGED <<ppc, result, outcome>>
  PROVE  /\ CallerView # "answered"
         /\ UNCHANGED <<CallerView, AnswerView, produced>>
         /\ Contract!Ends
<1>1. CallerView # "answered"
  <2>1. outcome # "ok"
    BY DEF Inv, ResultParts, Live, SetupStates
  <2> QED BY <2>1 DEF CallerView
<1>2. UNCHANGED <<CallerView, AnswerView, produced>>
  BY DEF CallerView, AnswerView, Die
<1>3. CommandView # "ended" /\ CommandView' = "ended"
  BY DEF CommandView, Die, Live, SetupStates, Collected
<1>4. [code |-> status.code, signal |-> status.signal]'
        \in [code : Nat, signal : Nat]
  BY DEF Die
<1> QED BY <1>1, <1>2, <1>3, <1>4 DEF Contract!Ends

\* Every step of the executor is a step the contract allows, or none it sees.
LEMMA StepSimulation ==
  Inv /\ Claims /\ [Next]_vars => [Contract!Next]_(Contract!vars)
<1> SUFFICES ASSUME Inv, Claims, [Next]_vars
             PROVE  Contract!Next \/ UNCHANGED Contract!vars
  OBVIOUS
<1> USE DEF vars, parentVars, childVars, kernelVars, setupVars, NoSignal
<1>1. CASE SetupProxy
  <2>1. ppc \notin Terminal /\ ppc' \notin Terminal
    BY <1>1 DEF SetupProxy, Fail, Terminal
  <2>2. UNCHANGED <<CommandView, status, produced, expired, oomKill>>
    BY <1>1 DEF SetupProxy, Fail, CommandView, Collected
  <2> QED BY <2>1, <2>2, Unseen DEF CallerView, AnswerView, Terminal
<1>2. CASE CreatePipes
  <2>1. ppc \notin Terminal /\ ppc' \notin Terminal
    BY <1>2 DEF CreatePipes, Fail, Terminal
  <2>2. UNCHANGED <<CommandView, status, produced, expired, oomKill>>
    BY <1>2 DEF CreatePipes, Fail, CommandView, Collected
  <2> QED BY <2>1, <2>2, Unseen DEF CallerView, AnswerView, Terminal
<1>3. CASE BuildArgs
  <2>1. ppc \notin Terminal /\ ppc' \notin Terminal
    BY <1>3 DEF BuildArgs, Fail, Terminal
  <2>2. UNCHANGED <<CommandView, status, produced, expired, oomKill>>
    BY <1>3 DEF BuildArgs, Fail, CommandView, Collected
  <2> QED BY <2>1, <2>2, Unseen DEF CallerView, AnswerView, Terminal
<1>4. CASE Clone
  <2>1. ppc \notin Terminal /\ ppc' \notin Terminal
    BY <1>4 DEF Clone, Inherited, Fail, Terminal
  <2>2. UNCHANGED <<CommandView, status, produced, expired, oomKill>>
    BY <1>4 DEF Clone, Inherited, Fail, Inv, InStep,
        Early, CommandView, Collected
  <2> QED BY <2>1, <2>2, Unseen DEF CallerView, AnswerView, Terminal
<1>5. CASE CloseChildEnds
  <2>1. ppc \notin Terminal /\ ppc' \notin Terminal
    BY <1>5 DEF CloseChildEnds, Terminal
  <2>2. UNCHANGED <<CommandView, status, produced, expired, oomKill>>
    BY <1>5 DEF CloseChildEnds, CommandView, Collected
  <2> QED BY <2>1, <2>2, Unseen DEF CallerView, AnswerView, Terminal
<1>6. CASE WriteMappings
  <2>1. ppc \notin Terminal /\ ppc' \notin Terminal
    BY <1>6 DEF WriteMappings, Fail, Terminal
  <2>2. UNCHANGED <<CommandView, status, produced, expired, oomKill>>
    BY <1>6 DEF WriteMappings, Fail, CommandView, Collected
  <2> QED BY <2>1, <2>2, Unseen DEF CallerView, AnswerView, Terminal
<1>7. CASE CreateCgroup
  <2>1. ppc \notin Terminal /\ ppc' \notin Terminal
    BY <1>7 DEF CreateCgroup, Fail, Terminal
  <2>2. UNCHANGED <<CommandView, status, produced, expired, oomKill>>
    BY <1>7 DEF CreateCgroup, Fail, CommandView, Collected
  <2> QED BY <2>1, <2>2, Unseen DEF CallerView, AnswerView, Terminal
<1>8. CASE SetLimit
  <2>1. ppc \notin Terminal /\ ppc' \notin Terminal
    BY <1>8 DEF SetLimit, Fail, Terminal
  <2>2. UNCHANGED <<CommandView, status, produced, expired, oomKill>>
    BY <1>8 DEF SetLimit, Fail, CommandView, Collected
  <2> QED BY <2>1, <2>2, Unseen DEF CallerView, AnswerView, Terminal
<1>9. CASE AddProcess
  <2>1. ppc \notin Terminal /\ ppc' \notin Terminal
    BY <1>9 DEF AddProcess, Fail, Terminal
  <2>2. UNCHANGED <<CommandView, status, produced, expired, oomKill>>
    BY <1>9 DEF AddProcess, Fail, CommandView, Collected
  <2> QED BY <2>1, <2>2, Unseen DEF CallerView, AnswerView, Terminal
<1>10. CASE PushInput
  <2>1. ppc \notin Terminal /\ ppc' \notin Terminal
    BY <1>10 DEF PushInput, Terminal
  <2>2. UNCHANGED <<CommandView, status, produced, expired, oomKill>>
    BY <1>10 DEF PushInput, CommandView, Collected
  <2> QED BY <2>1, <2>2, Unseen DEF CallerView, AnswerView, Terminal
<1>11. CASE EndInput
  <2>1. ppc \notin Terminal /\ ppc' \notin Terminal
    BY <1>11 DEF EndInput, Terminal
  <2>2. UNCHANGED <<CommandView, status, produced, expired, oomKill>>
    BY <1>11 DEF EndInput, CommandView, Collected
  <2> QED BY <2>1, <2>2, Unseen DEF CallerView, AnswerView, Terminal
<1>12. CASE SignalChild
  <2>1. ppc \notin Terminal /\ ppc' \notin Terminal
    BY <1>12 DEF SignalChild, Fail, Terminal
  <2>2. UNCHANGED <<CommandView, status, produced, expired, oomKill>>
    BY <1>12 DEF SignalChild, Fail, CommandView, Collected
  <2> QED BY <2>1, <2>2, Unseen DEF CallerView, AnswerView, Terminal
<1>13. CASE ReadOutput
  <2>1. ppc \notin Terminal /\ ppc' \notin Terminal
    BY <1>13 DEF ReadOutput, NextChunk, Terminal
  <2>2. UNCHANGED <<CommandView, status, produced, expired, oomKill>>
    BY <1>13 DEF ReadOutput, NextChunk, CommandView, Collected
  <2> QED BY <2>1, <2>2, Unseen DEF CallerView, AnswerView, Terminal
<1>14. CASE Poll
  <2>1. ppc \notin Terminal /\ ppc' \notin Terminal
    BY <1>14 DEF Poll, Fail, Terminal
  <2>2. UNCHANGED <<CommandView, status, produced, expired, oomKill>>
    BY <1>14 DEF Poll, Fail, CommandView, Collected
  <2> QED BY <2>1, <2>2, Unseen DEF CallerView, AnswerView, Terminal
<1>15. CASE CheckTimeout
  <2>1. ppc \notin Terminal /\ ppc' \notin Terminal
    BY <1>15 DEF CheckTimeout, Terminal
  <2>2. UNCHANGED <<CommandView, status, produced, expired, oomKill>>
    BY <1>15 DEF CheckTimeout, CommandView, Collected
  <2> QED BY <2>1, <2>2, Unseen DEF CallerView, AnswerView, Terminal
<1>16. CASE Drain
  <2>1. ppc \notin Terminal /\ ppc' \notin Terminal
    BY <1>16 DEF Drain, Drained, Terminal
  <2>2. UNCHANGED <<CommandView, status, produced, expired, oomKill>>
    BY <1>16 DEF Drain, Drained, CommandView, Collected
  <2> QED BY <2>1, <2>2, Unseen DEF CallerView, AnswerView, Terminal
<1>17. CASE CollectStats
  <2>1. ppc \notin Terminal /\ ppc' \notin Terminal
    BY <1>17 DEF CollectStats, Terminal
  <2>2. UNCHANGED <<CommandView, status, produced, expired, oomKill>>
    BY <1>17 DEF CollectStats, CommandView, Collected
  <2> QED BY <2>1, <2>2, Unseen DEF CallerView, AnswerView, Terminal
<1>18. CASE KillMembers
  <2>1. ppc \notin Terminal /\ ppc' \notin Terminal
    BY <1>18 DEF KillMembers, Terminal
  <2>2. UNCHANGED <<CommandView, status, produced, expired, oomKill>>
    BY <1>18 DEF KillMembers, CommandView, Collected
  <2> QED BY <2>1, <2>2, Unseen DEF CallerView, AnswerView, Terminal
<1>19. CASE Return
  <2>1. /\ CallerView = "waiting" /\ AnswerView = NewResult
        /\ UNCHANGED <<CommandView, status, produced, expired, oomKill>>
    BY <1>19 DEF Return, CallerView, AnswerView, CommandView
  <2>2. CASE outcome = "ok"
    <3>1. CommandView = "ended"
      BY <2>2 DEF Inv, ResultParts, CommandView, Collected
    <3>2. CallerView' = "answered" /\ AnswerView' = result
      BY <1>19, <2>2 DEF Return, CallerView, AnswerView
    <3>3. result \in Contract!ExecutionResults
      BY DEF Inv, TypeOK, OutputTypes, ExecutionResults, Streams,
             Contract!ExecutionResults, Contract!Streams
    <3>4. Contract!Tells(result)
      <4>1. status \in StatusType
        BY DEF Inv, TypeOK, OutputTypes
      <4>2. result.output = produced /\ result.exit_code = ReportedCode(status)
        BY <2>2 DEF Inv, ResultParts
      <4>3. result.signal = ReportedSignal(status) /\ (oomKill => result.killed_by_oom)
        BY <2>2 DEF Inv, ResultParts
      <4> QED BY <4>1, <4>2, <4>3 DEF Contract!Tells, Claims, ReportedCode,
                 ReportedSignal, StatusType, Contract!NoSignal, Contract!Streams,
                 Streams
    <3>5. Contract!Tells(AnswerView')
      BY <3>2, <3>4 DEF Contract!Tells
    <3>6. Contract!Answer
      BY <2>1, <3>1, <3>2, <3>3, <3>5 DEF Contract!Answer, Contract!sandboxVars
    <3> QED BY <3>6 DEF Contract!Next
  <2>3. CASE outcome # "ok"
    <3>1. CallerView' = "failed" /\ AnswerView' = NewResult
      BY <1>19, <2>3 DEF Return, CallerView, AnswerView
    <3>2. Contract!Fail
      BY <2>1, <3>1 DEF Contract!Fail, Contract!sandboxVars
    <3> QED BY <3>2 DEF Contract!Next
  <2> QED BY <2>2, <2>3
<1>20. CASE PassGate
  BY <1>20, Unseen DEF PassGate, Advance, CallerView, AnswerView, CommandView, Collected
<1>21. CASE RedirectStdio
  BY <1>21, Unseen DEF RedirectStdio, Advance, CallerView, AnswerView, CommandView, Collected
<1>22. CASE SetupMounts
  <2>1. CASE Advance("mount", "env") /\ UNCHANGED <<childFds, filtered, kernelVars>>
    BY <2>1, Unseen DEF Advance, CallerView, AnswerView, CommandView, Collected
  <2>2. CASE cpc = "mount" /\ Exit(1)
    <3>1. Die(1, NoSignal) /\ UNCHANGED <<ppc, result, outcome, expired, oomKill>>
      BY <2>2 DEF Exit, childRest
    <3>2. cpc \in Live
      BY <2>2 DEF Live, SetupStates
    <3> QED BY <3>1, <3>2, DeathSeen DEF Contract!End, Contract!Next
  <2> QED BY <1>22, <2>1, <2>2 DEF SetupMounts
<1>23. CASE SetEnvironment
  BY <1>23, Unseen DEF SetEnvironment, Advance, CallerView, AnswerView, CommandView, Collected
<1>24. CASE ApplySeccomp
  BY <1>24, Unseen DEF ApplySeccomp, Advance, CallerView, AnswerView, CommandView, Collected
<1>25. CASE Exec
  <2>1. CASE Advance("exec", "run") /\ UNCHANGED <<childFds, filtered, kernelVars>>
    <3>1. CommandView = "absent" /\ CommandView' = "running"
      BY <2>1 DEF Advance, CommandView, Collected
    <3>2. UNCHANGED <<CallerView, AnswerView, status, produced, expired, oomKill>>
      BY <2>1 DEF Advance, CallerView, AnswerView
    <3>3. CallerView \in {"waiting", "gone"}
      <4>1. ppc # "returned"
        BY <2>1 DEF Inv, InStep, Advance, Ending, BeyondGate, Live, SetupStates
      <4> QED BY <4>1 DEF CallerView
    <3> QED BY <3>1, <3>2, <3>3 DEF Contract!Start, Contract!Next
  <2>2. CASE cpc = "exec" /\ Exit(127)
    <3>1. Die(127, NoSignal) /\ UNCHANGED <<ppc, result, outcome, expired, oomKill>>
      BY <2>2 DEF Exit, childRest
    <3>2. cpc \in Live
      BY <2>2 DEF Live, SetupStates
    <3> QED BY <3>1, <3>2, DeathSeen DEF Contract!End, Contract!Next
  <2> QED BY <1>25, <2>1, <2>2 DEF Exec
<1>26. CASE \E s \in Streams : Write(s)
  <2>1. PICK s \in Streams : Write(s)
    BY <1>26
  <2>2. CallerView = "waiting" /\ CommandView = "running"
    <3>1. cpc = "run" /\ ppc # "returned"
      BY <2>1 DEF Inv, InStep, Namespace, Write, Ending, BeyondGate, Live,
                  TypeOK, CountTypes
    <3>2. ppc # "dead"
      BY <2>1 DEF Write, Claims
    <3> QED BY <3>1, <3>2 DEF CallerView, CommandView, Collected
  <2>3. UNCHANGED <<CallerView, AnswerView, CommandView, status, expired, oomKill>>
    BY <2>1 DEF Write, childRest, CallerView, AnswerView, CommandView
  <2>4. produced' = [produced EXCEPT ![s] = @ + 1]
    BY <2>1 DEF Write
  <2>5. Contract!Emit(s)
    BY <2>2, <2>3, <2>4 DEF Contract!Emit
  <2> QED BY <2>5 DEF Contract!Next, Contract!Streams, Streams
<1>27. CASE ReadStdin
  BY <1>27, Unseen DEF ReadStdin, childRest, CallerView, AnswerView, CommandView, Collected
<1>28. CASE Fork
  BY <1>28, Unseen DEF Fork, childRest, CallerView, AnswerView, CommandView, Collected
<1>29. CASE KidExits
  BY <1>29, Unseen DEF KidExits, childRest, CallerView, AnswerView, CommandView, Collected
<1>30. CASE CommandExits
  <2>1. PICK code \in {0, 1} : Exit(code)
    BY <1>30 DEF CommandExits
  <2>2. Die(code, NoSignal) /\ UNCHANGED <<ppc, result, outcome, expired, oomKill>>
    BY <2>1 DEF Exit, childRest
  <2>3. cpc \in Live
    BY <1>30 DEF CommandExits, Live
  <2> QED BY <2>2, <2>3, DeathSeen DEF Contract!End, Contract!Next
<1>31. CASE CommandCrashes
  <2>2. Die(0, 11) /\ UNCHANGED <<ppc, result, outcome, expired, oomKill>>
    BY <1>31 DEF CommandCrashes, childRest
  <2>3. cpc \in Live
    BY <1>31 DEF CommandCrashes, Live
  <2> QED BY <2>2, <2>3, DeathSeen DEF Contract!End, Contract!Next
<1>32. CASE DeliverKill
  <2>1. Die(0, 9) /\ cpc \in Live
    BY <1>32 DEF DeliverKill, DieBySigkill
  <2>2. UNCHANGED <<ppc, result, outcome, expired, oomKill>>
    BY <1>32 DEF DeliverKill, DieBySigkill
  <2> QED BY <2>1, <2>2, DeathSeen DEF Contract!End, Contract!Next
<1>33. CASE ExternalKill
  <2>1. Die(0, 9) /\ cpc \in Live
    BY <1>33 DEF ExternalKill, DieBySigkill
  <2>2. UNCHANGED <<ppc, result, outcome, expired, oomKill>>
    BY <1>33 DEF ExternalKill, DieBySigkill
  <2> QED BY <2>1, <2>2, DeathSeen DEF Contract!End, Contract!Next
<1>34. CASE OomKill
  <2>1. oomKill' = TRUE
    BY <1>34 DEF OomKill
  <2>2. CASE DieBySigkill
    <3>1. Die(0, 9) /\ cpc \in Live
      BY <2>2 DEF DieBySigkill
    <3>2. UNCHANGED <<ppc, result, outcome, expired>>
      BY <2>2 DEF DieBySigkill
    <3> QED BY <2>1, <3>1, <3>2, DeathSeen DEF Contract!Starve, Contract!Next
  <2>3. CASE ~DieBySigkill
    <3>1. UNCHANGED <<ppc, result, outcome, cpc, status, produced, expired>>
      BY <1>34, <2>3 DEF OomKill
    <3>2. CallerView # "answered"
      <4>1. outcome # "ok"
        BY <1>34 DEF OomKill, Inv, ResultParts, BeyondGate, Live, SetupStates
      <4> QED BY <4>1 DEF CallerView
    <3>3. UNCHANGED <<CallerView, AnswerView, CommandView>>
      BY <3>1 DEF CallerView, AnswerView, CommandView
    <3> QED BY <2>1, <3>1, <3>2, <3>3 DEF Contract!Starve, Contract!Next
  <2> QED BY <2>2, <2>3
<1>35. CASE ForeignReap
  BY <1>35, Unseen DEF ForeignReap, childRest, CallerView, AnswerView, CommandView, Collected
<1>36. CASE Expire
  <2>1. CallerView = "waiting" /\ expired' = TRUE
    BY <1>36 DEF Expire, CallerView
  <2>2. UNCHANGED <<CallerView, AnswerView, CommandView, status, produced, oomKill>>
    BY <1>36 DEF Expire, CallerView, AnswerView, CommandView
  <2> QED BY <2>1, <2>2 DEF Contract!Elapse, Contract!Next
<1>37. CASE HostDies
  <2>1. CallerView = "waiting" /\ CallerView' = "gone"
    BY <1>37 DEF HostDies, CallerView, Terminal
  <2>2. UNCHANGED <<AnswerView, CommandView, status, produced, expired, oomKill>>
    BY <1>37, <2>1 DEF HostDies, AnswerView, CommandView
  <2> QED BY <2>1, <2>2 DEF Contract!Vanish, Contract!Next, Contract!sandboxVars
<1>38. CASE Over
  BY <1>38, Unseen DEF Over, CallerView, AnswerView, CommandView, Collected
<1>39. CASE UNCHANGED vars
  BY <1>39, Unseen DEF CallerView, AnswerView, CommandView, Collected
<1> QED
  BY <1>1, <1>2, <1>3, <1>4, <1>5, <1>6, <1>7, <1>8, <1>9, <1>10, <1>11, <1>12,
     <1>13, <1>14, <1>15, <1>16, <1>17, <1>18, <1>19, <1>20, <1>21, <1>22,
     <1>23, <1>24, <1>25, <1>26, <1>27, <1>28, <1>29, <1>30, <1>31, <1>32,
     <1>33, <1>34, <1>35, <1>36, <1>37, <1>38, <1>39
  DEF Next, ParentStep, ChildSetupStep, CommandStep, EnvironmentStep

\* LinuxExecutor implements the contract of the trait: execute gives one answer,
\* it is true, and with it everything in the sandbox has come to its end.
THEOREM Implementation == Spec => ImplementsContract
<1>1. Init => Contract!Init
  BY DEF Init, Contract!Init, CallerView, AnswerView, CommandView, NewResult,
         Collected, Streams, NoSignal, Contract!NewResult, Contract!Streams,
         Contract!NoSignal
<1>2. Init => Claims
  BY DEF Init, Claims, NewResult
<1>3. Inv => TypeOK
  BY DEF Inv
<1>4. Spec => []Claims
  BY <1>2, <1>3, ClaimsStep, Invariance, PTL DEF Spec
<1> QED
  BY <1>1, <1>4, StepSimulation, Invariance, PTL
  DEF Spec, ImplementsContract, Contract!Spec

\* What follows for whoever calls execute (SandboxExecutorProofs).
Caller ==
  INSTANCE SandboxExecutorProofs WITH
    caller <- CallerView, answer <- AnswerView, command <- CommandView,
    ending <- [code |-> status.code, signal |-> status.signal],
    printed <- produced, garbled <- {}, late <- expired, starved <- oomKill

\* The contract of the executor is the one those theorems are about.
LEMMA ServesCaller == Spec => Caller!Spec
<1>1. Contract!Init => Caller!Init
  BY DEF Contract!Init, Caller!Init, Contract!NewResult, Caller!NewResult, Contract!Streams,
         Caller!Streams, Contract!NoSignal, Caller!NoSignal
<1>2. [Contract!Next]_(Contract!vars) => [Caller!Next]_(Caller!vars)
  BY
  DEF Contract!Start, Caller!Start, Contract!End, Caller!End, Contract!Starve,
      Caller!Starve, Contract!Ends, Caller!Ends, Contract!Elapse, Caller!Elapse,
      Contract!Answer, Caller!Answer, Contract!Fail, Caller!Fail, Contract!Vanish,
      Caller!Vanish, Contract!Emit, Caller!Emit, Contract!Next, Caller!Next,
      Contract!vars, Caller!vars, Contract!sandboxVars, Caller!sandboxVars,
      Contract!Tells, Caller!Tells, Contract!ExecutionResults, Caller!ExecutionResults,
      Contract!Streams, Caller!Streams, Contract!NoSignal, Caller!NoSignal
<1> QED
  BY <1>1, <1>2, Implementation, PTL DEF ImplementsContract, Contract!Spec, Caller!Spec

\* After execute has returned nothing of the command is printed and it is not
\* started any more; an error stays an error and a result the same result.
QuietAfterReturn ==
  [][ ppc = "returned" =>
        /\ ppc' = "returned" /\ produced' = produced
        /\ outcome' = "ok" <=> outcome = "ok"
        /\ outcome = "ok" => result' = result
        /\ cpc' = "run" => cpc = "run" ]_vars

\* The return of execute is the last thing a caller can see of its sandbox.
THEOREM ReturnIsLast == Spec => QuietAfterReturn
<1>1. Spec => Caller!OverWithAnswer /\ Caller!EndsOnce /\ Caller!QuietAfterError
  BY ServesCaller, Caller!AnswerIsLast, Caller!OneOutcome, Caller!ErrorsAreQuiet, PTL
<1>2. /\ [Next]_vars
      /\ [CallerView # "answered"]_(Caller!vars)
      /\ [CallerView = "waiting"]_<<CallerView, AnswerView>>
      /\ [CallerView # "failed" \/ (UNCHANGED produced /\ CommandView' # "running")]_
           <<CommandView, produced>>
      => [ ppc = "returned" =>
             /\ ppc' = "returned" /\ produced' = produced
             /\ outcome' = "ok" <=> outcome = "ok"
             /\ outcome = "ok" => result' = result
             /\ cpc' = "run" => cpc = "run" ]_vars
  <2> SUFFICES ASSUME [CallerView # "answered"]_(Caller!vars),
                      [CallerView = "waiting"]_<<CallerView, AnswerView>>,
                      [CallerView # "failed" \/ (UNCHANGED produced /\ CommandView' # "running")]_
                        <<CommandView, produced>>,
                      ppc = "returned"
               PROVE  /\ ppc' = "returned" /\ produced' = produced
                      /\ outcome' = "ok" <=> outcome = "ok"
                      /\ outcome = "ok" => result' = result
                      /\ cpc' = "run" => cpc = "run"
    OBVIOUS
  <2>1. CallerView' = CallerView /\ AnswerView' = AnswerView
    BY DEF CallerView
  <2>2. ppc' = "returned" /\ (outcome' = "ok" <=> outcome = "ok")
    BY <2>1 DEF CallerView
  <2>3. outcome = "ok" => result' = result
    BY <2>1, <2>2 DEF CallerView, AnswerView
  <2>4. UNCHANGED <<CommandView, produced>> \/ (produced' = produced /\ CommandView' # "running")
    <3>1. CASE outcome = "ok"
      BY <3>1 DEF CallerView, Caller!vars
    <3>2. CASE outcome # "ok"
      BY <3>2 DEF CallerView
    <3> QED
      BY <3>1, <3>2
  <2>5. cpc' = "run" => cpc = "run"
    <3>1. (CommandView = "running" <=> cpc = "run") /\ (cpc' = "run" => CommandView' = "running")
      BY DEF CommandView, Collected
    <3> QED
      BY <2>4, <3>1
  <2> QED
    BY <2>2, <2>3, <2>4, <2>5
<1> QED
  BY <1>1, <1>2, PTL
  DEF Spec, QuietAfterReturn, Caller!OverWithAnswer, Caller!EndsOnce, Caller!QuietAfterError

-----------------------------------------------------------------------------
(* Liveness.  A call has 26 stations, the last of them its end, and no step  *)
(* takes it back.  Weak fairness speaks of when an action is ENABLED, which  *)
(* the proof takes from ReadyStepsEnabled and does not look into.            *)

\* The steps of the child, the command and the environment change nothing of
\* the parent; a process dies once, and a kill under way reaches it.
LEMMA OthersSteps ==
  ASSUME TypeOK, [Next]_vars, ~ParentStep, ~HostDies
  PROVE  /\ UNCHANGED <<call, ppc, parentFds, result, limitsSet, stdinWritten>>
         /\ expired => expired'
         /\ cpc' \in Live => cpc \in Live /\ (pendingKill => pendingKill')
         /\ cpc \in Gone => cpc' \in Gone
         /\ childFds' \subseteq childFds
<1> USE DEF vars, parentVars, childVars, kernelVars, setupVars, TypeOK, ControlTypes,
            Live, SetupStates, Gone, Collected
<1>20. CASE PassGate
  BY <1>20 DEF PassGate, Advance
<1>21. CASE RedirectStdio
  BY <1>21 DEF RedirectStdio, Advance
<1>22. CASE SetupMounts
  BY <1>22 DEF SetupMounts, Exit, Die, childRest, Advance
<1>23. CASE SetEnvironment
  BY <1>23 DEF SetEnvironment, Advance
<1>24. CASE ApplySeccomp
  BY <1>24 DEF ApplySeccomp, Advance
<1>25. CASE Exec
  BY <1>25 DEF Exec, Exit, Die, childRest, Advance
<1>26. CASE \E s \in Streams : Write(s)
  BY <1>26 DEF Write, childRest
<1>27. CASE ReadStdin
  BY <1>27 DEF ReadStdin, childRest
<1>28. CASE Fork
  BY <1>28 DEF Fork, childRest
<1>29. CASE KidExits
  BY <1>29 DEF KidExits, childRest
<1>30. CASE CommandExits
  BY <1>30 DEF CommandExits, Exit, Die, childRest
<1>31. CASE CommandCrashes
  BY <1>31 DEF CommandCrashes, Die, childRest
<1>32. CASE DeliverKill
  BY <1>32 DEF DeliverKill, DieBySigkill, Die
<1>33. CASE ExternalKill
  BY <1>33 DEF ExternalKill, DieBySigkill, Die
<1>34. CASE OomKill
  <2>1. CASE DieBySigkill
    BY <2>1 DEF DieBySigkill, Die
  <2>2. CASE ~DieBySigkill
    <3>1. UNCHANGED <<call, parentVars, cpc, childFds, limitsSet, stdinWritten, pendingKill,
                      expired>>
      BY <1>34, <2>2 DEF OomKill
    <3> QED
      BY <3>1
  <2> QED
    BY <2>1, <2>2
<1>35. CASE ForeignReap
  BY <1>35 DEF ForeignReap, childRest
<1>36. CASE Expire
  BY <1>36 DEF Expire
<1>38. CASE Over
  BY <1>38 DEF Over
<1>39. CASE UNCHANGED vars
  BY <1>39
<1> QED
  BY <1>20, <1>21, <1>22, <1>23, <1>24, <1>25, <1>26, <1>27, <1>28, <1>29, <1>30,
     <1>31, <1>32, <1>33, <1>34, <1>35, <1>36, <1>38, <1>39
  DEF Next, ChildSetupStep, CommandStep, EnvironmentStep

\* The timeout's SIGKILL is sent once: it is under way from then on for as long
\* as the child lives, also to a child that has not left the gate.
KillSticks ==
  /\ ppc \in Early \cup Setup => ~result.killed_by_timeout
  /\ result.killed_by_timeout /\ cpc \in Live => pendingKill

LEMMA KillSticksStep == Inv /\ KillSticks /\ [Next]_vars => KillSticks'
<1> SUFFICES ASSUME Inv, KillSticks, [Next]_vars
             PROVE  KillSticks'
  OBVIOUS
<1>0. result \in ExecutionResults
  BY DEF Inv, TypeOK, OutputTypes
<1> USE <1>0 DEF childVars, kernelVars, setupVars, parentVars, KillSticks, ExecutionResults,
                 Early, Setup, Live, SetupStates
<1>1. CASE SetupProxy
  BY <1>1 DEF SetupProxy, Fail
<1>2. CASE CreatePipes
  BY <1>2 DEF CreatePipes, Fail
<1>3. CASE BuildArgs
  BY <1>3 DEF BuildArgs, Fail
<1>4. CASE Clone
  BY <1>4 DEF Clone, Fail
<1>5. CASE CloseChildEnds
  BY <1>5 DEF CloseChildEnds
<1>6. CASE WriteMappings
  BY <1>6 DEF WriteMappings, Fail
<1>7. CASE CreateCgroup
  BY <1>7 DEF CreateCgroup, Fail
<1>8. CASE SetLimit
  BY <1>8 DEF SetLimit, Fail
<1>9. CASE AddProcess
  BY <1>9 DEF AddProcess, Fail
<1>10. CASE PushInput
  BY <1>10 DEF PushInput
<1>11. CASE EndInput
  BY <1>11 DEF EndInput
<1>12. CASE SignalChild
  BY <1>12 DEF SignalChild, Fail
<1>13. CASE ReadOutput
  BY <1>13 DEF ReadOutput
<1>14. CASE Poll
  BY <1>14 DEF Poll, Fail, Collected
<1>15. CASE CheckTimeout
  BY <1>15 DEF CheckTimeout, KillReaches
<1>16. CASE Drain
  BY <1>16 DEF Drain
<1>17. CASE CollectStats
  BY <1>17 DEF CollectStats
<1>18. CASE KillMembers
  BY <1>18 DEF KillMembers
<1>19. CASE Return
  BY <1>19 DEF Return
<1>20. CASE HostDies
  BY <1>20 DEF HostDies
<1>21. CASE ~ParentStep /\ ~HostDies
  BY <1>21, OthersSteps DEF Inv
<1> QED
  BY <1>1, <1>2, <1>3, <1>4, <1>5, <1>6, <1>7, <1>8, <1>9, <1>10, <1>11, <1>12,
     <1>13, <1>14, <1>15, <1>16, <1>17, <1>18, <1>19, <1>20, <1>21
  DEF ParentStep

\* What CheckTimeout starts, nothing takes back.
THEOREM KilledOnce == Spec => []KillSticks
<1>1. Init => KillSticks
  BY DEF Init, KillSticks, NewResult, Live, SetupStates
<1> QED
  BY <1>1, KillSticksStep, Invariance, PTL DEF Spec

\* One SIGKILL to one process is enough for the whole sandbox, whatever the child
\* is doing when the limit passes: it cannot miss the child, and no descendant
\* outlives the child.
THEOREM OneKillSuffices == Spec => []KillReachesAll
<1>1. Inv /\ KillSticks => KillReachesAll
  BY DEF Inv, Namespace, KillSticks, KillReachesAll, Live
<1> QED
  BY <1>1, KilledOnce, Invariance, PTL

\* The limit that is set next.
LimitStation ==
  LET todo == call.limits \ limitsSet
  IN  IF "memory" \in todo THEN 8
      ELSE IF "cpu" \in todo THEN 9
      ELSE IF todo # {} THEN 10 ELSE 11

\* While it waits: before the time limit, past it, killing, and after the death.
WaitStation ==
  IF cpc \in Live
  THEN IF result.killed_by_timeout THEN 18
       ELSE IF ~expired THEN 14
       ELSE IF ppc = "read" THEN 15 ELSE IF ppc = "poll" THEN 16 ELSE 17
  ELSE IF ppc = "alive" THEN 19 ELSE IF ppc = "read" THEN 20 ELSE 21

Station ==
  CASE ppc = "proxy"    -> 1
    [] ppc = "pipes"    -> 2
    [] ppc = "args"     -> 3
    [] ppc = "clone"    -> 4
    [] ppc = "close"    -> 5
    [] ppc = "mappings" -> 6
    [] ppc = "create"   -> 7
    [] ppc = "limit"    -> LimitStation
    [] ppc = "input"    -> 12
    [] ppc = "signal"   -> 13
    [] ppc = "read" \/ ppc = "poll" \/ ppc = "alive" -> WaitStation
    [] ppc = "drain"    -> 22
    [] ppc = "stats"    -> 23
    [] ppc = "drop"     -> 24
    [] ppc = "rmdir"    -> 25
    [] OTHER            -> 26

LEMMA StationRange ==
  Station \in 1 .. 26 /\ LimitStation \in 8 .. 11 /\ WaitStation \in 14 .. 21
<1>1. LimitStation \in 8 .. 11 /\ WaitStation \in 14 .. 21
  BY DEF LimitStation, WaitStation
<1> QED
  BY <1>1 DEF Station

\* The stations where the parent waits for nobody.
OwnStations == (1 .. 25) \ {12, 14, 18}

\* Each limit that is set leaves fewer to set, in their order.
LEMMA LimitsAdvance ==
  ASSUME NEW todo \in SUBSET Limits, todo # {}
  PROVE  LET l    == NextLimit(todo)
             rest == todo \ {l}
         IN  /\ l = "memory" \/ "memory" \notin todo
             /\ l = "cpu" => "memory" \notin todo
             /\ l = "pids" => todo = {"pids"}
             /\ l \in todo
<1> DEFINE l == NextLimit(todo)
<1>1. l \in todo
  BY RankLemma
<1>2. \E m \in todo : \A k \in todo : Rank[m] <= Rank[k]
  <2>1. CASE "memory" \in todo
    BY <2>1 DEF Limits, Rank
  <2>2. CASE "memory" \notin todo /\ "cpu" \in todo
    BY <2>2 DEF Limits, Rank
  <2>3. CASE "memory" \notin todo /\ "cpu" \notin todo
    <3>1. todo = {"pids"}
      BY <2>3 DEF Limits
    <3> QED
      BY <3>1 DEF Rank
  <2> QED
    BY <2>1, <2>2, <2>3
<1>3. \A k \in todo : Rank[l] <= Rank[k]
  BY <1>2 DEF NextLimit
<1>4. Rank["memory"] = 1 /\ Rank["cpu"] = 2 /\ Rank["pids"] = 3
  BY DEF Rank
<1> HIDE DEF l
<1>5. CASE l = "memory"
  BY <1>1, <1>5 DEF l
<1>6. CASE l = "cpu"
  <2>1. "memory" \notin todo
    BY <1>3, <1>4, <1>6
  <2> QED
    BY <1>1, <1>6, <2>1 DEF l
<1>7. CASE l = "pids"
  <2>1. "memory" \notin todo /\ "cpu" \notin todo
    BY <1>3, <1>4, <1>7
  <2>2. todo = {"pids"}
    BY <2>1 DEF Limits
  <2> QED
    BY <1>1, <1>7, <2>1, <2>2 DEF l
<1> QED
  BY <1>1, <1>5, <1>6, <1>7 DEF Limits

\* A step of the parent takes it on from there, and never back.
LEMMA ParentAdvances ==
  ASSUME Inv, ParentStep
  PROVE  /\ Station' >= Station
         /\ Station \in OwnStations => Station' > Station
<1> USE DEF childVars, kernelVars, setupVars
<1>0. /\ Station \in 1 .. 26 /\ Station' \in 1 .. 26
      /\ LimitStation \in 8 .. 11 /\ LimitStation' \in 8 .. 11
      /\ WaitStation \in 14 .. 21 /\ WaitStation' \in 14 .. 21
  BY StationRange DEF Station, LimitStation, WaitStation
<1>1. CASE SetupProxy
  <2>1. Station = 1 /\ ppc' \in {"pipes", "drop"}
    BY <1>1 DEF SetupProxy, Fail, Station
  <2> QED
    BY <2>1 DEF Station
<1>2. CASE CreatePipes
  <2>1. Station = 2 /\ ppc' \in {"args", "drop"}
    BY <1>2 DEF CreatePipes, Fail, Station
  <2> QED
    BY <2>1 DEF Station
<1>3. CASE BuildArgs
  <2>1. Station = 3 /\ ppc' \in {"clone", "drop"}
    BY <1>3 DEF BuildArgs, Fail, Station
  <2> QED
    BY <2>1 DEF Station
<1>4. CASE Clone
  <2>1. Station = 4 /\ ppc' \in {"close", "drop"}
    BY <1>4 DEF Clone, Fail, Station
  <2> QED
    BY <2>1 DEF Station
<1>5. CASE CloseChildEnds
  BY <1>5 DEF CloseChildEnds, Station
<1>6. CASE WriteMappings
  <2>1. Station = 6 /\ ppc' \in {"create", "input", "drop"}
    BY <1>6 DEF WriteMappings, Fail, Station
  <2> QED
    BY <2>1 DEF Station
<1>7. CASE CreateCgroup
  <2>1. Station = 7 /\ ppc' \in {"limit", "drop"}
    BY <1>7 DEF CreateCgroup, Fail, Station
  <2> QED
    BY <1>0, <2>1 DEF Station
<1>8. CASE SetLimit
  <2>1. Station = LimitStation /\ ppc = "limit"
    BY <1>8 DEF SetLimit, Station
  <2>2. CASE ppc' = "drop"
    BY <1>0, <2>1, <2>2 DEF Station
  <2>3. CASE ppc' # "drop"
    <3> DEFINE todo == call.limits \ limitsSet
    <3>1. /\ ppc' = "limit" /\ call' = call
          /\ limitsSet' = limitsSet \cup {NextLimit(todo)}
      BY <1>8, <2>1, <2>3 DEF SetLimit, Fail
    <3>2. todo \in SUBSET Limits /\ todo # {}
      BY <1>8, CallsAssumption DEF SetLimit, Inv, TypeOK, CountTypes, CallType
    <3>3. call'.limits \ limitsSet' = todo \ {NextLimit(todo)}
      BY <3>1
    <3>4. LimitStation' > LimitStation
      <4> HIDE DEF todo
      <4>1. /\ NextLimit(todo) = "memory" \/ "memory" \notin todo
            /\ NextLimit(todo) = "cpu" => "memory" \notin todo
            /\ NextLimit(todo) = "pids" => todo = {"pids"}
            /\ NextLimit(todo) \in todo
        BY <3>2, LimitsAdvance
      <4>2. LimitStation = (IF "memory" \in todo THEN 8 ELSE IF "cpu" \in todo THEN 9
                            ELSE IF todo # {} THEN 10 ELSE 11)
        BY DEF LimitStation, todo
      <4>3. LET rest == todo \ {NextLimit(todo)}
            IN  LimitStation' = (IF "memory" \in rest THEN 8 ELSE IF "cpu" \in rest THEN 9
                                 ELSE IF rest # {} THEN 10 ELSE 11)
        BY <3>3 DEF LimitStation
      <4>4. CASE NextLimit(todo) = "memory"
        BY <4>1, <4>2, <4>3, <4>4
      <4>5. CASE NextLimit(todo) = "cpu"
        BY <4>1, <4>2, <4>3, <4>5
      <4>6. CASE NextLimit(todo) = "pids"
        BY <4>1, <4>2, <4>3, <4>6
      <4> QED
        BY <3>2, <4>1, <4>4, <4>5, <4>6 DEF Limits
    <3>5. Station' = LimitStation'
      BY <3>1 DEF Station, LimitStation
    <3> QED
      BY <1>0, <2>1, <3>4, <3>5
  <2> QED
    BY <2>2, <2>3
<1>9. CASE AddProcess
  <2>1. Station = LimitStation /\ ppc' \in {"input", "drop"}
    BY <1>9 DEF AddProcess, Fail, Station
  <2> QED
    BY <1>0, <2>1 DEF Station
<1>10. CASE PushInput
  <2>1. ppc = "input" /\ ppc' = "input"
    BY <1>10 DEF PushInput, parentVars
  <2> QED
    BY <2>1 DEF Station, OwnStations
<1>11. CASE EndInput
  BY <1>11 DEF EndInput, Station
<1>12. CASE SignalChild
  <2>1. Station = 13 /\ ppc' \in {"read", "drop"}
    BY <1>12 DEF SignalChild, Fail, Station
  <2> QED
    BY <1>0, <2>1 DEF Station
<1>13. CASE ReadOutput
  <2>1. /\ ppc = "read" /\ ppc' = "poll" /\ UNCHANGED <<cpc, expired>>
        /\ result'.killed_by_timeout = result.killed_by_timeout
    BY <1>13 DEF ReadOutput, Inv, TypeOK, OutputTypes, ExecutionResults
  <2>2. Station = WaitStation /\ Station' = WaitStation'
    BY <2>1 DEF Station, WaitStation
  <2> QED
    BY <2>1, <2>2 DEF WaitStation, OwnStations
<1>14. CASE Poll
  <2>1. ppc = "poll" /\ Station = WaitStation
    BY <1>14 DEF Poll, Station
  <2>2. CASE ppc' \in {"drain", "drop"}
    BY <1>0, <2>1, <2>2 DEF Station
  <2>3. CASE ppc' \notin {"drain", "drop"}
    <3>1. ppc' = "alive" /\ UNCHANGED <<cpc, result, expired>> /\ cpc \notin Gone
      BY <1>14, <2>3 DEF Poll, Fail, Gone
    <3>2. cpc \in Live
      BY <2>1, <3>1, StationRange
      DEF Inv, TypeOK, ControlTypes, ChildStates, Namespace, Gone, Early
    <3>3. Station' = WaitStation'
      BY <3>1 DEF Station, WaitStation
    <3> QED
      BY <2>1, <3>1, <3>2, <3>3 DEF WaitStation, OwnStations
  <2> QED
    BY <2>2, <2>3
<1>15. CASE CheckTimeout
  <2>1. ppc = "alive" /\ ppc' = "read" /\ UNCHANGED <<cpc, expired>>
    BY <1>15 DEF CheckTimeout
  <2>2. /\ expired => result'.killed_by_timeout
        /\ result.killed_by_timeout => result'.killed_by_timeout
        /\ ~expired => result'.killed_by_timeout = result.killed_by_timeout
    BY <1>15 DEF CheckTimeout, Inv, TypeOK, OutputTypes, ExecutionResults
  <2>3. Station = WaitStation /\ Station' = WaitStation'
    BY <2>1 DEF Station, WaitStation
  <2> QED
    BY <2>1, <2>2, <2>3 DEF WaitStation, OwnStations
<1>16. CASE Drain
  BY <1>16 DEF Drain, Station
<1>17. CASE CollectStats
  <2>1. ppc = "stats" /\ ppc' = "drop"
    BY <1>17 DEF CollectStats
  <2> QED
    BY <2>1 DEF Station
<1>18. CASE KillMembers
  <2>1. ppc = "drop" /\ ppc' = "rmdir"
    BY <1>18 DEF KillMembers
  <2> QED
    BY <2>1 DEF Station
<1>19. CASE Return
  <2>1. Station \in 24 .. 25 /\ ppc' = "returned"
    BY <1>19 DEF Return, Station
  <2>2. Station' = 26
    BY <2>1 DEF Station
  <2> QED
    BY <2>1, <2>2
<1> QED
  BY <1>1, <1>2, <1>3, <1>4, <1>5, <1>6, <1>7, <1>8, <1>9, <1>10, <1>11, <1>12,
     <1>13, <1>14, <1>15, <1>16, <1>17, <1>18, <1>19
  DEF ParentStep

\* No step takes a call back.
LEMMA NeverBack ==
  ASSUME Inv, [Next]_vars
  PROVE  Station' >= Station
<1>1. CASE ParentStep
  BY <1>1, ParentAdvances
<1>2. CASE HostDies
  BY <1>2, StationRange DEF HostDies, Station
<1>3. CASE ~ParentStep /\ ~HostDies
  <2>1. /\ UNCHANGED <<call, ppc, result, limitsSet>>
        /\ expired => expired'
        /\ cpc' \in Live => cpc \in Live
    BY <1>3, OthersSteps DEF Inv
  <2>2. CASE ppc \in Waiting
    <3>1. Station = WaitStation /\ Station' = WaitStation'
      BY <2>1, <2>2 DEF Station, WaitStation, Waiting
    <3> QED
      BY <2>1, <2>2, <3>1 DEF WaitStation, Waiting
  <2>3. CASE ppc \notin Waiting
    <3>1. Station' = Station
      BY <2>1, <2>3 DEF Station, LimitStation, Waiting
    <3> QED
      BY <3>1, StationRange
  <2> QED
    BY <2>2, <2>3
<1> QED
  BY <1>1, <1>2, <1>3

\* The call is at station k, or past it.
At(k)   == Station = k
Past(k) == Station > k

MovesOn(k) == At(k) ~> Past(k)

\* The thread, the time limit and the kill of a call are scheduled.
Scheduled == Spec /\ Fairness /\ []ReadyStepsEnabled

LEMMA StaysOrMoves ==
  ASSUME NEW k \in 1 .. 26
  PROVE  Inv /\ At(k) /\ [Next]_vars => At(k)' \/ Past(k)'
<1> SUFFICES ASSUME Inv, At(k), [Next]_vars
             PROVE  Station' = k \/ Station' > k
  BY DEF At, Past
<1>1. Station' >= Station
  BY NeverBack
<1>2. Station' \in 1 .. 26
  BY StationRange DEF Station, LimitStation, WaitStation
<1> QED
  BY <1>1, <1>2 DEF At

\* It moves on from the stations where it waits for nobody ..
LEMMA MovesOnAlone ==
  ASSUME NEW k \in OwnStations
  PROVE  Scheduled => MovesOn(k)
<1>1. Inv /\ At(k) /\ [Next]_vars => At(k)' \/ Past(k)'
  BY StaysOrMoves DEF OwnStations
<1>2. Inv /\ At(k) /\ <<ParentStep>>_vars => Past(k)'
  BY ParentAdvances DEF At, Past
<1>3. Inv /\ At(k) /\ ReadyStepsEnabled => ENABLED <<ParentStep>>_vars
  <2> SUFFICES ASSUME At(k) PROVE ppc \notin Terminal /\ ~Writing
    BY DEF ReadyStepsEnabled
  <2> QED
    BY DEF At, OwnStations, Station, Terminal, Writing
<1>4. Fairness => WF_vars(ParentStep)
  BY PTL DEF Fairness
<1> QED
  BY <1>1, <1>2, <1>3, <1>4, Invariance, PTL DEF Scheduled, MovesOn, Spec

\* .. from the input when it is written or has no reader any more ..
LEMMA MovesOnOrWrites == Scheduled => (At(12) ~> (Past(12) \/ []Writing))
<1>1. Inv /\ At(12) /\ [Next]_vars => At(12)' \/ Past(12)'
  BY StaysOrMoves
<1>2. At(12) => ppc = "input"
  BY StationRange DEF At, Station, LimitStation, WaitStation
<1>3. At(12)' => ppc' = "input"
  BY DEF At, Station, LimitStation, WaitStation
<1>4. Inv /\ At(12) /\ ~Writing /\ ParentStep => EndInput
  <2> SUFFICES ASSUME Inv, At(12), ~Writing, ParentStep
               PROVE  EndInput
    OBVIOUS
  <2>1. PushInput \/ EndInput
    BY <1>2
    DEF ParentStep, SetupProxy, CreatePipes, BuildArgs, Clone, CloseChildEnds, WriteMappings,
        CreateCgroup, SetLimit, AddProcess, SignalChild, ReadOutput, Poll, CheckTimeout, Drain,
        CollectStats, KillMembers, Return
  <2> QED
    BY <2>1 DEF PushInput, Writing
<1>5. Inv /\ At(12) /\ ~Writing /\ [Next]_vars => ~Writing' \/ Past(12)'
  <2> SUFFICES ASSUME Inv, At(12), ~Writing, [Next]_vars
               PROVE  ~Writing'
    OBVIOUS
  <2>1. CASE ParentStep
    BY <1>4, <2>1 DEF EndInput, Writing
  <2>2. CASE HostDies
    BY <2>2 DEF HostDies, Writing
  <2>3. CASE ~ParentStep /\ ~HostDies
    BY <1>2, <2>3, OthersSteps DEF Writing, HasReader, Inv
  <2> QED
    BY <2>1, <2>2, <2>3
<1>6. Inv /\ At(12) /\ ~Writing /\ <<ParentStep>>_vars => Past(12)'
  <2> SUFFICES ASSUME Inv, At(12), ~Writing, ParentStep
               PROVE  Past(12)'
    OBVIOUS
  <2>1. At(12)' \/ Past(12)'
    BY <1>1 DEF Next
  <2> QED
    BY <1>3, <1>4, <2>1 DEF EndInput
<1>7. At(12) /\ ~Writing /\ ReadyStepsEnabled => ENABLED <<ParentStep>>_vars
  BY <1>2 DEF ReadyStepsEnabled, Terminal
<1>8. Fairness => WF_vars(ParentStep)
  BY PTL DEF Fairness
<1> QED
  BY <1>1, <1>5, <1>6, <1>7, <1>8, Invariance, PTL DEF Scheduled, Spec

\* .. a child that lives is at its time limit some day ..
LEMMA MovesOnInTime == Scheduled => MovesOn(14)
<1>1. Inv /\ At(14) /\ [Next]_vars => At(14)' \/ Past(14)'
  BY StaysOrMoves
<1>2. Inv /\ At(14) /\ <<Expire>>_vars => Past(14)'
  <2> SUFFICES ASSUME Inv, At(14), Expire
               PROVE  Past(14)'
    OBVIOUS
  <2>1. At(14)' \/ Past(14)'
    BY <1>1 DEF Next, EnvironmentStep
  <2>2. ~At(14)'
    BY DEF At, Expire, Station, LimitStation, WaitStation
  <2> QED
    BY <2>1, <2>2
<1>3. Inv /\ At(14) /\ ReadyStepsEnabled => ENABLED <<Expire>>_vars
  <2> SUFFICES ASSUME At(14) PROVE ppc \in {"read", "poll", "alive"} /\ ~expired
    BY DEF ReadyStepsEnabled
  <2> QED
    BY StationRange DEF At, Station, LimitStation, WaitStation
<1>4. Fairness => WF_vars(Expire)
  BY PTL DEF Fairness
<1> QED
  BY <1>1, <1>2, <1>3, <1>4, Invariance, PTL DEF Scheduled, MovesOn, Spec

\* .. and dies of the one SIGKILL it is sent then.
LEMMA MovesOnByKill == Scheduled => MovesOn(18)
<1>1. Inv /\ At(18) /\ [Next]_vars => At(18)' \/ Past(18)'
  BY StaysOrMoves
<1>2. At(18) => cpc \in Live /\ result.killed_by_timeout
  BY StationRange DEF At, Station, LimitStation, WaitStation
<1>3. Inv /\ At(18) /\ <<DeliverKill>>_vars => Past(18)'
  <2> SUFFICES ASSUME Inv, At(18), DeliverKill
               PROVE  Past(18)'
    OBVIOUS
  <2>1. At(18)' \/ Past(18)'
    BY <1>1 DEF Next, EnvironmentStep
  <2>2. cpc' \notin Live
    BY DEF DeliverKill, DieBySigkill, Die, Live, SetupStates
  <2>3. ~At(18)'
    BY <2>2 DEF At, Station, LimitStation, WaitStation
  <2> QED
    BY <2>1, <2>3
<1>4. KillSticks /\ At(18) /\ ReadyStepsEnabled => ENABLED <<DeliverKill>>_vars
  BY <1>2 DEF KillSticks, ReadyStepsEnabled
<1>5. Fairness => WF_vars(DeliverKill)
  BY PTL DEF Fairness
<1> QED
  BY <1>1, <1>3, <1>4, <1>5, Invariance, KilledOnce, PTL DEF Scheduled, MovesOn, Spec

\* Every call comes to its end, unless it never comes to the end of its input
\* (which a finite input with a reader has): whatever fails, whatever the child
\* is doing when the time limit passes, and whoever else kills or reaps it.
THEOREM CallReturns ==
  FairSpec /\ []ReadyStepsEnabled => <>(ppc \in Terminal) \/ <>[]Writing
<1>1. FairSpec /\ []ReadyStepsEnabled => Scheduled
  BY PTL DEF FairSpec, Scheduled
<1>2. OwnStations = {1, 2, 3, 4, 5, 6, 7, 8, 9, 10, 11, 13, 15, 16, 17, 19, 20, 21, 22, 23,
                     24, 25}
  BY DEF OwnStations
<1>3. Scheduled =>
        /\ MovesOn(1) /\ MovesOn(2) /\ MovesOn(3) /\ MovesOn(4) /\ MovesOn(5)
        /\ MovesOn(6) /\ MovesOn(7) /\ MovesOn(8) /\ MovesOn(9) /\ MovesOn(10)
        /\ MovesOn(11) /\ MovesOn(13) /\ MovesOn(15) /\ MovesOn(16) /\ MovesOn(17)
        /\ MovesOn(19) /\ MovesOn(20) /\ MovesOn(21) /\ MovesOn(22) /\ MovesOn(23)
        /\ MovesOn(24) /\ MovesOn(25)
  BY <1>2, MovesOnAlone
<1>4. At(1) \/ Past(1)
  BY StationRange DEF At, Past
<1>5. /\ Past(1) => At(2) \/ Past(2)
      /\ Past(2) => At(3) \/ Past(3)
      /\ Past(3) => At(4) \/ Past(4)
      /\ Past(4) => At(5) \/ Past(5)
      /\ Past(5) => At(6) \/ Past(6)
      /\ Past(6) => At(7) \/ Past(7)
      /\ Past(7) => At(8) \/ Past(8)
      /\ Past(8) => At(9) \/ Past(9)
      /\ Past(9) => At(10) \/ Past(10)
      /\ Past(10) => At(11) \/ Past(11)
      /\ Past(11) => At(12) \/ Past(12)
      /\ Past(12) => At(13) \/ Past(13)
      /\ Past(13) => At(14) \/ Past(14)
      /\ Past(14) => At(15) \/ Past(15)
      /\ Past(15) => At(16) \/ Past(16)
      /\ Past(16) => At(17) \/ Past(17)
      /\ Past(17) => At(18) \/ Past(18)
      /\ Past(18) => At(19) \/ Past(19)
      /\ Past(19) => At(20) \/ Past(20)
      /\ Past(20) => At(21) \/ Past(21)
      /\ Past(21) => At(22) \/ Past(22)
      /\ Past(22) => At(23) \/ Past(23)
      /\ Past(23) => At(24) \/ Past(24)
      /\ Past(24) => At(25) \/ Past(25)
  BY StationRange DEF At, Past
<1>6. Inv /\ Past(25) => ppc \in Terminal
  <2> SUFFICES ASSUME Inv, Past(25) PROVE ppc \in Terminal
    OBVIOUS
  <2> QED
    BY StationRange DEF Past, Station, Inv, TypeOK, ControlTypes, ParentStates
<1>7. Scheduled => (TRUE ~> Past(11))
  BY <1>3, <1>4, <1>5, PTL DEF MovesOn
<1>8. Scheduled => (Past(11) ~> (Past(12) \/ []Writing))
  BY <1>5, MovesOnOrWrites, PTL
<1>9. Scheduled => (Past(12) ~> Past(18))
  BY <1>3, <1>5, MovesOnInTime, MovesOnByKill, PTL DEF MovesOn
<1>10. Scheduled => (Past(18) ~> Past(25))
  BY <1>3, <1>5, PTL DEF MovesOn
<1>11. Scheduled => []Inv
  BY Invariance, PTL DEF Scheduled
<1> QED
  BY <1>1, <1>6, <1>7, <1>8, <1>9, <1>10, <1>11, PTL

\* The caller gives no input.
Inputless == ~call.has_stdin

\* Without input nothing keeps a call of execute from its end.
THEOREM InputlessCallEnds ==
  FairSpec /\ []ReadyStepsEnabled => (Inputless => <>(ppc \in Terminal))
<1>1. Inputless /\ [Next]_vars => Inputless'
  <2>1. [Next]_vars => call' = call
    BY DEF vars, Next, ParentStep, ChildSetupStep, CommandStep, EnvironmentStep, SetupProxy,
           CreatePipes, BuildArgs, Clone, CloseChildEnds, WriteMappings, CreateCgroup, SetLimit,
           AddProcess, PushInput, EndInput, SignalChild, ReadOutput, Poll, CheckTimeout, Drain,
           CollectStats, KillMembers, Return, PassGate, Advance, RedirectStdio, SetupMounts, Exit,
           childRest, SetEnvironment, ApplySeccomp, Exec, Write, ReadStdin, Fork, KidExits,
           CommandExits, CommandCrashes, DeliverKill, DieBySigkill, ExternalKill, OomKill,
           ForeignReap, Expire, HostDies, Over
  <2> QED
    BY <2>1 DEF Inputless
<1>2. Inputless => ~Writing
  BY DEF Inputless, Writing
<1> QED
  BY <1>1, <1>2, CallReturns, PTL DEF FairSpec, Spec

=============================================================================
