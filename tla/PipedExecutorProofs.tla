-------------------------- MODULE PipedExecutorProofs --------------------------
(***************************************************************************)
(* The safety of one execution on macOS or Windows, for every set of calls *)
(* and faults, any number of descendants and every bound.  Inv is          *)
(* inductive; its parts say what the executor knows of the processes it    *)
(* has started where it is.                                                *)
(***************************************************************************)
EXTENDS PipedExecutor, TLAPS

Before  == {"proxy", "spawn"}
Started == {"job", "limits", "input", "poll", "alive"}
Waiting == {"input", "poll", "alive"}

\* What is known of the spawned process; only the executor's own wait leads
\* to the output.
LeaderKnown ==
  /\ ppc \in Before => leader = "none" /\ ~result.killed_by_timeout
  /\ ppc \in Started => leader \notin {"none", "reaped"}
  /\ ppc \in Streams \/ outcome = "ok" => leader = "reaped"
  /\ ppc \in {"job", "limits"} => ~Mac
  /\ leader = "launch" => Mac
  /\ leader \in {"none", "launch"} => kids = {}
  /\ outcome = "ok" => ppc = "returned"

\* On Windows the wait starts when the process is in its job; it cannot leave.
InJob ==
  ~Mac /\ (ppc \in Waiting \cup Streams \/ outcome = "ok") =>
    /\ jobLimits = call.limits
    /\ Leader \in tied \/ (~LeaderLives /\ status.tied)

\* A stream that is read to its end stays as it is.
Final(s) == ~Held(s) /\ received[s] = produced[s] /\ result.output[s] = Text(s)

StreamsFinal ==
  /\ ppc = "stderr" => Final("stdout")
  /\ outcome = "ok" => \A s \in Streams : Final(s)

Inv ==
  /\ TypeOK
  /\ LeaderKnown
  /\ LeaderCollected
  /\ InJob
  /\ GroupKillReachesAll
  /\ StreamsFinal

-----------------------------------------------------------------------------
(* Types *)

\* The end of the spawned process keeps the types of the others, and frees
\* what it held.
LEMMA LeaderEnding ==
  ASSUME ProcessTypes, NEW code \in Nat, NEW signal \in Nat, LeaderEnds(code, signal)
  PROVE  /\ ProcessTypes'
         /\ \A p : Held(p)' => Held(p)
         /\ LeaderLives /\ ~LeaderLives'
         /\ Leader \in tied => status'.tied
<1>1. /\ leader' = "zombie" /\ kids' = kids /\ LeaderLives
      /\ held' = [held EXCEPT ![Leader] = {}]
      /\ tied' = tied \ {Leader} /\ doomed' = doomed \ {Leader}
      /\ call' = call /\ jobLimits' = jobLimits
  BY DEF LeaderEnds, Gone, kernelVars
<1>2. Living' = kids /\ Living = kids \cup {Leader}
  BY <1>1 DEF Living, LeaderLives
<1>3. Leader \notin kids
  BY ProcsAssumption DEF ProcessTypes
<1>4. status' \in [code : Nat, signal : Nat, tied : BOOLEAN]
  BY DEF LeaderEnds
<1>5. /\ kids' \subseteq Kids /\ held' \in [Procs -> SUBSET Pipes]
      /\ jobLimits' \subseteq call'.limits
  BY <1>1 DEF ProcessTypes
<1>6. tied' \subseteq Living' /\ doomed' \subseteq Living'
  BY <1>1, <1>2 DEF ProcessTypes
<1>7. ASSUME NEW p, Held(p)'
      PROVE  Held(p)
  <2>1. PICK q \in kids : p \in held'[q]
    BY <1>2, <1>7 DEF Held
  <2>2. held'[q] = held[q]
    BY <1>1, <1>3 DEF ProcessTypes, Procs
  <2> QED BY <1>2, <2>1, <2>2 DEF Held
<1>8. Leader \in tied => status'.tied
  BY DEF LeaderEnds
<1>9. LeaderLives /\ ~LeaderLives'
  BY <1>1 DEF LeaderLives
<1> QED BY <1>4, <1>5, <1>6, <1>7, <1>8, <1>9 DEF ProcessTypes

\* The executor and the spawned process keep to their states.
LEMMA ControlStep == TypeOK /\ [Next]_vars => ControlTypes'
<1> SUFFICES ASSUME TypeOK, [Next]_vars
             PROVE  ControlTypes'
  OBVIOUS
<1> USE CallsAssumption DEF TypeOK, CountTypes, CallType, JobLimits
<1> USE DEF vars, parentVars, commandVars, kernelVars, ControlTypes,
            ParentStates, Collected, LeaderLives, Streams
<1>1. CASE SetupProxy
  BY <1>1 DEF SetupProxy, Fail
<1>2. CASE Spawn
  BY <1>2 DEF Spawn, Fail
<1>3. CASE CreateJob
  BY <1>3 DEF CreateJob, Fail
<1>4. CASE SetJobLimit
  BY <1>4 DEF SetJobLimit, Fail
<1>5. CASE AssignJob
  BY <1>5 DEF AssignJob, AssignError, Fail
<1>6. CASE PushInput
  BY <1>6 DEF PushInput
<1>7. CASE EndInput
  BY <1>7 DEF EndInput
<1>8. CASE Poll
  BY <1>8 DEF Poll, KillTargets, Fail
<1>9. CASE CheckTimeout
  BY <1>9 DEF CheckTimeout, AfterCheck, KillTargets
<1>10. CASE \E s \in Streams : ReadMore(s)
  BY <1>10 DEF ReadMore
<1>11. CASE \E s \in Streams : EndRead(s)
  BY <1>11 DEF EndRead, AtEnd
<1>12. CASE Launch
  BY <1>12 DEF Launch, LeaderEnds, Gone
<1>13. CASE CommandEnds
  BY <1>13 DEF CommandEnds, LeaderEnds, Gone
<1>14. CASE \E k \in Kids : KidEnds(k)
  BY <1>14 DEF KidEnds, Gone
<1>15. CASE \E q \in Procs : Fork(q)
  BY <1>15 DEF Fork, Running
<1>16. CASE \E q \in Procs : LeaveGroup(q)
  BY <1>16 DEF LeaveGroup, Running
<1>17. CASE \E q \in Procs : LetGo(q)
  BY <1>17 DEF LetGo, Running
<1>18. CASE \E q \in Procs : ReadStdin(q)
  BY <1>18 DEF ReadStdin, Running
<1>19. CASE \E q \in Procs, s \in Streams : Write(q, s)
  BY <1>19 DEF Write, Running
<1>20. CASE \E q \in Procs : DeliverKill(q)
  BY <1>20 DEF DeliverKill, KidEnds, LeaderEnds, Gone
<1>21. CASE ForeignReap
  BY <1>21 DEF ForeignReap
<1>22. CASE Expire
  BY <1>22 DEF Expire
<1>23. CASE Over
  BY <1>23 DEF Over
<1>24. CASE UNCHANGED vars
  BY <1>24
<1> QED
  BY <1>1, <1>2, <1>3, <1>4, <1>5, <1>6, <1>7, <1>8, <1>9, <1>10, <1>11, <1>12,
     <1>13, <1>14, <1>15, <1>16, <1>17, <1>18, <1>19, <1>20, <1>21, <1>22,
     <1>23, <1>24
  DEF Next, ParentStep, CommandStep, EnvironmentStep

\* Only live processes are in the group or the job, or being killed.
LEMMA ProcessStep == TypeOK /\ LeaderKnown /\ [Next]_vars => ProcessTypes'
<1> SUFFICES ASSUME TypeOK /\ LeaderKnown, [Next]_vars
             PROVE  ProcessTypes'
  OBVIOUS
<1> USE ProcsAssumption DEF LeaderKnown, Before
<1> USE DEF vars, parentVars, commandVars, kernelVars, TypeOK, ProcessTypes,
            Living, LeaderLives, Procs, Pipes, Streams, Mac, NoSignal
<1>1. CASE SetupProxy
  BY <1>1 DEF SetupProxy, Fail
<1>2. CASE Spawn
  BY <1>2 DEF Spawn, Fail
<1>3. CASE CreateJob
  BY <1>3 DEF CreateJob, Fail
<1>4. CASE SetJobLimit
  BY <1>4 DEF SetJobLimit, Fail
<1>5. CASE AssignJob
  BY <1>5 DEF AssignJob, AssignError, Fail
<1>6. CASE PushInput
  BY <1>6 DEF PushInput
<1>7. CASE EndInput
  BY <1>7 DEF EndInput
<1>8. CASE Poll
  BY <1>8 DEF Poll, KillTargets, Fail
<1>9. CASE CheckTimeout
  BY <1>9 DEF CheckTimeout, AfterCheck, KillTargets
<1>10. CASE \E s \in Streams : ReadMore(s)
  BY <1>10 DEF ReadMore
<1>11. CASE \E s \in Streams : EndRead(s)
  BY <1>11 DEF EndRead, AtEnd
<1>12. CASE Launch
  <2>1. CASE LeaderEnds(71, NoSignal)
    BY <2>1, LeaderEnding
  <2>2. CASE leader = "launch" /\ ~LeaderEnds(71, NoSignal)
    BY <1>12, <2>2 DEF Launch
  <2> QED BY <1>12, <2>1, <2>2 DEF Launch
<1>13. CASE CommandEnds
  <2>1. PICK code \in Nat, signal \in Nat : LeaderEnds(code, signal)
    BY <1>13 DEF CommandEnds, NoSignal
  <2> QED BY <2>1, LeaderEnding
<1>14. CASE \E k \in Kids : KidEnds(k)
  BY <1>14 DEF KidEnds, Gone
<1>15. CASE \E q \in Procs : Fork(q)
  BY <1>15 DEF Fork, Running
<1>16. CASE \E q \in Procs : LeaveGroup(q)
  BY <1>16 DEF LeaveGroup, Running
<1>17. CASE \E q \in Procs : LetGo(q)
  BY <1>17 DEF LetGo, Running
<1>18. CASE \E q \in Procs : ReadStdin(q)
  BY <1>18 DEF ReadStdin, Running
<1>19. CASE \E q \in Procs, s \in Streams : Write(q, s)
  BY <1>19 DEF Write, Running
<1>20. CASE \E q \in Procs : DeliverKill(q)
  <2>1. PICK q \in Procs : DeliverKill(q)
    BY <1>20
  <2>2. CASE q = Leader
    <3>1. PICK code \in Nat, signal \in Nat : LeaderEnds(code, signal)
      BY <2>1, <2>2 DEF DeliverKill, NoSignal
    <3> QED BY <3>1, LeaderEnding
  <2>3. CASE q # Leader
    BY <2>1, <2>3 DEF DeliverKill, KidEnds, Gone
  <2> QED BY <2>2, <2>3
<1>21. CASE ForeignReap
  BY <1>21 DEF ForeignReap
<1>22. CASE Expire
  BY <1>22 DEF Expire
<1>23. CASE Over
  BY <1>23 DEF Over
<1>24. CASE UNCHANGED vars
  BY <1>24
<1> QED
  BY <1>1, <1>2, <1>3, <1>4, <1>5, <1>6, <1>7, <1>8, <1>9, <1>10, <1>11, <1>12,
     <1>13, <1>14, <1>15, <1>16, <1>17, <1>18, <1>19, <1>20, <1>21, <1>22,
     <1>23, <1>24
  DEF Next, ParentStep, CommandStep, EnvironmentStep

\* What is written, read and reported keeps its bounds.
LEMMA CountStep == TypeOK /\ [Next]_vars => CountTypes'
<1> SUFFICES ASSUME TypeOK, [Next]_vars
             PROVE  CountTypes'
  OBVIOUS
<1> USE BoundsAssumption, CallsAssumption DEF CallType
<1> USE DEF vars, parentVars, commandVars, kernelVars, TypeOK, CountTypes,
            ProcessTypes, ExecutionResults, Streams, NoSignal
<1>1. CASE SetupProxy
  BY <1>1 DEF SetupProxy, Fail
<1>2. CASE Spawn
  BY <1>2 DEF Spawn, Fail
<1>3. CASE CreateJob
  BY <1>3 DEF CreateJob, Fail
<1>4. CASE SetJobLimit
  BY <1>4 DEF SetJobLimit, Fail
<1>5. CASE AssignJob
  BY <1>5 DEF AssignJob, AssignError, Fail
<1>6. CASE PushInput
  BY <1>6 DEF PushInput
<1>7. CASE EndInput
  BY <1>7 DEF EndInput
<1>8. CASE Poll
  <2>1. ReportedCode(status) \in Int /\ ReportedSignal(status) \in Nat
    BY DEF ReportedCode, ReportedSignal
  <2>2. result' \in ExecutionResults
    BY <1>8, <2>1 DEF Poll
  <2> QED BY <1>8, <2>2 DEF Poll, Fail
<1>9. CASE CheckTimeout
  BY <1>9 DEF CheckTimeout, AfterCheck, KillTargets
<1>10. CASE \E s \in Streams : ReadMore(s)
  BY <1>10 DEF ReadMore
<1>11. CASE \E s \in Streams : EndRead(s)
  BY <1>11 DEF EndRead, AtEnd, Text
<1>12. CASE Launch
  BY <1>12 DEF Launch, LeaderEnds, Gone
<1>13. CASE CommandEnds
  BY <1>13 DEF CommandEnds, LeaderEnds, Gone
<1>14. CASE \E k \in Kids : KidEnds(k)
  BY <1>14 DEF KidEnds, Gone
<1>15. CASE \E q \in Procs : Fork(q)
  BY <1>15 DEF Fork, Running
<1>16. CASE \E q \in Procs : LeaveGroup(q)
  BY <1>16 DEF LeaveGroup, Running
<1>17. CASE \E q \in Procs : LetGo(q)
  BY <1>17 DEF LetGo, Running
<1>18. CASE \E q \in Procs : ReadStdin(q)
  BY <1>18 DEF ReadStdin, Running
<1>19. CASE \E q \in Procs, s \in Streams : Write(q, s)
  BY <1>19 DEF Write, Running
<1>20. CASE \E q \in Procs : DeliverKill(q)
  BY <1>20 DEF DeliverKill, KidEnds, LeaderEnds, Gone
<1>21. CASE ForeignReap
  BY <1>21 DEF ForeignReap
<1>22. CASE Expire
  BY <1>22 DEF Expire
<1>23. CASE Over
  BY <1>23 DEF Over
<1>24. CASE UNCHANGED vars
  BY <1>24
<1> QED
  BY <1>1, <1>2, <1>3, <1>4, <1>5, <1>6, <1>7, <1>8, <1>9, <1>10, <1>11, <1>12,
     <1>13, <1>14, <1>15, <1>16, <1>17, <1>18, <1>19, <1>20, <1>21, <1>22,
     <1>23, <1>24
  DEF Next, ParentStep, CommandStep, EnvironmentStep

-----------------------------------------------------------------------------
(* The executor and the processes *)

\* The executor's place tells the state of the process.
LEMMA KnownStep == Inv /\ [Next]_vars => LeaderKnown'
<1> SUFFICES ASSUME Inv, [Next]_vars
             PROVE  LeaderKnown'
  OBVIOUS
<1> USE ProcsAssumption DEF TypeOK, ControlTypes, ParentStates, ProcessTypes
<1> USE DEF vars, parentVars, commandVars, kernelVars, Inv, LeaderKnown, Before,
            Started, Streams, Mac, Living, LeaderLives, Collected
<1>1. CASE SetupProxy
  BY <1>1 DEF SetupProxy, Fail
<1>2. CASE Spawn
  BY <1>2 DEF Spawn, Fail
<1>3. CASE CreateJob
  BY <1>3 DEF CreateJob, Fail
<1>4. CASE SetJobLimit
  BY <1>4 DEF SetJobLimit, Fail
<1>5. CASE AssignJob
  BY <1>5 DEF AssignJob, AssignError, Fail
<1>6. CASE PushInput
  BY <1>6 DEF PushInput
<1>7. CASE EndInput
  BY <1>7 DEF EndInput
<1>8. CASE Poll
  BY <1>8 DEF Poll, KillTargets, Fail
<1>9. CASE CheckTimeout
  BY <1>9 DEF CheckTimeout, AfterCheck, KillTargets
<1>10. CASE \E s \in Streams : ReadMore(s)
  BY <1>10 DEF ReadMore
<1>11. CASE \E s \in Streams : EndRead(s)
  BY <1>11 DEF EndRead, AtEnd
<1>12. CASE Launch
  BY <1>12 DEF Launch, LeaderEnds, Gone
<1>13. CASE CommandEnds
  BY <1>13 DEF CommandEnds, LeaderEnds, Gone
<1>14. CASE \E k \in Kids : KidEnds(k)
  BY <1>14 DEF KidEnds, Gone
<1>15. CASE \E q \in Procs : Fork(q)
  BY <1>15 DEF Fork, Running
<1>16. CASE \E q \in Procs : LeaveGroup(q)
  BY <1>16 DEF LeaveGroup, Running
<1>17. CASE \E q \in Procs : LetGo(q)
  BY <1>17 DEF LetGo, Running
<1>18. CASE \E q \in Procs : ReadStdin(q)
  BY <1>18 DEF ReadStdin, Running
<1>19. CASE \E q \in Procs, s \in Streams : Write(q, s)
  BY <1>19 DEF Write, Running
<1>20. CASE \E q \in Procs : DeliverKill(q)
  BY <1>20 DEF DeliverKill, KidEnds, LeaderEnds, Gone
<1>21. CASE ForeignReap
  BY <1>21 DEF ForeignReap
<1>22. CASE Expire
  BY <1>22 DEF Expire
<1>23. CASE Over
  BY <1>23 DEF Over
<1>24. CASE UNCHANGED vars
  BY <1>24
<1> QED
  BY <1>1, <1>2, <1>3, <1>4, <1>5, <1>6, <1>7, <1>8, <1>9, <1>10, <1>11, <1>12,
     <1>13, <1>14, <1>15, <1>16, <1>17, <1>18, <1>19, <1>20, <1>21, <1>22,
     <1>23, <1>24
  DEF Next, ParentStep, CommandStep, EnvironmentStep

\* No way out leaves the process of macOS behind, and what is collected stays so.
LEMMA CollectedStep == Inv /\ [Next]_vars => LeaderCollected'
<1> SUFFICES ASSUME Inv, [Next]_vars
             PROVE  LeaderCollected'
  OBVIOUS
<1> USE DEF TypeOK, ControlTypes, ParentStates
<1> USE DEF vars, parentVars, commandVars, kernelVars, Inv, LeaderKnown,
            LeaderCollected, Before, Started, Streams, Mac, LeaderLives,
            Collected
<1>1. CASE SetupProxy
  BY <1>1 DEF SetupProxy, Fail
<1>2. CASE Spawn
  BY <1>2 DEF Spawn, Fail
<1>3. CASE CreateJob
  BY <1>3 DEF CreateJob, Fail
<1>4. CASE SetJobLimit
  BY <1>4 DEF SetJobLimit, Fail
<1>5. CASE AssignJob
  BY <1>5 DEF AssignJob, AssignError, Fail
<1>6. CASE PushInput
  BY <1>6 DEF PushInput
<1>7. CASE EndInput
  BY <1>7 DEF EndInput
<1>8. CASE Poll
  BY <1>8 DEF Poll, KillTargets, Fail
<1>9. CASE CheckTimeout
  BY <1>9 DEF CheckTimeout, AfterCheck, KillTargets
<1>10. CASE \E s \in Streams : ReadMore(s)
  BY <1>10 DEF ReadMore
<1>11. CASE \E s \in Streams : EndRead(s)
  BY <1>11 DEF EndRead, AtEnd
<1>12. CASE Launch
  BY <1>12 DEF Launch, LeaderEnds, Gone
<1>13. CASE CommandEnds
  BY <1>13 DEF CommandEnds, LeaderEnds, Gone
<1>14. CASE \E k \in Kids : KidEnds(k)
  BY <1>14 DEF KidEnds, Gone
<1>15. CASE \E q \in Procs : Fork(q)
  BY <1>15 DEF Fork, Running
<1>16. CASE \E q \in Procs : LeaveGroup(q)
  BY <1>16 DEF LeaveGroup, Running
<1>17. CASE \E q \in Procs : LetGo(q)
  BY <1>17 DEF LetGo, Running
<1>18. CASE \E q \in Procs : ReadStdin(q)
  BY <1>18 DEF ReadStdin, Running
<1>19. CASE \E q \in Procs, s \in Streams : Write(q, s)
  BY <1>19 DEF Write, Running
<1>20. CASE \E q \in Procs : DeliverKill(q)
  BY <1>20 DEF DeliverKill, KidEnds, LeaderEnds, Gone
<1>21. CASE ForeignReap
  BY <1>21 DEF ForeignReap
<1>22. CASE Expire
  BY <1>22 DEF Expire
<1>23. CASE Over
  BY <1>23 DEF Over
<1>24. CASE UNCHANGED vars
  BY <1>24
<1> QED
  BY <1>1, <1>2, <1>3, <1>4, <1>5, <1>6, <1>7, <1>8, <1>9, <1>10, <1>11, <1>12,
     <1>13, <1>14, <1>15, <1>16, <1>17, <1>18, <1>19, <1>20, <1>21, <1>22,
     <1>23, <1>24
  DEF Next, ParentStep, CommandStep, EnvironmentStep

\* The job is assigned before the wait, and a process ends in its job.
LEMMA InJobStep == Inv /\ [Next]_vars => InJob'
<1> SUFFICES ASSUME Inv, [Next]_vars
             PROVE  InJob'
  OBVIOUS
<1> USE ProcsAssumption DEF TypeOK, ControlTypes, ParentStates, ProcessTypes
<1> USE DEF vars, parentVars, commandVars, kernelVars, Inv, LeaderKnown, InJob,
            Before, Started, Waiting, Streams, Mac, LeaderLives, Collected
<1>1. CASE SetupProxy
  BY <1>1 DEF SetupProxy, Fail
<1>2. CASE Spawn
  BY <1>2 DEF Spawn, Fail
<1>3. CASE CreateJob
  BY <1>3 DEF CreateJob, Fail
<1>4. CASE SetJobLimit
  BY <1>4 DEF SetJobLimit, Fail
<1>5. CASE AssignJob
  BY <1>5 DEF AssignJob, AssignError, Fail
<1>6. CASE PushInput
  BY <1>6 DEF PushInput
<1>7. CASE EndInput
  BY <1>7 DEF EndInput
<1>8. CASE Poll
  BY <1>8 DEF Poll, KillTargets, Fail
<1>9. CASE CheckTimeout
  BY <1>9 DEF CheckTimeout, AfterCheck, KillTargets
<1>10. CASE \E s \in Streams : ReadMore(s)
  BY <1>10 DEF ReadMore
<1>11. CASE \E s \in Streams : EndRead(s)
  BY <1>11 DEF EndRead, AtEnd
<1>12. CASE Launch
  BY <1>12 DEF Launch, LeaderEnds, Gone
<1>13. CASE CommandEnds
  <2>1. PICK code \in Nat, signal \in Nat : LeaderEnds(code, signal)
    BY <1>13 DEF CommandEnds, NoSignal
  <2> QED BY <2>1, LeaderEnding DEF LeaderEnds, Gone
<1>14. CASE \E k \in Kids : KidEnds(k)
  BY <1>14 DEF KidEnds, Gone
<1>15. CASE \E q \in Procs : Fork(q)
  BY <1>15 DEF Fork, Running
<1>16. CASE \E q \in Procs : LeaveGroup(q)
  BY <1>16 DEF LeaveGroup, Running
<1>17. CASE \E q \in Procs : LetGo(q)
  BY <1>17 DEF LetGo, Running
<1>18. CASE \E q \in Procs : ReadStdin(q)
  BY <1>18 DEF ReadStdin, Running
<1>19. CASE \E q \in Procs, s \in Streams : Write(q, s)
  BY <1>19 DEF Write, Running
<1>20. CASE \E q \in Procs : DeliverKill(q)
  <2>1. PICK q \in Procs : DeliverKill(q)
    BY <1>20
  <2>2. CASE q = Leader
    <3>1. PICK code \in Nat, signal \in Nat : LeaderEnds(code, signal)
      BY <2>1, <2>2 DEF DeliverKill, NoSignal
    <3> QED BY <3>1, LeaderEnding DEF LeaderEnds, Gone
  <2>3. CASE q # Leader
    BY <2>1, <2>3 DEF DeliverKill, KidEnds, Gone
  <2> QED BY <2>2, <2>3
<1>21. CASE ForeignReap
  BY <1>21 DEF ForeignReap
<1>22. CASE Expire
  BY <1>22 DEF Expire
<1>23. CASE Over
  BY <1>23 DEF Over
<1>24. CASE UNCHANGED vars
  BY <1>24
<1> QED
  BY <1>1, <1>2, <1>3, <1>4, <1>5, <1>6, <1>7, <1>8, <1>9, <1>10, <1>11, <1>12,
     <1>13, <1>14, <1>15, <1>16, <1>17, <1>18, <1>19, <1>20, <1>21, <1>22,
     <1>23, <1>24
  DEF Next, ParentStep, CommandStep, EnvironmentStep

\* No process joins the group that is not being killed.
LEMMA GroupStep == Inv /\ [Next]_vars => GroupKillReachesAll'
<1> SUFFICES ASSUME Inv, [Next]_vars
             PROVE  GroupKillReachesAll'
  OBVIOUS
<1> USE DEF TypeOK, CountTypes, ExecutionResults, Started
<1> USE DEF vars, parentVars, commandVars, kernelVars, Inv, LeaderKnown,
            GroupKillReachesAll, Before, Mac
<1>1. CASE SetupProxy
  BY <1>1 DEF SetupProxy, Fail
<1>2. CASE Spawn
  BY <1>2 DEF Spawn, Fail
<1>3. CASE CreateJob
  BY <1>3 DEF CreateJob, Fail
<1>4. CASE SetJobLimit
  BY <1>4 DEF SetJobLimit, Fail
<1>5. CASE AssignJob
  BY <1>5 DEF AssignJob, AssignError, Fail
<1>6. CASE PushInput
  BY <1>6 DEF PushInput
<1>7. CASE EndInput
  BY <1>7 DEF EndInput
<1>8. CASE Poll
  BY <1>8 DEF Poll, KillTargets, Fail
<1>9. CASE CheckTimeout
  BY <1>9 DEF CheckTimeout, AfterCheck, KillTargets
<1>10. CASE \E s \in Streams : ReadMore(s)
  BY <1>10 DEF ReadMore
<1>11. CASE \E s \in Streams : EndRead(s)
  BY <1>11 DEF EndRead, AtEnd
<1>12. CASE Launch
  BY <1>12 DEF Launch, LeaderEnds, Gone
<1>13. CASE CommandEnds
  BY <1>13 DEF CommandEnds, LeaderEnds, Gone
<1>14. CASE \E k \in Kids : KidEnds(k)
  BY <1>14 DEF KidEnds, Gone
<1>15. CASE \E q \in Procs : Fork(q)
  BY <1>15 DEF Fork, Running
<1>16. CASE \E q \in Procs : LeaveGroup(q)
  BY <1>16 DEF LeaveGroup, Running
<1>17. CASE \E q \in Procs : LetGo(q)
  BY <1>17 DEF LetGo, Running
<1>18. CASE \E q \in Procs : ReadStdin(q)
  BY <1>18 DEF ReadStdin, Running
<1>19. CASE \E q \in Procs, s \in Streams : Write(q, s)
  BY <1>19 DEF Write, Running
<1>20. CASE \E q \in Procs : DeliverKill(q)
  BY <1>20 DEF DeliverKill, KidEnds, LeaderEnds, Gone
<1>21. CASE ForeignReap
  BY <1>21 DEF ForeignReap
<1>22. CASE Expire
  BY <1>22 DEF Expire
<1>23. CASE Over
  BY <1>23 DEF Over
<1>24. CASE UNCHANGED vars
  BY <1>24
<1> QED
  BY <1>1, <1>2, <1>3, <1>4, <1>5, <1>6, <1>7, <1>8, <1>9, <1>10, <1>11, <1>12,
     <1>13, <1>14, <1>15, <1>16, <1>17, <1>18, <1>19, <1>20, <1>21, <1>22,
     <1>23, <1>24
  DEF Next, ParentStep, CommandStep, EnvironmentStep

\* A pipe nobody holds stays so, and nothing is written to it: only a process
\* that holds it can write to it or give it to a child.
LEMMA Released ==
  ASSUME Inv, [Next]_vars, NEW s \in Pipes, ~Held(s), leader # "none"
  PROVE  /\ ~Held(s)'
         /\ s \in Streams => produced'[s] = produced[s]
         /\ s \in garbled' <=> s \in garbled
<1> USE ProcsAssumption
    DEF vars, parentVars, commandVars, kernelVars, Inv, TypeOK, ProcessTypes,
        CountTypes, LeaderKnown, Before
<1>1. CASE SetupProxy
  BY <1>1 DEF SetupProxy, Fail, Held, Living, LeaderLives, Procs
<1>2. CASE Spawn
  BY <1>2 DEF Spawn, Fail, Held, Living, LeaderLives, Procs
<1>3. CASE CreateJob
  BY <1>3 DEF CreateJob, Fail, Held, Living, LeaderLives, Procs
<1>4. CASE SetJobLimit
  BY <1>4 DEF SetJobLimit, Fail, Held, Living, LeaderLives, Procs
<1>5. CASE AssignJob
  BY <1>5 DEF AssignJob, AssignError, Fail, Held, Living, LeaderLives, Procs
<1>6. CASE PushInput
  BY <1>6 DEF PushInput, Held, Living, LeaderLives, Procs
<1>7. CASE EndInput
  BY <1>7 DEF EndInput, Held, Living, LeaderLives, Procs
<1>8. CASE Poll
  BY <1>8 DEF Poll, KillTargets, Fail, Held, Living, LeaderLives, Procs
<1>9. CASE CheckTimeout
  BY <1>9 DEF CheckTimeout, AfterCheck, KillTargets, Held, Living, LeaderLives, Procs
<1>10. CASE \E r \in Streams : ReadMore(r)
  BY <1>10 DEF ReadMore, Held, Living, LeaderLives, Procs
<1>11. CASE \E r \in Streams : EndRead(r)
  BY <1>11 DEF EndRead, AtEnd, Held, Living, LeaderLives, Procs
<1>12. CASE Launch
  BY <1>12 DEF Launch, LeaderEnds, Gone, Held, Living, LeaderLives, Procs
<1>13. CASE CommandEnds
  <2>1. PICK code \in Nat, signal \in Nat : LeaderEnds(code, signal)
    BY <1>13 DEF CommandEnds, NoSignal
  <2>2. UNCHANGED <<produced, garbled>>
    BY <2>1 DEF LeaderEnds, Gone
  <2> QED BY <2>1, <2>2, LeaderEnding
<1>14. CASE \E k \in Kids : KidEnds(k)
  BY <1>14 DEF KidEnds, Gone, Held, Living, LeaderLives, Procs
<1>15. CASE \E q \in Procs : Fork(q)
  BY <1>15 DEF Fork, Running, Held, Living, LeaderLives, Procs
<1>16. CASE \E q \in Procs : LeaveGroup(q)
  BY <1>16 DEF LeaveGroup, Running, Held, Living, LeaderLives, Procs
<1>17. CASE \E q \in Procs : LetGo(q)
  BY <1>17 DEF LetGo, Running, Held, Living, LeaderLives, Procs
<1>18. CASE \E q \in Procs : ReadStdin(q)
  BY <1>18 DEF ReadStdin, Running, Held, Living, LeaderLives, Procs
<1>19. CASE \E q \in Procs, r \in Streams : Write(q, r)
  BY <1>19 DEF Write, Running, Held, Living, LeaderLives, Procs
<1>20. CASE \E q \in Procs : DeliverKill(q)
  <2>1. PICK q \in Procs : DeliverKill(q)
    BY <1>20
  <2>2. CASE q = Leader
    <3>1. PICK code \in Nat, signal \in Nat : LeaderEnds(code, signal)
      BY <2>1, <2>2 DEF DeliverKill, NoSignal
    <3>2. UNCHANGED <<produced, garbled>>
      BY <3>1 DEF LeaderEnds, Gone
    <3> QED BY <3>1, <3>2, LeaderEnding
  <2>3. CASE q # Leader
    BY <2>1, <2>3 DEF DeliverKill, KidEnds, Gone, Held, Living, LeaderLives, Procs
  <2> QED BY <2>2, <2>3
<1>21. CASE ForeignReap
  BY <1>21 DEF ForeignReap, Held, Living, LeaderLives, Procs
<1>22. CASE Expire
  BY <1>22 DEF Expire, Held, Living, LeaderLives, Procs
<1>23. CASE Over
  BY <1>23 DEF Over, Held, Living, LeaderLives, Procs
<1>24. CASE UNCHANGED vars
  BY <1>24 DEF Held, Living, LeaderLives
<1> QED
  BY <1>1, <1>2, <1>3, <1>4, <1>5, <1>6, <1>7, <1>8, <1>9, <1>10, <1>11, <1>12,
     <1>13, <1>14, <1>15, <1>16, <1>17, <1>18, <1>19, <1>20, <1>21, <1>22,
     <1>23, <1>24
  DEF Next, ParentStep, CommandStep, EnvironmentStep

\* The result is filled in by Poll, CheckTimeout and EndRead, in this order.
LEMMA FinalKept ==
  ASSUME Inv, [Next]_vars, NEW s \in Streams, Final(s), leader # "none",
         ppc \notin {"poll", "alive"}, ppc # s
  PROVE  Final(s)'
<1>1. ~Held(s)' /\ produced'[s] = produced[s] /\ (s \in garbled' <=> s \in garbled)
  BY Released DEF Final, Pipes
<1> USE DEF vars, parentVars, commandVars, kernelVars, Final, Inv, TypeOK, CountTypes,
            ExecutionResults, Streams
<1>2. received'[s] = received[s]
  <2>1. CASE \E r \in Streams : ReadMore(r)
    BY <2>1 DEF ReadMore
  <2>2. CASE received' = received
    BY <2>2
  <2>3. received' = received \/ \E r \in Streams : ReadMore(r)
    BY DEF Next, ParentStep, CommandStep, EnvironmentStep, SetupProxy, Spawn,
           CreateJob, SetJobLimit, AssignJob, PushInput, EndInput, Poll,
           CheckTimeout, ReadMore, EndRead, Launch, CommandEnds, KidEnds, Fork,
           LeaveGroup, LetGo, ReadStdin, Write, DeliverKill, ForeignReap,
           Expire, Over, LeaderEnds, Gone
  <2> QED BY <2>1, <2>2, <2>3
<1>3. result'.output[s] = result.output[s]
  <2>1. CASE \E r \in Streams : EndRead(r)
    BY <2>1 DEF EndRead
  <2>2. CASE result' = result
    BY <2>2
  <2>3. result' = result \/ \E r \in Streams : EndRead(r)
    BY DEF Next, ParentStep, CommandStep, EnvironmentStep, SetupProxy, Spawn,
           CreateJob, SetJobLimit, AssignJob, PushInput, EndInput, Poll,
           CheckTimeout, ReadMore, EndRead, Launch, CommandEnds, KidEnds, Fork,
           LeaveGroup, LetGo, ReadStdin, Write, DeliverKill, ForeignReap,
           Expire, Over, LeaderEnds, Gone
  <2> QED BY <2>1, <2>2, <2>3
<1> QED BY <1>1, <1>2, <1>3 DEF Text

\* What EndRead leaves is final.
LEMMA EndReadFinal ==
  ASSUME Inv, NEW s \in Streams, EndRead(s)
  PROVE  Final(s)'
<1>1. ~Held(s) /\ received[s] = produced[s]
  BY DEF EndRead, AtEnd
<1>2. UNCHANGED <<kids, leader, held, produced, received, garbled>>
  BY DEF EndRead, commandVars
<1>3. ~Held(s)'
  BY <1>1, <1>2 DEF Held, Living, LeaderLives
<1>4. result'.output[s] = Text(s)
  BY DEF EndRead, Inv, TypeOK, CountTypes, ExecutionResults
<1> QED BY <1>1, <1>2, <1>3, <1>4 DEF Final, Text

\* The streams are read one after the other, each to its end.
LEMMA FinalStep == Inv /\ [Next]_vars => StreamsFinal'
<1> SUFFICES ASSUME Inv, [Next]_vars
             PROVE  StreamsFinal'
  OBVIOUS
<1>1. ASSUME ppc' = "stderr"
      PROVE  Final("stdout")'
  <2>1. CASE ppc = "stderr"
    BY <2>1, FinalKept DEF Inv, LeaderKnown, StreamsFinal, Streams
  <2>2. CASE ppc # "stderr"
    <3>1. EndRead("stdout")
      BY <1>1, <2>2
      DEF vars, parentVars, commandVars, kernelVars, Streams, Next, ParentStep,
          CommandStep, EnvironmentStep, SetupProxy, Spawn, CreateJob,
          SetJobLimit, AssignJob, PushInput, EndInput, Poll, CheckTimeout,
          ReadMore, EndRead, Launch, CommandEnds, KidEnds, Fork,
          LeaveGroup, LetGo, ReadStdin, Write, DeliverKill, ForeignReap,
          Expire, Over, LeaderEnds, Gone, Fail, AssignError, AfterCheck
    <3> QED BY <3>1, EndReadFinal DEF Streams
  <2> QED BY <2>1, <2>2
<1>2. ASSUME outcome' = "ok", NEW s \in Streams
      PROVE  Final(s)'
  <2>1. CASE outcome = "ok"
    BY <2>1, FinalKept DEF Inv, LeaderKnown, StreamsFinal, Streams
  <2>2. CASE outcome # "ok"
    <3>1. EndRead("stderr") /\ ppc = "stderr"
      BY <1>2, <2>2
      DEF vars, parentVars, commandVars, kernelVars, Streams, Next, ParentStep,
          CommandStep, EnvironmentStep, SetupProxy, Spawn, CreateJob,
          SetJobLimit, AssignJob, PushInput, EndInput, Poll, CheckTimeout,
          ReadMore, EndRead, Launch, CommandEnds, KidEnds, Fork,
          LeaveGroup, LetGo, ReadStdin, Write, DeliverKill, ForeignReap,
          Expire, Over, LeaderEnds, Gone, Fail, AssignError, AfterCheck
    <3>2. CASE s = "stderr"
      BY <3>1, <3>2, EndReadFinal DEF Streams
    <3>3. CASE s = "stdout"
      BY <3>1, <3>3, FinalKept DEF Inv, LeaderKnown, StreamsFinal, Streams
    <3> QED BY <3>2, <3>3 DEF Streams
  <2> QED BY <2>1, <2>2
<1> QED BY <1>1, <1>2 DEF StreamsFinal

-----------------------------------------------------------------------------
(* Theorems *)

\* The invariant holds in every reachable state.
THEOREM Invariance == Spec => []Inv
<1>1. Init => Inv
  <2> SUFFICES ASSUME Init
               PROVE  Inv
    OBVIOUS
  <2> USE DEF Init
  <2>1. ControlTypes
    BY DEF ControlTypes, ParentStates
  <2>2. ProcessTypes
    BY DEF ProcessTypes, Living, LeaderLives, Pipes, NoSignal
  <2>3. CountTypes
    BY CallsAssumption, BoundsAssumption
    DEF CountTypes, CallType, NewResult, ExecutionResults, NoSignal
  <2>4. LeaderKnown /\ LeaderCollected
    BY DEF LeaderKnown, LeaderCollected, Before, Started, Streams, NewResult
  <2>5. InJob /\ GroupKillReachesAll /\ StreamsFinal
    BY DEF InJob, GroupKillReachesAll, StreamsFinal, Waiting, Streams
  <2> QED BY <2>1, <2>2, <2>3, <2>4, <2>5 DEF Inv, TypeOK
<1>2. Inv /\ [Next]_vars => Inv'
  BY ControlStep, ProcessStep, CountStep, KnownStep, CollectedStep, InJobStep,
     GroupStep, FinalStep
  DEF Inv, TypeOK
<1> QED BY <1>1, <1>2, PTL DEF Spec

\* Every variable has its type; only live processes are grouped or killed.
THEOREM TypeCorrect == Spec => []TypeOK
<1>1. Inv => TypeOK
  BY DEF Inv
<1> QED BY <1>1, Invariance, PTL

\* A result holds all that is ever written to the streams that are text, and
\* nobody is left to write to any stream.
THEOREM Complete == Spec => []OkOutputFinal
<1>1. Inv => OkOutputFinal
  BY DEF Inv, StreamsFinal, Final, Text, OkOutputFinal
<1> QED BY <1>1, Invariance, PTL

\* No way out of execute leaves the spawned process uncollected on macOS, nor
\* does a result on Windows.
THEOREM NoneLeft == Spec => []LeaderCollected
<1>1. Inv => LeaderCollected
  BY DEF Inv
<1> QED BY <1>1, Invariance, PTL

\* A result on Windows is of a process that ended in a job with all its limits.
THEOREM Limited == Spec => []OkRanInJob
<1>1. Inv => OkRanInJob
  <2> SUFFICES ASSUME Inv, outcome = "ok", ~Mac
               PROVE  status.tied /\ jobLimits = call.limits
    BY DEF OkRanInJob
  <2>1. leader = "reaped" /\ ~LeaderLives
    BY DEF Inv, LeaderKnown, LeaderLives
  <2>2. Leader \notin tied
    BY <2>1, ProcsAssumption DEF Inv, TypeOK, ProcessTypes, Living
  <2> QED BY <2>2 DEF Inv, InJob
<1> QED BY <1>1, Invariance, PTL

\* After the kill of the timeout nobody is in the group who is not being
\* killed, though the kill is never repeated.
THEOREM AllReached == Spec => []GroupKillReachesAll
<1>1. Inv => GroupKillReachesAll
  BY DEF Inv
<1> QED BY <1>1, Invariance, PTL

-----------------------------------------------------------------------------
(* The contract of the trait *)

\* What a result claims beyond the output.
Claims ==
  /\ ~result.killed_by_oom
  /\ result.killed_by_timeout => expired
  /\ ppc \in Streams \/ outcome = "ok" =>
       /\ result.exit_code = ReportedCode(status)
       /\ result.signal = ReportedSignal(status)

\* A result is about the end of the process the executor has waited for, and
\* claims no timeout that did not happen.
LEMMA ClaimsStep == Inv /\ Claims /\ [Next]_vars => Claims'
<1> SUFFICES ASSUME Inv, Claims, [Next]_vars
             PROVE  Claims'
  OBVIOUS
<1>0. result \in ExecutionResults
  BY DEF Inv, TypeOK, CountTypes
<1> USE <1>0 DEF vars, parentVars, commandVars, kernelVars, Claims, Streams,
        ReportedCode, ReportedSignal, ExecutionResults
<1>1. CASE SetupProxy
  BY <1>1 DEF SetupProxy, Fail
<1>2. CASE Spawn
  BY <1>2 DEF Spawn, Fail
<1>3. CASE CreateJob
  BY <1>3 DEF CreateJob, Fail
<1>4. CASE SetJobLimit
  BY <1>4 DEF SetJobLimit, Fail
<1>5. CASE AssignJob
  BY <1>5 DEF AssignJob, AssignError, Fail
<1>6. CASE PushInput
  BY <1>6 DEF PushInput
<1>7. CASE EndInput
  BY <1>7 DEF EndInput
<1>8. CASE Poll
  BY <1>8 DEF Poll, KillTargets, Fail, LeaderLives
<1>9. CASE CheckTimeout
  BY <1>9 DEF CheckTimeout, AfterCheck, KillTargets
<1>10. CASE \E s \in Streams : ReadMore(s)
  BY <1>10 DEF ReadMore
<1>11. CASE \E s \in Streams : EndRead(s)
  BY <1>11 DEF EndRead, AtEnd
<1>12. CASE Launch
  <2>1. result' = result /\ ppc' = ppc /\ outcome' = outcome /\ expired' = expired
    BY <1>12 DEF Launch, LeaderEnds, Gone
  <2>2. ppc \in Streams \/ outcome = "ok" => UNCHANGED status
    BY <1>12 DEF Launch, LeaderEnds, Gone, Inv, LeaderKnown, LeaderLives
  <2> QED BY <2>1, <2>2
<1>13. CASE CommandEnds
  <2>1. result' = result /\ ppc' = ppc /\ outcome' = outcome /\ expired' = expired
    BY <1>13 DEF CommandEnds, LeaderEnds, Gone
  <2>2. ppc \in Streams \/ outcome = "ok" => UNCHANGED status
    BY <1>13 DEF CommandEnds, LeaderEnds, Gone, Inv, LeaderKnown, LeaderLives
  <2> QED BY <2>1, <2>2
<1>14. CASE \E k \in Kids : KidEnds(k)
  BY <1>14 DEF KidEnds, Gone
<1>15. CASE \E q \in Procs : Fork(q)
  BY <1>15 DEF Fork, Running
<1>16. CASE \E q \in Procs : LeaveGroup(q)
  BY <1>16 DEF LeaveGroup, Running
<1>17. CASE \E q \in Procs : LetGo(q)
  BY <1>17 DEF LetGo, Running
<1>18. CASE \E q \in Procs : ReadStdin(q)
  BY <1>18 DEF ReadStdin, Running
<1>19. CASE \E q \in Procs, s \in Streams : Write(q, s)
  BY <1>19 DEF Write, Running
<1>20. CASE \E q \in Procs : DeliverKill(q)
  <2>1. result' = result /\ ppc' = ppc /\ outcome' = outcome /\ expired' = expired
    BY <1>20 DEF DeliverKill, KidEnds, LeaderEnds, Gone
  <2>2. ppc \in Streams \/ outcome = "ok" => UNCHANGED status
    BY <1>20 DEF DeliverKill, KidEnds, LeaderEnds, Gone, Inv, LeaderKnown, LeaderLives
  <2> QED BY <2>1, <2>2
<1>21. CASE ForeignReap
  BY <1>21 DEF ForeignReap
<1>22. CASE Expire
  BY <1>22 DEF Expire
<1>23. CASE Over
  BY <1>23 DEF Over
<1>24. CASE UNCHANGED vars
  BY <1>24
<1> QED
  BY <1>1, <1>2, <1>3, <1>4, <1>5, <1>6, <1>7, <1>8, <1>9, <1>10, <1>11, <1>12,
     <1>13, <1>14, <1>15, <1>16, <1>17, <1>18, <1>19, <1>20, <1>21, <1>22,
     <1>23, <1>24
  DEF Next, ParentStep, CommandStep, EnvironmentStep

\* A step that changes nothing the contract sees.
LEMMA Unseen ==
  ASSUME UNCHANGED <<CallerView, AnswerView, CommandView, status, produced,
                     garbled, expired>>
  PROVE  UNCHANGED Contract!vars
BY DEF Contract!vars

\* The end of the spawned process is the end of the command, before the caller
\* has a result.
LEMMA EndSeen ==
  ASSUME Inv, NEW code \in Nat, NEW signal \in Nat, LeaderEnds(code, signal)
  PROVE  Contract!Next
<1> USE DEF LeaderEnds, Gone, parentVars
<1>1. CallerView # "answered"
  <2>1. outcome # "ok"
    BY DEF Inv, LeaderKnown, LeaderLives
  <2> QED BY <2>1 DEF CallerView
<1>2. UNCHANGED <<CallerView, AnswerView, produced, garbled, expired>>
  BY DEF CallerView, AnswerView
<1>3. CommandView # "ended" /\ CommandView' = "ended"
  BY DEF CommandView, LeaderLives, Collected
<1>4. [code |-> status.code, signal |-> status.signal]'
        \in [code : Nat, signal : Nat]
  OBVIOUS
<1> QED BY <1>1, <1>2, <1>3, <1>4 DEF Contract!Ends, Contract!End, Contract!Next

\* An early return is an error for the caller.
LEMMA FailSeen ==
  ASSUME Fail, ppc # "returned",
         UNCHANGED <<CommandView, status, produced, garbled, expired>>
  PROVE  Contract!Next
<1>1. CallerView = "waiting" /\ CallerView' = "failed"
  BY DEF Fail, CallerView
<1>2. UNCHANGED AnswerView
  BY <1>1 DEF AnswerView
<1> QED BY <1>1, <1>2 DEF Contract!Fail, Contract!sandboxVars, Contract!Next

\* Every step of the executor is a step the contract allows, or none it sees.
LEMMA StepSimulation ==
  Inv /\ Claims /\ [Next]_vars => [Contract!Next]_(Contract!vars)
<1> SUFFICES ASSUME Inv, Claims, [Next]_vars
             PROVE  Contract!Next \/ UNCHANGED Contract!vars
  OBVIOUS
<1> USE DEF vars, parentVars, commandVars, kernelVars
<1>1. CASE SetupProxy
  <2>1. ppc # "returned"
    BY <1>1 DEF SetupProxy
  <2>2. UNCHANGED <<CommandView, status, produced, garbled, expired>>
    BY <1>1 DEF SetupProxy, Fail, CommandView, Collected
  <2>3. CASE Fail
    BY <2>1, <2>2, <2>3, FailSeen
  <2>4. CASE ~Fail
    <3>1. ppc' # "returned"
      BY <1>1, <2>4 DEF SetupProxy
    <3> QED BY <2>1, <2>2, <3>1, Unseen DEF CallerView, AnswerView
  <2> QED BY <2>3, <2>4
<1>2. CASE Spawn
  <2>1. ppc # "returned" /\ leader = "none"
    BY <1>2 DEF Spawn, Inv, LeaderKnown, Before
  <2>2. UNCHANGED <<status, produced, garbled, expired>>
    BY <1>2 DEF Spawn
  <2>3. CASE Fail /\ UNCHANGED <<leader, tied, held>>
    <3>1. UNCHANGED CommandView
      BY <2>3 DEF CommandView, Collected
    <3> QED BY <2>1, <2>2, <2>3, <3>1, FailSeen
  <2>4. CASE /\ leader' = IF Mac THEN "launch" ELSE "run"
             /\ ppc' = IF Mac THEN "input" ELSE "job"
             /\ UNCHANGED <<outcome, proxy>>
    <3>1. CallerView = "waiting" /\ CallerView' = "waiting"
      BY <2>1, <2>4 DEF CallerView
    <3>2. UNCHANGED AnswerView
      BY <3>1 DEF AnswerView
    <3>3. CommandView = "absent"
      BY <2>1 DEF CommandView, Collected
    <3>4. CASE Mac
      <4>1. CommandView' = "absent"
        BY <2>4, <3>4 DEF CommandView, Collected
      <4> QED BY <2>2, <3>1, <3>2, <3>3, <4>1, Unseen
    <3>5. CASE ~Mac
      <4>1. CommandView' = "running"
        BY <2>4, <3>5 DEF CommandView
      <4> QED BY <2>2, <3>1, <3>2, <3>3, <4>1 DEF Contract!Start, Contract!Next
    <3> QED BY <3>4, <3>5
  <2> QED BY <1>2, <2>3, <2>4 DEF Spawn
<1>3. CASE CreateJob
  <2>1. ppc # "returned"
    BY <1>3 DEF CreateJob
  <2>2. UNCHANGED <<CommandView, status, produced, garbled, expired>>
    BY <1>3 DEF CreateJob, Fail, CommandView, Collected
  <2>3. CASE Fail
    BY <2>1, <2>2, <2>3, FailSeen
  <2>4. CASE ~Fail
    <3>1. ppc' # "returned"
      BY <1>3, <2>4 DEF CreateJob
    <3> QED BY <2>1, <2>2, <3>1, Unseen DEF CallerView, AnswerView
  <2> QED BY <2>3, <2>4
<1>4. CASE SetJobLimit
  <2>1. ppc # "returned"
    BY <1>4 DEF SetJobLimit
  <2>2. UNCHANGED <<CommandView, status, produced, garbled, expired>>
    BY <1>4 DEF SetJobLimit, Fail, CommandView, Collected
  <2>3. CASE Fail
    BY <2>1, <2>2, <2>3, FailSeen
  <2>4. CASE ~Fail
    <3>1. ppc' # "returned"
      BY <1>4, <2>4 DEF SetJobLimit
    <3> QED BY <2>1, <2>2, <3>1, Unseen DEF CallerView, AnswerView
  <2> QED BY <2>3, <2>4
<1>5. CASE AssignJob
  <2>1. ppc # "returned"
    BY <1>5 DEF AssignJob
  <2>2. UNCHANGED <<CommandView, status, produced, garbled, expired>>
    BY <1>5 DEF AssignJob, AssignError, Fail, CommandView, Collected
  <2>3. CASE Fail
    BY <2>1, <2>2, <2>3, FailSeen
  <2>4. CASE ~Fail
    <3>1. ppc' # "returned"
      BY <1>5, <2>4 DEF AssignJob, AssignError
    <3> QED BY <2>1, <2>2, <3>1, Unseen DEF CallerView, AnswerView
  <2> QED BY <2>3, <2>4
<1>6. CASE PushInput
  <2>1. ppc # "returned" /\ ppc' # "returned"
    BY <1>6 DEF PushInput, Streams
  <2>2. UNCHANGED <<CommandView, status, produced, garbled, expired>>
    BY <1>6 DEF PushInput, CommandView
  <2> QED BY <2>1, <2>2, Unseen DEF CallerView, AnswerView
<1>7. CASE EndInput
  <2>1. ppc # "returned" /\ ppc' # "returned"
    BY <1>7 DEF EndInput, Streams
  <2>2. UNCHANGED <<CommandView, status, produced, garbled, expired>>
    BY <1>7 DEF EndInput, CommandView
  <2> QED BY <2>1, <2>2, Unseen DEF CallerView, AnswerView
<1>8. CASE Poll
  <2>1. ppc # "returned"
    BY <1>8 DEF Poll
  <2>2. UNCHANGED <<CommandView, status, produced, garbled, expired>>
    BY <1>8 DEF Poll, KillTargets, Fail,
        LeaderLives, Inv, LeaderKnown, Before, CommandView, Collected
  <2>3. CASE Fail
    BY <2>1, <2>2, <2>3, FailSeen
  <2>4. CASE ~Fail
    <3>1. ppc' # "returned"
      BY <1>8, <2>4 DEF Poll
    <3> QED BY <2>1, <2>2, <3>1, Unseen DEF CallerView, AnswerView
  <2> QED BY <2>3, <2>4
<1>9. CASE CheckTimeout
  <2>1. ppc # "returned" /\ ppc' # "returned"
    BY <1>9 DEF CheckTimeout, Streams, AfterCheck
  <2>2. UNCHANGED <<CommandView, status, produced, garbled, expired>>
    BY <1>9 DEF CheckTimeout, CommandView
  <2> QED BY <2>1, <2>2, Unseen DEF CallerView, AnswerView
<1>10. CASE \E s \in Streams : ReadMore(s)
  <2>1. ppc # "returned" /\ ppc' # "returned"
    BY <1>10 DEF ReadMore, Streams
  <2>2. UNCHANGED <<CommandView, status, produced, garbled, expired>>
    BY <1>10 DEF ReadMore, CommandView
  <2> QED BY <2>1, <2>2, Unseen DEF CallerView, AnswerView
<1>11. CASE \E s \in Streams : EndRead(s)
  <2>1. CASE EndRead("stdout")
    <3>1. ppc # "returned" /\ ppc' # "returned"
      BY <2>1 DEF EndRead
    <3>2. UNCHANGED <<CommandView, status, produced, garbled, expired>>
      BY <2>1 DEF EndRead, CommandView
    <3> QED BY <3>1, <3>2, Unseen DEF CallerView, AnswerView
  <2>2. CASE EndRead("stderr")
    <3>1. CallerView = "waiting" /\ CallerView' = "answered"
      BY <2>2 DEF EndRead, CallerView
    <3>2. CommandView = "ended"
      BY <2>2 DEF EndRead, Inv, LeaderKnown, Streams, CommandView, Collected
    <3>3. UNCHANGED <<CommandView, status, produced, garbled, expired>>
      BY <2>2 DEF EndRead, CommandView
    <3>4. AnswerView' = result'
      BY <3>1 DEF AnswerView
    <3>5. result' \in Contract!ExecutionResults
      BY <2>2, CountStep DEF Inv, TypeOK, CountTypes, ExecutionResults, Streams,
         Contract!ExecutionResults, Contract!Streams
    <3>6. Contract!Tells(result')
      <4>1. result \in ExecutionResults /\ result' = [result EXCEPT !.output["stderr"] = Text("stderr")]
        BY <2>2 DEF EndRead, Inv, TypeOK, CountTypes
      <4>2. /\ result.exit_code = ReportedCode(status)
            /\ result.signal = ReportedSignal(status)
            /\ ~result.killed_by_oom
            /\ result.killed_by_timeout => expired
        BY <2>2 DEF EndRead, Claims, Streams
      <4>3. ASSUME NEW s \in Streams \ garbled
            PROVE  result'.output[s] = produced[s]
        <5>1. CASE s = "stderr"
          BY <2>2, <4>1, <4>3, <5>1 DEF EndRead, AtEnd, Text, ExecutionResults
        <5>2. CASE s = "stdout"
          <6>1. Final("stdout")
            BY <2>2 DEF EndRead, Inv, StreamsFinal
          <6> QED BY <4>1, <4>3, <5>2, <6>1 DEF Final, Text, ExecutionResults
        <5> QED BY <5>1, <5>2 DEF Streams
      <4>4. /\ result'.signal = ReportedSignal(status)
            /\ result'.exit_code = ReportedCode(status)
            /\ ~result'.killed_by_oom
            /\ result'.killed_by_timeout => expired
        BY <4>1, <4>2 DEF ExecutionResults
      <4> QED
        BY <4>3, <4>4 DEF Contract!Tells, ReportedCode, ReportedSignal,
           Contract!NoSignal, NoSignal, Contract!Streams, Streams
    <3>7. Contract!Answer
      <4>1. Contract!Tells(AnswerView')
        BY <3>4, <3>6 DEF Contract!Tells
      <4> QED BY <3>1, <3>2, <3>3, <3>4, <3>5, <4>1
              DEF Contract!Answer, Contract!sandboxVars
    <3> QED BY <3>7 DEF Contract!Next
  <2> QED BY <1>11, <2>1, <2>2 DEF Streams
<1>12. CASE Launch
  <2>1. CASE leader' = "run"
    <3>1. CommandView = "absent" /\ CommandView' = "running"
      BY <1>12, <2>1 DEF Launch, LeaderEnds, CommandView, Collected
    <3>2. UNCHANGED <<CallerView, AnswerView, status, produced, garbled, expired>>
      BY <1>12, <2>1 DEF Launch, LeaderEnds, CallerView, AnswerView
    <3>3. CallerView = "waiting"
      BY <1>12, <2>1 DEF Launch, LeaderEnds, CallerView, Inv, LeaderKnown,
         LeaderCollected, Collected
    <3> QED BY <3>1, <3>2, <3>3 DEF Contract!Start, Contract!Next
  <2>2. CASE leader' # "run"
    <3>1. LeaderEnds(71, NoSignal)
      BY <1>12, <2>2 DEF Launch
    <3> QED BY <3>1, EndSeen DEF NoSignal
  <2> QED BY <2>1, <2>2
<1>13. CASE CommandEnds
  <2>1. PICK code \in Nat, signal \in Nat : LeaderEnds(code, signal)
    BY <1>13 DEF CommandEnds, NoSignal
  <2> QED BY <2>1, EndSeen
<1>14. CASE \E k \in Kids : KidEnds(k)
  BY <1>14, Unseen DEF KidEnds, Gone, CallerView, AnswerView, CommandView
<1>15. CASE \E q \in Procs : Fork(q)
  BY <1>15, Unseen DEF Fork, Running, CallerView, AnswerView, CommandView
<1>16. CASE \E q \in Procs : LeaveGroup(q)
  BY <1>16, Unseen DEF LeaveGroup, Running, CallerView, AnswerView, CommandView
<1>17. CASE \E q \in Procs : LetGo(q)
  BY <1>17, Unseen DEF LetGo, Running, CallerView, AnswerView, CommandView
<1>18. CASE \E q \in Procs : ReadStdin(q)
  BY <1>18, Unseen DEF ReadStdin, Running, CallerView, AnswerView, CommandView
<1>19. CASE \E q \in Procs, s \in Streams : Write(q, s)
  <2>1. PICK q \in Procs, s \in Streams : Write(q, s)
    BY <1>19
  <2>2. CallerView = "waiting"
    BY <2>1 DEF Write, CallerView
  <2>3. CommandView # "absent"
    <3>1. leader \notin {"none", "launch"}
      BY <2>1 DEF Write, Running, Living, LeaderLives, Inv, LeaderKnown
    <3> QED BY <3>1 DEF CommandView, Collected, Inv, TypeOK, ControlTypes
  <2>4. UNCHANGED <<CallerView, AnswerView, CommandView, status, expired>>
    BY <2>1 DEF Write, CallerView, AnswerView, CommandView
  <2>5. /\ produced' = [produced EXCEPT ![s] = @ + 1]
        /\ garbled' \in {garbled, garbled \cup {s}}
    BY <2>1 DEF Write
  <2>6. Contract!Emit(s)
    BY <2>2, <2>3, <2>4, <2>5 DEF Contract!Emit
  <2> QED BY <2>6 DEF Contract!Next, Contract!Streams, Streams
<1>20. CASE \E q \in Procs : DeliverKill(q)
  <2>1. PICK q \in Procs : DeliverKill(q)
    BY <1>20
  <2>2. CASE q = Leader
    <3>1. PICK code \in Nat, signal \in Nat : LeaderEnds(code, signal)
      BY <2>1, <2>2 DEF DeliverKill, NoSignal
    <3> QED BY <3>1, EndSeen
  <2>3. CASE q # Leader
    BY <2>1, <2>3, Unseen DEF DeliverKill, KidEnds, Gone, CallerView, AnswerView,
       CommandView
  <2> QED BY <2>2, <2>3
<1>21. CASE ForeignReap
  BY <1>21, Unseen DEF ForeignReap, CallerView, AnswerView, CommandView, Collected
<1>22. CASE Expire
  <2>1. CallerView = "waiting" /\ expired' = TRUE
    BY <1>22 DEF Expire, CallerView
  <2>2. UNCHANGED <<CallerView, AnswerView, CommandView, status, produced, garbled>>
    BY <1>22 DEF Expire, CallerView, AnswerView, CommandView
  <2> QED BY <2>1, <2>2 DEF Contract!Elapse, Contract!Next
<1>23. CASE Over
  BY <1>23, Unseen DEF Over, CallerView, AnswerView, CommandView
<1>24. CASE UNCHANGED vars
  BY <1>24, Unseen DEF CallerView, AnswerView, CommandView
<1> QED
  BY <1>1, <1>2, <1>3, <1>4, <1>5, <1>6, <1>7, <1>8, <1>9, <1>10, <1>11, <1>12,
     <1>13, <1>14, <1>15, <1>16, <1>17, <1>18, <1>19, <1>20, <1>21, <1>22,
     <1>23, <1>24
  DEF Next, ParentStep, CommandStep, EnvironmentStep

\* The executors of macOS and Windows implement the contract of the trait: one
\* true answer, given when nothing of the command can print any more.
THEOREM Implementation == Spec => ImplementsContract
<1>1. Init => Contract!Init
  BY DEF Init, Contract!Init, CallerView, AnswerView, CommandView, NewResult,
         Collected, Streams, NoSignal, Contract!NewResult, Contract!Streams,
         Contract!NoSignal
<1>2. Init => Claims
  BY DEF Init, Claims, NewResult, Streams
<1>3. Spec => []Claims
  BY <1>2, ClaimsStep, Invariance, PTL DEF Spec
<1> QED
  BY <1>1, <1>3, StepSimulation, Invariance, PTL
  DEF Spec, ImplementsContract, Contract!Spec

\* What follows for whoever calls execute (SandboxExecutorProofs).
Caller ==
  INSTANCE SandboxExecutorProofs WITH
    caller <- CallerView, answer <- AnswerView, command <- CommandView,
    ending <- [code |-> status.code, signal |-> status.signal],
    printed <- produced, garbled <- garbled, late <- expired, starved <- FALSE

\* The contract of the executor is the one those theorems are about.
LEMMA ServesCaller == Spec => Caller!Spec
<1>1. Contract!Init => Caller!Init
  BY DEF Contract!Init, Caller!Init, Contract!NewResult, Caller!NewResult, Contract!Streams,
         Caller!Streams, Contract!NoSignal, Caller!NoSignal
<1>2. [Contract!Next]_(Contract!vars) => [Caller!Next]_(Caller!vars)
  BY
  DEF Contract!Start, Caller!Start, Contract!End, Caller!End, Contract!Starve,
      Caller!Starve, Contract!Ends, Caller!Ends, Contract!Elapse, Caller!Elapse,
      Contract!Answer, Caller!Answer, Contract!Fail, Caller!Fail, Contract!Vanish,
      Caller!Vanish, Contract!Emit, Caller!Emit, Contract!Next, Caller!Next,
      Contract!vars, Caller!vars, Contract!sandboxVars, Caller!sandboxVars,
      Contract!Tells, Caller!Tells, Contract!ExecutionResults, Caller!ExecutionResults,
      Contract!Streams, Caller!Streams, Contract!NoSignal, Caller!NoSignal
<1> QED
  BY <1>1, <1>2, Implementation, PTL DEF ImplementsContract, Contract!Spec, Caller!Spec

\* A result that reports success() is of a command that has exited with code 0,
\* was not killed for its time, and printed what the result holds.
SuccessIsGenuine ==
  ppc = "returned" /\ outcome = "ok" /\ Success(result) =>
    /\ leader \in Collected /\ status.code = 0 /\ status.signal = NoSignal
    /\ \A s \in Streams \ garbled : result.output[s] = produced[s]

\* success() of a result is true of the command, on macOS and on Windows.
THEOREM GenuineSuccess == Spec => []SuccessIsGenuine
<1>1. Spec => []Caller!SuccessHolds
  BY ServesCaller, Caller!SuccessesHold, PTL
<1>2. Inv /\ Caller!SuccessHolds => SuccessIsGenuine
  BY DEF SuccessIsGenuine, Caller!SuccessHolds, Caller!Success, Success, CallerView,
         AnswerView, CommandView, Caller!NoSignal, NoSignal, Caller!Streams, Streams, Inv,
         LeaderKnown, Collected
<1> QED
  BY <1>1, <1>2, Invariance, PTL

\* After execute has returned nothing of the command is printed and it is not
\* started any more; an error stays an error and a result the same result.
QuietAfterReturn ==
  [][ ppc = "returned" =>
        /\ ppc' = "returned" /\ produced' = produced
        /\ outcome' = "ok" <=> outcome = "ok"
        /\ outcome = "ok" => result' = result
        /\ leader' = "run" => leader = "run" ]_vars

\* The return of execute is the last thing a caller can see of its command, also
\* when descendants of it live on.
THEOREM ReturnIsLast == Spec => QuietAfterReturn
<1>1. Spec => Caller!OverWithAnswer /\ Caller!EndsOnce /\ Caller!QuietAfterError
  BY ServesCaller, Caller!AnswerIsLast, Caller!OneOutcome, Caller!ErrorsAreQuiet, PTL
<1>2. /\ [Next]_vars
      /\ [CallerView # "answered"]_(Caller!vars)
      /\ [CallerView = "waiting"]_<<CallerView, AnswerView>>
      /\ [CallerView # "failed" \/ (UNCHANGED produced /\ CommandView' # "running")]_
           <<CommandView, produced>>
      => [ ppc = "returned" =>
             /\ ppc' = "returned" /\ produced' = produced
             /\ outcome' = "ok" <=> outcome = "ok"
             /\ outcome = "ok" => result' = result
             /\ leader' = "run" => leader = "run" ]_vars
  <2> SUFFICES ASSUME [CallerView # "answered"]_(Caller!vars),
                      [CallerView = "waiting"]_<<CallerView, AnswerView>>,
                      [CallerView # "failed" \/ (UNCHANGED produced /\ CommandView' # "running")]_
                        <<CommandView, produced>>,
                      ppc = "returned"
               PROVE  /\ ppc' = "returned" /\ produced' = produced
                      /\ outcome' = "ok" <=> outcome = "ok"
                      /\ outcome = "ok" => result' = result
                      /\ leader' = "run" => leader = "run"
    OBVIOUS
  <2>1. CallerView' = CallerView /\ AnswerView' = AnswerView
    BY DEF CallerView
  <2>2. ppc' = "returned" /\ (outcome' = "ok" <=> outcome = "ok")
    BY <2>1 DEF CallerView
  <2>3. outcome = "ok" => result' = result
    BY <2>1, <2>2 DEF CallerView, AnswerView
  <2>4. UNCHANGED <<CommandView, produced>> \/ (produced' = produced /\ CommandView' # "running")
    <3>1. CASE outcome = "ok"
      BY <3>1 DEF CallerView, Caller!vars
    <3>2. CASE outcome # "ok"
      BY <3>2 DEF CallerView
    <3> QED
      BY <3>1, <3>2
  <2>5. leader' = "run" => leader = "run"
    BY <2>4 DEF CommandView
  <2> QED
    BY <2>2, <2>3, <2>4, <2>5
<1> QED
  BY <1>1, <1>2, PTL
  DEF Spec, QuietAfterReturn, Caller!OverWithAnswer, Caller!EndsOnce, Caller!QuietAfterError

-----------------------------------------------------------------------------
(* Liveness.  A call has 20 stations, the last of them the return, and no    *)
(* step takes it back.  Weak fairness speaks of when an action is ENABLED,   *)
(* which the proof takes from ReadyStepsEnabled and does not look into.      *)

\* A kill of the process is under way, or was sent in vain.
Killed == IF Mac THEN result.killed_by_timeout ELSE Leader \in doomed

LimitStation ==
  IF "memory" \in call.limits \ jobLimits THEN 4
  ELSE IF jobLimits # call.limits THEN 5 ELSE 6

WaitStation ==
  IF ~LeaderLives THEN IF ppc = "alive" THEN 12 ELSE 13
  ELSE IF Killed THEN 11
  ELSE IF ~expired THEN 8
  ELSE IF ppc = "poll" THEN 9 ELSE 10

ReadStation(s) ==
  IF Held(s) THEN 0 ELSE IF received[s] < produced[s] THEN 1 ELSE 2

Station ==
  CASE ppc = "proxy"  -> 1
    [] ppc = "spawn"  -> 2
    [] ppc = "job"    -> 3
    [] ppc = "limits" -> LimitStation
    [] ppc = "input"  -> 7
    [] ppc = "poll" \/ ppc = "alive" -> WaitStation
    [] ppc = "stdout" -> 14 + ReadStation("stdout")
    [] ppc = "stderr" -> 17 + ReadStation("stderr")
    [] OTHER          -> 20

LEMMA StationRange ==
  /\ Station \in 1 .. 20 /\ LimitStation \in 4 .. 6 /\ WaitStation \in 8 .. 13
  /\ \A s : ReadStation(s) \in 0 .. 2
<1>1. /\ LimitStation \in 4 .. 6 /\ WaitStation \in 8 .. 13
      /\ \A s : ReadStation(s) \in 0 .. 2
  BY DEF LimitStation, WaitStation, ReadStation
<1> QED
  BY <1>1 DEF Station

\* What the steps of the command and of the environment leave to the executor:
\* the time limit passes once, the process ends once, and a kill that is under
\* way reaches it.
LEMMA OthersSteps ==
  ASSUME TypeOK, [Next]_vars, ~ParentStep, leader # "none"
  PROVE  /\ UNCHANGED <<call, ppc, result, received, jobLimits>>
         /\ expired => expired'
         /\ ~LeaderLives => ~LeaderLives'
         /\ LeaderLives' /\ Leader \in doomed => Leader \in doomed'
         /\ LeaderLives' /\ Leader \notin tied => Leader \notin tied'
<1> USE ProcsAssumption
    DEF vars, parentVars, commandVars, kernelVars, TypeOK, ProcessTypes, LeaderLives,
        ControlTypes, Collected
<1>12. CASE Launch
  BY <1>12 DEF Launch, LeaderEnds, Gone
<1>13. CASE CommandEnds
  BY <1>13 DEF CommandEnds, LeaderEnds, Gone
<1>14. CASE \E k \in Kids : KidEnds(k)
  BY <1>14 DEF KidEnds, Gone
<1>15. CASE \E q \in Procs : Fork(q)
  BY <1>15 DEF Fork
<1>16. CASE \E q \in Procs : LeaveGroup(q)
  BY <1>16 DEF LeaveGroup
<1>17. CASE \E q \in Procs : LetGo(q)
  BY <1>17 DEF LetGo
<1>18. CASE \E q \in Procs : ReadStdin(q)
  BY <1>18 DEF ReadStdin
<1>19. CASE \E q \in Procs, s \in Streams : Write(q, s)
  BY <1>19 DEF Write
<1>20. CASE \E q \in Procs : DeliverKill(q)
  BY <1>20 DEF DeliverKill, KidEnds, LeaderEnds, Gone
<1>21. CASE ForeignReap
  BY <1>21 DEF ForeignReap
<1>22. CASE Expire
  BY <1>22 DEF Expire
<1>23. CASE Over
  BY <1>23 DEF Over
<1>24. CASE UNCHANGED vars
  BY <1>24
<1> QED
  BY <1>12, <1>13, <1>14, <1>15, <1>16, <1>17, <1>18, <1>19, <1>20, <1>21, <1>22,
     <1>23, <1>24
  DEF Next, CommandStep, EnvironmentStep

\* The stations where the executor waits for nobody.
OwnStations == {1, 2, 3, 4, 5, 6, 9, 10, 12, 13, 15, 16, 18, 19}

\* A step of the executor takes it on from there, and never back.
LEMMA ParentAdvances ==
  ASSUME Inv, ParentStep
  PROVE  /\ Station' >= Station
         /\ Station \in OwnStations => Station' > Station
<1> USE DEF commandVars, kernelVars
<1>0. /\ Station \in 1 .. 20 /\ Station' \in 1 .. 20
      /\ LimitStation \in 4 .. 6 /\ LimitStation' \in 4 .. 6
      /\ WaitStation \in 8 .. 13 /\ WaitStation' \in 8 .. 13
      /\ \A s : ReadStation(s) \in 0 .. 2 /\ ReadStation(s)' \in 0 .. 2
  BY StationRange DEF Station, LimitStation, WaitStation, ReadStation
<1>1. CASE SetupProxy
  <2>1. Station = 1 /\ ppc' \in {"spawn", "returned"}
    BY <1>1 DEF SetupProxy, Fail, Station
  <2> QED
    BY <2>1 DEF Station
<1>2. CASE Spawn
  <2>1. Station = 2 /\ ppc' \in {"input", "job", "returned"}
    BY <1>2 DEF Spawn, Fail, Station
  <2> QED
    BY <2>1 DEF Station
<1>3. CASE CreateJob
  <2>1. Station = 3 /\ ppc' \in {"limits", "returned"}
    BY <1>3 DEF CreateJob, Fail, Station
  <2> QED
    BY <1>0, <2>1 DEF Station
<1>4. CASE SetJobLimit
  <2>1. Station = LimitStation /\ LimitStation # 6
    BY <1>4 DEF SetJobLimit, Station, LimitStation
  <2>2. CASE ppc' = "returned"
    BY <1>0, <2>1, <2>2 DEF Station
  <2>3. CASE ppc' # "returned"
    <3>1. PICK l \in call.limits \ jobLimits :
             /\ l = "cpu" => "memory" \notin call.limits \ jobLimits
             /\ jobLimits' = jobLimits \cup {l}
      BY <1>4, <2>3 DEF SetJobLimit, Fail
    <3>2. call' = call /\ ppc' = "limits"
      BY <1>4, <2>3 DEF SetJobLimit, Fail
    <3>3. call.limits \subseteq {"memory", "cpu"} /\ jobLimits \subseteq call.limits
      BY CallsAssumption DEF Inv, TypeOK, CountTypes, ProcessTypes, CallType, JobLimits
    <3>4. Station' = LimitStation'
      BY <3>2 DEF Station, LimitStation
    <3>5. LimitStation' > LimitStation
      <4>1. CASE l = "memory"
        BY <3>1, <3>2, <3>3, <4>1 DEF LimitStation
      <4>2. CASE l = "cpu"
        <5>1. jobLimits' = call'.limits
          BY <3>1, <3>2, <3>3, <4>2
        <5> QED
          BY <3>1, <3>2, <4>2, <5>1, <2>1, <1>0 DEF LimitStation
      <4> QED
        BY <3>1, <3>3, <4>1, <4>2
    <3> QED
      BY <1>0, <2>1, <3>4, <3>5
  <2> QED
    BY <2>2, <2>3
<1>5. CASE AssignJob
  <2>1. Station \in 4 .. 6 /\ ppc' \in {"input", "returned"}
    BY <1>0, <1>5 DEF AssignJob, AssignError, Fail, Station
  <2> QED
    BY <2>1 DEF Station
<1>6. CASE PushInput
  BY <1>6 DEF PushInput, Station, OwnStations
<1>7. CASE EndInput
  <2>1. Station = 7 /\ ppc' = "poll"
    BY <1>7 DEF EndInput, Station
  <2> QED
    BY <1>0, <2>1 DEF Station, OwnStations
<1>8. CASE Poll
  <2>0. Station = WaitStation
    BY <1>8 DEF Poll, Station
  <2>1. CASE ppc' = "returned"
    BY <1>0, <2>0, <2>1 DEF Station
  <2>2. CASE ppc' = "stdout"
    BY <1>0, <2>0, <2>2 DEF Station
  <2>3. CASE ppc' = "alive"
    <3>1. /\ LeaderLives /\ ppc = "poll" /\ UNCHANGED <<call, leader, result, doomed, expired>>
      BY <1>8, <2>3 DEF Poll, Fail
    <3>2. Station' = WaitStation'
      BY <2>3 DEF Station, WaitStation
    <3> QED
      BY <2>0, <2>3, <3>1, <3>2 DEF WaitStation, LeaderLives, Killed, Mac, OwnStations
  <2> QED
    BY <1>8, <2>1, <2>2, <2>3 DEF Poll, Fail
<1>9. CASE CheckTimeout
  <2>1. /\ ppc = "alive" /\ ppc' = "poll"
        /\ UNCHANGED <<call, leader, expired>>
    BY <1>9 DEF CheckTimeout, AfterCheck
  <2>2. Station = WaitStation /\ Station' = WaitStation'
    BY <2>1 DEF Station, WaitStation
  <2>3. CASE LeaderLives /\ expired /\ ~Killed
    <3>1. Killed'
      BY <1>9, <2>3
      DEF CheckTimeout, Killed, Mac, KillTargets, Living, Inv, TypeOK, CountTypes,
          ExecutionResults
    <3> QED
      BY <2>1, <2>2, <2>3, <3>1 DEF WaitStation, LeaderLives, OwnStations
  <2>4. CASE LeaderLives /\ Killed
    <3>1. Killed'
      BY <1>9, <2>4
      DEF CheckTimeout, Killed, Mac, KillTargets, Living, Inv, TypeOK, CountTypes,
          ExecutionResults
    <3> QED
      BY <2>1, <2>2, <2>4, <3>1 DEF WaitStation, LeaderLives, OwnStations
  <2>5. CASE LeaderLives /\ ~expired /\ ~Killed
    <3>1. ~Killed'
      BY <1>9, <2>5 DEF CheckTimeout, Killed, Mac
    <3> QED
      BY <2>1, <2>2, <2>5, <3>1 DEF WaitStation, LeaderLives, OwnStations
  <2>6. CASE ~LeaderLives
    BY <2>1, <2>2, <2>6 DEF WaitStation, LeaderLives, OwnStations
  <2> QED
    BY <2>3, <2>4, <2>5, <2>6
<1>10. ASSUME NEW s \in Streams, ReadMore(s)
       PROVE  Station' >= Station /\ (Station \in OwnStations => Station' > Station)
  <2>1. /\ ppc = s /\ ppc' = s /\ received[s] < produced[s] /\ received'[s] = produced[s]
        /\ UNCHANGED <<produced, kids, leader, held>>
    BY <1>10 DEF ReadMore, Inv, TypeOK, CountTypes
  <2>2. Held(s)' <=> Held(s)
    BY <2>1 DEF Held, Living, LeaderLives
  <2>3. produced[s] \in Nat
    BY BoundsAssumption DEF Inv, TypeOK, CountTypes
  <2>4. ReadStation(s) \in 0 .. 1 /\ ReadStation(s)' = (IF Held(s) THEN 0 ELSE 2)
        /\ (ReadStation(s) = 0 <=> Held(s))
    BY <2>1, <2>2, <2>3 DEF ReadStation
  <2>5. CASE s = "stdout"
    <3>1. Station = 14 + ReadStation("stdout") /\ Station' = 14 + ReadStation("stdout")'
      BY <2>1, <2>5 DEF Station, ReadStation
    <3> QED
      BY <2>4, <2>5, <3>1 DEF OwnStations
  <2>6. CASE s = "stderr"
    <3>1. Station = 17 + ReadStation("stderr") /\ Station' = 17 + ReadStation("stderr")'
      BY <2>1, <2>6 DEF Station, ReadStation
    <3> QED
      BY <2>4, <2>6, <3>1 DEF OwnStations
  <2> QED
    BY <2>5, <2>6 DEF Streams
<1>11. ASSUME NEW s \in Streams, EndRead(s)
       PROVE  Station' >= Station /\ (Station \in OwnStations => Station' > Station)
  <2>1. CASE s = "stdout"
    <3>1. Station = 14 + ReadStation("stdout") /\ ppc' = "stderr"
      BY <1>11, <2>1 DEF EndRead, Station
    <3>2. Station' = 17 + ReadStation("stderr")'
      BY <3>1 DEF Station, ReadStation
    <3> QED
      BY <1>0, <3>1, <3>2
  <2>2. CASE s = "stderr"
    <3>1. Station = 17 + ReadStation("stderr") /\ ppc' = "returned"
      BY <1>11, <2>2 DEF EndRead, Station
    <3> QED
      BY <1>0, <3>1 DEF Station
  <2> QED
    BY <2>1, <2>2 DEF Streams
<1> QED
  BY <1>1, <1>2, <1>3, <1>4, <1>5, <1>6, <1>7, <1>8, <1>9, <1>10, <1>11
  DEF ParentStep

\* No step takes a call back.
LEMMA NeverBack ==
  ASSUME Inv, [Next]_vars
  PROVE  Station' >= Station
<1>1. CASE ParentStep
  BY <1>1, ParentAdvances
<1>2. CASE ~ParentStep /\ leader = "none"
  <2>1. UNCHANGED <<call, ppc, result, received, jobLimits>>
    BY <1>2
    DEF vars, parentVars, commandVars, kernelVars, Next, CommandStep, EnvironmentStep,
        Launch, CommandEnds, KidEnds, Fork, LeaveGroup, LetGo, ReadStdin, Write, DeliverKill,
        ForeignReap, Expire, Over, LeaderEnds, Gone
  <2>2. ppc \in {"proxy", "spawn", "returned"}
    BY <1>2, StationRange
    DEF Inv, LeaderKnown, Started, TypeOK, ControlTypes, ParentStates, Streams
  <2> QED
    BY <2>1, <2>2 DEF Station
<1>3. CASE ~ParentStep /\ leader # "none"
  <2>1. /\ UNCHANGED <<call, ppc, result, received, jobLimits>>
        /\ expired => expired'
        /\ ~LeaderLives => ~LeaderLives'
        /\ LeaderLives' /\ Leader \in doomed => Leader \in doomed'
    BY <1>3, OthersSteps DEF Inv
  <2>2. CASE ppc \in {"poll", "alive"}
    <3>1. Station = WaitStation /\ Station' = WaitStation'
      BY <2>1, <2>2 DEF Station, WaitStation
    <3>2. Killed /\ LeaderLives' => Killed'
      BY <2>1 DEF Killed, Mac
    <3> QED
      BY <2>1, <2>2, <3>1, <3>2 DEF WaitStation
  <2>3. ASSUME NEW s \in Streams, ppc = s
        PROVE  Station' >= Station
    <3>1. ~Held(s) => ~Held(s)' /\ produced'[s] = produced[s]
      BY <1>3, Released DEF Pipes
    <3>2. ReadStation(s)' >= ReadStation(s)
      BY <2>1, <3>1 DEF ReadStation
    <3>3. CASE s = "stdout"
      <4>1. Station = 14 + ReadStation(s) /\ Station' = 14 + ReadStation(s)'
        BY <2>1, <2>3, <3>3 DEF Station, ReadStation
      <4> QED
        BY <3>2, <4>1, StationRange DEF ReadStation
    <3>4. CASE s = "stderr"
      <4>1. Station = 17 + ReadStation(s) /\ Station' = 17 + ReadStation(s)'
        BY <2>1, <2>3, <3>4 DEF Station, ReadStation
      <4> QED
        BY <3>2, <4>1, StationRange DEF ReadStation
    <3> QED
      BY <3>3, <3>4 DEF Streams
  <2>4. CASE ppc \notin {"poll", "alive"} \cup Streams
    <3>1. Station' = Station
      BY <2>1, <2>4 DEF Station, LimitStation, Streams
    <3> QED
      BY <3>1, StationRange
  <2> QED
    BY <2>2, <2>3, <2>4
<1> QED
  BY <1>1, <1>2, <1>3

\* A process that has left its group while the kill of the group is under way
\* is not reached any more; otherwise the kill arrives.
Missed == Mac /\ Leader \notin tied

LEMMA DoomedOrMissed ==
  ASSUME Inv, Station = 11
  PROVE  LeaderLives /\ ppc \in {"poll", "alive"} /\ (Leader \in doomed \/ Missed)
<1>1. ppc \in {"poll", "alive"} /\ LeaderLives /\ Killed
  BY StationRange DEF Station, WaitStation
<1> QED
  BY <1>1 DEF Killed, Missed, Inv, GroupKillReachesAll

\* The process never comes back to its group.
LEMMA MissedKept ==
  ASSUME Inv, Station = 11, Missed, [Next]_vars, Station' = 11
  PROVE  Missed'
<1>1. LeaderLives /\ ppc \in {"poll", "alive"}
  BY DoomedOrMissed
<1>2. LeaderLives'
  BY DEF Station, LimitStation, WaitStation, ReadStation
<1>3. CASE ParentStep
  <2>1. Poll \/ CheckTimeout
    BY <1>1, <1>3
    DEF Streams, ParentStep, SetupProxy, Spawn, CreateJob, SetJobLimit, AssignJob, PushInput,
        EndInput, ReadMore, EndRead
  <2>2. tied' = tied /\ call' = call
    BY <2>1 DEF Poll, CheckTimeout
  <2> QED
    BY <2>2 DEF Missed, Mac
<1>4. CASE ~ParentStep
  BY <1>1, <1>2, <1>4, OthersSteps DEF Missed, Mac, Inv, LeaderLives
<1> QED
  BY <1>3, <1>4

\* The call is at station k, or past it.
At(k)   == Station = k
Past(k) == Station > k

MovesOn(k) == At(k) ~> Past(k)

\* The thread, the time limit and the kills of a call are scheduled.
Scheduled == Spec /\ Fairness /\ []ReadyStepsEnabled

LEMMA StaysOrMoves ==
  ASSUME NEW k \in 1 .. 20
  PROVE  Inv /\ At(k) /\ [Next]_vars => At(k)' \/ Past(k)'
<1> SUFFICES ASSUME Inv, At(k), [Next]_vars
             PROVE  Station' = k \/ Station' > k
  BY DEF At, Past
<1>1. Station' >= Station
  BY NeverBack
<1>2. Station' \in 1 .. 20
  BY StationRange DEF Station, LimitStation, WaitStation, ReadStation
<1> QED
  BY <1>1, <1>2 DEF At

\* It moves on from the stations where it waits for nobody ..
LEMMA MovesOnAlone ==
  ASSUME NEW k \in OwnStations
  PROVE  Scheduled => MovesOn(k)
<1>1. Inv /\ At(k) /\ [Next]_vars => At(k)' \/ Past(k)'
  BY StaysOrMoves DEF OwnStations
<1>2. Inv /\ At(k) /\ <<ParentStep>>_vars => Past(k)'
  BY ParentAdvances DEF At, Past
<1>3. Inv /\ At(k) /\ ReadyStepsEnabled => ENABLED <<ParentStep>>_vars
  <2> SUFFICES ASSUME Inv, At(k) PROVE ParentReady
    BY DEF ReadyStepsEnabled
  <2>1. ppc \notin {"input", "returned"}
    BY DEF At, OwnStations, Station
  <2>2. CASE ppc = "poll"
    BY <2>2 DEF ParentReady, Inv, LeaderKnown, Started
  <2>3. ASSUME NEW s \in Streams, ppc = s
        PROVE  received[s] < produced[s] \/ AtEnd(s)
    <3>1. ReadStation(s) # 0
      BY <2>3, StationRange DEF At, OwnStations, Station, Streams
    <3>2. /\ received[s] \in Nat /\ produced[s] \in Nat
          /\ produced[s] - received[s] \in 0 .. PipeCapacity
      BY BoundsAssumption DEF Inv, TypeOK, CountTypes
    <3> QED
      BY <3>1, <3>2 DEF ReadStation, AtEnd
  <2> QED
    BY <2>1, <2>2, <2>3 DEF ParentReady, Inv, TypeOK, ControlTypes, ParentStates, Streams
<1>4. Fairness => WF_vars(ParentStep)
  BY PTL DEF Fairness
<1> QED
  BY <1>1, <1>2, <1>3, <1>4, Invariance, PTL DEF Scheduled, MovesOn, Spec

\* .. from the input when it is written or has no reader any more ..
LEMMA MovesOnOrWrites == Scheduled => (At(7) ~> (Past(7) \/ []Writing))
<1>1. Inv /\ At(7) /\ [Next]_vars => At(7)' \/ Past(7)'
  BY StaysOrMoves
<1>2. At(7) => ppc = "input"
  BY StationRange DEF At, Station, LimitStation, WaitStation, ReadStation
<1>3. At(7)' => ppc' = "input"
  BY DEF At, Station, LimitStation, WaitStation, ReadStation
<1>4. Inv /\ At(7) /\ ~Writing /\ [Next]_vars => ~Writing' \/ Past(7)'
  <2> SUFFICES ASSUME Inv, At(7), ~Writing, [Next]_vars, Writing'
               PROVE  Past(7)'
    OBVIOUS
  <2>1. CASE ParentStep
    <3>1. EndInput
      BY <1>2, <2>1
      DEF Writing, ParentStep, SetupProxy, Spawn, CreateJob, SetJobLimit, AssignJob, PushInput,
          Poll, CheckTimeout, ReadMore, EndRead, Streams
    <3> QED
      BY <3>1 DEF EndInput, Writing
  <2>2. CASE ~ParentStep
    <3>1. leader # "none"
      BY <1>2 DEF Inv, LeaderKnown, Started
    <3>2. ~Held("stdin") => ~Held("stdin")'
      BY <3>1, Released DEF Pipes
    <3>3. call' = call
      BY <2>2, <3>1, OthersSteps DEF Inv
    <3>4. stdinWritten' = stdinWritten
      BY <2>2
      DEF vars, parentVars, Next, CommandStep, EnvironmentStep, Launch, CommandEnds, KidEnds,
          Fork, LeaveGroup, LetGo, ReadStdin, Write, DeliverKill, ForeignReap, Expire, Over,
          LeaderEnds, Gone
    <3> QED
      BY <1>2, <3>2, <3>3, <3>4 DEF Writing
  <2> QED
    BY <2>1, <2>2
<1>5. Inv /\ At(7) /\ ~Writing /\ <<ParentStep>>_vars => Past(7)'
  <2> SUFFICES ASSUME Inv, At(7), ~Writing, ParentStep
               PROVE  Past(7)'
    OBVIOUS
  <2>1. At(7)' \/ Past(7)'
    BY <1>1 DEF Next
  <2>2. EndInput
    BY <1>2
    DEF Writing, ParentStep, SetupProxy, Spawn, CreateJob, SetJobLimit, AssignJob, PushInput,
        Poll, CheckTimeout, ReadMore, EndRead, Streams
  <2> QED
    BY <1>3, <2>1, <2>2 DEF EndInput
<1>6. At(7) /\ ~Writing /\ ReadyStepsEnabled => ENABLED <<ParentStep>>_vars
  BY <1>2 DEF ReadyStepsEnabled, ParentReady
<1>7. Fairness => WF_vars(ParentStep)
  BY PTL DEF Fairness
<1> QED
  BY <1>1, <1>4, <1>5, <1>6, <1>7, Invariance, PTL DEF Scheduled, Spec

\* .. and a process that runs is at its time limit some day ..
LEMMA MovesOnInTime == Scheduled => MovesOn(8)
<1>1. Inv /\ At(8) /\ [Next]_vars => At(8)' \/ Past(8)'
  BY StaysOrMoves
<1>2. Inv /\ At(8) /\ <<Expire>>_vars => Past(8)'
  <2> SUFFICES ASSUME Inv, At(8), Expire
               PROVE  Past(8)'
    OBVIOUS
  <2>1. At(8)' \/ Past(8)'
    BY <1>1 DEF Next, EnvironmentStep
  <2>2. ~At(8)'
    BY DEF At, Expire, Station, LimitStation, WaitStation, ReadStation
  <2> QED
    BY <2>1, <2>2
<1>3. Inv /\ At(8) /\ ReadyStepsEnabled => ENABLED <<Expire>>_vars
  <2> SUFFICES ASSUME At(8) PROVE ppc # "returned" /\ ~expired
    BY DEF ReadyStepsEnabled
  <2> QED
    BY StationRange DEF At, Station, LimitStation, WaitStation, ReadStation
<1>4. Fairness => WF_vars(Expire)
  BY PTL DEF Fairness
<1> QED
  BY <1>1, <1>2, <1>3, <1>4, Invariance, PTL DEF Scheduled, MovesOn, Spec

\* .. and killed then, unless it has left its group.
LEMMA MovesOnOrMissed == Scheduled => (At(11) ~> (Past(11) \/ []Obstructed))
<1>1. Inv /\ At(11) /\ [Next]_vars => At(11)' \/ Past(11)'
  BY StaysOrMoves
<1>2. Inv /\ At(11) /\ Missed /\ [Next]_vars => Missed' \/ Past(11)'
  BY <1>1, MissedKept DEF At
<1>3. Inv /\ At(11) /\ Missed => Obstructed
  BY DoomedOrMissed DEF At, Missed, Obstructed
<1>4. Inv /\ At(11) /\ ~Missed => Leader \in doomed
  BY DoomedOrMissed DEF At
<1>5. Inv /\ At(11) /\ <<DeliverKill(Leader)>>_vars => Past(11)'
  <2> SUFFICES ASSUME Inv, At(11), DeliverKill(Leader)
               PROVE  Past(11)'
    OBVIOUS
  <2>1. At(11)' \/ Past(11)'
    BY <1>1 DEF Next, EnvironmentStep, Procs
  <2>2. ~LeaderLives'
    BY DEF DeliverKill, LeaderEnds, LeaderLives
  <2>3. ~At(11)'
    BY <2>2 DEF At, Station, LimitStation, WaitStation, ReadStation
  <2> QED
    BY <2>1, <2>3
<1>6. Leader \in doomed /\ ReadyStepsEnabled => ENABLED <<DeliverKill(Leader)>>_vars
  BY DEF ReadyStepsEnabled
<1>7. Fairness => KillsArrive
  BY PTL DEF Fairness
<1>8. KillsArrive => KillFairness(Leader)
  BY DEF KillsArrive, Procs
<1>9. KillFairness(Leader) => WF_vars(DeliverKill(Leader))
  BY PTL DEF KillFairness
<1> QED
  BY <1>1, <1>2, <1>3, <1>4, <1>5, <1>6, <1>7, <1>8, <1>9, Invariance, PTL
  DEF Scheduled, Spec

\* Before the end of a stream it waits as long as somebody holds the stream.
LEMMA MovesOnOrHeld ==
  Scheduled => /\ At(14) ~> (Past(14) \/ []Obstructed)
               /\ At(17) ~> (Past(17) \/ []Obstructed)
<1>1. /\ Inv /\ At(14) /\ [Next]_vars => At(14)' \/ Past(14)'
      /\ Inv /\ At(17) /\ [Next]_vars => At(17)' \/ Past(17)'
  BY StaysOrMoves
<1>2. At(14) \/ At(17) => Obstructed
  <2>1. At(14) => ppc = "stdout" /\ Held("stdout")
    BY StationRange DEF At, Station, LimitStation, WaitStation, ReadStation
  <2>2. At(17) => ppc = "stderr" /\ Held("stderr")
    BY StationRange DEF At, Station, LimitStation, WaitStation, ReadStation
  <2> QED
    BY <2>1, <2>2 DEF Obstructed, Streams
<1> QED
  BY <1>1, <1>2, Invariance, PTL DEF Scheduled, Spec

\* Every call returns or is held up for good, unless it never comes to the end of
\* its input (which a finite input with a reader has): whatever fails, however
\* many descendants there are, wherever the timeout comes, and whoever leaves the
\* group or collects the process.
THEOREM CallReturns ==
  FairSpec /\ []ReadyStepsEnabled => ReturnsOrObstructed \/ <>[]Writing
<1>1. FairSpec /\ []ReadyStepsEnabled => Scheduled
  BY PTL DEF FairSpec, Scheduled
<1>2. Scheduled =>
        /\ MovesOn(1) /\ MovesOn(2) /\ MovesOn(3) /\ MovesOn(4) /\ MovesOn(5)
        /\ MovesOn(6) /\ MovesOn(9) /\ MovesOn(10) /\ MovesOn(12) /\ MovesOn(13)
        /\ MovesOn(15) /\ MovesOn(16) /\ MovesOn(18) /\ MovesOn(19)
  BY MovesOnAlone DEF OwnStations
<1>5. At(1) \/ Past(1)
  BY StationRange DEF At, Past
<1>6. /\ Past(1) => At(2) \/ Past(2)
      /\ Past(2) => At(3) \/ Past(3)
      /\ Past(3) => At(4) \/ Past(4)
      /\ Past(4) => At(5) \/ Past(5)
      /\ Past(5) => At(6) \/ Past(6)
      /\ Past(6) => At(7) \/ Past(7)
      /\ Past(7) => At(8) \/ Past(8)
      /\ Past(8) => At(9) \/ Past(9)
      /\ Past(9) => At(10) \/ Past(10)
      /\ Past(10) => At(11) \/ Past(11)
      /\ Past(11) => At(12) \/ Past(12)
      /\ Past(12) => At(13) \/ Past(13)
      /\ Past(13) => At(14) \/ Past(14)
      /\ Past(14) => At(15) \/ Past(15)
      /\ Past(15) => At(16) \/ Past(16)
      /\ Past(16) => At(17) \/ Past(17)
      /\ Past(17) => At(18) \/ Past(18)
      /\ Past(18) => At(19) \/ Past(19)
  BY StationRange DEF At, Past
<1>7. Inv /\ Past(19) => ppc = "returned"
  <2> SUFFICES ASSUME Inv, Past(19) PROVE ppc = "returned"
    OBVIOUS
  <2> QED
    BY StationRange DEF Past, Station, Inv, TypeOK, ControlTypes, ParentStates
<1>8. Scheduled => (TRUE ~> Past(6))
  BY <1>2, <1>5, <1>6, PTL DEF MovesOn
<1>9. Scheduled => (Past(6) ~> (Past(7) \/ []Writing))
  BY <1>6, MovesOnOrWrites, PTL
<1>10. Scheduled => (Past(7) ~> (Past(13) \/ []Obstructed))
  BY <1>2, <1>6, MovesOnInTime, MovesOnOrMissed, PTL DEF MovesOn
<1>11. Scheduled => (Past(13) ~> (Past(19) \/ []Obstructed))
  BY <1>2, <1>6, MovesOnOrHeld, PTL DEF MovesOn
<1>12. Scheduled => []Inv
  BY Invariance, PTL DEF Scheduled
<1> QED
  BY <1>1, <1>7, <1>8, <1>9, <1>10, <1>11, <1>12, PTL DEF ReturnsOrObstructed

\* The caller gives no input.
Inputless == call.input = 0

\* Without input only an obstruction keeps execute from returning: a process that
\* has left its own group, or a descendant that keeps an output pipe open.
THEOREM InputlessCallReturns ==
  FairSpec /\ []ReadyStepsEnabled => (Inputless => ReturnsOrObstructed)
<1>1. Inv /\ Inputless /\ [Next]_vars => Inputless'
  <2>1. [Next]_vars => call' = call
    BY DEF vars, Next, ParentStep, CommandStep, EnvironmentStep, SetupProxy, Spawn, CreateJob,
           SetJobLimit, AssignJob, AssignError, PushInput, EndInput, Poll, CheckTimeout,
           ReadMore, EndRead, Launch, CommandEnds, KidEnds, Fork, LeaveGroup, LetGo, ReadStdin,
           Write, DeliverKill, ForeignReap, Expire, Over, LeaderEnds, Gone
  <2> QED
    BY <2>1 DEF Inputless
<1>2. Inv /\ Inputless => ~Writing
  BY DEF Inv, TypeOK, CountTypes, Inputless, Writing
<1> QED
  BY <1>1, <1>2, CallReturns, Invariance, PTL DEF FairSpec, Spec, ReturnsOrObstructed

=============================================================================
