---------------------------- MODULE SandboxProofs ----------------------------
(***************************************************************************)
(* Theorems about Sandbox, for any number of runs, root file systems and   *)
(* descriptors.  An operation of DescriptorTable or RootFilesystem is      *)
(* first shown to keep what it should; a step of Next is one such          *)
(* operation at most on either side.                                       *)
(***************************************************************************)
EXTENDS Sandbox, FiniteSetTheorems, TLAPS

Both == {"read", "write"}

\* The pipes of a run and their ends are among all.
LEMMA EndFacts ==
  ASSUME NEW r \in Runs
  PROVE  /\ PipesOf(r) \subseteq T!Pipes
         /\ ChildEnds(r) \subseteq PipesOf(r) \X Both
         /\ OutputEnds \subseteq PipesOf(r) \X Both
         /\ PipesOf(r) \X Both \subseteq T!Ends
  BY DEF PipesOf, ChildEnds, OutputEnds, T!Pipes, T!Ends, Both

-----------------------------------------------------------------------------
(* Steps of Next, seen from the file system *)

\* The child of r moves on, and nothing else happens.
Moves(r, from, to) ==
  /\ FS!Advance(r, from, to)
  /\ UNCHANGED <<paths, oldRoots, base, bound, hostRoot, raced, met, broken>>

\* A step of r's child on the file system.
FsMove(r) ==
  \/ rpc[r] = "clone" /\ FS!Go(r, "gate") /\ Moves(r, spc[r], "gate")
  \/ Moves(r, "zombie", "reaped")
  \/ call[r].rootfs # NoRoot /\ Moves(r, "gate", "bind")
  \/ call[r].rootfs = NoRoot /\ Moves(r, "gate", "run")
  \/ FS!BindRoot(r, call[r].rootfs)
  \/ \E p \in call[r].mounts : FS!BindMount(r, p)
  \/ FS!MakeOldRoot(r, call[r].mounts)
  \/ FS!Pivot(r) \/ FS!HideOldRoot(r) \/ FS!DetachOldRoot(r)
  \/ FS!RemoveOldRoot(r) \/ FS!LostOldRoot(r) \/ FS!Refused(r)
  \/ spc[r] \in FS!Living /\ FS!End(r) /\ UNCHANGED raced

\* One child moves, a path vanishes, or nothing happens to the file system.
LEMMA FsSteps ==
  ASSUME [Next]_vars
  PROVE  /\ call' = call
         /\ \/ UNCHANGED fsVars
            \/ \E r \in Runs : FsMove(r)
            \/ \E p \in Vanishing : FS!Vanish(p)
<1>1. CASE UNCHANGED vars
  BY <1>1 DEF vars
<1>2. ASSUME NEW r \in Runs, ThreadStep(r)
      PROVE  call' = call /\ (UNCHANGED fsVars \/ FsMove(r))
  <2>1. CASE Clone(r)
    BY <2>1 DEF Clone, FsMove, Moves, FS!Advance, fsVars, FS!Go
  <2>2. CASE Reap(r)
    BY <2>2 DEF Reap, FsMove, Moves, FS!Advance
  <2> QED
    BY <1>2, <2>1, <2>2
    DEF ThreadStep, Validate, Count, Stamp, OpenNext, CloseNext, Configure,
        WriteInput, SignalChild
<1>3. ASSUME NEW r \in Runs, ChildStep(r)
      PROVE  call' = call /\ FsMove(r)
  <2>1. CASE PassGate(r)
    BY <2>1 DEF PassGate, FsMove, Moves, FS!Advance
  <2>2. CASE SetUp(r) \/ Die(r)
    BY <2>2 DEF SetUp, Die, FsMove
  <2> QED
    BY <1>3, <2>1, <2>2 DEF ChildStep
<1> QED
  BY <1>1, <1>2, <1>3 DEF Next, Over, Vanish, vars

-----------------------------------------------------------------------------
(* The threads *)

\* What a thread has still to open or to close.
Agenda ==
  \A r \in Runs :
    /\ rpc[r] = "open"   => todo[r] \subseteq PipesOf(r)
    /\ rpc[r] = "close"  => todo[r] \subseteq ChildEnds(r)
    /\ rpc[r] = "finish" => todo[r] \subseteq OutputEnds

\* A child exists once its run has cloned it.
NotCloned  == {"validate", "count", "stamp", "open", "clone"}
ClonedOnce == \A r \in Runs : rpc[r] \in NotCloned => spc[r] = "none"

\* Identifiers that were counted are below the counter, and differ.
Counted(r) == rpc[r] \notin {"validate", "count", "failed"}

CountsDiffer ==
  /\ \A r \in Runs : Counted(r) => ids[r].count < counter
  /\ \A r, q \in Runs : r # q /\ Counted(r) /\ Counted(q) => ids[r].count # ids[q].count

RunInv ==
  /\ RunTypes /\ spc \in [Runs -> FS!Living \cup {"none", "zombie", "reaped"}]
  /\ Agenda
  /\ ClonedOnce
  /\ CountsDiffer

\* The threads start with nothing done.
LEMMA RunInit == Init => RunInv
  BY SandboxAssumption
  DEF Init, RunInv, RunTypes, Agenda, ClonedOnce, NotCloned, Counted, CountsDiffer,
      FS!FsInit, CallType

\* Every step keeps the agenda of each thread and the counts apart.
LEMMA RunStep == RunInv /\ [Next]_vars => RunTypes' /\ Agenda' /\ ClonedOnce' /\ CountsDiffer'
<1> SUFFICES ASSUME RunInv, [Next]_vars
             PROVE  RunTypes' /\ Agenda' /\ ClonedOnce' /\ CountsDiffer'
  OBVIOUS
<1> DEFINE Goal == RunTypes' /\ Agenda' /\ ClonedOnce' /\ CountsDiffer'
<1> USE DEF RunInv, RunTypes, NotCloned
<1>1. ASSUME UNCHANGED <<call, rpc, todo, idVars>>,
             \/ spc' = spc
             \/ \E r \in Runs : spc[r] # "none" /\ \A q \in Runs \ {r} : spc'[q] = spc[q]
      PROVE  Goal
  <2>1. RunTypes' /\ CountsDiffer'
    BY <1>1 DEF idVars, CountsDiffer, Counted
  <2>2. Agenda'
    BY <1>1 DEF Agenda, PipesOf, ChildEnds, OutputEnds
  <2>3. ClonedOnce'
    BY <1>1 DEF ClonedOnce
  <2> QED
    BY <2>1, <2>2, <2>3
<1>2. ASSUME NEW r \in Runs, ThreadStep(r) PROVE Goal
  <2> USE DEF Goto, Enter, Fail, idVars, fsVars
  <2>1. CASE Count(r)
    <3>1. RunTypes'
      BY <2>1 DEF Count, FetchAdd
    <3>2. Agenda' /\ ClonedOnce'
      BY <2>1 DEF Count, Agenda, ClonedOnce, PipesOf, ChildEnds, OutputEnds
    <3>3. CountsDiffer'
      BY <2>1 DEF Count, FetchAdd, CountsDiffer, Counted
    <3> QED
      BY <3>1, <3>2, <3>3
  <2>2. CASE Stamp(r)
    <3>1. RunTypes'
      BY <2>2, EndFacts DEF Stamp
    <3>2. Agenda' /\ ClonedOnce'
      BY <2>2 DEF Stamp, Agenda, ClonedOnce, PipesOf, ChildEnds, OutputEnds
    <3>3. CountsDiffer'
      BY <2>2 DEF Stamp, CountsDiffer, Counted
    <3> QED
      BY <3>1, <3>2, <3>3
  <2> DEFINE Orderly ==
        /\ rpc'[r] \in NotCloned => rpc[r] \in NotCloned /\ spc' = spc
        /\ Counted(r)' => Counted(r)
        /\ \A q \in Runs \ {r} : rpc'[q] = rpc[q] /\ spc'[q] = spc[q]
  <2>3. ASSUME RunTypes', Agenda', Orderly, UNCHANGED idVars PROVE Goal
    <3>1. ClonedOnce'
      BY <2>3 DEF ClonedOnce
    <3>2. \A q \in Runs : Counted(q)' => Counted(q)
      BY <2>3 DEF Counted
    <3>3. ids' = ids /\ counter' = counter
      BY <2>3
    <3>4. CountsDiffer'
      BY <3>2, <3>3 DEF CountsDiffer
    <3> QED
      BY <2>3, <3>1, <3>4
  <2>4. CASE Validate(r)
    <3> USE <2>4, EndFacts DEF Validate
    <3>1. RunTypes'
      OBVIOUS
    <3>2. Agenda'
      BY DEF Agenda, PipesOf, ChildEnds, OutputEnds
    <3>3. Orderly
      BY DEF Counted
    <3> QED
      BY <2>3, <3>1, <3>2, <3>3
  <2>5. CASE OpenNext(r)
    <3> USE <2>5, EndFacts DEF OpenNext
    <3>1. RunTypes'
      OBVIOUS
    <3>2. Agenda'
      BY DEF Agenda, PipesOf, ChildEnds, OutputEnds
    <3>3. Orderly
      BY DEF Counted
    <3> QED
      BY <2>3, <3>1, <3>2, <3>3
  <2>6. CASE Clone(r)
    <3> USE <2>6, EndFacts DEF Clone, FS!Go
    <3>1. RunTypes'
      OBVIOUS
    <3>2. Agenda'
      BY DEF Agenda, PipesOf, ChildEnds, OutputEnds
    <3>3. Orderly
      BY DEF Counted
    <3> QED
      BY <2>3, <3>1, <3>2, <3>3
  <2>7. CASE CloseNext(r)
    <3> USE <2>7, EndFacts DEF CloseNext, Closed, AfterClosing
    <3>1. RunTypes'
      OBVIOUS
    <3>2. Agenda'
      BY DEF Agenda, PipesOf, ChildEnds, OutputEnds
    <3>3. Orderly
      BY DEF Counted
    <3> QED
      BY <2>3, <3>1, <3>2, <3>3
  <2>8. CASE Configure(r)
    <3> USE <2>8, EndFacts DEF Configure
    <3>1. RunTypes'
      OBVIOUS
    <3>2. Agenda'
      BY DEF Agenda, PipesOf, ChildEnds, OutputEnds
    <3>3. Orderly
      BY DEF Counted
    <3> QED
      BY <2>3, <3>1, <3>2, <3>3
  <2>9. CASE WriteInput(r)
    <3> USE <2>9, EndFacts DEF WriteInput, CloseThen
    <3>1. RunTypes'
      OBVIOUS
    <3>2. Agenda'
      BY DEF Agenda, PipesOf, ChildEnds, OutputEnds
    <3>3. Orderly
      BY DEF Counted
    <3> QED
      BY <2>3, <3>1, <3>2, <3>3
  <2>10. CASE SignalChild(r)
    <3> USE <2>10, EndFacts DEF SignalChild, CloseThen
    <3>1. RunTypes'
      OBVIOUS
    <3>2. Agenda'
      BY DEF Agenda, PipesOf, ChildEnds, OutputEnds
    <3>3. Orderly
      BY DEF Counted
    <3> QED
      BY <2>3, <3>1, <3>2, <3>3
  <2>11. CASE Reap(r)
    <3> USE <2>11, EndFacts DEF Reap, FS!Go
    <3>1. RunTypes'
      OBVIOUS
    <3>2. Agenda'
      BY DEF Agenda, PipesOf, ChildEnds, OutputEnds
    <3>3. Orderly
      BY DEF Counted
    <3> QED
      BY <2>3, <3>1, <3>2, <3>3
  <2> QED
    BY <1>2, <2>1, <2>2, <2>4, <2>5, <2>6, <2>7, <2>8, <2>9, <2>10, <2>11 DEF ThreadStep
<1>3. ASSUME NEW r \in Runs, ChildStep(r) PROVE Goal
  <2>1. UNCHANGED <<call, rpc, todo, idVars>>
    BY <1>3 DEF ChildStep, PassGate, SetUp, Die
  <2>2. spc[r] # "none" /\ \A q \in Runs \ {r} : spc'[q] = spc[q]
    BY <1>3
    DEF ChildStep, PassGate, SetUp, Die, FS!BindRoot, FS!BindMount, FS!MakeOldRoot,
        FS!Pivot, FS!HideOldRoot, FS!DetachOldRoot, FS!RemoveOldRoot, FS!LostOldRoot,
        FS!Refused, FS!SetupError, FS!End, FS!Advance, FS!Go, FS!Living, FS!SetupSteps,
        FS!Window, FS!CreateDirAll
  <2> QED
    BY <1>1, <2>1, <2>2
<1> QED
  BY <1>1, <1>2, <1>3 DEF Next, Over, Vanish, FS!Vanish, vars, fsVars

-----------------------------------------------------------------------------
(* The file system *)

\* The sandboxes that threads build; nothing changes them.
CallTypes == call \in [Runs -> CallType]

\* What a child has done where it is.
Bound(r)  == base[r] = call[r].rootfs
Mounted(r) == Bound(r) /\ bound[r] = call[r].mounts

Progress(r) ==
  /\ spc[r] \in FS!SetupSteps => call[r].rootfs \in Roots
  /\ spc[r] = "mounts" => Bound(r)
  /\ spc[r] \in FS!Window => Mounted(r)
  /\ spc[r] = "remove" => hostRoot[r] = "nowhere"
  /\ spc[r] = "run" /\ call[r].rootfs # NoRoot => Mounted(r) /\ hostRoot[r] = "nowhere"

\* Every old_root has been left by a child, or a child is using it.
OldRootsAccounted ==
  \A root \in oldRoots :
    root \in broken \/ \E r \in Runs : spc[r] \in FS!Window /\ base[r] = root

\* Children with the same old_root know of each other, and only they lose it.
Together ==
  /\ \A r, q \in Runs :
       r # q /\ {spc[r], spc[q]} \subseteq FS!Window /\ base[r] = base[q] => r \in met
  /\ \A r \in Runs : spc[r] \in FS!Window /\ base[r] \notin oldRoots => r \in met
  /\ \A r \in Runs : spc[r] \in {"hide", "detach"} /\ hostRoot[r] # "/old_root" => r \in met
  /\ raced \subseteq met

FsInv ==
  /\ FS!FsTypes /\ CallTypes /\ ClonedOnce
  /\ \A r \in Runs : Progress(r)
  /\ OldRootsAccounted
  /\ Together

\* What a sandbox may be built with.
LEMMA CallFacts ==
  ASSUME CallTypes, NEW r \in Runs
  PROVE  call[r].rootfs \in Roots \cup {NoRoot} /\ call[r].mounts \in SUBSET Sources
  BY DEF CallTypes, CallType

\* No child has done anything at first.
LEMMA FsInit == Init => FsInv
  BY SandboxAssumption
  DEF Init, FsInv, FS!FsInit, FS!FsTypes, CallTypes, ClonedOnce, Progress,
      OldRootsAccounted, Together, FS!SetupSteps, FS!Window, FS!Living, FS!Paths

\* The child that ends, orderly or not.
LEMMA Ending ==
  ASSUME FsInv, NEW r \in Runs, FS!End(r),
         raced' = raced \/ (raced' = raced \cup {r} /\ r \in met),
         call' = call
  PROVE  /\ FS!FsTypes'
         /\ \A q \in Runs : Progress(q)'
         /\ OldRootsAccounted' /\ Together'
<1> USE DEF FsInv, FS!FsTypes, FS!End, FS!Go, FS!Living, FS!SetupSteps, FS!Window
<1>1. FS!FsTypes'
  BY DEF FS!Paths
<1>2. ASSUME NEW q \in Runs PROVE Progress(q)'
  BY DEF Progress, Bound, Mounted
<1>3. OldRootsAccounted'
  BY DEF OldRootsAccounted
<1>4. Together'
  BY DEF Together
<1> QED
  BY <1>1, <1>2, <1>3, <1>4

\* A step of one child keeps what is known of all.
LEMMA FsMoveStep ==
  ASSUME FsInv, NEW r \in Runs, FsMove(r), call' = call
  PROVE  /\ FS!FsTypes'
         /\ \A q \in Runs : Progress(q)'
         /\ OldRootsAccounted' /\ Together'
<1> DEFINE Goal ==
      FS!FsTypes' /\ (\A q \in Runs : Progress(q)') /\ OldRootsAccounted' /\ Together'
<1> USE DEF FsInv, FS!FsTypes, FS!Go, FS!Advance, FS!Living, FS!SetupSteps,
            FS!Window, FS!Paths
<1> SUFFICES Goal
  OBVIOUS
<1>1. ASSUME NEW to \in {"gate", "bind", "reaped", "run"}, Moves(r, spc[r], to),
             spc[r] \notin FS!SetupSteps,
             to \in {"bind", "run"} => spc[r] = "gate",
             to = "bind" => call[r].rootfs \in Roots,
             to = "run" => call[r].rootfs = NoRoot
      PROVE  Goal
  <2> USE <1>1 DEF Moves
  <2>1. FS!FsTypes'
    OBVIOUS
  <2>2. ASSUME NEW q \in Runs PROVE Progress(q)'
    BY DEF Progress, Bound, Mounted
  <2>3. OldRootsAccounted'
    BY DEF OldRootsAccounted
  <2>4. Together'
    BY DEF Together
  <2> QED
    BY <2>1, <2>2, <2>3, <2>4
<1>2. CASE FS!BindRoot(r, call[r].rootfs)
  <2> USE <1>2, CallFacts DEF FS!BindRoot
  <2>1. FS!FsTypes'
    OBVIOUS
  <2>2. ASSUME NEW q \in Runs PROVE Progress(q)'
    BY DEF Progress, Bound, Mounted
  <2>3. OldRootsAccounted'
    BY DEF OldRootsAccounted
  <2>4. Together'
    BY DEF Together
  <2> QED
    BY <2>1, <2>2, <2>3, <2>4
<1>3. ASSUME NEW p \in call[r].mounts, FS!BindMount(r, p) PROVE Goal
  <2> USE <1>3, CallFacts DEF FS!BindMount
  <2>1. FS!FsTypes'
    OBVIOUS
  <2>2. ASSUME NEW q \in Runs PROVE Progress(q)'
    BY DEF Progress, Bound, Mounted
  <2>3. OldRootsAccounted' /\ Together'
    BY DEF OldRootsAccounted, Together
  <2> QED
    BY <2>1, <2>2, <2>3
<1>4. CASE FS!MakeOldRoot(r, call[r].mounts)
  <2>0. base[r] \in Roots /\ base[r] = call[r].rootfs
    BY <1>4 DEF FS!MakeOldRoot, Progress, Bound
  <2>1. /\ spc[r] = "mounts" /\ bound[r] = call[r].mounts
        /\ spc' = [spc EXCEPT ![r] = "pivot"]
        /\ oldRoots' = oldRoots \cup {base[r]}
        /\ met \subseteq met' /\ met' \subseteq Runs
        /\ \A q \in Runs \ {r} :
             spc[q] \in FS!Window /\ base[q] = base[r] => {q, r} \subseteq met'
        /\ UNCHANGED <<paths, base, bound, hostRoot, raced, broken>>
    BY <1>4 DEF FS!MakeOldRoot, FS!CreateDirAll, FS!Neighbours
  <2>2. FS!FsTypes'
    BY <2>0, <2>1
  <2>3. ASSUME NEW q \in Runs PROVE Progress(q)'
    BY <2>0, <2>1 DEF Progress, Bound, Mounted
  <2>4. OldRootsAccounted'
    BY <2>0, <2>1 DEF OldRootsAccounted
  <2>5. Together'
    BY <2>0, <2>1 DEF Together
  <2> QED
    BY <2>2, <2>3, <2>4, <2>5
<1>5. CASE FS!Pivot(r) \/ FS!HideOldRoot(r) \/ FS!DetachOldRoot(r)
  <2> USE <1>5 DEF FS!Pivot, FS!HideOldRoot, FS!DetachOldRoot
  <2>1. FS!FsTypes'
    OBVIOUS
  <2>2. ASSUME NEW q \in Runs PROVE Progress(q)'
    BY DEF Progress, Bound, Mounted
  <2>3. OldRootsAccounted'
    BY DEF OldRootsAccounted
  <2>4. Together'
    BY DEF Together
  <2> QED
    BY <2>1, <2>2, <2>3, <2>4
<1>6. CASE FS!RemoveOldRoot(r)
  <2>1. /\ spc[r] = "remove" /\ spc' = [spc EXCEPT ![r] = "run"]
        /\ oldRoots' = oldRoots \ {base[r]} /\ broken' = broken \ {base[r]}
        /\ hostRoot' \in [Runs -> {"/", "/old_root", "nowhere"}]
        /\ \A q \in Runs :
             \/ hostRoot'[q] = hostRoot[q]
             \/ hostRoot'[q] = "nowhere" /\ q # r /\ spc[q] \in FS!Window /\ base[q] = base[r]
        /\ UNCHANGED <<paths, base, bound, raced, met>>
    BY <1>6 DEF FS!RemoveOldRoot, FS!DetachedElsewhere, FS!Neighbours
  <2>2. FS!FsTypes'
    BY <2>1
  <2>3. ASSUME NEW q \in Runs PROVE Progress(q)'
    BY <2>1 DEF Progress, Bound, Mounted
  <2>4. OldRootsAccounted'
    BY <2>1 DEF OldRootsAccounted
  <2>5. Together'
    BY <2>1 DEF Together
  <2> QED
    BY <2>2, <2>3, <2>4, <2>5
<1>7. CASE FS!LostOldRoot(r)
  BY <1>7, Ending DEF FS!LostOldRoot, FS!SetupError, Together
<1>8. CASE FS!Refused(r)
  BY <1>8, Ending DEF FS!Refused, FS!SetupError
<1>9. CASE FS!End(r) /\ UNCHANGED raced
  BY <1>9, Ending
<1>10. CASE \/ rpc[r] = "clone" /\ FS!Go(r, "gate") /\ Moves(r, spc[r], "gate")
            \/ Moves(r, "zombie", "reaped")
            \/ call[r].rootfs # NoRoot /\ Moves(r, "gate", "bind")
            \/ call[r].rootfs = NoRoot /\ Moves(r, "gate", "run")
  BY <1>1, <1>10, CallFacts DEF ClonedOnce, NotCloned, Moves
<1> QED
  BY <1>2, <1>3, <1>4, <1>5, <1>6, <1>7, <1>8, <1>9, <1>10 DEF FsMove

\* So does every step.
LEMMA FsStep == RunInv /\ FsInv /\ [Next]_vars => FsInv'
<1> SUFFICES ASSUME RunInv, FsInv, [Next]_vars PROVE FsInv'
  OBVIOUS
<1>1. call' = call /\ CallTypes'
  BY FsSteps DEF FsInv, CallTypes
<1>2. ClonedOnce'
  BY RunStep
<1>3. ASSUME UNCHANGED fsVars
      PROVE  /\ FS!FsTypes' /\ OldRootsAccounted' /\ Together'
             /\ \A q \in Runs : Progress(q)'
  BY <1>1, <1>3
  DEF fsVars, FsInv, FS!FsTypes, OldRootsAccounted, Together, Progress, Bound,
      Mounted, FS!SetupSteps, FS!Window, FS!Living, FS!Paths
<1>4. ASSUME NEW p \in Vanishing, FS!Vanish(p)
      PROVE  /\ FS!FsTypes' /\ OldRootsAccounted' /\ Together'
             /\ \A q \in Runs : Progress(q)'
  BY <1>1, <1>4
  DEF FS!Vanish, FsInv, FS!FsTypes, OldRootsAccounted, Together, Progress, Bound,
      Mounted, FS!SetupSteps, FS!Window, FS!Living, FS!Paths
<1> QED
  BY <1>1, <1>2, <1>3, <1>4, FsSteps, FsMoveStep DEF FsInv

-----------------------------------------------------------------------------
(* The descriptors *)

\* A number that refers to an end of a run is the one the run has for it.
OnlyKnown ==
  \A n \in T!Fds, r \in Runs, e \in T!Ends :
    table[n] = <<r, e>> => rpc[r] = "failed" \/ (e \in InUse(r) /\ fd[r][e] = n)

TableInv == T!TableTypes /\ NumbersStayOwn /\ OnlyKnown

\* What a free number refers to is no end of a pipe.
LEMMA NotAnEnd ==
  ASSUME NEW r \in Runs, NEW e \in T!Ends
  PROVE  <<r, e>> # Free /\ <<r, e>> # Foreign
  BY SandboxAssumption DEF T!TableConstants

\* No number refers to an end at first.
LEMMA TableInit == Init => TableInv
<1> SUFFICES ASSUME Init PROVE TableInv
  OBVIOUS
<1>1. T!TableTypes
  BY DEF Init, T!TableInit, T!TableTypes, T!NoFd
<1>2. NumbersStayOwn
  BY DEF Init, NumbersStayOwn, InUse
<1>3. OnlyKnown
  BY NotAnEnd DEF Init, OnlyKnown, T!TableInit
<1> QED
  BY <1>1, <1>2, <1>3 DEF TableInv

\* The types in the next state.
LEMMA TypesAgain ==
  ASSUME table' \in [T!Fds -> (Runs \X T!Ends) \cup {Free, Foreign}],
         fd' \in [Runs -> [T!Ends -> T!Fds \cup {T!NoFd}]],
         copies' \in [Runs -> SUBSET (Runs \X T!Ends)]
  PROVE  T!TableTypes'
  BY DEF T!TableTypes, T!Fds, T!NoFd, T!Ends, T!Pipes

\* The ends in use change with the thread only.
LEMMA SameUse ==
  ASSUME NEW r \in Runs, call' = call, rpc'[r] = rpc[r], todo'[r] = todo[r]
  PROVE  InUse(r)' = InUse(r)
  BY DEF InUse, PipesOf, ChildEnds, OutputEnds

\* A pipe is opened.
LEMMA Opening ==
  ASSUME TableInv, NEW r \in Runs, NEW p \in T!Pipes, T!OpenPipe(r, p),
         InUse(r)' = InUse(r) \cup {T!ReadEnd(p), T!WriteEnd(p)},
         T!ReadEnd(p) \notin InUse(r), T!WriteEnd(p) \notin InUse(r),
         InUse(r) \subseteq T!Ends,
         \A q \in Runs \ {r} :
           InUse(q) \subseteq T!Ends /\ InUse(q)' = InUse(q) /\ rpc'[q] = rpc[q],
         rpc[r] # "failed"
  PROVE  TableInv'
<1>1. PICK a \in T!FreeFds, b \in T!FreeFds :
        /\ a < b
        /\ table' = [table EXCEPT ![a] = <<r, T!ReadEnd(p)>>, ![b] = <<r, T!WriteEnd(p)>>]
        /\ fd' = [fd EXCEPT ![r] = [@ EXCEPT ![T!ReadEnd(p)] = a, ![T!WriteEnd(p)] = b]]
        /\ copies' = copies
  BY DEF T!OpenPipe
<1>2. /\ a \in T!Fds /\ b \in T!Fds /\ a # b
      /\ table[a] = Free /\ table[b] = Free
      /\ T!ReadEnd(p) \in T!Ends /\ T!WriteEnd(p) \in T!Ends
      /\ T!ReadEnd(p) # T!WriteEnd(p)
  BY <1>1 DEF T!FreeFds, T!Fds, T!Ends, T!ReadEnd, T!WriteEnd
<1> DEFINE re == T!ReadEnd(p)
           we == T!WriteEnd(p)
<1> HIDE DEF re, we
<1>3. T!TableTypes'
  BY <1>1, <1>2 DEF TableInv, T!TableTypes, re, we
<1>4. /\ table'[a] = <<r, re>> /\ table'[b] = <<r, we>>
      /\ \A n \in T!Fds \ {a, b} : table'[n] = table[n]
      /\ fd'[r][re] = a /\ fd'[r][we] = b
      /\ \A e \in T!Ends \ {re, we} : fd'[r][e] = fd[r][e]
      /\ \A q \in Runs \ {r} : fd'[q] = fd[q]
  BY <1>1, <1>2 DEF TableInv, T!TableTypes, re, we
<1>5. NumbersStayOwn'
  <2> SUFFICES ASSUME NEW q \in Runs, NEW e \in InUse(q)' PROVE T!Own(q, e)'
    BY DEF NumbersStayOwn
  <2>1. CASE q = r /\ e \in {re, we}
    BY <1>2, <1>4, <2>1 DEF T!Own, re, we, T!Fds
  <2>2. CASE ~(q = r /\ e \in {re, we})
    <3>1. e \in InUse(q) /\ T!Own(q, e) /\ e \in T!Ends
      BY <2>2 DEF TableInv, NumbersStayOwn, re, we
    <3>2. fd[q][e] \notin {a, b}
      BY <3>1, <1>2, NotAnEnd DEF T!Own
    <3> QED
      BY <1>4, <2>2, <3>1, <3>2 DEF T!Own, T!Fds
  <2> QED
    BY <2>1, <2>2
<1>6. OnlyKnown'
  <2> SUFFICES ASSUME NEW n \in T!Fds, NEW q \in Runs, NEW e \in T!Ends,
                      table'[n] = <<q, e>>, rpc'[q] # "failed"
               PROVE  e \in InUse(q)' /\ fd'[q][e] = n
    BY DEF OnlyKnown, T!Fds, T!Ends, T!Pipes
  <2>1. CASE n \in {a, b}
    BY <1>2, <1>4, <2>1 DEF re, we
  <2>2. CASE n \notin {a, b}
    <3>1. e \in InUse(q) /\ fd[q][e] = n
      BY <1>4, <2>2 DEF TableInv, OnlyKnown
    <3>2. ~(q = r /\ e \in {re, we})
      BY <3>1 DEF re, we
    <3> QED
      BY <1>4, <3>1, <3>2 DEF re, we
  <2> QED
    BY <2>1, <2>2
<1> QED
  BY <1>3, <1>5, <1>6 DEF TableInv

\* An end is closed, the last one of the run if its numbers are forgotten.
LEMMA Closing ==
  ASSUME TableInv, NEW r \in Runs, NEW e \in InUse(r),
         T!CloseFd(r, e), UNCHANGED copies,
         fd' = fd \/ (T!ForgetFds(r) /\ InUse(r) = {e}),
         InUse(r)' = InUse(r) \ {e},
         InUse(r) \subseteq T!Ends,
         \A q \in Runs \ {r} :
           InUse(q) \subseteq T!Ends /\ InUse(q)' = InUse(q) /\ rpc'[q] = rpc[q],
         rpc[r] # "failed"
  PROVE  TableInv'
<1> DEFINE closed == fd[r][e]
<1>1. /\ closed \in T!Fds /\ table[closed] = <<r, e>>
      /\ table' = [table EXCEPT ![closed] = Free]
  BY DEF TableInv, NumbersStayOwn, T!Own, T!CloseFd
<1>2. fd' = fd \/ fd' = [fd EXCEPT ![r] = [f \in T!Ends |-> T!NoFd]]
  BY DEF T!ForgetFds
<1>3. T!TableTypes'
  BY <1>1, <1>2, TypesAgain DEF TableInv, T!TableTypes
<1>4. \A n \in T!Fds \ {closed} : table'[n] = table[n]
  BY <1>1 DEF TableInv, T!TableTypes
<1>5. \A q \in Runs \ {r} : fd'[q] = fd[q]
  BY <1>2 DEF TableInv, T!TableTypes
<1> HIDE DEF closed
<1>6. NumbersStayOwn'
  <2> SUFFICES ASSUME NEW q \in Runs, NEW f \in InUse(q)' PROVE T!Own(q, f)'
    BY DEF NumbersStayOwn
  <2>1. f \in InUse(q) /\ T!Own(q, f) /\ ~(q = r /\ f = e) /\ f \in T!Ends
    BY DEF TableInv, NumbersStayOwn
  <2>2. fd'[q] = fd[q]
    BY <1>5, <2>1
  <2>3. fd[q][f] # closed
    BY <1>1, <2>1 DEF T!Own
  <2> QED
    BY <1>4, <2>1, <2>2, <2>3 DEF T!Own, T!Fds
<1>7. OnlyKnown'
  <2> SUFFICES ASSUME NEW n \in T!Fds, NEW q \in Runs, NEW f \in T!Ends,
                      table'[n] = <<q, f>>, rpc'[q] # "failed"
               PROVE  f \in InUse(q)' /\ fd'[q][f] = n
    BY DEF OnlyKnown, T!Fds, T!Ends, T!Pipes
  <2>1. table'[closed] = Free
    BY <1>1 DEF TableInv, T!TableTypes
  <2>2. n # closed /\ table[n] = <<q, f>>
    BY <1>4, <2>1, NotAnEnd
  <2>3. f \in InUse(q) /\ fd[q][f] = n
    BY <2>2 DEF TableInv, OnlyKnown
  <2>4. ~(q = r /\ f = e)
    BY <2>2, <2>3 DEF closed
  <2> QED
    BY <1>5, <2>3, <2>4
<1> QED
  BY <1>3, <1>6, <1>7 DEF TableInv

\* A run fails with what it has opened, or nothing happens to any number.
LEMMA Leaving ==
  ASSUME TableInv, NEW r \in Runs,
         table' = table, copies' \in [Runs -> SUBSET (Runs \X T!Ends)],
         \/ fd' = fd /\ InUse(r)' = InUse(r)
         \/ T!ForgetFds(r) /\ rpc'[r] = "failed" /\ InUse(r)' = {},
         rpc[r] = "failed" => rpc'[r] = "failed",
         \A q \in Runs \ {r} : InUse(q)' = InUse(q) /\ rpc'[q] = rpc[q]
  PROVE  TableInv'
<1>1. T!TableTypes'
  BY TypesAgain DEF TableInv, T!TableTypes, T!ForgetFds
<1>2. \A q \in Runs \ {r} : fd'[q] = fd[q]
  BY DEF TableInv, T!TableTypes, T!ForgetFds
<1>3. NumbersStayOwn'
  BY <1>2 DEF TableInv, NumbersStayOwn, T!Own, T!Fds
<1>4. OnlyKnown'
  BY <1>2 DEF TableInv, OnlyKnown, T!Fds, T!Ends, T!Pipes
<1> QED
  BY <1>1, <1>3, <1>4 DEF TableInv

\* What is in use is an end, and nothing is after a failure.
LEMMA UseFacts ==
  ASSUME RunInv, NEW r \in Runs
  PROVE  /\ InUse(r) \subseteq T!Ends
         /\ rpc[r] = "failed" => InUse(r) = {}
<1>1. todo[r] \subseteq T!Ends \/ rpc[r] \notin {"close", "finish"}
  BY EndFacts DEF RunInv, Agenda
<1> QED
  BY <1>1, EndFacts DEF InUse, T!WriteEnd, OutputEnds, T!Ends, T!Pipes, PipesOf, Both

\* Every step keeps the numbers right.
LEMMA TableStep == RunInv /\ TableInv /\ [Next]_vars => TableInv'
<1> SUFFICES ASSUME RunInv, TableInv, [Next]_vars PROVE TableInv'
  OBVIOUS
<1>1. ASSUME UNCHANGED <<call, rpc, todo, table, fd>>,
             copies' \in [Runs -> SUBSET (Runs \X T!Ends)],
             NEW r \in Runs
      PROVE  TableInv'
  BY <1>1, SameUse, Leaving
<1>2. ASSUME NEW r \in Runs, ThreadStep(r) PROVE TableInv'
  <2> USE DEF Goto, Enter, tableVars
  <2>0. copies \in [Runs -> SUBSET (Runs \X T!Ends)]
    BY DEF TableInv, T!TableTypes
  <2>1. call' = call /\ rpc' = [rpc EXCEPT ![r] = rpc'[r]] /\ todo' = [todo EXCEPT ![r] = todo'[r]]
    BY <1>2
    DEF RunInv, RunTypes, ThreadStep, Fail, Validate, Count, Stamp, OpenNext, Clone,
        CloseNext, Closed, Configure, WriteInput, SignalChild, CloseThen, Reap
  <2>2. ASSUME NEW q \in Runs \ {r}
        PROVE  InUse(q) \subseteq T!Ends /\ InUse(q)' = InUse(q) /\ rpc'[q] = rpc[q]
    <3>1. rpc'[q] = rpc[q] /\ todo'[q] = todo[q]
      BY <2>1 DEF RunInv, RunTypes
    <3> QED
      BY <2>1, <3>1, SameUse, UseFacts
  <2>3. ASSUME Fail(r), UNCHANGED copies PROVE TableInv'
    <3>1. rpc'[r] = "failed" /\ InUse(r)' = {}
      BY <2>3 DEF Fail, InUse, RunInv, RunTypes
    <3> QED
      BY <2>0, <2>2, <2>3, <3>1, Leaving DEF Fail
  <2>4. ASSUME UNCHANGED <<table, fd>>, copies' \in [Runs -> SUBSET (Runs \X T!Ends)],
               InUse(r)' = InUse(r), rpc[r] # "failed"
        PROVE  TableInv'
    BY <2>2, <2>4, Leaving
  <2>5. ASSUME NEW e \in InUse(r), T!CloseFd(r, e), UNCHANGED <<fd, copies>>,
               InUse(r)' = InUse(r) \ {e}
        PROVE  TableInv'
    BY <2>2, <2>5, Closing, UseFacts
  <2>6. ASSUME NEW e \in InUse(r) PROVE ~T!CloseFails(r, e)
    BY <2>6, NotAnEnd, UseFacts DEF TableInv, NumbersStayOwn, T!Own, T!CloseFails
  <2> USE DEF RunInv, RunTypes
  <2>7. CASE Validate(r) \/ Count(r) \/ Stamp(r)
    <3>1. (Fail(r) /\ UNCHANGED copies) \/ UNCHANGED <<table, fd, copies>>
      BY <2>7 DEF Validate, Count, Stamp
    <3>2. Fail(r) \/ InUse(r)' = InUse(r)
      BY <2>7 DEF Validate, Count, Stamp, InUse, PipesOf
    <3>3. rpc[r] # "failed"
      BY <2>7 DEF Validate, Count, Stamp
    <3> QED
      BY <2>0, <2>3, <2>4, <3>1, <3>2, <3>3
  <2>8. CASE OpenNext(r)
    <3>1. CASE Fail(r) /\ UNCHANGED copies
      BY <2>3, <3>1
    <3>2. ASSUME NEW p \in todo[r], T!OpenPipe(r, p),
                 Enter(r, IF todo[r] = {p} THEN "clone" ELSE "open", todo[r] \ {p})
          PROVE  TableInv'
      <4>1. rpc[r] = "open" /\ p \in PipesOf(r) /\ p \in T!Pipes /\ PipesOf(r)' = PipesOf(r)
        BY <2>1, <2>8, EndFacts DEF OpenNext, Agenda, PipesOf
      <4>2. InUse(r) = (PipesOf(r) \ todo[r]) \X {"read", "write"}
        BY <4>1 DEF InUse
      <4>3. InUse(r)' = (PipesOf(r) \ (todo[r] \ {p})) \X {"read", "write"}
        BY <3>2, <4>1 DEF InUse
      <4>4. InUse(r)' = InUse(r) \cup {T!ReadEnd(p), T!WriteEnd(p)}
        BY <3>2, <4>1, <4>2, <4>3 DEF T!ReadEnd, T!WriteEnd
      <4>5. T!ReadEnd(p) \notin InUse(r) /\ T!WriteEnd(p) \notin InUse(r)
        BY <3>2, <4>2 DEF T!ReadEnd, T!WriteEnd
      <4> QED
        BY <2>2, <3>2, <4>1, <4>4, <4>5, Opening, UseFacts
    <3> QED
      BY <2>8, <3>1, <3>2 DEF OpenNext
  <2>9. CASE Clone(r)
    <3>1. CASE Fail(r) /\ UNCHANGED copies
      BY <2>3, <3>1
    <3>2. CASE T!Inherit(r) /\ Enter(r, "close", ChildEnds(r))
      <4>1. InUse(r)' = InUse(r)
        BY <2>1, <2>9, <3>2, EndFacts DEF Clone, InUse, PipesOf, ChildEnds, Both
      <4>2. copies' \in [Runs -> SUBSET (Runs \X T!Ends)]
        BY <2>0, <3>2 DEF T!Inherit, TableInv, T!TableTypes
      <4> QED
        BY <2>4, <2>9, <3>2, <4>1, <4>2 DEF Clone, T!Inherit
    <3> QED
      BY <2>9, <3>1, <3>2 DEF Clone
  <2>10. CASE CloseNext(r)
    <3>1. PICK e \in todo[r] :
            \/ T!CloseFd(r, e) /\ Closed(r, e)
            \/ T!CloseFails(r, e) /\ rpc[r] = "close" /\ Fail(r)
            \/ T!CloseFails(r, e) /\ rpc[r] = "finish" /\ Closed(r, e)
      BY <2>10 DEF CloseNext
    <3>2. rpc[r] \in {"close", "finish"} /\ UNCHANGED copies
      BY <2>10 DEF CloseNext
    <3>3. e \in InUse(r)
      BY <3>2 DEF InUse
    <3>4. T!CloseFd(r, e) /\ Closed(r, e)
      BY <2>6, <3>1, <3>3
    <3>5. InUse(r)' = InUse(r) \ {e}
      <4>1. CASE rpc[r] = "close"
        <5>1. e \in ChildEnds(r) /\ ChildEnds(r)' = ChildEnds(r) /\ PipesOf(r)' = PipesOf(r)
          BY <2>1, <4>1 DEF Agenda, ChildEnds, PipesOf
        <5> QED
          BY <3>4, <4>1, <5>1 DEF Closed, AfterClosing, InUse
      <4>2. CASE rpc[r] = "finish"
        BY <3>4, <4>2 DEF Closed, AfterClosing, InUse
      <4> QED
        BY <3>2, <4>1, <4>2
    <3>6. fd' = fd \/ (T!ForgetFds(r) /\ InUse(r) = {e})
      BY <3>4 DEF Closed, InUse
    <3> QED
      BY <2>2, <3>2, <3>3, <3>4, <3>5, <3>6, Closing, UseFacts
  <2>11. CASE Configure(r)
    <3>1. Fail(r) \/ InUse(r)' = InUse(r)
      BY <2>1, <2>11 DEF Configure, InUse, PipesOf, ChildEnds
    <3> QED
      BY <2>0, <2>3, <2>4, <2>11, <3>1 DEF Configure
  <2>12. CASE WriteInput(r)
    <3> DEFINE Kept == PipesOf(r) \X {"read", "write"} \ ChildEnds(r)
               end  == T!WriteEnd("stdin")
    <3>1. rpc[r] = "input" /\ InUse(r) = Kept /\ UNCHANGED copies
      BY <2>12 DEF WriteInput, InUse
    <3>2. Kept = OutputEnds \cup {T!WriteEnd("ready")}
                 \cup (IF call[r].input = "none" THEN {} ELSE {end})
      BY SandboxAssumption
      DEF T!TableConstants, PipesOf, ChildEnds, OutputEnds, T!WriteEnd
    <3>3. end \notin OutputEnds \cup {T!WriteEnd("ready")}
      BY DEF OutputEnds, T!WriteEnd
    <3>4. ASSUME Goto(r, "signal") PROVE InUse(r)' = OutputEnds \cup {T!WriteEnd("ready")}
      BY <3>1, <3>4 DEF InUse, OutputEnds, T!WriteEnd
    <3>5. CASE call[r].input = "none" /\ Goto(r, "signal") /\ UNCHANGED <<table, fd>>
      BY <2>0, <2>4, <3>1, <3>2, <3>4, <3>5
    <3>6. CASE CloseThen(r, end, "signal") /\ call[r].input # "none"
      <4>1. end \in InUse(r)
        BY <3>1, <3>2, <3>6
      <4>2. T!CloseFd(r, end) /\ Goto(r, "signal") /\ UNCHANGED fd
        BY <2>6, <3>6, <4>1 DEF CloseThen
      <4> QED
        BY <2>5, <3>1, <3>2, <3>3, <3>4, <3>6, <4>1, <4>2
    <3> QED
      BY <2>12, <3>5, <3>6 DEF WriteInput
  <2>13. CASE SignalChild(r)
    <3> DEFINE end == T!WriteEnd("ready")
    <3>1. rpc[r] = "signal" /\ InUse(r) = OutputEnds \cup {end} /\ UNCHANGED copies
      BY <2>13 DEF SignalChild, InUse
    <3>2. end \notin OutputEnds
      BY DEF OutputEnds, T!WriteEnd
    <3>3. CASE Fail(r)
      BY <2>3, <3>1, <3>3
    <3>4. CASE CloseThen(r, end, "wait")
      <4>1. T!CloseFd(r, end) /\ Goto(r, "wait") /\ UNCHANGED fd
        BY <2>6, <3>1, <3>4 DEF CloseThen
      <4>2. InUse(r)' = OutputEnds
        BY <3>1, <4>1 DEF InUse, OutputEnds
      <4> QED
        BY <2>5, <3>1, <3>2, <4>1, <4>2
    <3> QED
      BY <2>13, <3>3, <3>4 DEF SignalChild
  <2>14. CASE Reap(r)
    <3>1. InUse(r)' = InUse(r)
      BY <2>14 DEF Reap, InUse, OutputEnds
    <3> QED
      BY <2>0, <2>4, <2>14, <3>1 DEF Reap
  <2> QED
    BY <1>2, <2>7, <2>8, <2>9, <2>10, <2>11, <2>12, <2>13, <2>14 DEF ThreadStep
<1>3. ASSUME NEW r \in Runs, ChildStep(r) PROVE TableInv'
  <2>1. UNCHANGED <<call, rpc, todo, table, fd>>
    BY <1>3 DEF ChildStep, PassGate, SetUp, Die, T!Redirect, T!DropCopies, tableVars
  <2>2. copies' \in [Runs -> SUBSET (Runs \X T!Ends)]
    BY <1>3
    DEF TableInv, T!TableTypes, ChildStep, PassGate, SetUp, Die, T!Redirect,
        T!DropCopies, tableVars
  <2> QED
    BY <1>1, <2>1, <2>2
<1>4. ASSUME UNCHANGED <<call, rpc, todo, tableVars>> PROVE TableInv'
  <2>1. T!TableTypes'
    BY <1>4, TypesAgain DEF tableVars, TableInv, T!TableTypes
  <2>2. \A r \in Runs : InUse(r)' = InUse(r)
    BY <1>4, SameUse
  <2>3. NumbersStayOwn'
    BY <1>4, <2>2 DEF tableVars, TableInv, NumbersStayOwn, T!Own, T!Fds
  <2>4. OnlyKnown'
    BY <1>4, <2>2 DEF tableVars, TableInv, OnlyKnown, T!Fds, T!Ends, T!Pipes
  <2> QED
    BY <2>1, <2>3, <2>4 DEF TableInv
<1> QED
  BY <1>2, <1>3, <1>4 DEF Next, Over, Vanish, vars

-----------------------------------------------------------------------------
(* The theorems *)

Inv == RunInv /\ FsInv /\ TableInv

\* The invariant of threads, descriptors and file system.
LEMMA Invariance == Spec => []Inv
<1>1. Init => Inv
  BY RunInit, FsInit, TableInit DEF Inv
<1>2. Inv /\ [Next]_vars => Inv'
  <2> SUFFICES ASSUME Inv, [Next]_vars PROVE Inv'
    OBVIOUS
  <2>1. FsInv' /\ TableInv'
    BY FsStep, TableStep DEF Inv
  <2>2. spc' \in [Runs -> FS!Living \cup {"none", "zombie", "reaped"}]
    BY <2>1 DEF FsInv, FS!FsTypes, FS!Living, FS!SetupSteps, FS!Window
  <2>3. RunInv'
    BY <2>2, RunStep DEF Inv, RunInv, FS!Living, FS!SetupSteps, FS!Window
  <2> QED
    BY <2>1, <2>3 DEF Inv
<1> QED
  BY <1>1, <1>2, PTL DEF Spec

\* Threads, descriptors and children only ever have the values that are meant
\* for them; in particular no number beyond the table is handed out.
THEOREM TypeCorrect == Spec => []TypeOK
<1>1. Inv => TypeOK
  BY DEF Inv, RunInv, FsInv, TableInv, TypeOK
<1> QED
  BY <1>1, Invariance, PTL

\* generate_sandbox_id gives every sandbox of a process an identifier of its
\* own, however many threads build sandboxes and whatever the clock shows.
THEOREM UniqueIds == Spec => []IdsAreUnique
<1>1. Inv => IdsAreUnique
  <2> SUFFICES ASSUME Inv, NEW r \in Runs, NEW q \in Runs, r # q, Built(r), Built(q)
               PROVE  ids[r] # ids[q]
    BY DEF IdsAreUnique
  <2>1. Counted(r) /\ Counted(q)
    BY DEF Built, Counted
  <2> QED
    BY <2>1 DEF Inv, RunInv, CountsDiffer
<1> QED
  BY <1>1, Invariance, PTL

\* However many runs open and close descriptors in one process, a run uses
\* only numbers that refer to its own pipes.
THEOREM OwnNumbers == Spec => []NumbersStayOwn
<1>1. Inv => NumbersStayOwn
  BY DEF Inv, TableInv
<1> QED
  BY <1>1, Invariance, PTL

\* Descriptors and old_root are left behind by failures only.
THEOREM NothingLeft == Spec => []OnlyFailuresLeave
<1>1. Inv => OnlyFailuresLeave
  BY DEF Inv, FsInv, TableInv, OnlyKnown, OldRootsAccounted, OnlyFailuresLeave
<1> QED
  BY <1>1, Invariance, PTL

\* No command starts in a root file system that lacks a mount, or with a way
\* to the host's root, however many children set up the same one.
THEOREM Confined == Spec => []CommandsConfined
<1>1. Inv => CommandsConfined
  BY DEF Inv, FsInv, Progress, Mounted, Bound, CommandsConfined
<1> QED
  BY <1>1, Invariance, PTL

\* old_root is lost only to another setup of the same root file system.
THEOREM LostTogether == Spec => []LostOnlyTogether
<1>1. Inv => LostOnlyTogether
  BY DEF Inv, FsInv, Together, LostOnlyTogether
<1> QED
  BY <1>1, Invariance, PTL

-----------------------------------------------------------------------------
(* What a failed run can leave *)

\* The numbers that refer to a pipe of r, whether r still knows them or not.
NumbersOf(r) == {n \in T!Fds : table[n] \in {r} \X T!Ends}

\* An end of a run has one number at most, and is an end of its own pipes.
OneNumberEach ==
  \A r \in Runs, e \in T!Ends, m, n \in T!Fds :
    table[m] = <<r, e>> /\ table[n] = <<r, e>> => m = n /\ e \in PipesOf(r) \X Both

\* A call costs its host at most two descriptors per pipe, at any time and
\* after it has failed: with three pipes, or four when there is input, that is
\* what an early return of execute leaks, and no more.
LeakBounded ==
  \A r \in Runs : Cardinality(NumbersOf(r)) <= 2 * Cardinality(PipesOf(r))

\* What a run uses are ends of the pipes it is to open.
OwnPipesInUse == \A r \in Runs : InUse(r) \subseteq PipesOf(r) \X Both

LEMMA UseOfOwnPipes == RunInv => OwnPipesInUse
<1> SUFFICES ASSUME RunInv, NEW r \in Runs
             PROVE  InUse(r) \subseteq PipesOf(r) \X Both
  BY Zenon DEF OwnPipesInUse
<1>1. /\ rpc[r] = "close"  => todo[r] \subseteq PipesOf(r) \X Both
      /\ rpc[r] = "finish" => todo[r] \subseteq PipesOf(r) \X Both
  BY EndFacts DEF RunInv, Agenda
<1>2. T!WriteEnd("ready") \in PipesOf(r) \X Both
  BY DEF T!WriteEnd, PipesOf, Both
<1> QED
  BY <1>1, <1>2, EndFacts DEF InUse, Both

\* Neither the step with which a run fails nor any later one, its own or
\* another's, makes a number refer to one of its pipes.
LEMMA FailedGainNothing ==
  ASSUME RunInv, TableInv, [Next]_vars, NEW r \in Runs, rpc'[r] = "failed",
         NEW e \in T!Ends, NEW n \in T!Fds, table'[n] = <<r, e>>
  PROVE  table[n] = <<r, e>>
<1> USE DEF RunInv, RunTypes, Goto, Enter, tableVars
<1>0. table \in [T!Fds -> (Runs \X T!Ends) \cup {Free, Foreign}] /\ <<r, e>> # Free
  BY NotAnEnd DEF TableInv, T!TableTypes
<1>1. ASSUME NEW q \in Runs, NEW f \in T!Ends, T!CloseFd(q, f) PROVE table[n] = <<r, e>>
  BY <1>0, <1>1 DEF T!CloseFd
<1>2. ASSUME NEW q \in Runs, OpenNext(q) PROVE table[n] = <<r, e>>
  <2>1. CASE Fail(q)
    BY <2>1 DEF Fail
  <2>2. ASSUME NEW p \in todo[q], T!OpenPipe(q, p), rpc'[q] \in {"clone", "open"}
        PROVE  table[n] = <<r, e>>
    <3>1. q # r
      BY <2>2
    <3>2. PICK a, b \in T!FreeFds :
            table' = [table EXCEPT ![a] = <<q, T!ReadEnd(p)>>, ![b] = <<q, T!WriteEnd(p)>>]
      BY <2>2 DEF T!OpenPipe
    <3> QED
      BY <1>0, <3>1, <3>2
  <2> QED
    BY <1>2, <2>1, <2>2 DEF OpenNext
<1>3. ASSUME NEW q \in Runs, CloseNext(q) PROVE table[n] = <<r, e>>
  <2>1. PICK f \in todo[q] :
          T!CloseFd(q, f) \/ T!CloseFails(q, f)
    BY <1>3 DEF CloseNext
  <2>2. f \in T!Ends
    BY <1>3, <2>1, EndFacts DEF CloseNext, Agenda
  <2> QED
    BY <1>1, <2>1, <2>2 DEF T!CloseFails
<1>4. ASSUME NEW q \in Runs, WriteInput(q) \/ SignalChild(q) PROVE table[n] = <<r, e>>
  <2>1. T!WriteEnd("stdin") \in T!Ends /\ T!WriteEnd("ready") \in T!Ends
    BY DEF T!WriteEnd, T!Ends, T!Pipes
  <2> QED
    BY <1>1, <1>4, <2>1 DEF WriteInput, SignalChild, CloseThen, Fail, T!CloseFails
<1>5. ASSUME NEW q \in Runs,
             Validate(q) \/ Count(q) \/ Stamp(q) \/ Clone(q) \/ Configure(q) \/ Reap(q)
      PROVE  table[n] = <<r, e>>
  BY <1>5 DEF Validate, Count, Stamp, Clone, Configure, Reap, Fail, T!Inherit
<1>6. ASSUME NEW q \in Runs, ChildStep(q) PROVE table[n] = <<r, e>>
  BY <1>6 DEF ChildStep, PassGate, SetUp, Die, T!Redirect, T!DropCopies
<1> QED
  BY <1>2, <1>3, <1>4, <1>5, <1>6 DEF Next, ThreadStep, Over, Vanish, vars

\* No step gives an end a second number.
LEMMA OneNumberStep ==
  Inv /\ Inv' /\ OwnPipesInUse' /\ OneNumberEach /\ [Next]_vars => OneNumberEach'
<1> SUFFICES ASSUME Inv, Inv', OwnPipesInUse', OneNumberEach, [Next]_vars
             PROVE  OneNumberEach'
  OBVIOUS
<1>1. T!Ends' = T!Ends /\ T!Fds' = T!Fds
  BY DEF T!Ends, T!Pipes, T!Fds
<1>2. call' = call
  BY FsSteps
<1> SUFFICES ASSUME NEW r \in Runs, NEW e \in T!Ends, NEW m \in T!Fds, NEW n \in T!Fds,
                    table'[m] = <<r, e>>, table'[n] = <<r, e>>
             PROVE  m = n /\ e \in PipesOf(r)' \X Both
  BY <1>1 DEF OneNumberEach, Both
<1>3. CASE rpc'[r] # "failed"
  <2>1. e \in InUse(r)' /\ fd'[r][e] = m /\ fd'[r][e] = n
    BY <1>1, <1>3 DEF Inv, TableInv, OnlyKnown
  <2>2. InUse(r)' \subseteq PipesOf(r)' \X Both
    BY <1>1 DEF OwnPipesInUse, Both
  <2> QED
    BY <2>1, <2>2
<1>4. CASE rpc'[r] = "failed"
  <2>1. table[m] = <<r, e>> /\ table[n] = <<r, e>>
    BY <1>4, FailedGainNothing DEF Inv
  <2> QED
    BY <1>2, <2>1 DEF OneNumberEach, PipesOf
<1> QED
  BY <1>3, <1>4

\* The size of a set of two.
LEMMA Pairs ==
  ASSUME NEW a, NEW b, a # b
  PROVE  IsFiniteSet({a, b}) /\ Cardinality({a, b}) = 2
<1>1. IsFiniteSet({a}) /\ Cardinality({a}) = 1
  BY FS_Singleton
<1>2. {a, b} = {a} \cup {b}
  OBVIOUS
<1>3. b \notin {a}
  OBVIOUS
<1>4. IsFiniteSet({a} \cup {b}) /\ Cardinality({a} \cup {b}) = 2
  BY <1>1, <1>3, FS_AddElement
<1> QED
  BY <1>2, <1>4

\* execute takes its pipes as bare numbers and leaks them on every early return:
\* each failed call leaves at most two numbers per pipe, however many other
\* calls take and give back numbers at the same time and afterwards.
THEOREM BoundedLeak == Spec => []LeakBounded
<1>1. Init => OneNumberEach
  BY NotAnEnd DEF Init, OneNumberEach, T!TableInit
<1>2. Inv => OwnPipesInUse
  BY UseOfOwnPipes DEF Inv
<1>3. Spec => []OneNumberEach
  BY <1>1, <1>2, OneNumberStep, Invariance, PTL DEF Spec
<1>4. OneNumberEach => LeakBounded
  <2> SUFFICES ASSUME OneNumberEach, NEW r \in Runs
               PROVE  Cardinality(NumbersOf(r)) <= 2 * Cardinality(PipesOf(r))
    BY Zenon DEF LeakBounded
  <2> DEFINE own     == PipesOf(r) \X Both
             endOf   == [n \in NumbersOf(r) |-> table[n][2]]
  <2>1. endOf \in Injection(NumbersOf(r), own)
    <3>1. ASSUME NEW n \in NumbersOf(r)
          PROVE  table[n] = <<r, endOf[n]>> /\ endOf[n] \in T!Ends /\ endOf[n] \in own
      <4>1. PICK e \in T!Ends : table[n] = <<r, e>>
        BY <3>1 DEF NumbersOf
      <4>2. n \in T!Fds /\ endOf[n] = e
        BY <3>1, <4>1 DEF NumbersOf
      <4> QED
        BY <4>1, <4>2 DEF OneNumberEach
    <3>2. ASSUME NEW m \in NumbersOf(r), NEW n \in NumbersOf(r), endOf[m] = endOf[n]
          PROVE  m = n
      BY <3>1, <3>2 DEF OneNumberEach, NumbersOf
    <3>3. endOf \in [NumbersOf(r) -> own]
      BY <3>1
    <3> QED
      BY <3>2, <3>3 DEF Injection, IsInjective
  <2>2. IsFiniteSet(PipesOf(r)) /\ IsFiniteSet(Both) /\ Cardinality(Both) = 2
    <3>1. IsFiniteSet(Both) /\ Cardinality(Both) = 2
      BY Pairs DEF Both
    <3>2. IsFiniteSet({"stdout", "stderr", "ready", "stdin"})
      <4>1. /\ IsFiniteSet({"stdout", "stderr"}) /\ IsFiniteSet({"ready", "stdin"})
        BY Pairs
      <4>2. IsFiniteSet({"stdout", "stderr"} \cup {"ready", "stdin"})
        BY <4>1, FS_Union
      <4>3. {"stdout", "stderr", "ready", "stdin"} = {"stdout", "stderr"} \cup {"ready", "stdin"}
        OBVIOUS
      <4> QED
        BY <4>2, <4>3
    <3>3. PipesOf(r) \subseteq {"stdout", "stderr", "ready", "stdin"}
      BY SandboxAssumption DEF T!TableConstants, PipesOf
    <3> QED
      BY <3>1, <3>2, <3>3, FS_Subset
  <2>3. /\ IsFiniteSet(own) /\ Cardinality(own) = Cardinality(PipesOf(r)) * 2
        /\ Cardinality(PipesOf(r)) \in Nat
    BY <2>2, FS_Product, FS_CardinalityType
  <2>4. Cardinality(NumbersOf(r)) <= Cardinality(own)
    BY <2>1, <2>3, FS_Injection
  <2> QED
    BY <2>3, <2>4
<1> QED
  BY <1>3, <1>4, PTL

-----------------------------------------------------------------------------
(* Liveness.  A thread has 20 stations, the last of them the return.  Every  *)
(* step of the thread takes it to a later one and nothing takes it back.     *)
(* Weak fairness speaks of when an action is ENABLED, which the proof takes  *)
(* from ReadyRunsStep and does not look into.                                *)

\* The pipe that is opened next, and the end that is closed next.
OpenStation(S) ==
  IF "stdout" \in S THEN 4 ELSE IF "stderr" \in S THEN 5 ELSE IF "ready" \in S THEN 6 ELSE 7

CloseStation(S) ==
  IF T!ReadEnd("ready") \in S THEN 9 ELSE IF T!WriteEnd("stdout") \in S THEN 10
  ELSE IF T!WriteEnd("stderr") \in S THEN 11 ELSE 12

FinishStation(S) == IF T!ReadEnd("stdout") \in S THEN 18 ELSE 19

Station(r) ==
  CASE rpc[r] = "validate"  -> 1
    [] rpc[r] = "count"     -> 2
    [] rpc[r] = "stamp"     -> 3
    [] rpc[r] = "open"      -> OpenStation(todo[r])
    [] rpc[r] = "clone"     -> 8
    [] rpc[r] = "close"     -> CloseStation(todo[r])
    [] rpc[r] = "configure" -> 13
    [] rpc[r] = "input"     -> 14
    [] rpc[r] = "signal"    -> 15
    [] rpc[r] = "wait"      -> IF spc[r] = "zombie" THEN 17 ELSE 16
    [] rpc[r] = "finish"    -> FinishStation(todo[r])
    [] OTHER                -> 20

\* A thread that opens or closes has something left to open or close, and one
\* that is past the clone has a child that nobody else reaps.
Attended ==
  \A r \in Runs :
    /\ rpc[r] \in {"open", "close", "finish"} => todo[r] # {}
    /\ rpc[r] \in {"close", "configure", "input", "signal", "wait"} =>
         spc[r] \in FS!Living \cup {"zombie"}

\* Another thread's step, or a child's, leaves a thread where it is.
LEMMA OwnStepsOnly ==
  ASSUME RunInv, [Next]_vars, NEW r \in Runs
  PROVE  ThreadStep(r) \/ (rpc'[r] = rpc[r] /\ todo'[r] = todo[r])
<1>1. ASSUME NEW q \in Runs, q # r, ThreadStep(q)
      PROVE  rpc'[r] = rpc[r] /\ todo'[r] = todo[r]
  BY <1>1
  DEF RunInv, RunTypes, ThreadStep, Fail, Goto, Enter, Validate, Count, Stamp, OpenNext,
      Clone, CloseNext, Closed, Configure, WriteInput, SignalChild, CloseThen, Reap
<1>2. ASSUME NEW q \in Runs, ChildStep(q)
      PROVE  rpc'[r] = rpc[r] /\ todo'[r] = todo[r]
  BY <1>2 DEF ChildStep, PassGate, SetUp, Die
<1> QED
  BY <1>1, <1>2 DEF Next, Over, Vanish, vars

\* A child lives, ends and is reaped, in this order and by its own thread.
LEMMA ChildOnly ==
  ASSUME RunInv, FsInv, [Next]_vars, NEW r \in Runs
  PROVE  /\ spc[r] \in FS!Living => spc'[r] \in FS!Living \cup {"zombie"}
         /\ spc[r] = "zombie" => spc'[r] = "zombie" \/ Reap(r)
<1> USE DEF FS!Living, FS!SetupSteps, FS!Window
<1>0. spc \in [Runs -> FS!Living \cup {"none", "zombie", "reaped"}]
  BY DEF RunInv
<1>1. ASSUME NEW q \in Runs, ThreadStep(q)
      PROVE  spc'[r] = spc[r] \/ (q = r /\ Reap(r) /\ spc[r] = "zombie")
                             \/ (q = r /\ rpc[r] = "clone" /\ spc'[r] = "gate")
  BY <1>0, <1>1
  DEF ThreadStep, Validate, Count, Stamp, OpenNext, Clone, CloseNext, Configure, WriteInput,
      SignalChild, Reap, FS!Go, fsVars
<1>2. ASSUME NEW q \in Runs, ChildStep(q)
      PROVE  spc'[r] = spc[r] \/ (spc[r] \in FS!Living /\ spc'[r] \in FS!Living \cup {"zombie"})
  BY <1>0, <1>2
  DEF ChildStep, PassGate, SetUp, Die, FS!Go, FS!Advance, FS!End, FS!SetupError, FS!Refused,
      FS!LostOldRoot, FS!BindRoot, FS!BindMount, FS!MakeOldRoot, FS!Pivot, FS!HideOldRoot,
      FS!DetachOldRoot, FS!RemoveOldRoot
<1>3. ASSUME NEW p \in Vanishing, Vanish(p) PROVE spc' = spc
  BY <1>3 DEF Vanish, FS!Vanish
<1>4. rpc[r] = "clone" => spc[r] = "none"
  BY DEF RunInv, ClonedOnce, NotCloned
<1> QED
  BY <1>1, <1>2, <1>3, <1>4 DEF Next, Over, vars, fsVars

\* What a thread may have to open and to close.
AllPipes     == {"stdout", "stderr", "ready", "stdin"}
AllChildEnds == {T!ReadEnd("ready"), T!WriteEnd("stdout"), T!WriteEnd("stderr"), T!ReadEnd("stdin")}
AllOutputs   == {T!ReadEnd("stdout"), T!ReadEnd("stderr")}

LEMMA Agendas ==
  ASSUME NEW r \in Runs
  PROVE  /\ PipesOf(r) \subseteq AllPipes /\ ChildEnds(r) \subseteq AllChildEnds
         /\ OutputEnds \subseteq AllOutputs
         /\ PipesOf(r) # {} /\ ChildEnds(r) # {} /\ OutputEnds # {}
<1>1. Streams \subseteq {"stdout", "stderr"} /\ Streams # {}
  BY SandboxAssumption DEF T!TableConstants
<1>2. "ready" \in PipesOf(r)
  BY DEF PipesOf
<1>3. T!ReadEnd("ready") \in ChildEnds(r)
  BY <1>2 DEF ChildEnds, T!ReadEnd
<1>4. ASSUME NEW e \in ChildEnds(r) PROVE e \in AllChildEnds
  <2>1. CASE e \in (PipesOf(r) \cap {"ready", "stdin"}) \X {"read"}
    <3>1. PICK p \in {"ready", "stdin"} : e = <<p, "read">>
      BY <2>1
    <3> QED
      BY <3>1 DEF AllChildEnds, T!ReadEnd
  <2>2. CASE e \in Streams \X {"write"}
    <3>1. PICK p \in Streams : e = <<p, "write">>
      BY <2>2
    <3> QED
      BY <1>1, <3>1 DEF AllChildEnds, T!WriteEnd
  <2> QED
    BY <2>1, <2>2 DEF ChildEnds
<1>5. PICK q : q \in Streams
  BY <1>1
<1>6. <<q, "read">> \in OutputEnds
  BY <1>5 DEF OutputEnds
<1>7. ASSUME NEW e \in OutputEnds PROVE e \in AllOutputs
  <2>1. PICK p \in Streams : e = <<p, "read">>
    BY DEF OutputEnds
  <2> QED
    BY <1>1, <2>1 DEF AllOutputs, T!ReadEnd
<1> QED
  BY <1>1, <1>2, <1>3, <1>4, <1>6, <1>7 DEF PipesOf, AllPipes

\* Pipes are opened in the order of their stations ..
LEMMA OpenOrder ==
  ASSUME NEW S \in SUBSET AllPipes, NEW p, FirstPipe(p, S), S # {p}
  PROVE  OpenStation(S \ {p}) > OpenStation(S)
<1>1. \A q \in S : q \in AllPipes /\ Rank[p] <= Rank[q]
  BY DEF FirstPipe
<1>2. /\ Rank["stdout"] = 1 /\ Rank["stderr"] = 2
      /\ Rank["ready"] = 3 /\ Rank["stdin"] = 4
  BY DEF Rank
<1>3. p \in S /\ \E q \in S : q # p
  BY DEF FirstPipe
<1>4. CASE p = "stdout"
  BY <1>3, <1>4 DEF OpenStation
<1>5. CASE p = "stderr"
  BY <1>1, <1>2, <1>3, <1>5 DEF OpenStation
<1>6. CASE p = "ready"
  BY <1>1, <1>2, <1>3, <1>6 DEF OpenStation, AllPipes
<1>7. CASE p = "stdin"
  BY <1>1, <1>2, <1>3, <1>7 DEF OpenStation, AllPipes
<1> QED
  BY <1>3, <1>4, <1>5, <1>6, <1>7 DEF AllPipes

\* .. and ends are closed in theirs.
LEMMA CloseOrder ==
  ASSUME NEW S \in SUBSET AllChildEnds, NEW e, FirstEnd(e, S), S # {e}
  PROVE  CloseStation(S \ {e}) > CloseStation(S)
  BY DEF AllChildEnds, FirstEnd, Rank, CloseStation, T!ReadEnd, T!WriteEnd

LEMMA FinishOrder ==
  ASSUME NEW S \in SUBSET AllOutputs, NEW e, FirstEnd(e, S), S # {e}
  PROVE  FinishStation(S \ {e}) > FinishStation(S)
  BY DEF AllOutputs, FirstEnd, Rank, FinishStation, T!ReadEnd

\* Where the stations are.
LEMMA StationRange ==
  ASSUME NEW r
  PROVE  /\ Station(r) \in 1 .. 20
         /\ \A S : OpenStation(S) \in 4 .. 7 /\ CloseStation(S) \in 9 .. 12
                  /\ FinishStation(S) \in 18 .. 19
<1>1. \A S : OpenStation(S) \in 4 .. 7 /\ CloseStation(S) \in 9 .. 12
            /\ FinishStation(S) \in 18 .. 19
  BY DEF OpenStation, CloseStation, FinishStation
<1> QED
  BY <1>1 DEF Station

\* A step of the thread takes it to a later station, with something to do there.
LEMMA ThreadAdvances ==
  ASSUME RunInv, Attended, NEW r \in Runs, ThreadStep(r)
  PROVE  /\ Station(r)' > Station(r)
         /\ rpc'[r] \in {"open", "close", "finish"} => todo'[r] # {}
<1> USE DEF RunInv, RunTypes
<1>1. CASE Validate(r) \/ Count(r) \/ Configure(r) \/ WriteInput(r) \/ SignalChild(r)
  BY <1>1
  DEF Validate, Count, Configure, WriteInput, SignalChild, CloseThen, Fail, Goto, Enter, Station
<1>2. CASE Stamp(r)
  <2>1. rpc'[r] = "open" /\ todo'[r] = PipesOf(r) /\ rpc[r] = "stamp"
    BY <1>2 DEF Stamp, Enter
  <2>2. Station(r)' = OpenStation(todo'[r]) /\ Station(r) = 3
    BY <2>1 DEF Station, OpenStation
  <2>3. Station(r)' \in 4 .. 7
    BY <2>2, StationRange
  <2> QED
    BY <2>1, <2>2, <2>3, Agendas
<1>3. CASE OpenNext(r)
  <2>1. CASE Fail(r)
    BY <1>3, <2>1, StationRange DEF OpenNext, Fail, Enter, Station
  <2>2. ASSUME NEW p \in todo[r], FirstPipe(p, todo[r]),
               Enter(r, IF todo[r] = {p} THEN "clone" ELSE "open", todo[r] \ {p})
        PROVE  /\ Station(r)' > Station(r)
               /\ rpc'[r] \in {"open", "close", "finish"} => todo'[r] # {}
    <3>1. rpc[r] = "open" /\ todo[r] \in SUBSET AllPipes
      BY <1>3, Agendas DEF OpenNext, Agenda
    <3>2. CASE todo[r] = {p}
      BY <2>2, <3>1, <3>2, StationRange DEF Enter, Station
    <3>3. CASE todo[r] # {p}
      <4>1. rpc'[r] = "open" /\ todo'[r] = todo[r] \ {p} /\ todo'[r] # {}
        BY <2>2, <3>3 DEF Enter
      <4>2. Station(r) = OpenStation(todo[r]) /\ Station(r)' = OpenStation(todo[r] \ {p})
        BY <3>1, <4>1 DEF Station, OpenStation
      <4>3. OpenStation(todo[r] \ {p}) > OpenStation(todo[r])
        BY <2>2, <3>1, <3>3, OpenOrder
      <4> QED
        BY <4>1, <4>2, <4>3
    <3> QED
      BY <3>2, <3>3
  <2> QED
    BY <1>3, <2>1, <2>2 DEF OpenNext
<1>4. CASE Clone(r)
  <2>1. CASE Fail(r)
    BY <1>4, <2>1 DEF Clone, Fail, Enter, Station
  <2>2. CASE Enter(r, "close", ChildEnds(r))
    <3>1. rpc'[r] = "close" /\ todo'[r] = ChildEnds(r) /\ rpc[r] = "clone"
      BY <1>4, <2>2 DEF Clone, Enter
    <3>2. Station(r)' = CloseStation(todo'[r])
      BY <3>1 DEF Station, CloseStation
    <3>3. Station(r)' \in 9 .. 12 /\ Station(r) = 8
      BY <3>1, <3>2, StationRange DEF Station
    <3> QED
      BY <3>1, <3>3, Agendas
  <2> QED
    BY <1>4, <2>1, <2>2 DEF Clone
<1>5. CASE CloseNext(r)
  <2>1. CASE rpc[r] = "close" /\ Fail(r)
    BY <2>1, StationRange DEF Fail, Enter, Station
  <2>2. ASSUME NEW e \in todo[r], FirstEnd(e, todo[r]), Closed(r, e)
        PROVE  /\ Station(r)' > Station(r)
               /\ rpc'[r] \in {"open", "close", "finish"} => todo'[r] # {}
    <3>1. rpc[r] \in {"close", "finish"}
      BY <1>5 DEF CloseNext
    <3>2. /\ rpc[r] = "close" => todo[r] \in SUBSET AllChildEnds
          /\ rpc[r] = "finish" => todo[r] \in SUBSET AllOutputs
      BY Agendas DEF Agenda
    <3>3. CASE todo[r] = {e}
      <4>1. rpc'[r] = AfterClosing(r)
        BY <2>2, <3>3 DEF Closed, Enter
      <4> QED
        BY <3>1, <4>1, StationRange DEF AfterClosing, Station
    <3>4. CASE todo[r] # {e}
      <4>1. rpc'[r] = rpc[r] /\ todo'[r] = todo[r] \ {e} /\ todo'[r] # {}
        BY <2>2, <3>4 DEF Closed, Enter
      <4>2. CASE rpc[r] = "close"
        <5>1. Station(r) = CloseStation(todo[r]) /\ Station(r)' = CloseStation(todo[r] \ {e})
          BY <4>1, <4>2 DEF Station, CloseStation
        <5>2. CloseStation(todo[r] \ {e}) > CloseStation(todo[r])
          BY <2>2, <3>2, <3>4, <4>2, CloseOrder
        <5> QED
          BY <4>1, <5>1, <5>2
      <4>3. CASE rpc[r] = "finish"
        <5>1. Station(r) = FinishStation(todo[r]) /\ Station(r)' = FinishStation(todo[r] \ {e})
          BY <4>1, <4>3 DEF Station, FinishStation
        <5>2. FinishStation(todo[r] \ {e}) > FinishStation(todo[r])
          BY <2>2, <3>2, <3>4, <4>3, FinishOrder
        <5> QED
          BY <4>1, <5>1, <5>2
      <4> QED
        BY <3>1, <4>2, <4>3
    <3> QED
      BY <3>3, <3>4
  <2> QED
    BY <1>5, <2>1, <2>2, StationRange DEF CloseNext, Fail, Enter, Station
<1>6. CASE Reap(r)
  <2>1. rpc'[r] = "finish" /\ todo'[r] = OutputEnds /\ rpc[r] = "wait" /\ spc[r] = "zombie"
    BY <1>6 DEF Reap, Enter
  <2>2. Station(r)' = FinishStation(todo'[r])
    BY <2>1 DEF Station, FinishStation
  <2>3. Station(r)' \in 18 .. 19 /\ Station(r) = 17
    BY <2>1, <2>2, StationRange DEF Station
  <2> QED
    BY <2>1, <2>3, Agendas
<1> QED
  BY <1>1, <1>2, <1>3, <1>4, <1>5, <1>6 DEF ThreadStep

\* Every thread keeps something to do, and every child its parent.
LEMMA AttendedAlways == Spec => []Attended
<1>1. Init => Attended
  BY DEF Init, Attended, FS!FsInit
<1>2. Inv /\ Attended /\ [Next]_vars => Attended'
  <2> SUFFICES ASSUME Inv, Attended, [Next]_vars, NEW r \in Runs
               PROVE  /\ rpc'[r] \in {"open", "close", "finish"} => todo'[r] # {}
                      /\ rpc'[r] \in {"close", "configure", "input", "signal", "wait"} =>
                           spc'[r] \in FS!Living \cup {"zombie"}
    BY DEF Attended, FS!Living, FS!SetupSteps, FS!Window
  <2>1. rpc'[r] \in {"open", "close", "finish"} => todo'[r] # {}
    BY OwnStepsOnly, ThreadAdvances DEF Inv, Attended
  <2>2. CASE rpc[r] \in {"close", "configure", "input", "signal", "wait"}
    <3>1. spc[r] \in FS!Living \cup {"zombie"}
      BY <2>2 DEF Attended
    <3>2. spc'[r] \in FS!Living \cup {"zombie"} \/ Reap(r)
      BY <3>1, ChildOnly DEF Inv
    <3>3. Reap(r) => rpc'[r] = "finish"
      BY DEF Reap, Enter, Inv, RunInv, RunTypes
    <3> QED
      BY <2>1, <3>2, <3>3
  <2>3. CASE rpc[r] \notin {"close", "configure", "input", "signal", "wait"} /\ ThreadStep(r)
    <3>1. rpc'[r] \in {"close", "configure", "input", "signal", "wait"} =>
            Clone(r) /\ FS!Go(r, "gate")
      BY <2>3
      DEF Inv, RunInv, RunTypes, ThreadStep, Fail, Goto, Enter, Validate, Count, Stamp,
          OpenNext, Clone, CloseNext, Closed, AfterClosing, Configure, WriteInput,
          SignalChild, CloseThen, Reap
    <3> QED
      BY <2>1, <3>1 DEF FS!Go, FS!Living, FS!SetupSteps, Inv, RunInv
  <2> QED
    BY <2>1, <2>2, <2>3, OwnStepsOnly DEF Inv
<1> QED
  BY <1>1, <1>2, Invariance, PTL DEF Spec

\* No step takes a thread back.
LEMMA NeverBack ==
  ASSUME Inv, Attended, [Next]_vars, NEW r \in Runs
  PROVE  Station(r)' >= Station(r)
<1>1. CASE ThreadStep(r)
  <2>1. Station(r)' > Station(r)
    BY <1>1, ThreadAdvances DEF Inv
  <2>2. Station(r)' \in 1 .. 20 /\ Station(r) \in 1 .. 20
    BY <1>1, StationRange DEF Station, OpenStation, CloseStation, FinishStation
  <2> QED
    BY <2>1, <2>2
<1>2. CASE ~ThreadStep(r)
  <2>1. rpc'[r] = rpc[r] /\ todo'[r] = todo[r]
    BY <1>2, OwnStepsOnly DEF Inv
  <2>2. spc[r] = "zombie" => spc'[r] = "zombie"
    BY <1>2, ChildOnly DEF Inv, ThreadStep
  <2>3. Station(r)' = Station(r) \/ (Station(r) = 16 /\ Station(r)' = 17)
    BY <2>1, <2>2 DEF Station, OpenStation, CloseStation, FinishStation
  <2> QED
    BY <2>3, StationRange
<1> QED
  BY <1>1, <1>2

\* Once nobody holds the input pipe for reading nobody will.
LEMMA ReadersGone ==
  ASSUME Inv, [Next]_vars, NEW r \in Runs, rpc[r] = "input", rpc'[r] = "input",
         ~InputBlocks(r)
  PROVE  ~InputBlocks(r)'
<1> DEFINE end == T!ReadEnd("stdin")
<1>1. call' = call
  BY FsSteps
<1> SUFFICES ASSUME ~T!HeldSomewhere(r, end) PROVE ~T!HeldSomewhere(r, end)'
  BY <1>1 DEF InputBlocks
<1>2. end \in T!Ends
  BY DEF T!Ends, T!Pipes, T!ReadEnd
<1>3. end \notin InUse(r)' 
  BY <1>1 DEF InUse, PipesOf, ChildEnds, T!ReadEnd
<1>4. TableInv'
  BY TableStep DEF Inv
<1>5. \A n \in T!Fds : table'[n] # <<r, end>>
  BY <1>2, <1>3, <1>4 DEF TableInv, OnlyKnown, T!Fds, T!Ends, T!Pipes, T!ReadEnd
<1>6. \A q \in Runs : copies'[q] \subseteq copies[q] \cup {table[n] : n \in T!Fds}
  <2>0. copies \in [Runs -> SUBSET (Runs \X T!Ends)]
    BY DEF Inv, TableInv, T!TableTypes
  <2>1. ASSUME NEW q \in Runs, ThreadStep(q) \/ ChildStep(q)
        PROVE  \/ copies' = copies
               \/ copies' = [copies EXCEPT ![q] = {table[n] : n \in T!Fds} \ {Free, Foreign}]
               \/ \E S \in SUBSET copies[q] : copies' = [copies EXCEPT ![q] = S]
    BY <2>1
    DEF ThreadStep, ChildStep, Validate, Count, Stamp, OpenNext, T!OpenPipe, Clone, T!Inherit,
        CloseNext, Configure, WriteInput, SignalChild, Reap, tableVars, PassGate, T!Redirect,
        SetUp, Die, T!DropCopies
  <2>2. (\E q \in Runs : ThreadStep(q) \/ ChildStep(q)) \/ copies' = copies
    BY DEF Next, Over, Vanish, vars, tableVars
  <2> QED
    BY <2>0, <2>1, <2>2
<1> QED
  BY <1>5, <1>6 DEF T!HeldSomewhere

\* The thread is at station k, or past it.
At(r, k)   == Station(r) = k
Past(r, k) == Station(r) > k

\* A thread that is scheduled, with its time limit.
Scheduled(r) == Spec /\ RunFairness(r) /\ []ReadyRunsStep

MovesOn(r, k) == At(r, k) ~> Past(r, k)

\* The stations where a thread waits for nobody.
OwnStations == (1 .. 19) \ {14, 16}

\* It moves on from there.
LEMMA MovesOnAlone ==
  ASSUME NEW r \in Runs, NEW k \in OwnStations
  PROVE  Scheduled(r) => MovesOn(r, k)
<1>1. Inv /\ Attended /\ At(r, k) /\ [Next]_vars => At(r, k)' \/ Past(r, k)'
  <2> SUFFICES ASSUME Inv, Attended, At(r, k), [Next]_vars
               PROVE  Station(r)' = k \/ Station(r)' > k
    BY DEF At, Past
  <2>1. Station(r)' >= Station(r)
    BY NeverBack
  <2>2. Station(r)' \in 1 .. 20
    BY StationRange DEF Station, OpenStation, CloseStation, FinishStation
  <2> QED
    BY <2>1, <2>2 DEF At, OwnStations
<1>2. Inv /\ Attended /\ At(r, k) /\ <<ThreadStep(r)>>_vars => Past(r, k)'
  BY ThreadAdvances DEF Inv, At, Past
<1>3. Inv /\ Attended /\ At(r, k) /\ ReadyRunsStep => ENABLED <<ThreadStep(r)>>_vars
  <2> SUFFICES ASSUME Inv, Attended, At(r, k) PROVE ThreadReady(r)
    BY DEF ReadyRunsStep
  <2>1. CASE rpc[r] \in {"validate", "count", "stamp", "clone", "configure", "signal"}
    BY <2>1 DEF ThreadReady
  <2>2. CASE rpc[r] \in {"open", "close", "finish"}
    BY <2>2 DEF ThreadReady, Attended
  <2>3. CASE rpc[r] = "wait"
    BY <2>3 DEF ThreadReady, At, OwnStations, Station
  <2>4. rpc[r] \notin {"input", "returned", "failed"}
    BY DEF At, OwnStations, Station
  <2> QED
    BY <2>1, <2>2, <2>3, <2>4 DEF Inv, RunInv, RunTypes
<1>4. RunFairness(r) => WF_vars(ThreadStep(r))
  BY PTL DEF RunFairness
<1> QED
  BY <1>1, <1>2, <1>3, <1>4, Invariance, AttendedAlways, PTL DEF Scheduled, MovesOn, Spec

\* A child that lives is ended by the time limit if by nothing else.
LEMMA MovesOnInTime ==
  ASSUME NEW r \in Runs
  PROVE  Scheduled(r) => MovesOn(r, 16)
<1>1. Inv /\ Attended /\ At(r, 16) /\ [Next]_vars => At(r, 16)' \/ Past(r, 16)'
  <2> SUFFICES ASSUME Inv, Attended, At(r, 16), [Next]_vars
               PROVE  Station(r)' = 16 \/ Station(r)' > 16
    BY DEF At, Past
  <2>1. Station(r)' >= Station(r)
    BY NeverBack
  <2>2. Station(r)' \in 1 .. 20
    BY StationRange DEF Station, OpenStation, CloseStation, FinishStation
  <2> QED
    BY <2>1, <2>2 DEF At
<1>2. Inv /\ Attended /\ At(r, 16) /\ <<TimeOut(r)>>_vars => Past(r, 16)'
  BY DEF Inv, RunInv, TimeOut, Die, FS!End, FS!Go, Past, Station
<1>3. Inv /\ Attended /\ At(r, 16) /\ ReadyRunsStep => ENABLED <<TimeOut(r)>>_vars
  <2> SUFFICES ASSUME Inv, Attended, At(r, 16)
               PROVE  rpc[r] = "wait" /\ spc[r] \in FS!Living
    BY DEF ReadyRunsStep
  <2>1. rpc[r] = "wait" /\ spc[r] # "zombie"
    BY StationRange DEF At, Station
  <2> QED
    BY <2>1 DEF Attended
<1>4. RunFairness(r) => WF_vars(TimeOut(r))
  BY PTL DEF RunFairness
<1> QED
  BY <1>1, <1>2, <1>3, <1>4, Invariance, AttendedAlways, PTL DEF Scheduled, MovesOn, Spec

\* A thread that writes its input moves on, or is held up for ever.
LEMMA MovesOnOrStuck ==
  ASSUME NEW r \in Runs
  PROVE  Scheduled(r) => (At(r, 14) ~> (Past(r, 14) \/ []Stuck(r)))
<1>1. At(r, 14) => rpc[r] = "input"
  BY StationRange DEF At, Station
<1>2. Inv /\ Attended /\ At(r, 14) /\ [Next]_vars => At(r, 14)' \/ Past(r, 14)'
  <2> SUFFICES ASSUME Inv, Attended, At(r, 14), [Next]_vars
               PROVE  Station(r)' = 14 \/ Station(r)' > 14
    BY DEF At, Past
  <2>1. Station(r)' >= Station(r)
    BY NeverBack
  <2>2. Station(r)' \in 1 .. 20
    BY StationRange DEF Station, OpenStation, CloseStation, FinishStation
  <2> QED
    BY <2>1, <2>2 DEF At
<1>3. Inv /\ Attended /\ At(r, 14) /\ ~Stuck(r) /\ [Next]_vars => ~Stuck(r)'
  BY <1>1, ReadersGone DEF Stuck
<1>4. Inv /\ Attended /\ At(r, 14) /\ <<ThreadStep(r)>>_vars => Past(r, 14)'
  BY ThreadAdvances DEF Inv, At, Past
<1>5. At(r, 14) /\ ~Stuck(r) /\ ReadyRunsStep => ENABLED <<ThreadStep(r)>>_vars
  BY <1>1 DEF Stuck, ThreadReady, ReadyRunsStep
<1>6. RunFairness(r) => WF_vars(ThreadStep(r))
  BY PTL DEF RunFairness
<1> QED
  BY <1>2, <1>3, <1>4, <1>5, <1>6, Invariance, AttendedAlways, PTL DEF Scheduled, Spec

\* Every call of every thread returns unless its input holds it up, however
\* many threads there are, whichever calls fail, and whatever ends of its pipes
\* the children of other runs hold.
THEOREM CallsReturn == FairSpec /\ []ReadyRunsStep => ReturnsOrInputBlocks
<1> SUFFICES ASSUME NEW r \in Runs
             PROVE  FairSpec /\ []ReadyRunsStep => <>Ended(r) \/ <>[]Stuck(r)
  BY DEF ReturnsOrInputBlocks
<1>1. Fairness => RunFairness(r)
  BY DEF Fairness
<1>2. FairSpec /\ []ReadyRunsStep => Scheduled(r)
  BY <1>1, PTL DEF FairSpec, Scheduled
<1>3. OwnStations = {1, 2, 3, 4, 5, 6, 7, 8, 9, 10, 11, 12, 13, 15, 17, 18, 19}
  BY DEF OwnStations
<1>4. Scheduled(r) =>
        /\ MovesOn(r, 1) /\ MovesOn(r, 2) /\ MovesOn(r, 3) /\ MovesOn(r, 4)
        /\ MovesOn(r, 5) /\ MovesOn(r, 6) /\ MovesOn(r, 7) /\ MovesOn(r, 8)
        /\ MovesOn(r, 9) /\ MovesOn(r, 10) /\ MovesOn(r, 11) /\ MovesOn(r, 12)
        /\ MovesOn(r, 13) /\ MovesOn(r, 15) /\ MovesOn(r, 17) /\ MovesOn(r, 18)
        /\ MovesOn(r, 19)
  BY <1>3, MovesOnAlone
<1>5. Scheduled(r) => MovesOn(r, 16)
  BY MovesOnInTime
<1>6. Scheduled(r) => (At(r, 14) ~> (Past(r, 14) \/ []Stuck(r)))
  BY MovesOnOrStuck
<1>7. At(r, 1) \/ Past(r, 1)
  BY StationRange DEF At, Past
<1>8. /\ Past(r, 1) => At(r, 2) \/ Past(r, 2)
      /\ Past(r, 2) => At(r, 3) \/ Past(r, 3)
      /\ Past(r, 3) => At(r, 4) \/ Past(r, 4)
      /\ Past(r, 4) => At(r, 5) \/ Past(r, 5)
      /\ Past(r, 5) => At(r, 6) \/ Past(r, 6)
      /\ Past(r, 6) => At(r, 7) \/ Past(r, 7)
      /\ Past(r, 7) => At(r, 8) \/ Past(r, 8)
      /\ Past(r, 8) => At(r, 9) \/ Past(r, 9)
      /\ Past(r, 9) => At(r, 10) \/ Past(r, 10)
      /\ Past(r, 10) => At(r, 11) \/ Past(r, 11)
      /\ Past(r, 11) => At(r, 12) \/ Past(r, 12)
      /\ Past(r, 12) => At(r, 13) \/ Past(r, 13)
      /\ Past(r, 13) => At(r, 14) \/ Past(r, 14)
      /\ Past(r, 14) => At(r, 15) \/ Past(r, 15)
      /\ Past(r, 15) => At(r, 16) \/ Past(r, 16)
      /\ Past(r, 16) => At(r, 17) \/ Past(r, 17)
      /\ Past(r, 17) => At(r, 18) \/ Past(r, 18)
      /\ Past(r, 18) => At(r, 19) \/ Past(r, 19)
  BY StationRange DEF At, Past
<1>9. Inv /\ Past(r, 19) => Ended(r)
  <2> SUFFICES ASSUME Inv, Past(r, 19) PROVE Ended(r)
    OBVIOUS
  <2> QED
    BY StationRange DEF Past, Station, Ended, Inv, RunInv, RunTypes
<1>10. Scheduled(r) => []Inv
  BY Invariance, PTL DEF Scheduled
<1>11. Scheduled(r) => (Past(r, 14) ~> Past(r, 19))
  BY <1>4, <1>5, <1>8, PTL DEF MovesOn
<1>12. Scheduled(r) => (Past(r, 8) ~> (Past(r, 14) \/ []Stuck(r)))
  BY <1>4, <1>6, <1>8, PTL DEF MovesOn
<1>13. Scheduled(r) => (TRUE ~> Past(r, 8))
  BY <1>4, <1>7, <1>8, PTL DEF MovesOn
<1> QED
  BY <1>2, <1>9, <1>10, <1>11, <1>12, <1>13, PTL

=============================================================================
