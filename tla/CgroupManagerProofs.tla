------------------------- MODULE CgroupManagerProofs -------------------------
(***************************************************************************)
(* No command runs unlimited, for any number of executions and whatever    *)
(* the kernel does with process identifiers; whom a cleanup can hit; and   *)
(* what fresh identifiers add to it.                                       *)
(***************************************************************************)
EXTENDS CgroupManager, TLAPS

\* The child exists, so the kernel gives its identifier to nobody else.
Unreaped == Alive \cup {"zombie"}

\* The steps of an execution during which its child is certainly unreaped.
Preparing == {"base", "mkbase", "enable", "mkdir", "limit", "add", "signal", "wait"}

\* The identifier of an unreaped child is its own.
Identifiers ==
  /\ \A r \in Runs : rpc[r] = "clone" <=> child[r] = "none"
  /\ \A r \in Runs : child[r] # "none" => pid[r] \in Pids
  /\ \A r \in Runs : rpc[r] \in Preparing => child[r] \in Unreaped
  /\ \A r, q \in Runs :
       r # q /\ child[r] \in Unreaped /\ child[q] \in Unreaped => pid[r] # pid[q]

\* Who was added to a directory, and what holds of the directory as long as
\* the child lives: a member keeps remove_dir from removing it.  Between the
\* two steps the directory may go, but then it does not come back: only an
\* execution with the same unreaped identifier could create it again.
Membership ==
  /\ \A r \in Runs : rpc[r] = "clone" => r \notin joined
  /\ \A r \in Runs : rpc[r] = "signal" => r \in joined
  /\ \A r \in Runs : rpc[r] = "add" /\ Dir(r) \in dirs => r \in limited
  /\ \A r \in Runs :
       r \in joined /\ child[r] \in Alive => Dir(r) \in dirs /\ r \in limited
  /\ \A r \in Runs : child[r] = "running" => r \in joined

Inv == TypeOK /\ Identifiers /\ Membership

\* Types are preserved by every step.
LEMMA TypeStep == Inv /\ [Next]_vars => TypeOK'
<1> SUFFICES ASSUME TypeOK, Identifiers, Membership, [Next]_vars
             PROVE  TypeOK' BY DEF Inv
<1> USE DEF TypeOK, vars, runVars, treeVars, memberVars, unseenVars, Alive,
        Members, Dir
<1>1. CASE \E r \in Runs : CloneChild(r)
  BY <1>1 DEF CloneChild, Goto, FreePids
<1>2. CASE \E r \in Runs : CheckBase(r)
  BY <1>2 DEF CheckBase, Goto
<1>3. CASE \E r \in Runs : MakeBase(r)
  BY <1>3 DEF MakeBase, Goto, FailEarly
<1>4. CASE \E r \in Runs : EnableControllers(r)
  <2> PICK r \in Runs : EnableControllers(r)
    BY <1>4
  <2>1. rootEnabled' \in BOOLEAN
    BY DEF EnableControllers
  <2>2. rpc' = [rpc EXCEPT ![r] = "mkdir"]
    BY DEF EnableControllers, Goto
  <2>3. UNCHANGED <<pid, child, report, reportedOom, baseExists, baseEnabled,
                    dirs, memberVars, unseenVars>>
    BY DEF EnableControllers
  <2> QED BY <2>1, <2>2, <2>3
<1>5. CASE \E r \in Runs : MakeDir(r)
  BY <1>5 DEF MakeDir, Goto, FailEarly, Identifiers
<1>6. CASE \E r \in Runs : SetLimits(r)
  BY <1>6 DEF SetLimits, Goto, FailLate
<1>7. CASE \E r \in Runs : AddProcess(r)
  BY <1>7 DEF AddProcess, Goto, FailLate
<1>8. CASE \E r \in Runs : SignalChild(r)
  BY <1>8 DEF SignalChild, Goto, FailLate
<1>9. CASE \E r \in Runs : Reap(r)
  BY <1>9 DEF Reap, Goto
<1>10. CASE \E r \in Runs : CollectStats(r)
  BY <1>10 DEF CollectStats, Goto
<1>11. CASE \E r \in Runs : KillRound(r)
  BY <1>11 DEF KillRound, Goto
<1>12. CASE \E r \in Runs : RemoveDir(r)
  BY <1>12 DEF RemoveDir, Removed, Goto
<1>13. CASE \E r \in Runs : ChildDies(r)
  BY <1>13 DEF ChildDies, Goto
<1>14. CASE \E r \in Runs : OomKill(r)
  BY <1>14 DEF OomKill, Goto, Membership
<1>15. CASE UNCHANGED vars
  BY <1>15
<1> QED
  BY <1>1, <1>2, <1>3, <1>4, <1>5, <1>6, <1>7,
     <1>8, <1>9, <1>10, <1>11, <1>12, <1>13, <1>14, <1>15
  DEF Next, RunStep, KernelStep, AllReturned

\* Identifiers stay with their unreaped children.
LEMMA IdentifiersStep == TypeOK /\ Identifiers /\ [Next]_vars => Identifiers'
<1> SUFFICES ASSUME TypeOK /\ Identifiers, [Next]_vars
             PROVE  Identifiers' OBVIOUS
<1> USE DEF TypeOK, Identifiers, Unreaped, Preparing, Alive, vars, runVars,
        treeVars, memberVars, unseenVars
<1>1. CASE \E r \in Runs : CloneChild(r)
  BY <1>1 DEF CloneChild, Goto, FreePids
<1>2. CASE \E r \in Runs : CheckBase(r)
  BY <1>2 DEF CheckBase, Goto
<1>3. CASE \E r \in Runs : MakeBase(r)
  BY <1>3 DEF MakeBase, Goto, FailEarly
<1>4. CASE \E r \in Runs : EnableControllers(r)
  BY <1>4 DEF EnableControllers, Goto
<1>5. CASE \E r \in Runs : MakeDir(r)
  BY <1>5 DEF MakeDir, Goto, FailEarly
<1>6. CASE \E r \in Runs : SetLimits(r)
  BY <1>6 DEF SetLimits, Goto, FailLate
<1>7. CASE \E r \in Runs : AddProcess(r)
  BY <1>7 DEF AddProcess, Goto, FailLate
<1>8. CASE \E r \in Runs : SignalChild(r)
  BY <1>8 DEF SignalChild, Goto, FailLate
<1>9. CASE \E r \in Runs : Reap(r)
  BY <1>9 DEF Reap, Goto
<1>10. CASE \E r \in Runs : CollectStats(r)
  BY <1>10 DEF CollectStats, Goto
<1>11. CASE \E r \in Runs : KillRound(r)
  BY <1>11 DEF KillRound, Goto
<1>12. CASE \E r \in Runs : RemoveDir(r)
  BY <1>12 DEF RemoveDir, Removed, Goto
<1>13. CASE \E r \in Runs : ChildDies(r)
  BY <1>13 DEF ChildDies, Goto
<1>14. CASE \E r \in Runs : OomKill(r)
  BY <1>14 DEF OomKill, Goto
<1>15. CASE UNCHANGED vars
  BY <1>15
<1> QED
  BY <1>1, <1>2, <1>3, <1>4, <1>5, <1>6, <1>7,
     <1>8, <1>9, <1>10, <1>11, <1>12, <1>13, <1>14, <1>15
  DEF Next, RunStep, KernelStep, AllReturned

\* Membership protects a directory from every execution's cleanup.
LEMMA MembershipStep ==
  TypeOK /\ Identifiers /\ Membership /\ [Next]_vars => Membership'
<1> SUFFICES ASSUME TypeOK /\ Identifiers /\ Membership, [Next]_vars
             PROVE  Membership' OBVIOUS
<1> USE DEF TypeOK, Identifiers, Membership, Unreaped, Preparing, Alive, Dir,
        Members, vars, runVars, treeVars, memberVars, unseenVars
<1>1. CASE \E r \in Runs : CloneChild(r)
  BY <1>1 DEF CloneChild, Goto
<1>2. CASE \E r \in Runs : CheckBase(r)
  BY <1>2 DEF CheckBase, Goto
<1>3. CASE \E r \in Runs : MakeBase(r)
  BY <1>3 DEF MakeBase, Goto, FailEarly
<1>4. CASE \E r \in Runs : EnableControllers(r)
  BY <1>4 DEF EnableControllers, Goto
<1>5. CASE \E r \in Runs : MakeDir(r)
  BY <1>5 DEF MakeDir, Goto, FailEarly
<1>6. CASE \E r \in Runs : SetLimits(r)
  BY <1>6 DEF SetLimits, Goto, FailLate
<1>7. CASE \E r \in Runs : AddProcess(r)
  BY <1>7 DEF AddProcess, Goto, FailLate
<1>8. CASE \E r \in Runs : SignalChild(r)
  BY <1>8 DEF SignalChild, Goto, FailLate
<1>9. CASE \E r \in Runs : Reap(r)
  BY <1>9 DEF Reap, Goto
<1>10. CASE \E r \in Runs : CollectStats(r)
  BY <1>10 DEF CollectStats, Goto
<1>11. CASE \E r \in Runs : KillRound(r)
  BY <1>11 DEF KillRound, Goto
<1>12. CASE \E r \in Runs : RemoveDir(r)
  BY <1>12 DEF RemoveDir, Removed, Goto
<1>13. CASE \E r \in Runs : ChildDies(r)
  BY <1>13 DEF ChildDies, Goto
<1>14. CASE \E r \in Runs : OomKill(r)
  BY <1>14 DEF OomKill, Goto
<1>15. CASE UNCHANGED vars
  BY <1>15
<1> QED
  BY <1>1, <1>2, <1>3, <1>4, <1>5, <1>6, <1>7,
     <1>8, <1>9, <1>10, <1>11, <1>12, <1>13, <1>14, <1>15
  DEF Next, RunStep, KernelStep, AllReturned

\* The initial states satisfy the invariant.
LEMMA InvInit == Init => Inv
  BY NoPidAssumption, HostsAssumption
  DEF Init, Inv, TypeOK, HostType, Identifiers, Membership, Alive, Unreaped, Preparing

\* The identifiers, the memberships and the directories stay consistent.
THEOREM Invariance == Spec => []Inv
<1>1. Inv /\ [Next]_vars => Inv'
  BY TypeStep, IdentifiersStep, MembershipStep DEF Inv
<1> QED BY <1>1, InvInit, PTL DEF Spec

\* Every reachable state is well typed.
THEOREM TypeCorrect == Spec => []TypeOK
<1>1. Inv => TypeOK
  BY DEF Inv
<1> QED BY <1>1, Invariance, PTL

\* A command never runs outside a cgroup with its own limits, even when
\* identifiers, and so directory names, are reused.
THEOREM Limited == Spec => []RunsLimited
<1>1. Inv => RunsLimited
  BY DEF Inv, Membership, RunsLimited, Alive
<1> QED BY <1>1, Invariance, PTL

-----------------------------------------------------------------------------
(* Whom a cleanup kills *)

\* No identifier is ever given out twice.
FreshIdentifiers ==
  \A r, q \in Runs :
    r # q /\ child[r] # "none" /\ child[q] # "none" => pid[r] # pid[q]

\* A signalled child exists, so its identifier is final; and an execution past
\* its wait holds a result.
Blame ==
  /\ ~host.reuse => FreshIdentifiers
  /\ \A r \in Runs : killedBy[r] # {} => child[r] # "none"
  /\ \A r \in Runs : child[r] = "reaped" => rpc[r] = "stats" \/ report[r] = "ok"
  /\ CleanupKillsOnlyReused

\* A cleaner that shares its directory with a living child of another shares its
\* identifier, which it can only have given up by reaping its own child.
LEMMA BlameStep == Inv /\ Blame /\ [Next]_vars => Blame'
<1> SUFFICES ASSUME Inv, Blame, [Next]_vars PROVE Blame'
  OBVIOUS
<1> USE DEF Inv, TypeOK, Identifiers, Blame, CleanupKillsOnlyReused,
            FreshIdentifiers, Unreaped, Alive, vars, runVars, treeVars, memberVars,
            unseenVars
<1>1. CASE \E r \in Runs : CloneChild(r)
  BY <1>1 DEF CloneChild, Goto, FreePids
<1>2. CASE \E r \in Runs : CheckBase(r)
  BY <1>2 DEF CheckBase, Goto
<1>3. CASE \E r \in Runs : MakeBase(r)
  BY <1>3 DEF MakeBase, Goto, FailEarly, Preparing
<1>4. CASE \E r \in Runs : EnableControllers(r)
  BY <1>4 DEF EnableControllers, Goto
<1>5. CASE \E r \in Runs : MakeDir(r)
  BY <1>5 DEF MakeDir, Goto, FailEarly, Preparing
<1>6. CASE \E r \in Runs : SetLimits(r)
  BY <1>6 DEF SetLimits, Goto, FailLate, Preparing
<1>7. CASE \E r \in Runs : AddProcess(r)
  BY <1>7 DEF AddProcess, Goto, FailLate, Preparing
<1>8. CASE \E r \in Runs : SignalChild(r)
  BY <1>8 DEF SignalChild, Goto, FailLate, Preparing
<1>9. CASE \E r \in Runs : Reap(r)
  BY <1>9 DEF Reap, Goto, Preparing
<1>10. CASE \E r \in Runs : CollectStats(r)
  BY <1>10 DEF CollectStats, Goto, Preparing
<1>11. CASE \E r \in Runs : KillRound(r)
  BY <1>11 DEF KillRound, Goto, Members, Dir, Preparing
<1>12. CASE \E r \in Runs : RemoveDir(r)
  BY <1>12 DEF RemoveDir, Removed, Goto
<1>13. CASE \E r \in Runs : ChildDies(r)
  BY <1>13 DEF ChildDies, Goto
<1>14. CASE \E r \in Runs : OomKill(r)
  BY <1>14 DEF OomKill, Goto
<1>15. CASE UNCHANGED vars
  BY <1>15
<1> QED
  BY <1>1, <1>2, <1>3, <1>4, <1>5, <1>6, <1>7,
     <1>8, <1>9, <1>10, <1>11, <1>12, <1>13, <1>14, <1>15
  DEF Next, RunStep, KernelStep, AllReturned

\* For any number of executions, with identifiers reused and directories left
\* behind: a cleanup kills another execution's child only if that child was given
\* the identifier of the cleaner's own, which the cleaner had reaped.
THEOREM KillsOnlyReused == Spec => []CleanupKillsOnlyReused
<1>1. Init => Blame
  BY DEF Init, Blame, CleanupKillsOnlyReused, FreshIdentifiers
<1>2. Blame => CleanupKillsOnlyReused
  BY DEF Blame
<1> QED BY <1>1, <1>2, BlameStep, Invariance, PTL DEF Spec

-----------------------------------------------------------------------------
(* What fresh identifiers and a clean start add *)

\* Where an execution is with a running child and with a result.
Stages ==
  /\ \A r \in Runs : child[r] = "running" => rpc[r] = "wait"
  /\ \A r \in Runs : report[r] = "ok" => rpc[r] \in {"kill", "rmdir", "returned"}
  /\ \A r \in Runs : rpc[r] = "stats" \/ report[r] = "ok" => child[r] = "reaped"
  /\ \A r \in Runs : r \in reportedOom => report[r] = "ok"

\* Whose OOM kills a directory counts, until its execution removes it.
OomOwners ==
  /\ \A d \in oomDirs : \E r \in oomHit : Dir(r) = d
  /\ \A r \in oomHit : rpc[r] \in {"wait", "stats", "kill", "rmdir", "returned"}
  /\ \A r \in oomHit : rpc[r] \in {"wait", "stats"} => Dir(r) \in oomDirs

Isolation ==
  /\ FreshIdentifiers
  /\ Stages
  /\ OomOwners
  /\ OomAttributed
  /\ DirRemoved

\* With fresh identifiers the executions stay apart.
LEMMA IsolationStep ==
  NamesAreFresh /\ Inv /\ Isolation /\ [Next]_vars => Isolation'
<1> SUFFICES ASSUME NamesAreFresh, Inv, Isolation, [Next]_vars PROVE Isolation'
  OBVIOUS
<1> USE DEF Inv, TypeOK, Identifiers, Membership, Isolation, Unreaped, Alive,
            vars, runVars, treeVars, memberVars, unseenVars, NamesAreFresh
<1>1. CASE \E r \in Runs : CloneChild(r)
  <2>1. FreshIdentifiers'
    BY <1>1 DEF CloneChild, Goto, FreePids, FreshIdentifiers
  <2>2. Stages'
    BY <1>1 DEF CloneChild, Goto, Stages, Preparing
  <2>3. OomOwners'
    BY <1>1 DEF CloneChild, Goto, OomOwners, FreshIdentifiers, Stages, Dir,
       Members
  <2>4. OomAttributed'
    BY <1>1 DEF CloneChild, Goto, OomAttributed, OomOwners, FreshIdentifiers,
       Stages, Dir
  <2>5. DirRemoved'
    BY <1>1 DEF CloneChild, Goto, DirRemoved, FreshIdentifiers, Stages, Dir,
       Members, Preparing
  <2> QED BY <2>1, <2>2, <2>3, <2>4, <2>5
<1>2. CASE \E r \in Runs : CheckBase(r)
  <2>1. FreshIdentifiers'
    BY <1>2 DEF CheckBase, Goto, FreshIdentifiers
  <2>2. Stages'
    BY <1>2 DEF CheckBase, Goto, Stages, Preparing
  <2>3. OomOwners'
    BY <1>2 DEF CheckBase, Goto, OomOwners, FreshIdentifiers, Stages, Dir,
       Members
  <2>4. OomAttributed'
    BY <1>2 DEF CheckBase, Goto, OomAttributed, OomOwners, FreshIdentifiers,
       Stages, Dir
  <2>5. DirRemoved'
    BY <1>2 DEF CheckBase, Goto, DirRemoved, FreshIdentifiers, Stages, Dir,
       Members, Preparing
  <2> QED BY <2>1, <2>2, <2>3, <2>4, <2>5
<1>3. CASE \E r \in Runs : MakeBase(r)
  <2>1. FreshIdentifiers'
    BY <1>3 DEF MakeBase, Goto, FailEarly, FreshIdentifiers
  <2>2. Stages'
    BY <1>3 DEF MakeBase, Goto, FailEarly, Stages, Preparing
  <2>3. OomOwners'
    BY <1>3 DEF MakeBase, Goto, FailEarly, OomOwners, FreshIdentifiers, Stages,
       Dir, Members
  <2>4. OomAttributed'
    BY <1>3 DEF MakeBase, Goto, FailEarly, OomAttributed, OomOwners,
       FreshIdentifiers, Stages, Dir
  <2>5. DirRemoved'
    BY <1>3 DEF MakeBase, Goto, FailEarly, DirRemoved, FreshIdentifiers, Stages,
       Dir, Members, Preparing
  <2> QED BY <2>1, <2>2, <2>3, <2>4, <2>5
<1>4. CASE \E r \in Runs : EnableControllers(r)
  <2>1. FreshIdentifiers'
    BY <1>4 DEF EnableControllers, Goto, FreshIdentifiers
  <2>2. Stages'
    BY <1>4 DEF EnableControllers, Goto, Stages, Preparing
  <2>3. OomOwners'
    BY <1>4 DEF EnableControllers, Goto, OomOwners, FreshIdentifiers, Stages,
       Dir, Members
  <2>4. OomAttributed'
    BY <1>4 DEF EnableControllers, Goto, OomAttributed, OomOwners,
       FreshIdentifiers, Stages, Dir
  <2>5. DirRemoved'
    BY <1>4 DEF EnableControllers, Goto, DirRemoved, FreshIdentifiers, Stages,
       Dir, Members, Preparing
  <2> QED BY <2>1, <2>2, <2>3, <2>4, <2>5
<1>5. CASE \E r \in Runs : MakeDir(r)
  <2>1. FreshIdentifiers'
    BY <1>5 DEF MakeDir, Goto, FailEarly, FreshIdentifiers
  <2>2. Stages'
    BY <1>5 DEF MakeDir, Goto, FailEarly, Stages, Preparing
  <2>3. OomOwners'
    BY <1>5 DEF MakeDir, Goto, FailEarly, OomOwners, FreshIdentifiers, Stages,
       Dir, Members
  <2>4. OomAttributed'
    BY <1>5 DEF MakeDir, Goto, FailEarly, OomAttributed, OomOwners,
       FreshIdentifiers, Stages, Dir
  <2>5. DirRemoved'
    BY <1>5 DEF MakeDir, Goto, FailEarly, DirRemoved, FreshIdentifiers, Stages,
       Dir, Members, Preparing
  <2> QED BY <2>1, <2>2, <2>3, <2>4, <2>5
<1>6. CASE \E r \in Runs : SetLimits(r)
  <2>1. FreshIdentifiers'
    BY <1>6 DEF SetLimits, Goto, FailLate, FreshIdentifiers
  <2>2. Stages'
    BY <1>6 DEF SetLimits, Goto, FailLate, Stages, Preparing
  <2>3. OomOwners'
    BY <1>6 DEF SetLimits, Goto, FailLate, OomOwners, FreshIdentifiers, Stages,
       Dir, Members
  <2>4. OomAttributed'
    BY <1>6 DEF SetLimits, Goto, FailLate, OomAttributed, OomOwners,
       FreshIdentifiers, Stages, Dir
  <2>5. DirRemoved'
    BY <1>6 DEF SetLimits, Goto, FailLate, DirRemoved, FreshIdentifiers, Stages,
       Dir, Members, Preparing
  <2> QED BY <2>1, <2>2, <2>3, <2>4, <2>5
<1>7. CASE \E r \in Runs : AddProcess(r)
  <2>1. FreshIdentifiers'
    BY <1>7 DEF AddProcess, Goto, FailLate, FreshIdentifiers
  <2>2. Stages'
    BY <1>7 DEF AddProcess, Goto, FailLate, Stages, Preparing
  <2>3. OomOwners'
    BY <1>7 DEF AddProcess, Goto, FailLate, OomOwners, FreshIdentifiers, Stages,
       Dir, Members
  <2>4. OomAttributed'
    BY <1>7 DEF AddProcess, Goto, FailLate, OomAttributed, OomOwners,
       FreshIdentifiers, Stages, Dir
  <2>5. DirRemoved'
    BY <1>7 DEF AddProcess, Goto, FailLate, DirRemoved, FreshIdentifiers,
       Stages, Dir, Members, Preparing
  <2> QED BY <2>1, <2>2, <2>3, <2>4, <2>5
<1>8. CASE \E r \in Runs : SignalChild(r)
  <2>1. FreshIdentifiers'
    BY <1>8 DEF SignalChild, Goto, FailLate, FreshIdentifiers
  <2>2. Stages'
    BY <1>8 DEF SignalChild, Goto, FailLate, Stages, Preparing
  <2>3. OomOwners'
    BY <1>8 DEF SignalChild, Goto, FailLate, OomOwners, FreshIdentifiers,
       Stages, Dir, Members
  <2>4. OomAttributed'
    BY <1>8 DEF SignalChild, Goto, FailLate, OomAttributed, OomOwners,
       FreshIdentifiers, Stages, Dir
  <2>5. DirRemoved'
    BY <1>8 DEF SignalChild, Goto, FailLate, DirRemoved, FreshIdentifiers,
       Stages, Dir, Members, Preparing
  <2> QED BY <2>1, <2>2, <2>3, <2>4, <2>5
<1>9. CASE \E r \in Runs : Reap(r)
  <2>1. FreshIdentifiers'
    BY <1>9 DEF Reap, Goto, FreshIdentifiers
  <2>2. Stages'
    BY <1>9 DEF Reap, Goto, Stages, Preparing
  <2>3. OomOwners'
    BY <1>9 DEF Reap, Goto, OomOwners, FreshIdentifiers, Stages, Dir, Members
  <2>4. OomAttributed'
    BY <1>9 DEF Reap, Goto, OomAttributed, OomOwners, FreshIdentifiers, Stages,
       Dir
  <2>5. DirRemoved'
    BY <1>9 DEF Reap, Goto, DirRemoved, FreshIdentifiers, Stages, Dir, Members,
       Preparing
  <2> QED BY <2>1, <2>2, <2>3, <2>4, <2>5
<1>10. CASE \E r \in Runs : CollectStats(r)
  <2>1. FreshIdentifiers'
    BY <1>10 DEF CollectStats, Goto, FreshIdentifiers
  <2>2. Stages'
    BY <1>10 DEF CollectStats, Goto, Stages, Preparing
  <2>3. OomOwners'
    BY <1>10 DEF CollectStats, Goto, OomOwners, FreshIdentifiers, Stages, Dir,
       Members
  <2>4. OomAttributed'
    BY <1>10 DEF CollectStats, Goto, OomAttributed, OomOwners, FreshIdentifiers,
       Stages, Dir
  <2>5. DirRemoved'
    BY <1>10 DEF CollectStats, Goto, DirRemoved, FreshIdentifiers, Stages, Dir,
       Members, Preparing
  <2> QED BY <2>1, <2>2, <2>3, <2>4, <2>5
<1>11. CASE \E r \in Runs : KillRound(r)
  <2>1. FreshIdentifiers'
    BY <1>11 DEF KillRound, Goto, FreshIdentifiers
  <2>2. Stages'
    BY <1>11 DEF KillRound, Goto, Stages, Preparing
  <2>3. OomOwners'
    BY <1>11 DEF KillRound, Goto, OomOwners, FreshIdentifiers, Stages, Dir,
       Members
  <2>4. OomAttributed'
    BY <1>11 DEF KillRound, Goto, OomAttributed, OomOwners, FreshIdentifiers,
       Stages, Dir
  <2>5. DirRemoved'
    BY <1>11 DEF KillRound, Goto, DirRemoved, FreshIdentifiers, Stages, Dir,
       Members, Preparing
  <2> QED BY <2>1, <2>2, <2>3, <2>4, <2>5
<1>12. CASE \E r \in Runs : RemoveDir(r)
  <2>1. FreshIdentifiers'
    BY <1>12 DEF RemoveDir, Removed, Goto, FreshIdentifiers
  <2>2. Stages'
    BY <1>12 DEF RemoveDir, Removed, Goto, Stages, Preparing
  <2>3. OomOwners'
    BY <1>12 DEF RemoveDir, Removed, Goto, OomOwners, FreshIdentifiers, Stages,
       Dir, Members
  <2>4. OomAttributed'
    BY <1>12 DEF RemoveDir, Removed, Goto, OomAttributed, OomOwners,
       FreshIdentifiers, Stages, Dir
  <2>5. DirRemoved'
    BY <1>12 DEF RemoveDir, Removed, Goto, DirRemoved, FreshIdentifiers, Stages,
       Dir, Members, Preparing
  <2> QED BY <2>1, <2>2, <2>3, <2>4, <2>5
<1>13. CASE \E r \in Runs : ChildDies(r)
  <2>1. FreshIdentifiers'
    BY <1>13 DEF ChildDies, Goto, FreshIdentifiers
  <2>2. Stages'
    BY <1>13 DEF ChildDies, Goto, Stages, Preparing
  <2>3. OomOwners'
    BY <1>13 DEF ChildDies, Goto, OomOwners, FreshIdentifiers, Stages, Dir,
       Members
  <2>4. OomAttributed'
    BY <1>13 DEF ChildDies, Goto, OomAttributed, OomOwners, FreshIdentifiers,
       Stages, Dir
  <2>5. DirRemoved'
    BY <1>13 DEF ChildDies, Goto, DirRemoved, FreshIdentifiers, Stages, Dir,
       Members, Preparing
  <2> QED BY <2>1, <2>2, <2>3, <2>4, <2>5
<1>14. CASE \E r \in Runs : OomKill(r)
  <2>1. FreshIdentifiers'
    BY <1>14 DEF OomKill, Goto, FreshIdentifiers
  <2>2. Stages'
    BY <1>14 DEF OomKill, Goto, Stages, Preparing
  <2>3. OomOwners'
    BY <1>14 DEF OomKill, Goto, OomOwners, FreshIdentifiers, Stages, Dir,
       Members
  <2>4. OomAttributed'
    BY <1>14 DEF OomKill, Goto, OomAttributed, OomOwners, FreshIdentifiers,
       Stages, Dir
  <2>5. DirRemoved'
    BY <1>14 DEF OomKill, Goto, DirRemoved, FreshIdentifiers, Stages, Dir,
       Members, Preparing
  <2> QED BY <2>1, <2>2, <2>3, <2>4, <2>5
<1>15. CASE UNCHANGED vars
  BY <1>15 DEF FreshIdentifiers, Stages, OomOwners,
     OomAttributed, DirRemoved, Dir, Members
<1> QED
  BY <1>1, <1>2, <1>3, <1>4, <1>5, <1>6, <1>7,
     <1>8, <1>9, <1>10, <1>11, <1>12, <1>13, <1>14, <1>15
  DEF Next, RunStep, KernelStep, AllReturned

\* Without leftovers the executions start apart.
LEMMA IsolationInit == NamesAreFresh /\ Init => Isolation
  BY DEF Init, NamesAreFresh, Isolation, FreshIdentifiers, Stages, OomOwners,
         OomAttributed, DirRemoved

\* When the kernel hands out every identifier once and no directory was left
\* behind, executions stay apart for ever: the machine does not change.
LEMMA Isolated == Spec => [](NamesAreFresh => Isolation)
<1>1. Init => (NamesAreFresh => Isolation)
  BY IsolationInit
<1>2. Inv /\ (NamesAreFresh => Isolation) /\ [Next]_vars
      => (NamesAreFresh => Isolation)'
  <2>1. [Next]_vars => UNCHANGED host
    BY DEF Next, RunStep, KernelStep, AllReturned, CloneChild, CheckBase,
       MakeBase, EnableControllers, MakeDir, SetLimits, AddProcess, SignalChild,
       Reap, CollectStats, KillRound, RemoveDir, ChildDies, OomKill, vars,
       unseenVars
  <2> QED BY <2>1, IsolationStep DEF NamesAreFresh
<1> QED BY <1>1, <1>2, Invariance, PTL DEF Spec

\* killed_by_oom is the execution's own.
THEOREM OwnOom == Spec => []OomAttributed
<1>1. (NamesAreFresh => Isolation) => OomAttributed
  BY DEF Isolation, OomAttributed
<1> QED BY <1>1, Isolated, PTL

\* The directory of a call that returned a result is gone.
THEOREM Removes == Spec => []DirRemoved
<1>1. (NamesAreFresh => Isolation) => DirRemoved
  BY DEF Isolation, DirRemoved
<1> QED BY <1>1, Isolated, PTL

=============================================================================
