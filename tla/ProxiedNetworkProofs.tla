------------------------ MODULE ProxiedNetworkProofs ------------------------
(***************************************************************************)
(* Ports are never shared nor leaked and a dropped proxy is down, for any  *)
(* number of networks, ports and outsiders.                                *)
(***************************************************************************)
EXTENDS ProxiedNetwork, TLAPS

\* How far the accept loop can be where its owner is.
Stages ==
  /\ \A n \in Nets : phase[n] \in {"idle", "probe", "chosen", "failed"} <=> task[n] = "none"
  /\ \A n \in Nets : phase[n] = "dropped" <=> task[n] = "aborted"
  /\ \A n \in Nets : phase[n] \notin {"idle", "failed"} => port[n] \in Ports

\* A listener, and the probe of find_free_port, own their port; and nobody else
\* among the networks owns one.
Ownership ==
  /\ ListenersOwnPorts
  /\ \A n \in Nets : phase[n] = "probe" => owner[port[n]] = n
  /\ NoPortLeaks

\* Connections to a network are handled by tasks of its runtime.
Service ==
  \A c \in conns : c[2] \in Nets => task[c[2]] \in {"listening", "stopped"}

Inv == TypeOK /\ Stages /\ Ownership /\ Service

\* Types are preserved by every step.
LEMMA TypeStep == Inv /\ [Next]_vars => TypeOK'
<1> SUFFICES ASSUME Inv, [Next]_vars
             PROVE  TypeOK'
  OBVIOUS
<1> USE NetsAssumption, PortsAssumption DEF Inv, TypeOK, Stages, Connections
<1>1. CASE \E n \in Nets : FindPort(n)
  BY <1>1 DEF FindPort
<1>2. CASE \E n \in Nets : ReleasePort(n)
  BY <1>2 DEF ReleasePort, DropsProbe
<1>3. CASE \E n \in Nets : SpawnProxy(n)
  BY <1>3 DEF SpawnProxy
<1>4. CASE \E n \in Nets : EndSetup(n)
  BY <1>4 DEF EndSetup
<1>5. CASE \E n \in Nets : Bind(n)
  BY <1>5 DEF Bind, CanBind, BindFailed
<1>6. CASE \E n \in Nets : StopListening(n)
  BY <1>6 DEF StopListening, Unbound, ShutdownSeen
<1>7. CASE \E n \in Nets : ConnectTo(n)
  BY <1>7 DEF ConnectTo, Accepts
<1>8. CASE \E n \in Nets : SendShutdown(n)
  BY <1>8 DEF SendShutdown
<1>9. CASE \E n \in Nets : Drop(n)
  BY <1>9 DEF Drop
<1>10. CASE \E n \in Nets : DropRuntime(n)
  BY <1>10 DEF DropRuntime, AbortTasks, Unbound, ServedBy
<1>11. CASE CloseConnection
  BY <1>11 DEF CloseConnection
<1>12. CASE \E p \in Ports : OutsiderBinds(p) \/ OutsiderCloses(p)
  BY <1>12 DEF OutsiderBinds, OutsiderCloses
<1>13. CASE UNCHANGED vars
  BY <1>13 DEF vars
<1> QED
  BY <1>1, <1>2, <1>3, <1>4, <1>5, <1>6, <1>7, <1>8, <1>9, <1>10, <1>11, <1>12, <1>13
  DEF Next, NetStep, TaskStep, Over

\* The accept loop follows its owner.
LEMMA StagesStep == Inv /\ [Next]_vars => Stages'
<1> SUFFICES ASSUME Inv, [Next]_vars
             PROVE  Stages'
  OBVIOUS
<1> USE NetsAssumption, PortsAssumption DEF Inv, TypeOK, Stages
<1>1. CASE \E n \in Nets : FindPort(n)
  BY <1>1 DEF FindPort
<1>2. CASE \E n \in Nets : ReleasePort(n)
  BY <1>2 DEF ReleasePort, DropsProbe
<1>3. CASE \E n \in Nets : SpawnProxy(n)
  BY <1>3 DEF SpawnProxy
<1>4. CASE \E n \in Nets : EndSetup(n)
  BY <1>4 DEF EndSetup
<1>5. CASE \E n \in Nets : Bind(n)
  BY <1>5 DEF Bind, CanBind, BindFailed
<1>6. CASE \E n \in Nets : StopListening(n)
  BY <1>6 DEF StopListening, Unbound, ShutdownSeen
<1>7. CASE \E n \in Nets : ConnectTo(n)
  BY <1>7 DEF ConnectTo, Accepts
<1>8. CASE \E n \in Nets : SendShutdown(n)
  BY <1>8 DEF SendShutdown
<1>9. CASE \E n \in Nets : Drop(n)
  BY <1>9 DEF Drop
<1>10. CASE \E n \in Nets : DropRuntime(n)
  BY <1>10 DEF DropRuntime, AbortTasks, Unbound, ServedBy
<1>11. CASE CloseConnection
  BY <1>11 DEF CloseConnection
<1>12. CASE \E p \in Ports : OutsiderBinds(p) \/ OutsiderCloses(p)
  BY <1>12 DEF OutsiderBinds, OutsiderCloses
<1>13. CASE UNCHANGED vars
  BY <1>13 DEF vars
<1> QED
  BY <1>1, <1>2, <1>3, <1>4, <1>5, <1>6, <1>7, <1>8, <1>9, <1>10, <1>11, <1>12, <1>13
  DEF Next, NetStep, TaskStep, Over

\* Ports change hands only through a bind and a close: a network that closes its
\* port owned it, so nobody else loses one.
LEMMA OwnershipStep == Inv /\ [Next]_vars => Ownership'
<1> SUFFICES ASSUME Inv, [Next]_vars
             PROVE  Ownership'
  OBVIOUS
<1> USE NetsAssumption, PortsAssumption DEF Inv, TypeOK, Stages, Ownership, ListenersOwnPorts, NoPortLeaks
<1>1. CASE \E n \in Nets : FindPort(n)
  BY <1>1 DEF FindPort
<1>2. CASE \E n \in Nets : ReleasePort(n)
  BY <1>2 DEF ReleasePort, DropsProbe
<1>3. CASE \E n \in Nets : SpawnProxy(n)
  BY <1>3 DEF SpawnProxy
<1>4. CASE \E n \in Nets : EndSetup(n)
  BY <1>4 DEF EndSetup
<1>5. CASE \E n \in Nets : Bind(n)
  BY <1>5 DEF Bind, CanBind, BindFailed
<1>6. CASE \E n \in Nets : StopListening(n)
  BY <1>6 DEF StopListening, Unbound, ShutdownSeen
<1>7. CASE \E n \in Nets : ConnectTo(n)
  BY <1>7 DEF ConnectTo, Accepts
<1>8. CASE \E n \in Nets : SendShutdown(n)
  BY <1>8 DEF SendShutdown
<1>9. CASE \E n \in Nets : Drop(n)
  BY <1>9 DEF Drop
<1>10. CASE \E n \in Nets : DropRuntime(n)
  BY <1>10 DEF DropRuntime, AbortTasks, Unbound, ServedBy
<1>11. CASE CloseConnection
  BY <1>11 DEF CloseConnection
<1>12. CASE \E p \in Ports : OutsiderBinds(p) \/ OutsiderCloses(p)
  BY <1>12 DEF OutsiderBinds, OutsiderCloses
<1>13. CASE UNCHANGED vars
  BY <1>13 DEF vars
<1> QED
  BY <1>1, <1>2, <1>3, <1>4, <1>5, <1>6, <1>7, <1>8, <1>9, <1>10, <1>11, <1>12, <1>13
  DEF Next, NetStep, TaskStep, Over

\* Whatever ends the accept loop for good ends its connections.
LEMMA ServiceStep == Inv /\ [Next]_vars => Service'
<1> SUFFICES ASSUME Inv, [Next]_vars
             PROVE  Service'
  OBVIOUS
<1> USE NetsAssumption, PortsAssumption DEF Inv, TypeOK, Stages, Ownership, ListenersOwnPorts, Service
<1>1. CASE \E n \in Nets : FindPort(n)
  BY <1>1 DEF FindPort
<1>2. CASE \E n \in Nets : ReleasePort(n)
  BY <1>2 DEF ReleasePort, DropsProbe
<1>3. CASE \E n \in Nets : SpawnProxy(n)
  BY <1>3 DEF SpawnProxy
<1>4. CASE \E n \in Nets : EndSetup(n)
  BY <1>4 DEF EndSetup
<1>5. CASE \E n \in Nets : Bind(n)
  BY <1>5 DEF Bind, CanBind, BindFailed
<1>6. CASE \E n \in Nets : StopListening(n)
  BY <1>6 DEF StopListening, Unbound, ShutdownSeen
<1>7. CASE \E n \in Nets : ConnectTo(n)
  BY <1>7 DEF ConnectTo, Accepts
<1>8. CASE \E n \in Nets : SendShutdown(n)
  BY <1>8 DEF SendShutdown
<1>9. CASE \E n \in Nets : Drop(n)
  BY <1>9 DEF Drop
<1>10. CASE \E n \in Nets : DropRuntime(n)
  BY <1>10 DEF DropRuntime, AbortTasks, Unbound, ServedBy
<1>11. CASE CloseConnection
  BY <1>11 DEF CloseConnection
<1>12. CASE \E p \in Ports : OutsiderBinds(p) \/ OutsiderCloses(p)
  BY <1>12 DEF OutsiderBinds, OutsiderCloses
<1>13. CASE UNCHANGED vars
  BY <1>13 DEF vars
<1> QED
  BY <1>1, <1>2, <1>3, <1>4, <1>5, <1>6, <1>7, <1>8, <1>9, <1>10, <1>11, <1>12, <1>13
  DEF Next, NetStep, TaskStep, Over

\* The invariant holds in every reachable state.
THEOREM Invariance == Spec => []Inv
<1>1. Init => Inv
  BY NetsAssumption, PortsAssumption
  DEF Init, Inv, TypeOK, Stages, Ownership, ListenersOwnPorts, NoPortLeaks, Service,
      Connections
<1>2. Inv /\ [Next]_vars => Inv'
  BY TypeStep, StagesStep, OwnershipStep, ServiceStep DEF Inv
<1> QED BY <1>1, <1>2, PTL DEF Spec

\* Every variable has its type.
THEOREM TypeCorrect == Spec => []TypeOK
<1>1. Inv => TypeOK
  BY DEF Inv
<1> QED BY <1>1, Invariance, PTL

\* A listening proxy owns the port of its URL, alone, for any number of
\* networks that find, give up and bind ports in any order.
THEOREM PortsOwned == Spec => []ListenersOwnPorts
<1>1. Inv => ListenersOwnPorts
  BY DEF Inv, Ownership
<1> QED BY <1>1, Invariance, PTL

\* A network holds a port only while it probes or listens.
THEOREM PortsReturned == Spec => []NoPortLeaks
<1>1. Inv => NoPortLeaks
  BY DEF Inv, Ownership
<1> QED BY <1>1, Invariance, PTL

\* A dropped network neither listens nor serves.
THEOREM DownOnceDropped == Spec => []DownAfterDrop
<1>1. Inv => DownAfterDrop
  BY DEF Inv, TypeOK, Stages, Service, DownAfterDrop, ServedBy
<1> QED BY <1>1, Invariance, PTL

-----------------------------------------------------------------------------
(* Liveness.  Weak fairness speaks of when an action is ENABLED, which the   *)
(* proof takes from ReadyTasksStep and does not look into.                   *)

\* Where the accept loop may be when it has been told to stop.
StopsBeforeBind(n) == stop[n] /\ task[n] = "starting"
StopsListening(n)  == stop[n] /\ task[n] = "listening"

\* Told to stop before it binds, the loop keeps its order to stop, and its next
\* step is the bind.
LEMMA BindsFirst ==
  ASSUME NEW n \in Nets
  PROVE  /\ Inv /\ StopsBeforeBind(n) /\ [Next]_vars =>
              StopsBeforeBind(n)' \/ StopsListening(n)' \/ LoopOver(n)'
         /\ Inv /\ StopsBeforeBind(n) /\ <<TaskStep(n)>>_vars =>
              StopsListening(n)' \/ LoopOver(n)'
         /\ StopsBeforeBind(n) /\ ReadyTasksStep => ENABLED <<TaskStep(n)>>_vars
<1>1. Inv /\ StopsBeforeBind(n) /\ [Next]_vars =>
        StopsBeforeBind(n)' \/ StopsListening(n)' \/ LoopOver(n)'
  BY DEF Inv, TypeOK, Stages, StopsBeforeBind, StopsListening, LoopOver, Next, NetStep,
         TaskStep, vars, FindPort, ReleasePort, SpawnProxy, EndSetup, Bind, BindFailed, StopListening,
         ConnectTo, SendShutdown, Drop, DropRuntime, AbortTasks, CloseConnection,
         OutsiderBinds, OutsiderCloses, Over
<1>2. Inv /\ StopsBeforeBind(n) /\ <<TaskStep(n)>>_vars =>
        StopsListening(n)' \/ LoopOver(n)'
  BY DEF Inv, TypeOK, StopsBeforeBind, StopsListening, LoopOver, TaskStep, Bind, BindFailed,
         StopListening
<1>3. StopsBeforeBind(n) /\ ReadyTasksStep => ENABLED <<TaskStep(n)>>_vars
  BY DEF StopsBeforeBind, TaskReady, ReadyTasksStep
<1> QED BY <1>1, <1>2, <1>3

\* Told to stop while it listens, its next step ends the loop.
LEMMA StopsThen ==
  ASSUME NEW n \in Nets
  PROVE  /\ Inv /\ StopsListening(n) /\ [Next]_vars => StopsListening(n)' \/ LoopOver(n)'
         /\ Inv /\ StopsListening(n) /\ <<TaskStep(n)>>_vars => LoopOver(n)'
         /\ StopsListening(n) /\ ReadyTasksStep => ENABLED <<TaskStep(n)>>_vars
<1>1. Inv /\ StopsListening(n) /\ [Next]_vars => StopsListening(n)' \/ LoopOver(n)'
  BY DEF Inv, TypeOK, Stages, StopsListening, LoopOver, Next, NetStep, TaskStep, vars,
         FindPort, ReleasePort, SpawnProxy, EndSetup, Bind, BindFailed, StopListening, ConnectTo,
         SendShutdown, Drop, DropRuntime, AbortTasks, CloseConnection, OutsiderBinds,
         OutsiderCloses, Over
<1>2. Inv /\ StopsListening(n) /\ <<TaskStep(n)>>_vars => LoopOver(n)'
  BY DEF Inv, TypeOK, StopsListening, LoopOver, TaskStep, Bind, BindFailed, StopListening
<1>3. StopsListening(n) /\ ReadyTasksStep => ENABLED <<TaskStep(n)>>_vars
  BY DEF StopsListening, TaskReady, ReadyTasksStep
<1> QED BY <1>1, <1>2, <1>3

\* shutdown() ends the listening of every network, whenever it comes and
\* whatever the other networks and programs do.
THEOREM ShutdownEnds == FairSpec /\ []ReadyTasksStep => ShutdownTakesEffect
<1> SUFFICES ASSUME NEW n \in Nets
             PROVE  FairSpec /\ []ReadyTasksStep => (ShutdownSent(n) ~> LoopOver(n))
  BY DEF ShutdownTakesEffect
<1>1. Fairness => TaskFairness(n)
  BY DEF Fairness
<1>2. TaskFairness(n) => WF_vars(TaskStep(n))
  BY PTL DEF TaskFairness
<1>3. ShutdownSent(n) => StopsBeforeBind(n) \/ StopsListening(n) \/ LoopOver(n)
  BY DEF ShutdownSent, StopsBeforeBind, StopsListening, LoopOver
<1>4. Spec /\ WF_vars(TaskStep(n)) /\ []ReadyTasksStep =>
        (StopsBeforeBind(n) ~> (StopsListening(n) \/ LoopOver(n)))
  BY BindsFirst, Invariance, PTL DEF Spec
<1>5. Spec /\ WF_vars(TaskStep(n)) /\ []ReadyTasksStep =>
        (StopsListening(n) ~> LoopOver(n))
  BY StopsThen, Invariance, PTL DEF Spec
<1> QED BY <1>1, <1>2, <1>3, <1>4, <1>5, PTL DEF FairSpec

=============================================================================
