--------------------------- MODULE ProxiedNetwork ---------------------------
(***************************************************************************)
(* The proxies of several sandboxes of one host (src/network/manager.rs    *)
(* and the accept loop of src/network/proxy.rs): each finds a free port,   *)
(* gives it up, lets a task bind it again, hands the URL to its command,   *)
(* and is shut down and dropped at the end of the execution.  Ports are    *)
(* shared with each other and with other programs of the machine; what     *)
(* happens within one connection is module HttpProxy.                      *)
(***************************************************************************)
EXTENDS Integers, FiniteSets

CONSTANTS
  Nets,     \* the ProxiedNetwork values of the host
  Ports,    \* the ports the kernel gives out
  NoPort,   \* no port yet
  Nobody,   \* a port nobody has bound
  Outsider  \* some other program

ASSUME NetsAssumption == {Nobody, Outsider} \cap Nets = {} /\ Nobody # Outsider
ASSUME PortsAssumption == NoPort \notin Ports

VARIABLES
  phase,  \* where the thread that owns the network is
  port,   \* proxy_port
  stop,   \* the shutdown channel carries true
  task,   \* the accept loop
  conns,  \* live connections, <<whose command, whose proxy>>
  owner   \* the kernel: who has bound a port

vars == <<phase, port, stop, task, conns, owner>>

Connections == Nets \X (Nets \cup {Outsider})

\* The connections that tasks of n's runtime handle.
ServedBy(n) == {c \in conns : c[2] = n}

\* bind() of a listening socket.
CanBind(p) == owner[p] = Nobody

\* Mutant: a connection attempt needs no listener.
AnyoneListens(p) == TRUE

\* A connection to p is accepted.
Accepts(p) ==
  \/ owner[p] = Outsider
  \/ owner[p] \in Nets /\ task[owner[p]] = "listening"

\* Mutant: the accept loop ends when its connections have ended.
ShutdownWhenIdle(n) == stop[n] /\ ServedBy(n) = {}

\* shutdown.changed() sees any change since setup made the channel.
ShutdownSeen(n) == stop[n]

\* What closing n's listener on its port leaves behind.
Unbound(n) ==
  IF task[n] = "listening" THEN [owner EXCEPT ![port[n]] = Nobody] ELSE owner

-----------------------------------------------------------------------------
(* ProxiedNetwork::setup *)

\* find_free_port: bind to port 0, where the kernel chooses ..
FindPort(n) ==
  /\ phase[n] = "idle"
  /\ \/ \E p \in Ports :
          /\ owner[p] = Nobody
          /\ owner' = [owner EXCEPT ![p] = n]
          /\ port' = [port EXCEPT ![n] = p]
          /\ phase' = [phase EXCEPT ![n] = "probe"]
     \/ phase' = [phase EXCEPT ![n] = "failed"] /\ UNCHANGED <<owner, port>>
  /\ UNCHANGED <<stop, task, conns>>

\* Mutant: the probing listener is kept and leaks.
KeepsProbe(n) == owner

\* .. and the listener is dropped when the function returns.
DropsProbe(n) == [owner EXCEPT ![port[n]] = Nobody]

ReleasePort(n) ==
  /\ phase[n] = "probe"
  /\ owner' = DropsProbe(n)
  /\ phase' = [phase EXCEPT ![n] = "chosen"]
  /\ UNCHANGED <<port, stop, task, conns>>

\* The runtime is built and runs HttpProxy::run as a task, or setup fails.
SpawnProxy(n) ==
  /\ phase[n] = "chosen"
  /\ \/ /\ phase' = [phase EXCEPT ![n] = "sleep"]
        /\ task' = [task EXCEPT ![n] = "starting"]
     \/ phase' = [phase EXCEPT ![n] = "failed"] /\ UNCHANGED task
  /\ UNCHANGED <<port, stop, conns, owner>>

\* 50 milliseconds later setup returns Ok, wherever the task is.
EndSetup(n) ==
  /\ phase[n] = "sleep"
  /\ phase' = [phase EXCEPT ![n] = "ready"]
  /\ UNCHANGED <<port, stop, task, conns, owner>>

-----------------------------------------------------------------------------
(* HttpProxy::run *)

\* Mutant: the error of the bind is logged and the loop goes on.
BindIgnored(n) == task' = [task EXCEPT ![n] = "listening"]

\* The error of the bind ends the task and is only logged.
BindFailed(n) == task' = [task EXCEPT ![n] = "failed"]

\* TcpListener::bind
Bind(n) ==
  /\ task[n] = "starting"
  /\ IF CanBind(port[n])
     THEN /\ task' = [task EXCEPT ![n] = "listening"]
          /\ owner' = [owner EXCEPT ![port[n]] = n]
     ELSE BindFailed(n) /\ UNCHANGED owner
  /\ UNCHANGED <<phase, port, stop, conns>>

\* shutdown.changed(): the loop breaks and drops the listener.  Connections
\* have tasks of their own and go on.
StopListening(n) ==
  /\ task[n] = "listening"
  /\ ShutdownSeen(n)
  /\ task' = [task EXCEPT ![n] = "stopped"]
  /\ owner' = Unbound(n)
  /\ UNCHANGED <<phase, port, stop, conns>>

\* The command of n connects to the URL it was given: to whoever listens there.
ConnectTo(n) ==
  /\ phase[n] = "ready"
  /\ Accepts(port[n])
  /\ conns' = conns \cup {<<n, owner[port[n]]>>}
  /\ UNCHANGED <<phase, port, stop, task, owner>>

CloseConnection ==
  /\ \E c \in conns : conns' = conns \ {c}
  /\ UNCHANGED <<phase, port, stop, task, owner>>

-----------------------------------------------------------------------------
(* The end *)

\* shutdown(), which may be called at any time after setup ..
SendShutdown(n) ==
  /\ phase[n] = "ready"
  /\ ~stop[n]
  /\ stop' = [stop EXCEPT ![n] = TRUE]
  /\ UNCHANGED <<phase, port, task, conns, owner>>

\* .. and is called by drop.
Drop(n) ==
  /\ phase[n] = "ready"
  /\ stop' = [stop EXCEPT ![n] = TRUE]
  /\ phase' = [phase EXCEPT ![n] = "dropping"]
  /\ UNCHANGED <<port, task, conns, owner>>

\* Mutant: dropping the network leaves the tasks to themselves.
LeaveTasks(n) == UNCHANGED <<task, conns, owner>>

\* Dropping the runtime waits for its threads and drops every task.
AbortTasks(n) ==
  /\ task' = [task EXCEPT ![n] = "aborted"]
  /\ conns' = conns \ ServedBy(n)
  /\ owner' = Unbound(n)

DropRuntime(n) ==
  /\ phase[n] = "dropping"
  /\ AbortTasks(n)
  /\ phase' = [phase EXCEPT ![n] = "dropped"]
  /\ UNCHANGED <<port, stop>>

-----------------------------------------------------------------------------
(* Other programs of the machine *)

OutsiderBinds(p) ==
  /\ owner[p] = Nobody
  /\ owner' = [owner EXCEPT ![p] = Outsider]
  /\ UNCHANGED <<phase, port, stop, task, conns>>

OutsiderCloses(p) ==
  /\ owner[p] = Outsider
  /\ owner' = [owner EXCEPT ![p] = Nobody]
  /\ UNCHANGED <<phase, port, stop, task, conns>>

Over ==
  /\ \A n \in Nets : phase[n] \in {"failed", "dropped"}
  /\ UNCHANGED vars

-----------------------------------------------------------------------------
Init ==
  /\ phase = [n \in Nets |-> "idle"]
  /\ port = [n \in Nets |-> NoPort]
  /\ stop = [n \in Nets |-> FALSE]
  /\ task = [n \in Nets |-> "none"]
  /\ conns = {}
  /\ owner \in [Ports -> {Nobody, Outsider}]

\* The accept loop, as opposed to the thread that owns the network.
TaskStep(n) == Bind(n) \/ StopListening(n)

NetStep(n) ==
  \/ FindPort(n) \/ ReleasePort(n) \/ SpawnProxy(n) \/ EndSetup(n)
  \/ ConnectTo(n) \/ SendShutdown(n) \/ Drop(n) \/ DropRuntime(n)

Next ==
  \/ \E n \in Nets : NetStep(n) \/ TaskStep(n)
  \/ CloseConnection
  \/ \E p \in Ports : OutsiderBinds(p) \/ OutsiderCloses(p)
  \/ Over

\* The runtime's worker threads poll a task that can go on.
TaskFairness(n) == WF_vars(TaskStep(n))
Fairness        == \A n \in Nets : TaskFairness(n)

Spec     == Init /\ [][Next]_vars
FairSpec == Spec /\ Fairness

-----------------------------------------------------------------------------
(* Properties *)

\* Every variable has its type.
TypeOK ==
  /\ phase \in [Nets -> {"idle", "probe", "chosen", "sleep", "ready", "dropping",
                         "dropped", "failed"}]
  /\ port \in [Nets -> Ports \cup {NoPort}]
  /\ stop \in [Nets -> BOOLEAN]
  /\ task \in [Nets -> {"none", "starting", "listening", "failed", "stopped",
                        "aborted"}]
  /\ conns \subseteq Connections
  /\ owner \in [Ports -> Nets \cup {Nobody, Outsider}]

\* A proxy that listens owns the port of its URL, alone, although the port was
\* found and given up before; so two that listen have different ports.
ListenersOwnPorts ==
  \A n \in Nets : task[n] = "listening" => owner[port[n]] = n

\* What a sandbox holds is exactly what it still needs: a port only while it
\* probes or listens.  Nothing is held after a setup that failed, after the
\* loop ended, or after the drop.
NoPortLeaks ==
  \A p \in Ports : owner[p] \in Nets =>
    LET n == owner[p]
    IN  /\ port[n] = p
        /\ phase[n] = "probe" \/ task[n] = "listening"

\* Once the network is dropped its proxy neither listens nor serves, not even
\* a connection accepted before or another sandbox's command.
DownAfterDrop ==
  \A n \in Nets : phase[n] = "dropped" =>
    task[n] # "listening" /\ ServedBy(n) = {}

ShutdownSent(n) == stop[n]
LoopOver(n)     == task[n] \notin {"starting", "listening"}

\* shutdown() ends the listening, also when it comes before the bind.
ShutdownTakesEffect == \A n \in Nets : ShutdownSent(n) ~> LoopOver(n)

\* When the accept loop can go on: it has still to bind, or it has been told to
\* stop.
TaskReady(n) == task[n] = "starting" \/ (task[n] = "listening" /\ stop[n])

\* A task that can go on is never held up by anything else.
ReadyTasksStep == \A n \in Nets : TaskReady(n) => ENABLED <<TaskStep(n)>>_vars

-----------------------------------------------------------------------------
(* What the repository says of the program and the code does not do *)

\* docs/ARCHITECTURE.md, Thread Safety: the proxy of each sandbox runs on a
\* port of its own.
UniquePorts ==
  \A m, n \in Nets :
    m # n /\ phase[m] = "ready" /\ phase[n] = "ready" => port[m] # port[n]

=============================================================================
