--------------------------- MODULE SandboxExecutor ---------------------------
(***************************************************************************)
(* What the trait PlatformExecutor (src/platform/mod.rs) promises of one   *)
(* call of execute, on every platform and without its mechanism: the       *)
(* command runs, prints and ends, and the caller is given one answer,      *)
(* which tells how the command ended and holds what it printed.            *)
(*                                                                         *)
(* LinuxExecutor and PipedExecutor implement this specification.           *)
(***************************************************************************)
EXTENDS ExecutionResult

VARIABLES
  caller,   \* "waiting" for the answer, "answered", "failed", or "gone" itself
  answer,   \* the result handed to the caller, NewResult without one
  command,  \* "absent", "running", "ended"
  ending,   \* how the sandboxed process ended: exit code and signal
  printed,  \* chunks the command has written to each stream
  garbled,  \* streams the platform cannot return as text
  late,     \* the wall time limit has passed
  starved   \* the kernel has killed a process of the sandbox for memory

vars == <<caller, answer, command, ending, printed, garbled, late, starved>>
sandboxVars == <<command, ending, printed, garbled, late, starved>>

\* A result is true to what happened: to the end of the command, to its
\* output, and to the reasons it gives for an early end.
Tells(r) ==
  /\ r.signal = ending.signal
  /\ r.signal = NoSignal => r.exit_code = ending.code
  /\ r.signal # NoSignal => r.exit_code # 0
  /\ \A s \in Streams \ garbled : r.output[s] = printed[s]
  /\ r.killed_by_timeout => late
  /\ r.killed_by_oom <=> starved

\* The command starts: not after its call has failed.
Start ==
  /\ caller \in {"waiting", "gone"}
  /\ command = "absent"
  /\ command' = "running"
  /\ UNCHANGED <<caller, answer, ending, printed, garbled, late, starved>>

\* A process of the sandbox prints, also one that outlives the command.
Emit(s) ==
  /\ caller = "waiting"
  /\ command # "absent"
  /\ printed' = [printed EXCEPT ![s] = @ + 1]
  /\ garbled' \in {garbled, garbled \cup {s}}
  /\ UNCHANGED <<caller, answer, command, ending, late, starved>>

Ends ==
  /\ command # "ended"
  /\ command' = "ended"
  /\ ending' \in [code : Nat, signal : Nat]

\* The sandboxed process ends, perhaps before it has become the command.
End ==
  /\ caller # "answered"
  /\ Ends
  /\ UNCHANGED <<caller, answer, printed, garbled, late, starved>>

\* The kernel kills it, or another process of the sandbox, for memory.
Starve ==
  /\ caller # "answered"
  /\ starved' = TRUE
  /\ Ends \/ UNCHANGED <<command, ending>>
  /\ UNCHANGED <<caller, answer, printed, garbled, late>>

Elapse ==
  /\ caller = "waiting"
  /\ late' = TRUE
  /\ UNCHANGED <<caller, answer, command, ending, printed, garbled, starved>>

\* Ok(result), once the sandboxed process has ended.
Answer ==
  /\ caller = "waiting"
  /\ command = "ended"
  /\ caller' = "answered"
  /\ answer' \in ExecutionResults
  /\ Tells(answer')
  /\ UNCHANGED sandboxVars

\* Err(error), or a panic.
Fail ==
  /\ caller = "waiting"
  /\ caller' = "failed"
  /\ UNCHANGED <<answer, sandboxVars>>

\* The host process dies and the caller with it.
Vanish ==
  /\ caller = "waiting"
  /\ caller' = "gone"
  /\ UNCHANGED <<answer, sandboxVars>>

Init ==
  /\ caller = "waiting" /\ answer = NewResult
  /\ command = "absent" /\ ending = [code |-> 0, signal |-> NoSignal]
  /\ printed = [s \in Streams |-> 0] /\ garbled = {}
  /\ late = FALSE /\ starved = FALSE

Next ==
  \/ Start \/ End \/ Starve \/ Elapse \/ Answer \/ Fail \/ Vanish
  \/ \E s \in Streams : Emit(s)

Spec == Init /\ [][Next]_vars

=============================================================================
