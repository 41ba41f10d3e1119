--------------------------- MODULE ExecutionResult ---------------------------
(***************************************************************************)
(* The value an execution returns (src/result.rs) and the question every   *)
(* caller asks of it.  Captured text is a number of chunks per stream; the *)
(* measurements (duration, peak_memory, cpu_time) are left out.            *)
(***************************************************************************)
EXTENDS Integers

Streams == {"stdout", "stderr"}

\* Option<i32>::None of the field `signal`: no signal has number 0.
NoSignal == 0

ExecutionResults ==
  [ output            : [Streams -> Nat],
    exit_code         : Int,
    killed_by_timeout : BOOLEAN,
    killed_by_oom     : BOOLEAN,
    signal            : Nat ]

\* ExecutionResult::new()
NewResult ==
  [ output            |-> [s \in Streams |-> 0],
    exit_code         |-> 0,
    killed_by_timeout |-> FALSE,
    killed_by_oom     |-> FALSE,
    signal            |-> NoSignal ]

\* Mutant: killed_by_oom is not consulted.
SuccessDespiteOom(r) ==
  r.exit_code = 0 /\ ~r.killed_by_timeout /\ r.signal = NoSignal

\* ExecutionResult::success()
Success(r) ==
  /\ r.exit_code = 0
  /\ ~r.killed_by_timeout
  /\ ~r.killed_by_oom
  /\ r.signal = NoSignal

=============================================================================
