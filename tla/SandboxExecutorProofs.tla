------------------------ MODULE SandboxExecutorProofs ------------------------
(***************************************************************************)
(* What a caller may rely on, whatever the platform: consequences of the   *)
(* contract alone, for answers of any size.  The executors take them over  *)
(* through their refinement (LinuxExecutorProofs, PipedExecutorProofs).    *)
(***************************************************************************)
EXTENDS SandboxExecutor, TLAPS

\* A caller with an answer has a true one, of a command that has ended; every
\* other caller has none.
AnswerHolds ==
  /\ caller = "answered" =>
       command = "ended" /\ answer \in ExecutionResults /\ Tells(answer)
  /\ caller # "answered" => answer = NewResult

\* A result that reports success() is of a command that has ended with code 0,
\* by itself, that lost no process to a lack of memory, and whose output, as
\* far as it is text, is all there.
SuccessHolds ==
  caller = "answered" /\ Success(answer) =>
    /\ command = "ended" /\ ending.code = 0 /\ ending.signal = NoSignal
    /\ ~starved
    /\ \A s \in Streams \ garbled : answer.output[s] = printed[s]

\* The answer never becomes false: once a caller has it nothing in the sandbox
\* happens any more that it could fail to tell.
OverWithAnswer == [][caller # "answered"]_vars

\* A call ends once: no error after an answer, no answer after an error, and
\* the answer is not touched again.
EndsOnce == [][caller = "waiting"]_<<caller, answer>>

\* No process of a failed call starts the command or prints later on.
QuietAfterError ==
  [][caller # "failed" \/ (UNCHANGED printed /\ command' # "running")]_<<command, printed>>

\* What is printed and which reasons there are for an early end only grows
\* while the caller waits; so does the knowledge that a stream is not text.
NothingForgotten ==
  [][ /\ late => late'
      /\ starved => starved'
      /\ garbled \subseteq garbled'
      /\ command = "ended" => command' = "ended" /\ ending' = ending ]_vars

LEMMA AnswerHoldsStep == AnswerHolds /\ [Next]_vars => AnswerHolds'
<1> SUFFICES ASSUME AnswerHolds, [Next]_vars
             PROVE  AnswerHolds'
  OBVIOUS
<1> USE DEF AnswerHolds, vars, sandboxVars
<1>1. CASE Start
  BY <1>1 DEF Start
<1>2. CASE End
  BY <1>2 DEF End
<1>3. CASE Starve
  BY <1>3 DEF Starve
<1>4. CASE Elapse
  BY <1>4 DEF Elapse
<1>5. CASE Answer
  <2>1. /\ command' = "ended" /\ caller' = "answered"
        /\ answer' \in ExecutionResults /\ Tells(answer')
    BY <1>5 DEF Answer
  <2>2. Tells(answer)'
    BY <1>5, <2>1 DEF Answer, Tells
  <2> QED
    BY <2>1, <2>2
<1>6. CASE Fail
  BY <1>6 DEF Fail
<1>7. CASE Vanish
  BY <1>7 DEF Vanish
<1>8. CASE \E s \in Streams : Emit(s)
  BY <1>8 DEF Emit
<1>9. CASE UNCHANGED vars
  BY <1>9 DEF Tells
<1> QED
  BY <1>1, <1>2, <1>3, <1>4, <1>5, <1>6, <1>7, <1>8, <1>9 DEF Next

\* Every answer is true and stays so.
THEOREM AnswersHold == Spec => []AnswerHolds
<1>1. Init => AnswerHolds
  BY DEF Init, AnswerHolds
<1> QED
  BY <1>1, AnswerHoldsStep, PTL DEF Spec

\* Success is only reported of a command that was successful.
THEOREM SuccessesHold == Spec => []SuccessHolds
<1>1. AnswerHolds => SuccessHolds
  <2> SUFFICES ASSUME AnswerHolds, caller = "answered", Success(answer)
               PROVE  /\ command = "ended" /\ ending.code = 0 /\ ending.signal = NoSignal
                      /\ ~starved
                      /\ \A s \in Streams \ garbled : answer.output[s] = printed[s]
    BY DEF SuccessHolds
  <2>1. command = "ended" /\ Tells(answer)
    BY DEF AnswerHolds
  <2> QED
    BY <2>1 DEF Tells, Success
<1> QED
  BY <1>1, AnswersHold, PTL

\* Nothing happens in the sandbox of a call that was answered.
THEOREM AnswerIsLast == Spec => OverWithAnswer
<1>1. [Next]_vars => [caller # "answered"]_vars
  <2> SUFFICES ASSUME Next
               PROVE  caller # "answered"
    OBVIOUS
  <2> QED
    BY DEF Next, Start, End, Starve, Elapse, Answer, Fail, Vanish, Emit
<1> QED
  BY <1>1, PTL DEF Spec, OverWithAnswer

\* A call has one outcome.
THEOREM OneOutcome == Spec => EndsOnce
<1>1. [Next]_vars => [caller = "waiting"]_<<caller, answer>>
  BY DEF vars, Next, Start, End, Starve, Elapse, Answer, Fail, Vanish, Emit
<1> QED
  BY <1>1, PTL DEF Spec, EndsOnce

\* A failed call is quiet.
THEOREM ErrorsAreQuiet == Spec => QuietAfterError
<1>1. [Next]_vars =>
        [caller # "failed" \/ (UNCHANGED printed /\ command' # "running")]_<<command, printed>>
  BY DEF vars, sandboxVars, Next, Start, End, Starve, Ends, Elapse, Answer, Fail, Vanish, Emit
<1> QED
  BY <1>1, PTL DEF Spec, QuietAfterError

\* What has happened is not forgotten.
THEOREM ReasonsStay == Spec => NothingForgotten
<1>1. [Next]_vars => [ /\ late => late'
                       /\ starved => starved'
                       /\ garbled \subseteq garbled'
                       /\ command = "ended" => command' = "ended" /\ ending' = ending ]_vars
  BY DEF vars, sandboxVars, Next, Start, End, Starve, Ends, Elapse, Answer, Fail, Vanish, Emit
<1> QED
  BY <1>1, PTL DEF Spec, NothingForgotten

=============================================================================
