--------------------------- MODULE MCPipedExecutor ---------------------------
(***************************************************************************)
(* The instances of PipedExecutor that TLC checks.                         *)
(***************************************************************************)
EXTENDS PipedExecutor

\* run("cmd", &[]) with the default configuration.
Default ==
  [ platform |-> "macos", has_stdin |-> FALSE, input |-> 0, limits |-> {},
    proxied |-> FALSE ]

\* With an input one chunk longer than the pipe, through a proxy.
Full == [Default EXCEPT !.has_stdin = TRUE, !.input = MaxInput, !.proxied = TRUE]

OnWindows(c, limits) == [c EXCEPT !.platform = "windows", !.limits = limits]

AllCalls ==
  { Default, Full, OnWindows(Default, {}), OnWindows(Default, {"memory"}),
    OnWindows(Full, JobLimits) }

DefaultCalls == {Default, OnWindows(Default, {})}

=============================================================================
