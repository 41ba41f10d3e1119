--------------------------- MODULE MCLinuxExecutor ---------------------------
(***************************************************************************)
(* The instances of LinuxExecutor that TLC checks.                         *)
(***************************************************************************)
EXTENDS LinuxExecutor

\* Sandbox::builder().build() and run("cmd", &[]): the default configuration
\* limits the number of processes and asks for the standard seccomp profile.
Default ==
  [ has_stdin |-> FALSE, input |-> 0, limits |-> {"pids"}, proxied |-> FALSE,
    rootfs |-> FALSE, seccomp |-> TRUE, nul |-> "none",
    reads_to_eof |-> FALSE ]

\* Everything a configuration can ask of the executor.
Full == [Default EXCEPT !.has_stdin = TRUE, !.input = 1, !.limits = Limits,
                        !.rootfs = TRUE, !.proxied = TRUE]

\* memory_limit(..) on top of the default.
MemoryLimited == [Default EXCEPT !.limits = {"memory", "pids"}]

\* Only LinuxExecutor::execute itself, not the builder, takes a configuration
\* without any limit.
Unlimited == [Default EXCEPT !.limits = {}, !.seccomp = FALSE]

\* A command like cat.
Filter == [Default EXCEPT !.has_stdin = TRUE, !.input = 1, !.reads_to_eof = TRUE]

\* An input of one chunk more than the pipe holds.
LargeInput == [Filter EXCEPT !.input = PipeCapacity + 1]

AllCalls ==
  { Default, Full, MemoryLimited, Unlimited, Filter, LargeInput,
    [Default EXCEPT !.nul = "cmd"], [Default EXCEPT !.nul = "arg", !.proxied = TRUE] }

FilterCalls == {Filter}

=============================================================================
