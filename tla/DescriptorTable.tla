--------------------------- MODULE DescriptorTable ---------------------------
(***************************************************************************)
(* The descriptors of a host process whose threads run                     *)
(* LinuxExecutor::execute (src/platform/linux/mod.rs) at the same time.    *)
(* execute keeps its pipes as raw numbers, which nothing closes unless a   *)
(* line of execute does; the numbers come from one table, the lowest free  *)
(* ones first, and clone copies the table into every child.                *)
(*                                                                         *)
(* The operations of one run on what the runs share; Sandbox composes them *)
(* into runs.                                                              *)
(***************************************************************************)
EXTENDS Naturals

CONSTANTS
  Runs,       \* the calls of execute
  Streams,    \* the output streams that are captured: stdout, stderr
  TableSize,  \* descriptors the host may have (RLIMIT_NOFILE)
  Free,       \* what an unused number refers to
  Foreign     \* .. and one the host uses for something else

Pipes == Streams \cup {"ready", "stdin"}
Ends  == Pipes \X {"read", "write"}

ReadEnd(p)  == <<p, "read">>
WriteEnd(p) == <<p, "write">>

Fds  == 1 .. TableSize
NoFd == 0

TableConstants ==
  /\ Streams \subseteq {"stdout", "stderr"} /\ Streams # {}
  /\ TableSize \in Nat
  /\ Free # Foreign
  /\ {Free, Foreign} \cap (Runs \X Ends) = {}

VARIABLES
  table,  \* what each number refers to: Free, Foreign or <<run, end>>
  fd,     \* the numbers in the locals of each run
  copies  \* the pipe ends that each run's child, or the command, holds

tableVars == <<table, fd, copies>>

\* The number in the local for end e refers to the run's own pipe.
Own(r, e) == fd[r][e] \in Fds /\ table[fd[r][e]] = <<r, e>>

\* Mutant: the number after the last one is taken to be free as well.
FreeAndNext == {n \in Fds \cup {TableSize + 1} : n \in Fds => table[n] = Free}

FreeFds == {n \in Fds : table[n] = Free}

\* pipe() fails when there are not two numbers ..
TableFull == \A a, b \in FreeFds : a = b

\* .. and else takes the two lowest.
OpenPipe(r, p) ==
  /\ \E a, b \in FreeFds :
       /\ a < b
       /\ \A n \in FreeFds : n = a \/ b <= n
       /\ table' = [table EXCEPT ![a] = <<r, ReadEnd(p)>>, ![b] = <<r, WriteEnd(p)>>]
       /\ fd' = [fd EXCEPT ![r] = [@ EXCEPT ![ReadEnd(p)] = a, ![WriteEnd(p)] = b]]
  /\ UNCHANGED copies

\* close_raw: whatever the number refers to now, and EBADF if that is nothing.
CloseFd(r, e) ==
  /\ table[fd[r][e]] # Free
  /\ table' = [table EXCEPT ![fd[r][e]] = Free]

CloseFails(r, e) == table[fd[r][e]] = Free /\ UNCHANGED table

\* clone without CLONE_FILES, and pipes without O_CLOEXEC: the child has every
\* end that is open, those of other runs as well.
Inherit(r) ==
  /\ copies' = [copies EXCEPT ![r] = {table[n] : n \in Fds} \ {Free, Foreign}]
  /\ UNCHANGED <<table, fd>>

\* The child puts its streams on 0, 1 and 2 and closes the numbers it knows,
\* all but ready_write and stdin_write.
Redirect(r) ==
  /\ copies' = [copies EXCEPT ![r] =
                  @ \ ({r} \X {ReadEnd(p) : p \in Streams \cup {"ready"}})]
  /\ UNCHANGED <<table, fd>>

\* The last process that had r's copies is gone.
DropCopies(r) ==
  /\ copies' = [copies EXCEPT ![r] = {}]
  /\ UNCHANGED <<table, fd>>

\* execute returns, and its locals are gone; the descriptors are not.
ForgetFds(r) == fd' = [fd EXCEPT ![r] = [e \in Ends |-> NoFd]]

\* Somebody has end e of run r, the host or a child of any run.
HeldSomewhere(r, e) ==
  \/ \E n \in Fds : table[n] = <<r, e>>
  \/ \E q \in Runs : <<r, e>> \in copies[q]

TableInit(taken) ==
  /\ table = [n \in Fds |-> IF n \in taken THEN Foreign ELSE Free]
  /\ fd = [r \in Runs |-> [e \in Ends |-> NoFd]]
  /\ copies = [r \in Runs |-> {}]

TableTypes ==
  /\ table \in [Fds -> (Runs \X Ends) \cup {Free, Foreign}]
  /\ fd \in [Runs -> [Ends -> Fds \cup {NoFd}]]
  /\ copies \in [Runs -> SUBSET (Runs \X Ends)]

=============================================================================
