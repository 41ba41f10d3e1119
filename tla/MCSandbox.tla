------------------------------ MODULE MCSandbox ------------------------------
(***************************************************************************)
(* The instance of Sandbox that TLC checks.                                *)
(***************************************************************************)
EXTENDS Sandbox

CONSTANTS root, src, r1

InRoot == [rootfs |-> root, mounts |-> {src}, input |-> "none"]
Bare   == [rootfs |-> NoRoot, mounts |-> {}, input |-> "big"]

\* All threads mount in one root file system, but one may have a sandbox
\* without, and an input that may be too long.
MountedAndBare ==
  [r \in Runs |-> IF r = r1 THEN {InRoot, Bare} ELSE {InRoot}]

=============================================================================
