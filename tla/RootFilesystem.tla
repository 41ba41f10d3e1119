--------------------------- MODULE RootFilesystem ---------------------------
(***************************************************************************)
(* setup_mount_namespace (src/platform/linux/mod.rs) in the children of    *)
(* several runs.  Every child has a mount namespace of its own, but the    *)
(* directories it mounts on are those of the host: rootfs/old_root is one  *)
(* directory for all runs on that rootfs, and removing it also detaches    *)
(* what other namespaces have mounted there.                               *)
(*                                                                         *)
(* The operations of one child on what the children share; Sandbox         *)
(* composes them into runs.                                                *)
(***************************************************************************)
CONSTANTS
  Runs,     \* the calls of execute, one child each
  Roots,    \* root file systems
  Sources,  \* directories of the host that can be mounted
  NoRoot,   \* a sandbox without a root file system
  Vanishing \* roots and sources that the environment may remove

Paths == Roots \cup Sources

RootConstants ==
  NoRoot \notin Roots /\ Roots \cap Sources = {} /\ Vanishing \subseteq Paths

VARIABLES
  paths,     \* the roots and sources that exist on the host
  oldRoots,  \* the roots in which the directory old_root exists
  spc,       \* where each child is
  base,      \* the root each child has bound, NoRoot before
  bound,     \* the sources each child has mounted
  hostRoot,  \* where each child sees the host's root: "/", "/old_root", "nowhere"
  raced,     \* the children whose setup failed for want of old_root
  met,       \* history: children that were in the same old_root at one time
  broken     \* roots with an old_root that a child left when it ended

fsVars == <<paths, oldRoots, spc, base, bound, hostRoot, raced, met, broken>>

\* The child has made old_root and has not removed it.
Window == {"pivot", "hide", "detach", "remove"}

SetupSteps == {"bind", "mounts"} \cup Window
Living     == SetupSteps \cup {"gate", "run"}

Neighbours(r) == {q \in Runs \ {r} : spc[q] \in Window /\ base[q] = base[r]}

Go(r, to) == spc' = [spc EXCEPT ![r] = to]

\* The child ends, and its mount namespace with it; what it has made on disk
\* stays.
End(r) ==
  /\ Go(r, "zombie")
  /\ broken' = IF spc[r] \in Window THEN broken \cup ({base[r]} \cap oldRoots)
                                    ELSE broken
  /\ base' = [base EXCEPT ![r] = NoRoot]
  /\ bound' = [bound EXCEPT ![r] = {}]
  /\ hostRoot' = [hostRoot EXCEPT ![r] = "/"]
  /\ UNCHANGED <<paths, oldRoots, met>>

\* Mutant: like other errors of the setup this one is only printed.
ErrorPrinted(r) ==
  /\ Go(r, "run")
  /\ UNCHANGED <<paths, oldRoots, base, bound, hostRoot, met, broken>>

\* child_fn prints the error and returns 1.
SetupError(r) == End(r)

\* Any of the calls may be refused by the kernel or the file system.
Refused(r) ==
  /\ spc[r] \in SetupSteps
  /\ SetupError(r)
  /\ UNCHANGED raced

\* The call fails because old_root is not there, or nothing is mounted on it.
LostOldRoot(r) ==
  /\ \/ spc[r] \in {"pivot", "remove"} /\ base[r] \notin oldRoots
     \/ spc[r] \in {"hide", "detach"} /\ hostRoot[r] # "/old_root"
  /\ SetupError(r)
  /\ raced' = raced \cup {r}

Advance(r, from, to) == spc[r] = from /\ Go(r, to)

\* Everything is made private, which only matters here, and the root is bound
\* to itself.
BindRoot(r, root) ==
  /\ Advance(r, "bind", "mounts")
  /\ root \in paths
  /\ base' = [base EXCEPT ![r] = root]
  /\ UNCHANGED <<paths, oldRoots, bound, hostRoot, raced, met, broken>>

\* One bind mount: the target is created, the source has to exist.
BindMount(r, source) ==
  /\ spc[r] = "mounts"
  /\ source \in paths \ bound[r]
  /\ bound' = [bound EXCEPT ![r] = @ \cup {source}]
  /\ UNCHANGED <<paths, oldRoots, spc, base, hostRoot, raced, met, broken>>

\* Mutant: create_dir, an error when the directory is there.
CreateDir(root) == root \notin oldRoots

\* create_dir_all is content with a directory that is there.
CreateDirAll(root) == TRUE

\* All of them are mounted, and the tmpfs mounts as well: make old_root.
MakeOldRoot(r, sources) ==
  /\ spc[r] = "mounts"
  /\ bound[r] = sources
  /\ IF CreateDirAll(base[r])
     THEN /\ Go(r, "pivot")
          /\ oldRoots' = oldRoots \cup {base[r]}
          /\ met' = IF Neighbours(r) = {} THEN met ELSE met \cup Neighbours(r) \cup {r}
          /\ UNCHANGED <<paths, base, bound, hostRoot, raced, broken>>
     ELSE SetupError(r) /\ raced' = raced \cup {r}

\* pivot_root: the host's root is now mounted on old_root.
Pivot(r) ==
  /\ Advance(r, "pivot", "hide")
  /\ base[r] \in oldRoots
  /\ hostRoot' = [hostRoot EXCEPT ![r] = "/old_root"]
  /\ UNCHANGED <<paths, oldRoots, base, bound, raced, met, broken>>

\* mount(None, "/old_root", MS_REC | MS_PRIVATE)
HideOldRoot(r) ==
  /\ Advance(r, "hide", "detach")
  /\ hostRoot[r] = "/old_root"
  /\ UNCHANGED <<paths, oldRoots, base, bound, hostRoot, raced, met, broken>>

\* umount2("/old_root", MNT_DETACH)
DetachOldRoot(r) ==
  /\ Advance(r, "detach", "remove")
  /\ hostRoot[r] = "/old_root"
  /\ hostRoot' = [hostRoot EXCEPT ![r] = "nowhere"]
  /\ UNCHANGED <<paths, oldRoots, base, bound, raced, met, broken>>

\* What rmdir does to the mounts that other namespaces have on the directory.
DetachedElsewhere(r) ==
  [q \in Runs |-> IF q \in Neighbours(r) /\ hostRoot[q] = "/old_root"
                  THEN "nowhere" ELSE hostRoot[q]]

\* remove_dir("/old_root")
RemoveOldRoot(r) ==
  /\ Advance(r, "remove", "run")
  /\ base[r] \in oldRoots
  /\ oldRoots' = oldRoots \ {base[r]}
  /\ broken' = broken \ {base[r]}
  /\ hostRoot' = DetachedElsewhere(r)
  /\ UNCHANGED <<paths, base, bound, raced, met>>

\* The environment removes a root or a source.
Vanish(p) ==
  /\ p \in paths
  /\ paths' = paths \ {p}
  /\ UNCHANGED <<oldRoots, spc, base, bound, hostRoot, raced, met, broken>>

FsInit ==
  /\ paths = Paths /\ oldRoots = {} /\ broken = {}
  /\ spc = [r \in Runs |-> "none"]
  /\ base = [r \in Runs |-> NoRoot]
  /\ bound = [r \in Runs |-> {}]
  /\ hostRoot = [r \in Runs |-> "/"]
  /\ raced = {} /\ met = {}

FsTypes ==
  /\ paths \subseteq Paths /\ oldRoots \subseteq Roots /\ broken \subseteq Roots
  /\ spc \in [Runs -> Living \cup {"none", "zombie", "reaped"}]
  /\ base \in [Runs -> Roots \cup {NoRoot}]
  /\ bound \in [Runs -> SUBSET Sources]
  /\ hostRoot \in [Runs -> {"/", "/old_root", "nowhere"}]
  /\ raced \subseteq Runs /\ met \subseteq Runs

=============================================================================
