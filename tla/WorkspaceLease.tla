--------------------------- MODULE WorkspaceLease ---------------------------
(***************************************************************************)
(* The single-writer lease of one workspace metadata directory             *)
(* (~/.orkworks/workspaces/<hash>/) and the startup garbage collection that *)
(* removes the directory of a deleted source.                              *)
(*                                                                         *)
(*   WorkspaceLease::acquire   workspace_runtime.rs                        *)
(*   open_workspace_inner      session_application.rs (the lease part)     *)
(*   gc_stale_workspaces_once  runtime/workspace_gc.rs                     *)
(*                                                                         *)
(* The lease is an OS advisory lock on an open `.sidecar.lock`.  The lock   *)
(* belongs to the inode, and the inode can be unlinked while it is open, so *)
(* inodes are modelled: lockAt is the inode the path names, file[p] the     *)
(* inode process p has open, owner[i] the process that holds i's lock.      *)
(* Every file system call of the code is one step here.                    *)
(***************************************************************************)
EXTENDS Naturals, FiniteSets

CONSTANTS Sidecars,        \* processes that open the workspace
          Collectors,      \* gc passes (every starting sidecar runs one)
          MaxInode,        \* bound: lock files ever created
          MaxSource,       \* bound: directories ever created at the source path
          Free             \* the owner of an unlocked lock file

ASSUME BoundsAssumption == MaxInode \in Nat \ {0} /\ MaxSource \in Nat \ {0}
ASSUME ProcessAssumption == /\ Sidecars \cap Collectors = {}
                            /\ Free \notin Sidecars \cup Collectors

Procs == Sidecars \cup Collectors
None == 0                        \* no inode / no source directory
Inodes == 1..MaxInode

VARIABLES dir,        \* does the metadata directory exist?
          lockAt,     \* the inode `.sidecar.lock` names, or None
          nextInode,
          origin,     \* does origin.json exist?
          archived,   \* does session-state/ hold a retention-protected record?
          owner,      \* [Inodes -> Procs \cup {Free}]: the OS lock
          source,     \* identity of the directory at the source path, or None
          nextSource,
          parent,     \* is the source's parent directory present?
          pc, file, ident

env == <<source, nextSource, parent>>
disk == <<dir, lockAt, nextInode, origin, archived>>
vars == <<disk, owner, env, pc, file, ident>>

Stages == {"idle", "resolved", "mkdir", "open", "lock", "held",
           "adopting", "owner", "stale", "orphaned", "doomed", "emptied",
           "done"}

FlagsOK == /\ dir \in BOOLEAN /\ origin \in BOOLEAN
           /\ archived \in BOOLEAN /\ parent \in BOOLEAN

(* Type correctness of the directory, the locks and the processes.         *)
TypeOK == /\ FlagsOK
          /\ lockAt \in Inodes \cup {None}
          /\ nextInode \in 1..(MaxInode + 1)
          /\ owner \in [Inodes -> Procs \cup {Free}]
          /\ source \in 0..MaxSource /\ nextSource \in 1..(MaxSource + 1)
          /\ pc \in [Procs -> Stages]
          /\ file \in [Procs -> Inodes \cup {None}]
          /\ ident \in [Procs -> 0..MaxSource]

\* A workspace that was used before: its directory, lock file and origin
\* exist, nobody runs.
Init == /\ dir = TRUE /\ lockAt = 1 /\ nextInode = 2 /\ origin = TRUE
        /\ archived = FALSE
        /\ owner = [i \in Inodes |-> Free]
        /\ source = 1 /\ nextSource = 2 /\ parent = TRUE
        /\ pc = [p \in Procs |-> "idle"]
        /\ file = [p \in Procs |-> None]
        /\ ident = [p \in Procs |-> None]

Goto(p, stage) == pc' = [pc EXCEPT ![p] = stage]

\* Closing the file drops its lock (impl Drop for WorkspaceLease; the OS does
\* the same for a process that dies).
DropLease(p) ==
  /\ owner' = [i \in Inodes |-> IF owner[i] = p THEN Free ELSE owner[i]]
  /\ file' = [file EXCEPT ![p] = None]

-----------------------------------------------------------------------------
(* WorkspaceLease::acquire, taken by sidecars and collectors alike.        *)

MakeDir(p) ==
  /\ pc[p] = "mkdir"
  /\ dir' = TRUE
  /\ Goto(p, "open")
  /\ UNCHANGED <<lockAt, nextInode, origin, archived, owner, env, file, ident>>

\* The result of acquire's `?`: a sidecar reports the failure, a collector
\* counts the directory as active and goes on.
AcquireFailed(p) == Goto(p, IF p \in Sidecars THEN "idle" ELSE "done")

OpenLockFile(p) ==
  /\ pc[p] = "open"
  /\ \/ /\ ~dir                        \* ENOENT: removed since create_dir_all
        /\ AcquireFailed(p)
        /\ UNCHANGED <<lockAt, nextInode, file>>
     \/ /\ dir /\ lockAt # None
        /\ file' = [file EXCEPT ![p] = lockAt]
        /\ Goto(p, "lock")
        /\ UNCHANGED <<lockAt, nextInode>>
     \/ /\ dir /\ lockAt = None /\ nextInode \in Inodes
        /\ lockAt' = nextInode
        /\ nextInode' = nextInode + 1
        /\ file' = [file EXCEPT ![p] = nextInode]
        /\ Goto(p, "lock")
  /\ UNCHANGED <<dir, origin, archived, owner, env, ident>>

\* Mutant: the lock is not waited for and not refused (a shared lock).
TryLockExclusive_shared(p) ==
  /\ pc[p] = "lock"
  /\ owner' = [owner EXCEPT ![file[p]] = p]
  /\ Goto(p, "held")
  /\ UNCHANGED <<disk, env, file, ident>>

TryLockExclusive(p) ==
  /\ pc[p] = "lock"
  /\ \/ /\ owner[file[p]] = Free
        /\ owner' = [owner EXCEPT ![file[p]] = p]
        /\ Goto(p, "held")
        /\ UNCHANGED file
     \/ /\ owner[file[p]] # Free       \* WouldBlock
        /\ AcquireFailed(p)
        /\ file' = [file EXCEPT ![p] = None]
        /\ UNCHANGED owner
  /\ UNCHANGED <<disk, env, ident>>

-----------------------------------------------------------------------------
(* open_workspace_inner: the part that obtains and adopts the lease.       *)

\* WorkspaceIdentity::resolve, in the HTTP handler.
Resolve(s) ==
  /\ pc[s] = "idle"
  /\ source # None
  /\ ident' = [ident EXCEPT ![s] = source]
  /\ Goto(s, "resolved")
  /\ UNCHANGED <<disk, owner, env, file>>

\* WorkspaceIdentity::revalidate: the path still names the captured directory.
Revalidates(s) == source = ident[s]

RevalidateBefore(s) ==
  /\ pc[s] = "resolved"
  /\ Goto(s, IF Revalidates(s) THEN "mkdir" ELSE "idle")
  /\ UNCHANGED <<disk, owner, env, file, ident>>

\* Mutant: the identity is not revalidated once the lease is held.
RevalidateAfter_unchecked(s) ==
  /\ pc[s] = "held"
  /\ Goto(s, "adopting")
  /\ UNCHANGED <<disk, owner, env, file, ident>>

\* The two back-to-back revalidations after the lease was acquired.
RevalidateAfter(s) ==
  /\ pc[s] = "held"
  /\ \/ /\ Revalidates(s)
        /\ Goto(s, "adopting")
        /\ UNCHANGED <<owner, file>>
     \/ /\ ~Revalidates(s)
        /\ Goto(s, "idle")
        /\ DropLease(s)
  /\ UNCHANGED <<disk, env, ident>>

\* create_dir_all of the metadata subdirectories, write_origin_file_if_absent,
\* and the exchange of WorkspaceState that owns the lease.
Adopt(s) ==
  /\ pc[s] = "adopting"
  /\ dir' = TRUE
  /\ origin' = TRUE
  /\ Goto(s, "owner")
  /\ UNCHANGED <<lockAt, nextInode, archived, owner, env, file, ident>>

\* A session of the open workspace is archived or restored.
ArchiveSession(s) ==
  /\ pc[s] = "owner" /\ dir
  /\ archived' = ~archived
  /\ UNCHANGED <<dir, lockAt, nextInode, origin, owner, env, pc, file, ident>>

\* Opening the same path again keeps the lease after one revalidation and
\* writes the origin file if it is gone.
Reopen(s) ==
  /\ pc[s] = "owner"
  /\ source # None
  /\ dir' = TRUE /\ origin' = TRUE
  /\ UNCHANGED <<lockAt, nextInode, archived, owner, env, pc, file, ident>>

\* Switching to another workspace, or shutdown, drops the retired state.
Release(s) ==
  /\ pc[s] = "owner"
  /\ DropLease(s)
  /\ Goto(s, "idle")
  /\ UNCHANGED <<disk, env, ident>>

-----------------------------------------------------------------------------
(* gc_stale_workspaces_once, for this directory.                           *)

GcReadOrigin(g) ==
  /\ pc[g] = "idle"
  /\ Goto(g, IF dir /\ origin THEN "mkdir" ELSE "done")
  /\ UNCHANGED <<disk, owner, env, file, ident>>

\* Mutant: a pass that keeps the directory keeps its lease until it exits.
GcKeep_leased(g) == Goto(g, "done") /\ UNCHANGED <<owner, file>>

\* `kept`, `skipped_unavailable_ancestor`, `skipped_protected`.
GcKeep(g) == DropLease(g) /\ Goto(g, "done")

GcCheckSource(g) ==
  /\ pc[g] = "held"
  /\ \/ source = None /\ Goto(g, "stale") /\ UNCHANGED <<owner, file>>
     \/ source # None /\ GcKeep(g)
  /\ UNCHANGED <<disk, env, ident>>

GcCheckParent(g) ==
  /\ pc[g] = "stale"
  /\ \/ parent /\ Goto(g, "orphaned") /\ UNCHANGED <<owner, file>>
     \/ ~parent /\ GcKeep(g)
  /\ UNCHANGED <<disk, env, ident>>

GcCheckProtected(g) ==
  /\ pc[g] = "orphaned"
  /\ \/ ~archived /\ Goto(g, "doomed") /\ UNCHANGED <<owner, file>>
     \/ archived /\ GcKeep(g)
  /\ UNCHANGED <<disk, env, ident>>

\* remove_dir_all empties the directory ...
GcRemoveContents(g) ==
  /\ pc[g] = "doomed"
  /\ lockAt' = None
  /\ origin' = FALSE
  /\ archived' = FALSE
  /\ Goto(g, "emptied")
  /\ UNCHANGED <<dir, nextInode, owner, env, file, ident>>

\* ... and then removes it, which fails if something was created in it
\* meanwhile; either way the lease is dropped last.
GcRemoveDir(g) ==
  /\ pc[g] = "emptied"
  /\ dir' = (lockAt # None \/ origin \/ archived)
  /\ DropLease(g)
  /\ Goto(g, "done")
  /\ UNCHANGED <<lockAt, nextInode, origin, archived, env, ident>>

-----------------------------------------------------------------------------
(* The environment.                                                        *)

Crash(p) ==
  /\ pc[p] \notin {"idle", "done"}
  /\ DropLease(p)
  /\ Goto(p, IF p \in Sidecars THEN "idle" ELSE "done")
  /\ UNCHANGED <<disk, env, ident>>

\* The user deletes the source directory (a removed worktree).
DeleteSource ==
  /\ source # None
  /\ source' = None
  /\ UNCHANGED <<disk, owner, nextSource, parent, pc, file, ident>>

\* ... and creates one at the same path again.
CreateSource ==
  /\ source = None /\ parent
  /\ nextSource \in 1..MaxSource
  /\ source' = nextSource
  /\ nextSource' = nextSource + 1
  /\ UNCHANGED <<disk, owner, parent, pc, file, ident>>

\* The medium that holds the source goes away or comes back.
ToggleParent ==
  /\ source = None
  /\ parent' = ~parent
  /\ UNCHANGED <<disk, owner, source, nextSource, pc, file, ident>>

AcquireStep(p) == MakeDir(p) \/ OpenLockFile(p) \/ TryLockExclusive(p)

SidecarStep(s) ==
  \/ Resolve(s) \/ RevalidateBefore(s) \/ RevalidateAfter(s) \/ Adopt(s)
  \/ ArchiveSession(s) \/ Reopen(s) \/ Release(s)

CollectorStep(g) ==
  \/ GcReadOrigin(g) \/ GcCheckSource(g) \/ GcCheckParent(g)
  \/ GcCheckProtected(g) \/ GcRemoveContents(g) \/ GcRemoveDir(g)

Next == \/ \E p \in Procs : AcquireStep(p) \/ Crash(p)
        \/ \E s \in Sidecars : SidecarStep(s)
        \/ \E g \in Collectors : CollectorStep(g)
        \/ DeleteSource \/ CreateSource \/ ToggleParent

Spec == Init /\ [][Next]_vars

-----------------------------------------------------------------------------
Adopted(s) == pc[s] \in {"adopting", "owner"}

\* The source was not created again after it was deleted.
FirstSource == nextSource = 2

(* "Only one sidecar may mutate or reconcile a workspace's metadata at a    *)
(* time" (ADR 0052): two sidecars past the lease never share the workspace. *)
SingleOwner ==
  \A s, t \in Sidecars : Adopted(s) /\ Adopted(t) => s = t

(* ... which holds until a deleted source is created again.                 *)
SingleOwnerOfSource == FirstSource => SingleOwner

(* The lease a sidecar works under is on the lock file its path names, so   *)
(* the next sidecar to open the path meets it; gc never unlinks it.         *)
OwnerHoldsLinkedLock ==
  FirstSource =>
    \A s \in Sidecars : Adopted(s) => file[s] = lockAt /\ owner[lockAt] = s

Condemning(g) == pc[g] \in {"stale", "orphaned", "doomed", "emptied"}
Locked(p) == pc[p] \in {"held", "adopting", "owner"} \/ Condemning(p)

(* A lock is held exactly by a process that still works under its lease,    *)
(* on the file it has open: whichever check fails, step is refused or       *)
(* process dies, no lease stays behind that would keep others out.          *)
LeaseIsExact ==
  \A p \in Procs, i \in Inodes : owner[i] = p <=> Locked(p) /\ file[p] = i

\* The inductive strengthening of SingleOwner.  While the source exists, or a
\* sidecar still works under a lease it obtained when it did, nothing was ever
\* unlinked, so every open lock file is the one the path names.
LeaseInv ==
  /\ \A p \in Procs : pc[p] = "lock" => file[p] # None
  /\ \A p \in Procs : Locked(p) => file[p] # None /\ owner[file[p]] = p
  /\ \A s \in Sidecars : pc[s] # "idle" => ident[s] # None
  /\ \A g \in Collectors : Condemning(g) => source = None
  /\ (source # None \/ \E s \in Sidecars : Adopted(s))
        => \A p \in Procs : file[p] # None => file[p] = lockAt

LeaseIndInv == nextSource >= 2 /\ (FirstSource => LeaseInv)

(* Until then garbage collection never empties the directory under a        *)
(* sidecar that adopted it (the comment on remove_dir_all in                *)
(* gc_stale_workspaces_once).                                               *)
RemovalSparesOwner ==
  [][\A g \in Collectors :
        FirstSource /\ GcRemoveContents(g) => ~\E s \in Sidecars : Adopted(s)]_vars

=============================================================================
