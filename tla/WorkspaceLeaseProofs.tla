------------------------ MODULE WorkspaceLeaseProofs ------------------------
(***************************************************************************)
(* Proofs about WorkspaceLease for any sets of sidecars and gc passes.     *)
(***************************************************************************)
EXTENDS WorkspaceLease, TLAPS

\* Type correctness of the lease and gc protocol.
THEOREM LeaseTypeOK == Spec => []TypeOK
<1>1. Init => TypeOK
  <2>1. Init => FlagsOK
    BY DEF Init, FlagsOK
  <2>2. QED
    BY <2>1, BoundsAssumption DEF Init, TypeOK, Inodes, None, Stages
<1>2. TypeOK /\ [Next]_vars => FlagsOK'
  BY Zenon DEF TypeOK, FlagsOK, Next, AcquireStep, MakeDir, OpenLockFile,
     TryLockExclusive, Crash, SidecarStep, Resolve, RevalidateBefore,
     RevalidateAfter, Adopt, ArchiveSession, Reopen, Release, CollectorStep,
     GcReadOrigin, GcCheckSource, GcCheckParent, GcCheckProtected,
     GcRemoveContents, GcRemoveDir, DeleteSource, CreateSource, ToggleParent,
     vars, env, disk
<1>3. TypeOK /\ [Next]_vars => TypeOK'
  <2> SUFFICES ASSUME TypeOK, [Next]_vars PROVE TypeOK'
    OBVIOUS
  <2>0. FlagsOK'
    BY <1>2
  <2> USE BoundsAssumption DEF TypeOK, Goto, DropLease, env, disk, None, Stages
  <2>1. ASSUME NEW p \in Procs, AcquireStep(p) PROVE TypeOK'
    <3>1. CASE MakeDir(p)
      BY <2>0, <3>1 DEF MakeDir
    <3>2. CASE OpenLockFile(p)
      <4>1. CASE ~dir
        BY <2>0, <3>2, <4>1 DEF OpenLockFile, AcquireFailed
      <4>2. CASE dir /\ lockAt # None
        BY <2>0, <3>2, <4>2 DEF OpenLockFile
      <4>3. CASE dir /\ lockAt = None
        <5>1. nextInode \in Inodes /\ nextInode' = nextInode + 1
          BY <3>2, <4>3 DEF OpenLockFile
        <5>2. nextInode' \in 1..(MaxInode + 1)
          BY <5>1 DEF Inodes
        <5>3. QED
          BY <2>0, <3>2, <4>3, <5>1, <5>2 DEF OpenLockFile
      <4>4. QED
        BY <4>1, <4>2, <4>3
    <3>3. CASE TryLockExclusive(p)
      BY <2>0, <3>3 DEF TryLockExclusive, AcquireFailed
    <3>4. QED
      BY <2>1, <3>1, <3>2, <3>3 DEF AcquireStep
  <2>2. ASSUME NEW p \in Procs, Crash(p) PROVE TypeOK'
    BY <2>0, <2>2 DEF Crash
  <2>3. ASSUME NEW s \in Sidecars, SidecarStep(s) PROVE TypeOK'
    BY <2>0, <2>3 DEF SidecarStep, Resolve, RevalidateBefore, RevalidateAfter,
         Adopt, ArchiveSession, Reopen, Release, Procs
  <2>4. ASSUME NEW g \in Collectors, CollectorStep(g) PROVE TypeOK'
    BY <2>0, <2>4 DEF CollectorStep, GcReadOrigin, GcCheckSource,
         GcCheckParent, GcCheckProtected, GcRemoveContents, GcRemoveDir,
         GcKeep, Procs
  <2>5. CASE DeleteSource \/ CreateSource \/ ToggleParent
    BY <2>0, <2>5 DEF DeleteSource, CreateSource, ToggleParent
  <2>6. CASE UNCHANGED vars
    BY <2>0, <2>6 DEF vars
  <2>7. QED
    BY <2>1, <2>2, <2>3, <2>4, <2>5, <2>6 DEF Next
<1>4. QED
  BY <1>1, <1>3, PTL DEF Spec

\* What dropping a lease leaves of the other leases.
LEMMA DropLeaseFacts ==
  ASSUME TypeOK, NEW p \in Procs, DropLease(p)
  PROVE  /\ file'[p] = None
         /\ \A q \in Procs \ {p} : file'[q] = file[q]
         /\ \A i \in Inodes : owner[i] # p => owner'[i] = owner[i]
BY DEF DropLease, TypeOK

\* A step of p that touches only p's lock, p's file and p's stage, and leaves
\* those three in agreement, keeps every process's in agreement.
LEMMA ExactForOne ==
  ASSUME TypeOK, LeaseIsExact, NEW p \in Procs,
         \A q \in Procs \ {p} : pc'[q] = pc[q] /\ file'[q] = file[q],
         \A i \in Inodes, q \in Procs \ {p} : owner'[i] = q <=> owner[i] = q,
         \A i \in Inodes : owner'[i] = p <=> Locked(p)' /\ file'[p] = i
  PROVE  LeaseIsExact'
<1>1. \A q \in Procs \ {p} : Locked(q)' <=> Locked(q)
  BY DEF Locked, Condemning
<1>2. QED
  BY <1>1 DEF LeaseIsExact

\* A process that drops its lease and leaves the protocol leaves no lock.
LEMMA LeavingIsExact ==
  ASSUME TypeOK, LeaseIsExact, NEW p \in Procs, NEW stage \in {"idle", "done"},
         DropLease(p), Goto(p, stage)
  PROVE  LeaseIsExact'
<1> USE DEF TypeOK, Goto, DropLease
<1>1. \A q \in Procs \ {p} : pc'[q] = pc[q] /\ file'[q] = file[q]
  OBVIOUS
<1>2. \A i \in Inodes, q \in Procs \ {p} : owner'[i] = q <=> owner[i] = q
  BY ProcessAssumption DEF Procs
<1>3. \A i \in Inodes : owner'[i] # p
  BY ProcessAssumption DEF Procs
<1>4. ~Locked(p)'
  BY DEF Locked, Condemning
<1>5. QED
  BY <1>1, <1>2, <1>3, <1>4, ExactForOne

\* A step of p that neither takes nor drops a lock, and stays on the same side
\* of holding one, as long as it changes p's file only while p holds none.
LEMMA SameSideIsExact ==
  ASSUME TypeOK, LeaseIsExact, NEW p \in Procs, NEW stage \in Stages,
         Goto(p, stage), UNCHANGED owner,
         \A q \in Procs \ {p} : file'[q] = file[q],
         Locked(p)' <=> Locked(p),
         Locked(p) => file'[p] = file[p]
  PROVE  LeaseIsExact'
<1>1. \A q \in Procs \ {p} : pc'[q] = pc[q]
  BY DEF TypeOK, Goto
<1>2. \A i \in Inodes : owner'[i] = p <=> Locked(p)' /\ file'[p] = i
  BY DEF LeaseIsExact
<1>3. QED
  BY <1>1, <1>2, ExactForOne

LEMMA LeaseIsExactStep ==
  ASSUME TypeOK, LeaseIsExact, [Next]_vars
  PROVE  LeaseIsExact'
<1>1. ASSUME NEW p \in Procs, AcquireStep(p) PROVE LeaseIsExact'
  <2>1. CASE MakeDir(p)
    BY <2>1, SameSideIsExact DEF MakeDir, TypeOK, Goto, Locked, Condemning, Stages
  <2>2. CASE OpenLockFile(p)
    <3>1. PICK stage \in {"idle", "done", "lock"} : Goto(p, stage)
      BY <2>2 DEF OpenLockFile, AcquireFailed
    <3>2. ~Locked(p) /\ ~Locked(p)'
      BY <2>2, <3>1 DEF OpenLockFile, TypeOK, Goto, Locked, Condemning
    <3>3. \A q \in Procs \ {p} : file'[q] = file[q]
      BY <2>2 DEF OpenLockFile, TypeOK
    <3>4. QED
      BY <2>2, <3>1, <3>2, <3>3, SameSideIsExact DEF OpenLockFile, Stages
  <2>3. CASE TryLockExclusive(p)
    <3>1. CASE owner[file[p]] = Free
      <4>1. \A q \in Procs \ {p} : pc'[q] = pc[q] /\ file'[q] = file[q]
        BY <2>3, <3>1 DEF TryLockExclusive, TypeOK, Goto
      <4>2. \A i \in Inodes : owner[i] # p
        BY <2>3 DEF TryLockExclusive, LeaseIsExact, Locked, Condemning
      <4>3. \A i \in Inodes : owner'[i] = IF i = file[p] THEN p ELSE owner[i]
        BY <2>3, <3>1 DEF TryLockExclusive, TypeOK
      <4>4. Locked(p)' /\ file'[p] = file[p]
        BY <2>3, <3>1 DEF TryLockExclusive, TypeOK, Goto, Locked
      <4>5. \A i \in Inodes, q \in Procs \ {p} : owner'[i] = q <=> owner[i] = q
        BY <3>1, <4>3, ProcessAssumption DEF Procs
      <4>6. \A i \in Inodes : owner'[i] = p <=> Locked(p)' /\ file'[p] = i
        BY <4>2, <4>3, <4>4
      <4>7. QED
        BY <4>1, <4>5, <4>6, ExactForOne
    <3>2. CASE owner[file[p]] # Free
      <4>1. PICK stage \in {"idle", "done"} : Goto(p, stage)
        BY <2>3, <3>2 DEF TryLockExclusive, AcquireFailed
      <4>2. ~Locked(p) /\ ~Locked(p)'
        BY <2>3, <4>1 DEF TryLockExclusive, TypeOK, Goto, Locked, Condemning
      <4>3. \A q \in Procs \ {p} : file'[q] = file[q]
        BY <2>3, <3>2 DEF TryLockExclusive, TypeOK
      <4>4. QED
        BY <2>3, <3>2, <4>1, <4>2, <4>3, SameSideIsExact
           DEF TryLockExclusive, Stages
    <3>3. QED
      BY <3>1, <3>2
  <2>4. QED
    BY <1>1, <2>1, <2>2, <2>3 DEF AcquireStep
<1>2. ASSUME NEW p \in Procs, Crash(p) PROVE LeaseIsExact'
  BY <1>2, LeavingIsExact DEF Crash
<1>3. ASSUME NEW s \in Sidecars, SidecarStep(s) PROVE LeaseIsExact'
  <2> s \in Procs
    BY DEF Procs
  <2>1. CASE Resolve(s) \/ RevalidateBefore(s)
    BY <2>1, SameSideIsExact
       DEF Resolve, RevalidateBefore, TypeOK, Goto, Locked, Condemning, Stages
  <2>2. CASE RevalidateAfter(s)
    <3>1. CASE Revalidates(s)
      BY <2>2, <3>1, SameSideIsExact
         DEF RevalidateAfter, TypeOK, Goto, Locked, Condemning, Stages
    <3>2. CASE ~Revalidates(s)
      BY <2>2, <3>2, LeavingIsExact DEF RevalidateAfter
    <3>3. QED
      BY <3>1, <3>2
  <2>3. CASE Adopt(s)
    BY <2>3, SameSideIsExact DEF Adopt, TypeOK, Goto, Locked, Condemning, Stages
  <2>4. CASE ArchiveSession(s) \/ Reopen(s)
    BY <2>4 DEF ArchiveSession, Reopen, LeaseIsExact, Locked, Condemning
  <2>5. CASE Release(s)
    BY <2>5, LeavingIsExact DEF Release
  <2>6. QED
    BY <1>3, <2>1, <2>2, <2>3, <2>4, <2>5 DEF SidecarStep
<1>4. ASSUME NEW g \in Collectors, CollectorStep(g) PROVE LeaseIsExact'
  <2> g \in Procs
    BY DEF Procs
  <2>1. CASE GcReadOrigin(g) \/ GcRemoveContents(g)
    BY <2>1, SameSideIsExact
       DEF GcReadOrigin, GcRemoveContents, TypeOK, Goto, Locked, Condemning, Stages
  <2>2. CASE GcKeep(g) \/ GcRemoveDir(g)
    BY <2>2, LeavingIsExact DEF GcKeep, GcRemoveDir
  <2>3. CASE ~GcKeep(g) /\ (GcCheckSource(g) \/ GcCheckParent(g) \/ GcCheckProtected(g))
    BY <2>3, SameSideIsExact
       DEF GcCheckSource, GcCheckParent, GcCheckProtected, TypeOK, Goto, Locked,
           Condemning, Stages
  <2>4. QED
    BY <1>4, <2>1, <2>2, <2>3 DEF CollectorStep
<1>5. CASE DeleteSource \/ CreateSource \/ ToggleParent \/ UNCHANGED vars
  BY <1>5 DEF DeleteSource, CreateSource, ToggleParent, vars, LeaseIsExact, Locked,
     Condemning
<1>6. QED
  BY <1>1, <1>2, <1>3, <1>4, <1>5 DEF Next

\* No lease outlives the work it was taken for, whether or not a deleted source
\* is created again: a refused, failed, finished or crashed sidecar or gc pass
\* has dropped its lock, and one that still works holds exactly its own file's.
THEOREM LeaseAlwaysExact == Spec => []LeaseIsExact
<1>1. Init => LeaseIsExact
  BY ProcessAssumption DEF Init, LeaseIsExact, Locked, Condemning, Procs
<1>2. TypeOK /\ LeaseIsExact /\ [Next]_vars => LeaseIsExact'
  BY LeaseIsExactStep
<1>3. QED
  BY <1>1, <1>2, LeaseTypeOK, PTL DEF Spec

\* A process that gives up its file and leaves the protocol disturbs nobody.
LEMMA LeavingKeepsLeaseInv ==
  ASSUME TypeOK, LeaseInv, NEW p \in Procs, NEW stage \in {"idle", "done"},
         p \in Sidecars => stage = "idle",
         pc' = [pc EXCEPT ![p] = stage],
         file'[p] = None,
         \A q \in Procs \ {p} : file'[q] = file[q],
         \A i \in Inodes : owner[i] # p => owner'[i] = owner[i],
         UNCHANGED <<lockAt, source, ident>>
  PROVE  LeaseInv'
<1> USE DEF TypeOK, Procs, Stages
<1>1. \A q \in Procs \ {p} : pc'[q] = pc[q]
  OBVIOUS
<1>2. pc'[p] = stage
  OBVIOUS
<1>3. \A q \in Procs : Locked(q)' => q # p /\ Locked(q)
  BY <1>1, <1>2 DEF Locked, Condemning
<1>4. \A s \in Sidecars : Adopted(s)' => Adopted(s)
  BY <1>1, <1>2 DEF Adopted
<1>5. \A g \in Collectors : Condemning(g)' => Condemning(g)
  BY <1>1, <1>2 DEF Condemning
<1>6. \A q \in Procs : pc'[q] = "lock" => file'[q] # None
  BY <1>1, <1>2 DEF LeaseInv
<1>7. \A q \in Procs : Locked(q)' => file'[q] # None /\ owner'[file'[q]] = q
  BY <1>3 DEF LeaseInv, None
<1>8. \A s \in Sidecars : pc'[s] # "idle" => ident'[s] # None
  BY <1>1, <1>2 DEF LeaseInv
<1>9. (source' # None \/ \E s \in Sidecars : Adopted(s)')
        => \A q \in Procs : file'[q] # None => file'[q] = lockAt'
  BY <1>4 DEF LeaseInv
<1>10. QED
  BY <1>5, <1>6, <1>7, <1>8, <1>9 DEF LeaseInv

\* A gc pass about to empty the directory holds the lock of a file that no
\* sidecar past the lease holds.
LEMMA CondemnedIsUnowned ==
  ASSUME TypeOK, LeaseInv, NEW g \in Collectors, pc[g] = "doomed"
  PROVE  ~\E s \in Sidecars : Adopted(s)
<1>1. owner[file[g]] = g /\ file[g] # None
  BY DEF LeaseInv, Locked, Condemning, Procs
<1>2. QED
  BY <1>1, ProcessAssumption DEF LeaseInv, Locked, Adopted, Procs

\* The strengthened invariant is inductive as long as a deleted source stays
\* deleted.
LEMMA LeaseInvInductive ==
  ASSUME TypeOK, LeaseInv, [Next]_vars, ~CreateSource
  PROVE  LeaseInv'
<1> USE BoundsAssumption, ProcessAssumption
    DEF TypeOK, Goto, env, disk, None, Stages, Inodes, Procs,
        LeaseInv, Locked, Condemning, Adopted
<1>1. ASSUME NEW p \in Procs, MakeDir(p) PROVE LeaseInv'
  BY <1>1 DEF MakeDir
<1>2. ASSUME NEW p \in Procs, OpenLockFile(p) PROVE LeaseInv'
  <2>1. CASE ~dir
    BY <1>2, <2>1 DEF OpenLockFile, AcquireFailed
  <2>2. CASE dir /\ lockAt # None
    BY <1>2, <2>2 DEF OpenLockFile
  <2>3. CASE dir /\ lockAt = None
    <3>1. /\ lockAt' = nextInode /\ nextInode \in Inodes
          /\ file' = [file EXCEPT ![p] = nextInode]
          /\ pc' = [pc EXCEPT ![p] = "lock"]
          /\ UNCHANGED <<owner, source, ident>> /\ pc[p] = "open"
      BY <1>2, <2>3 DEF OpenLockFile
    <3>2. QED
      BY <2>3, <3>1
  <2>4. QED
    BY <2>1, <2>2, <2>3
<1>3. ASSUME NEW p \in Procs, TryLockExclusive(p) PROVE LeaseInv'
  <2>1. CASE owner[file[p]] = Free
    BY <1>3, <2>1 DEF TryLockExclusive
  <2>2. CASE owner[file[p]] # Free
    BY <1>3, <2>2, LeavingKeepsLeaseInv DEF TryLockExclusive, AcquireFailed
  <2>3. QED
    BY <2>1, <2>2
<1>4. ASSUME NEW p \in Procs, Crash(p) PROVE LeaseInv'
  BY <1>4, DropLeaseFacts, LeavingKeepsLeaseInv DEF Crash
<1>5. ASSUME NEW s \in Sidecars, Resolve(s) PROVE LeaseInv'
  BY <1>5 DEF Resolve
<1>6. ASSUME NEW s \in Sidecars, RevalidateBefore(s) PROVE LeaseInv'
  BY <1>6 DEF RevalidateBefore
<1>7. ASSUME NEW s \in Sidecars, RevalidateAfter(s) PROVE LeaseInv'
  <2>1. CASE Revalidates(s) /\ Goto(s, "adopting") /\ UNCHANGED <<owner, file>>
    BY <1>7, <2>1 DEF RevalidateAfter, Revalidates
  <2>2. CASE Goto(s, "idle") /\ DropLease(s)
    BY <1>7, <2>2, DropLeaseFacts, LeavingKeepsLeaseInv DEF RevalidateAfter
  <2>3. QED
    BY <1>7, <2>1, <2>2 DEF RevalidateAfter
<1>8. ASSUME NEW s \in Sidecars, Adopt(s) PROVE LeaseInv'
  BY <1>8 DEF Adopt
<1>9. ASSUME NEW s \in Sidecars, ArchiveSession(s) \/ Reopen(s) PROVE LeaseInv'
  BY <1>9 DEF ArchiveSession, Reopen
<1>10. ASSUME NEW s \in Sidecars, Release(s) PROVE LeaseInv'
  BY <1>10, DropLeaseFacts, LeavingKeepsLeaseInv DEF Release
<1>11. ASSUME NEW g \in Collectors, GcReadOrigin(g) PROVE LeaseInv'
  BY <1>11 DEF GcReadOrigin
<1>12. ASSUME NEW g \in Collectors,
              GcCheckSource(g) \/ GcCheckParent(g) \/ GcCheckProtected(g)
       PROVE  LeaseInv'
  <2>0. UNCHANGED <<lockAt, source, ident>> /\ pc[g] \in {"held", "stale", "orphaned"}
    BY <1>12 DEF GcCheckSource, GcCheckParent, GcCheckProtected
  <2>1. CASE GcKeep(g)
    BY <2>0, <2>1, DropLeaseFacts, LeavingKeepsLeaseInv DEF GcKeep
  <2>2. CASE /\ \E stage \in {"stale", "orphaned", "doomed"} : Goto(g, stage)
             /\ source = None /\ UNCHANGED <<owner, file>>
    BY <2>0, <2>2
  <2>3. CASE pc[g] = "held" /\ source = None /\ Goto(g, "stale") /\ UNCHANGED <<owner, file>>
    BY <2>2, <2>3
  <2>4. CASE /\ pc[g] \in {"stale", "orphaned"} /\ UNCHANGED <<owner, file>>
             /\ Goto(g, "orphaned") \/ Goto(g, "doomed")
    BY <2>2, <2>4
  <2>5. QED
    BY <1>12, <2>1, <2>3, <2>4 DEF GcCheckSource, GcCheckParent, GcCheckProtected
<1>13. ASSUME NEW g \in Collectors, GcRemoveContents(g) PROVE LeaseInv'
  <2>1. source = None /\ ~\E s \in Sidecars : Adopted(s)
    BY <1>13, CondemnedIsUnowned DEF GcRemoveContents
  <2>2. QED
    BY <1>13, <2>1 DEF GcRemoveContents
<1>14. ASSUME NEW g \in Collectors, GcRemoveDir(g) PROVE LeaseInv'
  BY <1>14, DropLeaseFacts DEF GcRemoveDir
<1>15. CASE DeleteSource \/ ToggleParent
  BY <1>15 DEF DeleteSource, ToggleParent
<1>16. CASE UNCHANGED vars
  BY <1>16 DEF vars
<1>17. QED
  BY <1>1, <1>2, <1>3, <1>4, <1>5, <1>6, <1>7, <1>8, <1>9, <1>10, <1>11,
     <1>12, <1>13, <1>14, <1>15, <1>16
     DEF Next, AcquireStep, SidecarStep, CollectorStep

\* Only CreateSource changes nextSource, and it ends the first source.
LEMMA LeaseIndInvStep ==
  ASSUME TypeOK, LeaseIndInv, [Next]_vars
  PROVE  LeaseIndInv'
<1>1. CASE CreateSource
  BY <1>1 DEF CreateSource, LeaseIndInv, FirstSource, TypeOK
<1>2. CASE ~CreateSource
  <2>1. nextSource' = nextSource
    BY <1>2 DEF Next, vars, env, AcquireStep, SidecarStep, CollectorStep, MakeDir,
         OpenLockFile, TryLockExclusive, Crash, Resolve, RevalidateBefore,
         RevalidateAfter, Adopt, ArchiveSession, Reopen, Release, GcReadOrigin,
         GcCheckSource, GcCheckParent, GcCheckProtected, GcRemoveContents,
         GcRemoveDir, DeleteSource, ToggleParent
  <2>2. FirstSource => LeaseInv'
    BY <1>2, LeaseInvInductive DEF LeaseIndInv
  <2>3. QED
    BY <2>1, <2>2 DEF LeaseIndInv, FirstSource
<1>3. QED
  BY <1>1, <1>2

LEMMA LeaseIndInvHolds == Spec => []LeaseIndInv
<1>1. Init => LeaseIndInv
  BY DEF Init, LeaseIndInv, LeaseInv, Locked, Condemning, Adopted, None, Procs
<1>2. TypeOK /\ LeaseIndInv /\ [Next]_vars => LeaseIndInv'
  BY LeaseIndInvStep
<1>3. QED
  BY <1>1, <1>2, LeaseTypeOK, PTL DEF Spec

\* ADR 0052's single writer: until a deleted source directory is created
\* again, no two sidecars ever work on the workspace, however many sidecars and
\* gc passes run and wherever they crash.
THEOREM LeaseSingleOwner == Spec => []SingleOwnerOfSource
<1>1. TypeOK /\ LeaseIndInv => SingleOwnerOfSource
  BY DEF TypeOK, LeaseIndInv, LeaseInv, SingleOwnerOfSource, SingleOwner, Locked,
         Adopted, Procs
<1>2. QED
  BY <1>1, LeaseIndInvHolds, LeaseTypeOK, PTL

\* Until then the lease a sidecar works under is always the lock of the file
\* its path names: gc unlinked nothing beneath it.
THEOREM LeaseOwnerLinked == Spec => []OwnerHoldsLinkedLock
<1>1. TypeOK /\ LeaseIndInv => OwnerHoldsLinkedLock
  BY DEF TypeOK, LeaseIndInv, LeaseInv, OwnerHoldsLinkedLock, Locked, Adopted, Procs
<1>2. QED
  BY <1>1, LeaseIndInvHolds, LeaseTypeOK, PTL

\* Until then gc_stale_workspaces_once never empties the directory under a
\* sidecar that adopted it.
THEOREM LeaseRemovalSparesOwner == Spec => RemovalSparesOwner
<1>1. ASSUME TypeOK, LeaseIndInv, NEW g \in Collectors, FirstSource,
             GcRemoveContents(g)
      PROVE  ~\E s \in Sidecars : Adopted(s)
  BY <1>1, CondemnedIsUnowned DEF LeaseIndInv, GcRemoveContents
<1>2. TypeOK /\ LeaseIndInv /\ [Next]_vars =>
        [\A g \in Collectors :
           FirstSource /\ GcRemoveContents(g)
             => ~\E s \in Sidecars : Adopted(s)]_vars
  BY <1>1
<1>3. QED
  BY <1>2, LeaseIndInvHolds, LeaseTypeOK, PTL DEF Spec, RemovalSparesOwner

=============================================================================
