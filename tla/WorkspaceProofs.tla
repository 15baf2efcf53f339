--------------------------- MODULE WorkspaceProofs ---------------------------
(***************************************************************************)
(* Theorems about Workspace: its type invariant and its safety properties, *)
(* for every set of executions, tickets and directories, and every way in  *)
(* which the codes of tickets may coincide.                                *)
(***************************************************************************)
EXTENDS Workspace, TLAPS

\* Only worktrees hold uncommitted changes.
DirtInv == \A k \in Key : IsDirty(k) => IsWorktree(k)

\* Past the first checks the repository is known to be the right one.
AuthInv(e) ==
  pc[e] \in (Preparing \ {"look"}) \cup {"ready", "released"} => Authorized

\* Once an execution was given its worktree, that directory is on the branch of
\* its ticket, as long as it exists, whoever prepares it again.
PlacedInv(e) ==
  pc[e] \in {"ready", "released"} /\ IsWorktree(Path(e)) => at[Path(e)] = BranchFor(e)

\* If a worktree became dirty after isDirty() found it clean, then by the hand
\* of an execution that was given it: there is nothing left to check out.
MoveInv(e) ==
  pc[e] \in {"ref", "checkout"} /\ IsWorktree(Path(e)) /\ IsDirty(Path(e)) =>
    at[Path(e)] = BranchFor(e)

\* The directory of an execution is there unless another may clean it up.
HeldInv(e) ==
  pc[e] = "ready" /\ (\A f \in Exec \ {e} : CleansUp(f) => Path(f) # Path(e)) =>
    IsWorktree(Path(e))

\* What passed the inspection stays as inspected.
InspectedInv(e) ==
  mode[e] = "continue" /\ Authorized /\ (\A f \in Exec : ~CleansUp(f)) =>
    /\ pc[e] \in {"inspect", "refused", "look", "branch", "ready", "released", "dead"}
    /\ pc[e] \in {"look", "branch"} =>
         IsWorktree(Path(e)) /\ at[Path(e)] = BranchFor(e)

ExecInv(e) ==
  AuthInv(e) /\ PlacedInv(e) /\ MoveInv(e) /\ HeldInv(e) /\ InspectedInv(e)

IInv == TypeOK /\ DirtInv /\ \A e \in Exec : ExecInv(e)

-----------------------------------------------------------------------------
(* Lemmas about one step *)

\* The key of a ticket is a directory, and no marker.
LEMMA Keys ==
  ASSUME NEW e \in Exec
  PROVE  /\ Path(e) \in Key /\ BranchFor(e) = Path(e)
         /\ BranchFor(e) \in Branch /\ BranchFor(e) # Detached /\ BranchFor(e) # Nowhere
  BY Constants DEF Path, BranchFor, Branch

\* What git accepts keeps every branch in one worktree.
LEMMA GitKeepsOneTree ==
  ASSUME TypeOK, NEW e \in Exec, GitAccepts(e), OnBranch(e),
         tree' = tree \/ tree' = [tree EXCEPT ![Path(e)] = "worktree"],
         UNCHANGED config
  PROVE  OneTreePerBranch'
  <1>1. /\ \A j \in Key \ {Path(e)} : at'[j] = at[j] /\ tree'[j] = tree[j]
        /\ at'[Path(e)] = BranchFor(e) /\ primary' = primary
        /\ refs' = refs \cup {BranchFor(e)}
    BY Keys DEF OnBranch, TypeOK, config
  <1>2. ~InUse(BranchFor(e), Path(e))
    BY Keys DEF GitAccepts, InUse, TypeOK, OneTreePerBranch, LocalBranchExists
  <1>3. ASSUME NEW k \in Key, IsWorktree(k)', at'[k] # Detached
        PROVE  ~InUse(at[k], k)'
    <2>1. CASE k = Path(e)
      BY <1>1, <1>2, <1>3, <2>1, Keys DEF InUse, IsWorktree
    <2>2. CASE k # Path(e)
      <3>1. IsWorktree(k) /\ at'[k] = at[k] /\ ~InUse(at[k], k)
        BY <1>1, <1>3, <2>2 DEF IsWorktree, TypeOK, OneTreePerBranch
      <3>2. at[k] # BranchFor(e)
        BY <1>2, <2>2, <3>1 DEF InUse
      <3> QED
        BY <1>1, <3>1, <3>2, Keys DEF InUse, IsWorktree
    <2> QED
      BY <2>1, <2>2
  <1>4. primary' \in refs' /\ \A k \in Key : at'[k] \in refs' \cup {Detached, Nowhere}
    BY <1>1, Keys DEF TypeOK, OneTreePerBranch
  <1> QED
    BY <1>3, <1>4 DEF OneTreePerBranch

\* A directory that is removed frees its branch.
LEMMA CleanupKeepsTypes ==
  ASSUME TypeOK, NEW k \in Key, CleanupWorkspace(k), UNCHANGED config
  PROVE  /\ tree' \in [Key -> {"absent", "foreign", "worktree"}]
         /\ at' \in [Key -> Key \cup {Detached, Nowhere}]
         /\ work' \in [Key -> SUBSET (Exec \cup {People})]
         /\ refs' = refs /\ OneTreePerBranch'
  <1>1. CASE UNCHANGED disk
    BY <1>1 DEF TypeOK, OneTreePerBranch, InUse, IsWorktree, disk, config
  <1>2. CASE Removable(k)
    BY <1>2 DEF CleanupWorkspace, TypeOK, OneTreePerBranch, InUse, IsWorktree, config
  <1> QED
    BY <1>1, <1>2 DEF CleanupWorkspace

\* Every step keeps the types.
LEMMA TypeStep ==
  ASSUME TypeOK, Next
  PROVE  TypeOK'
  <1> PICK e \in Exec : \/ Inspect(e) \/ Prepare(e) \/ Edit(e)
                        \/ Cancel(e) \/ Finish(e) \/ Crash(e)
    BY DEF Next
  <1> USE DEF TypeOK, Goto, Preparing, Ended, config, disk
  <1>1. ASSUME UNCHANGED <<config, disk>> PROVE OneTreePerBranch'
    BY <1>1 DEF OneTreePerBranch, InUse, IsWorktree
  <1>2. CASE Inspect(e)
    BY <1>1, <1>2 DEF Inspect
  <1>3. CASE Look(e)
    BY <1>1, <1>3 DEF Look
  <1>4. CASE ReadBranch(e)
    BY <1>1, <1>4 DEF ReadBranch
  <1>5. CASE ReadStatus(e)
    BY <1>1, <1>5 DEF ReadStatus
  <1>6. CASE ReadRef(e)
    BY <1>1, <1>6 DEF ReadRef, LocalBranchExists
  <1>7. CASE Checkout(e)
    <2>1. CASE GitAccepts(e) /\ OnBranch(e) /\ UNCHANGED <<tree, work>>
      BY <1>7, <2>1, GitKeepsOneTree, Keys DEF Checkout, OnBranch
    <2>2. CASE GitRefuses(e)
      BY <1>1, <1>7, <2>2 DEF Checkout, GitRefuses
    <2> QED
      BY <1>7, <2>1, <2>2 DEF Checkout
  <1>8. CASE AddWorktree(e)
    <2>1. CASE /\ GitAccepts(e) /\ OnBranch(e) /\ UNCHANGED work
               /\ tree' = [tree EXCEPT ![Path(e)] = "worktree"]
      BY <1>8, <2>1, GitKeepsOneTree, Keys DEF AddWorktree, OnBranch
    <2>2. CASE GitRefuses(e)
      BY <1>1, <1>8, <2>2 DEF AddWorktree, GitRefuses
    <2> QED
      BY <1>8, <2>1, <2>2 DEF AddWorktree
  <1>9. CASE Edit(e)
    BY <1>9, Keys DEF Edit, OneTreePerBranch, InUse, IsWorktree
  <1>10. CASE Cancel(e)
    BY <1>1, <1>10, CleanupKeepsTypes, Keys DEF Cancel
  <1>11. CASE Finish(e)
    BY <1>1, <1>11 DEF Finish
  <1>12. CASE Crash(e)
    BY <1>12, Keys DEF Crash, OneTreePerBranch, InUse, IsWorktree
  <1> QED
    BY <1>2, <1>3, <1>4, <1>5, <1>6, <1>7, <1>8, <1>9, <1>10, <1>11, <1>12
    DEF Prepare

\* Steps that leave the disk alone disturb only their own execution.
LEMMA DiskUntouched ==
  ASSUME IInv, TypeOK', NEW e \in Exec, UNCHANGED <<config, disk, mode>>,
         \A f \in Exec \ {e} : pc'[f] = pc[f], ExecInv(e)'
  PROVE  DirtInv' /\ \A f \in Exec : ExecInv(f)'
  <1>1. DirtInv'
    BY DEF IInv, DirtInv, IsDirty, IsWorktree, disk
  <1>2. ASSUME NEW f \in Exec, f # e PROVE ExecInv(f)'
    BY <1>2 DEF IInv, ExecInv, AuthInv, PlacedInv, MoveInv, HeldInv, InspectedInv,
       Authorized, IsWorktree, IsDirty, CleansUp, Path, BranchFor, config, disk
  <1> QED
    BY <1>1, <1>2

\* Every step keeps the invariant.
LEMMA InvStep ==
  ASSUME IInv, Next
  PROVE  DirtInv' /\ \A f \in Exec : ExecInv(f)'
  <1> PICK e \in Exec : \/ Inspect(e) \/ Prepare(e) \/ Edit(e)
                        \/ Cancel(e) \/ Finish(e) \/ Crash(e)
    BY DEF Next
  <1> TypeOK /\ TypeOK'
    BY TypeStep DEF IInv
  <1> USE Keys DEF IInv, Goto, Preparing, Ended, IsWorktree, IsDirty
  <1>1. CASE Inspect(e)
    <2>1. ExecInv(e)'
      BY <1>1 DEF Inspect, WorktreeProblem, TypeOK, ExecInv, AuthInv, PlacedInv,
         MoveInv, HeldInv, InspectedInv, Authorized, CleansUp, config, disk
    <2> QED
      BY <1>1, <2>1, DiskUntouched DEF Inspect, TypeOK
  <1>2. CASE Look(e)
    <2>1. ExecInv(e)'
      BY <1>2 DEF Look, TypeOK, ExecInv, AuthInv, PlacedInv,
         MoveInv, HeldInv, InspectedInv, Authorized, CleansUp, config, disk
    <2> QED
      BY <1>2, <2>1, DiskUntouched DEF Look, TypeOK
  <1>3. CASE ReadBranch(e)
    <2>1. ExecInv(e)'
      BY <1>3 DEF ReadBranch, TypeOK, ExecInv, AuthInv, PlacedInv,
         MoveInv, HeldInv, InspectedInv, Authorized, CleansUp, config, disk
    <2> QED
      BY <1>3, <2>1, DiskUntouched DEF ReadBranch, TypeOK
  <1>4. CASE ReadStatus(e)
    <2>1. ExecInv(e)'
      BY <1>4 DEF ReadStatus, TypeOK, ExecInv, AuthInv, PlacedInv,
         MoveInv, HeldInv, InspectedInv, Authorized, CleansUp, config, disk
    <2> QED
      BY <1>4, <2>1, DiskUntouched DEF ReadStatus, TypeOK
  <1>5. CASE ReadRef(e)
    <2>1. ExecInv(e)'
      BY <1>5 DEF ReadRef, TypeOK, ExecInv, AuthInv, PlacedInv,
         MoveInv, HeldInv, InspectedInv, Authorized, CleansUp, config, disk
    <2> QED
      BY <1>5, <2>1, DiskUntouched DEF ReadRef, TypeOK
  <1>6. CASE Finish(e)
    <2>1. ExecInv(e)'
      BY <1>6 DEF Finish, TypeOK, ExecInv, AuthInv, PlacedInv,
         MoveInv, HeldInv, InspectedInv, Authorized, CleansUp, config, disk
    <2> QED
      BY <1>6, <2>1, DiskUntouched DEF Finish, TypeOK
  <1>7. CASE Checkout(e)
    <2>1. CASE GitRefuses(e)
      <3>1. ExecInv(e)'
        BY <1>7, <2>1 DEF Checkout, GitRefuses, TypeOK, ExecInv, AuthInv, PlacedInv,
           MoveInv, HeldInv, InspectedInv, Authorized, CleansUp, config, disk
      <3> QED
        BY <1>7, <2>1, <3>1, DiskUntouched DEF Checkout, GitRefuses, TypeOK
    <2>2. CASE IsWorktree(Path(e)) /\ OnBranch(e) /\ UNCHANGED <<tree, work>>
      <3>1. DirtInv'
        BY <2>2 DEF DirtInv
      <3>2. ASSUME NEW f \in Exec PROVE ExecInv(f)'
        BY <1>7, <2>2, <3>2 DEF Checkout, OnBranch, TypeOK, ExecInv, AuthInv, PlacedInv,
           MoveInv, HeldInv, InspectedInv, Authorized, CleansUp, config
      <3> QED
        BY <3>1, <3>2
    <2> QED
      BY <1>7, <2>1, <2>2 DEF Checkout
  <1>8. CASE AddWorktree(e)
    <2>1. CASE GitRefuses(e)
      <3>1. ExecInv(e)'
        BY <1>8, <2>1 DEF AddWorktree, GitRefuses, TypeOK, ExecInv, AuthInv, PlacedInv,
           MoveInv, HeldInv, InspectedInv, Authorized, CleansUp, config, disk
      <3> QED
        BY <1>8, <2>1, <3>1, DiskUntouched DEF AddWorktree, GitRefuses, TypeOK
    <2>2. CASE /\ OnBranch(e) /\ UNCHANGED work
               /\ tree' = [tree EXCEPT ![Path(e)] = "worktree"]
      <3>1. DirtInv'
        BY <2>2 DEF DirtInv, TypeOK
      <3>2. ASSUME NEW f \in Exec PROVE ExecInv(f)'
        BY <1>8, <2>2, <3>2 DEF AddWorktree, OnBranch, TypeOK, ExecInv, AuthInv,
           PlacedInv, MoveInv, HeldInv, InspectedInv, Authorized, CleansUp, config
      <3> QED
        BY <3>1, <3>2
    <2> QED
      BY <1>8, <2>1, <2>2 DEF AddWorktree
  <1>9. CASE Edit(e)
    <2>1. DirtInv'
      BY <1>9 DEF Edit, DirtInv, TypeOK
    <2>2. ASSUME NEW f \in Exec PROVE ExecInv(f)'
      BY <1>9, <2>2 DEF Edit, TypeOK, ExecInv, AuthInv, PlacedInv,
         MoveInv, HeldInv, InspectedInv, Authorized, CleansUp, config
    <2> QED
      BY <2>1, <2>2
  <1>10. CASE Cancel(e)
    <2>1. CASE UNCHANGED disk
      <3>1. ExecInv(e)'
        BY <1>10, <2>1 DEF Cancel, TypeOK, ExecInv, AuthInv, PlacedInv,
           MoveInv, HeldInv, InspectedInv, Authorized, CleansUp, config, disk
      <3> QED
        BY <1>10, <2>1, <3>1, DiskUntouched DEF Cancel, TypeOK
    <2>2. CASE cleanupOnCancel /\ Removable(Path(e)) /\ CleanupWorkspace(Path(e))
      <3>1. DirtInv'
        BY <2>2 DEF DirtInv, CleanupWorkspace, TypeOK
      <3>2. ASSUME NEW f \in Exec PROVE ExecInv(f)'
        BY <1>10, <2>2, <3>2 DEF Cancel, CleanupWorkspace, TypeOK, ExecInv, AuthInv,
           PlacedInv, MoveInv, HeldInv, InspectedInv, Authorized, CleansUp, config
      <3> QED
        BY <3>1, <3>2
    <2> QED
      BY <1>10, <2>1, <2>2 DEF Cancel, CleanupWorkspace
  <1>11. CASE Crash(e)
    <2>1. DirtInv'
      BY <1>11 DEF Crash, DirtInv, TypeOK
    <2>2. ASSUME NEW f \in Exec PROVE ExecInv(f)'
      BY <1>11, <2>2 DEF Crash, TypeOK, ExecInv, AuthInv, PlacedInv,
         MoveInv, HeldInv, InspectedInv, Authorized, CleansUp, config
    <2> QED
      BY <2>1, <2>2
  <1> QED
    BY <1>1, <1>2, <1>3, <1>4, <1>5, <1>6, <1>7, <1>8, <1>9, <1>10, <1>11
    DEF Prepare

-----------------------------------------------------------------------------
(* The theorems *)

\* The inductive invariant holds in every reachable state.
THEOREM Invariance == Spec => []IInv
  <1>1. Init => IInv
    <2> SUFFICES ASSUME Init PROVE IInv
      OBVIOUS
    <2>1. TypeOK
      BY DEF Init, TypeOK, Branch, Preparing, Ended
    <2>2. DirtInv
      BY DEF Init, DirtInv, IsDirty, IsWorktree
    <2>3. \A e \in Exec : ExecInv(e)
      BY DEF Init, ExecInv, AuthInv, PlacedInv, MoveInv, HeldInv, InspectedInv, Preparing
    <2> QED
      BY <2>1, <2>2, <2>3 DEF IInv
  <1>2. IInv /\ [Next]_vars => IInv'
    <2> SUFFICES ASSUME IInv, [Next]_vars PROVE IInv'
      OBVIOUS
    <2>1. CASE Next
      BY <2>1, TypeStep, InvStep DEF IInv
    <2>2. CASE UNCHANGED vars
      BY <2>2 DEF vars, config, disk, IInv, TypeOK, OneTreePerBranch, InUse, DirtInv,
         ExecInv, AuthInv, PlacedInv, MoveInv, HeldInv, InspectedInv, Authorized,
         CleansUp, IsDirty, IsWorktree, Path, BranchFor
    <2> QED
      BY <2>1, <2>2
  <1> QED
    BY <1>1, <1>2, PTL DEF Spec

\* Every variable keeps its type, and no branch is ever in two worktrees.
THEOREM Typing == Spec => []TypeOK
  <1>1. IInv => TypeOK
    BY DEF IInv
  <1> QED
    BY <1>1, Invariance, PTL

\* An execution works in a worktree on the branch of its ticket, whatever others
\* prepare meanwhile (prepareWorkspace), unless one that cleans up shares it.
THEOREM WorksInPlace == Spec => []InPlace
  <1>1. IInv => InPlace
    BY DEF IInv, ExecInv, PlacedInv, HeldInv, InPlace
  <1> QED
    BY <1>1, Invariance, PTL

\* What inspectWorktree() and worktreeProblem() accepted, prepareWorkspace()
\* reuses as it is.
THEOREM InspectionSuffices == Spec => []ReusedAsInspected
  <1>1. IInv => ReusedAsInspected
    BY DEF IInv, ExecInv, InspectedInv, ReusedAsInspected
  <1> QED
    BY <1>1, Invariance, PTL

\* No step changes a foreign directory or uncommitted work.
LEMMA WorkStep ==
  ASSUME IInv, Next, NEW k \in Key
  PROVE  KeepsWork(k)
  <1> PICK e \in Exec : \/ Inspect(e) \/ Prepare(e) \/ Edit(e)
                        \/ Cancel(e) \/ Finish(e) \/ Crash(e)
    BY DEF Next
  <1> USE Keys DEF IInv, TypeOK, KeepsWork, IsDirty, IsWorktree, DirtInv
  <1>1. CASE UNCHANGED disk
    BY <1>1 DEF disk
  <1>2. CASE Checkout(e) /\ IsWorktree(Path(e)) /\ GitAccepts(e) /\ OnBranch(e)
    BY <1>2 DEF Checkout, OnBranch, GitAccepts, LocalBranchExists, OneTreePerBranch,
       ExecInv, MoveInv
  <1>3. CASE AddWorktree(e) /\ tree[Path(e)] = "absent" /\ OnBranch(e)
             /\ tree' = [tree EXCEPT ![Path(e)] = "worktree"] /\ UNCHANGED work
    <2>1. k # Path(e) => tree'[k] = tree[k] /\ at'[k] = at[k] /\ work'[k] = work[k]
      BY <1>3 DEF OnBranch
    <2>2. CASE k # Path(e)
      BY <2>1, <2>2
    <2>3. CASE k = Path(e)
      BY <1>3, <2>3
    <2> QED
      BY <2>2, <2>3
  <1>4. CASE Edit(e)
    BY <1>4 DEF Edit
  <1>5. CASE Cancel(e) /\ Removable(Path(e)) /\ CleanupWorkspace(Path(e))
    BY <1>5 DEF Cancel, Removable, CleanupWorkspace
  <1>6. CASE Crash(e)
    BY <1>6 DEF Crash
  <1> QED
    BY <1>1, <1>2, <1>3, <1>4, <1>5, <1>6
    DEF Prepare, Inspect, Look, ReadBranch, ReadStatus, ReadRef, Checkout, AddWorktree,
        GitRefuses, Cancel, CleanupWorkspace, Finish

\* Uncommitted work is never lost, nor carried to another branch
\* (prepareWorkspace, cleanupWorkspace).
THEOREM WorkIsKept == Spec => NothingIsLost
  <1>1. IInv /\ [Next]_vars => [\A k \in Key : KeepsWork(k)]_vars
    BY WorkStep
  <1> QED
    BY <1>1, Invariance, PTL DEF Spec, NothingIsLost

\* A step that removes a worktree is the cleanup of an execution it was given to.
LEMMA RemovalStep ==
  ASSUME IInv, Next, NEW k \in Key
  PROVE  RemovesItsOwn(k)
  <1> PICK e \in Exec : \/ Inspect(e) \/ Prepare(e) \/ Edit(e)
                        \/ Cancel(e) \/ Finish(e) \/ Crash(e)
    BY DEF Next
  <1> USE Keys DEF IInv, TypeOK, RemovesItsOwn, IsWorktree
  <1>1. CASE UNCHANGED tree
    BY <1>1
  <1>2. CASE AddWorktree(e) /\ tree' = [tree EXCEPT ![Path(e)] = "worktree"]
    BY <1>2
  <1>3. CASE Cancel(e) /\ cleanupOnCancel
    <2>1. pc[e] = "ready" /\ pc'[e] = "released" /\ CleansUp(e) /\ Authorized
      BY <1>3 DEF Cancel, Goto, CleansUp, ExecInv, AuthInv
    <2>2. k # Path(e) => tree'[k] = tree[k]
      BY <1>3 DEF Cancel, CleanupWorkspace, disk
    <2> QED
      BY <2>1, <2>2
  <1>4. CASE Crash(e)
    BY <1>4 DEF Crash
  <1> QED
    BY <1>1, <1>2, <1>3, <1>4
    DEF Prepare, Inspect, Look, ReadBranch, ReadStatus, ReadRef, Checkout, AddWorktree,
        GitRefuses, Edit, Cancel, Finish, disk

\* Only an execution that was given a worktree removes it
\* (createWorkspaceExecution, cleanupWorkspace).
THEOREM OnlyItsOwnIsRemoved == Spec => CleansOnlyItsOwn
  <1>1. IInv /\ [Next]_vars => [\A k \in Key : RemovesItsOwn(k)]_vars
    BY RemovalStep
  <1> QED
    BY <1>1, Invariance, PTL DEF Spec, CleansOnlyItsOwn

=============================================================================
