------------------------------ MODULE Workspace ------------------------------
(***************************************************************************)
(* The workspace manager (src/workspace/workspace-manager.js): the git     *)
(* worktree an execution works in.  prepareWorkspace() makes, reuses or    *)
(* repositions it, cleanupWorkspace() removes it, and inspectWorktree()    *)
(* with worktreeProblem() (recovery.js) decides before the POST of a       *)
(* continuation whether it may be used.                                    *)
(*                                                                         *)
(* prepareWorkspace() awaits nothing, so nothing of its own process comes  *)
(* between its git commands; those of other processes do.  A step is one   *)
(* command that reads or changes what another process may change.  What    *)
(* git refuses by itself is external.                                      *)
(*                                                                         *)
(* People change the directories before the executions start, not while    *)
(* they run.  Roles edit files and do not commit or switch branches        *)
(* (claude-code.js denies them git).                                       *)
(***************************************************************************)
CONSTANTS
  Exec,          \* the executions, each in a process of its own
  Ticket, Key,
  KeyOf,         \* the normalized code of a ticket, names directory and branch
  TicketOf,      \* the ticket of an execution
  Holding,       \* executions by createWorkspaceExecution, which only hold
  Base,          \* the base branch
  Detached,      \* a HEAD on no branch
  Nowhere, People

ASSUME Constants ==
  /\ KeyOf \in [Ticket -> Key] /\ TicketOf \in [Exec -> Ticket]
  /\ Holding \subseteq Exec
  /\ {Base, Detached, Nowhere} \cap Key = {}
  /\ Base # Detached /\ Base # Nowhere /\ Detached # Nowhere
  /\ People \notin Exec

VARIABLES
  \* configuration
  repo,             \* origin against the ticket's targetRepository
  base,             \* can a base branch be resolved?
  primary,          \* what the primary clone has checked out
  cleanupOnCancel,
  \* disk, one directory per key
  tree,             \* nothing, something that is not our worktree, or it
  at,               \* the branch a worktree has checked out
  work,             \* whose uncommitted changes it holds
  refs,             \* the local branches
  \* executions
  mode,             \* "claim", or "continue" after an inspection
  pc,
  creates           \* did the branch not exist when it was looked up?

config == <<repo, base, primary, cleanupOnCancel>>
disk   == <<tree, at, work, refs>>
vars   == <<config, disk, mode, pc, creates>>

-----------------------------------------------------------------------------
(* Vocabulary *)

Branch == Key \cup {Base}

Preparing == {"look", "branch", "status", "ref", "checkout", "addRef", "add"}
Ended == {"refused", "failed", "released", "dead"}

\* workspacePathFor() and branchFor() normalize a code alike (but for dots and
\* dashes at its ends, which codes do not have); codes may coincide in it.
Path(e)      == KeyOf[TicketOf[e]]
BranchFor(e) == KeyOf[TicketOf[e]]

IsWorktree(k) == tree[k] = "worktree"
IsDirty(k)    == work[k] # {}
LocalBranchExists(b) == b \in refs

\* git checks a branch out in one worktree at a time, the primary included
InUse(b, k) == primary = b \/ \E j \in Key \ {k} : IsWorktree(j) /\ at[j] = b

OneTreePerBranch ==
  /\ \A k \in Key : IsWorktree(k) /\ at[k] # Detached => ~InUse(at[k], k)
  /\ primary \in refs /\ \A k \in Key : at[k] \in refs \cup {Detached, Nowhere}

\* any directories that git and people may have left
Init ==
  /\ repo \in {"match", "other", "unknown"} /\ base \in BOOLEAN
  /\ primary \in Branch /\ cleanupOnCancel \in BOOLEAN
  /\ tree \in [Key -> {"absent", "foreign", "worktree"}]
  /\ at \in [Key -> Key \cup {Detached, Nowhere}]
  /\ work \in [Key -> {{}, {People}}]
  /\ \A k \in Key : IF IsWorktree(k) THEN at[k] # Nowhere
                                     ELSE at[k] = Nowhere /\ work[k] = {}
  /\ refs \in SUBSET Branch /\ Base \in refs
  /\ OneTreePerBranch
  /\ mode \in [Exec -> {"claim", "continue"}]
  /\ pc = [e \in Exec |-> IF mode[e] = "claim" THEN "look" ELSE "inspect"]
  /\ creates = [e \in Exec |-> FALSE]

Goto(e, l) == pc' = [pc EXCEPT ![e] = l]

-----------------------------------------------------------------------------
(* The inspection before a continuation *)

\* Mutant: the branch is not compared.
WorktreeProblemAnyBranch(e) == ~IsWorktree(Path(e)) \/ repo = "other"

\* An origin that is unknown, or a ticket that names no repository, is none.
WorktreeProblem(e) ==
  \/ ~IsWorktree(Path(e))
  \/ at[Path(e)] # BranchFor(e)
  \/ repo = "other"

\* inspectWorktree() only reads; a continuation that passes has its Run granted
\* and creates an execution.
Inspect(e) ==
  /\ pc[e] = "inspect"
  /\ IF WorktreeProblem(e) THEN Goto(e, "refused") ELSE Goto(e, "look")
  /\ UNCHANGED <<config, disk, mode, creates>>

-----------------------------------------------------------------------------
(* prepareWorkspace() *)

\* The repository is the authorized one and a base branch can be resolved.
Authorized == repo = "match" /\ base

\* The checks that come first, and the directory as it is found.
Look(e) ==
  /\ pc[e] = "look"
  /\ \/ (~Authorized \/ tree[Path(e)] = "foreign") /\ Goto(e, "failed")
     \/ Authorized /\ tree[Path(e)] = "absent" /\ Goto(e, "addRef")
     \/ Authorized /\ IsWorktree(Path(e)) /\ Goto(e, "branch")
  /\ UNCHANGED <<config, disk, mode, creates>>

\* Mutant: a worktree of the ticket is taken as it is.
ReadBranchAny(e) ==
  /\ pc[e] = "branch"
  /\ IF IsWorktree(Path(e)) THEN Goto(e, "ready") ELSE Goto(e, "failed")
  /\ UNCHANGED <<config, disk, mode, creates>>

\* currentBranch(): on the ticket's branch the worktree is reused.  Here and
\* below git fails in a directory that was removed meanwhile.
ReadBranch(e) ==
  /\ pc[e] = "branch"
  /\ \/ ~IsWorktree(Path(e)) /\ Goto(e, "failed")
     \/ IsWorktree(Path(e)) /\ at[Path(e)] = BranchFor(e) /\ Goto(e, "ready")
     \/ IsWorktree(Path(e)) /\ at[Path(e)] # BranchFor(e) /\ Goto(e, "status")
  /\ UNCHANGED <<config, disk, mode, creates>>

\* Mutant: uncommitted changes are not looked for.
ReadStatusUnchecked(e) ==
  /\ pc[e] = "status"
  /\ IF IsWorktree(Path(e)) THEN Goto(e, "ref") ELSE Goto(e, "failed")
  /\ UNCHANGED <<config, disk, mode, creates>>

\* isDirty(): a dirty worktree on another branch is left alone.
ReadStatus(e) ==
  /\ pc[e] = "status"
  /\ IF IsWorktree(Path(e)) /\ ~IsDirty(Path(e)) THEN Goto(e, "ref")
                                                 ELSE Goto(e, "failed")
  /\ UNCHANGED <<config, disk, mode, creates>>

ReadRef(e) ==
  /\ \/ pc[e] = "ref" /\ Goto(e, "checkout")
     \/ pc[e] = "addRef" /\ Goto(e, "add")
  /\ creates' = [creates EXCEPT ![e] = ~LocalBranchExists(BranchFor(e))]
  /\ UNCHANGED <<config, disk, mode>>

\* git checks out a branch that exists and is free, or makes a new one.
GitAccepts(e) ==
  IF creates[e] THEN ~LocalBranchExists(BranchFor(e))
                ELSE LocalBranchExists(BranchFor(e)) /\ ~InUse(BranchFor(e), Path(e))

\* The worktree of e has the branch of e from now on, and e may use it.
OnBranch(e) ==
  /\ at' = [at EXCEPT ![Path(e)] = BranchFor(e)]
  /\ refs' = refs \cup {BranchFor(e)}
  /\ Goto(e, "ready")

GitRefuses(e) == Goto(e, "failed") /\ UNCHANGED disk

\* git checkout [-b]
Checkout(e) ==
  /\ pc[e] = "checkout"
  /\ \/ IsWorktree(Path(e)) /\ GitAccepts(e) /\ OnBranch(e) /\ UNCHANGED <<tree, work>>
     \/ ~(IsWorktree(Path(e)) /\ GitAccepts(e)) /\ GitRefuses(e)
  /\ UNCHANGED <<config, mode, creates>>

\* Mutant: git worktree add --force
AddWorktreeForced(e) ==
  /\ pc[e] = "add"
  /\ \/ /\ tree[Path(e)] = "absent" /\ OnBranch(e)
        /\ tree' = [tree EXCEPT ![Path(e)] = "worktree"]
        /\ UNCHANGED work
     \/ tree[Path(e)] # "absent" /\ GitRefuses(e)
  /\ UNCHANGED <<config, mode, creates>>

\* git worktree add [-b]
AddWorktree(e) ==
  /\ pc[e] = "add"
  /\ \/ /\ tree[Path(e)] = "absent" /\ GitAccepts(e) /\ OnBranch(e)
        /\ tree' = [tree EXCEPT ![Path(e)] = "worktree"]
        /\ UNCHANGED work
     \/ ~(tree[Path(e)] = "absent" /\ GitAccepts(e)) /\ GitRefuses(e)
  /\ UNCHANGED <<config, mode, creates>>

-----------------------------------------------------------------------------
(* The execution in its workspace *)

\* The IMPLEMENTER edits, possibly a little longer than its execution lasts.
Edit(e) ==
  /\ e \notin Holding /\ pc[e] \in {"ready", "released"} /\ IsWorktree(Path(e))
  /\ work' = [work EXCEPT ![Path(e)] = @ \cup {e}]
  /\ UNCHANGED <<config, tree, at, refs, mode, pc, creates>>

\* what cleanupWorkspace() removes without `force`: a registered worktree
\* without uncommitted changes
Removable(k) == IsWorktree(k) /\ ~IsDirty(k)

CleanupWorkspace(k) ==
  IF Removable(k) THEN /\ tree' = [tree EXCEPT ![k] = "absent"]
                       /\ at' = [at EXCEPT ![k] = Nowhere]
                       /\ work' = [work EXCEPT ![k] = {}]
                       /\ UNCHANGED refs
                  ELSE UNCHANGED disk

\* Mutant: an execution that failed cleans up like one that was ready.
CancelFailed(e) ==
  /\ e \in Holding /\ pc[e] \in {"ready", "failed"}
  /\ Goto(e, "released")
  /\ IF cleanupOnCancel THEN CleanupWorkspace(Path(e)) ELSE UNCHANGED disk
  /\ UNCHANGED <<config, mode, creates>>

\* cancel() of createWorkspaceExecution(): nothing is done if `ready` failed.
Cancel(e) ==
  /\ e \in Holding /\ pc[e] = "ready"
  /\ Goto(e, "released")
  /\ IF cleanupOnCancel THEN CleanupWorkspace(Path(e)) ELSE UNCHANGED disk
  /\ UNCHANGED <<config, mode, creates>>

\* An orchestration ends, or is cancelled: its worktree stays.
Finish(e) ==
  /\ e \notin Holding /\ pc[e] = "ready"
  /\ Goto(e, "released")
  /\ UNCHANGED <<config, disk, mode, creates>>

\* The process dies; git may leave a directory it has not registered.
Crash(e) ==
  /\ pc[e] \notin Ended
  /\ Goto(e, "dead")
  /\ \/ UNCHANGED tree
     \/ /\ pc[e] = "add" /\ tree[Path(e)] = "absent"
        /\ tree' = [tree EXCEPT ![Path(e)] = "foreign"]
  /\ UNCHANGED <<config, at, work, refs, mode, creates>>

-----------------------------------------------------------------------------
(* The specification *)

Prepare(e) ==
  \/ Look(e) \/ ReadBranch(e) \/ ReadStatus(e) \/ ReadRef(e)
  \/ Checkout(e) \/ AddWorktree(e)

Next ==
  \E e \in Exec : \/ Inspect(e) \/ Prepare(e) \/ Edit(e)
                  \/ Cancel(e) \/ Finish(e) \/ Crash(e)

Spec == Init /\ [][Next]_vars

-----------------------------------------------------------------------------
(* Properties *)

\* Types; and no branch is checked out twice, whatever is run concurrently.
TypeOK ==
  /\ repo \in {"match", "other", "unknown"} /\ base \in BOOLEAN
  /\ primary \in Branch /\ cleanupOnCancel \in BOOLEAN
  /\ tree \in [Key -> {"absent", "foreign", "worktree"}]
  /\ at \in [Key -> Key \cup {Detached, Nowhere}]
  /\ work \in [Key -> SUBSET (Exec \cup {People})]
  /\ refs \subseteq Branch
  /\ mode \in [Exec -> {"claim", "continue"}]
  /\ pc \in [Exec -> Preparing \cup Ended \cup {"inspect", "ready"}]
  /\ creates \in [Exec -> BOOLEAN]
  /\ OneTreePerBranch

\* "Never destroys work it does not own": no directory of others is changed,
\* and uncommitted changes stay in their worktree, on their branch.
KeepsWork(k) ==
  /\ tree[k] = "foreign" => tree'[k] = "foreign"
  /\ IsDirty(k) =>
       tree'[k] = "worktree" /\ at'[k] = at[k] /\ work[k] \subseteq work'[k]

NothingIsLost == [][\A k \in Key : KeepsWork(k)]_vars

CleansUp(e) == e \in Holding /\ cleanupOnCancel

\* Whatever other executions do in the same repository or for the same ticket,
\* one that was given its worktree finds it on the branch of its ticket, unless
\* one that cleans up shares it.
InPlace ==
  \A e \in Exec :
    pc[e] = "ready" /\ (\A f \in Exec \ {e} : CleansUp(f) => Path(f) # Path(e)) =>
      IsWorktree(Path(e)) /\ at[Path(e)] = BranchFor(e)

\* A worktree is only removed by an execution that was given it.
RemovesItsOwn(k) ==
  IsWorktree(k) /\ tree'[k] # "worktree" =>
    \E e \in Exec : /\ Path(e) = k /\ CleansUp(e) /\ Authorized
                    /\ pc[e] = "ready" /\ pc'[e] = "released"

CleansOnlyItsOwn == [][\A k \in Key : RemovesItsOwn(k)]_vars

\* "The dirty worktree is reused as-is": a continuation that passed the
\* inspection is given the inspected worktree and nothing is checked out or
\* added, unless the configuration is one that the inspection does not look at.
ReusedAsInspected ==
  \A e \in Exec :
    mode[e] = "continue" /\ Authorized /\ (\A f \in Exec : ~CleansUp(f)) =>
      pc[e] \in {"inspect", "refused", "look", "branch", "ready", "released", "dead"}

=============================================================================
