----------------------------- MODULE TargetClone -----------------------------
(***************************************************************************)
(* The one git clone of a target and the issues worked in it: the claim    *)
(* (executor.ts), which attaches to pushed work or starts a branch afresh, *)
(* the worktrees and branches it leaves, and the passes that prune them    *)
(* (executor/worktree.ts, daemon/reconciler.ts), across crashes.           *)
(***************************************************************************)
EXTENDS Naturals, FiniteSets

CONSTANTS Issues,
          MaxClaimFailures,  \* a claim that keeps failing is parked
          CloneFaults,       \* "crash", "read", "network", "label", "remove", "person"
          MaxCloneFaults     \* bound: faults per behaviour

VARIABLES ready,     \* issues labelled ready-for-agent
          row,       \* their run rows: "none", "running", "parked" or "done"
          driven,    \* issues a session works on (inFlight)
          trees,     \* registered worktrees, one path per issue
          local, origin,  \* an issue's branch here and at origin: "none", "base", "work"
          pulls,     \* its newest pull request: "none", "open", "closed"
          task,      \* what the daemon's own thread is at
          failures,  \* consecutive failed claims
          cloneFaults

cloneVars == <<ready, row, driven, trees, local, origin, pulls, task, failures, cloneFaults>>
git == <<trees, local, origin, pulls>>

CloneFault(f) ==
  f \in CloneFaults /\ cloneFaults < MaxCloneFaults /\ cloneFaults' = cloneFaults + 1
CloneCalm == UNCHANGED cloneFaults
Idle == [at |-> "idle", todo |-> {}, of |-> {}, saw |-> "none"]
At(s) == task.at = s
Set(f, i, v) == [f EXCEPT ![i] = v]

\* create: --delete at origin closes the pull request, then worktree add -B.
PullAfterDelete(i) == IF pulls[i] = "open" THEN "closed" ELSE pulls[i]
\* attach: the local branch as it is, or made from what origin has.
Attachable(i) == local[i] # "none" \/ origin[i] # "none"
AttachedTo(i) == Set(local, i, IF local[i] = "none" THEN origin[i] ELSE local[i])

-----------------------------------------------------------------------------
(* The claim.                                                              *)
\* findPullRequestForBranch; a failing read counts as none.
Look ==
  /\ At("look") /\ UNCHANGED <<ready, row, driven, git, failures>>
  /\ \E i \in task.of :
       \/ task' = [task EXCEPT !.at = "place", !.saw = pulls[i]] /\ CloneCalm
       \/ task' = [task EXCEPT !.at = "place", !.saw = "unread"] /\ CloneFault("read")

\* recordClaimFailure, then surfaceClaimAnomaly when the budget is spent.
Failed(i, unlabels) ==
  IF failures[i] + 1 < MaxClaimFailures
  THEN failures' = Set(failures, i, failures[i] + 1) /\ UNCHANGED <<ready, row>>
  ELSE /\ failures' = Set(failures, i, 0) /\ row' = Set(row, i, "done")
       /\ ready' = IF unlabels THEN ready \ {i} ELSE ready
NextClaim == task' = [task EXCEPT !.at = "claims", !.of = {}, !.saw = "none"]

\* mutant: any pull request, and any failure to read one, starts over.
NeverResumes == FALSE
\* An open pull request is the durable sign of work to preserve.
ResumesWork == task.saw = "open"
AttachWork ==
  /\ At("place") /\ ResumesWork
  /\ \E i \in task.of :
       \/ /\ Attachable(i) /\ local' = AttachedTo(i) /\ trees' = trees \cup {i}
          /\ task' = [task EXCEPT !.at = "record"] /\ UNCHANGED <<ready, row, failures>>
       \/ /\ ~Attachable(i) /\ trees' = trees \ {i} /\ UNCHANGED local
          /\ \E unlabels \in BOOLEAN : Failed(i, unlabels)
          /\ NextClaim
  /\ UNCHANGED <<driven, origin, pulls>> /\ CloneCalm

\* createUnlocked fetches the base, clears what is left of the branch, adds it.
FetchBase ==
  /\ At("place") /\ ~ResumesWork /\ UNCHANGED <<driven, git>>
  /\ \/ task' = [task EXCEPT !.at = "clear"] /\ CloneCalm /\ UNCHANGED <<ready, row, failures>>
     \/ /\ CloneFault("network") /\ NextClaim
        /\ \E i \in task.of : \E unlabels \in BOOLEAN : Failed(i, unlabels)
ClearStale ==
  /\ At("clear") /\ task' = [task EXCEPT !.at = "add"]
  /\ \E i \in task.of :
       /\ trees' = trees \ {i}
       /\ \/ origin' = Set(origin, i, "none") /\ pulls' = Set(pulls, i, PullAfterDelete(i)) /\ CloneCalm
          \/ CloneFault("network") /\ UNCHANGED <<origin, pulls>>
  /\ UNCHANGED <<ready, row, driven, local, failures>>
AddTree ==
  /\ At("add") /\ task' = [task EXCEPT !.at = "record"]
  /\ \E i \in task.of : trees' = trees \cup {i} /\ local' = Set(local, i, "base")
  /\ UNCHANGED <<ready, row, driven, origin, pulls, failures>> /\ CloneCalm

RecordClaim ==
  /\ At("record") /\ task' = [task EXCEPT !.at = "label"]
  /\ \E i \in task.of : row' = Set(row, i, "running")
  /\ UNCHANGED <<ready, driven, git, failures>> /\ CloneCalm
\* The label goes and the session starts, or the row goes and the claim is undone.
Unlabel ==
  /\ At("label") /\ UNCHANGED git
  /\ \E i \in task.of :
       \/ /\ ready' = ready \ {i} /\ driven' = driven \cup {i}
          /\ failures' = Set(failures, i, 0) /\ NextClaim /\ UNCHANGED row /\ CloneCalm
       \/ /\ CloneFault("label") /\ row' = Set(row, i, "none")
          /\ task' = [task EXCEPT !.at = "undo"] /\ UNCHANGED <<ready, driven, failures>>
Undo ==
  /\ At("undo") /\ NextClaim /\ UNCHANGED <<driven, local, origin, pulls>>
  /\ \E i \in task.of :
       /\ \/ trees' = trees \ {i} /\ CloneCalm
          \/ CloneFault("remove") /\ UNCHANGED trees
       /\ \E unlabels \in BOOLEAN : Failed(i, unlabels)

-----------------------------------------------------------------------------
(* The tick: the sweep of the worktrees, then the claims.                  *)
\* pruneOrphanWorktrees: an unfinished row counts only while it is in flight.
Referenced == {i \in driven : row[i] \in {"running", "parked"}}
SweepTrees ==
  /\ At("idle") /\ task' = [task EXCEPT !.at = "sweep", !.todo = trees \ Referenced]
  /\ UNCHANGED <<ready, row, driven, git, failures>> /\ CloneCalm
RemoveTree ==
  /\ At("sweep") /\ UNCHANGED <<ready, row, driven, local, origin, pulls, failures>>
  /\ \/ \E i \in task.todo :
          /\ task' = [task EXCEPT !.todo = @ \ {i}]
          /\ \/ trees' = trees \ {i} /\ CloneCalm
             \/ CloneFault("remove") /\ UNCHANGED trees
     \/ /\ task.todo = {} /\ UNCHANGED trees /\ CloneCalm
        /\ task' = [Idle EXCEPT !.at = "claims", !.todo = ready]

Claimable(i) == i \in ready /\ row[i] \in {"none", "done"} /\ i \notin driven
StartClaim ==
  /\ At("claims") /\ UNCHANGED <<ready, row, driven, git, failures>> /\ CloneCalm
  /\ \/ \E i \in task.todo :
          task' = [task EXCEPT !.todo = @ \ {i}, !.at = IF Claimable(i) THEN "look" ELSE "claims",
                               !.of = IF Claimable(i) THEN {i} ELSE {}]
     \/ task.todo = {} /\ task' = Idle

-----------------------------------------------------------------------------
(* Sessions: their containers push to origin only.                         *)
Pushes ==
  /\ \E i \in driven :
       /\ origin' = Set(origin, i, "work")
       /\ \E p \in {pulls[i], "open"} : pulls' = Set(pulls, i, p)
  /\ UNCHANGED <<ready, row, driven, trees, local, task, failures>> /\ CloneCalm

\* ensureDraftPullRequest: whatever pull request the branch has will do.
EnsuredPull(i) == IF pulls[i] = "none" THEN "open" ELSE pulls[i]
\* The checkpoint pushes; the teardown is best effort.
TornDown(i) == \/ trees' = trees \ {i} /\ CloneCalm
               \/ CloneFault("remove") /\ UNCHANGED trees
Parks ==
  /\ \E i \in driven :
       /\ driven' = driven \ {i} /\ row' = Set(row, i, "parked")
       /\ \/ origin' = Set(origin, i, "work") /\ pulls' = Set(pulls, i, EnsuredPull(i))
          \/ UNCHANGED <<origin, pulls>>
       /\ TornDown(i)
  /\ UNCHANGED <<ready, local, task, failures>>
Ends ==
  /\ \E i \in driven : driven' = driven \ {i} /\ row' = Set(row, i, "done") /\ TornDown(i)
  /\ UNCHANGED <<ready, local, origin, pulls, task, failures>>

Resumes ==
  /\ At("idle")
  /\ \E i \in Issues :
       /\ row[i] = "parked" /\ Attachable(i) /\ row' = Set(row, i, "running")
       /\ driven' = driven \cup {i} /\ trees' = trees \cup {i} /\ local' = AttachedTo(i)
  /\ UNCHANGED <<ready, origin, pulls, task, failures>> /\ CloneCalm

Person ==
  /\ CloneFault("person") /\ UNCHANGED <<row, driven, trees, local, origin, task, failures>>
  /\ \E i \in Issues :
       \/ pulls[i] = "open" /\ pulls' = Set(pulls, i, "closed") /\ UNCHANGED ready
       \/ pulls[i] = "closed" /\ origin[i] = "work" /\ pulls' = Set(pulls, i, "open") /\ UNCHANGED ready
       \/ i \notin ready /\ ready' = ready \cup {i} /\ UNCHANGED pulls

-----------------------------------------------------------------------------
(* A crash, and the start after it.                                        *)
Crash ==
  /\ CloneFault("crash") /\ ~At("rows")
  /\ driven' = {} /\ failures' = [i \in Issues |-> 0]
  /\ task' = [Idle EXCEPT !.at = "rows", !.todo = {i \in Issues : row[i] = "running"}]
  /\ UNCHANGED <<ready, row, git>>

\* reconcileOrphanRunningRow: re-driven with its pull request open, else given up.
Reconcile ==
  /\ At("rows") /\ UNCHANGED <<ready, origin, pulls, failures>> /\ CloneCalm
  /\ \E i \in task.todo :
       /\ task' = [task EXCEPT !.todo = @ \ {i}]
       /\ IF pulls[i] = "open"
          THEN /\ driven' = driven \cup {i} /\ trees' = trees \cup {i} /\ local' = AttachedTo(i)
               /\ UNCHANGED row
          ELSE row' = Set(row, i, "done") /\ trees' = trees \ {i} /\ UNCHANGED <<driven, local>>

\* pruneOrphanBranches: the branches of the rows that are not terminal.
Kept == {i \in Issues : row[i] \in {"running", "parked"}}
ReadKept ==
  /\ At("rows") /\ task.todo = {} /\ task' = [Idle EXCEPT !.at = "trees", !.todo = Issues \ Kept]
  /\ UNCHANGED <<ready, row, driven, git, failures>> /\ CloneCalm
\* pruneOrphans: the worktrees of all other branches, then those branches.
PruneTrees ==
  /\ At("trees") /\ task' = [task EXCEPT !.at = "branches"] /\ trees' = trees \ task.todo
  /\ UNCHANGED <<ready, row, driven, local, origin, pulls, failures>> /\ CloneCalm
PruneBranches ==
  /\ At("branches") /\ task' = Idle
  /\ local' = [i \in Issues |-> IF i \in task.todo \ trees THEN "none" ELSE local[i]]
  /\ UNCHANGED <<ready, row, driven, trees, origin, pulls, failures>> /\ CloneCalm

-----------------------------------------------------------------------------
CloneInit ==
  /\ ready = Issues /\ row = [i \in Issues |-> "none"] /\ driven = {} /\ trees = {}
  /\ local = row /\ origin = row /\ pulls = row /\ task = Idle
  /\ failures = [i \in Issues |-> 0] /\ cloneFaults = 0

CloneTask ==
  \/ Look \/ AttachWork \/ FetchBase \/ ClearStale \/ AddTree \/ RecordClaim \/ Unlabel \/ Undo
  \/ SweepTrees \/ RemoveTree \/ StartClaim \/ Reconcile \/ ReadKept \/ PruneTrees \/ PruneBranches
CloneNext == CloneTask \/ Pushes \/ Parks \/ Ends \/ Resumes \/ Person \/ Crash

-----------------------------------------------------------------------------
(***************************************************************************)
(* Whatever is pruned, a run that may be resumed has a branch to attach to *)
(* and a session has the worktree it was given.                            *)
(***************************************************************************)
WorkHeld ==
  /\ \A i \in Issues : row[i] \in {"running", "parked"} => Attachable(i)
  /\ driven \subseteq trees

(***************************************************************************)
(* Pushed work under an open pull request is deleted only by a claim that  *)
(* could not read the pull request, or that read it before it was opened.  *)
(***************************************************************************)
OpenWorkKept ==
  [][\A i \in Issues :
       origin[i] = "work" /\ pulls[i] = "open" /\ origin'[i] = "none"
         => task.of = {i} /\ task.saw # "open" /\ cloneFaults > 0]_cloneVars

=============================================================================
