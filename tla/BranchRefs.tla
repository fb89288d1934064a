------------------------------ MODULE BranchRefs ------------------------------
(***************************************************************************)
(* The refs of one run's branch and the git operations of                  *)
(* executor/worktree.ts on them.  Four refs name a commit: origin's branch,*)
(* the daemon's local branch, its remote-tracking ref (which arms          *)
(* --force-with-lease) and the head the run row trusts as its own push.    *)
(*                                                                         *)
(* A commit is the changes on the branch in order (work), the merge of the *)
(* base they sit on (on), and who wrote that history (by): two rebases of  *)
(* the same work are different commits.  The base branch is the sequence   *)
(* of merges of others, each told apart by what it does to this branch:    *)
(*   "apart"  touches none of its files;                                   *)
(*   "near"   touches one without a conflict: the diff's hash changes;     *)
(*   "clash"  conflicts with it;                                           *)
(*   "same"   already contains the implementation.                         *)
(***************************************************************************)
EXTENDS Naturals, Sequences, SequencesExt, FiniteSets

Merges  == {"apart", "near", "clash", "same"}
\* A resolution is told apart by the base it was made against.
Changes == [kind : {"impl", "fix", "res", "ext"}, on : Nat]
Change(kind) == [kind |-> kind, on |-> 0]
Authors == {"agent", "daemon", "runner", "person"}

VARIABLES base,      \* origin/<base>: the merges of others
          origin,    \* the run's branch at origin
          local,     \* the local branch the worktree has checked out
          tracked,   \* refs/remotes/origin/<branch> in the target clone
          trusted    \* runnerPushedSha of the run row, or None

refs == <<base, origin, local, tracked, trusted>>

None == [on |-> 0, work |-> <<>>, by |-> "agent"]

\* mutant: a tip that has no more than the base passes for work.
AnyTip(c) == TRUE
\* The #241 predicate: the three-dot diff of the tip against the base it sits on.
HasNetDiff(c) == c.work # <<>>

\* git merge-base --is-ancestor a d
IsAncestor(a, d) ==
  \/ a.work = <<>> /\ a.on <= d.on
  \/ a.on = d.on /\ a.by = d.by /\ IsPrefix(a.work, d.work)

\* The merges of the base that a commit on it does not yet contain.
Beneath(c) == SubSeq(base, c.on + 1, Len(base))

Conflicts(c) == c.work # <<>> /\ Contains(Beneath(c), "clash")

\* git drops a change the new base already has: the implementation comes first.
WithoutImpl(work) == IF work # <<>> /\ Head(work).kind = "impl" THEN Tail(work) ELSE work
Kept(c) == IF Contains(Beneath(c), "same") THEN WithoutImpl(c.work) ELSE c.work

\* git rebase origin/<base>, when it stops on no conflict.
Rebased(c, who) ==
  IF c.on = Len(base) THEN c
  ELSE [on |-> Len(base), work |-> Kept(c), by |-> who]

\* branchDiffHash: what the branch changes, and the lines around it.
DiffHash(c) ==
  <<c.work, Cardinality({i \in 1..c.on : base[i] = "near"})>>

-----------------------------------------------------------------------------
(* attach: a best-effort fetch of the branch, then the local ref as it is. *)
Attach(fetched) ==
  /\ tracked' = IF fetched THEN origin ELSE tracked
  /\ UNCHANGED <<base, origin, local, trusted>>

\* origin's history is the run's own push, or extends it.
Attributable(trust) == trust # None /\ IsAncestor(trust, origin)

Diverged(trust) ==
  /\ ~IsAncestor(local, origin)
  /\ ~IsAncestor(origin, local)
  /\ ~Attributable(trust)

(* syncBranchToOrigin.  The fetch that moves the tracking ref comes first, *)
(* and a fetch that fails ends the operation without a word.               *)
SyncBranch(trust) ==
  /\ tracked' = origin
  /\ local' = IF IsAncestor(origin, local) THEN local ELSE origin
  /\ UNCHANGED <<base, origin, trusted>>

\* mutant: a plain --force.
Unleased == TRUE
\* --force-with-lease: origin is where this clone last saw it.
LeaseHolds == tracked = origin

\* pushRebasedBranch
ForcePush ==
  /\ origin' = local
  /\ tracked' = local
  /\ UNCHANGED <<base, local, trusted>>

(* pushResolvedRebase: the runner's own rebase of the branch it cloned,    *)
(* onto the base as it is by then, the conflict resolved in favour of both *)
(* sides or, when theirs is set, of the base's.                            *)
Resolution(clone, theirs) ==
  [on   |-> Len(base),
   work |-> IF ~Conflicts(clone) THEN Kept(clone)
            ELSE IF theirs THEN WithoutImpl(clone.work)
            ELSE Append(Kept(clone), [kind |-> "res", on |-> Len(base)]),
   by   |-> "runner"]

\* verifyBranchRebasedOntoBase: origin contains the base of the dispatch.
Landed(want) == origin.on >= want /\ HasNetDiff(origin)

\* recordRunnerPushedHead, then adoptOriginBranch.
Adopt ==
  /\ tracked' = origin
  /\ trusted' = origin
  /\ local' = origin
  /\ UNCHANGED <<base, origin>>

=============================================================================
