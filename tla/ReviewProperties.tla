--------------------------- MODULE ReviewProperties ---------------------------
(* What is claimed of the review loop, and the fairness it is claimed under. *)
EXTENDS ReviewLoop

(***************************************************************************)
(* Every ref holds a commit on a base that is there, and no fix loop or    *)
(* conflict resolution exceeds its attempts, retries or rounds.            *)
(***************************************************************************)
Commit == [on : 0..MaxBase, work : Seq(Changes), by : Authors]

TypeOK ==
  /\ base \in Seq(Merges) /\ Len(base) <= MaxBase
  /\ \A c \in {origin, local, tracked, trusted, landed} :
       c \in Commit /\ c.on <= Len(base)
  /\ \A v \in {seen, granted} : v.on \in 0..Len(base) /\ v.res \subseteq Changes
  /\ run \in Outcomes /\ resume \in Phases
  /\ span.tries <= MaxFixAttempts /\ span.retries <= MaxContainerRetries
  /\ sync.rounds <= MaxRebaseRounds

(***************************************************************************)
(* A force-push of the daemon or of a runner loses no commit that is on    *)
(* origin, whoever put it there and whenever, unless the sync before it    *)
(* could not fetch the branch (syncBranchToOrigin, pushRebasedBranch,      *)
(* pushResolvedRebase; changes the base already has apart).                *)
(***************************************************************************)
Carried(old, new) == IsPrefix(WithoutImpl(old.work), WithoutImpl(new.work))

NoClobber ==
  [][origin' # origin =>
       \/ Carried(origin, origin')
       \/ sync.blind
       \/ origin'.by = "person"]_vars

(***************************************************************************)
(* The same without the exception, as syncBranchToOrigin says: the net     *)
(* diff guard and the lease are there so that no push loses reviewed work. *)
(***************************************************************************)
FixesKept ==
  [][origin' # origin => Carried(origin, origin') \/ origin'.by = "person"]_vars

(***************************************************************************)
(* No push ever leaves the pull request without a net diff, through the    *)
(* commitless local branch a container run leaves, a failed fetch, or a    *)
(* base that already has the work (#241: rebaseOntoBase, pushResolvedRebase). *)
(***************************************************************************)
NoWipe == HasNetDiff(origin)

(***************************************************************************)
(* Conflict resolutions, and merges of the base that touch the branch's    *)
(* files, are merged only after Phase 2 saw their result: runIntegration's *)
(* reviewed baseline, which a session that was cut short before it leaves  *)
(* to what origin has.                                                     *)
(***************************************************************************)
Judged(c, v) ==
  /\ Resolutions(c) \subseteq v.res
  /\ \A i \in 1..c.on : base[i] = "near" => i <= v.on

DriftJudged == run = "merged" => Judged(landed, And(seen, granted))

(***************************************************************************)
(* The same whatever happened before: "re-review fires whenever the        *)
(* effective merged diff drifts from what review saw".                     *)
(***************************************************************************)
DriftReviewed == run = "merged" => Judged(landed, seen)

(***************************************************************************)
(* Every session of the review loop ends, however often the base moves,    *)
(* GitHub reports BEHIND, a check stays red or a container dies.           *)
(***************************************************************************)
SessionEnds == (agenda # <<>>) ~> (agenda = <<>>)

(***************************************************************************)
(* Fairness.  The daemon's promise goes on after every await: containers   *)
(* answer or hit their wall clock, CI polling times out, git and GitHub    *)
(* calls return.  The rebase budget is a clock, and clocks advance.        *)
(***************************************************************************)
FairSpec == Spec /\ WF_vars(Drive) /\ WF_vars(Late)
=============================================================================
