------------------------ MODULE ReconcilerProperties ------------------------
(***************************************************************************)
(* What the tick, the sessions, people and GitHub, however interleaved,    *)
(* keep true of each other; then three statements of the repository that   *)
(* they do not keep.                                                       *)
(***************************************************************************)
EXTENDS Reconciler

(* Every variable has its type. *)
TypeOK ==
  /\ status \in [Issues -> Status] /\ asking \in [Issues -> BOOLEAN]
  /\ rows \subseteq Issues /\ open \subseteq Issues /\ pr \in [Issues -> PrState]
  /\ ready \subseteq Issues /\ answered \subseteq Issues
  /\ sess \in [Lane -> [Issues -> Session]]
  /\ wt \subseteq Issues /\ lease \in Issues \cup {NoIssue}
  /\ survivors \subseteq Issues
  /\ phase \in Phase /\ repo \in Repos /\ todo \subseteq Issues
  /\ cur \in Issues \cup {NoIssue} /\ saw \in Saw
  /\ snap \subseteq Issues /\ slots \in Nat /\ listing \in Listing
  /\ surprises \in Nat

-----------------------------------------------------------------------------
(* The slots and the leases.                                               *)

(* The build slots never exceed scheduler.maxConcurrentAgents, although    *)
(* every pass of the tick checks for a free slot before an await and fills *)
(* it after one (occupySlot checks nothing).                               *)
SlotCap == Cardinality(InFlight) <= Cap

(* What a pass found idle before an await is idle when the pass uses it:   *)
(* the row being recovered, polled or claimed, and every issue admission   *)
(* picked and has yet to claim, so occupySlot never drops a live promise.  *)
AwaitedIdle == cur # NoIssue => cur \notin InFlight
PicksIdle   == phase \in {"claim", "claiming"} => todo \cap InFlight = {}
StillIdle   == AwaitedIdle /\ PicksIdle

(* serviceMergeWorker: one integration lease per repo.                     *)
OneMergeLease == \A r \in Repos : Cardinality(MergeInFlight \cap InRepo(r)) <= 1

(* ADR-0041: one master in the whole daemon.  The lease is held by a       *)
(* session in a slot, and every session that adjudicates holds it.         *)
MasterAlone ==
  /\ lease # NoIssue => lease \in InFlight
  /\ \A i \in Issues : Opening(i) \/ Adjudicating(i) => lease = i

(* Why these hold: between the check for a free slot and the step that     *)
(* takes it, the picks not yet claimed are accounted for with the slots    *)
(* taken, and no one but the tick takes a slot.                            *)
Picks == IF phase \in {"claim", "claiming"} THEN todo \cup ({cur} \ {NoIssue}) ELSE {}
SlotInv ==
  /\ Cardinality(InFlight \cup Picks) <= Cap
  /\ Picks \cap InFlight = {}
  /\ phase = "admit" => slots <= Minus(Cap, Cardinality(InFlight))
  /\ phase = "claiming" => cur # NoIssue
  /\ cur # NoIssue => /\ phase \in {"rehydrate", "sweep", "ci", "claim", "claiming"}
                      /\ cur \notin InFlight \cup todo
                      /\ phase = "ci" => HasCapacity

(* ... and only a session that adjudicates, waiting for its context or at  *)
(* work, is the master's.                                                  *)
MasterInv ==
  /\ lease # NoIssue => lease \in InFlight
  /\ \A i \in Issues : sess["build"][i].work = "master" =>
       lease = i /\ sess["build"][i].at \in {"resolve", "working"}

(* The slots and the lease behave as the pool of SlotPool.tla promises.    *)
Pool == INSTANCE SlotPool WITH Clients <- Issues, Size <- Cap, Nobody <- NoIssue,
                               held <- InFlight, master <- lease
PoolSpec == Pool!Spec

-----------------------------------------------------------------------------
(* What a claim, the tick and a landed merge may not do.                   *)

Begins(i)  == phase = "claim" /\ phase' = "claiming" /\ cur = i
Claimed(i) == phase = "claiming" /\ cur = i /\ i \in InFlight' \ InFlight

(* A pick waits, from its judging to the claim that starts a fresh run     *)
(* over its row.  The row becomes owned by a live path meanwhile only by   *)
(* the hand of the one session admission does not look at: an integration  *)
(* leased for the same issue, which was closed under it and reopened.      *)
Waits(i) == \/ phase \in {"claim", "claiming"} /\ i \in todo
            \/ phase = "claim" /\ cur = i
Stale(i) == Waits(i) /\ i \in rows /\ status[i] \notin ReAdmittable
ClaimFree ==
  [][\A i \in Issues : Stale(i)' => Stale(i) \/ (Waits(i) /\ i \in MergeInFlight)]_vars

(* A fresh claim never takes its repo over targets[].maxConcurrentAgents,  *)
(* although its slots were counted before every claim's awaits.            *)
ClaimTarget ==
  [][\A i \in Issues : Claimed(i) => Cardinality(InFlight \cap InRepo(RepoOf[i])) < PerTarget]_vars

(* A tick never moves the run of an open issue under a session that holds  *)
(* its slot, whatever the tick read before its last await.                 *)
TickLeavesSessions ==
  [][tickVars' # tickVars => \A i \in InFlight \cap open : status'[i] = status[i]]_vars

(* A run recorded as merged is never handed to the master, parked or asked *)
(* about: it is closed out at most, or its issue gets a fresh run.  Unless *)
(* people reopen issues: one closed and reopened under its integration may *)
(* have a second session, which goes on after the first has merged.        *)
LandedIsDone ==
  [][\A i \in Issues : status[i] = "merged" =>
       "reopen" \in Surprises \/ status'[i] \in SpanClosed \cup {"running"}]_vars

(* What the tick read before an await never makes it claim an owned row,   *)
(* exceed the target's cap, move a live session's run or take up a merged  *)
(* one: reconciler.ts reads rows, slots and issues once per tick.          *)
TickIsCurrent == ClaimFree /\ ClaimTarget /\ TickLeavesSessions /\ LandedIsDone

-----------------------------------------------------------------------------
(* Liveness.  The tick and the sessions go on; the queues are FIFO, so an  *)
(* issue is not passed over for ever.  People owe the daemon nothing.      *)

Fairness ==
  /\ WF_vars(TickStep)
  /\ \A i \in Issues : /\ WF_vars(BuildProgress(i) \/ Progress("build", i))
                       /\ WF_vars(MergeProgress(i) \/ Progress("merge", i))
                       /\ SF_vars(MasterDispatch /\ lease' = i)
                       /\ SF_vars(TickStart /\ i \in MergeInFlight')

FairSpec == Spec /\ Fairness

(* A run in a state the daemon owns leaves it: no crash, failure, rate     *)
(* limit or human act strands a run where neither a session, a queue nor   *)
(* the completeness pass takes it up.                                      *)
Owned == {"running", "awaiting-ci", "awaiting-merge", "master-triage"}
In(i, s) == i \in rows /\ status[i] = s
NothingRests == \A i \in Issues : \A s \in Owned : In(i, s) ~> ~In(i, s)

(* An operator's answer is taken up, even when the label write that        *)
(* re-arms the issue was lost.                                             *)
Answered(i) == In(i, "awaiting-answer") /\ i \in open \cap answered
AnswersTaken == \A i \in Issues : Answered(i) ~> ~Answered(i)

(* Every slot and merge lease is given back.                               *)
SlotsReturn == \A l \in Lane, i \in Issues : (i \in Busy(l)) ~> (i \notin Busy(l))

(* A worktree no session uses is removed, whatever became of its run.      *)
WorktreesFreed ==
  \A i \in Issues : (i \in wt) ~> (i \notin wt \/ i \in InFlight \cup MergeInFlight)

(* Nothing a run held outlives its last session.                           *)
NothingHeld == SlotsReturn /\ WorktreesFreed

-----------------------------------------------------------------------------
(* What the repository says of itself, and a run refutes.                  *)

(* engine.ts: "the daemon will not pick it up again on its own", of a run  *)
(* that ended agent-stuck.                                                 *)
TerminalHolds == [][\A i \in Issues : ~(Begins(i) /\ i \in rows /\ status[i] = "agent-stuck")]_vars

(* reconciler.ts: "one integration at a time (per repo)".                  *)
Integrating(l, i) == sess[l][i].work = "integrate" /\ HasAgent(l, i)
OneIntegration ==
  \A r \in Repos : Cardinality({p \in Lane \X InRepo(r) : Integrating(p[1], p[2])}) <= 1

(* reconciler.ts: a live run's worktree is never pruned.                   *)
WorktreeKept == \A i \in Issues : HasAgent("merge", i) => i \in wt

=============================================================================
