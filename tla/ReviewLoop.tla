------------------------------ MODULE ReviewLoop ------------------------------
(***************************************************************************)
(* One pull request between its review and its merge: review-loop.ts over  *)
(* the git operations of BranchRefs, with the base branch, the reviewers'  *)
(* and fixers' containers and other people moving underneath it.           *)
(*                                                                         *)
(* A session is a list of gates still to pass (agenda) and the await it    *)
(* stands at in the first of them (at).  A gate passed leaves the list;    *)
(* any terminal outcome empties it and says in `run` who owns the run now. *)
(***************************************************************************)
EXTENDS BranchRefs

CONSTANTS MaxFixAttempts,      \* review.maxFixAttempts
          MaxContainerRetries, \* review.maxContainerRetries
          MaxRebaseRounds,     \* MAX_REBASE_ROUNDS
          Siblings,            \* which kinds of merges the base receives
          MaxBase, MaxWork,    \* bounds: merges of the base, changes on the branch
          MaxReturns,          \* bound: how often the master sends the run back
          Faults, MaxFaults    \* which faults are explored, and how many

ASSUME LimitAssumption ==
  {MaxFixAttempts, MaxContainerRetries, MaxRebaseRounds, MaxBase} \subseteq Nat
ASSUME SiblingAssumption == Siblings \subseteq Merges

Phases == {0, 1, 2}

VARIABLES run,       \* status of the run row
          agenda,    \* gates still to pass in this session, <<>> when none runs
          at,        \* the await within the first gate
          sync,      \* syncWithBase's locals
          span,      \* the bounded fix loop's: attempts and container retries
          before,    \* runIntegration's reviewed baseline, a diff hash or NoHash
          late,      \* the behind-rebase budget is spent
          resume,    \* phase of the resume context the master sends the run back with
          returns,   \* bound counter
          faults,    \* faults spent
          seen,      \* history: what Phase 2 judged clean, in the last review and since
          granted,   \* history: what an integration took as judged after a cut session
          landed,    \* history: the commit that was merged
          cut        \* history: a session was cut short since then

session == <<run, agenda, at, sync, span, before, late, resume, returns>>
history == <<seen, granted, landed, cut>>
vars == <<refs, session, faults, history>>

Outcomes == {"running", "awaiting-ci", "awaiting-merge", "master-triage", "merged"}

\* The gates of runReview, resumeAfterCi and runIntegration, in order.
Fresh       == <<"sync", "park-ci">>
AfterCi     == <<"ci", "p1", "p2", "park-merge">>
Resumed(p)  == IF p = 0 THEN <<"sync", "ci", "p1", "p2", "park-merge">>
               ELSE IF p = 1 THEN <<"p1", "p2", "park-merge">>
               ELSE <<"p2", "park-merge">>
Round       == <<"resync", "compare", "ready">>
Integration == <<"baseline">> \o Round
ReReview    == <<"p1", "p2", "ci">>

PhaseOf(gate) == CASE gate = "p1" -> 1 [] gate = "p2" -> 2 [] OTHER -> 0
NoSync == [moved |-> FALSE, rounds |-> 0, blind |-> FALSE, want |-> 0,
           clone |-> None, trust |-> None]
NoHash == <<>>
NoVerdict == [on |-> 0, res |-> {}]
NoSpan == [tries |-> 0, retries |-> 0]

At(gates, await) == agenda # <<>> /\ Head(agenda) \in gates /\ at = await
Integrating == run = "awaiting-merge" /\ agenda # <<>>

Fault(f) == f \in Faults /\ faults < MaxFaults /\ faults' = faults + 1
Calm     == UNCHANGED faults

-----------------------------------------------------------------------------
(* How a gate is left: passed, or with an outcome that ends the session.   *)
Stay == UNCHANGED <<run, agenda, resume, returns, late, before>>

Pass(next) ==
  /\ agenda' = next \o Tail(agenda) /\ at' = "next"
  /\ UNCHANGED <<run, resume, returns, late, before>>

Ends(status) ==
  /\ run' = status /\ agenda' = <<>> /\ at' = "next"
  /\ sync' = NoSync /\ span' = NoSpan /\ before' = NoHash
  /\ cut' = (cut \/ status \in {run, "master-triage"})
  /\ granted' = IF status = "merged" THEN granted ELSE NoVerdict
  /\ UNCHANGED <<returns, late, seen>>

(* escalateToMaster: the exhausted phase is the one the run resumes at.    *)
ToMaster(phase) ==
  /\ Ends("master-triage") /\ resume' = phase /\ UNCHANGED landed

\* Any other throw reaches the executor's failure guard, which also asks the master.
Throws == ToMaster(0)

\* A usage limit or GitHub's rate limit: the row keeps its status.
Deferred == Ends(run) /\ UNCHANGED <<resume, landed>>

Opens(gates, status) ==
  /\ agenda = <<>>
  /\ run' = status /\ agenda' = gates /\ at' = "next"
  /\ sync' = NoSync /\ span' = NoSpan /\ before' = NoHash /\ late' = FALSE
  /\ \/ Attach(TRUE) /\ Calm
     \/ Fault("fetch") /\ Attach(FALSE)

-----------------------------------------------------------------------------
(* syncWithBase.  The trusted head is read once, before the rounds.        *)
SyncGates == {"sync", "resync"}

EnterSync ==
  /\ At(SyncGates, "next")
  /\ sync' = [NoSync EXCEPT !.trust = trusted]
  /\ at' = "fetch"
  /\ Stay /\ UNCHANGED <<refs, span, history>> /\ Calm

FetchBranch ==
  /\ At(SyncGates, "fetch")
  /\ \/ /\ Diverged(sync.trust)
        /\ tracked' = origin /\ UNCHANGED <<base, origin, local, trusted>>
        /\ ToMaster(0) /\ Calm
     \/ /\ ~Diverged(sync.trust)
        /\ SyncBranch(sync.trust)
        /\ sync' = [sync EXCEPT !.blind = FALSE] /\ at' = "rebase"
        /\ Stay /\ UNCHANGED <<span, history>> /\ Calm
     \/ /\ Fault("fetch")
        /\ sync' = [sync EXCEPT !.blind = TRUE] /\ at' = "rebase"
        /\ Stay /\ UNCHANGED <<refs, span, history>>

RoundsSpent == sync.rounds >= MaxRebaseRounds

\* A moved branch passes CI again, except before the review's own CI gate.
Synced(moved) ==
  /\ Pass(IF moved /\ Head(agenda) = "resync" THEN <<"ci">> ELSE <<>>)
  /\ sync' = [NoSync EXCEPT !.moved = moved]

Rebase ==
  /\ At(SyncGates, "rebase") /\ Calm
  /\ LET new == Rebased(local, "daemon") IN
     IF Conflicts(local)
     THEN /\ UNCHANGED refs
          /\ \/ RoundsSpent /\ ToMaster(0)
             \/ /\ ~RoundsSpent
                /\ sync' = [sync EXCEPT !.rounds = @ + 1, !.want = Len(base),
                                        !.clone = origin]
                /\ span' = NoSpan /\ at' = "resolve"
                /\ Stay /\ UNCHANGED history
     ELSE /\ local' = new /\ UNCHANGED <<base, origin, tracked, trusted>>
          /\ \/ new = local /\ Synced(sync.moved) /\ UNCHANGED <<span, history>>
             \/ new # local /\ ~HasNetDiff(new) /\ Throws
             \/ /\ new # local /\ HasNetDiff(new)
                /\ at' = "push" /\ Stay /\ UNCHANGED <<sync, span, history>>

\* The base's own fetch, or the push, fails: the local branch keeps what it has.
SyncThrows ==
  /\ At(SyncGates, "rebase") \/ At(SyncGates, "push")
  /\ Fault("network") /\ Throws /\ UNCHANGED refs

Push ==
  /\ At(SyncGates, "push") /\ Calm
  /\ \/ LeaseHolds /\ ForcePush /\ Synced(TRUE) /\ UNCHANGED <<span, history>>
     \/ ~LeaseHolds /\ Throws /\ UNCHANGED refs

\* The container died without a result: dispatch it again, a bounded number of times.
NoResult(phase) ==
  /\ Fault("container") /\ UNCHANGED refs
  /\ \/ /\ span.retries < MaxContainerRetries
        /\ span' = [span EXCEPT !.retries = @ + 1]
        /\ sync' = [sync EXCEPT !.clone = origin]
        /\ Stay /\ UNCHANGED <<at, history>>
     \/ span.retries >= MaxContainerRetries /\ ToMaster(phase)

\* mutant: the runner pushes whatever is left of the branch.
ResolvesAny(c) == AnyTip(c)
CanPushResolution(c) == HasNetDiff(c)

(* resolveRebaseConflicts: the runner rebases its own clone and pushes it  *)
(* under its own lease; a refusal makes the container report a failure.    *)
Resolve ==
  /\ At(SyncGates, "resolve")
  /\ \/ /\ origin = sync.clone /\ UNCHANGED <<base, local, tracked, trusted>>
        /\ \E theirs \in BOOLEAN :
             LET c == Resolution(sync.clone, theirs) IN
             CanPushResolution(c) /\ origin' = c
        /\ at' = "verify" /\ Stay /\ UNCHANGED <<sync, span, history>> /\ Calm
     \/ \* reported fixed, with nothing pushed
        at' = "verify" /\ Stay /\ UNCHANGED <<refs, sync, span, history>> /\ Calm
     \/ \* the push is refused, or the agent escalates, times out or talks nonsense
        ToMaster(0) /\ UNCHANGED refs /\ Calm
     \/ NoResult(0)
     \/ Fault("limited") /\ Deferred /\ UNCHANGED refs

(* recordRunnerPushedHead reads whatever origin has by now, then the check *)
(* that the rebase landed, then the daemon adopts it and rebases again.    *)
Verify ==
  /\ At(SyncGates, "verify") /\ Calm
  /\ \/ /\ Landed(sync.want) /\ Adopt
        /\ sync' = [sync EXCEPT !.moved = TRUE, !.want = 0, !.clone = None]
        /\ at' = "fetch" /\ span' = NoSpan /\ Stay /\ UNCHANGED history
     \/ /\ ~Landed(sync.want)
        /\ tracked' = origin /\ trusted' = origin /\ UNCHANGED <<base, origin, local>>
        /\ ToMaster(0)

-----------------------------------------------------------------------------
(* The bounded fix loop, shared by the CI gate and the two review phases.  *)
LoopGates == {"ci", "p1", "p2"}

EnterLoop ==
  /\ At(LoopGates, "next")
  /\ span' = NoSpan /\ at' = "assess"
  /\ Stay /\ UNCHANGED <<refs, sync, history>> /\ Calm

AttemptsSpent == span.tries >= MaxFixAttempts

\* What a clean verdict of the second reviewer vouches for: the resolutions
\* and the merges of the base that it had before it.
Resolutions(c) == {ch \in Range(c.work) : ch.kind = "res"}
Verdict(c) == [on |-> c.on, res |-> Resolutions(c)]
And(v, w) == [on |-> IF v.on < w.on THEN w.on ELSE v.on, res |-> v.res \cup w.res]

Vouch(gate) ==
  IF gate = "p2"
  THEN /\ seen' = And(Verdict(origin), IF Integrating THEN seen ELSE NoVerdict)
       /\ cut' = FALSE /\ UNCHANGED <<granted, landed>>
  ELSE UNCHANGED history

Assess ==
  /\ At(LoopGates, "assess")
  /\ LET gate == Head(agenda) IN
     \/ /\ Pass(<<>>) /\ Vouch(gate) /\ span' = NoSpan /\ UNCHANGED <<refs, sync>> /\ Calm
     \/ \* blocked, with attempts left
        /\ ~AttemptsSpent
        /\ span' = [span EXCEPT !.tries = @ + 1] /\ at' = "fix"
        /\ Stay /\ UNCHANGED <<refs, sync, history>> /\ Calm
     \/ \* blocked for good: CI is read once more before giving up
        /\ AttemptsSpent \/ gate = "ci"
        /\ UNCHANGED refs /\ Calm
        /\ \/ ToMaster(PhaseOf(gate))
           \/ gate = "ci" /\ Pass(<<>>) /\ span' = NoSpan /\ UNCHANGED <<sync, history>>
     \/ \* the review's container
        /\ gate # "ci"
        /\ \/ NoResult(PhaseOf(gate))
           \/ ToMaster(PhaseOf(gate)) /\ UNCHANGED refs /\ Calm
           \/ Fault("limited") /\ Deferred /\ UNCHANGED refs

\* runFix: the agent pushes a fix, or reports one that moves nothing.
Fix ==
  /\ At(LoopGates, "fix")
  /\ LET phase == PhaseOf(Head(agenda)) IN
     \/ /\ \/ UNCHANGED origin
           \/ /\ Len(origin.work) < MaxWork
              /\ origin' = [origin EXCEPT !.work = Append(@, Change("fix"))]
        /\ UNCHANGED <<base, local, tracked, trusted>>
        /\ at' = "assess" /\ Stay /\ UNCHANGED <<sync, span, history>> /\ Calm
     \/ ToMaster(phase) /\ UNCHANGED refs /\ Calm
     \/ \* no result: back to the assessment
        /\ Fault("container") /\ UNCHANGED refs
        /\ \/ /\ span.retries < MaxContainerRetries
              /\ span' = [span EXCEPT !.retries = @ + 1] /\ at' = "assess"
              /\ Stay /\ UNCHANGED <<sync, history>>
           \/ span.retries >= MaxContainerRetries /\ ToMaster(phase)
     \/ Fault("limited") /\ Deferred /\ UNCHANGED refs

-----------------------------------------------------------------------------
(* The two hand-offs, and what opens the next session.                     *)
ParkForCi ==
  /\ At({"park-ci"}, "next") /\ Calm
  /\ Ends("awaiting-ci") /\ UNCHANGED <<refs, resume, landed>>

ParkForMerge ==
  /\ At({"park-merge"}, "next") /\ Calm
  /\ Ends("awaiting-merge") /\ UNCHANGED <<refs, resume, landed>>

CiConcludes ==
  run = "awaiting-ci" /\ Opens(AfterCi, "running") /\ UNCHANGED <<resume, returns, history>>

LeaseMerge ==
  /\ run = "awaiting-merge"
  /\ Opens(Integration, run) /\ UNCHANGED <<resume, returns, history>>

MasterReturns ==
  /\ run = "master-triage" /\ returns < MaxReturns /\ returns' = returns + 1
  /\ \/ Opens(Resumed(resume), "running")
     \/ Opens(Integration, "awaiting-merge")
  /\ UNCHANGED <<resume, history>>

Recover ==
  run = "running" /\ Opens(Fresh, run) /\ UNCHANGED <<resume, returns, history>>

-----------------------------------------------------------------------------
(* runIntegration around the sync: the baseline, what moved, readiness.    *)
Baseline ==
  /\ At({"baseline"}, "next")
  /\ \/ before' = DiffHash(origin) /\ tracked' = origin /\ Calm
     \/ before' = NoHash /\ UNCHANGED tracked /\ Fault("fetch")
  /\ agenda' = Tail(agenda) /\ granted' = IF cut THEN Verdict(origin) ELSE NoVerdict
  /\ UNCHANGED <<base, origin, local, trusted, run, at, resume, returns, late,
                 sync, span, seen, landed, cut>>

\* mutant: the classification compares with nothing but a clean replay.
NothingChanged(after) == FALSE
NetDiffChanged(after) == before = NoHash \/ after = NoHash \/ before # after

Compare ==
  /\ At({"compare"}, "next")
  /\ \/ ~sync.moved /\ Pass(<<>>) /\ UNCHANGED tracked /\ Calm
     \/ /\ sync.moved
        /\ \E after \in {DiffHash(origin), NoHash} :
             /\ IF after = NoHash THEN Fault("fetch") /\ UNCHANGED tracked
                                  ELSE Calm /\ tracked' = origin
             /\ Pass(IF NetDiffChanged(after) THEN ReReview ELSE <<>>)
  /\ UNCHANGED <<base, origin, local, trusted, sync, span, history>>

\* mutant: the treadmill has no end.
NoDeadline == FALSE
DeadlinePassed == late

(* awaitMergeable, told by what it ends in (module HostedGate has its      *)
(* polls).  GitHub computes BEHIND and DIRTY late, so either may be read   *)
(* at any time; the hosted lane may have pushed before the verdict.        *)
Ready ==
  /\ At({"ready"}, "next")
  /\ \/ /\ at' = "merge" /\ Stay /\ UNCHANGED <<refs, sync, span, history>> /\ Calm
     \/ /\ ~DeadlinePassed /\ agenda' = Round /\ at' = "next"
        /\ UNCHANGED <<refs, run, resume, returns, late, before, sync, span, history>>
        /\ Calm
     \/ DeadlinePassed /\ ToMaster(0) /\ UNCHANGED refs /\ Calm
     \/ ToMaster(0) /\ UNCHANGED refs /\ Calm
     \/ Fault("limited") /\ Deferred /\ UNCHANGED refs

HostedFixPushed ==
  /\ At({"ready"}, "next") /\ Fault("hosted") /\ Len(origin.work) < MaxWork
  /\ origin' = [origin EXCEPT !.work = Append(@, Change("fix"))]
  /\ UNCHANGED <<base, local, tracked, trusted, session, history>>

\* gh pr merge lands whatever the head is by now, if GitHub can merge it.
Merge ==
  /\ At({"ready"}, "merge") /\ Calm /\ UNCHANGED refs
  /\ \/ ~Conflicts(origin) /\ Ends("merged") /\ landed' = origin /\ UNCHANGED resume
     \/ Conflicts(origin) /\ Throws

\* The rebase budget is a wall clock.
Late ==
  /\ Integrating /\ ~late /\ late' = TRUE
  /\ UNCHANGED <<refs, run, agenda, at, sync, span, before, resume, returns, history>>
  /\ Calm

-----------------------------------------------------------------------------
(* The world: other merges, people with push rights, a daemon that dies.   *)
SiblingMerges(kind) ==
  /\ run # "merged" /\ Len(base) < MaxBase
  /\ base' = Append(base, kind)
  /\ UNCHANGED <<origin, local, tracked, trusted, session, history>> /\ Calm

PersonPushes ==
  /\ Fault("pushes") /\ run # "merged" /\ Len(origin.work) < MaxWork
  /\ origin' = [origin EXCEPT !.work = Append(@, Change("ext"))]
  /\ UNCHANGED <<base, local, tracked, trusted, session, history>>

PersonRewrites ==
  /\ Fault("rewrites") /\ run # "merged"
  /\ origin' = [origin EXCEPT !.work = <<Change("ext")>>, !.by = "person"]
  /\ UNCHANGED <<base, local, tracked, trusted, session, history>>

Crash ==
  /\ agenda # <<>> /\ Fault("crash")
  /\ Ends(run) /\ UNCHANGED <<refs, resume, landed>>

Init ==
  /\ base = <<>> /\ tracked = None /\ trusted = None /\ local = None
  /\ origin = [None EXCEPT !.work = <<Change("impl")>>]
  /\ run = "running" /\ agenda = Fresh /\ at = "next"
  /\ sync = NoSync /\ span = NoSpan /\ before = NoHash
  /\ late = FALSE /\ resume = 0 /\ returns = 0 /\ faults = 0
  /\ seen = NoVerdict /\ granted = NoVerdict /\ landed = None /\ cut = FALSE

Drive ==
  \/ EnterSync \/ FetchBranch \/ Rebase \/ SyncThrows \/ Push \/ Resolve \/ Verify
  \/ EnterLoop \/ Assess \/ Fix
  \/ ParkForCi \/ ParkForMerge \/ Baseline \/ Compare \/ Ready \/ Merge

Next ==
  \/ Drive \/ HostedFixPushed \/ Late
  \/ CiConcludes \/ LeaseMerge \/ MasterReturns \/ Recover
  \/ \E kind \in Siblings : SiblingMerges(kind)
  \/ PersonPushes \/ PersonRewrites \/ Crash

Spec == Init /\ [][Next]_vars
=============================================================================
