----------------------------- MODULE ReviewProofs -----------------------------
(***************************************************************************)
(* What holds of the review loop for any number of merges, fixes, retries, *)
(* rounds and faults: its types and limits, that no push empties the pull  *)
(* request or loses a change on it, and that what lands was judged.        *)
(***************************************************************************)
EXTENDS ReviewProperties, FiniteSetTheorems, TLAPS

OnBase(c) == c \in Commit /\ c.on <= Len(base)
Vouched(v) == v.on \in 0..Len(base) /\ v.res \subseteq Changes

Syncs == [moved : BOOLEAN, rounds : Nat, blind : BOOLEAN, want : Nat,
          clone : Commit, trust : Commit]
Spans == [tries : 0..MaxFixAttempts, retries : 0..MaxContainerRetries]

BaseOK    == base \in Seq(Merges) /\ Len(base) <= MaxBase
RefsOK    == OnBase(origin) /\ OnBase(local) /\ OnBase(tracked) /\ OnBase(trusted)
HistoryOK == Vouched(seen) /\ Vouched(granted) /\ OnBase(landed)
SyncOK    == /\ sync \in Syncs /\ sync.rounds <= MaxRebaseRounds
             /\ sync.clone.on <= Len(base) /\ sync.trust.on <= Len(base)
SessionOK == run \in Outcomes /\ resume \in Phases /\ span \in Spans /\ SyncOK

(* What the daemon is about to push has work in it.                        *)
PushHasWork == at = "push" => HasNetDiff(local)

ReviewInv == BaseOK /\ RefsOK /\ HistoryOK /\ SessionOK /\ PushHasWork /\ NoWipe

-----------------------------------------------------------------------------
(* What git makes of a commit.                                             *)
LEMMA NoneOnBase == ASSUME BaseOK PROVE OnBase(None)
BY LimitAssumption DEF BaseOK, OnBase, None, Commit, Authors

LEMMA KeptType ==
  ASSUME NEW c \in Commit
  PROVE  Kept(c) \in Seq(Changes) /\ WithoutImpl(c.work) \in Seq(Changes)
BY DEF Kept, WithoutImpl, Commit

LEMMA RebasedOnBase ==
  ASSUME BaseOK, NEW c, OnBase(c), NEW who \in Authors
  PROVE  OnBase(Rebased(c, who))
<1>1. [on |-> Len(base), work |-> Kept(c), by |-> who] \in Commit
  BY KeptType, LimitAssumption DEF OnBase, BaseOK, Commit
<1>. QED  BY <1>1, LimitAssumption DEF Rebased, OnBase, BaseOK

LEMMA ResolutionOnBase ==
  ASSUME BaseOK, NEW c \in Commit, NEW theirs \in BOOLEAN
  PROVE  OnBase(Resolution(c, theirs))
<1>0. [kind |-> "res", on |-> Len(base)] \in Changes
  BY DEF BaseOK, Changes
<1>1. Append(Kept(c), [kind |-> "res", on |-> Len(base)]) \in Seq(Changes) /\ c.work \in Seq(Changes)
  BY <1>0, KeptType DEF Commit
<1>2. Resolution(c, theirs).work \in Seq(Changes)
  BY <1>1, KeptType DEF Resolution
<1>3. Resolution(c, theirs) = [on |-> Len(base), work |-> Resolution(c, theirs).work, by |-> "runner"]
  BY DEF Resolution
<1>. QED  BY <1>2, <1>3, LimitAssumption DEF OnBase, BaseOK, Commit, Authors

LEMMA Plain == \A kind \in {"impl", "fix", "ext"} : Change(kind) \in Changes /\ Change(kind).kind = kind
BY DEF Change, Changes

(* A change on top of a branch leaves it with work.                        *)
LEMMA OneMore ==
  ASSUME OnBase(origin), NEW ch \in Changes
  PROVE  /\ OnBase([origin EXCEPT !.work = Append(@, ch)])
         /\ HasNetDiff([origin EXCEPT !.work = Append(@, ch)])
<1>1. origin \in Commit /\ origin.work \in Seq(Changes)
  BY DEF OnBase, Commit
<1>2. Append(origin.work, ch) \in Seq(Changes) /\ Append(origin.work, ch) # <<>>
  BY <1>1
<1>. QED  BY <1>1, <1>2 DEF OnBase, Commit, HasNetDiff

-----------------------------------------------------------------------------
(* How a session is left.                                                  *)
LEMMA NothingOK == ASSUME BaseOK PROVE NoSync \in Syncs /\ NoSpan \in Spans
                                       /\ NoSync.rounds = 0 /\ NoSync.clone = None /\ NoSync.trust = None
BY NoneOnBase, LimitAssumption DEF OnBase, NoSync, NoSpan, Syncs, Spans

LEMMA VerdictOK == ASSUME NEW c, OnBase(c) PROVE Vouched(Verdict(c))
<1>1. c.work \in Seq(Changes) /\ Resolutions(c) \subseteq Range(c.work)
  BY DEF OnBase, Commit, Resolutions
<1>2. Range(c.work) \subseteq Changes
  BY <1>1 DEF Range
<1>. QED  BY <1>1, <1>2, LimitAssumption DEF Vouched, Verdict, OnBase, Commit

LEMMA EndsOK ==
  ASSUME ReviewInv, NEW status \in Outcomes, Ends(status), UNCHANGED base
  PROVE  /\ run' \in Outcomes /\ span' \in Spans /\ SyncOK' /\ at' = "next"
         /\ Vouched(seen)' /\ Vouched(granted)'
<1>1. run' \in Outcomes /\ span' \in Spans /\ SyncOK' /\ at' = "next"
  BY NothingOK, NoneOnBase, LimitAssumption DEF ReviewInv, SessionOK, Ends, SyncOK, OnBase
<1>2. seen' = seen /\ granted' \in {granted, NoVerdict} /\ Vouched(NoVerdict)
  BY DEF Ends, NoVerdict, Vouched, ReviewInv, BaseOK
<1>. QED  BY <1>1, <1>2 DEF ReviewInv, HistoryOK, Vouched

LEMMA ToMasterOK ==
  ASSUME ReviewInv, NEW phase \in Phases, ToMaster(phase), UNCHANGED base
  PROVE  SessionOK' /\ PushHasWork' /\ HistoryOK'
<1>1. run' \in Outcomes /\ span' \in Spans /\ SyncOK' /\ at' = "next" /\ Vouched(seen)' /\ Vouched(granted)'
  BY EndsOK DEF ToMaster, Outcomes
<1>. QED  BY <1>1 DEF ToMaster, SessionOK, PushHasWork, ReviewInv, HistoryOK, OnBase

LEMMA DeferredOK ==
  ASSUME ReviewInv, Deferred, UNCHANGED base
  PROVE  SessionOK' /\ PushHasWork' /\ HistoryOK'
<1>1. run' \in Outcomes /\ span' \in Spans /\ SyncOK' /\ at' = "next" /\ Vouched(seen)' /\ Vouched(granted)'
  BY EndsOK DEF Deferred, ReviewInv, SessionOK
<1>. QED  BY <1>1 DEF Deferred, SessionOK, PushHasWork, ReviewInv, HistoryOK, OnBase

(* A step that leaves the refs alone keeps what is true of them.           *)
LEMMA RefsStay ==
  ASSUME ReviewInv, UNCHANGED refs, SessionOK', HistoryOK', PushHasWork'
  PROVE  ReviewInv'
BY DEF ReviewInv, refs, BaseOK, RefsOK, OnBase, NoWipe, HasNetDiff

(* Gates and history that do not change.                                   *)
LEMMA HistoryStays == ASSUME ReviewInv, UNCHANGED history, UNCHANGED base PROVE HistoryOK'
BY DEF ReviewInv, HistoryOK, Vouched, history, OnBase

(* The span of a fix loop, with one more try or retry.                     *)
LEMMA SpanCounts ==
  ASSUME ReviewInv
  PROVE  /\ ~AttemptsSpent => [span EXCEPT !.tries = @ + 1] \in Spans
         /\ span.retries < MaxContainerRetries => [span EXCEPT !.retries = @ + 1] \in Spans
         /\ NoSpan \in Spans
BY LimitAssumption, NothingOK DEF ReviewInv, SessionOK, Spans, AttemptsSpent
(* A container without a result is dispatched again, or gives up.          *)
LEMMA NoResultOK ==
  ASSUME ReviewInv, NEW phase \in Phases, NoResult(phase), at # "push"
  PROVE  ReviewInv'
<1>1. UNCHANGED refs /\ UNCHANGED base
  BY DEF NoResult, refs
<1>2. CASE ToMaster(phase)
  BY <1>1, <1>2, ToMasterOK, RefsStay
<1>3. CASE /\ span.retries < MaxContainerRetries
           /\ span' = [span EXCEPT !.retries = @ + 1]
           /\ sync' = [sync EXCEPT !.clone = origin]
           /\ Stay /\ UNCHANGED <<at, history>>
  <2>1. SyncOK'
    BY <1>1, <1>3 DEF ReviewInv, SessionOK, SyncOK, Syncs, RefsOK, OnBase
  <2>2. SessionOK' /\ PushHasWork'
    BY <1>3, <2>1, SpanCounts DEF ReviewInv, SessionOK, Stay, PushHasWork
  <2>. QED  BY <1>1, <1>3, <2>2, HistoryStays, RefsStay
<1>. QED  BY <1>2, <1>3 DEF NoResult

-----------------------------------------------------------------------------
(* The sync with the base.                                                 *)
LEMMA EnterSyncOK == ASSUME ReviewInv, EnterSync PROVE ReviewInv'
<1>1. UNCHANGED refs /\ UNCHANGED base
  BY DEF EnterSync, refs
<1>2. SyncOK'
  BY <1>1, NothingOK, NoneOnBase, LimitAssumption
     DEF EnterSync, ReviewInv, SyncOK, Syncs, RefsOK, OnBase, SessionOK
<1>3. SessionOK' /\ PushHasWork'
  BY <1>2 DEF EnterSync, Stay, ReviewInv, SessionOK, PushHasWork
<1>. QED  BY <1>1, <1>3, HistoryStays, RefsStay DEF EnterSync

LEMMA FetchBranchOK == ASSUME ReviewInv, FetchBranch PROVE ReviewInv'
<1>0. BaseOK /\ RefsOK /\ NoWipe /\ SessionOK /\ HistoryOK
  BY DEF ReviewInv
<1>1. CASE /\ Diverged(sync.trust)
           /\ tracked' = origin /\ UNCHANGED <<base, origin, local, trusted>>
           /\ ToMaster(0) /\ Calm
  <2>1. SessionOK' /\ PushHasWork' /\ HistoryOK'
    BY <1>1, ToMasterOK DEF Phases
  <2>. QED  BY <1>0, <1>1, <2>1 DEF ReviewInv, BaseOK, RefsOK, OnBase, NoWipe, HasNetDiff
<1>2. CASE /\ SyncBranch(sync.trust)
           /\ sync' = [sync EXCEPT !.blind = FALSE] /\ at' = "rebase"
           /\ Stay /\ UNCHANGED <<span, history>> /\ Calm
  <2>1. UNCHANGED <<base, origin, trusted>> /\ tracked' = origin /\ local' \in {local, origin}
    BY <1>2 DEF SyncBranch
  <2>2. SessionOK'
    BY <1>0, <1>2, <2>1 DEF SessionOK, Stay, SyncOK, Syncs
  <2>3. HistoryOK'
    BY <1>2, <2>1, HistoryStays
  <2>. QED  BY <1>0, <1>2, <2>1, <2>2, <2>3
            DEF ReviewInv, BaseOK, RefsOK, OnBase, NoWipe, HasNetDiff, PushHasWork
<1>3. CASE /\ sync' = [sync EXCEPT !.blind = TRUE] /\ at' = "rebase"
           /\ Stay /\ UNCHANGED <<refs, span, history>>
  <2>1. SessionOK' /\ PushHasWork' /\ UNCHANGED base
    BY <1>0, <1>3 DEF SessionOK, Stay, SyncOK, Syncs, PushHasWork, refs
  <2>. QED  BY <1>3, <2>1, HistoryStays, RefsStay
<1>. QED  BY <1>1, <1>2, <1>3 DEF FetchBranch

LEMMA SyncedOK ==
  ASSUME ReviewInv, NEW moved \in BOOLEAN, Synced(moved), UNCHANGED <<span, history, base>>
  PROVE  SessionOK' /\ PushHasWork' /\ HistoryOK'
<1>1. sync' \in Syncs /\ sync'.rounds = 0 /\ sync'.clone = None /\ sync'.trust = None
  BY NothingOK DEF Synced, ReviewInv, Syncs
<1>2. SyncOK'
  BY <1>1, NoneOnBase, LimitAssumption DEF ReviewInv, SyncOK, OnBase
<1>. QED
  BY <1>2, HistoryStays DEF Synced, Pass, ReviewInv, SessionOK, PushHasWork

LEMMA RebaseOK == ASSUME ReviewInv, Rebase PROVE ReviewInv'
<1>. DEFINE new == Rebased(local, "daemon")
<1>0. /\ BaseOK /\ RefsOK /\ NoWipe /\ SessionOK /\ HistoryOK /\ sync \in Syncs
      /\ OnBase(new) /\ Len(base) \in Nat
  BY RebasedOnBase DEF ReviewInv, RefsOK, SessionOK, SyncOK, Authors, BaseOK
<1>1. CASE Conflicts(local)
  <2>1. UNCHANGED refs /\ UNCHANGED base
    BY <1>1 DEF Rebase, refs
  <2>2. CASE ToMaster(0)
    BY <2>1, <2>2, ToMasterOK, RefsStay DEF Phases
  <2>3. CASE /\ ~RoundsSpent
             /\ sync' = [sync EXCEPT !.rounds = @ + 1, !.want = Len(base), !.clone = origin]
             /\ span' = NoSpan /\ at' = "resolve"
             /\ Stay /\ UNCHANGED history
    <3>1. SyncOK'
      <4>1. sync.rounds + 1 \in Nat /\ sync.rounds + 1 <= MaxRebaseRounds
        BY <1>0, <2>3, LimitAssumption DEF Syncs, RoundsSpent
      <4>2. sync' \in Syncs /\ sync'.rounds = sync.rounds + 1
            /\ sync'.clone = origin /\ sync'.trust = sync.trust
        BY <1>0, <2>3, <4>1 DEF Syncs, RefsOK, OnBase
      <4>. QED  BY <1>0, <2>1, <4>1, <4>2 DEF SessionOK, SyncOK, RefsOK, OnBase
    <3>2. SessionOK' /\ PushHasWork'
      BY <1>0, <2>3, <3>1, NothingOK DEF SessionOK, Stay, PushHasWork
    <3>. QED  BY <2>1, <2>3, <3>2, HistoryStays, RefsStay
  <2>. QED  BY <1>1, <2>2, <2>3 DEF Rebase
<1>2. CASE ~Conflicts(local)
  <2>1. local' = new /\ UNCHANGED <<base, origin, tracked, trusted>>
    BY <1>2 DEF Rebase
  <2>2. SessionOK' /\ PushHasWork' /\ HistoryOK'
    <3>1. CASE Synced(sync.moved) /\ UNCHANGED <<span, history>>
      BY <1>0, <2>1, <3>1, SyncedOK DEF Syncs
    <3>2. CASE Throws
      BY <2>1, <3>2, ToMasterOK DEF Throws, Phases
    <3>3. CASE HasNetDiff(new) /\ at' = "push" /\ Stay /\ UNCHANGED <<sync, span, history>>
      <4>1. SessionOK'
        BY <1>0, <2>1, <3>3 DEF SessionOK, SyncOK, Stay
      <4>. QED  BY <2>1, <3>3, <4>1, HistoryStays DEF PushHasWork, HasNetDiff
    <3>. QED  BY <1>2, <3>1, <3>2, <3>3 DEF Rebase
  <2>. QED  BY <1>0, <2>1, <2>2 DEF ReviewInv, BaseOK, RefsOK, OnBase, NoWipe, HasNetDiff
<1>. QED  BY <1>1, <1>2

LEMMA PushOK == ASSUME ReviewInv, SyncThrows \/ Push PROVE ReviewInv'
<1>0. BaseOK /\ RefsOK /\ NoWipe /\ SessionOK /\ HistoryOK
  BY DEF ReviewInv
<1>1. CASE Throws /\ UNCHANGED refs
  BY <1>1, ToMasterOK, RefsStay DEF Throws, Phases, refs
<1>2. CASE ForcePush /\ Synced(TRUE) /\ UNCHANGED <<span, history>> /\ At(SyncGates, "push")
  <2>1. SessionOK' /\ PushHasWork' /\ HistoryOK'
    BY <1>2, SyncedOK DEF ForcePush
  <2>2. HasNetDiff(local)
    BY <1>2 DEF At, ReviewInv, PushHasWork
  <2>. QED  BY <1>0, <1>2, <2>1, <2>2
            DEF ForcePush, ReviewInv, BaseOK, RefsOK, OnBase, NoWipe, HasNetDiff
<1>. QED  BY <1>1, <1>2 DEF SyncThrows, Push

LEMMA ResolveOK == ASSUME ReviewInv, Resolve PROVE ReviewInv'
<1>0. BaseOK /\ RefsOK /\ NoWipe /\ SessionOK /\ HistoryOK /\ at = "resolve" /\ sync.clone \in Commit
  BY DEF ReviewInv, Resolve, At, SessionOK, SyncOK, Syncs
<1>1. CASE /\ UNCHANGED <<base, local, tracked, trusted>>
           /\ \E theirs \in BOOLEAN :
                LET c == Resolution(sync.clone, theirs) IN
                CanPushResolution(c) /\ origin' = c
           /\ at' = "verify" /\ Stay /\ UNCHANGED <<sync, span, history>> /\ Calm
  <2>1. OnBase(origin') /\ HasNetDiff(origin')
    BY <1>0, <1>1, ResolutionOnBase DEF CanPushResolution
  <2>2. SessionOK' /\ PushHasWork'
    BY <1>0, <1>1 DEF SessionOK, SyncOK, Stay, PushHasWork
  <2>3. HistoryOK'
    BY <1>1, HistoryStays
  <2>. QED  BY <1>0, <1>1, <2>1, <2>2, <2>3
            DEF ReviewInv, BaseOK, RefsOK, OnBase, NoWipe, HasNetDiff
<1>2. CASE at' = "verify" /\ Stay /\ UNCHANGED <<refs, sync, span, history>>
  <2>1. SessionOK' /\ PushHasWork' /\ UNCHANGED base
    BY <1>0, <1>2 DEF SessionOK, SyncOK, Stay, PushHasWork, refs
  <2>. QED  BY <1>2, <2>1, HistoryStays, RefsStay
<1>3. CASE ToMaster(0) /\ UNCHANGED refs
  BY <1>3, ToMasterOK, RefsStay DEF Phases, refs
<1>4. CASE NoResult(0)
  BY <1>0, <1>4, NoResultOK DEF Phases
<1>5. CASE Deferred /\ UNCHANGED refs
  BY <1>5, DeferredOK, RefsStay DEF refs
<1>. QED  BY <1>1, <1>2, <1>3, <1>4, <1>5 DEF Resolve

LEMMA VerifyOK == ASSUME ReviewInv, Verify PROVE ReviewInv'
<1>0. BaseOK /\ RefsOK /\ NoWipe /\ SessionOK /\ HistoryOK /\ sync \in Syncs
  BY DEF ReviewInv, SessionOK, SyncOK
<1>1. CASE /\ Landed(sync.want) /\ Adopt
           /\ sync' = [sync EXCEPT !.moved = TRUE, !.want = 0, !.clone = None]
           /\ at' = "fetch" /\ span' = NoSpan /\ Stay /\ UNCHANGED history
  <2>1. /\ tracked' = origin /\ trusted' = origin /\ local' = origin /\ UNCHANGED <<base, origin>>
    BY <1>1 DEF Adopt
  <2>2. SyncOK'
    BY <1>0, <1>1, <2>1, NoneOnBase DEF SessionOK, SyncOK, Syncs, OnBase
  <2>3. SessionOK' /\ PushHasWork'
    BY <1>0, <1>1, <2>2, NothingOK DEF SessionOK, Stay, PushHasWork
  <2>4. HistoryOK'
    BY <1>1, <2>1, HistoryStays
  <2>. QED  BY <1>0, <2>1, <2>3, <2>4 DEF ReviewInv, BaseOK, RefsOK, OnBase, NoWipe, HasNetDiff
<1>2. CASE tracked' = origin /\ trusted' = origin /\ UNCHANGED <<base, origin, local>> /\ ToMaster(0)
  <2>1. SessionOK' /\ PushHasWork' /\ HistoryOK'
    BY <1>2, ToMasterOK DEF Phases
  <2>. QED  BY <1>0, <1>2, <2>1 DEF ReviewInv, BaseOK, RefsOK, OnBase, NoWipe, HasNetDiff
<1>. QED  BY <1>1, <1>2 DEF Verify
-----------------------------------------------------------------------------
(* The fix loop.                                                           *)
LEMMA EnterLoopOK == ASSUME ReviewInv, EnterLoop PROVE ReviewInv'
<1>1. SessionOK' /\ PushHasWork' /\ UNCHANGED base
  BY SpanCounts DEF EnterLoop, ReviewInv, SessionOK, SyncOK, Stay, PushHasWork, refs
<1>. QED  BY <1>1, HistoryStays, RefsStay DEF EnterLoop

LEMMA PhaseType == ASSUME NEW gate PROVE PhaseOf(gate) \in Phases
BY DEF PhaseOf, Phases

LEMMA VouchOK ==
  ASSUME ReviewInv, NEW gate, Vouch(gate), UNCHANGED base
  PROVE  HistoryOK'
<1>1. /\ Vouched(seen) /\ Vouched(NoVerdict) /\ Vouched(Verdict(origin))
      /\ seen.on \in Nat /\ seen.on <= Len(base)
  BY VerdictOK DEF ReviewInv, HistoryOK, RefsOK, Vouched, NoVerdict, BaseOK
<1>2. CASE gate = "p2"
  <2>1. PICK v \in {seen, NoVerdict} : seen' = And(Verdict(origin), v)
    BY <1>2 DEF Vouch
  <2>2. Vouched(seen')
    BY <1>1, <2>1 DEF And, Vouched
  <2>. QED  BY <1>2, <2>2 DEF Vouch, HistoryOK, Vouched, OnBase, ReviewInv
<1>3. CASE gate # "p2"
  BY <1>3, HistoryStays DEF Vouch
<1>. QED  BY <1>2, <1>3

LEMMA AssessOK == ASSUME ReviewInv, Assess PROVE ReviewInv'
<1>. DEFINE gate == Head(agenda)
<1>0. /\ BaseOK /\ RefsOK /\ NoWipe /\ SessionOK /\ HistoryOK /\ at = "assess"
      /\ PhaseOf(gate) \in Phases
  BY PhaseType DEF ReviewInv, Assess, At
<1>1. CASE Pass(<<>>) /\ Vouch(gate) /\ span' = NoSpan /\ UNCHANGED <<refs, sync>>
  <2>1. SessionOK' /\ PushHasWork' /\ UNCHANGED base
    BY <1>0, <1>1, SpanCounts DEF Pass, SessionOK, SyncOK, PushHasWork, refs
  <2>2. HistoryOK'
    BY <1>0, <1>1, <2>1, VouchOK
  <2>. QED  BY <1>1, <2>1, <2>2, RefsStay
<1>2. CASE /\ ~AttemptsSpent
           /\ span' = [span EXCEPT !.tries = @ + 1] /\ at' = "fix"
           /\ Stay /\ UNCHANGED <<refs, sync, history>>
  <2>1. SessionOK' /\ PushHasWork' /\ UNCHANGED base
    BY <1>0, <1>2, SpanCounts DEF Stay, SessionOK, SyncOK, PushHasWork, refs
  <2>. QED  BY <1>2, <2>1, HistoryStays, RefsStay
<1>3. CASE ToMaster(PhaseOf(gate)) /\ UNCHANGED refs
  BY <1>0, <1>3, ToMasterOK, RefsStay DEF refs
<1>4. CASE Pass(<<>>) /\ span' = NoSpan /\ UNCHANGED <<sync, history, refs>>
  <2>1. SessionOK' /\ PushHasWork' /\ UNCHANGED base
    BY <1>0, <1>4, SpanCounts DEF Pass, SessionOK, SyncOK, PushHasWork, refs
  <2>. QED  BY <1>4, <2>1, HistoryStays, RefsStay
<1>5. CASE NoResult(PhaseOf(gate))
  BY <1>0, <1>5, NoResultOK
<1>6. CASE Deferred /\ UNCHANGED refs
  BY <1>6, DeferredOK, RefsStay DEF refs
<1>. QED  BY <1>1, <1>2, <1>3, <1>4, <1>5, <1>6 DEF Assess

LEMMA FixOK == ASSUME ReviewInv, Fix PROVE ReviewInv'
<1>. DEFINE phase == PhaseOf(Head(agenda))
<1>0. /\ BaseOK /\ RefsOK /\ NoWipe /\ SessionOK /\ HistoryOK /\ at = "fix"
      /\ phase \in Phases
  BY PhaseType DEF ReviewInv, Fix, At
<1>1. CASE /\ \/ UNCHANGED origin
              \/ origin' = [origin EXCEPT !.work = Append(@, Change("fix"))]
           /\ UNCHANGED <<base, local, tracked, trusted>>
           /\ at' = "assess" /\ Stay /\ UNCHANGED <<sync, span, history>>
  <2>1. OnBase(origin') /\ HasNetDiff(origin')
    BY <1>0, <1>1, OneMore, Plain DEF RefsOK, NoWipe
  <2>2. SessionOK' /\ PushHasWork'
    BY <1>0, <1>1 DEF Stay, SessionOK, SyncOK, PushHasWork
  <2>3. HistoryOK'
    BY <1>1, HistoryStays
  <2>. QED  BY <1>0, <1>1, <2>1, <2>2, <2>3 DEF ReviewInv, BaseOK, RefsOK, OnBase, NoWipe
<1>2. CASE ToMaster(phase) /\ UNCHANGED refs
  BY <1>0, <1>2, ToMasterOK, RefsStay DEF refs
<1>3. CASE /\ span.retries < MaxContainerRetries
           /\ span' = [span EXCEPT !.retries = @ + 1] /\ at' = "assess"
           /\ Stay /\ UNCHANGED <<sync, history, refs>>
  <2>1. SessionOK' /\ PushHasWork' /\ UNCHANGED base
    BY <1>0, <1>3, SpanCounts DEF Stay, SessionOK, SyncOK, PushHasWork, refs
  <2>. QED  BY <1>3, <2>1, HistoryStays, RefsStay
<1>4. CASE Deferred /\ UNCHANGED refs
  BY <1>4, DeferredOK, RefsStay DEF refs
<1>. QED  BY <1>1, <1>2, <1>3, <1>4 DEF Fix

-----------------------------------------------------------------------------
(* The hand-offs, the integration and the world around it.                 *)
LEMMA ParkOK == ASSUME ReviewInv, ParkForCi \/ ParkForMerge PROVE ReviewInv'
<1>1. PICK status \in Outcomes : Ends(status) /\ UNCHANGED <<refs, resume, landed>>
  BY DEF ParkForCi, ParkForMerge, Outcomes
<1>2. run' \in Outcomes /\ span' \in Spans /\ SyncOK' /\ at' = "next" /\ Vouched(seen)' /\ Vouched(granted)'
  BY <1>1, EndsOK DEF refs
<1>3. SessionOK' /\ PushHasWork' /\ HistoryOK'
  BY <1>1, <1>2 DEF ReviewInv, SessionOK, PushHasWork, HistoryOK, OnBase, refs
<1>. QED  BY <1>1, <1>3, RefsStay

LEMMA OpensOK ==
  ASSUME ReviewInv, NEW gates, NEW status \in Outcomes, Opens(gates, status),
         resume' \in Phases, UNCHANGED history
  PROVE  ReviewInv'
<1>1. UNCHANGED <<base, origin, local, trusted>> /\ tracked' \in {origin, tracked}
  BY DEF Opens, Attach
<1>2. sync' = NoSync /\ span' = NoSpan /\ run' = status /\ at' = "next"
  BY DEF Opens
<1>3. SyncOK'
  BY <1>1, <1>2, NothingOK, NoneOnBase, LimitAssumption DEF ReviewInv, SyncOK, OnBase
<1>4. SessionOK' /\ PushHasWork'
  BY <1>2, <1>3, NothingOK DEF ReviewInv, SessionOK, PushHasWork
<1>5. HistoryOK'
  BY <1>1, HistoryStays
<1>. QED  BY <1>1, <1>4, <1>5 DEF ReviewInv, BaseOK, RefsOK, OnBase, NoWipe, HasNetDiff

LEMMA OpeningOK ==
  ASSUME ReviewInv, CiConcludes \/ LeaseMerge \/ MasterReturns \/ Recover
  PROVE  ReviewInv'
<1>1. resume' \in Phases /\ UNCHANGED history
  BY DEF CiConcludes, LeaseMerge, MasterReturns, Recover, ReviewInv, SessionOK
<1>2. {"running", "awaiting-merge"} \subseteq Outcomes
  BY DEF Outcomes
<1>3. CASE CiConcludes
  BY <1>1, <1>2, <1>3, OpensOK DEF CiConcludes
<1>4. CASE LeaseMerge
  BY <1>1, <1>2, <1>4, OpensOK DEF LeaseMerge
<1>5. CASE MasterReturns
  BY <1>1, <1>2, <1>5, OpensOK DEF MasterReturns
<1>6. CASE Recover
  BY <1>1, <1>2, <1>6, OpensOK DEF Recover
<1>. QED  BY <1>3, <1>4, <1>5, <1>6

LEMMA IntegrationOK ==
  ASSUME ReviewInv, Baseline \/ Compare \/ Late
  PROVE  ReviewInv'
<1>0. BaseOK /\ RefsOK /\ NoWipe /\ SessionOK /\ HistoryOK
  BY DEF ReviewInv
<1>1. /\ UNCHANGED <<base, origin, local, trusted, run, resume, sync, span, seen, landed>>
      /\ tracked' \in {origin, tracked} /\ at' \in {at, "next"}
      /\ granted' \in {granted, Verdict(origin), NoVerdict}
  BY DEF Baseline, Compare, Pass, Late, refs, history
<1>2. SessionOK' /\ PushHasWork'
  BY <1>0, <1>1 DEF ReviewInv, SessionOK, SyncOK, PushHasWork
<1>3. HistoryOK'
  <2>1. Vouched(NoVerdict) /\ Vouched(Verdict(origin)) /\ Vouched(granted)
    BY <1>0, VerdictOK DEF NoVerdict, Vouched, RefsOK, HistoryOK, BaseOK
  <2>. QED  BY <1>0, <1>1, <2>1 DEF HistoryOK, Vouched, OnBase
<1>. QED  BY <1>0, <1>1, <1>2, <1>3 DEF ReviewInv, BaseOK, RefsOK, OnBase, NoWipe, HasNetDiff

LEMMA ReadyOK == ASSUME ReviewInv, Ready \/ Merge \/ Crash PROVE ReviewInv'
<1>0. BaseOK /\ RefsOK /\ NoWipe /\ SessionOK /\ HistoryOK
  BY DEF ReviewInv
<1>1. CASE UNCHANGED <<refs, run, resume, sync, span, history>> /\ at' \in {"merge", "next"}
  <2>1. SessionOK' /\ PushHasWork' /\ UNCHANGED base
    BY <1>0, <1>1 DEF SessionOK, SyncOK, PushHasWork, refs
  <2>. QED  BY <1>1, <2>1, HistoryStays, RefsStay
<1>2. CASE ToMaster(0) /\ UNCHANGED refs
  BY <1>2, ToMasterOK, RefsStay DEF Phases, refs
<1>3. CASE Deferred /\ UNCHANGED refs
  BY <1>3, DeferredOK, RefsStay DEF refs
<1>4. CASE Ends("merged") /\ landed' = origin /\ UNCHANGED <<resume, refs>>
  <2>1. run' \in Outcomes /\ span' \in Spans /\ SyncOK' /\ at' = "next" /\ Vouched(seen)' /\ Vouched(granted)'
    BY <1>4, EndsOK DEF refs, Outcomes
  <2>2. SessionOK' /\ PushHasWork' /\ HistoryOK'
    BY <1>0, <1>4, <2>1 DEF SessionOK, PushHasWork, HistoryOK, OnBase, RefsOK, refs
  <2>. QED  BY <1>4, <2>2, RefsStay
<1>5. CASE Ends(run) /\ UNCHANGED <<refs, resume, landed>>
  BY <1>3, <1>5 DEF Deferred
<1>. QED
  BY <1>1, <1>2, <1>3, <1>4, <1>5 DEF Ready, Merge, Crash, Throws, Stay

LEMMA WorldOK ==
  ASSUME ReviewInv, HostedFixPushed \/ PersonPushes \/ PersonRewrites
  PROVE  ReviewInv'
<1>0. BaseOK /\ RefsOK /\ NoWipe /\ SessionOK /\ HistoryOK
  BY DEF ReviewInv
<1>1. UNCHANGED <<base, local, tracked, trusted, session, history>>
  BY DEF HostedFixPushed, PersonPushes, PersonRewrites
<1>2. OnBase(origin') /\ HasNetDiff(origin')
  <2>1. CASE \E ch \in {Change("fix"), Change("ext")} : origin' = [origin EXCEPT !.work = Append(@, ch)]
    BY <1>0, <1>1, <2>1, OneMore, Plain DEF RefsOK, OnBase
  <2>2. CASE origin' = [origin EXCEPT !.work = <<Change("ext")>>, !.by = "person"]
    <3>1. <<Change("ext")>> \in Seq(Changes) /\ <<Change("ext")>> # <<>> /\ "person" \in Authors
      BY Plain DEF Authors
    <3>. QED  BY <1>0, <1>1, <2>2, <3>1 DEF RefsOK, OnBase, Commit, HasNetDiff
  <2>. QED  BY <2>1, <2>2 DEF HostedFixPushed, PersonPushes, PersonRewrites
<1>3. SessionOK' /\ PushHasWork' /\ HistoryOK'
  BY <1>0, <1>1, HistoryStays DEF session, SessionOK, SyncOK, PushHasWork, ReviewInv
<1>. QED  BY <1>0, <1>1, <1>2, <1>3 DEF ReviewInv, BaseOK, RefsOK, OnBase, NoWipe

LEMMA SiblingOK ==
  ASSUME ReviewInv, NEW kind \in Siblings, SiblingMerges(kind)
  PROVE  ReviewInv'
<1>1. /\ base' = Append(base, kind) /\ base \in Seq(Merges) /\ Len(base) < MaxBase
      /\ UNCHANGED <<origin, local, tracked, trusted, session, history>>
  BY DEF SiblingMerges, ReviewInv, BaseOK
<1>2. base' \in Seq(Merges) /\ Len(base') = Len(base) + 1 /\ Len(base) \in Nat
  BY <1>1, SiblingAssumption
<1>3. \A c \in Commit : c.on <= Len(base) => c.on <= Len(base')
  BY <1>2, LimitAssumption DEF Commit
<1>4. BaseOK'
  BY <1>1, <1>2, LimitAssumption DEF BaseOK
<1>5. RefsOK' /\ HistoryOK'
  BY <1>1, <1>2, <1>3 DEF ReviewInv, RefsOK, HistoryOK, Vouched, OnBase, history
<1>6. SessionOK' /\ PushHasWork' /\ NoWipe'
  BY <1>1, <1>3 DEF ReviewInv, SessionOK, SyncOK, Syncs, session, PushHasWork, NoWipe, HasNetDiff
<1>. QED  BY <1>4, <1>5, <1>6 DEF ReviewInv

LEMMA ReviewStep == ASSUME ReviewInv, [Next]_vars PROVE ReviewInv'
<1>1. CASE Drive
  BY <1>1, EnterSyncOK, FetchBranchOK, RebaseOK, PushOK, ResolveOK, VerifyOK, EnterLoopOK,
     AssessOK, FixOK, ParkOK, IntegrationOK, ReadyOK DEF Drive
<1>2. CASE UNCHANGED vars
  BY <1>2 DEF vars, refs, session, history, ReviewInv, BaseOK, RefsOK, HistoryOK, Vouched, SessionOK,
     SyncOK, OnBase, PushHasWork, NoWipe, HasNetDiff
<1>. QED
  BY <1>1, <1>2, IntegrationOK, OpeningOK, WorldOK, SiblingOK, ReadyOK DEF Next

LEMMA ReviewInit == Init => ReviewInv
<1> SUFFICES ASSUME Init PROVE ReviewInv
  OBVIOUS
<1>1. BaseOK /\ Len(base) = 0
  BY LimitAssumption DEF Init, BaseOK
<1>2. OnBase(None) /\ OnBase(origin) /\ HasNetDiff(origin)
  <2>1. <<Change("impl")>> \in Seq(Changes) /\ <<Change("impl")>> # <<>>
    BY Plain
  <2>2. OnBase(None)
    BY <1>1, NoneOnBase
  <2>3. origin = [None EXCEPT !.work = <<Change("impl")>>]
    BY DEF Init
  <2>. QED  BY <2>1, <2>2, <2>3 DEF OnBase, Commit, HasNetDiff
<1>3. RefsOK /\ HistoryOK
  BY <1>1, <1>2 DEF Init, RefsOK, HistoryOK, Vouched, NoVerdict
<1>4. SessionOK /\ PushHasWork
  BY <1>1, <1>2, NothingOK, LimitAssumption
     DEF Init, SessionOK, SyncOK, OnBase, Outcomes, Phases, PushHasWork
<1>. QED  BY <1>1, <1>2, <1>3, <1>4 DEF ReviewInv, NoWipe

LEMMA ReviewHolds == Spec => []ReviewInv
BY ReviewInit, ReviewStep, PTL DEF Spec

(* Every ref is a commit on a base that is there, and no loop runs over    *)
(* its attempts, retries or rounds.                                        *)
THEOREM ReviewTyped == Spec => []TypeOK
<1>1. ReviewInv => TypeOK
  BY DEF ReviewInv, BaseOK, RefsOK, HistoryOK, SessionOK, SyncOK, Syncs, Spans, OnBase, Vouched, TypeOK
<1>. QED  BY <1>1, ReviewHolds, PTL

(* No push ever leaves the pull request without a net diff (#241).         *)
THEOREM NeverWiped == Spec => []NoWipe
<1>1. ReviewInv => NoWipe
  BY DEF ReviewInv
<1>. QED  BY <1>1, ReviewHolds, PTL

\* Prefixes, and the changes without the implementation, element by element.
LEMMA PrefixIs ==
  ASSUME NEW s \in Seq(Changes), NEW t \in Seq(Changes)
  PROVE  IsPrefix(s, t) <=> Len(s) <= Len(t) /\ \A i \in 1..Len(s) : s[i] = t[i]
<1>0. Len(s) \in Nat /\ Len(t) \in Nat
  OBVIOUS
<1>1. SubSeq(s, 1, Len(s)) = s
  OBVIOUS
<1>2. Len(s) <= Len(t) => /\ SubSeq(t, 1, Len(s)) \in Seq(Changes) /\ Len(SubSeq(t, 1, Len(s))) = Len(s)
                          /\ \A i \in 1..Len(s) : SubSeq(t, 1, Len(s))[i] = t[i]
  OBVIOUS
<1>3. Len(s) <= Len(t) /\ (\A i \in 1..Len(s) : s[i] = t[i]) => SubSeq(t, 1, Len(s)) = s
  BY <1>0, <1>2
<1>. QED  BY <1>1, <1>2, <1>3 DEF IsPrefix

\* Whether the implementation is the first change of a branch.
LeadsImpl(w) == w # <<>> /\ Head(w).kind = "impl"

LEMMA WithoutIs ==
  ASSUME NEW w \in Seq(Changes)
  PROVE  /\ WithoutImpl(w) \in Seq(Changes)
         /\ LeadsImpl(w) => /\ Len(WithoutImpl(w)) = Len(w) - 1
                         /\ \A i \in 1..(Len(w) - 1) : WithoutImpl(w)[i] = w[i + 1]
         /\ ~LeadsImpl(w) => WithoutImpl(w) = w
BY DEF WithoutImpl, LeadsImpl

LEMMA PrefixWithout ==
  ASSUME NEW v \in Seq(Changes), NEW w \in Seq(Changes), IsPrefix(v, w)
  PROVE  IsPrefix(WithoutImpl(v), WithoutImpl(w))
<1>0. Len(v) \in Nat /\ Len(w) \in Nat /\ Len(v) <= Len(w) /\ \A i \in 1..Len(v) : v[i] = w[i]
  BY PrefixIs
<1>1. CASE v = <<>>
  <2>1. WithoutImpl(v) = <<>> /\ WithoutImpl(v) \in Seq(Changes) /\ WithoutImpl(w) \in Seq(Changes)
    BY <1>1, WithoutIs DEF LeadsImpl
  <2>2. ASSUME NEW ww \in Seq(Changes) PROVE IsPrefix(<<>>, ww)
    <3>1. <<>> \in Seq(Changes) /\ Len(<<>>) = 0 /\ Len(ww) \in Nat
      OBVIOUS
    <3>2. Len(<<>>) <= Len(ww) /\ \A i \in 1..Len(<<>>) : <<>>[i] = ww[i]
      BY <3>1
    <3>. QED  BY <3>1, <3>2, PrefixIs
  <2>. QED  BY <2>1, <2>2
<1>2. CASE v # <<>>
  <2>1. LeadsImpl(v) <=> LeadsImpl(w)
    BY <1>0, <1>2 DEF LeadsImpl
  <2>2. CASE LeadsImpl(v)
    <3> DEFINE vv == WithoutImpl(v)
               ww == WithoutImpl(w)
    <3>1. /\ vv \in Seq(Changes) /\ Len(vv) = Len(v) - 1 /\ \A i \in 1..(Len(v) - 1) : vv[i] = v[i + 1]
          /\ ww \in Seq(Changes) /\ Len(ww) = Len(w) - 1 /\ \A i \in 1..(Len(w) - 1) : ww[i] = w[i + 1]
      BY <2>1, <2>2, WithoutIs
    <3> HIDE DEF vv, ww
    <3>2. ASSUME NEW i \in 1..Len(vv) PROVE vv[i] = ww[i]
      <4>1. i \in 1..(Len(v) - 1) /\ i \in 1..(Len(w) - 1) /\ i + 1 \in 1..Len(v)
        BY <1>0, <3>1
      <4>. QED  BY <1>0, <3>1, <4>1
    <3>3. Len(vv) <= Len(ww)
      BY <1>0, <3>1
    <3>4. IsPrefix(vv, ww)
      BY <3>1, <3>2, <3>3, PrefixIs
    <3>. QED  BY <3>4 DEF vv, ww
  <2>3. CASE ~LeadsImpl(v)
    BY <2>1, <2>3, WithoutIs
  <2>. QED  BY <2>2, <2>3
<1>. QED  BY <1>1, <1>2

\* The implementation, if it is there, is the first change.
ImplFirst(c) == \A i \in 2..Len(c.work) : c.work[i].kind # "impl"

LEMMA SameCarries == ASSUME NEW c \in Commit PROVE Carried(c, c)
BY WithoutIs, PrefixIs DEF Carried, Commit

\* One more change at the end.
LEMMA MoreCarries ==
  ASSUME NEW w \in Seq(Changes), NEW ch \in Changes
  PROVE  /\ Append(w, ch) \in Seq(Changes)
         /\ IsPrefix(WithoutImpl(w), WithoutImpl(Append(w, ch)))
         /\ w # <<>> /\ ch.kind # "impl" /\ (\A i \in 2..Len(w) : w[i].kind # "impl")
              => \A i \in 2..Len(Append(w, ch)) : Append(w, ch)[i].kind # "impl"
<1> DEFINE d == Append(w, ch)
<1>1. /\ d \in Seq(Changes) /\ Len(d) = Len(w) + 1 /\ Len(w) \in Nat /\ d[Len(w) + 1] = ch
      /\ \A i \in 1..Len(w) : d[i] = w[i]
  OBVIOUS
<1> HIDE DEF d
<1>2. IsPrefix(w, d)
  BY <1>1, PrefixIs
<1>3. IsPrefix(WithoutImpl(w), WithoutImpl(d))
  BY <1>1, <1>2, PrefixWithout
<1>4. ASSUME NEW i \in 2..Len(d), ch.kind # "impl", \A k \in 2..Len(w) : w[k].kind # "impl" PROVE d[i].kind # "impl"
  <2>1. CASE i = Len(w) + 1
    BY <1>1, <1>4, <2>1
  <2>2. CASE i # Len(w) + 1
    <3>1. i \in 1..Len(w) /\ i \in 2..Len(w)
      BY <1>1, <2>2
    <3>. QED  BY <1>1, <1>4, <3>1
  <2>. QED  BY <2>1, <2>2
<1>. QED  BY <1>1, <1>3, <1>4 DEF d

\* A rebase that drops the implementation, landed under the branch, drops nothing else.
LEMMA KeptCarries ==
  ASSUME NEW c \in Commit, ImplFirst(c)
  PROVE  /\ Kept(c) \in Seq(Changes)
         /\ WithoutImpl(Kept(c)) = WithoutImpl(c.work)
         /\ WithoutImpl(WithoutImpl(c.work)) = WithoutImpl(c.work)
         /\ \A i \in 2..Len(Kept(c)) : Kept(c)[i].kind # "impl"
         /\ \A i \in 2..Len(WithoutImpl(c.work)) : WithoutImpl(c.work)[i].kind # "impl"
<1> DEFINE w == c.work
<1>1. w \in Seq(Changes) /\ Len(w) \in Nat /\ \A i \in 2..Len(w) : w[i].kind # "impl"
  BY DEF Commit, ImplFirst
<1> HIDE DEF w
<1>2. CASE LeadsImpl(w)
  <2>1. /\ WithoutImpl(w) \in Seq(Changes) /\ Len(WithoutImpl(w)) = Len(w) - 1
        /\ \A i \in 1..(Len(w) - 1) : WithoutImpl(w)[i] = w[i + 1]
    BY <1>1, <1>2, WithoutIs
  <2>2. ASSUME NEW i \in 1..(Len(w) - 1) PROVE WithoutImpl(w)[i].kind # "impl"
    <3>1. i + 1 \in 2..Len(w) /\ WithoutImpl(w)[i] = w[i + 1]
      BY <1>1, <2>1
    <3>. QED  BY <1>1, <3>1
  <2>3. ~LeadsImpl(WithoutImpl(w))
    BY <1>1, <2>1, <2>2 DEF LeadsImpl
  <2> DEFINE v == WithoutImpl(w)
  <2>4. v \in Seq(Changes) /\ Len(v) = Len(w) - 1 /\ \A i \in 1..(Len(w) - 1) : v[i].kind # "impl"
    BY <2>1, <2>2
  <2>5. WithoutImpl(v) = v
    BY <2>1, <2>3, WithoutIs DEF v
  <2> HIDE DEF v
  <2>6. \A i \in 2..Len(v) : v[i].kind # "impl"
    BY <1>1, <2>4
  <2>7. Kept(c) \in {w, v}
    BY DEF Kept, w, v
  <2>8. CASE Kept(c) = w
    BY <1>1, <2>4, <2>5, <2>6, <2>8 DEF w, v
  <2>9. CASE Kept(c) = v
    BY <2>4, <2>5, <2>6, <2>9 DEF w, v
  <2>. QED  BY <2>7, <2>8, <2>9
<1>3. CASE ~LeadsImpl(w)
  BY <1>1, <1>3, WithoutIs DEF Kept, w
<1>. QED  BY <1>2, <1>3

\* The five ways the branch on origin moves: the daemon's push under its lease, the
\* resolver's push under its own, a fix or a person's commit on top, a person's rewrite.
LEMMA OriginMoves ==
  ASSUME [Next]_vars
  PROVE  \/ origin' = origin
         \/ At(SyncGates, "push") /\ tracked = origin /\ origin' = local
         \/ origin = sync.clone /\ \E theirs \in BOOLEAN : origin' = Resolution(sync.clone, theirs)
         \/ \E ch \in {Change("fix"), Change("ext")} : origin' = [origin EXCEPT !.work = Append(@, ch)]
         \/ origin' = [origin EXCEPT !.work = <<Change("ext")>>, !.by = "person"]
BY DEF Next, Drive, vars, refs, EnterSync, FetchBranch, SyncBranch, Rebase, SyncThrows, Push, LeaseHolds, ForcePush,
       Resolve, NoResult, Verify, Adopt, EnterLoop, Assess, Fix, ParkForCi, ParkForMerge, Baseline, Compare,
       Ready, Merge, HostedFixPushed, Late, CiConcludes, LeaseMerge, MasterReturns, Recover, Opens, Attach,
       SiblingMerges, PersonPushes, PersonRewrites, Crash

\* The worktree's tip: as it was, at origin's, or rebased.
LEMMA LocalMoves ==
  ASSUME [Next]_vars
  PROVE  \/ local' = local
         \/ local' = origin
         \/ local' = Rebased(local, "daemon")
BY DEF Next, Drive, vars, refs, EnterSync, FetchBranch, SyncBranch, Rebase, SyncThrows, Push, LeaseHolds, ForcePush,
       Resolve, NoResult, Verify, Adopt, EnterLoop, Assess, Fix, ParkForCi, ParkForMerge, Baseline, Compare,
       Ready, Merge, HostedFixPushed, Late, CiConcludes, LeaseMerge, MasterReturns, Recover, Opens, Attach,
       SiblingMerges, PersonPushes, PersonRewrites, Crash

\* What the resolver cloned: as it was, origin's tip, or nothing.
LEMMA CloneMoves ==
  ASSUME ReviewInv, [Next]_vars
  PROVE  sync'.clone \in {sync.clone, origin, None}
<1>1. sync \in Syncs
  BY DEF ReviewInv, SessionOK, SyncOK
<1>2. NoSync.clone = None /\ [NoSync EXCEPT !.trust = trusted].clone = None
      /\ \A moved \in BOOLEAN : [NoSync EXCEPT !.moved = moved].clone = None
  BY DEF NoSync
<1>3. CASE EnterSync
  BY <1>2, <1>3 DEF EnterSync
<1>4. CASE FetchBranch
  BY <1>1, <1>2, <1>4 DEF FetchBranch, Syncs, ToMaster, Ends
<1>5. CASE Rebase
  <2>1. \/ sync' = sync \/ sync' = NoSync \/ \E moved \in BOOLEAN : sync' = [NoSync EXCEPT !.moved = moved]
        \/ sync' = [sync EXCEPT !.rounds = @ + 1, !.want = Len(base), !.clone = origin]
    BY <1>1, <1>5 DEF Rebase, Throws, ToMaster, Ends, Synced, Syncs
  <2>. QED  BY <1>1, <1>2, <2>1 DEF Syncs
<1>6. CASE SyncThrows \/ Push
  BY <1>2, <1>6 DEF SyncThrows, Push, Throws, ToMaster, Ends, Synced
<1>7. CASE Resolve
  BY <1>1, <1>2, <1>7 DEF Resolve, NoResult, ToMaster, Deferred, Ends, Syncs
<1>8. CASE Verify
  BY <1>1, <1>2, <1>8 DEF Verify, ToMaster, Ends, Syncs
<1>9. CASE Assess \/ Fix
  BY <1>1, <1>2, <1>9 DEF Assess, Fix, NoResult, ToMaster, Deferred, Ends, Syncs
<1>10. CASE sync' \in {sync, NoSync}
  BY <1>2, <1>10
<1>. QED
  BY <1>3, <1>4, <1>5, <1>6, <1>7, <1>8, <1>9, <1>10
  DEF Next, Drive, vars, session, EnterLoop, ParkForCi, ParkForMerge, Baseline, Compare, Ready, Merge,
      HostedFixPushed, Late, CiConcludes, LeaseMerge, MasterReturns, Recover, Opens, SiblingMerges,
      PersonPushes, PersonRewrites, Crash, ToMaster, Throws, Deferred, Ends

\* How the fetched tip and the worktree's stand when a rebase or a push is next.
LEMMA TipMoves ==
  ASSUME ReviewInv, [Next]_vars, at' \in {"rebase", "push"}, ~sync'.blind
  PROVE  \/ UNCHANGED <<at, sync, tracked, local>>
         \/ tracked' = origin /\ local' = IF IsAncestor(origin, local) THEN local ELSE origin
         \/ at = "rebase" /\ local' = Rebased(local, "daemon") /\ UNCHANGED <<tracked, sync>>
<1>1. sync \in Syncs
  BY DEF ReviewInv, SessionOK, SyncOK
<1>. QED
  BY <1>1 DEF At, Stay, Syncs, Next, Drive, vars, refs, session, EnterSync, FetchBranch, SyncBranch, Rebase, SyncThrows, Push, Synced, Pass,
       Resolve, NoResult, Verify, EnterLoop, Assess, Fix, ParkForCi, ParkForMerge, Baseline, Compare,
       Ready, Merge, HostedFixPushed, Late, CiConcludes, LeaseMerge, MasterReturns, Recover, Opens,
       SiblingMerges, PersonPushes, PersonRewrites, Crash, ToMaster, Throws, Deferred, Ends

(***************************************************************************)
(* What makes the push safe: between the fetch and the push the worktree's *)
(* tip carries the origin tip that was fetched, unless the fetch failed;   *)
(* the lease then makes the fetched tip the one that is replaced. The      *)
(* implementation is always the first change, so that dropping it drops    *)
(* nothing behind it.                                                      *)
(***************************************************************************)
ClobberInv ==
  /\ ImplFirst(origin) /\ ImplFirst(local) /\ ImplFirst(sync.clone)
  /\ at \in {"rebase", "push"} /\ ~sync.blind => Carried(tracked, local)

LEMMA NoneFirst == ImplFirst(None) /\ ImplFirst([None EXCEPT !.work = <<Change("impl")>>])
BY DEF ImplFirst, None

\* A branch as it is, rebased, resolved or with one more change carries what it had.
LEMMA RebasedCarries ==
  ASSUME NEW c \in Commit, ImplFirst(c), NEW who
  PROVE  ImplFirst(Rebased(c, who)) /\ WithoutImpl(Rebased(c, who).work) = WithoutImpl(c.work)
<1>1. Rebased(c, who).work \in {c.work, Kept(c)}
  BY DEF Rebased
<1>. QED  BY <1>1, KeptCarries DEF ImplFirst

LEMMA ResolutionCarries ==
  ASSUME BaseOK, NEW c \in Commit, ImplFirst(c), c.work # <<>>, NEW theirs \in BOOLEAN
  PROVE  ImplFirst(Resolution(c, theirs)) /\ Carried(c, Resolution(c, theirs))
<1> DEFINE res == [kind |-> "res", on |-> Len(base)]
<1>1. /\ c.work \in Seq(Changes) /\ Kept(c) \in Seq(Changes) /\ WithoutImpl(c.work) \in Seq(Changes)
      /\ res \in Changes /\ res.kind # "impl"
  BY KeptCarries, WithoutIs DEF Commit, Changes, BaseOK
<1>2. \/ Resolution(c, theirs).work \in {Kept(c), WithoutImpl(c.work)}
      \/ Resolution(c, theirs).work = Append(Kept(c), res)
  BY DEF Resolution
<1>3. IsPrefix(WithoutImpl(c.work), WithoutImpl(c.work))
  BY <1>1, PrefixIs
<1>4. CASE Resolution(c, theirs).work \in {Kept(c), WithoutImpl(c.work)}
  BY <1>3, <1>4, KeptCarries DEF ImplFirst, Carried
<1>5. CASE Resolution(c, theirs).work = Append(Kept(c), res)
  <2>1. IsPrefix(WithoutImpl(Kept(c)), WithoutImpl(Append(Kept(c), res)))
    BY <1>1, MoreCarries
  <2>2. \A i \in 2..Len(Append(Kept(c), res)) : Append(Kept(c), res)[i].kind # "impl"
    <3>1. CASE Kept(c) = <<>>
      BY <3>1
    <3>2. CASE Kept(c) # <<>>
      BY <1>1, <3>2, MoreCarries, KeptCarries
    <3>. QED  BY <3>1, <3>2
  <2>. QED  BY <1>5, <2>1, <2>2, KeptCarries DEF ImplFirst, Carried
<1>. QED  BY <1>2, <1>4, <1>5

\* Every step keeps the invariant and loses nothing on origin.
LEMMA ClobberStep ==
  ASSUME ReviewInv, ClobberInv, [Next]_vars
  PROVE  /\ ClobberInv'
         /\ origin' # origin => Carried(origin, origin') \/ sync.blind \/ origin'.by = "person"
<1>0. /\ origin \in Commit /\ local \in Commit /\ tracked \in Commit /\ sync.clone \in Commit
      /\ origin.work # <<>> /\ origin.work \in Seq(Changes)
  BY DEF ReviewInv, RefsOK, OnBase, SessionOK, SyncOK, Syncs, NoWipe, HasNetDiff, Commit
<1>1. ImplFirst(origin') /\ (origin' # origin => Carried(origin, origin') \/ sync.blind \/ origin'.by = "person")
  <2>1. CASE origin' = origin
    BY <2>1 DEF ClobberInv
  <2>2. CASE At(SyncGates, "push") /\ tracked = origin /\ origin' = local
    BY <2>2 DEF At, ClobberInv
  <2>3. CASE origin = sync.clone /\ \E theirs \in BOOLEAN : origin' = Resolution(sync.clone, theirs)
    BY <1>0, <2>3, ResolutionCarries DEF ClobberInv, ReviewInv
  <2>4. CASE \E ch \in {Change("fix"), Change("ext")} : origin' = [origin EXCEPT !.work = Append(@, ch)]
    <3>1. PICK ch \in {Change("fix"), Change("ext")} : origin' = [origin EXCEPT !.work = Append(@, ch)]
      BY <2>4
    <3>2. origin'.work = Append(origin.work, ch) /\ ch \in Changes /\ ch.kind # "impl"
      BY <1>0, <3>1, Plain DEF Commit
    <3>. QED  BY <1>0, <3>2, MoreCarries DEF ClobberInv, ImplFirst, Carried
  <2>5. CASE origin' = [origin EXCEPT !.work = <<Change("ext")>>, !.by = "person"]
    <3>1. origin'.work = <<Change("ext")>> /\ origin'.by = "person"
      BY <1>0, <2>5 DEF Commit
    <3>. QED  BY <3>1 DEF ImplFirst
  <2>. QED  BY <2>1, <2>2, <2>3, <2>4, <2>5, OriginMoves
<1>2. ImplFirst(local')
  BY <1>0, LocalMoves, RebasedCarries DEF ClobberInv
<1>3. ImplFirst(sync'.clone)
  BY <1>0, CloneMoves, NoneFirst DEF ClobberInv
<1>4. ASSUME at' \in {"rebase", "push"}, ~sync'.blind PROVE Carried(tracked', local')
  <2>1. CASE UNCHANGED <<at, sync, tracked, local>>
    BY <1>4, <2>1 DEF ClobberInv
  <2>2. CASE tracked' = origin /\ local' = IF IsAncestor(origin, local) THEN local ELSE origin
    <3>1. IsAncestor(origin, local) => IsPrefix(origin.work, local.work)
      BY <1>0 DEF IsAncestor
    <3>2. Carried(origin, origin)
      BY <1>0, SameCarries
    <3>3. IsPrefix(origin.work, local.work) => Carried(origin, local)
      BY <1>0, PrefixWithout DEF Carried, Commit
    <3>. QED  BY <2>2, <3>1, <3>2, <3>3
  <2>3. CASE at = "rebase" /\ local' = Rebased(local, "daemon") /\ UNCHANGED <<tracked, sync>>
    <3>1. Carried(tracked, local)
      BY <1>4, <2>3 DEF ClobberInv
    <3>. QED  BY <1>0, <2>3, <3>1, RebasedCarries DEF Carried, ClobberInv
  <2>. QED  BY <1>4, <2>1, <2>2, <2>3, TipMoves
<1>. QED  BY <1>1, <1>2, <1>3, <1>4 DEF ClobberInv, ImplFirst, Carried

(***************************************************************************)
(* However often a branch is rebased, resolved and force-pushed, each      *)
(* change that was on the pull request is still there afterwards, in order *)
(* and under whatever was added: only the implementation may go, when it   *)
(* landed beneath, and only a person's own rewrite or a rebase whose fetch *)
(* failed loses anything else (worktree.ts rebaseOnto, forcePush;          *)
(* review-loop.ts syncBranchToOrigin).                                     *)
(***************************************************************************)
THEOREM NeverClobbered == Spec => NoClobber
<1>1. Init => ClobberInv
  BY NoneFirst DEF Init, ClobberInv, NoSync
<1>2. ReviewInv /\ ClobberInv /\ [Next]_vars =>
        /\ ClobberInv'
        /\ [origin' # origin => Carried(origin, origin') \/ sync.blind \/ origin'.by = "person"]_vars
  BY ClobberStep
<1>. QED  BY <1>1, <1>2, ReviewHolds, PTL DEF Spec, NoClobber

-----------------------------------------------------------------------------
(* What lands was judged.  First, the gates that may be left of a review,  *)
(* and of an integration.                                                  *)
ReviewsLeft == {<<>>, <<"sync", "park-ci">>, <<"park-ci">>, <<"sync", "ci", "p1", "p2", "park-merge">>,
                <<"ci", "p1", "p2", "park-merge">>, <<"p1", "p2", "park-merge">>, <<"p2", "park-merge">>,
                <<"park-merge">>}
MergesLeft == {<<>>, <<"baseline", "resync", "compare", "ready">>, <<"resync", "compare", "ready">>,
               <<"compare", "ready">>, <<"ci", "compare", "ready">>, <<"ready">>,
               <<"p1", "p2", "ci", "ready">>, <<"p2", "ci", "ready">>, <<"ci", "ready">>}

LEMMA ReviewShape ==
  ASSUME NEW a \in ReviewsLeft, a # <<>>
  PROVE  /\ <<>> \o Tail(a) = Tail(a) /\ Tail(a) \in ReviewsLeft
         /\ Head(a) \in {"sync", "ci", "p1", "p2", "park-ci", "park-merge"}
         /\ Head(a) # "p2" /\ Tail(a) # <<>> => Head(Tail(a)) # "park-merge"
<1>1. CASE a = <<"sync", "park-ci">>
  BY <1>1 DEF ReviewsLeft
<1>2. CASE a = <<"park-ci">>
  BY <1>2 DEF ReviewsLeft
<1>3. CASE a = <<"sync", "ci", "p1", "p2", "park-merge">>
  BY <1>3 DEF ReviewsLeft
<1>4. CASE a = <<"ci", "p1", "p2", "park-merge">>
  BY <1>4 DEF ReviewsLeft
<1>5. CASE a = <<"p1", "p2", "park-merge">>
  BY <1>5 DEF ReviewsLeft
<1>6. CASE a = <<"p2", "park-merge">>
  BY <1>6 DEF ReviewsLeft
<1>7. CASE a = <<"park-merge">>
  BY <1>7 DEF ReviewsLeft
<1>. QED  BY <1>1, <1>2, <1>3, <1>4, <1>5, <1>6, <1>7 DEF ReviewsLeft

LEMMA MergeShape ==
  ASSUME NEW a \in MergesLeft, a # <<>>
  PROVE  /\ <<>> \o Tail(a) = Tail(a) /\ Tail(a) \in MergesLeft
         /\ Head(a) \in {"baseline", "resync", "compare", "ci", "p1", "p2", "ready"}
         /\ Head(a) = "baseline" => Tail(a) = <<"resync", "compare", "ready">>
         /\ Head(a) = "resync" => Tail(a) = <<"compare", "ready">>
         /\ Head(a) = "compare" => Tail(a) = <<"ready">>
         /\ Head(a) = "ci" => Tail(a) = IF Len(a) = 3 THEN <<"compare", "ready">> ELSE <<"ready">>
         /\ Head(a) = "p1" => Tail(a) = <<"p2", "ci", "ready">>
         /\ Head(a) = "p2" => Tail(a) = <<"ci", "ready">>
<1>1. CASE a = <<"baseline", "resync", "compare", "ready">>
  BY <1>1 DEF MergesLeft
<1>2. CASE a = <<"resync", "compare", "ready">>
  BY <1>2 DEF MergesLeft
<1>3. CASE a = <<"compare", "ready">>
  BY <1>3 DEF MergesLeft
<1>4. CASE a = <<"ci", "compare", "ready">>
  BY <1>4 DEF MergesLeft
<1>5. CASE a = <<"ready">>
  BY <1>5 DEF MergesLeft
<1>6. CASE a = <<"p1", "p2", "ci", "ready">>
  BY <1>6 DEF MergesLeft
<1>7. CASE a = <<"p2", "ci", "ready">>
  BY <1>7 DEF MergesLeft
<1>8. CASE a = <<"ci", "ready">>
  BY <1>8 DEF MergesLeft
<1>. QED  BY <1>1, <1>2, <1>3, <1>4, <1>5, <1>6, <1>7, <1>8 DEF MergesLeft

Gates == {"sync", "park-ci", "ci", "p1", "p2", "park-merge", "baseline", "resync", "compare", "ready"}

LEMMA Joined ==
  ASSUME NEW S, NEW s \in Seq(S), NEW t \in Seq(S), NEW u \in Seq(S), Len(u) = Len(s) + Len(t),
         \A i \in 1..Len(s) : u[i] = s[i], \A i \in 1..Len(t) : u[Len(s) + i] = t[i]
  PROVE  s \o t = u
<1>1. s \o t \in Seq(S) /\ Len(s \o t) = Len(s) + Len(t) /\ Len(s) \in Nat /\ Len(t) \in Nat
  OBVIOUS
<1>2. ASSUME NEW i \in 1..Len(u) PROVE (s \o t)[i] = u[i]
  <2>1. CASE i <= Len(s)
    BY <1>1, <2>1
  <2>2. CASE i > Len(s)
    <3>1. i - Len(s) \in 1..Len(t) /\ Len(s) + (i - Len(s)) = i
      BY <1>1, <2>2
    <3>2. (s \o t)[i] = t[i - Len(s)]
      BY <1>1, <2>2
    <3>. QED  BY <3>1, <3>2
  <2>. QED  BY <1>1, <2>1, <2>2
<1>. QED  BY <1>1, <1>2

\* What a session opens with, and what a gate puts before the rest.
LEMMA OpeningShape ==
  /\ Fresh \in ReviewsLeft /\ Fresh # <<>> /\ Head(Fresh) # "park-merge"
  /\ AfterCi \in ReviewsLeft /\ AfterCi # <<>> /\ Head(AfterCi) # "park-merge"
  /\ \A p \in Phases : Resumed(p) \in ReviewsLeft /\ Resumed(p) # <<>> /\ Head(Resumed(p)) # "park-merge"
  /\ Integration \in MergesLeft /\ Head(Integration) = "baseline"
  /\ Round \in MergesLeft /\ Head(Round) = "resync" /\ Round # <<>>
  /\ <<"ci">> \o <<"compare", "ready">> = <<"ci", "compare", "ready">>
  /\ ReReview \o <<"ready">> = <<"p1", "p2", "ci", "ready">>
<1>1. <<"baseline">> \o <<"resync", "compare", "ready">> = <<"baseline", "resync", "compare", "ready">>
  <2> DEFINE s == <<"baseline">>
             t == <<"resync", "compare", "ready">>
             u == <<"baseline", "resync", "compare", "ready">>
  <2>1. s \in Seq(Gates) /\ t \in Seq(Gates) /\ u \in Seq(Gates) /\ Len(s) = 1 /\ Len(t) = 3 /\ Len(u) = 4
    BY DEF Gates
  <2>2. (\A i \in 1..1 : u[i] = s[i]) /\ \A i \in 1..3 : u[1 + i] = t[i]
    OBVIOUS
  <2>3. s \o t = u
    <3> HIDE DEF s, t, u
    <3>1. /\ Len(u) = Len(s) + Len(t)
          /\ (\A i \in 1..Len(s) : u[i] = s[i]) /\ \A i \in 1..Len(t) : u[Len(s) + i] = t[i]
      BY <2>1, <2>2
    <3>. QED  BY <2>1, <3>1, Joined
  <2>. QED  BY <2>3
<1>2. <<"ci">> \o <<"compare", "ready">> = <<"ci", "compare", "ready">>
  <2> DEFINE s == <<"ci">>
             t == <<"compare", "ready">>
             u == <<"ci", "compare", "ready">>
  <2>1. s \in Seq(Gates) /\ t \in Seq(Gates) /\ u \in Seq(Gates) /\ Len(s) = 1 /\ Len(t) = 2 /\ Len(u) = 3
    BY DEF Gates
  <2>2. (\A i \in 1..1 : u[i] = s[i]) /\ \A i \in 1..2 : u[1 + i] = t[i]
    OBVIOUS
  <2>3. s \o t = u
    <3> HIDE DEF s, t, u
    <3>1. /\ Len(u) = Len(s) + Len(t)
          /\ (\A i \in 1..Len(s) : u[i] = s[i]) /\ \A i \in 1..Len(t) : u[Len(s) + i] = t[i]
      BY <2>1, <2>2
    <3>. QED  BY <2>1, <3>1, Joined
  <2>. QED  BY <2>3
<1>3. <<"p1", "p2", "ci">> \o <<"ready">> = <<"p1", "p2", "ci", "ready">>
  <2> DEFINE s == <<"p1", "p2", "ci">>
             t == <<"ready">>
             u == <<"p1", "p2", "ci", "ready">>
  <2>1. s \in Seq(Gates) /\ t \in Seq(Gates) /\ u \in Seq(Gates) /\ Len(s) = 3 /\ Len(t) = 1 /\ Len(u) = 4
    BY DEF Gates
  <2>2. (\A i \in 1..3 : u[i] = s[i]) /\ \A i \in 1..1 : u[3 + i] = t[i]
    OBVIOUS
  <2>3. s \o t = u
    <3> HIDE DEF s, t, u
    <3>1. /\ Len(u) = Len(s) + Len(t)
          /\ (\A i \in 1..Len(s) : u[i] = s[i]) /\ \A i \in 1..Len(t) : u[Len(s) + i] = t[i]
      BY <2>1, <2>2
    <3>. QED  BY <2>1, <3>1, Joined
  <2>. QED  BY <2>3
<1>4. Fresh \in ReviewsLeft /\ Fresh # <<>> /\ Head(Fresh) # "park-merge"
  BY DEF Fresh, ReviewsLeft
<1>5. AfterCi \in ReviewsLeft /\ AfterCi # <<>> /\ Head(AfterCi) # "park-merge"
  BY DEF AfterCi, ReviewsLeft
<1>6. \A p \in Phases : Resumed(p) \in ReviewsLeft /\ Resumed(p) # <<>> /\ Head(Resumed(p)) # "park-merge"
  BY DEF Resumed, ReviewsLeft, Phases
<1>7. Round \in MergesLeft /\ Head(Round) = "resync" /\ Round # <<>>
  BY DEF Round, MergesLeft
<1>8. Integration \in MergesLeft /\ Head(Integration) = "baseline"
  BY <1>1 DEF Integration, Round, MergesLeft
<1>. QED  BY <1>2, <1>3, <1>4, <1>5, <1>6, <1>7, <1>8 DEF ReReview

-----------------------------------------------------------------------------
(* What origin's tip owes to the second reviewer, and how it is kept.      *)
Verdicts       == And(seen, granted)
OriginSeen     == Judged(origin, seen)
OriginJudged   == Judged(origin, Verdicts)
\* The baseline is the diff of a judged commit that origin only grew from.
BaselineJudged == \E b \in Commit : b.on <= origin.on /\ before = DiffHash(b) /\ Judged(b, Verdicts)

\* A verdict that takes in another one, or a commit with less to judge.
LEMMA MoreJudged ==
  ASSUME ReviewInv, NEW c, NEW d, NEW v, NEW w, Judged(c, v),
         c.on \in Nat, d.on \in Nat, v.on \in Nat, w.on \in Nat, d.on <= c.on, v.on <= w.on,
         Resolutions(d) \subseteq Resolutions(c), v.res \subseteq w.res
  PROVE  Judged(d, w)
<1>1. Resolutions(d) \subseteq w.res
  BY DEF Judged
<1>2. ASSUME NEW i \in 1..d.on, base[i] = "near" PROVE i <= w.on
  <2>1. i \in 1..c.on
    OBVIOUS
  <2>2. i <= v.on
    BY <1>2, <2>1 DEF Judged
  <2>. QED  BY <2>2
<1>. QED  BY <1>1, <1>2 DEF Judged

LEMMA AndIs ==
  ASSUME NEW v, NEW w, v.on \in Nat, w.on \in Nat
  PROVE  /\ And(v, w).on \in Nat /\ v.on <= And(v, w).on /\ w.on <= And(v, w).on
         /\ v.res \subseteq And(v, w).res /\ w.res \subseteq And(v, w).res
         /\ And(v, w).on \in {v.on, w.on} /\ And(v, w).res = v.res \cup w.res
BY DEF And

LEMMA HistoryIs ==
  ASSUME ReviewInv
  PROVE  /\ origin.on \in Nat /\ origin.on <= Len(base) /\ Len(base) \in Nat
         /\ seen.on \in Nat /\ granted.on \in Nat
         /\ \A b \in Commit : b.on \in Nat
         /\ Verdict(origin).on = origin.on /\ Verdict(origin).res = Resolutions(origin)
         /\ NoVerdict.on = 0
BY LimitAssumption DEF ReviewInv, BaseOK, RefsOK, OnBase, Commit, HistoryOK, Vouched, Verdict, NoVerdict

\* What a reviewer has before it is judged by it.
LEMMA SelfJudged == ASSUME ReviewInv PROVE Judged(origin, Verdict(origin))
BY DEF Judged, Verdict

LEMMA SeenIsJudged == ASSUME ReviewInv, OriginSeen PROVE OriginJudged
BY MoreJudged, AndIs, HistoryIs DEF OriginSeen, OriginJudged, Verdicts

\* A fix, a person's commit or a rewrite adds nothing that is judged.
LEMMA KeepsJudged ==
  ASSUME ReviewInv, ReviewInv', UNCHANGED <<base, seen, granted, before>>,
         origin'.on = origin.on, Resolutions(origin)' \subseteq Resolutions(origin)
  PROVE  /\ OriginSeen => OriginSeen'
         /\ OriginJudged => OriginJudged'
         /\ BaselineJudged => BaselineJudged'
<1>1. OriginSeen => OriginSeen'
  BY DEF OriginSeen, Judged, Resolutions
<1>2. OriginJudged => OriginJudged'
  BY DEF OriginJudged, Verdicts, And, Judged, Resolutions
<1>3. BaselineJudged => BaselineJudged'
  BY DEF BaselineJudged, Verdicts, And, Judged, Resolutions, DiffHash
<1>. QED  BY <1>1, <1>2, <1>3

\* A rebase or a resolution moves origin up the base, under the same baseline.
LEMMA GrowsKeepsBaseline ==
  ASSUME ReviewInv, ReviewInv', UNCHANGED <<base, seen, granted, before>>, origin.on <= origin'.on,
         BaselineJudged
  PROVE  BaselineJudged'
<1>1. PICK b \in Commit : b.on <= origin.on /\ before = DiffHash(b) /\ Judged(b, Verdicts)
  BY DEF BaselineJudged
<1>2. b.on <= origin'.on
  <2>1. origin'.on \in Nat /\ origin.on \in Nat /\ b.on \in Nat
    BY HistoryIs, LimitAssumption DEF ReviewInv, RefsOK, OnBase, Commit
  <2>. QED  BY <1>1, <2>1
<1>3. (before = DiffHash(b))' /\ Judged(b, Verdicts)'
  BY <1>1 DEF DiffHash, Judged, Verdicts, And, Resolutions
<1>. QED  BY <1>2, <1>3 DEF BaselineJudged

\* A merge of the base is beyond every commit there is.
LEMMA BaseKeepsJudged ==
  ASSUME ReviewInv, NEW kind \in Merges, base' = Append(base, kind),
         UNCHANGED <<origin, seen, granted, before>>
  PROVE  /\ OriginSeen => OriginSeen'
         /\ OriginJudged => OriginJudged'
         /\ BaselineJudged => BaselineJudged'
<1>1. base \in Seq(Merges) /\ \A i \in 1..Len(base) : base'[i] = base[i]
  BY DEF ReviewInv, BaseOK
<1>2. ASSUME NEW c, c.on \in Nat, c.on <= Len(base)
      PROVE  \A i \in 1..c.on : base'[i] = base[i]
  BY <1>1, <1>2, HistoryIs
<1>3. OriginSeen => OriginSeen'
  BY <1>2, HistoryIs DEF OriginSeen, Judged, Resolutions
<1>4. OriginJudged => OriginJudged'
  BY <1>2, HistoryIs DEF OriginJudged, Verdicts, And, Judged, Resolutions
<1>5. ASSUME BaselineJudged PROVE BaselineJudged'
  <2>1. PICK b \in Commit : b.on <= origin.on /\ before = DiffHash(b) /\ Judged(b, Verdicts)
    BY <1>5 DEF BaselineJudged
  <2>2. b.on \in Nat /\ b.on <= Len(base)
    BY <2>1, HistoryIs
  <2>3. \A i \in 1..b.on : base'[i] = base[i]
    BY <1>2, <2>2
  <2>4. {i \in 1..b.on : base'[i] = "near"} = {i \in 1..b.on : base[i] = "near"}
    BY <2>3
  <2>5. (before = DiffHash(b))'
    BY <2>1, <2>4 DEF DiffHash
  <2>6. Judged(b, Verdicts)'
    BY <2>1, <2>3 DEF Judged, Verdicts, And, Resolutions
  <2>. QED  BY <2>1, <2>5, <2>6 DEF BaselineJudged
<1>. QED  BY <1>3, <1>4, <1>5

\* A clean verdict of Phase 2 judges what origin has.
LEMMA VouchJudges ==
  ASSUME ReviewInv, UNCHANGED <<base, origin, granted, before>>,
         NEW v \in {seen, NoVerdict}, seen' = And(Verdict(origin), v)
  PROVE  /\ OriginSeen' /\ OriginJudged'
         /\ v = seen /\ BaselineJudged => BaselineJudged'
<1>1. v.on \in Nat /\ Verdict(origin).on \in Nat
  BY HistoryIs
<1>2. Judged(origin, And(Verdict(origin), v))
  BY <1>1, SelfJudged, MoreJudged, AndIs, HistoryIs
<1>3. OriginSeen'
  BY <1>2 DEF OriginSeen, Judged, Resolutions
<1>4. And(Verdict(origin), v).on \in Nat
  BY <1>1, AndIs
<1>5. Judged(origin, And(And(Verdict(origin), v), granted))
  BY <1>2, <1>4, MoreJudged, AndIs, HistoryIs
<1>6. OriginJudged'
  BY <1>5 DEF OriginJudged, Verdicts, Judged, Resolutions, And
<1>7. ASSUME v = seen, BaselineJudged PROVE BaselineJudged'
  <2>1. PICK b \in Commit : b.on <= origin.on /\ before = DiffHash(b) /\ Judged(b, Verdicts)
    BY <1>7 DEF BaselineJudged
  <2> DEFINE now == And(And(Verdict(origin), v), granted)
  <2>2. /\ Verdicts.on \in Nat /\ now.on \in Nat /\ Verdicts.on <= now.on
        /\ Verdicts.res \subseteq now.res
    <3>1. /\ Verdict(origin).on \in Nat /\ seen.on \in Nat /\ granted.on \in Nat
          /\ v = seen
      BY <1>1, <1>7, HistoryIs
    <3>. QED  BY <3>1 DEF And, Verdicts
  <2>3. Judged(b, now)
    <3> HIDE DEF now
    <3>. QED  BY <2>1, <2>2, MoreJudged, HistoryIs
  <2>4. now = Verdicts'
    BY DEF Verdicts
  <2>5. Judged(b, Verdicts)'
    BY <2>3, <2>4 DEF Judged, Resolutions
  <2>6. (before = DiffHash(b))'
    BY <2>1 DEF DiffHash
  <2>. QED  BY <2>1, <2>5, <2>6 DEF BaselineJudged
<1>. QED  BY <1>3, <1>6, <1>7

\* The baseline of an integration that takes over what the review left.
LEMMA BaselineBegins ==
  ASSUME ReviewInv, UNCHANGED <<base, origin, seen, cut>>,
         cut \/ OriginSeen, granted' = IF cut THEN Verdict(origin) ELSE NoVerdict
  PROVE  /\ OriginJudged'
         /\ before' = DiffHash(origin) => BaselineJudged'
<1>1. Judged(origin, And(seen, granted'))
  <2>1. CASE cut
    <3>1. granted' = Verdict(origin) /\ granted'.on \in Nat
      BY <2>1, HistoryIs
    <3>. QED  BY <3>1, SelfJudged, MoreJudged, AndIs, HistoryIs
  <2>2. CASE ~cut
    <3>1. granted' = NoVerdict /\ Judged(origin, seen)
      BY <2>2 DEF OriginSeen
    <3>. QED  BY <3>1, MoreJudged, AndIs, HistoryIs
  <2>. QED  BY <2>1, <2>2
<1>2. OriginJudged'
  BY <1>1 DEF OriginJudged, Verdicts, Judged, Resolutions
<1>3. ASSUME before' = DiffHash(origin) PROVE BaselineJudged'
  <2>1. origin \in Commit /\ origin.on <= origin.on
    BY HistoryIs DEF ReviewInv, RefsOK, OnBase
  <2>2. (before = DiffHash(origin))'
    BY <1>3 DEF DiffHash
  <2>. QED  BY <1>2, <2>1, <2>2 DEF BaselineJudged, OriginJudged
<1>. QED  BY <1>2, <1>3

\* The same diff further up the base: nothing near the branch lies in between.
LEMMA SameDiffJudged ==
  ASSUME ReviewInv, BaselineJudged, before = DiffHash(origin)
  PROVE  OriginJudged
<1>1. PICK b \in Commit : b.on <= origin.on /\ before = DiffHash(b) /\ Judged(b, Verdicts)
  BY DEF BaselineJudged
<1> DEFINE Near(c) == {i \in 1..c.on : base[i] = "near"}
<1>2. b.work = origin.work /\ Cardinality(Near(b)) = Cardinality(Near(origin))
  BY <1>1 DEF DiffHash
<1>3. Near(b) = Near(origin)
  <2>1. IsFiniteSet(1..origin.on)
    <3>1. 1 \in Int /\ origin.on \in Int
      BY HistoryIs
    <3>. QED  BY <3>1, FS_Interval
  <2>2. Near(origin) \in SUBSET (1..origin.on) /\ IsFiniteSet(Near(origin))
    BY <2>1, FS_Subset
  <2>3. Near(b) \in SUBSET Near(origin)
    BY <1>1, HistoryIs
  <2> HIDE DEF Near
  <2>. QED  BY <1>2, <2>2, <2>3, FS_Subset
<1>4. \A i \in 1..origin.on : base[i] = "near" => i \in 1..b.on /\ base[i] = "near"
  BY <1>3
<1>. QED  BY <1>1, <1>2, <1>4 DEF Judged, Resolutions, OriginJudged

LEMMA HashIsNone == ASSUME NEW c PROVE DiffHash(c) # NoHash
BY DEF DiffHash, NoHash

-----------------------------------------------------------------------------
(***************************************************************************)
(* What lands was judged.  An integration takes over a branch that Phase 2 *)
(* judged, or one whose session was cut short; what it rebases or resolves *)
(* since is judged again by a gate that is still ahead, unless the diff is *)
(* that of the baseline.                                                   *)
(***************************************************************************)
AgendaOK ==
  /\ run = "running" => agenda \in ReviewsLeft
  /\ run = "awaiting-merge" => agenda \in MergesLeft
  /\ run \notin {"running", "awaiting-merge"} => agenda = <<>>

Underway == run = "awaiting-merge" /\ agenda # <<>> /\ Head(agenda) # "baseline"

HandedOver ==
  /\ run = "master-triage" => cut
  /\ run = "running" /\ agenda # <<>> /\ Head(agenda) = "park-merge" => OriginSeen
  /\ run = "awaiting-merge" /\ ~Underway => cut \/ OriginSeen

\* A gate ahead that looks at what moved: a re-review, or the comparison that calls for one.
AheadLooks ==
  \/ Head(agenda) \in {"p1", "p2"}
  \/ sync.moved /\ (Head(agenda) = "compare" \/ (Head(agenda) = "ci" /\ Len(agenda) = 3))
  \/ Head(agenda) = "resync" /\ (at = "verify" \/ (sync.moved /\ at # "next"))

DriftInv ==
  /\ AgendaOK /\ HandedOver
  /\ Underway => OriginJudged \/ AheadLooks
  /\ Underway /\ before # NoHash => BaselineJudged
  /\ at = "push" => origin.on <= local.on
  /\ DriftJudged

LEMMA InSession ==
  ASSUME DriftInv, agenda # <<>>
  PROVE  \/ /\ run = "running" /\ agenda \in ReviewsLeft
            /\ Head(agenda) \in {"sync", "ci", "p1", "p2", "park-ci", "park-merge"}
         \/ /\ run = "awaiting-merge" /\ agenda \in MergesLeft
            /\ Head(agenda) \in {"baseline", "resync", "compare", "ci", "p1", "p2", "ready"}
BY ReviewShape, MergeShape DEF DriftInv, AgendaOK

\* A session that is cut short leaves nothing judged.
LEMMA DriftCut ==
  ASSUME DriftInv, agenda # <<>>, NEW status \in {run, "master-triage"}, Ends(status)
  PROVE  DriftInv'
<1>1. /\ run' = status /\ agenda' = <<>> /\ at' = "next" /\ cut'
      /\ run' \in {"running", "awaiting-merge", "master-triage"}
  BY InSession DEF Ends
<1>2. AgendaOK'
  BY <1>1 DEF AgendaOK, ReviewsLeft, MergesLeft
<1>3. HandedOver' /\ ~Underway'
  BY <1>1 DEF HandedOver, Underway
<1>4. DriftJudged' /\ at' # "push"
  BY <1>1 DEF DriftJudged
<1>. QED  BY <1>2, <1>3, <1>4 DEF DriftInv

LEMMA DriftToMaster ==
  ASSUME DriftInv, agenda # <<>>, NEW phase, ToMaster(phase)
  PROVE  DriftInv'
BY DriftCut DEF ToMaster

LEMMA DriftDeferred ==
  ASSUME DriftInv, agenda # <<>>, Deferred
  PROVE  DriftInv'
BY DriftCut DEF Deferred

\* A step within a gate, or of someone who only adds changes of their own.
LEMMA DriftStays ==
  ASSUME ReviewInv, ReviewInv', DriftInv, run # "merged",
         UNCHANGED <<base, run, agenda, before, history>>,
         origin'.on = origin.on, Resolutions(origin)' \subseteq Resolutions(origin),
         Underway /\ AheadLooks => AheadLooks', at' = "push" => (origin.on <= local.on)'
  PROVE  DriftInv'
<1>1. UNCHANGED <<seen, granted, landed, cut>>
  BY DEF history
<1>2. /\ OriginSeen => OriginSeen'
      /\ OriginJudged => OriginJudged'
      /\ BaselineJudged => BaselineJudged'
  BY <1>1, KeepsJudged
<1>3. AgendaOK' /\ Underway' = Underway
  BY DEF DriftInv, AgendaOK, Underway
<1>4. HandedOver'
  BY <1>1, <1>2, <1>3 DEF DriftInv, HandedOver
<1>5. DriftJudged'
  BY DEF DriftJudged
<1>. QED  BY <1>1, <1>2, <1>3, <1>4, <1>5 DEF DriftInv

LEMMA DriftStill ==
  ASSUME ReviewInv, ReviewInv', DriftInv, run # "merged",
         UNCHANGED <<base, origin, run, agenda, before, history>>,
         Underway /\ AheadLooks => AheadLooks', at' # "push" \/ UNCHANGED <<at, local>>
  PROVE  DriftInv'
<1>1. Resolutions(origin)' \subseteq Resolutions(origin) /\ origin'.on = origin.on
  BY DEF Resolutions
<1>2. at' = "push" => (origin.on <= local.on)'
  BY DEF DriftInv
<1>. QED  BY <1>1, <1>2, DriftStays

-----------------------------------------------------------------------------
(* The sync with the base.                                                 *)
LEMMA DriftEnterSync == ASSUME ReviewInv, ReviewInv', DriftInv, EnterSync PROVE DriftInv'
<1>1. /\ agenda # <<>> /\ Head(agenda) \in {"sync", "resync"} /\ at = "next" /\ at' = "fetch"
      /\ UNCHANGED <<base, origin, run, agenda, before, history>>
  BY DEF EnterSync, At, SyncGates, Stay, refs
<1>2. run # "merged"
  BY <1>1, InSession
<1>3. ~AheadLooks
  BY <1>1 DEF AheadLooks
<1>. QED  BY <1>1, <1>2, <1>3, DriftStill

LEMMA DriftFetchBranch == ASSUME ReviewInv, ReviewInv', DriftInv, FetchBranch PROVE DriftInv'
<1>1. agenda # <<>> /\ Head(agenda) \in {"sync", "resync"} /\ at = "fetch" /\ run # "merged"
  BY InSession DEF FetchBranch, At, SyncGates
<1>2. CASE ToMaster(0)
  BY <1>1, <1>2, DriftToMaster
<1>3. CASE /\ UNCHANGED <<base, origin>> /\ at' = "rebase" /\ Stay /\ UNCHANGED history
           /\ \E blind \in BOOLEAN : sync' = [sync EXCEPT !.blind = blind]
  <2>1. UNCHANGED <<base, origin, run, agenda, before, history>>
    BY <1>3 DEF Stay
  <2>2. sync'.moved = sync.moved
    BY <1>3 DEF ReviewInv, SessionOK, SyncOK, Syncs
  <2>3. AheadLooks => AheadLooks'
    BY <1>1, <1>3, <2>1, <2>2 DEF AheadLooks
  <2>. QED  BY <1>1, <1>3, <2>1, <2>3, DriftStill
<1>. QED  BY <1>2, <1>3 DEF FetchBranch, SyncBranch, refs

\* The sync leaves its gate: what it moved is looked at next.
LEMMA DriftSynced ==
  ASSUME ReviewInv, ReviewInv', DriftInv, At(SyncGates, at), at # "next", at # "verify",
         NEW moved \in BOOLEAN, Synced(moved), UNCHANGED <<base, history>>,
         \/ moved /\ origin.on <= origin'.on
         \/ moved = sync.moved /\ UNCHANGED origin
  PROVE  DriftInv'
<1>1. /\ agenda # <<>> /\ Head(agenda) \in {"sync", "resync"} /\ at' = "next" /\ run' = run
      /\ UNCHANGED <<before, seen, granted, landed, cut>> /\ sync'.moved = moved
      /\ agenda' = (IF moved /\ Head(agenda) = "resync" THEN <<"ci">> ELSE <<>>) \o Tail(agenda)
  BY DEF At, SyncGates, Synced, Pass, history, NoSync
<1>2. CASE run = "running"
  <2>1. agenda \in ReviewsLeft /\ agenda' = Tail(agenda) /\ Head(agenda) = "sync"
    BY <1>1, <1>2, InSession, ReviewShape
  <2>2. AgendaOK' /\ ~Underway' /\ HandedOver'
    BY <1>1, <1>2, <2>1, ReviewShape DEF AgendaOK, Underway, HandedOver
  <2>. QED  BY <1>1, <1>2, <2>2 DEF DriftInv, DriftJudged
<1>3. CASE run = "awaiting-merge"
  <2>1. agenda \in MergesLeft /\ Head(agenda) = "resync" /\ Tail(agenda) = <<"compare", "ready">>
    BY <1>1, <1>3, InSession, MergeShape
  <2>2. /\ moved => agenda' = <<"ci", "compare", "ready">> /\ Head(agenda') = "ci" /\ Len(agenda') = 3
        /\ ~moved => agenda' = <<"compare", "ready">> /\ Head(agenda') = "compare"
        /\ agenda' \in MergesLeft /\ agenda' # <<>>
    <3>1. <<>> \o Tail(agenda) = Tail(agenda)
      BY <1>1, <2>1, MergeShape
    <3>2. /\ <<"ci", "compare", "ready">> \in MergesLeft /\ <<"ci", "compare", "ready">> # <<>>
          /\ Head(<<"ci", "compare", "ready">>) = "ci" /\ Len(<<"ci", "compare", "ready">>) = 3
          /\ <<"compare", "ready">> \in MergesLeft /\ <<"compare", "ready">> # <<>>
          /\ Head(<<"compare", "ready">>) = "compare"
      BY DEF MergesLeft
    <3>3. agenda' = IF moved THEN <<"ci", "compare", "ready">> ELSE <<"compare", "ready">>
      BY <1>1, <2>1, <3>1, OpeningShape
    <3>. QED  BY <3>2, <3>3
  <2>3. Underway /\ Underway' /\ AgendaOK' /\ HandedOver' /\ DriftJudged'
    BY <1>1, <1>3, <2>1, <2>2 DEF Underway, AgendaOK, HandedOver, DriftJudged
  <2>4. moved => AheadLooks'
    BY <1>1, <2>2 DEF AheadLooks
  <2>5. CASE moved /\ origin.on <= origin'.on
    BY <1>1, <2>3, <2>4, <2>5, GrowsKeepsBaseline DEF DriftInv
  <2>6. CASE moved = sync.moved /\ UNCHANGED origin
    <3>1. Resolutions(origin)' \subseteq Resolutions(origin) /\ origin'.on = origin.on
      BY <2>6 DEF Resolutions
    <3>2. (OriginJudged => OriginJudged') /\ (BaselineJudged => BaselineJudged')
      BY <1>1, <3>1, KeepsJudged
    <3>3. ~moved => ~AheadLooks
      BY <1>1, <2>1, <2>6 DEF AheadLooks
    <3>. QED  BY <1>1, <2>3, <2>4, <3>2, <3>3 DEF DriftInv
  <2>. QED  BY <2>5, <2>6
<1>. QED  BY <1>1, <1>2, <1>3, InSession

LEMMA DriftRebase == ASSUME ReviewInv, ReviewInv', DriftInv, Rebase PROVE DriftInv'
<1> DEFINE new == Rebased(local, "daemon")
<1>1. /\ agenda # <<>> /\ Head(agenda) \in {"sync", "resync"} /\ at = "rebase" /\ run # "merged"
      /\ At(SyncGates, at) /\ sync \in Syncs
  BY InSession DEF Rebase, At, SyncGates, ReviewInv, SessionOK, SyncOK
<1>2. CASE ToMaster(0)
  BY <1>1, <1>2, DriftToMaster
<1>3. CASE /\ UNCHANGED refs /\ at' = "resolve" /\ Stay /\ UNCHANGED history
           /\ sync' = [sync EXCEPT !.rounds = @ + 1, !.want = Len(base), !.clone = origin]
  <2>1. UNCHANGED <<base, origin, run, agenda, before, history>>
    BY <1>3 DEF Stay, refs
  <2>2. sync'.moved = sync.moved
    BY <1>1, <1>3 DEF Syncs
  <2>3. AheadLooks => AheadLooks'
    BY <1>1, <1>3, <2>1, <2>2 DEF AheadLooks
  <2>. QED  BY <1>1, <1>3, <2>1, <2>3, DriftStill
<1>4. CASE UNCHANGED <<base, origin>> /\ Synced(sync.moved) /\ UNCHANGED <<span, history>>
  BY <1>1, <1>4, DriftSynced DEF Syncs
<1>5. CASE /\ local' = new /\ new # local /\ UNCHANGED <<base, origin>>
           /\ at' = "push" /\ Stay /\ UNCHANGED <<sync, span, history>>
  <2>1. UNCHANGED <<base, origin, run, agenda, before, history>>
    BY <1>5 DEF Stay
  <2>2. AheadLooks => AheadLooks'
    BY <1>1, <1>5, <2>1 DEF AheadLooks
  <2>3. Resolutions(origin)' \subseteq Resolutions(origin) /\ origin'.on = origin.on
    BY <2>1 DEF Resolutions
  <2>4. (origin.on <= local.on)'
    BY <1>5, HistoryIs DEF Rebased
  <2>. QED  BY <1>1, <2>1, <2>2, <2>3, <2>4, DriftStays
<1>6. CASE Conflicts(local)
  BY <1>2, <1>3, <1>6 DEF Rebase
<1>7. CASE ~Conflicts(local)
  BY <1>2, <1>4, <1>5, <1>7 DEF Rebase, Throws
<1>. QED  BY <1>6, <1>7

LEMMA DriftPush == ASSUME ReviewInv, ReviewInv', DriftInv, Push \/ SyncThrows PROVE DriftInv'
<1>1. agenda # <<>>
  BY DEF Push, SyncThrows, At
<1>2. CASE ToMaster(0)
  BY <1>1, <1>2, DriftToMaster
<1>3. CASE At(SyncGates, "push") /\ ForcePush /\ Synced(TRUE) /\ UNCHANGED <<span, history>>
  <2>1. at = "push" /\ origin' = local /\ UNCHANGED base /\ origin.on <= local.on
    BY <1>3 DEF At, ForcePush, DriftInv
  <2>. QED  BY <1>3, <2>1, DriftSynced
<1>. QED  BY <1>2, <1>3 DEF Push, SyncThrows, Throws

LEMMA DriftNoResult ==
  ASSUME ReviewInv, ReviewInv', DriftInv, agenda # <<>>, NEW phase, NoResult(phase), at # "push"
  PROVE  DriftInv'
<1>1. CASE ToMaster(phase)
  BY <1>1, DriftToMaster
<1>2. CASE /\ UNCHANGED refs /\ Stay /\ UNCHANGED <<at, history>>
           /\ sync' = [sync EXCEPT !.clone = origin]
  <2>1. UNCHANGED <<base, origin, run, agenda, before, history, at>> /\ run # "merged"
    BY <1>2, InSession DEF Stay, refs
  <2>2. sync'.moved = sync.moved
    BY <1>2 DEF ReviewInv, SessionOK, SyncOK, Syncs
  <2>3. AheadLooks => AheadLooks'
    BY <2>1, <2>2 DEF AheadLooks
  <2>. QED  BY <2>1, <2>3, DriftStill
<1>. QED  BY <1>1, <1>2 DEF NoResult

LEMMA DriftResolve == ASSUME ReviewInv, ReviewInv', DriftInv, Resolve PROVE DriftInv'
<1>1. agenda # <<>> /\ Head(agenda) \in {"sync", "resync"} /\ at = "resolve" /\ run # "merged"
  BY InSession DEF Resolve, At, SyncGates
<1>2. CASE /\ \E theirs \in BOOLEAN : origin' = Resolution(sync.clone, theirs)
           /\ UNCHANGED base /\ at' = "verify" /\ Stay /\ UNCHANGED history
  <2>1. UNCHANGED <<base, run, agenda, before, seen, granted, landed, cut>>
    BY <1>2 DEF Stay, history
  <2>2. origin.on <= origin'.on
    BY <1>2, HistoryIs DEF Resolution
  <2>3. AgendaOK' /\ DriftJudged' /\ Underway' = Underway
    BY <1>1, <2>1 DEF DriftInv, AgendaOK, DriftJudged, Underway
  <2>4. HandedOver'
    BY <1>1, <2>1, InSession DEF DriftInv, HandedOver, Underway
  <2>5. Underway' => AheadLooks'
    BY <1>1, <1>2, <2>1, InSession DEF Underway, AheadLooks
  <2>6. BaselineJudged => BaselineJudged'
    BY <2>1, <2>2, GrowsKeepsBaseline
  <2>. QED  BY <1>2, <2>1, <2>3, <2>4, <2>5, <2>6 DEF DriftInv
<1>3. CASE at' = "verify" /\ Stay /\ UNCHANGED <<refs, sync, span, history>>
  <2>1. UNCHANGED <<base, origin, run, agenda, before, history, sync>>
    BY <1>3 DEF Stay, refs
  <2>2. AheadLooks => AheadLooks'
    BY <1>1, <1>3, <2>1 DEF AheadLooks
  <2>. QED  BY <1>1, <1>3, <2>1, <2>2, DriftStill
<1>4. CASE ToMaster(0)
  BY <1>1, <1>4, DriftToMaster
<1>5. CASE NoResult(0)
  BY <1>1, <1>5, DriftNoResult
<1>6. CASE Deferred
  BY <1>1, <1>6, DriftDeferred
<1>. QED  BY <1>2, <1>3, <1>4, <1>5, <1>6 DEF Resolve

LEMMA DriftVerify == ASSUME ReviewInv, ReviewInv', DriftInv, Verify PROVE DriftInv'
<1>1. agenda # <<>> /\ Head(agenda) \in {"sync", "resync"} /\ at = "verify" /\ run # "merged"
  BY InSession DEF Verify, At, SyncGates
<1>2. CASE /\ Adopt /\ at' = "fetch" /\ Stay /\ UNCHANGED history
           /\ sync' = [sync EXCEPT !.moved = TRUE, !.want = 0, !.clone = None]
  <2>1. UNCHANGED <<base, origin, run, agenda, before, history>>
    BY <1>2 DEF Stay, Adopt
  <2>2. sync'.moved
    BY <1>2 DEF ReviewInv, SessionOK, SyncOK, Syncs
  <2>3. AheadLooks => AheadLooks'
    BY <1>1, <1>2, <2>1, <2>2 DEF AheadLooks
  <2>. QED  BY <1>1, <1>2, <2>1, <2>3, DriftStill
<1>3. CASE ToMaster(0)
  BY <1>1, <1>3, DriftToMaster
<1>. QED  BY <1>2, <1>3 DEF Verify

-----------------------------------------------------------------------------
(* The reviews and the integration around them.                            *)
LEMMA DriftEnterLoop == ASSUME ReviewInv, ReviewInv', DriftInv, EnterLoop PROVE DriftInv'
<1>1. /\ agenda # <<>> /\ Head(agenda) \in {"ci", "p1", "p2"} /\ at' = "assess" /\ run # "merged"
      /\ UNCHANGED <<base, origin, run, agenda, before, history, sync>>
  BY InSession DEF EnterLoop, At, LoopGates, Stay, refs
<1>2. AheadLooks => AheadLooks'
  BY <1>1 DEF AheadLooks
<1>. QED  BY <1>1, <1>2, DriftStill

\* A gate of the fix loop is passed: by CI, by the first reviewer or by the second.
LEMMA DriftPass ==
  ASSUME ReviewInv, ReviewInv', DriftInv, At(LoopGates, "assess"), Pass(<<>>), UNCHANGED <<refs, sync>>,
         Vouch(Head(agenda)) \/ (Head(agenda) = "ci" /\ UNCHANGED history)
  PROVE  DriftInv'
<1> DEFINE gate == Head(agenda)
<1>1. /\ agenda # <<>> /\ gate \in {"ci", "p1", "p2"} /\ at' = "next" /\ run' = run
      /\ UNCHANGED <<base, origin, before, sync, granted, landed>> /\ agenda' = <<>> \o Tail(agenda)
  BY DEF At, LoopGates, Pass, refs, Vouch, history
<1>2. gate # "p2" => UNCHANGED <<seen, cut>>
  BY DEF Vouch, history
<1>3. gate = "p2" => \E v \in {seen, NoVerdict} :
                       /\ seen' = And(Verdict(origin), v)
                       /\ run = "awaiting-merge" => v = seen
  BY <1>1 DEF Vouch, Integrating
<1>4. /\ gate = "p2" => OriginSeen' /\ OriginJudged'
      /\ gate = "p2" /\ run = "awaiting-merge" /\ BaselineJudged => BaselineJudged'
  BY <1>1, <1>3, VouchJudges
<1>5. /\ gate # "p2" /\ OriginJudged => OriginJudged'
      /\ gate # "p2" /\ BaselineJudged => BaselineJudged'
  <2>1. Resolutions(origin)' \subseteq Resolutions(origin) /\ origin'.on = origin.on
    BY <1>1 DEF Resolutions
  <2>. QED  BY <1>1, <1>2, <2>1, KeepsJudged
<1>6. CASE run = "running"
  <2>1. agenda \in ReviewsLeft /\ agenda' = Tail(agenda) /\ agenda' \in ReviewsLeft
    BY <1>1, <1>6, InSession, ReviewShape
  <2>2. agenda' # <<>> /\ Head(agenda') = "park-merge" => OriginSeen'
    BY <1>1, <1>4, <2>1, ReviewShape
  <2>3. AgendaOK' /\ ~Underway' /\ HandedOver'
    BY <1>1, <1>6, <2>1, <2>2 DEF AgendaOK, Underway, HandedOver
  <2>. QED  BY <1>1, <1>6, <2>3 DEF DriftInv, DriftJudged
<1>7. CASE run = "awaiting-merge"
  <2>1. agenda \in MergesLeft /\ agenda' = Tail(agenda) /\ agenda' \in MergesLeft
    BY <1>1, <1>7, InSession, MergeShape
  <2>2. /\ gate = "p1" => agenda' = <<"p2", "ci", "ready">>
        /\ gate = "p2" => agenda' = <<"ci", "ready">>
        /\ gate = "ci" => agenda' = IF Len(agenda) = 3 THEN <<"compare", "ready">> ELSE <<"ready">>
    BY <1>1, <2>1, MergeShape
  <2>3. agenda' # <<>> /\ Head(agenda') \in {"p2", "ci", "compare", "ready"}
        /\ (gate = "p1" => Head(agenda') = "p2")
        /\ (gate = "ci" /\ Len(agenda) = 3 => Head(agenda') = "compare")
    <3>1. /\ <<"p2", "ci", "ready">> # <<>> /\ Head(<<"p2", "ci", "ready">>) = "p2"
          /\ <<"ci", "ready">> # <<>> /\ Head(<<"ci", "ready">>) = "ci"
          /\ <<"compare", "ready">> # <<>> /\ Head(<<"compare", "ready">>) = "compare"
          /\ <<"ready">> # <<>> /\ Head(<<"ready">>) = "ready"
      OBVIOUS
    <3>. QED  BY <1>1, <2>2, <3>1
  <2>4. Underway /\ Underway' /\ AgendaOK' /\ HandedOver' /\ DriftJudged'
    BY <1>1, <1>7, <2>1, <2>3 DEF Underway, AgendaOK, HandedOver, DriftJudged
  <2>5. OriginJudged' \/ AheadLooks'
    <3>1. CASE gate = "p1"
      BY <2>3, <3>1 DEF AheadLooks
    <3>2. CASE gate = "p2"
      BY <1>4, <3>2
    <3>3. CASE gate = "ci" /\ OriginJudged
      BY <1>5, <3>3
    <3>4. CASE gate = "ci" /\ AheadLooks
      BY <1>1, <2>3, <3>4 DEF AheadLooks
    <3>. QED  BY <1>1, <2>4, <3>1, <3>2, <3>3, <3>4 DEF DriftInv
  <2>6. BaselineJudged => BaselineJudged'
    BY <1>4, <1>5, <1>7
  <2>. QED  BY <1>1, <2>4, <2>5, <2>6 DEF DriftInv
<1>. QED  BY <1>1, <1>6, <1>7, InSession

LEMMA DriftAssess == ASSUME ReviewInv, ReviewInv', DriftInv, Assess PROVE DriftInv'
<1> DEFINE gate == Head(agenda)
<1>1. agenda # <<>> /\ gate \in {"ci", "p1", "p2"} /\ at = "assess" /\ At(LoopGates, "assess") /\ run # "merged"
  BY InSession DEF Assess, At, LoopGates
<1>2. CASE ToMaster(PhaseOf(gate))
  BY <1>1, <1>2, DriftToMaster
<1>3. CASE NoResult(PhaseOf(gate))
  BY <1>1, <1>3, DriftNoResult
<1>4. CASE Deferred
  BY <1>1, <1>4, DriftDeferred
<1>5. CASE Pass(<<>>) /\ Vouch(gate) /\ UNCHANGED <<refs, sync>>
  BY <1>1, <1>5, DriftPass
<1>6. CASE Pass(<<>>) /\ gate = "ci" /\ UNCHANGED <<refs, sync>> /\ UNCHANGED history
  BY <1>1, <1>6, DriftPass
<1>7. CASE at' = "fix" /\ Stay /\ UNCHANGED <<refs, sync, history>>
  <2>1. UNCHANGED <<base, origin, run, agenda, before, history, sync>>
    BY <1>7 DEF Stay, refs
  <2>2. AheadLooks => AheadLooks'
    BY <1>1, <1>7, <2>1 DEF AheadLooks
  <2>. QED  BY <1>1, <1>7, <2>1, <2>2, DriftStill
<1>. QED  BY <1>2, <1>3, <1>4, <1>5, <1>6, <1>7 DEF Assess

\* A change that is no resolution.
LEMMA PlainAdds ==
  ASSUME ReviewInv, NEW kind \in {"fix", "ext"},
         \/ origin' = [origin EXCEPT !.work = Append(@, Change(kind))]
         \/ origin' = [origin EXCEPT !.work = <<Change(kind)>>, !.by = "person"]
  PROVE  origin'.on = origin.on /\ Resolutions(origin)' \subseteq Resolutions(origin)
<1> DEFINE w == origin.work
           x == Change(kind)
<1>1. w \in Seq(Changes) /\ x.kind # "res" /\ origin \in Commit
  BY Plain DEF ReviewInv, RefsOK, OnBase, Commit
<1>2. Range(Append(w, x)) \subseteq Range(w) \cup {x} /\ Range(<<x>>) \subseteq {x}
  BY <1>1 DEF Range
<1>3. origin'.on = origin.on /\ origin'.work \in {Append(w, x), <<x>>}
  BY <1>1 DEF Commit
<1>4. ASSUME NEW ch \in Range(origin'.work), ch.kind = "res" PROVE ch \in Range(w)
  <2>1. ch \in Range(w) \cup {x}
    BY <1>2, <1>3
  <2>. QED  BY <1>1, <1>4, <2>1
<1>. QED  BY <1>3, <1>4 DEF Resolutions

LEMMA DriftFix == ASSUME ReviewInv, ReviewInv', DriftInv, Fix PROVE DriftInv'
<1> DEFINE phase == PhaseOf(Head(agenda))
<1>1. agenda # <<>> /\ Head(agenda) \in {"ci", "p1", "p2"} /\ at = "fix" /\ run # "merged"
  BY InSession DEF Fix, At, LoopGates
<1>2. CASE ToMaster(phase)
  BY <1>1, <1>2, DriftToMaster
<1>3. CASE Deferred
  BY <1>1, <1>3, DriftDeferred
<1>4. CASE /\ \/ UNCHANGED origin
              \/ origin' = [origin EXCEPT !.work = Append(@, Change("fix"))]
           /\ UNCHANGED base /\ at' = "assess" /\ Stay /\ UNCHANGED <<sync, history>>
  <2>1. UNCHANGED <<base, run, agenda, before, history, sync>>
    BY <1>4 DEF Stay
  <2>2. AheadLooks => AheadLooks'
    BY <1>1, <1>4, <2>1 DEF AheadLooks
  <2>3. origin'.on = origin.on /\ Resolutions(origin)' \subseteq Resolutions(origin)
    BY <1>4, PlainAdds DEF Resolutions
  <2>. QED  BY <1>1, <1>4, <2>1, <2>2, <2>3, DriftStays
<1>5. CASE at' = "assess" /\ Stay /\ UNCHANGED <<refs, sync, history>>
  BY <1>4, <1>5 DEF refs
<1>. QED  BY <1>2, <1>3, <1>4, <1>5 DEF Fix

LEMMA DriftPark == ASSUME ReviewInv, DriftInv, ParkForCi \/ ParkForMerge PROVE DriftInv'
<1>1. agenda # <<>> /\ agenda' = <<>> /\ at' = "next" /\ UNCHANGED <<base, origin, seen>>
  BY DEF ParkForCi, ParkForMerge, At, Ends, refs
<1>2. /\ run' \in {"awaiting-ci", "awaiting-merge"}
      /\ run' = "awaiting-merge" => Head(agenda) = "park-merge"
  BY DEF ParkForCi, ParkForMerge, At, Ends
<1>3. run' = "awaiting-merge" => OriginSeen'
  <2>1. run' = "awaiting-merge" => OriginSeen
    BY <1>1, <1>2, InSession DEF DriftInv, HandedOver
  <2>. QED  BY <1>1, <2>1 DEF OriginSeen, Judged, Resolutions
<1>4. AgendaOK' /\ ~Underway' /\ HandedOver' /\ DriftJudged'
  BY <1>1, <1>2, <1>3 DEF AgendaOK, MergesLeft, Underway, HandedOver, DriftJudged
<1>. QED  BY <1>1, <1>4 DEF DriftInv

LEMMA DriftBaseline == ASSUME ReviewInv, DriftInv, Baseline PROVE DriftInv'
<1>1. /\ agenda # <<>> /\ Head(agenda) = "baseline" /\ at' = "next" /\ run' = run
      /\ agenda' = Tail(agenda) /\ UNCHANGED <<base, origin, seen, cut>>
      /\ granted' = IF cut THEN Verdict(origin) ELSE NoVerdict
      /\ before' \in {DiffHash(origin), NoHash}
  BY DEF Baseline, At
<1>2. run = "awaiting-merge" /\ agenda \in MergesLeft /\ agenda' = <<"resync", "compare", "ready">>
  BY <1>1, InSession, MergeShape
<1>3. agenda' \in MergesLeft /\ agenda' # <<>> /\ Head(agenda') = "resync"
  BY <1>2, OpeningShape DEF Round
<1>4. Underway' /\ AgendaOK' /\ HandedOver' /\ DriftJudged'
  BY <1>1, <1>2, <1>3 DEF Underway, AgendaOK, HandedOver, DriftJudged
<1>5. cut \/ OriginSeen
  BY <1>1, <1>2 DEF DriftInv, HandedOver, Underway
<1>6. OriginJudged' /\ (before' # NoHash => BaselineJudged')
  BY <1>1, <1>5, BaselineBegins
<1>. QED  BY <1>1, <1>4, <1>6 DEF DriftInv

\* What has the baseline's diff is judged already; all else is reviewed again.
LEMMA DriftCompare == ASSUME ReviewInv, ReviewInv', DriftInv, Compare PROVE DriftInv'
<1>1. /\ agenda # <<>> /\ Head(agenda) = "compare" /\ at' = "next" /\ run' = run
      /\ UNCHANGED <<base, origin, before, sync, seen, granted, cut, landed>>
  BY DEF Compare, At, Pass, history
<1>2. run = "awaiting-merge" /\ agenda \in MergesLeft /\ Tail(agenda) = <<"ready">>
  BY <1>1, InSession, MergeShape
<1>3. /\ OriginJudged => OriginJudged'
      /\ BaselineJudged => BaselineJudged'
  <2>1. Resolutions(origin)' \subseteq Resolutions(origin) /\ origin'.on = origin.on
    BY <1>1 DEF Resolutions
  <2>. QED  BY <1>1, <2>1, KeepsJudged
<1>4. Underway
  BY <1>1, <1>2 DEF Underway
<1>5. CASE agenda' = <<"ready">> /\ OriginJudged
  <2>1. agenda' \in MergesLeft /\ agenda' # <<>> /\ Head(agenda') = "ready"
    BY <1>5 DEF MergesLeft
  <2>2. Underway' /\ AgendaOK' /\ HandedOver' /\ DriftJudged'
    BY <1>1, <1>2, <2>1 DEF Underway, AgendaOK, HandedOver, DriftJudged
  <2>. QED  BY <1>1, <1>3, <1>4, <1>5, <2>2 DEF DriftInv
<1>6. CASE agenda' = <<"p1", "p2", "ci", "ready">>
  <2>1. agenda' \in MergesLeft /\ agenda' # <<>> /\ Head(agenda') = "p1"
    BY <1>6 DEF MergesLeft
  <2>2. Underway' /\ AgendaOK' /\ HandedOver' /\ DriftJudged' /\ AheadLooks'
    BY <1>1, <1>2, <2>1 DEF Underway, AgendaOK, HandedOver, DriftJudged, AheadLooks
  <2>. QED  BY <1>1, <1>3, <1>4, <2>2 DEF DriftInv
<1>7. CASE ~sync.moved /\ Pass(<<>>)
  <2>1. agenda' = <<"ready">>
    BY <1>1, <1>2, <1>7, MergeShape DEF Pass
  <2>2. ~AheadLooks
    BY <1>1, <1>7 DEF AheadLooks
  <2>. QED  BY <1>4, <1>5, <2>1, <2>2 DEF DriftInv
<1>8. ASSUME NEW after \in {DiffHash(origin), NoHash}, Pass(IF NetDiffChanged(after) THEN ReReview ELSE <<>>)
      PROVE  DriftInv'
  <2>1. CASE NetDiffChanged(after)
    BY <1>2, <1>6, <1>8, <2>1, OpeningShape DEF Pass
  <2>2. CASE ~NetDiffChanged(after)
    <3>1. agenda' = <<"ready">>
      BY <1>1, <1>2, <1>8, <2>2, MergeShape DEF Pass
    <3>2. before = DiffHash(origin) /\ before # NoHash
      BY <1>8, <2>2 DEF NetDiffChanged
    <3>3. OriginJudged
      BY <1>4, <3>2, SameDiffJudged DEF DriftInv
    <3>. QED  BY <1>5, <3>1, <3>3
  <2>. QED  BY <2>1, <2>2
<1>. QED  BY <1>7, <1>8 DEF Compare

LEMMA DriftReady == ASSUME ReviewInv, ReviewInv', DriftInv, Ready PROVE DriftInv'
<1>1. agenda # <<>> /\ Head(agenda) = "ready" /\ at = "next"
  BY DEF Ready, At
<1>2. run = "awaiting-merge" /\ ~AheadLooks /\ Underway
  BY <1>1, InSession DEF AheadLooks, Underway
<1>3. CASE at' = "merge" /\ Stay /\ UNCHANGED <<refs, sync, span, history>>
  <2>1. UNCHANGED <<base, origin, run, agenda, before, history, sync>>
    BY <1>3 DEF Stay, refs
  <2>. QED  BY <1>2, <1>3, <2>1, DriftStill
<1>4. CASE agenda' = Round /\ at' = "next" /\ UNCHANGED <<refs, run, before, sync, history>>
  <2>1. UNCHANGED <<base, origin, run, before, seen, granted, cut, landed>>
    BY <1>4 DEF refs, history
  <2>2. /\ OriginJudged => OriginJudged'
        /\ BaselineJudged => BaselineJudged'
    <3>1. Resolutions(origin)' \subseteq Resolutions(origin) /\ origin'.on = origin.on
      BY <2>1 DEF Resolutions
    <3>. QED  BY <2>1, <3>1, KeepsJudged
  <2>3. Underway' /\ AgendaOK' /\ HandedOver' /\ DriftJudged'
    BY <1>2, <1>4, <2>1, OpeningShape DEF Underway, AgendaOK, HandedOver, DriftJudged
  <2>. QED  BY <1>2, <1>4, <2>1, <2>2, <2>3 DEF DriftInv
<1>5. CASE ToMaster(0)
  BY <1>1, <1>5, DriftToMaster
<1>6. CASE Deferred
  BY <1>1, <1>6, DriftDeferred
<1>. QED  BY <1>3, <1>4, <1>5, <1>6 DEF Ready

LEMMA DriftMerge == ASSUME ReviewInv, DriftInv, Merge PROVE DriftInv'
<1>1. agenda # <<>> /\ Head(agenda) = "ready"
  BY DEF Merge, At
<1>2. CASE Ends("merged") /\ landed' = origin /\ UNCHANGED refs
  <2>1. OriginJudged
    BY <1>1, InSession DEF DriftInv, Underway, AheadLooks
  <2>2. run' = "merged" /\ agenda' = <<>> /\ at' = "next" /\ UNCHANGED <<base, origin, seen, granted>>
    BY <1>2 DEF Ends, refs
  <2>3. DriftJudged'
    BY <1>2, <2>1, <2>2 DEF OriginJudged, Verdicts, DriftJudged, Judged, Resolutions
  <2>. QED  BY <2>2, <2>3 DEF DriftInv, AgendaOK, HandedOver, Underway
<1>3. CASE Throws
  BY <1>1, <1>3, DriftToMaster DEF Throws
<1>. QED  BY <1>2, <1>3 DEF Merge

-----------------------------------------------------------------------------
(* What opens a session, and the world around it.                          *)
LEMMA DriftOpens ==
  ASSUME ReviewInv, DriftInv,
         CiConcludes \/ LeaseMerge \/ MasterReturns \/ Recover
  PROVE  DriftInv'
<1>1. /\ agenda = <<>> /\ at' = "next" /\ before' = NoHash
      /\ UNCHANGED <<base, origin, seen, granted, landed, cut>>
  BY DEF CiConcludes, LeaseMerge, MasterReturns, Recover, Opens, Attach, history
<1>2. OriginSeen => OriginSeen'
  BY <1>1 DEF OriginSeen, Judged, Resolutions
<1>3. CASE run' = "running" /\ agenda' \in ReviewsLeft /\ agenda' # <<>> /\ Head(agenda') # "park-merge"
  <2>1. AgendaOK' /\ ~Underway' /\ HandedOver' /\ DriftJudged'
    BY <1>3 DEF AgendaOK, Underway, HandedOver, DriftJudged
  <2>. QED  BY <1>1, <2>1 DEF DriftInv
<1>4. CASE run' = "awaiting-merge" /\ agenda' = Integration /\ run \in {"awaiting-merge", "master-triage"}
  <2>1. cut \/ OriginSeen
    BY <1>1, <1>4 DEF DriftInv, HandedOver, Underway
  <2>2. AgendaOK' /\ ~Underway' /\ HandedOver' /\ DriftJudged'
    BY <1>1, <1>2, <1>4, <2>1, OpeningShape DEF AgendaOK, Underway, HandedOver, DriftJudged
  <2>. QED  BY <1>1, <2>2 DEF DriftInv
<1>5. resume \in Phases
  BY DEF ReviewInv, SessionOK
<1>. QED
  BY <1>3, <1>4, <1>5, OpeningShape DEF CiConcludes, LeaseMerge, MasterReturns, Recover, Opens

LEMMA DriftLate == ASSUME ReviewInv, ReviewInv', DriftInv, Late PROVE DriftInv'
<1>1. UNCHANGED <<base, origin, run, agenda, before, history, at, local, sync>> /\ run # "merged"
  BY DEF Late, refs, Integrating
<1>2. AheadLooks => AheadLooks'
  BY <1>1 DEF AheadLooks
<1>. QED  BY <1>1, <1>2, DriftStill

LEMMA DriftWorld ==
  ASSUME ReviewInv, ReviewInv', DriftInv, HostedFixPushed \/ PersonPushes \/ PersonRewrites
  PROVE  DriftInv'
<1>1. UNCHANGED <<base, local, run, agenda, before, history, at, sync>> /\ run # "merged"
  BY InSession DEF HostedFixPushed, PersonPushes, PersonRewrites, session, At
<1>2. origin'.on = origin.on /\ Resolutions(origin)' \subseteq Resolutions(origin)
  BY PlainAdds DEF HostedFixPushed, PersonPushes, PersonRewrites
<1>3. AheadLooks => AheadLooks'
  BY <1>1 DEF AheadLooks
<1>4. at' = "push" => (origin.on <= local.on)'
  BY <1>1, <1>2 DEF DriftInv
<1>. QED  BY <1>1, <1>2, <1>3, <1>4, DriftStays

LEMMA DriftSibling ==
  ASSUME ReviewInv, DriftInv, NEW kind \in Siblings, SiblingMerges(kind)
  PROVE  DriftInv'
<1>1. /\ base' = Append(base, kind) /\ kind \in Merges /\ run # "merged"
      /\ UNCHANGED <<origin, local, run, agenda, at, sync, before, seen, granted, landed, cut>>
  BY SiblingAssumption DEF SiblingMerges, session, history
<1>2. /\ OriginSeen => OriginSeen'
      /\ OriginJudged => OriginJudged'
      /\ BaselineJudged => BaselineJudged'
  BY <1>1, BaseKeepsJudged
<1>3. /\ AgendaOK' /\ Underway' = Underway /\ DriftJudged' /\ (AheadLooks => AheadLooks')
      /\ (at' = "push" => (origin.on <= local.on)')
  BY <1>1 DEF DriftInv, AgendaOK, Underway, DriftJudged, AheadLooks
<1>4. HandedOver'
  BY <1>1, <1>2, <1>3 DEF DriftInv, HandedOver
<1>. QED  BY <1>1, <1>2, <1>3, <1>4 DEF DriftInv

LEMMA DriftStep ==
  ASSUME ReviewInv, ReviewInv', DriftInv, [Next]_vars
  PROVE  DriftInv'
<1>1. CASE Drive
  BY <1>1, DriftEnterSync, DriftFetchBranch, DriftRebase, DriftPush, DriftResolve, DriftVerify,
     DriftEnterLoop, DriftAssess, DriftFix, DriftPark, DriftBaseline, DriftCompare, DriftReady,
     DriftMerge DEF Drive
<1>2. CASE Crash
  BY <1>2, DriftCut DEF Crash
<1>3. CASE UNCHANGED vars
  BY <1>3 DEF vars, refs, session, history, DriftInv, AgendaOK, Underway, HandedOver, AheadLooks,
     OriginSeen, OriginJudged, BaselineJudged, Verdicts, And, Judged, Resolutions, DiffHash, DriftJudged
<1>. QED
  BY <1>1, <1>2, <1>3, DriftLate, DriftOpens, DriftWorld, DriftSibling DEF Next

LEMMA DriftInit == Init => DriftInv
BY OpeningShape DEF Init, DriftInv, AgendaOK, Underway, HandedOver, DriftJudged

(***************************************************************************)
(* Whatever is merged, its conflict resolutions and the merges of the base *)
(* that touch its files were before the second reviewer, in the last       *)
(* review or in a re-review of the integration, or were there when an      *)
(* integration began after a session that was cut short (review-loop.ts    *)
(* runIntegration, netDiffChanged).                                        *)
(***************************************************************************)
THEOREM DriftIsJudged == Spec => []DriftJudged
<1>1. DriftInv => DriftJudged
  BY DEF DriftInv
<1>2. ReviewInv /\ ReviewInv' /\ DriftInv /\ [Next]_vars => DriftInv'
  BY DriftStep
<1>. QED  BY <1>1, <1>2, DriftInit, ReviewHolds, PTL DEF Spec

=============================================================================
