--------------------------- MODULE ReconcilerProofs ---------------------------
(***************************************************************************)
(* What holds of the reconciler for every set of issues, every number of   *)
(* repos, every cap and every bound on failures.                           *)
(***************************************************************************)
EXTENDS ReconcilerProperties, FiniteSetTheorems, TLAPS

SessionsOK == sess \in [Lane -> [Issues -> Session]]

(* A fact projects a status, or leaves the one there was.                  *)
LEMMA StatusAfterType ==
  ASSUME NEW s \in Status, NEW fact
  PROVE  StatusAfter(s, fact) \in Status
BY DEF StatusAfter, Projects, Status, RunStatus

(* Appending a fact keeps the projection of every stream a status.         *)
LEMMA RecordType ==
  ASSUME NEW i \in Issues, NEW fact, Record(i, fact),
         status \in [Issues -> Status], asking \in [Issues -> BOOLEAN]
  PROVE  status' \in [Issues -> Status] /\ asking' \in [Issues -> BOOLEAN]
BY StatusAfterType DEF Record, AskingAfter

(* Starting a session keeps the sessions well formed.                      *)
LEMMA StartType ==
  ASSUME NEW l \in Lane, NEW i \in Issues, NEW stage \in Stage, NEW w \in Work,
         SessionsOK, status \in [Issues -> Status], Start(l, i, stage, w)
  PROVE  SessionsOK'
BY DEF SessionsOK, Start, Session, Status

(* So does moving one on to its next await,                                *)
LEMMA GoToType ==
  ASSUME NEW l \in Lane, NEW i \in Issues, NEW stage \in Stage, SessionsOK, GoTo(l, i, stage)
  PROVE  SessionsOK'
<1>1. sess[l][i] \in Session
  BY DEF SessionsOK
<1>2. [sess[l][i] EXCEPT !.at = stage] \in Session
  BY <1>1 DEF Session
<1>. QED
  BY <1>2 DEF SessionsOK, GoTo

(* so does giving it other work to drive,                                  *)
LEMMA TurnType ==
  ASSUME NEW l \in Lane, NEW i \in Issues, NEW stage \in Stage, NEW w \in Work,
         SessionsOK, Turn(l, i, stage, w)
  PROVE  SessionsOK'
BY DEF SessionsOK, Turn, Session

(* so does ending it with its teardown to do,                              *)
LEMMA LeaveType ==
  ASSUME NEW l \in Lane, NEW i \in Issues, SessionsOK, Leave(l, i)
  PROVE  SessionsOK'
BY DEF SessionsOK, Leave, Session, Stage, Work, Status

(* and so does freeing its slot, with the master lease if it held it.      *)
LEMMA SettleType ==
  ASSUME NEW l \in Lane, NEW i \in Issues, SessionsOK,
         lease \in Issues \cup {NoIssue}, Settle(l, i)
  PROVE  SessionsOK' /\ lease' \in Issues \cup {NoIssue}
BY DEF SessionsOK, Settle, Session, Idle, Stage, Work, Status

-----------------------------------------------------------------------------
(* Type correctness, one step per action.                                  *)

(* Every step of a session keeps the types.                                *)
LEMMA SessionTypes ==
  ASSUME TypeOK, NEW l \in Lane, NEW i \in Issues,
         \/ Progress(l, i) \/ SessionFault(l, i)
         \/ BuildProgress(i) \/ MergeProgress(i) \/ BuildFault(i)
  PROVE  TypeOK'
<1> USE DEF runs, stream, github, tickVars, TypeOK, SessionsOK, Lane, PrState, Calm,
            Surprise, BoundAssumption, Reviewing, Implementing
<1>1. CASE Enter(l, i)
  <2>1. SessionsOK'
    BY <1>1, GoToType, TurnType DEF Enter, Stage, Work
  <2>2. status' \in [Issues -> Status] /\ asking' \in [Issues -> BOOLEAN]
    BY <1>1, RecordType DEF Enter
  <2>. QED  BY <1>1, <2>1, <2>2 DEF Enter
<1>2. CASE ReviewEscalates(l, i)
  BY <1>2, RecordType, LeaveType DEF ReviewEscalates
<1>3. CASE Land(l, i)
  BY <1>3, GoToType DEF Land, Stage
<1>4. CASE RecordMerged(l, i)
  BY <1>4, RecordType, LeaveType DEF RecordMerged
<1>5. CASE FailureEscalates(l, i)
  BY <1>5, RecordType, LeaveType DEF FailureEscalates
<1>6. CASE FailureClosesOut(l, i)
  BY <1>6, RecordType, LeaveType DEF FailureClosesOut
<1>7. CASE Teardown(l, i)
  BY <1>7, SettleType DEF Teardown
<1>8. CASE AttachFails(l, i)
  BY <1>8, SettleType DEF AttachFails
<1>9. CASE IntegrateDefers(l, i)
  BY <1>9, LeaveType DEF IntegrateDefers
<1>10. CASE Throws(l, i)
  BY <1>10, GoToType DEF Throws, Stage
<1>11. CASE Interrupted(l, i)
  BY <1>11, LeaveType DEF Interrupted
<1>12. CASE FailureDefers(l, i)
  BY <1>12, LeaveType DEF FailureDefers
<1>13. CASE ImplFinishes(i)
  <2>1. SessionsOK'
    BY <1>13, LeaveType, StartType DEF ImplFinishes, Stage, Work
  <2>2. status' \in [Issues -> Status] /\ asking' \in [Issues -> BOOLEAN]
    BY <1>13, RecordType DEF ImplFinishes
  <2>3. pr' \in [Issues -> PrState]
    BY <1>13 DEF ImplFinishes
  <2>. QED  BY <1>13, <2>1, <2>2, <2>3 DEF ImplFinishes
<1>14. CASE ImplHandsUp(i)
  BY <1>14, RecordType, LeaveType DEF ImplHandsUp
<1>15. CASE ReviewHandsOff(i)
  BY <1>15, RecordType, LeaveType DEF ReviewHandsOff
<1>16. CASE MasterStarts(i)
  BY <1>16, RecordType, GoToType DEF MasterStarts, Stage
<1>17. CASE MasterContinues(i)
  BY <1>17, RecordType, TurnType DEF MasterContinues, Stage, Work
<1>18. CASE MasterRetries(i)
  <2>1. SessionsOK' /\ lease' \in Issues \cup {NoIssue}
    <3>1. CASE \E w \in {"review", "integrate"} : Start("build", i, "attach", w) /\ UNCHANGED lease
      BY <3>1, StartType DEF Stage, Work
    <3>2. CASE Settle("build", i)
      BY <3>2, SettleType
    <3>. QED  BY <1>18, <3>1, <3>2 DEF MasterRetries
  <2>2. status' \in [Issues -> Status] /\ asking' \in [Issues -> BOOLEAN]
    BY <1>18, RecordType DEF MasterRetries
  <2>. QED  BY <1>18, <2>1, <2>2 DEF MasterRetries
<1>19. CASE MasterAsksHuman(i)
  BY <1>19, RecordType, SettleType DEF MasterAsksHuman
<1>20. CASE MasterGivesUp(i)
  BY <1>20, RecordType, SettleType DEF MasterGivesUp
<1>21. CASE MergeReads(i)
  BY <1>21, GoToType DEF MergeReads, Stage
<1>22. CASE MergeGoesOn(i)
  BY <1>22, GoToType DEF MergeGoesOn, Stage
<1>23. CASE MergeDiscards(i)
  BY <1>23, RecordType, SettleType DEF MergeDiscards, Discard
<1>24. CASE Attach(i)
  BY <1>24, GoToType DEF Attach, Stage
<1>25. CASE ImplLimited(i)
  BY <1>25, LeaveType DEF ImplLimited
<1>26. CASE ImplReadFails(i)
  BY <1>26, LeaveType DEF ImplReadFails
<1>27. CASE ResumeDefers(i)
  BY <1>27, RecordType, LeaveType DEF ResumeDefers
<1>28. CASE MasterDefers(i)
  BY <1>28, SettleType DEF MasterDefers
<1>29. CASE MergeReadFails(i)
  BY <1>29, SettleType DEF MergeReadFails
<1>. QED
  BY <1>1, <1>2, <1>3, <1>4, <1>5, <1>6, <1>7, <1>8, <1>9, <1>10, <1>11, <1>12, <1>13,
     <1>14, <1>15, <1>16, <1>17, <1>18, <1>19, <1>20, <1>21, <1>22, <1>23, <1>24, <1>25,
     <1>26, <1>27, <1>28, <1>29
     DEF Progress, SessionFault, BuildProgress, MergeProgress, BuildFault

(* Every set of issues is finite.                                          *)
LEMMA IssuesCounted ==
  ASSUME NEW S \in SUBSET Issues
  PROVE  IsFiniteSet(S) /\ Cardinality(S) \in Nat
BY IssuesAssumption, FS_Subset, FS_CardinalityType

(* The keys of inFlight and mergeInFlight are issues.                      *)
LEMMA BusyAreIssues ==
  ASSUME NEW l
  PROVE  Busy(l) \subseteq Issues /\ Busy(l)' \subseteq Issues
BY DEF Busy

(* availableSlots is a number, and at most the free slots of the budget.   *)
LEMMA SlotsCounted ==
  ASSUME NEW m \in Nat, NEW n \in Nat
  PROVE  /\ Less(Minus(Cap, m), Minus(PerTarget, n)) \in Nat
         /\ Less(Minus(Cap, m), Minus(PerTarget, n)) <= Minus(Cap, m)
BY CapAssumption DEF Less, Minus

(* Every step of the tick keeps the types.                                 *)
LEMMA TickTypes ==
  ASSUME TypeOK, TickStep \/ TickFault
  PROVE  TypeOK'
<1> USE RepoAssumption, CapAssumption, BoundAssumption
    DEF runs, stream, github, TypeOK, SessionsOK, Calm, Surprise, At, GoThrough, SweepOn,
        Sweeping, Decides, Reads, Saw, Phase, Occupy
<1>1. CASE BootRepo
  BY <1>1 DEF BootRepo, RowsIn, InRepo
<1>2. CASE BootDone
  BY <1>2 DEF BootDone, Repos
<1>3. CASE TickStart
  <2>1. SessionsOK'
    BY <1>3, StartType DEF TickStart, ServiceMergeWorker, MergeQueue, RowsIn, InRepo, Lane, Stage, Work
  <2>. QED  BY <1>3, <2>1 DEF TickStart, RowsIn, InRepo
<1>4. CASE PruneList
  BY <1>4 DEF PruneList, InRepo
<1>5. CASE ListIssues
  <2>1. listing' \in Listing
    BY <1>5 DEF ListIssues, NoListing, Listing, InRepo
  <2>. QED  BY <1>5, <2>1 DEF ListIssues, RowsIn, InRepo
<1>6. ASSUME NEW S \in SUBSET Issues
      PROVE  Scanned(S) \in Listing
  <2>1. listing = [open |-> listing.open, ready |-> listing.ready,
                   resumable |-> listing.resumable, stranded |-> listing.stranded]
    BY DEF Listing
  <2>2. /\ listing.resumable \cup (S \cap open \cap answered \cap ready) \in SUBSET Issues
        /\ listing.stranded \cup ((S \cap open \cap answered) \ ready) \in SUBSET Issues
        /\ listing.open \in SUBSET Issues /\ listing.ready \in SUBSET Issues
    BY DEF Listing
  <2>. QED  BY <2>2 DEF Scanned, Listing
<1>7. CASE ResumeAnswered
  <2>1. SessionsOK'
    <3>1. PICK T : sess' = [sess EXCEPT !["build"] = Launched(T)]
      BY <1>7 DEF ResumeAnswered
    <3>2. Launched(T) \in [Issues -> Session]
      BY DEF Launched, Session, Stage, Work, Lane
    <3>. QED  BY <3>1, <3>2 DEF Lane
  <2>3. lease' \in Issues \cup {NoIssue} /\ ready' \subseteq Issues
    <3>1. Asking \subseteq Issues
      BY <1>6 DEF Asking, Resumable, Listing
    <3>. QED  BY <3>1, <1>7 DEF ResumeAnswered
  <2>2. listing' \in Listing
    BY <1>6, <1>7 DEF ResumeAnswered
  <2>. QED  BY <1>7, <2>1, <2>2, <2>3 DEF ResumeAnswered, RowsIn, InRepo
<1>8. CASE MasterDispatch
  <2>1. SessionsOK' /\ lease' \in Issues \cup {NoIssue}
    BY <1>8, StartType DEF MasterDispatch, MasterQueue, RowsIn, InRepo, Lane, Stage, Work
  <2>2. slots' \in Nat
    <3>1. /\ Cardinality(InFlight') \in Nat
          /\ Cardinality(InFlight' \cap InRepo(repo)) \in Nat
      BY BusyAreIssues, IssuesCounted DEF InFlight
    <3>2. slots' = Less(Minus(Cap, Cardinality(InFlight')),
                        Minus(PerTarget, Cardinality(InFlight' \cap InRepo(repo))))
      BY <1>8 DEF MasterDispatch, AvailableSlots, InRepo
    <3>. QED  BY <3>1, <3>2, SlotsCounted
  <2>. QED  BY <1>8, <2>1, <2>2 DEF MasterDispatch
<1>9. CASE Admit
  BY <1>9 DEF Admit, FirstOf, Admissible, Listing
<1>10. CASE CompleteStart
  BY <1>10 DEF CompleteStart, InRepo, InFlight, Busy
<1>11. CASE TickEnds
  BY <1>11 DEF TickEnds, NextRepo, Repos, NoListing, Listing
<1>12. ASSUME NEW i \in Issues, SweepStep(i) \/ ServeStep(i) PROVE TypeOK'
  <2>1. CASE SweepReads(i)
    BY <2>1 DEF SweepReads
  <2>2. CASE SweepRecovers(i)
    <3>1. SessionsOK'
      BY <2>2, StartType DEF SweepRecovers, Lane, Stage, Work
    <3>. QED  BY <2>2, <3>1 DEF SweepRecovers
  <2>3. CASE SweepSpares(i)
    BY <2>3 DEF SweepSpares
  <2>4. CASE SweepDiscards(i)
    BY <2>4, RecordType DEF SweepDiscards, Discard
  <2>5. CASE PruneOne(i)
    BY <2>5 DEF PruneOne
  <2>6. CASE ScanVisits(i)
    BY <1>6, <2>6 DEF ScanVisits
  <2>7. CASE CiReads(i)
    BY <2>7 DEF CiReads
  <2>8. CASE CiResumes(i)
    <3>1. SessionsOK'
      BY <2>8, StartType DEF CiResumes, Lane, Stage, Work
    <3>. QED  BY <2>8, <3>1 DEF CiResumes
  <2>9. CASE CiDiscards(i)
    BY <2>9, RecordType DEF CiDiscards, Discard
  <2>10. CASE ClaimLooks(i)
    <3>1. pr' \in [Issues -> PrState]
      BY <2>10 DEF ClaimLooks, PrState
    <3>. QED  BY <2>10, <3>1 DEF ClaimLooks
  <2>11. CASE ClaimRecords(i)
    BY <2>11, RecordType DEF ClaimRecords
  <2>12. CASE ClaimDone(i)
    <3>1. SessionsOK'
      BY <2>12, StartType DEF ClaimDone, Lane, Stage, Work
    <3>. QED  BY <2>12, <3>1 DEF ClaimDone
  <2>13. CASE CompleteVisits(i)
    BY <2>13, RecordType DEF CompleteVisits
  <2>. QED
    BY <1>12, <2>1, <2>2, <2>3, <2>4, <2>5, <2>6, <2>7, <2>8, <2>9, <2>10, <2>11, <2>12, <2>13
       DEF SweepStep, ServeStep
<1>13. CASE GateShut
  BY <1>6, <1>13 DEF GateShut
<1>14. CASE ListFails
  BY <1>14 DEF ListFails, NextRepo, Repos
<1>15. ASSUME NEW i \in Issues, SweepFails(i) \/ CiWaits(i) \/ ClaimFails(i) PROVE TypeOK'
  <2>1. CASE SweepFails(i)
    BY <2>1 DEF SweepFails
  <2>2. CASE CiWaits(i)
    BY <2>2 DEF CiWaits
  <2>3. CASE ClaimFails(i)
    BY <2>3, RecordType DEF ClaimFails
  <2>. QED  BY <1>15, <2>1, <2>2, <2>3
<1>. QED
  BY <1>1, <1>2, <1>3, <1>4, <1>5, <1>7, <1>8, <1>9, <1>10, <1>11, <1>12, <1>13, <1>14, <1>15
     DEF TickStep, TickFault

(* So does what people, GitHub and a crash do.                             *)
LEMMA EnvironmentTypes ==
  ASSUME TypeOK, Environment
  PROVE  TypeOK'
<1> USE BoundAssumption
    DEF runs, stream, github, tickVars, TypeOK, Calm, Surprise, PrState
<1>1. CASE Crash
  <2>1. sess' \in [Lane -> [Issues -> Session]]
    BY <1>1 DEF Crash, Session, Idle, Stage, Work, Status
  <2>2. listing' \in Listing /\ phase' \in Phase /\ saw' \in Saw /\ repo' \in Repos
    BY <1>1, RepoAssumption DEF Crash, Listing, NoListing, Phase, Saw, Repos
  <2>. QED  BY <1>1, <2>1, <2>2 DEF Crash
<1>2. ASSUME NEW i \in Issues,
             Closes(i) \/ Reopens(i) \/ Relabels(i) \/ Answers(i) \/ TouchesPR(i) \/ SurvivorEnds(i)
      PROVE  TypeOK'
  BY <1>2 DEF Closes, Reopens, Relabels, Answers, TouchesPR, SurvivorEnds
<1>. QED
  BY <1>1, <1>2 DEF Environment

(* Every state the daemon reaches has the types of the model.              *)
THEOREM TypeCorrect == Spec => []TypeOK
<1>1. Init => TypeOK
  BY RepoAssumption DEF Init, TypeOK, Status, PrState, Session, Idle, Stage, Work, Phase, Saw,
     Repos, NoListing, Listing
<1>2. TypeOK /\ [Next]_vars => TypeOK'
  <2> SUFFICES ASSUME TypeOK, [Next]_vars PROVE TypeOK'
    OBVIOUS
  <2>1. CASE SessionStep
    BY <2>1, SessionTypes DEF SessionStep, Lane
  <2>2. CASE TickStep \/ TickFault
    BY <2>2, TickTypes
  <2>3. CASE Environment
    BY <2>3, EnvironmentTypes
  <2>4. CASE UNCHANGED vars
    BY <2>4 DEF vars, runs, stream, github, tickVars, TypeOK
  <2>. QED  BY <2>1, <2>2, <2>3, <2>4 DEF Next
<1>. QED
  BY <1>1, <1>2, PTL DEF Spec

-----------------------------------------------------------------------------
(* What each turn of a session does to the set of occupied slots.          *)

(* Every turn of a session but its end leaves its issue in its slot.       *)
LEMMA StaysBusy ==
  ASSUME TypeOK, NEW l \in Lane, NEW i \in Issues, NEW stage \in Stage \ {"idle"}, NEW w,
         \/ Start(l, i, stage, w) \/ GoTo(l, i, stage) \/ Turn(l, i, stage, w) \/ Leave(l, i)
  PROVE  InFlight' = IF l = "build" THEN InFlight \cup {i} ELSE InFlight
<1>1. \A j \in Issues : sess'["build"][j].at =
        IF l = "build" /\ j = i THEN sess'["build"][i].at ELSE sess["build"][j].at
  BY DEF TypeOK, Start, GoTo, Turn, Leave, Lane
<1>2. l = "build" => sess'["build"][i].at # "idle"
  BY DEF TypeOK, Start, GoTo, Turn, Leave, Session, Lane
<1>. QED
  BY <1>1, <1>2 DEF InFlight, Busy

(* A session of the build lane that ends frees its slot and no other.      *)
LEMMA SettleFrees ==
  ASSUME TypeOK, NEW l \in Lane, NEW i \in Issues, Settle(l, i)
  PROVE  InFlight' = IF l = "build" THEN InFlight \ {i} ELSE InFlight
<1>1. \A j \in Issues : sess'["build"][j].at =
        IF l = "build" /\ j = i THEN "idle" ELSE sess["build"][j].at
  BY DEF TypeOK, Settle, Idle, Lane
<1>. QED
  BY <1>1 DEF InFlight, Busy

(* A session's step keeps its slot and the lease, or gives the slot back   *)
(* and the lease it held with it; it never touches the tick.               *)
KeepsPool == InFlight' = InFlight /\ lease' = lease

(* A session that ends is a release of the pool, or leaves it alone.       *)
LEMMA SettleReleases ==
  ASSUME TypeOK, NEW l \in Lane, NEW i \in Issues, sess[l][i].at # "idle", Settle(l, i)
  PROVE  KeepsPool \/ Pool!Release(i)
BY SettleFrees DEF Settle, KeepsPool, Pool!Release, InFlight, Busy, Lane

(* A session that goes on leaves the pool alone.                           *)
LEMMA MoveKeeps ==
  ASSUME TypeOK, NEW l \in Lane, NEW i \in Issues, NEW stage \in Stage \ {"idle"}, NEW w,
         sess[l][i].at # "idle", UNCHANGED lease,
         \/ Start(l, i, stage, w) \/ GoTo(l, i, stage) \/ Turn(l, i, stage, w) \/ Leave(l, i)
  PROVE  KeepsPool
BY StaysBusy DEF KeepsPool, InFlight, Busy, Lane

(* No step of a session takes a slot or the lease, or moves the tick.      *)
LEMMA SessionPool ==
  ASSUME TypeOK, NEW l \in Lane, NEW i \in Issues,
         \/ Progress(l, i) \/ SessionFault(l, i)
         \/ BuildProgress(i) \/ MergeProgress(i) \/ BuildFault(i)
  PROVE  (KeepsPool \/ Pool!Release(i)) /\ UNCHANGED tickVars
<1> USE DEF Reviewing, Implementing, HasAgent, Opening, Adjudicating
<1>1. CASE \/ Enter(l, i)
  BY <1>1, MoveKeeps DEF Enter, Stage
<1>2. CASE \/ ReviewEscalates(l, i) \/ RecordMerged(l, i) \/ FailureEscalates(l, i)
           \/ FailureClosesOut(l, i) \/ IntegrateDefers(l, i) \/ Interrupted(l, i)
           \/ FailureDefers(l, i)
  BY <1>2, MoveKeeps DEF ReviewEscalates, RecordMerged, FailureEscalates, FailureClosesOut,
     IntegrateDefers, Interrupted, FailureDefers, Stage
<1>3. CASE Land(l, i) \/ Throws(l, i)
  BY <1>3, MoveKeeps DEF Land, Throws, Stage
<1>4. CASE Teardown(l, i) \/ AttachFails(l, i)
  BY <1>4, SettleReleases DEF Teardown, AttachFails
<1>5. CASE \/ ImplFinishes(i) \/ ImplHandsUp(i) \/ ReviewHandsOff(i) \/ ImplLimited(i)
           \/ ImplReadFails(i) \/ ResumeDefers(i)
  BY <1>5, MoveKeeps DEF ImplFinishes, ImplHandsUp, ReviewHandsOff, ImplLimited,
     ImplReadFails, ResumeDefers, Stage, Lane
<1>6. CASE MasterStarts(i) \/ MasterContinues(i)
  BY <1>6, MoveKeeps DEF MasterStarts, MasterContinues, Stage, Lane
<1>7. CASE MasterRetries(i)
  <2>1. CASE Settle("build", i)
    BY <1>7, <2>1, SettleReleases DEF MasterRetries, Lane
  <2>2. CASE ~ Settle("build", i)
    BY <1>7, <2>2, MoveKeeps DEF MasterRetries, Lane, Stage
  <2>. QED  BY <2>1, <2>2
<1>8. CASE MasterAsksHuman(i) \/ MasterGivesUp(i) \/ MasterDefers(i)
  BY <1>8, SettleReleases DEF MasterAsksHuman, MasterGivesUp, MasterDefers, Lane
<1>9. CASE MergeReads(i) \/ MergeGoesOn(i) \/ Attach(i)
  BY <1>9, MoveKeeps DEF MergeReads, MergeGoesOn, Attach, Stage, Lane
<1>10. CASE MergeDiscards(i) \/ MergeReadFails(i)
  BY <1>10, SettleReleases DEF MergeDiscards, MergeReadFails, Lane
<1>. QED
  BY <1>1, <1>2, <1>3, <1>4, <1>5, <1>6, <1>7, <1>8, <1>9, <1>10
     DEF Progress, SessionFault, BuildProgress, MergeProgress, BuildFault

-----------------------------------------------------------------------------
(* The slots of the pool: no step takes one that was not free.             *)

(* A part of a set of issues has no more issues than the set.              *)
LEMMA NumberOf ==
  ASSUME NEW S \in SUBSET Issues, NEW T \in SUBSET S
  PROVE  Cardinality(T) <= Cardinality(S)
BY IssuesCounted, FS_Subset

(* With a slot free there is room for one more.                            *)
LEMMA OneMoreFits ==
  ASSUME NEW S \in SUBSET Issues, NEW i \in Issues, Cardinality(S) < Cap
  PROVE  Cardinality(S \cup {i}) <= Cap
BY IssuesCounted, FS_AddElement, CapAssumption

(* With m slots free there is room for m more.                             *)
LEMMA SomeMoreFit ==
  ASSUME NEW S \in SUBSET Issues, NEW T \in SUBSET Issues,
         Cardinality(S) <= Cap, Cardinality(T) <= Minus(Cap, Cardinality(S))
  PROVE  Cardinality(S \cup T) <= Cap
<1>1. /\ IsFiniteSet(S) /\ IsFiniteSet(T)
      /\ Cardinality(S) \in Nat /\ Cardinality(T) \in Nat /\ Cardinality(S \cap T) \in Nat
  BY IssuesCounted
<1>2. Cardinality(S \cup T) = Cardinality(S) + Cardinality(T) - Cardinality(S \cap T)
  BY <1>1, FS_Union
<1>. QED
  BY <1>1, <1>2, CapAssumption DEF Minus

(* The cap follows from the cap on the slots and the picks together.       *)
LEMMA CapHolds ==
  ASSUME TypeOK, SlotInv
  PROVE  SlotCap
<1>1. InFlight \cup Picks \in SUBSET Issues /\ InFlight \in SUBSET (InFlight \cup Picks)
  BY BusyAreIssues DEF InFlight, Picks, TypeOK
<1>. QED
  BY <1>1, NumberOf, IssuesCounted, CapAssumption DEF SlotInv, SlotCap

(* A slot given back, with the tick where it was, takes nothing from it.   *)
LEMMA FreeingKeepsSlots ==
  ASSUME TypeOK, SlotInv, InFlight' \in SUBSET InFlight, UNCHANGED tickVars
  PROVE  SlotInv'
<1> USE DEF tickVars
<1>1. Picks' = Picks
  BY DEF Picks
<1>2. InFlight \cup Picks \in SUBSET Issues /\ InFlight \in SUBSET Issues
  BY BusyAreIssues DEF InFlight, Picks, TypeOK
<1>3. Cardinality(InFlight' \cup Picks) <= Cardinality(InFlight \cup Picks)
  BY <1>2, NumberOf
<1>4. Cardinality(InFlight') <= Cardinality(InFlight)
  BY <1>2, NumberOf
<1>5. /\ Cardinality(InFlight') \in Nat /\ Cardinality(InFlight) \in Nat
      /\ Cardinality(InFlight' \cup Picks) \in Nat /\ Cardinality(InFlight \cup Picks) \in Nat
  BY <1>2, IssuesCounted
<1>6. phase = "admit" => slots <= Minus(Cap, Cardinality(InFlight'))
  BY <1>4, <1>5, CapAssumption DEF SlotInv, Minus, TypeOK
<1>. QED
  BY <1>1, <1>3, <1>4, <1>5, <1>6, CapAssumption DEF SlotInv, HasCapacity

(* Outside the claims nothing is picked, so the slots alone are counted.   *)
LEMMA UnpickedSlots ==
  ASSUME TypeOK, SlotInv, InFlight' \in SUBSET Issues, Cardinality(InFlight') <= Cap,
         phase' \notin {"claim", "claiming"},
         phase' = "admit" => slots' <= Minus(Cap, Cardinality(InFlight')),
         cur' # NoIssue => /\ phase' \in {"rehydrate", "sweep", "ci"}
                           /\ cur' \notin InFlight' \cup todo'
                           /\ phase' = "ci" => Cardinality(InFlight') < Cap
  PROVE  SlotInv'
<1>1. Picks' = {}
  BY DEF Picks
<1>. QED
  BY <1>1 DEF SlotInv, HasCapacity

(* The item a list goes on to qualifies, and is off the list.              *)
LEMMA GoneThrough ==
  ASSUME NEW S, NEW qualified, GoThrough(S, qualified)
  PROVE  cur' # NoIssue => cur' \in qualified /\ cur' \notin todo' /\ cur' \in S
BY IssuesAssumption DEF GoThrough, IsFirst, NoIssue

(* The slots are read off the sessions alone.                              *)
LEMMA QuietSlots ==
  ASSUME UNCHANGED sess
  PROVE  InFlight' = InFlight
BY DEF InFlight, Busy

(* The steps of the tick that take no build slot.                          *)
LEMMA QuietTick ==
  ASSUME TypeOK, SlotInv, UNCHANGED lease,
         \/ BootRepo \/ BootDone \/ TickStart \/ PruneList \/ ListIssues
         \/ Admit \/ CompleteStart \/ TickEnds \/ GateShut \/ ListFails
         \/ \E i \in Issues : \/ SweepReads(i) \/ SweepSpares(i) \/ SweepDiscards(i)
                              \/ PruneOne(i) \/ ScanVisits(i) \/ CiReads(i) \/ CiDiscards(i)
                              \/ ClaimLooks(i) \/ ClaimRecords(i) \/ CompleteVisits(i)
                              \/ SweepFails(i) \/ CiWaits(i) \/ ClaimFails(i)
  PROVE  SlotInv' /\ KeepsPool
<1> USE DEF At, SweepOn, Sweeping, Decides, KeepsPool
<1>1. InFlight' = InFlight
  <2>1. CASE TickStart
    <3>1. CASE UNCHANGED sess
      BY <3>1, QuietSlots
    <3>2. CASE \E i \in MergeQueue(repo) : Start("merge", i, "resolve", "integrate")
      BY <3>2, StaysBusy DEF MergeQueue, RowsIn, InRepo, Lane, Stage
    <3>. QED  BY <2>1, <3>1, <3>2 DEF TickStart, ServiceMergeWorker
  <2>2. CASE UNCHANGED sess
    BY <2>2, QuietSlots
  <2>. QED
    BY <2>1, <2>2 DEF BootRepo, BootDone, PruneList, ListIssues, Admit, CompleteStart, TickEnds,
       GateShut, ListFails, SweepReads, SweepSpares, SweepDiscards, PruneOne, ScanVisits, CiReads,
       CiDiscards, ClaimLooks, ClaimRecords, CompleteVisits, SweepFails, CiWaits, ClaimFails
<1>2. InFlight \in SUBSET Issues /\ Cardinality(InFlight) <= Cap /\ SlotCap
  BY BusyAreIssues, CapHolds DEF InFlight, SlotCap
<1>3. CASE BootRepo \/ TickStart
  BY <1>1, <1>2, <1>3, UnpickedSlots, GoneThrough DEF BootRepo, TickStart
<1>4. CASE BootDone \/ PruneList \/ ListIssues \/ TickEnds \/ ListFails \/ CompleteStart
  BY <1>1, <1>2, <1>4, UnpickedSlots
     DEF BootDone, PruneList, ListIssues, TickEnds, ListFails, NextRepo, CompleteStart
<1>5. CASE GateShut
  <2>1. 0 <= Minus(Cap, Cardinality(InFlight))
    BY <1>2, IssuesCounted, CapAssumption DEF Minus
  <2>. QED  BY <1>1, <1>2, <1>5, <2>1, UnpickedSlots DEF GateShut
<1>6. CASE Admit
  <2>1. PICK T : todo' = T /\ T \in FirstOf(Admissible, slots)
    BY <1>6 DEF Admit
  <2>2. T \in SUBSET Issues /\ T \cap InFlight = {} /\ Cardinality(T) <= slots
    BY <2>1 DEF FirstOf, Admissible, TypeOK, Listing
  <2>3. Cardinality(T) <= Minus(Cap, Cardinality(InFlight))
    BY <1>2, <1>6, <2>2, IssuesCounted, CapAssumption DEF Admit, SlotInv, Minus, TypeOK
  <2>4. Cardinality(InFlight \cup T) <= Cap
    BY <1>2, <2>2, <2>3, SomeMoreFit
  <2>5. Picks' = T
    BY <1>6, <2>1 DEF Admit, Picks
  <2>. QED  BY <1>1, <1>6, <2>2, <2>4, <2>5 DEF Admit, SlotInv
<1>7. ASSUME NEW i \in Issues,
             SweepReads(i) \/ SweepSpares(i) \/ SweepDiscards(i) \/ SweepFails(i)
      PROVE  SlotInv'
  <2>1. cur = i /\ Sweeping /\ SlotInv
    BY <1>7 DEF SweepReads, SweepSpares, SweepDiscards, SweepFails
  <2>2. CASE UNCHANGED <<cur, todo, phase>>
    BY <1>1, <1>2, <2>1, <2>2, UnpickedSlots DEF SlotInv
  <2>3. CASE GoThrough(todo, Issues \ InFlight) /\ UNCHANGED phase
    BY <1>1, <1>2, <2>1, <2>3, UnpickedSlots, GoneThrough
  <2>4. CASE GoThrough({}, {}) /\ phase' \in {"rehydrate", "prune"}
    BY <1>1, <1>2, <2>1, <2>4, UnpickedSlots, GoneThrough
  <2>. QED
    BY <1>7, <2>1, <2>2, <2>3, <2>4 DEF SweepReads, SweepSpares, SweepDiscards, SweepFails
<1>8. ASSUME NEW i \in Issues, PruneOne(i) \/ ScanVisits(i) \/ CompleteVisits(i)
      PROVE  SlotInv'
  BY <1>1, <1>2, <1>8, UnpickedSlots DEF PruneOne, ScanVisits, CompleteVisits
<1>9. ASSUME NEW i \in Issues, CiReads(i) \/ CiDiscards(i) \/ CiWaits(i)
      PROVE  SlotInv'
  <2>1. CASE CiReads(i)
    BY <1>1, <1>2, <2>1, UnpickedSlots DEF CiReads, SlotInv, HasCapacity
  <2>2. CASE GoThrough(todo, CiRuns) /\ phase = "ci" /\ UNCHANGED phase
    BY <1>1, <1>2, <2>2, UnpickedSlots, GoneThrough DEF CiRuns, HasCapacity
  <2>. QED  BY <1>9, <2>1, <2>2 DEF CiDiscards, CiWaits
<1>10. ASSUME NEW i \in Issues, ClaimLooks(i) \/ ClaimRecords(i)
       PROVE  SlotInv'
  <2>1. Picks' = Picks
    BY <1>10, IssuesAssumption DEF ClaimLooks, ClaimRecords, Picks, IsFirst, NoIssue, SlotInv
  <2>. QED
    BY <1>1, <1>10, <2>1, IssuesAssumption DEF ClaimLooks, ClaimRecords, IsFirst, NoIssue, SlotInv, Picks
<1>11. ASSUME NEW i \in Issues, ClaimFails(i)
       PROVE  SlotInv'
  <2>1. InFlight \cup Picks \in SUBSET Issues /\ (InFlight \cup Picks') \in SUBSET (InFlight \cup Picks)
    BY <1>2, <1>11 DEF ClaimFails, Picks, TypeOK
  <2>2. Cardinality(InFlight \cup Picks') <= Cap
    BY <2>1, NumberOf, IssuesCounted, CapAssumption DEF SlotInv
  <2>. QED
    BY <1>1, <1>11, <2>1, <2>2 DEF ClaimFails, SlotInv, Picks
<1>. QED
  BY <1>1, <1>3, <1>4, <1>5, <1>6, <1>7, <1>8, <1>9, <1>10, <1>11

(* SlotPool.tla has a Cardinality of its own, with the same definition.    *)
LEMMA SameCardinality ==
  ASSUME NEW S
  PROVE  Pool!Cardinality(S) = Cardinality(S)
BY DEF Cardinality, Pool!Cardinality

(* A step that takes one slot more, or some, is a step of the pool.        *)
LEMMA TakesOne ==
  ASSUME TypeOK, NEW i \in Issues, i \notin InFlight, InFlight' = InFlight \cup {i},
         Cardinality(InFlight') <= Cap,
         \/ UNCHANGED lease
         \/ lease = NoIssue /\ lease' = i
  PROVE  Pool!Take({i})
BY SameCardinality DEF Pool!Take

(* Launching the runs T fills the slots of T and no other.                 *)
LEMMA LaunchedSlots ==
  ASSUME TypeOK, NEW T \in SUBSET Issues, sess' = [sess EXCEPT !["build"] = Launched(T)]
  PROVE  InFlight' = InFlight \cup T
<1>1. \A i \in Issues : sess'["build"][i] = IF i \in T THEN Launched(T)[i] ELSE sess["build"][i]
  BY DEF TypeOK, Lane, Launched
<1>2. \A i \in T : Launched(T)[i].at # "idle"
  BY DEF Launched
<1>. QED
  BY <1>1, <1>2 DEF InFlight, Busy

(* Only runs in no slot are launched with an answer.                       *)
LEMMA AskingAreIssues ==
  ASSUME TypeOK
  PROVE  Resumable \in SUBSET (Issues \ InFlight) /\ Asking \in SUBSET Resumable
BY DEF Resumable, Asking, Scanned, TypeOK, Listing

(* The steps of the tick that take slots.                                  *)
LEMMA TakingTick ==
  ASSUME TypeOK, SlotInv,
         \/ ResumeAnswered \/ MasterDispatch
         \/ \E i \in Issues : SweepRecovers(i) \/ CiResumes(i) \/ ClaimDone(i)
  PROVE  SlotInv' /\ (KeepsPool \/ \E T \in SUBSET Issues : Pool!Take(T))
<1> USE DEF At, SweepOn, Sweeping, Decides, KeepsPool, Occupy
<1>1. InFlight \in SUBSET Issues /\ Cardinality(InFlight) <= Cap
  BY BusyAreIssues, CapHolds DEF InFlight, SlotCap
<1>2. CASE ResumeAnswered
  <2>1. PICK T \in FirstOf(Takers \cup (Resumable \ Asking), Minus(Cap, Cardinality(InFlight))) :
          /\ sess' = [sess EXCEPT !["build"] = Launched(T)]
          /\ IF T \cap Asking = {} THEN UNCHANGED lease ELSE lease' \in T \cap Asking
    BY <1>2 DEF ResumeAnswered
  <2>2. /\ T \in SUBSET (Issues \ InFlight)
        /\ T \cap Asking \in SUBSET Takers
        /\ Cardinality(T) <= Minus(Cap, Cardinality(InFlight))
    BY <2>1, AskingAreIssues DEF FirstOf, Takers
  <2>3. InFlight' = InFlight \cup T
    BY <2>1, <2>2, LaunchedSlots
  <2>4. Cardinality(InFlight') <= Cap
    BY <1>1, <2>2, <2>3, SomeMoreFit
  <2>5. lease' = lease \/ (lease = NoIssue /\ lease' \in T)
    BY <2>1, <2>2 DEF Takers
  <2>6. Pool!Take(T)
    BY <2>2, <2>3, <2>4, <2>5, SameCardinality DEF Pool!Take
  <2>7. GoThrough(RowsIn(repo, {"awaiting-ci"}), CiRuns') /\ phase' = "ci"
    BY <1>2 DEF ResumeAnswered
  <2>8. cur' # NoIssue => cur' \in CiRuns' /\ cur' \notin todo'
    BY <2>7, GoneThrough
  <2>9. SlotInv'
    BY <1>1, <2>2, <2>3, <2>4, <2>7, <2>8, UnpickedSlots DEF CiRuns, HasCapacity
  <2>. QED  BY <2>2, <2>6, <2>9
<1>3. CASE MasterDispatch
  <2>1. /\ UNCHANGED lease /\ InFlight' = InFlight
        \/ \E i \in Issues \ InFlight : /\ HasCapacity /\ lease = NoIssue /\ lease' = i
                                        /\ InFlight' = InFlight \cup {i}
    <3>1. CASE UNCHANGED <<lease, sess>>
      BY <3>1, QuietSlots
    <3>2. CASE \E i \in MasterQueue(repo) : /\ lease' = i /\ Start("build", i, "resolve", "master")
                                            /\ lease = NoIssue /\ HasCapacity
      BY <3>2, StaysBusy DEF MasterQueue, RowsIn, InRepo, Lane, Stage
    <3>. QED  BY <1>3, <3>1, <3>2 DEF MasterDispatch
  <2>2. InFlight' \in SUBSET Issues /\ Cardinality(InFlight') <= Cap
    BY <1>1, <2>1, OneMoreFits DEF HasCapacity
  <2>3. slots' <= Minus(Cap, Cardinality(InFlight'))
    <3>1. /\ Cardinality(InFlight') \in Nat
          /\ Cardinality(InFlight' \cap InRepo(repo)) \in Nat
      BY <2>2, IssuesCounted
    <3>2. slots' = Less(Minus(Cap, Cardinality(InFlight')),
                        Minus(PerTarget, Cardinality(InFlight' \cap InRepo(repo))))
      BY <1>3 DEF MasterDispatch, AvailableSlots, InRepo
    <3>. QED  BY <3>1, <3>2, SlotsCounted
  <2>4. SlotInv'
    BY <1>3, <2>2, <2>3, UnpickedSlots DEF MasterDispatch
  <2>. QED  BY <2>1, <2>2, <2>4, TakesOne
<1>4. ASSUME NEW i \in Issues, SweepRecovers(i)
      PROVE  SlotInv' /\ (KeepsPool \/ Pool!Take({i}))
  <2>1. cur = i /\ i \notin InFlight \cup todo /\ phase \in {"rehydrate", "sweep"} /\ UNCHANGED phase
    BY <1>4, IssuesAssumption DEF SweepRecovers, SlotInv, TypeOK, NoIssue
  <2>2. \/ InFlight' = InFlight
        \/ InFlight' = InFlight \cup {i} /\ HasCapacity
    BY <1>4, QuietSlots, StaysBusy DEF SweepRecovers, Lane, Stage
  <2>3. InFlight' \in SUBSET Issues /\ Cardinality(InFlight') <= Cap
    BY <1>1, <2>2, OneMoreFits DEF HasCapacity
  <2>4. cur' # NoIssue => cur' \in (Issues \ InFlight) /\ cur' \in todo /\ cur' \notin todo'
    BY <1>4, GoneThrough DEF SweepRecovers
  <2>5. SlotInv'
    BY <2>1, <2>2, <2>3, <2>4, UnpickedSlots
  <2>. QED  BY <1>4, <2>1, <2>2, <2>3, <2>5, TakesOne DEF SweepRecovers
<1>5. ASSUME NEW i \in Issues, CiResumes(i)
      PROVE  SlotInv' /\ Pool!Take({i})
  <2>1. cur = i /\ i \notin InFlight /\ HasCapacity /\ phase = "ci" /\ UNCHANGED phase
    BY <1>5, IssuesAssumption DEF CiResumes, SlotInv, NoIssue, TypeOK
  <2>2. InFlight' = InFlight \cup {i}
    BY <1>5, StaysBusy DEF CiResumes, Lane, Stage
  <2>3. InFlight' \in SUBSET Issues /\ Cardinality(InFlight') <= Cap
    BY <1>1, <2>1, <2>2, OneMoreFits DEF HasCapacity
  <2>4. cur' # NoIssue => cur' \in CiRuns' /\ cur' \notin todo'
    BY <1>5, GoneThrough DEF CiResumes
  <2>5. SlotInv'
    BY <2>1, <2>3, <2>4, UnpickedSlots DEF CiRuns, HasCapacity
  <2>. QED  BY <1>5, <2>1, <2>2, <2>3, <2>5, TakesOne DEF CiResumes
<1>6. ASSUME NEW i \in Issues, ClaimDone(i)
      PROVE  SlotInv' /\ Pool!Take({i})
  <2>1. cur = i /\ i \in Picks /\ i \notin InFlight /\ i \notin todo
    BY <1>6, IssuesAssumption DEF ClaimDone, SlotInv, Picks, NoIssue
  <2>2. InFlight' = InFlight \cup {i}
    BY <1>6, StaysBusy DEF ClaimDone, Lane, Stage
  <2>3. InFlight' \cup Picks' = InFlight \cup Picks /\ Picks' = todo
    BY <1>6, <2>1, <2>2 DEF ClaimDone, Picks
  <2>4. InFlight' \in SUBSET Issues /\ Cardinality(InFlight') <= Cap
    <3>1. InFlight \cup Picks \in SUBSET Issues /\ InFlight' \in SUBSET (InFlight \cup Picks)
      BY <1>1, <2>1, <2>2 DEF Picks, TypeOK
    <3>. QED  BY <3>1, NumberOf, IssuesCounted, CapAssumption DEF SlotInv
  <2>5. SlotInv'
    BY <1>6, <2>1, <2>2, <2>3 DEF ClaimDone, SlotInv, Picks
  <2>. QED  BY <1>6, <2>1, <2>2, <2>4, <2>5, TakesOne DEF ClaimDone
<1>. QED
  BY <1>2, <1>3, <1>4, <1>5, <1>6

(* A crash loses every slot, and the people take none.                     *)
LEMMA EnvironmentPool ==
  ASSUME TypeOK, SlotInv, Environment
  PROVE  SlotInv' /\ (KeepsPool \/ Pool!Lose)
<1>1. CASE Crash
  <2>1. InFlight' = {} /\ lease' = NoIssue
    BY <1>1 DEF Crash, InFlight, Busy, Idle, Lane
  <2>2. Cardinality(InFlight') = 0
    BY <2>1, FS_EmptySet
  <2>3. SlotInv'
    BY <1>1, <2>1, <2>2, UnpickedSlots, CapAssumption DEF Crash
  <2>. QED  BY <2>1, <2>3 DEF Pool!Lose
<1>2. CASE UNCHANGED <<sess, lease, tickVars>>
  BY <1>2, QuietSlots, FreeingKeepsSlots DEF KeepsPool
<1>. QED
  BY <1>1, <1>2 DEF Environment, Closes, Reopens, Relabels, Answers, TouchesPR, SurvivorEnds

(* Every step keeps the slots within bounds, and is a step of the pool.    *)
LEMMA StepOfPool ==
  ASSUME TypeOK, SlotInv, [Next]_vars
  PROVE  SlotInv' /\ [Pool!Next]_(Pool!pool)
<1>1. KeepsPool => UNCHANGED Pool!pool
  BY DEF KeepsPool, Pool!pool
<1>2. CASE SessionStep
  <2>1. PICK l \in Lane, i \in Issues :
          \/ Progress(l, i) \/ SessionFault(l, i)
          \/ BuildProgress(i) \/ MergeProgress(i) \/ BuildFault(i)
    BY <1>2 DEF SessionStep, Lane
  <2>2. (KeepsPool \/ Pool!Release(i)) /\ UNCHANGED tickVars
    BY <2>1, SessionPool
  <2>3. InFlight' \in SUBSET InFlight
    BY <2>2 DEF KeepsPool, Pool!Release
  <2>. QED  BY <1>1, <2>2, <2>3, FreeingKeepsSlots DEF Pool!Next
<1>3. CASE TickStep \/ TickFault
  <2>1. CASE \/ ResumeAnswered \/ MasterDispatch
             \/ \E i \in Issues : SweepRecovers(i) \/ CiResumes(i) \/ ClaimDone(i)
    BY <1>1, <2>1, TakingTick DEF Pool!Next
  <2>2. CASE ~ (\/ ResumeAnswered \/ MasterDispatch
                \/ \E i \in Issues : SweepRecovers(i) \/ CiResumes(i) \/ ClaimDone(i))
    <3>1. \/ BootRepo \/ BootDone \/ TickStart \/ PruneList \/ ListIssues
          \/ Admit \/ CompleteStart \/ TickEnds \/ GateShut \/ ListFails
          \/ \E i \in Issues : \/ SweepReads(i) \/ SweepSpares(i) \/ SweepDiscards(i)
                               \/ PruneOne(i) \/ ScanVisits(i) \/ CiReads(i) \/ CiDiscards(i)
                               \/ ClaimLooks(i) \/ ClaimRecords(i) \/ CompleteVisits(i)
                               \/ SweepFails(i) \/ CiWaits(i) \/ ClaimFails(i)
      BY <1>3, <2>2 DEF TickStep, TickFault, SweepStep, ServeStep
    <3>2. UNCHANGED lease
      BY <3>1 DEF BootRepo, BootDone, TickStart, PruneList, ListIssues, Admit, CompleteStart,
         TickEnds, GateShut, ListFails, SweepReads, SweepSpares, SweepDiscards, PruneOne,
         ScanVisits, CiReads, CiDiscards, ClaimLooks, ClaimRecords, CompleteVisits, SweepFails,
         CiWaits, ClaimFails
    <3>. QED  BY <1>1, <3>1, <3>2, QuietTick
  <2>. QED  BY <2>1, <2>2
<1>4. CASE Environment
  BY <1>1, <1>4, EnvironmentPool DEF Pool!Next
<1>5. CASE UNCHANGED vars
  BY <1>1, <1>5, QuietSlots, FreeingKeepsSlots DEF vars, KeepsPool
<1>. QED
  BY <1>2, <1>3, <1>4, <1>5 DEF Next

(* At the start no slot is taken and nothing is picked.                    *)
LEMMA InitSlots ==
  ASSUME Init
  PROVE  SlotInv /\ Pool!Init
<1>1. InFlight = {} /\ Picks = {} /\ lease = NoIssue
  BY DEF Init, InFlight, Busy, Idle, Lane, Picks
<1>. QED
  BY <1>1, FS_EmptySet, CapAssumption DEF Init, SlotInv, Pool!Init

(* The slots and the picks stay within the cap for ever.                   *)
LEMMA SlotsInvariant == Spec => [](TypeOK /\ SlotInv)
<1>1. Init => SlotInv
  BY InitSlots
<1>2. TypeOK /\ SlotInv /\ [Next]_vars => SlotInv'
  BY StepOfPool
<1>. QED
  BY <1>1, <1>2, TypeCorrect, PTL DEF Spec

(* The slots in use never exceed scheduler.maxConcurrentAgents.            *)
THEOREM SlotsCapped == Spec => []SlotCap
<1>1. TypeOK /\ SlotInv => SlotCap
  BY CapHolds
<1>. QED
  BY <1>1, SlotsInvariant, PTL

(* What a pass found idle before an await is idle when it is used.         *)
THEOREM IdleStaysIdle == Spec => []StillIdle
<1>1. TypeOK /\ SlotInv => StillIdle
  BY DEF SlotInv, Picks, StillIdle, AwaitedIdle, PicksIdle
<1>. QED
  BY <1>1, SlotsInvariant, PTL

(* The reconciler implements the slot pool: every behaviour of the daemon, *)
(* seen through the keys of inFlight and the holder of the master lease,   *)
(* is one the pool allows.                                                 *)
THEOREM ImplementsPool == Spec => PoolSpec
<1>1. Init => Pool!Init
  BY InitSlots
<1>2. TypeOK /\ SlotInv /\ [Next]_vars => [Pool!Next]_(Pool!pool)
  BY StepOfPool
<1>. QED
  BY <1>1, <1>2, SlotsInvariant, PTL DEF Spec, PoolSpec, Pool!Spec

-----------------------------------------------------------------------------
(* The master lease: taken with a slot, given back with it, and held by    *)
(* whoever adjudicates.                                                    *)

MasterSession(s, i) == s["build"][i].work = "master"
Adjudicates(s, i)   == s["build"][i].at \in {"resolve", "working"}

(* What happens to the pool leaves the lease with a slot that is taken.    *)
LEMMA LeaseInSlot ==
  ASSUME MasterInv, KeepsPool \/ (\E i \in Issues : Pool!Release(i)) \/ Pool!Lose
                    \/ \E T \in SUBSET Issues : Pool!Take(T)
  PROVE  lease' # NoIssue => lease' \in InFlight'
<1>0. lease # NoIssue => lease \in InFlight
  BY DEF MasterInv
<1>1. CASE KeepsPool \/ Pool!Lose
  BY <1>0, <1>1 DEF KeepsPool, Pool!Lose
<1>2. ASSUME NEW i \in Issues, Pool!Release(i) PROVE lease' # NoIssue => lease' \in InFlight'
  BY <1>0, <1>2 DEF Pool!Release
<1>3. ASSUME NEW T \in SUBSET Issues, Pool!Take(T) PROVE lease' # NoIssue => lease' \in InFlight'
  BY <1>0, <1>3 DEF Pool!Take
<1>. QED  BY <1>1, <1>2, <1>3

(* A session's step makes no other session the master's, and its own only  *)
(* by going on to adjudicate.                                              *)
LEMMA SessionMaster ==
  ASSUME TypeOK, MasterInv, NEW l \in Lane, NEW i \in Issues,
         \/ Progress(l, i) \/ SessionFault(l, i)
         \/ BuildProgress(i) \/ MergeProgress(i) \/ BuildFault(i)
  PROVE  \A j \in Issues : MasterSession(sess', j) =>
           /\ MasterSession(sess, j) /\ Adjudicates(sess', j)
           /\ j = i => lease' = lease
<1> USE DEF Reviewing, Implementing, HasAgent, Opening, Adjudicating, TypeOK, MasterInv,
            MasterSession, Adjudicates, Lane, Session, Start, GoTo, Turn, Leave, Settle, Idle
<1> SUFFICES ASSUME NEW j \in Issues, MasterSession(sess', j)
             PROVE  /\ MasterSession(sess, j) /\ Adjudicates(sess', j)
                    /\ j = i => lease' = lease
  OBVIOUS
<1>1. CASE Enter(l, i)
  BY <1>1 DEF Enter
<1>2. CASE ReviewEscalates(l, i) \/ RecordMerged(l, i)
  BY <1>2 DEF ReviewEscalates, RecordMerged
<1>3. CASE Land(l, i) \/ Throws(l, i)
  BY <1>3 DEF Land, Throws
<1>4. CASE FailureEscalates(l, i) \/ FailureClosesOut(l, i) \/ FailureDefers(l, i)
  BY <1>4 DEF FailureEscalates, FailureClosesOut, FailureDefers
<1>5. CASE Teardown(l, i) \/ AttachFails(l, i)
  BY <1>5 DEF Teardown, AttachFails
<1>6. CASE IntegrateDefers(l, i) \/ Interrupted(l, i)
  <2>1. Leave(l, i) /\ UNCHANGED lease
    BY <1>6 DEF IntegrateDefers, Interrupted
  <2>. QED  BY <2>1
<1>7. CASE ImplFinishes(i) \/ ImplHandsUp(i) \/ ReviewHandsOff(i)
  BY <1>7 DEF ImplFinishes, ImplHandsUp, ReviewHandsOff
<1>8. CASE ImplLimited(i) \/ ImplReadFails(i) \/ ResumeDefers(i)
  BY <1>8 DEF ImplLimited, ImplReadFails, ResumeDefers
<1>9. CASE MasterStarts(i) \/ MasterContinues(i)
  BY <1>9 DEF MasterStarts, MasterContinues
<1>10. CASE MasterRetries(i)
  BY <1>10 DEF MasterRetries
<1>11. CASE MasterAsksHuman(i) \/ MasterGivesUp(i) \/ MasterDefers(i)
  BY <1>11 DEF MasterAsksHuman, MasterGivesUp, MasterDefers
<1>12. CASE MergeReads(i) \/ MergeGoesOn(i) \/ Attach(i)
  BY <1>12 DEF MergeReads, MergeGoesOn, Attach
<1>13. CASE MergeDiscards(i) \/ MergeReadFails(i)
  BY <1>13 DEF MergeDiscards, MergeReadFails
<1>. QED
  BY <1>1, <1>2, <1>3, <1>4, <1>5, <1>6, <1>7, <1>8, <1>9, <1>10, <1>11, <1>12, <1>13
     DEF Progress, SessionFault, BuildProgress, MergeProgress, BuildFault

(* A step of the tick starts the master only with the free lease in hand.  *)
LEMMA TickMaster ==
  ASSUME TypeOK, MasterInv, SlotInv, TickStep \/ TickFault
  PROVE  \A j \in Issues : MasterSession(sess', j) =>
           Adjudicates(sess', j) /\ lease' = j
<1> USE DEF MasterSession, Adjudicates, Lane
<1> SUFFICES ASSUME NEW j \in Issues, MasterSession(sess', j)
             PROVE  Adjudicates(sess', j) /\ lease' = j
  OBVIOUS
<1>1. MasterSession(sess, j) => Adjudicates(sess, j) /\ lease = j
  BY DEF MasterInv
<1>2. CASE UNCHANGED <<sess, lease>>
  BY <1>1, <1>2
<1>3. ASSUME NEW l \in Lane, NEW i \in Issues, NEW stage, NEW w,
             Start(l, i, stage, w), UNCHANGED lease, w # "master"
      PROVE  Adjudicates(sess', j) /\ lease' = j
  BY <1>1, <1>3 DEF Start, TypeOK
<1>4. CASE ResumeAnswered
  <2>1. PICK T \in FirstOf(Takers \cup (Resumable \ Asking), Minus(Cap, Cardinality(InFlight))) :
          /\ sess' = [sess EXCEPT !["build"] = Launched(T)]
          /\ IF T \cap Asking = {} THEN UNCHANGED lease ELSE lease' \in T \cap Asking
    BY <1>4 DEF ResumeAnswered
  <2>2. T \in SUBSET Resumable /\ T \cap Asking \in SUBSET Takers
    BY <2>1 DEF FirstOf, Takers, Asking
  <2>3. sess'["build"] = Launched(T)
    BY <2>1 DEF TypeOK
  <2>4. CASE j \in T
    <3>1. asking[j] /\ Adjudicates(sess', j)
      BY <2>3, <2>4 DEF Launched
    <3>2. j \in T \cap Asking
      BY <2>2, <2>4, <3>1 DEF Asking
    <3>3. lease' \in Takers /\ j \in Takers
      BY <2>1, <2>2, <3>2
    <3>4. Takers \in SUBSET Issues /\ \A a, b \in Takers : a <= b
      BY AskingAreIssues DEF Takers, IsFirst
    <3>5. lease' = j
      BY <3>3, <3>4, IssuesAssumption
    <3>. QED  BY <3>1, <3>5
  <2>5. CASE j \notin T
    <3>1. sess'["build"][j] = sess["build"][j]
      BY <2>3, <2>5 DEF Launched
    <3>2. lease = j
      BY <1>1, <3>1
    <3>3. Takers = {}
      BY <3>2, IssuesAssumption DEF Takers, NoIssue
    <3>4. lease' = lease
      BY <2>1, <2>2, <3>3
    <3>. QED  BY <1>1, <3>1, <3>4
  <2>. QED  BY <2>4, <2>5
<1>5. CASE MasterDispatch
  <2>1. CASE UNCHANGED <<lease, sess>>
    BY <1>2, <2>1
  <2>2. CASE lease = NoIssue /\ \E i \in MasterQueue(repo) : lease' = i /\ Start("build", i, "resolve", "master")
    BY <1>1, <2>2, IssuesAssumption DEF MasterQueue, RowsIn, InRepo, Start, TypeOK, NoIssue
  <2>. QED  BY <1>5, <2>1, <2>2 DEF MasterDispatch, Occupy
<1>6. CASE TickStart
  <2>1. CASE UNCHANGED sess
    BY <1>2, <1>6, <2>1 DEF TickStart
  <2>2. CASE \E i \in MergeQueue(repo) : Start("merge", i, "resolve", "integrate")
    BY <1>3, <1>6, <2>2 DEF TickStart, MergeQueue, RowsIn, InRepo
  <2>. QED  BY <1>6, <2>1, <2>2 DEF TickStart, ServiceMergeWorker
<1>7. ASSUME NEW i \in Issues, SweepRecovers(i) \/ CiResumes(i) \/ ClaimDone(i)
      PROVE  Adjudicates(sess', j) /\ lease' = j
  BY <1>2, <1>3, <1>7 DEF SweepRecovers, CiResumes, ClaimDone, Occupy
<1>. QED
  BY <1>2, <1>4, <1>5, <1>6, <1>7 DEF TickStep, TickFault, SweepStep, ServeStep,
     BootRepo, BootDone, PruneList, ListIssues, Admit, CompleteStart,
     TickEnds, GateShut, ListFails, SweepReads, SweepSpares, SweepDiscards, PruneOne,
     ScanVisits, CiReads, CiDiscards, ClaimLooks, ClaimRecords, CompleteVisits, SweepFails,
     CiWaits, ClaimFails

(* Every step keeps the lease in a slot and with the session that          *)
(* adjudicates.                                                            *)
LEMMA MasterStep ==
  ASSUME TypeOK, SlotInv, MasterInv, [Next]_vars
  PROVE  MasterInv'
<1>1. KeepsPool \/ (\E i \in Issues : Pool!Release(i)) \/ Pool!Lose
                \/ \E T \in SUBSET Issues : Pool!Take(T)
  BY StepOfPool DEF Pool!Next, Pool!pool, KeepsPool
<1>2. lease' # NoIssue => lease' \in InFlight'
  BY <1>1, LeaseInSlot
<1>3. \A j \in Issues : MasterSession(sess', j) => Adjudicates(sess', j) /\ lease' = j
  <2>1. CASE SessionStep
    <3>1. PICK l \in Lane, i \in Issues :
            \/ Progress(l, i) \/ SessionFault(l, i)
            \/ BuildProgress(i) \/ MergeProgress(i) \/ BuildFault(i)
      BY <2>1 DEF SessionStep, Lane
    <3>2. \A j \in Issues : MasterSession(sess', j) =>
            MasterSession(sess, j) /\ Adjudicates(sess', j) /\ (j = i => lease' = lease)
      BY <3>1, SessionMaster
    <3>3. \A j \in Issues : MasterSession(sess, j) => lease = j
      BY DEF MasterInv, MasterSession
    <3>4. lease' = lease \/ lease = i
      BY <3>1, SessionPool DEF KeepsPool, Pool!Release
    <3>. QED  BY <3>2, <3>3, <3>4
  <2>2. CASE TickStep \/ TickFault
    BY <2>2, TickMaster
  <2>3. CASE Crash
    BY <2>3 DEF Crash, Idle, MasterSession, Lane
  <2>4. CASE UNCHANGED <<sess, lease>>
    BY <2>4 DEF MasterInv, MasterSession, Adjudicates
  <2>. QED
    BY <2>1, <2>2, <2>3, <2>4
       DEF Next, vars, Environment, Closes, Reopens, Relabels, Answers, TouchesPR, SurvivorEnds
<1>. QED
  BY <1>2, <1>3 DEF MasterInv, MasterSession, Adjudicates

(* The lease and the sessions that adjudicate name each other for ever.    *)
LEMMA MasterInvariant == Spec => []MasterInv
<1>1. Init => MasterInv
  BY DEF Init, MasterInv, Idle, Lane
<1>2. TypeOK /\ SlotInv /\ MasterInv /\ [Next]_vars => MasterInv'
  BY MasterStep
<1>. QED
  BY <1>1, <1>2, SlotsInvariant, PTL DEF Spec

(* At most one master adjudicates in the whole daemon, in a slot and under *)
(* the lease, whatever resumes, dispatches, crashes and failures do.       *)
THEOREM MasterIsAlone == Spec => []MasterAlone
<1>1. MasterInv => MasterAlone
  BY DEF MasterInv, MasterAlone, Opening, Adjudicating
<1>. QED
  BY <1>1, MasterInvariant, PTL

-----------------------------------------------------------------------------
(* The merge lane: any two leased integrations of one repo are the same.   *)
MergesAlone == \A i, j \in MergeInFlight : RepoOf[i] = RepoOf[j] => i = j

(* A session that goes on or ends leases no integration.                   *)
LEMMA MoveLeasesNothing ==
  ASSUME TypeOK, NEW l \in Lane, NEW i \in Issues, NEW stage, NEW w, sess[l][i].at # "idle",
         \/ Start(l, i, stage, w) \/ GoTo(l, i, stage) \/ Turn(l, i, stage, w)
         \/ Leave(l, i) \/ Settle(l, i)
  PROVE  MergeInFlight' \subseteq MergeInFlight
<1>1. \A j \in Issues : sess'["merge"][j].at =
        IF l = "merge" /\ j = i THEN sess'["merge"][i].at ELSE sess["merge"][j].at
  BY DEF TypeOK, Start, GoTo, Turn, Leave, Settle, Lane
<1>. QED
  BY <1>1 DEF MergeInFlight, Busy

LEMMA SessionMerges ==
  ASSUME TypeOK, NEW l \in Lane, NEW i \in Issues,
         \/ Progress(l, i) \/ SessionFault(l, i)
         \/ BuildProgress(i) \/ MergeProgress(i) \/ BuildFault(i)
  PROVE  MergeInFlight' \subseteq MergeInFlight
<1> USE DEF Reviewing, Implementing, HasAgent, Opening, Adjudicating
<1>1. CASE \/ Enter(l, i) \/ ReviewEscalates(l, i) \/ RecordMerged(l, i)
           \/ FailureEscalates(l, i) \/ FailureClosesOut(l, i)
  BY <1>1, MoveLeasesNothing
     DEF Enter, ReviewEscalates, RecordMerged, FailureEscalates, FailureClosesOut
<1>2. CASE IntegrateDefers(l, i) \/ Interrupted(l, i) \/ FailureDefers(l, i)
  BY <1>2, MoveLeasesNothing DEF IntegrateDefers, Interrupted, FailureDefers
<1>3. CASE Land(l, i) \/ Throws(l, i) \/ Teardown(l, i) \/ AttachFails(l, i)
  BY <1>3, MoveLeasesNothing DEF Land, Throws, Teardown, AttachFails
<1>4. CASE \/ ImplFinishes(i) \/ ImplHandsUp(i) \/ ReviewHandsOff(i) \/ ImplLimited(i)
           \/ ImplReadFails(i) \/ ResumeDefers(i)
  BY <1>4, MoveLeasesNothing DEF ImplFinishes, ImplHandsUp, ReviewHandsOff, ImplLimited,
     ImplReadFails, ResumeDefers, Lane
<1>5. CASE MasterStarts(i) \/ MasterContinues(i)
  BY <1>5, MoveLeasesNothing DEF MasterStarts, MasterContinues, Lane
<1>6. CASE MasterRetries(i)
  BY <1>6, MoveLeasesNothing DEF MasterRetries, Lane
<1>7. CASE MasterAsksHuman(i) \/ MasterGivesUp(i) \/ MasterDefers(i)
  BY <1>7, MoveLeasesNothing DEF MasterAsksHuman, MasterGivesUp, MasterDefers, Lane
<1>8. CASE MergeReads(i) \/ MergeGoesOn(i) \/ Attach(i) \/ MergeDiscards(i) \/ MergeReadFails(i)
  BY <1>8, MoveLeasesNothing
     DEF MergeReads, MergeGoesOn, Attach, MergeDiscards, MergeReadFails, Lane
<1>. QED
  BY <1>1, <1>2, <1>3, <1>4, <1>5, <1>6, <1>7, <1>8
     DEF Progress, SessionFault, BuildProgress, MergeProgress, BuildFault

(* The tick fills the merge lane in one place, when the repo has no lease. *)
LEMMA TickMerges ==
  ASSUME TypeOK, MergesAlone, TickStep \/ TickFault
  PROVE  MergesAlone'
<1>1. CASE MergeInFlight' = MergeInFlight
  BY <1>1 DEF MergesAlone
<1>2. CASE UNCHANGED sess["merge"]
  BY <1>1, <1>2 DEF MergeInFlight, Busy
<1>3. CASE UNCHANGED sess
  BY <1>2, <1>3
<1>4. ASSUME NEW i \in Issues, NEW stage, NEW w, Start("build", i, stage, w)
      PROVE  MergesAlone'
  BY <1>2, <1>4 DEF Start, TypeOK, Lane
<1>5. CASE ResumeAnswered
  BY <1>2, <1>5 DEF ResumeAnswered, TypeOK, Lane
<1>6. CASE MasterDispatch
  BY <1>3, <1>4, <1>6 DEF MasterDispatch, Occupy, MasterQueue, RowsIn, InRepo
<1>7. ASSUME NEW i \in Issues, SweepRecovers(i) \/ CiResumes(i) \/ ClaimDone(i)
      PROVE  MergesAlone'
  BY <1>3, <1>4, <1>7 DEF SweepRecovers, CiResumes, ClaimDone, Occupy
<1>8. CASE TickStart
  <2>1. CASE UNCHANGED sess
    BY <1>3, <2>1
  <2>2. CASE /\ MergeInFlight \cap InRepo(repo) = {}
             /\ \E i \in MergeQueue(repo) : Start("merge", i, "resolve", "integrate")
    <3>1. PICK i \in MergeQueue(repo) : Start("merge", i, "resolve", "integrate")
      BY <2>2
    <3>2. i \in Issues /\ RepoOf[i] = repo
      BY <3>1 DEF MergeQueue, RowsIn, InRepo
    <3>3. \A j \in Issues : j # i => sess'["merge"][j] = sess["merge"][j]
      BY <3>1, <3>2 DEF Start, TypeOK, Lane
    <3>4. MergeInFlight' \subseteq MergeInFlight \cup {i}
      BY <3>3 DEF MergeInFlight, Busy
    <3>5. \A j \in MergeInFlight : RepoOf[j] # RepoOf[i]
      BY <2>2, <3>2 DEF MergeInFlight, Busy, InRepo
    <3>. QED
      BY <3>4, <3>5 DEF MergesAlone
  <2>. QED  BY <1>8, <2>1, <2>2 DEF TickStart, ServiceMergeWorker
<1>. QED
  BY <1>3, <1>5, <1>6, <1>7, <1>8 DEF TickStep, TickFault, SweepStep, ServeStep,
     BootRepo, BootDone, PruneList, ListIssues, Admit, CompleteStart,
     TickEnds, GateShut, ListFails, SweepReads, SweepSpares, SweepDiscards, PruneOne,
     ScanVisits, CiReads, CiDiscards, ClaimLooks, ClaimRecords, CompleteVisits, SweepFails,
     CiWaits, ClaimFails

LEMMA MergesStep ==
  ASSUME TypeOK, MergesAlone, [Next]_vars
  PROVE  MergesAlone'
<1>1. CASE MergeInFlight' \subseteq MergeInFlight
  BY <1>1 DEF MergesAlone
<1>2. CASE SessionStep
  BY <1>1, <1>2, SessionMerges DEF SessionStep, Lane
<1>3. CASE TickStep \/ TickFault
  BY <1>3, TickMerges
<1>4. CASE Crash
  BY <1>1, <1>4 DEF Crash, Idle, MergeInFlight, Busy, Lane
<1>5. CASE UNCHANGED sess
  BY <1>1, <1>5 DEF MergeInFlight, Busy
<1>. QED
  BY <1>2, <1>3, <1>4, <1>5
     DEF Next, vars, Environment, Closes, Reopens, Relabels, Answers, TouchesPR, SurvivorEnds

(* Each repo has at most one leased integration, whatever merges, crashes  *)
(* and fails: the merge worker checks the lane and takes it in one step.   *)
THEOREM OneLeasePerRepo == Spec => []OneMergeLease
<1>1. Init => MergesAlone
  BY DEF Init, MergesAlone, MergeInFlight, Busy, Idle, Lane
<1>2. TypeOK /\ MergesAlone /\ [Next]_vars => MergesAlone'
  BY MergesStep
<1>3. MergesAlone => OneMergeLease
  <2> SUFFICES ASSUME MergesAlone, NEW r \in Repos
               PROVE  Cardinality(MergeInFlight \cap InRepo(r)) <= 1
    BY DEF OneMergeLease
  <2>1. CASE MergeInFlight \cap InRepo(r) = {}
    BY <2>1, FS_EmptySet
  <2>2. CASE \E i \in MergeInFlight : MergeInFlight \cap InRepo(r) = {i}
    <3>1. PICK i \in MergeInFlight : MergeInFlight \cap InRepo(r) = {i}
      BY <2>2
    <3>2. Cardinality({i}) = 1
      BY FS_Singleton
    <3>. QED  BY <3>1, <3>2
  <2>3. ASSUME NEW i \in MergeInFlight \cap InRepo(r)
        PROVE  MergeInFlight \cap InRepo(r) = {i}
    <3>1. \A j \in MergeInFlight \cap InRepo(r) : j = i
      BY <2>3 DEF MergesAlone, InRepo
    <3>. QED  BY <3>1
  <2>. QED
    BY <2>1, <2>2, <2>3
<1>. QED
  BY <1>1, <1>2, <1>3, TypeCorrect, PTL DEF Spec

-----------------------------------------------------------------------------
(* What the tick read before an await, and what became of it since.        *)

(* The listing is of the repo being ticked, and gone when its tick ends.   *)
ListingInv ==
  /\ listing.ready \subseteq InRepo(repo)
  /\ phase \in {"boot", "rehydrate", "idle", "sweep", "prune"} => listing = NoListing

(* The slots counted for admission are of the repo's own too, and with the *)
(* picks not yet claimed they stay within its cap.                         *)
TargetInv ==
  /\ phase = "admit" => slots <= Minus(PerTarget, Cardinality(InFlight \cap InRepo(repo)))
  /\ Picks \subseteq InRepo(repo)
  /\ Picks # {} => Cardinality((InFlight \cap InRepo(repo)) \cup Picks) <= PerTarget

(* No slot is taken during the completeness pass.                          *)
SnapInv == phase = "complete" => InFlight \subseteq snap

(* A session that still has something to record.                           *)
Active(l, i) == sess[l][i].at \notin {"idle", "teardown"}

(* A merged run has nobody who would record anything but its resumption.   *)
MergedRests(i) ==
  status[i] = "merged" =>
    /\ i \notin open /\ ~Active("merge", i)
    /\ Active("build", i) => sess["build"][i].at = "attach" /\ sess["build"][i].work = "resume"

(* A landed merge has closed its issue.                                    *)
LandedCloses(i) == "landed" \in {sess["build"][i].at, sess["merge"][i].at} => i \notin open

(* A leased integration has its issue to itself: no other session, no pick *)
(* of admission, no listed answer, no orphan of the sweep and no CI wait.  *)
MergeAlone(i) ==
  Active("merge", i) =>
    /\ sess["merge"][i].work = "integrate" /\ ~Active("build", i)
    /\ i \in rows /\ ~asking[i]
    /\ \/ status[i] = "awaiting-merge"
       \/ status[i] = "closed" /\ i \notin open \cup listing.ready
    /\ i \notin listing.resumable \cup Picks
    /\ phase = "scan" => i \notin todo
    /\ phase = "ci" => cur # i
    /\ Sweeping => i \notin snap

(* A run with the master's question is parked, or with the master.         *)
AskingRests(i) ==
  /\ asking[i] => /\ status[i] \in {"awaiting-answer", "master-triage", "agent-stuck", "closed"}
                  /\ Active("build", i) => sess["build"][i].at = "resolve"
  /\ sess["build"][i].work = "master" =>
       status[i] \in {"awaiting-answer", "review-maxed", "master-triage", "agent-stuck", "closed"}

(* What the sweep and the CI poller hold is not the master's.              *)
HeldRests(i) ==
  (Sweeping /\ i \in snap) \/ (phase = "ci" /\ i \in todo \cup {cur}) =>
    ~asking[i] /\ sess["build"][i].work # "master"

(* What a read of cur returned stays true of it until it is decided on.    *)
SawRests(i) ==
  cur = i =>
    /\ phase = "claiming" => status[i] = "running" /\ ~asking[i]
    /\ phase \in {"rehydrate", "sweep", "ci"} =>
         /\ saw = "open" => status[i] # "merged"
         /\ Sweeping /\ saw = "open" => i \in snap
         /\ Sweeping /\ saw = "closed" => i \notin open

Rests(i) == /\ MergedRests(i) /\ LandedCloses(i) /\ MergeAlone(i)
            /\ AskingRests(i) /\ HeldRests(i) /\ SawRests(i)

RestInv == "reopen" \in Surprises \/ \A i \in Issues : Rests(i)

(* What is of issue i stays as it is.                                     *)
Still(i) == /\ \A l \in Lane : sess'[l][i] = sess[l][i]
            /\ status'[i] = status[i] /\ asking'[i] = asking[i]
            /\ (i \in rows' <=> i \in rows) /\ (i \in open' <=> i \in open)

(* A session's step moves what is of its own issue only.                   *)
LEMMA SessionSpares ==
  ASSUME TypeOK, NEW l \in Lane, NEW j \in Issues, NEW i \in Issues \ {j},
         \/ Progress(l, j) \/ SessionFault(l, j)
         \/ BuildProgress(j) \/ MergeProgress(j) \/ BuildFault(j)
  PROVE  Still(i)
<1>1. ASSUME NEW m \in Lane, NEW stage, NEW w,
             \/ Start(m, j, stage, w) \/ GoTo(m, j, stage) \/ Turn(m, j, stage, w)
             \/ Leave(m, j) \/ Settle(m, j)
      PROVE  \A k \in Lane : sess'[k][i] = sess[k][i]
  BY <1>1 DEF TypeOK, Start, GoTo, Turn, Leave, Settle, Lane
<1>2. ASSUME NEW fact, Record(j, fact)
      PROVE  status'[i] = status[i] /\ asking'[i] = asking[i]
  BY <1>2 DEF Record, TypeOK
<1> USE DEF Still, stream, runs, github
<1>3. CASE Progress(l, j)
  BY <1>1, <1>2, <1>3 DEF Progress, Enter, ReviewEscalates, Land, RecordMerged, FailureEscalates,
     FailureClosesOut, Teardown
<1>4. CASE SessionFault(l, j)
  BY <1>1, <1>4 DEF SessionFault, AttachFails, IntegrateDefers, Throws, Interrupted, FailureDefers
<1>5. CASE BuildProgress(j)
  BY <1>1, <1>2, <1>5 DEF BuildProgress, ImplFinishes, ImplHandsUp, ReviewHandsOff, MasterStarts,
     MasterContinues, MasterRetries, MasterAsksHuman, MasterGivesUp, Lane
<1>6. CASE MergeProgress(j)
  BY <1>1, <1>2, <1>6 DEF MergeProgress, MergeReads, MergeGoesOn, MergeDiscards, Attach, Discard, Lane
<1>7. CASE BuildFault(j)
  BY <1>1, <1>2, <1>7 DEF BuildFault, ImplLimited, ImplReadFails, ResumeDefers, MasterDefers,
     MergeReadFails, Lane
<1>. QED
  BY <1>3, <1>4, <1>5, <1>6, <1>7

(* Only a session that holds its slot or lease takes a step.               *)
LEMMA SessionIsBusy ==
  ASSUME NEW l \in Lane, NEW j \in Issues,
         \/ Progress(l, j) \/ SessionFault(l, j)
         \/ BuildProgress(j) \/ MergeProgress(j) \/ BuildFault(j)
  PROVE  \E m \in Lane : sess[m][j].at # "idle"
<1> USE DEF Lane
<1>1. CASE Progress(l, j) \/ SessionFault(l, j)
  BY <1>1 DEF Progress, SessionFault, Enter, ReviewEscalates, Land, RecordMerged, FailureEscalates,
     FailureClosesOut, Teardown, AttachFails, IntegrateDefers, Throws, Interrupted, FailureDefers,
     Reviewing, HasAgent
<1>2. CASE BuildProgress(j)
  BY <1>2 DEF BuildProgress, ImplFinishes, ImplHandsUp, ReviewHandsOff, MasterStarts, MasterContinues,
     MasterRetries, MasterAsksHuman, MasterGivesUp, Implementing, Opening, Adjudicating
<1>3. CASE MergeProgress(j)
  BY <1>3 DEF MergeProgress, MergeReads, MergeGoesOn, MergeDiscards, Attach
<1>4. CASE BuildFault(j)
  BY <1>4 DEF BuildFault, ImplLimited, ImplReadFails, ResumeDefers, MasterDefers, MergeReadFails,
     Implementing, Opening, Adjudicating
<1>. QED
  BY <1>1, <1>2, <1>3, <1>4

(* A step that is not the tick's leaves it where it was, or is the crash.   *)
LEMMA TickStands ==
  ASSUME TypeOK, SessionStep \/ (Environment /\ ~Crash)
  PROVE  UNCHANGED tickVars
<1>1. CASE SessionStep
  BY <1>1, SessionPool DEF SessionStep, Lane
<1>. QED
  BY <1>1 DEF Environment, Closes, Reopens, Relabels, Answers, TouchesPR, SurvivorEnds

LEMMA ListingStep ==
  ASSUME TypeOK, ListingInv, [Next]_vars
  PROVE  ListingInv'
<1> USE DEF ListingInv
<1>1. CASE UNCHANGED tickVars
  BY <1>1 DEF tickVars, InRepo
<1>2. CASE Crash
  BY <1>2 DEF Crash, NoListing
<1>3. CASE ListIssues
  BY <1>3 DEF ListIssues, NoListing, InRepo
<1>4. CASE TickEnds \/ ListFails
  BY <1>4 DEF TickEnds, ListFails, NextRepo, At, NoListing
<1>5. ASSUME NEW S, listing' = Scanned(S), UNCHANGED repo,
             phase' \in {"scan", "ci", "admit"}
      PROVE  ListingInv'
  BY <1>5 DEF Scanned, InRepo, TypeOK, Listing
<1>6. CASE GateShut \/ ResumeAnswered \/ \E i \in Issues : ScanVisits(i)
  BY <1>5, <1>6 DEF GateShut, ResumeAnswered, ScanVisits, At
<1>7. CASE BootRepo \/ BootDone \/ TickStart \/ PruneList
  BY <1>7 DEF BootRepo, BootDone, TickStart, PruneList, At, InRepo, NoListing
<1>8. ASSUME UNCHANGED <<repo, listing>>, phase \notin {"boot", "rehydrate", "idle", "sweep", "prune"},
             phase' \notin {"boot", "rehydrate", "idle", "sweep", "prune"}
      PROVE  ListingInv'
  BY <1>8 DEF InRepo
<1>9. CASE MasterDispatch \/ Admit \/ CompleteStart
  BY <1>8, <1>9 DEF MasterDispatch, Admit, CompleteStart, At
<1>10. ASSUME NEW i \in Issues, SweepStep(i) \/ SweepFails(i) \/ PruneOne(i) PROVE ListingInv'
  BY <1>10 DEF SweepStep, SweepFails, SweepReads, SweepRecovers, SweepSpares, SweepDiscards,
     PruneOne, Sweeping, At, InRepo
<1>11. ASSUME NEW i \in Issues, CiReads(i) \/ CiResumes(i) \/ CiDiscards(i) \/ CiWaits(i)
       PROVE  ListingInv'
  BY <1>8, <1>11 DEF CiReads, CiResumes, CiDiscards, CiWaits
<1>12. ASSUME NEW i \in Issues,
              ClaimLooks(i) \/ ClaimRecords(i) \/ ClaimDone(i) \/ ClaimFails(i) \/ CompleteVisits(i)
       PROVE  ListingInv'
  BY <1>8, <1>12 DEF ClaimLooks, ClaimRecords, ClaimDone, ClaimFails, CompleteVisits, At
<1>. QED
  BY <1>1, <1>2, <1>3, <1>4, <1>6, <1>7, <1>9, <1>10, <1>11, <1>12, TickStands
     DEF Next, TickStep, TickFault, ServeStep, vars, tickVars

(* A slot given back takes nothing from the repo's cap.                    *)
LEMMA FreeingKeepsTarget ==
  ASSUME TypeOK, TargetInv, InFlight' \in SUBSET InFlight, UNCHANGED tickVars
  PROVE  TargetInv'
<1> DEFINE mine == InFlight \cap InRepo(repo)
           left == InFlight' \cap InRepo(repo)
<1>1. Picks' = Picks /\ UNCHANGED <<phase, repo, slots>> /\ InRepo(repo)' = InRepo(repo)
  BY DEF Picks, tickVars, InRepo
<1>2. mine \cup Picks \in SUBSET Issues /\ mine \in SUBSET Issues
  BY BusyAreIssues DEF InFlight, Picks, TypeOK
<1>3. Cardinality(left \cup Picks) <= Cardinality(mine \cup Picks) /\ Cardinality(left) <= Cardinality(mine)
  BY <1>2, NumberOf
<1>4. /\ Cardinality(left) \in Nat /\ Cardinality(mine) \in Nat
      /\ Cardinality(left \cup Picks) \in Nat /\ Cardinality(mine \cup Picks) \in Nat
  BY <1>2, IssuesCounted
<1>5. phase = "admit" => slots <= Minus(PerTarget, Cardinality(left))
  BY <1>3, <1>4, CapAssumption DEF TargetInv, Minus, TypeOK
<1>6. Picks # {} => Cardinality(left \cup Picks) <= PerTarget
  BY <1>3, <1>4, CapAssumption DEF TargetInv
<1>. QED
  BY <1>1, <1>5, <1>6 DEF TargetInv

(* Outside admission and the claims there is nothing to count.             *)
LEMMA UncountedTarget ==
  ASSUME phase' \notin {"admit", "claim", "claiming"}
  PROVE  TargetInv'
BY DEF TargetInv, Picks

LEMMA TargetStep ==
  ASSUME TypeOK, SlotInv, ListingInv, TargetInv, [Next]_vars
  PROVE  TargetInv'
<1> DEFINE mine == InFlight \cap InRepo(repo)
<1>1. InFlight \in SUBSET Issues /\ Picks \in SUBSET Issues /\ mine \in SUBSET Issues
  BY BusyAreIssues DEF InFlight, Picks, TypeOK
<1>2. CASE SessionStep
  <2>1. PICK l \in Lane, i \in Issues :
          \/ Progress(l, i) \/ SessionFault(l, i)
          \/ BuildProgress(i) \/ MergeProgress(i) \/ BuildFault(i)
    BY <1>2 DEF SessionStep, Lane
  <2>. QED  BY <2>1, SessionPool, FreeingKeepsTarget DEF KeepsPool, Pool!Release
<1>3. CASE Crash
  BY <1>3, UncountedTarget DEF Crash
<1>4. CASE UNCHANGED <<sess, tickVars>>
  BY <1>4, QuietSlots, FreeingKeepsTarget
<1>5. CASE phase' \notin {"admit", "claim", "claiming"}
  BY <1>5, UncountedTarget
<1>6. CASE GateShut
  <2>1. InFlight' = InFlight /\ InRepo(repo)' = InRepo(repo) /\ slots' = 0 /\ phase' = "admit"
    BY <1>6, QuietSlots DEF GateShut, InRepo
  <2>2. 0 <= Minus(PerTarget, Cardinality(mine)) /\ Picks' = {}
    BY <1>1, <2>1, IssuesCounted, CapAssumption DEF Minus, Picks
  <2>. QED  BY <2>1, <2>2 DEF TargetInv
<1>7. CASE MasterDispatch
  <2>1. /\ Cardinality(InFlight') \in Nat
        /\ Cardinality(InFlight' \cap InRepo(repo)) \in Nat
    BY BusyAreIssues, IssuesCounted DEF InFlight
  <2>2. /\ slots' = Less(Minus(Cap, Cardinality(InFlight')),
                        Minus(PerTarget, Cardinality(InFlight' \cap InRepo(repo))))
        /\ InRepo(repo)' = InRepo(repo) /\ Picks' = {}
    BY <1>7 DEF MasterDispatch, AvailableSlots, InRepo, Picks
  <2>3. slots' <= Minus(PerTarget, Cardinality(InFlight' \cap InRepo(repo)))
    BY <2>1, <2>2, CapAssumption DEF Less, Minus
  <2>. QED  BY <2>2, <2>3 DEF TargetInv
<1>8. CASE Admit
  <2>1. PICK T : todo' = T /\ T \in FirstOf(Admissible, slots)
    BY <1>8 DEF Admit
  <2>2. /\ InFlight' = InFlight /\ InRepo(repo)' = InRepo(repo) /\ Picks' = T
        /\ phase' = "claim" /\ phase = "admit"
    BY <1>8, <2>1, QuietSlots DEF Admit, At, InRepo, Picks
  <2>3. T \in SUBSET InRepo(repo) /\ T \in SUBSET Issues /\ Cardinality(T) <= slots
    BY <2>1 DEF FirstOf, Admissible, ListingInv, InRepo
  <2>4. Cardinality(T) \in Nat /\ Cardinality(mine) \in Nat /\ slots \in Nat
        /\ slots <= Minus(PerTarget, Cardinality(mine)) /\ IsFiniteSet(T) /\ IsFiniteSet(mine)
    BY <1>1, <2>2, <2>3, IssuesCounted DEF TargetInv, TypeOK
  <2>5. ASSUME T # {} PROVE Cardinality(mine \cup T) <= PerTarget
    <3>1. Cardinality(T) # 0
      BY <2>4, <2>5, FS_EmptySet
    <3>2. Cardinality(mine) + Cardinality(T) <= PerTarget
      BY <2>3, <2>4, <3>1, CapAssumption DEF Minus
    <3>3. Cardinality(mine \cap T) \in Nat
      BY <1>1, IssuesCounted
    <3>4. Cardinality(mine \cup T) = Cardinality(mine) + Cardinality(T) - Cardinality(mine \cap T)
      BY <2>4, FS_Union
    <3>. QED  BY <2>4, <3>2, <3>3, <3>4, CapAssumption
  <2>. QED  BY <2>2, <2>3, <2>5 DEF TargetInv
<1>9. ASSUME UNCHANGED <<sess, repo>>, phase \in {"claim", "claiming"}, phase' \in {"claim", "claiming"},
             Picks' \subseteq Picks
      PROVE  TargetInv'
  <2>1. InFlight' = InFlight /\ InRepo(repo)' = InRepo(repo)
    BY <1>9, QuietSlots DEF InRepo
  <2>2. mine \cup Picks \in SUBSET Issues /\ mine \cup Picks' \in SUBSET (mine \cup Picks)
    BY <1>1, <1>9
  <2>3. Cardinality(mine \cup Picks') <= Cardinality(mine \cup Picks)
        /\ Cardinality(mine \cup Picks) \in Nat /\ Cardinality(mine \cup Picks') \in Nat
    BY <2>2, NumberOf, IssuesCounted
  <2>. QED  BY <1>9, <2>1, <2>3, CapAssumption DEF TargetInv
<1>10. ASSUME NEW i \in Issues, ClaimLooks(i) \/ ClaimRecords(i) \/ ClaimFails(i)
       PROVE  TargetInv'
  <2>1. Picks' \subseteq Picks
    BY <1>10 DEF ClaimLooks, ClaimRecords, ClaimFails, Picks, At, IsFirst
  <2>. QED  BY <1>9, <1>10, <2>1 DEF ClaimLooks, ClaimRecords, ClaimFails, At
<1>11. ASSUME NEW i \in Issues, ClaimDone(i)
       PROVE  TargetInv'
  <2>1. i \in Picks /\ Picks' = todo /\ todo \subseteq Picks /\ InRepo(repo)' = InRepo(repo)
        /\ Picks \subseteq todo \cup {i}
    BY <1>11, IssuesAssumption DEF ClaimDone, Picks, NoIssue, InRepo
  <2>2. InFlight' = InFlight \cup {i}
    BY <1>11, StaysBusy DEF ClaimDone, Occupy, Lane, Stage
  <2>3. (InFlight' \cap InRepo(repo)) \cup Picks' = mine \cup Picks /\ Picks # {}
    BY <2>1, <2>2 DEF TargetInv
  <2>. QED  BY <1>11, <2>1, <2>3 DEF TargetInv, ClaimDone
<1>12. phase' \in {"admit", "claim", "claiming"} =>
         \/ SessionStep \/ Crash \/ UNCHANGED <<sess, tickVars>>
         \/ GateShut \/ MasterDispatch \/ Admit
         \/ \E i \in Issues : ClaimLooks(i) \/ ClaimRecords(i) \/ ClaimFails(i) \/ ClaimDone(i)
  <2>1. CASE \E i \in Issues : SweepStep(i) \/ SweepFails(i)
    BY <2>1 DEF SweepStep, SweepReads, SweepRecovers, SweepSpares, SweepDiscards, SweepFails, Sweeping
  <2>2. CASE \E i \in Issues : \/ PruneOne(i) \/ ScanVisits(i) \/ CiReads(i) \/ CiResumes(i)
                              \/ CiDiscards(i) \/ CiWaits(i) \/ CompleteVisits(i)
    BY <2>2 DEF PruneOne, ScanVisits, CiReads, CiResumes, CiDiscards, CiWaits, CompleteVisits, At
  <2>3. CASE \/ BootRepo \/ BootDone \/ TickStart \/ PruneList \/ ListIssues \/ ResumeAnswered
             \/ CompleteStart \/ TickEnds \/ ListFails
    BY <2>3 DEF BootRepo, BootDone, TickStart, PruneList, ListIssues, ResumeAnswered, CompleteStart,
       TickEnds, ListFails, NextRepo
  <2>. QED
    BY <2>1, <2>2, <2>3 DEF Next, TickStep, TickFault, ServeStep, vars, Environment, Closes, Reopens,
       Relabels, Answers, TouchesPR, SurvivorEnds
<1>. QED
  BY <1>2, <1>3, <1>4, <1>5, <1>6, <1>7, <1>8, <1>10, <1>11, <1>12

(* No step of the completeness pass takes a slot.                          *)
LEMMA SnapStep ==
  ASSUME TypeOK, SlotInv, SnapInv, [Next]_vars
  PROVE  SnapInv'
<1>1. CASE SessionStep
  <2>1. InFlight' \subseteq InFlight
    BY <1>1, SessionPool DEF KeepsPool, Pool!Release, SessionStep, Lane
  <2>. QED  BY <1>1, <2>1, TickStands DEF SnapInv, tickVars
<1>2. CASE UNCHANGED sess
  <2>1. InFlight' = InFlight
    BY <1>2, QuietSlots
  <2>2. phase' = "complete" => snap' = InFlight \/ (phase = "complete" /\ snap' = snap)
    <3>1. CASE \E i \in Issues : SweepStep(i) \/ SweepFails(i)
      BY <3>1 DEF SweepStep, SweepReads, SweepRecovers, SweepSpares, SweepDiscards, SweepFails, Sweeping
    <3>2. CASE \E i \in Issues : \/ PruneOne(i) \/ ScanVisits(i) \/ CiReads(i) \/ CiResumes(i)
                                \/ CiDiscards(i) \/ CiWaits(i) \/ CompleteVisits(i)
      BY <3>2 DEF PruneOne, ScanVisits, CiReads, CiResumes, CiDiscards, CiWaits, CompleteVisits
    <3>3. CASE \/ BootRepo \/ BootDone \/ TickStart \/ PruneList \/ ListIssues \/ ResumeAnswered
               \/ CompleteStart \/ TickEnds \/ ListFails \/ GateShut \/ MasterDispatch \/ Admit \/ Crash
      BY <3>3 DEF BootRepo, BootDone, TickStart, PruneList, ListIssues, ResumeAnswered, CompleteStart,
         TickEnds, ListFails, NextRepo, GateShut, MasterDispatch, Admit, Crash
    <3>4. CASE \E i \in Issues : ClaimLooks(i) \/ ClaimRecords(i) \/ ClaimDone(i) \/ ClaimFails(i)
      BY <3>4 DEF ClaimLooks, ClaimRecords, ClaimDone, ClaimFails
    <3>5. CASE SessionStep \/ (Environment /\ ~Crash) \/ UNCHANGED vars
      BY <3>5, TickStands DEF tickVars, vars
    <3>. QED
      BY <3>1, <3>2, <3>3, <3>4, <3>5 DEF Next, TickStep, TickFault, ServeStep
  <2>. QED  BY <2>1, <2>2 DEF SnapInv
<1>3. CASE phase' # "complete"
  BY <1>3 DEF SnapInv
<1>4. CASE \E i \in Issues : SweepRecovers(i) \/ CiResumes(i) \/ ClaimDone(i)
  BY <1>3, <1>4 DEF SweepRecovers, CiResumes, ClaimDone, Sweeping
<1>5. CASE TickStart \/ ResumeAnswered \/ MasterDispatch \/ Crash
  BY <1>3, <1>5 DEF TickStart, ResumeAnswered, MasterDispatch, Crash
<1>. QED
  BY <1>1, <1>2, <1>4, <1>5 DEF Next, TickStep, TickFault, SweepStep, ServeStep, vars,
     Environment, Closes, Reopens, Relabels, Answers, TouchesPR, SurvivorEnds,
     BootRepo, BootDone, PruneList, ListIssues, Admit, CompleteStart,
     TickEnds, GateShut, ListFails, SweepReads, SweepSpares, SweepDiscards, PruneOne,
     ScanVisits, CiReads, CiDiscards, ClaimLooks, ClaimRecords, CompleteVisits, SweepFails,
     CiWaits, ClaimFails

(* The claim about to take its slot finds its repo below its cap.          *)
LEMMA ClaimBelowTarget ==
  ASSUME TypeOK, SlotInv, TargetInv, NEW i \in Issues, Claimed(i)
  PROVE  Cardinality(InFlight \cap InRepo(RepoOf[i])) < PerTarget
<1> DEFINE mine == InFlight \cap InRepo(repo)
<1>1. i \in Picks /\ i \notin mine
  BY IssuesAssumption DEF Claimed, Picks, NoIssue
<1>2. RepoOf[i] = repo
  BY <1>1 DEF TargetInv, InRepo
<1>3. mine \in SUBSET Issues /\ mine \cup Picks \in SUBSET Issues
      /\ mine \cup {i} \in SUBSET (mine \cup Picks)
  BY <1>1, BusyAreIssues DEF InFlight, Picks, TypeOK
<1>4. Cardinality(mine \cup {i}) <= Cardinality(mine \cup Picks)
  BY <1>3, NumberOf
<1>5. Cardinality(mine \cup {i}) = Cardinality(mine) + 1
  BY <1>1, <1>3, IssuesCounted, FS_AddElement
<1>6. Cardinality(mine) \in Nat /\ Cardinality(mine \cup Picks) \in Nat
      /\ Cardinality(mine \cup Picks) <= PerTarget
  BY <1>1, <1>3, IssuesCounted DEF TargetInv
<1>. QED
  BY <1>2, <1>4, <1>5, <1>6, CapAssumption

(* What makes the row of a waiting pick an owned one.                      *)
LEMMA StaleByMerge ==
  ASSUME TypeOK, SlotInv, [Next]_vars, NEW i \in Issues, Stale(i)'
  PROVE  Stale(i) \/ (Waits(i) /\ i \in MergeInFlight)
<1> USE DEF Stale, Waits
<1>1. CASE SessionStep
  <2>1. PICK l \in Lane, j \in Issues :
          \/ Progress(l, j) \/ SessionFault(l, j)
          \/ BuildProgress(j) \/ MergeProgress(j) \/ BuildFault(j)
    BY <1>1 DEF SessionStep, Lane
  <2>2. Waits(i) /\ UNCHANGED tickVars
    BY <1>1, TickStands DEF tickVars
  <2>3. CASE j = i
    <3>1. i \in Picks
      BY <2>2, IssuesAssumption DEF Picks, NoIssue
    <3>2. i \notin InFlight
      BY <3>1 DEF SlotInv
    <3>3. i \in InFlight \/ i \in MergeInFlight
      BY <2>1, <2>3, SessionIsBusy DEF InFlight, MergeInFlight, Busy, Lane
    <3>. QED  BY <2>2, <3>2, <3>3
  <2>4. CASE j # i
    BY <2>1, <2>2, <2>4, SessionSpares DEF Still
  <2>. QED  BY <2>3, <2>4
<1>2. CASE UNCHANGED <<status, rows>> /\ (Waits(i)' => Waits(i))
  BY <1>2
<1>3. CASE phase' \notin {"claim", "claiming"}
  BY <1>3
<1>4. CASE Admit
  <2>1. PICK T \in FirstOf(Admissible, slots) : todo' = T
    BY <1>4 DEF Admit
  <2>2. cur' = NoIssue /\ UNCHANGED <<rows, status>>
    BY <1>4 DEF Admit, At, runs, stream
  <2>3. i \in T
    BY <2>1, <2>2, IssuesAssumption DEF NoIssue
  <2>4. i \in rows => status[i] \in ReAdmittable
    BY <2>3 DEF FirstOf, Admissible
  <2>. QED  BY <2>2, <2>4
<1>5. ASSUME NEW j \in Issues, ClaimLooks(j) \/ ClaimDone(j)
      PROVE  Stale(i)
  BY <1>5, IssuesAssumption DEF ClaimLooks, ClaimDone, At, IsFirst, runs, stream, NoIssue
<1>6. ASSUME NEW j \in Issues, ClaimRecords(j) \/ ClaimFails(j)
      PROVE  Stale(i)
  <2>1. cur = j /\ j \notin todo
    BY <1>6, IssuesAssumption DEF ClaimRecords, ClaimFails, SlotInv, NoIssue
  <2>2. \A k \in Issues \ {j} : status'[k] = status[k] /\ (k \in rows' <=> k \in rows)
    BY <1>6 DEF ClaimRecords, ClaimFails, Record, TypeOK, stream
  <2>3. i \in todo /\ phase \in {"claim", "claiming"}
    BY <1>6, <2>1, IssuesAssumption DEF ClaimRecords, ClaimFails, NoIssue
  <2>. QED  BY <2>1, <2>2, <2>3
<1>7. ASSUME NEW j \in Issues, SweepStep(j) \/ SweepFails(j) PROVE phase' \notin {"claim", "claiming"}
  BY <1>7 DEF SweepStep, SweepReads, SweepRecovers, SweepSpares, SweepDiscards, SweepFails, Sweeping
<1>8. ASSUME NEW j \in Issues, \/ PruneOne(j) \/ ScanVisits(j) \/ CiReads(j) \/ CiResumes(j)
                               \/ CiDiscards(j) \/ CiWaits(j) \/ CompleteVisits(j)
      PROVE  phase' \notin {"claim", "claiming"}
  BY <1>8 DEF PruneOne, ScanVisits, CiReads, CiResumes, CiDiscards, CiWaits, CompleteVisits, At
<1>9. CASE \/ BootRepo \/ BootDone \/ TickStart \/ PruneList \/ ListIssues \/ ResumeAnswered
           \/ CompleteStart \/ TickEnds \/ ListFails \/ GateShut \/ MasterDispatch \/ Crash
  BY <1>3, <1>9 DEF BootRepo, BootDone, TickStart, PruneList, ListIssues, ResumeAnswered, CompleteStart,
     TickEnds, ListFails, NextRepo, GateShut, MasterDispatch, Crash
<1>10. CASE (Environment /\ ~Crash) \/ UNCHANGED vars
  <2>1. UNCHANGED tickVars /\ UNCHANGED <<status, rows>>
    BY <1>10, TickStands DEF vars, tickVars, runs, stream, Environment, Closes, Reopens, Relabels, Answers,
       TouchesPR, SurvivorEnds
  <2>. QED  BY <1>2, <2>1 DEF tickVars
<1>. QED
  BY <1>1, <1>3, <1>4, <1>5, <1>6, <1>7, <1>8, <1>9, <1>10 DEF Next, TickStep, TickFault, ServeStep

(* A step of the tick keeps the status of an open issue's live session.    *)
LEMMA TickSparesSessions ==
  ASSUME TypeOK, SlotInv, SnapInv, [Next]_vars, tickVars' # tickVars,
         NEW i \in InFlight \cap open
  PROVE  status'[i] = status[i]
<1>0. i \in Issues
  BY DEF InFlight, Busy
<1>1. CASE UNCHANGED status
  BY <1>1
<1>2. ASSUME NEW j \in Issues, SweepDiscards(j) \/ CiDiscards(j) \/ ClaimRecords(j) \/ ClaimFails(j)
      PROVE  status'[i] = status[i]
  <2>1. cur = j /\ j \notin InFlight
    BY <1>2, IssuesAssumption DEF SweepDiscards, CiDiscards, ClaimRecords, ClaimFails, Decides, SlotInv, NoIssue
  <2>. QED
    BY <1>0, <1>2, <2>1 DEF SweepDiscards, CiDiscards, ClaimRecords, ClaimFails, Discard, Record, TypeOK, stream
<1>3. ASSUME NEW j \in Issues, CompleteVisits(j)
      PROVE  status'[i] = status[i]
  <2>1. i \in snap
    BY <1>3 DEF CompleteVisits, At, SnapInv
  <2>2. j = i => UNCHANGED status
    BY <1>3, <2>1 DEF CompleteVisits, Anomaly, StuckClosed, stream
  <2>. QED
    BY <1>0, <1>3, <2>2 DEF CompleteVisits, Record, TypeOK, stream
<1>4. CASE SessionStep \/ (Environment /\ ~Crash) \/ UNCHANGED vars
  BY <1>4, TickStands DEF vars, tickVars
<1>5. CASE \/ BootRepo \/ BootDone \/ TickStart \/ PruneList \/ ListIssues \/ ResumeAnswered \/ Admit
           \/ CompleteStart \/ TickEnds \/ ListFails \/ GateShut \/ MasterDispatch \/ Crash
  BY <1>5 DEF BootRepo, BootDone, TickStart, PruneList, ListIssues, ResumeAnswered, CompleteStart, Admit,
     TickEnds, ListFails, GateShut, MasterDispatch, Crash, runs, stream
<1>6. CASE \E j \in Issues : \/ SweepReads(j) \/ SweepRecovers(j) \/ SweepSpares(j) \/ SweepFails(j)
                            \/ PruneOne(j) \/ ScanVisits(j) \/ CiReads(j) \/ CiResumes(j) \/ CiWaits(j)
                            \/ ClaimLooks(j) \/ ClaimDone(j)
  BY <1>6 DEF SweepReads, SweepRecovers, SweepSpares, SweepFails, PruneOne, ScanVisits, CiReads,
     CiResumes, CiWaits, ClaimLooks, ClaimDone, runs, stream
<1>. QED
  BY <1>2, <1>3, <1>4, <1>5, <1>6 DEF Next, TickStep, TickFault, SweepStep, ServeStep

(* What a session's step does to the sessions: one of them moves on.       *)
Other(l) == IF l = "build" THEN "merge" ELSE "build"
Goes(l, i, stage, w) ==
  /\ sess'[l][i].at = stage /\ sess'[l][i].work = w
  /\ sess'[Other(l)][i] = sess[Other(l)][i]

LEMMA Moves ==
  ASSUME TypeOK, NEW l \in Lane, NEW i \in Issues, NEW stage, NEW w
  PROVE  /\ Start(l, i, stage, w) => Goes(l, i, stage, w)
         /\ GoTo(l, i, stage) => Goes(l, i, stage, sess[l][i].work)
         /\ Turn(l, i, stage, w) => Goes(l, i, stage, w)
         /\ Leave(l, i) => Goes(l, i, "teardown", "none")
         /\ Settle(l, i) => Goes(l, i, "idle", "none")
<1> USE DEF TypeOK, Session, Goes, Other, Lane
<1>1. Start(l, i, stage, w) => Goes(l, i, stage, w)
  BY DEF Start
<1>2. GoTo(l, i, stage) => Goes(l, i, stage, sess[l][i].work)
  BY DEF GoTo
<1>3. Turn(l, i, stage, w) => Goes(l, i, stage, w)
  BY DEF Turn
<1>4. Leave(l, i) => Goes(l, i, "teardown", "none")
  BY DEF Leave
<1>5. Settle(l, i) => Goes(l, i, "idle", "none")
  BY DEF Settle, Idle
<1>. QED
  BY <1>1, <1>2, <1>3, <1>4, <1>5

(* What a fact does to the projection of its stream.                       *)
Projected(i, s) == status'[i] = s /\ (asking'[i] => asking[i])

LEMMA Records ==
  ASSUME TypeOK, NEW i \in Issues
  PROVE  /\ Record(i, "Resumed") => Projected(i, "running")
         /\ Record(i, "Escalated") \/ Record(i, "MasterHumanQuestionRequested") =>
              status'[i] = "awaiting-answer"
         /\ Record(i, "Escalated") => Projected(i, "awaiting-answer")
         /\ Record(i, "ReviewPassed") => Projected(i, "awaiting-merge")
         /\ Record(i, "CiAwaited") => Projected(i, "awaiting-ci")
         /\ Record(i, "ReviewMaxed") => Projected(i, "review-maxed")
         /\ Record(i, "MasterStuck") => Projected(i, "agent-stuck")
         /\ Record(i, "Merged") => Projected(i, "merged")
         /\ Record(i, "RunEndedClosed") => Projected(i, "closed")
         /\ Record(i, "MasterTriageRequested") => Projected(i, "master-triage")
         /\ Record(i, "RunStarted") => Projected(i, "running") /\ ~asking'[i]
         /\ Record(i, "MasterInterventionStarted") => Projected(i, "master-triage") /\ ~asking'[i]
BY DEF TypeOK, Record, StatusAfter, AskingAfter, Projected, Projects

(* A step of a session that appends no fact and leaves the row.            *)
Quiet == UNCHANGED <<status, asking, rows>>

(* The steps of a session that record nothing.                             *)
LEMMA QuietRests ==
  ASSUME TypeOK, SlotInv, "reopen" \notin Surprises, NEW l \in Lane, NEW i \in Issues, Rests(i),
         \/ AttachFails(l, i) \/ IntegrateDefers(l, i) \/ Throws(l, i) \/ Interrupted(l, i)
         \/ FailureDefers(l, i) \/ Teardown(l, i) \/ Land(l, i)
         \/ l = "build" /\ (ImplLimited(i) \/ ImplReadFails(i) \/ MasterDefers(i))
         \/ l = "merge" /\ (MergeReads(i) \/ MergeGoesOn(i) \/ Attach(i) \/ MergeReadFails(i))
  PROVE  Rests(i)'
<1> USE DEF Rests, MergedRests, LandedCloses, MergeAlone, AskingRests, HeldRests, SawRests,
            Active, Sweeping, Picks, tickVars, Lane, Goes, Other
<1>1. CASE Throws(l, i) \/ Land(l, i)
  <2>1. Quiet /\ UNCHANGED tickVars /\ open' \subseteq open /\ (Land(l, i) => i \notin open')
    BY <1>1 DEF Throws, Land, Quiet, runs, stream, github
  <2>2. /\ Throws(l, i) => Goes(l, i, "failing", sess[l][i].work)
        /\ Land(l, i) => Goes(l, i, "landed", sess[l][i].work)
    BY Moves DEF Throws, Land
  <2>. QED
    BY <1>1, <2>1, <2>2 DEF Throws, Land, HasAgent, Reviewing, Quiet
<1>2. CASE l = "merge" /\ (MergeReads(i) \/ MergeGoesOn(i) \/ Attach(i))
  <2>1. Quiet /\ UNCHANGED <<open, tickVars>> /\ Active(l, i)
    BY <1>2 DEF MergeReads, MergeGoesOn, Attach, Quiet, runs, stream, github
  <2>2. \/ Goes(l, i, "sawOpen", sess[l][i].work) \/ Goes(l, i, "sawClosed", sess[l][i].work)
        \/ Goes(l, i, "attach", sess[l][i].work) \/ Goes(l, i, "attached", sess[l][i].work)
    <3> HIDE DEF Goes
    <3>1. MergeReads(i) => Goes(l, i, "sawOpen", sess[l][i].work) \/ Goes(l, i, "sawClosed", sess[l][i].work)
      BY <1>2, Moves DEF MergeReads
    <3>2. MergeGoesOn(i) => Goes(l, i, "attach", sess[l][i].work)
      BY <1>2, Moves DEF MergeGoesOn
    <3>3. Attach(i) => Goes(l, i, "attached", sess[l][i].work)
      BY <1>2, Moves DEF Attach
    <3>. QED  BY <1>2, <3>1, <3>2, <3>3
  <2>. QED
    BY <1>2, <2>1, <2>2 DEF Quiet
<1>3. CASE \/ AttachFails(l, i) \/ IntegrateDefers(l, i) \/ Interrupted(l, i)
           \/ FailureDefers(l, i) \/ Teardown(l, i)
           \/ l = "build" /\ (ImplLimited(i) \/ ImplReadFails(i) \/ MasterDefers(i))
           \/ l = "merge" /\ MergeReadFails(i)
  <2>1. /\ UNCHANGED <<status, asking, open, tickVars>>
        /\ rows' = rows \/ (rows' = rows \ {i} /\ l = "build" /\ Active(l, i))
    BY <1>3 DEF AttachFails, IntegrateDefers, Interrupted, FailureDefers, Teardown, ImplLimited,
       ImplReadFails, MasterDefers, MergeReadFails, Implementing, runs, stream, github
  <2>2. Goes(l, i, "teardown", "none") \/ Goes(l, i, "idle", "none")
    BY <1>3, Moves DEF AttachFails, IntegrateDefers, Interrupted, FailureDefers, Teardown,
       ImplLimited, ImplReadFails, MasterDefers, MergeReadFails
  <2>. QED
    BY <2>1, <2>2
<1>. QED
  BY <1>1, <1>2, <1>3

(* The steps of a session that record a fact.                              *)
LEMMA RecordRests ==
  ASSUME TypeOK, SlotInv, MasterInv, "reopen" \notin Surprises, NEW l \in Lane, NEW i \in Issues, Rests(i),
         \/ ReviewEscalates(l, i) \/ RecordMerged(l, i) \/ FailureEscalates(l, i)
         \/ FailureClosesOut(l, i) \/ Enter(l, i)
         \/ l = "build" /\ (BuildProgress(i) \/ ResumeDefers(i))
         \/ l = "merge" /\ MergeDiscards(i)
  PROVE  Rests(i)'
<1> USE DEF Rests, MergedRests, LandedCloses, MergeAlone, AskingRests, HeldRests, SawRests,
            Active, Sweeping, Picks, tickVars, Lane, Goes, Other, Projected
<1>1. cur = i \/ i \in Picks => sess["build"][i].at = "idle"
  BY IssuesAssumption DEF SlotInv, InFlight, Busy, NoIssue
<1>2. CASE l = "build" /\ (\/ ReviewEscalates(l, i) \/ RecordMerged(l, i) \/ FailureEscalates(l, i)
            \/ FailureClosesOut(l, i) \/ ImplHandsUp(i) \/ ReviewHandsOff(i) \/ ResumeDefers(i))
  <2>1. UNCHANGED <<rows, open, tickVars>> /\ Goes("build", i, "teardown", "none")
        /\ sess["build"][i].at \in {"working", "landed", "failing"}
    BY <1>2, Moves DEF ReviewEscalates, RecordMerged, FailureEscalates,  FailureClosesOut, ImplHandsUp,
      ReviewHandsOff, ResumeDefers, Reviewing, Implementing, github
  <2>2. /\ asking'[i] => asking[i]
        /\ status'[i] = "merged" => status[i] = "merged" \/ sess["build"][i].at = "landed"
    BY <1>2, Records DEF ReviewEscalates, RecordMerged, FailureEscalates,  FailureClosesOut, ImplHandsUp,
      ReviewHandsOff, ResumeDefers, ReviewVerdict, Restores, PausedRun, Implementing, stream
  <2>. QED  BY <1>1, <1>2, <2>1, <2>2
<1>3. CASE l = "merge" /\ (\/ ReviewEscalates(l, i) \/ RecordMerged(l, i) \/ FailureEscalates(l, i)
            \/ FailureClosesOut(l, i) \/ MergeDiscards(i))
  <2>1. /\ UNCHANGED <<rows, open, tickVars>> /\ Active("merge", i)
        /\ Goes("merge", i, "teardown", "none") \/ Goes("merge", i, "idle", "none")
    BY <1>3, Moves DEF ReviewEscalates, RecordMerged, FailureEscalates,  FailureClosesOut, MergeDiscards,
      Reviewing, Implementing, github
  <2>2. /\ asking'[i] => asking[i]
        /\ status'[i] = "merged" => status[i] = "merged" \/ sess["merge"][i].at = "landed"
    BY <1>3, Records DEF ReviewEscalates, RecordMerged, FailureEscalates,  FailureClosesOut, MergeDiscards,
      Discard, stream
  <2>. QED  BY <1>1, <1>3, <2>1, <2>2, IssuesAssumption DEF MasterInv, NoIssue
<1>4. CASE Enter(l, i)
  <2>1. UNCHANGED <<open, tickVars>> /\ (i \in rows => i \in rows')
        /\ sess[l][i].at = IF l = "build" THEN "attach" ELSE "attached"
    BY <1>4 DEF Enter, github
  <2>2. CASE sess[l][i].work = "resume"
    <3>1. Projected(i, "running") /\ (Goes(l, i, "working", "impl") \/ Goes(l, i, "working", "ciReview"))
      BY <1>4, <2>2, Moves, Records DEF Enter
    <3>. QED  BY <1>1, <2>1, <2>2, <3>1
  <2>3. CASE sess[l][i].work # "resume"
    <3>1. UNCHANGED <<status, asking>> /\ Goes(l, i, "working", sess[l][i].work)
      <4> HIDE DEF Goes
      <4>. QED  BY <1>4, <2>3, Moves DEF Enter, stream
    <3>. QED  BY <1>1, <2>1, <2>3, <3>1
  <2>. QED  BY <2>2, <2>3
<1>5. CASE l = "build" /\ ImplFinishes(i)
  <2>1. UNCHANGED <<rows, open, tickVars>> /\ sess["build"][i].at = "working"
    BY <1>5 DEF ImplFinishes, Implementing
  <2>2. \/ UNCHANGED <<status, asking>> /\ Goes("build", i, "working", "review")
        \/ Projected(i, "master-triage") /\ Goes("build", i, "teardown", "none")
    BY <1>5, Moves, Records DEF ImplFinishes, stream
  <2>. QED  BY <1>1, <1>5, <2>1, <2>2
<1>6. CASE l = "build" /\ (\/ MasterStarts(i) \/ MasterContinues(i) \/ MasterRetries(i)
                          \/ MasterAsksHuman(i) \/ MasterGivesUp(i))
  <2>1. /\ UNCHANGED <<rows, open, tickVars>>
        /\ sess["build"][i].work = "master" /\ sess["build"][i].at \in {"resolve", "working"}
    BY <1>6 DEF MasterStarts, MasterContinues, MasterRetries, MasterAsksHuman, MasterGivesUp,
       Opening, Adjudicating, github
  <2>2. CASE MasterStarts(i)
    <3>1. Projected(i, "master-triage") /\ ~asking'[i] /\ Goes("build", i, "working", "master")
      BY <2>1, <2>2, Moves, Records DEF MasterStarts, Opening
    <3>. QED  BY <1>1, <2>1, <3>1
  <2>3. CASE MasterAsksHuman(i) \/ MasterGivesUp(i)
    <3>1. Goes("build", i, "idle", "none") /\ status'[i] \in {"awaiting-answer", "agent-stuck"}
      BY <2>3, Moves, Records DEF MasterAsksHuman, MasterGivesUp
    <3>. QED  BY <1>1, <2>1, <3>1
  <2>4. CASE MasterContinues(i) \/ MasterRetries(i)
    <3>1. Projected(i, "running") /\ sess["build"][i].at = "working"
      BY <2>4, Records DEF MasterContinues, MasterRetries, Adjudicating
    <3>2. \/ Goes("build", i, "attach", "resume") \/ Goes("build", i, "idle", "none")
          \/ Goes("build", i, "attach", "review") \/ Goes("build", i, "attach", "integrate")
      BY <2>4, Moves DEF MasterContinues, MasterRetries
    <3>. QED  BY <1>1, <2>1, <3>1, <3>2
  <2>. QED  BY <1>6, <2>2, <2>3, <2>4
<1>. QED
  BY <1>2, <1>3, <1>4, <1>5, <1>6 DEF BuildProgress

(* The scan adds to what the listing found, of the runs it visits only.    *)
LEMMA ScanAdds ==
  ASSUME TypeOK, NEW S, listing' = Scanned(S)
  PROVE  listing'.ready = listing.ready /\ listing'.resumable \subseteq listing.resumable \cup S
BY DEF Scanned, TypeOK, Listing

(* The steps of the tick that only read.                                   *)
LEMMA ReadRests ==
  ASSUME TypeOK, SlotInv, ListingInv, "reopen" \notin Surprises, NEW i \in Issues, Rests(i),
         UNCHANGED <<sess, runs, open>>,
         \/ BootRepo \/ BootDone \/ TickStart \/ PruneList \/ ListIssues \/ Admit \/ MasterDispatch
         \/ CompleteStart \/ TickEnds \/ GateShut \/ ListFails
         \/ \E j \in Issues : \/ SweepReads(j) \/ SweepSpares(j) \/ SweepFails(j) \/ SweepRecovers(j)
                              \/ PruneOne(j) \/ ScanVisits(j) \/ CiReads(j) \/ CiWaits(j) \/ ClaimLooks(j)
  PROVE  Rests(i)'
<1> USE IssuesAssumption DEF Rests, MergedRests, LandedCloses, MergeAlone, AskingRests, HeldRests, SawRests,
            Active, Sweeping, Picks, At, NoIssue, runs, stream
<1>1. CASE BootRepo \/ TickStart
  <2>1. /\ phase' \in {"rehydrate", "sweep"} /\ snap' = RowsIn(repo, {"running"}) /\ saw' = "unread"
        /\ listing' = listing
    BY <1>1 DEF BootRepo, TickStart, SweepOn, GoThrough
  <2>. QED  BY <2>1 DEF RowsIn
<1>2. CASE \/ BootDone \/ PruneList \/ CompleteStart \/ TickEnds \/ ListFails
           \/ \E j \in Issues : PruneOne(j)
  BY <1>2 DEF BootDone, PruneList, CompleteStart, TickEnds, ListFails, PruneOne, NextRepo, NoListing
<1>3. CASE ListIssues
  BY <1>3 DEF ListIssues, NoListing, RowsIn, PausedRun
<1>4. CASE GateShut \/ \E j \in Issues : ScanVisits(j)
  <2>1. /\ listing'.ready = listing.ready /\ listing'.resumable \subseteq listing.resumable \cup todo
        /\ phase = "scan" /\ todo' \subseteq todo /\ cur' = NoIssue /\ phase' \in {"scan", "admit"}
    BY <1>4, ScanAdds DEF GateShut, ScanVisits, IsFirst
  <2>. QED  BY <2>1
<1>5. CASE Admit \/ MasterDispatch \/ \E j \in Issues : ClaimLooks(j)
  BY <1>5 DEF Admit, MasterDispatch, ClaimLooks, FirstOf, Admissible, ReAdmittable, IsFirst
<1>6. ASSUME NEW j \in Issues, SweepReads(j) \/ SweepSpares(j) \/ SweepFails(j) \/ SweepRecovers(j)
      PROVE  Rests(i)'
  BY <1>6 DEF SweepReads, SweepSpares, SweepFails, SweepRecovers, SweepOn, GoThrough, Reads
<1>7. ASSUME NEW j \in Issues, CiReads(j) \/ CiWaits(j)
      PROVE  Rests(i)'
  <2>1. CASE CiReads(j)
    BY <2>1 DEF CiReads, Reads
  <2>2. CASE CiWaits(j)
    <3>1. /\ saw' = "unread" /\ phase' = "ci" /\ phase = "ci" /\ listing' = listing
          /\ todo' \subseteq todo /\ (cur' = i => i \in todo /\ i \notin MergeInFlight)
      BY <2>2 DEF CiWaits, CiRuns, GoThrough, IsFirst
    <3>. QED  BY <3>1 DEF MergeInFlight, Busy
  <2>. QED  BY <1>7, <2>1, <2>2
<1>. QED
  BY <1>1, <1>2, <1>3, <1>4, <1>5, <1>6, <1>7

(* The slots the tick takes.                                               *)
LEMMA TakesRests ==
  ASSUME TypeOK, SlotInv, MasterInv, ListingInv, "reopen" \notin Surprises, NEW i \in Issues, Rests(i),
         NEW j \in Issues,
         \/ Start("build", j, "attach", "review") /\ SweepRecovers(j)
         \/ CiResumes(j) \/ ClaimDone(j)
         \/ Start("build", j, "resolve", "master") /\ j \in MasterQueue(repo) /\ MasterDispatch
         \/ Start("merge", j, "resolve", "integrate") /\ j \in MergeQueue(repo) /\ TickStart
  PROVE  Rests(i)'
<1> USE IssuesAssumption DEF Rests, MergedRests, LandedCloses, MergeAlone, AskingRests, HeldRests, SawRests,
            Active, Sweeping, Picks, At, NoIssue, runs, stream
<1>0. /\ \A l \in Lane : sess[l][i].at \in Stage
      /\ cur # NoIssue => sess["build"][cur].at = "idle"
  BY DEF TypeOK, Session, Lane, SlotInv, InFlight, Busy
<1>1. ASSUME NEW l \in Lane, NEW stage, NEW w, Start(l, j, stage, w)
      PROVE  IF i = j THEN Goes(l, i, stage, w)
             ELSE sess'["build"][i] = sess["build"][i] /\ sess'["merge"][i] = sess["merge"][i]
  BY <1>1, Moves DEF Start, TypeOK, Lane
<1>2. CASE Start("build", j, "attach", "review") /\ SweepRecovers(j)
  <2>0. UNCHANGED <<status, asking, rows, open, phase, snap, listing>>
    BY <1>2 DEF SweepRecovers, github
  <2>1. saw' = "unread" /\ Sweeping /\ cur = j /\ j \in snap /\ saw = "open"
    BY <1>2 DEF SweepRecovers, SweepOn, GoThrough, Decides, Live
  <2>2. IF i = j THEN Goes("build", i, "attach", "review")
        ELSE sess'["build"][i] = sess["build"][i] /\ sess'["merge"][i] = sess["merge"][i]
    BY <1>1, <1>2 DEF Lane
  <2>. QED  BY <1>0, <2>0, <2>1, <2>2 DEF Goes, Other
<1>3. CASE CiResumes(j)
  <2>0. UNCHANGED <<status, asking, rows, open, phase, snap, listing>>
    BY <1>3 DEF CiResumes, github
  <2>1. /\ saw' = "unread" /\ phase = "ci" /\ cur = j /\ saw = "open" /\ todo' \subseteq todo
        /\ cur' = i => i \in todo /\ i \notin MergeInFlight'
    BY <1>3 DEF CiResumes, CiRuns, GoThrough, Decides, IsFirst, Live
  <2>2. IF i = j THEN Goes("build", i, "attach", "ciReview")
        ELSE sess'["build"][i] = sess["build"][i] /\ sess'["merge"][i] = sess["merge"][i]
    BY <1>1, <1>3 DEF Lane, CiResumes, Occupy
  <2>3. cur' = i => sess'["merge"][i].at = "idle"
    BY <2>1 DEF MergeInFlight, Busy
  <2>. QED  BY <1>0, <2>0, <2>1, <2>2, <2>3 DEF Goes, Other
<1>4. CASE ClaimDone(j)
  <2>1. /\ UNCHANGED <<runs, open, snap, listing, todo>> /\ saw' = "unread" /\ phase' = "claim"
        /\ phase = "claiming" /\ cur = j /\ cur' = NoIssue
    BY <1>4 DEF ClaimDone
  <2>2. IF i = j THEN Goes("build", i, "working", "review") \/ Goes("build", i, "working", "impl")
        ELSE sess'["build"][i] = sess["build"][i] /\ sess'["merge"][i] = sess["merge"][i]
    BY <1>1, <1>4 DEF Lane, ClaimDone, Occupy
  <2>. QED  BY <1>0, <2>1, <2>2 DEF Goes, Other
<1>5. CASE Start("build", j, "resolve", "master") /\ j \in MasterQueue(repo) /\ MasterDispatch
  <2>0. UNCHANGED <<status, asking, rows, open, snap, listing, todo, cur, saw>> /\ phase' = "admit"
    BY <1>5 DEF MasterDispatch, github
  <2>1. status[j] = "master-triage" /\ sess["merge"][j].at = "idle"
    BY <1>5 DEF MasterQueue, RowsIn, InRepo, MergeInFlight, Busy
  <2>2. IF i = j THEN Goes("build", i, "resolve", "master")
        ELSE sess'["build"][i] = sess["build"][i] /\ sess'["merge"][i] = sess["merge"][i]
    BY <1>1, <1>5 DEF Lane
  <2>. QED  BY <1>0, <2>0, <2>1, <2>2 DEF Goes, Other
<1>6. CASE Start("merge", j, "resolve", "integrate") /\ j \in MergeQueue(repo) /\ TickStart
  <2>0. UNCHANGED <<status, asking, rows, open, listing>> /\ listing = NoListing
    BY <1>6 DEF TickStart, github, ListingInv
  <2>1. /\ phase = "idle" /\ phase' = "sweep" /\ snap' = RowsIn(repo, {"running"}) /\ saw' = "unread"
        /\ j \in rows /\ status[j] = "awaiting-merge" /\ sess["build"][j].at = "idle"
    BY <1>6 DEF TickStart, SweepOn, GoThrough, MergeQueue, RowsIn, InRepo, InFlight, Busy
  <2>2. IF i = j THEN Goes("merge", i, "resolve", "integrate")
        ELSE sess'["build"][i] = sess["build"][i] /\ sess'["merge"][i] = sess["merge"][i]
    BY <1>1, <1>6 DEF Lane
  <2>. QED  BY <1>0, <2>0, <2>1, <2>2 DEF Goes, Other, RowsIn, NoListing, MasterInv
<1>. QED
  BY <1>2, <1>3, <1>4, <1>5, <1>6

(* The runs the tick moves.                                                *)
LEMMA MovesRests ==
  ASSUME TypeOK, SlotInv, MasterInv, ListingInv, SnapInv, "reopen" \notin Surprises, NEW i \in Issues, Rests(i),
         NEW j \in Issues,
         SweepDiscards(j) \/ CiDiscards(j) \/ ClaimRecords(j) \/ ClaimFails(j) \/ CompleteVisits(j)
  PROVE  Rests(i)'
<1> USE IssuesAssumption DEF Rests, MergedRests, LandedCloses, MergeAlone, AskingRests, HeldRests, SawRests,
            Active, Sweeping, Picks, At, NoIssue, runs, stream
<1>0. cur # NoIssue => sess["build"][cur].at = "idle"
  BY DEF TypeOK, Session, Lane, SlotInv, InFlight, Busy
<1>1. \A fact : Record(j, fact) /\ i # j => UNCHANGED <<status[i], asking[i]>>
  BY DEF Record, TypeOK
<1>2. CASE SweepDiscards(j)
  <2>0. UNCHANGED <<sess, rows, open, phase, snap, listing>>
    BY <1>2 DEF SweepDiscards, github
  <2>1. /\ saw' = "unread" /\ Sweeping /\ cur = j /\ saw \in {"open", "closed"} /\ listing = NoListing
    BY <1>2 DEF SweepDiscards, SweepOn, GoThrough, Decides, TypeOK, Saw, ListingInv
  <2>2. IF i = j THEN \/ saw = "open" /\ Projected(i, "master-triage")
                      \/ saw # "open" /\ Projected(i, "closed")
        ELSE UNCHANGED <<status[i], asking[i]>>
    BY <1>1, <1>2, Records DEF SweepDiscards, Discard
  <2>. QED  BY <1>0, <2>0, <2>1, <2>2 DEF Projected, MasterInv, NoListing
<1>3. CASE CiDiscards(j)
  <2>0. UNCHANGED <<sess, rows, open, phase, snap, listing>>
    BY <1>3 DEF CiDiscards, github
  <2>1. /\ saw' = "unread" /\ phase = "ci" /\ cur = j /\ todo' \subseteq todo
        /\ cur' = i => i \in todo /\ i \notin MergeInFlight
    BY <1>3 DEF CiDiscards, CiRuns, GoThrough, Decides, IsFirst
  <2>2. IF i = j THEN \/ saw = "open" /\ Projected(i, "master-triage")
                      \/ saw # "open" /\ Projected(i, "closed")
        ELSE UNCHANGED <<status[i], asking[i]>>
    BY <1>1, <1>3, Records DEF CiDiscards, Discard
  <2>3. cur' = i => sess["merge"][i].at = "idle"
    BY <2>1 DEF MergeInFlight, Busy
  <2>. QED  BY <1>0, <2>0, <2>1, <2>2, <2>3 DEF Projected, MasterInv
<1>4. CASE ClaimRecords(j)
  <2>1. /\ UNCHANGED <<sess, open, snap, listing, todo, cur>> /\ phase = "claim" /\ cur = j
        /\ phase' = "claiming" /\ rows \subseteq rows'
    BY <1>4 DEF ClaimRecords, github
  <2>2. IF i = j THEN Projected(i, "running") /\ ~asking'[i]
        ELSE UNCHANGED <<status[i], asking[i]>>
    BY <1>1, <1>4, Records DEF ClaimRecords
  <2>. QED  BY <1>0, <2>1, <2>2 DEF Projected, MasterInv
<1>5. CASE ClaimFails(j)
  <2>1. /\ UNCHANGED <<sess, open, snap, listing, todo>> /\ phase \in {"claim", "claiming"} /\ cur = j
        /\ phase' = "claim" /\ cur' = NoIssue /\ (i # j /\ i \in rows => i \in rows')
    BY <1>5 DEF ClaimFails
  <2>2. IF i = j THEN Projected(i, "closed") \/ UNCHANGED <<status[i], asking[i]>>
        ELSE UNCHANGED <<status[i], asking[i]>>
    BY <1>1, <1>5, Records DEF ClaimFails
  <2>. QED  BY <1>0, <2>1, <2>2 DEF Projected, MasterInv
<1>6. CASE CompleteVisits(j)
  <2>1. /\ UNCHANGED <<sess, open, rows, snap, listing, phase, cur, saw>> /\ phase = "complete"
    BY <1>6 DEF CompleteVisits
  <2>2. CASE i = j /\ Anomaly(i)
    <3>1. Projected(i, "master-triage") /\ i \in open /\ sess["build"][i].at = "idle"
          /\ (status[i] = "running" \/ status[i] \in PausedRun)
      BY <1>6, <2>2, Records DEF CompleteVisits, Anomaly, Undriven, SnapInv, InFlight, Busy
    <3>. QED  BY <2>1, <3>1 DEF Projected, MasterInv, PausedRun
  <2>3. CASE i = j /\ StuckClosed(i) /\ ~Anomaly(i)
    <3>1. Projected(i, "closed") /\ i \notin open /\ status[i] = "agent-stuck"
      BY <1>6, <2>3, Records DEF CompleteVisits, StuckClosed
    <3>. QED  BY <2>1, <3>1 DEF Projected, MasterInv
  <2>4. CASE i # j \/ (~Anomaly(i) /\ ~StuckClosed(i))
    <3>1. UNCHANGED <<status[i], asking[i]>>
      BY <1>1, <1>6, <2>4 DEF CompleteVisits
    <3>. QED  BY <2>1, <3>1
  <2>. QED  BY <2>2, <2>3, <2>4
<1>. QED
  BY <1>2, <1>3, <1>4, <1>5, <1>6

(* The launch of the answered runs, ahead of the CI poll.                  *)
LEMMA LaunchRests ==
  ASSUME TypeOK, SlotInv, MasterInv, "reopen" \notin Surprises, NEW i \in Issues, Rests(i), ResumeAnswered
  PROVE  Rests(i)'
<1> USE IssuesAssumption DEF Rests, MergedRests, LandedCloses, MergeAlone, AskingRests, HeldRests, SawRests,
            Active, Sweeping, Picks, At, NoIssue, Lane
<1>1. PICK T : /\ T \subseteq Takers \cup (Resumable \ Asking)
               /\ sess' = [sess EXCEPT !["build"] = Launched(T)]
  BY DEF ResumeAnswered, FirstOf
<1>2. UNCHANGED <<status, asking, rows, open, snap>>
  BY DEF ResumeAnswered, runs, stream
<1>3. /\ phase = "scan" /\ phase' = "ci" /\ saw' = "unread"
      /\ i \in todo' \cup {cur'} => status[i] = "awaiting-ci"
      /\ cur' = i => sess'["merge"][i].at = "idle"
  BY DEF ResumeAnswered, GoThrough, IsFirst, RowsIn, CiRuns, MergeInFlight, Busy
<1>4. listing'.ready = listing.ready /\ listing'.resumable \subseteq listing.resumable \cup todo
  BY ScanAdds DEF ResumeAnswered
<1>5. i \in T => i \in listing.resumable \cup todo
  <2>1. Resumable \subseteq listing.resumable \cup todo
    BY ScanAdds DEF Resumable, Scanned, TypeOK, Listing
  <2>. QED  BY <1>1, <2>1 DEF Takers, Asking
<1>6. sess'["merge"][i] = sess["merge"][i]
  BY <1>1 DEF TypeOK
<1>7. sess'["build"][i] = Launched(T)[i]
  BY <1>1 DEF TypeOK
<1>8. CASE i \notin T
  <2>1. sess'["build"][i] = sess["build"][i]
    BY <1>7, <1>8 DEF Launched
  <2>. QED  BY <1>2, <1>3, <1>4, <1>6, <2>1 DEF PausedRun
<1>9. CASE i \in T /\ asking[i]
  <2>1. sess'["build"][i].at = "resolve" /\ sess'["build"][i].work = "master"
    BY <1>7, <1>9 DEF Launched
  <2>. QED  BY <1>2, <1>3, <1>4, <1>5, <1>6, <1>9, <2>1
<1>10. CASE i \in T /\ ~asking[i]
  <2>1. sess'["build"][i].at = "attach" /\ sess'["build"][i].work = "resume"
    BY <1>7, <1>10 DEF Launched
  <2>. QED  BY <1>2, <1>3, <1>4, <1>5, <1>6, <1>10, <2>1
<1>. QED
  BY <1>8, <1>9, <1>10

(* People close issues and the daemon crashes.                             *)
LEMMA EnvironmentRests ==
  ASSUME TypeOK, "reopen" \notin Surprises, NEW i \in Issues, Rests(i), Environment
  PROVE  Rests(i)'
<1> USE DEF Rests, MergedRests, LandedCloses, MergeAlone, AskingRests, HeldRests, SawRests,
            Active, Sweeping, Picks, runs, stream
<1>1. CASE Crash
  <2>1. UNCHANGED <<status, asking, open, rows>> /\ phase' = "boot" /\ cur' = NoIssue /\ cur' # i
    BY <1>1, IssuesAssumption DEF Crash, github, NoIssue
  <2>2. \A l \in Lane : sess'[l][i].at = "idle" /\ sess'[l][i].work = "none"
    BY <1>1 DEF Crash, Idle
  <2>. QED  BY <2>1, <2>2 DEF Lane
<1>2. ASSUME NEW j \in Issues, Closes(j) \/ Relabels(j) \/ Answers(j) \/ TouchesPR(j) \/ SurvivorEnds(j)
      PROVE  Rests(i)'
  <2>1. UNCHANGED <<status, asking, rows, sess>> /\ UNCHANGED tickVars /\ open' \subseteq open
    BY <1>2 DEF Closes, Relabels, Answers, TouchesPR, SurvivorEnds
  <2>. QED  BY <2>1 DEF tickVars
<1>3. \A j \in Issues : ~Reopens(j)
  BY DEF Reopens, Surprise
<1>. QED
  BY <1>1, <1>2, <1>3 DEF Environment

(* An issue nothing happens to rests as it did.                            *)
LEMMA StillRests ==
  ASSUME NEW i \in Issues, Rests(i), Still(i), UNCHANGED tickVars
  PROVE  Rests(i)'
BY DEF Still, Lane, Rests, MergedRests, LandedCloses, MergeAlone, AskingRests, HeldRests, SawRests,
       Active, Sweeping, Picks, tickVars

(* Every step of a session keeps the issues at rest.                       *)
LEMMA SessionRests ==
  ASSUME TypeOK, SlotInv, MasterInv, "reopen" \notin Surprises, NEW i \in Issues, Rests(i), SessionStep
  PROVE  Rests(i)'
<1>1. PICK l \in Lane, j \in Issues :
        \/ Progress(l, j) \/ SessionFault(l, j)
        \/ BuildProgress(j) \/ MergeProgress(j) \/ BuildFault(j)
  BY DEF SessionStep, Lane
<1>2. CASE i # j
  BY <1>1, <1>2, SessionSpares, StillRests, TickStands
<1>3. CASE i = j
  BY <1>1, <1>3, QuietRests, RecordRests DEF Progress, SessionFault, MergeProgress, BuildFault, Lane
<1>. QED  BY <1>2, <1>3

(* So does every step of the daemon and of people who reopen nothing.      *)
LEMMA RestStep ==
  ASSUME TypeOK, SlotInv, MasterInv, ListingInv, SnapInv, RestInv, [Next]_vars
  PROVE  RestInv'
<1> SUFFICES ASSUME "reopen" \notin Surprises, NEW i \in Issues, Rests(i) PROVE Rests(i)'
  BY DEF RestInv
<1>1. CASE SessionStep
  BY <1>1, SessionRests
<1>2. CASE Environment
  BY <1>2, EnvironmentRests
<1>3. CASE UNCHANGED vars
  BY <1>3, StillRests DEF vars, runs, stream, github, Still
<1>4. CASE ResumeAnswered
  BY <1>4, LaunchRests
<1>5. ASSUME NEW j \in Issues,
             \/ SweepDiscards(j) \/ CiDiscards(j) \/ ClaimRecords(j) \/ ClaimFails(j) \/ CompleteVisits(j)
      PROVE  Rests(i)'
  BY <1>5, MovesRests
<1>6. ASSUME NEW j \in Issues, CiResumes(j) \/ ClaimDone(j)
      PROVE  Rests(i)'
  BY <1>6, TakesRests
<1>7. CASE TickStart
  <2>1. CASE UNCHANGED sess
    BY <1>7, <2>1, ReadRests DEF TickStart, github
  <2>2. CASE \E j \in MergeQueue(repo) : Start("merge", j, "resolve", "integrate")
    BY <1>7, <2>2, TakesRests DEF MergeQueue, RowsIn, InRepo
  <2>. QED  BY <1>7, <2>1, <2>2 DEF TickStart, ServiceMergeWorker
<1>8. CASE MasterDispatch
  <2>1. CASE UNCHANGED sess
    BY <1>8, <2>1, ReadRests DEF MasterDispatch, github
  <2>2. CASE \E j \in MasterQueue(repo) : Start("build", j, "resolve", "master")
    BY <1>8, <2>2, TakesRests DEF MasterQueue, RowsIn, InRepo
  <2>. QED  BY <1>8, <2>1, <2>2 DEF MasterDispatch, Occupy
<1>9. ASSUME NEW j \in Issues, SweepRecovers(j)
      PROVE  Rests(i)'
  <2>1. CASE UNCHANGED sess
    BY <1>9, <2>1, ReadRests DEF SweepRecovers, github
  <2>2. CASE Start("build", j, "attach", "review")
    BY <1>9, <2>2, TakesRests
  <2>. QED  BY <1>9, <2>1, <2>2 DEF SweepRecovers, Occupy
<1>10. CASE \/ BootRepo \/ BootDone \/ PruneList \/ ListIssues \/ Admit
            \/ CompleteStart \/ TickEnds \/ GateShut \/ ListFails
  <2>1. UNCHANGED <<sess, runs, open>>
    BY <1>10 DEF BootRepo, BootDone, PruneList, ListIssues, Admit, CompleteStart, TickEnds, GateShut,
       ListFails, github
  <2>. QED  BY <1>10, <2>1, ReadRests
<1>11. ASSUME NEW j \in Issues,
              \/ SweepReads(j) \/ SweepSpares(j) \/ SweepFails(j)
              \/ PruneOne(j) \/ ScanVisits(j) \/ CiReads(j) \/ CiWaits(j) \/ ClaimLooks(j)
       PROVE  Rests(i)'
  <2>1. UNCHANGED <<sess, runs, open>>
    BY <1>11 DEF SweepReads, SweepSpares, SweepFails, PruneOne, ScanVisits, CiReads, CiWaits,
       ClaimLooks, github
  <2>. QED  BY <1>11, <2>1, ReadRests
<1>. QED
  BY <1>1, <1>2, <1>3, <1>4, <1>5, <1>6, <1>7, <1>8, <1>9, <1>10, <1>11
     DEF Next, TickStep, TickFault, SweepStep, ServeStep

(* Nobody takes up a merged run.                                           *)
LEMMA MergedStays ==
  ASSUME TypeOK, SlotInv, RestInv, "reopen" \notin Surprises, [Next]_vars, NEW i \in Issues,
         status[i] = "merged"
  PROVE  status'[i] \in SpanClosed \cup {"running"}
<1> USE DEF SpanClosed
<1>0. MergedRests(i) /\ SawRests(i)
  BY DEF RestInv, Rests
<1>1. CASE status'[i] = status[i]
  BY <1>1
<1>2. CASE SessionStep
  <2>1. PICK l \in Lane, j \in Issues :
          \/ Progress(l, j) \/ SessionFault(l, j)
          \/ BuildProgress(j) \/ MergeProgress(j) \/ BuildFault(j)
    BY <1>2 DEF SessionStep, Lane
  <2>2. CASE i # j
    BY <1>1, <2>1, <2>2, SessionSpares DEF Still
  <2>3. CASE i = j /\ Enter(l, i)
    BY <1>1, <2>3, Records DEF Enter, Projected, stream
  <2>4. CASE i = j /\ ~Enter(l, i)
    <3>1. \A m \in Lane : sess[m][i].at \in {"idle", "teardown"} \/ sess[m][i].at = "attach"
      BY <1>0 DEF MergedRests, Active, Lane
    <3>2. UNCHANGED status
      BY <1>0, <2>1, <2>4, <3>1 DEF Progress, SessionFault, BuildProgress, MergeProgress, BuildFault,
         ReviewEscalates, Land, RecordMerged, FailureEscalates, FailureClosesOut, Teardown, AttachFails,
         IntegrateDefers, Throws, Interrupted, FailureDefers, ImplFinishes, ImplHandsUp, ReviewHandsOff,
         MasterStarts, MasterContinues, MasterRetries, MasterAsksHuman, MasterGivesUp, MergeReads,
         MergeGoesOn, MergeDiscards, Attach, ImplLimited, ImplReadFails, ResumeDefers, MasterDefers,
         MergeReadFails, Implementing, Opening, Adjudicating, Reviewing, HasAgent, runs, stream, Lane,
         MergedRests, Active
    <3>. QED  BY <1>1, <3>2
  <2>. QED  BY <2>2, <2>3, <2>4
<1>3. ASSUME NEW j \in Issues, SweepDiscards(j) \/ CiDiscards(j)
      PROVE  status'[i] \in SpanClosed \cup {"running"}
  <2>1. CASE i # j
    BY <1>1, <1>3, <2>1 DEF SweepDiscards, CiDiscards, Discard, Record, TypeOK
  <2>2. CASE i = j
    <3>1. saw # "open"
      BY <1>0, <1>3, <2>2 DEF SweepDiscards, CiDiscards, Decides, Sweeping, SawRests
    <3>. QED  BY <1>3, <2>2, <3>1, Records DEF SweepDiscards, CiDiscards, Discard, Projected
  <2>. QED  BY <2>1, <2>2
<1>4. ASSUME NEW j \in Issues, ClaimRecords(j) \/ ClaimFails(j)
      PROVE  status'[i] \in SpanClosed \cup {"running"}
  <2>1. CASE i # j
    BY <1>1, <1>4, <2>1 DEF ClaimRecords, ClaimFails, Record, TypeOK, stream
  <2>2. CASE i = j
    BY <1>1, <1>4, <2>2, Records DEF ClaimRecords, ClaimFails, Projected, stream
  <2>. QED  BY <2>1, <2>2
<1>5. ASSUME NEW j \in Issues, CompleteVisits(j)
      PROVE  status'[i] \in SpanClosed \cup {"running"}
  <2>1. CASE i # j
    BY <1>1, <1>5, <2>1 DEF CompleteVisits, Record, TypeOK, stream
  <2>2. CASE i = j
    <3>1. ~Anomaly(i) /\ ~StuckClosed(i)
      BY <1>0 DEF Anomaly, StuckClosed, MergedRests
    <3>. QED  BY <1>1, <1>5, <2>2, <3>1 DEF CompleteVisits, stream
  <2>. QED  BY <2>1, <2>2
<1>6. CASE UNCHANGED status
  BY <1>1, <1>6
<1>. QED
  BY <1>2, <1>3, <1>4, <1>5, <1>6 DEF Next, TickStep, TickFault, SweepStep, ServeStep, Environment,
     BootRepo, BootDone, TickStart, PruneList, ListIssues, ResumeAnswered, MasterDispatch, Admit,
     CompleteStart, TickEnds, GateShut, ListFails, SweepReads, SweepRecovers, SweepSpares, SweepFails,
     PruneOne, ScanVisits, CiReads, CiResumes, CiWaits, ClaimLooks, ClaimDone, Crash, Closes, Reopens,
     Relabels, Answers, TouchesPR, SurvivorEnds, runs, stream, vars

(* What the tick and the sessions keep true of each other.                 *)
TickInv == TypeOK /\ SlotInv /\ MasterInv /\ ListingInv /\ TargetInv /\ SnapInv /\ RestInv

(* ... for ever.                                                           *)
LEMMA TickInvariant == Spec => []TickInv
<1>1. Init => ListingInv /\ TargetInv /\ SnapInv
  BY DEF Init, ListingInv, TargetInv, SnapInv, Picks, InRepo, NoListing, InFlight, Busy, Idle, Lane
<1>2. Init => RestInv
  BY IssuesAssumption DEF Init, RestInv, Rests, MergedRests, LandedCloses, MergeAlone, AskingRests,
     HeldRests, SawRests, Active, Sweeping, Picks, Idle, Lane, NoIssue
<1>3. /\ TypeOK /\ SlotInv /\ MasterInv /\ ListingInv /\ TargetInv /\ SnapInv /\ RestInv
      /\ [Next]_vars
      => ListingInv' /\ TargetInv' /\ SnapInv' /\ RestInv'
  BY ListingStep, TargetStep, SnapStep, RestStep
<1>. QED
  BY <1>1, <1>2, <1>3, SlotsInvariant, MasterInvariant, PTL DEF Spec, TickInv

(* What the tick read before an await never makes it claim a row that a    *)
(* live path owns, take its repo over the target's cap, move the run of an *)
(* open issue under its session or, where nobody reopens issues, take up a *)
(* merged run: for every number of issues, repos, slots and failures.      *)
THEOREM TickActsOnCurrent == Spec => TickIsCurrent
<1> DEFINE Free   == \A i \in Issues : Stale(i)' => Stale(i) \/ (Waits(i) /\ i \in MergeInFlight)
           Fits   == \A i \in Issues : Claimed(i) => Cardinality(InFlight \cap InRepo(RepoOf[i])) < PerTarget
           Leaves == tickVars' # tickVars => \A i \in InFlight \cap open : status'[i] = status[i]
           Done   == \A i \in Issues : status[i] = "merged" =>
                       "reopen" \in Surprises \/ status'[i] \in SpanClosed \cup {"running"}
<1>1. TickInv /\ [Next]_vars => [Free]_vars
  BY StaleByMerge DEF TickInv
<1>2. TickInv /\ [Next]_vars => [Fits]_vars
  BY ClaimBelowTarget DEF TickInv
<1>3. TickInv /\ [Next]_vars => [Leaves]_vars
  BY TickSparesSessions DEF TickInv
<1>4. TickInv /\ [Next]_vars => [Done]_vars
  BY MergedStays DEF TickInv
<1>5. Spec => [][Free]_vars /\ [][Fits]_vars /\ [][Leaves]_vars /\ [][Done]_vars
  BY <1>1, <1>2, <1>3, <1>4, TickInvariant, PTL DEF Spec
<1>. QED
  BY <1>5 DEF TickIsCurrent, ClaimFree, ClaimTarget, TickLeavesSessions, LandedIsDone

=============================================================================
