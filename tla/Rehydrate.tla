------------------------------ MODULE Rehydrate ------------------------------
(***************************************************************************)
(* One issue between two memories: the store, which a restart keeps (warm) *)
(* or finds empty (cold), and GitHub, where the issue's labels, comments   *)
(* and pull request mirror it.  The pauses and hand-offs that write both   *)
(* (escalation-checkpoint.ts, review-loop.ts, master/engine.ts), the       *)
(* operator's answer (ralph-answer.ts), the tick's scan of the paused runs *)
(* and its label and completeness passes (resume.ts, reconciler.ts), and   *)
(* the rebuild of a cold store (daemon/rehydrate.ts).                      *)
(***************************************************************************)
EXTENDS IssueStore, FiniteSets, FiniteSetsExt

CONSTANTS MaxComments,   \* bound: comments on the issue
          HubFaults, MaxHubFaults  \* faults explored, and how many

VARIABLES hub,    \* GitHub: labels, comments in order, the marked PR, the issue
          img,    \* the store's image of the issue, see IssueStore
          job,    \* the session or handler that drives the issue, at its await
          tick,   \* the tick between its listing and its label pass
          boot,   \* "up" or "down", or where a rebuild stands and what it read
          lost,   \* history: what the run rested on when its store was lost
          hubFaults

hubVars == <<hub, img, job, tick, boot, lost, hubFaults>>

HubFault(f) == f \in HubFaults /\ hubFaults < MaxHubFaults /\ hubFaults' = hubFaults + 1
NoHubFault  == UNCHANGED hubFaults

Labelled(l)  == l \in hub.labels
Without(ls)  == [hub EXCEPT !.labels = @ \ ls]
With(ls)     == [hub EXCEPT !.labels = @ \cup ls]
Commented(c) == [hub EXCEPT !.comments = Append(@, c)]
CanComment   == Len(hub.comments) < MaxComments

Places(kind) == {i \in 1..Len(hub.comments) : hub.comments[i] = kind}
LatestOf(kind) == Max(Places(kind) \cup {0})
\* latestRalphQuestion, latestAnswerAfter, latestMasterRequestBefore
LatestQuestion == LatestOf("question")
AnsweredAfter(comment) == LatestOf("answer") > comment
RequestBefore(comment) == \E i \in Places("request") : i < comment

Paused == {"awaiting-answer", "review-maxed"}
StatusNow == StatusOf(img)
Up == boot.at = "up"
NoJob == job = "none"

-----------------------------------------------------------------------------
(* Drivers.  What a driver awaits next is its job.                         *)
Keeps(unchanged) == UNCHANGED unchanged /\ UNCHANGED <<tick, boot, lost>>

Claim ==
  /\ Up /\ NoJob /\ hub.open /\ hub.labels = {"ready-for-agent"}
  /\ StatusNow \in ReAdmittable \cup {"none"}
  /\ hub' = Without({"ready-for-agent"})
  /\ img' = RecordRunStarted(UpsertRun(img, FALSE)) /\ job' = "driving"
  /\ Keeps(<<>>) /\ NoHubFault

OpenPr ==
  /\ Up /\ job = "driving" /\ ~hub.pr
  /\ hub' = [hub EXCEPT !.pr = TRUE] /\ img' = UpsertRun(img, TRUE)
  /\ Keeps(job) /\ NoHubFault

\* ensureDraftPullRequest: the one there is, or a new one.
EnsuredPr(h) == [h EXCEPT !.pr = TRUE]
\* The card is posted (on a PR the checkpoint ensures), then recorded, then
\* the context is set.  A master may take the latest card for its own.
PostQuestion ==
  /\ Up /\ job \in {"driving", "adjudicating"}
  /\ \/ /\ CanComment /\ hub' = EnsuredPr(Commented("question"))
     \/ job = "adjudicating" /\ LatestQuestion # 0 /\ UNCHANGED hub
  /\ img' = UpsertRun(img, TRUE)
  /\ \/ job = "driving" /\ job' \in {"ask", "heal-card"}
     \/ job = "adjudicating" /\ job' = "master-ask"
  /\ Keeps(<<>>) /\ NoHubFault

RecordQuestion ==
  /\ Up /\ job \in {"ask", "heal-card", "master-ask"}
  /\ img' = CASE job = "ask"        -> AddQuestion(img, LatestQuestion)
              [] job = "heal-card"  -> RecordReviewMaxedQuestion(img, LatestQuestion)
              [] job = "master-ask" -> RecordMasterHumanQuestion(img, LatestQuestion)
  /\ job' = "context" /\ Keeps(hub) /\ NoHubFault

SetContext ==
  /\ Up /\ job = "context"
  /\ img' = SetResumeContext(img, LatestQuestion)
  /\ job' = "none" /\ Keeps(hub) /\ NoHubFault

\* A failure, or an orphan with nothing to re-drive, goes to the master.
PostRequest ==
  /\ Up /\ CanComment /\ hub.open
  /\ \/ job = "driving"
     \/ NoJob /\ StatusNow = "running" /\ ~hub.pr
  /\ hub' = Commented("request") /\ job' = "request" /\ Keeps(img) /\ NoHubFault

RecordRequest ==
  /\ Up /\ job = "request"
  /\ img' = RecordHarnessMasterTriage(img) /\ job' = "none" /\ Keeps(hub) /\ NoHubFault

Adjudicate ==
  /\ Up /\ NoJob /\ StatusNow = "master-triage" /\ hub.open
  /\ img' = RecordMasterInterventionStarted(img) /\ job' = "adjudicating"
  /\ Keeps(hub) /\ NoHubFault

\* retry-pipeline leaves the queue; the issue's labels stay as they are.
MasterHandsBack ==
  /\ Up /\ job = "adjudicating"
  /\ img' = RecordResumed(img) /\ job' \in {"driving", "none"} /\ Keeps(hub) /\ NoHubFault

\* The other recoveries go through the executor's resume.
MasterContinues ==
  /\ Up /\ job = "adjudicating"
  /\ hub' = Without({"ready-for-agent"} \cup Paused) /\ job' = "continuing"
  /\ Keeps(img) /\ NoHubFault

\* The master's terminal: its card, in a question's form, and its facts.
MasterGivesUp ==
  /\ Up /\ job = "adjudicating" /\ CanComment
  /\ hub' = Commented("question") /\ img' = RecordMasterStuck(img) /\ job' = "none"
  /\ Keeps(<<>>) /\ NoHubFault

ParkCi ==
  /\ Up /\ job = "driving" /\ hub.pr
  /\ img' = RecordCiAwaited(img) /\ job' = "label-ci" /\ Keeps(hub) /\ NoHubFault

LabelCi ==
  /\ Up /\ job = "label-ci" /\ job' = "none"
  /\ \/ hub' = With({"awaiting-ci"}) /\ NoHubFault
     \/ HubFault("label") /\ UNCHANGED hub
  /\ Keeps(img)

ResumeAfterCi ==
  /\ Up /\ NoJob /\ StatusNow = "awaiting-ci" /\ hub.pr
  /\ img' = RecordResumed(img) /\ job' = "unlabel-ci" /\ Keeps(hub) /\ NoHubFault

UnlabelCi ==
  /\ Up /\ job = "unlabel-ci" /\ job' = "driving"
  /\ \/ hub' = Without({"awaiting-ci"}) /\ NoHubFault
     \/ HubFault("label") /\ UNCHANGED hub
  /\ Keeps(img)

ParkMerge ==
  /\ Up /\ job = "driving" /\ hub.pr
  /\ img' = RecordReviewPassed(img) /\ job' = "none" /\ Keeps(hub) /\ NoHubFault

Integrate ==
  /\ Up /\ NoJob /\ StatusNow = "awaiting-merge" /\ hub.pr
  /\ hub' = [hub EXCEPT !.pr = FALSE, !.open = FALSE] /\ job' = "merged"
  /\ Keeps(img) /\ NoHubFault

RecordMerge ==
  /\ Up /\ job = "merged"
  /\ img' = RecordRunEnded(RecordMerged(img), "merged") /\ job' = "none"
  /\ Keeps(hub) /\ NoHubFault

\* A row listed as running with its PR open is re-driven.
Recover ==
  /\ Up /\ NoJob /\ StatusNow = "running" /\ hub.pr /\ hub.open
  /\ job' = "driving" /\ Keeps(<<hub, img>>) /\ NoHubFault

-----------------------------------------------------------------------------
(* The operator.  submit posts the answer, then swaps the label.           *)
Answerable == hub.open /\ ~Labelled("agent-stuck") /\ hub.labels \cap Paused # {}

Answer ==
  /\ Answerable /\ LatestQuestion # 0 /\ CanComment
  /\ ~AnsweredAfter(LatestQuestion)
  /\ \/ /\ hub' = [Commented("answer") EXCEPT
                     !.labels = (@ \ Paused) \cup {"ready-for-agent"}] /\ NoHubFault
     \/ HubFault("label") /\ hub' = Commented("answer")
  /\ Keeps(<<img, job>>)

\* A person takes up a stuck issue again.
ReArm ==
  /\ HubFault("person") /\ Labelled("agent-stuck") /\ hub.open
  /\ hub' = [hub EXCEPT !.labels = {"ready-for-agent"}] /\ lost' = {}
  /\ UNCHANGED <<img, job, tick, boot>>

\* Or solves it past the daemon, whose next pass closes the run (closeOutStuckRun).
CloseIssue ==
  /\ HubFault("person") /\ Labelled("agent-stuck") /\ hub.open
  /\ hub' = [hub EXCEPT !.open = FALSE, !.pr = FALSE] /\ lost' = {}
  /\ UNCHANGED <<img, job, tick, boot>>
CloseOut ==
  /\ Up /\ NoJob /\ img.row /\ ~hub.open /\ StatusNow = "agent-stuck"
  /\ img' = RecordRunEnded(img, "closed") /\ Keeps(<<hub, job>>) /\ NoHubFault

-----------------------------------------------------------------------------
(* The tick: its listing, the scan of the paused runs, and at its end the  *)
(* label pass, on the labels of the listing and the store of the moment.   *)
Scanned == img.row /\ hub.open /\ StatusNow \in Paused
Resumable == Scanned /\ Labelled("ready-for-agent") /\ img.context # 0
             /\ AnsweredAfter(img.context)
Stranded  == Scanned /\ ~Labelled("ready-for-agent") /\ LatestQuestion # 0
             /\ AnsweredAfter(LatestQuestion)

Snapshot == [at |-> "adopt", labels |-> hub.labels, stranded |-> Stranded,
             resumable |-> Resumable]
Scan ==
  /\ Up /\ tick = {} /\ hub.open
  /\ tick' = {Snapshot}
  /\ IF NoJob /\ Resumable
     THEN IF img.fold.asking
          THEN /\ img' = RecordMasterInterventionStarted(img) /\ job' = "adjudicating"
               /\ UNCHANGED hub
          ELSE /\ hub' = Without({"ready-for-agent"} \cup Paused) /\ job' = "resuming"
               /\ UNCHANGED img
     ELSE UNCHANGED <<hub, img, job>>
  /\ UNCHANGED <<boot, lost>> /\ NoHubFault

\* resume: the worktree is attached between the labels and the facts.
Resumed == RecordResumed(AnswerAll(img))

Resume ==
  /\ Up /\ job \in {"resuming", "continuing"}
  /\ \/ img' = Resumed /\ job' = "driving" /\ UNCHANGED hub /\ NoHubFault
     \/ \* the drive met a rate limit: deferResume, which restores pauses only
        /\ HubFault("limit") /\ hub' = With({"ready-for-agent"}) /\ job' = "none"
        /\ img' = IF job = "resuming"
                  THEN RestorePausedStatus(Resumed, StatusNow, img.context) ELSE Resumed
  /\ Keeps(<<>>)

\* planAdoption: a park of the build before the master, or a worker's question that
\* was answered and never re-armed; never a question that still waits.
Adoptable(t) ==
  /\ img.row /\ StatusNow # "master-triage"
  /\ t.labels \cap {"review-maxed", "agent-stuck", "awaiting-answer"} # {}
  /\ ~("awaiting-answer" \in t.labels /\ img.open # {} /\ ~t.stranded)
  /\ \/ "review-maxed" \in {StatusNow} \cup t.labels
     \/ "agent-stuck" \notin {StatusNow} \cup t.labels /\ t.stranded /\ ~img.fold.asking

\* stripAdoptedLabels
Stripped(t) == {"review-maxed", "agent-stuck"} \cap t.labels

\* adoptPreCutoverStates, before the master's queue is served.
Adopt ==
  /\ Up /\ UNCHANGED <<job, boot, lost>>
  /\ \E t \in tick :
     /\ t.at = "adopt" /\ tick' = {[t EXCEPT !.at = "labels"]}
     /\ \/ ~Adoptable(t) /\ UNCHANGED <<hub, img>> /\ NoHubFault
        \/ /\ Adoptable(t) /\ CanComment /\ img' = RecordHarnessMasterTriage(img)
           /\ \E gone \in SUBSET Stripped(t) :
                /\ IF gone = Stripped(t) THEN NoHubFault ELSE HubFault("label")
                /\ hub' = [Commented("request") EXCEPT !.labels = @ \ gone]

StateEffect == [s \in {"awaiting-answer", "review-maxed", "agent-stuck", "awaiting-merge",
                       "master-triage"} |-> s]
\* desiredStateLabel, on the labels listed (and re-armed) before.
DesiredLabels(status, labels) ==
  IF status \notin DOMAIN StateEffect \/ "ready-for-agent" \in labels
     \/ ("daemon-anomaly" \in labels /\ StateEffect[status] \notin labels)
  THEN {} ELSE {StateEffect[status]}

\* mutant: a re-armed pause counts as one that resumes.
TrustsReArm(t, labels) == StatusNow \notin labels /\ "ready-for-agent" \notin labels
\* A pause that neither resumes now nor is on show.
Unserved(t, labels) == StatusNow \notin labels
\* classifyIssueState, for the states this module's issue can be in.
Island(t, labels) ==
  /\ NoJob
  /\ \/ StatusNow = "running"
     \/ StatusNow \in Paused /\ ~t.resumable /\ Unserved(t, labels)
SelfHealing(t, labels) ==
  NoJob /\ StatusNow \in Paused /\ ~t.resumable /\ StatusNow \in labels /\ t.stranded
NoRun(labels) == StatusNow = "none" /\ labels \cap Paused # {}

\* reconcileStateLabel: the labels that differ, each write on its own.
LabelWrites(t, desired) == (desired \ t.labels) \cup ((t.labels \cap Range(StateEffect)) \ desired)

\* mutant: nobody looks for the answer without its label.
NeverReArms(t) == {}
\* reArmAnsweredPause, for a run that still is paused.
ReArmed(t) == IF t.stranded /\ StatusNow \in Paused THEN {"ready-for-agent"} ELSE {}

\* An island with a run goes to the master, the rest is flagged.
LabelPass ==
  /\ Up
  /\ \E t \in {t \in tick : t.at = "labels"} :
     LET desired == DesiredLabels(StatusNow, t.labels)
         writes  == IF img.row THEN LabelWrites(t, desired) ELSE {}
         seen    == IF img.row THEN (t.labels \ Range(StateEffect)) \cup desired ELSE t.labels
         island  == Island(t, seen) /\ hub.open
         flag    == IF SelfHealing(t, seen) \/ NoRun(seen) THEN {"daemon-anomaly"} ELSE {}
     IN /\ island => CanComment
        /\ \E done \in SUBSET writes :
           /\ IF done = writes THEN NoHubFault ELSE HubFault("label")
           /\ hub' = [hub EXCEPT
                !.comments = IF island THEN Append(@, "request") ELSE @,
                !.labels = (((@ \ (t.labels \cap done)) \cup (desired \cap done))
                             \ {"daemon-anomaly"}) \cup flag \cup ReArmed(t)]
        /\ img' = LET told == IF island \/ img.fold.anomaly # (flag # {})
                              THEN RecordAnomaly(img, island \/ flag # {}) ELSE img
                  IN IF island THEN RecordHarnessMasterTriage(told) ELSE told
  /\ tick' = {} /\ UNCHANGED <<job, boot, lost>>

-----------------------------------------------------------------------------
(* Restarts.  What GitHub says of the run is what the rebuild reads.       *)
\* A rest is mirrored when the label pass has been there, or the answer has.
Rests == [status |-> StatusNow, comment |-> img.context, asking |-> img.fold.asking /\ RequestBefore(img.context)]
Mirrored ==
  \/ hub.labels = DesiredLabels(StatusNow, {}) \cup (IF StatusNow = "awaiting-ci"
                                                    THEN {"awaiting-ci"} ELSE {})
  \/ StatusNow = "awaiting-answer" /\ hub.labels = {"ready-for-agent"}

\* What the rebuild has read: the labels, then the comments.
Reading(at) == [at |-> at, labels |-> hub.labels, question |-> LatestQuestion,
                request |-> Places("request") # {}, asked |-> RequestBefore(LatestQuestion)]
Ready == [at |-> "up", labels |-> {}, question |-> 0, request |-> FALSE, asked |-> FALSE]

Crash ==
  /\ boot.at # "down" /\ HubFault("crash")
  /\ boot' = [Ready EXCEPT !.at = "down"] /\ job' = "none" /\ tick' = {} /\ lost' = {} /\ UNCHANGED <<hub, img>>

LoseStore ==
  /\ boot.at = "down" /\ HubFault("lost") /\ img # NoImage
  /\ img' = NoImage
  /\ lost' = IF Mirrored /\ hub.pr /\ hub.open /\ (StatusNow \in Paused => img.context = LatestQuestion)
             THEN {Rests} ELSE {}
  /\ UNCHANGED <<hub, job, tick, boot>>

Read(l) == l \in boot.labels

\* reconstructPaused: the label, or a re-armed question, and its card.
PausedLabel ==
  CASE Read("review-maxed") -> "review-maxed"
    [] ~Read("review-maxed") /\ (Read("awaiting-answer") \/ Read("ready-for-agent")) -> "awaiting-answer"
    [] OTHER -> "none"
RebuiltPause == IF boot.question = 0 THEN "none" ELSE PausedLabel
\* mutant: the question of an intervention is rebuilt as anybody's.
ForgetsMaster == AddQuestion(img, boot.question)
RebuiltQuestion ==
  IF RebuiltPause = "awaiting-answer" /\ boot.asked
  THEN RecordMasterHumanQuestion(RecordMasterInterventionStarted(img), boot.question)
  ELSE AddQuestion(img, boot.question)

RebuiltRest ==
  CASE Read("awaiting-merge") -> RecordReviewPassed(img)
    [] ~Read("awaiting-merge") /\ Read("awaiting-ci") -> RecordCiAwaited(img)
    [] OTHER -> IF Read("master-triage") /\ boot.request
                THEN RecordHarnessMasterTriage(img) ELSE img

\* rehydrateRunsFromGitHub, first the row and then its facts.
Boot ==
  /\ boot.at = "down"
  /\ IF hub.pr /\ ~img.row /\ hub.open /\ ~Labelled("agent-stuck")
     THEN img' = UpsertRun(img, TRUE) /\ boot' = Reading("facts")
     ELSE boot' = Ready /\ UNCHANGED img
  /\ UNCHANGED <<hub, job, tick, lost>> /\ NoHubFault

BootFacts ==
  /\ boot.at = "facts"
  /\ img' = IF RebuiltPause = "none" THEN RebuiltRest ELSE RebuiltQuestion
  /\ boot' = IF RebuiltPause = "none" THEN Ready ELSE [boot EXCEPT !.at = "context"]
  /\ UNCHANGED <<hub, job, tick, lost>> /\ NoHubFault

BootContext ==
  /\ boot.at = "context" /\ boot' = Ready
  /\ LET set == SetResumeContext(img, boot.question) IN
     img' = IF RebuiltPause = "review-maxed" THEN RecordReviewMaxed(set) ELSE set
  /\ UNCHANGED <<hub, job, tick, lost>> /\ NoHubFault

-----------------------------------------------------------------------------
HubInit ==
  /\ hub = [labels |-> {"ready-for-agent"}, comments |-> <<>>, pr |-> FALSE, open |-> TRUE]
  /\ img = NoImage /\ job = "none" /\ tick = {} /\ boot = Ready /\ lost = {} /\ hubFaults = 0

HubDrives ==
  \/ RecordQuestion \/ SetContext \/ RecordRequest \/ LabelCi \/ UnlabelCi \/ RecordMerge
  \/ Resume \/ Recover

HubBoots == Boot \/ BootFacts \/ BootContext

HubNext ==
  \/ Claim \/ OpenPr \/ PostQuestion \/ PostRequest \/ Adjudicate \/ MasterHandsBack \/ MasterContinues
  \/ MasterGivesUp \/ ParkCi \/ ResumeAfterCi \/ ParkMerge \/ Integrate
  \/ HubDrives \/ HubBoots \/ Answer \/ ReArm \/ CloseIssue \/ CloseOut \/ Scan \/ Adopt \/ LabelPass \/ Crash \/ LoseStore

HubFair ==
  /\ WF_hubVars(HubDrives) /\ WF_hubVars(HubBoots) /\ WF_hubVars(Scan) /\ WF_hubVars(Adopt \/ LabelPass)
  /\ WF_hubVars(MasterHandsBack \/ MasterContinues)
HubSpec == HubInit /\ [][HubNext]_hubVars /\ HubFair

-----------------------------------------------------------------------------
(***************************************************************************)
(* A run whose store is lost is rebuilt from GitHub as it rested: the same *)
(* status, the same question, and the master's question as the master's,   *)
(* if the label pass had mirrored it and no crash cuts the rebuild short.  *)
(***************************************************************************)
RebuiltAs(was) ==
  IF was.status = "agent-stuck" THEN ~img'.row
  ELSE /\ StatusOf(img') = IF was.status = "review-maxed" /\ Read("ready-for-agent")
                           THEN "awaiting-answer" ELSE was.status
       /\ was.status \in Paused => img'.context = was.comment
       /\ was.asking /\ was.status = "awaiting-answer" => img'.fold.asking
BootEnds == ~Up /\ boot'.at = "up"
RebuiltAsItRested == [][BootEnds => \A was \in lost : RebuiltAs(was)]_hubVars

(***************************************************************************)
(* An answered pause is always taken up, although the operator's label     *)
(* swap, the daemon's own writes, the daemon or its store may be lost.     *)
(***************************************************************************)
PausedNow == Up /\ StatusNow \in Paused /\ NoJob /\ hub.open
Full == ~CanComment
AnswerHeard ==
  (PausedNow /\ LatestQuestion # 0 /\ AnsweredAfter(LatestQuestion)) ~> (~PausedNow \/ Full)

(***************************************************************************)
(* An unanswered pause comes before somebody: it is on the answer queue,   *)
(* flagged, or with the master; a stale ready-for-agent cannot hide it.    *)
(***************************************************************************)
OnShow == StatusNow \in hub.labels \/ Labelled("daemon-anomaly")
QuestionSurfaces == PausedNow ~> (~PausedNow \/ OnShow \/ Full
                                  \/ (LatestQuestion # 0 /\ AnsweredAfter(LatestQuestion)))

(***************************************************************************)
(* A run the master gave up is parked on agent-stuck, "and the daemon will *)
(* not pick it up again on its own" (the card of master/engine.ts).        *)
(***************************************************************************)
StuckStays ==
  [][StatusNow = "agent-stuck" /\ hubFaults = 0 => StatusOf(img') = "agent-stuck"]_hubVars
==============================================================================
