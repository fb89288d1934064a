-------------------------- MODULE MasterProperties --------------------------
(***************************************************************************)
(* What the escalation door, the master and its budget promise.            *)
(***************************************************************************)
EXTENDS MasterEngine

\* Every variable stays in the range its declaration names.
TypeOK ==
  /\ status \in Status /\ hist \in Histories
  /\ ctx \in {"none", "unpinned", "pinned"}
  /\ note \in Requests \cup {NoRequest} /\ card \in Cards
  /\ heard \subseteq Places /\ ready \in BOOLEAN
  /\ slot \in Slot /\ faults \in 0..MaxFaults

\* A third intervention in one phase of one span never starts, whatever was
\* replayed, reopened by an answer or cut short in between (budget.ts:87-93).
AtMostTwo == \A p \in Phases : Spent(hist, p) <= MaxInterventions

\* The master never tries the same recovery twice on one failure: not after a
\* crash that reopens the second attempt, nor after an answer (budget.ts:95-100,
\* 146-156).
NoRepeat ==
  \A p \in Phases : \A m, n \in 1..Spent(hist, p) :
    LET a == hist.taken[p][m]
        b == hist.taken[p][n]
    IN (m # n /\ a.signature = b.signature /\ a.resolution \in Autonomous)
         => a.resolution # b.resolution

\* An attempt without a ruling is the one in progress, so that no restart and
\* no answer opens a second beside it (history.ts:172-218, engine.ts:361).
OneOpen ==
  \A p \in Phases : \A n \in 1..Spent(hist, p) :
    hist.taken[p][n].resolution = "none" => hist.inProgress = <<p, n>>

\* A run in the master's queue has a request or an attempt there: nothing takes
\* the one away without the run leaving the queue (engine.ts:287-289).
QueuedHasWork ==
  status = "master-triage" => hist.pending # NoRequest \/ hist.inProgress # NoKey

\* A ruling is carried out before anything else is asked: one that was cut
\* short is never applied again once a later failure is in the queue
\* (history.ts:160-166).
RulingCurrent == At("effect") => hist.pending = NoRequest

\* A paused run waits for a question a master decided to ask, so that its
\* answer goes back to that attempt (reconciler.ts:1906, engine.ts:279-284).
QuestionOwned ==
  status = "awaiting-answer" => /\ Exists(hist, hist.awaiting)
                                /\ Record(hist, hist.awaiting).resolution = "ask-human"

\* A queued run leaves the queue, across sessions that are limited or die and
\* effects that are cut short, if its evidence reached the issue.
QueueDrains == (status = "master-triage" /\ note # NoRequest) ~> status # "master-triage"

\* An answered question is taken up, across a lost label, a lost resume context
\* and a ruling cut short, if the evidence reached the issue and the attempt
\* that asked was not itself about a pause adrift.
AnswerTaken ==
  (/\ status = "awaiting-answer" /\ "card" \in heard
   /\ note # NoRequest /\ ~Duplicate(<<PhaseOf[Island], Island>>))
     ~> status # "awaiting-answer"

\* The queue of the master and the answers to its questions are both served.
MasterServes == QueueDrains /\ AnswerTaken

-----------------------------------------------------------------------------
(* What a comment says and the code does not do.                           *)

\* "Already queued (or already being adjudicated)" (harness-escalation.ts:87):
\* a session whose failure is turned away at the door leaves its run in the
\* master's queue.
EscalationHeard ==
  [][\A req \in Requests : SessionDeduped(req) => status = "master-triage"]_vars

\* "A failed comment must not lose the escalation: [...] the engine falls back
\* to the fact's own fields when no comment exists" (harness-escalation.ts:180):
\* a run that is due has a request to adjudicate or a ruling to replay.
EvidenceSurvives ==
  \A ans \in BOOLEAN : Called(ans) => Request # NoRequest \/ CutShort(Taken(ans))

\* "an answered question that could ask again is the one loop a human in the
\* middle would otherwise make unbounded" (budget.ts:137): an attempt that an
\* answer reopened is not ruled ask-human again.
AskedOnce ==
  \A p \in Phases : \A n \in 1..Spent(hist, p) :
    hist.taken[p][n].resumed => hist.taken[p][n].resolution # "ask-human"

=============================================================================
