---------------------------- MODULE RunLifecycle ----------------------------
(***************************************************************************)
(* The vocabulary every other module shares: the status of a run, the      *)
(* facts appended to an issue's event stream, and the status the pure fold *)
(* of the store (src/store/events/decider.ts) projects after each fact.    *)
(*                                                                         *)
(* A run row's status is never written directly: it is read back from the  *)
(* projection of its issue's stream, so the only way any part of the       *)
(* daemon moves a run is to append one of these facts.  "none" is the      *)
(* projection of a stream in which no run has started.                     *)
(***************************************************************************)

RunStatus == {"running", "awaiting-answer", "review-maxed", "awaiting-ci",
              "awaiting-merge", "master-triage", "agent-stuck", "merged",
              "closed"}

Status == RunStatus \cup {"none"}

\* A prior run in one of these states does not stop its issue from being
\* picked up again; every other state is owned by a live path of the daemon.
ReAdmittable == {"agent-stuck", "merged", "closed"}

\* The span is over for good: neither in flight nor waiting for a person.
SpanClosed == {"merged", "closed"}

NonTerminal == RunStatus \ ReAdmittable

(***************************************************************************)
(* The facts that carry a status.  RunEnded keeps the status that the fact *)
(* before it pinned, except with outcome "closed" (written here as the     *)
(* separate name RunEndedClosed).  The master's question is one commit of  *)
(* two facts, MasterHumanQuestionRequested and Escalated, written here as  *)
(* the first.  The facts left out (QuestionAnswered, ReviewPhasePassed,    *)
(* AnomalyDetected, DecisionPublished, ...) never move the status.         *)
(***************************************************************************)
Projects == [RunStarted                |-> "running",
             Resumed                   |-> "running",
             Escalated                 |-> "awaiting-answer",
             MasterHumanQuestionRequested |-> "awaiting-answer",
             ReviewPassed              |-> "awaiting-merge",
             CiAwaited                 |-> "awaiting-ci",
             ReviewMaxed               |-> "review-maxed",
             RunStuck                  |-> "agent-stuck",
             MasterStuck               |-> "agent-stuck",
             Merged                    |-> "merged",
             RunEndedClosed            |-> "closed",
             MasterTriageRequested     |-> "master-triage",
             MasterInterventionStarted |-> "master-triage"]

StatusAfter(s, fact) == IF fact \in DOMAIN Projects THEN Projects[fact] ELSE s

\* Whether the stream's latest question is the master's own and not taken up
\* again: awaitingHuman in the fold of src/master/history.ts.
AskingAfter(a, fact) ==
  \/ fact = "MasterHumanQuestionRequested"
  \/ a /\ fact \notin {"RunStarted", "MasterInterventionStarted"}

=============================================================================
