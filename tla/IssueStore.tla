----------------------------- MODULE IssueStore -----------------------------
(***************************************************************************)
(* What store/store.ts keeps of one issue, and its record methods, each    *)
(* the fact or two that it appends in one transaction: the run row, the    *)
(* fold of the issue's stream (events/decider.ts) and the two projections  *)
(* kept beside it, open questions and the resume context.                  *)
(*                                                                         *)
(* A question is known by its comment on the issue; 0 stands for null.     *)
(***************************************************************************)
EXTENDS Naturals, Sequences, SequencesExt, RunLifecycle

Fact(type) == [type |-> type, comment |-> 0]
FactOn(type, comment) == [type |-> type, comment |-> comment]

\* initialIssueState, and an issue the store knows nothing of.
InitialFold == [status |-> "none", ended |-> FALSE, anomaly |-> FALSE, asking |-> FALSE]
NoImage == [row |-> FALSE, rowPr |-> FALSE, fold |-> InitialFold, open |-> {}, context |-> 0]

Asks == {"Escalated", "MasterHumanQuestionRequested"}

\* evolve, and awaitingHuman of the master's own fold.
Evolve(s, f) ==
  [status  |-> StatusAfter(s.status, f.type),
   ended   |-> \/ f.type \in {"RunEnded", "RunEndedClosed"}
               \/ s.ended /\ f.type # "RunStarted",
   anomaly |-> \/ f.type = "AnomalyDetected"
               \/ s.anomaly /\ f.type # "AnomalyCleared",
   asking  |-> AskingAfter(s.asking, f.type)]

\* createOpenQuestionsProjection: an answer closes its comment's question, or all.
QuestionsAfter(open, f) ==
  CASE f.type \in Asks -> open \cup {f.comment}
    [] f.type = "QuestionAnswered" -> IF f.comment = 0 THEN {} ELSE open \ {f.comment}
    [] OTHER -> open

\* createResumeContextProjection: a fresh run has no checkpoint.
ContextAfter(context, f) == IF f.type = "RunStarted" THEN 0 ELSE context

\* appendToIssue: a fact, all projections with it; or two, in one transaction.
Appended(img, f) ==
  [img EXCEPT !.fold = Evolve(@, f), !.open = QuestionsAfter(@, f), !.context = ContextAfter(@, f)]
AppendedBoth(img, f, g) == Appended(Appended(img, f), g)

-----------------------------------------------------------------------------
(* Rows.  A row without a fact in its stream reads as running (mapRun).    *)
UpsertRun(img, pr) == [img EXCEPT !.row = TRUE, !.rowPr = pr]
StatusOf(img) == IF ~img.row \/ img.fold.status # "none" THEN img.fold.status ELSE "running"
SetResumeContext(img, comment) == IF img.row THEN [img EXCEPT !.context = comment] ELSE img

-----------------------------------------------------------------------------
(* The record methods that move a status.                                  *)
RecordRunStarted(img) ==
  IF img.fold.status # "none" /\ ~img.fold.ended
  THEN AppendedBoth(img, Fact("RunEnded"), Fact("RunStarted")) ELSE Appended(img, Fact("RunStarted"))
AddQuestion(img, comment)             == Appended(img, FactOn("Escalated", comment))
RecordReviewMaxed(img)                == Appended(img, Fact("ReviewMaxed"))
RecordReviewMaxedQuestion(img, comment) ==
  AppendedBoth(img, FactOn("Escalated", comment), Fact("ReviewMaxed"))
RecordMasterHumanQuestion(img, comment) == Appended(img, FactOn("MasterHumanQuestionRequested", comment))
RecordReviewPassed(img)               == Appended(img, Fact("ReviewPassed"))
RecordCiAwaited(img)                  == Appended(img, Fact("CiAwaited"))
RecordHarnessMasterTriage(img)        == Appended(img, Fact("MasterTriageRequested"))
RecordMasterInterventionStarted(img)  == Appended(img, Fact("MasterInterventionStarted"))
RecordMasterStuck(img)                == AppendedBoth(img, Fact("MasterStuck"), Fact("RunEnded"))
RecordMerged(img)                     == Appended(img, Fact("Merged"))
RecordRunEnded(img, outcome) ==
  Appended(img, Fact(IF outcome = "closed" THEN "RunEndedClosed" ELSE "RunEnded"))
RecordResumed(img)                    == Appended(img, Fact("Resumed"))
RecordAnomaly(img, on)                == Appended(img, Fact(IF on THEN "AnomalyDetected" ELSE "AnomalyCleared"))
AnswerQuestion(img, comment)          == Appended(img, FactOn("QuestionAnswered", comment))
\* Every open question of the run, answered one by one before it resumes; an
\* answer moves nothing else.
AnswerAll(img) == [img EXCEPT !.open = {c \in @ : c \in AnswerQuestion(img, c).open}]
\* A resume that a rate limit defers goes back to the pause it came from.
RestorePausedStatus(img, status, comment) ==
  AppendedBoth(img, IF status = "review-maxed" THEN Fact("ReviewMaxed") ELSE FactOn("Escalated", comment),
               FactOn("QuestionAnswered", comment))
=============================================================================
