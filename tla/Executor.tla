------------------------------ MODULE Executor ------------------------------
(***************************************************************************)
(* What a session does once the reconciler has started it: the executor    *)
(* (src/executor/executor.ts) driving the implementation agent, the review *)
(* loop and the integration, and the master's intervention that drives the *)
(* executor from inside its own slot (src/master/engine.ts, pipeline.ts).  *)
(*                                                                         *)
(* Fused into one step: the awaits of one escalation (comment, label, then *)
(* the fact), and the fact a step appends with the label it writes after   *)
(* it.  The rounds inside a review phase are one await ("working").        *)
(***************************************************************************)
EXTENDS DaemonState

\* A slot or merge lease is freed; the master lease goes with its session.
SettleKeeping(l, i) ==  \* mutant: the finally forgets handle.release()
  sess' = [sess EXCEPT ![l][i] = Idle] /\ UNCHANGED lease
Settle(l, i) ==
  /\ sess' = [sess EXCEPT ![l][i] = Idle]
  /\ lease' = IF l = "build" /\ lease = i THEN NoIssue ELSE lease

\* discardOrphan: an open issue goes to the master, a closed one is closed out.
Discard(i, sawIssueOpen) ==
  /\ Record(i, IF sawIssueOpen THEN "MasterTriageRequested" ELSE "RunEndedClosed")
  /\ wt' = wt \ {i}

-----------------------------------------------------------------------------
(* Entering: the worktree is attached, then the row and the agent are written. *)

\* In the merge lane the new worktree is on disk, and nothing points at it,
\* until attach returns.
Attach(i) ==
  /\ sess["merge"][i].at = "attach"
  /\ GoTo("merge", i, "attached")
  /\ wt' = wt \cup {i}
  /\ Calm /\ UNCHANGED <<runs, github, lease, survivors, tickVars>>

\* A rejected attach is before the failure guard: the slot frees, no fact.
AttachFails(l, i) ==
  /\ sess[l][i].at = "attach"
  /\ Surprise("attachFails")
  /\ Settle(l, i)
  /\ UNCHANGED <<runs, github, wt, survivors, tickVars>>

Enter(l, i) ==
  /\ \/ l = "build" /\ sess[l][i].at = "attach" /\ wt' = wt \cup {i}
     \/ l = "merge" /\ sess[l][i].at = "attached" /\ UNCHANGED wt
  /\ rows' = rows \cup {i}
  /\ IF sess[l][i].work = "resume"
     THEN /\ Record(i, "Resumed")
          /\ \E w \in {"impl", "ciReview"} : Turn(l, i, "working", w)
     ELSE GoTo(l, i, "working") /\ UNCHANGED stream
  /\ Calm /\ UNCHANGED <<github, lease, survivors, tickVars>>

-----------------------------------------------------------------------------
(* The implementation session: driveSession.                               *)

Implementing(i) == /\ sess["build"][i].at = "working"
                   /\ sess["build"][i].work = "impl"

\* The session ends and the branch's PR is read: review it, or without one
\* hand the run to the master.
ImplFinishes(i) ==
  /\ Implementing(i)
  /\ \E p \in {pr[i], "open"} :
       /\ pr' = [pr EXCEPT ![i] = p]
       /\ IF p = "none"
          THEN Record(i, "MasterTriageRequested") /\ Leave("build", i)
          ELSE Start("build", i, "working", "review") /\ UNCHANGED stream
  /\ Calm /\ UNCHANGED <<rows, open, ready, answered, wt, lease, survivors, tickVars>>

\* escalate or self-stop: the request opens the WIP checkpoint PR.
ImplHandsUp(i) ==
  /\ Implementing(i)
  /\ pr' = [pr EXCEPT ![i] = "open"]
  /\ Record(i, "MasterTriageRequested")
  /\ Leave("build", i)
  /\ Calm /\ UNCHANGED <<rows, open, ready, answered, wt, lease, survivors, tickVars>>

ImplLimited(i) ==
  /\ Implementing(i)
  /\ Surprise("limited")
  /\ ready' = ready \cup {i}
  /\ rows' = rows \ {i}
  /\ Leave("build", i)
  /\ UNCHANGED <<stream, open, pr, answered, wt, lease, survivors, tickVars>>

\* The PR read is rate limited: the session returns, the row stays as it is.
ImplReadFails(i) ==
  /\ Implementing(i)
  /\ Surprise("prReadFails")
  /\ Leave("build", i)
  /\ UNCHANGED <<runs, github, wt, lease, survivors, tickVars>>

\* deferResume: a resumed session is rate limited.  The pause is restored
\* from the Run snapshot, and only a paused snapshot can be restored.
PausedRun == {"awaiting-answer", "review-maxed"}
Restores  == [s \in PausedRun |-> IF s = "review-maxed" THEN "ReviewMaxed" ELSE "Escalated"]

ResumeDefers(i) ==
  LET from == sess["build"][i].from IN
  /\ sess["build"][i].at = "working"
  /\ sess["build"][i].work \in {"impl", "ciReview"}
  /\ from \in PausedRun \cup {"master-triage"}
  /\ Surprise("resumeDefers")
  /\ IF from \in PausedRun
     THEN Record(i, Restores[from])
     ELSE UNCHANGED stream
  /\ ready' = ready \cup {i}
  /\ Leave("build", i)
  /\ UNCHANGED <<rows, open, pr, answered, wt, lease, survivors, tickVars>>

-----------------------------------------------------------------------------
(* The review loop and the integration.                                    *)

Reviewing(l, i) == /\ sess[l][i].at = "working"
                   /\ sess[l][i].work \in {"review", "ciReview", "integrate"}

\* The loop's verdict: park for CI, queue for the merge, or the master.
ReviewVerdict == [review |-> "CiAwaited", ciReview |-> "ReviewPassed"]

ReviewHandsOff(i) ==
  /\ sess["build"][i].at = "working"
  /\ sess["build"][i].work \in DOMAIN ReviewVerdict
  /\ Record(i, ReviewVerdict[sess["build"][i].work])
  /\ Leave("build", i)
  /\ Calm /\ UNCHANGED <<rows, github, wt, lease, survivors, tickVars>>

ReviewEscalates(l, i) ==
  /\ Reviewing(l, i)
  /\ Record(i, "MasterTriageRequested")
  /\ Leave(l, i)
  /\ Calm /\ UNCHANGED <<rows, github, wt, lease, survivors, tickVars>>

\* gh pr merge succeeds, which closes the issue on GitHub; only then are
\* Merged and RunEnded appended.
Land(l, i) ==
  /\ Reviewing(l, i) /\ sess[l][i].work = "integrate"
  /\ pr[i] = "open"
  /\ pr' = [pr EXCEPT ![i] = "merged"] /\ open' = open \ {i}
  /\ GoTo(l, i, "landed")
  /\ Calm /\ UNCHANGED <<runs, ready, answered, wt, lease, survivors, tickVars>>

RecordMerged(l, i) ==
  /\ sess[l][i].at = "landed"
  /\ Record(i, "Merged")
  /\ Leave(l, i)
  /\ Calm /\ UNCHANGED <<rows, github, wt, lease, survivors, tickVars>>

\* A rate limit leaves the run queued: the next tick leases it again.
IntegrateDefers(l, i) ==
  /\ Reviewing(l, i) /\ sess[l][i].work = "integrate"
  /\ Surprise("integrateDefers")
  /\ Leave(l, i)
  /\ UNCHANGED <<runs, github, wt, lease, survivors, tickVars>>

-----------------------------------------------------------------------------
(* withFailureGuard: a thrown error, its disposition, and the teardown.    *)

Throws(l, i) ==
  /\ HasAgent(l, i) /\ sess[l][i].at # "failing"
  /\ Surprise("throws")
  /\ GoTo(l, i, "failing")
  /\ UNCHANGED <<runs, github, wt, lease, survivors, tickVars>>

\* A drain or a usage limit ends the session with nothing recorded.
Interrupted(l, i) ==
  /\ HasAgent(l, i) /\ sess[l][i].at # "failing"
  /\ Surprise("interrupted")
  /\ Leave(l, i)
  /\ UNCHANGED <<runs, github, wt, lease, survivors, tickVars>>

\* The issue is open: the master gets it, unless this slot's own unfinished
\* intervention already carries the same request.
FailureEscalates(l, i) ==
  /\ sess[l][i].at = "failing"
  /\ i \in open
  /\ \/ Record(i, "MasterTriageRequested")
     \/ lease = i /\ UNCHANGED stream
  /\ Leave(l, i)
  /\ Calm /\ UNCHANGED <<rows, github, wt, lease, survivors, tickVars>>

\* The issue is closed: the span ends and the orphaned PR is closed.
FailureClosesOut(l, i) ==
  /\ sess[l][i].at = "failing"
  /\ i \notin open
  /\ Record(i, "RunEndedClosed")
  /\ pr' = [pr EXCEPT ![i] = IF @ = "open" THEN "closed" ELSE @]
  /\ Leave(l, i)
  /\ Calm /\ UNCHANGED <<rows, open, ready, answered, wt, lease, survivors, tickVars>>

\* GitHub refuses the read or the escalation: nothing is recorded.
FailureDefers(l, i) ==
  /\ sess[l][i].at = "failing"
  /\ Surprise("escalateFails")
  /\ Leave(l, i)
  /\ UNCHANGED <<runs, github, wt, lease, survivors, tickVars>>

Teardown(l, i) ==
  /\ sess[l][i].at = "teardown"
  /\ Settle(l, i)
  /\ wt' = wt \ {i}
  /\ Calm /\ UNCHANGED <<runs, github, survivors, tickVars>>

-----------------------------------------------------------------------------
(* The leased integration reads its target before it attaches.             *)

MergeReads(i) ==
  /\ sess["merge"][i].at = "resolve"
  /\ GoTo("merge", i, IF i \in open THEN "sawOpen" ELSE "sawClosed")
  /\ Calm /\ UNCHANGED <<runs, github, wt, lease, survivors, tickVars>>

MergeGoesOn(i) ==
  /\ sess["merge"][i].at = "sawOpen" /\ pr[i] = "open"
  /\ GoTo("merge", i, "attach")
  /\ Calm /\ UNCHANGED <<runs, github, wt, lease, survivors, tickVars>>

MergeDiscards(i) ==
  /\ sess["merge"][i].at \in {"sawOpen", "sawClosed"}
  /\ sess["merge"][i].at = "sawOpen" => pr[i] # "open"
  /\ Discard(i, sess["merge"][i].at = "sawOpen")
  /\ Settle("merge", i)
  /\ Calm /\ UNCHANGED <<rows, github, survivors, tickVars>>

\* The reads or the escalation are refused: the run stays queued.
MergeReadFails(i) ==
  /\ sess["merge"][i].at \in {"resolve", "sawOpen"}
  /\ Surprise("readFails")
  /\ Settle("merge", i)
  /\ UNCHANGED <<runs, github, wt, survivors, tickVars>>

-----------------------------------------------------------------------------
(* The master's intervention, inside a build slot and under the lease: its *)
(* context and route, its session, then the one resolution it selects.     *)
(* None of them touches ready-for-agent, which an operator's answer put    *)
(* on the issue; only the resume of a continued run takes it off.          *)

Opening(i)      == /\ sess["build"][i].at = "resolve"
                   /\ sess["build"][i].work = "master"
Adjudicating(i) == /\ sess["build"][i].at = "working"
                   /\ sess["build"][i].work = "master"

\* A fresh attempt, one that was cut short, or one that takes up an answer.
MasterStarts(i) ==
  /\ Opening(i)
  /\ Record(i, "MasterInterventionStarted")
  /\ GoTo("build", i, "working")
  /\ Calm /\ UNCHANGED <<rows, github, wt, lease, survivors, tickVars>>

\* resolved-and-continue, redispatch-tier-1: leaveQueue, then executor.resume.
MasterContinues(i) ==
  /\ Adjudicating(i)
  /\ Record(i, "Resumed")
  /\ ready' = ready \ {i}
  /\ Turn("build", i, "attach", "resume")
  /\ Calm /\ UNCHANGED <<rows, open, pr, answered, wt, lease, survivors, tickVars>>

\* retry-pipeline: with a live PR review or integrate it, else leave the row.
MasterRetries(i) ==
  /\ Adjudicating(i)
  /\ Record(i, "Resumed")
  /\ \/ /\ pr[i] = "open"
        /\ \E w \in {"review", "integrate"} : Start("build", i, "attach", w)
        /\ UNCHANGED lease
     \/ Settle("build", i)
  /\ Calm /\ UNCHANGED <<rows, github, wt, survivors, tickVars>>

\* The question is a new card, with no answer behind it, unless the latest card
\* on the issue has its headline: that one is taken over, answer and all.
MasterAsksHuman(i) ==
  /\ Adjudicating(i)
  /\ Record(i, "MasterHumanQuestionRequested")
  /\ answered' \in {answered, answered \ {i}}
  /\ Settle("build", i)
  /\ Calm /\ UNCHANGED <<rows, open, pr, ready, wt, survivors, tickVars>>

\* terminal-stuck; or the budget of interventions is spent, which never ends
\* an attempt that takes up an answer.
MasterGivesUp(i) ==
  /\ Adjudicating(i) \/ (Opening(i) /\ sess["build"][i].from \notin PausedRun)
  /\ Record(i, "MasterStuck")
  /\ Settle("build", i)
  /\ Calm /\ UNCHANGED <<rows, github, wt, survivors, tickVars>>

\* No provider, a usage limit, a failed session: the run stays queued.
MasterDefers(i) ==
  /\ Opening(i) \/ Adjudicating(i)
  /\ Surprise("masterDefers")
  /\ Settle("build", i)
  /\ UNCHANGED <<runs, github, wt, survivors, tickVars>>

-----------------------------------------------------------------------------

Progress(l, i) == \/ Enter(l, i) \/ ReviewEscalates(l, i) \/ Land(l, i) \/ RecordMerged(l, i)
                  \/ FailureEscalates(l, i) \/ FailureClosesOut(l, i)
                  \/ Teardown(l, i)

BuildProgress(i) == \/ ImplFinishes(i) \/ ImplHandsUp(i) \/ ReviewHandsOff(i)
                    \/ MasterStarts(i) \/ MasterContinues(i) \/ MasterRetries(i)
                    \/ MasterAsksHuman(i) \/ MasterGivesUp(i)

MergeProgress(i) == \/ MergeReads(i) \/ MergeGoesOn(i)
                    \/ MergeDiscards(i) \/ Attach(i)

SessionFault(l, i) == \/ AttachFails(l, i) \/ IntegrateDefers(l, i)
                      \/ Throws(l, i) \/ Interrupted(l, i) \/ FailureDefers(l, i)

BuildFault(i) == \/ ImplLimited(i) \/ ImplReadFails(i)
                 \/ ResumeDefers(i) \/ MasterDefers(i) \/ MergeReadFails(i)

SessionStep == \/ \E l \in Lane, i \in Issues : Progress(l, i) \/ SessionFault(l, i)
               \/ \E i \in Issues : \/ BuildProgress(i) \/ MergeProgress(i)
                                    \/ BuildFault(i)

=============================================================================
