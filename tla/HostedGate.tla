------------------------------ MODULE HostedGate ------------------------------
(***************************************************************************)
(* The wait for mergeability (awaitMergeable of review-loop.ts) and the    *)
(* gate that GitHub's hosted reviewer puts into it (hosted-gate.ts,        *)
(* hosted-review.ts): polls of the merge state, the conversations on the   *)
(* pull request, the fix lane, and the reply and resolution of each one.   *)
(*                                                                         *)
(* A thread says who opened it, which comment is its latest, the head it   *)
(* was written against and whether it is resolved.  Comments are known by  *)
(* what opened the thread ("finding"), the harness's reply ("reply") and   *)
(* the reviewer's next word ("again"): the hash of a comment is its name.  *)
(***************************************************************************)
EXTENDS Naturals, FiniteSets

CONSTANTS Threads,         \* conversations the pull request may have
          AuthorOf,        \* who opens each: "hosted", "human" or "bot"
          MaxHead,         \* bound: pushes of the branch
          MaxPolls,        \* polls of the wait (ciTimeoutMinutes / interval)
          ObservePolls,    \* DEFAULT_OBSERVATION_POLLS
          FixBudget,       \* review.maxFixAttempts
          Dispositions,    \* whether the fix port returns any (see agents.ts)
          GateFaults, MaxGateFaults  \* faults explored, and how many

VARIABLES thread,     \* each conversation as GitHub has it
          prHead,     \* the head of the pull request
          repliedTo,  \* fold of the issue's stream: thread -> hash replied to
          resolvedBy, \* fold of the issue's stream: threads it resolved
          waiting,    \* where the wait stands, see Idle
          replies,    \* history: replies since the reviewer's latest comment
          torn,       \* history: a thread was left between reply and resolution
          gateFaults

gateVars == <<thread, prHead, repliedTo, resolvedBy, waiting, replies, torn, gateFaults>>

Unopened == [last |-> "none", sha |-> 0, resolved |-> FALSE]

\* The wait's locals: poll, fix attempts, the head of the snapshot, the
\* findings handed to the fix lane, what is still to be disposed of; at the
\* end, the blocker the master is told of.
Idle == [at |-> "idle", state |-> "UNKNOWN", why |-> "none", poll |-> 0, looks |-> 0, attempts |-> 0, head |-> 0,
         fresh |-> {}, todo |-> {}, fixed |-> {}, deferred |-> FALSE,
         hash |-> [t \in Threads |-> "none"], cur |-> "none"]

GateFault(f) == f \in GateFaults /\ gateFaults < MaxGateFaults
                /\ gateFaults' = gateFaults + 1
GateCalm == UNCHANGED gateFaults

Opened == {t \in Threads : thread[t].last # "none"}

\* mutant: a resolved conversation is still a finding.
AdmitsResolved(head) == {t \in Opened : thread[t].sha = head}
\* admitThread: unresolved, and anchored to this head.
Admitted(head) == {t \in Opened : ~thread[t].resolved /\ thread[t].sha = head}
Stale(head) == {t \in Opened : ~thread[t].resolved /\ thread[t].sha # head}

By(author, ts) == {t \in ts : AuthorOf[t] = author}

\* hostedCause: an author nobody can classify comes before the findings.
CauseOf(ts) ==
  IF By("bot", ts) # {} THEN "unknown-bot"
  ELSE IF By("hosted", ts) # {} THEN "hosted-review"
  ELSE IF ts # {} THEN "human-review" ELSE "none"

\* observe: the reviewer has spoken about this head, or about nothing.
SawThisHead(head) ==
  Opened = {} \/ \E t \in Opened : thread[t].sha = head

AlreadyRepliedTo(t) == repliedTo[t] = thread[t].last

-----------------------------------------------------------------------------
Goto(await) == waiting' = [waiting EXCEPT !.at = await]
Outcome(kind) == waiting' = [Idle EXCEPT !.at = kind]
\* escalateHostedBlocker: a typed blocker, with its evidence.
Stuck(why) == waiting' = [Idle EXCEPT !.at = "stuck", !.why = why]
\* naps: the next poll, or the end of the wait.
NextPoll(deferred) ==
  IF waiting.poll + 1 < MaxPolls
  THEN waiting' = [waiting EXCEPT !.at = "poll", !.poll = @ + 1, !.deferred = deferred]
  ELSE IF deferred THEN Outcome("deferred") ELSE Stuck("not-mergeable")

OnGitHub == <<thread, prHead>>
Recorded == <<repliedTo, resolvedBy>>
Ghosts   == <<replies, torn>>

BeginWait ==
  /\ waiting.at \in {"idle", "deferred", "stuck", "resync"}
  /\ waiting' = [Idle EXCEPT !.at = "poll"]
  /\ UNCHANGED <<OnGitHub, Recorded, Ghosts>> /\ GateCalm

\* parseMergeStateStatus: what is no known state has not settled yet.
Answers == {"CLEAN", "BLOCKED", "BEHIND", "unparseable"}
MergeState(answer) == IF answer = "unparseable" THEN "UNKNOWN" ELSE answer

(* One reading of mergeStateStatus, with the head it was read for.         *)
Poll ==
  /\ waiting.at = "poll"
  /\ UNCHANGED <<OnGitHub, Recorded, Ghosts>> /\ GateCalm
  /\ \E answer \in Answers :
       LET state == MergeState(answer)
           consult(at) == waiting' = [waiting EXCEPT !.at = at, !.state = state, !.looks = 0,
                                                     !.head = prHead]
       IN \/ state = "CLEAN" /\ consult("observe")
          \/ state = "BLOCKED" /\ consult("classify")
          \/ state = "BEHIND" /\ Outcome("resync")
          \/ state = "UNKNOWN" /\ NextPoll(FALSE)

\* buildHostedWorklist: what the fix lane is given, each with its hash.
Findings(ts) == {t \in By("hosted", ts) : ~AlreadyRepliedTo(t)}

\* The findings go to the fix lane, unless other people's conversations are open too.
Drive(ts) ==
  LET fresh == Findings(ts) IN
  IF By("human", ts) \cup By("bot", ts) # {} \/ fresh = {}
     \/ waiting.attempts >= FixBudget
  THEN Stuck("hosted-review")
  ELSE waiting' = [waiting EXCEPT !.at = "fix", !.attempts = @ + 1, !.fresh = fresh,
                               !.hash = [t \in Threads |-> thread[t].last]]

\* Neither gate can read the conversations: a rate limit is waited out.
Unread ==
  \/ GateFault("rate-limited") /\ NextPoll(TRUE)
  \/ GateFault("unreadable") /\ Stuck("threads-unavailable")

(* hostedObserveVerdict: a mergeable state still waits for the reviewer.   *)
Observe ==
  /\ waiting.at = "observe"
  /\ UNCHANGED <<OnGitHub, Recorded, Ghosts>>
  /\ \/ Unread
     \/ /\ GateCalm
        /\ IF ~SawThisHead(waiting.head) /\ waiting.looks + 1 < ObservePolls
           THEN waiting' = [waiting EXCEPT !.looks = @ + 1]
           ELSE LET ts == Admitted(waiting.head) IN
                IF ts = {} THEN Outcome("mergeable")
                ELSE IF CauseOf(ts) = "hosted-review" THEN Drive(ts)
                ELSE Stuck(CauseOf(ts))

\* classifyMergeBlock: the conversations of this head name the cause; without
\* any, the review decision and the checks (left open here) or older ones do.
MergeBlock(head) ==
  IF Admitted(head) # {} THEN {CauseOf(Admitted(head))}
  ELSE {"wait", "policy"} \cup ({CauseOf(Stale(head))} \cap {"hosted-review"})

(* hostedGateVerdict on BLOCKED: wait, hand to the fix lane, or give up.   *)
Classify ==
  /\ waiting.at = "classify"
  /\ UNCHANGED <<OnGitHub, Recorded, Ghosts>>
  /\ \/ Unread
     \/ /\ GateCalm
        /\ LET now == Admitted(waiting.head) IN
           \E cause \in MergeBlock(waiting.head) :
             CASE cause = "wait" -> NextPoll(FALSE)
               [] cause = "hosted-review" -> Drive(IF now # {} THEN now ELSE Stale(waiting.head))
               [] OTHER -> Stuck(cause)

\* The claim is checked against the head at origin.
ClaimHolds(claimed) == claimed = {} \/ prHead # waiting.head

(* runHostedFix, and the dispositions it returns.                          *)
HostedFix ==
  /\ waiting.at = "fix"
  /\ \E pushes \in BOOLEAN : \E todo \in SUBSET waiting.fresh : \E fixed \in SUBSET todo :
       /\ pushes => prHead < MaxHead
       /\ ~Dispositions => todo = {}
       /\ prHead' = IF pushes THEN prHead + 1 ELSE prHead
       /\ waiting' = IF todo = {} THEN [Idle EXCEPT !.at = "stuck", !.why = "hosted-review"]
                     ELSE [waiting EXCEPT !.at = "verify", !.todo = todo, !.fixed = fixed]
  /\ UNCHANGED <<thread, Recorded, Ghosts>> /\ GateCalm

VerifyClaim ==
  /\ waiting.at = "verify"
  /\ IF ClaimHolds(waiting.fixed) THEN Goto("dispose") ELSE Stuck("hosted-review")
  /\ UNCHANGED <<OnGitHub, Recorded, Ghosts>> /\ GateCalm

(* disposeFinding: a write on GitHub, then its record, twice.  The hash    *)
(* recorded is the one read with the finding, before the reply.            *)
Disposing(await) == waiting.at = await

NeedsReply(t) == repliedTo[t] # waiting.hash[t]

Dispose ==
  /\ Disposing("dispose") /\ UNCHANGED <<OnGitHub, Recorded, Ghosts>> /\ GateCalm
  /\ IF waiting.todo = {} THEN NextPoll(FALSE)
     ELSE \E t \in waiting.todo :
            waiting' = [waiting EXCEPT !.at = IF NeedsReply(t) THEN "reply" ELSE "resolve",
                                       !.cur = t]

Reply ==
  /\ Disposing("reply") /\ Goto("record-reply") /\ GateCalm
  /\ thread' = [thread EXCEPT ![waiting.cur].last = "reply"]
  /\ replies' = [replies EXCEPT ![waiting.cur] = @ + 1]
  /\ UNCHANGED <<prHead, Recorded, torn>>

RecordReply ==
  /\ Disposing("record-reply") /\ Goto("resolve") /\ GateCalm
  /\ repliedTo' = [repliedTo EXCEPT ![waiting.cur] = waiting.hash[waiting.cur]]
  /\ UNCHANGED <<OnGitHub, resolvedBy, Ghosts>>

DoneWith(t) == waiting' = [waiting EXCEPT !.at = "dispose", !.todo = @ \ {t}, !.cur = t]

Resolve ==
  /\ Disposing("resolve") /\ GateCalm /\ UNCHANGED <<prHead, Recorded, Ghosts>>
  /\ IF waiting.cur \in resolvedBy
     THEN DoneWith(waiting.cur) /\ UNCHANGED thread
     ELSE Goto("record-resolve") /\ thread' = [thread EXCEPT ![waiting.cur].resolved = TRUE]

RecordResolve ==
  /\ Disposing("record-resolve") /\ DoneWith(waiting.cur) /\ GateCalm
  /\ resolvedBy' = resolvedBy \cup {waiting.cur}
  /\ UNCHANGED <<OnGitHub, repliedTo, Ghosts>>

(* A write that throws, or a daemon that dies, ends the wait where it is.  *)
GateCut ==
  /\ waiting.at \notin {"idle", "stuck", "deferred", "resync", "mergeable"}
  /\ GateFault("cut") /\ Outcome("idle")
  /\ torn' = IF waiting.at \in {"record-reply", "resolve"}
             THEN torn \cup {waiting.cur} ELSE torn
  /\ UNCHANGED <<OnGitHub, Recorded, replies>>

-----------------------------------------------------------------------------
(* The world: reviewers that open, answer and reopen, and other pushes.    *)
OpenThread(t) ==
  /\ thread[t].last = "none"
  /\ thread' = [thread EXCEPT ![t] = [last |-> "finding", sha |-> prHead, resolved |-> FALSE]]
  /\ UNCHANGED <<prHead, Recorded, waiting, Ghosts>> /\ GateCalm

SpeaksAgain(t) ==
  /\ GateFault("again") /\ thread[t].last = "reply" /\ ~thread[t].resolved
  /\ thread' = [thread EXCEPT ![t].last = "again"]
  /\ replies' = [replies EXCEPT ![t] = 0]
  /\ UNCHANGED <<prHead, Recorded, waiting, torn>>

Reopens(t) ==
  /\ GateFault("reopens") /\ thread[t].resolved
  /\ thread' = [thread EXCEPT ![t].resolved = FALSE] /\ torn' = torn \cup {t}
  /\ UNCHANGED <<prHead, Recorded, waiting, replies>>

OtherPush ==
  /\ GateFault("pushes") /\ prHead < MaxHead /\ prHead' = prHead + 1
  /\ UNCHANGED <<thread, Recorded, waiting, Ghosts>>

GateInit ==
  /\ thread = [t \in Threads |-> Unopened] /\ prHead = 0
  /\ repliedTo = [t \in Threads |-> "none"] /\ resolvedBy = {}
  /\ waiting = Idle
  /\ replies = [t \in Threads |-> 0] /\ torn = {} /\ gateFaults = 0

GateDrive ==
  \/ Poll \/ Observe \/ Classify \/ HostedFix \/ VerifyClaim
  \/ Dispose \/ Reply \/ RecordReply \/ Resolve \/ RecordResolve

GateNext ==
  \/ GateDrive \/ BeginWait \/ GateCut \/ OtherPush
  \/ \E t \in Threads : OpenThread(t) \/ SpeaksAgain(t) \/ Reopens(t)

(***************************************************************************)
(* A conversation gets one reply for each word of its reviewer, however    *)
(* often the gate looks and the fix lane answers, unless the wait was cut  *)
(* between the reply and the resolution or a person reopened the thread.   *)
(***************************************************************************)
OneReply == \A t \in Threads : replies[t] <= 1 \/ t \in torn


(***************************************************************************)
(* A merge that is handed to the master names a blocker there is: an open  *)
(* conversation of that kind, and never the checks of a blocked head with  *)
(* an open conversation, unless it was answered at the very last poll.     *)
(***************************************************************************)
BlameIsTrue ==
  [][waiting'.at = "stuck" /\ waiting.at # "stuck" =>
       /\ waiting'.why = "hosted-review" => \E t \in By("hosted", Opened) : ~thread[t].resolved
       /\ waiting'.why = "human-review" => By("human", Admitted(waiting.head)) # {}
       /\ waiting'.why \in {"policy", "not-mergeable"} /\ waiting.at \in {"classify", "observe"}
            => Admitted(waiting.head) = {}]_gateVars
=============================================================================
