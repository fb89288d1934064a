---------------------------- MODULE MasterEngine ----------------------------
(***************************************************************************)
(* The life of one run between its pipeline, the door every fault of it is *)
(* escalated through (src/master/harness-escalation.ts, request.ts), the   *)
(* master that adjudicates it (src/master/engine.ts) and the operator who  *)
(* answers the master's questions.                                         *)
(*                                                                         *)
(* Executor.tla has one step per resolution of the master.  Here is what   *)
(* it hides: the escalation in two writes, the history an intervention     *)
(* reads back, the budget, the effect after the ruling, and the replay of  *)
(* a ruling whose effect was cut short.                                    *)
(*                                                                         *)
(* The issue has at most one slot, so whoever acts for it acts alone: a    *)
(* session of the pipeline, the tick that found it adrift, or the master.  *)
(* A session started by a resolution runs inside the master's intervention *)
(* (slot.inside), which completes only when the session has ended.         *)
(***************************************************************************)
EXTENDS MasterHistory, RunLifecycle

CONSTANTS Island,       \* the signature of a pause adrift
          Faults,       \* the kinds of fault to explore
          MaxFaults     \* BOUND on how many of them happen in one behaviour

ASSUME IslandAssumption == Island \in Signatures
ASSUME FaultAssumption  == MaxFaults \in Nat

VARIABLES
  \* --- the issue's event stream
  status,    \* what it projects
  hist,      \* what the fold of the master's facts remembers
  ctx,       \* the resume context: what question an answer has to follow
  \* --- GitHub
  note,      \* the latest ralph-master-request comment
  card,      \* the headline of the latest ralph-question comment
  heard,     \* where a ralph-answer is: behind the subset's members
  ready,     \* the issue carries ready-for-agent
  \* --- the daemon
  slot,      \* who acts for the issue, and how far it is
  faults

stream == <<status, hist, ctx>>
github == <<note, card, heard, ready>>
vars   == <<stream, github, slot, faults>>

Places == {"any", "ctx", "card"}

Stages == {"idle", "worker", "noted", "adrift", "session", "effect", "carded", "asked",
           "acted", "spent"}

Slot == [at : Stages, inside : BOOLEAN, key : Keys \cup {NoKey},
         req : Requests \cup {NoRequest}]
Idle == [at |-> "idle", inside |-> FALSE, key |-> NoKey, req |-> NoRequest]

Init ==
  /\ status = "running" /\ hist = Fresh /\ ctx = "none"
  /\ note = NoRequest /\ card = "none" /\ heard = {} /\ ready = FALSE
  /\ slot = [Idle EXCEPT !.at = "worker"]
  /\ faults = 0

At(s)    == slot.at = s
GoTo(s)  == slot' = [slot EXCEPT !.at = s]
Calm     == UNCHANGED faults
Fault(f) == /\ f \in Faults /\ faults < MaxFaults
            /\ faults' = faults + 1

\* The session inside an intervention hands back to it; any other frees the slot.
Left == IF slot.inside THEN [slot EXCEPT !.at = "acted", !.inside = FALSE, !.req = NoRequest]
        ELSE Idle

-----------------------------------------------------------------------------
(* The pipeline and the tick, as far as they reach the master.             *)

\* The review passes and the integration merges.
Merges ==
  /\ At("worker")
  /\ status' = "merged" /\ slot' = Left
  /\ Calm /\ UNCHANGED <<hist, ctx, github>>

\* The orphan sweep starts a session on a running row that has none.
Redrive ==
  /\ At("idle") /\ status = "running"
  /\ slot' = [Idle EXCEPT !.at = "worker"]
  /\ Calm /\ UNCHANGED <<stream, github>>

\* A stuck run is admitted again: a new span, with nothing remembered.
Readmit ==
  /\ At("idle") /\ status = "agent-stuck" /\ ready
  /\ status' = "running" /\ hist' = Fresh
  /\ ctx' = "none" /\ heard' = heard \ {"ctx"}
  /\ ready' = FALSE
  /\ slot' = [Idle EXCEPT !.at = "worker"]
  /\ Calm /\ UNCHANGED <<note, card>>

\* The daemon crashes, or the session or the intervention throws.
Dies ==
  /\ ~At("idle") /\ Fault("dies")
  /\ slot' = Idle
  /\ UNCHANGED <<stream, github>>

-----------------------------------------------------------------------------
(* The door.                                                               *)

\* Idempotence: the failure is queued, or an attempt at it is still open.
Duplicate(req) ==
  \/ hist.pending = req
  \/ /\ Exists(hist, hist.inProgress)
     /\ req = <<hist.inProgress[1], Record(hist, hist.inProgress).signature>>

\* The comment carries the evidence; the harness goes on without it.
PostNote(req) ==
  \/ note' = req /\ Calm
  \/ note' = note /\ Fault("commentFails")

\* A worker's escalate or stuck: MasterTriageRequester, which asks always.
WorkerAsks(req) ==
  /\ At("worker")
  /\ note' = req
  /\ slot' = [slot EXCEPT !.at = "noted", !.req = req]
  /\ Calm /\ UNCHANGED <<stream, card, heard, ready>>

\* A fault the harness met in a session: HarnessMasterEscalation.
SessionEscalates(req) ==
  /\ At("worker") /\ ~Duplicate(req)
  /\ PostNote(req)
  /\ slot' = [slot EXCEPT !.at = "noted", !.req = req]
  /\ UNCHANGED <<stream, card, heard, ready>>

\* Escalating from a review phase leaves a resume context that names no
\* question, so that any answer on the issue follows it.
Unpin ==
  \/ UNCHANGED <<ctx, heard>>
  \/ /\ ctx' = "unpinned"
     /\ heard' = IF "any" \in heard THEN heard \cup {"ctx"} ELSE heard \ {"ctx"}

\* The same fault as one already at the master: the session ends all the same.
SessionDeduped(req) ==
  /\ At("worker") /\ Duplicate(req)
  /\ slot' = Left
  /\ Unpin
  /\ Calm /\ UNCHANGED <<status, hist, note, card, ready>>

\* A paused run is resumed by an answer behind its context's question, with
\* ready-for-agent on.
Resumable == status = "awaiting-answer" /\ ready /\ ctx # "none" /\ "ctx" \in heard
Adrift    == status = "awaiting-answer" /\ ready /\ ~Resumable

\* The sweep's orphan without a pull request, the completeness pass's island.
TickEscalates(req) ==
  /\ At("idle")
  /\ status = "running" \/ (Adrift /\ req[2] = Island)
  /\ ~Duplicate(req)
  /\ PostNote(req)
  /\ slot' = [Idle EXCEPT !.at = "adrift", !.req = req]
  /\ UNCHANGED <<stream, card, heard, ready>>

\* The request becomes a fact, and the run joins the master's queue.
RecordRequest ==
  /\ \/ At("noted") /\ Unpin
     \/ At("adrift") /\ UNCHANGED <<ctx, heard>>
  /\ status' = StatusAfter(status, "MasterTriageRequested")
  /\ hist' = Requested(hist, slot.req)
  /\ slot' = Left
  /\ Calm /\ UNCHANGED <<note, card, ready>>

-----------------------------------------------------------------------------
(* An intervention: the history, the request, the budget, the session.     *)

Queued == At("idle") /\ status = "master-triage"

\* An answer takes up the attempt whose question it is for; the queue, the one
\* that was cut short.
Answering  == At("idle") /\ Resumable /\ hist.awaiting # NoKey
Taken(ans) == IF ans THEN hist.awaiting ELSE hist.inProgress
Called(ans) == /\ IF ans THEN Answering ELSE Queued
               /\ Taken(ans) # NoKey

\* What is to be adjudicated: the latest request comment, whatever it was for,
\* or else the queued fact.
RequestQueued == hist.pending  \* mutant: not looked for on the issue
Request == IF note # NoRequest THEN note ELSE hist.pending

\* A ruling is recorded before its effect: one whose effect was cut short is
\* applied again, without a session.
CutShort(k) == Decided(hist, k) /\ ~Record(hist, k).completed

Replay(ans) ==
  /\ Called(ans) /\ CutShort(Taken(ans))
  /\ slot' = [Idle EXCEPT !.at = "effect", !.key = Taken(ans)]
  /\ Calm /\ UNCHANGED <<stream, github>>

\* After a crash an attempt goes on as it is, with an answer it starts again.
Reopen(ans) ==
  /\ Called(ans) /\ ~CutShort(Taken(ans)) /\ Request # NoRequest
  /\ IF ans
     THEN /\ hist' = Started(hist, Taken(ans), Record(hist, Taken(ans)).signature)
          /\ status' = StatusAfter(status, "MasterInterventionStarted")
     ELSE UNCHANGED <<hist, status>>
  /\ slot' = [Idle EXCEPT !.at = "session", !.key = Taken(ans)]
  /\ Calm /\ UNCHANGED <<ctx, github>>

New == /\ Queued /\ hist.inProgress = NoKey
       /\ hist.pending # NoRequest

\* A fresh attempt, for the phase and the signature of the request.
Open ==
  /\ New /\ ~Exhausted(hist, Request[1])
  /\ LET k == <<Request[1], Spent(hist, Request[1]) + 1>> IN
       /\ hist' = Started(hist, k, Request[2])
       /\ slot' = [Idle EXCEPT !.at = "session", !.key = k]
  /\ status' = StatusAfter(status, "MasterInterventionStarted")
  /\ Calm /\ UNCHANGED <<ctx, github>>

\* A new card each time: this one is not looked for on the issue first.
PostCard(head) == card' = head /\ heard' = heard \ {"card"}

RunOut ==
  /\ New /\ Exhausted(hist, Request[1])
  /\ PostCard("exhausted")
  /\ slot' = [Idle EXCEPT !.at = "spent"]
  /\ Calm /\ UNCHANGED <<stream, note, ready>>

GiveUp ==
  /\ At("spent")
  /\ status' = StatusAfter(status, "MasterStuck")
  /\ slot' = Idle
  /\ Calm /\ UNCHANGED <<hist, ctx, github>>

\* A usage limit or a failed session: the attempt stays open, the run queued.
Defers ==
  /\ At("session") /\ Fault("defers")
  /\ slot' = Idle
  /\ UNCHANGED <<stream, github>>

-----------------------------------------------------------------------------
(* The ruling and its effect.                                              *)

Ask(head) == [resolution |-> "ask-human", headline |-> head]
Outcomes  == {[resolution |-> r, headline |-> "none"] : r \in Autonomous}
             \cup {Ask(h) : h \in Headlines}
             \cup {[resolution |-> "terminal-stuck", headline |-> "terminal"]}

\* A forbidden resolution becomes a question of the engine's own; so does one
\* whose ledger decisions contradict a standing one, which is left open here.
Coerced(o) == IF o.resolution \in Forbidden(hist, slot.key) THEN Ask("refused") ELSE o

Rules ==
  /\ At("session")
  /\ \E o \in {Coerced(r) : r \in Outcomes} \cup {Ask("authority")} :
       hist' = Selected(hist, slot.key, o.resolution, o.headline)
  /\ GoTo("effect")
  /\ Calm /\ UNCHANGED <<status, ctx, github>>

Ruling == Record(hist, slot.key)

\* leaveQueue, then a session inside the intervention; retry-pipeline may find
\* nothing to retry, and leaves ready-for-agent on.
HandBack ==
  /\ At("effect") /\ Ruling.resolution \in Autonomous
  /\ status' = StatusAfter(status, "Resumed")
  /\ IF Ruling.resolution = "retry-pipeline"
     THEN /\ slot' \in {[slot EXCEPT !.at = "acted"],
                        [slot EXCEPT !.at = "worker", !.inside = TRUE]}
          /\ UNCHANGED ready
     ELSE /\ slot' = [slot EXCEPT !.at = "worker", !.inside = TRUE]
          /\ ready' = FALSE
  /\ Calm /\ UNCHANGED <<hist, ctx, note, card, heard>>

\* The latest card is taken over when it has the headline.
ShowCard ==
  /\ At("effect") /\ Ruling.resolution \notin Autonomous
  /\ IF card = Ruling.headline THEN UNCHANGED <<card, heard>>
     ELSE PostCard(Ruling.headline)
  /\ GoTo("carded")
  /\ Calm /\ UNCHANGED <<stream, note, ready>>

AskHuman ==
  /\ At("carded") /\ Ruling.resolution = "ask-human"
  /\ hist' = Asked(hist, slot.key)
  /\ status' = StatusAfter(status, "MasterHumanQuestionRequested")
  /\ GoTo("asked")
  /\ Calm /\ UNCHANGED <<ctx, github>>

\* The resume context follows in a write of its own.
Pin ==
  /\ At("asked")
  /\ ctx' = "pinned"
  /\ heard' = IF "card" \in heard THEN heard \cup {"ctx"} ELSE heard \ {"ctx"}
  /\ GoTo("acted")
  /\ Calm /\ UNCHANGED <<status, hist, note, card, ready>>

TerminalStuck ==
  /\ At("carded") /\ Ruling.resolution = "terminal-stuck"
  /\ status' = StatusAfter(status, "MasterStuck")
  /\ GoTo("acted")
  /\ Calm /\ UNCHANGED <<hist, ctx, github>>

Complete ==
  /\ At("acted")
  /\ hist' = Completed(hist, slot.key)
  /\ slot' = Idle
  /\ Calm /\ UNCHANGED <<status, ctx, github>>

-----------------------------------------------------------------------------
(* The operator.  ralph-answer posts the answer to the latest question and *)
(* swaps the paused label, withheld while ready-for-agent is on, for it.   *)

OperatorAnswers ==
  /\ status = "awaiting-answer" /\ ~ready /\ "card" \notin heard
  /\ heard' = IF ctx = "none" THEN {"any", "card"} ELSE Places
  /\ \/ ready' = TRUE /\ Calm
     \/ UNCHANGED ready /\ Fault("strands")
  /\ UNCHANGED <<stream, note, card, slot>>

OperatorRelabels ==
  /\ status = "agent-stuck" /\ ~ready
  /\ ready' = TRUE
  /\ Calm /\ UNCHANGED <<stream, note, card, heard, slot>>

\* The completeness pass finishes a swap that was cut short.
ReArm ==
  /\ status = "awaiting-answer" /\ ~ready /\ "card" \in heard /\ At("idle")
  /\ ready' = TRUE
  /\ Calm /\ UNCHANGED <<stream, note, card, heard, slot>>

-----------------------------------------------------------------------------

Escalates == \/ \E req \in Requests : \/ WorkerAsks(req) \/ SessionEscalates(req)
                                      \/ SessionDeduped(req)
             \/ RecordRequest

Pipeline == Merges \/ Redrive \/ Readmit

Adjudicates == \/ \E ans \in BOOLEAN : Replay(ans) \/ Reopen(ans)
               \/ Open \/ RunOut \/ GiveUp \/ Rules

Effects == HandBack \/ ShowCard \/ AskHuman \/ Pin \/ TerminalStuck \/ Complete

TickCares == ReArm \/ \E req \in Requests : TickEscalates(req)

Next == \/ Pipeline \/ Escalates \/ TickCares \/ Adjudicates \/ Effects
        \/ OperatorAnswers \/ OperatorRelabels \/ Dies \/ Defers

Spec == Init /\ [][Next]_vars

\* A session ends, a tick comes, the master rules: none of them stops for good.
FairSpec == /\ Spec
            /\ WF_vars(Pipeline \/ Escalates) /\ WF_vars(TickCares)
            /\ WF_vars(Adjudicates) /\ WF_vars(Effects)

=============================================================================
