--------------------------- MODULE ContainerSession ---------------------------
(***************************************************************************)
(* One agent run in its container: the daemon's dispatch                   *)
(* (container-execution.ts and the four runners that use it), the pipe of  *)
(* frames (transport.ts, protocol.ts), and the runner inside (runner.ts,   *)
(* in-container-session.ts) with its session, its escalation, its          *)
(* finalizer and its result.  What the daemon does with the outcome is     *)
(* Executor's, ReviewLoop's and MasterEngine's.                            *)
(***************************************************************************)
EXTENDS Naturals, Sequences

CONSTANTS Kinds,        \* the kinds of assignment: "impl", "review", "fix", "master"
          MaxFrames,    \* bound: telemetry frames of a session
          ParseTries    \* MAX_PARSE_RETRIES + 1

VARIABLES kind, relay,  \* the assignment, and its escalationMode is "master"
          host,         \* the daemon's side, see HostIdle
          runner,       \* the runner's side, see RunnerIdle
          chain,        \* frames captured, not yet written (the serial sender)
          pipe,         \* frames written, not yet read
          asked,        \* ralph-question comments the runner posted
          noted,        \* the question is in the store, or with the master
          pr,           \* "none", "draft" or "open"
          limitSaid,    \* history: the provider refused this session
          torn          \* history: the run was cut after its question went out

sesVars == <<kind, relay, host, runner, chain, pipe, asked, noted, pr, limitSaid, torn>>

HostIdle == [at |-> "idle", drain |-> FALSE, abort |-> FALSE, sawLimit |-> FALSE, verdict |-> "none"]
RunnerIdle == [at |-> "none", sent |-> 0, escalation |-> FALSE, stuck |-> FALSE,
               error |-> FALSE, tries |-> 0, work |-> FALSE, named |-> FALSE]

HostAt(s) == host.at = s
RunnerAt(s) == runner.at = s
HostMoves(s) == host' = [host EXCEPT !.at = s]
RunnerMoves(s) == runner' = [runner EXCEPT !.at = s]
Gone == runner.at \in {"none", "exited"}

Assigned == <<kind, relay>>
Wire == <<chain, pipe>>
World == <<asked, noted, pr>>
Past == <<limitSaid, torn>>

Note == [is |-> "note", outcome |-> "none", named |-> FALSE]
Limit == [Note EXCEPT !.is = "limit"]
Result(outcome, named) == [is |-> "result", outcome |-> outcome, named |-> named]

\* What was captured and not written goes with the process.
Exits(r) == runner' = [r EXCEPT !.at = "exited"] /\ chain' = <<>>
Cut == torn' = (torn \/ asked > 0)

-----------------------------------------------------------------------------
(* dispatch: a draining daemon refuses; the image is resolved, and docker  *)
(* run spawned, before anyone looks at the abort signal.                   *)
DrainAborts == host.drain /\ kind \in {"impl", "master"}

Dispatch ==
  /\ HostAt("idle") /\ UNCHANGED <<Assigned, runner, Wire, World, Past>>
  /\ host' = IF DrainAborts THEN [host EXCEPT !.at = "done", !.verdict = "refused"]
             ELSE [host EXCEPT !.at = "starting"]

Start ==
  /\ HostAt("starting") /\ UNCHANGED <<Assigned, Wire, World, Past>>
  /\ \/ HostMoves("reading") /\ RunnerMoves("clone")
     \/ host' = [host EXCEPT !.at = "done", !.verdict = "threw"] /\ UNCHANGED runner

StopContainer == Exits(runner)

(* The abort: a control frame and docker stop, whenever the signal is up.  *)
Abort ==
  /\ host.abort /\ HostAt("reading") /\ ~Gone /\ StopContainer /\ Cut
  /\ UNCHANGED <<Assigned, host, pipe, World, limitSaid>>

Signals ==
  /\ UNCHANGED <<Assigned, runner, Wire, World, Past>>
  /\ \/ ~host.drain /\ host' = [host EXCEPT !.drain = TRUE]
     \/ ~host.abort /\ host.at \in {"idle", "starting", "reading"}
        /\ host' = [host EXCEPT !.abort = TRUE]

-----------------------------------------------------------------------------
(* The runner.  "started" is sent before the clone, outside the chain.     *)
Clone ==
  /\ RunnerAt("clone") /\ UNCHANGED <<Assigned, host, World, Past>>
  /\ pipe' = Append(pipe, Note)
  /\ \/ RunnerMoves("session") /\ UNCHANGED chain
     \/ Exits(runner)

Capture ==
  /\ RunnerAt("session") /\ runner.sent < MaxFrames
  /\ UNCHANGED <<Assigned, host, pipe, World, Past>>
  /\ chain' = Append(chain, Note)
  /\ runner' = [runner EXCEPT !.sent = @ + 1, !.work = @ \/ kind = "impl"]

(* A usage-window signal: a mere reading, or the refusal.                  *)
RateLimit ==
  /\ RunnerAt("session") /\ runner.sent < MaxFrames
  /\ UNCHANGED <<Assigned, host, pipe, World, torn>>
  /\ chain' = Append(chain, Limit)
  /\ \E refused \in BOOLEAN :
       /\ limitSaid' = (limitSaid \/ refused)
       /\ runner' = [runner EXCEPT !.sent = @ + 1, !.error = @ \/ refused]

WriteFrame ==
  /\ ~Gone /\ chain # <<>> /\ UNCHANGED <<Assigned, host, runner, World, Past>>
  /\ pipe' = Append(pipe, Head(chain)) /\ chain' = Tail(chain)

(* The escalate tool: below the bar, refused; else the branch is pushed,   *)
(* a draft opened and, unless the master adjudicates, the question posted. *)
Escalate ==
  /\ RunnerAt("session") /\ kind = "impl" /\ asked < 2
  /\ UNCHANGED <<Assigned, host, Wire, noted, limitSaid>>
  /\ pr' \in IF pr = "none" THEN {"none", "draft"} ELSE {pr}   \* gh pr create may fail
  /\ \/ /\ asked' = IF relay THEN asked ELSE asked + 1
        /\ runner' = [runner EXCEPT !.escalation = TRUE] /\ UNCHANGED torn
     \/ /\ asked' = asked + 1 /\ ~relay /\ torn' = TRUE   \* posted, its id unreadable
        /\ UNCHANGED runner

SelfStop ==
  /\ RunnerAt("session") /\ kind = "impl" /\ runner' = [runner EXCEPT !.stuck = TRUE]
  /\ UNCHANGED <<Assigned, host, Wire, World, Past>>

OpensPr ==
  /\ RunnerAt("session") /\ kind = "impl" /\ runner.work /\ pr = "none" /\ pr' = "open"
  /\ UNCHANGED <<Assigned, host, runner, Wire, asked, noted, Past>>

(* The session is over.  An implementation ends with an error or without,  *)
(* or throws, which ends the runner with no result; the structured kinds   *)
(* try again on unreadable output and turn what is thrown into "failed".   *)
ImplEnds ==
  /\ RunnerAt("session") /\ kind = "impl" /\ UNCHANGED <<Assigned, host, pipe, World, limitSaid>>
  /\ \/ \E error \in BOOLEAN : /\ error \/ ~runner.error
                               /\ runner' = [runner EXCEPT !.at = "finalize", !.error = error]
                               /\ UNCHANGED <<chain, torn>>
     \/ Exits([runner EXCEPT !.named = limitSaid]) /\ Cut

StructuredEnds ==
  /\ RunnerAt("session") /\ kind # "impl" /\ UNCHANGED <<Assigned, host, Wire, World, Past>>
  /\ \/ ~runner.error /\ runner' = [runner EXCEPT !.at = "flush", !.error = FALSE]
     \/ runner' = [runner EXCEPT !.at = "flush", !.error = TRUE, !.named = limitSaid]
     \/ /\ ~runner.error /\ runner.tries + 1 < ParseTries
        /\ runner' = [runner EXCEPT !.tries = @ + 1]

(* finalizeNoPr: work left behind by a clean session becomes a PR.         *)
Finalize ==
  /\ RunnerAt("finalize") /\ RunnerMoves("flush")
  /\ UNCHANGED <<Assigned, host, Wire, asked, noted, Past>>
  /\ IF ~runner.escalation /\ ~runner.stuck /\ ~runner.error /\ runner.work /\ pr = "none"
     THEN pr' \in {"none", "open"} ELSE UNCHANGED pr

\* mutant: a self-stop hides the escalation of the same session.
StuckFirst(r) == IF r.stuck THEN "stuck" ELSE IF r.escalation THEN "escalated"
                 ELSE IF r.error THEN "failed" ELSE "pr-opened"
ImplOutcome(r) ==
  IF r.escalation THEN "escalated" ELSE IF r.stuck THEN "stuck"
  ELSE IF r.error THEN "failed" ELSE "pr-opened"
Outcome(r) == IF kind = "impl" THEN ImplOutcome(r) ELSE IF r.error THEN "failed" ELSE "ok"

Flushed == chain = <<>>

SendResult ==
  /\ RunnerAt("flush") /\ Flushed
  /\ pipe' = Append(pipe, Result(Outcome(runner), runner.named))
  /\ Exits(runner) /\ UNCHANGED <<Assigned, host, World, Past>>

-----------------------------------------------------------------------------
(* The daemon's reading: telemetry until a result, or the end of the       *)
(* stream, which is a failure with docker's last words as its detail.      *)
ReadTelemetry ==
  /\ HostAt("reading") /\ pipe # <<>> /\ Head(pipe).is # "result" /\ pipe' = Tail(pipe)
  /\ host' = [host EXCEPT !.sawLimit = @ \/ Head(pipe).is = "limit"]
  /\ UNCHANGED <<Assigned, runner, chain, World, Past>>

\* mapResult of the runner of each kind.
Verdict(outcome, named) ==
  IF outcome # "failed" THEN outcome
  ELSE IF named \/ (host.sawLimit /\ kind \in {"impl", "master"}) THEN "limited" ELSE "failed"

Decided(outcome, named) ==
  /\ host' = [host EXCEPT !.at = "done", !.verdict = Verdict(outcome, named)]
  /\ noted' = (noted \/ outcome = "escalated")

ReadResult ==
  /\ HostAt("reading") /\ pipe # <<>> /\ Head(pipe).is = "result" /\ pipe' = Tail(pipe)
  /\ Decided(Head(pipe).outcome, Head(pipe).named)
  /\ UNCHANGED <<Assigned, runner, chain, asked, pr, Past>>

EndOfStream ==
  /\ HostAt("reading") /\ Gone /\ pipe = <<>>
  /\ Decided("failed", runner.named /\ ~host.abort)
  /\ UNCHANGED <<Assigned, runner, Wire, asked, pr, Past>>

-----------------------------------------------------------------------------
SesInit ==
  /\ kind \in Kinds /\ relay \in {r \in BOOLEAN : r => kind = "impl"}
  /\ host = HostIdle /\ runner = RunnerIdle /\ chain = <<>> /\ pipe = <<>>
  /\ asked = 0 /\ noted = FALSE /\ pr = "none" /\ limitSaid = FALSE /\ torn = FALSE

RunnerStep ==
  \/ Clone \/ Capture \/ RateLimit \/ WriteFrame \/ Escalate \/ SelfStop \/ OpensPr
  \/ ImplEnds \/ StructuredEnds \/ Finalize \/ SendResult

HostStep == Dispatch \/ Start \/ Abort \/ ReadTelemetry \/ ReadResult \/ EndOfStream

SesNext == RunnerStep \/ HostStep \/ Signals

(***************************************************************************)
(* A question that went out to the operator is known to the daemon when    *)
(* the run is over, so that its answer resumes the run -- unless the run   *)
(* was cut, or threw, after its question had been posted.                  *)
(***************************************************************************)
QuestionKept == HostAt("done") /\ asked > 0 => noted \/ torn

(***************************************************************************)
(* A run that failed because the provider refused it is deferred, not      *)
(* handed over as a fault: the refusal reaches the daemon before the       *)
(* result, or in the words of the failure, unless an operator aborted it.  *)
(***************************************************************************)
RefusalHeard ==
  HostAt("done") /\ host.verdict = "failed" => ~limitSaid \/ host.abort

=============================================================================
