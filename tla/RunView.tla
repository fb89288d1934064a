------------------------------- MODULE RunView -------------------------------
(***************************************************************************)
(* What the operator is shown of a run: the response of web/runs.ts and    *)
(* the render model of web/contract/run-view.ts, over the issue's stream,  *)
(* the run's transcript and the projection of the store.  All three live   *)
(* in one log with one global position, so a stream is the set of its      *)
(* events and their order is that of their positions.  A run row may be    *)
(* claimed again under its old id, or be deleted and inserted under a new  *)
(* one.                                                                    *)
(***************************************************************************)
EXTENDS Naturals, Sequences, FiniteSets, FiniteSetsExt, RunLifecycle

CONSTANTS Phases,    \* phases with a fix loop
          MaxFixes,  \* review.maxFixAttempts
          Calls,     \* tool calls a session may make
          MaxLog     \* bound: events ever appended

VARIABLES facts,     \* the issue's stream
          talk,      \* the transcript streams of its runs
          next,      \* the next global position
          cell,      \* the stored projection row, if there is one
          runRow,    \* the run row's id, 0 before the first claim
          claiming,  \* the row is written, RunStarted is not
          pruning,   \* a marker is written, its messages are not deleted
          gone       \* history: messages deleted, those a marker had counted

viewVars == <<facts, talk, next, cell, runRow, claiming, pruning, gone>>

Fact(type, run, phase) == [type |-> type, run |-> run, phase |-> phase]
Placed(f, gp) == [gp |-> gp, type |-> f.type, run |-> f.run, phase |-> f.phase]
NoPhase == 99
NoFixes == [p \in Phases |-> 0]
Fresh == [status |-> "none", run |-> 0, fixes |-> NoFixes, anomaly |-> FALSE, ended |-> FALSE]

-----------------------------------------------------------------------------
(* The fold, and the row it is kept in.                                    *)
Evolve(s, f) ==
  CASE f.type = "RunStarted" -> [Fresh EXCEPT !.status = "running", !.run = f.run, !.anomaly = s.anomaly]
    [] f.type = "FixAttempted" -> [s EXCEPT !.fixes[f.phase] = @ + 1]
    [] f.type = "ReviewPhaseEntered" -> [s EXCEPT !.fixes[f.phase] = 0]
    [] f.type \in {"AnomalyDetected", "AnomalyCleared"} -> [s EXCEPT !.anomaly = f.type = "AnomalyDetected"]
    [] f.type \in {"RunEnded", "RunEndedClosed"} -> [s EXCEPT !.status = StatusAfter(@, f.type), !.ended = TRUE]
    [] OTHER -> [s EXCEPT !.status = StatusAfter(@, f.type)]

\* decodeProjectionState: no row is the initial state.
Decoded(stored) == IF stored = <<>> THEN Fresh ELSE stored[1]
Encoded(state) == <<state>>

State == Decoded(cell)
GetFixAttempts(p) == IF runRow = 0 THEN 0 ELSE State.fixes[p]

\* The events of a batch, one after the other.
Folded(state, new) ==
  LET upTo[k \in 0..Len(new)] == IF k = 0 THEN state ELSE Evolve(upTo[k - 1], new[k])
  IN upTo[Len(new)]

Commit(new) ==
  /\ next + Len(new) - 1 <= MaxLog /\ next' = next + Len(new)
  /\ facts' = facts \cup {Placed(new[i], next + i - 1) : i \in 1..Len(new)}
  /\ cell' = Encoded(Folded(State, new))

(* The claim writes the row, then the span: an open one is abandoned first. *)
WriteRow ==
  /\ ~claiming /\ State.status \in ReAdmittable \cup {"none", "running"}
  /\ runRow' \in {runRow, runRow + 1} \ {0} /\ claiming' = TRUE
  /\ UNCHANGED <<facts, talk, next, cell, pruning, gone>>
RecordRunStarted ==
  /\ claiming /\ claiming' = FALSE
  /\ Commit((IF State.status # "none" /\ ~State.ended THEN <<Fact("RunEnded", State.run, NoPhase)>> ELSE <<>>)
            \o <<Fact("RunStarted", runRow, NoPhase)>>)
  /\ UNCHANGED <<talk, runRow, pruning, gone>>

Recorded(types, p) ==
  /\ Commit([i \in 1..Len(types) |-> Fact(types[i], IF types[i] = "AnomalyDetected" THEN 0 ELSE runRow, p)])
  /\ UNCHANGED <<talk, runRow, claiming, pruning, gone>>

Works == ~claiming /\ State.status = "running"
EnterPhase(p) == Works /\ Recorded(<<"ReviewPhaseEntered">>, p)
\* The loop reads the count that its own fact then raises.
SpendFix(p) ==
  /\ Works /\ \E f \in facts : f.type = "ReviewPhaseEntered" /\ f.phase = p /\ f.run = runRow
  /\ GetFixAttempts(p) < MaxFixes /\ Recorded(<<"FixAttempted">>, p)
Pause == Works /\ Recorded(<<"Escalated">>, NoPhase)
Resume == State.status = "awaiting-answer" /\ Recorded(<<"Resumed">>, NoPhase)
End == Works /\ \E last \in {"RunStuck", "Merged"} : Recorded(<<last, "RunEnded">>, NoPhase)
Anomaly == Works /\ ~State.anomaly /\ Recorded(<<"AnomalyDetected">>, NoPhase)

(* The session's messages: text, a tool call, or the result of one.        *)
Blocks == {[kind |-> "text", id |-> "-"]} \cup [kind : {"call", "result"}, id : Calls]
NoBlock == [kind |-> "none", id |-> "-"]
OfRun(kind) == {e \in talk : e.run = runRow /\ e.kind = kind}
Says ==
  /\ Works /\ next <= MaxLog /\ next' = next + 1
  /\ \E b \in Blocks : talk' = talk \cup {[gp |-> next, run |-> runRow, kind |-> "message", block |-> b]}
  /\ UNCHANGED <<facts, cell, runRow, claiming, pruning, gone>>

(* Retention takes any transcript with messages, its run's being live or not. *)
MarkPruned ==
  /\ ~pruning /\ OfRun("message") # {} /\ next <= MaxLog
  /\ next' = next + 1 /\ pruning' = TRUE
  /\ talk' = talk \cup {[gp |-> next, run |-> runRow, kind |-> "pruned", block |-> NoBlock]}
  /\ UNCHANGED <<facts, cell, runRow, claiming, gone>>
DeleteMessages ==
  /\ pruning /\ pruning' = FALSE
  /\ LET markers == {e \in talk : e.kind = "pruned"} IN
     \E marker \in {m \in markers : \A e \in markers : e.gp <= m.gp} :
       LET prey == {e \in talk : e.run = marker.run /\ e.kind = "message"}
       IN gone' = gone \cup {e \in prey : e.gp < marker.gp} /\ talk' = talk \ prey
  /\ UNCHANGED <<facts, next, cell, runRow, claiming>>

-----------------------------------------------------------------------------
(* toRunDetailResponse.  A fact without a run belongs to the issue.        *)
SpanStart == Max({0} \cup {e.gp : e \in {x \in facts : x.type = "RunStarted"}})

\* mutant: the facts of the run's id, whichever span they are of.
ById == {e \in facts : e.run \in {0, runRow}}
OwnTimeline == {e \in facts : e.run = 0 \/ (e.run = runRow /\ e.gp >= SpanStart)}
OwnTranscript == {e \in talk : e.run = runRow /\ e.gp >= SpanStart}
ShownPruned == \E e \in OwnTranscript : e.kind = "pruned"

\* foldFixAttempts: the recount of the header.
FoldFixAttempts(ts) ==
  LET entered(p) == Max({0} \cup {e.gp : e \in {x \in ts : x.type = "ReviewPhaseEntered" /\ x.phase = p}})
  IN [p \in Phases |-> Cardinality({e \in ts : e.gp > entered(p) /\ e.type = "FixAttempted" /\ e.phase = p})]

\* deriveTimeline: a divider for the run and for each entry of a phase, with
\* the attempts up to the phase's next entry.
Attempts(ts, d) ==
  Cardinality({e \in ts : /\ e.gp > d.gp /\ e.type = "FixAttempted" /\ e.phase = d.phase
                          /\ ~\E f \in ts : /\ f.type = "ReviewPhaseEntered" /\ f.phase = d.phase
                                            /\ d.gp < f.gp /\ f.gp < e.gp})
Dividers(ts) ==
  {[kind |-> "phase", gp |-> d.gp, phase |-> d.phase, attempts |-> Attempts(ts, d)] :
   d \in {x \in ts : x.type \in {"RunStarted", "ReviewPhaseEntered"}}}

\* Results are folded into their calls: a message of results has no item.
Shown(e) == e.kind = "message" /\ e.block.kind # "result"
Items == Dividers(OwnTimeline) \cup
         {[kind |-> "message", gp |-> e.gp, block |-> e.block] : e \in {x \in OwnTranscript : Shown(x)}}
\* The last result of a call, wherever it is in the transcript.
ResultOf(id) == Max({0} \cup {e.gp : e \in {x \in OwnTranscript :
                                 x.kind = "message" /\ x.block = [kind |-> "result", id |-> id]}})

\* resolveTarget: the first item at or after a node, or the last there is.
Target(gp) == LET places == {i.gp : i \in Items} IN
              IF {g \in places : g >= gp} # {} THEN Min({g \in places : g >= gp}) ELSE Max({0} \cup places)

ViewInit ==
  /\ facts = {} /\ talk = {} /\ next = 1 /\ cell = <<>> /\ runRow = 0
  /\ claiming = FALSE /\ pruning = FALSE /\ gone = {}
ViewNext ==
  \/ WriteRow \/ RecordRunStarted \/ Pause \/ Resume \/ End \/ Anomaly
  \/ Says \/ MarkPruned \/ DeleteMessages
  \/ \E p \in Phases : EnterPhase(p) \/ SpendFix(p)

(***************************************************************************)
(* The attempts the operator is shown, in the header and at the divider of *)
(* the phase's latest entry, are those the store's fold holds against the  *)
(* budget, over re-entered phases, spans that reuse an id and new ids.     *)
(***************************************************************************)
CountsAgree ==
  State.run = runRow /\ cell # <<>> => \A p \in Phases :
    /\ FoldFixAttempts(OwnTimeline)[p] = GetFixAttempts(p)
    /\ LET ds == {d \in Dividers(OwnTimeline) : d.phase = p} IN
       ds # {} => GetFixAttempts(p) = (CHOOSE d \in ds : \A e \in ds : e.gp <= d.gp).attempts

(***************************************************************************)
(* What retention took from the attempt on show is said to be pruned; the  *)
(* rest of it is shown, a result with the call that it answers.            *)
(***************************************************************************)
PruneIsTold ==
  /\ (\E e \in gone : e.run = runRow /\ e.gp >= SpanStart) => ShownPruned
  /\ \A e \in OfRun("message") : e.gp > SpanStart =>
       \/ \E i \in Items : i.gp = e.gp
       \/ e.block.kind = "result" /\ ResultOf(e.block.id) >= e.gp

(***************************************************************************)
(* A node of the timeline leads to its own divider if it has one, and no   *)
(* later node leads further back.                                          *)
(***************************************************************************)
NodesLand ==
  \A d, e \in OwnTimeline :
    /\ d.type \in {"RunStarted", "ReviewPhaseEntered"} => Target(d.gp) = d.gp
    /\ d.gp < e.gp => Target(d.gp) <= Target(e.gp)
=============================================================================
