------------------------------ MODULE Admission ------------------------------
(***************************************************************************)
(* core/admission.ts and daemon/backlog.ts: one tick's pickup decision and *)
(* the board it leaves, with an operator who acts on that board            *)
(* (web/power-actions.ts) while the tick awaits.                           *)
(***************************************************************************)
EXTENDS Naturals, Sequences, FiniteSets, Functions

CONSTANTS Backlog,     \* issue numbers
          Created,     \* [Backlog -> Nat]: createdAt
          Blockers,    \* [Backlog -> SUBSET Backlog]: "Blocked by", this repo
          Foreign,     \* issues that name a blocker of another repo
          Priorities,  \* the configured priority labels, most urgent first
          Cap,         \* the target's slots
          Starts,      \* the labels the issues may start with
          MaxEdits,    \* bound: the operator's requests
          MaxFaults    \* bound: failed queries and changes of headroom

VARIABLES labels, closed, thread,  \* GitHub: labels, how it was closed, its question
          run,                     \* the daemon's run of the issue
          headroom,                \* a provider with headroom; memory above the floor
          at, listed, left,        \* the tick: where, the listing, what is unexamined
          cache, eligible, excluded, picked,
          board,                   \* the persisted backlog view
          met, shut, refused,      \* history of the tick: blockers met at some time,
                                   \* not met at some time, queries that failed
          request, edits, faults

hubVars == <<labels, closed, thread, run>>
planVars == <<listed, left, cache, eligible, excluded, picked>>
tickSeen == <<met, shut, refused>>
opVars == <<request, edits>>
admVars == <<hubVars, headroom, at, planVars, board, tickSeen, opVars, faults>>

PausedStates == {"awaiting-answer", "agent-stuck"}           \* BACKLOG_PAUSED_STATES
PausedLabels == PausedStates \cup {"master-triage"}
Rank(ls) == LET r == {k \in DOMAIN Priorities : Priorities[k] \in ls}
            IN IF r = {} THEN Len(Priorities) + 1 ELSE CHOOSE k \in r : \A j \in r : k <= j

(* isDependencySatisfied: a closer whose state came back blank is trusted. *)
Satisfied(d) == closed[d] \in {"merged", "blank"}

(* gateLabels, in its order.                                               *)
LabelVerdict(ls) ==
  IF "ready" \notin ls THEN "not-ready"
  ELSE IF "afk" \notin ls THEN "not-afk"
  ELSE IF "hitl" \in ls THEN "hitl"
  ELSE IF ls \cap PausedLabels # {} THEN "paused"
  ELSE IF "mode" \notin ls THEN "no-mode" ELSE "passes"
DepVerdict(i, open) == IF open # {} \/ i \in Foreign THEN "blocked" ELSE "passes"

(* createDepCache: a number is asked for once per cache; the query may     *)
(* fail, and then the blocker stands.                                      *)
Asks(known, ds) ==
  \E down \in SUBSET (ds \ DOMAIN known) :
    /\ faults + Cardinality(down) <= MaxFaults /\ faults' = faults + Cardinality(down)
    /\ refused' = IF at = "gate" THEN refused \cup down ELSE {}
    /\ cache' = [d \in DOMAIN known \cup ds |->
                  IF d \in DOMAIN known THEN known[d] ELSE d \notin down /\ Satisfied(d)]
StillOpen(i) == {d \in Blockers[i] : ~cache'[d]}

(* compare: by age, then by priority, then by number.                      *)
\* mutant: by priority first.
UrgentFirst(i, j) ==
  LET p == Rank(listed[i])  q == Rank(listed[j]) IN p < q \/ (p = q /\ Created[i] < Created[j])
Before(i, j) ==
  LET p == Rank(listed[i])  q == Rank(listed[j]) IN
  \/ Created[i] < Created[j]
  \/ Created[i] = Created[j] /\ (p < q \/ (p = q /\ i < j))
Ahead(S, i) == Cardinality({j \in S : Before(j, i)})
Queue(S) == [k \in 1..Cardinality(S) |-> CHOOSE i \in S : Ahead(S, i) = k - 1]

InFlight == {i \in Backlog : run[i] = "running"}
FreeSlots == IF Cap > Cardinality(InFlight) THEN Cap - Cardinality(InFlight) ELSE 0
\* mutant: a stuck run holds its issue, whoever re-labels it.
SpanOnly == {"none", "merged"}
ReAdmittable == {"none", "agent-stuck", "merged"}

(* The tick.                                                               *)
ListIssues ==
  /\ at = "idle" /\ at' = "gate"
  /\ listed' = [i \in {j \in Backlog : closed[j] = "no"} |-> labels[i]]
  /\ left' = DOMAIN listed'
  /\ cache' = <<>> /\ eligible' = {} /\ excluded' = [i \in {} |-> ""] /\ picked' = <<>>
  /\ met' = {d \in Backlog : Satisfied(d)} /\ shut' = {d \in Backlog : ~Satisfied(d)} /\ refused' = {}
  /\ UNCHANGED <<hubVars, headroom, board, opVars, faults>>

Excluding(S, why) ==
  excluded' = [i \in DOMAIN excluded \cup S |-> IF i \in DOMAIN excluded THEN excluded[i] ELSE why]
Excludes(i, why) == Excluding({i}, why) /\ UNCHANGED eligible
\* admit: one issue, with the reads its verdict takes.
Gate ==
  /\ at = "gate" /\ left # {}
  /\ LET i == CHOOSE j \in left : \A k \in left : j <= k
         verdict == LabelVerdict(listed[i])
     IN
     /\ left' = left \ {i}
     /\ \/ /\ i \in InFlight /\ Excludes(i, "in-flight") /\ UNCHANGED <<cache, refused, faults>>
        \/ /\ run[i] \notin ReAdmittable /\ i \notin InFlight
           /\ Excludes(i, "held") /\ UNCHANGED <<cache, refused, faults>>
        \/ /\ run[i] \in ReAdmittable /\ verdict # "passes"
           /\ Excludes(i, verdict) /\ UNCHANGED <<cache, refused, faults>>
        \/ /\ run[i] \in ReAdmittable /\ verdict = "passes"
           /\ Asks(cache, Blockers[i])
           /\ IF DepVerdict(i, StillOpen(i)) = "passes"
              THEN eligible' = eligible \cup {i} /\ UNCHANGED excluded
              ELSE Excludes(i, "blocked")
  /\ UNCHANGED <<hubVars, headroom, at, listed, picked, board, met, shut, opVars>>

\* The rest of admit: the headroom is asked for only with something to admit.
Withheld == IF ~headroom.provider THEN "no-provider" ELSE "no-memory"
Fill ==
  /\ at = "gate" /\ left = {} /\ at' = "board" /\ cache' = <<>>
  /\ LET all == headroom.provider /\ headroom.memory
         queue == Queue(eligible)
     IN
     /\ eligible' = IF all THEN eligible ELSE {}
     /\ IF all THEN UNCHANGED excluded ELSE Excluding(eligible, Withheld)
     /\ picked' = IF all THEN SubSeq(queue, 1, IF Len(queue) < FreeSlots THEN Len(queue) ELSE FreeSlots) ELSE <<>>
  /\ met' = {} /\ shut' = {} /\ refused' = {}
  /\ UNCHANGED <<hubVars, headroom, listed, left, board, opVars, faults>>

(* projectBacklog and persistSnapshot: candidates for moding are gated as  *)
(* if they had a mode, with a cache of their own.                          *)
Unmoded == {i \in DOMAIN excluded : excluded[i] = "no-mode"}
ManualHolds == {i \in DOMAIN listed : {"ready", "hitl"} \subseteq listed[i] /\ listed[i] \cap PausedStates = {}}
Project ==
  /\ at = "board" /\ at' = "launch"
  /\ Asks(<<>>, UNION {Blockers[i] : i \in Unmoded})
  /\ LET moded(i) == DepVerdict(i, StillOpen(i)) IN
     board' = [eligible |-> eligible,
               blocked |-> {i \in DOMAIN excluded : excluded[i] = "blocked"}
                             \cup {i \in Unmoded : moded(i) = "blocked"},
               moding |-> {i \in Unmoded : moded(i) = "passes"},
               paused |-> {i \in DOMAIN listed : listed[i] \cap PausedStates # {}},
               manualHolds |-> ManualHolds,
               noProvider |-> {i \in DOMAIN excluded : excluded[i] = "no-provider"}]
  /\ UNCHANGED <<hubVars, headroom, listed, left, eligible, excluded, picked, met, shut, opVars>>

\* launch: the claim takes ready-for-agent off.
LaunchNext ==
  /\ at = "launch" /\ picked # <<>> /\ picked' = Tail(picked)
  /\ run' = [run EXCEPT ![Head(picked)] = "running"]
  /\ labels' = [labels EXCEPT ![Head(picked)] = @ \ {"ready"}]
  /\ UNCHANGED <<closed, thread, headroom, at, listed, left, cache, eligible, excluded, board, tickSeen, opVars, faults>>
TickEnds ==
  /\ at = "launch" /\ picked = <<>> /\ at' = "idle"
  /\ listed' = <<>> /\ cache' = <<>> /\ eligible' = {} /\ excluded' = <<>>
  /\ UNCHANGED <<hubVars, headroom, left, picked, board, tickSeen, opVars, faults>>

(* The rest of the daemon: sessions end, an answered run resumes.          *)
Notes ==
  LET now == {d \in Backlog : closed'[d] \in {"merged", "blank"}} IN
  /\ IF at = "gate" THEN met' = met \cup now /\ shut' = shut \cup (Backlog \ now) ELSE UNCHANGED <<met, shut>>
  /\ UNCHANGED refused
SessionEnds ==
  /\ \E i \in InFlight :
       \/ \* the comment with the question may not be there yet
          /\ run' = [run EXCEPT ![i] = "paused"]
          /\ thread' \in {[thread EXCEPT ![i] = "open"], thread}
          /\ labels' = [labels EXCEPT ![i] = @ \cup {"awaiting-answer"}] /\ UNCHANGED closed
       \/ /\ run' = [run EXCEPT ![i] = "agent-stuck"]
          /\ labels' = [labels EXCEPT ![i] = @ \cup {"agent-stuck"}] /\ UNCHANGED <<closed, thread>>
       \/ /\ run' = [run EXCEPT ![i] = "merged"]
          /\ closed' = [closed EXCEPT ![i] = "merged"] /\ UNCHANGED <<labels, thread>>
  /\ Notes /\ UNCHANGED <<headroom, at, planVars, board, opVars, faults>>
Resume ==
  /\ at = "idle" /\ FreeSlots > 0
  /\ \E i \in Backlog :
       /\ run[i] = "paused" /\ thread[i] = "answered" /\ "ready" \in labels[i]
       /\ run' = [run EXCEPT ![i] = "running"] /\ labels' = [labels EXCEPT ![i] = @ \ {"ready"}]
  /\ UNCHANGED <<closed, thread, headroom, at, planVars, board, tickSeen, opVars, faults>>
\* A person's PR closes an issue; its state may come back blank.
HumanMerges ==
  /\ edits < MaxEdits /\ edits' = edits + 1
  /\ \E i \in Backlog \ InFlight : \E how \in {"merged", "blank"} :
       closed[i] = "no" /\ closed' = [closed EXCEPT ![i] = how]
  /\ Notes /\ UNCHANGED <<labels, thread, run, headroom, at, planVars, board, request, faults>>
HeadroomMoves ==
  /\ faults < MaxFaults /\ faults' = faults + 1
  /\ \E p, m \in BOOLEAN : headroom' = [provider |-> p, memory |-> m] /\ headroom' # headroom
  /\ UNCHANGED <<hubVars, at, planVars, board, tickSeen, opVars>>

(* The operator.  The lists of the board are surfaces with their actions.  *)
Actions == [queued |-> {"pause", "set-mode", "set-priority", "close"}, attention |-> {"readmit", "close"},
            hold |-> {"unpause", "set-mode", "set-priority", "close"}, moding |-> {"set-mode", "close"}]
Offered(i) ==
  UNION {IF i \in board.eligible \cup board.blocked \cup board.noProvider THEN Actions.queued ELSE {},
         IF i \in board.paused THEN Actions.attention ELSE {},
         IF i \in board.manualHolds THEN Actions.hold ELSE {},
         IF i \in board.moding THEN Actions.moding ELSE {}}

\* executePowerAction reads the issue, then writes; web/server runs one at a time here.
Asked ==
  /\ request.kind = "none" /\ edits < MaxEdits /\ edits' = edits + 1
  /\ \E i \in Backlog : \E k \in Offered(i) : request' = [kind |-> k, issue |-> i, seen |-> labels[i]]
  /\ UNCHANGED <<hubVars, headroom, at, planVars, board, tickSeen, faults>>

(* planPowerAction.                                                        *)
PatchOf(k, seen) ==
  CASE k = "readmit"      -> [remove |-> PausedStates \cap seen, add |-> {"ready"}]
    [] k = "set-mode"     -> [remove |-> {"mode"} \cap seen, add |-> {"mode"}]
    [] k = "set-priority" -> [remove |-> Range(Priorities) \cap seen, add |-> {Priorities[1]}]
    [] k = "pause"        -> [remove |-> {"afk"}, add |-> {"hitl"}]
    [] k = "unpause"      -> [remove |-> {"hitl"}, add |-> {"afk"}]
\* submitForIssue on a stuck issue is refused as terminal; on a paused one the
\* open question is answered, and without one nothing may be done.
Answers(i, seen) == "awaiting-answer" \in seen /\ "agent-stuck" \notin seen /\ thread[i] = "open"
Applied ==
  /\ request.kind # "none" /\ request' = [request EXCEPT !.kind = "none"]
  /\ LET i == request.issue  k == request.kind  seen == request.seen
         put(p) == labels' = [labels EXCEPT ![i] = (@ \ p.remove) \cup p.add]
     IN
     \/ /\ k = "close" /\ closed' = [closed EXCEPT ![i] = IF @ = "no" THEN "dropped" ELSE @]
        /\ UNCHANGED <<labels, thread>>
     \/ /\ k = "readmit" /\ Answers(i, seen) /\ UNCHANGED closed
        /\ thread' = [thread EXCEPT ![i] = "answered"]
        /\ put([remove |-> {"awaiting-answer"}, add |-> {"ready"}])
     \/ /\ k = "readmit" /\ ~Answers(i, seen) /\ "awaiting-answer" \in seen
        /\ "agent-stuck" \notin seen /\ thread[i] = "none" /\ UNCHANGED <<labels, closed, thread>>
     \/ /\ k # "close" /\ UNCHANGED <<closed, thread>>
        /\ k = "readmit" => ~Answers(i, seen)
             /\ ("awaiting-answer" \in seen /\ "agent-stuck" \notin seen => thread[i] = "answered")
        /\ put(PatchOf(k, seen))
  /\ Notes /\ UNCHANGED <<run, headroom, at, planVars, board, edits, faults>>

AdmInit ==
  /\ labels \in Starts
  /\ closed = [i \in Backlog |-> "no"] /\ thread = [i \in Backlog |-> "none"]
  /\ run = [i \in Backlog |-> "none"] /\ headroom = [provider |-> TRUE, memory |-> TRUE]
  /\ at = "idle" /\ listed = <<>> /\ left = {} /\ cache = <<>> /\ eligible = {}
  /\ excluded = <<>> /\ picked = <<>>
  /\ board = [eligible |-> {}, blocked |-> {}, moding |-> {}, paused |-> {}, manualHolds |-> {}, noProvider |-> {}]
  /\ met = {} /\ shut = {} /\ refused = {}
  /\ request = [kind |-> "none", issue |-> 0, seen |-> {}] /\ edits = 0 /\ faults = 0

TickStep == ListIssues \/ Gate \/ Fill \/ Project \/ LaunchNext \/ TickEnds
DaemonElse == SessionEnds \/ Resume
AdmNext == TickStep \/ DaemonElse \/ HumanMerges \/ HeadroomMoves \/ Asked \/ Applied

(* Properties.                                                             *)
Open(i) == Blockers[i] \cap (shut \cup refused)
Waiting(i) == /\ LabelVerdict(listed[i]) = "passes" /\ i \notin Foreign /\ Open(i) = {}
              /\ run[i] = "none" /\ i \notin Range(picked')
(***************************************************************************)
(* admit, with the world moving between its reads: what a tick picks       *)
(* passed the gate as listed, each of its blockers met at some time of the *)
(* tick; and what passed it all tick is left out only for an issue at      *)
(* least as old, with every slot filled or the headroom gone.              *)
(***************************************************************************)
FairPick == [][at = "gate" /\ at' = "board" =>
  /\ \A p \in Range(picked') : /\ LabelVerdict(listed[p]) = "passes"
                               /\ p \notin Foreign /\ Blockers[p] \subseteq met
  /\ \A i \in DOMAIN listed : Waiting(i) =>
       /\ \A p \in Range(picked') : Created[p] <= Created[i]
       /\ headroom.provider /\ headroom.memory => Len(picked') = FreeSlots]_admVars

Shown(i) == LET ls == listed[i] IN
  \/ ls \cap PausedStates # {} \/ {"ready", "hitl"} \subseteq ls
  \/ /\ {"ready", "afk"} \subseteq ls /\ ls \cap PausedLabels = {}
     /\ i \in DOMAIN excluded => excluded[i] \notin {"in-flight", "held", "no-memory"}
(***************************************************************************)
(* projectBacklog: the board shows each waiting issue once, and what the   *)
(* tick is about to launch as eligible; it never diverges from the pickup. *)
(***************************************************************************)
BoardIsWhole == [][at = "board" /\ at' = "launch" =>
  /\ Range(picked) \subseteq board'.eligible
  /\ \A i \in DOMAIN listed :
       Cardinality({list \in DOMAIN board' : i \in board'[list]}) = IF Shown(i) THEN 1 ELSE 0]_admVars

Wants(i) == /\ closed[i] = "no" /\ LabelVerdict(labels[i]) = "passes" /\ run[i] \in {"none", "agent-stuck"}
            /\ i \notin Foreign /\ \A d \in Blockers[i] : Satisfied(d)
(***************************************************************************)
(* An issue that keeps passing the gate is launched, one that got stuck    *)
(* and was handed back too, whatever else comes and goes: nothing starves. *)
(***************************************************************************)
Served == \A i \in Backlog : []<>~(Wants(i) /\ headroom.provider /\ headroom.memory)
=============================================================================
