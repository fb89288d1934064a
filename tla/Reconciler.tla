----------------------------- MODULE Reconciler -----------------------------
(***************************************************************************)
(* The reconcile loop of src/daemon/reconciler.ts and orchestrator.ts:     *)
(* recovery at boot, then, repo by repo, a tick that leases the merge      *)
(* worker, sweeps the runs table, prunes worktrees, resumes answered runs, *)
(* polls CI, dispatches the master, admits and claims fresh issues and     *)
(* surfaces what it cannot classify; the crash of the daemon; and what     *)
(* people and GitHub do meanwhile.                                         *)
(*                                                                         *)
(* A phase that works through a list holds what is left of the list in     *)
(* todo, as the code holds the array it read once, and the item it awaits  *)
(* a read of in cur.  Deciding on one item and moving on to the next are   *)
(* one step, as no await is between them.  Of the two reads of an item     *)
(* the first, the issue's, is remembered in saw; the second, the PR's, is  *)
(* fused with the decision.                                                *)
(***************************************************************************)
EXTENDS Executor

IsFirst(i, S) == i \in S /\ \A j \in S : i <= j

\* The tick thread at an await of its own.
At(p) == phase = p /\ cur = NoIssue

\* Work through S in order: on to the first of S that qualifies, past the
\* ones before it; the list is done when none does.
GoThrough(S, qualified) ==
  /\ saw' = "unread"
  /\ IF S \cap qualified = {}
     THEN cur' = NoIssue /\ todo' = {}
     ELSE \E i \in Issues : /\ IsFirst(i, S \cap qualified)
                            /\ cur' = i /\ todo' = {j \in S : i < j}
Reads(i) == saw' = IF i \in open THEN "open" ELSE "closed"

\* occupySlot() sets the issue's entry of inFlight whether or not it has one.
Occupy(i, stage, w) == Start("build", i, stage, w)

\* The first n of S, or all of S, in FIFO order.
FirstOfAll(S, n) == {S}  \* mutant: n is checked once, not per launch
FirstOf(S, n) == {T \in SUBSET S : /\ Cardinality(T) <= n
                                   /\ T = S \/ Cardinality(T) = n
                                   /\ \A i \in T, j \in S \ T : i < j}

-----------------------------------------------------------------------------
(* The sweep, and the recovery at boot, over the rows read at its start.   *)

Sweeping == phase \in {"rehydrate", "sweep"}
SweepOnAll(S) == GoThrough(S, Issues)  \* mutant: the in-flight rows too
SweepOn(S) == GoThrough(S, Issues \ InFlight)

\* startup() rehydrates one repo after the other.
BootRepo ==
  /\ At("boot")
  /\ phase' = "rehydrate"
  /\ snap' = RowsIn(repo, {"running"})
  /\ SweepOn(RowsIn(repo, {"running"}))
  /\ Calm /\ UNCHANGED <<runs, github, sess, wt, lease, survivors, repo, slots, listing>>

BootDone ==
  /\ At("rehydrate")
  /\ IF repo < NRepos THEN phase' = "boot" /\ repo' = repo + 1
                      ELSE phase' = "idle" /\ repo' = 1
  /\ snap' = {}
  /\ Calm /\ UNCHANGED <<runs, github, sess, wt, lease, survivors, todo, cur, saw, slots, listing>>

\* A tick begins: the merge worker leases one queued integration if the repo
\* has none, and the sweep lists the rows.
MergeQueue(r) == RowsIn(r, {"awaiting-merge"}) \ InFlight

ServiceAllMerges(r) ==  \* mutant: one lease per run, not per repo
  IF MergeQueue(r) \ MergeInFlight # {}
  THEN \E i \in MergeQueue(r) \ MergeInFlight : Start("merge", i, "resolve", "integrate")
  ELSE UNCHANGED sess
ServiceMergeWorker(r) ==
  IF MergeInFlight \cap InRepo(r) = {} /\ MergeQueue(r) # {}
  THEN \E i \in MergeQueue(r) : Start("merge", i, "resolve", "integrate")
  ELSE UNCHANGED sess

TickStart ==
  /\ At("idle")
  /\ ServiceMergeWorker(repo)
  /\ phase' = "sweep"
  /\ snap' = RowsIn(repo, {"running"})
  /\ SweepOn(RowsIn(repo, NonTerminal))
  /\ Calm /\ UNCHANGED <<runs, github, wt, lease, survivors, repo, slots, listing>>

\* The read of a parked row whose issue is open ends its visit.
SweepReads(i) ==
  /\ Sweeping /\ cur = i /\ saw = "unread"
  /\ IF i \notin snap /\ i \in open THEN SweepOn(todo) ELSE Reads(i) /\ UNCHANGED <<cur, todo>>
  /\ Calm /\ UNCHANGED <<runs, github, sess, wt, lease, survivors, phase, repo, snap, slots, listing>>

Decides(i) == cur = i /\ saw # "unread"
Live(i)    == saw = "open" /\ pr[i] = "open"

\* A row that was listed as running, whose issue and PR are open: re-drive its
\* review if a slot is free, else leave it.
SweepRecovers(i) ==
  /\ Sweeping /\ Decides(i) /\ i \in snap /\ Live(i)
  /\ IF HasCapacity THEN Occupy(i, "attach", "review") ELSE UNCHANGED sess
  /\ SweepOn(todo)
  /\ Calm /\ UNCHANGED <<runs, github, wt, lease, survivors, phase, repo, snap, slots, listing>>

\* ... whose container still runs: left to finish.
Spared(i) == i \in snap /\ saw = "open" /\ i \in survivors

SweepSpares(i) ==
  /\ Sweeping /\ Decides(i) /\ ~Live(i) /\ Spared(i)
  /\ SweepOn(todo)
  /\ Calm /\ UNCHANGED <<runs, github, sess, wt, lease, survivors, phase, repo, snap, slots, listing>>

\* ... with nothing left to re-drive; and a parked row whose issue is closed.
SweepDiscards(i) ==
  /\ Sweeping /\ Decides(i) /\ ~Live(i) /\ ~Spared(i)
  /\ Discard(i, saw = "open")
  /\ SweepOn(todo)
  /\ Calm /\ UNCHANGED <<rows, github, sess, lease, survivors, phase, repo, snap, slots, listing>>

\* A read that throws ends the boot recovery, or the sweep with its prune.
SweepFails(i) ==
  /\ Sweeping /\ cur = i
  /\ Surprise("readFails")
  /\ GoThrough({}, {})
  /\ phase' = IF phase = "sweep" THEN "prune" ELSE phase
  /\ UNCHANGED <<runs, github, sess, wt, lease, survivors, repo, snap, slots, listing>>

-----------------------------------------------------------------------------
(* The sweep's tail: worktrees no live agent points at, then containers.   *)

ReferencedByRow == {i \in Issues : \/ \E l \in Lane : HasAgent(l, i)
                                   \/ i \in rows /\ status[i] \in NonTerminal}  \* mutant
Referenced == {i \in Issues : \/ \E l \in Lane : HasAgent(l, i)
                              \/ i \in rows \cap InFlight /\ status[i] \in NonTerminal}

PruneList ==
  /\ At("sweep")
  /\ phase' = "prune"
  /\ todo' = (wt \cap InRepo(repo)) \ Referenced
  /\ snap' = {}
  /\ Calm /\ UNCHANGED <<runs, github, sess, wt, lease, survivors, repo, cur, saw, slots, listing>>

PruneOne(i) ==
  /\ At("prune") /\ i \in todo
  /\ wt' = wt \ {i} /\ todo' = todo \ {i}
  /\ Calm /\ UNCHANGED <<runs, github, sess, lease, survivors, phase, repo, cur, saw, snap, slots, listing>>

-----------------------------------------------------------------------------
(* The listing, and the scan of the paused runs for answers.               *)

\* Containers of no live run are killed, then the open issues are listed.
ListIssues ==
  /\ At("prune") /\ todo = {}
  /\ survivors' = {i \in survivors : i \in InRepo(repo) => i \in RowsIn(repo, NonTerminal)}
  /\ listing' = [NoListing EXCEPT !.open = InRepo(repo) \cap open,
                                  !.ready = InRepo(repo) \cap open \cap ready]
  /\ phase' = "scan" /\ todo' = RowsIn(repo, PausedRun)
  /\ snap' = {}
  /\ Calm /\ UNCHANGED <<runs, github, sess, wt, lease, repo, cur, saw, slots>>

\* A listing that throws ends the tick of this repo.
NextRepo == phase' = "idle" /\ repo' = IF repo < NRepos THEN repo + 1 ELSE 1

ListFails ==
  /\ At("prune") /\ todo = {}
  /\ Surprise("readFails")
  /\ NextRepo
  /\ snap' = {}
  /\ UNCHANGED <<runs, github, sess, wt, lease, survivors, todo, cur, saw, slots, listing>>

\* What the scan finds of the paused runs S.
Scanned(S) == LET A == S \cap open \cap answered IN
  [listing EXCEPT !.resumable = @ \cup (A \cap ready), !.stranded = @ \cup (A \ ready)]

ScanVisits(i) ==
  /\ At("scan") /\ Cardinality(todo) > 1 /\ IsFirst(i, todo)
  /\ listing' = Scanned({i}) /\ todo' = todo \ {i}
  /\ Calm /\ UNCHANGED <<runs, github, sess, wt, lease, survivors, phase, repo, cur, saw, snap, slots>>

\* The scan ends with the usage gate shut: nothing is launched in this tick.
GateShut ==
  /\ At("scan") /\ Cardinality(todo) < 2
  /\ Surprise("gateShut")
  /\ listing' = Scanned(todo)
  /\ phase' = "admit" /\ todo' = {} /\ slots' = 0
  /\ UNCHANGED <<runs, github, sess, wt, lease, survivors, repo, cur, saw, snap>>

\* The CI poller goes on to a parked run while a slot is free.
CiRuns == IF HasCapacity THEN Issues \ (InFlight \cup MergeInFlight) ELSE {}

\* The scan ends, and every resumable run is launched while a slot is free: the
\* master takes up the answer to its own question if its lease is free, and a
\* worker whose resume was deferred resumes.  Then the CI poller begins.
Resumable == Scanned(todo).resumable \ InFlight
Asking    == {i \in Resumable : asking[i]}
Takers    == IF lease = NoIssue THEN {i \in Asking : IsFirst(i, Asking)} ELSE {}

Launched(T) == [i \in Issues |->
  IF i \in T THEN [at   |-> IF asking[i] THEN "resolve" ELSE "attach",
                   work |-> IF asking[i] THEN "master" ELSE "resume",
                   from |-> status[i]]
            ELSE sess["build"][i]]

ResumeAnswered ==
  /\ At("scan") /\ Cardinality(todo) < 2
  /\ listing' = Scanned(todo)
  /\ \E T \in FirstOf(Takers \cup (Resumable \ Asking), Minus(Cap, Cardinality(InFlight))) :
       /\ sess' = [sess EXCEPT !["build"] = Launched(T)]
       /\ IF T \cap Asking = {} THEN UNCHANGED lease ELSE lease' \in T \cap Asking
       /\ ready' = ready \ (T \ Asking)
  /\ phase' = "ci"
  /\ GoThrough(RowsIn(repo, {"awaiting-ci"}), CiRuns')
  /\ Calm /\ UNCHANGED <<runs, open, pr, answered, wt, survivors, repo, snap, slots>>

-----------------------------------------------------------------------------
(* The CI poller.  Capacity and idleness are checked before the reads.     *)

CiReads(i) ==
  /\ phase = "ci" /\ cur = i /\ saw = "unread"
  /\ Reads(i)
  /\ Calm /\ UNCHANGED <<runs, github, sess, wt, lease, survivors, phase, repo, todo, cur, snap, slots, listing>>

\* The checks settled, or the wait timed out.
CiResumes(i) ==
  /\ phase = "ci" /\ Decides(i) /\ Live(i)
  /\ Occupy(i, "attach", "ciReview")
  /\ GoThrough(todo, CiRuns')
  /\ Calm /\ UNCHANGED <<runs, github, wt, lease, survivors, phase, repo, snap, slots, listing>>

\* Still pending, or the read failed.
CiWaits(i) ==
  /\ phase = "ci" /\ Decides(i) /\ Live(i)
  /\ Surprise("ciPending")
  /\ GoThrough(todo, CiRuns)
  /\ UNCHANGED <<runs, github, sess, wt, lease, survivors, phase, repo, snap, slots, listing>>

CiDiscards(i) ==
  /\ phase = "ci" /\ Decides(i) /\ ~Live(i)
  /\ Discard(i, saw = "open")
  /\ GoThrough(todo, CiRuns)
  /\ Calm /\ UNCHANGED <<rows, github, sess, lease, survivors, phase, repo, snap, slots, listing>>

-----------------------------------------------------------------------------
(* The master queue, then the slots admission may fill, with no await in   *)
(* between.                                                                *)

MasterQueue(r) == RowsIn(r, {"master-triage"}) \ (InFlight \cup MergeInFlight)

MasterDispatch ==
  /\ At("ci")
  /\ IF lease = NoIssue /\ HasCapacity /\ MasterQueue(repo) # {}
     THEN \E i \in MasterQueue(repo) : lease' = i /\ Occupy(i, "resolve", "master")
     ELSE UNCHANGED <<lease, sess>>
  /\ phase' = "admit"
  /\ Calm /\ UNCHANGED <<runs, github, wt, survivors, repo, todo, cur, saw, snap, listing>>
  /\ slots' = AvailableSlots(repo)'

-----------------------------------------------------------------------------
(* Admission over the listed issues, then one awaited claim per pick.      *)

Admissible == {i \in listing.ready \ InFlight : i \in rows => status[i] \in ReAdmittable}

Admit ==
  /\ At("admit")
  /\ phase' = "claim" /\ todo' \in FirstOf(Admissible, slots)
  /\ slots' = 0
  /\ Calm /\ UNCHANGED <<runs, github, sess, wt, lease, survivors, repo, cur, saw, snap, listing>>

\* The PR lookup, saw here, decides between attaching to its branch and a fresh
\* worktree.  A lookup that fails counts as no PR, and the fresh worktree
\* deletes the remote branch, which closes the PR that was there.
ClaimLooks(i) ==
  /\ At("claim") /\ IsFirst(i, todo)
  /\ cur' = i /\ todo' = todo \ {i}
  /\ \/ /\ saw' = IF pr[i] = "open" THEN "open" ELSE "closed"
        /\ Calm /\ UNCHANGED pr
     \/ /\ Surprise("readFails") /\ saw' = "closed"
        /\ pr' = [pr EXCEPT ![i] = IF @ = "open" THEN "closed" ELSE @]
  /\ wt' = wt \cup {i}
  /\ UNCHANGED <<runs, open, ready, answered, sess, lease, survivors, phase, repo, snap, slots, listing>>

ClaimRecords(i) ==
  /\ phase = "claim" /\ cur = i
  /\ rows' = rows \cup {i}
  /\ Record(i, "RunStarted")
  /\ phase' = "claiming"
  /\ Calm /\ UNCHANGED <<github, sess, wt, lease, survivors, repo, todo, cur, saw, snap, slots, listing>>

\* ready-for-agent is off: the slot is occupied.
ClaimDone(i) ==
  /\ phase = "claiming" /\ cur = i
  /\ ready' = ready \ {i}
  /\ Occupy(i, "working", IF saw = "open" THEN "review" ELSE "impl")
  /\ phase' = "claim" /\ cur' = NoIssue /\ saw' = "unread"
  /\ Calm /\ UNCHANGED <<runs, open, pr, answered, wt, lease, survivors, repo, todo, snap, slots, listing>>

\* A failed claim is rolled back; after too many the issue is parked with an
\* anomaly label and a closed run.
ClaimFails(i) ==
  /\ phase \in {"claim", "claiming"} /\ cur = i
  /\ Surprise("claimFails")
  /\ \/ /\ rows' = IF phase = "claiming" THEN rows \ {i} ELSE rows
        /\ UNCHANGED <<stream, ready>>
     \/ /\ rows' = rows \cup {i}
        /\ Record(i, "RunEndedClosed")
        /\ ready' = ready \ {i}
  /\ wt' = wt \ {i}
  /\ phase' = "claim" /\ cur' = NoIssue /\ saw' = "unread"
  /\ UNCHANGED <<open, pr, answered, sess, lease, survivors, repo, todo, snap, slots, listing>>

-----------------------------------------------------------------------------
(* The completeness pass over the rows, against the slots in flight when   *)
(* it begins.  Its read of the issue is fused with what it then does.      *)

CompleteStart ==
  /\ At("claim") /\ todo = {}
  /\ phase' = "complete" /\ todo' = InRepo(repo) \cap rows
  /\ snap' = InFlight
  /\ Calm /\ UNCHANGED <<runs, github, sess, wt, lease, survivors, repo, cur, saw, slots, listing>>

\* A listed issue's run that nothing drives goes to the master: running but
\* in no slot, or paused with ready-for-agent on and no answer to resume with.
Listed(i)      == i \in rows \cap listing.open
Undriven(i)    == status[i] = "running" \/ /\ status[i] \in PausedRun
                                           /\ i \in listing.ready \ listing.resumable
AnomalyAny(i)  == Listed(i) /\ Undriven(i) /\ i \in open  \* mutant: in a slot or not
Anomaly(i)     == Listed(i) /\ Undriven(i) /\ i \notin snap /\ i \in open
StrandedNot(i) == Listed(i) /\ status[i] \in PausedRun /\ i \in listing.resumable  \* mutant
Stranded(i)    == Listed(i) /\ status[i] \in PausedRun /\ i \in listing.stranded
StuckClosed(i) == i \in rows \ listing.open /\ status[i] = "agent-stuck" /\ i \notin open

CompleteVisits(i) ==
  /\ At("complete") /\ IsFirst(i, todo)
  /\ IF Anomaly(i) THEN Record(i, "MasterTriageRequested")
     ELSE IF StuckClosed(i) THEN Record(i, "RunEndedClosed") ELSE UNCHANGED stream
  /\ ready' = IF Stranded(i) THEN ready \cup {i} ELSE ready
  /\ todo' = todo \ {i}
  /\ Calm /\ UNCHANGED <<rows, open, pr, answered, sess, wt, lease, survivors,
                       phase, repo, cur, saw, snap, slots, listing>>

TickEnds ==
  /\ At("complete") /\ todo = {}
  /\ NextRepo
  /\ snap' = {} /\ listing' = NoListing
  /\ Calm /\ UNCHANGED <<runs, github, sess, wt, lease, survivors, todo, cur, saw, slots>>

-----------------------------------------------------------------------------
(* People, GitHub, containers left over, and the crash of the daemon.      *)

Closes(i) ==
  /\ i \in open /\ Surprise("close")
  /\ open' = open \ {i}
  /\ UNCHANGED <<runs, pr, ready, answered, sess, wt, lease, survivors, tickVars>>

\* Reopened, and labelled for another attempt.
Reopens(i) ==
  /\ i \notin open /\ Surprise("reopen")
  /\ open' = open \cup {i} /\ ready' = ready \cup {i}
  /\ pr[i] # "merged"
  /\ UNCHANGED <<runs, pr, answered, sess, wt, lease, survivors, tickVars>>

Relabels(i) ==
  /\ i \in open \ ready /\ i \in rows /\ status[i] \in ReAdmittable
  /\ Surprise("relabel")
  /\ ready' = ready \cup {i}
  /\ UNCHANGED <<runs, open, pr, answered, sess, wt, lease, survivors, tickVars>>

\* ralph-answer offers an issue that carries the paused label, which the label
\* outbox withholds while ready-for-agent is on.  It posts the answer, then
\* swaps the labels back; the second write may be lost.
Answers(i) ==
  /\ i \in (rows \cap open) \ (answered \cup ready)
  /\ status[i] = "awaiting-answer"
  /\ answered' = answered \cup {i}
  /\ \/ Surprise("answer") /\ ready' = ready \cup {i}
     \/ Surprise("strand") /\ UNCHANGED ready
  /\ UNCHANGED <<runs, open, pr, sess, wt, lease, survivors, tickVars>>

TouchesPR(i) ==
  /\ pr[i] = "open"
  /\ \E p \in {"merged", "closed"} :
       /\ Surprise(IF p = "merged" THEN "mergePR" ELSE "closePR")
       /\ pr' = [pr EXCEPT ![i] = p]
       /\ open' = IF p = "merged" THEN open \ {i} ELSE open
  /\ UNCHANGED <<runs, ready, answered, sess, wt, lease, survivors, tickVars>>

\* The container left by a crash finishes on its own, with or without a PR.
SurvivorEnds(i) ==
  /\ i \in survivors
  /\ survivors' = survivors \ {i}
  /\ \E p \in {pr[i], "open"} : pr' = [pr EXCEPT ![i] = p]
  /\ Calm /\ UNCHANGED <<runs, open, ready, answered, sess, wt, lease, tickVars>>

\* Everything held in memory is gone; the store, the worktrees and GitHub
\* are not, and containers may outlive the daemon.
Crash ==
  /\ Surprise("crash")
  /\ sess' = [l \in Lane |-> [i \in Issues |-> Idle]]
  /\ lease' = NoIssue
  /\ \E S \in {{}, {i \in Issues : HasAgent("build", i)}} : survivors' = survivors \cup S
  /\ phase' = "boot" /\ repo' = 1 /\ todo' = {} /\ cur' = NoIssue
  /\ saw' = "unread" /\ snap' = {} /\ slots' = 0 /\ listing' = NoListing
  /\ UNCHANGED <<runs, github, wt>>

-----------------------------------------------------------------------------

SweepStep(i) == \/ SweepReads(i) \/ SweepRecovers(i)
                \/ SweepSpares(i) \/ SweepDiscards(i)

ServeStep(i) == \/ PruneOne(i) \/ ScanVisits(i)
                \/ CiReads(i) \/ CiResumes(i) \/ CiDiscards(i)
                \/ ClaimLooks(i) \/ ClaimRecords(i) \/ ClaimDone(i)
                \/ CompleteVisits(i)

TickStep == \/ BootRepo \/ BootDone \/ TickStart \/ PruneList \/ ListIssues
            \/ ResumeAnswered \/ MasterDispatch \/ Admit
            \/ CompleteStart \/ TickEnds
            \/ \E i \in Issues : SweepStep(i) \/ ServeStep(i)

TickFault == \/ GateShut \/ ListFails
             \/ \E i \in Issues : SweepFails(i) \/ CiWaits(i) \/ ClaimFails(i)

Environment == \/ Crash
               \/ \E i \in Issues : \/ Closes(i) \/ Reopens(i)
                                    \/ Relabels(i) \/ Answers(i) \/ TouchesPR(i)
                                    \/ SurvivorEnds(i)

Next == TickStep \/ TickFault \/ SessionStep \/ Environment

Spec == Init /\ [][Next]_vars

=============================================================================
