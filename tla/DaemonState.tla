---------------------------- MODULE DaemonState ----------------------------
(***************************************************************************)
(* The state the reconciler and the executor of one daemon share.          *)
(*                                                                         *)
(* The daemon is one JavaScript thread: code runs without interruption     *)
(* until it awaits.  Every action of Executor.tla and Reconciler.tla is    *)
(* therefore the code between two awaits, and the interleavings are those  *)
(* of one tick (the reconcilers of all repos tick one after the other),    *)
(* one promise per occupied slot, one integration per repo, people, and    *)
(* GitHub.  An issue belongs to one repo and is numbered in FIFO order.    *)
(***************************************************************************)
EXTENDS RunLifecycle, Integers, FiniteSets

CONSTANTS Issues,        \* the issues, as positive numbers
          NRepos,        \* how many target repos the daemon serves
          RepoOf,        \* the repo of each issue
          Cap,           \* scheduler.maxConcurrentAgents
          PerTarget,     \* targets[].maxConcurrentAgents
          Surprises,     \* the kinds of failure and human act to explore
          MaxSurprises   \* BOUND on how many of them happen in one behaviour

NoIssue == 0
Repos == 1..NRepos

ASSUME IssuesAssumption == Issues \subseteq Nat \ {0} /\ IsFiniteSet(Issues)
ASSUME RepoAssumption   == NRepos \in Nat \ {0} /\ RepoOf \in [Issues -> Repos]
ASSUME CapAssumption    == Cap \in Nat \ {0} /\ PerTarget \in Nat \ {0}
ASSUME BoundAssumption  == MaxSurprises \in Nat

VARIABLES
  \* --- the store and GitHub
  status,     \* [Issues -> Status]: what the issue's stream projects
  asking,     \* [Issues -> BOOLEAN]: the stream's question is the master's
  rows,       \* the issues with a row in the runs table
  open,       \* the issues open on GitHub
  pr,         \* [Issues -> PrState]: the pull request of the run's branch
  ready,      \* the issues carrying the label ready-for-agent
  answered,   \* issues whose latest question has an operator's answer
  \* --- the sessions
  sess,       \* [Lane -> [Issues -> Session]]: inFlight and mergeInFlight
  wt,         \* issues whose worktree is registered on disk
  lease,      \* the holder of the daemon-wide master lease
  survivors,  \* issues whose agent container outlived a daemon crash
  \* --- the tick
  phase,      \* the await the tick is suspended on
  repo,       \* the repo being ticked
  todo,       \* what is left of the list the phase works through
  cur,        \* the item being awaited, NoIssue between items
  saw,        \* what the read of cur's issue returned
  snap,       \* the part of the phase's first read that it uses later
  slots,      \* the slots admission may fill
  listing,    \* what the tick's listing and its scan of the pauses returned
  \* --- the bound on failures and human acts
  surprises

github   == <<open, pr, ready, answered>>
tickVars == <<phase, repo, todo, cur, saw, snap, slots, listing>>
stream   == <<status, asking>>
runs     == <<stream, rows>>
vars     == <<runs, github, sess, wt, lease, survivors, tickVars, surprises>>

PrState == {"none", "open", "merged", "closed"}

(***************************************************************************)
(* A session is the promise of an occupied slot (lane "build": the map     *)
(* inFlight) or of a leased integration (lane "merge": mergeInFlight).     *)
(* "at" is the await it is suspended on, "work" what it is driving, "from" *)
(* the status in the Run snapshot it was started with.                     *)
(***************************************************************************)
Lane  == {"build", "merge"}
Work  == {"none", "impl", "resume", "review", "ciReview", "integrate", "master"}
Stage == {"idle", "resolve", "sawOpen", "sawClosed", "attach", "attached",
          "working", "landed", "failing", "teardown"}
Phase == {"boot", "rehydrate", "idle", "sweep", "prune", "scan", "ci",
          "admit", "claim", "claiming", "complete"}
Saw   == {"unread", "open", "closed"}
Session == [at : Stage, work : Work, from : Status]
Idle    == [at |-> "idle", work |-> "none", from |-> "none"]

\* What a tick reads from GitHub once, and judges the issues by until it ends:
\* the open issues, those labelled ready-for-agent, and the paused runs whose
\* answer is there with the label (resumable) and without it (stranded).
Listing   == [open : SUBSET Issues, ready : SUBSET Issues,
              resumable : SUBSET Issues, stranded : SUBSET Issues]
NoListing == [open |-> {}, ready |-> {}, resumable |-> {}, stranded |-> {}]

Busy(l)       == {i \in Issues : sess[l][i].at # "idle"}
InFlight      == Busy("build")
MergeInFlight == Busy("merge")

InRepo(r)      == {i \in Issues : RepoOf[i] = r}
RowsIn(r, S)   == {i \in InRepo(r) \cap rows : status[i] \in S}

\* The agent row lives from addAgent to endAgent; the master never adds one.
HasAgent(l, i) == /\ sess[l][i].at \in {"working", "landed", "failing"}
                  /\ sess[l][i].work # "master"

\* hasCapacity() of the shared budget, and availableSlots().
HasCapacity == Cardinality(InFlight) < Cap
Less(a, b)  == IF a < b THEN a ELSE b
Minus(a, b) == IF b < a THEN a - b ELSE 0
AvailableSlots(r) == Less(Minus(Cap, Cardinality(InFlight)),
                          Minus(PerTarget, Cardinality(InFlight \cap InRepo(r))))

(***************************************************************************)
(* Every failure, human act and crash is a surprise: a cfg chooses which   *)
(* kinds it explores, and a behaviour has at most MaxSurprises of them.    *)
(***************************************************************************)
Surprise(kind) == /\ kind \in Surprises
                  /\ surprises < MaxSurprises
                  /\ surprises' = surprises + 1
Calm == UNCHANGED surprises

\* A fact appended to the issue's stream; the starts and turns of a session.
Record(i, fact) == /\ status' = [status EXCEPT ![i] = StatusAfter(@, fact)]
                   /\ asking' = [asking EXCEPT ![i] = AskingAfter(@, fact)]
Start(l, i, stage, w) ==
  sess' = [sess EXCEPT ![l][i] = [at |-> stage, work |-> w,
             from |-> IF w \in {"master", "resume"} THEN status[i] ELSE "none"]]
GoTo(l, i, stage) == sess' = [sess EXCEPT ![l][i].at = stage]
Turn(l, i, stage, w) == sess' = [sess EXCEPT ![l][i].at = stage, ![l][i].work = w]
Leave(l, i) ==
  sess' = [sess EXCEPT ![l][i] = [at |-> "teardown", work |-> "none", from |-> "none"]]

Init ==
  /\ status = [i \in Issues |-> "none"]
  /\ asking = [i \in Issues |-> FALSE]
  /\ rows = {}
  /\ open = Issues
  /\ pr = [i \in Issues |-> "none"]
  /\ ready = Issues
  /\ answered = {}
  /\ sess = [l \in Lane |-> [i \in Issues |-> Idle]]
  /\ wt = {}
  /\ lease = NoIssue
  /\ survivors = {}
  /\ phase = "boot" /\ repo = 1 /\ todo = {} /\ cur = NoIssue
  /\ saw = "unread" /\ snap = {} /\ slots = 0 /\ listing = NoListing
  /\ surprises = 0

=============================================================================
