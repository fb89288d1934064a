----------------------------- MODULE MCSessions -----------------------------
(* What surrounds one session, side by side: the hosted gate of its pull   *)
(* request, the runner in its container, the gate on the shared clone, the *)
(* clone's worktrees and branches, the view of its run, the decisions made *)
(* about it and the client all of them reach GitHub by.  They share no     *)
(* variable, so each behaviour moves one part and leaves the others at the *)
(* single state pinned here: the run's states are the sum of the parts'.   *)
EXTENDS Naturals, Sequences

CONSTANTS Threads, MaxHead, MaxPolls, ObservePolls, FixBudget, Dispositions,
          GateFaults, MaxGateFaults, Kinds, MaxFrames, ParseTries, Callers, MaxBase,
          GitFaults, Issues, MaxClaimFailures, CloneFaults, MaxCloneFaults,
          Phases, MaxFixes, Calls, MaxLog,
          Nodes, Root, Workers, CharBudget, MaxPerNode, MaxAttempts, MaxComments,
          LedgerFaults, MaxLedgerFaults,
          ThreadPage, MaxThreadPages, CommentPage, MaxCommentPages, MaxThreads, MaxSize,
          Retries, Labels, Names, MaxRuns

VARIABLES part, thread, prHead, repliedTo, resolvedBy, waiting, replies, tornReply, gateFaults,
          kind, relay, host, runner, chain, pipe, asked, noted, pr, limitSaid, torn,
          gate, caller, clone, base, gitFaults,
          ready, row, driven, trees, local, origin, pulls, task, failures, cloneFaults,
          facts, talk, next, cell, runRow, claiming, pruning, gone,
          comments, master, attempts, open, published, consulted, ledgerFaults, unsure,
          job, live, size, read, repo, on, call, runs, verdict, seen

gateVars == <<thread, prHead, repliedTo, resolvedBy, waiting, replies, tornReply, gateFaults>>
sessionVars == <<kind, relay, host, runner, chain, pipe, asked, noted, pr, limitSaid, torn>>
syncVars == <<gate, caller, clone, base, gitFaults>>
treeVars == <<ready, row, driven, trees, local, origin, pulls, task, failures, cloneFaults>>
viewVars == <<facts, talk, next, cell, runRow, claiming, pruning, gone>>
ledgerVars == <<comments, master, attempts, open, published, consulted, ledgerFaults, unsure>>
ghVars == <<job, live, size, read, repo, on, call, runs, verdict, seen>>
vars == <<part, gateVars, sessionVars, syncVars, treeVars, viewVars, ledgerVars, ghVars>>

\* The ledger: an initiative, an epic in it, two issues of the epic.
Tree == [n \in {"epic", "x", "y"} |-> IF n = "epic" THEN "root" ELSE "epic"]
Bodies == [n \in {"root", "epic", "x", "y"} |-> IF n = "epic" THEN 2 ELSE 1]
Draft(k, scope, subtree, s) == [key |-> k, scope |-> scope, subtree |-> subtree, supersedes |-> s]
Rulings == {<<>>, <<Draft("k1", "subtree", "epic", FALSE)>>, <<Draft("k1", "issue", "root", FALSE)>>,
            <<Draft("k1", "subtree", "epic", FALSE), Draft("k2", "initiative", "root", FALSE)>>,
            <<Draft("k1", "subtree", "y", FALSE)>>,
            <<Draft("k1", "issue", "root", TRUE)>>}

\* The client: what a change of labels may ask for.
P(op, add, remove) == [op |-> op, add |-> add, remove |-> remove]
PatchSet == {P("patch", {"a", "b"}, {"c"}), P("patch", {}, {"b", "c"}), P("patch", {"a"}, {"a", "b", "c"}),
             P("add", {"a"}, {}), P("remove", {}, {"c"})}

\* The gate: one thread may be a person's, the others are the hosted reviewer's.
AuthorsOf == [t \in Threads |-> IF t = "h" THEN "human" ELSE "hosted"]

G == INSTANCE GateProofs WITH torn <- tornReply, AuthorOf <- AuthorsOf,
                              cloneFaults <- gitFaults, CloneFaults <- GitFaults
S == INSTANCE ContainerSession
T == INSTANCE TargetClone
V == INSTANCE RunView
L == INSTANCE LedgerProofs WITH thread <- comments, asked <- consulted, ParentOf <- Tree, BodyOf <- Bodies, DraftLists <- Rulings
H == INSTANCE GitHubClient WITH Patches <- PatchSet

\* The client asks for pages, of threads at least one.
ASSUME PageAssumption == ThreadPage \in Nat \ {0} /\ CommentPage \in Nat /\ MaxThreads \in Nat

\* A fact that is of no phase has none of the phases.
ASSUME PhasesAssumption == V!NoPhase \notin Phases

\* The ledger's tree is one, and its budgets count.
ASSUME LedgerAssumption == L!TreeOK /\ L!BudgetOK

Init == /\ part \in {"gate", "session", "sync", "trees", "view", "ledger", "client"}
        /\ G!GateInit /\ S!SesInit /\ G!CloneInit /\ T!CloneInit /\ V!ViewInit
        /\ L!LedgerInit /\ H!GhInit
        /\ part # "session" => kind = "impl" /\ ~relay
        /\ part # "client" => job = "threads"

\* A move of one part leaves the others alone.
OnlyGate == part = "gate"
         /\ UNCHANGED <<part, sessionVars, syncVars, treeVars, viewVars, ledgerVars, ghVars>>
OnlySession == part = "session"
            /\ UNCHANGED <<part, gateVars, syncVars, treeVars, viewVars, ledgerVars, ghVars>>
OnlySync == part = "sync"
         /\ UNCHANGED <<part, gateVars, sessionVars, treeVars, viewVars, ledgerVars, ghVars>>
OnlyTrees == part = "trees"
          /\ UNCHANGED <<part, gateVars, sessionVars, syncVars, viewVars, ledgerVars, ghVars>>
OnlyView == part = "view"
         /\ UNCHANGED <<part, gateVars, sessionVars, syncVars, treeVars, ledgerVars, ghVars>>
OnlyLedger == part = "ledger"
           /\ UNCHANGED <<part, gateVars, sessionVars, syncVars, treeVars, viewVars, ghVars>>
OnlyClient == part = "client"
           /\ UNCHANGED <<part, gateVars, sessionVars, syncVars, treeVars, viewVars, ledgerVars>>

GateMoves == OnlyGate /\ G!GateNext
SessionMoves == OnlySession /\ S!SesNext
SyncMoves == OnlySync /\ G!CloneNext
TreesMoves == OnlyTrees /\ T!CloneNext
ViewMoves == OnlyView /\ V!ViewNext
LedgerMoves == OnlyLedger /\ L!LedgerNext
ClientMoves == OnlyClient /\ H!GhNext

Next == GateMoves \/ SessionMoves \/ SyncMoves \/ TreesMoves \/ ViewMoves \/ LedgerMoves \/ ClientMoves

Spec == Init /\ [][Next]_vars

(* One reply to each word of the hosted reviewer: hosted-gate.ts.          *)
OneReply == G!OneReply
(* What a session said before it was cut off reaches the daemon, a question *)
(* as much as a refusal of the provider: in-container runner and client.   *)
SessionHeard == S!QuestionKept /\ S!RefusalHeard
(* A dispatch reads a synced clone, and no two of them move it at once:    *)
(* clone-sync.ts.                                                          *)
ReadIsSynced == G!ReadIsSynced
(* What a step may not do.  Take a tree somebody works in, or pushed work   *)
(* under an open pull request (worktree.ts, executor.ts); hand a merge to  *)
(* the master for a blocker that is not there (review-loop.ts); report     *)
(* labels as changed that are not (gh-cli.ts).                             *)
StepsHold == []T!WorkHeld /\ T!OpenWorkKept /\ G!BlameIsTrue /\ H!PatchIsWhole
(* The view of a run counts what the store counts, tells what was pruned   *)
(* and puts every fact on a node: web/runs.ts, run-view.ts.                *)
ViewIsTrue == part = "view" => V!CountsAgree /\ V!PruneIsTold /\ V!NodesLand
(* Readers of the ledger agree: whatever the order of the comments, where  *)
(* a decision is looked for it is stored, one index, no silent cut.        *)
LedgerAgrees ==
  part = "ledger" => L!FoldIsOrderless /\ L!WritesReachHome /\ L!OneIndex /\ L!PacketIsHonest
(* One record to a ruling, across crashes and replays: master/engine.ts.   *)
OneRecordPerRuling == part = "ledger" => L!OneRecordPerRuling
(* A paged read that ends is whole, and green is the latest word of every  *)
(* check: gh-cli.ts.                                                       *)
ReadsAreTrue == part = "client" => H!ReadIsWhole /\ H!GreenIsCurrent
=============================================================================
