---------------------------- MODULE GitHubClient ----------------------------
(***************************************************************************)
(* The gh adapter (github/gh-cli.ts): calls that take several requests.    *)
(* One call is followed at a time, and what others write meanwhile:        *)
(*  "threads"  readReviewThreads, page by page;                            *)
(*  "labels"   applyLabelPatch, addLabel, removeLabel;                     *)
(*  "checks"   readChecks and awaitChecks over a check's runs.             *)
(***************************************************************************)
EXTENDS Naturals, Sequences, Functions, FiniteSets

CONSTANTS ThreadPage, MaxThreadPages,    \* review threads per page, pages per read
          CommentPage, MaxCommentPages,  \* the same of one thread's comments
          MaxThreads, MaxSize,    \* bounds: threads of the pull request, comments of one
          Retries,                \* rateLimitRetries
          Labels, Patches,        \* [op, add, remove]
          Names, MaxRuns          \* check names; bound: runs

VARIABLES job,
          live, size,             \* GitHub: threads that exist, comments of each
          read,                   \* the reader
          repo, on, call,         \* GitHub: labels of the repository, of the issue; the editor
          runs, verdict, seen     \* GitHub: runs of checks; the last verdict, and of what

threadVars == <<live, size, read>>
labelVars == <<repo, on, call>>
checkVars == <<runs, verdict, seen>>
ghVars == <<job, threadVars, labelVars, checkVars>>

Least(a, b) == IF a < b THEN a ELSE b
Failures == {"rate-limited", "permissions", "error"}

(* gh: a refusal for the rate is tried again, any other failure is thrown. *)
TriesAgain(tries, failure) == failure = "rate-limited" /\ tries < Retries

(* Review threads.                                                         *)
Reader == [at |-> "idle", page |-> 0, after |-> 0, got |-> <<>>, cut |-> {}, tries |-> 0,
           want |-> <<>>, blank |-> FALSE]

StartRead ==
  /\ read.at = "idle"
  /\ read' = [Reader EXCEPT !.at = "threads", !.want = [t \in live |-> size[t]]]
  /\ UNCHANGED <<live, size>>

\* parseReviewThreadsPage: the threads after the cursor, their first comments, and who has more.
Following(t) == {u \in live : u > t}
PageOf(t) == {u \in Following(t) : Cardinality({v \in Following(t) : v < u}) < ThreadPage}
FirstComments(page) == [t \in page |-> Least(size[t], CommentPage)]
Truncated(page) == {t \in page : size[t] > CommentPage}
Merge(f, g) == [t \in DOMAIN f \cup DOMAIN g |-> IF t \in DOMAIN g THEN g[t] ELSE f[t]]

Finish(r) == IF r.cut = {} THEN [r EXCEPT !.at = "read"] ELSE [r EXCEPT !.at = "comments", !.page = 0]

\* mutant: the page budget ends the read as the last page does.
GivesUpAsWhole(r) == Finish(r)
NextPage(r) == IF r.page >= MaxThreadPages THEN [r EXCEPT !.at = "error"] ELSE r

ThreadsPage ==
  /\ read.at = "threads"
  /\ \E blank \in BOOLEAN :
       LET page == IF blank THEN {} ELSE PageOf(read.after)
           more == ~blank /\ Following(read.after) # page
           r == [read EXCEPT !.page = @ + 1, !.tries = 0,
                             !.got = Merge(@, FirstComments(page)), !.cut = @ \cup Truncated(page),
                             !.blank = @ \/ blank]
       IN read' = IF blank /\ read.page = 0 THEN [read EXCEPT !.at = "error"]
                  ELSE IF ~more THEN Finish(r)
                  ELSE NextPage([r EXCEPT !.after = CHOOSE u \in page : \A v \in page : v <= u])
  /\ UNCHANGED <<live, size>>

\* completeThreadComments: the rest of each truncated thread, in order.
CommentsAfter(t, n) == IF t \in live THEN Least(size[t], n + CommentPage) ELSE n
CommentsPage ==
  /\ read.at = "comments"
  /\ \E t \in read.cut, blank \in BOOLEAN :
       /\ \A u \in read.cut : t <= u
       /\ LET got == IF blank THEN read.got[t] ELSE CommentsAfter(t, read.got[t])
              more == ~blank /\ t \in live /\ got < size[t]
              r == [read EXCEPT !.tries = 0, !.got = [@ EXCEPT ![t] = got], !.blank = @ \/ blank]
          IN read' = IF ~more THEN Finish([r EXCEPT !.cut = @ \ {t}])
                     ELSE IF read.page + 1 >= MaxCommentPages THEN [r EXCEPT !.at = "error"]
                     ELSE [r EXCEPT !.page = @ + 1]
  /\ UNCHANGED <<live, size>>

\* threadReadFailure: typed, never thrown.
ReadFails ==
  /\ read.at \in {"threads", "comments"}
  /\ \E f \in Failures : read' = IF TriesAgain(read.tries, f) THEN [read EXCEPT !.tries = @ + 1]
                                 ELSE [read EXCEPT !.at = f]
  /\ UNCHANGED <<live, size>>

Review ==
  /\ \/ \E t \in 1..MaxThreads : t \notin live /\ size[t] = 0 /\ (\A u \in 1..(t - 1) : size[u] > 0)
          /\ live' = live \cup {t} /\ size' = [size EXCEPT ![t] = 1]
     \/ \E t \in live : size[t] < MaxSize /\ size' = [size EXCEPT ![t] = @ + 1] /\ UNCHANGED live
     \/ \E t \in live : live' = live \ {t} /\ UNCHANGED size
  /\ UNCHANGED read

ThreadStep == StartRead \/ ThreadsPage \/ CommentsPage \/ ReadFails \/ Review

(* Labels.                                                                 *)
Idle == [at |-> "idle", op |-> "patch", add |-> {}, remove |-> {}, asked |-> [add |-> {}, remove |-> {}],
         created |-> {}, make |-> {}, tries |-> 0]

StartPatch ==
  /\ call.at = "idle"
  /\ \E p \in Patches :
       call' = [Idle EXCEPT !.at = "edit", !.op = p.op, !.add = p.add, !.remove = p.remove,
                            !.asked = [add |-> p.add, remove |-> p.remove]]
  /\ UNCHANGED <<repo, on>>

\* editLabels: an addition wins over a removal.
Removed(c) == c.remove \ c.add
EditLabels ==
  /\ call.at = "edit" /\ call.add \cup Removed(call) \subseteq repo
  /\ on' = (on \ Removed(call)) \cup call.add /\ call' = [call EXCEPT !.at = "ok"] /\ UNCHANGED repo

DropsRemoval(c, l) == [c EXCEPT !.remove = @ \ {l}]
Creates(c, l) ==
  IF l \in c.created THEN [c EXCEPT !.at = "thrown"]
  ELSE [c EXCEPT !.at = "create", !.created = @ \cup {l}, !.make = {l}, !.tries = 0]

LabelNotFound ==
  /\ call.at = "edit"
  /\ \/ \E l \in call.add \ repo : call' = Creates(call, l)
     \/ \E l \in Removed(call) \ repo :
          call' = IF call.op = "remove" THEN [call EXCEPT !.at = "ok"]
                  ELSE LET c == DropsRemoval([call EXCEPT !.tries = 0], l)
                       IN IF c.add \cup c.remove = {} THEN [c EXCEPT !.at = "ok"] ELSE c
  /\ UNCHANGED <<repo, on>>

CreateLabel ==
  /\ call.at = "create" /\ repo' = repo \cup call.make
  /\ call' = [call EXCEPT !.at = "edit", !.tries = 0] /\ UNCHANGED on

EditFails ==
  /\ call.at \in {"edit", "create"}
  /\ \E f \in Failures : call' = IF TriesAgain(call.tries, f) THEN [call EXCEPT !.tries = @ + 1]
                                 ELSE [call EXCEPT !.at = "thrown"]
  /\ UNCHANGED <<repo, on>>

Relabel ==
  /\ \E l \in Labels : \/ l \in repo /\ repo' = repo \ {l} /\ on' = on \ {l}
                       \/ l \notin repo /\ repo' = repo \cup {l} /\ UNCHANGED on
  /\ UNCHANGED call

EditorStep == EditLabels \/ LabelNotFound \/ CreateLabel \/ EditFails
LabelStep == StartPatch \/ EditorStep \/ Relabel

(* Checks.  A run has no time until it starts; a later time is a later run.*)
Started(r) == r.state # "queued"
Ended(r) == r.state \in {"pass", "fail"}
Now == Cardinality({k \in 1..Len(runs) : Started(runs[k])}) + Cardinality({k \in 1..Len(runs) : Ended(runs[k])})
Settled(n) == \A k \in 1..Len(runs) : runs[k].name = n => Ended(runs[k])

RunChecks ==
  /\ \/ \E n \in Names : Settled(n) /\ Len(runs) < MaxRuns
          /\ runs' = Append(runs, [name |-> n, state |-> "queued", began |-> 0, at |-> 0])
     \/ \E k \in 1..Len(runs) :
          \/ runs[k].state = "queued"
             /\ runs' = [runs EXCEPT ![k] = [@ EXCEPT !.state = "running", !.began = Now + 1, !.at = Now + 1]]
          \/ runs[k].state = "running"
             /\ \E s \in {"pass", "fail"} : runs' = [runs EXCEPT ![k] = [@ EXCEPT !.state = s, !.at = Now + 1]]
  /\ UNCHANGED <<verdict, seen>>

\* latestRunPerName: by the latest time a run carries, the last listed on a tie.
LatestRun(rows, n) ==
  CHOOSE k \in 1..Len(rows) : rows[k].name = n /\ \A j \in 1..Len(rows) : rows[j].name = n =>
    rows[j].at < rows[k].at \/ (rows[j].at = rows[k].at /\ j <= k)

ClassifyChecks(rows) ==
  LET latest == {rows[LatestRun(rows, n)].state : n \in {rows[k].name : k \in 1..Len(rows)}}
  IN CASE rows = <<>> -> "none"
       [] latest \cap {"queued", "running"} # {} -> "pending"
       [] latest \cap {"queued", "running"} = {} /\ "fail" \in latest -> "red"
       [] OTHER -> "green"

\* gh lists the runs in an order of its own; a failed request reads as no check at all.
Listings == {[k \in 1..Len(runs) |-> runs[p[k]]] : p \in {q \in [1..Len(runs) -> 1..Len(runs)] : IsInjective(q)}}
AwaitChecks ==
  /\ \E rows \in Listings \cup {<<>>} :
       LET v == ClassifyChecks(rows)
       IN verdict' \in IF v = "pending" THEN {"pending", "timeout"} ELSE {v}
  /\ seen' = runs /\ UNCHANGED runs

CheckStep == RunChecks \/ AwaitChecks

GhInit ==
  /\ live = {} /\ size = [t \in 1..MaxThreads |-> 0] /\ read = Reader
  /\ repo \in SUBSET Labels /\ on \in SUBSET repo /\ call = Idle
  /\ runs = <<>> /\ verdict = "none" /\ seen = <<>>
  /\ job \in {"threads", "labels", "checks"} /\ (job # "labels" => repo = {})

GhNext ==
  \/ job = "threads" /\ ThreadStep /\ UNCHANGED <<job, labelVars, checkVars>>
  \/ job = "labels" /\ LabelStep /\ UNCHANGED <<job, threadVars, checkVars>>
  \/ job = "checks" /\ CheckStep /\ UNCHANGED <<job, threadVars, labelVars>>

(* Properties.                                                             *)

(***************************************************************************)
(* readReviewThreads: threads it answers with are all that were there when *)
(* it began and still are, with every comment, unless gh printed nothing   *)
(* for a later page; else it is unavailable.                               *)
(***************************************************************************)
ReadIsWhole ==
  read.at = "read" /\ ~read.blank =>
    \A t \in DOMAIN read.want \cap live : t \in DOMAIN read.got /\ read.got[t] >= read.want[t]

(***************************************************************************)
(* applyLabelPatch: a call that returns leaves every label it was to add   *)
(* and none it was to remove, whatever became of the labels meanwhile.     *)
(***************************************************************************)
PatchIsWhole ==
  [][call.at # "ok" /\ call'.at = "ok" =>
       call.asked.add \subseteq on' /\ (call.asked.remove \ call.asked.add) \cap on' = {}]_ghVars

(***************************************************************************)
(* classifyChecks: in whatever order gh lists the runs, green says that    *)
(* the run of each check which began last has passed.                      *)
(***************************************************************************)
GreenIsCurrent ==
  verdict = "green" =>
    \A k \in 1..Len(seen) :
      Started(seen[k]) /\ (\A j \in 1..Len(seen) : seen[j].name = seen[k].name => seen[j].began <= seen[k].began)
        => seen[k].state = "pass"
=============================================================================
