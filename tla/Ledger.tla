------------------------------- MODULE Ledger -------------------------------
(***************************************************************************)
(* The decision ledger (ledger/, hierarchy/map.ts, publishDecisions): the  *)
(* masters of issues, one at a time, append decision comments to the nodes *)
(* of GitHub's issue tree; what binds an issue is folded from the comments *)
(* on its path to the root.                                                *)
(***************************************************************************)
EXTENDS Naturals, Sequences, SequencesExt, FiniteSets

CONSTANTS Nodes, Root, ParentOf,  \* the tree: the parent of every node but the root
          Workers,        \* issues a master adjudicates
          DraftLists,     \* the decisions a session may conclude with
          MaxAttempts,    \* interventions per issue
          MaxComments,    \* bound: comments in the tree, the index aside
          BodyOf, CharBudget, MaxPerNode,  \* the context packet: sizes and budgets
          LedgerFaults,   \* "crash", "twice", "unreadable", "spoilt"
          MaxLedgerFaults

VARIABLES thread,    \* the comments on each node, oldest first
          master,    \* the one master session
          attempts, open, published, asked,  \* what the event stream holds of each issue
          ledgerFaults, unsure  \* history: rulings a session could not tell from its path to be on record

ledgerVars == <<thread, master, attempts, open, published, asked, ledgerFaults, unsure>>

NoMaster == [at |-> "idle", issue |-> Root, known |-> {}, path |-> <<>>, proven |-> FALSE,
             drafts |-> <<>>, wrote |-> FALSE, id |-> <<>>]
LedgerFault(f) ==
  f \in LedgerFaults /\ ledgerFaults < MaxLedgerFaults /\ ledgerFaults' = ledgerFaults + 1
LedgerCalm == UNCHANGED ledgerFaults

(* GitHub's answer for a node: whole, without its parent (masked), with an *)
(* error besides (partial), or none at all (silent).                       *)
Answer(n, how) ==
  [issue |-> how # "silent", errors |-> how # "whole",
   parent |-> IF n = Root \/ how = "masked" THEN "none" ELSE ParentOf[n]]
\* mutant: no parent in the answer is no parent.
TrustsNull(a) == IF a.parent = "none" THEN "none" ELSE "node"
\* parseParentEdge: a null parent next to any error is not a root.
ParentEdge(a) ==
  CASE a.parent # "none" -> "node"
    [] a.parent = "none" /\ ~a.errors -> "none"
    [] OTHER -> "inaccessible"

\* What GitHub keeps is a tree, and a ruling is about nodes of it.
TreeOK ==
  /\ IsFiniteSet(Nodes) /\ Root \in Nodes /\ Workers \subseteq Nodes
  /\ {"none", "human"} \cap Nodes = {}
  /\ \A n \in Nodes \ {Root} : ParentOf[n] \in Nodes
  /\ \E depth \in [Nodes -> 0..Cardinality(Nodes)] :
       \A n \in Nodes \ {Root} : depth[ParentOf[n]] < depth[n]
  /\ DraftLists \subseteq Seq([key : STRING, scope : {"issue", "subtree", "initiative"},
                              subtree : Nodes, supersedes : BOOLEAN])
BudgetOK == CharBudget \in Nat /\ MaxPerNode \in Nat /\ BodyOf \in [Nodes -> Nat]

(* The climb: the path from an issue up to the first node that is unread.  *)
Climb[n \in Nodes] == IF n = Root THEN <<n>> ELSE <<n>> \o Climb[ParentOf[n]]
Whole == [n \in Nodes |-> "whole"]
Says(n, how) == Answer(n, how[n])
Read(path, how) ==
  LET good == {k \in 1..Len(path) : \A j \in 1..k :
                 /\ Says(path[j], how).issue
                 /\ j < k => ParentEdge(Says(path[j], how)) = "node"}
  IN SubSeq(path, 1, Cardinality(good))
\* absoluteRoot: only a node GitHub reports no parent of.
Proven(path, how) == path # <<>> /\ ParentEdge(Says(Last(path), how)) = "none"

(* The fold, of the nodes of a path that are heard.  A place on the path is *)
(* a node's and a comment's; a decision counts only where it belongs.      *)
At(path, p) == thread[path[p[1]]][p[2]]
Stored(path, heard) ==
  UNION {{<<k, j>> : j \in {i \in 1..Len(thread[path[k]]) :
                              At(path, <<k, i>>).kind = "decision" /\ At(path, <<k, i>>).node = path[k]}} :
         k \in {i \in 1..Len(path) : path[i] \in heard}}
\* The root is read first, and on a node the oldest.
Earlier(p, q) == p[1] > q[1] \/ (p[1] = q[1] /\ p[2] < q[2])

\* dedupeById: identical re-posts collapse, different records under one id are kept.
Deduped(path, heard) ==
  LET all == Stored(path, heard)
  IN {p \in all : \A q \in all : Earlier(q, p) => At(path, q) # At(path, p)}

Applies(c, target, path, root) ==
  /\ c.scope = "initiative" => c.node = root
  /\ c.node \in ToSet(path) /\ (c.scope = "issue" => c.node = target)

\* foldDecisionLedger: the live records of a key bind if there is one, else they conflict.
LiveOf(target, path, heard, root) ==
  LET kept == Deduped(path, heard)
      gone == {At(path, p).supersedes : p \in kept}
  IN {p \in kept : Applies(At(path, p), target, path, root) /\ At(path, p).id \notin gone}
Active(target, path, heard, root) ==
  LET live == LiveOf(target, path, heard, root)
  IN {At(path, p) : p \in {q \in live : \A r \in live : At(path, r).key = At(path, q).key => r = q}}

RootOf(path, proven) == IF proven THEN Last(path) ELSE "none"
Binding(x) == Active(x, Climb[x], Nodes, Root)

(* Storage.                                                                *)

\* resolveStorageNode: no node unless the scope's own is on the path and proven.
StorageNode(path, d) ==
  CASE path = <<>> -> {}
    [] path # <<>> /\ d.scope = "initiative" -> IF master.proven THEN {Last(path)} ELSE {}
    [] path # <<>> /\ d.scope = "issue" -> {path[1]}
    [] OTHER -> {d.subtree} \cap ToSet(path)

Written == UNION {{<<m, k>> : k \in {j \in 1..Len(thread[m]) : thread[m][j].kind # "index"}} : m \in Nodes}
RoomFor(n) == Cardinality(Written) + n <= MaxComments
Clock == Cardinality(UNION {{<<m, k>> : k \in 1..Len(thread[m])} : m \in Nodes})
Post(n, c, times) ==
  thread' = [thread EXCEPT ![n] = @ \o [k \in 1..times |-> c]]

(* The master.                                                             *)
OpenAttempt(x) ==
  /\ master.at = "idle" /\ ~asked[x]
  /\ \/ open[x] /\ UNCHANGED <<attempts, open>>
     \/ /\ ~open[x] /\ attempts[x] < MaxAttempts
        /\ attempts' = [attempts EXCEPT ![x] = @ + 1] /\ open' = [open EXCEPT ![x] = TRUE]
  /\ master' = [NoMaster EXCEPT !.at = "context", !.issue = x]
  /\ UNCHANGED <<thread, published, asked, unsure>> /\ LedgerCalm

\* What a session was told of its own records: nothing, or a key that another claims too.
Decisions(n) == {thread[n][k] : k \in {j \in 1..Len(thread[n]) : thread[n][j].kind = "decision"}}
OnPath(x) == UNION {Decisions(n) : n \in ToSet(Climb[x])}
Contested(x) == {c.id : c \in {d \in OnPath(x) : d.id[1] = x /\ \E e \in OnPath(x) : e.key = d.key /\ e.id # d.id}}
Unread(x) == {<<x, attempts[x], d.key>> : d \in UNION {ToSet(list) : list \in DraftLists}}

\* assembleMasterContext: the map and the fold, each as far as the nodes answer.
\* classifyInaccessible: whatever the reason, the node or its comments are unread.
Moods == {[Whole EXCEPT ![n] = how] : n \in Nodes, how \in {"whole", "masked", "partial", "silent"}}
Deaf == {{}} \cup {{n} : n \in Nodes}
ReadContext ==
  /\ master.at = "context"
  /\ \E how \in Moods : \E deaf \in Deaf :
       /\ IF how = Whole /\ deaf = {} THEN LedgerCalm /\ unsure' = unsure \cup Contested(master.issue)
          ELSE LedgerFault("unreadable") /\ unsure' = unsure \cup Unread(master.issue)
       /\ LET path == Read(Climb[master.issue], how)
              proven == Proven(path, how)
              act == Active(master.issue, path, Nodes \ deaf, RootOf(path, proven))
          IN \E list \in DraftLists :
               master' = [master EXCEPT !.at = "publish", !.path = path, !.proven = proven,
                                        !.known = {c.key : c \in act}, !.drafts = list]
  /\ UNCHANGED <<thread, attempts, open, published, asked>>

\* mutant: only an explicit supersession is a contradiction.
SaysSo(d) == d.supersedes
Contradicts(d) == d.supersedes \/ d.key \in master.known

IdOf(d) == <<master.issue, attempts[master.issue], d.key>>
Skip == master' = [master EXCEPT !.drafts = Tail(@)]

Publish ==
  /\ master.at = "publish" /\ master.drafts # <<>> /\ UNCHANGED <<attempts, unsure>>
  /\ LET d == Head(master.drafts)
         where == StorageNode(master.path, d)
         fresh == IdOf(d) \notin published[master.issue]
     IN \/ /\ Contradicts(d)
           /\ asked' = [asked EXCEPT ![master.issue] = TRUE] /\ master' = NoMaster
           /\ UNCHANGED <<thread, open, published>> /\ LedgerCalm
        \/ /\ ~Contradicts(d) /\ (~fresh \/ where = {}) /\ Skip
           /\ UNCHANGED <<thread, open, published, asked>> /\ LedgerCalm
        \/ /\ ~Contradicts(d) /\ fresh
           /\ \E n \in where : \E times \in 1..2 :
                /\ RoomFor(times)
                /\ IF times = 1 THEN LedgerCalm ELSE LedgerFault("twice")
                /\ Post(n, [kind |-> "decision", id |-> IdOf(d), key |-> d.key, scope |-> d.scope,
                            node |-> n, at |-> Clock, supersedes |-> <<>>], times)
           /\ master' = [master EXCEPT !.at = "note", !.id = IdOf(d)]
           /\ UNCHANGED <<open, published, asked>>

\* recordDecisionPublished: an event after the comment.
Note ==
  /\ master.at = "note"
  /\ published' = [published EXCEPT ![master.issue] = @ \cup {master.id}]
  /\ master' = [master EXCEPT !.at = "publish", !.drafts = Tail(@), !.wrote = TRUE]
  /\ UNCHANGED <<thread, attempts, open, asked, unsure>> /\ LedgerCalm

\* syncDecisionIndex: the newest index comment on a proven root, rewritten or created.
Existing(cs) == LET all == {k \in 1..Len(cs) : cs[k].kind = "index"} IN {k \in all : \A j \in all : j <= k}
IndexOf(x, path) ==
  [kind |-> "index", lists |-> {c.id : c \in Active(x, path, Nodes, RootOf(path, master.proven))}]
SyncIndex ==
  /\ master.at = "publish" /\ master.drafts = <<>> /\ master.wrote /\ LedgerCalm
  /\ master' = [master EXCEPT !.at = "rule"]
  /\ IF ~master.proven THEN UNCHANGED thread
     ELSE LET body == IndexOf(master.issue, master.path) IN
          \/ \E k \in Existing(thread[Root]) : thread' = [thread EXCEPT ![Root][k] = body]
          \/ Existing(thread[Root]) = {} /\ Post(Root, body, 1)
  /\ UNCHANGED <<attempts, open, published, asked, unsure>>

Rule ==
  /\ master.at \in {"publish", "rule"} /\ master.drafts = <<>> /\ (master.at = "rule" \/ ~master.wrote)
  /\ open' = [open EXCEPT ![master.issue] = FALSE] /\ master' = NoMaster
  /\ UNCHANGED <<thread, attempts, published, asked, unsure>> /\ LedgerCalm

(* The context packet a session is given: origin first, then the ancestors.*)
Sum(s) == LET upTo[k \in 0..Len(s)] == IF k = 0 THEN 0 ELSE upTo[k - 1] + s[k] IN upTo[Len(s)]
CharsOf(c) == IF c.kind = "index" THEN 2 ELSE 1
Low(a, b) == IF a < b THEN a ELSE b
Newest(s, n) == IF Len(s) <= n THEN s ELSE SubSeq(s, Len(s) - n + 1, Len(s))

\* fitToBudget: the body, then the comments from the newest back; rest[k] is
\* what the body and the newest k of them leave.
Fit(body, sizes, left) ==
  LET whole == body + Sum(sizes) <= left
      rest[k \in 0..Len(sizes)] ==
        IF k = 0 THEN left - Low(body, left)
        ELSE LET r == rest[k - 1] IN r - Low(sizes[Len(sizes) - k + 1], r)
  IN IF whole THEN [chars |-> body + Sum(sizes), cut |-> FALSE]
     ELSE [chars |-> left - rest[Len(sizes)], cut |-> TRUE]

Sizes(n) == [k \in 1..Len(thread[n]) |-> CharsOf(thread[n][k])]
Marked(f, cut) == [chars |-> f.chars, mark |-> IF cut THEN "trimmed" ELSE "whole"]
PackNode(n, left) ==
  LET f == Fit(BodyOf[n], Newest(Sizes(n), MaxPerNode), left)
  IN IF left = 0 THEN [chars |-> 0, mark |-> "dropped"]
     ELSE Marked(f, f.cut \/ Len(thread[n]) > MaxPerNode)

\* packContextPacket: what a node takes is gone for the next.
Packed(path) ==
  LET upTo[k \in 0..Len(path)] ==
        IF k = 0 THEN [left |-> CharBudget, nodes |-> <<>>]
        ELSE LET p == upTo[k - 1]
                 f == PackNode(path[k], p.left)
             IN [left |-> p.left - f.chars, nodes |-> Append(p.nodes, f)]
  IN upTo[Len(path)].nodes

(* The others.                                                             *)
Crash ==
  /\ master.at # "idle" /\ LedgerFault("crash") /\ master' = NoMaster
  /\ UNCHANGED <<thread, attempts, open, published, asked, unsure>>

\* A human answers the contradiction: the same attempt goes on.
Answered(x) ==
  /\ asked[x] /\ asked' = [asked EXCEPT ![x] = FALSE]
  /\ UNCHANGED <<thread, master, attempts, open, published, unsure>> /\ LedgerCalm

\* A human supersedes a standing record by hand, on the node it is stored on.
Supersede ==
  /\ RoomFor(1)
  /\ \E n \in Nodes : \E k \in 1..Len(thread[n]) :
       LET c == thread[n][k] IN
       /\ c.kind = "decision" /\ c.id[1] \in Workers
       /\ Post(n, [c EXCEPT !.id = <<"human", Clock, c.key>>, !.at = Clock, !.supersedes = c.id], 1)
  /\ UNCHANGED <<master, attempts, open, published, asked, unsure>> /\ LedgerCalm

\* A comment edited until its payload no longer parses.
Spoil ==
  /\ LedgerFault("spoilt")
  /\ \E n \in Nodes : \E k \in 1..Len(thread[n]) :
       thread[n][k].kind # "malformed" /\ thread' = [thread EXCEPT ![n][k] = [kind |-> "malformed"]]
  /\ UNCHANGED <<master, attempts, open, published, asked, unsure>>

LedgerInit ==
  /\ thread = [n \in Nodes |-> <<>>] /\ master = NoMaster
  /\ attempts = [x \in Workers |-> 0] /\ open = [x \in Workers |-> FALSE]
  /\ published = [x \in Workers |-> {}] /\ asked = [x \in Workers |-> FALSE]
  /\ ledgerFaults = 0 /\ unsure = {}

LedgerNext ==
  \/ ReadContext \/ Publish \/ Note \/ SyncIndex \/ Rule \/ Crash \/ Supersede \/ Spoil
  \/ \E x \in Workers : OpenAttempt(x) \/ Answered(x)

(* Properties.                                                             *)

(***************************************************************************)
(* foldDecisionLedger, order aside: a record binds an issue exactly when   *)
(* it reaches it, nothing stored names it superseded and no other such     *)
(* record has its key.                                                     *)
(***************************************************************************)
FoldIsOrderless ==
  \A x \in Workers :
    LET reach == {c \in OnPath(x) : Applies(c, x, Climb[x], Root)
                                    /\ \A d \in OnPath(x) : d.supersedes # c.id}
    IN Binding(x) = {c \in reach : \A d \in reach : d.key = c.key => d = c}

(***************************************************************************)
(* resolveStorageNode: whatever a master writes reaches the issue it was   *)
(* ruled on, however much of the tree answered.                            *)
(***************************************************************************)
WritesReachHome ==
  \A n \in Nodes : \A c \in Decisions(n) :
    c.id[1] \in Workers => Applies(c, c.id[1], Climb[c.id[1]], Root)

(***************************************************************************)
(* publishDecisions: through crashes and re-adoptions, an intervention     *)
(* leaves one record per key, unless a session that took it up read past a *)
(* node of its path, or found the key claimed by another record there.     *)
(***************************************************************************)
OneRecordPerRuling ==
  \A n \in Nodes : \A c \in Decisions(n) : c.id[1] \in Workers /\ c.id \notin unsure =>
    \A m \in Nodes : \A d \in Decisions(m) : d.id = c.id => d = c

(***************************************************************************)
(* packContextPacket: within its budget, and a node whose text is not all  *)
(* there says so, whatever was posted on the path.                         *)
(***************************************************************************)
PacketIsHonest ==
  \A x \in Workers :
    LET path == Climb[x]
        p == Packed(path)
        all(n) == BodyOf[n] + Sum(Sizes(n))
    IN /\ Sum([k \in 1..Len(p) |-> p[k].chars]) <= CharBudget
       /\ \A k \in 1..Len(p) : p[k].mark = "whole" => p[k].chars = all(path[k])
       /\ \A k \in 1..Len(p) : \A j \in 1..(k - 1) : p[j].mark = "dropped" => p[k].mark = "dropped"

(***************************************************************************)
(* syncDecisionIndex: never a second index on the root.                    *)
(***************************************************************************)
OneIndex == Cardinality({k \in 1..Len(thread[Root]) : thread[Root][k].kind = "index"}) <= 1
=============================================================================
