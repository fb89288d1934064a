----------------------------- MODULE LedgerProofs -----------------------------
(***************************************************************************)
(* The decision ledger, for every tree of issues, every set of rulings and *)
(* any number of interventions, crashes and comments: the fold is blind to *)
(* the order of what it reads, what a master writes reaches its issue, and *)
(* a ruling leaves one record.                                             *)
(***************************************************************************)
EXTENDS Ledger, FiniteSetTheorems, WellFoundedInduction, TLAPS

LedgerSpec == LedgerInit /\ [][LedgerNext]_ledgerVars

-----------------------------------------------------------------------------
(* The least and the greatest of some numbers.                             *)

Below == {p \in Nat \X Nat : p[1] < p[2]}

LEMMA LeastOf ==
  ASSUME NEW S \in SUBSET Nat, S # {}
  PROVE  \E m \in S : \A n \in S : m <= n
<1>1. IsWellFoundedOn(Below, Nat)
  BY NatLessThanWellFounded, IsWellFoundedOnSubrelation DEF OpToRel, Below
<1>2. PICK m \in S : \A n \in S : <<n, m>> \notin Below
  BY <1>1, WFMin
<1>3. ASSUME NEW n \in S PROVE m <= n
  <2>1. <<n, m>> \in Nat \X Nat
    OBVIOUS
  <2>2. ~(n < m)
    BY <1>2, <2>1 DEF Below
  <2>. QED  BY <2>2
<1>. QED  BY <1>3

LEMMA GreatestOf ==
  ASSUME NEW S \in SUBSET Nat, S # {}, NEW b \in Nat, \A n \in S : n <= b
  PROVE  \E m \in S : \A n \in S : n <= m
<1> DEFINE R == {b - n : n \in S}
<1>1. R \in SUBSET Nat /\ R # {}
  <2>1. \A n \in S : b - n \in Nat
    OBVIOUS
  <2>. QED  BY <2>1
<1>2. PICK r \in R : \A q \in R : r <= q
  <2> HIDE DEF R
  <2>. QED  BY <1>1, LeastOf
<1>3. PICK m \in S : r = b - m
  OBVIOUS
<1>4. ASSUME NEW n \in S PROVE n <= m
  <2>1. b - m <= b - n
    BY <1>2, <1>3
  <2>. QED  BY <2>1
<1>. QED  BY <1>4

-----------------------------------------------------------------------------
(* The climb: Climb is the one path from a node to the root.               *)

IsPath(p, n) ==
  /\ p \in Seq(Nodes) /\ Len(p) > 0 /\ p[1] = n /\ p[Len(p)] = Root
  /\ \A i \in 1..(Len(p) - 1) : p[i] # Root /\ p[i + 1] = ParentOf[p[i]]

LEMMA DepthIs ==
  ASSUME TreeOK
  PROVE  \E depth \in [Nodes -> Nat] : \A n \in Nodes \ {Root} : depth[ParentOf[n]] < depth[n]
<1>1. Cardinality(Nodes) \in Nat
  BY FS_CardinalityType DEF TreeOK
<1>. QED  BY <1>1 DEF TreeOK

\* A path of a node is one of its parent with the node before it.
LEMMA PathGrows ==
  ASSUME TreeOK, NEW n \in Nodes \ {Root}, NEW p, IsPath(p, ParentOf[n])
  PROVE  IsPath(<<n>> \o p, n)
<1> DEFINE q == <<n>> \o p
<1>1. /\ q \in Seq(Nodes) /\ Len(q) = Len(p) + 1 /\ q[1] = n
      /\ \A i \in 1..Len(p) : q[i + 1] = p[i]
  BY DEF IsPath
<1>2. ASSUME NEW i \in 1..(Len(q) - 1) PROVE q[i] # Root /\ q[i + 1] = ParentOf[q[i]]
  <2>1. CASE i = 1
    BY <1>1, <2>1 DEF IsPath
  <2>2. CASE i # 1
    <3>1. i - 1 \in 1..(Len(p) - 1) /\ i = (i - 1) + 1
      BY <1>1, <2>2 DEF IsPath
    <3>2. q[i] = p[i - 1] /\ q[i + 1] = p[i]
      BY <1>1, <3>1 DEF IsPath
    <3>. QED  BY <3>1, <3>2 DEF IsPath
  <2>. QED  BY <2>1, <2>2
<1>3. Len(q) > 0 /\ q[Len(q)] = Root
  BY <1>1 DEF IsPath
<1>. QED  BY <1>1, <1>2, <1>3 DEF IsPath

LEMMA RootIsPath ==
  ASSUME TreeOK
  PROVE  IsPath(<<Root>>, Root)
BY DEF TreeOK, IsPath

LEMMA PathExists ==
  ASSUME TreeOK, NEW n \in Nodes
  PROVE  \E p : IsPath(p, n)
<1>1. PICK depth \in [Nodes -> Nat] : \A m \in Nodes \ {Root} : depth[ParentOf[m]] < depth[m]
  BY DepthIs
<1> DEFINE Lost == {m \in Nodes : \A p : ~IsPath(p, m)}
           S == {depth[m] : m \in Lost}
<1>2. ASSUME Lost # {} PROVE FALSE
  <2>1. S \in SUBSET Nat /\ S # {}
    BY <1>2
  <2>2. PICK d \in S : \A e \in S : d <= e
    <3> HIDE DEF S
    <3>. QED  BY <2>1, LeastOf
  <2>3. PICK m \in Lost : d = depth[m]
    OBVIOUS
  <2>4. m # Root
    BY <2>3, RootIsPath
  <2>5. ParentOf[m] \in Nodes /\ depth[ParentOf[m]] < depth[m]
    BY <1>1, <2>4 DEF TreeOK
  <2>6. ParentOf[m] \notin Lost
    BY <2>2, <2>3, <2>5
  <2>7. PICK p : IsPath(p, ParentOf[m])
    BY <2>5, <2>6
  <2>. QED  BY <2>3, <2>4, <2>7, PathGrows
<1>. QED  BY <1>2

LEMMA PathIsOne ==
  ASSUME TreeOK, NEW n \in Nodes, NEW p, NEW q, IsPath(p, n), IsPath(q, n)
  PROVE  p = q
<1> DEFINE S == {i \in Nat : i \in 1..Len(p) /\ i \in 1..Len(q) /\ p[i] # q[i]}
<1>0. p \in Seq(Nodes) /\ q \in Seq(Nodes) /\ Len(p) \in Nat /\ Len(q) \in Nat
  BY DEF IsPath
<1>1. ASSUME S # {} PROVE FALSE
  <2>1. PICK i \in S : \A j \in S : i <= j
    <3>1. S \in SUBSET Nat
      OBVIOUS
    <3> HIDE DEF S
    <3>. QED  BY <1>1, <3>1, LeastOf
  <2>2. i # 1
    BY <2>1 DEF IsPath
  <2>3. i - 1 \in Nat /\ i - 1 \in 1..(Len(p) - 1) /\ i - 1 \in 1..(Len(q) - 1) /\ i - 1 \notin S
    BY <1>0, <2>1, <2>2
  <2>4. p[i - 1] = q[i - 1]
    BY <1>0, <2>3
  <2>5. p[(i - 1) + 1] = q[(i - 1) + 1]
    BY <2>3, <2>4 DEF IsPath
  <2>. QED  BY <2>1, <2>5
<1>2. \A i \in 1..Len(p) : i \in 1..Len(q) => p[i] = q[i]
  BY <1>0, <1>1
<1>3. ~(Len(p) < Len(q))
  <2>1. ASSUME Len(p) < Len(q) PROVE FALSE
    <3>1. Len(p) \in 1..(Len(q) - 1) /\ Len(p) \in 1..Len(p) /\ Len(p) \in 1..Len(q)
      BY <1>0, <2>1 DEF IsPath
    <3>2. p[Len(p)] = q[Len(p)]
      BY <1>2, <3>1
    <3>. QED  BY <3>1, <3>2 DEF IsPath
  <2>. QED  BY <2>1
<1>4. ~(Len(q) < Len(p))
  <2>1. ASSUME Len(q) < Len(p) PROVE FALSE
    <3>1. Len(q) \in 1..(Len(p) - 1) /\ Len(q) \in 1..Len(p) /\ Len(q) \in 1..Len(q)
      BY <1>0, <2>1 DEF IsPath
    <3>2. p[Len(q)] = q[Len(q)]
      BY <1>2, <3>1
    <3>. QED  BY <3>1, <3>2 DEF IsPath
  <2>. QED  BY <2>1
<1>5. Len(p) = Len(q)
  BY <1>0, <1>3, <1>4
<1>. QED  BY <1>0, <1>2, <1>5

\* The definition of Climb has a solution, and every solution climbs.
LEMMA ClimbIs ==
  ASSUME TreeOK, NEW x \in Nodes
  PROVE  IsPath(Climb[x], x)
<1> DEFINE f == [n \in Nodes |-> CHOOSE p : IsPath(p, n)]
           Step(g) == [n \in Nodes |-> IF n = Root THEN <<n>> ELSE <<n>> \o g[ParentOf[n]]]
<1>1. \A n \in Nodes : IsPath(f[n], n)
  BY PathExists
<1>2. ASSUME NEW n \in Nodes PROVE f[n] = IF n = Root THEN <<n>> ELSE <<n>> \o f[ParentOf[n]]
  <2>1. CASE n = Root
    BY <1>1, <2>1, RootIsPath, PathIsOne
  <2>2. CASE n # Root
    <3>1. ParentOf[n] \in Nodes
      BY <2>2 DEF TreeOK
    <3>2. IsPath(f[ParentOf[n]], ParentOf[n])
      BY <1>1, <3>1
    <3>3. IsPath(<<n>> \o f[ParentOf[n]], n)
      BY <2>2, <3>2, PathGrows
    <3>. QED  BY <1>1, <2>2, <3>3, PathIsOne
  <2>. QED  BY <2>1, <2>2
<1>3. f = Step(f)
  <2>1. DOMAIN f = Nodes /\ DOMAIN Step(f) = Nodes
    OBVIOUS
  <2>. QED  BY <1>2
<1>4. Climb = Step(Climb)
  <2>1. \E g : g = Step(g)
    <3> HIDE DEF f
    <3>. QED  BY <1>3
  <2>. QED  BY <2>1 DEF Climb
<1>5. PICK depth \in [Nodes -> Nat] : \A m \in Nodes \ {Root} : depth[ParentOf[m]] < depth[m]
  BY DepthIs
<1> DEFINE Lost == {m \in Nodes : ~IsPath(Climb[m], m)}
           S == {depth[m] : m \in Lost}
<1>6. ASSUME Lost # {} PROVE FALSE
  <2>1. S \in SUBSET Nat /\ S # {}
    BY <1>6
  <2>2. PICK d \in S : \A e \in S : d <= e
    <3> HIDE DEF S
    <3>. QED  BY <2>1, LeastOf
  <2>3. PICK m \in Lost : d = depth[m]
    OBVIOUS
  <2>4. Climb[m] = IF m = Root THEN <<m>> ELSE <<m>> \o Climb[ParentOf[m]]
    BY <1>4, <2>3
  <2>5. m # Root
    BY <2>3, <2>4, RootIsPath
  <2>6. ParentOf[m] \in Nodes /\ depth[ParentOf[m]] < depth[m]
    BY <1>5, <2>5 DEF TreeOK
  <2>7. IsPath(Climb[ParentOf[m]], ParentOf[m])
    BY <2>2, <2>3, <2>6
  <2>. QED  BY <2>3, <2>4, <2>5, <2>7, PathGrows
<1>. QED  BY <1>6


-----------------------------------------------------------------------------
(* What the tree, the stream and the master are.                           *)

Proposed == UNION {ToSet(list) : list \in DraftLists}
Scopes == {"issue", "subtree", "initiative"}
Ids == (Workers \cup {"human"}) \X Nat \X STRING
Records == [kind : {"decision"}, id : Ids, key : STRING, scope : Scopes, node : Nodes,
            at : Nat, supersedes : Ids \cup {<<>>}]
Indices == [kind : {"index"}, lists : SUBSET Ids]
Comments == Records \cup Indices \cup [kind : {"malformed"}]

MasterType ==
  /\ master.at \in {"idle", "context", "publish", "note", "rule"}
  /\ master.at # "idle" => master.issue \in Workers
  /\ master.path \in Seq(Nodes) /\ master.proven \in BOOLEAN /\ master.wrote \in BOOLEAN
  /\ master.drafts \in Seq(Proposed) /\ (master.at = "note" => master.drafts # <<>>)
  /\ master = [at |-> master.at, issue |-> master.issue, known |-> master.known,
               path |-> master.path, proven |-> master.proven, drafts |-> master.drafts,
               wrote |-> master.wrote, id |-> master.id]
LedgerType ==
  /\ thread \in [Nodes -> Seq(Comments)]
  /\ MasterType
  /\ attempts \in [Workers -> Nat] /\ open \in [Workers -> BOOLEAN]
  /\ DOMAIN published = Workers /\ asked \in [Workers -> BOOLEAN]

\* A record stands where it belongs; a person's takes the place of a worker's of its key.
RecordOK(n, c) ==
  /\ c.node = n /\ c.id[3] = c.key
  /\ c.id[1] \in Workers => Applies(c, c.id[1], Climb[c.id[1]], Root)
  /\ c.supersedes # <<>> =>
       c.supersedes[3] = c.key /\ c.supersedes[1] \in Workers /\ c.id[1] = "human"
RecordsOK == \A n \in Nodes : \A c \in Decisions(n) : RecordOK(n, c)

LEMMA CommentsAre ==
  /\ \A c \in Records : c.kind = "decision" /\ c \in Comments
  /\ \A c \in Indices : c.kind = "index" /\ c \in Comments
  /\ \A c \in Comments : c.kind = "decision" => c \in Records
  /\ [kind |-> "malformed"] \in Comments
BY DEF Records, Indices, Comments

LEMMA DecisionsAre ==
  ASSUME LedgerType, NEW n \in Nodes
  PROVE  /\ Decisions(n) \subseteq Records
         /\ \A k \in 1..Len(thread[n]) : thread[n][k].kind = "decision" => thread[n][k] \in Decisions(n)
         /\ \A c \in Decisions(n) : \E k \in 1..Len(thread[n]) : c = thread[n][k] /\ c.kind = "decision"
<1>1. thread[n] \in Seq(Comments)
  BY DEF LedgerType
<1>2. \A k \in 1..Len(thread[n]) : thread[n][k] \in Comments
  BY <1>1
<1>. QED  BY <1>2, CommentsAre DEF Decisions

-----------------------------------------------------------------------------
(* The fold.                                                               *)

LEMMA PlacesAre ==
  ASSUME NEW path, NEW heard, NEW p
  PROVE  p \in Stored(path, heard) <=>
           \E k \in 1..Len(path) : \E j \in 1..Len(thread[path[k]]) :
             /\ path[k] \in heard /\ p = <<k, j>>
             /\ At(path, <<k, j>>).kind = "decision" /\ At(path, <<k, j>>).node = path[k]
<1> DEFINE Row(k) == {<<k, j>> : j \in {i \in 1..Len(thread[path[k]]) :
                        At(path, <<k, i>>).kind = "decision" /\ At(path, <<k, i>>).node = path[k]}}
<1>1. Stored(path, heard) = UNION {Row(k) : k \in {i \in 1..Len(path) : path[i] \in heard}}
  BY DEF Stored
<1>2. \A k : p \in Row(k) <=>
               \E j \in 1..Len(thread[path[k]]) : /\ p = <<k, j>> /\ At(path, <<k, j>>).kind = "decision"
                                                 /\ At(path, <<k, j>>).node = path[k]
  OBVIOUS
<1> HIDE DEF Row
<1>. QED  BY <1>1, <1>2

LEMMA PlaceIs ==
  ASSUME LedgerType, NEW path \in Seq(Nodes), NEW heard, NEW p \in Stored(path, heard)
  PROVE  p = <<p[1], p[2]>> /\ p[1] \in 1..Len(path) /\ p[1] \in Nat /\ p[2] \in Nat
<1>1. \A k \in 1..Len(path) : Len(thread[path[k]]) \in Nat
  BY DEF LedgerType
<1>2. \E k \in 1..Len(path) : \E j \in 1..Len(thread[path[k]]) :
        /\ path[k] \in heard /\ p = <<k, j>>
        /\ At(path, <<k, j>>).kind = "decision" /\ At(path, <<k, j>>).node = path[k]
  BY PlacesAre
<1>. QED  BY <1>1, <1>2

\* Of equal records on a path, one is first.
LEMMA FirstOfEqual ==
  ASSUME NEW path \in Seq(Nodes), NEW heard, LedgerType, NEW p \in Stored(path, heard)
  PROVE  \E q \in Deduped(path, heard) : At(path, q) = At(path, p)
<1> DEFINE Same == {q \in Stored(path, heard) : At(path, q) = At(path, p)}
           Ks == {q[1] : q \in Same}
<1>1. \A q \in Stored(path, heard) : /\ q = <<q[1], q[2]>> /\ q[1] \in 1..Len(path)
                                     /\ q[1] \in Nat /\ q[2] \in Nat
  BY PlaceIs
<1>2. PICK k \in Ks : \A j \in Ks : j <= k
  <2>1. Ks \in SUBSET Nat /\ Ks # {} /\ \A j \in Ks : j <= Len(path)
    BY <1>1
  <2>2. Len(path) \in Nat
    OBVIOUS
  <2> HIDE DEF Ks
  <2>. QED  BY <2>1, <2>2, GreatestOf
<1> DEFINE Js == {q[2] : q \in {r \in Same : r[1] = k}}
<1>3. PICK j \in Js : \A i \in Js : j <= i
  <2>1. Js \in SUBSET Nat /\ Js # {}
    BY <1>1, <1>2
  <2> HIDE DEF Js
  <2>. QED  BY <2>1, LeastOf
<1>4. PICK q \in Same : q[1] = k /\ q[2] = j
  BY <1>3
<1>5. ASSUME NEW r \in Stored(path, heard), Earlier(r, q) PROVE At(path, r) # At(path, q)
  <2>1. SUFFICES ASSUME r \in Same PROVE FALSE
    BY <1>4
  <2>2. r[1] \in Ks /\ r[1] \in Nat /\ r[2] \in Nat /\ k \in Nat /\ j \in Nat
    BY <1>1, <1>4, <2>1
  <2>3. r[1] <= k
    BY <1>2, <2>2
  <2>4. r[1] = k /\ r[2] < j
    BY <1>4, <1>5, <2>2, <2>3 DEF Earlier
  <2>5. r[2] \in Js
    BY <2>1, <2>4
  <2>6. j <= r[2]
    BY <1>3, <2>5
  <2>. QED  BY <2>2, <2>4, <2>6
<1>. QED  BY <1>4, <1>5 DEF Deduped

LEMMA EqualIsFirst ==
  ASSUME NEW path \in Seq(Nodes), NEW heard, LedgerType,
         NEW p \in Deduped(path, heard), NEW q \in Deduped(path, heard), At(path, p) = At(path, q)
  PROVE  p = q
<1>1. \A r \in Stored(path, heard) : /\ r = <<r[1], r[2]>> /\ r[1] \in Nat /\ r[2] \in Nat
  BY PlaceIs
<1>2. ~Earlier(p, q) /\ ~Earlier(q, p)
  BY DEF Deduped
<1>. QED  BY <1>1, <1>2 DEF Deduped, Earlier

\* The places of a whole path hold what is on the path.
LEMMA StoredAre ==
  ASSUME TreeOK, LedgerType, RecordsOK, NEW x \in Nodes
  PROVE  /\ \A p \in Stored(Climb[x], Nodes) : At(Climb[x], p) \in OnPath(x)
         /\ \A c \in OnPath(x) : \E p \in Stored(Climb[x], Nodes) : At(Climb[x], p) = c
<1> DEFINE path == Climb[x]
<1>1. path \in Seq(Nodes)
  BY ClimbIs DEF IsPath
<1> HIDE DEF path
<1>2. ASSUME NEW p \in Stored(path, Nodes)
      PROVE  At(path, p) \in UNION {Decisions(n) : n \in ToSet(path)}
  <2>1. PICK k \in 1..Len(path) : \E j \in 1..Len(thread[path[k]]) :
          p = <<k, j>> /\ At(path, <<k, j>>).kind = "decision"
    BY <1>2, PlacesAre
  <2>2. PICK j \in 1..Len(thread[path[k]]) : p = <<k, j>> /\ At(path, <<k, j>>).kind = "decision"
    BY <2>1
  <2>3. At(path, p) = thread[path[k]][j] /\ path[k] \in Nodes /\ path[k] \in ToSet(path)
    BY <1>1, <2>2 DEF At, ToSet
  <2>4. At(path, p) \in Decisions(path[k])
    BY <2>2, <2>3, DecisionsAre
  <2>. QED  BY <2>3, <2>4
<1>3. ASSUME NEW n \in ToSet(path), NEW c \in Decisions(n)
      PROVE  \E p \in Stored(path, Nodes) : At(path, p) = c
  <2>1. PICK k \in 1..Len(path) : n = path[k]
    BY <1>1, <1>3 DEF ToSet
  <2>2. n \in Nodes
    BY <1>1, <2>1
  <2>3. PICK j \in 1..Len(thread[n]) : c = thread[n][j] /\ c.kind = "decision"
    BY <2>2, <1>3, DecisionsAre
  <2>4. c.node = n
    BY <1>3, <2>2 DEF RecordsOK, RecordOK
  <2>5. At(path, <<k, j>>) = c
    BY <2>1, <2>3 DEF At
  <2>6. j \in 1..Len(thread[path[k]]) /\ path[k] \in Nodes
    BY <2>1, <2>2
  <2>7. At(path, <<k, j>>).kind = "decision" /\ At(path, <<k, j>>).node = path[k]
    BY <2>1, <2>3, <2>4, <2>5
  <2>8. <<k, j>> \in Stored(path, Nodes)
    BY <2>6, <2>7, PlacesAre
  <2>. QED  BY <2>5, <2>8
<1>. QED  BY <1>2, <1>3 DEF OnPath, path

\* What binds, order aside.
LEMMA BindingIs ==
  ASSUME TreeOK, LedgerType, RecordsOK, NEW x \in Nodes
  PROVE  LET reach == {c \in OnPath(x) : /\ Applies(c, x, Climb[x], Root)
                                         /\ \A d \in OnPath(x) : d.supersedes # c.id}
         IN Binding(x) = {c \in reach : \A d \in reach : d.key = c.key => d = c}
<1> DEFINE path == Climb[x]
           kept == Deduped(path, Nodes)
           live == LiveOf(x, path, Nodes, Root)
           reach == {c \in OnPath(x) : /\ Applies(c, x, Climb[x], Root)
                                       /\ \A d \in OnPath(x) : d.supersedes # c.id}
<1>1. path \in Seq(Nodes)
  BY ClimbIs DEF IsPath
<1>2. \A p \in kept : At(path, p) \in OnPath(x)
  BY StoredAre DEF Deduped
<1>3. \A c \in OnPath(x) : \E p \in kept : At(path, p) = c
  BY <1>1, StoredAre, FirstOfEqual
<1>4. \A p, q \in kept : At(path, p) = At(path, q) => p = q
  BY <1>1, EqualIsFirst
<1>5. live = {p \in kept : At(path, p) \in reach}
  <2>1. \A p \in kept : (At(path, p).id \notin {At(path, q).supersedes : q \in kept})
                          <=> \A d \in OnPath(x) : d.supersedes # At(path, p).id
    BY <1>2, <1>3
  <2> HIDE DEF path
  <2>. QED  BY <1>2, <2>1 DEF LiveOf, path
<1>6. Binding(x) = {At(path, p) : p \in {q \in live : \A r \in live :
                                           At(path, r).key = At(path, q).key => r = q}}
  BY DEF Binding, Active
<1> HIDE DEF path, kept, live, reach
<1>7. reach \subseteq OnPath(x)
  BY DEF reach
<1>8. \A c \in reach : \E p \in live : At(path, p) = c
  BY <1>3, <1>5, <1>7
<1>9. \A p, q \in live : At(path, p) = At(path, q) => p = q
  BY <1>4, <1>5
<1>10. \A p \in live : At(path, p) \in reach
  BY <1>5
<1>11. Binding(x) = {c \in reach : \A d \in reach : d.key = c.key => d = c}
  BY <1>6, <1>8, <1>9, <1>10
<1>. QED  BY <1>11 DEF reach


-----------------------------------------------------------------------------
(* What a step does to the records of a node.                              *)

LEMMA ClockIs ==
  ASSUME TreeOK, LedgerType
  PROVE  Clock \in Nat
<1> DEFINE Row(m) == {<<m, k>> : k \in 1..Len(thread[m])}
           T == {Row(m) : m \in Nodes}
           f == [m \in Nodes |-> Row(m)]
<1>1. ASSUME NEW m \in Nodes PROVE IsFiniteSet(Row(m))
  <2>1. Len(thread[m]) \in Nat
    BY DEF LedgerType
  <2>2. IsFiniteSet({m} \X (1..Len(thread[m])))
    <3>1. IsFiniteSet(1..Len(thread[m]))
      BY <2>1, FS_Interval
    <3>2. IsFiniteSet({m})
      BY FS_Singleton
    <3>. QED  BY <3>1, <3>2, FS_Product
  <2>3. Row(m) = {m} \X (1..Len(thread[m]))
    OBVIOUS
  <2>. QED  BY <2>2, <2>3
<1>2. IsFiniteSet(T)
  <2>1. f \in Surjection(Nodes, T)
    BY DEF Surjection
  <2> HIDE DEF T, f
  <2>. QED  BY <2>1, FS_Surjection DEF TreeOK
<1>3. IsFiniteSet(UNION T)
  <2>1. \A R \in T : IsFiniteSet(R)
    BY <1>1
  <2> HIDE DEF T
  <2>. QED  BY <1>2, <2>1, FS_UNION
<1>4. Cardinality(UNION T) \in Nat
  BY <1>3, FS_CardinalityType
<1>. QED  BY <1>4 DEF Clock

\* A post adds what it posts, and an index only if it is one.
LEMMA PostAdds ==
  ASSUME LedgerType, NEW n \in Nodes, NEW c \in Comments, NEW times \in 1..2, Post(n, c, times)
  PROVE  /\ thread' \in [Nodes -> Seq(Comments)]
         /\ \A m \in Nodes : \A e \in Decisions(m)' : e \in Decisions(m) \/ (m = n /\ e = c /\ c.kind = "decision")
         /\ \A m \in Nodes : Len(thread[m]) <= Len(thread'[m])
         /\ \A m \in Nodes : \A k \in 1..Len(thread'[m]) :
              \/ k \in 1..Len(thread[m]) /\ thread'[m][k] = thread[m][k]
              \/ k \notin 1..Len(thread[m]) /\ m = n /\ thread'[m][k] = c
         /\ \A k \in 1..Len(thread'[n]) : k \notin 1..Len(thread[n]) /\ times = 1 => k = Len(thread[n]) + 1
<1> DEFINE s == thread[n]
           t == [k \in 1..times |-> c]
<1>1. s \in Seq(Comments) /\ t \in Seq(Comments) /\ Len(t) = times
  BY DEF LedgerType
<1>2. /\ s \o t \in Seq(Comments) /\ Len(s \o t) = Len(s) + times
      /\ \A k \in 1..Len(s) : (s \o t)[k] = s[k]
      /\ \A k \in 1..Len(s \o t) : k \notin 1..Len(s) => (s \o t)[k] = c
  BY <1>1
<1>3. thread' = [thread EXCEPT ![n] = s \o t]
  BY DEF Post
<1> HIDE DEF t
<1>4. thread' \in [Nodes -> Seq(Comments)]
  BY <1>2, <1>3 DEF LedgerType
<1>5. thread'[n] = s \o t /\ \A m \in Nodes : m # n => thread'[m] = thread[m]
  BY <1>3 DEF LedgerType
<1>6. \A m \in Nodes : Len(thread[m]) \in Nat
  BY DEF LedgerType
<1>7. \A m \in Nodes : \A k \in 1..Len(thread'[m]) :
        \/ k \in 1..Len(thread[m]) /\ thread'[m][k] = thread[m][k]
        \/ k \notin 1..Len(thread[m]) /\ m = n /\ thread'[m][k] = c
  BY <1>2, <1>5, <1>6
<1>8. ASSUME NEW m \in Nodes, NEW e \in Decisions(m)'
      PROVE  e \in Decisions(m) \/ (m = n /\ e = c /\ c.kind = "decision")
  <2>1. PICK k \in 1..Len(thread'[m]) : e = thread'[m][k] /\ e.kind = "decision"
    BY <1>8 DEF Decisions
  <2>2. CASE k \in 1..Len(thread[m]) /\ thread'[m][k] = thread[m][k]
    BY <2>1, <2>2 DEF Decisions
  <2>3. CASE m = n /\ thread'[m][k] = c
    BY <2>1, <2>3
  <2>. QED  BY <1>7, <2>1, <2>2, <2>3
<1>9. \A m \in Nodes : Len(thread[m]) <= Len(thread'[m])
  BY <1>2, <1>5, <1>6
<1>10. \A k \in 1..Len(thread'[n]) : k \notin 1..Len(thread[n]) /\ times = 1 => k = Len(thread[n]) + 1
  BY <1>2, <1>5, <1>6
<1>. QED  BY <1>4, <1>7, <1>8, <1>9, <1>10

Rewrite(n, k, c) == thread' = [thread EXCEPT ![n][k] = c]

\* A comment rewritten into what is no record takes at most one away.
LEMMA RewriteTakes ==
  ASSUME LedgerType, NEW n \in Nodes, NEW k \in 1..Len(thread[n]), NEW c \in Comments,
         c.kind # "decision", Rewrite(n, k, c)
  PROVE  /\ thread' \in [Nodes -> Seq(Comments)]
         /\ \A m \in Nodes : Decisions(m)' \subseteq Decisions(m)
         /\ \A m \in Nodes : Len(thread'[m]) = Len(thread[m])
         /\ \A m \in Nodes : \A j \in 1..Len(thread[m]) :
              thread'[m][j] = IF m = n /\ j = k THEN c ELSE thread[m][j]
<1>1. thread[n] \in Seq(Comments)
  BY DEF LedgerType
<1>2. /\ [thread[n] EXCEPT ![k] = c] \in Seq(Comments)
      /\ Len([thread[n] EXCEPT ![k] = c]) = Len(thread[n])
      /\ \A j \in 1..Len(thread[n]) : [thread[n] EXCEPT ![k] = c][j] = IF j = k THEN c ELSE thread[n][j]
  BY <1>1
<1>3. thread'[n] = [thread[n] EXCEPT ![k] = c] /\ \A m \in Nodes : m # n => thread'[m] = thread[m]
  BY DEF LedgerType, Rewrite
<1>4. thread' \in [Nodes -> Seq(Comments)]
  BY <1>2, <1>3 DEF LedgerType, Rewrite
<1>5. /\ \A m \in Nodes : Len(thread'[m]) = Len(thread[m])
      /\ \A m \in Nodes : \A j \in 1..Len(thread[m]) :
           thread'[m][j] = IF m = n /\ j = k THEN c ELSE thread[m][j]
  BY <1>2, <1>3
<1>6. ASSUME NEW m \in Nodes, NEW e \in Decisions(m)' PROVE e \in Decisions(m)
  <2>1. PICK j \in 1..Len(thread'[m]) : e = thread'[m][j] /\ e.kind = "decision"
    BY <1>6 DEF Decisions
  <2>. QED  BY <1>5, <2>1 DEF Decisions
<1>. QED  BY <1>4, <1>5, <1>6

-----------------------------------------------------------------------------
(* What a master has of the tree.                                          *)

\* What answers of a path is its beginning.
LEMMA ReadIs ==
  ASSUME NEW path \in Seq(Nodes), NEW how
  PROVE  /\ Read(path, how) \in Seq(Nodes)
         /\ ToSet(Read(path, how)) \subseteq ToSet(path)
         /\ Len(Read(path, how)) \in 0..Len(path)
         /\ \A k \in 1..Len(Read(path, how)) : Read(path, how)[k] = path[k]
<1> DEFINE good == {k \in 1..Len(path) : \A j \in 1..k :
                      /\ Says(path[j], how).issue
                      /\ j < k => ParentEdge(Says(path[j], how)) = "node"}
<1>1. IsFiniteSet(1..Len(path)) /\ Cardinality(1..Len(path)) = Len(path) /\ good \subseteq 1..Len(path)
  <2>1. Len(path) \in Nat
    OBVIOUS
  <2>. QED  BY <2>1, FS_Interval
<1>2. Cardinality(good) \in 0..Len(path)
  <2>1. IsFiniteSet(good) /\ Cardinality(good) <= Len(path)
    <3> HIDE DEF good
    <3>. QED  BY <1>1, FS_Subset
  <2>2. Cardinality(good) \in Nat
    BY <2>1, FS_CardinalityType
  <2>. QED  BY <2>1, <2>2
<1>3. Read(path, how) = SubSeq(path, 1, Cardinality(good))
  BY DEF Read
<1> HIDE DEF good
<1>4. /\ Read(path, how) \in Seq(Nodes) /\ Len(Read(path, how)) = Cardinality(good)
      /\ \A k \in 1..Cardinality(good) : Read(path, how)[k] = path[k]
  BY <1>2, <1>3
<1>5. ToSet(Read(path, how)) \subseteq ToSet(path)
  BY <1>2, <1>4 DEF ToSet
<1>. QED  BY <1>2, <1>4, <1>5

\* All of it does when every node is whole, and it is proven to end at the root.
LEMMA ReadWhole ==
  ASSUME TreeOK, NEW x \in Nodes
  PROVE  Read(Climb[x], Whole) = Climb[x] /\ Proven(Climb[x], Whole) /\ RootOf(Climb[x], TRUE) = Root
<1> DEFINE path == Climb[x]
           good == {k \in 1..Len(path) : \A j \in 1..k :
                      /\ Says(path[j], Whole).issue
                      /\ j < k => ParentEdge(Says(path[j], Whole)) = "node"}
<1>1. /\ path \in Seq(Nodes) /\ Len(path) \in Nat /\ Len(path) > 0 /\ path[Len(path)] = Root
      /\ \A i \in 1..(Len(path) - 1) : path[i] # Root /\ path[i] \in Nodes
  BY ClimbIs DEF IsPath
<1> HIDE DEF path
<1>2. \A n \in Nodes : /\ Says(n, Whole).issue
                       /\ n # Root => ParentEdge(Says(n, Whole)) = "node"
                       /\ ParentEdge(Says(Root, Whole)) = "none"
  BY DEF TreeOK, Says, Answer, Whole, ParentEdge
<1>3. good = 1..Len(path)
  <2>1. ASSUME NEW k \in 1..Len(path), NEW j \in 1..k
        PROVE  Says(path[j], Whole).issue /\ (j < k => ParentEdge(Says(path[j], Whole)) = "node")
    <3>1. path[j] \in Nodes /\ (j < k => j \in 1..(Len(path) - 1))
      BY <1>1
    <3>. QED  BY <1>1, <1>2, <3>1
  <2>. QED  BY <2>1
<1>4. Read(path, Whole) = SubSeq(path, 1, Cardinality(good))
  BY DEF Read
<1>5. Cardinality(good) = Len(path)
  <2>1. Cardinality(1..Len(path)) = Len(path)
    BY <1>1, FS_Interval
  <2> HIDE DEF good
  <2>. QED  BY <1>3, <2>1
<1>6. SubSeq(path, 1, Len(path)) = path
  BY <1>1
<1>7. Last(path) = Root /\ path # <<>>
  BY <1>1 DEF Last
<1>. QED  BY <1>2, <1>4, <1>5, <1>6, <1>7 DEF Proven, RootOf, path

\* Who is proven to be the root is the root.
LEMMA ProvenIsRoot ==
  ASSUME TreeOK, NEW path \in Seq(Nodes), NEW how \in Moods, Proven(path, how)
  PROVE  path # <<>> /\ Last(path) = Root
<1>1. path # <<>> /\ Last(path) \in Nodes
  BY DEF Proven, Last
<1>2. ParentEdge(Says(Last(path), how)) = "none"
  BY DEF Proven
<1>3. Says(Last(path), how).parent = "none" /\ ~Says(Last(path), how).errors
  BY <1>2 DEF ParentEdge
<1>. QED  BY <1>1, <1>3 DEF Says, Answer, TreeOK


-----------------------------------------------------------------------------
(* The invariant.                                                          *)

\* The record a ruling of the attempt in hand would be.
Ruled(k) == <<master.issue, attempts[master.issue], k>>
OnRecord(id) == \E n \in Nodes : \E c \in Decisions(n) : c.id = id

\* A master knows the part of its path that answered.
PathOK ==
  master.at \in {"publish", "note", "rule"} =>
    /\ ToSet(master.path) \subseteq ToSet(Climb[master.issue])
    /\ master.path # <<>> => master.path[1] = master.issue
    /\ master.proven => master.path # <<>> /\ Last(master.path) = Root

\* What it might rule again is on record for it, or it could not tell.
KnownOK ==
  master.at \in {"publish", "note"} =>
    \A d \in Proposed : OnRecord(Ruled(d.key)) =>
      \/ Ruled(d.key) \in unsure \/ d.key \in master.known
      \/ Ruled(d.key) \in published[master.issue]
      \/ master.at = "note" /\ master.id = Ruled(d.key)

IndexOK ==
  \A j, k \in 1..Len(thread[Root]) :
    thread[Root][j].kind = "index" /\ thread[Root][k].kind = "index" => j = k

LedgerInv == LedgerType /\ RecordsOK /\ PathOK /\ KnownOK /\ OneRecordPerRuling /\ IndexOK

LEMMA ProposedAre ==
  ASSUME TreeOK
  PROVE  /\ \A d \in Proposed : /\ d.key \in STRING /\ d.scope \in Scopes
                                /\ d.subtree \in Nodes /\ d.supersedes \in BOOLEAN
         /\ \A list \in DraftLists : list \in Seq(Proposed)
<1>1. ASSUME NEW list \in DraftLists
      PROVE  /\ list \in Seq(Proposed)
             /\ \A d \in ToSet(list) : /\ d.key \in STRING /\ d.scope \in Scopes
                                       /\ d.subtree \in Nodes /\ d.supersedes \in BOOLEAN
  <2>1. list \in Seq([key : STRING, scope : Scopes, subtree : Nodes, supersedes : BOOLEAN])
    BY DEF TreeOK, Scopes
  <2>2. \A k \in 1..Len(list) : list[k] \in Proposed
    BY <2>1 DEF Proposed, ToSet
  <2>3. list \in Seq(Proposed)
    BY <2>1, <2>2
  <2>4. \A k \in 1..Len(list) : /\ list[k].key \in STRING /\ list[k].scope \in Scopes
                               /\ list[k].subtree \in Nodes /\ list[k].supersedes \in BOOLEAN
    <3> DEFINE R == [key : STRING, scope : Scopes, subtree : Nodes, supersedes : BOOLEAN]
    <3>1. ASSUME NEW r \in R
          PROVE  /\ r.key \in STRING /\ r.scope \in Scopes
                 /\ r.subtree \in Nodes /\ r.supersedes \in BOOLEAN
      OBVIOUS
    <3>2. list \in Seq(R)
      BY <2>1
    <3> HIDE DEF R
    <3>3. \A k \in 1..Len(list) : list[k] \in R
      BY <3>2
    <3>. QED  BY <3>1, <3>3
  <2>5. ToSet(list) = {list[k] : k \in 1..Len(list)}
    BY <2>1 DEF ToSet
  <2>. QED  BY <2>3, <2>4, <2>5
<1>. QED  BY <1>1 DEF Proposed

\* resolveStorageNode: what is written reaches the issue it is about.
LEMMA WhereIs ==
  ASSUME TreeOK, LedgerInv, master.at = "publish", NEW d \in Proposed,
         NEW n \in StorageNode(master.path, d)
  PROVE  /\ n \in Nodes /\ n \in ToSet(Climb[master.issue])
         /\ d.scope = "issue" => n = master.issue
         /\ d.scope = "initiative" => n = Root
<1>1. /\ master.path \in Seq(Nodes) /\ ToSet(master.path) \subseteq ToSet(Climb[master.issue])
      /\ master.path # <<>> => master.path[1] = master.issue
      /\ master.proven => master.path # <<>> /\ Last(master.path) = Root
  BY DEF LedgerInv, LedgerType, MasterType, PathOK
<1>2. d.scope \in Scopes
  BY ProposedAre
<1>3. master.path # <<>>
  BY DEF StorageNode
<1>4. master.path[1] \in ToSet(master.path) /\ Last(master.path) \in ToSet(master.path)
  BY <1>1, <1>3 DEF ToSet, Last
<1>5. ToSet(master.path) \subseteq Nodes
  BY <1>1 DEF ToSet
<1>6. CASE d.scope = "initiative"
  BY <1>1, <1>3, <1>4, <1>5, <1>6 DEF StorageNode
<1>7. CASE d.scope = "issue"
  BY <1>1, <1>3, <1>4, <1>5, <1>7 DEF StorageNode
<1>8. CASE d.scope = "subtree"
  <2>1. StorageNode(master.path, d) = {d.subtree} \cap ToSet(master.path)
    BY <1>3, <1>8 DEF StorageNode
  <2>. QED  BY <1>1, <1>5, <1>8, <2>1
<1>. QED  BY <1>2, <1>6, <1>7, <1>8 DEF Scopes

-----------------------------------------------------------------------------
(* The steps that write nothing.                                           *)

LEMMA QuietKeeps ==
  ASSUME LedgerInv, UNCHANGED thread, unsure \subseteq unsure'
  PROVE  RecordsOK' /\ OneRecordPerRuling' /\ IndexOK' /\ thread' \in [Nodes -> Seq(Comments)]
<1>1. \A n \in Nodes : Decisions(n)' = Decisions(n)
  BY DEF Decisions
<1>2. RecordsOK'
  BY <1>1 DEF LedgerInv, RecordsOK, RecordOK, Applies
<1>3. OneRecordPerRuling'
  BY <1>1 DEF LedgerInv, OneRecordPerRuling
<1>. QED  BY <1>2, <1>3 DEF LedgerInv, LedgerType, IndexOK

LEMMA NoMasterIs ==
  ASSUME NEW x \in Workers
  PROVE  /\ master' = NoMaster => MasterType' /\ master'.at = "idle"
         /\ master' = [NoMaster EXCEPT !.at = "context", !.issue = x] =>
              MasterType' /\ master'.at = "context"
<1>1. <<>> \in Seq(Nodes) /\ <<>> \in Seq(Proposed)
  OBVIOUS
<1>2. ASSUME master' = NoMaster PROVE MasterType' /\ master'.at = "idle"
  BY <1>1, <1>2 DEF MasterType, NoMaster
<1>3. ASSUME master' = [NoMaster EXCEPT !.at = "context", !.issue = x]
      PROVE  MasterType' /\ master'.at = "context"
  <2>1. master' = [at |-> "context", issue |-> x, known |-> {}, path |-> <<>>, proven |-> FALSE,
                   drafts |-> <<>>, wrote |-> FALSE, id |-> <<>>]
    BY <1>3 DEF NoMaster
  <2>. QED  BY <1>1, <2>1 DEF MasterType
<1>. QED  BY <1>2, <1>3

LEMMA OpenKeeps ==
  ASSUME TreeOK, LedgerInv, NEW x \in Workers, OpenAttempt(x)
  PROVE  LedgerInv'
<1>1. UNCHANGED <<thread, published, asked, unsure>> /\ master' = [NoMaster EXCEPT !.at = "context", !.issue = x]
  BY DEF OpenAttempt
<1>2. attempts' \in [Workers -> Nat] /\ open' \in [Workers -> BOOLEAN]
  <2>1. attempts \in [Workers -> Nat] /\ open \in [Workers -> BOOLEAN]
    BY DEF LedgerInv, LedgerType
  <2>2. CASE UNCHANGED <<attempts, open>>
    BY <2>1, <2>2
  <2>3. CASE attempts' = [attempts EXCEPT ![x] = @ + 1] /\ open' = [open EXCEPT ![x] = TRUE]
    BY <2>1, <2>3
  <2>. QED  BY <2>2, <2>3 DEF OpenAttempt
<1>3. MasterType' /\ master'.at = "context"
  BY <1>1, NoMasterIs
<1>4. PathOK' /\ KnownOK'
  BY <1>3 DEF PathOK, KnownOK
<1>. QED  BY <1>1, <1>2, <1>3, <1>4, QuietKeeps DEF LedgerInv, LedgerType

LEMMA LetGoKeeps ==
  ASSUME TreeOK, LedgerInv, Rule \/ Crash
  PROVE  LedgerInv'
<1>1. UNCHANGED <<thread, attempts, published, asked, unsure>> /\ master' = NoMaster
  BY DEF Rule, Crash
<1>2. open' \in [Workers -> BOOLEAN]
  BY DEF Rule, Crash, LedgerInv, LedgerType
<1>3. MasterType' /\ master'.at = "idle"
  BY <1>1 DEF MasterType, NoMaster
<1>4. PathOK' /\ KnownOK'
  BY <1>3 DEF PathOK, KnownOK
<1>. QED  BY <1>1, <1>2, <1>3, <1>4, QuietKeeps DEF LedgerInv, LedgerType

LEMMA AnsweredKeeps ==
  ASSUME TreeOK, LedgerInv, NEW x \in Workers, Answered(x)
  PROVE  LedgerInv'
<1>1. UNCHANGED <<thread, master, attempts, open, published, unsure>> /\ asked' \in [Workers -> BOOLEAN]
  BY DEF Answered, LedgerInv, LedgerType
<1>2. MasterType' /\ PathOK'
  BY <1>1 DEF LedgerInv, LedgerType, MasterType, PathOK
<1>3. KnownOK'
  BY <1>1 DEF LedgerInv, KnownOK, Ruled, OnRecord, Decisions
<1>. QED  BY <1>1, <1>2, <1>3, QuietKeeps DEF LedgerInv, LedgerType

LEMMA NoteKeeps ==
  ASSUME TreeOK, LedgerInv, Note
  PROVE  LedgerInv'
<1>1. /\ master.at = "note" /\ UNCHANGED <<thread, attempts, open, asked, unsure>>
      /\ master' = [master EXCEPT !.at = "publish", !.drafts = Tail(@), !.wrote = TRUE]
      /\ published' = [published EXCEPT ![master.issue] = @ \cup {master.id}]
      /\ master.issue \in Workers /\ MasterType
  BY DEF Note, LedgerInv, LedgerType, MasterType
<1>2. /\ master'.at = "publish" /\ master'.issue = master.issue /\ master'.known = master.known
      /\ master'.path = master.path /\ master'.proven = master.proven /\ master'.id = master.id
      /\ master'.drafts = Tail(master.drafts) /\ master'.wrote
      /\ master' = [at |-> "publish", issue |-> master.issue, known |-> master.known,
                    path |-> master.path, proven |-> master.proven, drafts |-> Tail(master.drafts),
                    wrote |-> TRUE, id |-> master.id]
  BY <1>1 DEF MasterType
<1>3. Tail(master.drafts) \in Seq(Proposed)
  BY <1>1 DEF MasterType
<1>4. MasterType' /\ DOMAIN published' = Workers
  BY <1>1, <1>2, <1>3 DEF MasterType, LedgerInv, LedgerType
<1>5. PathOK'
  BY <1>1, <1>2 DEF LedgerInv, PathOK
<1>6. \A d : Ruled(d)' = Ruled(d) /\ (OnRecord(Ruled(d))' <=> OnRecord(Ruled(d)))
  BY <1>1, <1>2 DEF Ruled, OnRecord, Decisions
<1>7. published'[master.issue] = published[master.issue] \cup {master.id}
  BY <1>1 DEF LedgerInv, LedgerType
<1>8. KnownOK'
  BY <1>1, <1>2, <1>6, <1>7 DEF LedgerInv, KnownOK
<1>. QED  BY <1>1, <1>4, <1>5, <1>8, QuietKeeps DEF LedgerInv, LedgerType


-----------------------------------------------------------------------------
(* The steps that write.                                                   *)

LEMMA LossKeeps ==
  ASSUME LedgerInv, \A m \in Nodes : Decisions(m)' \subseteq Decisions(m), UNCHANGED unsure
  PROVE  RecordsOK' /\ OneRecordPerRuling'
<1>1. RecordsOK'
  BY DEF LedgerInv, RecordsOK, RecordOK, Applies
<1>2. OneRecordPerRuling'
  BY DEF LedgerInv, OneRecordPerRuling
<1>. QED  BY <1>1, <1>2

LEMMA SpoilKeeps ==
  ASSUME TreeOK, LedgerInv, Spoil
  PROVE  LedgerInv'
<1>1. /\ UNCHANGED <<master, attempts, open, published, asked, unsure>>
      /\ \E n \in Nodes : \E k \in 1..Len(thread[n]) : thread' = [thread EXCEPT ![n][k] = [kind |-> "malformed"]]
  BY DEF Spoil
<1> DEFINE bad == [kind |-> "malformed"]
<1>a. PICK n \in Nodes : \E k \in 1..Len(thread[n]) : thread' = [thread EXCEPT ![n][k] = bad]
  BY <1>1
<1>b. PICK k \in 1..Len(thread[n]) : Rewrite(n, k, bad)
  BY <1>a DEF Rewrite
<1>2. bad \in Comments /\ bad.kind # "decision" /\ bad.kind # "index"
  BY CommentsAre
<1> HIDE DEF bad
<1>3. /\ thread' \in [Nodes -> Seq(Comments)]
      /\ \A m \in Nodes : Decisions(m)' \subseteq Decisions(m)
      /\ \A m \in Nodes : Len(thread'[m]) = Len(thread[m])
      /\ \A m \in Nodes : \A j \in 1..Len(thread[m]) :
           thread'[m][j] = IF m = n /\ j = k THEN bad ELSE thread[m][j]
  BY <1>b, <1>2, RewriteTakes DEF LedgerInv
<1>4. MasterType' /\ PathOK'
  BY <1>1 DEF LedgerInv, LedgerType, MasterType, PathOK
<1>5. KnownOK'
  BY <1>1, <1>3 DEF LedgerInv, KnownOK, Ruled, OnRecord
<1>6. IndexOK'
  <2>1. \A j \in 1..Len(thread'[Root]) : j \in 1..Len(thread[Root])
          /\ (thread'[Root][j].kind = "index" => thread[Root][j].kind = "index")
    BY <1>2, <1>3 DEF TreeOK
  <2>. QED  BY <2>1 DEF LedgerInv, IndexOK
<1>. QED  BY <1>1, <1>3, <1>4, <1>5, <1>6, LossKeeps DEF LedgerInv, LedgerType

LEMMA ActiveAre ==
  ASSUME LedgerType, NEW path \in Seq(Nodes), NEW x, NEW heard, NEW root
  PROVE  \A c \in Active(x, path, heard, root) : c \in Records
<1>1. ASSUME NEW p \in Stored(path, heard) PROVE At(path, p) \in Records
  <2>1. \E k \in 1..Len(path) : \E j \in 1..Len(thread[path[k]]) :
          /\ path[k] \in heard /\ p = <<k, j>>
          /\ At(path, <<k, j>>).kind = "decision" /\ At(path, <<k, j>>).node = path[k]
    BY <1>1, PlacesAre
  <2>2. PICK k \in 1..Len(path) : \E j \in 1..Len(thread[path[k]]) :
          p = <<k, j>> /\ At(path, <<k, j>>).kind = "decision"
    BY <2>1
  <2>3. PICK j \in 1..Len(thread[path[k]]) : p = <<k, j>> /\ At(path, <<k, j>>).kind = "decision"
    BY <2>2
  <2>4. path[k] \in Nodes /\ At(path, p) = thread[path[k]][j]
    BY <2>3 DEF At
  <2>5. thread[path[k]][j] \in Comments
    BY <2>4 DEF LedgerType
  <2>. QED  BY <2>3, <2>4, <2>5, CommentsAre
<1>. QED  BY <1>1 DEF Active, LiveOf, Deduped

LEMMA NewestIndex ==
  ASSUME LedgerType, NEW n \in Nodes, Existing(thread[n]) = {}
  PROVE  \A k \in 1..Len(thread[n]) : thread[n][k].kind # "index"
<1> DEFINE all == {k \in 1..Len(thread[n]) : thread[n][k].kind = "index"}
<1>1. Len(thread[n]) \in Nat
  BY DEF LedgerType
<1>2. all \in SUBSET Nat /\ \A k \in all : k <= Len(thread[n])
  BY <1>1
<1>3. Existing(thread[n]) = {k \in all : \A j \in all : j <= k}
  BY DEF Existing
<1> HIDE DEF all
<1>4. all = {}
  BY <1>1, <1>2, <1>3, GreatestOf
<1>. QED  BY <1>4 DEF all

LEMMA SyncKeeps ==
  ASSUME TreeOK, LedgerInv, SyncIndex
  PROVE  LedgerInv'
<1> DEFINE body == IndexOf(master.issue, master.path)
<1>1. /\ master.at = "publish" /\ master' = [master EXCEPT !.at = "rule"]
      /\ UNCHANGED <<attempts, open, published, asked, unsure>>
      /\ \/ UNCHANGED thread
         \/ \E k \in Existing(thread[Root]) : thread' = [thread EXCEPT ![Root][k] = body]
         \/ Existing(thread[Root]) = {} /\ Post(Root, body, 1)
  BY DEF SyncIndex
<1>2. /\ MasterType /\ LedgerType /\ Root \in Nodes
      /\ master.at = "publish" => master.issue \in Workers
  BY DEF LedgerInv, LedgerType, MasterType, TreeOK
<1>3. body \in Indices /\ body \in Comments /\ body.kind = "index"
  <2>1. \A c \in Active(master.issue, master.path, Nodes, RootOf(master.path, master.proven)) : c.id \in Ids
    BY <1>2, ActiveAre DEF MasterType, Records
  <2>2. body \in Indices
    BY <2>1 DEF IndexOf, Indices
  <2>. QED  BY <2>2, CommentsAre
<1> HIDE DEF body
<1>4. MasterType' /\ master'.at = "rule" /\ PathOK'
  <2>1. master' = [at |-> "rule", issue |-> master.issue, known |-> master.known,
                   path |-> master.path, proven |-> master.proven, drafts |-> master.drafts,
                   wrote |-> master.wrote, id |-> master.id]
    BY <1>1, <1>2 DEF MasterType
  <2>. QED  BY <1>1, <1>2, <2>1 DEF MasterType, LedgerInv, PathOK
<1>5. KnownOK'
  BY <1>4 DEF KnownOK
<1>6. CASE UNCHANGED thread
  BY <1>1, <1>2, <1>4, <1>5, <1>6, QuietKeeps DEF LedgerInv, LedgerType
<1>7. CASE \E k \in Existing(thread[Root]) : thread' = [thread EXCEPT ![Root][k] = body]
  <2>1. PICK k \in Existing(thread[Root]) : Rewrite(Root, k, body)
    BY <1>7 DEF Rewrite
  <2>2. k \in 1..Len(thread[Root]) /\ thread[Root][k].kind = "index"
    BY DEF Existing
  <2>3. /\ thread' \in [Nodes -> Seq(Comments)]
        /\ \A m \in Nodes : Decisions(m)' \subseteq Decisions(m)
        /\ Len(thread'[Root]) = Len(thread[Root])
        /\ \A j \in 1..Len(thread[Root]) : thread'[Root][j] = IF j = k THEN body ELSE thread[Root][j]
    <3>1. /\ thread' \in [Nodes -> Seq(Comments)]
          /\ \A m \in Nodes : Decisions(m)' \subseteq Decisions(m)
          /\ \A m \in Nodes : Len(thread'[m]) = Len(thread[m])
          /\ \A m \in Nodes : \A j \in 1..Len(thread[m]) :
               thread'[m][j] = IF m = Root /\ j = k THEN body ELSE thread[m][j]
      BY <1>2, <1>3, <2>1, <2>2, RewriteTakes
    <3>. QED  BY <1>2, <3>1
  <2>4. IndexOK'
    BY <2>2, <2>3 DEF LedgerInv, IndexOK
  <2>. QED  BY <1>1, <1>2, <1>4, <1>5, <2>3, <2>4, LossKeeps DEF LedgerInv, LedgerType
<1>8. CASE Existing(thread[Root]) = {} /\ Post(Root, body, 1)
  <2>1. \A k \in 1..Len(thread[Root]) : thread[Root][k].kind # "index"
    BY <1>2, <1>8, NewestIndex
  <2>2. /\ thread' \in [Nodes -> Seq(Comments)]
        /\ \A m \in Nodes : \A e \in Decisions(m)' : e \in Decisions(m)
        /\ \A k \in 1..Len(thread'[Root]) :
             \/ k \in 1..Len(thread[Root]) /\ thread'[Root][k] = thread[Root][k]
             \/ k = Len(thread[Root]) + 1
    BY <1>2, <1>3, <1>8, PostAdds
  <2>3. IndexOK'
    BY <2>1, <2>2 DEF IndexOK
  <2>. QED  BY <1>1, <1>2, <1>4, <1>5, <2>2, <2>3, LossKeeps DEF LedgerInv, LedgerType
<1>. QED  BY <1>1, <1>6, <1>7, <1>8


\* A person's record has an id of its own, and the key of what it supersedes.
LEMMA SupersedeKeeps ==
  ASSUME TreeOK, LedgerInv, Supersede
  PROVE  LedgerInv'
<1> DEFINE By(c) == [c EXCEPT !.id = <<"human", Clock, c.key>>, !.at = Clock, !.supersedes = c.id]
<1>1. /\ UNCHANGED <<master, attempts, open, published, asked, unsure>>
      /\ \E n \in Nodes : \E k \in 1..Len(thread[n]) :
           /\ thread[n][k].kind = "decision" /\ thread[n][k].id[1] \in Workers
           /\ Post(n, By(thread[n][k]), 1)
  BY DEF Supersede
<1>2. PICK n \in Nodes : \E k \in 1..Len(thread[n]) :
           /\ thread[n][k].kind = "decision" /\ thread[n][k].id[1] \in Workers
           /\ Post(n, By(thread[n][k]), 1)
  BY <1>1
<1>3. PICK k \in 1..Len(thread[n]) :
           /\ thread[n][k].kind = "decision" /\ thread[n][k].id[1] \in Workers
           /\ Post(n, By(thread[n][k]), 1)
  BY <1>2
<1>4. PICK c : c = thread[n][k]
  OBVIOUS
<1>5. LedgerType /\ c \in Decisions(n) /\ c \in Records /\ RecordOK(n, c) /\ c.id[1] \in Workers
  BY <1>3, <1>4, DecisionsAre DEF LedgerInv, RecordsOK
<1>6. PICK h : h = By(c)
  OBVIOUS
<1>7. Clock \in Nat /\ "human" \notin Workers /\ "human" \notin Nodes
  BY <1>5, ClockIs DEF TreeOK
<1>8. /\ h = [kind |-> c.kind, id |-> <<"human", Clock, c.key>>, key |-> c.key, scope |-> c.scope,
              node |-> c.node, at |-> Clock, supersedes |-> c.id]
      /\ c.kind = "decision" /\ c.id \in Ids /\ c.key \in STRING /\ c.scope \in Scopes /\ c.node \in Nodes
  BY <1>5, <1>6 DEF Records
<1>9. h \in Records /\ h \in Comments /\ h.kind = "decision"
  <2>1. <<"human", Clock, c.key>> \in Ids
    BY <1>7, <1>8 DEF Ids
  <2>2. h \in Records
    BY <1>7, <1>8, <2>1 DEF Records
  <2>. QED  BY <2>2, CommentsAre
<1>10. h.id[1] = "human" /\ RecordOK(n, h)
  BY <1>5, <1>7, <1>8 DEF RecordOK
<1>11. Post(n, h, 1)
  BY <1>3, <1>4, <1>6
<1> HIDE DEF By
<1>12. /\ thread' \in [Nodes -> Seq(Comments)]
       /\ \A m \in Nodes : \A e \in Decisions(m)' :
            e \in Decisions(m) \/ (m = n /\ e = h /\ h.kind = "decision")
       /\ \A m \in Nodes : \A j \in 1..Len(thread'[m]) :
            \/ j \in 1..Len(thread[m]) /\ thread'[m][j] = thread[m][j]
            \/ j \notin 1..Len(thread[m]) /\ m = n /\ thread'[m][j] = h
  BY <1>5, <1>9, <1>11, PostAdds
<1>13. RecordsOK'
  <2>1. ASSUME NEW m \in Nodes, NEW e \in Decisions(m)' PROVE RecordOK(m, e)
    BY <1>10, <1>12 DEF LedgerInv, RecordsOK
  <2>. QED  BY <2>1 DEF RecordsOK, RecordOK, Applies
<1>14. \A m \in Nodes : \A e \in Decisions(m)' : e.id[1] # "human" => e \in Decisions(m)
  BY <1>10, <1>12
<1>15. OneRecordPerRuling'
  <2> SUFFICES ASSUME NEW m \in Nodes, NEW e \in Decisions(m)', e.id[1] \in Workers, e.id \notin unsure,
                      NEW o \in Nodes, NEW d \in Decisions(o)', d.id = e.id
               PROVE  d = e
    BY <1>1 DEF OneRecordPerRuling
  <2>1. e \in Decisions(m) /\ d \in Decisions(o)
    BY <1>7, <1>14
  <2>. QED  BY <2>1 DEF LedgerInv, OneRecordPerRuling
<1>16. KnownOK'
  <2>1. \A d : master.at # "idle" /\ OnRecord(Ruled(d))' => OnRecord(Ruled(d))
    <3>1. \A d : Ruled(d)' = Ruled(d) /\ Ruled(d)[1] = master.issue
      BY <1>1 DEF Ruled
    <3>2. master.at # "idle" => master.issue # "human"
      BY <1>7 DEF LedgerInv, LedgerType, MasterType
    <3>. QED  BY <3>1, <3>2, <1>14 DEF OnRecord
  <2>. QED  BY <1>1, <2>1 DEF LedgerInv, KnownOK, Ruled
<1>17. MasterType' /\ PathOK'
  BY <1>1 DEF LedgerInv, LedgerType, MasterType, PathOK
<1>18. IndexOK'
  <2>1. \A j \in 1..Len(thread'[Root]) : thread'[Root][j].kind = "index" =>
          j \in 1..Len(thread[Root]) /\ thread[Root][j].kind = "index"
    BY <1>9, <1>12 DEF TreeOK
  <2>. QED  BY <2>1 DEF LedgerInv, IndexOK
<1>. QED  BY <1>1, <1>12, <1>13, <1>15, <1>16, <1>17, <1>18 DEF LedgerInv, LedgerType

\* A whole reading, uncontested, shows a master the record of its own ruling.
LEMMA OwnIsBinding ==
  ASSUME TreeOK, LedgerInv, NEW x \in Workers, NEW n \in Nodes, NEW c \in Decisions(n),
         c.id[1] = x, c.id \notin unsure, c.id \notin Contested(x)
  PROVE  c \in Binding(x)
<1>1. LedgerType /\ RecordsOK /\ OneRecordPerRuling /\ x \in Nodes
  BY DEF LedgerInv, TreeOK
<1>2. RecordOK(n, c) /\ Applies(c, x, Climb[x], Root) /\ c \in Records
  BY <1>1, DecisionsAre DEF RecordsOK, RecordOK
<1>3. c \in OnPath(x)
  BY <1>2 DEF RecordOK, Applies, OnPath
<1>4. ASSUME NEW e \in OnPath(x), e.key = c.key PROVE e = c
  <2>1. e.id = c.id
    BY <1>3, <1>4 DEF Contested
  <2>2. PICK m \in ToSet(Climb[x]) : e \in Decisions(m)
    BY <1>4 DEF OnPath
  <2>3. m \in Nodes
    BY <1>1, <2>2, ClimbIs DEF IsPath, ToSet
  <2>. QED  BY <1>1, <2>1, <2>2, <2>3 DEF OneRecordPerRuling
<1>5. ASSUME NEW e \in OnPath(x) PROVE e.supersedes # c.id
  <2>1. PICK m \in ToSet(Climb[x]) : e \in Decisions(m)
    BY <1>5 DEF OnPath
  <2>2. m \in Nodes
    BY <1>1, <2>1, ClimbIs DEF IsPath, ToSet
  <2>3. RecordOK(m, e)
    BY <1>1, <2>1, <2>2 DEF RecordsOK
  <2>4. SUFFICES ASSUME e.supersedes = c.id PROVE FALSE
    OBVIOUS
  <2>5. c.id # <<>>
    BY <1>2 DEF Records, Ids
  <2>6. e.key = c.key /\ e.id[1] = "human"
    BY <1>2, <2>3, <2>4, <2>5 DEF RecordOK
  <2>7. e = c
    BY <1>4, <2>6
  <2>. QED  BY <2>6, <2>7 DEF TreeOK
<1>. QED  BY <1>1, <1>2, <1>3, <1>4, <1>5, BindingIs

LEMMA ReadKeeps ==
  ASSUME TreeOK, LedgerInv, ReadContext
  PROVE  LedgerInv'
<1> DEFINE x == master.issue
<1>1. /\ master.at = "context" /\ UNCHANGED <<thread, attempts, open, published, asked>>
      /\ LedgerType /\ MasterType /\ x \in Workers /\ x \in Nodes
  BY DEF ReadContext, LedgerInv, LedgerType, MasterType, TreeOK
<1>2. PICK how \in Moods : \E deaf \in Deaf :
        /\ IF how = Whole /\ deaf = {} THEN unsure' = unsure \cup Contested(x)
           ELSE unsure' = unsure \cup Unread(x)
        /\ \E list \in DraftLists :
             master' = [master EXCEPT !.at = "publish", !.path = Read(Climb[x], how),
                          !.proven = Proven(Read(Climb[x], how), how),
                          !.known = {c.key : c \in Active(x, Read(Climb[x], how), Nodes \ deaf,
                                       RootOf(Read(Climb[x], how), Proven(Read(Climb[x], how), how)))},
                          !.drafts = list]
  BY DEF ReadContext
<1> DEFINE path == Read(Climb[x], how)
           proven == Proven(path, how)
<1>3. PICK deaf \in Deaf :
        /\ IF how = Whole /\ deaf = {} THEN unsure' = unsure \cup Contested(x)
           ELSE unsure' = unsure \cup Unread(x)
        /\ \E list \in DraftLists :
             master' = [master EXCEPT !.at = "publish", !.path = path, !.proven = proven,
                          !.known = {c.key : c \in Active(x, path, Nodes \ deaf, RootOf(path, proven))},
                          !.drafts = list]
  BY <1>2
<1> DEFINE act == Active(x, path, Nodes \ deaf, RootOf(path, proven))
<1>4. PICK list \in DraftLists :
        master' = [master EXCEPT !.at = "publish", !.path = path, !.proven = proven,
                          !.known = {c.key : c \in act}, !.drafts = list]
  BY <1>3
<1>5. /\ master' = [at |-> "publish", issue |-> x, known |-> {c.key : c \in act}, path |-> path,
                    proven |-> proven, drafts |-> list, wrote |-> master.wrote, id |-> master.id]
  BY <1>1, <1>4 DEF MasterType
<1>6. /\ path \in Seq(Nodes) /\ ToSet(path) \subseteq ToSet(Climb[x])
      /\ path # <<>> => path[1] = x
  <2>1. Climb[x] \in Seq(Nodes) /\ Climb[x][1] = x
    BY <1>1, ClimbIs DEF IsPath
  <2> HIDE DEF x
  <2>. QED  BY <2>1, ReadIs
<1>7. proven \in BOOLEAN
  BY DEF Proven
<1>8. proven => path # <<>> /\ Last(path) = Root
  <2> HIDE DEF path
  <2>. QED  BY <1>6, ProvenIsRoot
<1>9. list \in Seq(Proposed)
  BY ProposedAre
<1> HIDE DEF path, proven, act
<1>10. MasterType' /\ master'.at = "publish"
  BY <1>1, <1>5, <1>6, <1>7, <1>9 DEF MasterType
<1>11. PathOK'
  BY <1>5, <1>6, <1>8 DEF PathOK
<1>12. \A k : Ruled(k)' = Ruled(k) /\ (OnRecord(Ruled(k))' <=> OnRecord(Ruled(k)))
  BY <1>1, <1>5 DEF Ruled, OnRecord, Decisions
<1>13. ASSUME NEW d \in Proposed, OnRecord(Ruled(d.key)), Ruled(d.key) \notin unsure'
       PROVE  d.key \in master'.known
  <2>1. CASE how = Whole /\ deaf = {}
    <3>1. PICK n \in Nodes : \E c \in Decisions(n) : c.id = Ruled(d.key)
      BY <1>13 DEF OnRecord
    <3>2. PICK c \in Decisions(n) : c.id = Ruled(d.key)
      BY <3>1
    <3>3. unsure' = unsure \cup Contested(x)
      BY <1>3, <2>1
    <3>4. c.id[1] = x /\ c.id[3] = d.key
      BY <3>2 DEF Ruled
    <3>5. c \in Binding(x)
      BY <1>1, <1>13, <3>2, <3>3, <3>4, OwnIsBinding
    <3>6. path = Climb[x] /\ RootOf(path, proven) = Root /\ Nodes \ deaf = Nodes
      BY <1>1, <2>1, ReadWhole DEF path, proven
    <3>7. act = Binding(x)
      BY <3>6 DEF act, Binding
    <3>8. c.key = d.key
      BY <3>2, <3>4 DEF LedgerInv, RecordsOK, RecordOK
    <3>. QED  BY <1>5, <3>5, <3>7, <3>8
  <2>2. CASE ~(how = Whole /\ deaf = {})
    <3>1. unsure' = unsure \cup Unread(x)
      BY <1>3, <2>2
    <3>2. Ruled(d.key) \in Unread(x)
      BY <1>13 DEF Ruled, Unread, Proposed
    <3>. QED  BY <1>13, <3>1, <3>2
  <2>. QED  BY <2>1, <2>2
<1>14. KnownOK'
  BY <1>12, <1>13 DEF KnownOK
<1>15. unsure \subseteq unsure'
  BY <1>3
<1>. QED  BY <1>1, <1>10, <1>11, <1>14, <1>15, QuietKeeps DEF LedgerInv, LedgerType


LEMMA PublishKeeps ==
  ASSUME TreeOK, LedgerInv, Publish
  PROVE  LedgerInv'
<1> DEFINE d == Head(master.drafts)
           x == master.issue
           c(n) == [kind |-> "decision", id |-> IdOf(d), key |-> d.key, scope |-> d.scope,
                    node |-> n, at |-> Clock, supersedes |-> <<>>]
<1>1. /\ master.at = "publish" /\ master.drafts # <<>> /\ UNCHANGED <<attempts, unsure>>
      /\ LedgerType /\ MasterType /\ x \in Workers
  BY DEF Publish, LedgerInv, LedgerType, MasterType
<1>2. d \in Proposed /\ Tail(master.drafts) \in Seq(Proposed)
  BY <1>1 DEF MasterType
<1>3. \/ master' = NoMaster /\ asked' = [asked EXCEPT ![x] = TRUE]
         /\ UNCHANGED <<thread, open, published>>
      \/ master' = [master EXCEPT !.drafts = Tail(@)] /\ UNCHANGED <<thread, open, published, asked>>
      \/ /\ ~Contradicts(d) /\ IdOf(d) \notin published[x]
         /\ \E n \in StorageNode(master.path, d) : \E times \in 1..2 : Post(n, c(n), times)
         /\ master' = [master EXCEPT !.at = "note", !.id = IdOf(d)]
         /\ UNCHANGED <<open, published, asked>>
  BY DEF Publish, Skip
<1> HIDE DEF d
<1>4. CASE master' = NoMaster /\ asked' = [asked EXCEPT ![x] = TRUE] /\ UNCHANGED <<thread, open, published>>
  <2>1. MasterType' /\ master'.at = "idle"
    BY <1>1, <1>4, NoMasterIs
  <2>2. PathOK' /\ KnownOK'
    BY <2>1 DEF PathOK, KnownOK
  <2>3. asked' \in [Workers -> BOOLEAN]
    BY <1>1, <1>4 DEF LedgerType
  <2>. QED  BY <1>1, <1>4, <2>1, <2>2, <2>3, QuietKeeps DEF LedgerInv, LedgerType
<1>5. CASE master' = [master EXCEPT !.drafts = Tail(@)] /\ UNCHANGED <<thread, open, published, asked>>
  <2>1. master' = [at |-> "publish", issue |-> x, known |-> master.known, path |-> master.path,
                   proven |-> master.proven, drafts |-> Tail(master.drafts), wrote |-> master.wrote,
                   id |-> master.id]
    BY <1>1, <1>5 DEF MasterType
  <2>2. MasterType' /\ PathOK'
    BY <1>1, <1>2, <2>1 DEF MasterType, LedgerInv, PathOK
  <2>3. \A k : Ruled(k)' = Ruled(k) /\ (OnRecord(Ruled(k))' <=> OnRecord(Ruled(k)))
    BY <1>1, <1>5, <2>1 DEF Ruled, OnRecord, Decisions
  <2>4. KnownOK'
    BY <1>1, <1>5, <2>1, <2>3 DEF LedgerInv, KnownOK
  <2>. QED  BY <1>1, <1>5, <2>2, <2>4, QuietKeeps DEF LedgerInv, LedgerType
<1>6. CASE /\ ~Contradicts(d) /\ IdOf(d) \notin published[x]
           /\ \E n \in StorageNode(master.path, d) : \E times \in 1..2 : Post(n, c(n), times)
           /\ master' = [master EXCEPT !.at = "note", !.id = IdOf(d)]
           /\ UNCHANGED <<open, published, asked>>
  <2>1. PICK n \in StorageNode(master.path, d) : \E times \in 1..2 : Post(n, c(n), times)
    BY <1>6
  <2>2. PICK times \in 1..2 : Post(n, c(n), times)
    BY <2>1
  <2>3. PICK r : r = c(n)
    OBVIOUS
  <2>4. /\ n \in Nodes /\ n \in ToSet(Climb[x])
        /\ d.scope = "issue" => n = x
        /\ d.scope = "initiative" => n = Root
    BY <1>1, <1>2, WhereIs
  <2>5. IdOf(d) = Ruled(d.key) /\ IdOf(d) \in Ids /\ IdOf(d)[1] = x /\ IdOf(d)[3] = d.key
    <3>1. IdOf(d) = <<x, attempts[x], d.key>> /\ attempts[x] \in Nat /\ d.key \in STRING
      BY <1>1, <1>2, ProposedAre DEF IdOf, LedgerType
    <3>. QED  BY <1>1, <3>1 DEF Ruled, Ids
  <2>6. r \in Records /\ r \in Comments /\ r.kind = "decision"
    <3>1. Clock \in Nat /\ d.key \in STRING /\ d.scope \in Scopes
      BY <1>1, <1>2, ClockIs, ProposedAre
    <3>2. r \in Records
      BY <2>3, <2>4, <2>5, <3>1 DEF Records
    <3>. QED  BY <3>2, CommentsAre
  <2>7. RecordOK(n, r) /\ r.id = Ruled(d.key)
    <3>1. Applies(r, x, Climb[x], Root)
      BY <2>3, <2>4 DEF Applies
    <3>. QED  BY <2>3, <2>5, <3>1 DEF RecordOK
  <2>8. Post(n, r, times)
    BY <2>2, <2>3
  <2> HIDE DEF c
  <2>9. /\ thread' \in [Nodes -> Seq(Comments)]
        /\ \A m \in Nodes : \A e \in Decisions(m)' :
             e \in Decisions(m) \/ (m = n /\ e = r /\ r.kind = "decision")
        /\ \A m \in Nodes : \A j \in 1..Len(thread'[m]) :
             \/ j \in 1..Len(thread[m]) /\ thread'[m][j] = thread[m][j]
             \/ j \notin 1..Len(thread[m]) /\ m = n /\ thread'[m][j] = r
    BY <1>1, <2>4, <2>6, <2>8, PostAdds
  <2>10. RecordsOK'
    <3>1. ASSUME NEW m \in Nodes, NEW e \in Decisions(m)' PROVE RecordOK(m, e)
      BY <2>7, <2>9 DEF LedgerInv, RecordsOK
    <3>. QED  BY <3>1 DEF RecordsOK, RecordOK, Applies
  <2>11. OnRecord(Ruled(d.key)) => Ruled(d.key) \in unsure
    <3>1. d.key \notin master.known /\ Ruled(d.key) \notin published[x]
      BY <1>6, <2>5 DEF Contradicts
    <3>. QED  BY <1>1, <1>2, <3>1 DEF LedgerInv, KnownOK
  <2>12. OneRecordPerRuling'
    <3> SUFFICES ASSUME NEW m \in Nodes, NEW e \in Decisions(m)', e.id[1] \in Workers, e.id \notin unsure,
                        NEW o \in Nodes, NEW f \in Decisions(o)', f.id = e.id
                 PROVE  f = e
      BY <1>1 DEF OneRecordPerRuling
    <3>1. CASE e \in Decisions(m) /\ f \in Decisions(o)
      BY <3>1 DEF LedgerInv, OneRecordPerRuling
    <3>2. CASE e = r /\ f \in Decisions(o)
      BY <2>7, <2>11, <3>2 DEF OnRecord
    <3>3. CASE e \in Decisions(m) /\ f = r
      BY <2>7, <2>11, <3>3 DEF OnRecord
    <3>. QED  BY <2>9, <3>1, <3>2, <3>3
  <2>13. master' = [at |-> "note", issue |-> x, known |-> master.known, path |-> master.path,
                    proven |-> master.proven, drafts |-> master.drafts, wrote |-> master.wrote,
                    id |-> Ruled(d.key)]
    BY <1>1, <1>6, <2>5 DEF MasterType
  <2>14. MasterType' /\ PathOK'
    BY <1>1, <2>13 DEF MasterType, LedgerInv, PathOK
  <2>15. KnownOK'
    <3>1. \A k : Ruled(k)' = Ruled(k)
      BY <1>1, <2>13 DEF Ruled
    <3>2. ASSUME NEW k \in Proposed, OnRecord(Ruled(k.key))'
          PROVE  OnRecord(Ruled(k.key)) \/ Ruled(k.key) = Ruled(d.key)
      BY <2>7, <2>9, <3>1, <3>2 DEF OnRecord
    <3>3. /\ master'.at = "note" /\ master'.id = Ruled(d.key) /\ master'.known = master.known
          /\ master'.issue = x /\ unsure' = unsure /\ published' = published
      <4>1. unsure' = unsure /\ published' = published
        BY <1>1, <1>6
      <4>. QED  BY <2>13, <4>1
    <3>4. ASSUME NEW k \in Proposed, OnRecord(Ruled(k.key))
          PROVE  \/ Ruled(k.key) \in unsure \/ k.key \in master.known
                 \/ Ruled(k.key) \in published[x]
      BY <1>1, <3>4 DEF LedgerInv, KnownOK
    <3>5. ASSUME NEW k \in Proposed, OnRecord(Ruled(k.key))'
          PROVE  \/ Ruled(k.key)' \in unsure' \/ k.key \in master'.known
                 \/ Ruled(k.key)' \in published'[master'.issue]
                 \/ master'.id = Ruled(k.key)'
      BY <3>1, <3>2, <3>3, <3>4, <3>5
    <3>. QED  BY <3>3, <3>5 DEF KnownOK
  <2>16. IndexOK'
    <3>1. \A j \in 1..Len(thread'[Root]) : thread'[Root][j].kind = "index" =>
            j \in 1..Len(thread[Root]) /\ thread[Root][j].kind = "index"
      BY <2>6, <2>9 DEF TreeOK
    <3>. QED  BY <3>1 DEF LedgerInv, IndexOK
  <2>. QED  BY <1>1, <1>6, <2>9, <2>10, <2>12, <2>14, <2>15, <2>16 DEF LedgerInv, LedgerType
<1>. QED  BY <1>3, <1>4, <1>5, <1>6

-----------------------------------------------------------------------------
(* What holds.                                                             *)

LEMMA LedgerStarts ==
  ASSUME TreeOK, LedgerInit
  PROVE  LedgerInv
<1>1. /\ thread = [n \in Nodes |-> <<>>] /\ master = NoMaster
      /\ attempts = [x \in Workers |-> 0] /\ open = [x \in Workers |-> FALSE]
      /\ published = [x \in Workers |-> {}] /\ asked = [x \in Workers |-> FALSE]
  BY DEF LedgerInit
<1>2. thread \in [Nodes -> Seq(Comments)] /\ \A n \in Nodes : Len(thread[n]) = 0
  BY <1>1
<1>3. \A n \in Nodes : Decisions(n) = {}
  BY <1>2 DEF Decisions
<1>4. MasterType /\ master.at = "idle"
  <2>1. <<>> \in Seq(Nodes) /\ <<>> \in Seq(Proposed)
    OBVIOUS
  <2>. QED  BY <1>1, <2>1 DEF MasterType, NoMaster
<1>5. LedgerType
  BY <1>1, <1>2, <1>4 DEF LedgerType
<1>6. IndexOK
  BY <1>2 DEF IndexOK, TreeOK
<1>. QED
  BY <1>3, <1>4, <1>5, <1>6 DEF LedgerInv, RecordsOK, OneRecordPerRuling, PathOK, KnownOK

LEMMA LedgerStep ==
  ASSUME TreeOK, LedgerInv, [LedgerNext]_ledgerVars
  PROVE  LedgerInv'
<1>1. CASE UNCHANGED ledgerVars
  <2>1. \A n \in Nodes : Decisions(n)' = Decisions(n)
    BY <1>1 DEF ledgerVars, Decisions
  <2>2. MasterType' /\ PathOK'
    BY <1>1 DEF ledgerVars, LedgerInv, LedgerType, MasterType, PathOK
  <2>3. KnownOK'
    BY <1>1, <2>1 DEF ledgerVars, LedgerInv, KnownOK, Ruled, OnRecord
  <2>. QED  BY <1>1, <2>2, <2>3, QuietKeeps DEF ledgerVars, LedgerInv, LedgerType
<1>2. CASE LedgerNext
  BY <1>2, OpenKeeps, ReadKeeps, PublishKeeps, NoteKeeps, SyncKeeps, LetGoKeeps, SupersedeKeeps,
     SpoilKeeps, AnsweredKeeps DEF LedgerNext
<1>. QED  BY <1>1, <1>2

(* The ledger's invariant.                                                 *)
THEOREM LedgerStands == TreeOK /\ LedgerSpec => []LedgerInv
<1> SUFFICES ASSUME TreeOK PROVE LedgerSpec => []LedgerInv
  OBVIOUS
<1>1. LedgerInit => LedgerInv
  BY LedgerStarts
<1>2. LedgerInv /\ [LedgerNext]_ledgerVars => LedgerInv'
  BY LedgerStep
<1>. QED  BY <1>1, <1>2, PTL DEF LedgerSpec

(* Through crashes, re-adoptions, partial answers and people's edits, an   *)
(* intervention leaves one record per key, unless a session that took it   *)
(* up could not tell (engine.ts, publishDecisions).                        *)
THEOREM RulesOnce == TreeOK /\ LedgerSpec => []OneRecordPerRuling
<1> SUFFICES ASSUME TreeOK PROVE LedgerSpec => []OneRecordPerRuling
  OBVIOUS
<1>1. LedgerInv => OneRecordPerRuling
  BY DEF LedgerInv
<1>. QED  BY <1>1, LedgerStands, PTL

(* The fold is blind to the order of the comments, a record reaches the    *)
(* issue it was ruled on, and the root has one index (fold.ts, ledger.ts,  *)
(* index-comment.ts).                                                      *)
THEOREM ReadersAgree == TreeOK /\ LedgerSpec => [](FoldIsOrderless /\ WritesReachHome /\ OneIndex)
<1> SUFFICES ASSUME TreeOK PROVE LedgerSpec => [](FoldIsOrderless /\ WritesReachHome /\ OneIndex)
  OBVIOUS
<1>1. LedgerInv => FoldIsOrderless
  BY BindingIs DEF LedgerInv, FoldIsOrderless, TreeOK
<1>2. LedgerInv => WritesReachHome
  BY DEF LedgerInv, RecordsOK, RecordOK, WritesReachHome
<1>3. LedgerInv => OneIndex
  <2> SUFFICES ASSUME LedgerInv PROVE OneIndex
    OBVIOUS
  <2> DEFINE all == {k \in 1..Len(thread[Root]) : thread[Root][k].kind = "index"}
  <2>1. all = {} \/ \E k : all = {k}
    <3>1. \A j, k \in all : j = k
      BY DEF LedgerInv, IndexOK
    <3> HIDE DEF all
    <3>2. ASSUME NEW k \in all PROVE all = {k}
      BY <3>1
    <3>. QED  BY <3>2
  <2> HIDE DEF all
  <2>2. CASE all = {}
    BY <2>2, FS_EmptySet DEF OneIndex, all
  <2>3. ASSUME NEW k, all = {k} PROVE OneIndex
    <3>1. Cardinality({k}) = 1
      BY FS_Singleton
    <3>2. Cardinality(all) = 1
      BY <2>3, <3>1
    <3>. QED  BY <3>2 DEF OneIndex, all
  <2>. QED  BY <2>1, <2>2, <2>3
<1>. QED  BY <1>1, <1>2, <1>3, LedgerStands, PTL


-----------------------------------------------------------------------------
(* Loops: a count up to N reaches what holds at 0 and is handed on, and a  *)
(* function defined along it exists.                                       *)

LEMMA CountUp ==
  ASSUME NEW N \in Nat, NEW P, 0 \in P, \A k \in 1..N : k - 1 \in P => k \in P
  PROVE  \A k \in 0..N : k \in P
<1> DEFINE Z == {k \in Nat : k \in 0..N /\ k \notin P}
<1>1. ASSUME Z # {} PROVE FALSE
  <2>1. PICK m \in Z : \A n \in Z : m <= n
    <3>1. Z \in SUBSET Nat
      OBVIOUS
    <3> HIDE DEF Z
    <3>. QED  BY <1>1, <3>1, LeastOf
  <2>2. m \in 1..N /\ m - 1 \in 0..N /\ m - 1 \in Nat
    BY <2>1
  <2>3. m - 1 \in P
    BY <2>1, <2>2
  <2>. QED  BY <2>1, <2>2, <2>3
<1>. QED  BY <1>1

\* The functions that start at b and go on by G.
Loops(N, X, b, G) == {f \in [0..N -> X] : f[0] = b /\ \A k \in 1..N : f[k] = G[<<k, f[k - 1]>>]}

LEMMA LoopRuns ==
  ASSUME NEW N \in Nat, NEW X, NEW b \in X, NEW G \in [(1..N) \X X -> X]
  PROVE  \E f : f \in Loops(N, X, b, G)
<1> DEFINE P == {n \in 0..N : \E f \in [0..n -> X] :
                   f[0] = b /\ \A k \in 1..n : f[k] = G[<<k, f[k - 1]>>]}
<1>1. 0 \in P
  <2>1. [k \in 0..0 |-> b] \in [0..0 -> X] /\ [k \in 0..0 |-> b][0] = b
    OBVIOUS
  <2>2. 0 \in 0..N /\ 1..0 = {}
    OBVIOUS
  <2>. QED  BY <2>1, <2>2
<1>2. ASSUME NEW n \in 1..N, n - 1 \in P PROVE n \in P
  <2>1. PICK f \in [0..(n - 1) -> X] : f[0] = b /\ \A k \in 1..(n - 1) : f[k] = G[<<k, f[k - 1]>>]
    BY <1>2
  <2> DEFINE g == [k \in 0..n |-> IF k = n THEN G[<<n, f[n - 1]>>] ELSE f[k]]
  <2>2. G[<<n, f[n - 1]>>] \in X
    BY <2>1
  <2>3. g \in [0..n -> X]
    BY <2>1, <2>2
  <2>4. g[0] = b
    BY <2>1
  <2>5. ASSUME NEW k \in 1..n PROVE g[k] = G[<<k, g[k - 1]>>]
    <3>1. g[k - 1] = f[k - 1]
      OBVIOUS
    <3>2. CASE k = n
      <4>1. g[k] = G[<<n, f[n - 1]>>]
        BY <3>2
      <4> HIDE DEF g
      <4>. QED  BY <3>1, <3>2, <4>1
    <3>3. CASE k # n
      <4>1. k \in 1..(n - 1) /\ g[k] = f[k]
        BY <3>3
      <4>. QED  BY <2>1, <3>1, <4>1
    <3>. QED  BY <3>2, <3>3
  <2>6. n \in 0..N
    OBVIOUS
  <2> HIDE DEF g
  <2>. QED  BY <2>3, <2>4, <2>5, <2>6
<1>3. N \in P
  <2> HIDE DEF P
  <2>1. \A k \in 0..N : k \in P
    BY <1>1, <1>2, CountUp
  <2>. QED  BY <2>1
<1>4. PICK f \in [0..N -> X] : f[0] = b /\ \A k \in 1..N : f[k] = G[<<k, f[k - 1]>>]
  BY <1>3
<1>5. f \in Loops(N, X, b, G)
  BY <1>4 DEF Loops
<1>. QED  BY <1>5

-----------------------------------------------------------------------------
(* The context packet.                                                     *)

LEMMA SumIs ==
  ASSUME NEW s \in Seq(Nat)
  PROVE  \E u \in [0..Len(s) -> Nat] : /\ u[0] = 0 /\ Sum(s) = u[Len(s)]
                                       /\ \A k \in 1..Len(s) : u[k] = u[k - 1] + s[k]
<1> DEFINE N == Len(s)
           G == [p \in (1..N) \X Nat |-> p[2] + s[p[1]]]
           Step(f) == [k \in 0..N |-> IF k = 0 THEN 0 ELSE f[k - 1] + s[k]]
           u == CHOOSE f : f = Step(f)
<1>1. N \in Nat /\ G \in [(1..N) \X Nat -> Nat]
  OBVIOUS
<1>2. PICK f \in [0..N -> Nat] : f[0] = 0 /\ \A k \in 1..N : f[k] = G[<<k, f[k - 1]>>]
  <2>1. 0 \in Nat
    OBVIOUS
  <2> HIDE DEF G, N
  <2>2. \E f : f \in Loops(N, Nat, 0, G)
    BY <1>1, <2>1, LoopRuns
  <2>. QED  BY <2>2 DEF Loops
<1>3. f = Step(f)
  <2>1. ASSUME NEW k \in 1..N PROVE f[k] = f[k - 1] + s[k]
    <3>1. k - 1 \in 0..N /\ s[k] \in Nat
      BY <1>1
    <3>2. f[k - 1] \in Nat
      BY <3>1
    <3>3. G[<<k, f[k - 1]>>] = f[k - 1] + s[k]
      BY <3>2
    <3>. QED  BY <1>2, <3>3
  <2> HIDE DEF G
  <2>. QED  BY <1>2, <2>1
<1>4. u = Step(u)
  <2> HIDE DEF Step
  <2>. QED  BY <1>3
<1>6. Sum(s) = u[N]
  BY DEF Sum
<1> HIDE DEF u, G
<1>5. u[0] = 0 /\ \A k \in 1..N : u[k] = u[k - 1] + s[k]
  <2>1. \A k \in 0..N : u[k] = IF k = 0 THEN 0 ELSE u[k - 1] + s[k]
    BY <1>4
  <2>. QED  BY <1>1, <2>1
<1>7. \A k \in 0..N : u[k] \in Nat
  <2> DEFINE P == {k \in 0..N : u[k] \in Nat}
  <2>1. 0 \in P
    BY <1>1, <1>5
  <2>2. ASSUME NEW k \in 1..N, k - 1 \in P PROVE k \in P
    <3>1. u[k] = u[k - 1] + s[k] /\ u[k - 1] \in Nat /\ s[k] \in Nat
      BY <1>5, <2>2
    <3>. QED  BY <3>1
  <2>3. \A k \in 0..N : k \in P
    <3> HIDE DEF P, N
    <3>. QED  BY <1>1, <2>1, <2>2, CountUp
  <2>. QED  BY <2>3
<1>8. u \in [0..N -> Nat]
  BY <1>4, <1>7
<1>. QED  BY <1>5, <1>6, <1>8

LEMMA LowIs ==
  ASSUME NEW a \in Nat, NEW b \in Nat
  PROVE  Low(a, b) \in 0..b
BY DEF Low

\* A node's text fits, and is whole unless it says it is cut.
LEMMA FitIs ==
  ASSUME NEW body \in Nat, NEW sizes \in Seq(Nat), NEW left \in Nat
  PROVE  /\ Fit(body, sizes, left).chars \in 0..left
         /\ Fit(body, sizes, left).cut \in BOOLEAN
         /\ ~Fit(body, sizes, left).cut => Fit(body, sizes, left).chars = body + Sum(sizes)
<1> DEFINE N == Len(sizes)
           X == 0..left
           G == [p \in (1..N) \X X |-> p[2] - Low(sizes[N - p[1] + 1], p[2])]
           Step(f) == [k \in 0..N |-> IF k = 0 THEN left - Low(body, left)
                                      ELSE LET r == f[k - 1] IN r - Low(sizes[N - k + 1], r)]
           u == CHOOSE f : f = Step(f)
<1>0. N \in Nat /\ Sum(sizes) \in Nat /\ left - Low(body, left) \in X
  <2>1. Sum(sizes) \in Nat
    BY SumIs
  <2>2. Low(body, left) \in 0..left
    BY LowIs
  <2>. QED  BY <2>1, <2>2
<1>1. G \in [(1..N) \X X -> X]
  <2>1. ASSUME NEW k \in 1..N, NEW r \in X PROVE r - Low(sizes[N - k + 1], r) \in X
    <3>1. N - k + 1 \in 1..N
      BY <1>0
    <3>2. sizes[N - k + 1] \in Nat /\ r \in Nat
      BY <3>1
    <3>3. Low(sizes[N - k + 1], r) \in 0..r
      BY <3>2, LowIs
    <3>. QED  BY <3>3
  <2>. QED  BY <2>1
<1>2. PICK f \in [0..N -> X] :
        f[0] = left - Low(body, left) /\ \A k \in 1..N : f[k] = G[<<k, f[k - 1]>>]
  <2> HIDE DEF G, N, X
  <2>1. \E f : f \in Loops(N, X, left - Low(body, left), G)
    BY <1>0, <1>1, LoopRuns
  <2>. QED  BY <2>1 DEF Loops
<1>3. f = Step(f)
  <2>1. ASSUME NEW k \in 1..N PROVE f[k] = f[k - 1] - Low(sizes[N - k + 1], f[k - 1])
    <3>1. f[k - 1] \in X
      OBVIOUS
    <3>. QED  BY <1>2, <3>1
  <2> HIDE DEF G, X
  <2>. QED  BY <1>2, <2>1
<1>4. u = Step(u)
  <2> HIDE DEF Step
  <2>. QED  BY <1>3
<1>5. Fit(body, sizes, left) =
        IF body + Sum(sizes) <= left THEN [chars |-> body + Sum(sizes), cut |-> FALSE]
        ELSE [chars |-> left - u[N], cut |-> TRUE]
  BY DEF Fit
<1> HIDE DEF u, G
<1>6. u[N] \in X
  <2> DEFINE P == {k \in 0..N : u[k] \in X}
  <2>1. 0 \in P
    BY <1>0, <1>4
  <2>2. ASSUME NEW k \in 1..N, k - 1 \in P PROVE k \in P
    <3>1. N - k + 1 \in 1..N
      BY <1>0
    <3>2. sizes[N - k + 1] \in Nat /\ u[k - 1] \in Nat /\ u[k - 1] \in X
      BY <2>2, <3>1
    <3>3. u[k] = u[k - 1] - Low(sizes[N - k + 1], u[k - 1])
      <4>1. \A i \in 0..N : u[i] = IF i = 0 THEN left - Low(body, left)
                                   ELSE u[i - 1] - Low(sizes[N - i + 1], u[i - 1])
        BY <1>4
      <4>. QED  BY <4>1
    <3>4. Low(sizes[N - k + 1], u[k - 1]) \in 0..u[k - 1]
      BY <3>2, LowIs
    <3>. QED  BY <3>2, <3>3, <3>4
  <2>3. \A k \in 0..N : k \in P
    <3> HIDE DEF P, N
    <3>. QED  BY <1>0, <2>1, <2>2, CountUp
  <2>. QED  BY <1>0, <2>3
<1>. QED  BY <1>0, <1>5, <1>6

Packs == [chars : Nat, mark : {"whole", "trimmed", "dropped"}]

LEMMA SizesAre ==
  ASSUME LedgerType, NEW n \in Nodes
  PROVE  Sizes(n) \in Seq(Nat) /\ Len(Sizes(n)) = Len(thread[n])
<1>1. Len(thread[n]) \in Nat
  BY DEF LedgerType
<1>2. \A k \in 1..Len(thread[n]) : CharsOf(thread[n][k]) \in Nat
  BY DEF CharsOf
<1>. QED  BY <1>1, <1>2 DEF Sizes

LEMMA NewestIs ==
  ASSUME NEW s \in Seq(Nat), NEW m \in Nat
  PROVE  Newest(s, m) \in Seq(Nat) /\ (Len(s) <= m => Newest(s, m) = s)
<1>1. CASE Len(s) <= m
  BY <1>1 DEF Newest
<1>2. CASE ~(Len(s) <= m)
  <2>1. Len(s) - m + 1 \in 1..(Len(s) + 1)
    BY <1>2
  <2>2. SubSeq(s, Len(s) - m + 1, Len(s)) \in Seq(Nat)
    BY <2>1
  <2>. QED  BY <1>2, <2>2 DEF Newest
<1>. QED  BY <1>1, <1>2

LEMMA PackNodeIs ==
  ASSUME BudgetOK, LedgerType, NEW n \in Nodes, NEW left \in Nat
  PROVE  /\ PackNode(n, left) \in Packs
         /\ PackNode(n, left).chars \in 0..left
         /\ PackNode(n, left).mark = "whole" => PackNode(n, left).chars = BodyOf[n] + Sum(Sizes(n))
         /\ PackNode(n, left).mark = "dropped" <=> left = 0
<1> DEFINE sizes == Newest(Sizes(n), MaxPerNode)
           f == Fit(BodyOf[n], sizes, left)
<1>1. BodyOf[n] \in Nat /\ MaxPerNode \in Nat
  BY DEF BudgetOK
<1>2. sizes \in Seq(Nat) /\ (Len(thread[n]) <= MaxPerNode => sizes = Sizes(n))
  BY <1>1, SizesAre, NewestIs
<1>3. f.chars \in 0..left /\ f.cut \in BOOLEAN /\ (~f.cut => f.chars = BodyOf[n] + Sum(sizes))
  <2> HIDE DEF sizes
  <2>. QED  BY <1>1, <1>2, FitIs
<1>4. PackNode(n, left) = IF left = 0 THEN [chars |-> 0, mark |-> "dropped"]
                          ELSE Marked(f, f.cut \/ Len(thread[n]) > MaxPerNode)
  BY DEF PackNode
<1>6. Len(thread[n]) \in Nat
  BY DEF LedgerType
<1> HIDE DEF f, sizes
<1>5. CASE left = 0
  BY <1>4, <1>5 DEF Packs
<1>7. CASE left # 0
  <2> DEFINE cut == f.cut \/ Len(thread[n]) > MaxPerNode
  <2>1. PackNode(n, left) = [chars |-> f.chars, mark |-> IF cut THEN "trimmed" ELSE "whole"]
    BY <1>4, <1>7 DEF Marked
  <2>2. PackNode(n, left).chars = f.chars /\ PackNode(n, left).mark = IF cut THEN "trimmed" ELSE "whole"
    BY <2>1
  <2>3. ~cut => f.chars = BodyOf[n] + Sum(Sizes(n))
    BY <1>1, <1>2, <1>3, <1>6
  <2>4. PackNode(n, left) \in Packs
    BY <1>3, <2>1 DEF Packs
  <2> HIDE DEF cut
  <2>5. PackNode(n, left).mark # "dropped"
    BY <2>2
  <2>6. PackNode(n, left).mark = "whole" => PackNode(n, left).chars = BodyOf[n] + Sum(Sizes(n))
    BY <2>2, <2>3
  <2>. QED  BY <1>3, <1>7, <2>2, <2>4, <2>5, <2>6
<1>. QED  BY <1>5, <1>7

\* What packContextPacket holds once it has packed one node more.
NextPack(n, p) == [left |-> p.left - PackNode(n, p.left).chars, nodes |-> Append(p.nodes, PackNode(n, p.left))]
PackStates == [left : 0..CharBudget, nodes : Seq(Packs)]

LEMMA NextPackIs ==
  ASSUME BudgetOK, LedgerType, NEW n \in Nodes, NEW p \in PackStates
  PROVE  /\ NextPack(n, p) \in PackStates
         /\ NextPack(n, p).left = p.left - PackNode(n, p.left).chars
         /\ NextPack(n, p).nodes = Append(p.nodes, PackNode(n, p.left))
<1>1. p.left \in 0..CharBudget /\ p.left \in Nat /\ p.nodes \in Seq(Packs)
  BY DEF PackStates, BudgetOK
<1>2. PackNode(n, p.left) \in Packs /\ PackNode(n, p.left).chars \in 0..p.left
  BY <1>1, PackNodeIs
<1>3. p.left - PackNode(n, p.left).chars \in 0..CharBudget
  BY <1>1, <1>2 DEF BudgetOK
<1>4. Append(p.nodes, PackNode(n, p.left)) \in Seq(Packs)
  BY <1>1, <1>2
<1>. QED  BY <1>3, <1>4 DEF NextPack, PackStates

\* The packet, and what is left of the budget before each node and at the end.
LEMMA PackedIs ==
  ASSUME BudgetOK, LedgerType, NEW path \in Seq(Nodes)
  PROVE  \E left \in [0..Len(path) -> 0..CharBudget] :
           /\ Packed(path) \in Seq(Packs) /\ Len(Packed(path)) = Len(path)
           /\ left[0] = CharBudget
           /\ \A k \in 1..Len(path) : /\ Packed(path)[k] = PackNode(path[k], left[k - 1])
                                      /\ left[k] = left[k - 1] - Packed(path)[k].chars
<1> DEFINE N == Len(path)
           X == PackStates
           b == [left |-> CharBudget, nodes |-> <<>>]
           G == [p \in (1..N) \X X |-> NextPack(path[p[1]], p[2])]
           Step(f) == [k \in 0..N |-> IF k = 0 THEN b
                                      ELSE LET p == f[k - 1]
                                               q == PackNode(path[k], p.left)
                                           IN [left |-> p.left - q.chars, nodes |-> Append(p.nodes, q)]]
           u == CHOOSE f : f = Step(f)
<1>1. N \in Nat /\ b \in X /\ \A k \in 1..N : path[k] \in Nodes
  <2>1. <<>> \in Seq(Packs)
    OBVIOUS
  <2>. QED  BY <2>1 DEF PackStates, BudgetOK
<1>2. G \in [(1..N) \X X -> X]
  <2>1. ASSUME NEW k \in 1..N, NEW p \in X PROVE NextPack(path[k], p) \in X
    BY <1>1, NextPackIs
  <2> HIDE DEF X
  <2>. QED  BY <2>1
<1>3. PICK f \in [0..N -> X] : f[0] = b /\ \A k \in 1..N : f[k] = G[<<k, f[k - 1]>>]
  <2> HIDE DEF G, N, X, b
  <2>1. \E f : f \in Loops(N, X, b, G)
    BY <1>1, <1>2, LoopRuns
  <2>. QED  BY <2>1 DEF Loops
<1>4. f = Step(f)
  <2>1. ASSUME NEW k \in 1..N PROVE f[k] = NextPack(path[k], f[k - 1])
    <3>1. f[k - 1] \in X
      OBVIOUS
    <3> HIDE DEF X
    <3>. QED  BY <1>3, <3>1
  <2> HIDE DEF G, X, b
  <2>2. \A k \in 0..N : f[k] = IF k = 0 THEN b ELSE NextPack(path[k], f[k - 1])
    <3>1. \A k \in 0..N : k = 0 \/ k \in 1..N
      BY <1>1
    <3>. QED  BY <1>3, <2>1, <3>1
  <2>3. f = [k \in 0..N |-> IF k = 0 THEN b ELSE NextPack(path[k], f[k - 1])]
    BY <1>3, <2>2
  <2>. QED  BY <2>3 DEF NextPack
<1>5. u = Step(u)
  <2> HIDE DEF Step
  <2>. QED  BY <1>4
<1>6. Packed(path) = u[N].nodes
  BY DEF Packed
<1> HIDE DEF u, G
<1>7. u[0] = b /\ \A k \in 1..N : u[k] = NextPack(path[k], u[k - 1])
  <2>1. \A k \in 0..N : u[k] = IF k = 0 THEN b ELSE NextPack(path[k], u[k - 1])
    <3> HIDE DEF b
    <3>. QED  BY <1>5 DEF NextPack
  <2> HIDE DEF b
  <2>2. 0 \in 0..N /\ \A k \in 1..N : k \in 0..N /\ k # 0
    BY <1>1
  <2>. QED  BY <2>1, <2>2
<1>8. \A k \in 0..N : u[k] \in X
  <2> DEFINE P == {k \in 0..N : u[k] \in X}
  <2>1. 0 \in P
    BY <1>1, <1>7
  <2>2. ASSUME NEW k \in 1..N, k - 1 \in P PROVE k \in P
    BY <1>1, <1>7, <2>2, NextPackIs
  <2>3. \A k \in 0..N : k \in P
    <3> HIDE DEF P, N
    <3>. QED  BY <1>1, <2>1, <2>2, CountUp
  <2>. QED  BY <2>3
<1>9. ASSUME NEW k \in 1..N
      PROVE  /\ u[k].left = u[k - 1].left - PackNode(path[k], u[k - 1].left).chars
             /\ u[k].nodes = Append(u[k - 1].nodes, PackNode(path[k], u[k - 1].left))
  <2>1. k - 1 \in 0..N /\ u[k - 1] \in X /\ path[k] \in Nodes
    BY <1>1, <1>8
  <2> HIDE DEF N, X
  <2>2. /\ NextPack(path[k], u[k - 1]).left = u[k - 1].left - PackNode(path[k], u[k - 1].left).chars
        /\ NextPack(path[k], u[k - 1]).nodes = Append(u[k - 1].nodes, PackNode(path[k], u[k - 1].left))
    BY <2>1, NextPackIs DEF X
  <2>. QED  BY <1>7, <2>2
<1> DEFINE left == [k \in 0..N |-> u[k].left]
<1>10. \A k \in 0..N : u[k].left \in 0..CharBudget /\ u[k].nodes \in Seq(Packs)
  BY <1>8 DEF PackStates
<1>11. \A k \in 0..N : /\ Len(u[k].nodes) = k
                       /\ \A j \in 1..k : u[k].nodes[j] = PackNode(path[j], u[j - 1].left)
  <2> DEFINE P == {k \in 0..N : /\ Len(u[k].nodes) = k
                                /\ \A j \in 1..k : u[k].nodes[j] = PackNode(path[j], u[j - 1].left)}
  <2>1. 0 \in P
    BY <1>1, <1>7
  <2>2. ASSUME NEW k \in 1..N, k - 1 \in P PROVE k \in P
    <3> DEFINE s == u[k - 1].nodes
               q == PackNode(path[k], u[k - 1].left)
    <3>1. k - 1 \in 0..N /\ s \in Seq(Packs) /\ u[k].nodes = Append(s, q)
      BY <1>1, <1>9, <1>10
    <3>2. Len(s) = k - 1 /\ \A j \in 1..(k - 1) : s[j] = PackNode(path[j], u[j - 1].left)
      BY <2>2
    <3> HIDE DEF s
    <3>3. Len(Append(s, q)) = k /\ Append(s, q)[k] = q /\ \A j \in 1..(k - 1) : Append(s, q)[j] = s[j]
      BY <3>1, <3>2
    <3>4. \A j \in 1..k : Append(s, q)[j] = PackNode(path[j], u[j - 1].left)
      <4>1. \A j \in 1..k : j = k \/ j \in 1..(k - 1)
        OBVIOUS
      <4>. QED  BY <3>2, <3>3, <4>1
    <3> HIDE DEF q
    <3>5. k \in 0..N /\ Len(u[k].nodes) = k
      BY <1>1, <3>1, <3>3
    <3>6. \A j \in 1..k : u[k].nodes[j] = PackNode(path[j], u[j - 1].left)
      BY <3>1, <3>4
    <3>. QED  BY <3>5, <3>6
  <2>3. \A k \in 0..N : k \in P
    <3> HIDE DEF P, N
    <3>. QED  BY <1>1, <2>1, <2>2, CountUp
  <2>. QED  BY <2>3
<1>12. left \in [0..N -> 0..CharBudget] /\ left[0] = CharBudget
  BY <1>1, <1>7, <1>10
<1>13. Packed(path) \in Seq(Packs) /\ Len(Packed(path)) = N
  BY <1>1, <1>6, <1>10, <1>11
<1>14. ASSUME NEW k \in 1..N
       PROVE  /\ Packed(path)[k] = PackNode(path[k], left[k - 1])
              /\ left[k] = left[k - 1] - Packed(path)[k].chars
  <2>1. left[k - 1] = u[k - 1].left /\ left[k] = u[k].left
    OBVIOUS
  <2>2. Packed(path)[k] = PackNode(path[k], u[k - 1].left)
    BY <1>1, <1>6, <1>11
  <2>. QED  BY <1>9, <2>1, <2>2
<1> HIDE DEF left
<1>. QED  BY <1>12, <1>13, <1>14

\* Nothing of what is packed is more than the budget, and what finds none left leaves none.
LEMMA PackedFits ==
  ASSUME BudgetOK, LedgerType, NEW path \in Seq(Nodes)
  PROVE  LET p == Packed(path)
         IN /\ Sum([k \in 1..Len(p) |-> p[k].chars]) <= CharBudget
            /\ \A k \in 1..Len(p) :
                 p[k].mark = "whole" => p[k].chars = BodyOf[path[k]] + Sum(Sizes(path[k]))
            /\ \A k \in 1..Len(p) : \A j \in 1..(k - 1) : p[j].mark = "dropped" => p[k].mark = "dropped"
<1> DEFINE N == Len(path)
           p == Packed(path)
           s == [k \in 1..Len(p) |-> p[k].chars]
<1>1. PICK left \in [0..N -> 0..CharBudget] :
        /\ p \in Seq(Packs) /\ Len(p) = N
        /\ left[0] = CharBudget
        /\ \A k \in 1..N : p[k] = PackNode(path[k], left[k - 1]) /\ left[k] = left[k - 1] - p[k].chars
  BY PackedIs
<1>2. N \in Nat /\ CharBudget \in Nat /\ \A k \in 1..N : path[k] \in Nodes
  BY DEF BudgetOK
<1>3. \A k \in 0..N : left[k] \in Nat /\ left[k] <= CharBudget
  BY <1>2
<1> HIDE DEF p
<1>4. ASSUME NEW k \in 1..N
      PROVE  /\ p[k].chars \in 0..left[k - 1] /\ (p[k].mark = "dropped" <=> left[k - 1] = 0)
             /\ p[k].mark = "whole" => p[k].chars = BodyOf[path[k]] + Sum(Sizes(path[k]))
  <2>1. left[k - 1] \in Nat
    BY <1>2, <1>3
  <2>. QED  BY <1>1, <1>2, <2>1, PackNodeIs
<1>5. s \in Seq(Nat) /\ Len(s) = N /\ \A k \in 1..N : s[k] = p[k].chars
  <2>1. \A k \in 1..N : p[k].chars \in Nat
    BY <1>2, <1>3, <1>4
  <2>. QED  BY <1>1, <1>2, <2>1
<1> HIDE DEF s
<1>6. Sum(s) <= CharBudget
  <2>1. PICK u \in [0..N -> Nat] : u[0] = 0 /\ Sum(s) = u[N] /\ \A k \in 1..N : u[k] = u[k - 1] + s[k]
    BY <1>5, SumIs
  <2> DEFINE P == {k \in 0..N : u[k] + left[k] = CharBudget}
  <2>2. 0 \in P
    BY <1>1, <1>2, <2>1
  <2>3. ASSUME NEW k \in 1..N, k - 1 \in P PROVE k \in P
    <3>1. u[k - 1] + left[k - 1] = CharBudget /\ k \in 0..N /\ k - 1 \in 0..N
      BY <1>2, <2>3
    <3>2. u[k] = u[k - 1] + s[k] /\ left[k] = left[k - 1] - s[k]
      BY <1>1, <1>5, <2>1
    <3>3. u[k - 1] \in Nat /\ left[k - 1] \in Nat
      BY <1>3, <3>1
    <3>4. s[k] \in Nat
      BY <1>5
    <3>. QED  BY <3>1, <3>2, <3>3, <3>4
  <2>4. \A k \in 0..N : k \in P
    <3> HIDE DEF P, N
    <3>. QED  BY <1>2, <2>2, <2>3, CountUp
  <2>5. u[N] + left[N] = CharBudget /\ left[N] \in Nat /\ u[N] \in Nat
    BY <1>2, <1>3, <2>1, <2>4
  <2>. QED  BY <2>1, <2>5
<1>7. ASSUME NEW j \in 1..N, p[j].mark = "dropped" PROVE \A k \in j..N : p[k].mark = "dropped"
  <2> DEFINE P == {k \in 0..N : k >= j => left[k] = 0}
  <2>1. 0 \in P
    BY <1>2
  <2>2. ASSUME NEW k \in 1..N, k - 1 \in P PROVE k \in P
    <3>1. CASE k < j
      BY <1>2, <3>1
    <3>2. CASE k >= j
      <4>1. left[k - 1] = 0
        BY <1>4, <1>7, <2>2, <3>2
      <4>2. p[k].chars = 0 /\ left[k] = left[k - 1] - p[k].chars
        BY <1>1, <1>4, <4>1
      <4>. QED  BY <4>1, <4>2
    <3>. QED  BY <3>1, <3>2
  <2>3. \A k \in 0..N : k \in P
    <3> HIDE DEF P, N
    <3>. QED  BY <1>2, <2>1, <2>2, CountUp
  <2>4. ASSUME NEW k \in j..N PROVE p[k].mark = "dropped"
    <3>1. CASE k = j
      BY <1>7, <3>1
    <3>2. CASE k # j
      <4>1. k \in 1..N /\ k - 1 \in 0..N /\ k - 1 >= j
        BY <1>2, <3>2
      <4>2. left[k - 1] = 0
        BY <2>3, <4>1
      <4>. QED  BY <1>4, <4>1, <4>2
    <3>. QED  BY <3>1, <3>2
  <2>. QED  BY <2>4
<1>8. \A k \in 1..Len(p) : \A j \in 1..(k - 1) : p[j].mark = "dropped" => p[k].mark = "dropped"
  <2> SUFFICES ASSUME NEW k \in 1..N, NEW j \in 1..(k - 1), p[j].mark = "dropped"
               PROVE  p[k].mark = "dropped"
    BY <1>1
  <2>1. j \in 1..N /\ k \in j..N
    BY <1>2
  <2>. QED  BY <1>7, <2>1
<1>9. \A k \in 1..Len(p) : p[k].mark = "whole" => p[k].chars = BodyOf[path[k]] + Sum(Sizes(path[k]))
  BY <1>1, <1>4
<1>. QED  BY <1>6, <1>8, <1>9 DEF p, s

(* packContextPacket, whatever the tree, the budgets and the comments: the *)
(* packet is within its budget, and a text that is not all there says so.  *)
THEOREM PacketsAreHonest == TreeOK /\ BudgetOK /\ LedgerSpec => []PacketIsHonest
<1> SUFFICES ASSUME TreeOK, BudgetOK PROVE LedgerSpec => []PacketIsHonest
  OBVIOUS
<1>1. LedgerInv => PacketIsHonest
  <2> SUFFICES ASSUME LedgerInv, NEW x \in Workers
               PROVE  LET path == Climb[x]
                          p == Packed(path)
                          all(n) == BodyOf[n] + Sum(Sizes(n))
                      IN /\ Sum([k \in 1..Len(p) |-> p[k].chars]) <= CharBudget
                         /\ \A k \in 1..Len(p) : p[k].mark = "whole" => p[k].chars = all(path[k])
                         /\ \A k \in 1..Len(p) : \A j \in 1..(k - 1) :
                              p[j].mark = "dropped" => p[k].mark = "dropped"
    BY DEF PacketIsHonest
  <2>1. Climb[x] \in Seq(Nodes)
    BY ClimbIs DEF TreeOK, IsPath
  <2>2. LedgerType
    BY DEF LedgerInv
  <2>. QED  BY <2>1, <2>2, PackedFits
<1>. QED  BY <1>1, LedgerStands, PTL

=============================================================================
