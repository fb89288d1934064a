---------------------------- MODULE MasterProofs ----------------------------
(***************************************************************************)
(* What holds of the master for every number of phases, signatures,        *)
(* headlines and faults.                                                   *)
(***************************************************************************)
EXTENDS MasterProperties, SequenceTheorems, TLAPS

-----------------------------------------------------------------------------
(* The history and its fold.                                               *)

(* No attempt goes by the name of none,                                    *)
LEMMA NoKeyNames == \A h : ~Exists(h, NoKey)
BY NamesAssumption DEF Exists, NoKey

(* and no request does.                                                    *)
LEMMA NoRequestNames == NoRequest \notin Requests
BY NamesAssumption, PhaseAssumption DEF NoRequest, Requests

(* A request names a phase and a signature.                                *)
LEMMA RequestParts ==
  ASSUME NEW req \in Requests
  PROVE  req[1] \in Phases /\ req[2] \in Signatures
BY PhaseAssumption DEF Requests

(* The record of an attempt that exists.                                   *)
LEMMA RecordType ==
  ASSUME NEW h \in Histories, NEW k, Exists(h, k)
  PROVE  /\ Record(h, k) \in Intervention
         /\ h.taken[k[1]] \in Seq(Intervention)
         /\ k[2] \in 1..Len(h.taken[k[1]])
<1>1. h.taken[k[1]] \in Seq(Intervention)
  BY DEF Histories, Exists
<1>2. k[2] \in 1..Len(h.taken[k[1]])
  BY DEF Exists, Spent
<1>. QED
  BY <1>1, <1>2, ElementOfSeq DEF Record

(* What a phase has spent is a length.                                     *)
LEMMA SpentType ==
  ASSUME NEW h \in Histories, NEW p \in Phases
  PROVE  Spent(h, p) \in Nat /\ h.taken[p] \in Seq(Intervention)
<1>1. h.taken[p] \in Seq(Intervention)
  BY DEF Histories
<1>. QED
  BY <1>1, LenProperties DEF Spent

(* Two histories with the same attempts have the same records.             *)
LEMMA SameTaken ==
  ASSUME NEW h, NEW g, g.taken = h.taken
  PROVE  /\ \A p : Spent(g, p) = Spent(h, p)
         /\ \A k : Exists(g, k) = Exists(h, k) /\ Record(g, k) = Record(h, k)
BY DEF Spent, Exists, Record

(* g differs from h in the attempt k, whose record is r.                   *)
Rewrites(h, g, k, r) ==
  /\ \A p \in Phases : Spent(g, p) = Spent(h, p)
  /\ \A j \in Keys : Exists(g, j) <=> Exists(h, j)
  /\ \A j \in Keys : Exists(h, j) =>
       Record(g, j) = IF j = k THEN r ELSE Record(h, j)

(* What amending the record of an attempt does, and leaves alone.          *)
LEMMA AmendRewrites ==
  ASSUME NEW h \in Histories, NEW k \in Keys, Exists(h, k), NEW r \in Intervention
  PROVE  /\ Amend(h, k, r) \in Histories
         /\ Amend(h, k, r).pending = h.pending
         /\ Amend(h, k, r).inProgress = h.inProgress
         /\ Amend(h, k, r).awaiting = h.awaiting
         /\ Rewrites(h, Amend(h, k, r), k, r)
<1>. DEFINE g == Amend(h, k, r)
            s == h.taken[k[1]]
            t == [s EXCEPT ![k[2]] = r]
<1>1. /\ s \in Seq(Intervention) /\ k[2] \in 1..Len(s)
      /\ k[1] \in Phases /\ k[2] \in Nat /\ k = <<k[1], k[2]>>
  BY RecordType DEF Keys, Exists
<1>2. /\ t \in Seq(Intervention) /\ Len(t) = Len(s)
      /\ \A i \in 1..Len(s) : t[i] = IF i = k[2] THEN r ELSE s[i]
  <2>. HIDE DEF s
  <2>. QED BY <1>1, ExceptSeq
<1>3. h.taken \in [Phases -> Seq(Intervention)]
  BY DEF Histories
<1>4. g.taken = [h.taken EXCEPT ![k[1]] = t]
  BY DEF Amend, Histories
<1>5. /\ g.taken \in [Phases -> Seq(Intervention)]
      /\ \A p \in Phases : g.taken[p] = IF p = k[1] THEN t ELSE h.taken[p]
  BY <1>1, <1>2, <1>3, <1>4
<1>6. /\ g \in Histories /\ g.pending = h.pending
      /\ g.inProgress = h.inProgress /\ g.awaiting = h.awaiting
  BY <1>5 DEF Amend, Histories
<1>7. \A p \in Phases : Spent(g, p) = Spent(h, p)
  BY <1>5, <1>2 DEF Spent
<1>8. \A j \in Keys : Exists(g, j) <=> Exists(h, j)
  BY <1>7 DEF Exists
<1>9. ASSUME NEW j \in Keys, Exists(h, j)
      PROVE  Record(g, j) = IF j = k THEN r ELSE Record(h, j)
  <2>1. /\ j[1] \in Phases /\ j[2] \in 1..Len(h.taken[j[1]]) /\ j = <<j[1], j[2]>>
    BY <1>9 DEF Exists, Spent, Keys
  <2>2. Record(g, j) = g.taken[j[1]][j[2]] /\ Record(h, j) = h.taken[j[1]][j[2]]
    BY DEF Record
  <2>3. CASE j[1] = k[1]
    BY <2>1, <2>2, <2>3, <1>1, <1>2, <1>5
  <2>4. CASE j[1] # k[1]
    BY <2>1, <2>2, <2>4, <1>5
  <2>. QED BY <2>3, <2>4
<1>. HIDE DEF g
<1>10. Rewrites(h, g, k, r)
  BY <1>7, <1>8, <1>9 DEF Rewrites
<1>. QED
  BY <1>6, <1>10 DEF g

(* A queued request supersedes a decided attempt and touches no record.    *)
LEMMA RequestedIs ==
  ASSUME NEW h \in Histories, NEW req \in Requests
  PROVE  /\ Requested(h, req) \in Histories
         /\ Requested(h, req).taken = h.taken
         /\ Requested(h, req).pending = req
         /\ Requested(h, req).awaiting = h.awaiting
         /\ Requested(h, req).inProgress = IF Decided(h, h.inProgress) THEN NoKey
                                           ELSE h.inProgress
BY DEF Requested, Histories

(* A question names its attempt and touches no record.                     *)
LEMMA AskedIs ==
  ASSUME NEW h \in Histories, NEW k \in Keys
  PROVE  /\ Asked(h, k) \in Histories
         /\ Asked(h, k).taken = h.taken
         /\ Asked(h, k).pending = h.pending
         /\ Asked(h, k).awaiting = k
         /\ Asked(h, k).inProgress = h.inProgress
BY DEF Asked, Histories

(* A ruling amends its attempt alone.                                      *)
LEMMA SelectedIs ==
  ASSUME NEW h \in Histories, NEW k \in Keys, Exists(h, k),
         NEW res \in Resolutions, NEW head \in Cards
  PROVE  /\ Selected(h, k, res, head) \in Histories
         /\ Selected(h, k, res, head).pending = h.pending
         /\ Selected(h, k, res, head).inProgress = h.inProgress
         /\ Selected(h, k, res, head).awaiting = h.awaiting
         /\ \E r \in Intervention :
              /\ Rewrites(h, Selected(h, k, res, head), k, r)
              /\ r.resolution = res
              /\ r.signature = Record(h, k).signature
<1>. DEFINE r == [Record(h, k) EXCEPT !.resolution = res, !.headline = head]
<1>1. Record(h, k) \in Intervention
  BY RecordType
<1>2. r \in Intervention /\ r.resolution = res /\ r.signature = Record(h, k).signature
  BY <1>1 DEF Intervention
<1>3. Selected(h, k, res, head) = Amend(h, k, r)
  BY DEF Selected
<1>. HIDE DEF r
<1>. QED
  BY <1>2, <1>3, AmendRewrites

(* So does a completion, which closes the attempt if it is in progress.    *)
LEMMA CompletedIs ==
  ASSUME NEW h \in Histories, NEW k \in Keys, Exists(h, k)
  PROVE  /\ Completed(h, k) \in Histories
         /\ Completed(h, k).pending = h.pending
         /\ Completed(h, k).inProgress = IF h.inProgress = k THEN NoKey ELSE h.inProgress
         /\ Completed(h, k).awaiting = h.awaiting
         /\ \E r \in Intervention :
              /\ Rewrites(h, Completed(h, k), k, r)
              /\ r.resolution = Record(h, k).resolution
              /\ r.signature = Record(h, k).signature
<1>. DEFINE r == [Record(h, k) EXCEPT !.completed = TRUE]
            a == Amend(h, k, r)
            g == [a EXCEPT !.inProgress = IF @ = k THEN NoKey ELSE @]
<1>1. Record(h, k) \in Intervention
  BY RecordType
<1>2. /\ r \in Intervention /\ r.resolution = Record(h, k).resolution
      /\ r.signature = Record(h, k).signature
  BY <1>1 DEF Intervention
<1>3. Completed(h, k) = g
  BY DEF Completed
<1>. HIDE DEF r
<1>4. /\ a \in Histories /\ a.pending = h.pending /\ a.inProgress = h.inProgress
      /\ a.awaiting = h.awaiting /\ Rewrites(h, a, k, r)
  BY <1>2, AmendRewrites
<1>. HIDE DEF a
<1>5. /\ g \in Histories /\ g.pending = a.pending /\ g.taken = a.taken
      /\ g.awaiting = a.awaiting
      /\ g.inProgress = IF a.inProgress = k THEN NoKey ELSE a.inProgress
  BY <1>4 DEF Histories
<1>. HIDE DEF g
<1>6. Rewrites(h, g, k, r)
  BY <1>4, <1>5, SameTaken DEF Rewrites
<1>. QED
  BY <1>2, <1>3, <1>4, <1>5, <1>6

(* An attempt that starts again is undecided, and in progress.             *)
LEMMA RestartedIs ==
  ASSUME NEW h \in Histories, NEW k \in Keys, Exists(h, k), NEW sig
  PROVE  /\ Started(h, k, sig) \in Histories
         /\ Started(h, k, sig).pending = NoRequest
         /\ Started(h, k, sig).inProgress = k
         /\ Started(h, k, sig).awaiting = NoKey
         /\ \E r \in Intervention :
              /\ Rewrites(h, Started(h, k, sig), k, r)
              /\ r.resolution = "none"
              /\ r.signature = Record(h, k).signature
<1>. DEFINE r == Again(h, k)
            a == Amend(h, k, r)
            g == [a EXCEPT !.pending = NoRequest, !.awaiting = NoKey, !.inProgress = k]
<1>1. Record(h, k) \in Intervention
  BY RecordType
<1>2. /\ r \in Intervention /\ r.resolution = "none"
      /\ r.signature = Record(h, k).signature
  BY <1>1 DEF Again, Intervention, Cards
<1>3. Started(h, k, sig) = g
  BY DEF Started, Opened
<1>. HIDE DEF r
<1>4. a \in Histories /\ Rewrites(h, a, k, r)
  BY <1>2, AmendRewrites
<1>. HIDE DEF a
<1>5. /\ g \in Histories /\ g.pending = NoRequest /\ g.taken = a.taken
      /\ g.awaiting = NoKey /\ g.inProgress = k
  BY <1>4 DEF Histories
<1>. HIDE DEF g
<1>6. Rewrites(h, g, k, r)
  BY <1>4, <1>5, SameTaken DEF Rewrites
<1>. QED
  BY <1>2, <1>3, <1>5, <1>6

(* The attempt n + 1 of a phase that has n, appended undecided.            *)
LEMMA StartedIs ==
  ASSUME NEW h \in Histories, NEW p \in Phases, NEW sig \in Signatures,
         NEW k, k = <<p, Spent(h, p) + 1>>,
         NEW g, g = Started(h, k, sig)
  PROVE  /\ k \in Keys /\ ~Exists(h, k)
         /\ g \in Histories
         /\ g.pending = NoRequest /\ g.inProgress = k /\ g.awaiting = NoKey
         /\ \A q \in Phases : Spent(g, q) = IF q = p THEN Spent(h, p) + 1
                                            ELSE Spent(h, q)
         /\ \A j \in Keys : Exists(g, j) <=> Exists(h, j) \/ j = k
         /\ \A j \in Keys : Exists(h, j) => Record(g, j) = Record(h, j)
         /\ Record(g, k).resolution = "none"
<1>. DEFINE s == h.taken[p]
            f == First(sig)
            t == Append(s, f)
<1>1. s \in Seq(Intervention) /\ Spent(h, p) = Len(s) /\ Spent(h, p) \in Nat
  BY SpentType DEF Spent
<1>2. f \in Intervention /\ f.resolution = "none"
  BY DEF First, Intervention, Cards
<1>3. k \in Keys /\ ~Exists(h, k) /\ k[1] = p /\ k[2] = Len(s) + 1
  BY <1>1 DEF Keys, Exists
<1>4. /\ t \in Seq(Intervention) /\ Len(t) = Len(s) + 1
      /\ \A i \in 1..Len(s) : t[i] = s[i]
      /\ t[Len(s) + 1] = f
  <2>. HIDE DEF f, s
  <2>. QED BY <1>1, <1>2, AppendProperties
<1>5. h.taken \in [Phases -> Seq(Intervention)]
  BY DEF Histories
<1>6. g = [[h EXCEPT !.taken[k[1]] = t]
             EXCEPT !.pending = NoRequest, !.awaiting = NoKey, !.inProgress = k]
  BY <1>3, <1>5 DEF Started, Opened
<1>7. g.taken = [h.taken EXCEPT ![p] = t]
  BY <1>6, <1>3, <1>5 DEF Histories
<1>8. /\ g.taken \in [Phases -> Seq(Intervention)]
      /\ \A q \in Phases : g.taken[q] = IF q = p THEN t ELSE h.taken[q]
  <2>. HIDE DEF t
  <2>. QED BY <1>4, <1>5, <1>7
<1>9. /\ g \in Histories /\ g.pending = NoRequest /\ g.inProgress = k
      /\ g.awaiting = NoKey
  BY <1>3, <1>6, <1>8 DEF Histories
<1>. HIDE DEF t, f, s
<1>10. \A q \in Phases : Spent(g, q) = IF q = p THEN Spent(h, p) + 1 ELSE Spent(h, q)
  BY <1>1, <1>4, <1>8 DEF Spent
<1>11. \A j \in Keys : Exists(g, j) <=> Exists(h, j) \/ j = k
  <2>. SUFFICES ASSUME NEW j \in Keys
                PROVE  Exists(g, j) <=> Exists(h, j) \/ j = k
    OBVIOUS
  <2>1. j[1] \in Phases /\ j[2] \in Nat /\ j = <<j[1], j[2]>>
    BY DEF Keys
  <2>2. k = <<p, Spent(h, p) + 1>>
    OBVIOUS
  <2>3. CASE j[1] = p
    BY <1>1, <1>10, <2>1, <2>2, <2>3 DEF Exists
  <2>4. CASE j[1] # p
    BY <1>10, <2>1, <2>2, <2>4 DEF Exists
  <2>. QED BY <2>3, <2>4
<1>12. ASSUME NEW j \in Keys, Exists(h, j)
       PROVE  Record(g, j) = Record(h, j)
  <2>1. j[1] \in Phases /\ j[2] \in 1..Len(h.taken[j[1]])
    BY <1>12 DEF Exists, Spent
  <2>2. Record(g, j) = g.taken[j[1]][j[2]] /\ Record(h, j) = h.taken[j[1]][j[2]]
    BY DEF Record
  <2>3. CASE j[1] = p
    <3>1. h.taken[p] = s
      BY DEF s
    <3>. QED BY <1>4, <1>8, <2>1, <2>2, <2>3, <3>1
  <2>4. CASE j[1] # p
    BY <1>8, <2>1, <2>2, <2>4
  <2>. QED BY <2>3, <2>4
<1>13. Record(g, k).resolution = "none"
  BY <1>2, <1>3, <1>4, <1>8 DEF Record
<1>. QED
  BY <1>3, <1>9, <1>10, <1>11, <1>12, <1>13

-----------------------------------------------------------------------------
(* The inductive invariant.                                                *)

(* The attempts named by the history and by the slot are on record, and    *)
(* whoever acts on one names it.                                           *)
KeysOK ==
  /\ hist.inProgress # NoKey => Exists(hist, hist.inProgress)
  /\ hist.awaiting # NoKey => Exists(hist, hist.awaiting)
  /\ slot.key # NoKey => Exists(hist, slot.key)
  /\ slot.inside \/ slot.at \in {"session", "effect", "carded", "asked", "acted"}
       => slot.key # NoKey

(* What the status is while somebody acts for the issue.                   *)
StagesOK ==
  /\ slot.at \in {"worker", "noted"} => status = "running"
  /\ slot.at = "adrift" => status \in {"running", "awaiting-answer"}
  /\ slot.at = "session" => status = "master-triage"
  /\ slot.at = "asked" => status = "awaiting-answer"
  /\ slot.at = "acted" /\ status = "master-triage" => hist.pending # NoRequest
  /\ slot.at \in {"noted", "adrift"} => slot.req \in Requests

(* A request is queued only while no attempt is in progress, and never     *)
(* while one is ruled on or a question is out.                             *)
PendingOK ==
  /\ hist.pending # NoRequest => hist.inProgress = NoKey
  /\ slot.at \in {"session", "effect", "carded"} \/ status = "awaiting-answer"
       => hist.pending = NoRequest

Undecided(h, k) == Exists(h, k) /\ Record(h, k).resolution = "none"

(* An undecided attempt is in progress, in the queue, and in its session   *)
(* or in nobody's hands.                                                   *)
OpenOK ==
  \A k \in Keys : Undecided(hist, k) =>
    /\ hist.inProgress = k /\ status = "master-triage"
    /\ slot.at = "idle" \/ (slot.at = "session" /\ slot.key = k)

(* NoRepeat, over keys.                                                    *)
Differ(a, b) ==
  (a.signature = b.signature /\ a.resolution \in Autonomous)
    => a.resolution # b.resolution
NoKeyRepeats ==
  \A j, k \in Keys : (Exists(hist, j) /\ Exists(hist, k) /\ j[1] = k[1] /\ j # k)
                       => Differ(Record(hist, j), Record(hist, k))

Control == KeysOK /\ StagesOK /\ PendingOK /\ QueuedHasWork /\ QuestionOwned
IndInv  == TypeOK /\ Control /\ OpenOK /\ AtMostTwo /\ NoKeyRepeats

(* What the facts of this module project.                                  *)
LEMMA Statuses ==
  \A s : /\ StatusAfter(s, "MasterTriageRequested") = "master-triage"
         /\ StatusAfter(s, "MasterInterventionStarted") = "master-triage"
         /\ StatusAfter(s, "Resumed") = "running"
         /\ StatusAfter(s, "MasterHumanQuestionRequested") = "awaiting-answer"
         /\ StatusAfter(s, "MasterStuck") = "agent-stuck"
BY DEF StatusAfter, Projects

(* The fold starts from a history of its type, with nothing in it.         *)
LEMMA FreshIs ==
  /\ Fresh \in Histories
  /\ Fresh.pending = NoRequest /\ Fresh.inProgress = NoKey /\ Fresh.awaiting = NoKey
  /\ \A p \in Phases : Spent(Fresh, p) = 0
  /\ \A k : ~Exists(Fresh, k)
<1>1. \A p \in Phases : Fresh.taken[p] = <<>>
  BY DEF Fresh
<1>2. Fresh.taken \in [Phases -> Seq(Intervention)]
  BY EmptySeq DEF Fresh
<1>3. Fresh \in Histories
  BY <1>2 DEF Fresh, Histories
<1>4. \A p \in Phases : Spent(Fresh, p) = 0
  BY <1>1 DEF Spent
<1>5. \A k : ~Exists(Fresh, k)
  BY <1>4 DEF Exists
<1>. QED
  BY <1>3, <1>4, <1>5 DEF Fresh

(* A fresh run is undisturbed.                                             *)
LEMMA InitIndInv == Init => IndInv
<1>. SUFFICES ASSUME Init PROVE IndInv
  OBVIOUS
<1>. USE FreshIs DEF Init
<1>1. TypeOK
  <2>1. slot \in Slot
    BY DEF Slot, Stages, Idle
  <2>2. faults \in 0..MaxFaults
    BY FaultAssumption
  <2>3. /\ status \in Status /\ card \in Cards /\ note \in Requests \cup {NoRequest}
        /\ heard \subseteq Places /\ ready \in BOOLEAN /\ hist \in Histories
        /\ ctx \in {"none", "unpinned", "pinned"}
    BY DEF Status, RunStatus, Cards
  <2>. QED BY <2>1, <2>2, <2>3 DEF TypeOK
<1>2. Control
  BY DEF Control, KeysOK, StagesOK, PendingOK, QueuedHasWork, QuestionOwned, Idle
<1>3. OpenOK /\ NoKeyRepeats
  BY DEF OpenOK, NoKeyRepeats, Undecided
<1>4. AtMostTwo
  BY DEF AtMostTwo, MaxInterventions
<1>. QED
  BY <1>1, <1>2, <1>3, <1>4 DEF IndInv

-----------------------------------------------------------------------------
(* The steps that leave the history alone.                                 *)

QuietStep ==
  \/ Merges \/ Redrive \/ Dies
  \/ \E req \in Requests : \/ WorkerAsks(req) \/ SessionEscalates(req)
                           \/ SessionDeduped(req) \/ TickEscalates(req)
  \/ (\E ans \in BOOLEAN : Replay(ans)) \/ Reopen(FALSE)
  \/ RunOut \/ GiveUp \/ Defers
  \/ HandBack \/ ShowCard \/ Pin \/ TerminalStuck
  \/ OperatorAnswers \/ OperatorRelabels \/ ReArm

(* A key is a name.                                                        *)
LEMMA NoKeyOutside == NoKey \notin Keys
BY NamesAssumption DEF NoKey, Keys

(* The faults stay within their bound.                                     *)
LEMMA FaultType ==
  ASSUME faults \in 0..MaxFaults, NEW f, Fault(f) \/ Calm
  PROVE  faults' \in 0..MaxFaults
BY FaultAssumption DEF Fault, Calm

(* None of them has an attempt forgotten, repeated or left unattended.     *)
LEMMA QuietKeeps ==
  ASSUME IndInv, QuietStep
  PROVE  IndInv'
<1>. USE DEF IndInv, TypeOK, Slot, Stages, stream, github, Calm, At, GoTo
<1>1. ASSUME Merges
     PROVE  IndInv'
  <2>. USE <1>1 DEF Merges
  <2>1. hist' = hist
    OBVIOUS
  <2>2. TypeOK'
    BY Statuses DEF Status, RunStatus, Cards, Places, Left, Idle
  <2>3. Control'
    BY <2>1, Statuses DEF Control, KeysOK, StagesOK, PendingOK, QueuedHasWork, QuestionOwned, Left, Idle
  <2>4. OpenOK'
    BY <2>1, Statuses DEF OpenOK, Control, StagesOK, Undecided, Left, Idle
  <2>5. AtMostTwo' /\ NoKeyRepeats'
    BY <2>1 DEF AtMostTwo, NoKeyRepeats
  <2>. QED BY <2>2, <2>3, <2>4, <2>5 DEF IndInv
<1>2. ASSUME Redrive
     PROVE  IndInv'
  <2>. USE <1>2 DEF Redrive
  <2>1. hist' = hist
    OBVIOUS
  <2>2. TypeOK'
    BY Statuses DEF Status, RunStatus, Cards, Places, Idle
  <2>3. Control'
    BY <2>1, Statuses DEF Control, KeysOK, StagesOK, PendingOK, QueuedHasWork, QuestionOwned, Idle
  <2>4. OpenOK'
    BY <2>1, Statuses DEF OpenOK, Control, StagesOK, Undecided, Idle
  <2>5. AtMostTwo' /\ NoKeyRepeats'
    BY <2>1 DEF AtMostTwo, NoKeyRepeats
  <2>. QED BY <2>2, <2>3, <2>4, <2>5 DEF IndInv
<1>3. ASSUME Dies
     PROVE  IndInv'
  <2>. USE <1>3 DEF Dies
  <2>1. hist' = hist
    OBVIOUS
  <2>2. faults' \in 0..MaxFaults
    BY FaultType DEF PostNote
  <2>3. TypeOK'
    BY <2>2, Statuses DEF Status, RunStatus, Cards, Places, Idle
  <2>4. Control'
    BY <2>1, Statuses DEF Control, KeysOK, StagesOK, PendingOK, QueuedHasWork, QuestionOwned, Idle
  <2>5. OpenOK'
    BY <2>1, <2>2, Statuses DEF OpenOK, Control, StagesOK, Undecided, Idle
  <2>6. AtMostTwo' /\ NoKeyRepeats'
    BY <2>1 DEF AtMostTwo, NoKeyRepeats
  <2>. QED BY <2>3, <2>4, <2>5, <2>6 DEF IndInv
<1>4. ASSUME NEW req \in Requests, WorkerAsks(req)
     PROVE  IndInv'
  <2>. USE <1>4 DEF WorkerAsks
  <2>1. hist' = hist
    OBVIOUS
  <2>2. TypeOK'
    BY Statuses DEF Status, RunStatus, Cards, Places
  <2>3. Control'
    BY <2>1, Statuses DEF Control, KeysOK, StagesOK, PendingOK, QueuedHasWork, QuestionOwned
  <2>4. OpenOK'
    BY <2>1, Statuses DEF OpenOK, Control, StagesOK, Undecided
  <2>5. AtMostTwo' /\ NoKeyRepeats'
    BY <2>1 DEF AtMostTwo, NoKeyRepeats
  <2>. QED BY <2>2, <2>3, <2>4, <2>5 DEF IndInv
<1>5. ASSUME NEW req \in Requests, SessionEscalates(req)
     PROVE  IndInv'
  <2>. USE <1>5 DEF SessionEscalates
  <2>1. hist' = hist
    OBVIOUS
  <2>2. faults' \in 0..MaxFaults
    BY FaultType DEF PostNote
  <2>3. TypeOK'
    BY <2>2, Statuses DEF Status, RunStatus, Cards, Places, PostNote
  <2>4. Control'
    BY <2>1, Statuses DEF Control, KeysOK, StagesOK, PendingOK, QueuedHasWork, QuestionOwned, PostNote
  <2>5. OpenOK'
    BY <2>1, <2>2, Statuses DEF OpenOK, Control, StagesOK, Undecided, PostNote
  <2>6. AtMostTwo' /\ NoKeyRepeats'
    BY <2>1 DEF AtMostTwo, NoKeyRepeats
  <2>. QED BY <2>3, <2>4, <2>5, <2>6 DEF IndInv
<1>6. ASSUME NEW req \in Requests, SessionDeduped(req)
     PROVE  IndInv'
  <2>. USE <1>6 DEF SessionDeduped
  <2>1. hist' = hist
    OBVIOUS
  <2>2. TypeOK'
    <3>1. slot' \in Slot
      BY DEF Left, Idle
    <3>2. ctx' \in {"none", "unpinned", "pinned"} /\ heard' \subseteq Places
      BY DEF Unpin, Places
    <3>. QED BY <3>1, <3>2
  <2>3. Control'
    BY <2>1, Statuses DEF Control, KeysOK, StagesOK, PendingOK, QueuedHasWork, QuestionOwned, Left, Idle, Unpin
  <2>4. OpenOK'
    BY <2>1, Statuses DEF OpenOK, Control, StagesOK, Undecided, Left, Idle, Unpin
  <2>5. AtMostTwo' /\ NoKeyRepeats'
    BY <2>1 DEF AtMostTwo, NoKeyRepeats
  <2>. QED BY <2>2, <2>3, <2>4, <2>5 DEF IndInv
<1>7. ASSUME NEW req \in Requests, TickEscalates(req)
     PROVE  IndInv'
  <2>. USE <1>7 DEF TickEscalates
  <2>1. hist' = hist
    OBVIOUS
  <2>2. faults' \in 0..MaxFaults
    BY FaultType DEF PostNote
  <2>3. TypeOK'
    BY <2>2, Statuses DEF Status, RunStatus, Cards, Places, PostNote, Adrift, Idle
  <2>4. Control'
    BY <2>1, Statuses DEF Control, KeysOK, StagesOK, PendingOK, QueuedHasWork, QuestionOwned, PostNote, Adrift, Idle
  <2>5. OpenOK'
    BY <2>1, <2>2, Statuses DEF OpenOK, Control, StagesOK, Undecided, PostNote, Adrift, Idle
  <2>6. AtMostTwo' /\ NoKeyRepeats'
    BY <2>1 DEF AtMostTwo, NoKeyRepeats
  <2>. QED BY <2>3, <2>4, <2>5, <2>6 DEF IndInv
<1>8. ASSUME NEW ans \in BOOLEAN, Replay(ans)
     PROVE  IndInv'
  <2>. USE <1>8 DEF Replay
  <2>1. hist' = hist
    OBVIOUS
  <2>2. Taken(ans) \in Keys
    BY DEF Called, Taken, Histories
  <2>3. TypeOK'
    BY <2>2, Statuses DEF Status, RunStatus, Cards, Places, Called, Answering, Queued, Resumable, Taken, CutShort, Decided, Idle
  <2>4. Control'
    BY <2>1, Statuses DEF Control, KeysOK, StagesOK, PendingOK, QueuedHasWork, QuestionOwned, Called, Answering, Queued, Resumable, Taken, CutShort, Decided, Idle
  <2>5. OpenOK'
    BY <2>1, <2>2, Statuses DEF OpenOK, Control, StagesOK, Undecided, Called, Answering, Queued, Resumable, Taken, CutShort, Decided, Idle
  <2>6. AtMostTwo' /\ NoKeyRepeats'
    BY <2>1 DEF AtMostTwo, NoKeyRepeats
  <2>. QED BY <2>3, <2>4, <2>5, <2>6 DEF IndInv
<1>9. ASSUME Reopen(FALSE)
     PROVE  IndInv'
  <2>. USE <1>9 DEF Reopen
  <2>1. hist' = hist
    OBVIOUS
  <2>2. Taken(FALSE) \in Keys
    BY DEF Called, Taken, Histories
  <2>3. TypeOK'
    BY <2>2, Statuses DEF Status, RunStatus, Cards, Places, Called, Queued, Taken, Idle
  <2>4. Control'
    BY <2>1, Statuses DEF Control, KeysOK, StagesOK, PendingOK, QueuedHasWork, QuestionOwned, Called, Queued, Taken, Idle
  <2>5. OpenOK'
    BY <2>1, <2>2, Statuses DEF OpenOK, Control, StagesOK, Undecided, Called, Queued, Taken, Idle
  <2>6. AtMostTwo' /\ NoKeyRepeats'
    BY <2>1 DEF AtMostTwo, NoKeyRepeats
  <2>. QED BY <2>3, <2>4, <2>5, <2>6 DEF IndInv
<1>10. ASSUME RunOut
     PROVE  IndInv'
  <2>. USE <1>10 DEF RunOut
  <2>1. hist' = hist
    OBVIOUS
  <2>2. hist.inProgress \notin Keys
    BY NoKeyOutside DEF New
  <2>3. TypeOK'
    BY <2>2, Statuses DEF Status, RunStatus, Cards, Places, New, Queued, PostCard, Idle
  <2>4. Control'
    BY <2>1, Statuses DEF Control, KeysOK, StagesOK, PendingOK, QueuedHasWork, QuestionOwned, New, Queued, PostCard, Idle
  <2>5. OpenOK'
    BY <2>1, <2>2, Statuses DEF OpenOK, Control, StagesOK, Undecided, New, Queued, PostCard, Idle
  <2>6. AtMostTwo' /\ NoKeyRepeats'
    BY <2>1 DEF AtMostTwo, NoKeyRepeats
  <2>. QED BY <2>3, <2>4, <2>5, <2>6 DEF IndInv
<1>11. ASSUME GiveUp
     PROVE  IndInv'
  <2>. USE <1>11 DEF GiveUp
  <2>1. hist' = hist
    OBVIOUS
  <2>2. TypeOK'
    BY Statuses DEF Status, RunStatus, Cards, Places, Idle
  <2>3. Control'
    BY <2>1, Statuses DEF Control, KeysOK, StagesOK, PendingOK, QueuedHasWork, QuestionOwned, Idle
  <2>4. OpenOK'
    BY <2>1, Statuses DEF OpenOK, Control, StagesOK, Undecided, Idle
  <2>5. AtMostTwo' /\ NoKeyRepeats'
    BY <2>1 DEF AtMostTwo, NoKeyRepeats
  <2>. QED BY <2>2, <2>3, <2>4, <2>5 DEF IndInv
<1>12. ASSUME Defers
     PROVE  IndInv'
  <2>. USE <1>12 DEF Defers
  <2>1. hist' = hist
    OBVIOUS
  <2>2. faults' \in 0..MaxFaults
    BY FaultType DEF PostNote
  <2>3. TypeOK'
    BY <2>2, Statuses DEF Status, RunStatus, Cards, Places, Idle
  <2>4. Control'
    BY <2>1, Statuses DEF Control, KeysOK, StagesOK, PendingOK, QueuedHasWork, QuestionOwned, Idle
  <2>5. OpenOK'
    BY <2>1, <2>2, Statuses DEF OpenOK, Control, StagesOK, Undecided, Idle
  <2>6. AtMostTwo' /\ NoKeyRepeats'
    BY <2>1 DEF AtMostTwo, NoKeyRepeats
  <2>. QED BY <2>3, <2>4, <2>5, <2>6 DEF IndInv
<1>13. ASSUME HandBack
     PROVE  IndInv'
  <2>. USE <1>13 DEF HandBack
  <2>1. hist' = hist
    OBVIOUS
  <2>2. TypeOK'
    BY Statuses DEF Status, RunStatus, Cards, Places
  <2>3. Control'
    BY <2>1, Statuses DEF Control, KeysOK, StagesOK, PendingOK, QueuedHasWork, QuestionOwned
  <2>4. OpenOK'
    BY <2>1, Statuses DEF OpenOK, Control, StagesOK, Undecided
  <2>5. AtMostTwo' /\ NoKeyRepeats'
    BY <2>1 DEF AtMostTwo, NoKeyRepeats
  <2>. QED BY <2>2, <2>3, <2>4, <2>5 DEF IndInv
<1>14. ASSUME ShowCard
     PROVE  IndInv'
  <2>. USE <1>14 DEF ShowCard
  <2>1. hist' = hist
    OBVIOUS
  <2>2. Ruling.headline \in Cards
    BY RecordType DEF Control, KeysOK, Intervention, Ruling
  <2>3. TypeOK'
    BY <2>2, Statuses DEF Status, RunStatus, Cards, Places, PostCard, Ruling
  <2>4. Control'
    BY <2>1, Statuses DEF Control, KeysOK, StagesOK, PendingOK, QueuedHasWork, QuestionOwned, PostCard, Ruling
  <2>5. OpenOK'
    BY <2>1, <2>2, Statuses DEF OpenOK, Control, StagesOK, Undecided, PostCard, Ruling
  <2>6. AtMostTwo' /\ NoKeyRepeats'
    BY <2>1 DEF AtMostTwo, NoKeyRepeats
  <2>. QED BY <2>3, <2>4, <2>5, <2>6 DEF IndInv
<1>15. ASSUME Pin
     PROVE  IndInv'
  <2>. USE <1>15 DEF Pin
  <2>1. hist' = hist
    OBVIOUS
  <2>2. TypeOK'
    BY Statuses DEF Status, RunStatus, Cards, Places
  <2>3. Control'
    BY <2>1, Statuses DEF Control, KeysOK, StagesOK, PendingOK, QueuedHasWork, QuestionOwned
  <2>4. OpenOK'
    BY <2>1, Statuses DEF OpenOK, Control, StagesOK, Undecided
  <2>5. AtMostTwo' /\ NoKeyRepeats'
    BY <2>1 DEF AtMostTwo, NoKeyRepeats
  <2>. QED BY <2>2, <2>3, <2>4, <2>5 DEF IndInv
<1>16. ASSUME TerminalStuck
     PROVE  IndInv'
  <2>. USE <1>16 DEF TerminalStuck
  <2>1. hist' = hist
    OBVIOUS
  <2>2. TypeOK'
    BY Statuses DEF Status, RunStatus, Cards, Places
  <2>3. Control'
    BY <2>1, Statuses DEF Control, KeysOK, StagesOK, PendingOK, QueuedHasWork, QuestionOwned
  <2>4. OpenOK'
    BY <2>1, Statuses DEF OpenOK, Control, StagesOK, Undecided
  <2>5. AtMostTwo' /\ NoKeyRepeats'
    BY <2>1 DEF AtMostTwo, NoKeyRepeats
  <2>. QED BY <2>2, <2>3, <2>4, <2>5 DEF IndInv
<1>17. ASSUME OperatorAnswers
     PROVE  IndInv'
  <2>. USE <1>17 DEF OperatorAnswers
  <2>1. hist' = hist
    OBVIOUS
  <2>2. faults' \in 0..MaxFaults /\ heard' \subseteq Places /\ ready' \in BOOLEAN
    <3>1. faults' \in 0..MaxFaults
      BY FaultType
    <3>2. heard' \subseteq Places
      BY DEF Places
    <3>3. ready' \in BOOLEAN
      BY Zenon
    <3>. QED BY <3>1, <3>2, <3>3
  <2>3. TypeOK'
    BY <2>2, Statuses DEF Status, RunStatus, Cards, Places
  <2>4. Control'
    BY <2>1, Statuses DEF Control, KeysOK, StagesOK, PendingOK, QueuedHasWork, QuestionOwned
  <2>5. OpenOK'
    BY <2>1, <2>2, Statuses DEF OpenOK, Control, StagesOK, Undecided
  <2>6. AtMostTwo' /\ NoKeyRepeats'
    BY <2>1 DEF AtMostTwo, NoKeyRepeats
  <2>. QED BY <2>3, <2>4, <2>5, <2>6 DEF IndInv
<1>18. ASSUME OperatorRelabels
     PROVE  IndInv'
  <2>. USE <1>18 DEF OperatorRelabels
  <2>1. hist' = hist
    OBVIOUS
  <2>2. TypeOK'
    BY Statuses DEF Status, RunStatus, Cards, Places
  <2>3. Control'
    BY <2>1, Statuses DEF Control, KeysOK, StagesOK, PendingOK, QueuedHasWork, QuestionOwned
  <2>4. OpenOK'
    BY <2>1, Statuses DEF OpenOK, Control, StagesOK, Undecided
  <2>5. AtMostTwo' /\ NoKeyRepeats'
    BY <2>1 DEF AtMostTwo, NoKeyRepeats
  <2>. QED BY <2>2, <2>3, <2>4, <2>5 DEF IndInv
<1>19. ASSUME ReArm
     PROVE  IndInv'
  <2>. USE <1>19 DEF ReArm
  <2>1. hist' = hist
    OBVIOUS
  <2>2. TypeOK'
    BY Statuses DEF Status, RunStatus, Cards, Places
  <2>3. Control'
    BY <2>1, Statuses DEF Control, KeysOK, StagesOK, PendingOK, QueuedHasWork, QuestionOwned
  <2>4. OpenOK'
    BY <2>1, Statuses DEF OpenOK, Control, StagesOK, Undecided
  <2>5. AtMostTwo' /\ NoKeyRepeats'
    BY <2>1 DEF AtMostTwo, NoKeyRepeats
  <2>. QED BY <2>2, <2>3, <2>4, <2>5 DEF IndInv
<1>. QED
  BY <1>1, <1>2, <1>3, <1>4, <1>5, <1>6, <1>7, <1>8, <1>9, <1>10, <1>11, <1>12, <1>13, <1>14, <1>15, <1>16, <1>17, <1>18, <1>19
  DEF QuietStep

-----------------------------------------------------------------------------
(* The steps that append a fact.                                           *)

(* Rewriting an attempt without deciding it anew repeats nothing.          *)
LEMMA RewriteKeeps ==
  ASSUME TypeOK, hist' \in Histories, AtMostTwo, NoKeyRepeats,
         NEW k \in Keys, Exists(hist, k), NEW r \in Intervention,
         Rewrites(hist, hist', k, r), r.signature = Record(hist, k).signature,
         \/ r.resolution \in {Record(hist, k).resolution, "none"}
         \/ r.resolution \notin Autonomous
         \/ \A j \in Keys :
              (/\ Exists(hist, j) /\ j[1] = k[1] /\ j # k
               /\ Record(hist, j).signature = r.signature)
                => Record(hist, j).resolution # r.resolution
  PROVE  AtMostTwo' /\ NoKeyRepeats'
<1>1. AtMostTwo'
  BY DEF AtMostTwo, Rewrites
<1>2. "none" \notin Autonomous
  BY DEF Autonomous
<1>3. ASSUME NEW i \in Keys, NEW j \in Keys, Exists(hist', i), Exists(hist', j),
             i[1] = j[1], i # j
      PROVE  Differ(Record(hist', i), Record(hist', j))
  <2>1. Exists(hist, i) /\ Exists(hist, j)
    BY <1>3 DEF Rewrites
  <2>2. /\ Record(hist', i) = IF i = k THEN r ELSE Record(hist, i)
        /\ Record(hist', j) = IF j = k THEN r ELSE Record(hist, j)
    BY <2>1 DEF Rewrites
  <2>3. /\ Differ(Record(hist, i), Record(hist, j))
        /\ Differ(Record(hist, j), Record(hist, i))
    BY <1>3, <2>1 DEF NoKeyRepeats
  <2>. QED
    BY <1>2, <1>3, <2>1, <2>2, <2>3 DEF Differ
<1>. QED
  BY <1>1, <1>3 DEF NoKeyRepeats

(* A new span remembers nothing.                                           *)
LEMMA ReadmitKeeps == ASSUME IndInv, Readmit PROVE IndInv'
<1>. USE FreshIs DEF IndInv, Readmit
<1>1. TypeOK'
  <2>1. slot' \in Slot
    BY DEF TypeOK, Slot, Stages, Idle
  <2>. QED BY <2>1 DEF TypeOK, Status, RunStatus, Calm
<1>2. Control'
  BY DEF Control, KeysOK, StagesOK, PendingOK, QueuedHasWork, QuestionOwned, Idle
<1>3. OpenOK' /\ NoKeyRepeats'
  BY DEF OpenOK, NoKeyRepeats, Undecided
<1>4. AtMostTwo'
  BY DEF AtMostTwo, MaxInterventions
<1>. QED
  BY <1>1, <1>2, <1>3, <1>4

(* No attempt is undecided here, so the request supersedes the one there   *)
(* is, or finds none.                                                      *)
LEMMA RecordRequestKeeps == ASSUME IndInv, RecordRequest PROVE IndInv'
<1>. USE DEF IndInv, RecordRequest, At, stream, github, Calm
<1>1. slot.req \in Requests /\ hist \in Histories /\ slot \in Slot
  BY DEF Control, StagesOK, TypeOK
<1>2. /\ hist' \in Histories /\ hist'.taken = hist.taken /\ hist'.pending = slot.req
      /\ hist'.awaiting = hist.awaiting
      /\ hist'.inProgress = IF Decided(hist, hist.inProgress) THEN NoKey ELSE hist.inProgress
  BY <1>1, RequestedIs
<1>3. /\ \A p : Spent(hist', p) = Spent(hist, p)
      /\ \A k : Exists(hist', k) = Exists(hist, k) /\ Record(hist', k) = Record(hist, k)
  BY <1>2, SameTaken
<1>4. \A k \in Keys : ~Undecided(hist, k)
  BY DEF OpenOK
<1>5. hist'.inProgress = NoKey
  <2>1. hist.inProgress = NoKey \/ (Exists(hist, hist.inProgress) /\ hist.inProgress \in Keys)
    BY <1>1 DEF Control, KeysOK, Histories
  <2>. QED BY <1>2, <1>4, <2>1 DEF Decided, Undecided
<1>6. TypeOK'
  <2>1. slot' \in Slot
    BY <1>1 DEF Left, Idle, Slot, Stages
  <2>2. ctx' \in {"none", "unpinned", "pinned"} /\ heard' \subseteq Places
    BY DEF Unpin, TypeOK, Places
  <2>. QED BY <1>2, <2>1, <2>2, Statuses DEF TypeOK, Status, RunStatus
<1>7. hist'.pending # NoRequest
  BY <1>1, <1>2, NoRequestNames
<1>8. slot'.at \in {"idle", "acted"} /\ slot'.inside = FALSE /\ slot'.key \in {slot.key, NoKey}
      /\ (slot'.at = "acted" => slot.inside /\ slot'.key = slot.key)
  BY <1>1 DEF Left, Idle, Slot
<1>9. Control'
  <2>1. KeysOK'
    BY <1>2, <1>3, <1>5, <1>8 DEF Control, KeysOK
  <2>2. (StagesOK /\ PendingOK /\ QueuedHasWork /\ QuestionOwned)'
    BY <1>5, <1>7, <1>8, Statuses DEF StagesOK, PendingOK, QueuedHasWork, QuestionOwned
  <2>. QED BY <2>1, <2>2 DEF Control
<1>10. OpenOK' /\ AtMostTwo' /\ NoKeyRepeats'
  BY <1>3, <1>4 DEF OpenOK, Undecided, AtMostTwo, NoKeyRepeats
<1>. QED
  BY <1>6, <1>9, <1>10

(* Only a question that is out is answered, and nothing is undecided then. *)
LEMMA ReopenKeeps == ASSUME IndInv, Reopen(TRUE) PROVE IndInv'
<1>. DEFINE k == hist.awaiting
<1>. USE DEF IndInv, Reopen, Called, Taken, Answering, Resumable, stream, github, Calm
<1>1. /\ hist \in Histories /\ slot \in Slot /\ k \in Keys /\ Exists(hist, k)
      /\ status = "awaiting-answer" /\ slot.at = "idle"
  <2>1. hist \in Histories /\ slot \in Slot
    BY DEF TypeOK
  <2>. QED BY <2>1 DEF At, Control, KeysOK, Histories
<1>2. hist' = Started(hist, k, Record(hist, k).signature) /\ status' = "master-triage"
  BY Statuses
<1>3. /\ hist' \in Histories /\ hist'.pending = NoRequest
      /\ hist'.inProgress = k /\ hist'.awaiting = NoKey
  BY <1>1, <1>2, RestartedIs
<1>4. PICK r \in Intervention :
        /\ Rewrites(hist, hist', k, r)
        /\ r.resolution = "none" /\ r.signature = Record(hist, k).signature
  BY <1>1, <1>2, RestartedIs
<1>5. slot' = [Idle EXCEPT !.at = "session", !.key = k]
  OBVIOUS
<1>6. /\ slot' \in Slot /\ slot'.at = "session" /\ slot'.key = k
  BY <1>1, <1>5 DEF Idle, Slot, Stages
<1>. HIDE DEF k
<1>7. TypeOK'
  BY <1>2, <1>3, <1>6 DEF TypeOK, Status, RunStatus
<1>8. Exists(hist', k) /\ k # NoKey
  BY <1>1, <1>4, NoKeyOutside DEF Rewrites
<1>9. Control'
  BY <1>2, <1>3, <1>6, <1>8 DEF Control, KeysOK, StagesOK, PendingOK, QueuedHasWork,
     QuestionOwned
<1>10. OpenOK'
  <2>. SUFFICES ASSUME NEW j \in Keys, Undecided(hist', j)
                PROVE  j = k
    BY <1>2, <1>3, <1>6 DEF OpenOK
  <2>1. Exists(hist, j) /\ (j = k \/ Record(hist', j) = Record(hist, j))
    BY <1>4 DEF Rewrites, Undecided
  <2>2. ~Undecided(hist, j)
    BY <1>1 DEF OpenOK
  <2>. QED BY <2>1, <2>2 DEF Undecided
<1>11. AtMostTwo' /\ NoKeyRepeats'
  BY <1>1, <1>3, <1>4, RewriteKeeps
<1>. QED
  BY <1>7, <1>9, <1>10, <1>11

(* A new attempt is opened within the budget, with nothing undecided.      *)
LEMMA OpenKeeps == ASSUME IndInv, Open PROVE IndInv'
<1>. USE DEF IndInv, Open, New, Queued, stream, github, Calm, At
<1>1. /\ hist \in Histories /\ slot \in Slot /\ Request \in Requests
      /\ slot.at = "idle" /\ hist.inProgress = NoKey
  BY DEF TypeOK, Histories, Request
<1>. DEFINE p == Request[1]
            sig == Request[2]
            k == <<p, Spent(hist, p) + 1>>
<1>2. p \in Phases /\ sig \in Signatures /\ ~Exhausted(hist, p)
  BY <1>1, RequestParts
<1>3. hist' = Started(hist, k, sig) /\ status' = "master-triage"
  BY Statuses
<1>4. slot' = [Idle EXCEPT !.at = "session", !.key = k]
  OBVIOUS
<1>. HIDE DEF p, sig
<1>5. /\ k \in Keys /\ ~Exists(hist, k)
      /\ hist' \in Histories
      /\ hist'.pending = NoRequest /\ hist'.inProgress = k /\ hist'.awaiting = NoKey
      /\ \A q \in Phases : Spent(hist', q) = IF q = p THEN Spent(hist, p) + 1
                                             ELSE Spent(hist, q)
      /\ \A j \in Keys : Exists(hist', j) <=> Exists(hist, j) \/ j = k
      /\ \A j \in Keys : Exists(hist, j) => Record(hist', j) = Record(hist, j)
      /\ Record(hist', k).resolution = "none"
  BY <1>1, <1>2, <1>3, StartedIs DEF k
<1>. HIDE DEF k
<1>6. /\ slot' \in Slot /\ slot'.at = "session" /\ slot'.key = k
  BY <1>4, <1>5 DEF Idle, Slot, Stages
<1>7. TypeOK'
  BY <1>3, <1>5, <1>6 DEF TypeOK, Status, RunStatus
<1>8. Control'
  BY <1>3, <1>5, <1>6, NoKeyOutside DEF Control, KeysOK, StagesOK, PendingOK,
     QueuedHasWork, QuestionOwned
<1>9. \A j \in Keys : ~Undecided(hist, j)
  BY <1>1, NoKeyOutside DEF OpenOK
<1>10. OpenOK'
  BY <1>3, <1>5, <1>6, <1>9 DEF OpenOK, Undecided
<1>11. AtMostTwo'
  <2>1. \A q \in Phases : Spent(hist, q) \in Nat
    BY <1>1, SpentType
  <2>. QED BY <1>2, <1>5, <2>1 DEF AtMostTwo, Exhausted, MaxInterventions
<1>12. NoKeyRepeats'
  <2>. SUFFICES ASSUME NEW i \in Keys, NEW j \in Keys, Exists(hist', i), Exists(hist', j),
                       i[1] = j[1], i # j
                PROVE  Differ(Record(hist', i), Record(hist', j))
    BY DEF NoKeyRepeats
  <2>1. "none" \notin Autonomous
    BY DEF Autonomous
  <2>2. CASE i = k \/ j = k
    BY <1>5, <2>1, <2>2 DEF Differ
  <2>3. CASE i # k /\ j # k
    BY <1>5, <2>3 DEF NoKeyRepeats
  <2>. QED BY <2>2, <2>3
<1>. QED
  BY <1>7, <1>8, <1>10, <1>11, <1>12

(* What has been tried on the same failure in the phase is inherited.      *)
LEMMA InheritedTried ==
  ASSUME hist \in Histories, NEW k \in Keys, Exists(hist, k),
         NEW res, res \notin Inherited(hist, k), res \in Autonomous,
         NEW j \in Keys, Exists(hist, j), j[1] = k[1], j # k,
         Record(hist, j).signature = Record(hist, k).signature
  PROVE  Record(hist, j).resolution # res
<1>1. /\ j[2] \in 1..Spent(hist, k[1]) /\ j[2] # k[2]
      /\ Record(hist, j) = hist.taken[k[1]][j[2]]
  BY DEF Exists, Record, Keys
<1>2. res # "none"
  BY DEF Autonomous
<1>. QED
  BY <1>1, <1>2 DEF Inherited

(* The ruling is one the budget leaves, or a question.                     *)
LEMMA RulingAllowed ==
  ASSUME NEW o \in {Coerced(x) : x \in Outcomes} \cup {Ask("authority")}
  PROVE  /\ o.resolution \in Resolutions /\ o.headline \in Cards
         /\ o.resolution \notin Autonomous \/ o.resolution \notin Inherited(hist, slot.key)
<1>1. /\ Ask("authority").resolution = "ask-human" /\ Ask("authority").headline \in Cards
      /\ Ask("refused").resolution = "ask-human" /\ Ask("refused").headline \in Cards
  BY DEF Ask, Cards
<1>2. "ask-human" \in Resolutions \ Autonomous
  BY DEF Resolutions, Autonomous
<1>3. CASE o = Ask("authority")
  BY <1>1, <1>2, <1>3
<1>4. ASSUME NEW x \in Outcomes, o = Coerced(x)
      PROVE  /\ o.resolution \in Resolutions /\ o.headline \in Cards
             /\ o.resolution \notin Autonomous \/ o.resolution \notin Inherited(hist, slot.key)
  <2>1. x.resolution \in Resolutions /\ x.headline \in Cards
    BY DEF Outcomes, Ask, Resolutions, Cards
  <2>. QED BY <1>1, <1>2, <1>4, <2>1 DEF Coerced, Forbidden
<1>. QED
  BY <1>3, <1>4

(* The session's attempt, the only undecided one, is decided.              *)
LEMMA RulesKeeps == ASSUME IndInv, Rules PROVE IndInv'
<1>. DEFINE k == slot.key
<1>. USE DEF IndInv, Rules, stream, github, Calm, At, GoTo
<1>1. /\ hist \in Histories /\ slot \in Slot /\ k \in Keys /\ Exists(hist, k)
      /\ slot.at = "session"
  BY DEF TypeOK, Slot, Control, KeysOK
<1>2. PICK o \in {Coerced(x) : x \in Outcomes} \cup {Ask("authority")} :
        hist' = Selected(hist, k, o.resolution, o.headline)
  OBVIOUS
<1>3. /\ o.resolution \in Resolutions /\ o.headline \in Cards
      /\ o.resolution \notin Autonomous \/ o.resolution \notin Inherited(hist, k)
  BY RulingAllowed
<1>4. slot' \in Slot /\ slot'.at = "effect" /\ slot'.key = k /\ slot'.inside = slot.inside
  BY <1>1 DEF Slot, Stages
<1>. HIDE DEF k
<1>5. /\ hist' \in Histories /\ hist'.pending = hist.pending
      /\ hist'.inProgress = hist.inProgress /\ hist'.awaiting = hist.awaiting
  BY <1>1, <1>2, <1>3, SelectedIs
<1>6. PICK r \in Intervention :
        /\ Rewrites(hist, hist', k, r)
        /\ r.resolution = o.resolution /\ r.signature = Record(hist, k).signature
  BY <1>1, <1>2, <1>3, SelectedIs
<1>7. TypeOK'
  BY <1>4, <1>5 DEF TypeOK
<1>8. \A j : j \in Keys \cup {NoKey} => (Exists(hist', j) <=> Exists(hist, j))
  BY <1>6, NoKeyNames DEF Rewrites
<1>9. Control'
  <2>1. hist.inProgress \in Keys \cup {NoKey} /\ hist.awaiting \in Keys \cup {NoKey}
    BY <1>1 DEF Histories
  <2>2. status = "master-triage" /\ hist.pending = NoRequest
    BY <1>1 DEF Control, StagesOK, PendingOK
  <2>3. KeysOK'
    BY <1>1, <1>4, <1>5, <1>8, <2>1, NoKeyOutside DEF Control, KeysOK
  <2>4. (StagesOK /\ PendingOK /\ QueuedHasWork /\ QuestionOwned)'
    BY <1>1, <1>4, <1>5, <2>2
    DEF Control, StagesOK, PendingOK, QueuedHasWork, QuestionOwned
  <2>. QED BY <2>3, <2>4 DEF Control
<1>10. OpenOK'
  <2>. SUFFICES ASSUME NEW j \in Keys, Undecided(hist', j) PROVE FALSE
    BY DEF OpenOK
  <2>1. Exists(hist, j) /\ Record(hist', j) = IF j = k THEN r ELSE Record(hist, j)
    BY <1>6 DEF Rewrites, Undecided
  <2>2. "none" \notin Resolutions
    BY DEF Resolutions, Autonomous
  <2>3. j # k
    BY <1>3, <1>6, <2>1, <2>2 DEF Undecided
  <2>4. Undecided(hist, j)
    BY <2>1, <2>3 DEF Undecided
  <2>. QED BY <1>1, <2>3, <2>4 DEF OpenOK, k
<1>11. AtMostTwo' /\ NoKeyRepeats'
  BY <1>1, <1>3, <1>5, <1>6, InheritedTried, RewriteKeeps
<1>. QED
  BY <1>7, <1>9, <1>10, <1>11

(* A question goes out in the name of the attempt that decided to ask.     *)
LEMMA AskHumanKeeps == ASSUME IndInv, AskHuman PROVE IndInv'
<1>. DEFINE k == slot.key
<1>. USE DEF IndInv, AskHuman, Ruling, stream, github, Calm, At, GoTo
<1>1. /\ hist \in Histories /\ slot \in Slot /\ k \in Keys /\ Exists(hist, k)
      /\ slot.at = "carded" /\ hist.pending = NoRequest
      /\ Record(hist, k).resolution = "ask-human"
  BY DEF TypeOK, Slot, Control, KeysOK, PendingOK
<1>2. /\ hist' \in Histories /\ hist'.taken = hist.taken /\ hist'.pending = hist.pending
      /\ hist'.awaiting = k /\ hist'.inProgress = hist.inProgress
  BY <1>1, AskedIs
<1>3. /\ \A p : Spent(hist', p) = Spent(hist, p)
      /\ \A j : Exists(hist', j) = Exists(hist, j) /\ Record(hist', j) = Record(hist, j)
  BY <1>2, SameTaken
<1>4. /\ status' = "awaiting-answer" /\ slot' \in Slot /\ slot'.at = "asked"
      /\ slot'.key = k /\ slot'.inside = slot.inside
  BY <1>1, Statuses DEF Slot, Stages
<1>. HIDE DEF k
<1>5. TypeOK'
  BY <1>2, <1>4 DEF TypeOK, Status, RunStatus
<1>6. Control'
  <2>1. KeysOK'
    BY <1>1, <1>2, <1>3, <1>4, NoKeyOutside DEF Control, KeysOK
  <2>2. (StagesOK /\ PendingOK /\ QueuedHasWork /\ QuestionOwned)'
    BY <1>1, <1>2, <1>3, <1>4 DEF Control, StagesOK, PendingOK, QueuedHasWork, QuestionOwned
  <2>. QED BY <2>1, <2>2 DEF Control
<1>7. OpenOK' /\ AtMostTwo' /\ NoKeyRepeats'
  BY <1>1, <1>3 DEF OpenOK, Undecided, AtMostTwo, NoKeyRepeats
<1>. QED
  BY <1>5, <1>6, <1>7

(* A completion closes its attempt; what was asked meanwhile is queued.    *)
LEMMA CompleteKeeps == ASSUME IndInv, Complete PROVE IndInv'
<1>. DEFINE k == slot.key
<1>. USE DEF IndInv, Complete, stream, github, Calm, At
<1>1. /\ hist \in Histories /\ slot \in Slot /\ k \in Keys /\ Exists(hist, k)
      /\ slot.at = "acted"
  BY DEF TypeOK, Slot, Control, KeysOK
<1>2. /\ hist' \in Histories /\ hist'.pending = hist.pending
      /\ hist'.inProgress = IF hist.inProgress = k THEN NoKey ELSE hist.inProgress
      /\ hist'.awaiting = hist.awaiting
  BY <1>1, CompletedIs
<1>3. PICK r \in Intervention :
        /\ Rewrites(hist, hist', k, r)
        /\ r.resolution = Record(hist, k).resolution
        /\ r.signature = Record(hist, k).signature
  BY <1>1, CompletedIs
<1>4. slot' = Idle /\ status' = status
  OBVIOUS
<1>. HIDE DEF k
<1>5. TypeOK'
  <2>1. slot' \in Slot
    BY <1>4 DEF Idle, Slot, Stages
  <2>. QED BY <1>2, <2>1 DEF TypeOK
<1>6. \A j \in Keys \cup {NoKey} : Exists(hist', j) <=> Exists(hist, j)
  BY <1>3, NoKeyNames DEF Rewrites
<1>7. \A j \in Keys : Exists(hist, j) => Record(hist', j).resolution = Record(hist, j).resolution
  BY <1>3 DEF Rewrites
<1>8. hist.inProgress \in Keys \cup {NoKey} /\ hist.awaiting \in Keys \cup {NoKey}
  BY <1>1 DEF Histories
<1>9. Control'
  <2>1. KeysOK'
    BY <1>2, <1>4, <1>6, <1>8 DEF Control, KeysOK, Idle
  <2>2. (StagesOK /\ PendingOK /\ QueuedHasWork)'
    BY <1>1, <1>2, <1>4 DEF Control, StagesOK, PendingOK, QueuedHasWork, Idle
  <2>3. QuestionOwned'
    <3>. SUFFICES ASSUME status = "awaiting-answer"
                  PROVE  /\ Exists(hist', hist.awaiting)
                         /\ Record(hist', hist.awaiting).resolution = "ask-human"
      BY <1>2, <1>4 DEF QuestionOwned
    <3>. QED BY <1>6, <1>7, <1>8, NoKeyNames DEF Control, QuestionOwned
  <2>. QED BY <2>1, <2>2, <2>3 DEF Control
<1>10. OpenOK'
  BY <1>1, <1>6, <1>7 DEF OpenOK, Undecided
<1>11. AtMostTwo' /\ NoKeyRepeats'
  BY <1>1, <1>2, <1>3, RewriteKeeps
<1>. QED
  BY <1>5, <1>9, <1>10, <1>11

-----------------------------------------------------------------------------
(* The theorems.                                                           *)

(* A step that changes nothing keeps the invariant, and so do all others.  *)
LEMMA StepKeeps == ASSUME IndInv, [Next]_vars PROVE IndInv'
<1>1. CASE UNCHANGED vars
  <2>. USE <1>1 DEF vars, stream, github
  <2>1. TypeOK'
    BY DEF IndInv, TypeOK
  <2>2. Control'
    BY DEF IndInv, Control, KeysOK, StagesOK, PendingOK, QueuedHasWork, QuestionOwned
  <2>3. (OpenOK /\ AtMostTwo /\ NoKeyRepeats)'
    BY DEF IndInv, OpenOK, Undecided, AtMostTwo, NoKeyRepeats
  <2>. QED BY <2>1, <2>2, <2>3 DEF IndInv
<1>2. CASE QuietStep
  BY <1>2, QuietKeeps
<1>3. CASE Readmit \/ RecordRequest \/ Reopen(TRUE) \/ Open \/ Rules \/ AskHuman \/ Complete
  BY <1>3, ReadmitKeeps, RecordRequestKeeps, ReopenKeeps, OpenKeeps, RulesKeeps,
     AskHumanKeeps, CompleteKeeps
<1>4. Next => \/ QuietStep
              \/ Readmit \/ RecordRequest \/ Reopen(TRUE) \/ Open \/ Rules
              \/ AskHuman \/ Complete
  BY DEF Next, Pipeline, Escalates, TickCares, Adjudicates, Effects, QuietStep
<1>. QED
  BY <1>1, <1>2, <1>3, <1>4

(* The invariant holds throughout.                                         *)
THEOREM Inductive == Spec => []IndInv
BY InitIndInv, StepKeeps, PTL DEF Spec

(* Every variable stays in its range, whatever the history holds.          *)
THEOREM MasterTypeCorrect == Spec => []TypeOK
<1>1. IndInv => TypeOK
  BY DEF IndInv
<1>. QED
  BY <1>1, Inductive, PTL

(* No phase of a span ever sees a third intervention: attempts are only    *)
(* appended by Open, which counts them, and reopened by an answer.         *)
THEOREM BudgetHolds == Spec => []AtMostTwo
<1>1. IndInv => AtMostTwo
  BY DEF IndInv
<1>. QED
  BY <1>1, Inductive, PTL

(* No recovery is ruled twice on one failure of a phase.                   *)
THEOREM NeverRepeats == Spec => []NoRepeat
<1>1. IndInv => NoRepeat
  <2>. SUFFICES ASSUME IndInv, NEW p \in Phases,
                       NEW m \in 1..Spent(hist, p), NEW n \in 1..Spent(hist, p), m # n
                PROVE  Differ(hist.taken[p][m], hist.taken[p][n])
    BY DEF NoRepeat, Differ
  <2>1. Spent(hist, p) \in Nat
    BY SpentType DEF IndInv, TypeOK
  <2>2. /\ <<p, m>> \in Keys /\ Exists(hist, <<p, m>>)
        /\ <<p, n>> \in Keys /\ Exists(hist, <<p, n>>)
        /\ <<p, m>> # <<p, n>> /\ <<p, m>>[1] = <<p, n>>[1]
    BY <2>1 DEF Keys, Exists
  <2>3. /\ Record(hist, <<p, m>>) = hist.taken[p][m]
        /\ Record(hist, <<p, n>>) = hist.taken[p][n]
    BY DEF Record
  <2>. QED BY <2>2, <2>3 DEF IndInv, NoKeyRepeats
<1>. QED
  BY <1>1, Inductive, PTL

(* An undecided attempt is the one in progress.                            *)
THEOREM OneAttemptOpen == Spec => []OneOpen
<1>1. IndInv => OneOpen
  <2>. SUFFICES ASSUME IndInv, NEW p \in Phases, NEW n \in 1..Spent(hist, p),
                       hist.taken[p][n].resolution = "none"
                PROVE  hist.inProgress = <<p, n>>
    BY DEF OneOpen
  <2>1. Spent(hist, p) \in Nat
    BY SpentType DEF IndInv, TypeOK
  <2>2. <<p, n>> \in Keys /\ Undecided(hist, <<p, n>>)
    BY <2>1 DEF Keys, Exists, Record, Undecided
  <2>. QED BY <2>2 DEF IndInv, OpenOK
<1>. QED
  BY <1>1, Inductive, PTL

(* A run in the master's queue has a request or an attempt there.          *)
THEOREM QueueHasWork == Spec => []QueuedHasWork
<1>1. IndInv => QueuedHasWork
  BY DEF IndInv, Control
<1>. QED
  BY <1>1, Inductive, PTL

(* No ruling is carried out with a later failure in the queue.             *)
THEOREM RulingsCurrent == Spec => []RulingCurrent
<1>1. IndInv => RulingCurrent
  BY DEF IndInv, Control, PendingOK, RulingCurrent, At
<1>. QED
  BY <1>1, Inductive, PTL

(* A paused run waits for a question that one of its attempts asked.       *)
THEOREM QuestionsOwned == Spec => []QuestionOwned
<1>1. IndInv => QuestionOwned
  BY DEF IndInv, Control
<1>. QED
  BY <1>1, Inductive, PTL

=============================================================================
