------------------------------ MODULE GateProofs ------------------------------
(***************************************************************************)
(* The two gates a session passes.  Of the hosted one: one reply for each  *)
(* word of a reviewer, and true blame, for any set of conversations and    *)
(* any number of polls, pushes, fix attempts and faults.  Of the one on    *)
(* the shared clone: what is read there is synced, clean, and stays so     *)
(* until the reader is done, for any number of dispatches and pushes.      *)
(***************************************************************************)
EXTENDS HostedGate, CloneGate, TLAPS

-----------------------------------------------------------------------------
(* The hosted review gate.                                                 *)

GateSpec == GateInit /\ [][GateNext]_gateVars

Words == {"none", "finding", "reply", "again"}
Awaits == {"idle", "deferred", "stuck", "resync", "mergeable", "poll", "observe",
           "classify", "fix", "verify", "dispose", "reply", "record-reply",
           "resolve", "record-resolve"}
Waits == [at : Awaits,
          state : {"UNKNOWN", "CLEAN", "BLOCKED", "BEHIND"},
          why : {"none", "not-mergeable", "unknown-bot", "hosted-review", "human-review",
                 "threads-unavailable", "policy"},
          poll : Nat, looks : Nat, attempts : Nat, head : Nat,
          fresh : SUBSET Threads, todo : SUBSET Threads, fixed : SUBSET Threads,
          deferred : BOOLEAN, hash : [Threads -> Words], cur : Threads \cup {"none"}]

GateTypeOK ==
  /\ thread \in [Threads -> [last : Words, sha : Nat, resolved : BOOLEAN]]
  /\ prHead \in Nat
  /\ repliedTo \in [Threads -> Words]
  /\ resolvedBy \in SUBSET Threads
  /\ waiting \in Waits
  /\ replies \in [Threads -> Nat]
  /\ torn \in SUBSET Threads

\* A conversation the reviewer has not been answered on, or that was torn.
Unanswered(t) == replies[t] = 0 \/ t \in torn

(* What the fix lane was given is open and unanswered until it is disposed *)
(* of; the one in hand is among it.                                        *)
WorkOK ==
  /\ waiting.at = "fix" => \A t \in waiting.fresh : thread[t].last # "none" /\ Unanswered(t)
  /\ waiting.at \in {"verify", "dispose", "reply"} => \A t \in waiting.todo : Unanswered(t)
  /\ waiting.at \in {"record-reply", "resolve", "record-resolve"} =>
       \A t \in waiting.todo : t = waiting.cur \/ Unanswered(t)
  /\ waiting.at \in {"verify", "dispose", "reply", "record-reply", "resolve", "record-resolve"} =>
       \A t \in waiting.todo : thread[t].last # "none"
  /\ waiting.at \in {"reply", "record-reply", "resolve", "record-resolve"} =>
       waiting.cur \in waiting.todo

\* An answered conversation is resolved, or is the one in hand.
AnsweredOK ==
  \A t \in Threads :
    \/ Unanswered(t)
    \/ thread[t].resolved
    \/ waiting.at \in {"record-reply", "resolve"} /\ waiting.cur = t

\* What GitHub has resolved was opened; what is on record is resolved there.
ResolvedOK ==
  /\ \A t \in Threads : thread[t].last = "none" => ~thread[t].resolved
  /\ \A t \in resolvedBy : thread[t].resolved \/ t \in torn
  /\ waiting.at = "record-resolve" =>
       thread[waiting.cur].resolved \/ waiting.cur \in torn

GateInv == GateTypeOK /\ WorkOK /\ AnsweredOK /\ ResolvedOK /\ OneReply

-----------------------------------------------------------------------------
(* The wait begins with nothing in hand.                                   *)
LEMMA IdleTyped == Idle \in Waits
  BY DEF Idle, Waits, Awaits, Words

LEMMA InitGate == GateInit => GateInv
<1> SUFFICES ASSUME GateInit PROVE GateInv
  OBVIOUS
<1>1. GateTypeOK
  BY IdleTyped DEF GateInit, GateTypeOK, Unopened, Words
<1>2. waiting.at = "idle"
  BY DEF GateInit, Idle
<1>3. WorkOK
  BY <1>2 DEF WorkOK
<1>4. AnsweredOK /\ ResolvedOK /\ OneReply
  BY <1>2 DEF GateInit, AnsweredOK, ResolvedOK, OneReply, Unanswered, Unopened
<1> QED
  BY <1>1, <1>3, <1>4 DEF GateInv

(* A step that only moves the wait to a state with nothing in hand keeps   *)
(* everything, from any state in which nothing was answered and left open. *)
Resting == Awaits \ {"fix", "verify", "dispose", "reply", "record-reply", "resolve",
                     "record-resolve"}
Between == {"record-reply", "resolve"}

LEMMA RestKeeps ==
  ASSUME GateInv, UNCHANGED <<OnGitHub, Recorded, Ghosts>>,
         waiting' \in Waits, waiting'.at \in Resting,
         waiting.at \notin Between
  PROVE  GateInv'
<1>1. GateTypeOK'
  BY DEF GateInv, GateTypeOK, OnGitHub, Recorded, Ghosts
<1>2. WorkOK'
  BY DEF WorkOK, Resting, Awaits
<1>3. AnsweredOK'
  BY DEF GateInv, AnsweredOK, Unanswered, Between, OnGitHub, Ghosts
<1>4. ResolvedOK'
  BY DEF GateInv, ResolvedOK, Resting, Awaits, OnGitHub, Recorded, Ghosts
<1>5. OneReply'
  BY DEF GateInv, OneReply, Ghosts
<1> QED
  BY <1>1, <1>2, <1>3, <1>4, <1>5 DEF GateInv

(* The ends of a poll, and the start of the next one.                      *)
LEMMA RestMoves ==
  ASSUME GateInv
  PROVE  /\ \A kind \in Resting : Outcome(kind) => waiting' \in Waits /\ waiting'.at \in Resting
         /\ \A why \in {"not-mergeable", "unknown-bot", "hosted-review", "human-review",
                        "threads-unavailable", "policy"} :
              Stuck(why) => waiting' \in Waits /\ waiting'.at \in Resting
         /\ \A deferred \in BOOLEAN :
              NextPoll(deferred) => waiting' \in Waits /\ waiting'.at \in Resting
<1>1. waiting \in Waits /\ Idle \in Waits
  BY IdleTyped DEF GateInv, GateTypeOK
<1>2. ASSUME NEW kind \in Resting, Outcome(kind)
      PROVE  waiting' \in Waits /\ waiting'.at \in Resting
  BY <1>1, <1>2 DEF Outcome, Waits, Resting, Awaits
<1>3. ASSUME NEW why \in {"not-mergeable", "unknown-bot", "hosted-review", "human-review",
                          "threads-unavailable", "policy"}, Stuck(why)
      PROVE  waiting' \in Waits /\ waiting'.at \in Resting
  BY <1>1, <1>3 DEF Stuck, Waits, Resting, Awaits
<1>4. ASSUME NEW deferred \in BOOLEAN, NextPoll(deferred)
      PROVE  waiting' \in Waits /\ waiting'.at \in Resting
  <2>1. CASE waiting.poll + 1 < MaxPolls
    <3>1. waiting' = [waiting EXCEPT !.at = "poll", !.poll = waiting.poll + 1,
                                     !.deferred = deferred]
      BY <1>4, <2>1 DEF NextPoll
    <3>2. waiting.poll + 1 \in Nat
      BY <1>1 DEF Waits
    <3> HIDE <1>4
    <3>3. waiting'.at = "poll"
      BY <1>1, <3>1 DEF Waits
    <3> QED
      BY <1>1, <3>1, <3>2, <3>3 DEF Waits, Resting, Awaits
  <2>2. CASE ~(waiting.poll + 1 < MaxPolls)
    <3>1. Outcome("deferred") \/ Stuck("not-mergeable")
      BY <1>4, <2>2 DEF NextPoll
    <3> QED
      BY <3>1, <1>2, <1>3 DEF Resting, Awaits
  <2> QED
    BY <2>1, <2>2
<1> QED
  BY <1>2, <1>3, <1>4

(* What the gate may hand to the fix lane is open, hosted and unanswered.  *)
LEMMA DriveKeeps ==
  ASSUME GateInv, UNCHANGED <<OnGitHub, Recorded, Ghosts>>, waiting.at \notin Between,
         NEW ts \in SUBSET Threads,
         \A t \in ts : t \in Opened /\ ~thread[t].resolved,
         Drive(ts)
  PROVE  GateInv'
<1>1. CASE Stuck("hosted-review")
  BY <1>1, RestMoves, RestKeeps
<1>2. CASE waiting' = [waiting EXCEPT !.at = "fix", !.attempts = @ + 1,
                                      !.fresh = Findings(ts),
                                      !.hash = [t \in Threads |-> thread[t].last]]
  <2>1. /\ waiting \in Waits /\ Findings(ts) \subseteq ts
        /\ [t \in Threads |-> thread[t].last] \in [Threads -> Words]
    BY DEF GateInv, GateTypeOK, Findings, By
  <2>2. waiting' \in Waits
    <3>1. waiting.attempts + 1 \in Nat /\ Findings(ts) \in SUBSET Threads
      BY <2>1 DEF Waits
    <3> HIDE DEF Findings, Words
    <3> QED
      BY <1>2, <2>1, <3>1 DEF Waits, Awaits
  <2>3. waiting'.at = "fix" /\ waiting'.fresh = Findings(ts)
    BY <1>2, <2>1 DEF Waits
  <2>4. GateTypeOK'
    BY <2>2 DEF GateInv, GateTypeOK, OnGitHub, Recorded, Ghosts
  <2>5. \A t \in ts : thread[t].last # "none" /\ Unanswered(t)
    BY DEF GateInv, AnsweredOK, Between, Opened
  <2>6. WorkOK'
    BY <2>1, <2>3, <2>5 DEF WorkOK, Unanswered, OnGitHub, Ghosts
  <2>7. AnsweredOK'
    BY DEF GateInv, AnsweredOK, Unanswered, Between, OnGitHub, Ghosts
  <2>8. ResolvedOK' /\ OneReply'
    BY <2>3 DEF GateInv, ResolvedOK, OneReply, OnGitHub, Recorded, Ghosts
  <2> QED
    BY <2>4, <2>6, <2>7, <2>8 DEF GateInv
<1> QED
  BY <1>1, <1>2 DEF Drive

LEMMA UnreadKeeps ==
  ASSUME GateInv, UNCHANGED <<OnGitHub, Recorded, Ghosts>>, waiting.at \notin Between, Unread
  PROVE  GateInv'
BY RestMoves, RestKeeps DEF Unread

LEMMA AdmittedIs ==
  ASSUME NEW head
  PROVE  /\ Admitted(head) \in SUBSET Threads /\ Stale(head) \in SUBSET Threads
         /\ \A t \in Admitted(head) \cup Stale(head) : t \in Opened /\ ~thread[t].resolved
BY DEF Admitted, Stale, Opened

(* The steps that look, and those that give up.                            *)
LEMMA LooksKeep == ASSUME GateInv, BeginWait \/ Poll \/ Observe \/ Classify PROVE GateInv'
<1>0. waiting \in Waits /\ Idle \in Waits /\ prHead \in Nat
  BY IdleTyped DEF GateInv, GateTypeOK
<1>1. CASE BeginWait
  <2>1. waiting' \in Waits /\ waiting'.at \in Resting
    BY <1>0, <1>1 DEF BeginWait, Waits, Resting, Awaits
  <2> QED
    BY <1>1, <2>1, RestKeeps DEF BeginWait, Between
<1>2. CASE Poll
  <2>0. waiting.at \notin Between /\ UNCHANGED <<OnGitHub, Recorded, Ghosts>>
    BY <1>2 DEF Poll, Between
  <2>1. PICK answer \in Answers :
          \/ \E at \in {"observe", "classify"} :
               waiting' = [waiting EXCEPT !.at = at, !.state = MergeState(answer), !.looks = 0,
                                          !.head = prHead]
          \/ Outcome("resync") \/ NextPoll(FALSE)
    BY <1>2 DEF Poll
  <2>2. MergeState(answer) \in {"UNKNOWN", "CLEAN", "BLOCKED", "BEHIND"}
    BY DEF MergeState, Answers
  <2>3. ASSUME NEW at \in {"observe", "classify"},
               waiting' = [waiting EXCEPT !.at = at, !.state = MergeState(answer), !.looks = 0,
                                          !.head = prHead]
        PROVE  GateInv'
    <3>1. waiting'.at = at
      BY <1>0, <2>3 DEF Waits
    <3> HIDE DEF MergeState
    <3>2. waiting' \in Waits
      BY <1>0, <2>2, <2>3 DEF Waits, Awaits
    <3> QED
      BY <2>0, <3>1, <3>2, RestKeeps DEF Resting, Awaits
  <2>4. CASE Outcome("resync") \/ NextPoll(FALSE)
    BY <2>0, <2>4, RestMoves, RestKeeps DEF Resting, Awaits
  <2> QED
    BY <2>1, <2>3, <2>4
<1>3. CASE Observe
  <2>0. waiting.at \notin Between /\ UNCHANGED <<OnGitHub, Recorded, Ghosts>>
    BY <1>3 DEF Observe, Between
  <2>1. CASE Unread
    BY <2>0, <2>1, UnreadKeeps
  <2>2. CASE waiting' = [waiting EXCEPT !.looks = @ + 1]
    <3>1. waiting' \in Waits /\ waiting'.at = "observe"
      BY <1>0, <1>3, <2>2 DEF Observe, Waits
    <3> QED
      BY <2>0, <3>1, RestKeeps DEF Resting, Awaits
  <2>3. CASE Outcome("mergeable")
    BY <2>0, <2>3, RestMoves, RestKeeps DEF Resting, Awaits
  <2>4. CASE Drive(Admitted(waiting.head))
    BY <2>0, <2>4, AdmittedIs, DriveKeeps
  <2>5. CASE Stuck(CauseOf(Admitted(waiting.head))) /\ Admitted(waiting.head) # {}
    <3>1. CauseOf(Admitted(waiting.head)) \in {"unknown-bot", "hosted-review", "human-review"}
      BY <2>5 DEF CauseOf
    <3> QED
      BY <2>0, <2>5, <3>1, RestMoves, RestKeeps
  <2> QED
    BY <1>3, <2>1, <2>2, <2>3, <2>4, <2>5 DEF Observe
<1>4. CASE Classify
  <2>0. waiting.at \notin Between /\ UNCHANGED <<OnGitHub, Recorded, Ghosts>>
    BY <1>4 DEF Classify, Between
  <2>1. CASE Unread
    BY <2>0, <2>1, UnreadKeeps
  <2>2. ASSUME NEW cause \in MergeBlock(waiting.head),
               CASE cause = "wait" -> NextPoll(FALSE)
                 [] cause = "hosted-review" ->
                      Drive(IF Admitted(waiting.head) # {} THEN Admitted(waiting.head)
                            ELSE Stale(waiting.head))
                 [] OTHER -> Stuck(cause)
        PROVE  GateInv'
    <3>1. cause \in {"wait", "policy", "unknown-bot", "hosted-review", "human-review"}
      BY DEF MergeBlock, CauseOf
    <3>2. CASE cause = "wait"
      <4>1. NextPoll(FALSE)
        BY <2>2, <3>2
      <4> QED
        BY <2>0, <4>1, RestMoves, RestKeeps
    <3>3. CASE cause = "hosted-review"
      <4>1. Drive(Admitted(waiting.head)) \/ Drive(Stale(waiting.head))
        BY <2>2, <3>3
      <4> QED
        BY <2>0, <4>1, AdmittedIs, DriveKeeps
    <3>4. CASE cause \in {"policy", "unknown-bot", "human-review"}
      <4>1. Stuck(cause)
        BY <2>2, <3>4
      <4> QED
        BY <2>0, <3>4, <4>1, RestMoves, RestKeeps
    <3> QED
      BY <3>1, <3>2, <3>3, <3>4
  <2> QED
    BY <1>4, <2>1, <2>2 DEF Classify
<1> QED
  BY <1>1, <1>2, <1>3, <1>4

(* The fix lane: what it returns is part of what it was given.             *)
LEMMA FixKeeps == ASSUME GateInv, HostedFix \/ VerifyClaim PROVE GateInv'
<1>0. waiting \in Waits /\ Idle \in Waits /\ prHead \in Nat
  BY IdleTyped DEF GateInv, GateTypeOK
<1>1. CASE HostedFix
  <2>1. PICK pushes \in BOOLEAN, todo \in SUBSET waiting.fresh, fixed \in SUBSET waiting.fresh :
          /\ prHead' = IF pushes THEN prHead + 1 ELSE prHead
          /\ waiting' = IF todo = {} THEN [Idle EXCEPT !.at = "stuck", !.why = "hosted-review"]
                        ELSE [waiting EXCEPT !.at = "verify", !.todo = todo, !.fixed = fixed]
    <3>1. PICK pushes \in BOOLEAN, todo \in SUBSET waiting.fresh :
            \E fixed \in SUBSET todo :
              /\ prHead' = IF pushes THEN prHead + 1 ELSE prHead
              /\ waiting' = IF todo = {} THEN [Idle EXCEPT !.at = "stuck", !.why = "hosted-review"]
                            ELSE [waiting EXCEPT !.at = "verify", !.todo = todo, !.fixed = fixed]
      BY <1>1 DEF HostedFix
    <3> QED
      BY <3>1
  <2>2. waiting.at = "fix" /\ waiting.fresh \in SUBSET Threads
    BY <1>0, <1>1 DEF HostedFix, Waits
  <2>3. /\ thread' = thread /\ repliedTo' = repliedTo /\ resolvedBy' = resolvedBy
        /\ replies' = replies /\ torn' = torn /\ prHead' \in Nat
    <3>1. prHead' = prHead \/ prHead' = prHead + 1
      BY <2>1
    <3>2. prHead' \in Nat
      BY <1>0, <3>1
    <3>3. UNCHANGED <<thread, Recorded, Ghosts>>
      BY <1>1 DEF HostedFix
    <3> QED
      BY <3>2, <3>3 DEF Recorded, Ghosts
  <2>4. waiting' \in Waits /\ waiting'.at \in {"stuck", "verify"}
        /\ (waiting'.at = "verify" => waiting'.todo = todo)
    <3>1. CASE todo = {}
      BY <1>0, <2>1, <3>1 DEF Waits, Awaits
    <3>2. CASE todo # {}
      BY <1>0, <2>1, <2>2, <3>2 DEF Waits, Awaits
    <3> QED
      BY <3>1, <3>2
  <2>5. GateTypeOK'
    BY <2>3, <2>4 DEF GateInv, GateTypeOK
  <2>6. WorkOK'
    BY <2>1, <2>2, <2>3, <2>4 DEF GateInv, WorkOK, Unanswered
  <2>7. AnsweredOK' /\ ResolvedOK' /\ OneReply'
    BY <2>2, <2>3, <2>4 DEF GateInv, AnsweredOK, ResolvedOK, OneReply, Unanswered
  <2> QED
    BY <2>5, <2>6, <2>7 DEF GateInv
<1>2. CASE VerifyClaim
  <2>0. waiting.at = "verify" /\ UNCHANGED <<OnGitHub, Recorded, Ghosts>>
    BY <1>2 DEF VerifyClaim
  <2>1. CASE Stuck("hosted-review")
    BY <2>0, <2>1, RestMoves, RestKeeps DEF Between
  <2>2. CASE Goto("dispose")
    <3>1. waiting' \in Waits /\ waiting'.at = "dispose" /\ waiting'.todo = waiting.todo
      BY <1>0, <2>2 DEF Goto, Waits, Awaits
    <3>2. GateTypeOK'
      BY <2>0, <3>1 DEF GateInv, GateTypeOK, OnGitHub, Recorded, Ghosts
    <3>3. WorkOK' /\ AnsweredOK' /\ ResolvedOK' /\ OneReply'
      BY <2>0, <3>1 DEF GateInv, WorkOK, AnsweredOK, ResolvedOK, OneReply, Unanswered,
                        OnGitHub, Recorded, Ghosts
    <3> QED
      BY <3>2, <3>3 DEF GateInv
  <2> QED
    BY <1>2, <2>1, <2>2 DEF VerifyClaim
<1> QED
  BY <1>1, <1>2

(* What moving to an await, or being done with a conversation, leaves.     *)
LEMMA GotoIs ==
  ASSUME waiting \in Waits, NEW at \in Awaits, Goto(at)
  PROVE  /\ waiting' \in Waits /\ waiting'.at = at /\ waiting'.cur = waiting.cur
         /\ waiting'.todo = waiting.todo
BY DEF Goto, Waits

LEMMA DoneIs ==
  ASSUME waiting \in Waits, NEW t \in Threads, DoneWith(t)
  PROVE  /\ waiting' \in Waits /\ waiting'.at = "dispose"
         /\ waiting'.todo = waiting.todo \ {t}
<1>1. waiting' = [waiting EXCEPT !.at = "dispose", !.todo = waiting.todo \ {t}, !.cur = t]
  BY DEF DoneWith
<1>2. waiting.todo \ {t} \in SUBSET Threads /\ t \in Threads \cup {"none"}
  BY DEF Waits
<1> QED
  BY <1>1, <1>2 DEF Waits, Awaits

(* The four writes of a disposition.                                       *)
LEMMA DisposalKeeps ==
  ASSUME GateInv, Dispose \/ Reply \/ RecordReply \/ Resolve \/ RecordResolve
  PROVE  GateInv'
<1>0. waiting \in Waits /\ waiting.todo \in SUBSET Threads
  BY DEF GateInv, GateTypeOK, Waits
<1>1. CASE Dispose
  <2>0. waiting.at = "dispose" /\ UNCHANGED <<OnGitHub, Recorded, Ghosts>>
    BY <1>1 DEF Dispose, Disposing
  <2>1. CASE NextPoll(FALSE)
    BY <2>0, <2>1, RestMoves, RestKeeps DEF Between
  <2>2. ASSUME NEW t \in waiting.todo, NEW at \in {"reply", "resolve"},
               waiting' = [waiting EXCEPT !.at = at, !.cur = t]
        PROVE  GateInv'
    <3>1. /\ waiting' \in Waits /\ waiting'.at = at /\ waiting'.cur = t
          /\ waiting'.todo = waiting.todo
      BY <1>0, <2>2 DEF Waits, Awaits
    <3>2. GateTypeOK'
      BY <2>0, <3>1 DEF GateInv, GateTypeOK, OnGitHub, Recorded, Ghosts
    <3>3. WorkOK'
      BY <2>0, <3>1 DEF GateInv, WorkOK, Unanswered, OnGitHub, Ghosts
    <3>4. AnsweredOK' /\ ResolvedOK' /\ OneReply'
      BY <2>0, <3>1 DEF GateInv, AnsweredOK, ResolvedOK, OneReply, Unanswered,
                        OnGitHub, Recorded, Ghosts
    <3> QED
      BY <3>2, <3>3, <3>4 DEF GateInv
  <2> QED
    BY <1>1, <2>1, <2>2 DEF Dispose
<1>2. CASE Reply
  <2>0. /\ waiting.at = "reply" /\ waiting.cur \in waiting.todo /\ waiting.cur \in Threads
        /\ Unanswered(waiting.cur)
    BY <1>0, <1>2 DEF Reply, Disposing, GateInv, WorkOK
  <2>1. /\ waiting' \in Waits /\ waiting'.at = "record-reply"
        /\ waiting'.cur = waiting.cur /\ waiting'.todo = waiting.todo
    BY <1>0, <1>2, GotoIs DEF Reply, Awaits
  <2>2. /\ thread' \in [Threads -> [last : Words, sha : Nat, resolved : BOOLEAN]]
        /\ \A t \in Threads : thread'[t].resolved = thread[t].resolved
        /\ \A t \in Threads : thread[t].last # "none" => thread'[t].last # "none"
        /\ \A t \in Threads \ {waiting.cur} : thread'[t] = thread[t]
    BY <1>2, <2>0 DEF Reply, GateInv, GateTypeOK, Words
  <2>3. /\ replies' \in [Threads -> Nat] /\ replies'[waiting.cur] = replies[waiting.cur] + 1
        /\ \A t \in Threads \ {waiting.cur} : replies'[t] = replies[t]
    BY <1>2, <2>0 DEF Reply, GateInv, GateTypeOK
  <2>4. prHead' = prHead /\ repliedTo' = repliedTo /\ resolvedBy' = resolvedBy /\ torn' = torn
    BY <1>2 DEF Reply, Recorded
  <2>5. GateTypeOK'
    BY <2>1, <2>2, <2>3, <2>4 DEF GateInv, GateTypeOK
  <2>6. WorkOK'
    <3>1. \A t \in waiting.todo : t = waiting.cur \/ Unanswered(t)'
      BY <1>0, <2>0, <2>3, <2>4 DEF GateInv, WorkOK, Unanswered
    <3>2. \A t \in waiting.todo : thread'[t].last # "none"
      BY <1>0, <2>0, <2>2 DEF GateInv, WorkOK
    <3> QED
      BY <2>0, <2>1, <3>1, <3>2 DEF WorkOK
  <2>7. AnsweredOK'
    BY <2>0, <2>1, <2>2, <2>3, <2>4 DEF GateInv, AnsweredOK, Unanswered
  <2>8. ResolvedOK'
    <3>1. \A t \in Threads : thread'[t].last = "none" => ~thread'[t].resolved
      BY <2>2 DEF GateInv, ResolvedOK
    <3>2. \A t \in resolvedBy' : thread'[t].resolved \/ t \in torn'
      BY <2>2, <2>4 DEF GateInv, ResolvedOK, GateTypeOK
    <3> QED
      BY <2>1, <3>1, <3>2 DEF ResolvedOK
  <2>9. OneReply'
    BY <2>0, <2>3, <2>4 DEF GateInv, OneReply, Unanswered, GateTypeOK
  <2> QED
    BY <2>5, <2>6, <2>7, <2>8, <2>9 DEF GateInv
<1>3. CASE RecordReply
  <2>1. /\ waiting' \in Waits /\ waiting'.at = "resolve" /\ waiting.at = "record-reply"
        /\ waiting'.cur = waiting.cur /\ waiting'.todo = waiting.todo
    BY <1>0, <1>3, GotoIs DEF RecordReply, Disposing, Awaits
  <2>2. /\ thread' = thread /\ prHead' = prHead /\ resolvedBy' = resolvedBy
        /\ replies' = replies /\ torn' = torn
    BY <1>3 DEF RecordReply, OnGitHub, Ghosts
  <2>3. repliedTo' \in [Threads -> Words]
    <3>1. waiting.cur \in Threads /\ waiting.hash[waiting.cur] \in Words
      BY <1>0, <2>1 DEF GateInv, WorkOK, Waits
    <3> HIDE DEF Words
    <3> QED
      BY <1>3, <3>1 DEF RecordReply, GateInv, GateTypeOK
  <2>4. GateTypeOK'
    BY <2>1, <2>2, <2>3 DEF GateInv, GateTypeOK
  <2>5. WorkOK' /\ AnsweredOK' /\ ResolvedOK' /\ OneReply'
    BY <2>1, <2>2 DEF GateInv, WorkOK, AnsweredOK, ResolvedOK, OneReply, Unanswered
  <2> QED
    BY <2>4, <2>5 DEF GateInv
<1>4. CASE Resolve
  <2>0. /\ waiting.at = "resolve" /\ waiting.cur \in waiting.todo /\ waiting.cur \in Threads
        /\ thread[waiting.cur].last # "none"
        /\ \A t \in waiting.todo : thread[t].last # "none"
    BY <1>0, <1>4 DEF Resolve, Disposing, GateInv, WorkOK
  <2>1. /\ prHead' = prHead /\ repliedTo' = repliedTo /\ resolvedBy' = resolvedBy
        /\ replies' = replies /\ torn' = torn
    BY <1>4 DEF Resolve, Recorded, Ghosts
  <2>2. CASE waiting.cur \in resolvedBy /\ DoneWith(waiting.cur) /\ UNCHANGED thread
    <3>1. /\ waiting' \in Waits /\ waiting'.at = "dispose"
          /\ waiting'.todo = waiting.todo \ {waiting.cur}
      BY <1>0, <2>0, <2>2, DoneIs
    <3>2. GateTypeOK'
      BY <2>1, <2>2, <3>1 DEF GateInv, GateTypeOK
    <3>3. WorkOK' /\ AnsweredOK' /\ ResolvedOK' /\ OneReply'
      BY <2>0, <2>1, <2>2, <3>1 DEF GateInv, WorkOK, AnsweredOK, ResolvedOK, OneReply, Unanswered
    <3> QED
      BY <3>2, <3>3 DEF GateInv
  <2>3. CASE /\ Goto("record-resolve")
             /\ thread' = [thread EXCEPT ![waiting.cur].resolved = TRUE]
    <3>1. /\ waiting' \in Waits /\ waiting'.at = "record-resolve"
          /\ waiting'.cur = waiting.cur /\ waiting'.todo = waiting.todo
      BY <1>0, <2>3, GotoIs DEF Awaits
    <3>2. /\ thread' \in [Threads -> [last : Words, sha : Nat, resolved : BOOLEAN]]
          /\ thread'[waiting.cur].resolved = TRUE
          /\ \A t \in Threads : thread'[t].last = thread[t].last
          /\ \A t \in Threads \ {waiting.cur} : thread'[t] = thread[t]
      BY <2>0, <2>3 DEF GateInv, GateTypeOK
    <3>3. GateTypeOK'
      BY <2>1, <3>1, <3>2 DEF GateInv, GateTypeOK
    <3>4. WorkOK'
      BY <1>0, <2>0, <2>1, <3>1, <3>2 DEF GateInv, WorkOK, Unanswered
    <3>5. AnsweredOK'
      BY <2>0, <2>1, <3>1, <3>2 DEF GateInv, AnsweredOK, Unanswered
    <3>6. ResolvedOK'
      BY <2>0, <2>1, <3>1, <3>2 DEF GateInv, ResolvedOK, GateTypeOK
    <3>7. OneReply'
      BY <2>1 DEF GateInv, OneReply
    <3> QED
      BY <3>3, <3>4, <3>5, <3>6, <3>7 DEF GateInv
  <2> QED
    BY <1>4, <2>2, <2>3 DEF Resolve
<1>5. CASE RecordResolve
  <2>0. /\ waiting.at = "record-resolve" /\ waiting.cur \in waiting.todo
        /\ waiting.cur \in Threads
    BY <1>0, <1>5 DEF RecordResolve, Disposing, GateInv, WorkOK
  <2>1. /\ waiting' \in Waits /\ waiting'.at = "dispose"
        /\ waiting'.todo = waiting.todo \ {waiting.cur}
    BY <1>0, <1>5, <2>0, DoneIs DEF RecordResolve
  <2>2. /\ thread' = thread /\ prHead' = prHead /\ repliedTo' = repliedTo
        /\ resolvedBy' = resolvedBy \cup {waiting.cur} /\ replies' = replies /\ torn' = torn
    BY <1>5 DEF RecordResolve, OnGitHub, Ghosts
  <2>3. GateTypeOK'
    BY <2>0, <2>1, <2>2 DEF GateInv, GateTypeOK
  <2>4. WorkOK' /\ AnsweredOK' /\ ResolvedOK' /\ OneReply'
    BY <2>0, <2>1, <2>2 DEF GateInv, WorkOK, AnsweredOK, ResolvedOK, OneReply, Unanswered
  <2> QED
    BY <2>3, <2>4 DEF GateInv
<1> QED
  BY <1>1, <1>2, <1>3, <1>4, <1>5

(* A cut, and what reviewers and other people do meanwhile.                *)
LEMMA WorldKeeps ==
  ASSUME GateInv,
         GateCut \/ OtherPush \/ \E t \in Threads : OpenThread(t) \/ SpeaksAgain(t) \/ Reopens(t)
  PROVE  GateInv'
<1>0. waiting \in Waits /\ Idle \in Waits /\ waiting.todo \in SUBSET Threads
      /\ waiting.fresh \in SUBSET Threads
  BY IdleTyped DEF GateInv, GateTypeOK, Waits
<1>1. CASE GateCut
  <2>1. waiting' \in Waits /\ waiting'.at = "idle"
    BY <1>0, <1>1 DEF GateCut, Outcome, Waits, Awaits
  <2>2. /\ thread' = thread /\ prHead' = prHead /\ repliedTo' = repliedTo
        /\ resolvedBy' = resolvedBy /\ replies' = replies /\ torn \subseteq torn'
        /\ torn' \in SUBSET Threads
        /\ (waiting.at \in Between => waiting.cur \in torn')
    BY <1>0, <1>1 DEF GateCut, OnGitHub, Recorded, Between, GateInv, GateTypeOK, WorkOK
  <2>3. GateTypeOK'
    BY <2>1, <2>2 DEF GateInv, GateTypeOK
  <2>4. WorkOK' /\ AnsweredOK' /\ ResolvedOK' /\ OneReply'
    BY <2>1, <2>2 DEF GateInv, WorkOK, AnsweredOK, ResolvedOK, OneReply, Unanswered, Between
  <2> QED
    BY <2>3, <2>4 DEF GateInv
<1>2. CASE OtherPush
  <2>1. /\ prHead' \in Nat /\ thread' = thread /\ waiting' = waiting /\ repliedTo' = repliedTo
        /\ resolvedBy' = resolvedBy /\ replies' = replies /\ torn' = torn
    BY <1>2 DEF OtherPush, Recorded, Ghosts, GateInv, GateTypeOK
  <2>2. GateTypeOK'
    BY <2>1 DEF GateInv, GateTypeOK
  <2> QED
    BY <2>1, <2>2 DEF GateInv, WorkOK, AnsweredOK, ResolvedOK, OneReply, Unanswered
<1>3. ASSUME NEW t \in Threads, OpenThread(t) PROVE GateInv'
  <2>1. /\ prHead' = prHead /\ waiting' = waiting /\ repliedTo' = repliedTo
        /\ resolvedBy' = resolvedBy /\ replies' = replies /\ torn' = torn
    BY <1>3 DEF OpenThread, Recorded, Ghosts
  <2>2. /\ thread' \in [Threads -> [last : Words, sha : Nat, resolved : BOOLEAN]]
        /\ thread'[t].last = "finding" /\ ~thread'[t].resolved /\ ~thread[t].resolved
        /\ thread[t].last = "none"
        /\ \A u \in Threads \ {t} : thread'[u] = thread[u]
    BY <1>3 DEF OpenThread, GateInv, GateTypeOK, ResolvedOK, Words
  <2>3. GateTypeOK'
    BY <2>1, <2>2 DEF GateInv, GateTypeOK
  <2>4. WorkOK'
    BY <1>0, <2>1, <2>2 DEF GateInv, WorkOK, Unanswered
  <2>5. AnsweredOK' /\ OneReply'
    BY <2>1, <2>2 DEF GateInv, AnsweredOK, OneReply, Unanswered
  <2>6. ResolvedOK'
    <3>1. waiting.at = "record-resolve" => waiting.cur \in Threads
      BY <1>0 DEF GateInv, WorkOK
    <3> QED
      BY <2>1, <2>2, <3>1 DEF GateInv, ResolvedOK, GateTypeOK
  <2> QED
    BY <2>3, <2>4, <2>5, <2>6 DEF GateInv
<1>4. ASSUME NEW t \in Threads, SpeaksAgain(t) PROVE GateInv'
  <2>1. /\ prHead' = prHead /\ waiting' = waiting /\ repliedTo' = repliedTo
        /\ resolvedBy' = resolvedBy /\ torn' = torn
    BY <1>4 DEF SpeaksAgain, Recorded
  <2>2. /\ thread' \in [Threads -> [last : Words, sha : Nat, resolved : BOOLEAN]]
        /\ thread'[t].last = "again"
        /\ \A u \in Threads : thread'[u].resolved = thread[u].resolved
        /\ \A u \in Threads \ {t} : thread'[u] = thread[u]
    BY <1>4 DEF SpeaksAgain, GateInv, GateTypeOK, Words
  <2>3. /\ replies' \in [Threads -> Nat] /\ replies'[t] = 0
        /\ \A u \in Threads \ {t} : replies'[u] = replies[u]
    BY <1>4 DEF SpeaksAgain, GateInv, GateTypeOK
  <2>4. GateTypeOK'
    BY <2>1, <2>2, <2>3 DEF GateInv, GateTypeOK
  <2>5. WorkOK'
    BY <1>0, <2>1, <2>2, <2>3 DEF GateInv, WorkOK, Unanswered
  <2>6. AnsweredOK' /\ OneReply'
    BY <2>1, <2>2, <2>3 DEF GateInv, AnsweredOK, OneReply, Unanswered
  <2>7. ResolvedOK'
    <3>1. waiting.at = "record-resolve" => waiting.cur \in Threads
      BY <1>0 DEF GateInv, WorkOK
    <3>2. \A u \in Threads : thread'[u].last = "none" => ~thread'[u].resolved
      BY <2>2 DEF GateInv, ResolvedOK
    <3> QED
      BY <2>1, <2>2, <3>1, <3>2 DEF GateInv, ResolvedOK, GateTypeOK
  <2> QED
    BY <2>4, <2>5, <2>6, <2>7 DEF GateInv
<1>5. ASSUME NEW t \in Threads, Reopens(t) PROVE GateInv'
  <2>1. /\ prHead' = prHead /\ waiting' = waiting /\ repliedTo' = repliedTo
        /\ resolvedBy' = resolvedBy /\ replies' = replies /\ torn' = torn \cup {t}
    BY <1>5 DEF Reopens, Recorded
  <2>2. /\ thread' \in [Threads -> [last : Words, sha : Nat, resolved : BOOLEAN]]
        /\ ~thread'[t].resolved
        /\ \A u \in Threads : thread'[u].last = thread[u].last
        /\ \A u \in Threads \ {t} : thread'[u] = thread[u]
    BY <1>5 DEF Reopens, GateInv, GateTypeOK
  <2>3. GateTypeOK'
    BY <2>1, <2>2 DEF GateInv, GateTypeOK
  <2>4. WorkOK'
    BY <1>0, <2>1, <2>2 DEF GateInv, WorkOK, Unanswered
  <2>5. AnsweredOK' /\ OneReply'
    BY <2>1, <2>2 DEF GateInv, AnsweredOK, OneReply, Unanswered
  <2>6. ResolvedOK'
    <3>1. waiting.at = "record-resolve" => waiting.cur \in Threads
      BY <1>0 DEF GateInv, WorkOK
    <3> QED
      BY <2>1, <2>2, <3>1 DEF GateInv, ResolvedOK, GateTypeOK
  <2> QED
    BY <2>3, <2>4, <2>5, <2>6 DEF GateInv
<1> QED
  BY <1>1, <1>2, <1>3, <1>4, <1>5

LEMMA GateStep == ASSUME GateInv, [GateNext]_gateVars PROVE GateInv'
<1>1. CASE GateDrive \/ BeginWait
  BY <1>1, LooksKeep, FixKeeps, DisposalKeeps DEF GateDrive
<1>2. CASE GateCut \/ OtherPush \/ \E t \in Threads : OpenThread(t) \/ SpeaksAgain(t) \/ Reopens(t)
  BY <1>2, WorldKeeps
<1>3. CASE UNCHANGED gateVars
  BY <1>3 DEF gateVars, GateInv, GateTypeOK, WorkOK, AnsweredOK, ResolvedOK, OneReply, Unanswered
<1> QED
  BY <1>1, <1>2, <1>3 DEF GateNext

(***************************************************************************)
(* A conversation gets one reply for each word of its reviewer, however    *)
(* many polls, pushes and fix attempts the wait takes, unless a disposition*)
(* was cut between its reply and its resolution or the thread was reopened.*)
(* The reason: what the gate admits is unresolved, a reply is followed by  *)
(* the resolution before the next look, and only a cut can part the two.   *)
(***************************************************************************)
THEOREM OneReplyEach == GateSpec => []OneReply
<1>1. GateInit => GateInv
  BY InitGate
<1>2. GateInv /\ [GateNext]_gateVars => GateInv'
  BY GateStep
<1>3. GateInv => OneReply
  BY DEF GateInv
<1> QED
  BY <1>1, <1>2, <1>3, PTL DEF GateSpec

-----------------------------------------------------------------------------
(* The blockers the master is told of.                                     *)

KnownAuthors == \A t \in Threads : AuthorOf[t] \in {"hosted", "human", "bot"}

Finding(t) == AuthorOf[t] = "hosted" /\ t \in Opened /\ ~thread[t].resolved

(* The fix lane holds findings that stay open until they are disposed of.  *)
LaneOK ==
  /\ waiting.at = "fix" => waiting.fresh # {} /\ \A t \in waiting.fresh : Finding(t)
  /\ waiting.at = "verify" => waiting.todo # {} /\ \A t \in waiting.todo : Finding(t)

Blamed(why) ==
  /\ why = "hosted-review" => \E t \in By("hosted", Opened) : ~thread[t].resolved
  /\ why = "human-review" => By("human", Admitted(waiting.head)) # {}
  /\ why \in {"policy", "not-mergeable"} /\ waiting.at \in {"classify", "observe"}
       => Admitted(waiting.head) = {}
Blames == waiting'.at = "stuck" /\ waiting.at # "stuck" => Blamed(waiting'.why)

LEMMA EndsAre ==
  ASSUME GateInv
  PROVE  /\ \A kind \in Resting : Outcome(kind) => waiting'.at = kind
         /\ \A why : Stuck(why) => waiting'.at = "stuck" /\ waiting'.why = why
         /\ NextPoll(TRUE) => waiting'.at \in {"poll", "deferred"}
         /\ NextPoll(FALSE) =>
              waiting'.at = "poll" \/ (waiting'.at = "stuck" /\ waiting'.why = "not-mergeable")
<1>1. waiting \in Waits /\ Idle \in Waits
  BY IdleTyped DEF GateInv, GateTypeOK
<1>2. \A kind \in Resting : Outcome(kind) => waiting'.at = kind
  BY <1>1 DEF Outcome, Waits
<1>3. \A why : Stuck(why) => waiting'.at = "stuck" /\ waiting'.why = why
  BY <1>1 DEF Stuck, Waits
<1>4. ASSUME NEW deferred \in BOOLEAN, NextPoll(deferred)
      PROVE  \/ waiting'.at \in {"poll", "deferred"}
             \/ ~deferred /\ waiting'.at = "stuck" /\ waiting'.why = "not-mergeable"
  <2>1. CASE waiting.poll + 1 < MaxPolls
    <3>1. waiting' = [waiting EXCEPT !.at = "poll", !.poll = waiting.poll + 1, !.deferred = deferred]
      BY <1>4, <2>1 DEF NextPoll
    <3>2. waiting'.at = "poll"
      BY <1>1, <3>1 DEF Waits
    <3>. QED  BY <3>2
  <2>2. CASE ~(waiting.poll + 1 < MaxPolls)
    <3>1. IF deferred THEN Outcome("deferred") ELSE Stuck("not-mergeable")
      BY <1>4, <2>2 DEF NextPoll
    <3>. QED  BY <1>2, <1>3, <3>1 DEF Resting, Awaits
  <2>. QED  BY <2>1, <2>2
<1>5. NextPoll(TRUE) => waiting'.at \in {"poll", "deferred"}
  BY <1>4
<1>6. ASSUME NextPoll(FALSE)
      PROVE  waiting'.at = "poll" \/ (waiting'.at = "stuck" /\ waiting'.why = "not-mergeable")
  <2>1. \/ \E n \in Nat : waiting' = [waiting EXCEPT !.at = "poll", !.poll = n, !.deferred = FALSE]
        \/ Stuck("not-mergeable")
    <3>1. waiting.poll + 1 \in Nat
      BY <1>1 DEF Waits
    <3>. QED  BY <1>6, <3>1 DEF NextPoll
  <2>2. CASE Stuck("not-mergeable")
    BY <1>3, <2>2
  <2>3. CASE \E n \in Nat : waiting' = [waiting EXCEPT !.at = "poll", !.poll = n, !.deferred = FALSE]
    <3>1. waiting'.at = "poll"
      BY <1>1, <2>3 DEF Waits
    <3>. QED  BY <3>1
  <2>. QED  BY <2>1, <2>2, <2>3
<1>. QED
  BY <1>2, <1>3, <1>5, <1>6

LEMMA UnreadBlames == ASSUME GateInv, Unread PROVE waiting'.at \notin {"fix", "verify"} /\ Blames
<1>1. NextPoll(TRUE) \/ Stuck("threads-unavailable")
  BY DEF Unread
<1>2. CASE NextPoll(TRUE)
  <2>1. waiting'.at \in {"poll", "deferred"}
    BY <1>2, EndsAre
  <2>. QED  BY <2>1 DEF Blames
<1>3. CASE Stuck("threads-unavailable")
  <2>1. waiting'.at = "stuck" /\ waiting'.why = "threads-unavailable"
    BY <1>3, EndsAre
  <2>. QED  BY <2>1 DEF Blames, Blamed
<1>. QED
  BY <1>1, <1>2, <1>3

LEMMA DriveBlames ==
  ASSUME GateInv, UNCHANGED thread, NEW ts \in SUBSET Opened, \A t \in ts : ~thread[t].resolved,
         By("hosted", ts) # {}, Drive(ts)
  PROVE  LaneOK' /\ Blames
<1>1. CASE Stuck("hosted-review")
  <2>1. waiting'.at = "stuck" /\ waiting'.why = "hosted-review"
    BY <1>1, EndsAre
  <2>2. \E t \in By("hosted", Opened) : ~thread[t].resolved
    BY DEF By
  <2>. QED  BY <2>1, <2>2 DEF LaneOK, Blames, Blamed
<1>2. CASE /\ Findings(ts) # {}
           /\ waiting' = [waiting EXCEPT !.at = "fix", !.attempts = @ + 1, !.fresh = Findings(ts),
                                         !.hash = [t \in Threads |-> thread[t].last]]
  <2>1. waiting'.at = "fix" /\ waiting'.fresh = Findings(ts)
    BY <1>2 DEF GateInv, GateTypeOK, Waits
  <2>2. \A t \in Findings(ts) : Finding(t)'
    BY DEF Findings, By, Finding, Opened
  <2>. QED  BY <1>2, <2>1, <2>2 DEF LaneOK, Blames
<1>. QED
  BY <1>1, <1>2 DEF Drive

LEMMA LooksBlame ==
  ASSUME KnownAuthors, GateInv, LaneOK, BeginWait \/ Poll \/ Observe \/ Classify
  PROVE  LaneOK' /\ Blames
<1>0. waiting \in Waits /\ Idle \in Waits /\ UNCHANGED thread
  BY IdleTyped DEF GateInv, GateTypeOK, BeginWait, Poll, Observe, Classify, OnGitHub
<1>1. CASE BeginWait
  <2>1. waiting'.at = "poll"
    BY <1>0, <1>1 DEF BeginWait, Waits
  <2>. QED  BY <2>1 DEF LaneOK, Blames
<1>2. CASE Poll
  <2>1. \/ waiting'.at \in {"observe", "classify"}
        \/ Outcome("resync") \/ NextPoll(FALSE)
    <3>1. \/ \E at \in {"observe", "classify"}, state \in {"UNKNOWN", "CLEAN", "BLOCKED", "BEHIND"} :
               waiting' = [waiting EXCEPT !.at = at, !.state = state, !.looks = 0, !.head = prHead]
          \/ Outcome("resync") \/ NextPoll(FALSE)
      BY <1>2 DEF Poll, MergeState, Answers
    <3>. QED  BY <1>0, <3>1 DEF Waits
  <2>2. waiting.at = "poll"
    BY <1>2 DEF Poll
  <2>. QED  BY <2>1, <2>2, EndsAre DEF LaneOK, Blames, Blamed, Resting, Awaits
<1>3. CASE Observe
  <2> DEFINE ts == Admitted(waiting.head)
  <2>1. CASE Unread
    BY <2>1, UnreadBlames DEF LaneOK
  <2>2. CASE waiting' = [waiting EXCEPT !.looks = @ + 1]
    <3>1. waiting'.at = "observe"
      BY <1>0, <1>3, <2>2 DEF Observe, Waits
    <3>. QED  BY <3>1 DEF LaneOK, Blames
  <2>3. CASE Outcome("mergeable")
    BY <2>3, EndsAre DEF LaneOK, Blames, Resting, Awaits
  <2>4. CASE Drive(ts) /\ CauseOf(ts) = "hosted-review"
    <3>1. By("hosted", ts) # {}
      BY <2>4 DEF CauseOf
    <3>2. ts \in SUBSET Opened /\ \A t \in ts : ~thread[t].resolved
      BY DEF Admitted
    <3>. QED  BY <1>0, <2>4, <3>1, <3>2, DriveBlames
  <2>5. CASE Stuck(CauseOf(ts)) /\ ts # {} /\ CauseOf(ts) # "hosted-review"
    <3>1. waiting'.at = "stuck" /\ waiting'.why = CauseOf(ts) /\ CauseOf(ts) \in {"unknown-bot", "human-review"}
      BY <2>5, EndsAre DEF CauseOf
    <3>2. CauseOf(ts) = "human-review" => By("human", ts) # {}
      BY <2>5 DEF CauseOf, By, Admitted, Opened, KnownAuthors
    <3>. QED  BY <3>1, <3>2 DEF LaneOK, Blames, Blamed
  <2>. QED
    BY <1>3, <2>1, <2>2, <2>3, <2>4, <2>5 DEF Observe
<1>4. CASE Classify
  <2> DEFINE now == Admitted(waiting.head)
  <2>1. CASE Unread
    BY <2>1, UnreadBlames DEF LaneOK
  <2>2. ASSUME NEW cause \in MergeBlock(waiting.head),
               CASE cause = "wait" -> NextPoll(FALSE)
                 [] cause = "hosted-review" -> Drive(IF now # {} THEN now ELSE Stale(waiting.head))
                 [] OTHER -> Stuck(cause)
        PROVE  LaneOK' /\ Blames
    <3>1. CASE cause = "wait"
      <4>1. NextPoll(FALSE) /\ now = {}
        BY <2>2, <3>1 DEF MergeBlock, CauseOf
      <4>2. waiting'.at = "poll" \/ (waiting'.at = "stuck" /\ waiting'.why = "not-mergeable")
        BY <4>1, EndsAre
      <4>. QED  BY <4>1, <4>2 DEF LaneOK, Blames, Blamed
    <3>2. CASE cause = "hosted-review"
      <4>1. Drive(IF now # {} THEN now ELSE Stale(waiting.head))
        BY <2>2, <3>2
      <4>2. By("hosted", IF now # {} THEN now ELSE Stale(waiting.head)) # {}
        BY <3>2 DEF MergeBlock, CauseOf
      <4>3. /\ now \in SUBSET Opened /\ \A t \in now : ~thread[t].resolved
            /\ Stale(waiting.head) \in SUBSET Opened /\ \A t \in Stale(waiting.head) : ~thread[t].resolved
        BY DEF Admitted, Stale
      <4>. QED  BY <1>0, <4>1, <4>2, <4>3, DriveBlames
    <3>3. CASE cause \notin {"wait", "hosted-review"}
      <4>1. Stuck(cause)
        BY <2>2, <3>3
      <4>2. waiting'.at = "stuck" /\ waiting'.why = cause
        BY <4>1, EndsAre
      <4>3. cause = "human-review" => By("human", now) # {}
        BY DEF MergeBlock, CauseOf, By, Admitted, Opened, KnownAuthors
      <4>4. cause = "policy" => now = {}
        BY DEF MergeBlock, CauseOf
      <4>5. cause # "not-mergeable"
        BY DEF MergeBlock, CauseOf
      <4>. QED  BY <3>3, <4>2, <4>3, <4>4, <4>5 DEF LaneOK, Blames, Blamed
    <3>. QED  BY <3>1, <3>2, <3>3
  <2>. QED
    BY <1>4, <2>1, <2>2 DEF Classify
<1>. QED
  BY <1>1, <1>2, <1>3, <1>4

LEMMA FixBlames == ASSUME GateInv, LaneOK, HostedFix \/ VerifyClaim PROVE LaneOK' /\ Blames
<1>0. waiting \in Waits /\ Idle \in Waits /\ UNCHANGED thread
  BY IdleTyped DEF GateInv, GateTypeOK, HostedFix, VerifyClaim, OnGitHub
<1>1. CASE HostedFix
  <2>1. PICK todo \in SUBSET waiting.fresh :
          \E fixed \in SUBSET todo :
            waiting' = IF todo = {} THEN [Idle EXCEPT !.at = "stuck", !.why = "hosted-review"]
                       ELSE [waiting EXCEPT !.at = "verify", !.todo = todo, !.fixed = fixed]
    BY <1>1 DEF HostedFix
  <2>2. waiting.at = "fix" /\ waiting.fresh # {} /\ \A t \in waiting.fresh : Finding(t)
    BY <1>1 DEF HostedFix, LaneOK
  <2>3. CASE todo = {}
    <3>1. waiting'.at = "stuck" /\ waiting'.why = "hosted-review"
      BY <1>0, <2>1, <2>3 DEF Waits
    <3>2. \E t \in By("hosted", Opened) : ~thread[t].resolved
      BY <2>2 DEF By, Finding
    <3>. QED  BY <3>1, <3>2 DEF LaneOK, Blames, Blamed
  <2>4. CASE todo # {}
    <3>1. waiting'.at = "verify" /\ waiting'.todo = todo
      BY <1>0, <2>1, <2>4 DEF Waits
    <3>2. \A t \in todo : Finding(t)'
      BY <1>0, <2>2 DEF Finding, Opened
    <3>. QED  BY <2>4, <3>1, <3>2 DEF LaneOK, Blames
  <2>. QED  BY <2>3, <2>4
<1>2. CASE VerifyClaim
  <2>1. Goto("dispose") \/ Stuck("hosted-review")
    BY <1>2 DEF VerifyClaim
  <2>2. \E t \in By("hosted", Opened) : ~thread[t].resolved
    BY <1>2 DEF VerifyClaim, LaneOK, By, Finding
  <2>3. waiting'.at = "dispose" \/ (waiting'.at = "stuck" /\ waiting'.why = "hosted-review")
    <3>1. Goto("dispose") => waiting'.at = "dispose"
      BY <1>0 DEF Goto, Waits
    <3>2. CASE Stuck("hosted-review")
      BY <3>2, EndsAre
    <3>. QED  BY <2>1, <3>1, <3>2
  <2>. QED  BY <2>2, <2>3 DEF LaneOK, Blames, Blamed
<1>. QED
  BY <1>1, <1>2

LEMMA DisposesBlame ==
  ASSUME GateInv, Dispose \/ Reply \/ RecordReply \/ Resolve \/ RecordResolve
  PROVE  LaneOK' /\ Blames
<1>0. waiting \in Waits
  BY DEF GateInv, GateTypeOK
<1>1. \/ waiting'.at \in {"reply", "resolve", "record-reply", "record-resolve", "dispose"}
      \/ NextPoll(FALSE) /\ waiting.at = "dispose"
  BY <1>0
  DEF Dispose, Reply, RecordReply, Resolve, RecordResolve, Disposing, Goto, DoneWith, Waits
<1>. QED
  BY <1>1, EndsAre DEF LaneOK, Blames, Blamed

(* What others do leaves the wait alone and resolves nothing.              *)
LEMMA OthersBlame ==
  ASSUME GateInv, LaneOK,
         GateCut \/ OtherPush \/ (\E t \in Threads : OpenThread(t) \/ SpeaksAgain(t) \/ Reopens(t))
           \/ UNCHANGED gateVars
  PROVE  LaneOK' /\ Blames
<1>1. CASE GateCut
  <2>1. waiting'.at = "idle"
    BY <1>1, EndsAre DEF GateCut, Resting, Awaits
  <2>. QED  BY <2>1 DEF LaneOK, Blames
<1>2. CASE waiting' = waiting /\ \A t \in Threads : Finding(t) => Finding(t)'
  BY <1>2 DEF LaneOK, Blames, Finding, Opened
<1>3. CASE OtherPush \/ UNCHANGED gateVars
  BY <1>2, <1>3 DEF OtherPush, gateVars, Finding, Opened
<1>4. ASSUME NEW t \in Threads, OpenThread(t) \/ SpeaksAgain(t) \/ Reopens(t)
      PROVE  LaneOK' /\ Blames
  <2>1. waiting' = waiting /\ thread \in [Threads -> [last : Words, sha : Nat, resolved : BOOLEAN]]
    BY <1>4 DEF OpenThread, SpeaksAgain, Reopens, GateInv, GateTypeOK
  <2>2. ASSUME NEW u \in Threads, Finding(u) PROVE Finding(u)'
    <3>1. CASE u = t
      BY <1>4, <2>1, <2>2, <3>1 DEF OpenThread, SpeaksAgain, Reopens, Finding, Opened
    <3>2. CASE u # t
      BY <1>4, <2>1, <2>2, <3>2 DEF OpenThread, SpeaksAgain, Reopens, Finding, Opened
    <3>. QED  BY <3>1, <3>2
  <2>. QED  BY <1>2, <2>1, <2>2
<1>. QED
  BY <1>1, <1>3, <1>4

(* A merge handed to the master names a blocker there is (hosted-gate.ts,  *)
(* escalateHostedBlocker): what the fix lane was given stays open until it *)
(* is disposed of, and the conversations name the cause before the checks. *)
THEOREM BlamesTruly == KnownAuthors /\ GateSpec => BlameIsTrue
<1> SUFFICES ASSUME KnownAuthors PROVE GateSpec => BlameIsTrue
  OBVIOUS
<1>1. GateInit => GateInv /\ LaneOK
  BY InitGate DEF GateInit, LaneOK, Idle
<1>2. GateInv /\ LaneOK /\ [GateNext]_gateVars => GateInv' /\ LaneOK' /\ [Blames]_gateVars
  <2> SUFFICES ASSUME GateInv, LaneOK, [GateNext]_gateVars PROVE GateInv' /\ LaneOK' /\ Blames
    OBVIOUS
  <2>1. GateInv'
    BY GateStep
  <2>. QED
    BY <2>1, LooksBlame, FixBlames, DisposesBlame, OthersBlame DEF GateNext, GateDrive
<1>3. [Blames]_gateVars
        <=> [waiting'.at = "stuck" /\ waiting.at # "stuck" =>
               /\ waiting'.why = "hosted-review" => \E t \in By("hosted", Opened) : ~thread[t].resolved
               /\ waiting'.why = "human-review" => By("human", Admitted(waiting.head)) # {}
               /\ waiting'.why \in {"policy", "not-mergeable"} /\ waiting.at \in {"classify", "observe"}
                    => Admitted(waiting.head) = {}]_gateVars
  BY DEF Blames, Blamed
<1>. QED
  BY <1>1, <1>2, <1>3, PTL DEF GateSpec, BlameIsTrue

-----------------------------------------------------------------------------
(* The gate on the shared clone.                                           *)

CloneSpec == CloneInit /\ [][CloneNext]_cloneVars

Turns == {"idle", "queued", "read", "merge", "work", "end", "done", "failed", "moved"}
Dispatch == [at : Turns, wants : Nat, state : {"clean", "dirty"}, read : Nat]

ChainTypes ==
  /\ gate \in Seq(Callers) /\ caller \in [Callers -> Dispatch]
  /\ clone \in [head : Nat, remote : Nat, state : {"clean", "dirty"}]
  /\ base \in Nat

(* The one inside the gate is first in the chain, so there is one; what it *)
(* has found out about the clone is still true.                            *)
Inside(c) == caller[c].at \in {"read", "merge", "work", "end"}

ChainInv ==
  /\ \A c \in Callers : Inside(c) => gate # <<>> /\ Head(gate) = c
  /\ clone.head <= clone.remote /\ clone.remote <= base
  /\ \A c \in Callers :
       /\ caller[c].wants <= base /\ caller[c].at # "moved"
       /\ Inside(c) => caller[c].wants <= clone.remote
       /\ caller[c].at \in {"merge", "work", "end"} => clone.state = "clean"
       /\ caller[c].at \in {"work", "end"} => clone.head = clone.remote
       /\ caller[c].at = "end" => caller[c].read = clone.head /\ caller[c].state = "clean"

CloneInv == ChainTypes /\ ChainInv

(* A dispatch moves: the others stay what they are.                        *)
LEMMA BecomesIs ==
  ASSUME ChainTypes, NEW c \in Callers, NEW at \in Turns, Becomes(c, at)
  PROVE  /\ caller' \in [Callers -> Dispatch]
         /\ caller'[c].at = at /\ caller'[c].wants = caller[c].wants
         /\ caller'[c].read = caller[c].read /\ caller'[c].state = caller[c].state
         /\ \A d \in Callers \ {c} : caller'[d] = caller[d]
BY DEF ChainTypes, Becomes, Dispatch

(* Who is first leaves: nobody is inside.                                  *)
LEMMA LeavesEmpty ==
  ASSUME CloneInv, NEW c \in Callers, NEW at \in {"done", "failed"},
         MyTurn(c) \/ Inside(c), Leaves(c, at), UNCHANGED base,
         clone'.head = clone.head, clone'.remote = clone.remote, clone' = clone
  PROVE  CloneInv'
<1>1. gate # <<>> /\ Head(gate) = c /\ gate \in Seq(Callers)
  BY DEF CloneInv, ChainInv, MyTurn, ChainTypes
<1>2. gate' \in Seq(Callers)
  BY <1>1 DEF Leaves
<1>3. /\ caller' \in [Callers -> Dispatch] /\ caller'[c].at = at
      /\ caller'[c].wants = caller[c].wants
      /\ \A d \in Callers \ {c} : caller'[d] = caller[d]
  BY BecomesIs DEF CloneInv, Leaves, Turns
<1>4. \A d \in Callers : ~Inside(d)'
  BY <1>1, <1>3 DEF Inside, CloneInv, ChainInv
<1>. QED  BY <1>2, <1>3, <1>4 DEF CloneInv, ChainTypes, ChainInv, Inside

LEMMA CloneStep == ASSUME CloneInv, [CloneNext]_cloneVars PROVE CloneInv'
<1>0. ChainTypes /\ ChainInv
  BY DEF CloneInv
<1>1. CASE BasePush
  BY <1>0, <1>1 DEF BasePush, CloneInv, ChainTypes, ChainInv, Inside, Dispatch
<1>2. CASE Touched
  BY <1>0, <1>2 DEF Touched, CloneInv, ChainTypes, ChainInv, Inside
<1>3. ASSUME NEW c \in Callers, Enter(c) PROVE CloneInv'
  <2>1. /\ caller' \in [Callers -> Dispatch] /\ caller'[c].at = "queued"
        /\ caller'[c].wants = base
        /\ \A d \in Callers \ {c} : caller'[d] = caller[d]
    BY <1>0, <1>3 DEF Enter, ChainTypes, Fresh, Dispatch, Turns
  <2>2. gate' \in Seq(Callers) /\ gate' # <<>> /\ (gate # <<>> => Head(gate') = Head(gate))
    BY <1>0, <1>3 DEF Enter, ChainTypes
  <2>. QED  BY <1>0, <1>3, <2>1, <2>2 DEF Enter, CloneInv, ChainTypes, ChainInv, Inside
<1>4. ASSUME NEW c \in Callers, Fetch(c) PROVE CloneInv'
  <2>1. CASE Leaves(c, "failed") /\ UNCHANGED clone
    BY <1>4, <2>1, LeavesEmpty DEF Fetch
  <2>2. CASE clone' = [clone EXCEPT !.remote = base] /\ Becomes(c, "read") /\ UNCHANGED gate
    <3>1. /\ caller' \in [Callers -> Dispatch] /\ caller'[c].at = "read"
          /\ caller'[c].wants = caller[c].wants
          /\ \A d \in Callers \ {c} : caller'[d] = caller[d]
      BY <1>0, <2>2, BecomesIs DEF Turns
    <3>2. \A d \in Callers \ {c} : ~Inside(d)
      BY <1>0, <1>4 DEF Fetch, MyTurn, ChainInv
    <3>3. /\ clone' \in [head : Nat, remote : Nat, state : {"clean", "dirty"}]
          /\ clone'.head = clone.head /\ clone'.remote = base /\ clone'.state = clone.state
      BY <1>0, <2>2 DEF ChainTypes
    <3>. QED  BY <1>0, <1>4, <2>2, <3>1, <3>2, <3>3
              DEF Fetch, MyTurn, CloneInv, ChainTypes, ChainInv, Inside
  <2>. QED  BY <1>4, <2>1, <2>2 DEF Fetch
<1>5. ASSUME NEW c \in Callers, ReadState(c) PROVE CloneInv'
  <2>1. CASE Leaves(c, "failed")
    BY <1>5, <2>1, LeavesEmpty DEF ReadState, Inside
  <2>2. CASE /\ Becomes(c, IF Plan(clone.state, clone.head, clone.remote) = "current"
                           THEN "work" ELSE "merge")
             /\ Plan(clone.state, clone.head, clone.remote) # "anomaly" /\ UNCHANGED gate
    <3>1. PICK at \in {"work", "merge"} :
            /\ Becomes(c, at) /\ clone.state = "clean"
            /\ at = "work" => clone.head = clone.remote
      BY <2>2 DEF Plan
    <3>2. /\ caller' \in [Callers -> Dispatch] /\ caller'[c].at = at
          /\ caller'[c].wants = caller[c].wants
          /\ \A d \in Callers \ {c} : caller'[d] = caller[d]
      BY <1>0, <3>1, BecomesIs DEF Turns
    <3>. QED  BY <1>0, <1>5, <2>2, <3>1, <3>2
              DEF ReadState, CloneInv, ChainTypes, ChainInv, Inside
  <2>. QED  BY <1>5, <2>1, <2>2 DEF ReadState
<1>6. ASSUME NEW c \in Callers, Merge(c) PROVE CloneInv'
  <2>1. CASE Leaves(c, "failed") /\ UNCHANGED clone
    BY <1>6, <2>1, LeavesEmpty DEF Merge, Inside
  <2>2. CASE clone' = [clone EXCEPT !.head = clone.remote] /\ Becomes(c, "work") /\ UNCHANGED gate
    <3>1. /\ caller' \in [Callers -> Dispatch] /\ caller'[c].at = "work"
          /\ caller'[c].wants = caller[c].wants
          /\ \A d \in Callers \ {c} : caller'[d] = caller[d]
      BY <1>0, <2>2, BecomesIs DEF Turns
    <3>2. \A d \in Callers \ {c} : ~Inside(d)
      BY <1>0, <1>6 DEF Merge, ChainInv, Inside
    <3>3. /\ clone' \in [head : Nat, remote : Nat, state : {"clean", "dirty"}]
          /\ clone'.head = clone.remote /\ clone'.remote = clone.remote
          /\ clone'.state = clone.state
      BY <1>0, <2>2 DEF ChainTypes
    <3>. QED  BY <1>0, <1>6, <2>2, <3>1, <3>2, <3>3
              DEF Merge, CloneInv, ChainTypes, ChainInv, Inside
  <2>. QED  BY <1>6, <2>1, <2>2 DEF Merge
<1>7. ASSUME NEW c \in Callers, Work(c) PROVE CloneInv'
  <2>1. /\ caller' \in [Callers -> Dispatch] /\ caller'[c].at = "end"
        /\ caller'[c].wants = caller[c].wants
        /\ caller'[c].read = clone.head /\ caller'[c].state = clone.state
        /\ \A d \in Callers \ {c} : caller'[d] = caller[d]
    BY <1>0, <1>7 DEF Work, ChainTypes, Dispatch, Turns
  <2>. QED  BY <1>0, <1>7, <2>1 DEF Work, CloneInv, ChainTypes, ChainInv, Inside
<1>8. ASSUME NEW c \in Callers, Finish(c) PROVE CloneInv'
  <2>1. clone.head = caller[c].read /\ Inside(c)
    BY <1>0, <1>8 DEF Finish, ChainInv, Inside
  <2>. QED  BY <1>8, <2>1, LeavesEmpty DEF Finish
<1>9. ASSUME NEW c \in Callers, Again(c) PROVE CloneInv'
  <2>1. /\ caller' \in [Callers -> Dispatch] /\ caller'[c].at = "idle"
        /\ caller'[c].wants = caller[c].wants
        /\ \A d \in Callers \ {c} : caller'[d] = caller[d]
    BY <1>0, <1>9, BecomesIs DEF Again, Turns
  <2>. QED  BY <1>0, <1>9, <2>1 DEF Again, CloneInv, ChainTypes, ChainInv, Inside
<1>10. CASE UNCHANGED cloneVars
  BY <1>0, <1>10 DEF cloneVars, CloneInv, ChainTypes, ChainInv, Inside
<1>. QED
  BY <1>1, <1>2, <1>3, <1>4, <1>5, <1>6, <1>7, <1>8, <1>9, <1>10 DEF CloneNext

(* A dispatch reads a clone as new as the base was when it asked, clean,   *)
(* and nobody moves it before it is done (withSyncedClone).                *)
THEOREM ReadsAreSynced == CloneSpec => []ReadIsSynced
<1>1. CloneInit => CloneInv
  <2> SUFFICES ASSUME CloneInit PROVE CloneInv
    OBVIOUS
  <2>1. gate \in Seq(Callers) /\ caller \in [Callers -> Dispatch]
    BY DEF CloneInit, Fresh, Dispatch, Turns
  <2>2. /\ clone \in [head : Nat, remote : Nat, state : {"clean", "dirty"}]
        /\ clone.head = 0 /\ clone.remote = 0 /\ base = 0
    BY DEF CloneInit
  <2>3. \A c \in Callers : caller[c].at = "idle" /\ caller[c].wants = 0
    BY DEF CloneInit, Fresh
  <2>. QED  BY <2>1, <2>2, <2>3 DEF CloneInv, ChainTypes, ChainInv, Inside
<1>2. CloneInv => ReadIsSynced
  <2> SUFFICES ASSUME CloneInv, NEW c \in Callers
               PROVE  /\ caller[c].at = "end" =>
                           caller[c].read >= caller[c].wants /\ caller[c].state = "clean"
                      /\ caller[c].at # "moved"
    BY DEF ReadIsSynced
  <2>1. caller[c].wants \in Nat /\ clone.head \in Nat /\ clone.remote \in Nat
    BY DEF CloneInv, ChainTypes, Dispatch
  <2>. QED  BY <2>1 DEF CloneInv, ChainInv, Inside
<1>. QED
  BY <1>1, <1>2, CloneStep, PTL DEF CloneSpec

=============================================================================
