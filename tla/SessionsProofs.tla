--------------------------- MODULE SessionsProofs ---------------------------
(***************************************************************************)
(* What holds of a session's surroundings for any number of frames, calls, *)
(* threads, dispatches and issues: a part's theorems, told of the whole.   *)
(***************************************************************************)
EXTENDS MCSessions, FiniteSetTheorems, WellFoundedInduction, TLAPS

-----------------------------------------------------------------------------
(* The parts whose behaviour has a theorem of its own.                     *)

LEMMA GateBehaves == Spec => G!GateSpec
<1>1. Init => G!GateInit
  BY DEF Init
<1>2. [Next]_vars => [G!GateNext]_G!gateVars
  BY DEF Next, vars, gateVars, G!gateVars, GateMoves, SessionMoves, SyncMoves, TreesMoves, ViewMoves,
         LedgerMoves, ClientMoves, OnlySession, OnlySync, OnlyTrees, OnlyView, OnlyLedger, OnlyClient
<1>. QED
  BY <1>1, <1>2, PTL DEF Spec, G!GateSpec

LEMMA SyncBehaves == Spec => G!CloneSpec
<1>1. Init => G!CloneInit
  BY DEF Init
<1>2. [Next]_vars => [G!CloneNext]_G!cloneVars
  BY DEF Next, vars, syncVars, G!cloneVars, GateMoves, SessionMoves, SyncMoves, TreesMoves, ViewMoves,
         LedgerMoves, ClientMoves, OnlyGate, OnlySession, OnlyTrees, OnlyView, OnlyLedger, OnlyClient
<1>. QED
  BY <1>1, <1>2, PTL DEF Spec, G!CloneSpec

(* One reply to each word of the hosted reviewer, whatever else goes on    *)
(* around the session (hosted-gate.ts).                                    *)
THEOREM RepliesOnce == Spec => []OneReply
<1>1. G!OneReply => OneReply
  BY DEF OneReply
<1>. QED
  BY <1>1, GateBehaves, G!OneReplyEach, PTL

(* A dispatch reads a synced clone (clone-sync.ts).                        *)
THEOREM ReadsSynced == Spec => []ReadIsSynced
<1>1. G!ReadIsSynced => ReadIsSynced
  BY DEF ReadIsSynced
<1>. QED
  BY <1>1, SyncBehaves, G!ReadsAreSynced, PTL

LEMMA LedgerBehaves == Spec => L!LedgerSpec
<1>1. Init => L!LedgerInit
  BY DEF Init
<1>2. [Next]_vars => [L!LedgerNext]_L!ledgerVars
  BY DEF Next, vars, ledgerVars, L!ledgerVars, GateMoves, SessionMoves, SyncMoves, TreesMoves, ViewMoves,
         LedgerMoves, ClientMoves, OnlyGate, OnlySession, OnlySync, OnlyTrees, OnlyView, OnlyClient
<1>. QED
  BY <1>1, <1>2, PTL DEF Spec, L!LedgerSpec

(* One record to a ruling, through crashes and re-adoptions, unless the    *)
(* session could not tell (engine.ts, publishDecisions).                   *)
THEOREM RulesLeaveOne == Spec => []OneRecordPerRuling
<1>1. L!OneRecordPerRuling => OneRecordPerRuling
  BY DEF OneRecordPerRuling
<1>. QED
  BY <1>1, LedgerAssumption, LedgerBehaves, L!RulesOnce, PTL

(* The ledger's readers agree, whatever the order of the comments, and the *)
(* packet says what it leaves out (fold.ts, ledger.ts, context-packet.ts). *)
THEOREM LedgerReadersAgree == Spec => []LedgerAgrees
<1>1. L!FoldIsOrderless /\ L!WritesReachHome /\ L!OneIndex /\ L!PacketIsHonest => LedgerAgrees
  BY DEF LedgerAgrees
<1>. QED
  BY <1>1, LedgerAssumption, LedgerBehaves, L!ReadersAgree, L!PacketsAreHonest, PTL

-----------------------------------------------------------------------------
(* The session in its container.                                           *)

Outcomes == {"none", "escalated", "stuck", "failed", "pr-opened", "ok"}
Frames == [is : {"note", "limit", "result"}, outcome : Outcomes, named : BOOLEAN]
Hosts == [at : {"idle", "starting", "reading", "done"}, drain : BOOLEAN, abort : BOOLEAN,
          sawLimit : BOOLEAN, verdict : Outcomes \cup {"refused", "threw", "limited"}]
Runners == [at : {"none", "clone", "session", "finalize", "flush", "exited"}, sent : Nat,
            escalation : BOOLEAN, stuck : BOOLEAN, error : BOOLEAN, tries : Nat,
            work : BOOLEAN, named : BOOLEAN]

SessionTypes ==
  /\ relay \in BOOLEAN /\ host \in Hosts /\ runner \in Runners
  /\ chain \in Seq(Frames) /\ pipe \in Seq(Frames)
  /\ asked \in Nat /\ noted \in BOOLEAN /\ limitSaid \in BOOLEAN /\ torn \in BOOLEAN

Holds(s, what) == \E k \in 1..Len(s) : s[k].is = what

(* The two sides move in step: the daemon is done with a session that has  *)
(* ended, and a runner that is not there has said nothing.                 *)
InStep ==
  /\ host.at \in {"idle", "starting"} => runner.at = "none"
  /\ host.at = "reading" => runner.at # "none"
  /\ host.at = "done" => runner.at \in {"none", "exited"}
  /\ runner.at = "finalize" => kind = "impl"
Silent ==
  /\ runner.at \in {"none", "clone"} => asked = 0 /\ ~limitSaid /\ chain = <<>> /\ pipe = <<>>
  /\ runner.at = "exited" => chain = <<>>

(* A result is the last thing written, by a runner that is gone.           *)
ResultIsLast ==
  /\ ~Holds(chain, "result")
  /\ \A k \in 1..Len(pipe) : pipe[k].is = "result" =>
       k = Len(pipe) /\ runner.at = "exited" /\ pipe[k] = S!Result(S!Outcome(runner), runner.named)

(* A question is carried by the runner until the result carries it.        *)
QuestionCarried ==
  /\ asked > 0 => kind = "impl" /\ (torn \/ runner.escalation)
  /\ runner.at = "exited" /\ host.at = "reading" /\ asked > 0 => torn \/ Holds(pipe, "result")

(* A refusal is an error of the session; a frame that tells of it is on    *)
(* its way unless it was read, or the words of the failure name it.        *)
RefusalCarried ==
  /\ limitSaid => runner.error
  /\ limitSaid /\ ~host.abort /\ ~runner.named =>
       host.sawLimit \/ Holds(chain, "limit") \/ Holds(pipe, "limit")
  /\ kind # "impl" /\ limitSaid /\ ~host.abort /\ runner.at \in {"flush", "exited"} => runner.named

SessionInv ==
  SessionTypes /\ InStep /\ Silent /\ ResultIsLast /\ QuestionCarried /\ RefusalCarried /\ SessionHeard

LEMMA Written ==
  ASSUME NEW s \in Seq(Frames), NEW f \in Frames
  PROVE  /\ Append(s, f) \in Seq(Frames) /\ Append(s, f) # <<>>
         /\ Len(Append(s, f)) = Len(s) + 1 /\ Len(s) \in Nat
         /\ \A k \in 1..Len(s) : Append(s, f)[k] = s[k]
         /\ Append(s, f)[Len(s) + 1] = f
         /\ \A what : Holds(Append(s, f), what) <=> Holds(s, what) \/ f.is = what
  BY DEF Holds

LEMMA TakenOff ==
  ASSUME NEW s \in Seq(Frames), s # <<>>
  PROVE  /\ Head(s) \in Frames /\ Tail(s) \in Seq(Frames) /\ Head(s) = s[1]
         /\ Len(s) \in Nat \ {0} /\ Len(Tail(s)) = Len(s) - 1
         /\ \A k \in 1..Len(Tail(s)) : Tail(s)[k] = s[k + 1]
         /\ \A what : Holds(s, what) <=> Holds(Tail(s), what) \/ Head(s).is = what
<1>1. /\ Head(s) \in Frames /\ Tail(s) \in Seq(Frames) /\ Head(s) = s[1]
      /\ Len(s) \in Nat \ {0} /\ Len(Tail(s)) = Len(s) - 1
      /\ \A k \in 1..Len(Tail(s)) : Tail(s)[k] = s[k + 1]
  OBVIOUS
<1>2. ASSUME NEW what, Holds(s, what) PROVE Holds(Tail(s), what) \/ Head(s).is = what
  <2>1. PICK k \in 1..Len(s) : s[k].is = what
    BY <1>2 DEF Holds
  <2>2. CASE k = 1
    BY <1>1, <2>1, <2>2
  <2>3. CASE k # 1
    <3>1. k - 1 \in 1..Len(Tail(s)) /\ Tail(s)[k - 1] = s[k]
      BY <1>1, <2>3
    <3>. QED  BY <2>1, <3>1 DEF Holds
  <2>. QED  BY <2>2, <2>3
<1>3. ASSUME NEW what, Holds(Tail(s), what) \/ Head(s).is = what PROVE Holds(s, what)
  <2>1. CASE Head(s).is = what
    BY <1>1, <2>1 DEF Holds
  <2>2. CASE Holds(Tail(s), what)
    <3>1. PICK k \in 1..Len(Tail(s)) : Tail(s)[k].is = what
      BY <2>2 DEF Holds
    <3>2. k + 1 \in 1..Len(s) /\ s[k + 1].is = what
      BY <1>1, <3>1
    <3>. QED  BY <3>2 DEF Holds
  <2>. QED  BY <1>3, <2>1, <2>2
<1>. QED
  BY <1>1, <1>2, <1>3

LEMMA NothingHeld == <<>> \in Seq(Frames) /\ Len(<<>>) = 0 /\ \A what : ~Holds(<<>>, what)
  BY DEF Holds

LEMMA FramesAre ==
  /\ S!Note \in Frames /\ S!Note.is = "note"
  /\ S!Limit \in Frames /\ S!Limit.is = "limit"
  /\ \A o \in Outcomes, n \in BOOLEAN :
       S!Result(o, n) \in Frames /\ S!Result(o, n).is = "result"
       /\ S!Result(o, n).outcome = o /\ S!Result(o, n).named = n
  BY DEF S!Note, S!Limit, S!Result, Frames, Outcomes

LEMMA Counted == ASSUME NEW r \in Runners PROVE r.sent + 1 \in Nat /\ r.tries + 1 \in Nat
  BY DEF Runners

LEMMA RunnerWorks ==
  ASSUME SessionInv, S!Clone \/ S!Capture \/ S!RateLimit \/ S!SelfStop \/ S!OpensPr \/ S!Finalize
                     \/ S!Escalate
  PROVE  SessionInv'
<1> USE DEF S!HostAt, S!RunnerAt, S!RunnerMoves, S!Assigned, S!Wire, S!World, S!Past
<1>0. SessionTypes
  BY DEF SessionInv
<1>1. CASE S!Clone
  <2>1. /\ runner' \in Runners /\ runner'.at \in {"session", "exited"}
        /\ pipe' = Append(pipe, S!Note) /\ chain' = <<>> /\ host' = host
    BY <1>0, <1>1 DEF SessionInv, SessionTypes, Silent, S!Clone, S!Exits, Runners
  <2>2. pipe' \in Seq(Frames) /\ chain' \in Seq(Frames) /\ Len(pipe') = 1 /\ pipe'[1].is = "note"
    BY <1>0, <1>1, <2>1, Written, NothingHeld, FramesAre DEF SessionInv, SessionTypes, Silent, S!Clone
  <2>. QED
    BY <1>1, <2>1, <2>2, NothingHeld
    DEF SessionInv, SessionTypes, InStep, Silent, ResultIsLast, QuestionCarried, RefusalCarried,
        SessionHeard, S!QuestionKept, S!RefusalHeard, S!Clone
<1>2. CASE S!Capture \/ S!RateLimit
  <2>1. PICK f \in {S!Note, S!Limit} :
          /\ chain' = Append(chain, f) /\ f \in Frames /\ f.is # "result"
          /\ limitSaid' => limitSaid \/ f.is = "limit"
    <3>1. CASE S!Capture
      BY <3>1, FramesAre DEF S!Capture
    <3>2. CASE S!RateLimit
      BY <3>2, FramesAre DEF S!RateLimit
    <3>. QED  BY <1>2, <3>1, <3>2
  <2>2. /\ runner' \in Runners /\ runner'.at = "session" /\ runner.at = "session"
        /\ runner'.escalation = runner.escalation /\ runner'.named = runner.named
        /\ runner.error => runner'.error
        /\ limitSaid' /\ ~limitSaid => runner'.error
    <3>1. CASE S!Capture
      <4>1. PICK w \in BOOLEAN, n \in Nat : runner' = [runner EXCEPT !.sent = n, !.work = w]
        BY <1>0, <3>1, Counted DEF S!Capture, SessionTypes
      <4>2. runner.at = "session" /\ limitSaid' = limitSaid
        BY <3>1 DEF S!Capture
      <4>. QED  BY <1>0, <4>1, <4>2 DEF SessionTypes, Runners
    <3>2. CASE S!RateLimit
      <4>1. PICK e \in BOOLEAN, n \in Nat :
              /\ runner' = [runner EXCEPT !.sent = n, !.error = e]
              /\ (runner.error => e) /\ (limitSaid' /\ ~limitSaid => e)
        BY <1>0, <3>2, Counted DEF S!RateLimit, SessionTypes
      <4>2. runner.at = "session"
        BY <3>2 DEF S!RateLimit
      <4>. QED  BY <1>0, <4>1, <4>2 DEF SessionTypes, Runners
    <3>. QED  BY <1>2, <3>1, <3>2
  <2>3. UNCHANGED <<kind, relay, host, pipe, asked, noted, pr, torn>> /\ limitSaid' \in BOOLEAN
    BY <1>0, <1>2 DEF SessionTypes, S!Capture, S!RateLimit
  <2>4. chain' \in Seq(Frames) /\ \A what : Holds(chain', what) <=> Holds(chain, what) \/ f.is = what
    BY <1>0, <2>1, Written DEF SessionTypes
  <2>. QED
    BY <2>1, <2>2, <2>3, <2>4
    DEF SessionInv, SessionTypes, InStep, Silent, ResultIsLast, QuestionCarried, RefusalCarried,
        SessionHeard, S!QuestionKept, S!RefusalHeard
<1>3. CASE S!SelfStop \/ S!OpensPr \/ S!Finalize \/ S!Escalate
  <2>1. /\ runner' \in Runners /\ runner'.at \in {runner.at, "flush"} /\ runner.at \in {"session", "finalize"}
        /\ runner.escalation => runner'.escalation
        /\ runner'.named = runner.named /\ runner'.error = runner.error
        /\ runner'.at = "flush" => runner.at = "finalize"
    BY <1>0, <1>3 DEF SessionTypes, S!SelfStop, S!OpensPr, S!Finalize, S!Escalate, Runners
  <2>2. UNCHANGED <<kind, relay, host, chain, pipe, noted, limitSaid>>
    BY <1>3 DEF S!SelfStop, S!OpensPr, S!Finalize, S!Escalate
  <2>3. /\ asked' \in Nat /\ torn' \in BOOLEAN /\ (torn => torn')
        /\ \/ asked' = asked
           \/ kind = "impl" /\ (torn' \/ runner'.escalation)
    <3>1. CASE UNCHANGED <<asked, torn>>
      BY <1>0, <3>1 DEF SessionTypes
    <3>2. CASE S!Escalate
      <4>1. kind = "impl" /\ asked' \in {asked, asked + 1}
        BY <3>2 DEF S!Escalate
      <4>2. \/ runner' = [runner EXCEPT !.escalation = TRUE] /\ torn' = torn
            \/ torn' = TRUE
        BY <3>2 DEF S!Escalate
      <4>3. asked' \in Nat
        BY <1>0, <4>1 DEF SessionTypes
      <4>. QED  BY <1>0, <4>1, <4>2, <4>3 DEF SessionTypes, Runners
    <3>. QED  BY <1>3, <3>1, <3>2 DEF S!SelfStop, S!OpensPr, S!Finalize
  <2>4. kind = "impl" \/ runner'.at # "flush"
    BY <1>3, <2>1 DEF SessionInv, InStep, S!SelfStop, S!OpensPr, S!Finalize, S!Escalate
  <2>5. ~Holds(pipe, "result") /\ host.at # "done"
    BY <2>1 DEF SessionInv, InStep, ResultIsLast, Holds
  <2>6. SessionTypes'
    BY <1>0, <2>1, <2>2, <2>3 DEF SessionTypes
  <2>11. InStep'
    BY <2>1, <2>2, <2>4 DEF SessionInv, InStep
  <2>9. Silent'
    BY <2>1, <2>2, <2>3, <2>4 DEF SessionInv, Silent
  <2>7. ResultIsLast' /\ SessionHeard'
    BY <2>1, <2>2, <2>5
    DEF SessionInv, ResultIsLast, Holds, SessionHeard, S!QuestionKept, S!RefusalHeard
  <2>8. QuestionCarried'
    <3>1. asked > 0 => kind = "impl" /\ (torn \/ runner.escalation)
      BY DEF SessionInv, QuestionCarried
    <3>2. asked' > 0 => kind = "impl" /\ (torn' \/ runner'.escalation)
      BY <2>1, <2>3, <3>1
    <3>3. runner'.at # "exited" /\ kind' = kind
      BY <2>1, <2>2
    <3>. QED  BY <3>2, <3>3 DEF QuestionCarried
  <2>10. RefusalCarried'
    BY <2>1, <2>2, <2>4 DEF SessionInv, RefusalCarried
  <2>. QED
    BY <2>6, <2>7, <2>8, <2>9, <2>10, <2>11 DEF SessionInv
<1>. QED
  BY <1>1, <1>2, <1>3

LEMMA RunnerWrites ==
  ASSUME SessionInv, S!WriteFrame \/ S!SendResult
  PROVE  SessionInv'
<1> USE DEF S!HostAt, S!RunnerAt, S!RunnerMoves, S!Assigned, S!Wire, S!World, S!Past
<1>0. SessionTypes
  BY DEF SessionInv
<1>1. CASE S!WriteFrame
  <2>1. /\ UNCHANGED <<kind, relay, host, runner, asked, noted, pr, limitSaid, torn>>
        /\ runner.at \notin {"none", "exited"} /\ chain # <<>>
        /\ pipe' = Append(pipe, Head(chain)) /\ chain' = Tail(chain)
    BY <1>1 DEF S!WriteFrame, S!Gone
  <2>2. /\ Head(chain) \in Frames /\ chain' \in Seq(Frames)
        /\ \A what : Holds(chain, what) <=> Holds(chain', what) \/ Head(chain).is = what
    BY <1>0, <2>1, TakenOff DEF SessionTypes
  <2>3. /\ pipe' \in Seq(Frames) /\ pipe' # <<>>
        /\ \A what : Holds(pipe', what) <=> Holds(pipe, what) \/ Head(chain).is = what
    BY <1>0, <2>1, <2>2, Written DEF SessionTypes
  <2>4. ~Holds(pipe, "result") /\ Head(chain).is # "result"
    BY <2>1, <2>2 DEF SessionInv, ResultIsLast, Holds
  <2>5. ~Holds(pipe', "result") /\ ~Holds(chain', "result")
    BY <2>2, <2>3, <2>4 DEF SessionInv, ResultIsLast
  <2>6. ResultIsLast'
    BY <2>5 DEF ResultIsLast, Holds
  <2>. QED
    BY <2>1, <2>2, <2>3, <2>6
    DEF SessionInv, SessionTypes, InStep, Silent, QuestionCarried, RefusalCarried,
        SessionHeard, S!QuestionKept, S!RefusalHeard
<1>2. CASE S!SendResult
  <2> DEFINE r == S!Result(S!Outcome(runner), runner.named)
  <2>1. /\ UNCHANGED <<kind, relay, host, asked, noted, pr, limitSaid, torn>>
        /\ pipe' = Append(pipe, r) /\ chain = <<>> /\ chain' = <<>>
        /\ runner' = [runner EXCEPT !.at = "exited"] /\ runner.at = "flush"
    BY <1>2 DEF S!SendResult, S!Flushed, S!Exits
  <2>2. runner' \in Runners /\ runner'.at = "exited" /\ S!Outcome(runner) \in Outcomes
        /\ runner'.escalation = runner.escalation /\ runner'.named = runner.named
        /\ runner'.error = runner.error /\ runner'.stuck = runner.stuck
    BY <1>0, <2>1 DEF SessionTypes, Runners, S!Outcome, S!ImplOutcome, Outcomes
  <2>3. S!Outcome(runner)' = S!Outcome(runner)
    BY <2>1, <2>2 DEF S!Outcome, S!ImplOutcome
  <2>4. r \in Frames /\ r.is = "result"
    BY <1>0, <2>2, FramesAre DEF SessionTypes, Runners
  <2> HIDE DEF r
  <2>5. /\ pipe' \in Seq(Frames) /\ pipe' # <<>> /\ Len(pipe') = Len(pipe) + 1 /\ Len(pipe) \in Nat
        /\ \A k \in 1..Len(pipe) : pipe'[k] = pipe[k]
        /\ pipe'[Len(pipe')] = r
        /\ \A what : Holds(pipe', what) <=> Holds(pipe, what) \/ r.is = what
    BY <1>0, <2>1, <2>4, Written DEF SessionTypes
  <2>6. \A k \in 1..Len(pipe) : pipe[k].is # "result"
    BY <2>1 DEF SessionInv, ResultIsLast
  <2>7. ResultIsLast'
    <3>1. ~Holds(chain', "result")
      BY <2>1, NothingHeld
    <3>2. \A k \in 1..Len(pipe') : pipe'[k].is = "result" => k = Len(pipe')
      BY <2>5, <2>6
    <3>3. r = S!Result(S!Outcome(runner), runner.named)'
      BY <2>2, <2>3 DEF r, S!Result, S!Note
    <3>. QED  BY <2>2, <2>5, <3>1, <3>2, <3>3 DEF ResultIsLast
  <2>. QED
    BY <2>1, <2>2, <2>4, <2>5, <2>7, NothingHeld
    DEF SessionInv, SessionTypes, InStep, Silent, QuestionCarried, RefusalCarried,
        SessionHeard, S!QuestionKept, S!RefusalHeard
<1>. QED
  BY <1>1, <1>2

LEMMA RunnerEnds ==
  ASSUME SessionInv, S!ImplEnds \/ S!StructuredEnds \/ S!Abort
  PROVE  SessionInv'
<1> USE DEF S!HostAt, S!RunnerAt, S!RunnerMoves, S!Assigned, S!Wire, S!World, S!Past
<1>0. SessionTypes
  BY DEF SessionInv
<1>1. runner.at \notin {"none", "exited"} /\ runner' \in Runners /\ runner'.at \notin {"none", "clone"}
      /\ runner'.escalation = runner.escalation
      /\ UNCHANGED <<kind, relay, host, pipe, asked, noted, pr, limitSaid>>
  <2>1. CASE S!ImplEnds
    BY <1>0, <2>1 DEF SessionTypes, Runners, S!ImplEnds, S!Exits
  <2>2. CASE S!StructuredEnds
    <3>1. \/ runner' = [runner EXCEPT !.at = "flush", !.error = FALSE]
          \/ runner' = [runner EXCEPT !.at = "flush", !.error = TRUE, !.named = limitSaid]
          \/ \E n \in Nat : runner' = [runner EXCEPT !.tries = n]
      BY <1>0, <2>2, Counted DEF S!StructuredEnds, SessionTypes
    <3>2. /\ runner.at = "session"
          /\ UNCHANGED <<kind, relay, host, pipe, asked, noted, pr, limitSaid>>
      BY <2>2 DEF S!StructuredEnds
    <3>. QED  BY <1>0, <3>1, <3>2 DEF SessionTypes, Runners
  <2>3. CASE S!Abort
    BY <1>0, <2>3 DEF SessionTypes, Runners, S!Abort, S!StopContainer, S!Exits, S!Gone
  <2>. QED  BY <2>1, <2>2, <2>3
<1>2. /\ torn' \in BOOLEAN /\ (torn => torn')
      /\ \/ UNCHANGED chain /\ runner'.at # "exited"
         \/ chain' = <<>> /\ runner'.at = "exited" /\ (asked > 0 => torn')
            /\ (limitSaid /\ ~host.abort => kind = "impl" /\ runner'.named)
  <2>1. CASE S!ImplEnds
    BY <1>0, <2>1 DEF SessionInv, RefusalCarried, SessionTypes, Runners, S!ImplEnds, S!Exits, S!Cut
  <2>2. CASE S!StructuredEnds
    BY <1>0, <2>2 DEF SessionTypes, Runners, S!StructuredEnds
  <2>3. CASE S!Abort
    BY <1>0, <2>3 DEF SessionTypes, Runners, S!Abort, S!StopContainer, S!Exits, S!Gone, S!Cut
  <2>. QED  BY <2>1, <2>2, <2>3
<1>3. /\ limitSaid => runner'.error
      /\ limitSaid /\ runner.named /\ ~host.abort => runner'.named
      /\ kind # "impl" /\ limitSaid /\ ~host.abort /\ runner'.at = "flush" => runner'.named
      /\ runner'.at = "finalize" => kind = "impl"
  <2>1. CASE S!ImplEnds
    BY <1>0, <2>1 DEF SessionInv, RefusalCarried, SessionTypes, Runners, S!ImplEnds, S!Exits, S!Cut
  <2>2. CASE S!StructuredEnds
    <3>1. limitSaid => runner.error
      BY DEF SessionInv, RefusalCarried
    <3>2. \/ ~runner.error /\ runner' = [runner EXCEPT !.at = "flush", !.error = FALSE]
          \/ runner' = [runner EXCEPT !.at = "flush", !.error = TRUE, !.named = limitSaid]
          \/ \E n \in Nat : ~runner.error /\ runner' = [runner EXCEPT !.tries = n]
      BY <1>0, <2>2, Counted DEF S!StructuredEnds, SessionTypes
    <3>3. runner.at = "session"
      BY <2>2 DEF S!StructuredEnds
    <3>. QED  BY <1>0, <3>1, <3>2, <3>3 DEF SessionTypes, Runners
  <2>3. CASE S!Abort
    BY <1>0, <2>3 DEF SessionInv, RefusalCarried, SessionTypes, Runners, S!Abort, S!StopContainer, S!Exits, S!Gone, S!Cut
  <2>. QED  BY <2>1, <2>2, <2>3
<1>4. \A k \in 1..Len(pipe) : pipe[k].is # "result"
  BY <1>1 DEF SessionInv, ResultIsLast
<1>5. SessionTypes'
  <2>1. chain' \in Seq(Frames)
    BY <1>0, <1>2, NothingHeld DEF SessionTypes
  <2>. QED  BY <1>0, <1>1, <1>2, <2>1 DEF SessionTypes
<1>11. InStep'
  BY <1>1, <1>2, <1>3 DEF SessionInv, InStep
<1>10. Silent'
  BY <1>1, <1>2 DEF SessionInv, Silent
<1>9. ResultIsLast'
  BY <1>1, <1>2, <1>4, NothingHeld DEF SessionInv, ResultIsLast
<1>6. QuestionCarried'
  BY <1>1, <1>2 DEF SessionInv, QuestionCarried
<1>7. RefusalCarried'
  BY <1>1, <1>2, <1>3 DEF SessionInv, RefusalCarried
<1>8. SessionHeard'
  BY <1>1, <1>2 DEF SessionInv, InStep, SessionHeard, S!QuestionKept, S!RefusalHeard
<1>. QED
  BY <1>5, <1>6, <1>7, <1>8, <1>9, <1>10, <1>11 DEF SessionInv

LEMMA HostStarts ==
  ASSUME SessionInv, S!Dispatch \/ S!Start \/ S!Signals
  PROVE  SessionInv'
<1> USE DEF S!HostAt, S!HostMoves, S!RunnerMoves, S!Assigned, S!Wire, S!World, S!Past
<1>0. SessionTypes
  BY DEF SessionInv
<1>1. /\ host' \in Hosts /\ (host.abort => host'.abort) /\ host'.sawLimit = host.sawLimit
      /\ UNCHANGED <<kind, relay, chain, pipe, asked, noted, pr, limitSaid, torn>>
  <2>1. CASE S!Dispatch
    BY <1>0, <2>1 DEF SessionTypes, Hosts, S!Dispatch
  <2>2. CASE S!Start
    BY <1>0, <2>2 DEF SessionTypes, Hosts, S!Start
  <2>3. CASE S!Signals
    BY <1>0, <2>3 DEF SessionTypes, Hosts, S!Signals
  <2>. QED  BY <2>1, <2>2, <2>3
<1>2. \/ /\ runner' = runner
         /\ \/ host'.at = host.at /\ host'.verdict = host.verdict
            \/ runner.at = "none" /\ host'.at \in {"starting", "done"}
      \/ /\ runner.at = "none" /\ runner' = [runner EXCEPT !.at = "clone"] /\ host'.at = "reading"
  <2>1. CASE S!Dispatch
    BY <1>0, <2>1 DEF SessionInv, InStep, SessionTypes, Hosts, S!Dispatch
  <2>2. CASE S!Start
    BY <1>0, <2>2 DEF SessionInv, InStep, SessionTypes, Hosts, S!Start
  <2>3. CASE S!Signals
    BY <1>0, <2>3 DEF SessionTypes, Hosts, S!Signals
  <2>. QED  BY <2>1, <2>2, <2>3
<1>3. /\ runner' \in Runners /\ runner'.escalation = runner.escalation
      /\ runner'.error = runner.error /\ runner'.named = runner.named
      /\ \/ runner'.at = runner.at
         \/ runner'.at = "clone" /\ runner.at = "none" /\ host'.at = "reading"
  <2>1. runner \in Runners
    BY <1>0 DEF SessionTypes
  <2>2. CASE runner' = runner
    BY <2>1, <2>2
  <2>3. CASE runner' = [runner EXCEPT !.at = "clone"]
    BY <1>2, <2>1, <2>3 DEF Runners
  <2>. QED  BY <1>2, <2>2, <2>3
<1>4. SessionTypes'
  BY <1>0, <1>1, <1>3 DEF SessionTypes
<1>5. InStep'
  <2>2. CASE runner' = runner /\ host'.at = host.at
    BY <1>1, <2>2 DEF SessionInv, InStep
  <2>3. CASE runner' = runner /\ runner.at = "none" /\ host'.at \in {"starting", "done"}
    BY <2>3 DEF InStep
  <2>4. CASE runner.at = "none" /\ runner' = [runner EXCEPT !.at = "clone"] /\ host'.at = "reading"
    BY <1>0, <2>4 DEF InStep, SessionTypes, Runners
  <2>. QED  BY <1>2, <2>2, <2>3, <2>4
<1>6. Silent'
  BY <1>1, <1>3 DEF SessionInv, Silent
<1>7. ResultIsLast'
  <2>1. CASE runner' = runner
    BY <1>1, <2>1 DEF SessionInv, ResultIsLast, S!Outcome, S!ImplOutcome
  <2>2. CASE runner.at = "none"
    BY <1>1, <2>2, NothingHeld DEF SessionInv, Silent, ResultIsLast
  <2>. QED  BY <1>2, <2>1, <2>2
<1>8. QuestionCarried'
  BY <1>1, <1>2, <1>3 DEF SessionInv, QuestionCarried
<1>9. RefusalCarried'
  BY <1>1, <1>3 DEF SessionInv, RefusalCarried
<1>10. SessionHeard'
  <2>1. CASE runner.at = "none"
    BY <1>0, <1>1, <2>1
    DEF SessionInv, SessionTypes, Silent, SessionHeard, S!QuestionKept, S!RefusalHeard
  <2>2. CASE host'.at = host.at /\ host'.verdict = host.verdict
    BY <1>1, <2>2 DEF SessionInv, SessionHeard, S!QuestionKept, S!RefusalHeard
  <2>. QED  BY <1>2, <2>1, <2>2
<1>. QED
  BY <1>4, <1>5, <1>6, <1>7, <1>8, <1>9, <1>10 DEF SessionInv

LEMMA HostReads ==
  ASSUME SessionInv, S!ReadTelemetry
  PROVE  SessionInv'
<1> USE DEF S!HostAt, S!Assigned, S!World, S!Past
<1>0. SessionTypes
  BY DEF SessionInv
<1>1. /\ UNCHANGED <<kind, relay, runner, chain, asked, noted, pr, limitSaid, torn>>
      /\ pipe # <<>> /\ pipe' = Tail(pipe) /\ Head(pipe).is # "result" /\ host.at = "reading"
  BY DEF S!ReadTelemetry
<1>2. PICK saw \in BOOLEAN : /\ host' = [host EXCEPT !.sawLimit = saw]
                             /\ saw <=> host.sawLimit \/ Head(pipe).is = "limit"
  BY DEF S!ReadTelemetry
<1>3. /\ host' \in Hosts /\ host'.at = "reading" /\ host'.abort = host.abort /\ host'.sawLimit = saw
  BY <1>0, <1>1, <1>2 DEF SessionTypes, Hosts
<1>4. /\ pipe' \in Seq(Frames) /\ Len(pipe') = Len(pipe) - 1 /\ Len(pipe) \in Nat \ {0}
      /\ \A k \in 1..Len(pipe') : pipe'[k] = pipe[k + 1]
      /\ \A what : Holds(pipe, what) <=> Holds(pipe', what) \/ Head(pipe).is = what
  BY <1>0, <1>1, TakenOff DEF SessionTypes
<1>5. SessionTypes' /\ InStep'
  BY <1>0, <1>1, <1>3, <1>4 DEF SessionInv, SessionTypes, InStep
<1>6. Silent'
  BY <1>0, <1>1, <1>3, <1>4 DEF SessionInv, SessionTypes, Silent
<1>7. ResultIsLast'
  <2>1. ~Holds(chain', "result")
    BY <1>1 DEF SessionInv, ResultIsLast
  <2>2. ASSUME NEW k \in 1..Len(pipe'), pipe'[k].is = "result"
        PROVE  /\ k = Len(pipe') /\ runner.at = "exited"
               /\ pipe'[k] = S!Result(S!Outcome(runner), runner.named)
    <3>1. k + 1 \in 1..Len(pipe) /\ pipe[k + 1] = pipe'[k]
      BY <1>4
    <3>2. k + 1 = Len(pipe) /\ runner.at = "exited"
          /\ pipe[k + 1] = S!Result(S!Outcome(runner), runner.named)
      BY <2>2, <3>1 DEF SessionInv, ResultIsLast
    <3>. QED  BY <1>4, <3>1, <3>2
  <2>3. S!Result(S!Outcome(runner), runner.named)' = S!Result(S!Outcome(runner), runner.named)
    BY <1>1 DEF S!Result, S!Outcome, S!ImplOutcome, S!Note
  <2>. QED  BY <1>1, <2>1, <2>2, <2>3 DEF ResultIsLast
<1>8. QuestionCarried'
  BY <1>1, <1>3, <1>4 DEF SessionInv, QuestionCarried
<1>9. RefusalCarried'
  BY <1>1, <1>2, <1>3, <1>4 DEF SessionInv, RefusalCarried
<1>10. SessionHeard'
  BY <1>3 DEF SessionHeard, S!QuestionKept, S!RefusalHeard
<1>. QED
  BY <1>5, <1>6, <1>7, <1>8, <1>9, <1>10 DEF SessionInv

LEMMA HostDecides ==
  ASSUME SessionInv, S!ReadResult \/ S!EndOfStream
  PROVE  SessionInv'
<1> USE DEF S!HostAt, S!Assigned, S!Wire, S!World, S!Past
<1>0. SessionTypes
  BY DEF SessionInv
<1>1. /\ UNCHANGED <<kind, relay, runner, chain, asked, pr, limitSaid, torn>>
      /\ host.at = "reading" /\ pipe' \in {Tail(pipe), pipe}
  BY DEF S!ReadResult, S!EndOfStream
<1>2. PICK outcome \in Outcomes, named \in BOOLEAN :
        /\ S!Decided(outcome, named) /\ runner.at = "exited" /\ pipe' = <<>>
        /\ \/ outcome = S!Outcome(runner) /\ named = runner.named
              /\ (Holds(pipe, "limit") => FALSE)
           \/ outcome = "failed" /\ (named <=> runner.named /\ ~host.abort) /\ pipe = <<>>
  <2>1. CASE S!ReadResult
    <3>1. /\ pipe # <<>> /\ Head(pipe).is = "result" /\ pipe' = Tail(pipe)
          /\ S!Decided(Head(pipe).outcome, Head(pipe).named)
      BY <2>1 DEF S!ReadResult
    <3>2. /\ Head(pipe) = pipe[1] /\ Len(pipe) \in Nat \ {0} /\ pipe' \in Seq(Frames)
          /\ Len(pipe') = Len(pipe) - 1
          /\ \A what : Holds(pipe, what) <=> Holds(pipe', what) \/ Head(pipe).is = what
      BY <1>0, <3>1, TakenOff DEF SessionTypes
    <3>3. 1 \in 1..Len(pipe) /\ pipe[1].is = "result"
      BY <3>1, <3>2
    <3>4. 1 = Len(pipe) /\ runner.at = "exited" /\ pipe[1] = S!Result(S!Outcome(runner), runner.named)
      BY <3>3 DEF SessionInv, ResultIsLast
    <3>5. S!Outcome(runner) \in Outcomes /\ runner.named \in BOOLEAN
      BY <1>0 DEF SessionTypes, Runners, Outcomes, S!Outcome, S!ImplOutcome
    <3>6. Head(pipe).outcome = S!Outcome(runner) /\ Head(pipe).named = runner.named
      BY <3>2, <3>4, <3>5, FramesAre
    <3>7. pipe' = <<>> /\ ~Holds(pipe, "limit")
      <4>0. Len(pipe) = 1 /\ Len(pipe') = Len(pipe) - 1
        BY <3>2, <3>4
      <4>1. Len(pipe') = 0
        BY <4>0
      <4>2. pipe' = <<>>
        BY <3>2, <4>1
      <4>. QED  BY <3>1, <3>2, <4>2, NothingHeld
    <3>. QED  BY <3>1, <3>4, <3>5, <3>6, <3>7
  <2>2. CASE S!EndOfStream
    <3>1. /\ runner.at \in {"none", "exited"} /\ pipe = <<>> /\ pipe' = pipe
          /\ S!Decided("failed", runner.named /\ ~host.abort)
      BY <2>2 DEF S!EndOfStream, S!Gone
    <3>2. runner.at = "exited"
      BY <1>1, <3>1 DEF SessionInv, InStep
    <3>. QED  BY <3>1, <3>2 DEF Outcomes
  <2>. QED  BY <2>1, <2>2
<1>3. /\ host' = [host EXCEPT !.at = "done", !.verdict = S!Verdict(outcome, named)]
      /\ noted' \in BOOLEAN /\ (noted' <=> noted \/ outcome = "escalated")
  BY <1>0, <1>2 DEF S!Decided, SessionTypes
<1>4. S!Verdict(outcome, named) \in Outcomes \cup {"limited"}
  BY <1>2 DEF S!Verdict, Outcomes
<1>5. /\ host' \in Hosts /\ host'.at = "done" /\ host'.abort = host.abort
      /\ host'.sawLimit = host.sawLimit /\ host'.verdict = S!Verdict(outcome, named)
  BY <1>0, <1>3, <1>4 DEF SessionTypes, Hosts
<1>6. SessionTypes'
  BY <1>0, <1>1, <1>2, <1>3, <1>5, NothingHeld DEF SessionTypes
<1>7. InStep' /\ Silent'
  BY <1>1, <1>2, <1>5 DEF SessionInv, InStep, Silent
<1>8. ResultIsLast'
  BY <1>1, <1>2, NothingHeld DEF SessionInv, ResultIsLast
<1>9. QuestionCarried'
  BY <1>1, <1>5 DEF SessionInv, QuestionCarried
<1>10. limitSaid /\ ~host.abort /\ ~runner.named => host.sawLimit
  <2>1. chain = <<>>
    BY <1>2 DEF SessionInv, Silent
  <2>. QED  BY <1>2, <2>1, NothingHeld DEF SessionInv, RefusalCarried
<1>11. RefusalCarried'
  BY <1>1, <1>5, <1>10 DEF SessionInv, RefusalCarried
<1>12. S!QuestionKept'
  <2> SUFFICES ASSUME asked > 0 PROVE noted' \/ torn
    BY <1>1 DEF S!QuestionKept
  <2>1. kind = "impl" /\ (torn \/ runner.escalation)
    BY DEF SessionInv, QuestionCarried
  <2>2. CASE pipe = <<>>
    BY <1>1, <1>2, <2>2, NothingHeld DEF SessionInv, QuestionCarried
  <2>3. CASE pipe # <<>>
    BY <1>2, <1>3, <2>1, <2>3 DEF S!Outcome, S!ImplOutcome
  <2>. QED  BY <2>2, <2>3
<1>13. S!RefusalHeard'
  <2> SUFFICES ASSUME S!Verdict(outcome, named) = "failed", limitSaid, ~host.abort PROVE FALSE
    BY <1>1, <1>5 DEF S!RefusalHeard
  <2>1. outcome = "failed" /\ ~named /\ ~(host.sawLimit /\ kind \in {"impl", "master"})
    BY DEF S!Verdict
  <2>2. ~runner.named
    BY <1>2, <2>1
  <2>3. kind = "impl"
    BY <1>2, <2>2 DEF SessionInv, RefusalCarried
  <2>. QED  BY <1>10, <2>1, <2>2, <2>3
<1>. QED
  BY <1>6, <1>7, <1>8, <1>9, <1>11, <1>12, <1>13 DEF SessionInv, SessionHeard

LEMMA SessionRests ==
  ASSUME SessionInv, UNCHANGED sessionVars
  PROVE  SessionInv'
<1>1. UNCHANGED <<kind, relay, host, runner, chain, pipe, asked, noted, pr, limitSaid, torn>>
  BY DEF sessionVars
<1>. QED
  BY <1>1
  DEF SessionInv, SessionTypes, InStep, Silent, ResultIsLast, QuestionCarried, RefusalCarried, Holds,
      SessionHeard, S!QuestionKept, S!RefusalHeard, S!HostAt, S!Result, S!Outcome, S!ImplOutcome, S!Note

(* What a session said before it was cut off reaches the daemon, a question *)
(* as much as a refusal of the provider (transport.ts, runner.ts,          *)
(* container-execution.ts).  The reason: the result is the last thing a    *)
(* runner writes and tells what the runner held, the pipe keeps order, and *)
(* what went out before it -- a posted question, a refusal -- is held by   *)
(* the runner, on its way in a frame, or lost only with a cut run.         *)
THEOREM SessionIsHeard == Spec => []SessionHeard
<1>1. Init => SessionInv
  <2> SUFFICES ASSUME Init PROVE SessionInv
    OBVIOUS
  <2>1. S!SesInit
    BY DEF Init
  <2>2. /\ host \in Hosts /\ host.at = "idle" /\ runner \in Runners /\ runner.at = "none"
        /\ relay \in BOOLEAN /\ chain = <<>> /\ pipe = <<>> /\ asked = 0 /\ limitSaid = FALSE
        /\ noted = FALSE /\ torn = FALSE
    BY <2>1 DEF S!SesInit, S!HostIdle, S!RunnerIdle, Hosts, Runners, Outcomes
  <2>3. SessionTypes
    BY <2>2, NothingHeld DEF SessionTypes
  <2>. QED
    BY <2>2, <2>3, NothingHeld
    DEF SessionInv, InStep, Silent, ResultIsLast, QuestionCarried, RefusalCarried,
        SessionHeard, S!QuestionKept, S!RefusalHeard, S!HostAt
<1>2. SessionInv /\ [Next]_vars => SessionInv'
  <2> SUFFICES ASSUME SessionInv, [Next]_vars PROVE SessionInv'
    OBVIOUS
  <2>1. CASE S!SesNext
    BY <2>1, RunnerWorks, RunnerWrites, RunnerEnds, HostStarts, HostReads, HostDecides
    DEF S!SesNext, S!RunnerStep, S!HostStep
  <2>2. CASE UNCHANGED sessionVars
    BY <2>2, SessionRests
  <2>. QED
    BY <2>1, <2>2
    DEF Next, vars, GateMoves, SessionMoves, SyncMoves, TreesMoves, ViewMoves, LedgerMoves, ClientMoves,
        OnlyGate, OnlySync, OnlyTrees, OnlyView, OnlyLedger, OnlyClient
<1>3. SessionInv => SessionHeard
  BY DEF SessionInv
<1>. QED
  BY <1>1, <1>2, <1>3, PTL DEF Spec

-----------------------------------------------------------------------------
(* The labels of an issue.                                                 *)

Asked == {"a", "b", "c"}
Editors == [at : {"idle", "edit", "create", "ok", "thrown"}, op : {"patch", "add", "remove"},
            add : SUBSET Asked, remove : SUBSET Asked, asked : [add : SUBSET Asked, remove : SUBSET Asked],
            created : SUBSET Asked, make : SUBSET Asked, tries : Nat]

(* What was to be removed and no longer is was gone from the repository,   *)
(* so from the issue, and nobody but the call puts a label there.          *)
EditInv ==
  /\ call \in Editors /\ on \subseteq repo
  /\ call.at \in {"edit", "create"} =>
       /\ call.add = call.asked.add
       /\ call.remove \subseteq call.asked.remove
       /\ (call.asked.remove \ call.asked.add) \cap on \subseteq call.remove
       /\ call.op = "remove" => call.asked.add = {} /\ call.asked.remove = {"c"}

LEMMA PatchesAre ==
  ASSUME NEW p \in PatchSet
  PROVE  /\ p.op \in {"patch", "add", "remove"} /\ p.add \in SUBSET Asked /\ p.remove \in SUBSET Asked
         /\ p.op = "remove" => p.add = {} /\ p.remove = {"c"}
  BY DEF PatchSet, P, Asked

(* The step of a call: the invariant, and that it returns with its job done.*)
LEMMA EditStep ==
  ASSUME EditInv, H!LabelStep
  PROVE  /\ EditInv'
         /\ call.at # "ok" /\ call'.at = "ok" =>
              /\ call.asked.add \subseteq on'
              /\ (call.asked.remove \ call.asked.add) \cap on' = {}
<1>0. call \in Editors /\ on \subseteq repo
  BY DEF EditInv
<1>1. CASE H!StartPatch
  <2>1. PICK p \in PatchSet :
          call' = [H!Idle EXCEPT !.at = "edit", !.op = p.op, !.add = p.add, !.remove = p.remove,
                                 !.asked = [add |-> p.add, remove |-> p.remove]]
    BY <1>1 DEF H!StartPatch
  <2>2. /\ call' \in Editors /\ call'.at = "edit" /\ call'.op = p.op
        /\ call'.add = p.add /\ call'.remove = p.remove
        /\ call'.asked.add = p.add /\ call'.asked.remove = p.remove
    BY <2>1, PatchesAre DEF H!Idle, Editors, Asked
  <2>3. UNCHANGED <<repo, on>>
    BY <1>1 DEF H!StartPatch
  <2>. QED  BY <1>0, <2>2, <2>3, PatchesAre DEF EditInv
<1>2. CASE H!EditLabels
  <2>1. /\ call.at = "edit" /\ call' = [call EXCEPT !.at = "ok"] /\ repo' = repo
        /\ on' = (on \ (call.remove \ call.add)) \cup call.add
        /\ call.add \subseteq repo
    BY <1>2 DEF H!EditLabels, H!Removed
  <2>2. call' \in Editors /\ call'.at = "ok"
    BY <1>0, <2>1 DEF Editors
  <2>3. on' \subseteq repo'
    BY <1>0, <2>1
  <2>4. call.asked.add \subseteq on' /\ (call.asked.remove \ call.asked.add) \cap on' = {}
    BY <2>1 DEF EditInv
  <2>. QED  BY <2>2, <2>3, <2>4 DEF EditInv
<1>3. CASE H!LabelNotFound
  <2>0. call.at = "edit" /\ UNCHANGED <<repo, on>>
    BY <1>3 DEF H!LabelNotFound
  <2>1. CASE \E l \in call.add \ repo : call' = H!Creates(call, l)
    <3>1. PICK l \in call.add \ repo : call' = H!Creates(call, l)
      BY <2>1
    <3>2. CASE call' = [call EXCEPT !.at = "thrown"]
      BY <1>0, <2>0, <3>2 DEF EditInv, Editors
    <3>3. CASE call' = [call EXCEPT !.at = "create", !.created = call.created \cup {l}, !.make = {l}, !.tries = 0]
      <4>1. l \in Asked
        BY <1>0, <3>1 DEF Editors
      <4>2. call' \in Editors
        BY <1>0, <3>3, <4>1 DEF Editors
      <4>3. /\ call'.at = "create" /\ call'.op = call.op /\ call'.add = call.add
            /\ call'.remove = call.remove /\ call'.asked = call.asked
        BY <1>0, <3>3 DEF Editors
      <4>. QED  BY <1>0, <2>0, <4>2, <4>3 DEF EditInv
    <3>. QED  BY <3>1, <3>2, <3>3 DEF H!Creates
  <2>2. CASE \E l \in H!Removed(call) \ repo : call.op = "remove" /\ call' = [call EXCEPT !.at = "ok"]
    <3>1. PICK l \in H!Removed(call) \ repo : call.op = "remove" /\ call' = [call EXCEPT !.at = "ok"]
      BY <2>2
    <3>2. call' \in Editors /\ call'.at = "ok"
      BY <1>0, <3>1 DEF Editors
    <3>3. l \in call.remove /\ l \notin on
      BY <1>0, <3>1 DEF H!Removed
    <3>4. l = "c" /\ call.asked.add = {} /\ call.asked.remove = {"c"}
      BY <2>0, <3>1, <3>3 DEF EditInv
    <3>. QED  BY <1>0, <2>0, <3>2, <3>3, <3>4 DEF EditInv
  <2>3. CASE \E l \in H!Removed(call) \ repo :
          LET c == H!DropsRemoval([call EXCEPT !.tries = 0], l)
          IN call' = IF c.add \cup c.remove = {} THEN [c EXCEPT !.at = "ok"] ELSE c
    <3>1. PICK l \in H!Removed(call) \ repo :
            LET c == H!DropsRemoval([call EXCEPT !.tries = 0], l)
            IN call' = IF c.add \cup c.remove = {} THEN [c EXCEPT !.at = "ok"] ELSE c
      BY <2>3
    <3> DEFINE c == H!DropsRemoval([call EXCEPT !.tries = 0], l)
    <3>2. /\ c \in Editors /\ c.at = "edit" /\ c.op = call.op /\ c.add = call.add
          /\ c.remove = call.remove \ {l} /\ c.asked = call.asked
      BY <1>0, <2>0 DEF H!DropsRemoval, Editors
    <3>3. call' = IF c.add \cup c.remove = {} THEN [c EXCEPT !.at = "ok"] ELSE c
      BY <3>1
    <3> HIDE DEF c
    <3>4. l \notin on
      BY <1>0, <3>1
    <3>5. CASE c.add \cup c.remove = {}
      <4>1. call' \in Editors /\ call'.at = "ok"
        BY <3>2, <3>3, <3>5 DEF Editors
      <4>2. call.add = {} /\ call.remove \subseteq {l}
        BY <3>2, <3>5
      <4>3. /\ call.asked.add \subseteq on'
            /\ (call.asked.remove \ call.asked.add) \cap on' = {}
        BY <2>0, <3>4, <4>2 DEF EditInv
      <4>. QED  BY <1>0, <2>0, <4>1, <4>3 DEF EditInv
    <3>6. CASE c.add \cup c.remove # {}
      <4>1. call' = c
        BY <3>3, <3>6
      <4>. QED  BY <1>0, <2>0, <3>2, <3>4, <4>1 DEF EditInv
    <3>. QED  BY <3>5, <3>6
  <2>. QED  BY <1>3, <2>1, <2>2, <2>3 DEF H!LabelNotFound
<1>4. CASE H!CreateLabel
  <2>1. call' = [call EXCEPT !.at = "edit", !.tries = 0] /\ call.at = "create" /\ on' = on /\ repo \subseteq repo'
    BY <1>4 DEF H!CreateLabel
  <2>2. /\ call' \in Editors /\ call'.at = "edit" /\ call'.op = call.op /\ call'.add = call.add
        /\ call'.remove = call.remove /\ call'.asked = call.asked
    BY <1>0, <2>1 DEF Editors
  <2>. QED  BY <1>0, <2>1, <2>2 DEF EditInv
<1>5. CASE H!EditFails
  <2>1. UNCHANGED <<repo, on>> /\ call.at \in {"edit", "create"}
    BY <1>5 DEF H!EditFails
  <2>2. call' = [call EXCEPT !.tries = call.tries + 1] \/ call' = [call EXCEPT !.at = "thrown"]
    BY <1>5 DEF H!EditFails
  <2>3. call.tries + 1 \in Nat
    BY <1>0 DEF Editors
  <2>4. /\ call' \in Editors /\ call'.at \in {call.at, "thrown"} /\ call'.op = call.op /\ call'.add = call.add
        /\ call'.remove = call.remove /\ call'.asked = call.asked
    BY <1>0, <2>2, <2>3 DEF Editors
  <2>. QED  BY <1>0, <2>1, <2>4 DEF EditInv
<1>6. CASE H!Relabel
  <2>1. call' = call /\ on' \subseteq on /\ on' \subseteq repo'
    BY <1>0, <1>6 DEF H!Relabel
  <2>. QED  BY <1>0, <2>1 DEF EditInv
<1>. QED
  BY <1>1, <1>2, <1>3, <1>4, <1>5, <1>6 DEF H!LabelStep, H!EditorStep

LEMMA PatchesWhole == Spec => H!PatchIsWhole
<1>1. Init => EditInv
  <2> SUFFICES ASSUME Init PROVE EditInv
    OBVIOUS
  <2>1. call = H!Idle /\ on \subseteq repo
    BY DEF Init, H!GhInit
  <2>. QED  BY <2>1 DEF EditInv, H!Idle, Editors, Asked
<1>2. EditInv /\ [Next]_vars =>
        /\ EditInv'
        /\ [call.at # "ok" /\ call'.at = "ok" =>
              /\ call.asked.add \subseteq on'
              /\ (call.asked.remove \ call.asked.add) \cap on' = {}]_H!ghVars
  <2> SUFFICES ASSUME EditInv, [Next]_vars
               PROVE  /\ EditInv'
                      /\ call.at # "ok" /\ call'.at = "ok" =>
                           /\ call.asked.add \subseteq on'
                           /\ (call.asked.remove \ call.asked.add) \cap on' = {}
    OBVIOUS
  <2>1. CASE H!LabelStep
    BY <2>1, EditStep
  <2>2. CASE UNCHANGED <<repo, on, call>>
    BY <2>2 DEF EditInv
  <2>. QED
    BY <2>1, <2>2
    DEF Next, vars, ghVars, H!GhNext, H!labelVars, GateMoves, SessionMoves, SyncMoves, TreesMoves, ViewMoves,
        LedgerMoves, ClientMoves, OnlyGate, OnlySession, OnlySync, OnlyTrees, OnlyView, OnlyLedger
<1>. QED
  BY <1>1, <1>2, PTL DEF Spec, H!PatchIsWhole

-----------------------------------------------------------------------------
(* The clone's worktrees and branches.                                     *)

Claiming == {"look", "place", "clear", "add", "record", "label", "undo"}
Refs == {"none", "base", "work"}
Tasks == [at : Claiming \cup {"idle", "claims", "sweep", "rows", "trees", "branches"},
          todo : SUBSET Issues, of : SUBSET Issues, saw : {"none", "open", "closed", "unread"}]

TreeTypes ==
  /\ row \in [Issues -> {"none", "running", "parked", "done"}]
  /\ driven \in SUBSET Issues /\ ready \in SUBSET Issues /\ trees \in SUBSET Issues
  /\ local \in [Issues -> Refs] /\ origin \in [Issues -> Refs]
  /\ pulls \in [Issues -> {"none", "open", "closed"}]
  /\ task \in Tasks /\ cloneFaults \in Nat

(* One issue at a time is claimed; nobody drives it, and until its row is  *)
(* written nothing of it is to be kept, unless someone opened it since.    *)
Claimed(i) ==
  /\ task.of = {i} /\ task.at \in Claiming /\ i \notin driven
  /\ task.at \notin {"label", "undo"} => row[i] \in {"none", "done"}
  /\ task.at = "label" => row[i] = "running"
  /\ task.at = "undo" => row[i] = "none"
  /\ task.at \in {"record", "label"} => i \in trees /\ T!Attachable(i)
  /\ task.at = "clear" => task.saw # "open"
  /\ task.at \in {"place", "clear"} /\ task.saw # "open" /\ pulls[i] = "open" => cloneFaults > 0

(* What a pass is to remove stays nobody's until it is removed.            *)
Free(i) ==
  /\ task.at = "sweep" => i \notin driven
  /\ task.at = "rows" => i \notin driven /\ row[i] = "running"
  /\ task.at \in {"trees", "branches"} => i \notin driven /\ row[i] \notin {"running", "parked"}

TreeInv ==
  /\ TreeTypes
  /\ \A i \in driven : row[i] = "running" /\ i \in trees
  /\ \A i \in Issues : row[i] \in {"running", "parked"} => T!Attachable(i)
  /\ task.of # {} => \E i \in Issues : Claimed(i)
  /\ \A i \in task.todo : Free(i)

\* The one issue of a claim.
LEMMA ClaimedOne ==
  ASSUME TreeInv, NEW i \in task.of
  PROVE  i \in Issues /\ task.of = {i} /\ Claimed(i)
BY DEF TreeInv, Claimed

LEMMA FaultCounts ==
  ASSUME NEW f, TreeInv, T!CloneFault(f) PROVE cloneFaults' \in Nat /\ cloneFaults' > 0
<1>1. cloneFaults \in Nat /\ cloneFaults' = cloneFaults + 1
  BY DEF TreeInv, TreeTypes, T!CloneFault
<1>. QED  BY <1>1

\* The claim at another stage, with the issue it has and the rest as it was.
LEMMA ClaimGoesOn ==
  ASSUME TreeInv, NEW s \in Claiming, task.at \in Claiming, task' = [task EXCEPT !.at = s]
  PROVE  task' \in Tasks /\ task'.at = s /\ task'.of = task.of /\ task'.todo = task.todo /\ task'.saw = task.saw
BY DEF TreeInv, TreeTypes, Tasks, Claiming

\* The claim given up or done.
LEMMA ClaimIsOver ==
  ASSUME TreeInv, T!NextClaim
  PROVE  task' \in Tasks /\ task'.at = "claims" /\ task'.of = {} /\ task'.todo = task.todo
BY DEF TreeInv, TreeTypes, Tasks, T!NextClaim

\* What a failed claim makes of its row.
LEMMA FailedRow ==
  ASSUME TreeInv, NEW i \in Issues, NEW u \in BOOLEAN, T!Failed(i, u)
  PROVE  /\ ready' \in SUBSET Issues
         /\ row' \in [Issues -> {"none", "running", "parked", "done"}]
         /\ row' = row \/ row' = [row EXCEPT ![i] = "done"]
BY DEF TreeInv, TreeTypes, T!Failed, T!Set

LEMMA LookKeeps ==
  ASSUME TreeInv, T!Look PROVE TreeInv'
<1> USE DEF T!At, T!git, T!Attachable
<1>1. PICK i \in task.of :
        \/ task' = [task EXCEPT !.at = "place", !.saw = pulls[i]] /\ T!CloneCalm
        \/ task' = [task EXCEPT !.at = "place", !.saw = "unread"] /\ T!CloneFault("read")
  BY DEF T!Look
<1>2. i \in Issues /\ task.of = {i} /\ Claimed(i) /\ task.at = "look"
  BY <1>1, ClaimedOne DEF T!Look
<1>3. TreeTypes /\ task \in Tasks /\ pulls[i] \in {"none", "open", "closed"}
  BY <1>2 DEF TreeInv, TreeTypes
<1>4. UNCHANGED <<ready, row, driven, trees, local, origin, pulls>>
  BY DEF T!Look
<1>5. /\ task' \in Tasks /\ task'.at = "place" /\ task'.of = {i} /\ task'.todo = task.todo
      /\ cloneFaults' \in Nat
      /\ task'.saw # "open" /\ pulls[i] = "open" => cloneFaults' > 0
  <2>1. CASE task' = [task EXCEPT !.at = "place", !.saw = pulls[i]] /\ T!CloneCalm
    BY <2>1, <1>2, <1>3 DEF Tasks, Claiming, T!CloneCalm, TreeTypes
  <2>2. CASE task' = [task EXCEPT !.at = "place", !.saw = "unread"] /\ T!CloneFault("read")
    <3>1. cloneFaults' \in Nat /\ cloneFaults' > 0
      BY <2>2, FaultCounts
    <3>. QED  BY <3>1, <2>2, <1>2, <1>3 DEF Tasks, Claiming
  <2>. QED  BY <1>1, <2>1, <2>2
<1>6. Claimed(i)'
  BY <1>2, <1>4, <1>5 DEF Claimed, Claiming
<1>. QED  BY <1>2, <1>3, <1>4, <1>5, <1>6 DEF TreeInv, TreeTypes, Free

LEMMA AttachKeeps ==
  ASSUME TreeInv, T!AttachWork PROVE TreeInv'
<1> USE DEF T!At, T!git, T!Attachable
<1>1. PICK i \in task.of :
        \/ /\ T!Attachable(i) /\ local' = T!AttachedTo(i) /\ trees' = trees \cup {i}
           /\ task' = [task EXCEPT !.at = "record"] /\ UNCHANGED <<ready, row, failures>>
        \/ /\ ~T!Attachable(i) /\ trees' = trees \ {i} /\ UNCHANGED local
           /\ \E u \in BOOLEAN : T!Failed(i, u)
           /\ T!NextClaim
  BY DEF T!AttachWork
<1>2. i \in Issues /\ task.of = {i} /\ Claimed(i) /\ task.at = "place"
  BY <1>1, ClaimedOne DEF T!AttachWork
<1>3. UNCHANGED <<driven, origin, pulls, cloneFaults>>
  BY DEF T!AttachWork, T!CloneCalm
<1>4. CASE /\ T!Attachable(i) /\ local' = T!AttachedTo(i) /\ trees' = trees \cup {i}
           /\ task' = [task EXCEPT !.at = "record"] /\ UNCHANGED <<ready, row, failures>>
  <2>1. /\ task' \in Tasks /\ task'.at = "record" /\ task'.of = {i} /\ task'.todo = task.todo
        /\ task'.saw = task.saw
    BY <1>2, <1>4, ClaimGoesOn DEF Claiming
  <2>2. local' \in [Issues -> Refs] /\ \A j \in Issues : T!Attachable(j) => T!Attachable(j)'
    BY <1>2, <1>3, <1>4 DEF TreeInv, TreeTypes, T!AttachedTo, T!Set
  <2>3. Claimed(i)'
    BY <1>2, <1>3, <1>4, <2>1, <2>2 DEF Claimed, Claiming
  <2>. QED  BY <1>2, <1>3, <1>4, <2>1, <2>2, <2>3 DEF TreeInv, TreeTypes, Free
<1>5. CASE /\ ~T!Attachable(i) /\ trees' = trees \ {i} /\ UNCHANGED local
           /\ \E u \in BOOLEAN : T!Failed(i, u)
           /\ T!NextClaim
  <2>1. task' \in Tasks /\ task'.at = "claims" /\ task'.of = {} /\ task'.todo = task.todo
    BY <1>5, ClaimIsOver
  <2>2. /\ ready' \in SUBSET Issues
        /\ row' \in [Issues -> {"none", "running", "parked", "done"}]
        /\ row' = row \/ row' = [row EXCEPT ![i] = "done"]
    BY <1>2, <1>5, FailedRow
  <2>. QED  BY <1>2, <1>3, <1>5, <2>1, <2>2 DEF TreeInv, TreeTypes, Claimed, Free
<1>. QED  BY <1>1, <1>4, <1>5

LEMMA FetchKeeps ==
  ASSUME TreeInv, T!FetchBase PROVE TreeInv'
<1> USE DEF T!At, T!git, T!Attachable
<1>1. UNCHANGED <<driven, trees, local, origin, pulls>> /\ task.at = "place" /\ task.saw # "open"
  BY DEF T!FetchBase, T!ResumesWork
<1>2. CASE task' = [task EXCEPT !.at = "clear"] /\ T!CloneCalm /\ UNCHANGED <<ready, row, failures>>
  <2>1. /\ task' \in Tasks /\ task'.at = "clear" /\ task'.of = task.of /\ task'.todo = task.todo
        /\ task'.saw = task.saw
    BY <1>1, <1>2, ClaimGoesOn DEF Claiming
  <2>2. ASSUME NEW i \in Issues, Claimed(i) PROVE Claimed(i)'
    BY <1>1, <1>2, <2>1, <2>2 DEF Claimed, Claiming, T!CloneCalm
  <2>. QED  BY <1>1, <1>2, <2>1, <2>2 DEF TreeInv, TreeTypes, Free, T!CloneCalm
<1>3. CASE /\ T!CloneFault("network") /\ T!NextClaim
           /\ \E i \in task.of : \E u \in BOOLEAN : T!Failed(i, u)
  <2>1. task' \in Tasks /\ task'.at = "claims" /\ task'.of = {} /\ task'.todo = task.todo
    BY <1>3, ClaimIsOver
  <2>2. cloneFaults' \in Nat
    BY <1>3, FaultCounts
  <2>3. PICK i \in task.of : \E u \in BOOLEAN : T!Failed(i, u)
    BY <1>3
  <2>4. i \in Issues /\ Claimed(i)
    BY <2>3, ClaimedOne
  <2>5. /\ ready' \in SUBSET Issues
        /\ row' \in [Issues -> {"none", "running", "parked", "done"}]
        /\ row' = row \/ row' = [row EXCEPT ![i] = "done"]
    BY <2>3, <2>4, FailedRow
  <2>. QED  BY <1>1, <2>1, <2>2, <2>4, <2>5 DEF TreeInv, TreeTypes, Claimed, Free
<1>. QED  BY <1>2, <1>3 DEF T!FetchBase

LEMMA UnlabelKeeps ==
  ASSUME TreeInv, T!Unlabel PROVE TreeInv'
<1> USE DEF T!At, T!git, T!Attachable
<1>1. PICK i \in task.of :
       \/ /\ ready' = ready \ {i} /\ driven' = driven \cup {i}
          /\ T!NextClaim /\ UNCHANGED row /\ T!CloneCalm
       \/ /\ T!CloneFault("label") /\ row' = T!Set(row, i, "none")
          /\ task' = [task EXCEPT !.at = "undo"] /\ UNCHANGED <<ready, driven>>
  BY DEF T!Unlabel
<1>2. i \in Issues /\ task.of = {i} /\ Claimed(i) /\ task.at = "label"
  BY <1>1, ClaimedOne DEF T!Unlabel
<1>3. UNCHANGED <<trees, local, origin, pulls>>
  BY DEF T!Unlabel
<1>4. CASE /\ ready' = ready \ {i} /\ driven' = driven \cup {i}
           /\ T!NextClaim /\ UNCHANGED row /\ T!CloneCalm
  <2>1. task' \in Tasks /\ task'.at = "claims" /\ task'.of = {} /\ task'.todo = task.todo
    BY <1>4, ClaimIsOver
  <2>. QED  BY <1>2, <1>3, <1>4, <2>1 DEF TreeInv, TreeTypes, Claimed, Free, T!CloneCalm
<1>5. CASE /\ T!CloneFault("label") /\ row' = T!Set(row, i, "none")
           /\ task' = [task EXCEPT !.at = "undo"] /\ UNCHANGED <<ready, driven>>
  <2>1. /\ task' \in Tasks /\ task'.at = "undo" /\ task'.of = {i} /\ task'.todo = task.todo
        /\ task'.saw = task.saw
    BY <1>2, <1>5, ClaimGoesOn DEF Claiming
  <2>2. cloneFaults' \in Nat
    BY <1>5, FaultCounts
  <2>3. /\ row' \in [Issues -> {"none", "running", "parked", "done"}]
        /\ row' = [row EXCEPT ![i] = "none"]
    BY <1>2, <1>5 DEF TreeInv, TreeTypes, T!Set
  <2>4. row'[i] = "none"
    BY <1>2, <2>3 DEF TreeInv, TreeTypes
  <2>5. Claimed(i)'
    BY <1>2, <1>5, <2>1, <2>4 DEF Claimed, Claiming
  <2>. QED  BY <1>2, <1>3, <1>5, <2>1, <2>2, <2>3, <2>5 DEF TreeInv, TreeTypes, Claimed, Free
<1>. QED  BY <1>1, <1>4, <1>5

LEMMA UndoKeeps ==
  ASSUME TreeInv, T!Undo PROVE TreeInv'
<1> USE DEF T!At, T!git, T!Attachable
<1>1. task' \in Tasks /\ task'.at = "claims" /\ task'.of = {} /\ task'.todo = task.todo
  BY ClaimIsOver DEF T!Undo
<1>2. PICK i \in task.of :
       /\ \/ trees' = trees \ {i} /\ T!CloneCalm
          \/ T!CloneFault("remove") /\ UNCHANGED trees
       /\ \E u \in BOOLEAN : T!Failed(i, u)
  BY DEF T!Undo
<1>3. i \in Issues /\ task.of = {i} /\ Claimed(i) /\ task.at = "undo"
  BY <1>2, ClaimedOne DEF T!Undo
<1>4. /\ ready' \in SUBSET Issues
      /\ row' \in [Issues -> {"none", "running", "parked", "done"}]
      /\ row' = row \/ row' = [row EXCEPT ![i] = "done"]
  BY <1>2, <1>3, FailedRow
<1>5. cloneFaults' \in Nat
  BY <1>2, FaultCounts DEF T!CloneCalm, TreeInv, TreeTypes
<1>6. UNCHANGED <<driven, local, origin, pulls>> /\ trees' \in {trees, trees \ {i}}
  BY <1>2 DEF T!Undo
<1>. QED  BY <1>1, <1>3, <1>4, <1>5, <1>6 DEF TreeInv, TreeTypes, Claimed, Free

LEMMA SweepKeeps ==
  ASSUME TreeInv, T!SweepTrees PROVE TreeInv'
<1> USE DEF T!At, T!git, T!Attachable
<1>1. UNCHANGED <<ready, row, driven, trees, local, origin, pulls, cloneFaults>>
  BY DEF T!SweepTrees, T!CloneCalm
<1>2. task' = [task EXCEPT !.at = "sweep", !.todo = trees \ T!Referenced] /\ task.at = "idle"
  BY DEF T!SweepTrees
<1>3. /\ task' \in Tasks /\ task'.at = "sweep" /\ task'.of = task.of
      /\ task'.todo = trees \ T!Referenced
  BY <1>2 DEF TreeInv, TreeTypes, Tasks
<1>. QED  BY <1>1, <1>2, <1>3 DEF TreeInv, TreeTypes, Claimed, Claiming, Free, T!Referenced

LEMMA RemoveKeeps ==
  ASSUME TreeInv, T!RemoveTree PROVE TreeInv'
<1> USE DEF T!At, T!git, T!Attachable
<1>1. UNCHANGED <<ready, row, driven, local, origin, pulls>> /\ task.at = "sweep"
  BY DEF T!RemoveTree
<1>2. ASSUME NEW i \in task.todo, task' = [task EXCEPT !.todo = @ \ {i}],
             (trees' = trees \ {i} /\ T!CloneCalm) \/ (T!CloneFault("remove") /\ UNCHANGED trees)
      PROVE  TreeInv'
  <2>1. i \in Issues /\ i \notin driven
    BY <1>1, <1>2 DEF TreeInv, TreeTypes, Tasks, Free
  <2>2. /\ task' \in Tasks /\ task'.at = "sweep" /\ task'.of = task.of /\ task'.todo = task.todo \ {i}
        /\ task'.saw = task.saw
    BY <1>1, <1>2 DEF TreeInv, TreeTypes, Tasks
  <2>3. cloneFaults' \in Nat
    BY <1>2, FaultCounts DEF T!CloneCalm, TreeInv, TreeTypes
  <2>4. trees' \in {trees, trees \ {i}}
    BY <1>2
  <2>. QED  BY <1>1, <2>1, <2>2, <2>3, <2>4 DEF TreeInv, TreeTypes, Claimed, Claiming, Free
<1>3. ASSUME task' = [T!Idle EXCEPT !.at = "claims", !.todo = ready], UNCHANGED trees, T!CloneCalm
      PROVE  TreeInv'
  <2>1. task' \in Tasks /\ task'.at = "claims" /\ task'.of = {} /\ task'.todo = ready
    BY <1>3 DEF T!Idle, TreeInv, TreeTypes, Tasks
  <2>2. UNCHANGED <<ready, row, driven, trees, local, origin, pulls, cloneFaults>>
    BY <1>1, <1>3 DEF T!CloneCalm
  <2>3. TreeTypes'
    BY <2>1, <2>2 DEF TreeInv, TreeTypes
  <2>. QED  BY <2>1, <2>2, <2>3 DEF TreeInv, Claimed, Free
<1>. QED  BY <1>2, <1>3 DEF T!RemoveTree

LEMMA StartKeeps ==
  ASSUME TreeInv, T!StartClaim PROVE TreeInv'
<1> USE DEF T!At, T!git, T!Attachable
<1>1. UNCHANGED <<ready, row, driven, trees, local, origin, pulls, cloneFaults>> /\ task.at = "claims"
  BY DEF T!StartClaim, T!CloneCalm
<1>2. ASSUME NEW i \in task.todo, T!Claimable(i),
             task' = [task EXCEPT !.todo = @ \ {i}, !.at = "look", !.of = {i}]
      PROVE  TreeInv'
  <2>1. i \in Issues /\ i \notin driven /\ row[i] \in {"none", "done"}
    BY <1>2 DEF TreeInv, TreeTypes, Tasks, T!Claimable
  <2>2. /\ task' \in Tasks /\ task'.at = "look" /\ task'.of = {i} /\ task'.todo = task.todo \ {i}
        /\ task'.saw = task.saw
    BY <1>2, <2>1 DEF TreeInv, TreeTypes, Tasks, Claiming
  <2>3. Claimed(i)'
    BY <1>1, <2>1, <2>2 DEF Claimed, Claiming
  <2>. QED  BY <1>1, <2>1, <2>2, <2>3 DEF TreeInv, TreeTypes, Free
<1>3. ASSUME NEW i \in task.todo,
             task' = [task EXCEPT !.todo = @ \ {i}, !.at = "claims", !.of = {}]
      PROVE  TreeInv'
  <2>1. task' \in Tasks /\ task'.at = "claims" /\ task'.of = {} /\ task'.todo = task.todo \ {i}
    BY <1>3 DEF TreeInv, TreeTypes, Tasks
  <2>. QED  BY <1>1, <2>1 DEF TreeInv, TreeTypes, Claimed, Free
<1>4. ASSUME task' = T!Idle PROVE TreeInv'
  <2>1. task' \in Tasks /\ task'.at = "idle" /\ task'.of = {} /\ task'.todo = {}
    BY <1>4 DEF T!Idle, Tasks
  <2>. QED  BY <1>1, <2>1 DEF TreeInv, TreeTypes, Claimed, Free
<1>. QED  BY <1>2, <1>3, <1>4 DEF T!StartClaim

LEMMA CrashKeeps ==
  ASSUME TreeInv, T!Crash PROVE TreeInv'
<1> USE DEF T!At, T!git, T!Attachable
<1>1. UNCHANGED <<ready, row, trees, local, origin, pulls>> /\ driven' = {}
  BY DEF T!Crash
<1>2. cloneFaults' \in Nat
  BY FaultCounts DEF T!Crash
<1>3. task' = [T!Idle EXCEPT !.at = "rows", !.todo = {i \in Issues : row[i] = "running"}]
  BY DEF T!Crash
<1>4. /\ task' \in Tasks /\ task'.at = "rows" /\ task'.of = {}
      /\ task'.todo = {i \in Issues : row[i] = "running"}
  BY <1>3 DEF T!Idle, Tasks
<1>. QED  BY <1>1, <1>2, <1>4 DEF TreeInv, TreeTypes, Claimed, Free

LEMMA ReadKeeps ==
  ASSUME TreeInv, T!ReadKept PROVE TreeInv'
<1> USE DEF T!At, T!git, T!Attachable
<1>1. UNCHANGED <<ready, row, driven, trees, local, origin, pulls, cloneFaults>>
  BY DEF T!ReadKept, T!CloneCalm
<1>2. task' \in Tasks /\ task'.at = "trees" /\ task'.of = {} /\ task'.todo = Issues \ T!Kept
  BY DEF T!ReadKept, T!Idle, Tasks
<1>3. \A i \in task'.todo : i \in Issues /\ i \notin driven /\ row[i] \notin {"running", "parked"}
  BY <1>2 DEF T!Kept, TreeInv
<1>. QED  BY <1>1, <1>2, <1>3 DEF TreeInv, TreeTypes, Claimed, Free

LEMMA TreeStep ==
  ASSUME TreeInv, T!CloneNext PROVE TreeInv'
<1> USE DEF T!At, T!Set, T!git, T!CloneCalm, T!Attachable, T!AttachedTo, TreeInv, TreeTypes, Claimed, Free,
            Claiming, Refs, Tasks
<1>1. CASE T!ClearStale
  BY SMTT(30), <1>1 DEF T!ClearStale, T!CloneFault, T!PullAfterDelete
<1>2. CASE T!AddTree
  BY SMTT(30), <1>2 DEF T!AddTree
<1>3. CASE T!RecordClaim
  BY SMTT(30), <1>3 DEF T!RecordClaim
<1>4. CASE T!Reconcile
  BY SMTT(30), <1>4 DEF T!Reconcile
<1>5. CASE T!PruneTrees
  BY SMTT(30), <1>5 DEF T!PruneTrees
<1>6. CASE T!PruneBranches
  BY SMTT(30), <1>6 DEF T!PruneBranches, T!Idle
<1>7. CASE T!Pushes
  BY SMTT(30), <1>7 DEF T!Pushes
<1>8. CASE T!Parks
  BY SMTT(30), <1>8 DEF T!Parks, T!EnsuredPull, T!TornDown, T!CloneFault
<1>9. CASE T!Ends
  BY SMTT(30), <1>9 DEF T!Ends, T!TornDown, T!CloneFault
<1>10. CASE T!Resumes
  BY SMTT(30), <1>10 DEF T!Resumes
<1>11. CASE T!Person
  BY SMTT(30), <1>11 DEF T!Person, T!CloneFault
<1> HIDE DEF T!At, T!Set, T!git, T!CloneCalm, T!Attachable, T!AttachedTo, TreeInv, TreeTypes, Claimed, Free,
            Claiming, Refs, Tasks
<1>. QED
  BY <1>1, <1>2, <1>3, <1>4, <1>5, <1>6, <1>7, <1>8, <1>9, <1>10, <1>11, LookKeeps, AttachKeeps, FetchKeeps,
     UnlabelKeeps, UndoKeeps, SweepKeeps, RemoveKeeps, StartKeeps, CrashKeeps, ReadKeeps
  DEF T!CloneNext, T!CloneTask

\* Only a claim that starts over deletes a branch at origin.
LEMMA PushedStays ==
  ASSUME TreeInv, T!CloneNext, NEW i \in Issues,
         origin[i] = "work", pulls[i] = "open", origin'[i] = "none"
  PROVE  task.of = {i} /\ task.saw # "open" /\ cloneFaults > 0
<1>1. origin \in [Issues -> Refs] /\ origin' # origin
  BY DEF TreeInv, TreeTypes
<1>2. CASE T!ClearStale
  <2>1. PICK j \in task.of : origin' = T!Set(origin, j, "none")
    BY <1>1, <1>2 DEF T!ClearStale
  <2>2. j \in Issues /\ task.of = {j} /\ Claimed(j) /\ task.at = "clear"
    BY <1>2, <2>1, ClaimedOne DEF T!ClearStale, T!At
  <2>3. i = j
    BY <1>1, <2>1, <2>2 DEF T!Set
  <2>. QED  BY <2>2, <2>3 DEF Claimed
<1>3. CASE \E j \in driven : origin' = T!Set(origin, j, "work")
  BY <1>1, <1>3 DEF T!Set, TreeInv, TreeTypes
<1>. QED
  BY <1>1, <1>2, <1>3
  DEF T!CloneNext, T!CloneTask, T!git, T!Look, T!AttachWork, T!FetchBase, T!AddTree, T!RecordClaim, T!Unlabel,
      T!Undo, T!SweepTrees, T!RemoveTree, T!StartClaim, T!Reconcile, T!ReadKept, T!PruneTrees, T!PruneBranches,
      T!Pushes, T!Parks, T!Ends, T!Resumes, T!Person, T!Crash

LEMMA TreesHold == Spec => []T!WorkHeld /\ T!OpenWorkKept
<1>1. Init => TreeInv
  BY DEF Init, T!CloneInit, T!Idle, TreeInv, TreeTypes, Tasks, Refs, Claimed, Free
<1>2. TreeInv /\ [Next]_vars =>
        /\ TreeInv'
        /\ [\A i \in Issues :
              origin[i] = "work" /\ pulls[i] = "open" /\ origin'[i] = "none"
                => task.of = {i} /\ task.saw # "open" /\ cloneFaults > 0]_T!cloneVars
  <2> SUFFICES ASSUME TreeInv, [Next]_vars
               PROVE  /\ TreeInv'
                      /\ \/ \A i \in Issues :
                              origin[i] = "work" /\ pulls[i] = "open" /\ origin'[i] = "none"
                                => task.of = {i} /\ task.saw # "open" /\ cloneFaults > 0
                         \/ UNCHANGED T!cloneVars
    OBVIOUS
  <2>1. CASE T!CloneNext
    BY <2>1, TreeStep, PushedStays
  <2>2. CASE UNCHANGED treeVars
    BY <2>2 DEF treeVars, T!cloneVars, TreeInv, TreeTypes, Claimed, Free, T!Attachable
  <2>. QED
    BY <2>1, <2>2
    DEF Next, vars, treeVars, GateMoves, SessionMoves, SyncMoves, TreesMoves, ViewMoves, LedgerMoves,
        ClientMoves, OnlyGate, OnlySession, OnlySync, OnlyView, OnlyLedger, OnlyClient
<1>3. TreeInv => T!WorkHeld
  BY DEF TreeInv, T!WorkHeld
<1>. QED
  BY <1>1, <1>2, <1>3, PTL DEF Spec, T!OpenWorkKept

(* No step takes the worktree of a session or pushed work under an open    *)
(* pull request (worktree.ts, executor.ts), gives a merge to the master    *)
(* for a blocker that is not there (review-loop.ts), or reports labels as  *)
(* changed that are not (gh-cli.ts): TreeInv, LaneOK and EditInv carry it. *)
THEOREM StepsAreHeld == Spec => StepsHold
<1>1. G!KnownAuthors
  BY DEF G!KnownAuthors, AuthorsOf
<1>2. G!GateSpec => G!BlameIsTrue
  BY <1>1, G!BlamesTruly
<1>. QED
  BY <1>2, GateBehaves, TreesHold, PatchesWhole, PTL DEF StepsHold

-----------------------------------------------------------------------------
(* The client's paged read: what it has of the threads it has gone past,   *)
(* or knows to be cut, and what became of them meanwhile.                  *)

Below == {p \in Nat \X Nat : p[1] < p[2]}

LEMMA LeastOf ==
  ASSUME NEW Z \in SUBSET Nat, Z # {}
  PROVE  \E m \in Z : \A n \in Z : m <= n
<1>1. IsWellFoundedOn(Below, Nat)
  BY NatLessThanWellFounded, IsWellFoundedOnSubrelation DEF OpToRel, Below
<1>2. PICK m \in Z : \A n \in Z : <<n, m>> \notin Below
  BY <1>1, WFMin
<1>3. ASSUME NEW n \in Z PROVE m <= n
  <2>1. <<n, m>> \in Nat \X Nat
    OBVIOUS
  <2>2. ~(n < m)
    BY <1>2, <2>1 DEF Below
  <2>. QED  BY <2>2
<1>. QED  BY <1>3

LEMMA GreatestOf ==
  ASSUME NEW Z \in SUBSET Nat, Z # {}, NEW b \in Nat, \A n \in Z : n <= b
  PROVE  \E m \in Z : \A n \in Z : n <= m
<1> DEFINE R == {b - n : n \in Z}
<1>1. R \in SUBSET Nat /\ R # {}
  <2>1. \A n \in Z : b - n \in Nat
    OBVIOUS
  <2>. QED  BY <2>1
<1>2. PICK r \in R : \A q \in R : r <= q
  <2> HIDE DEF R
  <2>. QED  BY <1>1, LeastOf
<1>3. PICK m \in Z : r = b - m
  OBVIOUS
<1>4. ASSUME NEW n \in Z PROVE n <= m
  <2>1. b - m <= b - n
    BY <1>2, <1>3
  <2>. QED  BY <2>1
<1>. QED  BY <1>4

Places == 1..MaxThreads
Counts == UNION {[D -> Nat] : D \in SUBSET Places}
Readers == [at : {"idle", "threads", "comments", "read", "error"} \cup H!Failures, page : Nat, after : Nat,
            got : Counts, cut : SUBSET Places, tries : Nat, want : Counts, blank : BOOLEAN]

\* Thread t is read as far as it went when the read began, or known to be cut.
Caught(r, t) == t \in DOMAIN r.got /\ (t \in r.cut \/ r.got[t] >= r.want[t])
AllCaught(r) == r.blank \/ \A t \in DOMAIN r.want \cap live : Caught(r, t)
Wanted(r) == \A t \in DOMAIN r.want : size[t] > 0 /\ r.want[t] <= size[t]

ReadOK(r) ==
  /\ r \in Readers /\ r.cut \subseteq DOMAIN r.got /\ Wanted(r)
  /\ r.at = "threads" => r.blank \/ \A t \in DOMAIN r.want \cap live : t <= r.after => Caught(r, t)
  /\ r.at = "comments" => AllCaught(r)
  /\ r.at = "read" => AllCaught(r) /\ r.cut = {}

ReadInv ==
  /\ live \in SUBSET Places /\ size \in [Places -> Nat] /\ (\A t \in live : size[t] > 0)
  /\ ReadOK(read)

LEMMA CountsAre ==
  ASSUME NEW f \in Counts
  PROVE  DOMAIN f \in SUBSET Places /\ f \in [DOMAIN f -> Nat] /\ \A t \in DOMAIN f : t \in Nat /\ f[t] \in Nat
<1>1. PICK D \in SUBSET Places : f \in [D -> Nat]
  BY DEF Counts
<1>. QED  BY <1>1 DEF Places

LEMMA Counting ==
  ASSUME NEW D \in SUBSET Places, NEW f \in [D -> Nat]
  PROVE  f \in Counts
BY DEF Counts

LEMMA NoCounts == <<>> \in Counts /\ DOMAIN <<>> = {}
<1>1. DOMAIN <<>> = {}
  OBVIOUS
<1>2. <<>> = [t \in {} |-> 0]
  OBVIOUS
<1>3. [t \in {} |-> 0] \in [{} -> Nat]
  OBVIOUS
<1>. QED  BY <1>1, <1>2, <1>3, Counting

LEMMA Recounted ==
  ASSUME NEW f \in Counts, NEW t \in DOMAIN f, NEW n \in Nat
  PROVE  /\ [f EXCEPT ![t] = n] \in Counts
         /\ DOMAIN [f EXCEPT ![t] = n] = DOMAIN f
         /\ \A u \in DOMAIN f : [f EXCEPT ![t] = n][u] = IF u = t THEN n ELSE f[u]
<1>1. f \in [DOMAIN f -> Nat] /\ DOMAIN f \in SUBSET Places
  BY CountsAre
<1>2. [f EXCEPT ![t] = n] \in [DOMAIN f -> Nat]
  BY <1>1
<1>. QED  BY <1>1, <1>2, Counting

LEMMA Merged ==
  ASSUME NEW f \in Counts, NEW g \in Counts
  PROVE  /\ H!Merge(f, g) \in Counts
         /\ DOMAIN H!Merge(f, g) = DOMAIN f \cup DOMAIN g
         /\ \A t \in DOMAIN g : H!Merge(f, g)[t] = g[t]
         /\ \A t \in DOMAIN f \ DOMAIN g : H!Merge(f, g)[t] = f[t]
<1>1. DOMAIN f \cup DOMAIN g \in SUBSET Places
  BY CountsAre
<1>2. H!Merge(f, g) \in [DOMAIN f \cup DOMAIN g -> Nat]
  BY CountsAre DEF H!Merge
<1>3. H!Merge(f, g) \in Counts
  BY <1>1, <1>2, Counting
<1>. QED  BY <1>3 DEF H!Merge

LEMMA SameCardinality == \A Z : H!Cardinality(Z) = Cardinality(Z)
BY DEF H!Cardinality, Cardinality

\* A page is the threads that follow, up to the last of the page.
LEMMA PageIs ==
  ASSUME ReadInv, NEW a \in Nat
  PROVE  /\ H!PageOf(a) \subseteq H!Following(a)
         /\ \A u \in H!PageOf(a), t \in H!Following(a) : t <= u => t \in H!PageOf(a)
         /\ H!PageOf(a) # H!Following(a) =>
              \E u \in H!PageOf(a) : \A v \in H!PageOf(a) : v <= u
<1> DEFINE F == H!Following(a)
           Before(u) == {v \in F : v < u}
<1>1. F \in SUBSET Places /\ F \in SUBSET Nat
  <2>1. F \subseteq live
    BY DEF H!Following
  <2>2. live \subseteq Places
    BY DEF ReadInv
  <2>3. Places \subseteq Nat
    BY PageAssumption DEF Places
  <2>. QED  BY <2>1, <2>2, <2>3
<1>2. IsFiniteSet(Places) /\ IsFiniteSet(F)
  <2>1. IsFiniteSet(Places)
    BY PageAssumption, FS_Interval DEF Places
  <2>. QED  BY <1>1, <2>1, FS_Subset
<1>3. \A u : IsFiniteSet(Before(u)) /\ Cardinality(Before(u)) \in Nat
  <2>1. \A u : Before(u) \subseteq F
    OBVIOUS
  <2>2. \A u : IsFiniteSet(Before(u))
    BY <1>2, <2>1, FS_Subset
  <2>. QED  BY <2>2, FS_CardinalityType
<1>4. H!PageOf(a) = {u \in F : Cardinality(Before(u)) < ThreadPage}
  BY SameCardinality DEF H!PageOf
<1>5. ASSUME NEW u \in H!PageOf(a), NEW t \in F, t <= u PROVE t \in H!PageOf(a)
  <2>1. u \in F /\ Cardinality(Before(u)) < ThreadPage
    BY <1>4
  <2>2. Before(t) \subseteq Before(u)
    BY <1>1, <1>5, <2>1
  <2>3. Cardinality(Before(t)) <= Cardinality(Before(u))
    BY <1>3, <2>2, FS_Subset
  <2>4. Cardinality(Before(t)) < ThreadPage
    BY <1>3, <2>1, <2>3, PageAssumption
  <2>. QED  BY <1>4, <2>4
<1>6. ASSUME H!PageOf(a) # F PROVE \E u \in H!PageOf(a) : \A v \in H!PageOf(a) : v <= u
  <2>1. F # {}
    BY <1>4, <1>6
  <2>2. PICK m \in F : \A n \in F : m <= n
    BY <1>1, <2>1, LeastOf
  <2>3. Before(m) = {}
    BY <1>1, <2>2
  <2>4. m \in H!PageOf(a)
    BY <1>4, <2>3, FS_EmptySet, PageAssumption
  <2>5. H!PageOf(a) \in SUBSET Nat /\ H!PageOf(a) # {}
    BY <1>1, <1>4, <2>4
  <2>6. \A n \in H!PageOf(a) : n <= MaxThreads
    BY <1>1, <1>4, PageAssumption DEF Places
  <2>7. MaxThreads \in Nat
    BY PageAssumption
  <2>. QED  BY <2>5, <2>6, <2>7, GreatestOf
<1>. QED  BY <1>4, <1>5, <1>6

LEMMA Finishes ==
  ASSUME NEW r \in Readers, r.cut \subseteq DOMAIN r.got, Wanted(r), AllCaught(r)
  PROVE  ReadOK(H!Finish(r))
<1>1. CASE r.cut = {}
  <2> DEFINE f == [r EXCEPT !.at = "read"]
  <2>1. H!Finish(r) = f
    BY <1>1 DEF H!Finish
  <2>2. /\ f \in Readers /\ f.at = "read" /\ f.cut = {} /\ f.got = r.got /\ f.want = r.want /\ f.blank = r.blank
        /\ f.cut = r.cut
    BY <1>1 DEF Readers
  <2> HIDE DEF f
  <2>3. Wanted(f) /\ AllCaught(f)
    BY <2>2 DEF Wanted, AllCaught, Caught
  <2>. QED  BY <2>1, <2>2, <2>3 DEF ReadOK
<1>2. CASE r.cut # {}
  <2> DEFINE f == [r EXCEPT !.at = "comments", !.page = 0]
  <2>1. H!Finish(r) = f
    BY <1>2 DEF H!Finish
  <2>2. /\ f \in Readers /\ f.at = "comments" /\ f.cut = r.cut /\ f.got = r.got /\ f.want = r.want
        /\ f.blank = r.blank
    BY DEF Readers
  <2> HIDE DEF f
  <2>3. Wanted(f) /\ AllCaught(f)
    BY <2>2 DEF Wanted, AllCaught, Caught
  <2>. QED  BY <2>1, <2>2, <2>3 DEF ReadOK
<1>. QED  BY <1>1, <1>2

LEMMA Ended ==
  ASSUME NEW r \in Readers, r.cut \subseteq DOMAIN r.got, Wanted(r), NEW f \in H!Failures
  PROVE  ReadOK([r EXCEPT !.at = f])
<1> DEFINE e == [r EXCEPT !.at = f]
<1>1. e \in Readers /\ e.at = f /\ e.cut = r.cut /\ e.got = r.got /\ e.want = r.want
  BY DEF Readers
<1>2. f \notin {"threads", "comments", "read"}
  BY DEF H!Failures
<1> HIDE DEF e
<1>3. ReadOK(e)
  BY <1>1, <1>2 DEF ReadOK, Wanted
<1>. QED  BY <1>3 DEF e

\* A page of threads takes the cursor to its last, with all that went before.
LEMMA ThreadsKeep ==
  ASSUME ReadInv, H!ThreadsPage PROVE ReadOK(read')
<1>1. PICK blank \in BOOLEAN :
        LET page == IF blank THEN {} ELSE H!PageOf(read.after)
            more == ~blank /\ H!Following(read.after) # page
            r == [read EXCEPT !.page = @ + 1, !.tries = 0,
                              !.got = H!Merge(@, H!FirstComments(page)), !.cut = @ \cup H!Truncated(page),
                              !.blank = @ \/ blank]
        IN read' = IF blank /\ read.page = 0 THEN [read EXCEPT !.at = "error"]
                   ELSE IF ~more THEN H!Finish(r)
                   ELSE H!NextPage([r EXCEPT !.after = CHOOSE u \in page : \A v \in page : v <= u])
  BY DEF H!ThreadsPage
<1> DEFINE page == IF blank THEN {} ELSE H!PageOf(read.after)
           more == ~blank /\ H!Following(read.after) # page
           r == [read EXCEPT !.page = @ + 1, !.tries = 0,
                             !.got = H!Merge(@, H!FirstComments(page)), !.cut = @ \cup H!Truncated(page),
                             !.blank = @ \/ blank]
           last == CHOOSE u \in page : \A v \in page : v <= u
<1>2. read.at = "threads" /\ ReadOK(read) /\ read \in Readers /\ read.after \in Nat /\ read.got \in Counts
  BY DEF H!ThreadsPage, ReadInv, ReadOK, Readers
<1>3. /\ page \subseteq H!Following(read.after) /\ page \subseteq live /\ page \subseteq Places
      /\ ~blank => \A u \in page, t \in H!Following(read.after) : t <= u => t \in page
      /\ more => \E u \in page : \A v \in page : v <= u
  <2>1. H!Following(read.after) \subseteq live /\ live \subseteq Places
    BY DEF H!Following, ReadInv
  <2>. QED  BY <1>2, <2>1, PageIs
<1> DEFINE first == H!FirstComments(page)
<1>4. first \in Counts /\ DOMAIN first = page /\ \A t \in page : t \in H!Truncated(page) \/ first[t] = size[t]
  <2>1. \A t \in page : size[t] \in Nat
    BY <1>3 DEF ReadInv
  <2>2. first \in [page -> Nat] /\ \A t \in page : first[t] = H!Least(size[t], CommentPage)
    BY <2>1, PageAssumption DEF H!FirstComments, H!Least
  <2>3. \A t \in page : t \in H!Truncated(page) \/ H!Least(size[t], CommentPage) = size[t]
    BY <2>1, PageAssumption DEF H!Truncated, H!Least
  <2> HIDE DEF page, first
  <2>. QED  BY <1>3, <2>2, <2>3, Counting
<1>5. H!Truncated(page) \subseteq page
  BY DEF H!Truncated
<1>6. /\ H!Merge(read.got, first) \in Counts
      /\ DOMAIN H!Merge(read.got, first) = DOMAIN read.got \cup page
      /\ \A t \in page : H!Merge(read.got, first)[t] = first[t]
      /\ \A t \in DOMAIN read.got \ page : H!Merge(read.got, first)[t] = read.got[t]
  <2> HIDE DEF page, first
  <2>. QED  BY <1>2, <1>4, Merged
<1>7. /\ r \in Readers /\ r.at = "threads" /\ r.got = H!Merge(read.got, first)
      /\ r.cut = read.cut \cup H!Truncated(page) /\ r.want = read.want /\ r.blank = (read.blank \/ blank)
      /\ r.after = read.after
  <2>1. read.cut \cup H!Truncated(page) \in SUBSET Places
    BY <1>2, <1>3, <1>5 DEF Readers
  <2> DEFINE m == H!Merge(read.got, first)
             c == read.cut \cup H!Truncated(page)
             d == read.blank \/ blank
  <2>2. m \in Counts /\ c \in SUBSET Places /\ d \in BOOLEAN /\ read.page + 1 \in Nat
    BY <1>2, <1>6, <2>1 DEF Readers
  <2>3. r = [read EXCEPT !.page = @ + 1, !.tries = 0, !.got = m, !.cut = c, !.blank = d]
    OBVIOUS
  <2> HIDE DEF page, first, m, c, d, r
  <2>4. /\ r \in Readers /\ r.at = "threads" /\ r.got = m /\ r.cut = c /\ r.want = read.want /\ r.blank = d
        /\ r.after = read.after
    BY <1>2, <2>2, <2>3 DEF Readers
  <2>. QED  BY <2>4 DEF m, c, d
<1>8. /\ read' = [read EXCEPT !.at = "error"] \/ read' = H!Finish(r) \/ read' = H!NextPage([r EXCEPT !.after = last])
      /\ read' = [read EXCEPT !.at = "error"] \/ (~more /\ read' = H!Finish(r))
           \/ (more /\ read' = H!NextPage([r EXCEPT !.after = last]))
  BY <1>1
<1> HIDE DEF page, more, r, last, first
<1>9. r.cut \subseteq DOMAIN r.got /\ Wanted(r)
  BY <1>2, <1>5, <1>6, <1>7 DEF ReadOK, Wanted
<1>10. ASSUME ~r.blank, NEW t \in DOMAIN r.want \cap live, t <= read.after \/ t \in page
       PROVE  Caught(r, t)
  <2>1. r.want[t] <= size[t] /\ size[t] \in Nat
    BY <1>2, <1>7 DEF ReadOK, Wanted, ReadInv
  <2>2. CASE t \in page
    BY <1>4, <1>6, <1>7, <2>1, <2>2 DEF Caught
  <2>3. CASE t \notin page
    <3>1. Caught(read, t)
      BY <1>2, <1>7, <1>10, <2>3 DEF ReadOK
    <3>. QED  BY <1>6, <1>7, <2>3, <3>1 DEF Caught
  <2>. QED  BY <2>2, <2>3
<1>11. ASSUME NEW t \in DOMAIN r.want \cap live PROVE t <= read.after \/ t \in H!Following(read.after)
  <2>1. t \in Nat
    BY PageAssumption DEF ReadInv, Places
  <2>. QED  BY <1>2, <2>1 DEF H!Following
<1>12. CASE read' = [read EXCEPT !.at = "error"]
  BY <1>2, <1>12, Ended DEF ReadOK, H!Failures
<1>13. CASE ~more /\ read' = H!Finish(r)
  <2>1. ~r.blank => page = H!Following(read.after)
    BY <1>2, <1>7, <1>13 DEF more, Readers
  <2>2. AllCaught(r)
    BY <1>10, <1>11, <2>1 DEF AllCaught
  <2>. QED  BY <1>7, <1>9, <1>13, <2>2, Finishes
<1>14. CASE more /\ read' = H!NextPage([r EXCEPT !.after = last])
  <2>1. last \in page /\ \A v \in page : v <= last
    BY <1>3, <1>14 DEF last
  <2>2. last \in Nat
    BY <1>3, <2>1, PageAssumption DEF Places
  <2> DEFINE n == [r EXCEPT !.after = last]
  <2>3. /\ n \in Readers /\ n.at = "threads" /\ n.after = last /\ n.got = r.got /\ n.cut = r.cut
        /\ n.want = r.want /\ n.blank = r.blank
    BY <1>7, <2>2 DEF Readers
  <2> HIDE DEF n
  <2>4. n.cut \subseteq DOMAIN n.got /\ Wanted(n)
    BY <1>9, <2>3 DEF Wanted
  <2>5. ASSUME ~n.blank, NEW t \in DOMAIN n.want \cap live, t <= last PROVE Caught(n, t)
    <3>1. ~r.blank /\ t \in DOMAIN r.want \cap live
      BY <2>3, <2>5
    <3>2. t <= read.after \/ t \in page
      BY <1>3, <1>11, <1>14, <2>1, <2>5, <3>1 DEF more
    <3>. QED  BY <1>10, <2>3, <3>1, <3>2 DEF Caught
  <2>6. ReadOK(n)
    BY <2>3, <2>4, <2>5 DEF ReadOK
  <2>7. ReadOK([n EXCEPT !.at = "error"])
    BY <2>3, <2>4, Ended DEF H!Failures
  <2>8. read' = n \/ read' = [n EXCEPT !.at = "error"]
    BY <1>14 DEF n, H!NextPage
  <2>. QED  BY <2>6, <2>7, <2>8
<1>. QED  BY <1>8, <1>12, <1>13, <1>14

\* The least of the cut threads is read on, until it is whole or gone.
LEMMA CommentsKeep ==
  ASSUME ReadInv, H!CommentsPage PROVE ReadOK(read')
<1>1. PICK t \in read.cut, blank \in BOOLEAN :
        LET got == IF blank THEN read.got[t] ELSE H!CommentsAfter(t, read.got[t])
            more == ~blank /\ t \in live /\ got < size[t]
            r == [read EXCEPT !.tries = 0, !.got = [@ EXCEPT ![t] = got], !.blank = @ \/ blank]
        IN read' = IF ~more THEN H!Finish([r EXCEPT !.cut = @ \ {t}])
                   ELSE IF read.page + 1 >= MaxCommentPages THEN [r EXCEPT !.at = "error"]
                   ELSE [r EXCEPT !.page = @ + 1]
  BY ZenonT(60) DEF H!CommentsPage
<1> DEFINE got == IF blank THEN read.got[t] ELSE H!CommentsAfter(t, read.got[t])
           more == ~blank /\ t \in live /\ got < size[t]
           all == [read.got EXCEPT ![t] = got]
           r == [read EXCEPT !.tries = 0, !.got = [@ EXCEPT ![t] = got], !.blank = @ \/ blank]
<1>2. /\ read.at = "comments" /\ ReadOK(read) /\ read \in Readers /\ read.got \in Counts /\ t \in DOMAIN read.got
      /\ read.page \in Nat /\ AllCaught(read)
  BY DEF H!CommentsPage, ReadInv, ReadOK, Readers
<1>3. t \in Places /\ size[t] \in Nat /\ read.got[t] \in Nat
  BY <1>2, CountsAre DEF ReadInv
<1>4. got \in Nat
  BY <1>3, PageAssumption DEF H!CommentsAfter, H!Least
<1>5. all \in Counts /\ DOMAIN all = DOMAIN read.got /\ \A u \in DOMAIN read.got : all[u] = IF u = t THEN got ELSE read.got[u]
  <2> HIDE DEF got
  <2>. QED  BY <1>2, <1>4, Recounted
<1>6. /\ r \in Readers /\ r.at = "comments" /\ r.got = all /\ r.cut = read.cut /\ r.want = read.want
      /\ r.blank = (read.blank \/ blank) /\ r.page = read.page
  <2> HIDE DEF got
  <2>. QED  BY <1>2, <1>5 DEF Readers
<1>7. \/ ~more /\ read' = H!Finish([r EXCEPT !.cut = @ \ {t}])
      \/ more /\ read' = [r EXCEPT !.at = "error"]
      \/ more /\ read' = [r EXCEPT !.page = @ + 1]
  BY <1>1
<1> HIDE DEF got, more, all, r
<1>8. r.cut \subseteq DOMAIN r.got /\ Wanted(r)
  BY <1>2, <1>5, <1>6 DEF ReadOK, Wanted
<1>9. AllCaught(r)
  BY <1>2, <1>5, <1>6 DEF AllCaught, Caught
<1>10. CASE ~more /\ read' = H!Finish([r EXCEPT !.cut = @ \ {t}])
  <2> DEFINE f == [r EXCEPT !.cut = @ \ {t}]
  <2>1. f \in Readers /\ f.cut = read.cut \ {t} /\ f.got = all /\ f.want = read.want /\ f.blank = r.blank
    BY <1>6 DEF Readers
  <2> HIDE DEF f
  <2>2. f.cut \subseteq DOMAIN f.got /\ Wanted(f)
    BY <1>6, <1>8, <2>1 DEF Wanted
  <2>3. ASSUME ~f.blank, NEW u \in DOMAIN f.want \cap live PROVE Caught(f, u)
    <3>1. Caught(r, u) /\ ~blank
      BY <1>6, <1>9, <2>1, <2>3 DEF AllCaught
    <3>2. CASE u # t
      BY <1>6, <2>1, <3>1, <3>2 DEF Caught
    <3>3. CASE u = t
      <4>1. got >= size[t]
        BY <1>3, <1>4, <1>10, <2>3, <3>1, <3>3 DEF more
      <4>2. read.want[t] <= size[t] /\ read.want[t] \in Nat
        <5>1. read.want \in Counts
          BY <1>2 DEF Readers
        <5>. QED  BY <1>2, <2>1, <2>3, <3>3, <5>1, CountsAre DEF ReadOK, Wanted
      <4>3. got >= read.want[t]
        BY <1>3, <1>4, <4>1, <4>2
      <4>. QED  BY <1>2, <1>5, <2>1, <3>3, <4>3 DEF Caught
    <3>. QED  BY <3>2, <3>3
  <2>4. AllCaught(f)
    BY <2>3 DEF AllCaught
  <2>5. ReadOK(H!Finish(f))
    BY <2>1, <2>2, <2>4, Finishes
  <2>. QED  BY <1>10, <2>5 DEF f
<1>11. CASE read' = [r EXCEPT !.at = "error"]
  BY <1>6, <1>8, <1>11, Ended DEF H!Failures
<1>12. CASE read' = [r EXCEPT !.page = @ + 1]
  <2>1. /\ read' \in Readers /\ read'.at = "comments" /\ read'.got = r.got /\ read'.cut = r.cut
        /\ read'.want = r.want /\ read'.blank = r.blank
    BY <1>2, <1>6, <1>12 DEF Readers
  <2>2. Wanted(read') /\ AllCaught(read')
    BY <1>8, <1>9, <2>1 DEF Wanted, AllCaught, Caught
  <2>. QED  BY <1>8, <2>1, <2>2 DEF ReadOK
<1>. QED  BY <1>7, <1>10, <1>11, <1>12

LEMMA ReadStep ==
  ASSUME ReadInv, H!ThreadStep PROVE ReadInv'
<1>0. ASSUME UNCHANGED <<live, size>>, ReadOK(read') PROVE ReadInv'
  BY <1>0 DEF ReadInv, ReadOK, Wanted, AllCaught
<1>1. CASE H!StartRead
  <2> DEFINE w == [t \in live |-> size[t]]
  <2>1. w \in Counts /\ DOMAIN w = live /\ \A t \in live : w[t] = size[t]
    <3>1. w \in [live -> Nat]
      BY DEF ReadInv
    <3>. QED  BY <3>1, Counting DEF ReadInv
  <2>2. /\ read' \in Readers /\ read'.at = "threads" /\ read'.got = <<>> /\ read'.cut = {} /\ read'.want = w
        /\ read'.after = 0
    <3> HIDE DEF w
    <3>1. read' = [H!Reader EXCEPT !.at = "threads", !.want = w]
      BY <1>1 DEF H!StartRead, w
    <3>. QED  BY <2>1, <3>1, NoCounts DEF H!Reader, Readers
  <2>3. Wanted(read')
    BY <2>1, <2>2 DEF Wanted, ReadInv
  <2>4. \A t \in live : ~(t <= 0)
    BY PageAssumption DEF ReadInv, Places
  <2> HIDE DEF w
  <2>5. ReadOK(read')
    BY <2>1, <2>2, <2>3, <2>4, NoCounts DEF ReadOK
  <2>. QED  BY <1>0, <1>1, <2>5 DEF H!StartRead
<1>2. CASE H!ThreadsPage
  BY <1>0, <1>2, ThreadsKeep DEF H!ThreadsPage
<1>3. CASE H!CommentsPage
  BY <1>0, <1>3, CommentsKeep DEF H!CommentsPage
<1>4. CASE H!ReadFails
  <2>1. PICK f \in H!Failures : read' = [read EXCEPT !.tries = @ + 1] \/ read' = [read EXCEPT !.at = f]
    BY <1>4 DEF H!ReadFails
  <2>2. read \in Readers /\ ReadOK(read)
    BY DEF ReadInv, ReadOK
  <2>3. CASE read' = [read EXCEPT !.tries = @ + 1]
    <3>1. /\ read' \in Readers /\ read'.at = read.at /\ read'.got = read.got /\ read'.cut = read.cut
          /\ read'.want = read.want /\ read'.blank = read.blank /\ read'.after = read.after
      BY <2>2, <2>3 DEF Readers
    <3>2. ReadOK(read')
      BY <2>2, <3>1 DEF ReadOK, Wanted, AllCaught, Caught
    <3>. QED  BY <1>0, <1>4, <3>2 DEF H!ReadFails
  <2>4. CASE read' = [read EXCEPT !.at = f]
    <3>1. ReadOK(read')
      BY <2>2, <2>4, Ended DEF ReadOK
    <3>. QED  BY <1>0, <1>4, <3>1 DEF H!ReadFails
  <2>. QED  BY <2>1, <2>3, <2>4
<1>5. CASE H!Review
  <2>1. /\ read' = read /\ live' \in SUBSET Places /\ size' \in [Places -> Nat]
        /\ \A t \in live' : size'[t] > 0
        /\ \A t \in Places : size'[t] >= size[t]
        /\ \A t \in live' : t \in live \/ size[t] = 0
    <3>1. \A t \in Places : size[t] \in Nat
      BY DEF ReadInv
    <3>2. CASE \E t \in Places : /\ t \notin live /\ size[t] = 0
                                /\ live' = live \cup {t} /\ size' = [size EXCEPT ![t] = 1]
      BY <1>5, <3>1, <3>2 DEF H!Review, ReadInv
    <3>3. CASE \E t \in live : live' = live /\ size' = [size EXCEPT ![t] = @ + 1]
      BY <1>5, <3>1, <3>3 DEF H!Review, ReadInv
    <3>4. CASE \E t \in live : live' = live \ {t} /\ size' = size
      BY <1>5, <3>1, <3>4 DEF H!Review, ReadInv
    <3>. QED  BY <1>5, <3>2, <3>3, <3>4 DEF H!Review, Places
  <2>2. DOMAIN read.want \subseteq Places /\ \A t \in DOMAIN read.want : size[t] > 0 /\ read.want[t] \in Nat
    BY CountsAre DEF ReadInv, ReadOK, Readers, Wanted
  <2>3. \A t \in DOMAIN read.want : size'[t] > 0 /\ read.want[t] <= size'[t]
    BY <2>1, <2>2 DEF ReadInv, ReadOK, Wanted
  <2>4. DOMAIN read.want \cap live' \subseteq DOMAIN read.want \cap live
    BY <2>1, <2>2
  <2>5. ReadOK(read)'
    BY <2>1, <2>3, <2>4 DEF ReadInv, ReadOK, Wanted, AllCaught, Caught
  <2>. QED  BY <2>1, <2>5 DEF ReadInv
<1>. QED  BY <1>1, <1>2, <1>3, <1>4, <1>5 DEF H!ThreadStep

-----------------------------------------------------------------------------
(* The runs of a check follow one another; green is the word of the last.  *)

RunRows == [name : Names, state : {"queued", "running", "pass", "fail"}, began : Nat, at : Nat]

RunInv ==
  /\ runs \in Seq(RunRows)
  /\ \A k \in 1..Len(runs) :
       /\ runs[k].state = "queued" => runs[k].began = 0 /\ runs[k].at = 0
       /\ runs[k].state # "queued" => 0 < runs[k].began /\ runs[k].began <= runs[k].at
       /\ runs[k].at <= H!Now
  /\ \A j, k \in 1..Len(runs) : j < k /\ runs[j].name = runs[k].name =>
       H!Ended(runs[j]) /\ (runs[k].state # "queued" => runs[j].at < runs[k].began)
  /\ H!GreenIsCurrent

StartedRuns == {k \in 1..Len(runs) : H!Started(runs[k])}
EndedRuns == {k \in 1..Len(runs) : H!Ended(runs[k])}

LEMMA NowIs ==
  ASSUME runs \in Seq(RunRows)
  PROVE  /\ H!Now = Cardinality(StartedRuns) + Cardinality(EndedRuns)
         /\ IsFiniteSet(StartedRuns) /\ IsFiniteSet(EndedRuns)
         /\ Cardinality(StartedRuns) \in Nat /\ Cardinality(EndedRuns) \in Nat /\ H!Now \in Nat
<1>1. IsFiniteSet(1..Len(runs))
  BY FS_Interval
<1>2. IsFiniteSet(StartedRuns) /\ IsFiniteSet(EndedRuns)
  BY <1>1, FS_Subset DEF StartedRuns, EndedRuns
<1>3. Cardinality(StartedRuns) \in Nat /\ Cardinality(EndedRuns) \in Nat
  BY <1>2, FS_CardinalityType
<1>4. H!Now = Cardinality(StartedRuns) + Cardinality(EndedRuns)
  BY SameCardinality DEF H!Now, StartedRuns, EndedRuns
<1>. QED  BY <1>2, <1>3, <1>4

LEMMA Queues ==
  ASSUME RunInv, NEW n \in Names, H!Settled(n), UNCHANGED <<verdict, seen>>,
         runs' = Append(runs, [name |-> n, state |-> "queued", began |-> 0, at |-> 0])
  PROVE  RunInv'
<1> DEFINE new == [name |-> n, state |-> "queued", began |-> 0, at |-> 0]
<1>1. runs \in Seq(RunRows) /\ new \in RunRows /\ Len(runs) \in Nat
  BY DEF RunInv, RunRows
<1>2. /\ runs' \in Seq(RunRows) /\ Len(runs') = Len(runs) + 1
      /\ \A k \in 1..Len(runs) : runs'[k] = runs[k]
      /\ runs'[Len(runs) + 1] = new
  <2> HIDE DEF new
  <2>1. runs' = Append(runs, new)
    BY DEF new
  <2>. QED  BY <1>1, <2>1
<1>3. new.state = "queued" /\ new.began = 0 /\ new.at = 0 /\ new.name = n
  OBVIOUS
<1> HIDE DEF new
<1>4. StartedRuns' = StartedRuns /\ EndedRuns' = EndedRuns
  BY <1>1, <1>2, <1>3 DEF StartedRuns, EndedRuns, H!Started, H!Ended
<1>5. H!Now' = H!Now /\ H!Now \in Nat
  <2>1. H!Now' = Cardinality(StartedRuns') + Cardinality(EndedRuns')
    BY SameCardinality DEF H!Now, StartedRuns, EndedRuns
  <2>. QED  BY <1>1, <1>4, <2>1, NowIs
<1>6. \A k \in 1..Len(runs') : k \in 1..Len(runs) \/ k = Len(runs) + 1
  BY <1>1, <1>2
<1>7. H!GreenIsCurrent'
  BY DEF RunInv, H!GreenIsCurrent
<1>8. \A k \in 1..Len(runs') :
        /\ runs'[k].state = "queued" => runs'[k].began = 0 /\ runs'[k].at = 0
        /\ runs'[k].state # "queued" => 0 < runs'[k].began /\ runs'[k].began <= runs'[k].at
        /\ runs'[k].at <= H!Now'
  BY <1>2, <1>3, <1>5, <1>6 DEF RunInv
<1>9. ASSUME NEW j \in 1..Len(runs'), NEW k \in 1..Len(runs'), j < k, runs'[j].name = runs'[k].name
      PROVE  H!Ended(runs'[j]) /\ (runs'[k].state # "queued" => runs'[j].at < runs'[k].began)
  <2>1. j \in 1..Len(runs)
    BY <1>1, <1>2, <1>9
  <2>2. CASE k \in 1..Len(runs)
    BY <1>2, <1>9, <2>1, <2>2 DEF RunInv
  <2>3. CASE k = Len(runs) + 1
    BY <1>2, <1>3, <1>9, <2>1, <2>3 DEF H!Settled
  <2>. QED  BY <1>6, <2>2, <2>3
<1>. QED  BY <1>2, <1>7, <1>8, <1>9 DEF RunInv

LEMMA Advances ==
  ASSUME RunInv, NEW k \in 1..Len(runs), NEW r \in RunRows, UNCHANGED <<verdict, seen>>,
         runs' = [runs EXCEPT ![k] = r], r.name = runs[k].name, r.at = H!Now + 1,
         \/ runs[k].state = "queued" /\ r.state = "running" /\ r.began = r.at
         \/ runs[k].state = "running" /\ r.state \in {"pass", "fail"} /\ r.began = runs[k].began
  PROVE  RunInv'
<1>1. runs \in Seq(RunRows) /\ Len(runs) \in Nat /\ H!Now \in Nat /\ runs[k] \in RunRows
  BY NowIs DEF RunInv
<1>2. /\ runs' \in Seq(RunRows) /\ Len(runs') = Len(runs) /\ runs'[k] = r
      /\ \A j \in 1..Len(runs) : j # k => runs'[j] = runs[j]
  BY <1>1
<1>3. \/ StartedRuns' = StartedRuns \cup {k} /\ k \notin StartedRuns /\ EndedRuns' = EndedRuns
      \/ StartedRuns' = StartedRuns /\ EndedRuns' = EndedRuns \cup {k} /\ k \notin EndedRuns
  <2>1. CASE runs[k].state = "queued" /\ r.state = "running"
    BY <1>2, <2>1 DEF StartedRuns, EndedRuns, H!Started, H!Ended
  <2>2. CASE runs[k].state = "running" /\ r.state \in {"pass", "fail"}
    BY <1>2, <2>2 DEF StartedRuns, EndedRuns, H!Started, H!Ended
  <2>. QED  BY <2>1, <2>2
<1>4. H!Now' = H!Now + 1
  <2>1. H!Now' = Cardinality(StartedRuns') + Cardinality(EndedRuns')
    BY SameCardinality DEF H!Now, StartedRuns, EndedRuns
  <2>2. k \notin StartedRuns => Cardinality(StartedRuns \cup {k}) = Cardinality(StartedRuns) + 1
    BY <1>1, NowIs, FS_AddElement
  <2>3. k \notin EndedRuns => Cardinality(EndedRuns \cup {k}) = Cardinality(EndedRuns) + 1
    BY <1>1, NowIs, FS_AddElement
  <2>4. H!Now = Cardinality(StartedRuns) + Cardinality(EndedRuns) /\ Cardinality(StartedRuns) \in Nat /\ Cardinality(EndedRuns) \in Nat
    BY <1>1, NowIs
  <2>5. CASE StartedRuns' = StartedRuns \cup {k} /\ k \notin StartedRuns /\ EndedRuns' = EndedRuns
    BY <2>1, <2>2, <2>4, <2>5
  <2>6. CASE StartedRuns' = StartedRuns /\ EndedRuns' = EndedRuns \cup {k} /\ k \notin EndedRuns
    BY <2>1, <2>3, <2>4, <2>6
  <2>. QED  BY <1>3, <2>5, <2>6
<1>5. H!GreenIsCurrent'
  BY DEF RunInv, H!GreenIsCurrent
<1>6. \A j \in 1..Len(runs) : runs[j] \in RunRows /\ runs[j].at \in Nat /\ runs[j].began \in Nat
  <2>1. \A j \in 1..Len(runs) : runs[j] \in RunRows
    BY <1>1
  <2>. QED  BY <2>1 DEF RunRows
<1>7. r.began \in Nat /\ r.at \in Nat /\ 0 < r.began /\ r.began <= r.at /\ r.state # "queued"
  BY <1>1, <1>6 DEF RunInv, RunRows
<1>8. \A j \in 1..Len(runs') :
        /\ runs'[j].state = "queued" => runs'[j].began = 0 /\ runs'[j].at = 0
        /\ runs'[j].state # "queued" => 0 < runs'[j].began /\ runs'[j].began <= runs'[j].at
        /\ runs'[j].at <= H!Now'
  BY <1>1, <1>2, <1>4, <1>6, <1>7 DEF RunInv
<1>9. ASSUME NEW i \in 1..Len(runs'), NEW j \in 1..Len(runs'), i < j, runs'[i].name = runs'[j].name
      PROVE  H!Ended(runs'[i]) /\ (runs'[j].state # "queued" => runs'[i].at < runs'[j].began)
  <2>1. i \in 1..Len(runs) /\ j \in 1..Len(runs) /\ runs[i].name = runs[j].name
    BY <1>2, <1>9
  <2>2. H!Ended(runs[i]) /\ (runs[j].state # "queued" => runs[i].at < runs[j].began)
    BY <1>9, <2>1 DEF RunInv
  <2>3. i # k
    BY <2>2 DEF H!Ended
  <2>4. CASE j # k
    BY <1>2, <2>1, <2>2, <2>3, <2>4
  <2>5. CASE j = k
    <3>1. runs[i].at <= H!Now
      BY <2>1 DEF RunInv
    <3>2. runs[i].at < r.began
      BY <1>1, <1>6, <2>1, <2>2, <2>5, <3>1
    <3>. QED  BY <1>2, <2>1, <2>2, <2>3, <2>5, <3>2
  <2>. QED  BY <2>4, <2>5
<1>. QED  BY <1>2, <1>5, <1>8, <1>9 DEF RunInv

\* Of the rows of a name, one with the latest time.
LEMMA LatestIs ==
  ASSUME NEW rows \in Seq(RunRows), NEW m \in 1..Len(rows), NEW b \in Nat,
         \A j \in 1..Len(rows) : rows[j].at <= b
  PROVE  LET l == H!LatestRun(rows, rows[m].name)
         IN /\ l \in 1..Len(rows) /\ rows[l].name = rows[m].name
            /\ \A j \in 1..Len(rows) : rows[j].name = rows[m].name => rows[j].at <= rows[l].at
<1> DEFINE n == rows[m].name
           own == {j \in 1..Len(rows) : rows[j].name = n}
           times == {rows[j].at : j \in own}
<1>1. Len(rows) \in Nat /\ \A j \in 1..Len(rows) : rows[j].at \in Nat
  <2>1. Len(rows) \in Nat /\ \A j \in 1..Len(rows) : rows[j] \in RunRows
    OBVIOUS
  <2>. QED  BY <2>1 DEF RunRows
<1>2. PICK t \in times : \A u \in times : u <= t
  <2>1. times \in SUBSET Nat /\ times # {} /\ \A u \in times : u <= b
    BY <1>1
  <2> HIDE DEF times
  <2>. QED  BY <2>1, GreatestOf
<1> DEFINE late == {j \in own : rows[j].at = t}
<1>3. PICK k \in late : \A j \in late : j <= k
  <2>1. late \in SUBSET Nat /\ late # {} /\ \A j \in late : j <= Len(rows)
    BY <1>1, <1>2
  <2> HIDE DEF late
  <2>. QED  BY <1>1, <2>1, GreatestOf
<1> DEFINE Last(l) == rows[l].name = n /\ \A j \in 1..Len(rows) : rows[j].name = n =>
                        rows[j].at < rows[l].at \/ (rows[j].at = rows[l].at /\ j <= l)
<1>4. k \in 1..Len(rows) /\ Last(k)
  <2>1. k \in own /\ rows[k].at = t
    OBVIOUS
  <2>2. ASSUME NEW j \in own PROVE rows[j].at < rows[k].at \/ (rows[j].at = rows[k].at /\ j <= k)
    <3>1. rows[j].at <= t
      BY <1>2
    <3>. QED  BY <1>1, <1>3, <2>1, <2>2, <3>1
  <2>. QED  BY <2>1, <2>2
<1>5. H!LatestRun(rows, n) = CHOOSE l \in 1..Len(rows) : Last(l)
  BY DEF H!LatestRun
<1> HIDE DEF Last
<1>6. H!LatestRun(rows, n) \in 1..Len(rows) /\ Last(H!LatestRun(rows, n))
  BY <1>4, <1>5
<1>. QED  BY <1>1, <1>6 DEF Last

\* Every run is in every listing.
LEMMA ListingIs ==
  ASSUME runs \in Seq(RunRows), NEW rows \in H!Listings
  PROVE  /\ rows \in Seq(RunRows) /\ Len(rows) = Len(runs)
         /\ \A m \in 1..Len(rows) : \E k \in 1..Len(runs) : rows[m] = runs[k]
         /\ \A k \in 1..Len(runs) : \E m \in 1..Len(rows) : rows[m] = runs[k]
<1> DEFINE N == 1..Len(runs)
<1>1. Len(runs) \in Nat
  OBVIOUS
<1>2. PICK p \in [N -> N] : H!IsInjective(p) /\ rows = [k \in N |-> runs[p[k]]]
  BY DEF H!Listings
<1>3. rows \in Seq(RunRows) /\ Len(rows) = Len(runs)
  BY <1>1, <1>2
<1>4. ASSUME NEW k \in N PROVE \E m \in N : p[m] = k
  <2>1. SUFFICES ASSUME \A m \in N : p[m] # k PROVE FALSE
    OBVIOUS
  <2>2. p \in [N -> N \ {k}]
    BY <2>1
  <2>3. IsFiniteSet(N) /\ Cardinality(N) \in Nat
    BY <1>1, FS_Interval, FS_CardinalityType
  <2>4. IsFiniteSet(N \ {k}) /\ Cardinality(N \ {k}) = Cardinality(N) - 1
    BY <2>3, FS_RemoveElement
  <2>5. Cardinality(N \ {k}) < Cardinality(N)
    BY <2>3, <2>4
  <2>6. \E x, y \in N : x # y /\ p[x] = p[y]
    <3> HIDE DEF N
    <3>. QED  BY <2>2, <2>3, <2>4, <2>5, FS_PigeonHole
  <2>. QED  BY <1>2, <2>6 DEF H!IsInjective
<1>. QED  BY <1>2, <1>3, <1>4

LEMMA GreenIs ==
  ASSUME RunInv, NEW rows \in H!Listings, H!ClassifyChecks(rows) = "green",
         NEW k \in 1..Len(runs), H!Started(runs[k]),
         \A j \in 1..Len(runs) : runs[j].name = runs[k].name => runs[j].began <= runs[k].began
  PROVE  runs[k].state = "pass"
<1>1. runs \in Seq(RunRows) /\ H!Now \in Nat /\ \A j \in 1..Len(runs) : runs[j] \in RunRows /\ runs[j].at <= H!Now
  BY NowIs DEF RunInv
<1>2. /\ rows \in Seq(RunRows) /\ \A m \in 1..Len(rows) : \E j \in 1..Len(runs) : rows[m] = runs[j]
      /\ \E m \in 1..Len(rows) : rows[m] = runs[k]
  BY <1>1, ListingIs
<1>3. PICK m \in 1..Len(rows) : rows[m] = runs[k]
  BY <1>2
<1> DEFINE l == H!LatestRun(rows, rows[m].name)
<1>4. /\ l \in 1..Len(rows) /\ rows[l].name = rows[m].name
      /\ \A j \in 1..Len(rows) : rows[j].name = rows[m].name => rows[j].at <= rows[l].at
  <2>1. \A j \in 1..Len(rows) : rows[j].at <= H!Now
    BY <1>1, <1>2
  <2>. QED  BY <1>1, <1>2, <2>1, LatestIs
<1> DEFINE latest == {rows[H!LatestRun(rows, n)].state : n \in {rows[i].name : i \in 1..Len(rows)}}
<1>5. rows[l].state \in latest
  OBVIOUS
<1>6. "queued" \notin latest /\ "running" \notin latest /\ "fail" \notin latest
  <2>1. H!ClassifyChecks(rows) =
          CASE rows = <<>> -> "none"
            [] latest \cap {"queued", "running"} # {} -> "pending"
            [] latest \cap {"queued", "running"} = {} /\ "fail" \in latest -> "red"
            [] OTHER -> "green"
    BY DEF H!ClassifyChecks
  <2> HIDE DEF latest
  <2>2. rows # <<>>
    BY <2>1
  <2>3. latest \cap {"queued", "running"} = {}
    BY <2>1, <2>2
  <2>. QED  BY <2>1, <2>2, <2>3
<1> HIDE DEF l, latest
<1>7. PICK j \in 1..Len(runs) : rows[l] = runs[j]
  BY <1>2, <1>4
<1>8. runs[j].name = runs[k].name /\ runs[k].at <= runs[j].at
  BY <1>3, <1>4, <1>7
<1>9. /\ runs[k].began \in Nat /\ runs[j].began \in Nat /\ runs[k].at \in Nat /\ runs[j].at \in Nat
      /\ runs[j].state \in {"queued", "running", "pass", "fail"}
  BY <1>1 DEF RunRows
<1>10. 0 < runs[k].began /\ runs[k].began <= runs[k].at
  BY DEF RunInv, H!Started
<1>11. runs[j].state # "queued"
  BY <1>8, <1>9, <1>10 DEF RunInv
<1>12. ~(j < k)
  BY <1>8, <1>9, <1>10, <1>11 DEF RunInv, H!Started
<1>13. ~(k < j)
  BY <1>8, <1>9, <1>10, <1>11 DEF RunInv
<1>14. j = k
  BY <1>12, <1>13
<1>. QED  BY <1>5, <1>6, <1>7, <1>9, <1>14

LEMMA RunStep ==
  ASSUME RunInv, H!CheckStep PROVE RunInv'
<1>1. CASE H!AwaitChecks
  <2>1. PICK rows \in H!Listings \cup {<<>>} :
          verdict' \in IF H!ClassifyChecks(rows) = "pending" THEN {"pending", "timeout"} ELSE {H!ClassifyChecks(rows)}
    BY <1>1 DEF H!AwaitChecks
  <2>2. seen' = runs /\ runs' = runs
    BY <1>1 DEF H!AwaitChecks
  <2>3. ASSUME verdict' = "green" PROVE H!ClassifyChecks(rows) = "green"
    BY <2>1, <2>3
  <2>4. H!ClassifyChecks(<<>>) = "none"
    BY DEF H!ClassifyChecks
  <2>5. H!GreenIsCurrent'
    BY <2>1, <2>2, <2>3, <2>4, GreenIs DEF H!GreenIsCurrent
  <2>. QED  BY <2>2, <2>5 DEF RunInv, H!Now
<1>2. ASSUME H!RunChecks PROVE RunInv'
  <2>1. CASE \E n \in Names : H!Settled(n) /\ runs' = Append(runs, [name |-> n, state |-> "queued", began |-> 0, at |-> 0])
    BY <1>2, <2>1, Queues DEF H!RunChecks
  <2>2. H!Now + 1 \in Nat /\ \A k \in 1..Len(runs) : runs[k] \in RunRows
    BY NowIs DEF RunInv
  <2>3. ASSUME NEW k \in 1..Len(runs), runs[k].state = "queued",
               runs' = [runs EXCEPT ![k] = [@ EXCEPT !.state = "running", !.began = H!Now + 1, !.at = H!Now + 1]]
        PROVE  RunInv'
    <3> DEFINE r == [runs[k] EXCEPT !.state = "running", !.began = H!Now + 1, !.at = H!Now + 1]
    <3>1. r \in RunRows /\ r.name = runs[k].name /\ r.at = H!Now + 1 /\ r.began = r.at /\ r.state = "running"
      BY <2>2 DEF RunRows
    <3>2. runs' = [runs EXCEPT ![k] = r]
      BY <2>3
    <3> HIDE DEF r
    <3>. QED  BY <1>2, <2>3, <3>1, <3>2, Advances DEF H!RunChecks
  <2>4. ASSUME NEW k \in 1..Len(runs), NEW s \in {"pass", "fail"}, runs[k].state = "running",
               runs' = [runs EXCEPT ![k] = [@ EXCEPT !.state = s, !.at = H!Now + 1]]
        PROVE  RunInv'
    <3> DEFINE r == [runs[k] EXCEPT !.state = s, !.at = H!Now + 1]
    <3>1. r \in RunRows /\ r.name = runs[k].name /\ r.at = H!Now + 1 /\ r.began = runs[k].began /\ r.state = s
      BY <2>2 DEF RunRows
    <3>2. runs' = [runs EXCEPT ![k] = r]
      BY <2>4
    <3> HIDE DEF r
    <3>. QED  BY <1>2, <2>4, <3>1, <3>2, Advances DEF H!RunChecks
  <2>. QED  BY <1>2, <2>1, <2>3, <2>4 DEF H!RunChecks
<1>. QED  BY <1>1, <1>2 DEF H!CheckStep

(* A read that ends has every thread that was there when it began and still *)
(* is, with every comment it had, and green is the word of the run of each *)
(* check that began last, however threads come and go between the pages    *)
(* and in whatever order the runs are listed (gh-cli.ts).                  *)
THEOREM ReadsAreWhole == Spec => []ReadsAreTrue
<1>1. Init => ReadInv
  <2>1. Init => live = {} /\ size = [t \in Places |-> 0] /\ read = H!Reader
    BY DEF Init, H!GhInit, Places
  <2>2. /\ H!Reader \in Readers /\ H!Reader.at = "idle" /\ H!Reader.cut = {} /\ H!Reader.got = <<>>
        /\ H!Reader.want = <<>>
    BY NoCounts DEF H!Reader, Readers
  <2>3. ReadOK(H!Reader)
    BY <2>2, NoCounts DEF ReadOK, Wanted
  <2>. QED  BY <2>1, <2>3 DEF ReadInv
<1>2. Init => RunInv
  <2>1. Init => runs = <<>> /\ verdict = "none"
    BY DEF Init, H!GhInit
  <2>2. <<>> \in Seq(RunRows) /\ Len(<<>>) = 0
    OBVIOUS
  <2>. QED  BY <2>1, <2>2 DEF RunInv, H!GreenIsCurrent
<1>3. ReadInv /\ RunInv /\ [Next]_vars => ReadInv' /\ RunInv'
  <2> SUFFICES ASSUME ReadInv, RunInv, [Next]_vars PROVE ReadInv' /\ RunInv'
    OBVIOUS
  <2>1. ASSUME UNCHANGED <<live, size, read>> PROVE ReadInv'
    BY <2>1 DEF ReadInv, ReadOK, Wanted, AllCaught
  <2>2. ASSUME UNCHANGED <<runs, verdict, seen>> PROVE RunInv'
    BY <2>2 DEF RunInv, H!GreenIsCurrent, H!Now
  <2>3. CASE UNCHANGED ghVars
    BY <2>1, <2>2, <2>3 DEF ghVars
  <2>4. CASE H!GhNext
    BY <2>1, <2>2, <2>4, ReadStep, RunStep DEF H!GhNext, H!threadVars, H!checkVars, H!labelVars
  <2>. QED
    BY <2>3, <2>4
    DEF Next, vars, ghVars, GateMoves, SessionMoves, SyncMoves, TreesMoves, ViewMoves, LedgerMoves,
        ClientMoves, OnlyGate, OnlySession, OnlySync, OnlyTrees, OnlyView, OnlyLedger
<1>4. ReadInv /\ RunInv => ReadsAreTrue
  BY DEF ReadInv, ReadOK, RunInv, ReadsAreTrue, H!ReadIsWhole, AllCaught, Caught
<1>. QED
  BY <1>1, <1>2, <1>3, <1>4, PTL DEF Spec

-----------------------------------------------------------------------------
(* The view of the run.                                                    *)

Starts(fs) == {f \in fs : f.type = "RunStarted"}
Entries(fs, p) == {f \in fs : f.type = "ReviewPhaseEntered" /\ f.phase = p}

\* The attempts at a phase since its run started and it was last entered.
Spent(fs, p) == {f \in fs : f.type = "FixAttempted" /\ f.phase = p
                            /\ \A g \in Starts(fs) \cup Entries(fs, p) : g.gp <= f.gp}

\* A fact that counts for a phase.
Bears(f, p) == f.type = "RunStarted" \/ (f.type \in {"FixAttempted", "ReviewPhaseEntered"} /\ f.phase = p)

(* A fact has a position of its own, and a run unless it is the issue's.   *)
Streamed(fs, n) ==
  /\ IsFiniteSet(fs) /\ n \in Nat \ {0}
  /\ \A f \in fs : f.gp \in 1..(n - 1) /\ f.run \in Nat
  /\ \A f, g \in fs : f.gp = g.gp => f = g
  /\ \A f \in Starts(fs) : f.phase = V!NoPhase
  /\ \A f \in fs : f.type \in {"FixAttempted", "ReviewPhaseEntered"} => f.run # 0

(* The state folded from the facts is of the run that started last, whose  *)
(* are all the facts since, and has counted the attempts.                  *)
FoldIsOf(fs, s) ==
  /\ s = [status |-> s.status, run |-> s.run, fixes |-> s.fixes, anomaly |-> s.anomaly, ended |-> s.ended]
  /\ s.run \in Nat
  /\ s.fixes = [p \in Phases |-> Cardinality(Spent(fs, p))]
  /\ \A f \in fs : (\A g \in Starts(fs) : g.gp <= f.gp) => f.run \in {0, s.run}
  /\ fs # {} => s.run # 0 /\ Starts(fs) # {}

(* The row and the span are of one run, but for the moment of the claim.   *)
RowIsTheSpans ==
  /\ runRow \in Nat
  /\ ~claiming => V!State.run = runRow
  /\ claiming => runRow # 0 /\ V!State.status # "awaiting-answer"

(* What was deleted is told of by a marker of the same run that follows it. *)
Transcribed ==
  /\ \A e \in talk : e.gp \in 1..(next - 1)
  /\ \A e \in talk : e.block.kind = "result" => e.block = [kind |-> "result", id |-> e.block.id]
  /\ \A e \in gone : e.gp \in Nat /\ \E m \in talk : m.kind = "pruned" /\ m.run = e.run /\ e.gp < m.gp

ViewInv ==
  /\ Streamed(facts, next) /\ FoldIsOf(facts, V!State) /\ (facts = {} => cell = <<>>)
  /\ RowIsTheSpans /\ Transcribed

\* The view counts as everybody does.
LEMMA CountsAlike == \A xs : V!Cardinality(xs) = Cardinality(xs)
BY Zenon DEF V!Cardinality, Cardinality, V!IsFiniteSet, IsFiniteSet

\* An attempt is one more of its phase; whatever enters a phase forgets them.
LEMMA SpentIs ==
  ASSUME NEW fs, NEW n, NEW f, NEW p \in Phases, Streamed(fs, n)
  PROVE  LET e == V!Placed(f, n)
             new == fs \cup {e}
         IN /\ IsFiniteSet(Spent(fs, p))
            /\ f.type = "FixAttempted" /\ f.phase = p =>
                 Spent(new, p) = Spent(fs, p) \cup {e} /\ e \notin Spent(fs, p)
            /\ f.type = "RunStarted" \/ (f.type = "ReviewPhaseEntered" /\ f.phase = p) => Spent(new, p) = {}
            /\ ~Bears(f, p) => Spent(new, p) = Spent(fs, p)
<1> DEFINE e == V!Placed(f, n)
           new == fs \cup {e}
<1>1. e.gp = n /\ e.type = f.type /\ e.phase = f.phase /\ n \in Nat /\ \A g \in fs : g.gp \in Nat /\ g.gp < n
  BY DEF V!Placed, Streamed
<1>2. e \notin fs
  BY <1>1
<1>3. Starts(new) = Starts(fs) \cup {x \in {e} : f.type = "RunStarted"}
  BY <1>1 DEF Starts
<1>4. Entries(new, p) = Entries(fs, p) \cup {x \in {e} : f.type = "ReviewPhaseEntered" /\ f.phase = p}
  BY <1>1 DEF Entries
<1>5. IsFiniteSet(Spent(fs, p))
  BY FS_Subset DEF Spent, Streamed
<1>6. \A g \in Starts(fs) \cup Entries(fs, p) : g \in fs
  BY DEF Starts, Entries
<1>7. ASSUME f.type = "FixAttempted", f.phase = p
      PROVE  Spent(new, p) = Spent(fs, p) \cup {e} /\ e \notin Spent(fs, p)
  <2>1. Starts(new) \cup Entries(new, p) = Starts(fs) \cup Entries(fs, p)
    BY <1>3, <1>4, <1>7
  <2>2. \A g \in Starts(fs) \cup Entries(fs, p) : g.gp <= e.gp
    BY <1>1, <1>6
  <2> HIDE DEF e
  <2>. QED  BY <1>1, <1>2, <1>7, <2>1, <2>2 DEF Spent
<1>8. ASSUME f.type = "RunStarted" \/ (f.type = "ReviewPhaseEntered" /\ f.phase = p)
      PROVE  Spent(new, p) = {}
  <2>1. e \in Starts(new) \cup Entries(new, p)
    BY <1>3, <1>4, <1>8
  <2> HIDE DEF e
  <2>2. \A g \in fs : ~(e.gp <= g.gp)
    BY <1>1
  <2>3. e.type # "FixAttempted"
    BY <1>1, <1>8
  <2>. QED  BY <2>1, <2>2, <2>3 DEF Spent
<1>9. ASSUME ~Bears(f, p) PROVE Spent(new, p) = Spent(fs, p)
  <2>1. Starts(new) \cup Entries(new, p) = Starts(fs) \cup Entries(fs, p)
    BY <1>3, <1>4, <1>9 DEF Bears
  <2> HIDE DEF e
  <2>. QED  BY <1>1, <1>9, <2>1 DEF Spent, Bears
<1>. QED
  BY <1>5, <1>7, <1>8, <1>9

\* One fact more, and the state it leaves.
LEMMA FactKeeps ==
  ASSUME NEW fs, NEW n, NEW s, Streamed(fs, n), FoldIsOf(fs, s),
         NEW f, f = V!Fact(f.type, f.run, f.phase), f.run \in Nat,
         f.type = "RunStarted" => f.run # 0 /\ f.phase = V!NoPhase,
         f.type # "RunStarted" => fs # {} /\ f.run \in {0, s.run},
         f.type \in {"FixAttempted", "ReviewPhaseEntered"} => f.run # 0 /\ f.phase \in Phases
  PROVE  /\ Streamed(fs \cup {V!Placed(f, n)}, n + 1)
         /\ FoldIsOf(fs \cup {V!Placed(f, n)}, V!Evolve(s, f))
<1> DEFINE e == V!Placed(f, n)
           new == fs \cup {e}
           t == V!Evolve(s, f)
<1>1. /\ e.gp = n /\ e.type = f.type /\ e.phase = f.phase /\ e.run = f.run
      /\ n \in Nat \ {0} /\ \A g \in fs : g.gp \in Nat /\ g.gp < n
  BY DEF V!Placed, Streamed
<1>2. Streamed(new, n + 1)
  <2>1. IsFiniteSet(new)
    BY FS_AddElement DEF Streamed
  <2> HIDE DEF e
  <2>2. \A g \in new : g.gp \in 1..((n + 1) - 1) /\ g.run \in Nat
    BY <1>1 DEF Streamed
  <2>3. \A g, h \in new : g.gp = h.gp => g = h
    BY <1>1 DEF Streamed
  <2>4. \A g \in Starts(new) : g.phase = V!NoPhase
    BY <1>1 DEF Streamed, Starts
  <2>5. \A g \in new : g.type \in {"FixAttempted", "ReviewPhaseEntered"} => g.run # 0
    BY <1>1 DEF Streamed
  <2>6. n + 1 \in Nat \ {0}
    BY <1>1
  <2> HIDE DEF new
  <2>. QED  BY <2>1, <2>2, <2>3, <2>4, <2>5, <2>6 DEF Streamed
<1>3. /\ t = [status |-> t.status, run |-> t.run, fixes |-> t.fixes, anomaly |-> t.anomaly, ended |-> t.ended]
      /\ t.run = IF f.type = "RunStarted" THEN f.run ELSE s.run
      /\ t.fixes = CASE f.type = "RunStarted" -> V!NoFixes
                     [] f.type = "FixAttempted" -> [s.fixes EXCEPT ![f.phase] = @ + 1]
                     [] f.type = "ReviewPhaseEntered" -> [s.fixes EXCEPT ![f.phase] = 0]
                     [] OTHER -> s.fixes
  <2>1. s = [status |-> s.status, run |-> s.run, fixes |-> s.fixes, anomaly |-> s.anomaly, ended |-> s.ended]
    BY DEF FoldIsOf
  <2>2. CASE f.type = "RunStarted"
    BY <2>2 DEF V!Evolve, V!Fresh
  <2>3. CASE f.type = "FixAttempted"
    BY <2>1, <2>3 DEF V!Evolve
  <2>4. CASE f.type = "ReviewPhaseEntered"
    BY <2>1, <2>4 DEF V!Evolve
  <2>5. CASE f.type \notin {"RunStarted", "FixAttempted", "ReviewPhaseEntered"}
    BY <2>1, <2>5 DEF V!Evolve
  <2>. QED  BY <2>2, <2>3, <2>4, <2>5
<1>4. t.run \in Nat /\ t.run # 0
  BY <1>3 DEF FoldIsOf
<1>5. Starts(new) # {}
  BY <1>1 DEF Starts, FoldIsOf
<1>6. ASSUME NEW g \in new, \A h \in Starts(new) : h.gp <= g.gp PROVE g.run \in {0, t.run}
  <2>1. CASE f.type = "RunStarted"
    <3>1. e \in Starts(new)
      BY <1>1, <2>1 DEF Starts
    <3> HIDE DEF e
    <3>2. e.gp <= g.gp
      BY <1>6, <3>1
    <3>3. g = e
      BY <1>1, <3>2
    <3>. QED  BY <1>1, <1>3, <2>1, <3>3
  <2>2. CASE f.type # "RunStarted"
    <3>1. \A h \in Starts(fs) : h \in Starts(new)
      BY DEF Starts
    <3> HIDE DEF e, t
    <3>2. CASE g = e
      BY <1>1, <1>3, <2>2, <3>2
    <3>3. CASE g \in fs
      BY <1>3, <1>6, <2>2, <3>1, <3>3 DEF FoldIsOf
    <3>. QED  BY <3>2, <3>3
  <2>. QED  BY <2>1, <2>2
<1>7. ASSUME NEW p \in Phases PROVE t.fixes[p] = Cardinality(Spent(new, p))
  <2> DEFINE c == Cardinality(Spent(fs, p))
  <2>1. s.fixes = [q \in Phases |-> Cardinality(Spent(fs, q))] /\ s.fixes[p] = c
    BY DEF FoldIsOf
  <2>2. /\ IsFiniteSet(Spent(fs, p))
        /\ f.type = "FixAttempted" /\ f.phase = p =>
             Spent(new, p) = Spent(fs, p) \cup {e} /\ e \notin Spent(fs, p)
        /\ f.type = "RunStarted" \/ (f.type = "ReviewPhaseEntered" /\ f.phase = p) => Spent(new, p) = {}
        /\ ~Bears(f, p) => Spent(new, p) = Spent(fs, p)
    BY SpentIs
  <2> HIDE DEF e, new, t
  <2>3. CASE f.type = "RunStarted"
    BY <1>3, <2>2, <2>3, FS_EmptySet DEF V!NoFixes
  <2>4. CASE f.type = "ReviewPhaseEntered" /\ f.phase = p
    <3>1. t.fixes[p] = 0
      BY <1>3, <2>1, <2>4
    <3>. QED  BY <2>2, <2>4, <3>1, FS_EmptySet
  <2>5. CASE f.type = "FixAttempted" /\ f.phase = p
    <3>1. t.fixes[p] = s.fixes[p] + 1
      BY <1>3, <2>1, <2>5
    <3>2. Cardinality(Spent(fs, p) \cup {e}) = Cardinality(Spent(fs, p)) + 1
      BY <2>2, <2>5, FS_AddElement
    <3>. QED  BY <2>1, <2>2, <2>5, <3>1, <3>2
  <2>6. CASE ~Bears(f, p)
    <3>1. t.fixes[p] = s.fixes[p]
      <4>1. CASE f.type \in {"FixAttempted", "ReviewPhaseEntered"} /\ f.phase # p
        BY <1>3, <2>1, <2>6, <4>1 DEF Bears
      <4>2. CASE f.type \notin {"FixAttempted", "ReviewPhaseEntered"}
        BY <1>3, <2>6, <4>2 DEF Bears
      <4>. QED  BY <2>6, <4>1, <4>2 DEF Bears
    <3>. QED  BY <2>1, <2>2, <2>6, <3>1
  <2>. QED  BY <2>3, <2>4, <2>5, <2>6 DEF Bears
<1>8. t.fixes = [p \in Phases |-> Cardinality(Spent(new, p))]
  <2>1. t.fixes = [p \in Phases |-> t.fixes[p]]
    <3>1. s.fixes = [q \in Phases |-> Cardinality(Spent(fs, q))]
      BY DEF FoldIsOf
    <3> HIDE DEF t
    <3>. QED  BY <1>3, <3>1 DEF V!NoFixes
  <2>. QED  BY <1>7, <2>1
<1> HIDE DEF e, t
<1>9. FoldIsOf(new, t)
  BY <1>3, <1>4, <1>5, <1>6, <1>8 DEF FoldIsOf
<1>. QED
  BY <1>2, <1>9 DEF e, t

\* What the fold of one fact is, and of two.
LEMMA FoldIs ==
  ASSUME NEW s, NEW new, Len(new) \in {1, 2}
  PROVE  V!Folded(s, new) = IF Len(new) = 1 THEN V!Evolve(s, new[1])
                                            ELSE V!Evolve(V!Evolve(s, new[1]), new[2])
<1> DEFINE a == V!Evolve(s, new[1])
           b == V!Evolve(a, new[2])
           Step(g) == [k \in 0..Len(new) |-> IF k = 0 THEN s ELSE V!Evolve(g[k - 1], new[k])]
           w == [k \in 0..Len(new) |-> IF k = 0 THEN s ELSE IF k = 1 THEN a ELSE b]
           f == CHOOSE g : g = Step(g)
<1>1. w = Step(w)
  <2>1. \A k \in 0..Len(new) : w[k] = IF k = 0 THEN s ELSE IF k = 1 THEN a ELSE b
    BY Zenon
  <2>2. ASSUME NEW k \in 0..Len(new), k # 0 PROVE w[k] = V!Evolve(w[k - 1], new[k])
    <3>1. CASE k = 1
      <4>1. 0 \in 0..Len(new) /\ k - 1 = 0
        BY <3>1
      <4>2. w[k - 1] = s
        BY <2>1, <4>1
      <4> HIDE DEF w
      <4>. QED  BY <2>1, <3>1, <4>2
    <3>2. CASE k = 2
      <4>1. 1 \in 0..Len(new) /\ k - 1 = 1
        BY <3>2
      <4>2. w[k - 1] = a
        BY <2>1, <4>1
      <4>3. w[k] = b
        BY <2>1, <3>2
      <4> HIDE DEF w, a
      <4>. QED  BY <3>2, <4>2, <4>3
    <3>. QED  BY <2>2, <3>1, <3>2
  <2>3. \A k \in 0..Len(new) : w[k] = IF k = 0 THEN s ELSE V!Evolve(w[k - 1], new[k])
    <3> HIDE DEF w
    <3>. QED  BY <2>1, <2>2
  <2>4. w = [k \in 0..Len(new) |-> w[k]]
    OBVIOUS
  <2> HIDE DEF w
  <2>. QED  BY <2>3, <2>4
<1>2. f = Step(f)
  <2> HIDE DEF w, Step
  <2>. QED  BY <1>1
<1>3. f[Len(new)] = IF Len(new) = 1 THEN a ELSE b
  <2>1. \A k \in 0..Len(new) : f[k] = IF k = 0 THEN s ELSE V!Evolve(f[k - 1], new[k])
    <3> HIDE DEF f
    <3>. QED  BY <1>2
  <2> HIDE DEF f
  <2>2. f[0] = s
    BY <2>1
  <2>3. f[1] = a
    <3>1. 1 \in 0..Len(new) /\ 1 - 1 = 0
      OBVIOUS
    <3>2. f[1] = V!Evolve(f[1 - 1], new[1])
      BY <2>1, <3>1
    <3>. QED  BY <2>2, <3>1, <3>2
  <2>4. ASSUME Len(new) = 2 PROVE f[2] = b
    <3>1. 2 \in 0..Len(new) /\ 2 - 1 = 1
      BY <2>4
    <3>2. f[2] = V!Evolve(f[2 - 1], new[2])
      BY <2>1, <3>1
    <3>. QED  BY <2>3, <3>1, <3>2
  <2>. QED  BY <2>3, <2>4
<1>4. V!Folded(s, new) = f[Len(new)]
  BY DEF V!Folded
<1> HIDE DEF f
<1>. QED
  BY <1>3, <1>4

\* What a commit of one fact leaves, and of two.
LEMMA CommitIs ==
  ASSUME NEW new, Len(new) \in {1, 2}, V!Commit(new), next \in Nat
  PROVE  /\ cell' # <<>> /\ next' = next + Len(new)
         /\ Len(new) = 1 => /\ facts' = facts \cup {V!Placed(new[1], next)}
                            /\ V!State' = V!Evolve(V!State, new[1])
         /\ Len(new) = 2 => /\ facts' = (facts \cup {V!Placed(new[1], next)}) \cup {V!Placed(new[2], next + 1)}
                            /\ V!State' = V!Evolve(V!Evolve(V!State, new[1]), new[2])
<1>1. cell' = <<V!Folded(V!State, new)>>
  BY DEF V!Commit, V!Encoded
<1>2. cell' # <<>> /\ V!State' = V!Folded(V!State, new)
  BY <1>1 DEF V!State, V!Decoded
<1>3. facts' = facts \cup {V!Placed(new[i], next + i - 1) : i \in 1..Len(new)} /\ next' = next + Len(new)
  BY DEF V!Commit
<1>4. ASSUME Len(new) = 1 PROVE facts' = facts \cup {V!Placed(new[1], next)}
  <2>1. 1..Len(new) = {1} /\ next + 1 - 1 = next
    BY <1>4
  <2>. QED  BY <1>3, <2>1, Zenon
<1>5. ASSUME Len(new) = 2
      PROVE  facts' = (facts \cup {V!Placed(new[1], next)}) \cup {V!Placed(new[2], next + 1)}
  <2>1. 1..Len(new) = {1, 2} /\ next + 1 - 1 = next /\ next + 2 - 1 = next + 1
    BY <1>5
  <2>2. {V!Placed(new[i], next + i - 1) : i \in {1, 2}} = {V!Placed(new[1], next), V!Placed(new[2], next + 1)}
    BY <2>1
  <2>. QED  BY <1>3, <2>1, <2>2
<1>. QED
  BY <1>2, <1>3, <1>4, <1>5, FoldIs

Told(fact) ==
  /\ fact = V!Fact(fact.type, fact.run, fact.phase) /\ fact.type # "RunStarted"
  /\ fact.run \in {0, V!State.run}
  /\ fact.type \in {"FixAttempted", "ReviewPhaseEntered"} => fact.run # 0 /\ fact.phase \in Phases

\* Facts of a span that goes on.
LEMMA ToldKeeps ==
  ASSUME ViewInv, NEW new, Len(new) \in {1, 2}, V!Commit(new), facts # {},
         \A i \in 1..Len(new) : Told(new[i])
  PROVE  Streamed(facts, next)' /\ FoldIsOf(facts, V!State)' /\ facts' # {} /\ next' > next
         /\ V!State'.run = V!State.run /\ next' \in Nat
<1>1. next \in Nat \ {0} /\ V!State.run \in Nat
  BY DEF ViewInv, Streamed, FoldIsOf
<1>0. /\ next' = next + Len(new)
      /\ Len(new) = 1 => /\ facts' = facts \cup {V!Placed(new[1], next)}
                         /\ V!State' = V!Evolve(V!State, new[1])
      /\ Len(new) = 2 => /\ facts' = (facts \cup {V!Placed(new[1], next)}) \cup {V!Placed(new[2], next + 1)}
                         /\ V!State' = V!Evolve(V!Evolve(V!State, new[1]), new[2])
  BY <1>1, CommitIs
<1> DEFINE f == new[1]
           g == new[2]
           fs == facts \cup {V!Placed(f, next)}
           s == V!Evolve(V!State, f)
<1>2. Told(f) /\ f.run \in Nat
  <2>1. 1 \in 1..Len(new)
    OBVIOUS
  <2>. QED  BY <1>1, <2>1 DEF Told
<1>3. Streamed(fs, next + 1) /\ FoldIsOf(fs, s)
  <2> HIDE DEF f
  <2>. QED  BY <1>2, FactKeeps DEF ViewInv, Told
<1>4. s.run = V!State.run
  <2>1. V!State = [status |-> V!State.status, run |-> V!State.run, fixes |-> V!State.fixes,
                   anomaly |-> V!State.anomaly, ended |-> V!State.ended]
    BY DEF ViewInv, FoldIsOf
  <2> HIDE DEF f
  <2>. QED  BY <1>2, <2>1 DEF V!Evolve, Told
<1>5. CASE Len(new) = 1
  <2>1. facts' = fs /\ V!State' = s /\ next' = next + 1
    BY <1>0, <1>5
  <2> HIDE DEF f, s
  <2>. QED  BY <1>1, <1>3, <1>4, <2>1
<1>6. CASE Len(new) = 2
  <2>1. /\ facts' = fs \cup {V!Placed(g, next + 1)}
        /\ V!State' = V!Evolve(s, g) /\ next' = (next + 1) + 1
    BY <1>0, <1>1, <1>6
  <2>2. Told(g) /\ g.run \in Nat
    <3>1. 2 \in 1..Len(new)
      BY <1>6
    <3>. QED  BY <1>1, <3>1 DEF Told
  <2>3. fs # {}
    OBVIOUS
  <2> HIDE DEF f, s, fs, g
  <2>4. Streamed(fs \cup {V!Placed(g, next + 1)}, (next + 1) + 1) /\ FoldIsOf(fs \cup {V!Placed(g, next + 1)}, V!Evolve(s, g))
    BY <1>3, <1>4, <2>2, <2>3, FactKeeps DEF Told
  <2>5. V!Evolve(s, g).run = s.run
    <3>1. s = [status |-> s.status, run |-> s.run, fixes |-> s.fixes, anomaly |-> s.anomaly, ended |-> s.ended]
      BY <1>3 DEF FoldIsOf
    <3>. QED  BY <2>2, <3>1 DEF V!Evolve, Told
  <2>. QED  BY <1>1, <1>4, <2>1, <2>3, <2>4, <2>5
<1>. QED
  BY <1>5, <1>6

LEMMA TalkStays ==
  ASSUME ViewInv, UNCHANGED <<talk, gone>>, next' \in Nat, next' >= next
  PROVE  Transcribed'
<1>1. next \in Nat /\ \A e \in talk : e.gp \in 1..(next' - 1)
  BY DEF ViewInv, Streamed, Transcribed
<1>. QED
  BY <1>1 DEF ViewInv, Transcribed

\* The facts of a run under way, or of one that waits for its answer.
LEMMA RecordedKeeps ==
  ASSUME ViewInv, ~claiming, cell # <<>>, NEW types, NEW p, Len(types) \in {1, 2}, V!Recorded(types, p),
         \A i \in 1..Len(types) : types[i] # "RunStarted",
         \A i \in 1..Len(types) : types[i] \in {"FixAttempted", "ReviewPhaseEntered"} => p \in Phases
  PROVE  ViewInv'
<1>0. PICK new : new = [i \in 1..Len(types) |->
                          V!Fact(types[i], IF types[i] = "AnomalyDetected" THEN 0 ELSE runRow, p)]
  OBVIOUS
<1>1. V!Commit(new) /\ UNCHANGED <<talk, runRow, claiming, pruning, gone>>
  BY <1>0 DEF V!Recorded, V!Commit
<1>2. facts # {} /\ V!State.run = runRow /\ runRow # 0 /\ next \in Nat
  BY DEF ViewInv, RowIsTheSpans, FoldIsOf, Streamed
<1>3. Len(new) = Len(types)
  BY <1>0
<1>4. ASSUME NEW i \in 1..Len(new) PROVE Told(new[i])
  <2>1. new[i] = V!Fact(types[i], IF types[i] = "AnomalyDetected" THEN 0 ELSE runRow, p)
    BY <1>0, <1>3
  <2>2. /\ new[i].type = types[i] /\ new[i].phase = p
        /\ new[i].run = IF types[i] = "AnomalyDetected" THEN 0 ELSE runRow
    BY <2>1 DEF V!Fact
  <2>. QED  BY <1>2, <1>3, <2>1, <2>2 DEF Told
<1>5. Streamed(facts, next)' /\ FoldIsOf(facts, V!State)' /\ facts' # {} /\ next' > next
      /\ V!State'.run = V!State.run /\ next' \in Nat
  <2>1. Len(new) \in {1, 2} /\ V!Commit(new)
    BY <1>1, <1>3
  <2>2. Streamed(facts, next)' /\ FoldIsOf(facts, V!State)'
    BY <1>2, <1>4, <2>1, ToldKeeps
  <2>3. facts' # {} /\ next' > next /\ next' \in Nat
    BY <1>2, <1>4, <2>1, ToldKeeps
  <2>4. V!State'.run = V!State.run
    BY <1>2, <1>4, <2>1, ToldKeeps
  <2>. QED  BY <2>2, <2>3, <2>4
<1>6. Transcribed'
  BY <1>1, <1>2, <1>5, TalkStays
<1>7. RowIsTheSpans'
  BY <1>1, <1>2, <1>5 DEF ViewInv, RowIsTheSpans
<1>. QED
  BY <1>5, <1>6, <1>7 DEF ViewInv

\* A span that starts, once the one before it has been ended.
LEMMA SpanKeeps ==
  ASSUME ViewInv, V!RecordRunStarted
  PROVE  ViewInv'
<1> DEFINE first == V!Fact("RunEnded", V!State.run, V!NoPhase)
           started == V!Fact("RunStarted", runRow, V!NoPhase)
           head == IF V!State.status # "none" /\ ~V!State.ended THEN <<first>> ELSE <<>>
<1>0. PICK new : new = head \o <<started>>
  OBVIOUS
<1>1. claiming /\ ~claiming' /\ V!Commit(new) /\ UNCHANGED <<talk, runRow, pruning, gone>>
  BY <1>0 DEF V!RecordRunStarted, V!Commit
<1>2. next \in Nat /\ runRow \in Nat /\ runRow # 0 /\ V!State.run \in Nat
  BY <1>1 DEF ViewInv, RowIsTheSpans, FoldIsOf, Streamed
<1>3. /\ started.type = "RunStarted" /\ started.run = runRow /\ started.phase = V!NoPhase
      /\ started = V!Fact(started.type, started.run, started.phase)
  BY DEF V!Fact
<1>4. /\ first.type = "RunEnded" /\ first.run = V!State.run /\ first.phase = V!NoPhase
      /\ first = V!Fact(first.type, first.run, first.phase)
  BY DEF V!Fact
<1>5. ASSUME NEW s PROVE V!Evolve(s, started).run = runRow
  BY <1>3 DEF V!Evolve, V!Fresh
<1> HIDE DEF first, started
<1>6. /\ Streamed(facts, next)' /\ FoldIsOf(facts, V!State)' /\ facts' # {} /\ cell' # <<>>
      /\ V!State'.run = runRow /\ next' \in Nat /\ next' >= next
  <2>1. CASE head = <<first>>
    <3>1. Len(new) = 2 /\ new[1] = first /\ new[2] = started
      BY <1>0, <2>1
    <3>2. facts # {}
      <4>1. V!State.status # "none"
        BY <2>1
      <4>2. V!Fresh.status = "none"
        BY DEF V!Fresh
      <4>. QED  BY <4>1, <4>2 DEF ViewInv, V!State, V!Decoded
    <3> DEFINE fs == facts \cup {V!Placed(first, next)}
               s == V!Evolve(V!State, first)
    <3>3. /\ cell' # <<>> /\ next' = (next + 1) + 1
          /\ facts' = fs \cup {V!Placed(started, next + 1)} /\ V!State' = V!Evolve(s, started)
      <4>1. cell' # <<>> /\ next' = next + Len(new)
        BY <1>1 DEF V!Commit, V!Encoded
      <4>2. facts' = (facts \cup {V!Placed(new[1], next)}) \cup {V!Placed(new[2], next + 1)}
        BY <1>1, <1>2, <3>1, CommitIs
      <4>3. V!State' = V!Evolve(V!Evolve(V!State, new[1]), new[2])
        BY <1>1, <1>2, <3>1, CommitIs
      <4>. QED  BY <1>2, <3>1, <4>1, <4>2, <4>3
    <3>4. Streamed(fs, next + 1) /\ FoldIsOf(fs, s)
      BY <1>2, <1>4, <3>2, FactKeeps DEF ViewInv
    <3> HIDE DEF fs, s
    <3>5. /\ Streamed(fs \cup {V!Placed(started, next + 1)}, (next + 1) + 1)
          /\ FoldIsOf(fs \cup {V!Placed(started, next + 1)}, V!Evolve(s, started))
      BY <1>2, <1>3, <3>4, FactKeeps
    <3>. QED  BY <1>2, <1>5, <3>3, <3>5
  <2>2. CASE head = <<>>
    <3>1. Len(new) = 1 /\ new[1] = started
      BY <1>0, <2>2
    <3>2. /\ cell' # <<>> /\ next' = next + 1
          /\ facts' = facts \cup {V!Placed(started, next)} /\ V!State' = V!Evolve(V!State, started)
      <4>1. cell' # <<>> /\ next' = next + Len(new)
        BY <1>1 DEF V!Commit, V!Encoded
      <4>2. facts' = facts \cup {V!Placed(new[1], next)} /\ V!State' = V!Evolve(V!State, new[1])
        BY <1>1, <1>2, <3>1, CommitIs
      <4>. QED  BY <3>1, <4>1, <4>2
    <3>3. /\ Streamed(facts \cup {V!Placed(started, next)}, next + 1)
          /\ FoldIsOf(facts \cup {V!Placed(started, next)}, V!Evolve(V!State, started))
      BY <1>2, <1>3, FactKeeps DEF ViewInv
    <3>. QED  BY <1>2, <1>5, <3>2, <3>3
  <2>. QED  BY <2>1, <2>2
<1>7. Transcribed'
  BY <1>1, <1>6, TalkStays
<1>8. RowIsTheSpans'
  BY <1>1, <1>2, <1>6 DEF RowIsTheSpans
<1>. QED
  BY <1>6, <1>7, <1>8 DEF ViewInv

\* A message, or the marker that its like will be deleted.
LEMMA SayingKeeps ==
  ASSUME ViewInv, NEW k, NEW b, b.kind = "result" => b = [kind |-> "result", id |-> b.id],
         next' = next + 1, UNCHANGED <<facts, cell, runRow, claiming, gone>>,
         talk' = talk \cup {[gp |-> next, run |-> runRow, kind |-> k, block |-> b]}
  PROVE  ViewInv'
<1>1. next \in Nat \ {0}
  BY DEF ViewInv, Streamed
<1>2. Streamed(facts, next)'
  <2>1. \A f \in facts : f.gp \in 1..((next + 1) - 1)
    BY <1>1 DEF ViewInv, Streamed
  <2>. QED  BY <1>1, <2>1 DEF ViewInv, Streamed
<1>3. V!State' = V!State
  BY DEF V!State
<1>4. Transcribed'
  <2> DEFINE m == [gp |-> next, run |-> runRow, kind |-> k, block |-> b]
  <2>1. m.gp = next /\ m.block = b
    OBVIOUS
  <2> HIDE DEF m
  <2>2. talk' = talk \cup {m}
    BY DEF m
  <2>3. \A e \in talk' : e.gp \in 1..(next' - 1)
    BY <1>1, <2>1, <2>2 DEF ViewInv, Transcribed
  <2>4. \A e \in talk' : e.block.kind = "result" => e.block = [kind |-> "result", id |-> e.block.id]
    BY <2>1, <2>2 DEF ViewInv, Transcribed
  <2>5. \A e \in gone' : e.gp \in Nat /\ \E x \in talk' : x.kind = "pruned" /\ x.run = e.run /\ e.gp < x.gp
    BY <2>2 DEF ViewInv, Transcribed
  <2>. QED  BY <2>3, <2>4, <2>5 DEF Transcribed
<1>5. FoldIsOf(facts, V!State)' /\ RowIsTheSpans' /\ (facts = {} => cell = <<>>)'
  BY <1>3 DEF ViewInv, RowIsTheSpans
<1>. QED
  BY <1>2, <1>4, <1>5 DEF ViewInv

LEMMA DeleteKeeps ==
  ASSUME ViewInv, V!DeleteMessages
  PROVE  ViewInv'
<1>1. UNCHANGED <<facts, next, cell, runRow, claiming>>
  BY DEF V!DeleteMessages
<1>2. PICK m \in talk : /\ m.kind = "pruned"
                        /\ LET prey == {e \in talk : e.run = m.run /\ e.kind = "message"}
                           IN gone' = gone \cup {e \in prey : e.gp < m.gp} /\ talk' = talk \ prey
  BY DEF V!DeleteMessages
<1> DEFINE prey == {e \in talk : e.run = m.run /\ e.kind = "message"}
<1>3. \A e \in talk : e.kind = "pruned" => e \in talk'
  BY <1>2
<1>4. \A e \in gone' : e \in gone \/ (e \in talk /\ e.run = m.run /\ e.gp < m.gp)
  BY <1>2
<1>5. talk' \subseteq talk
  BY <1>2
<1>6. next \in Nat
  BY DEF ViewInv, Streamed
<1>7. \A e \in gone' : e.gp \in Nat /\ \E x \in talk' : x.kind = "pruned" /\ x.run = e.run /\ e.gp < x.gp
  BY <1>2, <1>3, <1>4, <1>6 DEF ViewInv, Transcribed
<1>8. Transcribed'
  BY <1>1, <1>5, <1>7 DEF ViewInv, Transcribed
<1>9. V!State' = V!State
  BY <1>1 DEF V!State
<1>. QED
  BY <1>1, <1>8, <1>9 DEF ViewInv, RowIsTheSpans

LEMMA ViewStep ==
  ASSUME ViewInv, [V!ViewNext]_V!viewVars
  PROVE  ViewInv'
<1>0. V!Fresh.status = "none"
  BY DEF V!Fresh
<1>1. ASSUME ~claiming, V!State.status = "running" PROVE cell # <<>>
  BY <1>0, <1>1 DEF V!State, V!Decoded
<1>2. CASE V!WriteRow
  <2>1. /\ runRow' \in {runRow, runRow + 1} \ {0} /\ claiming'
        /\ V!State.status \in V!ReAdmittable \cup {"none", "running"}
        /\ UNCHANGED <<facts, talk, next, cell, pruning, gone>>
    BY <1>2 DEF V!WriteRow
  <2>2. V!State' = V!State /\ V!State.status # "awaiting-answer"
    BY <2>1 DEF V!State, V!ReAdmittable
  <2>3. RowIsTheSpans'
    BY <2>1, <2>2 DEF ViewInv, RowIsTheSpans
  <2>. QED  BY <2>1, <2>2, <2>3 DEF ViewInv, Transcribed
<1>3. CASE V!RecordRunStarted
  BY <1>3, SpanKeeps
<1>4. CASE V!Pause
  <2>1. Len(<<"Escalated">>) = 1 /\ <<"Escalated">>[1] = "Escalated"
    OBVIOUS
  <2>. QED  BY <1>1, <1>4, <2>1, RecordedKeeps DEF V!Pause, V!Works
<1>5. CASE V!Resume
  <2>1. Len(<<"Resumed">>) = 1 /\ <<"Resumed">>[1] = "Resumed"
    OBVIOUS
  <2>2. ~claiming /\ cell # <<>>
    BY <1>0, <1>5 DEF V!Resume, ViewInv, RowIsTheSpans, V!State, V!Decoded
  <2>. QED  BY <1>5, <2>1, <2>2, RecordedKeeps DEF V!Resume
<1>6. CASE V!End
  <2>1. PICK last \in {"RunStuck", "Merged"} : V!Recorded(<<last, "RunEnded">>, V!NoPhase)
    BY <1>6 DEF V!End
  <2>2. Len(<<last, "RunEnded">>) = 2 /\ <<last, "RunEnded">>[1] = last /\ <<last, "RunEnded">>[2] = "RunEnded"
    OBVIOUS
  <2>3. \A i \in 1..Len(<<last, "RunEnded">>) :
          <<last, "RunEnded">>[i] \notin {"RunStarted", "FixAttempted", "ReviewPhaseEntered"}
    BY <2>2
  <2>. QED  BY <1>1, <1>6, <2>1, <2>2, <2>3, RecordedKeeps DEF V!End, V!Works
<1>7. CASE V!Anomaly
  <2>1. Len(<<"AnomalyDetected">>) = 1 /\ <<"AnomalyDetected">>[1] = "AnomalyDetected"
    OBVIOUS
  <2>. QED  BY <1>1, <1>7, <2>1, RecordedKeeps DEF V!Anomaly, V!Works
<1>8. CASE V!Says
  <2>1. PICK b \in V!Blocks : talk' = talk \cup {[gp |-> next, run |-> runRow, kind |-> "message", block |-> b]}
    BY <1>8 DEF V!Says
  <2>2. b.kind = "result" => b = [kind |-> "result", id |-> b.id]
    BY <2>1 DEF V!Blocks
  <2>. QED  BY <1>8, <2>1, <2>2, SayingKeeps DEF V!Says
<1>9. CASE V!MarkPruned
  <2>1. V!NoBlock.kind # "result"
    BY DEF V!NoBlock
  <2>. QED  BY <1>9, <2>1, SayingKeeps DEF V!MarkPruned
<1>10. CASE V!DeleteMessages
  BY <1>10, DeleteKeeps
<1>11. ASSUME NEW p \in Phases, V!EnterPhase(p) PROVE ViewInv'
  <2>1. Len(<<"ReviewPhaseEntered">>) = 1 /\ <<"ReviewPhaseEntered">>[1] = "ReviewPhaseEntered"
    OBVIOUS
  <2>. QED  BY <1>1, <1>11, <2>1, RecordedKeeps DEF V!EnterPhase, V!Works
<1>12. ASSUME NEW p \in Phases, V!SpendFix(p) PROVE ViewInv'
  <2>1. Len(<<"FixAttempted">>) = 1 /\ <<"FixAttempted">>[1] = "FixAttempted"
    OBVIOUS
  <2>. QED  BY <1>1, <1>12, <2>1, RecordedKeeps DEF V!SpendFix, V!Works
<1>13. CASE UNCHANGED V!viewVars
  <2>1. V!State' = V!State
    BY <1>13 DEF V!State, V!viewVars
  <2>. QED  BY <1>13, <2>1 DEF V!viewVars, ViewInv, RowIsTheSpans, Transcribed
<1>. QED
  BY <1>2, <1>3, <1>4, <1>5, <1>6, <1>7, <1>8, <1>9, <1>10, <1>11, <1>12, <1>13 DEF V!ViewNext

LEMMA ViewStarts ==
  ASSUME V!ViewInit
  PROVE  ViewInv
<1>1. V!State = V!Fresh /\ facts = {} /\ talk = {} /\ gone = {} /\ next = 1 /\ cell = <<>> /\ runRow = 0 /\ ~claiming
  BY DEF V!ViewInit, V!State, V!Decoded
<1>2. Streamed(facts, next)
  BY <1>1, FS_EmptySet DEF Streamed, Starts
<1>3. FoldIsOf(facts, V!State)
  <2>1. \A p \in Phases : Spent(facts, p) = {}
    BY <1>1 DEF Spent
  <2>2. V!NoFixes = [p \in Phases |-> Cardinality(Spent(facts, p))]
    BY <2>1, FS_EmptySet DEF V!NoFixes
  <2> HIDE DEF Cardinality
  <2>3. /\ V!Fresh = [status |-> V!Fresh.status, run |-> V!Fresh.run, fixes |-> V!Fresh.fixes,
                      anomaly |-> V!Fresh.anomaly, ended |-> V!Fresh.ended]
        /\ V!Fresh.run = 0 /\ V!Fresh.fixes = V!NoFixes
    BY DEF V!Fresh
  <2>. QED  BY <1>1, <2>2, <2>3 DEF FoldIsOf
<1>4. RowIsTheSpans
  BY <1>1 DEF RowIsTheSpans, V!Fresh
<1>. QED
  BY <1>1, <1>2, <1>3, <1>4 DEF ViewInv, Transcribed

LEMMA MaxIs ==
  ASSUME NEW xs \in SUBSET Nat, NEW b \in Nat, \A n \in xs : n <= b, xs # {}
  PROVE  V!Max(xs) \in xs /\ \A n \in xs : n <= V!Max(xs)
<1>1. PICK m \in xs : \A n \in xs : n <= m
  BY L!GreatestOf
<1>. QED
  BY <1>1 DEF V!Max

LEMMA MinIs ==
  ASSUME NEW xs \in SUBSET Nat, xs # {}
  PROVE  V!Min(xs) \in xs /\ \A n \in xs : V!Min(xs) <= n
<1>1. PICK m \in xs : \A n \in xs : m <= n
  BY L!LeastOf
<1>. QED
  BY <1>1 DEF V!Min

\* The latest of some events, 0 if there is none.
LEMMA LastOneIs ==
  ASSUME NEW xs, NEW b \in Nat, \A e \in xs : e.gp \in 0..b
  PROVE  LET m == V!Max({0} \cup {e.gp : e \in xs})
         IN m \in Nat /\ (m = 0 \/ \E e \in xs : e.gp = m) /\ \A e \in xs : e.gp <= m
<1> DEFINE ps == {0} \cup {e.gp : e \in xs}
<1>1. ps \in SUBSET Nat /\ ps # {} /\ \A n \in ps : n <= b
  OBVIOUS
<1>2. \A e \in xs : e.gp \in ps
  OBVIOUS
<1>3. \A n \in ps : n = 0 \/ \E e \in xs : e.gp = n
  OBVIOUS
<1> HIDE DEF ps
<1>4. V!Max(ps) \in ps /\ \A n \in ps : n <= V!Max(ps)
  BY <1>1, MaxIs
<1>5. V!Max(ps) \in Nat /\ (V!Max(ps) = 0 \/ \E e \in xs : e.gp = V!Max(ps)) /\ \A e \in xs : e.gp <= V!Max(ps)
  BY <1>1, <1>2, <1>3, <1>4
<1>. QED
  BY <1>5 DEF ps

\* A fact is of the latest span if no span has started after it.
LEMMA SpanIs ==
  ASSUME ViewInv
  PROVE  /\ V!SpanStart \in Nat /\ next \in Nat
         /\ \A f \in facts : f.gp \in Nat /\ f.gp >= 1 /\ f.gp <= next
         /\ \A f \in facts : f.gp >= V!SpanStart <=> \A g \in Starts(facts) : g.gp <= f.gp
         /\ \A f \in Starts(facts) : f \in facts /\ f.gp <= V!SpanStart
         /\ facts # {} => \E f \in Starts(facts) : f.gp = V!SpanStart
<1>1. next \in Nat /\ \A f \in facts : f.gp \in Nat /\ f.gp >= 1 /\ f.gp <= next
  BY DEF ViewInv, Streamed
<1>2. V!SpanStart = V!Max({0} \cup {e.gp : e \in Starts(facts)})
  BY DEF V!SpanStart, Starts
<1>3. \A f \in Starts(facts) : f \in facts /\ f.gp \in 0..next
  BY <1>1 DEF Starts
<1>4. /\ V!SpanStart \in Nat /\ \A f \in Starts(facts) : f.gp <= V!SpanStart
      /\ V!SpanStart = 0 \/ \E f \in Starts(facts) : f.gp = V!SpanStart
  BY <1>1, <1>2, <1>3, LastOneIs
<1>5. facts # {} => \E f \in Starts(facts) : f.gp = V!SpanStart
  BY <1>1, <1>3, <1>4 DEF ViewInv, FoldIsOf
<1>6. \A f \in facts : f.gp >= V!SpanStart <=> \A g \in Starts(facts) : g.gp <= f.gp
  BY <1>1, <1>3, <1>4, <1>5
<1>. QED
  BY <1>1, <1>3, <1>4, <1>5, <1>6

\* The attempts among the facts on show are those the fold has counted.
LEMMA OwnSpent ==
  ASSUME ViewInv, V!State.run = runRow, cell # <<>>, NEW p \in Phases
  PROVE  /\ runRow # 0 /\ V!State.fixes[p] = Cardinality(Spent(facts, p))
         /\ Spent(facts, p) = {e \in V!OwnTimeline : e.type = "FixAttempted" /\ e.phase = p
                                 /\ \A g \in Entries(V!OwnTimeline, p) : g.gp < e.gp}
<1>1. facts # {} /\ runRow # 0
  BY DEF ViewInv, FoldIsOf
<1>2. V!State.fixes[p] = Cardinality(Spent(facts, p))
  BY DEF ViewInv, FoldIsOf
<1>3. \A f \in facts : f.gp >= V!SpanStart => f.run \in {0, runRow}
  BY SpanIs DEF ViewInv, FoldIsOf
<1>4. \A f \in facts : f.type \in {"FixAttempted", "ReviewPhaseEntered"} =>
        f.run # 0 /\ (f \in V!OwnTimeline <=> f.gp >= V!SpanStart)
  BY <1>3, SpanIs DEF ViewInv, Streamed, V!OwnTimeline
<1>5. V!OwnTimeline \subseteq facts
  BY DEF V!OwnTimeline
<1>6. \A g \in Entries(facts, p) : g \in facts /\ g.type = "ReviewPhaseEntered" /\ g.phase = p
  BY DEF Entries
<1>7. ASSUME NEW e \in Spent(facts, p)
      PROVE  /\ e \in V!OwnTimeline /\ e.type = "FixAttempted" /\ e.phase = p
             /\ \A g \in Entries(V!OwnTimeline, p) : g.gp < e.gp
  <2>1. /\ e \in facts /\ e.type = "FixAttempted" /\ e.phase = p
        /\ \A g \in Starts(facts) : g.gp <= e.gp
        /\ \A g \in Entries(facts, p) : g.gp <= e.gp
    BY DEF Spent
  <2>2. e \in V!OwnTimeline
    BY <1>4, <2>1, SpanIs
  <2>3. ASSUME NEW g \in Entries(V!OwnTimeline, p) PROVE g.gp < e.gp
    <3>1. g \in Entries(facts, p)
      BY <1>5 DEF Entries
    <3>2. g \in facts /\ g # e /\ g.gp # e.gp
      BY <1>6, <2>1, <3>1 DEF ViewInv, Streamed
    <3>. QED  BY <2>1, <3>1, <3>2, SpanIs
  <2>. QED  BY <2>1, <2>2, <2>3
<1>8. ASSUME NEW e \in V!OwnTimeline, e.type = "FixAttempted", e.phase = p,
             \A g \in Entries(V!OwnTimeline, p) : g.gp < e.gp
      PROVE  e \in Spent(facts, p)
  <2>1. e \in facts /\ e.gp >= V!SpanStart
    BY <1>4, <1>5, <1>8
  <2>2. \A g \in Starts(facts) : g.gp <= e.gp
    BY <2>1, SpanIs
  <2>3. ASSUME NEW g \in Entries(facts, p) PROVE g.gp <= e.gp
    <3>1. CASE g.gp >= V!SpanStart
      <4>1. g \in Entries(V!OwnTimeline, p)
        BY <1>4, <1>6, <3>1 DEF Entries
      <4>2. g.gp < e.gp /\ g \in facts
        BY <1>6, <1>8, <4>1
      <4>. QED  BY <2>1, <4>2, SpanIs
    <3>2. CASE ~(g.gp >= V!SpanStart)
      BY <1>6, <2>1, <3>2, SpanIs
    <3>. QED  BY <3>1, <3>2
  <2>. QED  BY <1>8, <2>1, <2>2, <2>3 DEF Spent
<1>9. Spent(facts, p) = {e \in V!OwnTimeline : e.type = "FixAttempted" /\ e.phase = p
                                 /\ \A g \in Entries(V!OwnTimeline, p) : g.gp < e.gp}
  BY <1>7, <1>8
<1>. QED
  BY <1>1, <1>2, <1>9

LEMMA AttemptsAgree ==
  ASSUME ViewInv
  PROVE  V!CountsAgree
<1> DEFINE own == V!OwnTimeline
           entered(p) == V!Max({0} \cup {e.gp : e \in Entries(own, p)})
<1>0. \A e \in own : e \in facts /\ e.gp \in Nat /\ e.gp >= 1 /\ e.gp <= next
  BY SpanIs DEF V!OwnTimeline
<1>1. ASSUME V!State.run = runRow, cell # <<>>, NEW p \in Phases
      PROVE  V!FoldFixAttempts(own)[p] = V!GetFixAttempts(p)
  <2> HIDE DEF own
  <2>1. /\ entered(p) \in Nat /\ (entered(p) = 0 \/ \E e \in Entries(own, p) : e.gp = entered(p))
        /\ \A e \in Entries(own, p) : e.gp <= entered(p) /\ e.gp \in Nat
    <3>1. \A e \in Entries(own, p) : e.gp \in 0..next
      BY <1>0 DEF Entries
    <3>2. next \in Nat
      BY SpanIs
    <3>3. entered(p) \in Nat /\ (entered(p) = 0 \/ \E e \in Entries(own, p) : e.gp = entered(p))
      BY <3>1, <3>2, LastOneIs
    <3>4. \A e \in Entries(own, p) : e.gp <= entered(p)
      BY <3>1, <3>2, LastOneIs
    <3> HIDE DEF entered
    <3>. QED  BY <3>1, <3>2, <3>3, <3>4
  <2> HIDE DEF entered
  <2>2. {e \in own : e.gp > entered(p) /\ e.type = "FixAttempted" /\ e.phase = p}
          = {e \in own : e.type = "FixAttempted" /\ e.phase = p /\ \A g \in Entries(own, p) : g.gp < e.gp}
    <3>1. ASSUME NEW e \in own
          PROVE  e.gp > entered(p) <=> \A g \in Entries(own, p) : g.gp < e.gp
      BY <1>0, <2>1
    <3>. QED  BY <3>1
  <2>3. V!FoldFixAttempts(own)[p]
          = V!Cardinality({e \in own : e.gp > entered(p) /\ e.type = "FixAttempted" /\ e.phase = p})
    BY DEF V!FoldFixAttempts, entered, Entries
  <2>4. V!GetFixAttempts(p) = V!State.fixes[p]
    BY <1>1, OwnSpent DEF V!GetFixAttempts
  <2>5. V!State.fixes[p] = Cardinality({e \in own : e.type = "FixAttempted" /\ e.phase = p
                                          /\ \A g \in Entries(own, p) : g.gp < e.gp})
    BY <1>1, OwnSpent DEF own
  <2>. QED  BY <2>2, <2>3, <2>4, <2>5, CountsAlike
<1>2. ASSUME V!State.run = runRow, cell # <<>>, NEW p \in Phases,
             NEW ds, ds = {d \in V!Dividers(own) : d.phase = p}, ds # {}
      PROVE  V!GetFixAttempts(p) = (CHOOSE d \in ds : \A e \in ds : e.gp <= d.gp).attempts
  <2> HIDE DEF own
  <2>1. \A d \in own : d.type = "RunStarted" => d.phase # p
    BY <1>0, PhasesAssumption DEF ViewInv, Streamed, Starts
  <2>2. ASSUME NEW d \in ds
        PROVE \E x \in Entries(own, p) : d.gp = x.gp /\ d.attempts = V!Attempts(own, x)
    <3>1. PICK x \in own : /\ x.type \in {"RunStarted", "ReviewPhaseEntered"}
                           /\ d = [kind |-> "phase", gp |-> x.gp, phase |-> x.phase,
                                   attempts |-> V!Attempts(own, x)]
      BY <1>2 DEF V!Dividers
    <3>2. d.phase = x.phase /\ d.gp = x.gp /\ d.attempts = V!Attempts(own, x)
      BY <3>1
    <3>. QED  BY <1>2, <2>1, <3>1, <3>2 DEF Entries
  <2>3. ASSUME NEW x \in Entries(own, p)
        PROVE  \E d \in ds : d.gp = x.gp
    <3> DEFINE d == [kind |-> "phase", gp |-> x.gp, phase |-> x.phase, attempts |-> V!Attempts(own, x)]
    <3>1. d \in V!Dividers(own) /\ d.phase = p /\ d.gp = x.gp
      BY DEF V!Dividers, Entries
    <3> HIDE DEF d
    <3>. QED  BY <1>2, <3>1
  <2>4. \A x \in Entries(own, p) : x \in facts /\ x.gp \in 0..next /\ x.gp >= 1 /\ x \in own /\ x.phase = p
    BY <1>0 DEF Entries
  <2>5. PICK x \in Entries(own, p) : \A y \in Entries(own, p) : y.gp <= x.gp
    <3>1. next \in Nat
      BY SpanIs
    <3>2. /\ \A e \in Entries(own, p) : e.gp <= entered(p)
          /\ entered(p) = 0 \/ \E e \in Entries(own, p) : e.gp = entered(p)
      BY <2>4, <3>1, LastOneIs
    <3>3. Entries(own, p) # {}
      BY <1>2, <2>2
    <3> HIDE DEF entered
    <3>. QED  BY <2>4, <3>2, <3>3
  <2> DEFINE last == CHOOSE d \in ds : \A e \in ds : e.gp <= d.gp
  <2>6. last \in ds /\ \A e \in ds : e.gp <= last.gp
    <3>1. PICK d \in ds : d.gp = x.gp
      BY <2>3
    <3>2. \A e \in ds : e.gp <= d.gp
      BY <2>2, <2>5, <3>1
    <3>. QED  BY <3>1, <3>2
  <2>7. last.attempts = V!Attempts(own, x)
    <3> HIDE DEF last
    <3>1. PICK y \in Entries(own, p) : last.gp = y.gp /\ last.attempts = V!Attempts(own, y)
      BY <2>2, <2>6
    <3>2. x.gp <= y.gp /\ y.gp <= x.gp
      BY <2>3, <2>5, <2>6, <3>1
    <3>3. x = y
      BY <2>4, <3>2 DEF ViewInv, Streamed
    <3>. QED  BY <3>1, <3>3
  <2>8. {e \in own : /\ e.gp > x.gp /\ e.type = "FixAttempted" /\ e.phase = x.phase
                     /\ ~\E f \in own : /\ f.type = "ReviewPhaseEntered" /\ f.phase = x.phase
                                        /\ x.gp < f.gp /\ f.gp < e.gp}
          = {e \in own : e.type = "FixAttempted" /\ e.phase = p /\ \A g \in Entries(own, p) : g.gp < e.gp}
    <3>1. \A f \in own : f.type = "ReviewPhaseEntered" /\ f.phase = x.phase => f \in Entries(own, p)
      BY <2>4 DEF Entries
    <3>2. ASSUME NEW e \in own
          PROVE  /\ e.gp > x.gp <=> \A g \in Entries(own, p) : g.gp < e.gp
                 /\ ~\E f \in own : /\ f.type = "ReviewPhaseEntered" /\ f.phase = x.phase
                                    /\ x.gp < f.gp /\ f.gp < e.gp
      BY <1>0, <2>4, <2>5, <3>1
    <3>. QED  BY <2>4, <3>2
  <2>9. V!Attempts(own, x) = V!State.fixes[p]
    <3>1. V!State.fixes[p] = Cardinality({e \in own : e.type = "FixAttempted" /\ e.phase = p
                                            /\ \A g \in Entries(own, p) : g.gp < e.gp})
      BY <1>2, OwnSpent DEF own
    <3>. QED  BY <2>8, <3>1, CountsAlike DEF V!Attempts
  <2>10. V!GetFixAttempts(p) = V!State.fixes[p]
    BY <1>2, OwnSpent DEF V!GetFixAttempts
  <2>. QED  BY <2>7, <2>9, <2>10
<1> HIDE DEF own
<1>3. ASSUME V!State.run = runRow, cell # <<>>, NEW p \in Phases
      PROVE  LET ds == {d \in V!Dividers(own) : d.phase = p}
             IN ds # {} => V!GetFixAttempts(p) = (CHOOSE d \in ds : \A e \in ds : e.gp <= d.gp).attempts
  BY <1>2, <1>3
<1>. QED
  BY <1>1, <1>3 DEF V!CountsAgree, own

\* A result is shown with its call: the last one there is.
LEMMA ResultIs ==
  ASSUME ViewInv, NEW e \in V!OwnTranscript, e.kind = "message", e.block.kind = "result"
  PROVE  V!ResultOf(e.block.id) >= e.gp
<1> DEFINE id == e.block.id
           same == {x \in V!OwnTranscript : x.kind = "message" /\ x.block = [kind |-> "result", id |-> id]}
<1>1. next \in Nat /\ \A x \in V!OwnTranscript : x.gp \in 0..next
  BY DEF ViewInv, Streamed, Transcribed, V!OwnTranscript
<1>2. e \in same
  BY DEF ViewInv, Transcribed, V!OwnTranscript
<1>3. V!ResultOf(id) = V!Max({0} \cup {x.gp : x \in same})
  BY DEF V!ResultOf
<1>4. \A x \in same : x.gp \in 0..next
  BY <1>1
<1> HIDE DEF same, id
<1>5. V!ResultOf(id) \in Nat /\ e.gp <= V!ResultOf(id)
  BY <1>1, <1>2, <1>3, <1>4, LastOneIs
<1>. QED
  BY <1>1, <1>5 DEF id

LEMMA PruneTold ==
  ASSUME ViewInv
  PROVE  V!PruneIsTold
<1>0. V!SpanStart \in Nat /\ next \in Nat /\ \A e \in talk : e.gp \in Nat
  BY SpanIs DEF ViewInv, Transcribed
<1>1. ASSUME NEW e \in gone, e.run = runRow, e.gp >= V!SpanStart
      PROVE  V!ShownPruned
  <2>1. PICK m \in talk : m.kind = "pruned" /\ m.run = e.run /\ e.gp < m.gp
    BY DEF ViewInv, Transcribed
  <2>2. e.gp \in Nat /\ m.gp >= V!SpanStart
    BY <1>0, <1>1, <2>1 DEF ViewInv, Transcribed
  <2>. QED  BY <1>1, <2>1, <2>2 DEF V!ShownPruned, V!OwnTranscript
<1>2. ASSUME NEW e \in V!OfRun("message"), e.gp > V!SpanStart
      PROVE  \/ \E i \in V!Items : i.gp = e.gp
             \/ e.block.kind = "result" /\ V!ResultOf(e.block.id) >= e.gp
  <2>1. e \in V!OwnTranscript /\ e.kind = "message"
    BY <1>0, <1>2 DEF V!OfRun, V!OwnTranscript
  <2>2. CASE e.block.kind = "result"
    BY <2>1, <2>2, ResultIs
  <2>3. CASE e.block.kind # "result"
    <3> DEFINE i == [kind |-> "message", gp |-> e.gp, block |-> e.block]
    <3>1. i \in V!Items /\ i.gp = e.gp
      BY <2>1, <2>3 DEF V!Items, V!Shown
    <3>. QED  BY <3>1
  <2>. QED  BY <2>2, <2>3
<1>. QED
  BY <1>1, <1>2 DEF V!PruneIsTold

\* The places of the items, and the one a node leads to.
LEMMA PlacesAre ==
  ASSUME ViewInv
  PROVE  LET places == {i.gp : i \in V!Items}
         IN places \in SUBSET Nat /\ next \in Nat /\ \A g \in places : g <= next
<1>1. next \in Nat /\ (\A e \in facts : e.gp \in 0..next) /\ \A e \in talk : e.gp \in 0..next
  BY DEF ViewInv, Streamed, Transcribed
<1>2. ASSUME NEW i \in V!Items PROVE i.gp \in 0..next
  <2>1. CASE i \in V!Dividers(V!OwnTimeline)
    <3>1. PICK d \in V!OwnTimeline : i = [kind |-> "phase", gp |-> d.gp, phase |-> d.phase,
                                          attempts |-> V!Attempts(V!OwnTimeline, d)]
      BY <2>1 DEF V!Dividers
    <3>2. i.gp = d.gp /\ d \in facts
      BY <3>1 DEF V!OwnTimeline
    <3>. QED  BY <1>1, <3>2
  <2>2. CASE i \in {[kind |-> "message", gp |-> e.gp, block |-> e.block] : e \in {x \in V!OwnTranscript : V!Shown(x)}}
    BY <1>1, <2>2 DEF V!OwnTranscript
  <2>. QED  BY <2>1, <2>2 DEF V!Items
<1>. QED
  BY <1>1, <1>2

LEMMA TargetIs ==
  ASSUME ViewInv, NEW n \in Nat
  PROVE  LET places == {i.gp : i \in V!Items}
             after == {g \in places : g >= n}
             t == V!Target(n)
         IN /\ t \in Nat /\ \A g \in after : t <= g
            /\ after # {} => t \in after
            /\ after = {} => \A g \in places : g <= t
            /\ after = {} => t = 0 \/ t \in places
<1> DEFINE places == {i.gp : i \in V!Items}
           after == {g \in places : g >= n}
<1>1. places \in SUBSET Nat /\ next \in Nat /\ \A g \in places : g <= next
  BY PlacesAre
<1>2. V!Target(n) = IF after # {} THEN V!Min(after) ELSE V!Max({0} \cup places)
  BY DEF V!Target
<1> HIDE DEF places
<1>3. CASE after # {}
  <2>1. after \in SUBSET Nat
    BY <1>1
  <2> HIDE DEF after
  <2>2. V!Min(after) \in after /\ \A g \in after : V!Min(after) <= g
    BY <1>3, <2>1, MinIs
  <2>. QED  BY <1>2, <1>3, <2>1, <2>2 DEF places, after
<1>4. CASE after = {}
  <2> DEFINE all == {0} \cup places
  <2>1. all \in SUBSET Nat /\ all # {} /\ \A g \in all : g <= next
    BY <1>1
  <2>2. \A g \in places : g \in all
    OBVIOUS
  <2>3. \A g \in all : g = 0 \/ g \in places
    OBVIOUS
  <2>4. V!Target(n) = V!Max(all)
    BY <1>2, <1>4
  <2> HIDE DEF all
  <2>5. V!Max(all) \in all /\ \A g \in all : g <= V!Max(all)
    BY <1>1, <2>1, MaxIs
  <2>. QED  BY <1>4, <2>1, <2>2, <2>3, <2>4, <2>5 DEF places, after
<1>. QED
  BY <1>3, <1>4

LEMMA NodesAre ==
  ASSUME ViewInv
  PROVE  V!NodesLand
<1> DEFINE places == {i.gp : i \in V!Items}
<1>0. \A e \in V!OwnTimeline : e.gp \in Nat
  BY SpanIs DEF V!OwnTimeline
<1>00. places \in SUBSET Nat
  BY PlacesAre
<1>1. ASSUME NEW d \in V!OwnTimeline, d.type \in {"RunStarted", "ReviewPhaseEntered"}
      PROVE  V!Target(d.gp) = d.gp
  <2> DEFINE i == [kind |-> "phase", gp |-> d.gp, phase |-> d.phase, attempts |-> V!Attempts(V!OwnTimeline, d)]
             after == {g \in places : g >= d.gp}
  <2>1. i \in V!Items /\ i.gp = d.gp
    BY <1>1 DEF V!Items, V!Dividers
  <2>2. d.gp \in after
    <3> HIDE DEF i
    <3>. QED  BY <1>0, <2>1
  <2>3. V!Target(d.gp) \in after /\ V!Target(d.gp) \in Nat /\ \A g \in after : V!Target(d.gp) <= g
    BY <1>0, <2>2, TargetIs
  <2>4. V!Target(d.gp) >= d.gp
    BY <2>3
  <2> HIDE DEF after
  <2>. QED  BY <1>0, <2>2, <2>3, <2>4
<1>2. ASSUME NEW d \in V!OwnTimeline, NEW e \in V!OwnTimeline, d.gp < e.gp
      PROVE  V!Target(d.gp) <= V!Target(e.gp)
  <2> DEFINE a == {g \in places : g >= d.gp}
             b == {g \in places : g >= e.gp}
             t == V!Target(d.gp)
             u == V!Target(e.gp)
  <2>1. /\ t \in Nat /\ \A g \in a : t <= g
        /\ a # {} => t \in a
        /\ a = {} => t = 0 \/ t \in places
    BY <1>0, TargetIs
  <2>2. /\ u \in Nat /\ (b # {} => u \in b)
        /\ b = {} => \A g \in places : g <= u
    BY <1>0, TargetIs
  <2>3. b \subseteq a /\ a \subseteq places
    BY <1>0, <1>00, <1>2
  <2> HIDE DEF a, b, t, u, places
  <2>4. t <= u
    <3>1. CASE b # {}
      BY <2>1, <2>2, <2>3, <3>1
    <3>2. CASE b = {}
      BY <2>1, <2>2, <2>3, <3>2
    <3>. QED  BY <3>1, <3>2
  <2>. QED  BY <2>4 DEF t, u
<1>. QED
  BY <1>1, <1>2 DEF V!NodesLand

(* The operator is shown of a run what the store counts of it, is told of  *)
(* what was pruned, and is led from each fact to its place: web/runs.ts    *)
(* and web/contract/run-view.ts, over claims that reuse a row's id.        *)
THEOREM ViewsAreTrue == Spec => []ViewIsTrue
<1>1. Init => ViewInv
  BY ViewStarts DEF Init
<1>2. ViewInv /\ [Next]_vars => ViewInv'
  <2>1. [Next]_vars => [V!ViewNext]_V!viewVars
    BY DEF Next, vars, viewVars, V!viewVars, GateMoves, SessionMoves, SyncMoves, TreesMoves, ViewMoves,
           LedgerMoves, ClientMoves, OnlyGate, OnlySession, OnlySync, OnlyTrees, OnlyLedger, OnlyClient
  <2>. QED  BY <2>1, ViewStep
<1>3. ViewInv => ViewIsTrue
  BY AttemptsAgree, PruneTold, NodesAre DEF ViewIsTrue
<1>. QED
  BY <1>1, <1>2, <1>3, PTL DEF Spec

=============================================================================
