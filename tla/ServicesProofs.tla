---------------------------- MODULE ServicesProofs ----------------------------
(* What the parts beside the runs keep - the sink, the sweeps, the plan of *)
(* a tick, routing with its usage meter - for every backlog, every set of  *)
(* targets, every batch size, any logins, providers and edits.             *)
EXTENDS Services, Routing, FiniteSetTheorems, SequenceTheorems, WellFoundedInduction, TLAPS

-----------------------------------------------------------------------------
(* The notification sink.                                                  *)

FactTypes == {"escalate", "heal-card", "ReviewMaxed", "QuestionAnswered", "RunStuck",
              "AnomalyDetected", "MasterTriageRequested", "MasterStuck"}
Facts == [type : FactTypes, issue : Paged, comment : Nat]
Standings == [at : {"works", "triage", "asked", "stuck"}, comment : Nat]

\* What the log and the tail are.
SinkType ==
  /\ log \in Seq(Facts)
  /\ standing \in [Paged -> Standings]
  /\ cursor \in Nat /\ quiet \in Nat /\ key \in {"none", "this", "older"}

\* A batch that was delivered lies in the log.
BatchOK == \A n \in 1..Len(delivered) :
             LET d == delivered[n] IN d.from \in Nat \ {0} /\ d.to \in Nat /\ d.to <= Len(log)

\* The page of a stall stands as long as the stall does.
StallOK == stalls \in {0, 1} /\ (stalls = 1 => key = "this" /\ quiet > StallAfter)

SinkInv == SinkType /\ BatchOK /\ N!OpenIsPaged /\ StallOK

(* Appending keeps every fact where it was.                                *)
LEMMA AppendingKeeps ==
  ASSUME NEW S, NEW old \in Seq(S), NEW more \in Seq(S)
  PROVE  /\ old \o more \in Seq(S) /\ Len(old \o more) = Len(old) + Len(more)
         /\ \A k \in 1..Len(old) : (old \o more)[k] = old[k]
  OBVIOUS

(* A question nobody answered stays paged when facts are appended.         *)
LEMMA AppendedStaysPaged ==
  ASSUME SinkInv, NEW more \in Seq(Facts), log' = log \o more, UNCHANGED delivered
  PROVE  log' \in Seq(Facts) /\ BatchOK' /\ N!OpenIsPaged'
  <1>1. /\ log' \in Seq(Facts) /\ Len(log') >= Len(log) /\ Len(log) \in Nat /\ Len(log') \in Nat
        /\ \A k \in 1..Len(log) : log'[k] = log[k]
    BY AppendingKeeps DEF SinkInv, SinkType
  <1>2. BatchOK'
    BY <1>1 DEF SinkInv, BatchOK
  <1>3. ASSUME NEW n \in 1..Len(delivered), NEW k \in delivered[n].from..delivered[n].to,
               N!Question(log'[k]), ~(N!Closed(k)')
        PROVE  \/ [issue |-> log'[k].issue, kind |-> N!KindOf(log'[k])] \in delivered[n].pages
               \/ \E j \in delivered[n].from..delivered[n].to :
                    /\ log'[j].issue = log'[k].issue
                    /\ log'[j].type \in {"MasterTriageRequested", "AnomalyDetected"}
    <2>1. /\ delivered[n].from \in Nat \ {0} /\ delivered[n].to \in Nat
          /\ delivered[n].to <= Len(log)
      BY DEF SinkInv, BatchOK
    <2>2. \A j \in delivered[n].from..delivered[n].to : j \in 1..Len(log) /\ log'[j] = log[j]
      BY <1>1, <2>1
    <2>3. k \in 1..Len(log) /\ log'[k] = log[k]
      BY <2>2
    <2>4. ~N!Closed(k)
      BY <1>1, <1>3, <2>3 DEF N!Closed
    <2>5. \/ [issue |-> log[k].issue, kind |-> N!KindOf(log[k])] \in delivered[n].pages
          \/ \E j \in delivered[n].from..delivered[n].to :
               /\ log[j].issue = log[k].issue
               /\ log[j].type \in {"MasterTriageRequested", "AnomalyDetected"}
      BY <1>3, <2>3, <2>4 DEF SinkInv, N!OpenIsPaged, N!Has
    <2> QED BY <2>2, <2>3, <2>5
  <1>4. N!OpenIsPaged'
    <2>1. delivered' = delivered
      OBVIOUS
    <2>2. ASSUME NEW n \in 1..Len(delivered'), NEW k \in delivered'[n].from..delivered'[n].to,
                 N!Question(log'[k]) /\ ~(N!Closed(k)')
          PROVE  \/ [issue |-> log'[k].issue, kind |-> N!KindOf(log'[k])] \in delivered'[n].pages
                 \/ \E j \in delivered'[n].from..delivered'[n].to :
                      /\ log'[j].issue = log'[k].issue
                      /\ log'[j].type \in {"MasterTriageRequested", "AnomalyDetected"}
      BY <1>3, <2>1, <2>2
    <2> QED BY <2>2 DEF N!OpenIsPaged, N!Has, N!Closed
  <1> QED BY <1>1, <1>2, <1>4

(* Every fact a step commits is appended, with its issue's new standing.   *)
LEMMA CommitIsAppend ==
  ASSUME SinkInv, NEW i \in Paged, N!Commits(i)
  PROVE  \E more \in Seq(Facts) : /\ log' = log \o more
                                  /\ standing' \in [Paged -> Standings]
  <1> USE DEF Standings
  <1>0. /\ log \in Seq(Facts) /\ Len(log) \in Nat /\ standing[i].comment \in Nat
        /\ standing \in [Paged -> Standings] /\ log = log \o <<>>
    BY DEF SinkInv, SinkType
  <1>s. {"escalate", "heal-card", "ReviewMaxed", "RunStuck", "AnomalyDetected"} \subseteq FactTypes
    BY DEF FactTypes
  <1>1. \A type \in FactTypes : \A c \in Nat : N!Fact(type, i, c) \in Facts
    BY DEF N!Fact, Facts
  <1>0a. {N!Fact("QuestionAnswered", i, standing[i].comment), N!Fact("MasterStuck", i, 0),
          N!Fact("MasterTriageRequested", i, 0), N!Fact("escalate", i, Len(log) + 1)} \subseteq Facts
    BY <1>0 DEF N!Fact, Facts, FactTypes
  <1>2. \A f \in Facts : <<f>> \in Seq(Facts) /\ (\A g \in Facts : <<f, g>> \in Seq(Facts))
    OBVIOUS
  <1>3. \A r \in Standings :
          [standing EXCEPT ![i] = r] \in [Paged -> Standings]
    BY <1>0
  <1>4. \A a \in {"works", "triage", "asked", "stuck"} :
          [standing EXCEPT ![i].at = a] \in [Paged -> Standings]
    BY <1>0
  <1>5. \A c \in Nat :
          [standing EXCEPT ![i].comment = c] \in [Paged -> Standings]
    BY <1>0
  <1>6. CASE \E type \in {"escalate", "heal-card", "ReviewMaxed"} : \E c \in {0, Len(log) + 1} :
               /\ N!CommitAll(<<N!Fact(type, i, c)>>)
               /\ standing' = [standing EXCEPT ![i] = [at |-> "asked", comment |-> c]]
    <2>1. PICK type \in {"escalate", "heal-card", "ReviewMaxed"}, c \in {0, Len(log) + 1} :
            /\ N!CommitAll(<<N!Fact(type, i, c)>>)
            /\ standing' = [standing EXCEPT ![i] = [at |-> "asked", comment |-> c]]
      BY <1>6
    <2>2. type \in FactTypes /\ c \in Nat /\ [at |-> "asked", comment |-> c] \in Standings
      BY <1>0, <1>s, <2>1
    <2> QED BY <1>1, <1>2, <1>3, <2>1, <2>2 DEF N!CommitAll
  <1>7. CASE /\ N!CommitAll(<<N!Fact("escalate", i, Len(log) + 1)>>)
             /\ standing' = [standing EXCEPT ![i].comment = Len(log) + 1]
    <2>1. Len(log) + 1 \in Nat /\ <<N!Fact("escalate", i, Len(log) + 1)>> \in Seq(Facts)
      BY <1>0, <1>0a, <1>2
    <2> QED BY <1>5, <1>7, <2>1 DEF N!CommitAll
  <1>8. CASE /\ N!CommitAll(<<N!Fact("QuestionAnswered", i, standing[i].comment)>>)
             /\ standing' = [standing EXCEPT ![i].at = "works"]
    BY <1>0a, <1>2, <1>4, <1>8 DEF N!CommitAll
  <1>9. CASE /\ \E type \in {"RunStuck", "ReviewMaxed", "AnomalyDetected"} :
                  N!CommitAll(<<N!Fact(type, i, 0), N!Fact("MasterTriageRequested", i, 0)>>)
             /\ standing' = [standing EXCEPT ![i].at = "triage"]
    <2>1. PICK type \in {"RunStuck", "ReviewMaxed", "AnomalyDetected"} :
            log' = log \o <<N!Fact(type, i, 0), N!Fact("MasterTriageRequested", i, 0)>>
      BY <1>9 DEF N!CommitAll
    <2>2. N!Fact(type, i, 0) \in Facts /\ N!Fact("MasterTriageRequested", i, 0) \in Facts
      BY <1>s, <1>1, <1>0a
    <2> QED BY <1>2, <1>4, <1>9, <2>1, <2>2
  <1>10. CASE /\ N!CommitAll(<<N!Fact("MasterStuck", i, 0)>>)
              /\ standing' = [standing EXCEPT ![i].at = "stuck"]
    BY <1>0a, <1>2, <1>4, <1>10 DEF N!CommitAll
  <1>11. CASE UNCHANGED log /\ standing' = [standing EXCEPT ![i].at = "works"]
    <2>1. <<>> \in Seq(Facts)
      OBVIOUS
    <2> QED BY <1>0, <1>4, <1>11, <2>1
  <1> QED BY <1>6, <1>7, <1>8, <1>9, <1>10, <1>11 DEF N!Commits

(* A batch is paged for every open question in it.                         *)
LEMMA DeliverKeepsSink ==
  ASSUME SinkInv, N!Deliver
  PROVE  SinkInv'
  <1> DEFINE d == [from |-> cursor + 1, to |-> N!Last, pages |-> N!Decided(cursor + 1, N!Last)]
  <1>1. /\ cursor < Len(log) /\ delivered' = <<d>> /\ cursor' = N!Last
        /\ UNCHANGED <<log, standing, tailing, quiet, key, stalls, draining>>
    BY DEF N!Deliver, N!factVars, N!stallVars
  <1>2. /\ log \in Seq(Facts) /\ cursor \in Nat /\ Len(log) \in Nat
        /\ N!Last \in Nat /\ N!Last <= Len(log)
    BY TailAssumption DEF SinkInv, SinkType, N!Last
  <1>3. d.from = cursor + 1 /\ d.to = N!Last /\ d.pages = N!Decided(d.from, d.to)
    OBVIOUS
  <1> HIDE DEF d
  <1>4. Len(delivered') = 1 /\ delivered'[1] = d
    BY <1>1
  <1>5. BatchOK'
    BY <1>1, <1>2, <1>3, <1>4 DEF BatchOK
  <1>6. ASSUME NEW k \in d.from..d.to, N!Question(log[k]), ~N!Closed(k)
        PROVE  \/ [issue |-> log[k].issue, kind |-> N!KindOf(log[k])] \in d.pages
               \/ N!Has(d.from, d.to, log[k].issue, {"MasterTriageRequested", "AnomalyDetected"})
    <2>1. k \in 1..Len(log) /\ d.to <= Len(log) /\ d.to \in Nat /\ k \in Nat
      BY <1>2, <1>3
    <2>2. log[k].type \in {"escalate", "heal-card"}
      BY <1>6 DEF N!Question
    <2>3. N!KindOf(log[k]) # "none"
      BY <2>2 DEF N!KindOf
    <2>4. ~N!AnsweredIn(k, d.to)
      <3>1. \A j \in (k + 1)..d.to : j \in (k + 1)..Len(log)
        BY <1>2, <2>1
      <3> QED BY <1>6, <2>2, <3>1 DEF N!Closed, N!AnsweredIn
    <2>5. CASE N!Has(d.from, d.to, log[k].issue, {"MasterTriageRequested", "AnomalyDetected"})
      BY <2>5
    <2>6. CASE ~N!Has(d.from, d.to, log[k].issue, {"MasterTriageRequested", "AnomalyDetected"})
      <3>1. /\ ~N!Has(d.from, d.to, log[k].issue, {"MasterTriageRequested"})
            /\ ~N!Has(d.from, d.to, log[k].issue, {"AnomalyDetected"})
        BY <2>6 DEF N!Has
      <3>2. N!Planned(k, d.from, d.to)
        BY <2>3, <2>4, <3>1 DEF N!Planned
      <3>3. [issue |-> log[k].issue, kind |-> N!KindOf(log[k])] \in N!Decided(d.from, d.to)
        BY <3>2 DEF N!Decided
      <3> QED BY <1>3, <3>3
    <2> QED BY <2>5, <2>6
  <1>7. N!OpenIsPaged'
    BY <1>1, <1>4, <1>6 DEF N!OpenIsPaged, N!Closed, N!Has
  <1> QED BY <1>1, <1>2, <1>5, <1>7 DEF SinkInv, SinkType, StallOK

(* The facts and the batches are left alone by what follows.               *)
LEMMA SameSink ==
  ASSUME SinkInv, UNCHANGED <<log, standing, delivered>>
  PROVE  BatchOK' /\ N!OpenIsPaged'
  BY DEF SinkInv, BatchOK, N!OpenIsPaged, N!Closed, N!Has

(* The probe: a stall is paged once.                                       *)
LEMMA StallKeepsSink ==
  ASSUME SinkInv, N!StallStep \/ N!SinkStep
  PROVE  SinkInv'
  <1>0. /\ log \in Seq(Facts) /\ Len(log) \in Nat /\ cursor \in Nat /\ quiet \in Nat
        /\ StallOK /\ key \in {"none", "this", "older"}
        /\ standing \in [Paged -> Standings]
    BY DEF SinkInv, SinkType
  <1>1. CASE N!Tick
    BY <1>0, <1>1, SameSink DEF SinkInv, SinkType, StallOK, N!Tick, N!factVars, N!tailVars
  <1>2. CASE N!Waits
    BY <1>0, <1>2, SameSink, TailAssumption
       DEF SinkInv, SinkType, StallOK, N!Waits, N!factVars, N!tailVars
  <1>3. CASE N!Drain
    BY <1>0, <1>3, SameSink DEF SinkInv, SinkType, StallOK, N!Drain, N!factVars, N!tailVars
  <1>4. CASE N!PollOnce
    BY <1>0, <1>4, SameSink, TailAssumption
       DEF SinkInv, SinkType, StallOK, N!PollOnce, N!Stalled, N!Told, N!factVars, N!tailVars
  <1>5. CASE N!StartSink
    BY <1>0, <1>5, SameSink DEF SinkInv, SinkType, StallOK, N!StartSink, N!factVars
  <1>6. CASE N!StopSink
    BY <1>0, <1>6, SameSink
       DEF SinkInv, SinkType, StallOK, N!StopSink, N!factVars, N!tailVars, N!stallVars
  <1> QED BY <1>1, <1>2, <1>3, <1>4, <1>5, <1>6 DEF N!StallStep, N!SinkStep

LEMMA SinkInvIsKept ==
  ASSUME SinkInv, [Next]_vars
  PROVE  SinkInv'
  <1>1. CASE UNCHANGED notifyVars
    BY <1>1, SameSink DEF SinkInv, SinkType, StallOK, notifyVars
  <1>2. CASE N!Deliver
    BY <1>2, DeliverKeepsSink
  <1>3. CASE \E i \in Paged : N!Commits(i) /\ UNCHANGED <<N!tailVars, tailing, N!stallVars>>
    <2>1. PICK i \in Paged : N!Commits(i) /\ UNCHANGED <<N!tailVars, tailing, N!stallVars>>
      BY <1>3
    <2>2. UNCHANGED <<cursor, delivered, quiet, key, stalls>>
      BY <2>1 DEF N!tailVars, N!stallVars
    <2>3. PICK more \in Seq(Facts) : /\ log' = log \o more
                                     /\ standing' \in [Paged -> Standings]
      BY <2>1, CommitIsAppend
    <2> QED BY <2>2, <2>3, AppendedStaysPaged DEF SinkInv, SinkType, StallOK
  <1>4. CASE N!StallStep \/ N!SinkStep
    BY <1>4, StallKeepsSink
  <1> QED BY <1>1, <1>2, <1>3, <1>4
       DEF Next, vars, AdmissionMoves, FleetMoves, NotifyMoves, OnlyAdmission, OnlyFleet, N!FactStep

(* Whoever waits for a person was paged for it, whatever the batches and   *)
(* the restarts of the sink; a stall is paged once.                        *)
THEOREM OpenQuestionsArePaged == Spec => []PagesAreTrue
  <1>1. Init => SinkInv
    <2> SUFFICES ASSUME Init PROVE SinkInv
      OBVIOUS
    <2>1. /\ log = <<>> /\ standing = [i \in Paged |-> [at |-> "works", comment |-> 0]]
          /\ cursor = 0 /\ delivered = <<>> /\ quiet = 0 /\ key = "none" /\ stalls = 0
      BY DEF Init, N!NotifyInit
    <2>2. SinkType
      BY <2>1 DEF SinkType, Standings
    <2> QED BY <2>1, <2>2 DEF SinkInv, BatchOK, StallOK, N!OpenIsPaged
  <1>2. SinkInv /\ [Next]_vars => SinkInv'
    BY SinkInvIsKept
  <1>3. SinkInv => PagesAreTrue
    BY DEF SinkInv, StallOK, PagesAreTrue, N!StallOnce
  <1> QED BY <1>1, <1>2, <1>3, PTL DEF Spec


-----------------------------------------------------------------------------
(* The least of some numbers.                                              *)
Below == {p \in Nat \X Nat : p[1] < p[2]}

LEMMA LeastOf ==
  ASSUME NEW S \in SUBSET Nat, S # {}
  PROVE  \E m \in S : \A n \in S : m <= n
  <1>1. IsWellFoundedOn(Below, Nat)
    BY NatLessThanWellFounded, IsWellFoundedOnSubrelation DEF OpToRel, Below
  <1>2. PICK m \in S : \A n \in S : <<n, m>> \notin Below
    BY <1>1, WFMin
  <1>3. ASSUME NEW n \in S PROVE m <= n
    <2>1. <<n, m>> \in Nat \X Nat
      OBVIOUS
    <2>2. ~(n < m)
      BY <1>2, <2>1 DEF Below
    <2> QED BY <2>2
  <1> QED BY <1>3

-----------------------------------------------------------------------------
(* The containers and their sweep.                                         *)

Row(r) == row[r[1]][r[2]]
RowTables == [Targets -> [Branches -> {"none", "running", "parked", "done"}]]
Sweeps == [of : Targets \cup {""}, at : {"off", "rows", "ps", "stop"}, todo : SUBSET F!Runs,
           live : SUBSET Branches, prey : SUBSET Nat]

\* What the rows, the sessions, the containers and the sweep are.
FleetType ==
  /\ sent \in Nat /\ row \in RowTables /\ sweep \in Sweeps
  /\ DOMAIN session \subseteq F!Runs /\ \A r \in DOMAIN session : session[r] \in 0..sent
  /\ \A c \in fleet : c.id \in 1..sent

\* Whoever has a session has a running row, and drives no container but its own.
SessionsOK ==
  /\ \A r \in DOMAIN session : Row(r) = "running"
  /\ \A r \in DOMAIN session : \A c \in fleet : session[r] = c.id => r = <<c.repo, c.branch>>

\* The sweep aims at no session it could have read.
AimOK ==
  /\ sweep.prey \subseteq 1..sent
  /\ sweep.at # "stop" => sweep.prey = {}
  /\ sweep.at = "ps" =>
       \A r \in DOMAIN session : r[1] = sweep.of => r \in younger \/ r[2] \in sweep.live
  /\ \A r \in DOMAIN session : session[r] \in sweep.prey => r \in younger

FleetInv == FleetType /\ SessionsOK /\ AimOK

(* Writing a row leaves the others as they are.                            *)
LEMMA RowIsSet ==
  ASSUME row \in RowTables, NEW r \in F!Runs,
         NEW s \in {"none", "running", "parked", "done"}, F!SetRow(r, s)
  PROVE  /\ row' \in RowTables /\ Row(r)' = s
         /\ \A x \in F!Runs \ {r} : Row(x)' = Row(x)
  <1>1. r[1] \in Targets /\ r[2] \in Branches /\ r = <<r[1], r[2]>>
    BY DEF F!Runs
  <1>2. \A x \in F!Runs : x[1] \in Targets /\ x[2] \in Branches /\ x = <<x[1], x[2]>>
    BY DEF F!Runs
  <1>3. row' = [row EXCEPT ![r[1]][r[2]] = s]
    BY DEF F!SetRow
  <1>4. row' = [row EXCEPT ![r[1]] = [row[r[1]] EXCEPT ![r[2]] = s]]
    BY <1>3
  <1>5. row[r[1]] \in [Branches -> {"none", "running", "parked", "done"}]
    BY <1>1 DEF RowTables
  <1>6. [row[r[1]] EXCEPT ![r[2]] = s] \in [Branches -> {"none", "running", "parked", "done"}]
    BY <1>1, <1>5
  <1>7. row' \in RowTables
    BY <1>1, <1>4, <1>6 DEF RowTables
  <1>8. Row(r)' = s
    BY <1>1, <1>4, <1>5 DEF Row, RowTables
  <1>9. ASSUME NEW x \in F!Runs \ {r} PROVE Row(x)' = Row(x)
    <2>1. x[1] # r[1] \/ x[2] # r[2]
      BY <1>1, <1>2
    <2>2. CASE x[1] # r[1]
      BY <1>1, <1>2, <1>4, <2>2 DEF Row, RowTables
    <2>3. CASE x[1] = r[1] /\ x[2] # r[2]
      BY <1>1, <1>2, <1>4, <1>5, <2>3 DEF Row, RowTables
    <2> QED BY <2>1, <2>2, <2>3
  <1> QED BY <1>7, <1>8, <1>9

(* Sessions end or lose their container, containers go: nothing new rides. *)
LEMMA FewerRide ==
  ASSUME FleetInv, sent' = sent, row' \in RowTables, sweep' \in Sweeps,
         DOMAIN session' \subseteq DOMAIN session,
         \A r \in DOMAIN session' : session'[r] \in {0, session[r]} /\ Row(r)' = "running",
         \A c \in fleet' : \E d \in fleet : c.id = d.id /\ c.repo = d.repo /\ c.branch = d.branch
  PROVE  FleetType' /\ SessionsOK'
  <1>1. FleetType'
    BY DEF FleetInv, FleetType
  <1>2. ASSUME NEW r \in DOMAIN session', NEW c \in fleet', session'[r] = c.id
        PROVE  r = <<c.repo, c.branch>>
    <2>1. PICK d \in fleet : c.id = d.id /\ c.repo = d.repo /\ c.branch = d.branch
      OBVIOUS
    <2>2. r \in DOMAIN session /\ d.id # 0 /\ session'[r] = session[r]
      BY <1>2, <2>1 DEF FleetInv, FleetType
    <2> QED BY <1>2, <2>1, <2>2 DEF FleetInv, SessionsOK
  <1> QED BY <1>1, <1>2 DEF SessionsOK

(* As long as the sweep goes on as it was, its aim is good.                *)
LEMMA AimStands ==
  ASSUME FleetInv, UNCHANGED <<sent, sweep, younger>>,
         DOMAIN session' \subseteq DOMAIN session,
         \A r \in DOMAIN session' : session'[r] \in {0, session[r]}
  PROVE  AimOK'
  <1>1. ASSUME NEW r \in DOMAIN session', session'[r] \in sweep.prey PROVE r \in younger
    <2>1. session'[r] # 0
      BY <1>1 DEF FleetInv, AimOK
    <2> QED BY <1>1, <2>1 DEF FleetInv, AimOK
  <1> QED BY <1>1 DEF FleetInv, AimOK

(* A sweep that is over, or has not looked yet, aims at nothing.           *)
LEMMA NoAim ==
  ASSUME sweep'.prey = {}, sweep'.at # "ps"
  PROVE  AimOK'
  BY DEF AimOK

LEMMA ClaimKeepsFleet ==
  ASSUME FleetInv, F!Claim
  PROVE  FleetInv'
  <1>1. PICK r \in F!Runs \ DOMAIN session :
          /\ F!SetRow(r, "running")
          /\ session' = [x \in DOMAIN session \cup {r} |-> IF x = r THEN 0 ELSE session[x]]
          /\ younger' = IF sweep.of = r[1] THEN younger \cup {r} ELSE younger
    BY DEF F!Claim
  <1>2. UNCHANGED <<fleet, sweep, sent>>
    BY DEF F!Claim
  <1>3. row' \in RowTables /\ Row(r)' = "running" /\ \A x \in F!Runs \ {r} : Row(x)' = Row(x)
    BY <1>1, RowIsSet DEF FleetInv, FleetType
  <1>4. /\ DOMAIN session' = DOMAIN session \cup {r} /\ session'[r] = 0
        /\ \A x \in DOMAIN session : session'[x] = session[x] /\ x \in F!Runs \ {r}
    BY <1>1 DEF FleetInv, FleetType
  <1>5. younger \subseteq younger' /\ (sweep.of = r[1] => r \in younger')
    BY <1>1
  <1>6. FleetType'
    BY <1>2, <1>3, <1>4 DEF FleetInv, FleetType
  <1>7. SessionsOK'
    BY <1>2, <1>3, <1>4 DEF FleetInv, FleetType, SessionsOK
  <1>8. AimOK'
    BY <1>2, <1>4, <1>5 DEF FleetInv, FleetType, AimOK
  <1> QED BY <1>6, <1>7, <1>8 DEF FleetInv

LEMMA DispatchKeepsFleet ==
  ASSUME FleetInv, F!Dispatch
  PROVE  FleetInv'
  <1>1. PICK r \in DOMAIN session :
          /\ fleet' = fleet \cup {F!Started(r)} /\ sent' = sent + 1
          /\ session' = [session EXCEPT ![r] = sent + 1]
    BY DEF F!Dispatch, F!NextId
  <1>2. UNCHANGED <<row, sweep, younger>> /\ sent \in Nat
    BY DEF F!Dispatch, FleetInv, FleetType
  <1>3. /\ F!Started(r).id = sent + 1
        /\ <<F!Started(r).repo, F!Started(r).branch>> = r
    BY DEF F!Started, F!NextId, F!Runs, FleetInv, FleetType
  <1>4. /\ DOMAIN session' = DOMAIN session
        /\ \A x \in DOMAIN session : session'[x] = IF x = r THEN sent + 1 ELSE session[x]
    BY <1>1 DEF FleetInv, FleetType
  <1>5. FleetType'
    BY <1>1, <1>2, <1>3, <1>4 DEF FleetInv, FleetType
  <1>6. ASSUME NEW x \in DOMAIN session', NEW c \in fleet', session'[x] = c.id
        PROVE  x = <<c.repo, c.branch>>
    <2>1. CASE c \in fleet
      <3>1. c.id \in 1..sent
        BY <2>1 DEF FleetInv, FleetType
      <3>2. x # r /\ session[x] = c.id
        BY <1>2, <1>4, <1>6, <3>1
      <3> QED BY <1>4, <2>1, <3>2 DEF FleetInv, SessionsOK
    <2>2. CASE c = F!Started(r)
      <3>1. x = r
        BY <1>2, <1>3, <1>4, <1>6, <2>2 DEF FleetInv, FleetType
      <3> QED BY <1>3, <2>2, <3>1
    <2> QED BY <1>1, <2>1, <2>2
  <1>7. SessionsOK'
    BY <1>2, <1>4, <1>6 DEF FleetInv, SessionsOK, Row
  <1>8. ASSUME NEW x \in DOMAIN session', session'[x] \in sweep.prey PROVE x \in younger
    BY <1>2, <1>4, <1>8 DEF FleetInv, AimOK
  <1>9. AimOK'
    BY <1>1, <1>2, <1>4, <1>8 DEF FleetInv, AimOK
  <1> QED BY <1>5, <1>7, <1>9 DEF FleetInv

(* A session that ends, with its row.                                      *)
LEMMA DropKeepsFleet ==
  ASSUME FleetInv, NEW r \in DOMAIN session, NEW s \in {"parked", "done"},
         F!Drops(r), F!SetRow(r, s), UNCHANGED <<sweep, younger, sent>>, fleet' \subseteq fleet
  PROVE  FleetInv'
  <1>1. r \in F!Runs
    BY DEF FleetInv, FleetType
  <1>2. row' \in RowTables /\ \A x \in F!Runs \ {r} : Row(x)' = Row(x)
    BY <1>1, RowIsSet DEF FleetInv, FleetType
  <1>3. /\ DOMAIN session' = DOMAIN session \ {r}
        /\ \A x \in DOMAIN session' : session'[x] = session[x]
    BY DEF F!Drops
  <1>4. \A x \in DOMAIN session' : Row(x)' = "running"
    BY <1>2, <1>3 DEF FleetInv, FleetType, SessionsOK
  <1>5. FleetType' /\ SessionsOK'
    BY <1>2, <1>3, <1>4, FewerRide DEF FleetInv, FleetType
  <1> QED BY <1>3, <1>5, AimStands DEF FleetInv

LEMMA RunsKeepFleet ==
  ASSUME FleetInv,
         F!BuildFails \/ F!CloneMoves \/ F!Exits \/ F!Hangs \/ F!Settles \/ F!Terminate
  PROVE  FleetInv'
  <1>1. CASE F!BuildFails
    BY <1>1, DropKeepsFleet DEF F!BuildFails
  <1>2. CASE F!Settles
    BY <1>2, DropKeepsFleet DEF F!Settles
  <1>3. CASE F!Terminate
    <2>1. fleet' \subseteq fleet
      BY <1>3 DEF F!Terminate, F!Stop
    <2> QED BY <1>3, <2>1, DropKeepsFleet DEF F!Terminate
  <1>4. CASE F!CloneMoves
    BY <1>4 DEF F!CloneMoves, FleetInv, FleetType, SessionsOK, AimOK, Row
  <1>5. CASE F!Exits
    <2>1. /\ fleet' \subseteq fleet /\ UNCHANGED <<row, sweep, younger, sent>>
          /\ DOMAIN session' = DOMAIN session
          /\ \A r \in DOMAIN session : session'[r] \in {0, session[r]}
      BY <1>5 DEF F!Exits
    <2>2. \A r \in DOMAIN session' : Row(r)' = "running"
      BY <2>1 DEF FleetInv, SessionsOK, Row
    <2>3. FleetType' /\ SessionsOK'
      BY <2>1, <2>2, FewerRide DEF FleetInv, FleetType
    <2> QED BY <2>1, <2>3, AimStands DEF FleetInv
  <1>6. CASE F!Hangs
    <2>1. UNCHANGED <<row, session, sweep, younger, sent>>
      BY <1>6 DEF F!Hangs
    <2>2. PICK c \in fleet : fleet' = (fleet \ {c}) \cup {[c EXCEPT !.hung = TRUE]}
      BY <1>6 DEF F!Hangs
    <2>3. LET h == [c EXCEPT !.hung = TRUE] IN
          h.id = c.id /\ h.repo = c.repo /\ h.branch = c.branch
      OBVIOUS
    <2>4. \A x \in fleet' : \E d \in fleet : x.id = d.id /\ x.repo = d.repo /\ x.branch = d.branch
      BY <2>2, <2>3
    <2>5. \A r \in DOMAIN session' : Row(r)' = "running"
      BY <2>1 DEF FleetInv, SessionsOK, Row
    <2>6. FleetType' /\ SessionsOK'
      BY <2>1, <2>4, <2>5, FewerRide DEF FleetInv, FleetType
    <2> QED BY <2>1, <2>6, AimStands DEF FleetInv
  <1> QED BY <1>1, <1>2, <1>3, <1>4, <1>5, <1>6

LEMMA StartsKeepFleet ==
  ASSUME FleetInv, F!Crash \/ F!StartSweep \/ F!EndSweep
  PROVE  FleetInv'
  <1>1. F!NoSweep \in Sweeps /\ F!NoSweep.prey = {} /\ F!NoSweep.at = "off"
    BY DEF F!NoSweep, Sweeps
  <1>2. CASE F!Crash
    <2>1. /\ UNCHANGED <<row, fleet, sent>> /\ DOMAIN session' = {} /\ sweep' = F!NoSweep
      BY <1>2 DEF F!Crash
    <2>2. FleetType' /\ SessionsOK'
      BY <1>1, <2>1, FewerRide DEF FleetInv, FleetType
    <2> QED BY <1>1, <2>1, <2>2, NoAim DEF FleetInv
  <1>3. CASE F!StartSweep \/ F!EndSweep
    <2>1. UNCHANGED <<row, fleet, session, sent>>
      BY <1>3 DEF F!StartSweep, F!EndSweep
    <2>2. sweep' \in Sweeps /\ sweep'.prey = {} /\ sweep'.at # "ps"
      <3>1. CASE F!EndSweep
        BY <1>1, <3>1 DEF F!EndSweep
      <3>2. CASE F!StartSweep
        <4>1. PICK t \in Targets :
                sweep' = [F!NoSweep EXCEPT !.of = t, !.at = "rows",
                                           !.todo = {r \in F!Runs : r[1] = t /\ row[t][r[2]] = "running"}]
          BY <3>2 DEF F!StartSweep
        <4> DEFINE todo == {r \in F!Runs : r[1] = t /\ row[t][r[2]] = "running"}
        <4>2. todo \in SUBSET F!Runs
          OBVIOUS
        <4> HIDE DEF todo
        <4>3. sweep' = [F!NoSweep EXCEPT !.of = t, !.at = "rows", !.todo = todo]
          BY <4>1 DEF todo
        <4> QED BY <4>2, <4>3 DEF F!NoSweep, Sweeps
      <3> QED BY <1>3, <3>1, <3>2
    <2>3. \A r \in DOMAIN session' : Row(r)' = "running"
      BY <2>1 DEF FleetInv, SessionsOK, Row
    <2>4. FleetType' /\ SessionsOK'
      BY <2>1, <2>2, <2>3, FewerRide DEF FleetInv, FleetType
    <2> QED BY <2>2, <2>4, NoAim DEF FleetInv
  <1> QED BY <1>2, <1>3

LEMMA ExamineKeepsFleet ==
  ASSUME FleetInv, F!Examine
  PROVE  FleetInv'
  <1>1. PICK r \in sweep.todo :
          /\ sweep' = [sweep EXCEPT !.todo = @ \ {r}]
          /\ \/ UNCHANGED <<row, session>>
             \/ r \notin DOMAIN session /\ (F!Redriven(r) \/ F!Discarded(r))
    BY DEF F!Examine
  <1>2. UNCHANGED <<fleet, younger, sent>> /\ sweep.at = "rows" /\ sweep \in Sweeps
    BY DEF F!Examine, FleetInv, FleetType
  <1>3. sweep' \in Sweeps /\ sweep'.prey = sweep.prey /\ sweep'.at = "rows"
    BY <1>1, <1>2 DEF Sweeps
  <1>4. r \in F!Runs /\ sweep.prey = {}
    BY <1>2 DEF Sweeps, FleetInv, AimOK
  <1>5. CASE UNCHANGED <<row, session>>
    <2>1. \A x \in DOMAIN session' : Row(x)' = "running"
      BY <1>5 DEF FleetInv, SessionsOK, Row
    <2>2. FleetType' /\ SessionsOK'
      BY <1>2, <1>3, <1>5, <2>1, FewerRide DEF FleetInv, FleetType
    <2> QED BY <1>3, <1>4, <2>2, NoAim DEF FleetInv
  <1>6. CASE r \notin DOMAIN session /\ F!Discarded(r)
    <2>1. F!SetRow(r, "done") /\ session' = session
      BY <1>6 DEF F!Discarded
    <2>2. row' \in RowTables /\ \A x \in F!Runs \ {r} : Row(x)' = Row(x)
      BY <1>4, <2>1, RowIsSet DEF FleetInv, FleetType
    <2>3. \A x \in DOMAIN session' : Row(x)' = "running"
      BY <1>6, <2>1, <2>2 DEF FleetInv, FleetType, SessionsOK
    <2>4. FleetType' /\ SessionsOK'
      BY <1>2, <1>3, <2>1, <2>2, <2>3, FewerRide DEF FleetInv, FleetType
    <2> QED BY <1>3, <1>4, <2>4, NoAim DEF FleetInv
  <1>7. CASE r \notin DOMAIN session /\ F!Redriven(r)
    <2>1. /\ F!SetRow(r, "running")
          /\ session' = [x \in DOMAIN session \cup {r} |-> IF x = r THEN 0 ELSE session[x]]
      BY <1>7 DEF F!Redriven
    <2>2. /\ row' \in RowTables /\ Row(r)' = "running"
          /\ \A x \in F!Runs \ {r} : Row(x)' = Row(x)
      BY <1>4, <2>1, RowIsSet DEF FleetInv, FleetType
    <2>3. /\ DOMAIN session' = DOMAIN session \cup {r} /\ session'[r] = 0
          /\ \A x \in DOMAIN session : session'[x] = session[x] /\ x \in F!Runs \ {r}
      BY <1>7, <2>1 DEF FleetInv, FleetType
    <2>4. FleetType'
      BY <1>2, <1>3, <1>4, <2>2, <2>3 DEF FleetInv, FleetType
    <2>5. SessionsOK'
      BY <1>2, <2>2, <2>3 DEF FleetInv, FleetType, SessionsOK
    <2> QED BY <1>3, <1>4, <2>4, <2>5, NoAim DEF FleetInv
  <1> QED BY <1>1, <1>5, <1>6, <1>7

(* The rows are read: whoever has a session is live.                       *)
LEMMA ReadRowsKeepsFleet ==
  ASSUME FleetInv, F!ReadRows
  PROVE  FleetInv'
  <1>1. /\ sweep.at = "rows" /\ sweep' = [sweep EXCEPT !.at = "ps", !.live = F!LiveBranches]
        /\ UNCHANGED <<row, session, fleet, sent>> /\ sweep \in Sweeps
    BY DEF F!ReadRows, FleetInv, FleetType
  <1>2. F!LiveBranches \in SUBSET Branches
    BY DEF F!LiveBranches, F!Runs
  <1>3. /\ sweep' \in Sweeps /\ sweep'.live = F!LiveBranches /\ sweep'.prey = sweep.prey
        /\ sweep'.at = "ps" /\ sweep'.of = sweep.of
    BY <1>1, <1>2 DEF Sweeps
  <1>4. sweep.prey = {}
    BY <1>1 DEF FleetInv, AimOK
  <1>5. \A r \in DOMAIN session' : Row(r)' = "running"
    BY <1>1 DEF FleetInv, SessionsOK, Row
  <1>6. FleetType' /\ SessionsOK'
    BY <1>1, <1>3, <1>5, FewerRide DEF FleetInv, FleetType
  <1>7. ASSUME NEW r \in DOMAIN session, r[1] = sweep.of PROVE r[2] \in F!LiveBranches
    <2>1. r \in F!Runs /\ F!Live(r)
      BY DEF FleetInv, FleetType, SessionsOK, Row, F!Live
    <2> QED BY <1>7, <2>1 DEF F!LiveBranches
  <1>8. AimOK'
    BY <1>1, <1>3, <1>4, <1>7 DEF AimOK
  <1> QED BY <1>6, <1>8 DEF FleetInv

(* docker ps: what is not live is nobody's.                                *)
LEMMA ListFleetKeepsFleet ==
  ASSUME FleetInv, F!ListFleet
  PROVE  FleetInv'
  <1> DEFINE ids == {c.id : c \in {x \in F!OwnFleet(sweep.of) : x.branch \notin sweep.live}}
  <1>1. /\ sweep.at = "ps" /\ sweep \in Sweeps /\ UNCHANGED <<row, session, fleet, younger, sent>>
        /\ \/ sweep' = [sweep EXCEPT !.at = "stop", !.prey = ids]
           \/ sweep' = [sweep EXCEPT !.at = "stop"]
    BY DEF F!ListFleet, FleetInv, FleetType
  <1>2. \A p \in ids : \E c \in fleet : c.id = p /\ c.repo = sweep.of /\ c.branch \notin sweep.live
    BY DEF F!OwnFleet
  <1>3. ids \subseteq 1..sent /\ sweep.prey = {} /\ sent \in Nat
    BY <1>1, <1>2 DEF FleetInv, FleetType, AimOK
  <1> HIDE DEF ids
  <1>4. sweep' \in Sweeps /\ sweep'.prey \subseteq ids /\ sweep'.at = "stop"
    <2>1. ids \in SUBSET Nat
      BY <1>3
    <2> QED BY <1>1, <1>3, <2>1 DEF Sweeps
  <1>5. ASSUME NEW r \in DOMAIN session, session[r] \in ids PROVE r \in younger
    <2>1. PICK c \in fleet : c.id = session[r] /\ c.repo = sweep.of /\ c.branch \notin sweep.live
      BY <1>2, <1>5
    <2>2. r = <<c.repo, c.branch>>
      BY <2>1 DEF FleetInv, SessionsOK
    <2>3. r[1] = sweep.of /\ r[2] \notin sweep.live
      BY <2>1, <2>2
    <2> QED BY <1>1, <2>3 DEF FleetInv, AimOK
  <1>6. \A r \in DOMAIN session' : Row(r)' = "running"
    BY <1>1 DEF FleetInv, SessionsOK, Row
  <1>7. FleetType' /\ SessionsOK'
    BY <1>1, <1>4, <1>6, FewerRide DEF FleetInv, FleetType
  <1>8. AimOK'
    BY <1>1, <1>3, <1>4, <1>5 DEF AimOK
  <1> QED BY <1>7, <1>8 DEF FleetInv

(* What the sweep stops next is of its prey.                               *)
LEMMA PreyIsPicked ==
  ASSUME FleetInv, sweep.prey # {}
  PROVE  (CHOOSE p \in sweep.prey : \A q \in sweep.prey : p <= q) \in sweep.prey
  <1>1. sweep.prey \in SUBSET Nat
    BY DEF FleetInv, FleetType, Sweeps
  <1> QED BY <1>1, LeastOf

LEMMA ReapKeepsFleet ==
  ASSUME FleetInv, F!Reap
  PROVE  FleetInv'
  <1> DEFINE id == CHOOSE p \in sweep.prey : \A q \in sweep.prey : p <= q
  <1>1. /\ sweep.at = "stop" /\ UNCHANGED <<row, younger, sent>> /\ sweep \in Sweeps
        /\ F!Stop({id}) /\ sweep' = [sweep EXCEPT !.prey = @ \ {id}]
        /\ session' = [r \in DOMAIN session |-> IF session[r] = id /\ fleet' # fleet THEN 0 ELSE session[r]]
    BY DEF F!Reap, FleetInv, FleetType
  <1> HIDE DEF id
  <1>2. fleet' \subseteq fleet
    BY <1>1 DEF F!Stop
  <1>3. /\ DOMAIN session' = DOMAIN session
        /\ \A r \in DOMAIN session' : session'[r] \in {0, session[r]}
    BY <1>1
  <1>4. sweep' \in Sweeps /\ sweep'.prey \subseteq sweep.prey /\ sweep'.at = "stop"
    BY <1>1 DEF Sweeps
  <1>5. \A r \in DOMAIN session' : Row(r)' = "running"
    BY <1>1, <1>3 DEF FleetInv, SessionsOK, Row
  <1>6. FleetType' /\ SessionsOK'
    BY <1>1, <1>2, <1>3, <1>4, <1>5, FewerRide DEF FleetInv, FleetType
  <1>7. ASSUME NEW r \in DOMAIN session', session'[r] \in sweep'.prey PROVE r \in younger
    <2>1. session'[r] # 0 /\ session'[r] \in sweep.prey
      BY <1>4, <1>7 DEF FleetInv, AimOK
    <2> QED BY <1>3, <2>1 DEF FleetInv, AimOK
  <1>8. AimOK'
    BY <1>1, <1>4, <1>7 DEF FleetInv, AimOK
  <1> QED BY <1>6, <1>8 DEF FleetInv

LEMMA FleetInvIsKept ==
  ASSUME FleetInv, [Next]_vars
  PROVE  FleetInv'
  <1>1. CASE UNCHANGED fleetVars
    BY <1>1 DEF fleetVars, FleetInv, FleetType, SessionsOK, AimOK, Row
  <1>2. CASE F!FleetNext
    BY <1>2, ClaimKeepsFleet, DispatchKeepsFleet, RunsKeepFleet, StartsKeepFleet,
       ExamineKeepsFleet, ReadRowsKeepsFleet, ListFleetKeepsFleet, ReapKeepsFleet
       DEF F!FleetNext, F!SweepStep, F!RunStep
  <1> QED BY <1>1, <1>2
       DEF Next, vars, AdmissionMoves, FleetMoves, NotifyMoves, OnlyAdmission, OnlyNotify

(* No sweep stops the container of a run that was claimed before the sweep *)
(* read its rows, in its own target or in another.                         *)
THEOREM LiveRunsAreSpared == Spec => SweepSpares
  <1>1. Init => FleetInv
    <2> SUFFICES ASSUME Init PROVE FleetInv
      OBVIOUS
    <2>1. /\ row = [t \in Targets |-> [b \in Branches |-> "none"]] /\ fleet = {} /\ sent = 0
          /\ session = [r \in {} |-> 0] /\ sweep = F!NoSweep
      BY DEF Init, F!FleetInit
    <2>2. sweep \in Sweeps /\ sweep.prey = {} /\ sweep.at = "off"
      BY <2>1 DEF F!NoSweep, Sweeps
    <2>3. row \in RowTables
      BY <2>1 DEF RowTables
    <2> QED BY <2>1, <2>2, <2>3 DEF FleetInv, FleetType, SessionsOK, AimOK
  <1>2. FleetInv /\ [Next]_vars => FleetInv'
    BY FleetInvIsKept
  <1>3. ASSUME FleetInv, [Next]_vars, NEW c \in fleet \ fleet', F!Reap, c.id \in F!Driven
        PROVE  \E r \in younger : session[r] = c.id
    <2> DEFINE id == CHOOSE p \in sweep.prey : \A q \in sweep.prey : p <= q
    <2>1. F!Stop({id}) /\ id \in sweep.prey
      BY <1>3, PreyIsPicked DEF F!Reap
    <2> HIDE DEF id
    <2>2. c.id = id
      BY <2>1 DEF F!Stop
    <2>3. PICK r \in DOMAIN session : session[r] = c.id
      BY <1>3 DEF F!Driven
    <2> QED BY <1>3, <2>1, <2>2, <2>3 DEF FleetInv, AimOK
  <1>4. FleetInv /\ [Next]_vars =>
          [\A c \in fleet \ fleet' :
             F!Reap /\ c.id \in F!Driven => \E r \in younger : session[r] = c.id]_(F!fleetVars)
    BY <1>3
  <1> QED BY <1>1, <1>2, <1>4, PTL DEF Spec, SweepSpares, F!SweepSpares


-----------------------------------------------------------------------------
(* The pickup: the queue is the eligible issues in their order.            *)

LEMMA SameCardinality == \A S : A!Cardinality(S) = Cardinality(S)
  BY DEF A!Cardinality, Cardinality

LEMMA RankIsNat == \A ls : A!Rank(ls) \in Nat
  <1> SUFFICES ASSUME NEW ls PROVE A!Rank(ls) \in Nat
    OBVIOUS
  <1> DEFINE r == {k \in DOMAIN Priorities : Priorities[k] \in ls}
  <1>1. r \in SUBSET Nat /\ Len(Priorities) \in Nat
    BY BacklogAssumption
  <1>2. A!Rank(ls) = IF r = {} THEN Len(Priorities) + 1 ELSE CHOOSE k \in r : \A j \in r : k <= j
    BY DEF A!Rank
  <1> HIDE DEF r
  <1>3. r # {} => (CHOOSE k \in r : \A j \in r : k <= j) \in r
    BY <1>1, LeastOf
  <1>4. CASE r = {}
    BY <1>1, <1>2, <1>4
  <1>5. CASE r # {}
    <2>1. A!Rank(ls) \in r
      BY <1>2, <1>3, <1>5
    <2> QED BY <1>1, <2>1
  <1> QED BY <1>4, <1>5

(* compare orders the issues strictly, whatever their labels.              *)
LEMMA BeforeIsOrder ==
  ASSUME NEW i \in Backlog, NEW j \in Backlog, NEW k \in Backlog
  PROVE  /\ ~A!Before(i, i)
         /\ i # j => A!Before(i, j) \/ A!Before(j, i)
         /\ A!Before(i, j) /\ A!Before(j, k) => A!Before(i, k)
         /\ A!Before(i, j) => Created[i] <= Created[j]
  <1>1. i \in Nat /\ j \in Nat /\ k \in Nat
    BY BacklogAssumption
  <1>2. Created[i] \in Nat /\ Created[j] \in Nat /\ Created[k] \in Nat
    BY BacklogAssumption
  <1>3. /\ A!Rank(listed[i]) \in Nat /\ A!Rank(listed[j]) \in Nat /\ A!Rank(listed[k]) \in Nat
    BY RankIsNat
  <1> QED BY <1>1, <1>2, <1>3 DEF A!Before

(* How many are ahead of an issue is its place in the queue.               *)
LEMMA AheadIs ==
  ASSUME NEW S \in SUBSET Backlog
  PROVE  /\ \A i \in S : A!Ahead(S, i) \in Nat /\ A!Ahead(S, i) < Cardinality(S)
         /\ \A i, j \in S : A!Before(i, j) => A!Ahead(S, i) < A!Ahead(S, j)
  <1> DEFINE ahead(i) == {j \in S : A!Before(j, i)}
  <1>1. IsFiniteSet(S) /\ Cardinality(S) \in Nat
    BY BacklogAssumption, FS_Subset, FS_CardinalityType
  <1>2. ASSUME NEW i \in S
        PROVE  /\ A!Ahead(S, i) = Cardinality(ahead(i)) /\ i \notin ahead(i)
               /\ ahead(i) \in SUBSET S /\ IsFiniteSet(ahead(i)) /\ Cardinality(ahead(i)) \in Nat
    <2>1. ahead(i) \in SUBSET S
      OBVIOUS
    <2>2. i \notin ahead(i)
      BY BeforeIsOrder
    <2>3. A!Ahead(S, i) = Cardinality(ahead(i))
      BY SameCardinality DEF A!Ahead
    <2>4. IsFiniteSet(ahead(i))
      BY <1>1, <2>1, FS_Subset
    <2> QED BY <2>1, <2>2, <2>3, <2>4, FS_CardinalityType
  <1>3. ASSUME NEW i \in S, NEW j \in S, A!Before(i, j)
        PROVE  Cardinality(ahead(i)) < Cardinality(ahead(j))
    <2>1. ahead(i) \subseteq ahead(j) /\ i \in ahead(j)
      BY <1>3, BeforeIsOrder
    <2>2. ahead(i) \in SUBSET ahead(j) /\ ahead(i) # ahead(j)
      BY <1>2, <2>1
    <2>3. Cardinality(ahead(i)) <= Cardinality(ahead(j)) /\ Cardinality(ahead(i)) # Cardinality(ahead(j))
      BY <1>2, <2>2, FS_Subset
    <2> QED BY <1>2, <2>3
  <1>4. ASSUME NEW i \in S PROVE Cardinality(ahead(i)) < Cardinality(S)
    <2>1. ahead(i) # S /\ ahead(i) \in SUBSET S
      BY <1>2
    <2>2. Cardinality(ahead(i)) <= Cardinality(S) /\ Cardinality(ahead(i)) # Cardinality(S)
      BY <1>1, <2>1, FS_Subset
    <2> QED BY <1>1, <1>2, <2>2
  <1> HIDE DEF ahead
  <1> QED BY <1>2, <1>3, <1>4

(* The queue holds each of them once, whoever comes before first.          *)
LEMMA QueueIs ==
  ASSUME NEW S \in SUBSET Backlog
  PROVE  /\ Cardinality(S) \in Nat /\ A!Queue(S) \in [1..Cardinality(S) -> S]
         /\ \A i \in S : A!Ahead(S, i) + 1 \in 1..Cardinality(S) /\ A!Queue(S)[A!Ahead(S, i) + 1] = i
         /\ \A k \in 1..Cardinality(S) : A!Ahead(S, A!Queue(S)[k]) = k - 1
  <1> DEFINE n == Cardinality(S)
             f == [i \in S |-> A!Ahead(S, i)]
  <1>1. IsFiniteSet(S) /\ n \in Nat
    BY BacklogAssumption, FS_Subset, FS_CardinalityType
  <1>2. /\ \A i \in S : A!Ahead(S, i) \in Nat /\ A!Ahead(S, i) < n
        /\ \A i, j \in S : A!Before(i, j) => A!Ahead(S, i) < A!Ahead(S, j)
    BY AheadIs
  <1>3. \A i, j \in S : A!Ahead(S, i) = A!Ahead(S, j) => i = j
    BY <1>2, BeforeIsOrder
  <1> HIDE DEF n
  <1>4. f \in Injection(S, 0..(n - 1))
    BY <1>1, <1>2, <1>3 DEF Injection, IsInjective
  <1>5. IsFiniteSet(0..(n - 1)) /\ Cardinality(0..(n - 1)) = n
    BY <1>1, FS_Interval
  <1>6. f \in Surjection(S, 0..(n - 1))
    BY <1>1, <1>4, <1>5, FS_Injection DEF n
  <1>7. \A m \in 0..(n - 1) : \E i \in S : A!Ahead(S, i) = m
    BY <1>6 DEF Surjection
  <1>8. A!Queue(S) = [k \in 1..n |-> CHOOSE i \in S : A!Ahead(S, i) = k - 1]
    BY SameCardinality DEF A!Queue, n
  <1>9. ASSUME NEW k \in 1..n
        PROVE  A!Queue(S)[k] \in S /\ A!Ahead(S, A!Queue(S)[k]) = k - 1
    <2>1. k - 1 \in 0..(n - 1)
      BY <1>1
    <2>2. \E i \in S : A!Ahead(S, i) = k - 1
      BY <1>7, <2>1
    <2> QED BY <1>8, <2>2
  <1>10. ASSUME NEW i \in S
         PROVE  A!Ahead(S, i) + 1 \in 1..n /\ A!Queue(S)[A!Ahead(S, i) + 1] = i
    <2>1. A!Ahead(S, i) + 1 \in 1..n /\ (A!Ahead(S, i) + 1) - 1 = A!Ahead(S, i)
      BY <1>1, <1>2
    <2> QED BY <1>3, <1>9, <2>1
  <1>11. A!Queue(S) \in [1..n -> S]
    BY <1>8, <1>9
  <1> QED BY <1>1, <1>9, <1>10, <1>11 DEF n


-----------------------------------------------------------------------------
(* The tick's plan while the world moves.                                  *)

RunStates == {"none", "running", "paused", "agent-stuck", "merged"}
Reasons == {"in-flight", "held", "blocked", "no-provider", "no-memory",
            "not-ready", "not-afk", "hitl", "paused", "no-mode"}
Passes(i) == A!LabelVerdict(listed[i]) = "passes"

PlanType == /\ run \in [Backlog -> RunStates] /\ DOMAIN listed \subseteq Backlog
            /\ at = "gate" => left \subseteq DOMAIN listed

\* What the tick's history holds of the world as it is.
MetOK == \A d \in Backlog : (A!Satisfied(d) => d \in met) /\ (~A!Satisfied(d) => d \in shut)

\* A cached answer was true at some time of the tick, or its query failed.
CacheOK == \A d \in DOMAIN cache : (cache[d] => d \in met) /\ (~cache[d] => d \in shut \cup refused)

\* Whoever was let in had its blockers met; whoever was left out had one open.
GateOK ==
  /\ \A p \in eligible : p \notin Foreign /\ Blockers[p] \subseteq met
  /\ \A i \in DOMAIN listed \ left :
       run[i] = "none" /\ Passes(i) /\ i \notin Foreign /\ i \notin eligible => A!Open(i) # {}

\* Each issue is let in or excluded, for a reason its labels bear out.
ReasonOK(verdict, why) ==
  /\ why \in Reasons
  /\ why \in {"blocked", "no-provider", "no-memory"} => verdict = "passes"
  /\ why \in {"not-ready", "not-afk", "hitl", "paused", "no-mode"} => verdict = why
SortedOK ==
  /\ \A p \in eligible : Passes(p) /\ p \notin DOMAIN excluded
  /\ \A i \in DOMAIN excluded : ReasonOK(A!LabelVerdict(listed[i]), excluded[i])
  /\ eligible \cup DOMAIN excluded = DOMAIN listed \ (IF at = "gate" THEN left ELSE {})

PlanInv ==
  /\ PlanType
  /\ at = "gate" => MetOK /\ CacheOK /\ GateOK
  /\ at \in {"gate", "board"} => SortedOK
  /\ at = "board" => A!Range(picked) \subseteq eligible

(* Runs end and issues close while the tick awaits: what it knows stands.  *)
LEMMA PlanStands ==
  ASSUME PlanInv, UNCHANGED <<at, listed, left, cache, eligible, excluded, picked>>,
         run' \in [Backlog -> RunStates],
         \A i \in Backlog : run'[i] = "none" => run[i] = "none",
         at = "gate" => /\ met \subseteq met' /\ shut \subseteq shut' /\ refused \subseteq refused'
                        /\ MetOK'
  PROVE  PlanInv'
  <1>1. PlanType'
    BY DEF PlanInv, PlanType
  <1>2. CASE at = "gate"
    <2>1. CacheOK'
      BY <1>2 DEF PlanInv, CacheOK
    <2>2. \A i \in DOMAIN listed : A!Open(i) \subseteq A!Open(i)'
      BY <1>2 DEF A!Open
    <2>3. \A i \in DOMAIN listed : i \in Backlog
      BY DEF PlanInv, PlanType
    <2>4. GateOK'
      BY <1>2, <2>2, <2>3 DEF PlanInv, GateOK, Passes
    <2>5. SortedOK'
      BY <1>2 DEF PlanInv, SortedOK, Passes
    <2> QED BY <1>1, <1>2, <2>1, <2>4, <2>5 DEF PlanInv
  <1>3. CASE at # "gate"
    BY <1>1, <1>3 DEF PlanInv, SortedOK, Passes
  <1> QED BY <1>2, <1>3

(* The closings are noted as they come.                                    *)
LEMMA NotesKeepMet ==
  ASSUME at = "gate", A!Notes
  PROVE  met \subseteq met' /\ shut \subseteq shut' /\ refused' = refused /\ MetOK'
  <1>1. /\ met' = met \cup {d \in Backlog : closed'[d] \in {"merged", "blank"}}
        /\ shut' = shut \cup (Backlog \ {d \in Backlog : closed'[d] \in {"merged", "blank"}})
        /\ refused' = refused
    BY DEF A!Notes
  <1> QED BY <1>1 DEF MetOK, A!Satisfied

LEMMA WorldKeepsPlan ==
  ASSUME PlanInv,
         A!SessionEnds \/ A!HumanMerges \/ A!HeadroomMoves \/ A!Asked \/ A!Applied \/ A!Resume
  PROVE  PlanInv'
  <1>0. run \in [Backlog -> RunStates]
    BY DEF PlanInv, PlanType
  <1>1. CASE A!SessionEnds
    <2>1. PICK i \in A!InFlight, s \in {"paused", "agent-stuck", "merged"} : run' = [run EXCEPT ![i] = s]
      BY <1>1 DEF A!SessionEnds
    <2>2. run' \in [Backlog -> RunStates] /\ \A x \in Backlog : run'[x] = "none" => run[x] = "none"
      BY <1>0, <2>1 DEF RunStates, A!InFlight
    <2> QED BY <1>1, <2>2, PlanStands, NotesKeepMet DEF A!SessionEnds, A!planVars
  <1>2. CASE A!HumanMerges
    BY <1>0, <1>2, PlanStands, NotesKeepMet DEF A!HumanMerges, A!planVars
  <1>3. CASE A!Applied
    BY <1>0, <1>3, PlanStands, NotesKeepMet DEF A!Applied, A!planVars
  <1>4. CASE A!HeadroomMoves \/ A!Asked
    <2>1. UNCHANGED <<at, listed, left, cache, eligible, excluded, picked, run, met, shut, refused, closed>>
      BY <1>4 DEF A!HeadroomMoves, A!Asked, A!planVars, A!tickSeen, A!hubVars
    <2>2. at = "gate" => MetOK'
      BY <2>1 DEF PlanInv, MetOK, A!Satisfied
    <2> QED BY <1>0, <2>1, <2>2, PlanStands
  <1>5. CASE A!Resume
    <2>1. PICK i \in Backlog : run' = [run EXCEPT ![i] = "running"]
      BY <1>5 DEF A!Resume
    <2>2. run' \in [Backlog -> RunStates] /\ \A x \in Backlog : run'[x] = "none" => run[x] = "none"
      BY <1>0, <2>1 DEF RunStates
    <2> QED BY <1>5, <2>2, PlanStands DEF A!Resume, A!planVars
  <1> QED BY <1>1, <1>2, <1>3, <1>4, <1>5

LEMMA ListKeepsPlan ==
  ASSUME PlanInv, A!ListIssues
  PROVE  PlanInv'
  <1>1. /\ at' = "gate" /\ left' = DOMAIN listed' /\ UNCHANGED <<run, closed>>
        /\ listed' = [i \in {j \in Backlog : closed[j] = "no"} |-> labels[i]]
        /\ cache' = <<>> /\ eligible' = {} /\ excluded' = [i \in {} |-> ""]
        /\ met' = {d \in Backlog : A!Satisfied(d)} /\ shut' = {d \in Backlog : ~A!Satisfied(d)}
    BY DEF A!ListIssues, A!hubVars
  <1>2. DOMAIN cache' = {} /\ DOMAIN excluded' = {} /\ DOMAIN listed' \subseteq Backlog
    BY <1>1
  <1>3. PlanType'
    BY <1>1, <1>2 DEF PlanInv, PlanType
  <1>4. MetOK' /\ CacheOK' /\ GateOK'
    BY <1>1, <1>2 DEF MetOK, CacheOK, GateOK, A!Satisfied
  <1>5. SortedOK'
    BY <1>1, <1>2 DEF SortedOK
  <1> QED BY <1>1, <1>3, <1>4, <1>5 DEF PlanInv

(* The blockers are asked for, each once.                                  *)
LEMMA AsksFind ==
  ASSUME PlanInv, at = "gate", NEW ds \in SUBSET Backlog, A!Asks(cache, ds)
  PROVE  /\ refused \subseteq refused'
         /\ \A d \in DOMAIN cache' : (cache'[d] => d \in met) /\ (~cache'[d] => d \in shut \cup refused')
         /\ ds \subseteq DOMAIN cache'
  <1>1. PICK down \in SUBSET (ds \ DOMAIN cache) :
          /\ refused' = refused \cup down
          /\ cache' = [d \in DOMAIN cache \cup ds |->
                        IF d \in DOMAIN cache THEN cache[d] ELSE d \notin down /\ A!Satisfied(d)]
    BY DEF A!Asks
  <1>2. MetOK /\ CacheOK
    BY DEF PlanInv
  <1>3. DOMAIN cache' = DOMAIN cache \cup ds
    BY <1>1
  <1>4. ASSUME NEW d \in DOMAIN cache
        PROVE  (cache'[d] => d \in met) /\ (~cache'[d] => d \in shut \cup refused')
    <2>1. cache'[d] = cache[d]
      BY <1>1, <1>3
    <2> QED BY <1>1, <1>2, <2>1 DEF CacheOK
  <1>5. ASSUME NEW d \in ds \ DOMAIN cache
        PROVE  (cache'[d] => d \in met) /\ (~cache'[d] => d \in shut \cup refused')
    <2>1. cache'[d] = (d \notin down /\ A!Satisfied(d))
      BY <1>1, <1>3
    <2>2. d \in Backlog
      OBVIOUS
    <2> QED BY <1>1, <1>2, <2>1, <2>2 DEF MetOK
  <1> QED BY <1>1, <1>3, <1>4, <1>5

(* What admit says of one issue.                                           *)
LEMMA VerdictIs ==
  ASSUME NEW ls
  PROVE  /\ A!LabelVerdict(ls) \in {"not-ready", "not-afk", "hitl", "paused", "no-mode", "passes"}
         /\ A!LabelVerdict(ls) \in {"passes", "no-mode"} <=>
              {"ready", "afk"} \subseteq ls /\ "hitl" \notin ls /\ ls \cap A!PausedLabels = {}
  <1>1. CASE "ready" \notin ls
    <2>1. A!LabelVerdict(ls) = "not-ready"
      BY <1>1 DEF A!LabelVerdict
    <2> QED BY <1>1, <2>1
  <1>2. CASE "ready" \in ls /\ "afk" \notin ls
    <2>1. A!LabelVerdict(ls) = "not-afk"
      BY <1>2 DEF A!LabelVerdict
    <2> QED BY <1>2, <2>1
  <1>3. CASE "ready" \in ls /\ "afk" \in ls /\ "hitl" \in ls
    <2>1. A!LabelVerdict(ls) = "hitl"
      BY <1>3 DEF A!LabelVerdict
    <2> QED BY <1>3, <2>1
  <1>4. CASE "ready" \in ls /\ "afk" \in ls /\ "hitl" \notin ls /\ ls \cap A!PausedLabels # {}
    <2>1. A!LabelVerdict(ls) = "paused"
      BY <1>4 DEF A!LabelVerdict
    <2> QED BY <1>4, <2>1
  <1>5. CASE "ready" \in ls /\ "afk" \in ls /\ "hitl" \notin ls /\ ls \cap A!PausedLabels = {}
    <2>1. A!LabelVerdict(ls) \in {"no-mode", "passes"}
      BY <1>5 DEF A!LabelVerdict
    <2> QED BY <1>5, <2>1
  <1> QED BY <1>1, <1>2, <1>3, <1>4, <1>5

LEMMA ExcludedIs ==
  ASSUME NEW i, NEW why, i \notin DOMAIN excluded, A!Excludes(i, why)
  PROVE  /\ DOMAIN excluded' = DOMAIN excluded \cup {i} /\ excluded'[i] = why
         /\ \A x \in DOMAIN excluded : excluded'[x] = excluded[x]
         /\ eligible' = eligible
  BY DEF A!Excludes, A!Excluding

LEMMA GateKeepsPlan ==
  ASSUME PlanInv, A!Gate
  PROVE  PlanInv'
  <1>0. PICK i : i = CHOOSE j \in left : \A k \in left : j <= k
    OBVIOUS
  <1> DEFINE verdict == A!LabelVerdict(listed[i])
  <1>1. /\ at = "gate" /\ left # {} /\ left' = left \ {i}
        /\ UNCHANGED <<run, closed, at, listed, picked, met, shut>>
    BY <1>0 DEF A!Gate, A!hubVars
  <1>2. \/ i \in A!InFlight /\ A!Excludes(i, "in-flight") /\ UNCHANGED <<cache, refused>>
        \/ run[i] \notin A!ReAdmittable /\ A!Excludes(i, "held") /\ UNCHANGED <<cache, refused>>
        \/ verdict # "passes" /\ A!Excludes(i, verdict) /\ UNCHANGED <<cache, refused>>
        \/ /\ verdict = "passes" /\ A!Asks(cache, Blockers[i])
           /\ IF A!DepVerdict(i, A!StillOpen(i)) = "passes"
              THEN eligible' = eligible \cup {i} /\ UNCHANGED excluded
              ELSE A!Excludes(i, "blocked")
    BY <1>0 DEF A!Gate
  <1>3. i \in left
    <2>1. left \in SUBSET Nat
      BY <1>1, BacklogAssumption DEF PlanInv, PlanType
    <2> QED BY <1>0, <1>1, <2>1, LeastOf
  <1>4. /\ MetOK /\ CacheOK /\ GateOK /\ SortedOK /\ PlanType
    BY <1>1 DEF PlanInv
  <1>5. /\ i \in DOMAIN listed /\ i \in Backlog /\ i \notin DOMAIN excluded /\ i \notin eligible
        /\ left \subseteq DOMAIN listed
    BY <1>1, <1>3, <1>4 DEF PlanType, SortedOK
  <1>6. Blockers[i] \in SUBSET Backlog
    BY <1>5, BacklogAssumption
  <1>7. PlanType'
    BY <1>1, <1>4 DEF PlanType
  <1>8. MetOK'
    BY <1>1, <1>4 DEF MetOK, A!Satisfied
  \* An issue that is excluded for a reason of its own, and no query for it.
  <1>9. ASSUME NEW why, A!Excludes(i, why), ReasonOK(verdict, why), refused \subseteq refused', CacheOK',
               run[i] = "none" /\ Passes(i) /\ i \notin Foreign => A!Open(i)' # {}
        PROVE  PlanInv'
    <2>1. /\ DOMAIN excluded' = DOMAIN excluded \cup {i} /\ excluded'[i] = why
          /\ \A x \in DOMAIN excluded : excluded'[x] = excluded[x]
          /\ eligible' = eligible
      BY <1>5, <1>9, ExcludedIs
    <2>2. \A x : A!Open(x) \subseteq A!Open(x)'
      BY <1>1, <1>9 DEF A!Open
    <2>3. GateOK'
      <3>1. ASSUME NEW x \in DOMAIN listed \ left', run[x] = "none", Passes(x), x \notin Foreign,
                   x \notin eligible
            PROVE  A!Open(x)' # {}
        <4>1. CASE x = i
          BY <1>9, <3>1, <4>1 DEF A!Open, Passes
        <4>2. CASE x # i
          <5>1. A!Open(x) # {}
            BY <1>1, <1>4, <3>1, <4>2 DEF GateOK
          <5> QED BY <2>2, <5>1
        <4> QED BY <4>1, <4>2
      <3>2. \A p \in eligible' : p \notin Foreign /\ Blockers[p] \subseteq met'
        BY <1>1, <1>4, <2>1 DEF GateOK
      <3> QED BY <1>1, <2>1, <3>1, <3>2 DEF GateOK, Passes
    <2>4. ASSUME NEW x \in DOMAIN excluded' PROVE ReasonOK(A!LabelVerdict(listed'[x]), excluded'[x])
      <3>1. CASE x = i
        BY <1>1, <1>9, <2>1, <3>1
      <3>2. CASE x \in DOMAIN excluded
        BY <1>1, <1>4, <2>1, <3>2 DEF SortedOK
      <3> QED BY <2>1, <3>1, <3>2
    <2>5. \A p \in eligible' : Passes(p)' /\ p \notin DOMAIN excluded'
      BY <1>1, <1>4, <1>5, <2>1 DEF SortedOK, Passes
    <2>6. eligible' \cup DOMAIN excluded' = DOMAIN listed' \ left'
      BY <1>1, <1>3, <1>4, <1>5, <2>1 DEF SortedOK
    <2>7. SortedOK'
      BY <1>1, <2>4, <2>5, <2>6 DEF SortedOK, Passes
    <2> QED BY <1>1, <1>7, <1>8, <1>9, <2>3, <2>7 DEF PlanInv
  <1>10. UNCHANGED <<cache, refused>> => CacheOK' /\ refused \subseteq refused'
    BY <1>1, <1>4 DEF CacheOK
  <1>11. CASE i \in A!InFlight /\ A!Excludes(i, "in-flight") /\ UNCHANGED <<cache, refused>>
    <2>1. ReasonOK(verdict, "in-flight") /\ run[i] # "none"
      BY <1>11 DEF ReasonOK, Reasons, A!InFlight
    <2> QED BY <1>9, <1>10, <1>11, <2>1
  <1>12. CASE run[i] \notin A!ReAdmittable /\ A!Excludes(i, "held") /\ UNCHANGED <<cache, refused>>
    <2>1. ReasonOK(verdict, "held") /\ run[i] # "none"
      BY <1>12 DEF ReasonOK, Reasons, A!ReAdmittable
    <2> QED BY <1>9, <1>10, <1>12, <2>1
  <1>13. CASE verdict # "passes" /\ A!Excludes(i, verdict) /\ UNCHANGED <<cache, refused>>
    <2>1. verdict \in {"not-ready", "not-afk", "hitl", "paused", "no-mode"}
      BY <1>13, VerdictIs
    <2>2. ReasonOK(verdict, verdict) /\ ~Passes(i)
      BY <1>13, <2>1 DEF ReasonOK, Reasons, Passes
    <2> QED BY <1>9, <1>10, <1>13, <2>2
  <1>14. CASE verdict = "passes" /\ A!Asks(cache, Blockers[i])
    <2>1. /\ refused \subseteq refused' /\ Blockers[i] \subseteq DOMAIN cache'
          /\ \A d \in DOMAIN cache' : (cache'[d] => d \in met) /\ (~cache'[d] => d \in shut \cup refused')
      BY <1>1, <1>6, <1>14, AsksFind
    <2>2. CacheOK'
      BY <1>1, <2>1 DEF CacheOK
    <2>3. CASE /\ A!DepVerdict(i, A!StillOpen(i)) # "passes" /\ A!Excludes(i, "blocked")
      <3>1. i \notin Foreign => A!StillOpen(i) # {}
        BY <2>3 DEF A!DepVerdict
      <3>2. A!StillOpen(i) \subseteq A!Open(i)'
        BY <1>1, <2>1 DEF A!StillOpen, A!Open
      <3>3. ReasonOK(verdict, "blocked")
        BY <1>14 DEF ReasonOK, Reasons, Passes
      <3> QED BY <1>9, <2>1, <2>2, <2>3, <3>1, <3>2, <3>3
    <2>4. CASE /\ A!DepVerdict(i, A!StillOpen(i)) = "passes"
               /\ eligible' = eligible \cup {i} /\ UNCHANGED excluded
      <3>1. i \notin Foreign /\ A!StillOpen(i) = {}
        BY <2>4 DEF A!DepVerdict
      <3>2. Blockers[i] \subseteq met
        BY <2>1, <3>1 DEF A!StillOpen
      <3>3. \A x : A!Open(x) \subseteq A!Open(x)'
        BY <1>1, <2>1 DEF A!Open
      <3>4. GateOK'
        BY <1>1, <1>4, <2>4, <3>1, <3>2, <3>3 DEF GateOK, Passes
      <3>5. \A x \in DOMAIN excluded' : ReasonOK(A!LabelVerdict(listed'[x]), excluded'[x])
        BY <1>1, <1>4, <2>4 DEF SortedOK
      <3>6. \A p \in eligible' : Passes(p)' /\ p \notin DOMAIN excluded'
        BY <1>1, <1>4, <1>5, <1>14, <2>4 DEF SortedOK, Passes
      <3>7. eligible' \cup DOMAIN excluded' = DOMAIN listed' \ left'
        BY <1>1, <1>3, <1>4, <1>5, <2>4 DEF SortedOK
      <3>8. SortedOK'
        BY <1>1, <3>5, <3>6, <3>7 DEF SortedOK, Passes
      <3> QED BY <1>1, <1>7, <1>8, <2>2, <3>4, <3>8 DEF PlanInv
    <2> QED BY <1>2, <1>11, <1>12, <1>13, <1>14, <2>3, <2>4
  <1> QED BY <1>2, <1>11, <1>12, <1>13, <1>14


(* What is picked are the first of the queue, as many as there are slots.  *)
LEMMA FillPicks ==
  ASSUME PlanInv, A!Fill
  PROVE  /\ \A p \in A!Range(picked') : p \in eligible /\ headroom.provider /\ headroom.memory
         /\ \A i \in eligible : i \notin A!Range(picked') =>
              /\ \A p \in A!Range(picked') : Created[p] <= Created[i]
              /\ headroom.provider /\ headroom.memory => Len(picked') = A!FreeSlots
  <1> DEFINE all == headroom.provider /\ headroom.memory
             n == Cardinality(eligible)
             q == A!Queue(eligible)
             m == IF Len(q) < A!FreeSlots THEN Len(q) ELSE A!FreeSlots
  <1>1. eligible \in SUBSET Backlog
    BY DEF PlanInv, PlanType, SortedOK, A!Fill
  <1>2. /\ n \in Nat /\ q \in [1..n -> eligible]
        /\ \A i \in eligible : A!Ahead(eligible, i) + 1 \in 1..n /\ q[A!Ahead(eligible, i) + 1] = i
        /\ \A k \in 1..n : A!Ahead(eligible, q[k]) = k - 1
    BY <1>1, QueueIs
  <1>3. A!FreeSlots \in Nat
    <2>1. A!InFlight \in SUBSET Backlog
      BY DEF A!InFlight
    <2>2. A!Cardinality(A!InFlight) \in Nat
      BY <2>1, BacklogAssumption, FS_Subset, FS_CardinalityType, SameCardinality
    <2> QED BY <2>2, BacklogAssumption DEF A!FreeSlots
  <1>4. picked' = IF all THEN SubSeq(q, 1, m) ELSE <<>>
    BY DEF A!Fill
  <1>5. \A i, j \in eligible : A!Before(i, j) => A!Ahead(eligible, i) < A!Ahead(eligible, j)
    BY <1>1, AheadIs
  <1>6. \A i \in eligible : A!Ahead(eligible, i) \in Nat
    BY <1>1, AheadIs
  <1> HIDE DEF n, q
  <1>7. q \in Seq(eligible) /\ Len(q) = n /\ DOMAIN q = 1..n
    BY <1>2
  <1>8. m \in 0..n /\ m <= A!FreeSlots /\ (m = n \/ m = A!FreeSlots)
    BY <1>2, <1>3, <1>7
  <1> HIDE DEF m
  <1>9. CASE ~all
    <2>1. A!Range(picked') = {}
      BY <1>4, <1>9 DEF A!Range
    <2> QED BY <1>9, <2>1
  <1>10. CASE all
    <2>1. /\ Len(picked') = m /\ \A k \in 1..m : picked'[k] = q[k]
          /\ picked' \in Seq(eligible)
      BY <1>2, <1>4, <1>7, <1>8, <1>10, SubSeqProperties
    <2>2. A!Range(picked') = {q[k] : k \in 1..m}
      BY <2>1 DEF A!Range
    <2>3. \A p \in A!Range(picked') : p \in eligible
      BY <1>2, <1>8, <2>2
    <2>4. ASSUME NEW i \in eligible, i \notin A!Range(picked')
          PROVE  Len(picked') = A!FreeSlots /\ \A p \in A!Range(picked') : Created[p] <= Created[i]
      <3>1. A!Ahead(eligible, i) + 1 \in 1..n /\ q[A!Ahead(eligible, i) + 1] = i
        BY <1>2
      <3>2. A!Ahead(eligible, i) + 1 > m
        BY <1>6, <1>8, <2>2, <2>4, <3>1
      <3>3. m = A!FreeSlots
        BY <1>2, <1>6, <1>8, <3>1, <3>2
      <3>4. ASSUME NEW p \in A!Range(picked') PROVE Created[p] <= Created[i]
        <4>1. PICK k \in 1..m : p = q[k]
          BY <2>2
        <4>2. p \in eligible /\ A!Ahead(eligible, p) = k - 1
          BY <1>2, <1>8, <4>1
        <4>3. A!Ahead(eligible, p) < A!Ahead(eligible, i)
          BY <1>6, <1>8, <3>2, <4>2
        <4>4. p # i /\ ~A!Before(i, p)
          BY <1>5, <1>6, <4>2, <4>3
        <4>5. A!Before(p, i)
          BY <1>1, <4>2, <4>4, BeforeIsOrder
        <4> QED BY <1>1, <4>2, <4>5, BeforeIsOrder
      <3> QED BY <2>1, <3>3, <3>4
    <2> QED BY <1>10, <2>3, <2>4
  <1> QED BY <1>9, <1>10

LEMMA FillKeepsPlan ==
  ASSUME PlanInv, A!Fill
  PROVE  PlanInv'
  <1> DEFINE all == headroom.provider /\ headroom.memory
  <1>1. /\ at = "gate" /\ left = {} /\ at' = "board" /\ UNCHANGED <<run, listed>>
        /\ eligible' = IF all THEN eligible ELSE {}
        /\ IF all THEN UNCHANGED excluded ELSE A!Excluding(eligible, A!Withheld)
    BY DEF A!Fill, A!hubVars
  <1>2. SortedOK /\ PlanType
    BY <1>1 DEF PlanInv
  <1>3. PlanType'
    BY <1>1, <1>2 DEF PlanType
  <1>4. A!Range(picked') \subseteq eligible'
    BY <1>1, FillPicks
  <1>5. CASE all
    BY <1>1, <1>2, <1>3, <1>4, <1>5 DEF PlanInv, SortedOK, Passes
  <1>6. CASE ~all
    <2>1. /\ eligible' = {} /\ DOMAIN excluded' = DOMAIN excluded \cup eligible
          /\ \A i \in DOMAIN excluded : excluded'[i] = excluded[i]
          /\ \A i \in eligible : excluded'[i] = A!Withheld
      BY <1>1, <1>2, <1>6 DEF A!Excluding, SortedOK
    <2>2. \A i \in eligible : ReasonOK(A!LabelVerdict(listed[i]), A!Withheld)
      BY <1>2 DEF ReasonOK, Reasons, SortedOK, Passes, A!Withheld
    <2>3. \A i \in DOMAIN excluded' : ReasonOK(A!LabelVerdict(listed[i]), excluded'[i])
      BY <1>2, <2>1, <2>2 DEF SortedOK
    <2>4. eligible' \cup DOMAIN excluded' = DOMAIN listed
      BY <1>1, <1>2, <2>1 DEF SortedOK
    <2>5. SortedOK'
      BY <1>1, <2>1, <2>3, <2>4 DEF SortedOK
    <2> QED BY <1>1, <1>3, <1>4, <2>5 DEF PlanInv
  <1> QED BY <1>5, <1>6

LEMMA LaunchKeepsPlan ==
  ASSUME PlanInv, A!Project \/ A!LaunchNext \/ A!TickEnds
  PROVE  PlanInv'
  <1>1. CASE A!Project
    BY <1>1 DEF A!Project, A!hubVars, PlanInv, PlanType
  <1>2. CASE A!LaunchNext
    <2>1. at = "launch" /\ at' = at /\ UNCHANGED listed
      BY <1>2 DEF A!LaunchNext
    <2>2. run' = [run EXCEPT ![Head(picked)] = "running"]
      BY <1>2 DEF A!LaunchNext
    <2>3. run' \in [Backlog -> RunStates]
      BY <2>2 DEF PlanInv, PlanType, RunStates
    <2> QED BY <2>1, <2>3 DEF PlanInv, PlanType
  <1>3. CASE A!TickEnds
    <2>1. at' = "idle" /\ DOMAIN listed' = {} /\ UNCHANGED run
      BY <1>3 DEF A!TickEnds, A!hubVars
    <2> QED BY <2>1 DEF PlanInv, PlanType
  <1> QED BY <1>1, <1>2, <1>3

LEMMA PlanInvIsKept ==
  ASSUME PlanInv, [Next]_vars
  PROVE  PlanInv'
  <1>1. CASE UNCHANGED admVars
    <2>1. UNCHANGED <<run, closed, at, listed, left, cache, eligible, excluded, picked, met, shut, refused>>
      BY <1>1 DEF admVars
    <2>2. at = "gate" => MetOK'
      BY <2>1 DEF PlanInv, MetOK, A!Satisfied
    <2> QED BY <2>1, <2>2, PlanStands DEF PlanInv, PlanType
  <1>2. CASE A!AdmNext
    BY <1>2, ListKeepsPlan, GateKeepsPlan, FillKeepsPlan, LaunchKeepsPlan, WorldKeepsPlan
       DEF A!AdmNext, A!TickStep, A!DaemonElse
  <1> QED BY <1>1, <1>2
       DEF Next, vars, AdmissionMoves, FleetMoves, NotifyMoves, OnlyFleet, OnlyNotify

(* A step from the gate to the board fills the slots.                      *)
LEMMA GateEndsInFill ==
  ASSUME A!AdmNext, at = "gate", at' = "board"
  PROVE  A!Fill
  BY DEF A!AdmNext, A!TickStep, A!DaemonElse, A!ListIssues, A!Gate, A!Project, A!LaunchNext,
         A!TickEnds, A!SessionEnds, A!Resume, A!HumanMerges, A!HeadroomMoves, A!Asked, A!Applied

LEMMA BoardEndsInProject ==
  ASSUME A!AdmNext, at = "board", at' = "launch"
  PROVE  A!Project
  BY DEF A!AdmNext, A!TickStep, A!DaemonElse, A!ListIssues, A!Gate, A!Fill, A!LaunchNext,
         A!TickEnds, A!SessionEnds, A!Resume, A!HumanMerges, A!HeadroomMoves, A!Asked, A!Applied


(* FairPick, for the step that fills the slots.                            *)
LEMMA FillIsFair ==
  ASSUME PlanInv, A!Fill
  PROVE  /\ \A p \in A!Range(picked') : /\ A!LabelVerdict(listed[p]) = "passes"
                                        /\ p \notin Foreign /\ Blockers[p] \subseteq met
         /\ \A i \in DOMAIN listed : A!Waiting(i) =>
              /\ \A p \in A!Range(picked') : Created[p] <= Created[i]
              /\ headroom.provider /\ headroom.memory => Len(picked') = A!FreeSlots
  <1>1. at = "gate" /\ left = {}
    BY DEF A!Fill
  <1>2. GateOK /\ SortedOK
    BY <1>1 DEF PlanInv
  <1>3. ASSUME NEW i \in DOMAIN listed, A!Waiting(i) PROVE i \in eligible /\ i \notin A!Range(picked')
    BY <1>1, <1>2, <1>3 DEF A!Waiting, GateOK, Passes
  <1> QED BY <1>2, <1>3, FillPicks DEF GateOK, SortedOK, Passes

\* The lists the board shows an issue on.
ListsOf(i) == {list \in DOMAIN board' : i \in board'[list]}

(* The board has each waiting issue on one list.                           *)
LEMMA ListsAre ==
  ASSUME PlanInv, A!Project, NEW i \in DOMAIN listed
  PROVE  A!Cardinality(ListsOf(i)) = IF A!Shown(i) THEN 1 ELSE 0
  <1> DEFINE ls == listed[i]
             why == excluded[i]
             moded == A!DepVerdict(i, A!StillOpen(i))
  <1>1. /\ board' = [eligible |-> eligible,
                     blocked |-> {x \in DOMAIN excluded : excluded[x] = "blocked"}
                                   \cup {x \in A!Unmoded : A!DepVerdict(x, A!StillOpen(x)) = "blocked"},
                     moding |-> {x \in A!Unmoded : A!DepVerdict(x, A!StillOpen(x)) = "passes"},
                     paused |-> {x \in DOMAIN listed : listed[x] \cap A!PausedStates # {}},
                     manualHolds |-> A!ManualHolds,
                     noProvider |-> {x \in DOMAIN excluded : excluded[x] = "no-provider"}]
        /\ at = "board"
    BY DEF A!Project
  <1>2. SortedOK
    BY <1>1 DEF PlanInv
  <1>3. /\ DOMAIN board' = {"eligible", "blocked", "moding", "paused", "manualHolds", "noProvider"}
        /\ i \in board'["eligible"] <=> i \in eligible
        /\ i \in board'["blocked"] <=> \/ i \in DOMAIN excluded /\ why = "blocked"
                                       \/ i \in DOMAIN excluded /\ why = "no-mode" /\ moded = "blocked"
        /\ i \in board'["moding"] <=> i \in DOMAIN excluded /\ why = "no-mode" /\ moded = "passes"
        /\ i \in board'["paused"] <=> ls \cap A!PausedStates # {}
        /\ i \in board'["manualHolds"] <=> {"ready", "hitl"} \subseteq ls /\ ls \cap A!PausedStates = {}
        /\ i \in board'["noProvider"] <=> i \in DOMAIN excluded /\ why = "no-provider"
    BY <1>1 DEF A!Unmoded, A!ManualHolds
  <1>4. moded \in {"blocked", "passes"}
    BY DEF A!DepVerdict
  <1> HIDE DEF moded
  <1>5. /\ i \in eligible => A!LabelVerdict(ls) = "passes" /\ i \notin DOMAIN excluded
        /\ i \in DOMAIN excluded => ReasonOK(A!LabelVerdict(ls), why)
        /\ i \in eligible \/ i \in DOMAIN excluded
    BY <1>1, <1>2 DEF SortedOK, Passes
  <1>6. A!LabelVerdict(ls) \in {"passes", "no-mode"} <=>
          {"ready", "afk"} \subseteq ls /\ "hitl" \notin ls /\ ls \cap A!PausedLabels = {}
    BY VerdictIs
  <1>7. A!PausedStates \subseteq A!PausedLabels
    BY DEF A!PausedLabels
  <1>8. A!Shown(i) <=> \/ ls \cap A!PausedStates # {} \/ {"ready", "hitl"} \subseteq ls
                       \/ /\ {"ready", "afk"} \subseteq ls /\ ls \cap A!PausedLabels = {}
                          /\ i \in DOMAIN excluded => why \notin {"in-flight", "held", "no-memory"}
    BY DEF A!Shown
  <1> HIDE DEF ls, why
  <1>a. /\ A!Cardinality({}) = 0 /\ \A x : A!Cardinality({x}) = 1
    BY FS_EmptySet, FS_Singleton, SameCardinality
  <1>b. ASSUME NEW x, ListsOf(i) = {x}, A!Shown(i)
        PROVE  A!Cardinality(ListsOf(i)) = IF A!Shown(i) THEN 1 ELSE 0
    BY <1>a, <1>b
  <1>c. ASSUME ListsOf(i) = {}, ~A!Shown(i)
        PROVE  A!Cardinality(ListsOf(i)) = IF A!Shown(i) THEN 1 ELSE 0
    BY <1>a, <1>c
  <1>9. CASE ls \cap A!PausedStates # {}
    <2>1. A!LabelVerdict(ls) \notin {"passes", "no-mode"}
      BY <1>6, <1>7, <1>9
    <2>2. ListsOf(i) = {"paused"}
      BY <1>3, <1>5, <1>9, <2>1 DEF ListsOf, ReasonOK
    <2> QED BY <1>8, <1>9, <1>b, <2>2
  <1>10. CASE ls \cap A!PausedStates = {} /\ {"ready", "hitl"} \subseteq ls
    <2>1. A!LabelVerdict(ls) \notin {"passes", "no-mode"}
      BY <1>6, <1>10
    <2>2. ListsOf(i) = {"manualHolds"}
      BY <1>3, <1>5, <1>10, <2>1 DEF ListsOf, ReasonOK
    <2> QED BY <1>8, <1>10, <1>b, <2>2
  <1>11. CASE /\ ls \cap A!PausedStates = {} /\ ~({"ready", "hitl"} \subseteq ls)
              /\ A!LabelVerdict(ls) \notin {"passes", "no-mode"}
    <2>1. ListsOf(i) = {}
      BY <1>3, <1>5, <1>11 DEF ListsOf, ReasonOK
    <2>2. ~A!Shown(i)
      BY <1>6, <1>8, <1>11
    <2> QED BY <1>c, <2>1, <2>2
  <1>12. CASE /\ ls \cap A!PausedStates = {} /\ ~({"ready", "hitl"} \subseteq ls)
              /\ A!LabelVerdict(ls) \in {"passes", "no-mode"}
    <2>1. A!Shown(i) <=> (i \in DOMAIN excluded => why \notin {"in-flight", "held", "no-memory"})
      BY <1>6, <1>8, <1>12
    <2>2. CASE i \in eligible
      <3>1. ListsOf(i) = {"eligible"}
        BY <1>3, <1>5, <1>12, <2>2 DEF ListsOf
      <3> QED BY <1>5, <1>b, <2>1, <2>2, <3>1
    <2>3. CASE i \notin eligible /\ why \in {"in-flight", "held", "no-memory"}
      <3>1. ListsOf(i) = {}
        BY <1>3, <1>12, <2>3 DEF ListsOf
      <3> QED BY <1>5, <1>c, <2>1, <2>3, <3>1
    <2>4. CASE i \notin eligible /\ why \in {"blocked", "no-provider"}
      <3>1. ListsOf(i) = {IF why = "blocked" THEN "blocked" ELSE "noProvider"}
        BY <1>3, <1>5, <1>12, <2>4 DEF ListsOf
      <3> QED BY <1>b, <2>1, <2>4, <3>1
    <2>5. CASE i \notin eligible /\ why = "no-mode"
      <3>1. ListsOf(i) = {IF moded = "blocked" THEN "blocked" ELSE "moding"}
        BY <1>3, <1>4, <1>5, <1>12, <2>5 DEF ListsOf
      <3> QED BY <1>b, <2>1, <2>5, <3>1
    <2>6. why \in {"in-flight", "held", "no-memory", "blocked", "no-provider", "no-mode"} \/ i \in eligible
      BY <1>5, <1>12 DEF ReasonOK, Reasons
    <2> QED BY <2>2, <2>3, <2>4, <2>5, <2>6
  <1> QED BY <1>9, <1>10, <1>11, <1>12

(* The tick launches the oldest of what passes its gate, with every slot   *)
(* filled, whatever moves meanwhile; the board shows each waiting issue    *)
(* once, and what is about to be launched as eligible.                     *)
THEOREM PicksAreFair == Spec => PlanHolds
  <1>1. Init => PlanInv
    BY DEF Init, A!AdmInit, PlanInv, PlanType, RunStates
  <1>2. PlanInv /\ [Next]_vars => PlanInv'
    BY PlanInvIsKept
  <1>3. ASSUME PlanInv, [Next]_vars
        PROVE  [at = "gate" /\ at' = "board" =>
                  /\ \A p \in A!Range(picked') : /\ A!LabelVerdict(listed[p]) = "passes"
                                                 /\ p \notin Foreign /\ Blockers[p] \subseteq met
                  /\ \A i \in DOMAIN listed : A!Waiting(i) =>
                       /\ \A p \in A!Range(picked') : Created[p] <= Created[i]
                       /\ headroom.provider /\ headroom.memory => Len(picked') = A!FreeSlots]_(A!admVars)
    <2>1. CASE at = "gate" /\ at' = "board"
      <3>1. A!AdmNext
        BY <1>3, <2>1 DEF Next, vars, AdmissionMoves, FleetMoves, NotifyMoves, OnlyFleet, OnlyNotify, admVars
      <3> QED BY <1>3, <2>1, <3>1, GateEndsInFill, FillIsFair
    <2>2. CASE ~(at = "gate" /\ at' = "board")
      BY <2>2
    <2> QED BY <2>1, <2>2
  <1>4. ASSUME PlanInv, [Next]_vars
        PROVE  [at = "board" /\ at' = "launch" =>
                  /\ A!Range(picked) \subseteq board'.eligible
                  /\ \A i \in DOMAIN listed :
                       A!Cardinality({list \in DOMAIN board' : i \in board'[list]})
                         = IF A!Shown(i) THEN 1 ELSE 0]_(A!admVars)
    <2>1. CASE at = "board" /\ at' = "launch"
      <3>1. A!AdmNext
        BY <1>4, <2>1 DEF Next, vars, AdmissionMoves, FleetMoves, NotifyMoves, OnlyFleet, OnlyNotify, admVars
      <3>2. A!Project
        BY <2>1, <3>1, BoardEndsInProject
      <3>3. A!Range(picked) \subseteq eligible /\ board'.eligible = eligible
        BY <1>4, <2>1, <3>2 DEF PlanInv, A!Project
      <3> QED BY <1>4, <3>2, <3>3, ListsAre DEF ListsOf
    <2>2. CASE ~(at = "board" /\ at' = "launch")
      BY <2>2
    <2> QED BY <2>1, <2>2
  <1> QED BY <1>1, <1>2, <1>3, <1>4, PTL DEF Spec, PlanHolds, A!FairPick, A!BoardIsWhole

-----------------------------------------------------------------------------
(* The login a meter selects.                                              *)

Pool == ToSet(Logins)
Meters == [active : Pool, since : Nat]

LEMMA PlacesAre ==
  ASSUME NEW a \in Pool
  PROVE  PlaceOf(a) \in 1..Len(Logins) /\ Len(Logins) \in Nat
BY PoolAssumption DEF Pool, ToSet, PlaceOf

LEMMA EarliestIn ==
  ASSUME NEW ids \in SUBSET Pool, ids # {}
  PROVE  Earliest(ids) \in ids
<1> DEFINE S == {PlaceOf(a) : a \in ids}
<1>1. S \in SUBSET Nat /\ S # {}
  BY PlacesAre
<1>2. PICK m \in S : \A n \in S : m <= n
  <2> HIDE DEF S
  <2>. QED  BY <1>1, LeastOf
<1>3. PICK a \in ids : m = PlaceOf(a)
  OBVIOUS
<1>4. \E c \in ids : \A b \in ids : PlaceOf(c) <= PlaceOf(b)
  BY <1>2, <1>3
<1>. QED  BY <1>4 DEF Earliest

LEMMA FollowingIn ==
  ASSUME NEW ids \in SUBSET Pool, ids # {}, NEW from \in Pool
  PROVE  Following(ids, from) \in ids
<1>1. \A a \in ids : Ahead(from, a) \in Nat
  BY PlacesAre DEF Ahead
<1> DEFINE S == {Ahead(from, a) : a \in ids}
<1>2. S \in SUBSET Nat /\ S # {}
  BY <1>1
<1>3. PICK m \in S : \A n \in S : m <= n
  <2> HIDE DEF S
  <2>. QED  BY <1>2, LeastOf
<1>4. PICK a \in ids : m = Ahead(from, a)
  OBVIOUS
<1>5. \E c \in ids : \A b \in ids : Ahead(from, c) <= Ahead(from, b)
  BY <1>3, <1>4
<1>. QED  BY <1>5 DEF Following

\* One of the logins asked for, and one with headroom if any of them has.
LEMMA SelectsHeadroom ==
  ASSUME NEW ids \in SUBSET Pool, NEW u, NEW m \in Meters
  PROVE  /\ Selected(ids, u, m) \in Meters
         /\ ids # {} => Selected(ids, u, m).active \in ids
         /\ ids # {} /\ Gated(u[Selected(ids, u, m).active]) => \A a \in ids : Gated(u[a])
<1>1. CASE ids = {}
  BY <1>1 DEF Selected
<1>2. CASE ids # {}
  <2> DEFINE active == IF m.active \in ids THEN m.active ELSE Earliest(ids)
             due == m.since >= RotateEvery
             free == {a \in Others(ids, active) : ~Gated(u[a])}
  <2>1. active \in ids
    BY <1>2, EarliestIn
  <2>2. CASE ids = {active}
    <3>1. Selected(ids, u, m) = [m EXCEPT !.active = active]
      BY <1>2, <2>2 DEF Selected
    <3> HIDE DEF active
    <3>. QED  BY <2>1, <2>2, <3>1 DEF Meters
  <2>3. CASE ids # {active} /\ (due \/ Gated(u[active])) /\ free # {}
    <3>1. Selected(ids, u, m) = [active |-> Following(free, active), since |-> 0]
      BY <1>2, <2>3 DEF Selected
    <3>2. free \in SUBSET ids /\ \A a \in free : ~Gated(u[a])
      BY DEF Others
    <3> HIDE DEF active, free
    <3>3. Following(free, active) \in free
      BY <2>1, <2>3, <3>2, FollowingIn
    <3>. QED  BY <3>1, <3>2, <3>3 DEF Meters
  <2>4. CASE ids # {active} /\ ~((due \/ Gated(u[active])) /\ free # {})
    <3>1. Selected(ids, u, m) = [active |-> active, since |-> IF due /\ ids # {active} THEN 0 ELSE m.since]
      BY <1>2, <2>4 DEF Selected
    <3>2. Gated(u[active]) => \A a \in ids : Gated(u[a])
      BY <2>4 DEF Others
    <3> HIDE DEF active, free, due
    <3>. QED  BY <1>2, <2>1, <3>1, <3>2 DEF Meters
  <2>. QED  BY <2>2, <2>3, <2>4
<1>. QED  BY <1>1, <1>2

-----------------------------------------------------------------------------
(* What is known of an account's usage.                                    *)

Utils == {"absent", "none", "low", "high"}
Lefts == {n \in Int : n >= Unknown}
Usages == [win : [WindowTypes -> [util : Utils, left : Lefts]], cool : Nat]

LEMMA UsagesAre ==
  /\ EmptyUsage \in Usages
  /\ Aged(EmptyUsage) = EmptyUsage
  /\ \A s \in Usages : Aged(s) \in Usages
  /\ \A s \in Usages, sig \in Signals : Recorded(s, sig) \in Usages
<1>1. EmptyUsage \in Usages
  BY DEF EmptyUsage, Blank, Usages, Utils, Lefts, Unknown
<1>2. Aged(EmptyUsage) = EmptyUsage
  BY DEF EmptyUsage, Blank, Aged, Passed
<1>3. ASSUME NEW s \in Usages PROVE Aged(s) \in Usages
  BY DEF Aged, Passed, Usages, Lefts, Unknown
<1>4. ASSUME NEW s \in Usages, NEW sig \in Signals PROVE Recorded(s, sig) \in Usages
  <2>1. /\ sig.reset \in Nat /\ sig.util \in {"none", "low", "high"} /\ DefaultRest \in Nat
    BY SignalsAssumption
  <2>2. \A w \in WindowTypes : Window(s.win[w], sig) \in [util : Utils, left : Lefts]
    BY <2>1 DEF Window, Usages, Utils, Lefts, Unknown
  <2>3. Later(s.cool, IF sig.reset > 0 THEN sig.reset ELSE DefaultRest) \in Nat
    BY <2>1 DEF Later, Usages
  <2>. QED  BY <2>2, <2>3 DEF Recorded, Usages
<1>. QED  BY <1>1, <1>2, <1>3, <1>4

-----------------------------------------------------------------------------
(* The config.                                                             *)

Configs == [provider : {"claude"}, tiers : TierRoutes, disabled : SUBSET Accounts, whole : BOOLEAN,
            types : [Types -> Lists]]

RoutingInv ==
  /\ cfg \in Configs /\ cfg.whole /\ Valid(cfg)
  /\ file.whole => file = cfg
  /\ loggedIn \in SUBSET Pool
  /\ meter \in Meters
  /\ usage \in [Accounts -> Usages]
  /\ BlameIsOwn

\* A lane's list names a provider, and a valid config has what each of them needs.
LEMMA ListsName ==
  ASSUME NEW c \in Configs, NEW t \in Types \cup {"master"}, NEW phase \in 0..2, NEW tier \in 0..3
  PROVE  Preference(c, t, phase, tier) \in Seq(Providers) /\ Preference(c, t, phase, tier) # <<>>
<1>1. \A k \in 1..3 : c.tiers[k] \in Seq(Providers)
  BY RoutesAssumption DEF Configs, Lists
<1>2. t \in Types => \A k \in 1..3 : c.types[t][k] \in Seq(Providers)
  BY DEF Configs, Lists
<1>3. <<c.provider>> \in Seq(Providers) /\ <<c.provider>> # <<>>
  <2>1. c.provider \in Providers
    BY DEF Configs, Providers
  <2>2. ASSUME NEW x \in Providers PROVE <<x>> \in Seq(Providers) /\ <<x>> # <<>>
    OBVIOUS
  <2>. QED  BY <2>1, <2>2
<1>4. TypeList(c, t, phase) \in Seq(Providers) /\ TypeList(c, t, phase) # <<>>
  <2>1. CASE t = "master"
    BY <1>3, <2>1 DEF TypeList
  <2>2. CASE t # "master"
    <3> DEFINE r == c.types[t]
    <3>1. r[1] \in Seq(Providers) /\ r[phase + 1] \in Seq(Providers)
      BY <1>2, <2>2
    <3>2. TypeList(c, t, phase) =
            CASE phase > 0 /\ r[phase + 1] # <<>> -> r[phase + 1]
              [] r[1] # <<>> /\ ~(phase > 0 /\ r[phase + 1] # <<>>) -> r[1]
              [] OTHER -> <<c.provider>>
      BY <2>2 DEF TypeList
    <3> HIDE DEF r
    <3>. QED  BY <1>3, <3>1, <3>2
  <2>. QED  BY <2>1, <2>2
<1>. QED  BY <1>1, <1>4 DEF Preference, Governs

LEMMA PickedIs ==
  ASSUME RoutingInv
  PROVE  /\ Picked \in Meters
         /\ EnabledIds(cfg) # {} => Picked.active \in EnabledIds(cfg)
         /\ EnabledIds(cfg) # {} /\ Gated(usage[Picked.active]) => \A a \in EnabledIds(cfg) : Gated(usage[a])
BY SelectsHeadroom DEF RoutingInv, EnabledIds, Picked

\* A list is served once a provider of it may serve and has an account.
LEMMA ResolvesIf ==
  ASSUME NEW t, NEW list \in Seq(Providers), NEW p \in ToSet(list), CapabilityOk(t, p), Acquire(p) # {}
  PROVE  Resolve(t, list) # {}
<1> DEFINE able == {i \in DOMAIN list : CapabilityOk(t, list[i]) /\ Acquire(list[i]) # {}}
<1>1. able \in SUBSET Nat /\ able # {}
  <2>1. DOMAIN list = 1..Len(list) /\ Len(list) \in Nat
    OBVIOUS
  <2>2. PICK i \in DOMAIN list : p = list[i]
    BY DEF ToSet
  <2>3. i \in able
    BY <2>2
  <2>4. able \subseteq DOMAIN list
    OBVIOUS
  <2> HIDE DEF able
  <2>. QED  BY <2>1, <2>3, <2>4
<1>2. \E i \in able : \A j \in able : i <= j
  <2> HIDE DEF able
  <2>. QED  BY <1>1, LeastOf
<1>3. Resolve(t, list) = Acquire(list[CHOOSE i \in able : \A j \in able : i <= j])
  BY <1>1 DEF Resolve
<1>4. (CHOOSE i \in able : \A j \in able : i <= j) \in able
  <2> HIDE DEF able
  <2>. QED  BY <1>2
<1>. QED  BY <1>3, <1>4

\* What a valid config leaves enabled, a dispatch acquires.
LEMMA Acquires ==
  ASSUME RoutingInv, NEW p, AccountsOf(p) \ cfg.disabled # {}
  PROVE  Acquire(p) # {} \/ (EnabledIds(cfg) = {} /\ p = "claude")
BY PickedIs DEF Acquire, EnabledIds

LEMMA LanesServed == RoutingInv => DispatchServed
<1> SUFFICES ASSUME RoutingInv, NEW lane \in Lanes
             PROVE  \/ Resolve(lane[1], lane[2]) # {}
                    \/ EnabledIds(cfg) = {} /\ "claude" \in ToSet(lane[2])
  BY DEF DispatchServed
<1>0. cfg \in Configs /\ Valid(cfg)
  BY DEF RoutingInv
<1>1. ASSUME NEW t \in Types, NEW phase \in 0..2, NEW tier \in 0..3, lane = <<t, Preference(cfg, t, phase, tier)>>
      PROVE  \/ Resolve(lane[1], lane[2]) # {}
             \/ EnabledIds(cfg) = {} /\ "claude" \in ToSet(lane[2])
  <2> DEFINE list == Preference(cfg, t, phase, tier)
  <2>1. list \in Seq(Providers) /\ list # <<>>
    BY <1>0, ListsName
  <2>2. ToSet(list) \subseteq Selectable(cfg, t)
    BY DEF Selectable
  <2>3. lane[1] = t /\ lane[2] = list
    BY <1>1
  <2> HIDE DEF list
  <2>4. list[1] \in ToSet(list)
    BY <2>1 DEF ToSet
  <2>5. CapabilityOk(t, list[1]) /\ AccountsOf(list[1]) \ cfg.disabled # {}
    BY <1>0, <2>2, <2>4 DEF Valid
  <2>. QED  BY <2>1, <2>3, <2>4, <2>5, Acquires, ResolvesIf
<1>2. ASSUME ~MasterUnset, lane = <<"master", Preference(cfg, "master", 0, 1)>>
      PROVE  \/ Resolve(lane[1], lane[2]) # {}
             \/ EnabledIds(cfg) = {} /\ "claude" \in ToSet(lane[2])
  <2> DEFINE list == cfg.tiers[1]
  <2>1. list # <<>> /\ \E p \in ToSet(list) : p \in Capable
    BY <1>2 DEF MasterUnset
  <2>2. lane[1] = "master" /\ lane[2] = list
    BY <1>2, <2>1 DEF Preference, Governs
  <2>3. list \in Seq(Providers)
    BY <1>0, RoutesAssumption DEF Configs, Lists
  <2>4. Preference(cfg, "impl", 0, 1) = list
    BY <2>1 DEF Preference, Governs
  <2>5. ToSet(list) \subseteq Selectable(cfg, "impl")
    BY <2>4 DEF Selectable
  <2> HIDE DEF list
  <2>6. PICK p \in ToSet(list) : p \in Capable
    BY <2>1
  <2>7. CapabilityOk("master", p) /\ AccountsOf(p) \ cfg.disabled # {}
    BY <1>0, <2>5, <2>6, RoutesAssumption DEF Valid, CapabilityOk
  <2>. QED  BY <2>2, <2>3, <2>6, <2>7, Acquires, ResolvesIf
<1>. QED  BY <1>1, <1>2 DEF Lanes

-----------------------------------------------------------------------------
(* The steps.                                                              *)

LEMMA MeterKeeps ==
  ASSUME RoutingInv, UNCHANGED <<cfg, file, loggedIn>>, meter' \in Meters, usage' \in [Accounts -> Usages], BlameIsOwn'
  PROVE  RoutingInv'
BY DEF RoutingInv, Valid, Selectable, Preference, TypeList, Governs, CapabilityOk, NeedsTools, AccountsOf

\* A config that is committed replaces both, or neither, or leaves a file cut short.
LEMMA CommitKeeps ==
  ASSUME RoutingInv, NEW c \in Configs, c.whole, Edited(c)
  PROVE  RoutingInv'
<1>1. UNCHANGED <<loggedIn, meter, usage, reported>>
  BY DEF Edited
<1>2. CASE UNCHANGED <<cfg, file>>
  BY <1>1, <1>2, MeterKeeps DEF RoutingInv, BlameIsOwn
<1>3. CASE Valid(c) /\ cfg' = c /\ (file' = c \/ ~file'.whole)
  BY <1>1, <1>3 DEF RoutingInv, BlameIsOwn
<1>4. CASE Valid(c) /\ file' = [cfg EXCEPT !.whole = FALSE] /\ UNCHANGED cfg
  <2>1. file'.whole = FALSE
    BY <1>4 DEF RoutingInv, Configs
  <2>. QED  BY <1>1, <1>4, <2>1 DEF RoutingInv, BlameIsOwn
<1>. QED  BY <1>2, <1>3, <1>4 DEF Edited, Commit

LEMMA RoutingStep == RoutingInv /\ [RoutingNext]_routingVars => RoutingInv'
<1> SUFFICES ASSUME RoutingInv, [RoutingNext]_routingVars PROVE RoutingInv'
  OBVIOUS
<1>1. CASE Pass \/ Dispatch
  BY <1>1, PickedIs, MeterKeeps DEF Pass, Dispatch, RoutingInv, BlameIsOwn
<1>2. CASE Signal
  <2>1. PICK a \in running, sig \in Signals :
          usage' = [usage EXCEPT ![Blamed(a)] = Recorded(@, sig)] /\ reported' = reported \cup {a}
    BY <1>2 DEF Signal
  <2>2. UNCHANGED <<cfg, file, loggedIn, meter>> /\ usage \in [Accounts -> Usages]
    BY <1>2 DEF Signal, RoutingInv
  <2>3. usage' \in [Accounts -> Usages]
    BY <2>1, <2>2, UsagesAre DEF Blamed
  <2>4. \A b \in Accounts : b # a => usage'[b] = usage[b]
    BY <2>1, <2>2 DEF Blamed
  <2>. QED  BY <2>1, <2>2, <2>3, <2>4, MeterKeeps DEF RoutingInv, BlameIsOwn
<1>3. CASE SessionOver
  BY <1>3, MeterKeeps DEF SessionOver, RoutingInv, BlameIsOwn
<1>4. CASE Clock
  <2>1. UNCHANGED <<cfg, file, loggedIn, reported>> /\ usage' = [a \in Accounts |-> Aged(usage[a])]
    BY <1>4 DEF Clock
  <2>2. meter' \in Meters
    BY <1>4 DEF Clock, RoutingInv, Meters
  <2>3. usage' \in [Accounts -> Usages] /\ \A a \in Accounts : usage'[a] # EmptyUsage => usage[a] # EmptyUsage
    BY <2>1, UsagesAre DEF RoutingInv
  <2>. QED  BY <2>1, <2>2, <2>3, MeterKeeps DEF RoutingInv, BlameIsOwn
<1>5. CASE EditType
  <2>1. PICK d \in Drafts : Edited([cfg EXCEPT !.types[d.type] = d.routing])
    BY <1>5 DEF EditType
  <2>2. [cfg EXCEPT !.types[d.type] = d.routing] \in Configs /\ [cfg EXCEPT !.types[d.type] = d.routing].whole
    BY RoutesAssumption DEF RoutingInv, Configs
  <2>. QED  BY <2>1, <2>2, CommitKeeps
<1>6. CASE EditAccount
  <2>1. PICK a \in Accounts, enabled \in BOOLEAN :
          Edited([cfg EXCEPT !.disabled = IF enabled THEN @ \ {a} ELSE @ \cup {a}])
    BY <1>6 DEF EditAccount
  <2> DEFINE c == [cfg EXCEPT !.disabled = IF enabled THEN @ \ {a} ELSE @ \cup {a}]
  <2>2. c \in Configs /\ c.whole
    BY DEF RoutingInv, Configs
  <2>. QED  BY <2>1, <2>2, CommitKeeps
<1>7. CASE Stop
  <2>1. Logins[1] \in Pool
    BY PoolAssumption DEF Pool, ToSet
  <2>2. UNCHANGED <<cfg, file, loggedIn>> /\ meter' = [active |-> Logins[1], since |-> 0]
        /\ usage' = [a \in Accounts |-> EmptyUsage]
    BY <1>7 DEF Stop
  <2>. QED  BY <2>1, <2>2, UsagesAre, MeterKeeps DEF Meters, BlameIsOwn
<1>8. CASE Start
  <2>1. /\ file.whole /\ cfg' = file /\ loggedIn' \in SUBSET Pool /\ loggedIn' # {}
        /\ meter' = FirstOf(loggedIn') /\ UNCHANGED <<file, usage, reported>>
    BY <1>8 DEF Start, Pool
  <2>2. meter' \in Meters
    BY <2>1, EarliestIn DEF FirstOf, Meters
  <2>. QED  BY <2>1, <2>2 DEF RoutingInv, BlameIsOwn
<1>9. CASE UNCHANGED routingVars
  BY <1>9, MeterKeeps DEF routingVars, RoutingInv, BlameIsOwn
<1>. QED  BY <1>1, <1>2, <1>3, <1>4, <1>5, <1>6, <1>7, <1>8, <1>9 DEF RoutingNext

LEMMA RoutingStarts == RoutingInit => RoutingInv
<1> SUFFICES ASSUME RoutingInit PROVE RoutingInv
  OBVIOUS
<1>1. cfg \in Configs /\ cfg.whole /\ Valid(cfg) /\ file = cfg
  <2>1. <<<<>>, <<>>, <<>>>> \in Lists
    <3>1. <<>> \in Seq(Providers)
      OBVIOUS
    <3>2. ASSUME NEW x \in Seq(Providers) PROVE <<x, x, x>> \in [1..3 -> Seq(Providers)]
      OBVIOUS
    <3>. QED  BY <3>1, <3>2 DEF Lists
  <2>. QED  BY <2>1 DEF RoutingInit, Configs
<1>2. loggedIn = Pool /\ Pool # {} /\ meter = FirstOf(loggedIn)
  BY PoolAssumption DEF RoutingInit, Pool, ToSet
<1>3. meter \in Meters
  BY <1>2, EarliestIn DEF FirstOf, Meters
<1>. QED  BY <1>1, <1>2, <1>3, UsagesAre DEF RoutingInit, RoutingInv, BlameIsOwn

(* A dispatch finds a login with headroom when one has it, no lane of a    *)
(* config that boots or is committed waits for a provider, and usage is    *)
(* booked on the account whose session reported it (usage-meter.ts,        *)
(* resolve.ts, daemon.ts).                                                 *)
THEOREM DispatchIsServed == RoutingSpec => []DispatchHolds
<1>1. RoutingInv => DispatchHolds
  BY PickedIs, LanesServed DEF DispatchHolds, HeadroomFound, RoutingInv
<1>. QED
  BY <1>1, RoutingStarts, RoutingStep, PTL DEF RoutingSpec

(* The config in memory is the one the next start loads, and that one      *)
(* boots, unless its file was cut short (routing-store.ts).                *)
THEOREM EditsAreKept == RoutingSpec => []EditsLast
<1>1. RoutingInv => EditsLast
  BY DEF RoutingInv, EditsLast
<1>. QED
  BY <1>1, RoutingStarts, RoutingStep, PTL DEF RoutingSpec

-----------------------------------------------------------------------------
(* The time shown for a shut gate.                                         *)

LEMMA ResetsAre ==
  ASSUME NEW s \in Usages, NEW n \in Resets(s) PROVE n \in Int /\ n >= 1
<1>1. s.cool \in Nat /\ \A w \in WindowTypes : s.win[w].left \in Int
  BY DEF Usages, Lefts
<1>2. Hot(s) \subseteq WindowTypes
  BY DEF Hot, Live
<1>. QED  BY <1>1, <1>2 DEF Resets

\* What a tick frees would have been freed within the tick.
LEMMA FreesNow ==
  ASSUME NEW s \in Usages, Gated(s), ~Gated(Aged(s)) PROVE 1 \in Resets(s)
<1>1. /\ s.cool \in Nat
      /\ \A w \in WindowTypes : s.win[w].left \in Lefts /\ s.win[w].util \in Utils
  BY DEF Usages
<1>2. /\ Aged(s).cool = Passed(s.cool)
      /\ \A w \in WindowTypes : /\ Aged(s).win[w].left = Passed(s.win[w].left)
                               /\ Aged(s).win[w].util = s.win[w].util
  BY DEF Aged, Usages
<1>3. Hot(Aged(s)) = {} /\ ~(Aged(s).cool > 0 /\ Live(Aged(s)) = {})
  BY DEF Gated
<1>4. CASE Hot(s) # {}
  <2>1. PICK w \in Hot(s) : TRUE
    BY <1>4
  <2>2. w \in WindowTypes /\ s.win[w].util = "high" /\ s.win[w].left # 0
    BY <2>1 DEF Hot, Live
  <2>3. Aged(s).win[w].left = 0
    BY <1>2, <1>3, <2>2 DEF Hot, Live
  <2>4. s.win[w].left = 1
    BY <1>1, <1>2, <2>2, <2>3 DEF Passed, Lefts, Unknown
  <2>. QED  BY <2>1, <2>4 DEF Resets
<1>5. CASE Hot(s) = {}
  <2>1. s.cool > 0 /\ Live(s) = {}
    BY <1>5 DEF Gated
  <2>2. Live(Aged(s)) = {}
    BY <1>1, <1>2, <2>1 DEF Live, Passed, Lefts, Unknown
  <2>3. ~(Aged(s).cool > 0)
    BY <1>3, <2>2
  <2>4. s.cool = 1
    BY <1>1, <1>2, <2>1, <2>3 DEF Passed
  <2>. QED  BY <2>4 DEF Resets
<1>. QED  BY <1>4, <1>5

(* The time shown for a shut gate is the tick in which it opens: every     *)
(* login was out of headroom, and what frees one of them was the earliest  *)
(* of the resets shown (usage.ts, implProviderResetsAt of daemon.ts).      *)
THEOREM EtaIsRight == RoutingSpec => EtaNotLate
<1>1. RoutingInv /\ RoutingInv' /\ [RoutingNext]_routingVars =>
        [Clock /\ ClaudeShut /\ ~ClaudeShut' => Eta = 1]_routingVars
  <2> SUFFICES ASSUME RoutingInv, RoutingInv', Clock, ClaudeShut, ~ClaudeShut' PROVE Eta = 1
    OBVIOUS
  <2> DEFINE ids == EnabledIds(cfg)
             all == UNION {Resets(usage[a]) : a \in ids}
  <2>1. UNCHANGED <<cfg, loggedIn>> /\ \A a \in Accounts : usage'[a] = Aged(usage[a])
    BY DEF Clock
  <2>2. ids # {} /\ EnabledIds(cfg)' = ids /\ ids \subseteq Accounts
    BY <2>1 DEF ClaudeShut, Shut, EnabledIds, RoutingInv, Accounts, Pool
  <2>3. \A a \in ids : Gated(usage[a])
    BY <2>2, PickedIs DEF ClaudeShut, Shut, Picked
  <2>4. Picked'.active \in ids /\ ~Gated(usage'[Picked'.active])
    <3>1. Picked' = Selected(ids, usage', meter') /\ ids \in SUBSET Pool /\ meter' \in Meters
      BY <2>2 DEF Picked, RoutingInv, EnabledIds
    <3>2. ~Shut(ids, usage', meter')
      BY <2>2 DEF ClaudeShut
    <3> HIDE DEF ids
    <3>. QED  BY <2>2, <3>1, <3>2, SelectsHeadroom DEF Shut
  <2> HIDE DEF ids
  <2>5. PICK a \in ids : Gated(usage[a]) /\ ~Gated(Aged(usage[a])) /\ usage[a] \in Usages
    BY <2>1, <2>2, <2>3, <2>4 DEF RoutingInv
  <2>6. 1 \in all
    BY <2>5, FreesNow
  <2>7. \A n \in all : n \in Int /\ n >= 1
    BY <2>2, ResetsAre DEF RoutingInv
  <2>8. Eta = CHOOSE n \in all : \A m \in all : n <= m
    BY <2>6 DEF Eta, ids
  <2> HIDE DEF all
  <2>9. PICK n \in all : n = Eta /\ \A m \in all : n <= m
    BY <2>6, <2>7, <2>8
  <2>. QED  BY <2>6, <2>7, <2>9
<1>. QED
  BY <1>1, RoutingStarts, RoutingStep, PTL DEF RoutingSpec, EtaNotLate

=============================================================================
