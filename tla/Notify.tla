------------------------------- MODULE Notify -------------------------------
(***************************************************************************)
(* The notification sink (notify/): a tail of the event log that decides   *)
(* batch by batch what to page, and a probe that pages a stalled loop.     *)
(***************************************************************************)
EXTENDS Naturals, Sequences, FiniteSets

CONSTANTS Paged,        \* issues whose facts are committed
          BatchSize,    \* LIVE_TAIL_BATCH_SIZE
          MaxLog,       \* bound: facts
          StallAfter    \* polls without a tick that are past the threshold

VARIABLES log, standing,     \* the committed facts; where each issue stands
          cursor, delivered, \* the tail; history: the last batch and its pages
          tailing,           \* the sink runs
          quiet, key, stalls, draining  \* time since a tick, notifiedStallKey, pages since, drain

factVars == <<log, standing>>
tailVars == <<cursor, delivered>>
stallVars == <<quiet, key, stalls, draining>>
notifyVars == <<factVars, tailVars, tailing, stallVars>>

(* Facts.  A comment of 0 is none.                                         *)
Fact(type, issue, comment) == [type |-> type, issue |-> issue, comment |-> comment]
CommitAll(facts) == Len(log) + Len(facts) <= MaxLog /\ log' = log \o facts

Commits(i) ==
  \/ \* an agent or the master asks; a card of a restored run
     /\ standing[i].at \in {"works", "triage"}
     /\ \E type \in {"escalate", "heal-card", "ReviewMaxed"} : \E c \in {0, Len(log) + 1} :
          /\ type = "ReviewMaxed" => c = 0
          /\ CommitAll(<<Fact(type, i, c)>>) /\ standing' = [standing EXCEPT ![i] = [at |-> "asked", comment |-> c]]
  \/ \* a second question over the first, never answered
     /\ standing[i].at = "asked" /\ standing[i].comment # 0
     /\ CommitAll(<<Fact("escalate", i, Len(log) + 1)>>)
     /\ standing' = [standing EXCEPT ![i].comment = Len(log) + 1]
  \/ /\ standing[i].at = "asked"
     /\ CommitAll(<<Fact("QuestionAnswered", i, standing[i].comment)>>)
     /\ standing' = [standing EXCEPT ![i].at = "works"]
  \/ \* the harness gives up: the fact and the triage request in one commit
     /\ standing[i].at = "works"
     /\ \E type \in {"RunStuck", "ReviewMaxed", "AnomalyDetected"} :
          CommitAll(<<Fact(type, i, 0), Fact("MasterTriageRequested", i, 0)>>)
     /\ standing' = [standing EXCEPT ![i].at = "triage"]
  \/ /\ standing[i].at = "triage" /\ CommitAll(<<Fact("MasterStuck", i, 0)>>)
     /\ standing' = [standing EXCEPT ![i].at = "stuck"]
  \/ /\ standing[i].at = "triage" /\ UNCHANGED log /\ standing' = [standing EXCEPT ![i].at = "works"]

(* decideNotifications, over the facts from..to.                           *)
Has(from, to, i, types) == \E k \in from..to : log[k].issue = i /\ log[k].type \in types

\* batchFacts, the backward scan: only an answer behind the question closes it.
\* mutant: an answer closes whatever its issue asked.
AnyAnswer(k, to) ==
  \E j \in (k + 1)..to : log[j].type = "QuestionAnswered" /\ log[j].issue = log[k].issue
AnsweredIn(k, to) ==
  \E j \in (k + 1)..to :
    /\ log[j].type = "QuestionAnswered" /\ log[j].issue = log[k].issue
    /\ \/ log[k].type = "ReviewMaxed" \/ log[j].comment = 0
       \/ log[j].comment = log[k].comment

KindOf(f) == CASE f.type = "escalate" -> "escalation"
               [] f.type \in {"heal-card", "ReviewMaxed"} -> "heal"
               [] f.type \in {"RunStuck", "MasterStuck"} -> "stuck"
               [] f.type = "AnomalyDetected" -> "anomaly"
               [] OTHER -> "none"
Planned(k, from, to) ==
  LET f == log[k] IN
  /\ KindOf(f) # "none"
  /\ ~Has(from, to, f.issue, {"MasterTriageRequested"})
  /\ f.type # "AnomalyDetected" => ~Has(from, to, f.issue, {"AnomalyDetected"})
  /\ KindOf(f) \in {"escalation", "heal"} => ~AnsweredIn(k, to)
Decided(from, to) == {[issue |-> log[k].issue, kind |-> KindOf(log[k])] : k \in {j \in from..to : Planned(j, from, to)}}

(* The tail.                                                               *)
Last == IF cursor + BatchSize < Len(log) THEN cursor + BatchSize ELSE Len(log)
Deliver ==
  /\ tailing /\ cursor < Len(log)
  /\ delivered' = <<[from |-> cursor + 1, to |-> Last, pages |-> Decided(cursor + 1, Last)]>>
  /\ cursor' = Last /\ UNCHANGED <<factVars, tailing, stallVars>>

\* start: from the head, never the history.
StartSink ==
  /\ ~tailing /\ tailing' = TRUE /\ cursor' = Len(log)
  /\ key' = "none" /\ stalls' = 0 /\ draining' = FALSE /\ UNCHANGED <<factVars, delivered, quiet>>
\* stop, and the end of the process.
StopSink == tailing /\ tailing' = FALSE /\ UNCHANGED <<factVars, tailVars, stallVars>>

(* The stall probe.                                                        *)
Tick ==
  /\ tailing /\ ~draining /\ quiet' = 0 /\ stalls' = 0
  /\ key' = IF key = "this" THEN "older" ELSE key
  /\ UNCHANGED <<factVars, tailVars, tailing, draining>>
Waits == quiet <= StallAfter /\ quiet' = quiet + 1 /\ UNCHANGED <<factVars, tailVars, tailing, key, stalls, draining>>
Drain == tailing /\ ~draining /\ draining' = TRUE /\ UNCHANGED <<factVars, tailVars, tailing, quiet, key, stalls>>

Stalled == quiet > StallAfter
Told == key = "this"
PollOnce ==
  /\ tailing /\ ~draining
  /\ IF ~Stalled THEN key' = "none" /\ UNCHANGED stalls
     ELSE key' = "this" /\ stalls' = IF Told THEN stalls ELSE stalls + 1
  /\ UNCHANGED <<factVars, tailVars, tailing, quiet, draining>>

NotifyInit ==
  /\ log = <<>> /\ standing = [i \in Paged |-> [at |-> "works", comment |-> 0]]
  /\ cursor = 0 /\ delivered = <<>> /\ tailing = FALSE
  /\ quiet = 0 /\ key = "none" /\ stalls = 0 /\ draining = FALSE

FactStep == Deliver \/ \E i \in Paged : Commits(i) /\ UNCHANGED <<tailVars, tailing, stallVars>>
StallStep == Tick \/ Waits \/ Drain \/ PollOnce
SinkStep == StartSink \/ StopSink

(* Properties.                                                             *)
Question(f) == f.type \in {"escalate", "heal-card"}
Closed(k) == \E j \in (k + 1)..Len(log) : /\ log[j].type = "QuestionAnswered"
                                           /\ log[j].issue = log[k].issue
                                           /\ log[j].comment \in {0, log[k].comment}

(***************************************************************************)
(* decideNotifications: a question of a delivered batch that nobody ever   *)
(* answered was paged as what it is, unless its issue went to the master   *)
(* or to an anomaly in the same batch, however the batches fell.           *)
(***************************************************************************)
OpenIsPaged ==
  \A n \in 1..Len(delivered) :
    LET d == delivered[n] IN
    \A k \in d.from..d.to :
      Question(log[k]) /\ ~Closed(k) =>
        \/ [issue |-> log[k].issue, kind |-> KindOf(log[k])] \in d.pages
        \/ Has(d.from, d.to, log[k].issue, {"MasterTriageRequested", "AnomalyDetected"})

(***************************************************************************)
(* pollOnce: one page per stall, and every stall is paged unless a tick, a *)
(* drain or the end of the process comes first.                            *)
(***************************************************************************)
StallOnce == stalls <= 1
=============================================================================
