------------------------------- MODULE EventLog -------------------------------
(***************************************************************************)
(* The event log of store/event-log.ts on its one SQLite connection: the   *)
(* transaction every append opens or joins, the projections folded in it,  *)
(* the broadcast after it, the live tails that read on from a cursor, and  *)
(* the pruning of transcripts.                                             *)
(*                                                                         *)
(* An image of the database is the table of events, a fold per issue       *)
(* stream and the next global position.  Every statement works on the connection's image (db), *)
(* uncommitted or not; disk is what a crash or a rollback leaves.          *)
(***************************************************************************)
EXTENDS Naturals, Sequences, SequencesExt, FiniteSets, FiniteSetsExt

CONSTANTS Issues, Transcripts, \* streams
          Writers,             \* appends that may be under way, one each
          Stream, Size,        \* of each writer: its stream, its number of events
          Tails,               \* live tails: web clients and the notification sink
          BatchSize,           \* LIVE_TAIL_BATCH_SIZE
          MaxTotal,            \* budget.maxTotalBytes, counted in messages
          MaxPrunes,           \* bound: retention passes
          LogFaults, MaxLogFaults

ASSUME StreamsAssumption ==
  /\ Issues \cap Transcripts = {} /\ "pruner" \notin Writers
  /\ Stream \in [Writers -> Issues \cup Transcripts] /\ Size \in [Writers -> Nat \ {0}]
ASSUME BatchAssumption == BatchSize \in Nat \ {0}

VARIABLES db, disk,   \* the connection's image, the committed image
          nesting,    \* betterSqlite3Adapter's counter
          writer,     \* where each append stands
          tail,       \* each live tail: cursor, scheduled wake, what it delivered
          pruning,    \* the retention pass: plans left, and the one under way
          mixed,      \* history: events were undone that others shared or had read
          logFaults

logVars == <<db, disk, nesting, writer, tail, pruning, mixed, logFaults>>

Pruner == "pruner"
Appenders == Writers \cup {Pruner}
StreamOf(w) == IF w = Pruner THEN pruning.cur ELSE Stream[w]
SizeOf(w) == IF w = Pruner THEN 1 ELSE Size[w]
KindOf(w) == IF w = Pruner THEN "pruned" ELSE "message"

Fresh == [log |-> {}, fold |-> [s \in Issues |-> 0], next |-> 1]
NoPlan == [at |-> "idle", plans |-> {}, cur |-> "none", passes |-> 0]

LogFault(f) == f \in LogFaults /\ logFaults < MaxLogFaults /\ logFaults' = logFaults + 1
NoLogFault == UNCHANGED logFaults

\* Each tail and prune reads the log through the connection.
On(image, s) == {e \in image.log : e.stream = s}
Messages(s)  == {e \in On(db, s) : e.kind = "message"}

-----------------------------------------------------------------------------
(* withTransaction around appendToStream and its inline projections.       *)
Inside == {"insert", "fold", "end"}

Begin(w) ==
  /\ writer[w] = "wants" /\ writer' = [writer EXCEPT ![w] = "insert"]
  /\ nesting' = nesting + 1
  /\ UNCHANGED <<db, disk, tail, pruning, mixed>> /\ NoLogFault

Insert(w) ==
  /\ writer[w] = "insert" /\ writer' = [writer EXCEPT ![w] = "fold"]
  /\ db' = [db EXCEPT
       !.log  = @ \cup {[pos |-> db.next + i - 1, stream |-> StreamOf(w),
                         kind |-> KindOf(w), by |-> w] : i \in 1..SizeOf(w)},
       !.next = @ + SizeOf(w)]
  /\ UNCHANGED <<disk, nesting, tail, pruning, mixed>> /\ NoLogFault

\* mutant: the projection starts over instead of folding onto its row.
FoldsAnew(stored, n) == n
\* createIssueProjection: the events folded onto the stored row.
FoldOnto(stored, n) == stored + n

Fold(w) ==
  /\ writer[w] = "fold" /\ writer' = [writer EXCEPT ![w] = "end"]
  /\ db' = IF StreamOf(w) \in Issues
           THEN [db EXCEPT !.fold[StreamOf(w)] = FoldOnto(@, SizeOf(w))] ELSE db
  /\ UNCHANGED <<disk, nesting, tail, pruning, mixed>> /\ NoLogFault

\* mutant: an inner append commits only for itself, so never.
NeverOutermost == FALSE
Outermost == nesting = 1

End(w) ==
  /\ writer[w] = "end" /\ writer' = [writer EXCEPT ![w] = "publish"]
  /\ disk' = IF Outermost THEN db ELSE disk
  /\ nesting' = nesting - 1
  /\ UNCHANGED <<db, tail, pruning, mixed>> /\ NoLogFault

\* What the append of w that is under way has inserted; the pruner's is its last.
Own(w) == {e \in db.log : e.by = w /\ (w = Pruner => writer[w] # "insert" /\
                                     \A d \in db.log : d.by = w => d.pos <= e.pos)}
\* A tail was handed an event that is not committed, though it may be deleted.
HasRead(t) == \E k \in 1..Len(tail[t].got) : tail[t].got[k].pos >= disk.next
\* Undoing what is not on disk takes more with it than the append of w.
Undoes(w) ==
  \/ disk.log \ db.log # {} \/ db.log \ (disk.log \cup Own(w)) # {}
  \/ \E t \in Tails : HasRead(t)

(* An error in the transaction: only the outermost rolls back, and what it *)
(* rolls back is everybody's.                                              *)
Fails(w) ==
  /\ writer[w] \in Inside /\ LogFault("write")
  /\ writer' = [writer EXCEPT ![w] = "failed"]
  /\ nesting' = nesting - 1
  /\ db' = IF Outermost THEN disk ELSE db
  /\ mixed' = (mixed \/ ~Outermost \/ Undoes(w))
  /\ pruning' = IF w = Pruner THEN [pruning EXCEPT !.at = "idle", !.plans = {}] ELSE pruning
  /\ UNCHANGED <<disk, tail>>

(* emitCommitted, after the transaction resolved: every tail is woken once *)
(* however many appends publish before its microtask runs.                 *)
Publish(w) ==
  /\ writer[w] = "publish" /\ writer' = [writer EXCEPT ![w] = "done"]
  /\ tail' = [t \in Tails |-> [tail[t] EXCEPT !.scheduled = @ \/ tail[t].open]]
  /\ pruning' = IF w = Pruner THEN [pruning EXCEPT !.at = "delete"] ELSE pruning
  /\ UNCHANGED <<db, disk, nesting, mixed>> /\ NoLogFault

-----------------------------------------------------------------------------
(* startLiveTail: a wake reads on from the cursor, in order of position.   *)
InOrder(events) ==
  [k \in 1..Cardinality(events) |->
     CHOOSE e \in events : Cardinality({d \in events : d.pos < e.pos}) = k - 1]
Ahead(cursor) == {e \in db.log : e.pos > cursor}
After(cursor) == InOrder(Ahead(cursor))

FirstOf(events, n) == SubSeq(events, 1, IF Len(events) < n THEN Len(events) ELSE n)
\* mutant: a wake reads one batch.
OneBatch(events) == FirstOf(events, BatchSize)
\* catchUp reads batches until one is not full.
CatchUp(events) == FirstOf(events, BatchSize * (Len(events) \div BatchSize + 1))

Delivers(t, events) ==
  [tail[t] EXCEPT !.scheduled = FALSE, !.got = @ \o events,
                  !.cursor = IF events = <<>> THEN @ ELSE Last(events).pos]

\* mutant: the cursor moves before the consumer is called.
MovesFirst(t, events) == Head(events).pos
\* The cursor moves when the consumer has returned.
CursorKept(t, events) == tail[t].cursor

Wake(t) ==
  /\ tail[t].open /\ tail[t].scheduled
  /\ \E events \in {After(tail[t].cursor)} :
       \/ tail' = [tail EXCEPT ![t] = Delivers(t, CatchUp(events))] /\ NoLogFault
       \/ \* the consumer throws on the first event: its cursor stays
          /\ LogFault("consumer") /\ events # <<>>
          /\ tail' = [tail EXCEPT ![t].scheduled = FALSE, ![t].threw = TRUE,
                                  ![t].cursor = CursorKept(t, events)]
  /\ UNCHANGED <<db, disk, nesting, writer, pruning, mixed>>

\* A client connects at the head, or comes back with its Last-Event-ID.
Connect(t) ==
  /\ ~tail[t].open
  /\ LET from == IF tail[t].cursor = 0 THEN db.next - 1 ELSE tail[t].cursor
         new  == After(from)
     IN tail' = [tail EXCEPT ![t] =
          [open |-> TRUE, scheduled |-> FALSE, threw |-> FALSE,
           start |-> IF @.cursor = 0 THEN from ELSE @.start,
           got |-> @.got \o new,
           cursor |-> IF new = <<>> THEN from ELSE Last(new).pos]]
  /\ UNCHANGED <<db, disk, nesting, writer, pruning, mixed>> /\ NoLogFault

Disconnect(t) ==
  /\ tail[t].open /\ LogFault("disconnect")
  /\ tail' = [tail EXCEPT ![t].open = FALSE, ![t].scheduled = FALSE]
  /\ UNCHANGED <<db, disk, nesting, writer, pruning, mixed>>

-----------------------------------------------------------------------------
(* planTranscriptRetention: the streams past the cutoff, then the oldest   *)
(* of the others while what is left exceeds the budget.                    *)
Newest(s) == Max({e.pos : e \in Messages(s)})
Bytes(ss) == MapThenSumSet(LAMBDA s : Cardinality(Messages(s)), ss)
Plans(cutoff) ==
  LET kept == {s \in Transcripts : Messages(s) # {}}
      aged == {s \in kept : Newest(s) < cutoff}
      left == kept \ aged
  IN aged \cup {s \in left : Bytes({u \in left : Newest(u) >= Newest(s)}) > MaxTotal}

PrunePlan ==
  /\ pruning.at = "idle" /\ pruning.passes < MaxPrunes
  /\ \E cutoff \in 1..db.next :
       pruning' = [pruning EXCEPT !.at = "next", !.plans = Plans(cutoff), !.passes = @ + 1]
  /\ UNCHANGED <<db, disk, nesting, writer, tail, mixed>> /\ NoLogFault

Prunes(s, await) == pruning' = [pruning EXCEPT !.at = await, !.plans = @ \ {s}, !.cur = s]
\* mutant: the messages go first.
Unmarked(s) == Prunes(s, "delete") /\ UNCHANGED writer
\* The marker is appended before its messages are deleted.
Marked(s) == Prunes(s, "marker") /\ writer' = [writer EXCEPT ![Pruner] = "wants"]

PruneNext ==
  /\ pruning.at = "next"
  /\ \/ /\ pruning.plans = {} /\ UNCHANGED writer
        /\ pruning' = [pruning EXCEPT !.at = "idle", !.cur = "none"]
     \/ \E s \in pruning.plans : Marked(s)
  /\ UNCHANGED <<db, disk, nesting, tail, mixed>> /\ NoLogFault

\* A statement outside any transaction is its own.
PruneDelete ==
  /\ pruning.at = "delete"
  /\ db' = [db EXCEPT !.log = {e \in @ : e.stream # pruning.cur \/ e.kind = "pruned"}]
  /\ disk' = IF nesting = 0 THEN db' ELSE disk
  /\ pruning' = [pruning EXCEPT !.at = "next"]
  /\ UNCHANGED <<nesting, writer, tail, mixed>> /\ NoLogFault

-----------------------------------------------------------------------------
(* The daemon dies: its connection, its promises and its clients go.       *)
LogCrash ==
  /\ LogFault("crash")
  /\ db' = disk /\ nesting' = 0
  /\ writer' = [w \in Appenders |->
       IF writer[w] \in Inside \/ (w = Pruner /\ writer[w] = "wants") THEN "failed"
       ELSE IF writer[w] = "publish" THEN "done" ELSE writer[w]]
  /\ mixed' = (mixed \/ nesting > 1 \/ \E w \in Appenders : writer[w] \in Inside /\ Undoes(w))
  /\ tail' = [t \in Tails |-> [tail[t] EXCEPT !.open = FALSE, !.scheduled = FALSE]]
  /\ pruning' = [pruning EXCEPT !.at = "idle", !.plans = {}]
  /\ UNCHANGED disk

LogInit ==
  /\ db = Fresh /\ disk = Fresh /\ nesting = 0
  /\ writer = [w \in Appenders |-> IF w = Pruner THEN "done" ELSE "wants"]
  /\ tail = [t \in Tails |-> [open |-> FALSE, scheduled |-> FALSE, threw |-> FALSE,
                             start |-> 0, cursor |-> 0, got |-> <<>>]]
  /\ pruning = NoPlan /\ mixed = FALSE /\ logFaults = 0

LogSteps ==
  \/ \E w \in Appenders : Begin(w) \/ Insert(w) \/ Fold(w) \/ End(w) \/ Publish(w)
  \/ PruneNext \/ PruneDelete

LogNext ==
  \/ LogSteps \/ PrunePlan \/ LogCrash
  \/ \E w \in Appenders : Fails(w)
  \/ \E t \in Tails : Wake(t) \/ Connect(t) \/ Disconnect(t)

-----------------------------------------------------------------------------
(***************************************************************************)
(* An append that resolved stays: on the connection at once, and on disk   *)
(* when no transaction is open, unless a transaction it shared was rolled  *)
(* back, or lost in a crash (withTransaction, nesting).                    *)
(***************************************************************************)
Resolved(w) == w \in Writers /\ writer[w] \in {"publish", "done"}
Holds(image, w) == \E e \in image.log : e.by = w
Gone(w) == \E e \in db.log : e.stream = StreamOf(w) /\ e.kind = "pruned"

AppendKept ==
  \A w \in Writers : Resolved(w) /\ ~mixed /\ ~Gone(w) =>
    Holds(db, w) /\ (nesting = 0 => Holds(disk, w))

(***************************************************************************)
(* The committed projection of an issue is the fold of its committed       *)
(* events, what rebuildIssueProjection would compute, through crashes,     *)
(* failed appends and overlaps, unless a shared transaction ended badly.   *)
(***************************************************************************)
FoldIsExact ==
  ~mixed => \A s \in Issues : disk.fold[s] = Cardinality(On(disk, s))

(***************************************************************************)
(* A tail delivers the log in order, each event once, and skips none that  *)
(* is still there, over wakes that coalesce, consumers that throw and      *)
(* clients that reconnect (startLiveTail's cursor).                        *)
(***************************************************************************)
TailIsExact ==
  \A t \in Tails :
    /\ \A i, j \in 1..Len(tail[t].got) : i < j => mixed \/ tail[t].got[i].pos < tail[t].got[j].pos
    /\ mixed \/ \A e \in db.log :
         tail[t].start < e.pos /\ e.pos <= tail[t].cursor => Contains(tail[t].got, e)

(***************************************************************************)
(* A transcript is never emptied without its marker (pruneTranscripts),    *)
(* whatever is appended meanwhile and wherever the daemon dies.            *)
(***************************************************************************)
PruneIsMarked ==
  \A w \in Writers : Stream[w] \in Transcripts /\ Resolved(w) /\ ~mixed =>
    Holds(disk, w) \/ nesting > 0 \/ \E e \in disk.log :
      e.stream = Stream[w] /\ e.kind = "pruned"

(***************************************************************************)
(* An open tail reaches the head of the log, unless its consumer threw.    *)
(***************************************************************************)
TailCatchesUp ==
  \A t \in Tails : []<>(tail[t].open => tail[t].threw \/ Ahead(tail[t].cursor) = {})

LogFair == WF_logVars(LogSteps) /\ \A t \in Tails : WF_logVars(Wake(t))
===============================================================================
