-------------------------- MODULE TransactionStream --------------------------
(***************************************************************************)
(* The generator (data_generator/transaction_stream_generator.py): the     *)
(* main loop and, in live mode, the daemon thread that injects velocity    *)
(* bursts, over one Kafka producer; or the backfill, which collects        *)
(* historical transactions and sends them in batches.                      *)
(*                                                                         *)
(* produce() puts a message into librdkafka's queue.  librdkafka sends the *)
(* messages of a partition in order (enable.idempotence), or gives one up  *)
(* after its timeout, which the delivery callback only logs.  flush()      *)
(* waits until the queue is empty, of the other thread's messages too.     *)
(* The queue holds 100 000 messages, more than either mode can put there   *)
(* in the time a message may stay: it is never full here.                  *)
(***************************************************************************)
EXTENDS TransactionTopic

CONSTANTS
    Modes,          \* among "live" and "backfill"
    BurstCount,     \* BURST_TRANSACTION_COUNT
    Ahead,          \* how far behind its first row a burst's last one is dated
    Span,           \* how long a thread takes to send a burst
    Timeout,        \* message.timeout.ms
    NumBackfill,    \* run_backfill's num_transactions
    BatchSize,      \* BACKFILL_KAFKA_BATCH_SIZE
    MaxTime,        \* bound: the clock
    MaxSingles      \* bound: single transactions of a live stream

ASSUME StreamAssumption ==
    /\ IsFiniteSet(Users) /\ IsFiniteSet(BurstIds)
    /\ Modes \subseteq {"live", "backfill"}
    /\ BurstCount \in Nat \ {0}
    /\ Ahead \in Nat /\ Span \in Nat \ {0} /\ Timeout \in Nat \ {0}
    /\ NumBackfill \in Nat
    /\ BatchSize \in Nat /\ BurstCount <= BatchSize
    /\ MaxTime \in Nat /\ MaxTime + Ahead <= MaxAt
    /\ MaxSingles \in Nat

Main == "main"
Injector == "injector"
Threads == {Main, Injector}

VARIABLES
    mode,       \* live or backfill
    clock,
    pc,         \* where each thread is
    todo,       \* the rows a thread is sending
    since,      \* when it generated them, 0 when it is not sending
    queue,      \* per user: librdkafka's queue of its partition
    batch,      \* run_backfill's batch
    collected,  \* the rows it has generated
    used,       \* the bursts that were generated
    singles,    \* the single transactions of the live stream
    failed      \* history: the messages that never reached the broker

clockVars == <<mode, clock>>
threadVars == <<pc, todo, since>>
bookVars == <<batch, collected, used, singles>>
streamVars == <<clockVars, threadVars, queue, bookVars, failed>>

StreamInit ==
    /\ mode \in Modes
    /\ clock = 0
    /\ pc = [t \in Threads |->
                IF t = Injector THEN IF mode = "live" THEN "sleep" ELSE "dead"
                ELSE IF mode = "live" THEN "loop" ELSE "collect"]
    /\ todo = [t \in Threads |-> <<>>]
    /\ since = [t \in Threads |-> 0]
    /\ queue = [u \in Users |-> <<>>]
    /\ batch = <<>>
    /\ collected = 0
    /\ used = {}
    /\ singles = 0
    /\ failed = 0

-----------------------------------------------------------------------------
(* Generating transactions. *)

Row(u, at, b) == [user |-> u, txn |-> [at |-> at, burst |-> b]]

\* Mutated form: each row is dated after the one before, so the delays add up.
Bursts_Growing(u, b, anchor) ==
    {[i \in 1 .. BurstCount |-> Row(u, anchor + i * Ahead, b)]}

\* generate_velocity_spike, _generate_backfill_burst_at: the first row at the
\* anchor, the others each at a time of their own up to Ahead later.
Bursts(u, b, anchor) ==
    {[i \in 1 .. BurstCount |-> Row(u, anchor + delay[i], b)] :
        delay \in {d \in [1 .. BurstCount -> 0 .. Ahead] : d[1] = 0}}

Drained == \A u \in Users : queue[u] = <<>>

\* _produce
Enqueue(row) ==
    queue' = [queue EXCEPT ![row.user] = Append(@, [txn |-> row.txn, since |-> clock])]

\* A thread has generated rows, which it sends one after the other.
StartSending(t, rows) ==
    /\ pc' = [pc EXCEPT ![t] = "send"]
    /\ todo' = [todo EXCEPT ![t] = rows]
    /\ since' = [since EXCEPT ![t] = clock]

-----------------------------------------------------------------------------
(* The live stream. *)

\* run: a normal transaction is produced and not waited for.
Normal(u) ==
    /\ pc[Main] = "loop"
    /\ singles < MaxSingles
    /\ singles' = singles + 1
    /\ Enqueue(Row(u, clock, NoBurst))
    /\ UNCHANGED <<topic, clockVars, threadVars, batch, collected, used, failed>>

\* _generate_fraud_transaction: a single one, ...
Fraud(u) ==
    /\ pc[Main] = "loop"
    /\ singles < MaxSingles
    /\ singles' = singles + 1
    /\ StartSending(Main, <<Row(u, clock, NoBurst)>>)
    /\ UNCHANGED <<topic, clockVars, queue, batch, collected, used, failed>>

\* ... or a burst, from the main loop or from the injector.
Spike(t, u, b) ==
    /\ pc[t] \in {"loop", "sleep"}
    /\ b \notin used
    /\ used' = used \cup {b}
    /\ \E rows \in Bursts(u, b, clock) : StartSending(t, rows)
    /\ UNCHANGED <<topic, clockVars, queue, batch, collected, singles, failed>>

-----------------------------------------------------------------------------
(* Sending: _produce_batch, _burst_injector, _flush_backfill_batch. *)

Send(t) ==
    /\ pc[t] = "send"
    /\ Enqueue(Head(todo[t]))
    /\ todo' = [todo EXCEPT ![t] = Tail(@)]
    /\ IF Tail(todo[t]) = <<>>
         THEN /\ pc' = [pc EXCEPT ![t] = "flush"]
              /\ since' = [since EXCEPT ![t] = 0]
         ELSE UNCHANGED <<pc, since>>
    /\ UNCHANGED <<topic, clockVars, bookVars, failed>>

Resting(t) ==
    IF t = Injector THEN "sleep" ELSE IF mode = "live" THEN "loop" ELSE "collect"

FlushReturns(t) ==
    /\ pc[t] = "flush"
    /\ Drained
    /\ pc' = [pc EXCEPT ![t] = Resting(t)]
    /\ UNCHANGED <<topic, clockVars, todo, since, queue, bookVars, failed>>

-----------------------------------------------------------------------------
(* The backfill. *)

\* A full batch is sent; the rows beyond it begin the next one.
Collect(rows) ==
    LET all == batch \o rows
    IN /\ collected' = collected + Len(rows)
       /\ IF Len(all) >= BatchSize
            THEN /\ StartSending(Main, SubSeq(all, 1, BatchSize))
                 /\ batch' = SubSeq(all, BatchSize + 1, Len(all))
            ELSE /\ batch' = all
                 /\ UNCHANGED threadVars

\* "Bursts get priority slots in the transaction budget": they come first.
CollectBurst(u, b) ==
    /\ pc[Main] = "collect"
    /\ b \notin used
    /\ used' = used \cup {b}
    /\ \E anchor \in 0 .. MaxAt - Ahead : \E rows \in Bursts(u, b, anchor) : Collect(rows)
    /\ UNCHANGED <<topic, clockVars, queue, singles, failed>>

\* The remaining budget, of normal and fraudulent transactions.
CollectSingle(u) ==
    /\ pc[Main] = "collect"
    /\ used = BurstIds
    /\ collected < NumBackfill
    /\ \E at \in 0 .. MaxAt : Collect(<<Row(u, at, NoBurst)>>)
    /\ UNCHANGED <<topic, clockVars, queue, used, singles, failed>>

\* Mutated form: a last batch that is not full is forgotten.
CollectEnds_Full ==
    /\ pc[Main] = "collect"
    /\ used = BurstIds
    /\ collected >= NumBackfill
    /\ pc' = [pc EXCEPT ![Main] = "close"]
    /\ UNCHANGED <<topic, clockVars, todo, since, queue, bookVars, failed>>

\* "Final flush for any remaining partial batch"; then the producer is closed.
CollectEnds ==
    /\ pc[Main] = "collect"
    /\ used = BurstIds
    /\ collected >= NumBackfill
    /\ IF batch = <<>>
         THEN /\ pc' = [pc EXCEPT ![Main] = "close"]
              /\ UNCHANGED <<todo, since, batch>>
         ELSE /\ StartSending(Main, batch)
              /\ batch' = <<>>
    /\ UNCHANGED <<topic, clockVars, queue, collected, used, singles, failed>>

-----------------------------------------------------------------------------
(* Shutting down. *)

\* Ctrl+C in the live loop.
Interrupt ==
    /\ mode = "live"
    /\ pc[Main] \in {"loop", "send"}
    /\ pc' = [pc EXCEPT ![Main] = "close"]
    /\ todo' = [todo EXCEPT ![Main] = <<>>]
    /\ since' = [since EXCEPT ![Main] = 0]
    /\ UNCHANGED <<topic, clockVars, queue, bookVars, failed>>

\* close: flush() returns.
Close ==
    /\ pc[Main] = "close"
    /\ Drained
    /\ pc' = [pc EXCEPT ![Main] = "exit"]
    /\ UNCHANGED <<topic, clockVars, todo, since, queue, bookVars, failed>>

\* The process ends, and the daemon thread with it and what it had queued since.
Exit ==
    /\ pc[Main] = "exit"
    /\ pc' = [t \in Threads |-> IF t = Main THEN "ended" ELSE "dead"]
    /\ todo' = [t \in Threads |-> <<>>]
    /\ since' = [t \in Threads |-> 0]
    /\ queue' = [u \in Users |-> <<>>]
    /\ UNCHANGED <<topic, clockVars, bookVars, failed>>

-----------------------------------------------------------------------------
(* librdkafka and time. *)

\* The broker has the message, whatever becomes of the acknowledgement: one that
\* is lost until the timeout only changes what the delivery callback logs.
Deliver(u) ==
    /\ queue[u] # <<>>
    /\ Accept(u, Head(queue[u]).txn)
    /\ queue' = [queue EXCEPT ![u] = Tail(@)]
    /\ UNCHANGED <<clockVars, threadVars, bookVars, failed>>

TimedOut(m) == clock >= m.since + Timeout

\* The message is given up without having reached the broker.
Expire(u) ==
    /\ queue[u] # <<>>
    /\ TimedOut(Head(queue[u]))
    /\ queue' = [queue EXCEPT ![u] = Tail(@)]
    /\ failed' = failed + 1
    /\ UNCHANGED <<topic, clockVars, threadVars, bookVars>>

\* Time does not pass by a message that has timed out, nor by a thread that is
\* due to have sent its rows; once the process has ended nothing reads the clock.
Tick ==
    /\ clock < MaxTime
    /\ pc[Main] # "ended"
    /\ \A u \in Users : \A i \in DOMAIN queue[u] : ~TimedOut(queue[u][i])
    /\ \A t \in Threads : pc[t] = "send" => clock < since[t] + Span
    /\ clock' = clock + 1
    /\ UNCHANGED <<topic, mode, threadVars, queue, bookVars, failed>>

StreamNext ==
    \/ \E u \in Users : Normal(u) \/ Fraud(u) \/ CollectSingle(u) \/ Deliver(u) \/ Expire(u)
    \/ \E u \in Users, b \in BurstIds : CollectBurst(u, b) \/ \E t \in Threads : Spike(t, u, b)
    \/ \E t \in Threads : Send(t) \/ FlushReturns(t)
    \/ CollectEnds \/ Interrupt \/ Close \/ Exit \/ Tick

-----------------------------------------------------------------------------
(* Properties. *)

Message == [txn : Txn, since : 0 .. MaxTime]
Rows == Seq([user : Users, txn : Txn])

\* Every variable of the generator has its type.
StreamTypeOK ==
    /\ mode \in Modes
    /\ clock \in 0 .. MaxTime
    /\ pc \in [Threads -> {"loop", "collect", "sleep", "send", "flush", "close",
                           "exit", "ended", "dead"}]
    /\ todo \in [Threads -> Rows]
    /\ since \in [Threads -> 0 .. MaxTime]
    /\ queue \in [Users -> Seq(Message)]
    /\ batch \in Rows
    /\ collected \in Nat
    /\ used \subseteq BurstIds
    /\ singles \in 0 .. MaxSingles
    /\ failed \in Nat

Delivered == UNION {{u} \X DOMAIN topic[u] : u \in Users}

\* A backfill that ends has sent what it was asked for, or all of its bursts when
\* they alone are more; nothing stays behind in a partial batch.
BackfillIsWhole ==
    mode = "backfill" /\ pc[Main] \in {"exit", "ended"} =>
        LET bursts == BurstCount * Cardinality(BurstIds)
            asked == IF NumBackfill < bursts THEN bursts ELSE NumBackfill
        IN Cardinality(Delivered) + failed = asked
=============================================================================
