--------------------------- MODULE TransactionTopic ---------------------------
(***************************************************************************)
(* The Kafka topic fraud-transactions, which the generator writes and the  *)
(* streaming queries read.  The key of a message is the user, so all of a  *)
(* user's transactions are in one partition, in the order they were        *)
(* accepted; each user has a partition here, because nothing orders two    *)
(* users' transactions for a reader of several partitions.                 *)
(*                                                                         *)
(* Event times are counted in slides of the velocity window (one minute).  *)
(***************************************************************************)
EXTENDS Integers, Sequences, FiniteSets

CONSTANTS
    Users,
    MaxAt,          \* bound: the latest event time
    BurstIds        \* names of velocity bursts

NoBurst == "none"

ASSUME TopicAssumption ==
    /\ MaxAt \in Nat
    /\ NoBurst \notin BurstIds

\* transaction_ts, and the burst the generator made it for: what
\* is_synthetic_fraud and fraud_pattern tell.
Txn == [at : 0 .. MaxAt, burst : BurstIds \cup {NoBurst}]

VARIABLE topic      \* per user: the transactions of its partition

TopicInit == topic = [u \in Users |-> <<>>]

\* The broker accepts a transaction.
Accept(u, txn) == topic' = [topic EXCEPT ![u] = Append(@, txn)]
=============================================================================
