------------------------- MODULE FeatureEngineProofs -------------------------
(***************************************************************************)
(* For any topics, batch and buffer limits and number of restarts:         *)
(* the offline history keeps the rows of committed batches, each row once. *)
(* On an orderly topic the online store is as new as the history, the      *)
(* location baseline stays the user's own or is gone, so that no           *)
(* transaction made at home is flagged, and the first process flags every  *)
(* jump.                                                                   *)
(***************************************************************************)
EXTENDS FeatureEngine, TLAPS

\* The rows of the batch under way: computed, and later stored or buffered.
BatchKept ==
    /\ pc \in {"computed", "online"} =>
         \A o \in committed + 1 .. planned : topic[o].ok => Has(rows, o)
    /\ pc \in {"full", "done"} =>
         \A o \in committed + 1 .. planned :
            topic[o].ok => \/ Has(Stored, o)
                           \/ mode = "snowpipe" /\ Has(buffer, o)

KeepInv == TypeOK /\ CommittedRowsKept /\ BatchKept

-----------------------------------------------------------------------------

LEMMA TopicType ==
    ASSUME TypeOK
    PROVE  /\ topic \in Seq(Txn)
           /\ Len(topic) \in Nat
           /\ DOMAIN topic = 1 .. Len(topic)
           /\ committed \in Nat /\ planned \in Nat
           /\ \A o \in 1 .. Len(topic) :
                 topic[o].ts \in Nat /\ topic[o].place \in STRING /\ topic[o].ok \in BOOLEAN
<1>1. topic \in Seq(Txn)
  BY EngineAssumption DEF TypeOK
<1>2. Len(topic) \in Nat /\ DOMAIN topic = 1 .. Len(topic)
  BY <1>1
<1>3. \A o \in 1 .. Len(topic) : topic[o] \in Txn
  BY <1>1
<1>4. committed \in Nat /\ planned \in Nat
  BY <1>2 DEF TypeOK
<1> QED
  BY <1>1, <1>2, <1>3, <1>4 DEF Txn

\* A batch's rows are those of its valid transactions, and nothing else.
LEMMA ComputedRows ==
    ASSUME NEW lo \in Nat, NEW hi \in Nat, NEW loc
    PROVE  /\ \A o \in lo .. hi : topic[o].ok => Has(Computed(lo, hi, loc), o)
           /\ \A r \in Computed(lo, hi, loc) :
                 /\ r.off \in lo .. hi
                 /\ topic[r.off].ok
                 /\ r.suspect = Suspect(topic[r.off], loc)
<1> DEFINE RowOf(o) == [off |-> o, start |-> starts, suspect |-> Suspect(topic[o], loc)]
<1>1. \A r \in Computed(lo, hi, loc) :
         \E o \in lo .. hi : topic[o].ok /\ r = RowOf(o)
  BY DEF Computed
<1>2. \A o \in lo .. hi : topic[o].ok => RowOf(o) \in Computed(lo, hi, loc)
  BY DEF Computed
<1>3. \A o : RowOf(o).off = o /\ RowOf(o).suspect = Suspect(topic[o], loc)
  OBVIOUS
<1>4. \A o \in lo .. hi : topic[o].ok => Has(Computed(lo, hi, loc), o)
  BY <1>2, <1>3, Zenon DEF Has
<1>5. \A r \in Computed(lo, hi, loc) :
         r.off \in lo .. hi /\ topic[r.off].ok /\ r.suspect = Suspect(topic[r.off], loc)
  <2> SUFFICES ASSUME NEW r \in Computed(lo, hi, loc)
               PROVE  /\ r.off \in lo .. hi /\ topic[r.off].ok
                      /\ r.suspect = Suspect(topic[r.off], loc)
    OBVIOUS
  <2>1. PICK o \in lo .. hi : topic[o].ok /\ r = RowOf(o)
    BY <1>1
  <2>2. r.off = o /\ r.suspect = Suspect(topic[o], loc)
    BY <2>1, <1>3
  <2> HIDE DEF RowOf
  <2> QED
    BY <2>1, <2>2
<1> QED
  BY <1>4, <1>5

LEMMA ComputedType ==
    ASSUME TypeOK, NEW lo \in Nat, NEW hi \in Nat, NEW loc, lo >= 1, hi <= Len(topic)
    PROVE  Computed(lo, hi, loc) \subseteq Row
<1> SUFFICES ASSUME NEW o \in lo .. hi
             PROVE  [off |-> o, start |-> starts, suspect |-> Suspect(topic[o], loc)] \in Row
  BY DEF Computed
<1>1. Suspect(topic[o], loc) \in BOOLEAN
  BY DEF Suspect, Jump
<1>2. o \in DOMAIN topic /\ starts \in Nat
  BY TopicType DEF TypeOK
<1> QED
  BY <1>1, <1>2 DEF Row

\* A row that was somewhere is still found in a larger set.
LEMMA HasMore ==
    ASSUME NEW S, NEW T, S \subseteq T, NEW o, Has(S, o)
    PROVE  Has(T, o)
  BY DEF Has

\* Flushing moves every buffered row into a file.
LEMMA FlushMoves ==
    ASSUME FlushBuffer
    PROVE  /\ Stored \cup buffer \subseteq Stored' 
           /\ buffer' \subseteq buffer
  BY DEF FlushBuffer, Emptied, Stored

LEMMA FlushType ==
    ASSUME FlushBuffer, TypeOK
    PROVE  buffer' \subseteq Row /\ since' \in Nat /\ stored' \subseteq SUBSET Row
  BY DEF FlushBuffer, Emptied, TypeOK

\* Flushing stores nothing that was not buffered.
LEMMA FlushKeepsRows ==
    ASSUME FlushBuffer
    PROVE  Stored' \cup buffer' \subseteq Stored \cup buffer
  BY DEF FlushBuffer, Emptied, Stored

-----------------------------------------------------------------------------
(* Type correctness. *)

LEMMA InitType == Init => TypeOK
<1> SUFFICES ASSUME Init PROVE TypeOK
  OBVIOUS
<1>1. Len(topic) \in Nat
  BY EngineAssumption DEF Init
<1>2. blind \in BOOLEAN
  BY Zenon DEF Init
<1> QED
  BY <1>1, <1>2, EngineAssumption DEF Init, TypeOK, Baseline

LEMMA NextType == TypeOK /\ [Next]_vars => TypeOK'
<1> SUFFICES ASSUME TypeOK, [Next]_vars PROVE TypeOK'
  OBVIOUS
<1> USE TopicType
<1>1. CASE Start
  BY <1>1 DEF Start, TypeOK, Row, redis, sinks
<1>2. CASE Trigger
  <2>1. PICK end \in committed + 1 .. Len(topic), loc \in LastLocations :
            /\ planned' = end /\ rows' = Computed(committed + 1, end, loc)
            /\ blind' = (blind \/ (loc = NoLocation /\ ~AllHome(rows')))
    BY <1>2 DEF Trigger
  <2>2. rows' \subseteq Row
    BY <2>1, ComputedType DEF TypeOK
  <2>3. planned' \in committed .. Len(topic)
    BY <2>1
  <2>4. blind' \in BOOLEAN
    BY <2>1 DEF TypeOK, AllHome
  <2> QED
    BY <1>2, <2>2, <2>3, <2>4 DEF Trigger, TypeOK, Row, redis, sinks
<1>3. CASE WriteOnline
  <2>1. latest' \in Nat /\ location' \in [ts : Nat, place : STRING]
    <3>1. CASE rows = {}
      BY <1>3, <3>1 DEF WriteOnline, redis, TypeOK
    <3>2. CASE rows # {}
      <4>1. PICK r \in rows :
               /\ Newest(r)
               /\ latest' = topic[r.off].ts
               /\ location' = IF r.suspect THEN location
                              ELSE [ts |-> topic[r.off].ts, place |-> topic[r.off].place]
        BY <1>3, <3>2 DEF WriteOnline
      <4>2. topic[r.off].ts \in Nat /\ topic[r.off].place \in STRING
        BY <4>1 DEF TypeOK, Row
      <4> QED
        BY <4>1, <4>2 DEF TypeOK
    <3> QED
      BY <3>1, <3>2
  <2> QED
    BY <1>3, <2>1 DEF WriteOnline, TypeOK, Row, store, sinks
<1>4. CASE Insert
  BY <1>4 DEF Insert, TypeOK, Row, store, redis
<1>5. CASE AddBatch
  <2>1. pc' \in {"full", "done"} /\ since' \in Nat /\ buffer' \subseteq Row
    BY <1>5 DEF AddBatch, TypeOK
  <2> QED
    BY <1>5, <2>1 DEF AddBatch, TypeOK, Row, store, redis
<1>6. CASE Flush
  BY <1>6, FlushType DEF Flush, TypeOK, Row, store, redis
<1>7. CASE Commit
  BY <1>7 DEF Commit, TypeOK, Row, store, redis, sinks
<1>8. CASE Stop
  BY <1>8, FlushType DEF Stop, TypeOK, Row, store, redis
<1>9. CASE Die
  BY <1>9 DEF Die, TypeOK, Row, store, redis
<1>10. CASE DieAfterWrite
  BY <1>10 DEF DieAfterWrite, TypeOK, Row, store, redis
<1>11. CASE Forget
  BY <1>11, EngineAssumption DEF Forget, NoLocation, TypeOK, Row, store, sinks
<1>12. CASE UNCHANGED vars
  BY <1>12 DEF vars, TypeOK, Row, store, redis, sinks
<1> QED
  BY <1>1, <1>2, <1>3, <1>4, <1>5, <1>6, <1>7, <1>8, <1>9, <1>10, <1>11, <1>12 DEF Next

-----------------------------------------------------------------------------
(* The offline history. *)

LEMMA InitKeep == Init => CommittedRowsKept /\ BatchKept
  BY DEF Init, CommittedRowsKept, BatchKept

\* A step that neither commits nor takes a row away keeps the committed ones.
LEMMA StillKept ==
    ASSUME CommittedRowsKept,
           topic' = topic, mode' = mode, committed' = committed,
           Stored \subseteq Stored',
           mode = "snowpipe" => buffer \cup lost \subseteq Stored' \cup buffer' \cup lost'
    PROVE  CommittedRowsKept'
<1> SUFFICES ASSUME NEW o \in 1 .. committed, topic[o].ok
             PROVE  \/ Has(Stored', o)
                    \/ mode = "snowpipe" /\ Has(buffer' \cup lost', o)
  BY DEF CommittedRowsKept, Has
<1>1. CASE Has(Stored, o)
  BY <1>1, HasMore
<1>2. CASE mode = "snowpipe" /\ Has(buffer \cup lost, o)
  BY <1>2 DEF Has
<1> QED
  BY <1>1, <1>2 DEF CommittedRowsKept

LEMMA NextKeep == KeepInv /\ [Next]_vars => CommittedRowsKept' /\ BatchKept'
<1> SUFFICES ASSUME KeepInv, [Next]_vars PROVE CommittedRowsKept' /\ BatchKept'
  OBVIOUS
<1> USE DEF KeepInv
<1>1. CASE Start
  <2>1. CommittedRowsKept'
    BY <1>1, StillKept DEF Start, redis, sinks, Stored
  <2>2. BatchKept'
    BY <1>1 DEF Start, BatchKept
  <2> QED
    BY <2>1, <2>2
<1>2. CASE Trigger
  <2>1. CommittedRowsKept'
    BY <1>2, StillKept DEF Trigger, sinks, Stored
  <2>2. PICK end \in committed + 1 .. Len(topic), loc \in LastLocations :
            planned' = end /\ rows' = Computed(committed + 1, end, loc)
    BY <1>2 DEF Trigger
  <2>3. \A o \in committed + 1 .. end : topic[o].ok => Has(rows', o)
    BY <2>2, ComputedRows, TopicType
  <2>4. BatchKept'
    BY <1>2, <2>2, <2>3 DEF Trigger, BatchKept, Has
  <2> QED
    BY <2>1, <2>4
<1>3. CASE WriteOnline
  <2>1. CommittedRowsKept'
    BY <1>3, StillKept DEF WriteOnline, store, sinks, Stored
  <2>2. BatchKept'
    BY <1>3 DEF WriteOnline, BatchKept, store, Has
  <2> QED
    BY <2>1, <2>2
<1>4. CASE Insert
  <2>1. Stored' = Stored \cup rows
    BY <1>4 DEF Insert, Stored
  <2>2. CommittedRowsKept'
    BY <1>4, <2>1, StillKept DEF Insert, store
  <2>3. \A o \in committed + 1 .. planned : topic[o].ok => Has(Stored', o)
    BY <1>4, <2>1 DEF Insert, BatchKept, Has
  <2>4. BatchKept'
    BY <1>4, <2>3 DEF Insert, BatchKept, store, Has
  <2> QED
    BY <2>2, <2>4
<1>5. CASE AddBatch
  <2>1. CommittedRowsKept'
    BY <1>5, StillKept DEF AddBatch, store, Stored
  <2>2. \A o \in committed + 1 .. planned : topic[o].ok => Has(buffer', o)
    BY <1>5 DEF AddBatch, BatchKept, Has
  <2>3. BatchKept'
    BY <1>5, <2>2 DEF AddBatch, BatchKept, store, Has
  <2> QED
    BY <2>1, <2>3
<1>6. CASE Flush
  <2>1. FlushBuffer /\ lost' = lost
    BY <1>6 DEF Flush
  <2>2. Stored \cup buffer \subseteq Stored'
    BY <2>1, FlushMoves
  <2>3. CommittedRowsKept'
    BY <1>6, <2>1, <2>2, StillKept DEF Flush, store
  <2>4. BatchKept'
    BY <1>6, <2>2 DEF Flush, BatchKept, store, Has
  <2> QED
    BY <2>3, <2>4
<1>7. CASE Commit
  <2>1. CommittedRowsKept'
    <3> SUFFICES ASSUME NEW o \in 1 .. planned, topic[o].ok
                 PROVE  \/ Has(Stored, o)
                        \/ mode = "snowpipe" /\ Has(buffer \cup lost, o)
      BY <1>7 DEF Commit, CommittedRowsKept, store, sinks, Stored, Has
    <3>1. CASE o \in 1 .. committed
      BY <3>1 DEF CommittedRowsKept
    <3>2. CASE o \in committed + 1 .. planned
      BY <1>7, <3>2 DEF Commit, BatchKept, Has
    <3> QED
      BY <3>1, <3>2, TopicType
  <2>2. BatchKept'
    BY <1>7 DEF Commit, BatchKept
  <2> QED
    BY <2>1, <2>2
<1>8. CASE Stop
  <2>1. FlushBuffer /\ lost' = lost
    BY <1>8 DEF Stop
  <2>2. Stored \cup buffer \subseteq Stored'
    BY <2>1, FlushMoves
  <2>3. CommittedRowsKept'
    BY <1>8, <2>1, <2>2, StillKept DEF Stop, store
  <2>4. BatchKept'
    BY <1>8 DEF Stop, BatchKept
  <2> QED
    BY <2>3, <2>4
<1>9. CASE Die
  <2>1. CommittedRowsKept'
    BY <1>9, StillKept DEF Die, store, Stored
  <2>2. BatchKept'
    BY <1>9 DEF Die, BatchKept
  <2> QED
    BY <2>1, <2>2
<1>10. CASE DieAfterWrite
  <2>1. Stored \subseteq Stored'
    BY <1>10 DEF DieAfterWrite, Stored
  <2>2. mode = "snowpipe" => buffer \subseteq Stored'
    BY <1>10 DEF DieAfterWrite, Stored
  <2>3. CommittedRowsKept'
    BY <1>10, <2>1, <2>2, StillKept DEF DieAfterWrite, store
  <2>4. BatchKept'
    BY <1>10 DEF DieAfterWrite, BatchKept
  <2> QED
    BY <2>3, <2>4
<1>11. CASE Forget \/ UNCHANGED vars
  <2>1. UNCHANGED <<store, pc, committed, planned, rows, sinks>>
    BY <1>11 DEF Forget, vars
  <2>2. CommittedRowsKept'
    BY <2>1, StillKept DEF store, sinks, Stored
  <2>3. BatchKept'
    BY <2>1 DEF store, sinks, Stored, BatchKept, Has
  <2> QED
    BY <2>2, <2>3
<1> QED
  BY <1>1, <1>2, <1>3, <1>4, <1>5, <1>6, <1>7, <1>8, <1>9, <1>10, <1>11 DEF Next

-----------------------------------------------------------------------------
(* The location baseline. *)

\* A location that is gone, the one of the first day, or the place of a valid
\* transaction at home that some planned batch held.
OwnPlace(loc) ==
    \/ loc \in {NoLocation, Baseline}
    \/ /\ loc.place = Home
       /\ \E o \in 1 .. planned :
             topic[o].ok /\ topic[o].ts = loc.ts /\ topic[o].place = Home

BaselineIsOwn == OwnPlace(location)

Clean(set) == \A r \in set : topic[r.off].place = Home => ~r.suspect

\* The batch under way was scored against a baseline of the user's own, or
\* against none if all of it happened at home.
ScoredAgainst(loc) ==
    /\ OwnPlace(loc)
    /\ loc.ts \in Nat
    /\ loc = NoLocation => AllHome(rows)
    /\ \A r \in rows : /\ r.off \in committed + 1 .. planned
                      /\ topic[r.off].ok
                      /\ r.suspect = Suspect(topic[r.off], loc)

BatchScored ==
    /\ pc \in {"computed", "online"} => Clean(rows)
    /\ pc = "computed" => \E loc : ScoredAgainst(loc)

CleanInv ==
    Orderly /\ ~blind => BaselineIsOwn /\ BatchScored /\ Clean(Stored \cup buffer)

LEMMA InitClean == Init => CleanInv
<1> SUFFICES ASSUME Init PROVE CleanInv
  OBVIOUS
<1>1. BaselineIsOwn
  BY DEF Init, BaselineIsOwn, OwnPlace
<1>2. BatchScored /\ Clean(Stored \cup buffer)
  BY DEF Init, BatchScored, Clean, Stored
<1> QED
  BY <1>1, <1>2 DEF CleanInv

\* What is newest in a batch and is not suspect happened at home: a jump that
\* the ordering guard hides is older than the transaction the baseline is of,
\* and a batch that is run again holds that transaction too.
LEMMA NewestIsOwn ==
    ASSUME TypeOK, BatchKept, Orderly, BatchScored, pc = "computed",
           NEW r \in rows, Newest(r), ~r.suspect
    PROVE  /\ topic[r.off].place = Home
           /\ r.off \in 1 .. planned
           /\ topic[r.off].ok
<1> USE TopicType
<1>0. PICK loc : ScoredAgainst(loc)
  BY DEF BatchScored
<1>1. /\ r.off \in committed + 1 .. planned
      /\ topic[r.off].ok
      /\ r.suspect = Suspect(topic[r.off], loc)
  BY <1>0 DEF ScoredAgainst
<1>2. r.off \in 1 .. Len(topic) /\ topic[r.off].ts \in Nat /\ loc.ts \in Nat
  BY <1>0, <1>1 DEF TypeOK, ScoredAgainst
<1> SUFFICES ASSUME topic[r.off].place # Home PROVE FALSE
  BY <1>1
<1>3. Known(topic[r.off].place) /\ topic[r.off].ts > 0
  BY <1>2 DEF Orderly
<1>4. loc # NoLocation
  BY <1>0 DEF ScoredAgainst, AllHome
<1>5. ~(loc.ts < topic[r.off].ts)
  <2>1. loc.place = Home
    BY <1>0, <1>4 DEF ScoredAgainst, OwnPlace, Baseline
  <2>2. Known(loc.place) /\ loc.place # topic[r.off].place
    BY <2>1, EngineAssumption DEF Known
  <2> QED
    BY <1>1, <1>3, <2>2 DEF Suspect, Jump
<1>6. loc # Baseline
  BY <1>2, <1>3, <1>5 DEF Baseline
<1>7. PICK o \in 1 .. planned :
         topic[o].ok /\ topic[o].ts = loc.ts /\ topic[o].place = Home
  BY <1>0, <1>4, <1>6 DEF ScoredAgainst, OwnPlace
<1>8. o \in 1 .. Len(topic) /\ o # r.off
  BY <1>7 DEF TypeOK
<1>9. ~(o < r.off)
  <2>1. o < r.off => topic[o].ts < topic[r.off].ts
    BY <1>2, <1>8 DEF Orderly
  <2> QED
    BY <2>1, <1>2, <1>5, <1>7
<1>10. o \in committed + 1 .. planned /\ topic[r.off].ts < topic[o].ts
  <2>1. r.off < o
    BY <1>1, <1>8, <1>9
  <2>2. topic[r.off].ts < topic[o].ts
    BY <2>1, <1>2, <1>8 DEF Orderly
  <2> QED
    BY <2>1, <2>2, <1>1
<1>11. PICK s \in rows : s.off = o
  BY <1>7, <1>10 DEF BatchKept, Has
<1> QED
  BY <1>2, <1>8, <1>10, <1>11 DEF Newest

\* A step that leaves the topic and the plan alone, keeps the baseline or loses
\* it, and stores or buffers nothing but rows that are clean already.
LEMMA StillClean ==
    ASSUME BaselineIsOwn, BatchScored, Clean(Stored \cup buffer),
           topic' = topic, planned' = planned,
           location' \in {location, NoLocation},
           Stored' \cup buffer' \subseteq Stored \cup buffer \cup rows,
           pc \in {"computed", "online"} \/ Stored' \cup buffer' \subseteq Stored \cup buffer
    PROVE  BaselineIsOwn' /\ Clean(Stored \cup buffer)'
<1>1. BaselineIsOwn'
  BY DEF BaselineIsOwn, OwnPlace, NoLocation, Baseline
<1>2. Clean(Stored \cup buffer)'
  BY DEF Clean, BatchScored
<1> QED
  BY <1>1, <1>2

\* A step that leaves the topic and the batch under way alone.
LEMMA StillScored ==
    ASSUME BatchScored, topic' = topic, committed' = committed, planned' = planned,
           rows' = rows, pc' = pc
    PROVE  BatchScored'
<1>1. \A loc : ScoredAgainst(loc) => ScoredAgainst(loc)'
  BY DEF ScoredAgainst, OwnPlace, NoLocation, Baseline, AllHome, Suspect, Jump, Known
<1> QED
  BY <1>1 DEF BatchScored, Clean

LEMMA NextClean == KeepInv /\ CleanInv /\ [Next]_vars => CleanInv'
<1> SUFFICES ASSUME KeepInv, CleanInv, [Next]_vars, Orderly', ~blind'
             PROVE  BaselineIsOwn' /\ BatchScored' /\ Clean(Stored \cup buffer)'
  BY DEF CleanInv
<1>0. topic' = topic /\ ~blind
  <2>1. topic' = topic
    BY DEF Next, vars, store, Start, Forget, Trigger, WriteOnline, Insert, AddBatch, Flush,
           Commit, Stop, Die, DieAfterWrite
  <2>2. CASE Trigger
    BY <2>1, <2>2, Zenon DEF Trigger
  <2>3. CASE ~Trigger
    <3>1. blind' = blind
      BY <2>3 DEF Next, vars, store, Start, Forget, WriteOnline, Insert, AddBatch, Flush,
                  Commit, Stop, Die, DieAfterWrite
    <3> QED
      BY <2>1, <3>1, Zenon
  <2> QED
    BY <2>1, <2>2, <2>3, Zenon
<1>00. Orderly /\ BaselineIsOwn /\ BatchScored /\ Clean(Stored \cup buffer)
  BY <1>0 DEF Orderly, CleanInv
<1> USE <1>0, <1>00
<1>1. CASE Start
  BY <1>1, StillClean DEF Start, redis, sinks, Stored, BatchScored
<1>2. CASE Trigger
  <2>1. PICK end \in committed + 1 .. Len(topic), loc \in LastLocations :
            /\ IF planned > committed THEN end = planned ELSE end <= committed + MaxBatch
            /\ planned' = end
            /\ rows' = Computed(committed + 1, end, loc)
            /\ blind' = (blind \/ (loc = NoLocation /\ ~AllHome(rows')))
    BY <1>2 DEF Trigger
  <2>2. planned' >= planned /\ planned \in Nat /\ planned' \in Nat
    BY <2>1, TopicType DEF KeepInv, TypeOK
  <2>3. \A x : OwnPlace(x) => OwnPlace(x)'
    <3>1. 1 .. planned \subseteq 1 .. planned'
      BY <2>2
    <3> QED
      BY <3>1 DEF OwnPlace, NoLocation, Baseline
  <2>4. BaselineIsOwn'
    <3>1. location' = location
      BY <1>2 DEF Trigger, redis
    <3> QED
      BY <2>3, <3>1 DEF BaselineIsOwn, OwnPlace, NoLocation, Baseline
  <2>5. OwnPlace(loc) /\ loc.ts \in Nat
    BY EngineAssumption
       DEF LastLocations, BaselineIsOwn, OwnPlace, NoLocation, Baseline, KeepInv, TypeOK
  <2>6. \A r \in rows' : /\ r.off \in committed + 1 .. end
                         /\ topic[r.off].ok
                         /\ r.suspect = Suspect(topic[r.off], loc)
    BY <2>1, ComputedRows, TopicType DEF KeepInv
  <2>7. \A r \in rows' : topic[r.off].place = Home => ~r.suspect
    <3> SUFFICES ASSUME NEW r \in rows', topic[r.off].place = Home PROVE ~r.suspect
      OBVIOUS
    <3>1. loc.place \in {Home, Nowhere}
      BY <2>5 DEF OwnPlace, NoLocation, Baseline
    <3>2. ~Suspect(topic[r.off], loc)
      BY <3>1 DEF Suspect, Jump, Known
    <3> QED
      BY <2>6, <3>2
  <2>8. pc' = "computed" /\ committed' = committed
    BY <1>2 DEF Trigger
  <2>9. ScoredAgainst(loc)'
    <3>1. loc = NoLocation => AllHome(rows)'
      BY <2>1 DEF AllHome
    <3> QED
      BY <2>1, <2>3, <2>5, <2>6, <2>8, <3>1
         DEF ScoredAgainst, Suspect, Jump, Known, NoLocation
  <2>10. BatchScored'
    BY <2>7, <2>8, <2>9 DEF BatchScored, Clean
  <2>11. Clean(Stored \cup buffer)'
    BY <1>2 DEF Trigger, Clean, sinks, Stored
  <2> QED
    BY <2>4, <2>10, <2>11
<1>3. CASE WriteOnline
  <2>1. pc = "computed" /\ pc' = "online" /\ planned' = planned /\ rows' = rows
    BY <1>3 DEF WriteOnline
  <2>2. BaselineIsOwn'
    <3>1. CASE location' = location
      BY <2>1, <3>1 DEF BaselineIsOwn, OwnPlace, NoLocation, Baseline
    <3>2. CASE location' # location
      <4>1. PICK r \in rows :
               /\ Newest(r) /\ ~r.suspect
               /\ location' = [ts |-> topic[r.off].ts, place |-> topic[r.off].place]
        BY <1>3, <3>2 DEF WriteOnline, redis
      <4>2. topic[r.off].place = Home /\ r.off \in 1 .. planned /\ topic[r.off].ok
        BY <4>1, <2>1, NewestIsOwn DEF KeepInv
      <4> QED
        BY <2>1, <4>1, <4>2 DEF BaselineIsOwn, OwnPlace
    <3> QED
      BY <3>1, <3>2
  <2>3. BatchScored' /\ Clean(Stored \cup buffer)'
    BY <1>3, <2>1 DEF WriteOnline, BatchScored, Clean, sinks, Stored
  <2> QED
    BY <2>2, <2>3
<1>4. CASE Insert
  <2>1. Stored' = Stored \cup rows
    BY <1>4 DEF Insert, Stored
  <2> QED
    BY <1>4, <2>1, StillClean DEF Insert, redis, BatchScored
<1>5. CASE AddBatch
  <2>1. pc' \in {"full", "done"}
    BY <1>5 DEF AddBatch
  <2> QED
    BY <1>5, <2>1, StillClean DEF AddBatch, redis, Stored, BatchScored
<1>6. CASE Flush
  BY <1>6, FlushKeepsRows, StillClean DEF Flush, redis, BatchScored
<1>7. CASE Commit
  BY <1>7, StillClean DEF Commit, redis, sinks, Stored, BatchScored
<1>8. CASE Stop
  BY <1>8, FlushKeepsRows, StillClean DEF Stop, redis, BatchScored
<1>9. CASE Die
  BY <1>9, StillClean DEF Die, redis, Stored, BatchScored
<1>10. CASE DieAfterWrite
  <2>1. \/ pc = "online" /\ Stored' = Stored \cup rows
        \/ Stored' = Stored \cup buffer
    BY <1>10 DEF DieAfterWrite, Stored
  <2>2. /\ pc' = "down" /\ buffer' = {} /\ planned' = planned /\ location' = location
    BY <1>10 DEF DieAfterWrite, redis
  <2> QED
    BY <2>1, <2>2, StillClean DEF BatchScored
<1>11. CASE Forget \/ UNCHANGED vars
  <2>1. /\ UNCHANGED <<pc, committed, planned, rows, sinks>>
        /\ location' \in {location, NoLocation}
    BY <1>11 DEF Forget, vars, redis
  <2>2. BaselineIsOwn' /\ Clean(Stored \cup buffer)'
    BY <2>1, StillClean DEF sinks, Stored
  <2>3. BatchScored'
    BY <2>1, StillScored
  <2> QED
    BY <2>2, <2>3
<1> QED
  BY <1>1, <1>2, <1>3, <1>4, <1>5, <1>6, <1>7, <1>8, <1>9, <1>10, <1>11 DEF Next

-----------------------------------------------------------------------------
(* The theorems. *)

\* Every variable of the engine keeps its type.
THEOREM EngineTypeCorrect == Spec => []TypeOK
  BY InitType, NextType, PTL DEF Spec

\* No crash, failed write, replay or shutdown takes the row of a committed batch
\* out of the history, but for the buffered rows of a process that died.
THEOREM HistoryIsKept == Spec => []CommittedRowsKept
<1>1. Init => KeepInv
  BY InitType, InitKeep DEF KeepInv
<1>2. KeepInv /\ [Next]_vars => KeepInv'
  BY NextType, NextKeep DEF KeepInv
<1>3. KeepInv => CommittedRowsKept
  BY DEF KeepInv
<1> QED
  BY <1>1, <1>2, <1>3, PTL DEF Spec

\* On an orderly topic, and while no fraud's transaction is scored without a
\* baseline, no transaction made at home is ever suspect, through any crashes,
\* failed writes, replays and expired keys: one fraud starts no chain of false flags.
THEOREM NoFalseFlagsEver == Spec => []NoFalseFlags
<1>1. Init => KeepInv /\ CleanInv
  BY InitType, InitKeep, InitClean DEF KeepInv
<1>2. (KeepInv /\ CleanInv) /\ [Next]_vars => (KeepInv /\ CleanInv)'
  BY NextType, NextKeep, NextClean DEF KeepInv
<1>3. KeepInv /\ CleanInv => NoFalseFlags
  BY DEF CleanInv, Clean, NoFalseFlags
<1> QED
  BY <1>1, <1>2, <1>3, PTL DEF Spec

-----------------------------------------------------------------------------
(* Nothing is stored twice. *)

\* The offsets this process has stored or buffered rows of, at most.
Written == IF pc \in {"full", "done"} THEN planned ELSE committed

\* A row is of a process that was started, and this process's rows are of the
\* batches it has committed, or written already.
WrittenRow(r) ==
    /\ r.start <= starts
    /\ r.start = starts /\ pc # "down" => r.off <= Written

\* The rows under way are this process's, of offsets it has not written.
FreshRow(r) == r.start = starts /\ r.off \in committed + 1 .. planned /\ topic[r.off].ok

OnceInv ==
    /\ \A f, g \in stored : f # g => f \cap g = {}
    /\ buffer \cap Stored = {}
    /\ pc = "down" => buffer = {}
    /\ \A r \in Stored \cup buffer : WrittenRow(r)
    /\ pc \in {"computed", "online"} => \A r \in rows : FreshRow(r)

LEMMA ComputedFresh ==
    ASSUME NEW lo \in Nat, NEW hi \in Nat, NEW loc, NEW r \in Computed(lo, hi, loc)
    PROVE  r.start = starts
BY DEF Computed

\* One more file, of rows that are in none of the others.
LEMMA FileAdded ==
    ASSUME OnceInv, NEW f, f \cap Stored = {}, stored' = stored \cup {f}
    PROVE  (\A x, y \in stored : x # y => x \cap y = {})'
BY DEF OnceInv, Stored

LEMMA FlushOnce ==
    ASSUME OnceInv, FlushBuffer
    PROVE  /\ (\A f, g \in stored : f # g => f \cap g = {})'
           /\ buffer' = {}
           /\ Stored' = Stored \cup buffer
<1>1. CASE buffer = {}
  BY <1>1 DEF FlushBuffer, OnceInv, Stored
<1>2. CASE buffer # {}
  <2>1. stored' = stored \cup {buffer} /\ buffer' = {}
    BY <1>2 DEF FlushBuffer, Emptied
  <2> QED
    BY <2>1, FileAdded DEF OnceInv, Stored
<1> QED
  BY <1>1, <1>2

LEMMA InitOnce == Init => OnceInv
BY DEF Init, OnceInv, Stored

LEMMA NextOnce == TypeOK /\ OnceInv /\ [Next]_vars => OnceInv'
<1> SUFFICES ASSUME TypeOK, OnceInv, [Next]_vars PROVE OnceInv'
  OBVIOUS
<1>0. /\ committed \in Nat /\ planned \in Nat /\ committed <= planned /\ starts \in Nat
      /\ \A r \in Stored \cup buffer \cup rows : r.off \in Nat /\ r.start \in Nat
  <2>1. Stored \cup buffer \cup rows \subseteq Row
    BY DEF TypeOK, Stored
  <2> QED
    BY <2>1, TopicType DEF TypeOK, Row
<1> USE <1>0
<1>1. CASE Start
  <2>1. /\ starts' = starts + 1 /\ pc = "down" /\ pc' = "idle"
        /\ UNCHANGED <<committed, planned, stored, buffer>>
    BY <1>1 DEF Start, sinks
  <2>2. \A r \in Stored \cup buffer : WrittenRow(r)'
    BY <2>1 DEF OnceInv, WrittenRow
  <2> QED
    BY <2>1, <2>2 DEF OnceInv, Stored
<1>2. CASE Trigger
  <2>1. /\ pc = "idle" /\ pc' = "computed"
        /\ UNCHANGED <<topic, starts, committed, stored, buffer>>
    BY <1>2 DEF Trigger, sinks
  <2>2. PICK end \in committed + 1 .. Len(topic), loc \in LastLocations :
            planned' = end /\ rows' = Computed(committed + 1, end, loc)
    BY <1>2 DEF Trigger
  <2>3. \A r \in rows' : r.start = starts /\ r.off \in committed + 1 .. planned' /\ topic[r.off].ok
    <3>1. committed + 1 \in Nat /\ end \in Nat
      BY <2>2, TopicType
    <3> QED
      BY <2>2, <3>1, ComputedRows, ComputedFresh
  <2>4. \A r \in Stored \cup buffer : WrittenRow(r)'
    BY <2>1 DEF OnceInv, WrittenRow, Written
  <2> QED
    BY <2>1, <2>3, <2>4 DEF OnceInv, FreshRow, Stored
<1>3. CASE WriteOnline
  <2>1. /\ pc = "computed" /\ pc' = "online"
        /\ UNCHANGED <<topic, starts, committed, planned, rows, stored, buffer>>
    BY <1>3 DEF WriteOnline, store, sinks
  <2> QED
    BY <2>1 DEF OnceInv, WrittenRow, Written, FreshRow, Stored
<1>4. ASSUME pc = "online" PROVE rows \cap (Stored \cup buffer) = {}
  BY <1>4 DEF OnceInv, WrittenRow, Written, FreshRow
<1>5. CASE Insert
  <2>1. /\ pc = "online" /\ pc' = "done"
        /\ stored' = stored \cup ({rows} \ {{}})
        /\ UNCHANGED <<topic, starts, committed, planned, rows, buffer>>
    BY <1>5 DEF Insert, store
  <2>2. Stored' = Stored \cup rows
    BY <2>1 DEF Stored
  <2>3. \A r \in Stored \cup buffer \cup rows : WrittenRow(r)'
    BY <2>1 DEF OnceInv, WrittenRow, Written, FreshRow
  <2>4. (\A f, g \in stored : f # g => f \cap g = {})'
    <3>1. CASE rows = {}
      <4>1. stored' = stored
        BY <2>1, <3>1
      <4> QED
        BY <4>1 DEF OnceInv
    <3>2. CASE rows # {}
      <4>1. stored' = stored \cup {rows} /\ rows \cap Stored = {}
        BY <1>4, <2>1, <3>2
      <4> QED
        BY <4>1, FileAdded
    <3> QED
      BY <3>1, <3>2
  <2> QED
    BY <1>4, <2>1, <2>2, <2>3, <2>4 DEF OnceInv
<1>6. CASE AddBatch
  <2>1. /\ pc = "online" /\ pc' \in {"full", "done"}
        /\ buffer' = buffer \cup rows
        /\ UNCHANGED <<topic, starts, committed, planned, rows, stored>>
    BY <1>6 DEF AddBatch, store
  <2>2. \A r \in Stored \cup buffer \cup rows : WrittenRow(r)'
    BY <2>1 DEF OnceInv, WrittenRow, Written, FreshRow
  <2> QED
    BY <1>4, <2>1, <2>2 DEF OnceInv, Stored
<1>7. CASE Flush
  <2>1. /\ pc = "full" /\ pc' = "done" /\ FlushBuffer
        /\ UNCHANGED <<topic, starts, committed, planned, rows>>
    BY <1>7 DEF Flush, store
  <2>2. \A r \in Stored \cup buffer : WrittenRow(r)'
    BY <2>1 DEF OnceInv, WrittenRow, Written
  <2> QED
    BY <2>1, <2>2, FlushOnce DEF OnceInv
<1>8. CASE Commit
  <2>1. /\ pc = "done" /\ pc' = "idle" /\ committed' = planned
        /\ UNCHANGED <<topic, starts, planned, rows, stored, buffer>>
    BY <1>8 DEF Commit, store, sinks
  <2> QED
    BY <2>1 DEF OnceInv, WrittenRow, Written, Stored
<1>9. CASE Stop
  <2>1. /\ pc' = "down" /\ FlushBuffer /\ starts' = starts
    BY <1>9 DEF Stop, store
  <2>2. \A r \in Stored \cup buffer : WrittenRow(r)'
    BY <2>1 DEF OnceInv, WrittenRow
  <2> QED
    BY <2>1, <2>2, FlushOnce DEF OnceInv
<1>10. CASE Die
  <2>1. pc' = "down" /\ buffer' = {} /\ stored' = stored /\ starts' = starts
    BY <1>10 DEF Die, store
  <2> QED
    BY <2>1 DEF OnceInv, WrittenRow, Stored
<1>11. CASE DieAfterWrite
  <2>1. pc' = "down" /\ buffer' = {} /\ starts' = starts
    BY <1>11 DEF DieAfterWrite, store
  <2>2. PICK f :
           /\ stored' = stored \cup ({f} \ {{}})
           /\ f = buffer \/ (pc = "online" /\ f = rows)
    <3>1. CASE pc = "online" /\ stored' = stored \cup ({rows} \ {{}})
      BY <3>1
    <3>2. CASE buffer # {} /\ stored' = stored \cup {buffer}
      <4>1. {buffer} \ {{}} = {buffer}
        BY <3>2
      <4> QED
        BY <3>2, <4>1
    <3> QED
      BY <1>11, <3>1, <3>2 DEF DieAfterWrite
  <2>3. f \cap Stored = {} /\ Stored' = Stored \cup f
    BY <1>4, <2>2 DEF OnceInv, Stored
  <2>4. \A r \in f : r.start <= starts
    BY <2>2 DEF OnceInv, WrittenRow, FreshRow
  <2>5. \A r \in Stored' : WrittenRow(r)'
    BY <2>1, <2>3, <2>4 DEF OnceInv, WrittenRow
  <2>6. (\A x, y \in stored : x # y => x \cap y = {})'
    <3>1. CASE f = {}
      <4>1. stored' = stored
        BY <2>2, <3>1
      <4> QED
        BY <4>1 DEF OnceInv
    <3>2. CASE f # {}
      BY <2>2, <2>3, <3>2, FileAdded
    <3> QED
      BY <3>1, <3>2
  <2> QED
    BY <2>1, <2>5, <2>6 DEF OnceInv
<1>12. CASE Forget \/ UNCHANGED vars
  <2>1. UNCHANGED <<topic, starts, pc, committed, planned, rows, stored, buffer>>
    BY <1>12 DEF Forget, vars, store, sinks
  <2> QED
    BY <2>1 DEF OnceInv, WrittenRow, Written, FreshRow, Stored
<1> QED
  BY <1>1, <1>2, <1>3, <1>5, <1>6, <1>7, <1>8, <1>9, <1>10, <1>11, <1>12 DEF Next

\* Through crashes, failed writes, replays and shutdowns, no row is in two files,
\* or in a file and, between batches, in the buffer: a replayed row is another
\* process's, and a process writes each offset's row once.
THEOREM RowsStoredOnce == Spec => []SnapshotStoredOnce
<1>1. OnceInv => SnapshotStoredOnce
  BY DEF OnceInv, SnapshotStoredOnce
<1>2. TypeOK /\ OnceInv /\ [Next]_vars => TypeOK' /\ OnceInv'
  BY NextType, NextOnce
<1> QED
  BY <1>1, <1>2, InitType, InitOnce, PTL DEF Spec

-----------------------------------------------------------------------------
(* The online store on an orderly topic. *)

\* A row of a valid transaction that was planned.
PlannedRow(r) == r.off \in 1 .. planned /\ topic[r.off].ok

BatchRow(r) == r.off \in committed + 1 .. planned /\ topic[r.off].ok

\* Nothing in the set is newer than what Redis holds, if it holds anything.
NoNewer(set) == latest # 0 => \A r \in set : topic[r.off].ts <= latest

NewestInv ==
    /\ \A r \in Stored \cup buffer : PlannedRow(r)
    /\ pc \in {"computed", "online"} => \A r \in rows : BatchRow(r)
    /\ Orderly => NoNewer(Stored \cup buffer)
    /\ Orderly /\ pc = "online" => NoNewer(rows)

\* A step that leaves the topic and the plan alone, keeps Redis or forgets, and
\* stores or buffers only rows it already had in its hands.
LEMMA StillNewest ==
    ASSUME NewestInv, topic' = topic, planned' = planned, latest' \in {latest, 0},
           Stored' \cup buffer' \subseteq Stored \cup buffer \cup rows,
           pc = "online" \/ Stored' \cup buffer' \subseteq Stored \cup buffer,
           committed \in Nat, planned \in Nat,
           pc' \in {"computed", "online"} =>
              pc' = pc /\ rows' = rows /\ committed' = committed
    PROVE  NewestInv'
<1>1. \A r \in Stored' \cup buffer' : PlannedRow(r)
  BY DEF NewestInv, PlannedRow, BatchRow
<1>2. Orderly => \A r \in Stored' \cup buffer' : latest # 0 => topic[r.off].ts <= latest
  BY DEF NewestInv, NoNewer
<1>3. Orderly' = Orderly
  BY DEF Orderly
<1>4. (\A r \in Stored \cup buffer : PlannedRow(r))'
  BY <1>1 DEF PlannedRow
<1>5. (Orderly => NoNewer(Stored \cup buffer))'
  BY <1>2, <1>3 DEF NoNewer
<1>6. /\ (pc \in {"computed", "online"} => \A r \in rows : BatchRow(r))'
      /\ (Orderly /\ pc = "online" => NoNewer(rows))'
  BY <1>3 DEF NewestInv, BatchRow, NoNewer
<1> QED
  BY <1>4, <1>5, <1>6 DEF NewestInv

\* On an orderly topic the newest row of a batch is newer than every row of an
\* earlier one, and no older than its own batch's.
LEMMA NewestOfAll ==
    ASSUME KeepInv, NewestInv, Orderly, pc = "computed", NEW r \in rows, Newest(r)
    PROVE  \A q \in Stored \cup buffer \cup rows : topic[q.off].ts <= topic[r.off].ts
<1> USE TopicType DEF KeepInv
<1> SUFFICES ASSUME NEW q \in Stored \cup buffer \cup rows
             PROVE  topic[q.off].ts <= topic[r.off].ts
  OBVIOUS
<1>1. PlannedRow(q) /\ PlannedRow(r) /\ r.off > committed
  BY DEF NewestInv, PlannedRow, BatchRow
<1>2. /\ q.off \in 1 .. Len(topic) /\ r.off \in 1 .. Len(topic)
      /\ topic[q.off].ts \in Nat /\ topic[r.off].ts \in Nat
  BY <1>1 DEF PlannedRow, TypeOK
<1>3. \A s \in rows : topic[s.off].ts <= topic[r.off].ts
  <2> SUFFICES ASSUME NEW s \in rows PROVE topic[s.off].ts <= topic[r.off].ts
    OBVIOUS
  <2>1. s.off \in 1 .. Len(topic)
    BY DEF TypeOK, Row
  <2>2. topic[s.off].ts \in Nat
    BY <2>1
  <2> QED
    BY <1>2, <2>2 DEF Newest
<1>4. CASE q.off \in committed + 1 .. planned
  <2>1. PICK s \in rows : s.off = q.off
    BY <1>1, <1>4 DEF BatchKept, Has, PlannedRow
  <2> QED
    BY <1>3, <2>1
<1>5. CASE q.off <= committed
  <2>1. topic[q.off].ts < topic[r.off].ts
    BY <1>1, <1>2, <1>5 DEF Orderly
  <2> QED
    BY <1>2, <2>1
<1> QED
  BY <1>1, <1>2, <1>4, <1>5 DEF PlannedRow

LEMMA InitNewest == Init => NewestInv
BY DEF Init, NewestInv, NoNewer, Stored

LEMMA NextNewest == KeepInv /\ NewestInv /\ [Next]_vars => NewestInv'
<1> SUFFICES ASSUME KeepInv, NewestInv, [Next]_vars PROVE NewestInv'
  OBVIOUS
<1> USE TopicType DEF KeepInv
<1>1. CASE Start \/ Commit
  <2>1. /\ pc' = "idle" /\ UNCHANGED <<topic, planned, latest, stored, buffer>>
    BY <1>1 DEF Start, Commit, store, redis, sinks
  <2> QED
    BY <2>1, StillNewest DEF Stored
<1>2. CASE Trigger
  <2>1. /\ pc' = "computed" /\ UNCHANGED <<topic, committed, latest, stored, buffer>>
    BY <1>2 DEF Trigger, sinks, redis
  <2>2. PICK end \in committed + 1 .. Len(topic), loc \in LastLocations :
            /\ planned > committed => end = planned
            /\ planned' = end /\ rows' = Computed(committed + 1, end, loc)
    BY <1>2 DEF Trigger
  <2>3. /\ committed \in Nat /\ planned \in Nat /\ committed <= planned
        /\ end \in Nat /\ committed + 1 \in Nat /\ planned <= planned'
    BY <2>2, TopicType DEF KeepInv, TypeOK
  <2>4. \A r \in rows' : r.off \in committed + 1 .. end /\ topic[r.off].ok
    BY <2>2, <2>3, ComputedRows
  <2>5. (\A r \in rows : BatchRow(r))'
    BY <2>1, <2>2, <2>4 DEF BatchRow
  <2>6. (\A r \in Stored \cup buffer : PlannedRow(r))'
    <3>1. 1 .. planned \subseteq 1 .. planned'
      BY <2>2, <2>3
    <3>2. \A r \in Stored \cup buffer : r.off \in 1 .. planned /\ topic[r.off].ok
      BY DEF NewestInv, PlannedRow
    <3> QED
      BY <2>1, <3>1, <3>2 DEF PlannedRow, Stored
  <2> QED
    BY <2>1, <2>5, <2>6 DEF NewestInv, NoNewer, Orderly, Stored
<1>3. CASE WriteOnline
  <2>1. /\ pc = "computed" /\ pc' = "online"
        /\ UNCHANGED <<topic, committed, planned, rows, stored, buffer>>
    BY <1>3 DEF WriteOnline, store, sinks
  <2>2. /\ (\A r \in Stored \cup buffer : PlannedRow(r))'
        /\ (\A r \in rows : BatchRow(r))'
    BY <2>1 DEF NewestInv, PlannedRow, BatchRow, Stored
  <2>3. ASSUME Orderly PROVE NoNewer(Stored \cup buffer)' /\ NoNewer(rows)'
    <3>1. CASE rows = {}
      BY <1>3, <2>1, <2>3, <3>1 DEF WriteOnline, redis, NewestInv, NoNewer, Stored
    <3>2. CASE rows # {}
      <4>1. PICK r \in rows : Newest(r) /\ latest' = topic[r.off].ts
        BY <1>3, <3>2 DEF WriteOnline
      <4> QED
        BY <2>1, <2>3, <4>1, NewestOfAll DEF NoNewer, Stored
    <3> QED
      BY <3>1, <3>2
  <2> QED
    BY <2>1, <2>2, <2>3 DEF NewestInv, Orderly
<1>4. CASE Insert
  <2>1. /\ pc = "online" /\ pc' = "done" /\ Stored' = Stored \cup rows
        /\ UNCHANGED <<topic, planned, latest, buffer>>
    BY <1>4 DEF Insert, store, redis, Stored
  <2> QED
    BY <2>1, StillNewest
<1>5. CASE AddBatch
  <2>1. /\ pc = "online" /\ pc' \in {"full", "done"} /\ buffer' = buffer \cup rows
        /\ UNCHANGED <<topic, planned, latest, stored>>
    BY <1>5 DEF AddBatch, store, redis
  <2> QED
    BY <2>1, StillNewest DEF Stored
<1>6. CASE Flush \/ Stop
  <2>1. FlushBuffer /\ pc' \in {"done", "down"} /\ UNCHANGED <<topic, planned, latest>>
    BY <1>6 DEF Flush, Stop, store, redis
  <2> QED
    BY <2>1, FlushKeepsRows, StillNewest
<1>7. CASE Die
  <2>1. pc' = "down" /\ buffer' = {} /\ UNCHANGED <<topic, planned, latest, stored>>
    BY <1>7 DEF Die, store, redis
  <2> QED
    BY <2>1, StillNewest DEF Stored
<1>8. CASE DieAfterWrite
  <2>1. pc' = "down" /\ buffer' = {} /\ UNCHANGED <<topic, planned, latest>>
    BY <1>8 DEF DieAfterWrite, store, redis
  <2>2. \/ pc = "online" /\ Stored' = Stored \cup rows
        \/ Stored' = Stored \cup buffer
    BY <1>8 DEF DieAfterWrite, Stored
  <2> QED
    BY <2>1, <2>2, StillNewest
<1>9. CASE Forget \/ UNCHANGED vars
  <2>1. /\ UNCHANGED <<topic, pc, committed, planned, rows, stored, buffer>>
        /\ latest' \in {latest, 0}
    BY <1>9 DEF Forget, vars, store, sinks, redis
  <2> QED
    BY <2>1, StillNewest DEF Stored
<1> QED
  BY <1>1, <1>2, <1>3, <1>4, <1>5, <1>6, <1>7, <1>8, <1>9 DEF Next

\* On an orderly topic what Redis tells an agent of a user is at least as new as
\* any row of the history, through replays that write Redis again.
THEOREM OnlineNewest == Spec => []OnlineIsNewest
<1>1. Init => KeepInv /\ NewestInv
  BY InitType, InitKeep, InitNewest DEF KeepInv
<1>2. (KeepInv /\ NewestInv) /\ [Next]_vars => (KeepInv /\ NewestInv)'
  BY NextType, NextKeep, NextNewest DEF KeepInv
<1>3. KeepInv /\ NewestInv => OnlineIsNewest
  BY DEF NewestInv, NoNewer, OnlineIsNewest
<1> QED
  BY <1>1, <1>2, <1>3, PTL DEF Spec

-----------------------------------------------------------------------------
(* The first run's jumps. *)

\* The transactions the baseline may be of: those of batches that wrote Redis.
Seen == IF pc \in {"online", "full", "done"} THEN planned ELSE committed

\* The first process's baseline is the one of the first day, gone, or of a
\* transaction that was seen.
BaselineIsSeen ==
    \/ location \in {NoLocation, Baseline}
    \/ \E o \in 1 .. Seen : topic[o].ts = location.ts

FirstFlagged(set) ==
    \A r \in set : topic[r.off].place # Home /\ r.start = 1 => r.suspect

FirstRun == starts = 0 \/ (starts = 1 /\ pc # "down")

JumpInv ==
    Orderly /\ ~blind =>
        /\ FirstRun => BaselineIsSeen
        /\ pc \in {"computed", "online"} => FirstFlagged(rows)
        /\ FirstFlagged(Stored \cup buffer)

\* Nothing happens before the first start.
FirstStart == starts = 0 => pc = "down"

LEMMA InitJump == Init => FirstStart /\ JumpInv
<1> SUFFICES ASSUME Init PROVE FirstStart /\ JumpInv
  OBVIOUS
<1>1. BaselineIsSeen
  BY DEF Init, BaselineIsSeen
<1> QED
  BY <1>1 DEF Init, JumpInv, FirstFlagged, Stored, FirstStart

\* In the first run every jump of a batch is newer than the baseline.
LEMMA JumpIsSuspect ==
    ASSUME KeepInv, CleanInv, JumpInv, Orderly, ~blind, pc = "idle", starts = 1,
           NEW loc \in LastLocations, loc # NoLocation,
           NEW o \in committed + 1 .. Len(topic), topic[o].place # Home
    PROVE  Suspect(topic[o], loc)
<1> USE TopicType DEF KeepInv
<1>1. loc = location /\ BaselineIsOwn /\ BaselineIsSeen
  BY DEF LastLocations, CleanInv, JumpInv, FirstRun
<1>2. loc.place = Home /\ loc.ts \in Nat
  BY <1>1 DEF BaselineIsOwn, OwnPlace, Baseline, TypeOK
<1>3. o \in DOMAIN topic /\ topic[o].ts \in Nat /\ topic[o].ts > 0 /\ Known(topic[o].place)
  BY DEF Orderly
<1>4. loc.ts < topic[o].ts
  <2>1. CASE loc = Baseline
    BY <1>3, <2>1 DEF Baseline
  <2>2. CASE loc # Baseline
    <3>1. PICK p \in 1 .. committed : topic[p].ts = loc.ts
      BY <1>1, <2>2 DEF BaselineIsSeen, Seen
    <3>2. p \in DOMAIN topic /\ p < o
      BY <3>1 DEF TypeOK
    <3> QED
      BY <1>3, <3>1, <3>2 DEF Orderly
  <2> QED
    BY <2>1, <2>2
<1> QED
  BY <1>2, <1>3, <1>4, EngineAssumption DEF Suspect, Known, Jump

\* A step that leaves the topic alone, keeps the baseline or loses it, sees no
\* less, and stores or buffers nothing but rows that are flagged already.
LEMMA StillFlagged ==
    ASSUME JumpInv, Orderly, ~blind, topic' = topic,
           location' \in {location, NoLocation},
           FirstRun' => FirstRun,
           1 .. Seen \subseteq 1 .. Seen',
           Stored' \cup buffer' \subseteq Stored \cup buffer \cup rows,
           pc \in {"computed", "online"} \/ Stored' \cup buffer' \subseteq Stored \cup buffer,
           pc' \in {"computed", "online"} => rows' = rows /\ pc \in {"computed", "online"}
    PROVE  JumpInv'
<1>1. BaselineIsSeen => BaselineIsSeen'
  BY DEF BaselineIsSeen, NoLocation, Baseline
<1>2. FirstFlagged(Stored \cup buffer)'
  BY DEF JumpInv, FirstFlagged
<1>3. (pc \in {"computed", "online"} => FirstFlagged(rows))'
  BY DEF JumpInv, FirstFlagged
<1>4. (FirstRun => BaselineIsSeen)'
  BY <1>1 DEF JumpInv
<1> QED
  BY <1>2, <1>3, <1>4 DEF JumpInv

LEMMA NextFirstStart == TypeOK /\ FirstStart /\ [Next]_vars => FirstStart'
BY DEF TypeOK, FirstStart, Next, vars, store, Start, Forget, Trigger, WriteOnline, Insert,
       AddBatch, Flush, Commit, Stop, Die, DieAfterWrite

LEMMA NextJump == KeepInv /\ CleanInv /\ JumpInv /\ FirstStart /\ [Next]_vars => JumpInv'
<1> SUFFICES ASSUME KeepInv, CleanInv, JumpInv, FirstStart, [Next]_vars, Orderly', ~blind'
             PROVE  JumpInv'
  BY DEF JumpInv
<1> USE TopicType DEF KeepInv
<1>0. topic' = topic /\ ~blind
  <2>1. topic' = topic
    BY DEF Next, vars, store, Start, Forget, Trigger, WriteOnline, Insert, AddBatch, Flush,
           Commit, Stop, Die, DieAfterWrite
  <2>2. CASE Trigger
    BY <2>1, <2>2, Zenon DEF Trigger
  <2>3. CASE ~Trigger
    <3>1. blind' = blind
      BY <2>3 DEF Next, vars, store, Start, Forget, WriteOnline, Insert, AddBatch, Flush,
                  Commit, Stop, Die, DieAfterWrite
    <3> QED
      BY <2>1, <3>1, Zenon
  <2> QED
    BY <2>1, <2>2, <2>3, Zenon
<1>00. Orderly
  BY <1>0 DEF Orderly
<1>000. committed \in Nat /\ planned \in Nat /\ committed <= planned /\ starts \in Nat
  BY DEF TypeOK
<1> USE <1>0, <1>00, <1>000
<1>1. CASE Start
  <2>1. /\ pc = "down" /\ pc' = "idle" /\ starts' = starts + 1
        /\ UNCHANGED <<committed, planned, location, stored, buffer>>
    BY <1>1 DEF Start, redis, sinks
  <2>2. Seen' = Seen
    BY <2>1 DEF Seen
  <2>3. FirstRun' => FirstRun
    BY <2>1 DEF FirstRun
  <2> QED
    BY <2>1, <2>2, <2>3, StillFlagged DEF Stored
<1>2. CASE Trigger
  <2>1. /\ pc = "idle" /\ pc' = "computed"
        /\ UNCHANGED <<starts, committed, location, stored, buffer>>
    BY <1>2 DEF Trigger, redis, sinks
  <2>2. PICK end \in committed + 1 .. Len(topic), loc \in LastLocations :
            /\ planned' = end
            /\ rows' = Computed(committed + 1, end, loc)
            /\ blind' = (blind \/ (loc = NoLocation /\ ~AllHome(rows')))
    BY <1>2 DEF Trigger
  <2>3. end \in Nat /\ committed + 1 \in Nat
    BY <2>2
  <2>4. ASSUME NEW r \in rows', topic[r.off].place # Home, r.start = 1 PROVE r.suspect
    <3>1. /\ r.off \in committed + 1 .. end /\ r.start = starts
          /\ r.suspect = Suspect(topic[r.off], loc)
      BY <2>2, <2>3, ComputedRows, ComputedFresh
    <3>2. loc # NoLocation
      BY <2>2, <2>4 DEF AllHome
    <3>3. Suspect(topic[r.off], loc)
      BY <2>1, <2>4, <3>1, <3>2, JumpIsSuspect
    <3> QED
      BY <3>1, <3>3
  <2>5. FirstFlagged(rows)'
    BY <2>4 DEF FirstFlagged
  <2>6. FirstFlagged(Stored \cup buffer)'
    BY <2>1 DEF JumpInv, FirstFlagged, Stored
  <2>7. (FirstRun => BaselineIsSeen)'
    BY <2>1 DEF JumpInv, FirstRun, BaselineIsSeen, Seen, NoLocation, Baseline
  <2> QED
    BY <2>5, <2>6, <2>7 DEF JumpInv
<1>3. CASE WriteOnline
  <2>1. /\ pc = "computed" /\ pc' = "online"
        /\ UNCHANGED <<starts, committed, planned, rows, stored, buffer>>
    BY <1>3 DEF WriteOnline, store, sinks
  <2>2. 1 .. Seen \subseteq 1 .. Seen'
    BY <2>1 DEF Seen
  <2>3. CASE location' = location
    BY <2>1, <2>2, <2>3, StillFlagged DEF FirstRun, Stored
  <2>4. CASE location' # location
    <3>1. PICK r \in rows :
             /\ Newest(r) /\ ~r.suspect
             /\ location' = [ts |-> topic[r.off].ts, place |-> topic[r.off].place]
      BY <1>3, <2>4 DEF WriteOnline, redis
    <3>2. r.off \in 1 .. planned
      BY <2>1, <3>1, NewestIsOwn DEF CleanInv
    <3>3. BaselineIsSeen'
      BY <2>1, <3>1, <3>2 DEF BaselineIsSeen, Seen
    <3> QED
      BY <2>1, <3>3 DEF JumpInv, FirstFlagged, Stored
  <2> QED
    BY <2>3, <2>4
<1>4. CASE Insert
  <2>1. /\ pc = "online" /\ pc' = "done" /\ Stored' = Stored \cup rows
        /\ UNCHANGED <<starts, committed, planned, location, buffer>>
    BY <1>4 DEF Insert, store, redis, Stored
  <2> QED
    BY <2>1, StillFlagged DEF FirstRun, Seen
<1>5. CASE AddBatch
  <2>1. /\ pc = "online" /\ pc' \in {"full", "done"} /\ buffer' = buffer \cup rows
        /\ UNCHANGED <<starts, committed, planned, location, stored>>
    BY <1>5 DEF AddBatch, store, redis
  <2> QED
    BY <2>1, StillFlagged DEF FirstRun, Seen, Stored
<1>6. CASE Flush
  <2>1. /\ pc = "full" /\ pc' = "done" /\ FlushBuffer
        /\ UNCHANGED <<starts, committed, planned, location>>
    BY <1>6 DEF Flush, store, redis
  <2> QED
    BY <2>1, FlushKeepsRows, StillFlagged DEF FirstRun, Seen
<1>7. CASE Commit
  <2>1. /\ pc = "done" /\ pc' = "idle" /\ committed' = planned
        /\ UNCHANGED <<starts, planned, location, stored, buffer>>
    BY <1>7 DEF Commit, store, redis, sinks
  <2> QED
    BY <2>1, StillFlagged DEF FirstRun, Seen, Stored
<1>8. ASSUME pc' = "down", pc # "down", starts' = starts,
             UNCHANGED <<location, committed>>,
             Stored' \cup buffer' \subseteq Stored \cup buffer \cup rows,
             pc \in {"computed", "online"} \/ Stored' \cup buffer' \subseteq Stored \cup buffer
      PROVE  JumpInv'
  <2>1. ~FirstRun'
    BY <1>8 DEF FirstStart, FirstRun
  <2>2. FirstFlagged(Stored \cup buffer)'
    BY <1>8 DEF JumpInv, FirstFlagged
  <2> QED
    BY <1>8, <2>1, <2>2 DEF JumpInv
<1>9. CASE Stop
  <2>1. /\ pc # "down" /\ pc' = "down" /\ FlushBuffer
        /\ UNCHANGED <<starts, committed, location>>
    BY <1>9 DEF Stop, store, redis
  <2> QED
    BY <1>8, <2>1, FlushKeepsRows
<1>10. CASE Die
  <2>1. /\ pc # "down" /\ pc' = "down" /\ buffer' = {}
        /\ UNCHANGED <<starts, committed, location, stored>>
    BY <1>10 DEF Die, store, redis
  <2> QED
    BY <1>8, <2>1 DEF Stored
<1>11. CASE DieAfterWrite
  <2>1. /\ pc \in {"online", "full"} /\ pc' = "down" /\ buffer' = {}
        /\ UNCHANGED <<starts, committed, location>>
    BY <1>11 DEF DieAfterWrite, store, redis
  <2>2. \/ pc = "online" /\ Stored' = Stored \cup rows
        \/ Stored' = Stored \cup buffer
    BY <1>11 DEF DieAfterWrite, Stored
  <2> QED
    BY <1>8, <2>1, <2>2
<1>12. CASE Forget \/ UNCHANGED vars
  <2>1. /\ UNCHANGED <<starts, pc, committed, planned, rows, stored, buffer>>
        /\ location' \in {location, NoLocation}
    BY <1>12 DEF Forget, vars, store, sinks, redis
  <2> QED
    BY <2>1, StillFlagged DEF FirstRun, Seen, Stored
<1> QED
  BY <1>1, <1>2, <1>3, <1>4, <1>5, <1>6, <1>7, <1>9, <1>10, <1>11, <1>12 DEF Next

\* On an orderly topic, and while no fraud's transaction is scored without a
\* baseline, every jump the first process computes is flagged.
THEOREM JumpsFlagged == Spec => []JumpsAreFlagged
<1>1. Init => KeepInv /\ CleanInv /\ JumpInv /\ FirstStart
  BY InitType, InitKeep, InitClean, InitJump DEF KeepInv
<1>2. (KeepInv /\ CleanInv /\ JumpInv /\ FirstStart) /\ [Next]_vars
         => (KeepInv /\ CleanInv /\ JumpInv /\ FirstStart)'
  BY NextType, NextKeep, NextClean, NextJump, NextFirstStart DEF KeepInv
<1>3. KeepInv /\ CleanInv /\ JumpInv /\ FirstStart => JumpsAreFlagged
  BY DEF JumpInv, FirstFlagged, JumpsAreFlagged
<1> QED
  BY <1>1, <1>2, <1>3, PTL DEF Spec

=============================================================================
