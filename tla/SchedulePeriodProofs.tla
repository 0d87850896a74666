------------------------ MODULE SchedulePeriodProofs ------------------------
(***************************************************************************)
(* When the run keys of SchedulePeriods do what scheduler.py promises: if  *)
(* no fire, however late, leaves the calendar period of its due hour, and  *)
(* no two fires are due in the same one (Calm), then no period is reported *)
(* twice and no fire is dropped for another period's.  A zone without      *)
(* clock changes is Calm when its fire hour plus the grace time stays      *)
(* inside a UTC period.  In any zone, Calm or not, the windows of two      *)
(* periods in a row meet within the grace time.                            *)
(***************************************************************************)
EXTENDS SchedulePeriods, TLAPS

Calm ==
    /\ \A d \in Days, x \in 0 .. Grace : RunKey(Due(d) + x) = RunKey(Due(d))
    /\ \A d, e \in Days : RunKey(Due(d)) = RunKey(Due(e)) => d = e

\* Each key belongs to the one report made under it.
KeyInv ==
    /\ TypeOK
    /\ \A r \in reports : RunKey(r.at) = RunKey(Due(r.day)) /\ RunKey(r.at) \in keys
    /\ \A k \in keys : \E r \in reports : RunKey(r.at) = k
    /\ \A r, s \in reports : RunKey(r.at) = RunKey(s.at) => r = s

LEMMA DueType == ASSUME NEW d \in Days PROVE Due(d) \in Int
<1>. QED
    BY PeriodAssumption DEF Due

LEMMA KeyType == ASSUME NEW u \in Int PROVE RunKey(u) \in Int
<1>. QED
    BY PeriodAssumption DEF RunKey

LEMMA KeyInit == Init => KeyInv
<1>. QED
    BY DEF Init, KeyInv, TypeOK, NextDay

\* Of the fires a job missed only one is the latest.
LEMMA LatestIsOne ==
    ASSUME NEW p \in Procs, NEW c \in LatestDue(p), NEW d \in LatestDue(p)
    PROVE  c = d
<1>1. c \in Int /\ d \in Int
    BY PeriodAssumption DEF LatestDue
<1>2. c <= d /\ d <= c
    BY DEF LatestDue
<1>. QED
    BY <1>1, <1>2

\* A fire under Calm is a no-op exactly when its own period is reported.
LEMMA FireOK ==
    ASSUME Calm, KeyInv, NEW p \in Procs, NEW d \in LatestDue(p), Fire(p)
    PROVE  KeyInv' /\ Reported(d)'
<1>1. d \in Days /\ now \in Int /\ Due(d) \in Int /\ Due(d) <= now
    BY DueType DEF KeyInv, TypeOK, LatestDue
<1>a. PICK c \in LatestDue(p) :
         /\ now <= Due(c) + Grace
         /\ IF RunKey(now) \in keys
              THEN UNCHANGED <<keys, reports>>
              ELSE /\ keys' = keys \cup {RunKey(now)}
                   /\ reports' = reports \cup {[day |-> c, at |-> now]}
    BY DEF Fire
<1>b. c = d
    BY <1>1, LatestIsOne
<1>2. now - Due(d) \in 0 .. Grace /\ now = Due(d) + (now - Due(d))
    BY <1>1, <1>a, <1>b, PeriodAssumption
<1>3. RunKey(now) = RunKey(Due(d))
    BY <1>1, <1>2 DEF Calm
<1>4. RunKey(now) \in Int
    BY <1>1, KeyType
<1>5. next' \in [Procs -> Days] /\ now' = now
    BY DEF Fire, Reschedule, NextDay, KeyInv, TypeOK
<1>6. CASE RunKey(now) \in keys
  <2>1. keys' = keys /\ reports' = reports
      BY <1>6, <1>a
  <2>2. PICK r \in reports : RunKey(r.at) = RunKey(now)
      BY <1>6 DEF KeyInv
  <2>3. r.day \in Days /\ RunKey(Due(r.day)) = RunKey(Due(d))
      BY <1>3, <2>2 DEF KeyInv, TypeOK
  <2>4. r.day = d
      BY <1>1, <2>3 DEF Calm
  <2>5. KeyInv'
      BY <1>5, <2>1 DEF KeyInv, TypeOK, Due, RunKey
  <2>. QED
      BY <2>1, <2>4, <2>5 DEF Reported
<1>7. CASE RunKey(now) \notin keys
  <2> DEFINE new == [day |-> d, at |-> now]
  <2>1. keys' = keys \cup {RunKey(now)} /\ reports' = reports \cup {new}
      BY <1>7, <1>a, <1>b
  <2>2. new \in [day: Days, at: Int] /\ new.at = now /\ new.day = d
      BY <1>1
  <2> HIDE DEF new
  <2>3. TypeOK'
      BY <1>4, <1>5, <2>1, <2>2 DEF KeyInv, TypeOK
  <2>4. \A r \in reports' : RunKey(r.at) = RunKey(Due(r.day)) /\ RunKey(r.at) \in keys'
      BY <1>3, <2>1, <2>2 DEF KeyInv
  <2>5. \A k \in keys' : \E r \in reports' : RunKey(r.at) = k
      BY <2>1, <2>2 DEF KeyInv
  <2>6. \A r, s \in reports' : RunKey(r.at) = RunKey(s.at) => r = s
      BY <1>7, <2>1, <2>2 DEF KeyInv
  <2>7. KeyInv'
      BY <2>3, <2>4, <2>5, <2>6 DEF KeyInv, RunKey, Due
  <2>. QED
      BY <2>1, <2>2, <2>7 DEF Reported
<1>. QED
    BY <1>6, <1>7

LEMMA KeyStep ==
    ASSUME Calm, KeyInv, [Next]_vars
    PROVE  KeyInv'
<1>1. CASE Tick
    BY <1>1 DEF Tick, KeyInv, TypeOK
<1>2. ASSUME NEW p \in Procs, Misfire(p) PROVE KeyInv'
    BY <1>2 DEF Misfire, Reschedule, NextDay, KeyInv, TypeOK
<1>3. ASSUME NEW p \in Procs, Fire(p) PROVE KeyInv'
  <2>1. PICK d \in LatestDue(p) : TRUE
      BY <1>3 DEF Fire
  <2>. QED
      BY <1>3, <2>1, FireOK
<1>4. CASE UNCHANGED vars
    BY <1>4 DEF vars, KeyInv, TypeOK
<1>. QED
    BY <1>1, <1>2, <1>3, <1>4 DEF Next

\* The quotient by a positive number is the only one that brackets the dividend.
LEMMA DivUnique ==
    ASSUME NEW n \in Nat \ {0}, NEW u \in Int, NEW k \in Int,
           n * k <= u, u < n * (k + 1)
    PROVE  u \div n = k
<1> DEFINE q == u \div n
<1>1. q \in Int /\ n * q <= u /\ u < n * (q + 1)
    BY Z3
<1> HIDE DEF q
<1>2. ASSUME q < k PROVE FALSE
  <2>1. n * (q + 1) <= n * k
      BY <1>1, <1>2, Z3
  <2>. QED
      BY <1>1, <2>1
<1>3. ASSUME k < q PROVE FALSE
  <2>1. n * (k + 1) <= n * q
      BY <1>1, <1>3, Z3
  <2>. QED
      BY <1>1, <2>1
<1>. QED
    BY <1>1, <1>2, <1>3 DEF q

\* A zone whose offset never changes is Calm when the UTC fire hour leaves room
\* for the grace time before the next calendar period.
THEOREM FixedZoneIsCalm ==
    ASSUME NEW c \in Int, \A d \in Days : Offset[d] = c,
           NEW q \in Int, NEW r \in Nat, At - c = PeriodLen * q + r,
           r + Grace < PeriodLen
    PROVE  Calm
<1>1. ASSUME NEW d \in Days, NEW x \in 0 .. Grace
      PROVE  RunKey(Due(d) + x) = d + q
  <2> DEFINE u == Due(d) + x
  <2>1. d \in Int /\ PeriodLen \in Nat \ {0} /\ At \in Int /\ x \in Int /\ Grace \in Int
      BY PeriodAssumption
  <2>2. PeriodLen * (d + q) = PeriodLen * d + PeriodLen * q
      BY <2>1, Z3
  <2>3. PeriodLen * (d + q + 1) = PeriodLen * (d + q) + PeriodLen
      BY <2>1, Z3
  <2>4. Due(d) = PeriodLen * d + (At - c)
      BY <2>1, Z3 DEF Due
  <2>5. u = PeriodLen * (d + q) + r + x
      BY <2>1, <2>2, <2>4, Z3
  <2>6. r + x < PeriodLen /\ 0 <= r + x
      BY <2>1
  <2>7. u \in Int /\ d + q \in Int
      BY <2>1, DueType
  <2> HIDE DEF u
  <2>8. PeriodLen * (d + q) \in Int
      BY <2>1, Z3
  <2>9. PeriodLen * (d + q) <= u /\ u < PeriodLen * (d + q + 1)
      BY <2>1, <2>3, <2>5, <2>6, <2>7, <2>8
  <2>. QED
      BY <2>1, <2>7, <2>9, DivUnique DEF RunKey, u
<1>2. ASSUME NEW d \in Days PROVE RunKey(Due(d)) = d + q
  <2>1. 0 \in 0 .. Grace /\ Due(d) + 0 = Due(d)
      BY DueType, PeriodAssumption
  <2>. QED
      BY <1>1, <2>1
<1>3. \A d, e \in Days : RunKey(Due(d)) = RunKey(Due(e)) => d = e
    BY <1>2, PeriodAssumption
<1>. QED
    BY <1>1, <1>2, <1>3 DEF Calm

\* Under Calm no local period is reported twice: the run key is the identity of
\* the period it is meant to be (scheduler.py, "NO DUPLICATE REPORTS").
THEOREM NoPeriodTwice == ASSUME Calm PROVE Spec => []ReportedOnce
<1>1. KeyInv => ReportedOnce
    BY DEF KeyInv, ReportedOnce
<1>. QED
    BY <1>1, KeyInit, KeyStep, PTL DEF Spec

\* Under Calm no fire is dropped as the duplicate of another period's fire.
THEOREM NoPeriodDropped == ASSUME Calm PROVE Spec => FiresReport
<1>1. KeyInv /\ [Next]_vars =>
        [\A p \in Procs, d \in Days : d \in LatestDue(p) /\ Fire(p) => Reported(d)']_vars
  <2>1. ASSUME KeyInv, NEW p \in Procs, NEW d \in Days, d \in LatestDue(p), Fire(p)
        PROVE  Reported(d)'
      BY <2>1, FireOK
  <2>. QED
      BY <2>1
<1>. QED
    BY <1>1, KeyInit, KeyStep, PTL DEF Spec, FiresReport

-----------------------------------------------------------------------------
(* Windows *)

\* A report is made within the grace time of the hour its period was due.
InGrace ==
    /\ TypeOK
    /\ \A r \in reports : r.at - Due(r.day) \in 0 .. Grace

LEMMA GraceStep == InGrace /\ [Next]_vars => InGrace'
<1> SUFFICES ASSUME InGrace, [Next]_vars PROVE InGrace'
    OBVIOUS
<1>1. CASE Tick
    BY <1>1 DEF Tick, InGrace, TypeOK, Due
<1>2. ASSUME NEW p \in Procs, Misfire(p) PROVE InGrace'
    BY <1>2 DEF Misfire, Reschedule, NextDay, InGrace, TypeOK, Due
<1>3. ASSUME NEW p \in Procs, Fire(p) PROVE InGrace'
  <2>1. PICK d \in LatestDue(p) :
           /\ now <= Due(d) + Grace
           /\ IF RunKey(now) \in keys
                THEN UNCHANGED <<keys, reports>>
                ELSE /\ keys' = keys \cup {RunKey(now)}
                     /\ reports' = reports \cup {[day |-> d, at |-> now]}
      BY <1>3 DEF Fire
  <2> DEFINE new == [day |-> d, at |-> now]
  <2>2. /\ d \in Days /\ Due(d) \in Int /\ now \in Int /\ Due(d) <= now
        /\ Grace \in Int /\ RunKey(now) \in Int
      BY DueType, KeyType, PeriodAssumption DEF InGrace, TypeOK, LatestDue
  <2>3. new \in [day: Days, at: Int] /\ new.at - Due(new.day) \in 0 .. Grace
      BY <2>1, <2>2
  <2>4. next' \in [Procs -> Days] /\ now' = now
      BY <1>3 DEF Fire, Reschedule, NextDay, InGrace, TypeOK
  <2>5. /\ keys' \in {keys, keys \cup {RunKey(now)}}
        /\ reports' \in {reports, reports \cup {new}}
      BY <2>1
  <2> HIDE DEF new
  <2>6. TypeOK'
      BY <2>2, <2>3, <2>4, <2>5 DEF InGrace, TypeOK
  <2>7. \A r \in reports' : r.at - Due(r.day) \in 0 .. Grace
      BY <2>3, <2>5 DEF InGrace
  <2>. QED
      BY <2>6, <2>7 DEF InGrace, Due
<1>4. CASE UNCHANGED vars
    BY <1>4 DEF vars, InGrace, TypeOK, Due
<1>. QED
    BY <1>1, <1>2, <1>3, <1>4 DEF Next

\* In every zone, with changes of its clock and late fires: the windows of two
\* periods in a row meet within the grace time (compute_window).
THEOREM WindowsAlwaysMeet == Spec => []WindowsMeet
<1>1. Init => InGrace
    BY DEF Init, InGrace, TypeOK, NextDay
<1>2. InGrace => WindowsMeet
  <2> SUFFICES ASSUME InGrace, NEW r \in reports, NEW s \in reports, s.day = r.day + 1
               PROVE  (Window(s.at).start + Offset[s.day]) - (Window(r.at).end + Offset[r.day])
                          \in -Grace .. Grace
      BY DEF WindowsMeet
  <2> DEFINE x == r.at - Due(r.day)
             y == s.at - Due(s.day)
             base == PeriodLen * r.day
  <2>1. /\ r.day \in Days /\ s.day \in Days /\ r.day \in Int /\ s.day \in Int
        /\ r.at \in Int /\ s.at \in Int
        /\ Offset[r.day] \in Int /\ Offset[s.day] \in Int
        /\ PeriodLen \in Int /\ At \in Int /\ Grace \in Int
    <3>1. r \in [day: Days, at: Int] /\ s \in [day: Days, at: Int]
        BY DEF InGrace, TypeOK
    <3>2. Days \subseteq Int /\ Offset \in [Days -> Int]
        BY PeriodAssumption
    <3>3. r.day \in Days /\ s.day \in Days /\ r.at \in Int /\ s.at \in Int
        BY <3>1
    <3>4. PeriodLen \in Int /\ At \in Int /\ Grace \in Int
        BY PeriodAssumption
    <3>. QED
        BY <3>2, <3>3, <3>4
  <2>2. x \in 0 .. Grace /\ y \in 0 .. Grace
      BY DEF InGrace
  <2>3. base \in Int /\ PeriodLen * (r.day + 1) = base + PeriodLen
      BY <2>1, Z3
  <2>4. Due(r.day) = base + At - Offset[r.day] /\ Due(s.day) = base + PeriodLen + At - Offset[s.day]
      BY <2>1, <2>3 DEF Due
  <2> HIDE DEF base
  <2>5. /\ r.at = base + At - Offset[r.day] + x
        /\ s.at = base + PeriodLen + At - Offset[s.day] + y
      BY <2>1, <2>3, <2>4
  <2> HIDE DEF x, y
  <2>6. (s.at - PeriodLen + Offset[s.day]) - (r.at + Offset[r.day]) = y - x
      BY <2>1, <2>2, <2>3, <2>5
  <2>. QED
      BY <2>1, <2>2, <2>6 DEF Window
<1>. QED
    BY <1>1, <1>2, GraceStep, PTL DEF Spec

=============================================================================
