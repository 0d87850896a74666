--------------------------- MODULE SchedulePeriods ---------------------------
(***************************************************************************)
(* What WorkflowEngine abstracts of time: the fire times of one recurring  *)
(* schedule in its own timezone (schedule.py), and the period key and the  *)
(* report window scheduler.py computes from the UTC instant of a fire.     *)
(*                                                                         *)
(* A schedule fires once per local period (a day of a daily schedule, a    *)
(* week of a weekly one), PeriodLen hours long.  Offset[d] is the UTC      *)
(* offset of the zone on period d.  The processes that hold a job for the  *)
(* schedule fire it each by itself, at once or up to Grace hours late.     *)
(***************************************************************************)
EXTENDS Integers

CONSTANTS
    Procs,          \* the processes that hold a job for the schedule
    PeriodLen,      \* hours of a period
    At,             \* local hour of the period the schedule fires at
    Offset,         \* UTC offset of the zone, per local period
    Grace,          \* misfire_grace_time, in hours
    Days,           \* the local periods of an instance
    MaxNow          \* bound: the last hour

ASSUME PeriodAssumption ==
    /\ PeriodLen \in Nat \ {0}
    /\ At \in 0 .. PeriodLen - 1
    /\ Days \subseteq Nat
    /\ Offset \in [Days -> Int]
    /\ Grace \in 0 .. PeriodLen - 1
    /\ MaxNow \in Nat

VARIABLES
    now,        \* UTC hour
    next,       \* per process: the local period its job fires for next
    keys,       \* the run keys of the store's runs
    reports     \* the runs: for which local period, at which hour

vars == <<now, next, keys, reports>>

\* The UTC hour at which the cron trigger falls due for local period d.
Due(d) == PeriodLen * d + At - Offset[d]

\* Mutated form: the period boundary is off by one hour.
RunKey_Late(u) == (u - 1) \div PeriodLen

\* run_key: the calendar period of the UTC instant.
RunKey(u) == u \div PeriodLen

\* Mutated form: a daily window reaches one hour too far back.
Window_Long(u) == [start |-> u - PeriodLen - 1, end |-> u]

\* compute_window
Window(u) == [start |-> u - PeriodLen, end |-> u]

\* The first local period whose fire is still to come.
NextDay(u) ==
    {d \in Days : Due(d) > u /\ \A e \in Days : Due(e) > u => d <= e}

Init ==
    /\ now = 0
    /\ next \in [Procs -> NextDay(0)]
    /\ keys = {}
    /\ reports = {}

Tick ==
    /\ now < MaxNow
    /\ now' = now + 1
    /\ UNCHANGED <<next, keys, reports>>

\* The period the job of process p runs for: of the fires it missed APScheduler
\* keeps the latest (coalesce=True).
LatestDue(p) ==
    {d \in Days : /\ d >= next[p] /\ Due(d) <= now
                 /\ \A e \in Days : Due(e) <= now => e <= d}

Reschedule(p) == \E d \in NextDay(now) : next' = [next EXCEPT ![p] = d]

\* _fire: a key taken already makes it a no-op.
Fire(p) ==
    /\ \E d \in LatestDue(p) :
         /\ now <= Due(d) + Grace
         /\ IF RunKey(now) \in keys
              THEN UNCHANGED <<keys, reports>>
              ELSE /\ keys' = keys \cup {RunKey(now)}
                   /\ reports' = reports \cup {[day |-> d, at |-> now]}
    /\ Reschedule(p)
    /\ UNCHANGED now

\* APScheduler drops a fire later than the grace time.
Misfire(p) ==
    /\ \E d \in LatestDue(p) : now > Due(d) + Grace
    /\ Reschedule(p)
    /\ UNCHANGED <<now, keys, reports>>

Next == Tick \/ \E p \in Procs : Fire(p) \/ Misfire(p)

Spec == Init /\ [][Next]_vars

-----------------------------------------------------------------------------

\* Every variable has its type.
TypeOK ==
    /\ now \in Nat
    /\ next \in [Procs -> Days]
    /\ keys \subseteq Int
    /\ reports \subseteq [day: Days, at: Int]

Reported(d) == \E r \in reports : r.day = d

\* "NO DUPLICATE REPORTS: a duplicate fire is a no-op, never a second Slack
\* message" (scheduler.py): no local period is reported twice, however many
\* processes fire it and however late.
ReportedOnce ==
    \A r, s \in reports : r.day = s.day => r = s

\* Only a duplicate is dropped: "two fires in the same period collapse to the
\* same key" (scheduler.py), so a fire of a period leaves that period reported.
FiresReport ==
    [][\A p \in Procs, d \in Days : d \in LatestDue(p) /\ Fire(p) => Reported(d)']_vars

\* The windows of the reports of two periods in a row, fired by any two processes
\* and however late, leave no gap and no overlap longer than the grace time, a
\* change of the clock between them apart: compute_window counts from the hour of
\* the fire, not from the hour it was due.
WindowsMeet ==
    \A r, s \in reports :
        s.day = r.day + 1 =>
            (Window(s.at).start + Offset[s.day]) - (Window(r.at).end + Offset[r.day])
                \in -Grace .. Grace
=============================================================================
