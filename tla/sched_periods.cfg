SPECIFICATION Spec
CONSTANTS
    Procs = {p1, p2, p3}
    PeriodLen = 6
    At = 4
    Offset <- FixedZone
    Grace = 2
    Days <- FourDays
    MaxNow = 24
CHECK_DEADLOCK FALSE
INVARIANTS ReportedOnce WindowsMeet
PROPERTIES FiresReport
