CONSTANTS
    Years = {1968, 1969, 1970}
    Months = {1, 2, 12}
    DaysOfMonth = {1, 30, 31}
    Hours = {0, 23}
    Minutes = {0, 59}
    Seconds = {0, 59}

SPECIFICATION DatesSpec

INVARIANT StampSurvives
