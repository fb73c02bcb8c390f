CONSTANTS
    Years = {1970, 1971, 2024}
    Months = {1, 2, 12}
    DaysOfMonth = {1, 30, 31}
    Hours = {0, 23}
    Minutes = {0, 59}
    Seconds = {0, 59}

SPECIFICATION DatesSpec

INVARIANT StampSurvives

PROPERTY CodesKeepOrder
