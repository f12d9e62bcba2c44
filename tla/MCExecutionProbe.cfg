SPECIFICATION ProbeSpec
CONSTANTS
    Count = 2
    Urls = 2
    SlotZero = SlotZero
    NaN = NaN
    Nothing = Nothing
INVARIANTS ProbeType StrictPassIsOwn
CHECK_DEADLOCK FALSE
