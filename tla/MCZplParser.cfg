SPECIFICATION Spec
CONSTANTS
    None = None
    Word = {"x"}
INVARIANTS
    ParserTypeOK
    ConditionKept
PROPERTIES
    PeriodResyncs
    NoIdleCircle
    MovesOn
CHECK_DEADLOCK FALSE
