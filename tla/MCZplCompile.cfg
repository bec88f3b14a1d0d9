CONSTANTS
    None = None
    BadCEL = BadCEL
    lower <- MClower
    token <- MCtoken
    segments <- MCsegments
    resource <- MCresource
    alphabetical <- MCalphabetical
    Statement <- MCStatement
    StartText <- MCStartText
    Call <- MCCall
    MaxStatements = 7
SPECIFICATION Spec
INVARIANTS
    CompiledOK
    AllowedReachable
    OrderIrrelevant
    CaseInsensitive
    UnknownIdentityDenied
    RolesOnlyFilter
    MostSpecific
    ConditionBlamed
    LostIsReported
    WarningsTrue
PROPERTY RulesMonotone
CHECK_DEADLOCK FALSE
