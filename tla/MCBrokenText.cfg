CONSTANTS
    None = None
    BadCEL = BadCEL
    lower <- MClower
    token <- MCtoken
    segments <- MCsegments
    resource <- MCresource
    alphabetical <- MCalphabetical
    Statement <- MCStatement
    StartText <- MCStartText
    Call <- MCCall
    MaxStatements = 7
SPECIFICATION Spec
INVARIANT BrokenTextRefused
CHECK_DEADLOCK FALSE
