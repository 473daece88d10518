CONSTANTS
    Names <- MCNames
    Requests <- MCRequests
    Databases <- MCDatabases
    Junk <- MCJunk
    IdRange = 2
SPECIFICATION Spec
INVARIANTS
    ReadingAdvances
    LexerLosesNothing
    ParserLosesNothing
    TablesAreThoseInUse
    AcceptedValuesFit
    AnswersHaveTheColumns
    VerdictsAreIndependent
    OrdinaryQueriesDoNotTrap
PROPERTY
    QueriesAreAnswered
