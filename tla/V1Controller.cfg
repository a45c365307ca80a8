CONSTANTS
    Dependencies = 3
    Declared <- MCDeclared
    Trees <- MCTrees
    Requests <- MCRequests
    None = None
SPECIFICATION ServiceSpec
INVARIANTS
    TypeOK
    BuiltIsComplete
    ErrorIsTheCause
    NothingOutlivesTheCall
    ControllerTypeOK
    AnsweredOnce
    AnswerFitsWhatHappened
    KustomizeSeesTheTree
    ArchivesAreWhole
PROPERTY EveryRequestIsAnswered
\* One request for a chart is answered.
CHECK_DEADLOCK FALSE
