\* Two connections, two requests on the first and one on the second.
CONSTANTS
    c1 = c1
    c2 = c2
    Connections = {c1, c2}
    Requests <- SomeRequests
    MaxRequests <- Unequal
    Nothing = Nothing
SPECIFICATION FairSpec
INVARIANTS TypeOK
PROPERTIES AnswersInOrder RequestsAreAnswered SessionRunsOut DescriptorsComeBack
\* An uncaught exception ends the process, and requests are bounded.
CHECK_DEADLOCK FALSE
