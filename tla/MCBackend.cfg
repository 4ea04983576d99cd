\* Two sessions, two polls.
CONSTANTS
    Sessions = {s1, s2}
    MaxPolls = 2
SPECIFICATION FairSpec
INVARIANTS IInv ReadingsAgree OneCycleSkew AnswersNeverGoBack AnswersAreCurrent
PROPERTIES PollsReachTheStore
\* An uncaught exception ends the process.
CHECK_DEADLOCK FALSE
