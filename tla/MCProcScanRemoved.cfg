\* One process besides init, one poll.
CONSTANTS
    InitLife = init
    Lives = {init, a}
    Pids = {1, 2, 3}
    MaxPolls = 1
    None = None
SPECIFICATION Spec
INVARIANTS RemovalIsExpected
\* The polls are bounded, and an uncaught exception ends the program.
CHECK_DEADLOCK FALSE
