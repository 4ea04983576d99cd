\* Three processes besides init share two pids over three polls.
CONSTANTS
    InitLife = init
    Lives = {init, a, b, c}
    Pids = {1, 2, 3}
    MaxPolls = 3
    None = None
SPECIFICATION Spec
INVARIANTS TypeOK BaselineIsLastPoll
PROPERTIES ScanIsComplete SurvivorsHaveOwnBaseline NoPhantoms ParentsAreStored
    ScanAdvances TreeIsDrawn
SYMMETRY Symmetry
\* The polls are bounded, and an uncaught exception ends the program.
CHECK_DEADLOCK FALSE
