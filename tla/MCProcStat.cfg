\* Names of up to two words, words of memory that wrap every 3 ticks.
CONSTANTS
    First = 13
    Word = 3
    MaxCount = 3
    MaxTime = 4
    MaxWords = 2
    None = None
SPECIFICATION Spec
INVARIANTS TypeOK UsageIsTimeRun
