\* One line, words that wrap every 3 jiffies.
CONSTANTS
    Cpus = {cpu0}
    Word = 3
    MaxJiffies = 4
    None = None
SPECIFICATION Spec
INVARIANTS UsageIsPercentage
