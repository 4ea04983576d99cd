\* Two lines, words that wrap every 3 jiffies.
CONSTANTS
    Cpus = {cpu0, cpu1}
    Word = 3
    MaxJiffies = 3
    None = None
SPECIFICATION Spec
INVARIANTS IInv UsageIsExact
SYMMETRY Symmetry
