\* One struct member and one map member, the monitor and one session thread.
\* No symmetry: WaiterSeesFreeMutex is a liveness property.
CONSTANTS
    Zero = v0
    None = None
    Writers = {monitor}
    Readers = {s1}
    StructCells = {uptime}
    MapCells = {procs}
    Keys = {k1, k2}
    Values = {v0, v1}
SPECIFICATION FairSpec
INVARIANTS IInv
PROPERTIES LinearisableStore SectionRunsOut WaiterSeesFreeMutex
