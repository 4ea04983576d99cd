\* All four components; two requests for the uptime in flight, one of each other.
CONSTANTS
    Data = {"mem", "cpus", "procs"}
    MaxInFlight <- TwoOfUptime
SPECIFICATION FairSpec
INVARIANTS TypeOK OneInterval
PROPERTIES ConnectionIsFound LossIsNoticed
