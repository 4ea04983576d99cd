\* Overview and one other component, one request of each in flight.
CONSTANTS
    Data = {"procs"}
    MaxInFlight <- OneEach
SPECIFICATION FairSpec
PROPERTIES OfflineIsShown
