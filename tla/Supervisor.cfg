\* Two workers and conn; two deaths of children and SIGTERM at any time, and any
\* initialisation or fork may fail.  A server that has stopped does nothing more.
SPECIFICATION FairSpec
CONSTANTS
  NumWorks = 2
  Faults = {"init", "fork"}
  MaxCrashes = 2
INVARIANTS TypeOK OneOfARole Managed
PROPERTIES Restarted StopCompletes
CHECK_DEADLOCK FALSE
