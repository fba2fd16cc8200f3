\* Either program: two workers, one descriptor that two connections use one
\* after the other, and a worker that dies once.
SPECIFICATION FairSpec
CONSTANTS
  Workers = {w1, w2}
  Fds = {5}
  Programs = {TRUE, FALSE}
  MaxConns = 2
  MaxPkgs = 2
  MaxCrashes = 1
INVARIANTS TypeOK StaleIsTold CheckedConnection
PROPERTIES UpAfterDown StaleForgotten
CHECK_DEADLOCK FALSE
