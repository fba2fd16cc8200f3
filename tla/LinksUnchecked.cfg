\* async_server: one worker, and one descriptor that two connections use one
\* after the other.
SPECIFICATION Spec
CONSTANTS
  Workers = {w1}
  Fds = {5}
  Programs = {FALSE}
  MaxConns = 2
  MaxPkgs = 1
  MaxCrashes = 0
INVARIANTS RightConnection
CHECK_DEADLOCK FALSE
