\* As Daemon.cfg, but an exited pid may belong to another program: a stale
\* daemon.pid after a reboot or after the loop died on its own.
CONSTANTS
    q1 = q1  q2 = q2  q3 = q3
    c1 = c1  c2 = c2  c3 = c3  c4 = c4  c5 = c5  c6 = c6
    None = None  NoFile = NoFile  Empty = Empty
    Pids = {q1, q2, q3}
    Clis = {c1, c2, c3, c4, c5, c6}
    Kind <- MCKind
    Concurrent = FALSE
    PidReuse = TRUE
    PidWriteFails = FALSE
SPECIFICATION Spec
PROPERTY SupervisorRefined
CHECK_DEADLOCK FALSE
