\* One invocation at a time, pid file writes succeed, pids not reused:
\* stale and truncated pid files, loops that die on their own, slow exits.
CONSTANTS
    q1 = q1  q2 = q2  q3 = q3
    c1 = c1  c2 = c2  c3 = c3  c4 = c4  c5 = c5  c6 = c6
    None = None  NoFile = NoFile  Empty = Empty
    Pids = {q1, q2, q3}
    Clis = {c1, c2, c3, c4, c5, c6}
    Kind <- MCKind
    Concurrent = FALSE
    PidReuse = FALSE
    PidWriteFails = FALSE
SPECIFICATION Spec
INVARIANT TypeOK
INVARIANT OrphanFree
PROPERTY SupervisorRefined
\* The invocations are finitely many: once all have answered and every
\* signalled process has exited, nothing is left to do.
CHECK_DEADLOCK FALSE
