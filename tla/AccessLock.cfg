\* The lock of an account after ACCOUNT_LOCK_MINUTES.
SPECIFICATION AuthSpec
CONSTANTS
    h1 = h1
    h2 = h2
    Handlers = {h1, h2}
    MaxAttempts = 2
    MaxSessions = 2
    MaxLinks = 2
    MaxCalls = 4
INVARIANTS
    LockIsTemporary
SYMMETRY AuthSymmetry
\* The instance serves MaxCalls calls.
CHECK_DEADLOCK FALSE
