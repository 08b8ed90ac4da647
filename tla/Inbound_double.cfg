\* Two callbacks of one run both close the session.
SPECIFICATION Spec
CONSTANTS
    Remotes = {r1}
    Sids = {s1}
    None = None
    Waker = Waker
    Allowed = {"several"}
INVARIANTS NoDanglingJob
