SPECIFICATION Spec
CONSTANTS
    Requests = {q1, q2, q3}
    Events = {dead, updated}
    Seed = Seed
INVARIANTS WishGranted TwinsOverlapped UnanimousKept RejectedStaysGone
CHECK_DEADLOCK FALSE
