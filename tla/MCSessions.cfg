SPECIFICATION FairSpec
CONSTANTS
    PodName = {p1, p2}
    UID = {u1, u2, u3}
    NoUID = NoUID
    Stream = {st1, st2}
INVARIANTS SessionsTypeOK MapsAgree SessionsExact RevocationComplete
PROPERTY StreamsEndOnceSucceeded
CHECK_DEADLOCK FALSE
