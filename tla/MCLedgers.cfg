SPECIFICATION MCSpec
CONSTANTS
    Notes = {n1, n2}
    Publishers = {p1, p2}
    MaxFaults = 1
    NoNote = NoNote
    Writes = {b, t}
    Probes = {t}
    Destinations = {d1, d2}
    x1 = x1
    Processes = {x1, x2}
    Events = {e1, e2, e3}
    SourceOf <- Sources
    Window = 2
    MaxBreaks = 2
INVARIANTS OnceButForFaults BytesAreJournalled CompletedIsTrue RetryAdviceIsSafe HandedOnce
PROPERTIES WritesImplementIntent DecidedOnce EventsDrain OnlyVerifiedErased ListenerRecovers
