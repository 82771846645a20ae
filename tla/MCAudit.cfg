SPECIFICATION FairSpec
CONSTANTS
    Writers = {w1, w2}
    Cleaners = {c1}
    NoTx = NoTx
    NoHash = NoHash
    NoPos = NoPos
    Unsealed = Unsealed
    Legacies <- MCLegacies
    Retention = 1
    BatchSize = 2
    MaxSeq = 3
    MaxTime = 3
INVARIANTS VerifyAccepts TamperEvident NeverWedged
PROPERTIES ImplementsEvidence RetentionProgresses
CHECK_DEADLOCK FALSE
