SPECIFICATION FairSpec
CONSTANTS
    Ops = {p, q, d}
    Releases = {r1, r2}
    KindOf <- MCKind
    StorageOf <- MCStorage
    ReleaseOf <- MCRelease
    Asked <- MCAsked
    Workers = {w1, w2}
    Readers = {u1}
    Budget = 1
    NoOne = NoOne
    Lost = Lost
    NoOp = NoOp
    NoRel = NoRel
    p = p
    q = q
    d = d
    r1 = r1
    r2 = r2
INVARIANTS LiveHasBytes BytesAccounted CatalogueMatchesJournal CleanedMeansGone DeliveryIsWhole
PROPERTIES ImplementsShelf DecisionsFinal LeaseReturns
