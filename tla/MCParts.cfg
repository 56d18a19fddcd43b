SPECIFICATION PartsSpec
CONSTANTS
    Callers = {c1, c2, c3}
    Names = {n1}
    Global = global
    Limit <- SlotsOf
    Bucket = 2
    MaxTime = 6
    Writers = {w1}
    Others = {w2}
    Flight = flight
    MaxChanges = 1
    Extractors = {p1}
    Items = {1, 2, 3}
    TypeOf <- HintOf
    Faults = 2
    Logins = {r1, r2, r3}
    Codes = {k1, k2, k3}
    MaxCache = 1
    MaxPending = 2
    Schedules = {s1, s2}
    Users = {u1, u2, u3}
    Early = {u1, u3}
    Visitors = {u2, u3}
    Strangers = {u3}
    MaxForms = 3
    Asks = {a1, a2}
    Steps = 2
    MaxFaults = 1
    v1 = v1
    Services = {v1}
    Runs = {x1, x2}
    ServiceOf <- OneService
    Candidates = {d1}
    Patterns = {t1}
    Reviewers = {h1}
    MaxContent = 2
    MaxErrors = 1
    Extractions <- SmallExtractions
    ProductTypes = {"pump", "flat_die", "hydraulic_station"}
    Meaning <- Meanings
INVARIANTS
    TypesOK
    NamedLimitHolds
    CurrentOfItsVersion
    RepeatIsNotRefused
    AskedOnce
    EndIsTold
    DecisionsHold
    FieldsArePlaced
PROPERTIES
    EachGrantIsSpaced
    ReviewIsKept
    CatchesUp
    NormalizedIsWhole
    EveryItemIsAnswered
    LoginIsAnswered
    EarlyTravellersAreFound
CHECK_DEADLOCK FALSE
