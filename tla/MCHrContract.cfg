SPECIFICATION Spec
CONSTANTS
    Handlers = {h1, h2}
    Original = f1
    Copies = {f2}
    None = None
    UserKinds = {"create", "approve", "cancel", "sign", "resign", "revoke"}
    MaxActs = 2
    MaxMail = 4
    MaxLate = 1
    MaxFaults = 1
SYMMETRY Symmetry
CONSTRAINT InOrderOrNotCrossed
INVARIANTS TypeOK FlagsAreTrue CompleteIsShown NoSecondForm
CHECK_DEADLOCK FALSE
