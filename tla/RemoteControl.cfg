CONSTANTS
    Clients = {c1}
    Requests = {r1, r2}
    Local = Local
    Nil = Nil
    MaxInFlight = 2
    MaxConnects = 2
    MaxQueue = 2
SPECIFICATION FairSpec
INVARIANTS
    TypeOK
    EndedHoldsNothing
    RevokedHoldsNothing
    TruthfulAnswers
    Accounting
PROPERTIES
    AtMostOnce
    RevocationCompletes
    CloseEnds
