SPECIFICATION Spec
CONSTANTS
    Schemas <- TwoSchemas
    Versions = {v1, v2}
    Docs = {d1, d2}
    ConsumerKeys = {k1}
    Releases = {r1, r2}
    Errors = {e1, e2}
    Tick = 2
    None = None
    Nobody = Nobody
    MaxTime = 4
    Owned <- Ownerships
INVARIANTS
    LookupsAgree
    ConsumersAgree
    TwoPagesSuffice
    ObservationsAgree
SYMMETRY Symmetry
CHECK_DEADLOCK FALSE
