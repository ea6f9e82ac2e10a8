SPECIFICATION Spec
CONSTANTS
    c1 = c1
    c2 = c2
    pets = pets
    orders = orders
    v1 = v1
    v2 = v2
    Labels = {v1, v2}
    None = None
    Calls = {c1, c2}
    Exchanges = {c1, c2}
    Schemas = {pets, orders}
    Endpoints = {"list"}
    Setups <- MCSetups
    Configs <- MCConfigs
    Deployments <- MCDeployments
    Inputs <- MCInputs
SYMMETRY CallSymmetry
INVARIANTS
    MockAnswersSettle
    VerdictsKeepTheBinding
    RegisteredWasCalled
    ModesAreKept
    CountsAgree
CHECK_DEADLOCK FALSE
