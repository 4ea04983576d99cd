\* Two methods, two endpoints, up to two routes of four resources.
CONSTANTS
    Characters <- SomeCharacters
    Lower <- SomeLower
    Verbs = {"GET", "POST"}
    Endpoints = {e1, e2}
    Resources <- SomeResources
    Inputs <- SomeInputs
    MaxRoutes = 2
    None = None
SPECIFICATION Spec
INVARIANTS EndpointIsTheOneAdded FieldsAreThoseSent
