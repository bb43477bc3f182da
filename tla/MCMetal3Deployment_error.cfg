CONSTANTS
    t1 = t1
    t2 = t2
    legacy = legacy
    current = current
    NoDeployment = NoDeployment
    Templates <- MCTemplates
    Selectors <- MCSelectors
    Metal3Selector = current
    RolloutTimeout = 1
    MaxTime = 1
    MaxEdits = 1
    MaxFaults = 1
    MaxInitGeneration = 2
    CondTypes = {"Progressing"}
SPECIFICATION Spec

PROPERTIES ApplyErrorSurfaced
