CONSTANTS
    Procs = {p1, p2}
    NumNames = 2
    Values = {v1, v2}
    ListValue = ListValue
    Cut = Cut
    Broken = Broken
    Missing = Missing
SPECIFICATION Spec
SYMMETRY Symmetric
PROPERTIES UpdatesAloneHold NoMixture ParametersSurvive
CHECK_DEADLOCK FALSE
