CONSTANTS
    TagIds = {0}
    NonEmptyStrings = {"game"}
    ValidCids = {"Qm"}
    TestName = "game"
    TestCid = "Qm"
    TestTags = {1, 2, 3}
SPECIFICATION Spec
INVARIANT
    TestsIsolateTheirCheck
