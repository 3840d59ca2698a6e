SPECIFICATION Spec
CONSTANTS
    f1 = f1
    f2 = f2
    report = report
    Extensions = 2
    Files <- TwoFiles
    Report <- OneReport
    Extension <- ExtensionOf
    Default <- FirstOnly
    MAX_FILES_PER_DIR = 1
    MAX_DIR = 4
    MAX_LEFT = 1
SYMMETRY FilesAlike
INVARIANTS
    TypeOK
    ReadyMeansSorted
    NothingLost
    RecupHasNoGap
PROPERTIES
    EnabledSurvives
