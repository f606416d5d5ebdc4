SPECIFICATION Spec
CONSTANTS
    Devices = {d1, d2}
    Shapes <- MCShapes
    Gone = Gone
    MaxEdits = 1
SYMMETRY Symmetry
INVARIANTS TypeOK PayloadComplete ReadinessIsHonest UnwritableIsReported
PROPERTIES AppliedChangesOneField FaithfulIsVerified
