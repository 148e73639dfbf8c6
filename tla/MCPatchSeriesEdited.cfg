CONSTANTS
    Series <- MCSeries
    MarkedPatch = 1
    MarkerFile = "Message.h"
    MaxVersion = 3
SPECIFICATION Spec
INVARIANTS
    EditedPatchIsPickedUp
