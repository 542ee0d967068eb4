SPECIFICATION Spec
CONSTANTS
    NaN = 1000
    Scale = 4
    MaxFloat = 20
    MaxSize = 255
    MaxUInt32 = 15
    PlainStep = 2
    NormalStep = 3
    Precise = 9
    KeyLimit = 8
    Estimates <- MCEstimates
    Misread <- MCMisread
    Inputs <- MCInputs
    Frames = {"scan", "reference"}
    Rotations <- MCRotations
    Translations <- MCTranslations
    Rois <- MCRois
    VoxelSizes <- MCVoxelSizes
    Radii = {1}
    Hints <- MCHints
    Changes <- MCChanges
    ForeignFiles <- MCForeignFiles
    Steps = 3
INVARIANTS
    SoundProducts
    Traceable
    ReadsBack
    MaskExplained
    VoxelsExact
    BoundaryExact
\* The caller stops calling when the bound is reached.
CHECK_DEADLOCK FALSE
