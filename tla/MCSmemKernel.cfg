CONSTANTS
    MaxId = 20
    Kernels <- MCKernels
    Layouts <- MCLayouts
SPECIFICATION KernelSpec
INVARIANTS TypeOK NoOverlap ContentsSurvive
PROPERTY Termination
