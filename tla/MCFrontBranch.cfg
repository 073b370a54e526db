CONSTANTS
    MaxId = 20
    Kernels <- FrontKernels
    Layouts <- FrontLayouts
SPECIFICATION KernelSpec
INVARIANT ContentsSurvive
