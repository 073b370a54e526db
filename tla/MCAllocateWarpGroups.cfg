CONSTANTS
    Sizes = {1, 2, 8}
    Requests = {24, 200}
    Tensors = {0, 8192, 16384, 32768, 65536}
    Kernels <- MCKernels
SPECIFICATION Spec
INVARIANTS TensorsFit TeamsShareOutWorkers WarpgroupsAgree RegistersFit
