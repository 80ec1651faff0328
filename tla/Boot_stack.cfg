SPECIFICATION Spec
CONSTANTS
  KernelSizes = {1, 2}
  CodeSizes = {1, 2, 3, 14}
  DataSizes = {1, 2}
  KernelBss = 2
  UserBss = 2
  Amounts = {146, 160, 208, 209, 255, 4096, 65696}
INVARIANT StackIsKernels
CHECK_DEADLOCK FALSE
