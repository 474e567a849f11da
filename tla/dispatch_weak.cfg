CONSTANTS
  Threads = {t1, t2}
  Main = t1
  t1 = t1
  t2 = t2
  Kernels <- MCKernels
  Impls <- MCImpls
  Caps <- MCCaps
  Alignment <- MCAlignment
  Cpu <- MCCpu
  Env <- MCEnv
  Buffers <- OneBuffer
  Names <- OneName
  Kinds <- KernelKinds
  Configs <- TwoConfigs
  First20 <- MCFirst20
  InitFirst = FALSE
  Delayed = 2
  ConfigStable = FALSE

SPECIFICATION Spec
INVARIANTS RunsSupported InitOncePerCall PublishedMeansReady
