CONSTANTS
  Threads = {t1, t2}
  Main = t1
  t1 = t1
  t2 = t2
  Kernels <- MCKernels
  Impls <- MCImpls
  Caps <- MCCaps
  Alignment <- MCAlignment
  Cpu <- MCCpu
  Env <- MCEnv
  Buffers <- MCBuffers
  Names <- MCNames
  Kinds <- AllKinds
  Configs <- NoConfig
  First20 <- MCFirst20
  InitFirst = FALSE
  Delayed = 0
  ConfigStable = TRUE

SPECIFICATION Spec
INVARIANT NoMisalignedRun
