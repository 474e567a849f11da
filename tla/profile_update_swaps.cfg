CONSTANTS
  Cases <- MCCases
  Impls <- MCImpls
  EnvSet <- MCEnvSet
  Writable <- MCWritable
  Options <- UpdateRuns
  Before <- MCBefore
  OptionTable <- MCOptionTable
  Help <- MCHelp
  Dashed <- MCDashed
  Numbers <- MCNumbers
  Lines <- OneLine
  NamesWith <- MCNamesWith
  Archs <- MCArchs
  Generics <- MCGenerics
  Outputs = 2
  Times <- MCTimes
  Benchmark = FALSE
  Tests <- AllTests
  Largest = 10
  Finite <- MCFinite
  Tolerances <- MCTolerances
  Points = 2
  SizeWords = 16
  HeapEnd = 10
  PointerSize = 2
  Libraries <- MCLibraries
  Machines <- MCMachines
  Elements <- MCElements
  Counts <- MCCounts
  TestCases <- MCTestCases
  Differing <- MCDiffering
  OtherNames <- MCOtherNames
  KnownArchs <- MCKnownArchs
  Requires <- MCRequires
  Spellings <- MCSpellings
  AlignedNames <- MCAlignedNames
  First20 <- MCFirst20
  MaxImpls = 3

SPECIFICATION ProfileSpec
INVARIANTS SafeForUnaligned
