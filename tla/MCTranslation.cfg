CONSTANTS
    Kernels <- MCKernels
    Objects <- MCObjects
SPECIFICATION Spec
INVARIANTS
    PassesKeepMeaning
    EntryIsClosed
    ArgumentsReachParameters
    TextCarriesTheFunction
CHECK_DEADLOCK FALSE
