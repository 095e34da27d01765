CONSTANTS
    Programs <- MCPrograms
    Objects <- MCObjects
    Poison = Poison
SPECIFICATION Spec
INVARIANTS
    ComputesTheProgram
    CompilesWhatIsTyped
    AxiomsHold
CHECK_DEADLOCK FALSE
