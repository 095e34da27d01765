CONSTANTS
    Slots = {s1, s2, s3}
    Natives = {n1, n2, n3}
    NoClass = NoClass
    Null = Null
    Signatures <- AllSignatures
    ClassMembers <- AllMembers
    TwoStep <- TwoStepConstructors
    Keeps <- KeptParameters
    MaxMiscounted = 2
SYMMETRY Symmetric
SPECIFICATION Spec
INVARIANTS OneReferencePerWrapper
