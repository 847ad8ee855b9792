SPECIFICATION MCSpec
CHECK_DEADLOCK FALSE
CONSTANTS
    None = None
    Languages = {"typescript", "python", "rust", "java", "pascal"}
    Size <- MCSize
    Late <- MCLate
INVARIANT SymbolsBelong
INVARIANT InstallerInv
INVARIANT ImportsInv
INVARIANT CallsMeet
PROPERTY ForeignSurvives
