\* Every file, every sequence of edits.
SPECIFICATION Spec
CONSTANTS
    Strings = {"env", "rest", "base", "model", "provider", "list", "models", "ours", "x", "y"}
    Scalars = {"1"}
    Comments = {"c1", "c2"}
    Files <- MCFiles
    TomlFiles <- MCTomlFiles
    Edits <- MCEdits
INVARIANTS LeavesNoTrail
PROPERTIES EditsAreExact CommentsSurvive RefusedForShape EnvelopeKept
