SPECIFICATION Spec
CHECK_DEADLOCK FALSE
CONSTANTS
    Sensitive = {"password", "rule"}
    StableFields = {"host"}
    Lower <- LowerCase
    PromptMaxRows = 2
    Selectors = {"run", "result"}
    Sources = {"api"}
    Limits = {1, 3}
    Rows <- DetectionRows
    Volatile = {"stamp", "password", "Password"}
    SecretTexts = {"p1", "p2", "r1"}
    MaxRows = 2
    MaxJobs = 2
INVARIANT TitlesAreRedacted
