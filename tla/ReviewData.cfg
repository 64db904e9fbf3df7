SPECIFICATION Spec
CHECK_DEADLOCK FALSE
CONSTANTS
    Sensitive = {"password"}
    StableFields = {"host"}
    Lower <- LowerCase
    PromptMaxRows = 2
    Selectors = {"run", "result"}
    Sources = {"api"}
    Limits = {1, 3}
    Rows <- DetectionRows
    Volatile = {"stamp", "password", "Password"}
    SecretTexts = {"p1", "p2"}
    MaxRows = 2
    MaxJobs = 2
INVARIANTS SecretsStayOut RecurrenceIsRecognised EntitiesAreToldApart
