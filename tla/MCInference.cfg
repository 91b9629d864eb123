SPECIFICATION Spec
CONSTANTS
    Requests = {r1, r2}
    Keyless = {"mistral", "gemini"}
    Primary = "ollama"
    Fallbacks <- MCFallbacks
    MaxRetries = 3
    MaxTokens = 2
INVARIANTS AnsweredIsCharged FailedUncharged EveryLegTried Persistent
PROPERTY CallsEnd
CHECK_DEADLOCK FALSE
