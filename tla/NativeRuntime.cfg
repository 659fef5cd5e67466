SPECIFICATION Spec
CONSTANTS
    Runtimes = {r1, r2}
    Callers = {c1, c2, c3}
    NoOne = NoOne
    NCtx = 5
    MaxPrompt = 5
INVARIANTS OneRuntime ProviderAlive OwnContextOnly ContextFits NothingLeftBehind
