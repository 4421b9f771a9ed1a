SPECIFICATION Spec
CONSTANTS
    Requests <- MCRequests
    DenyRules <- MCDenyRules
    AllowRules <- MCAllowRules
    Any = Any
    Never = Never
    NoRule = NoRule
    MaxRules = 2
    MaxTime = 2
INVARIANTS RestoreJustified SecretsStayIn PresetsMonotone
PROPERTIES NeverLoosens AllowIsNarrow
