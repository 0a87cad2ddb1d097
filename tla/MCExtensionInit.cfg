CONSTANTS
    Names = {unnamed, a, b, c}
    EmptyName = unnamed
    Hooks = {a, c}
    Services = {s, t}
    Options = {none, some}
    MaxStages = 3
SPECIFICATION Spec
INVARIANTS
    OneInstallation
    HookBeforeRegistration
