SPECIFICATION Spec
CONSTANTS
    Servers = {git, fetch}
    Messages = {m1, m2}
INVARIANTS
    PromptedToolsExist
PROPERTIES
    KilledClonesStay
