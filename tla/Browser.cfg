SPECIFICATION Spec
CONSTANTS
    Findings <- SevenFindings
    Texts = {"", "a", "ab", "b"}
    Services <- TwoServices
    Widths = {80, 120}
    Heights = {5, 11, 12, 13}
    Contains <- Has
INVARIANTS
    SelectionSound
PROPERTY
    MovementVisible
