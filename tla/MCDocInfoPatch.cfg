SPECIFICATION Spec
CONSTANTS
    Editors = {e1, e2}
    Extractions = {x1}
    Items = {1, 2}
    Texts = {a, b}
    a = a
    b = b
    p = p
    Results <- NormalizedResults
    Numbers = {p}
    BindInputs <- Inputs
    NoNumber = NoNumber
    MaxVersion = 4
SYMMETRY EditorSymmetry

PROPERTY DocInfoPatchTakesEffect
