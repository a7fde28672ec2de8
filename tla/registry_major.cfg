SPECIFICATION Spec

CONSTANTS
    Classes = {c1, c2}
    Keys <- SomeKeys
    Asked <- SomeTexts
    c1 = c1
    c2 = c2

INVARIANTS
    MajorFindsHighest
