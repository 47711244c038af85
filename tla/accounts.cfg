SPECIFICATION Spec
SYMMETRY Symmetry
CONSTANTS
    s1 = s1
    s2 = s2
    Sessions <- MCSessions
    Names <- MCNames
    Fold <- MCFold
    Secrets = {"p", "q"}
    Fields = {"bio"}
    Texts <- MCTexts
    Blank = ""
    Clip <- MCClip
    MaxUsers = 2
INVARIANTS
    TypeOK
    UniqueNames
    Authenticated
    CopyFresh
    ServingHasSchema
