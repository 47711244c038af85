SPECIFICATION Spec
CONSTANTS
    s1 = s1
    s2 = s2
    Sessions <- MCSessions
    Names <- MCOneName
    Fold <- MCFold
    Secrets = {"p"}
    Fields = {"bio"}
    Texts <- MCTexts
    Blank = ""
    Clip <- MCClip
    MaxUsers = 1
PROPERTIES
    BlankKeeps
