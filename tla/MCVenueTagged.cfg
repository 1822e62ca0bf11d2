CONSTANTS
    Wallets = {w1}
    MM = mm
    Demo = TRUE
    Quotes = 1
    SignedNonces = {5}
    Given <- TaggedIds
    Revived <- RevivedIds
    TaggedWord = TaggedWord
    TaggedFive = TaggedFive
    Five = Five
    MaxLog = 8
    MaxBoots = 3
    MaxMishaps = 0
    MaxEpochs = 0
SPECIFICATION Spec
PROPERTIES ResumesAlways
CHECK_DEADLOCK FALSE
