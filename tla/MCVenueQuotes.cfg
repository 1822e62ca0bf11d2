CONSTANTS
    Wallets = {w1}
    MM = mm
    Demo = TRUE
    Quotes = 1
    SignedNonces = {5}
    Given <- NoIds
    Revived <- NothingRevived
    TaggedWord = TaggedWord
    TaggedFive = TaggedFive
    Five = Five
    MaxLog = 8
    MaxBoots = 2
    MaxMishaps = 0
    MaxEpochs = 1
SPECIFICATION Spec
PROPERTIES QuotesRest
CHECK_DEADLOCK FALSE
