CONSTANTS
    Wallets = {w1}
    MM = mm
    Demo = TRUE
    Quotes = 1
    SignedNonces = {5}
    Given <- MakersId
    Revived <- NothingRevived
    TaggedWord = TaggedWord
    TaggedFive = TaggedFive
    Five = Five
    MaxLog = 8
    MaxBoots = 3
    MaxMishaps = 1
    MaxEpochs = 1
SPECIFICATION Spec
INVARIANTS RootReplayable FundedOnce QuotesKnown CatchesUp
PROPERTIES Resumes SignedOnce
CHECK_DEADLOCK FALSE
