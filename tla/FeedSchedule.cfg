SPECIFICATION FairSpec
CONSTANTS
    gas = gas
    storage = storage
    NoFeed = NoFeed
    FeedOrder <- MCFeedOrder
    Default <- MCDefault
    Frequencies = {2}
    Cap = 2
    MaxPatches = 1
    MaxReloads = 1
    MaxFaults = 1
PROPERTIES PollsAreSpaced ActiveFeedKeepsPolling
