SPECIFICATION NumbersSpec
CONSTANTS
    Numbered = {1, 2}
    Provider <- MCProvider
    FeedLineup = {1, 2}
    UserNumbers = {2, 3}
    MasterStart = 1
    MaxNumberEdits = 2
PROPERTY
    FeedPinsKept
