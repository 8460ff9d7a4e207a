SPECIFICATION FairSpec
CONSTANTS
    RX_RING_SIZE = 4
    PollsPerPass = 2
    MaxFrames = 7
INVARIANTS
    UnreadFramesHeld
    DescriptorsConserved
PROPERTIES
    InputInOrder
    EveryFrameTaken
