\* Two cancelling threads beside the foreground, a queue of two frames.
SPECIFICATION FairSpec
CONSTANTS
    Cancelers = {c1, c2}
    MaxQueue = 2
INVARIANTS CleanMeansGone
PROPERTIES NothingAfterCancel ProcessSettles
