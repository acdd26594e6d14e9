\* Messages of up to two routes each way or of 810; two of them are written.
CONSTANTS
    Messages <- AllMessages
    Configs <- Various
    MaxWrites = 4
SPECIFICATION PSpec
INVARIANTS PeerReadsTheList MarkersFollowMessages AttributesRead FitsUpTo810
CHECK_DEADLOCK FALSE
