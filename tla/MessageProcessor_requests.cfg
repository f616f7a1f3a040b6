SPECIFICATION Spec
CONSTANTS
    Id = {"1", "2"}
    Piece <- Pieces
    MaxLen = 4
    Prefix <- OneTopicType
INVARIANTS TypeOK
PROPERTY SubscribesWhatIsAsked
