CONSTANTS
    None = None
    Width = 3
    Replies <- MCReplies
    Later <- MCLater
    Includes <- MCIncludes
    Tokens = {"t1", "t2"}
    InitialUser = "AzureAD"
    MaxLines = 5
    MaxWire = 1
SPECIFICATION Spec
INVARIANTS TypeOK RoutedAsPushed EventsInOrder
PROPERTY AnswersWithNewest
CHECK_DEADLOCK FALSE
