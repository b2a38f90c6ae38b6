SPECIFICATION Spec
CONSTANTS
    Sheet = {n1}
    OneCall = {o1}
    NoNote = NoNote
    Title = {t1}
    Name = {p1}
    NoTitle = NoTitle
    NoName = NoName
    NoAuthor = NoAuthor
    NoWork = NoWork
    NoValues = NoValues
    MaxTwins = 2
    Visited = {"mitglieder", "bearbeiten"}
    Slot = {x1, x2}
    MaxOperations = 2
    Folder = {x1, x2}
    Root = Root
    New = New
    Gone = Gone
    Typed = {q1, q2}
    Short = Short
    NoText = NoText
    MaxEdits = 3
    LastPage = 2
    MaxSent = 2
    Viewed = {n1, n2}
    Saved = {n1}
    Kinds = {"message", "pinboard_post", "club_event_created", "club_event_response", "club_file", "club_event_reminder"}
    Buffer = 2
    MaxPending = 1
    Chat = {x1, x2}
    NoChat = NoChat
    PageSize = 1
    MaxPosted = 5
    Tab = {x1, x2}
    MaxVersion = 2
    Session = {x1, x2}
    NoSession = NoSession
    MaxMessages = 4
    MaxBusy = 2
    NoList = NoList
    MaxAuthors = 2
    TwoCalls = {x1, x2}
    NoToken = NoToken
    MaxLogins = 2
    MaxIssued = 3
    MaxNotes = 3
    MaxFolders = 1
    ThreeFolders = {x1, x2, p1}
    NoParent = NoParent
    NoTag = NoTag
    MaxTags = 2
    NoClub = NoClub
    NoRequest = NoRequest
SYMMETRY Symmetric
CONSTRAINT Followed
INVARIANTS TypeOK     
PROPERTY NoSilentTwin
