SPECIFICATION Spec
CONSTANTS
    None = None
    Threads = {"old", "new"}
    PageSize = 1
    MaxMails = 2
    MaxFaults = 2
INVARIANTS CursorCovers
PROPERTIES MailsArrive
CHECK_DEADLOCK FALSE
