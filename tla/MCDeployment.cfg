SPECIFICATION Spec
CONSTANTS
    Mails <- MailChoices
    Cors = {"explicit", "wildcard"}
    MaxGen = 3
    MaxEdits = 2
INVARIANTS
    FilesAgree
    StackStarts
PROPERTIES
    MailSurvives
CHECK_DEADLOCK FALSE
