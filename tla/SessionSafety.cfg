SPECIFICATION Spec
CONSTANTS
    Pollers = {poll}
    Writers = {write}
    NoRequest = NoRequest
    NoReply = NoReply
    MaxLogins = 3
    MaxClosures = 1
    MaxRefusals = 1
    LoginErrors = FALSE
INVARIANTS TypeOK RequestsBounded TokenIsCurrent UnloadForgets
PROPERTIES NoFalseReauth
CHECK_DEADLOCK FALSE
