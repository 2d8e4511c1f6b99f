SPECIFICATION Spec
CONSTANTS
    Clients = {k1}
    RequestIds = {q1, q2, q3}
    Records = {campaign}
    ConfigRecord = config
    Ops = {"put", "archive"}
    NoJob = noJob
    NoReceipt = noReceipt
    NoEvent = noEvent
    MaxVersion = 2
    MaxCalls = 4
    MaxLosses = 1
    MaxTickets = 5
PROPERTIES
    AnsweredNeverRefused
CHECK_DEADLOCK FALSE
