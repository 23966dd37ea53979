SPECIFICATION HandoffSpec
CHECK_DEADLOCK FALSE
CONSTANTS
    Leases = {l1}
    Hidden = {}
    Silent = {}
    Resent = {l1}
    Lasting = {l1}
    AckStatuses <- OneAck
    Ackers = {a1}
    Listers = {}
    Waiters = {w1}
    MaxSends = 2
    MaxHandoffFaults = 0
INVARIANTS
    AnswerIsForThisSend
