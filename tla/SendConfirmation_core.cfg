\* Three dialog sessions, a backend that may reject, and isExecuting set a
\* tick after execute, as Request does.
CONSTANTS
    MaxSessions = 3
    MaxUserActions = 7
    BackendMayFail = TRUE
    ExecutingFlagLags = TRUE
SPECIFICATION Spec
\* The user may stop at any point with the dialog open.
CHECK_DEADLOCK FALSE
INVARIANT TypeOK
INVARIANT SentOnlyWhenConfirmed
INVARIANT OneSendPerSession
PROPERTY SendMoneyRefinement
