\* One rate call or the list call may fail.
CONSTANTS
    c1 = c1
    c2 = c2
    Null = Null
    Currencies <- MCCurrencies
    MaxCalls = 2
    MaxUserActions = 3
    MaxFailures = 1
SPECIFICATION Spec
CHECK_DEADLOCK FALSE
PROPERTY CurrencyRefinement
