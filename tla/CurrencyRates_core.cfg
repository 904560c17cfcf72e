\* Two currencies, two rate calls in flight, a backend that answers.
CONSTANTS
    c1 = c1
    c2 = c2
    Null = Null
    Currencies <- MCCurrencies
    MaxCalls = 2
    MaxUserActions = 3
    MaxFailures = 0
SPECIFICATION Spec
\* The user may stop; the interval keeps running, so there is no deadlock.
INVARIANT TypeOK
PROPERTY RateConverges
