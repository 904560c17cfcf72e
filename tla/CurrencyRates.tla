--------------------------- MODULE CurrencyRates ---------------------------
(***************************************************************************)
(* The currency rates of WalletsStore: setupCurrency reads the stored      *)
(* preferences, starts an interval that calls getCurrencyRate, and loads   *)
(* the currency list; the user selects a currency or toggles the feature.  *)
(* A rate is abstracted to the currency it was fetched for.  Every call of *)
(* getCurrencyRate is in flight on its own, and answers arrive in any      *)
(* order.                                                                  *)
(***************************************************************************)
EXTENDS Naturals, Sequences, SequencesExt

CONSTANTS
    Currencies,      \* currency codes of the list
    Null,
    MaxCalls,        \* bound on rate calls in flight (interval ticks wait)
    MaxUserActions,
    MaxFailures      \* how many rate calls may fail

ASSUME /\ Null \notin Currencies
       /\ MaxCalls \in Nat \ {0} /\ MaxUserActions \in Nat
       /\ MaxFailures \in Nat

VARIABLES
    setupPc,        \* setupCurrency: "readActive", "readSelected", "done"
    activeRead,     \* its local currencyIsActive
    stored,         \* localStorage: [active, selected]
    currencyIsActive,
    currencySelected,
    listLoaded,     \* currencyList holds the currencies
    listCall,       \* api.ada.getCurrencyList is in flight
    currencyIsFetchingList,
    currencyRate,
    currencyIsAvailable,
    currencyIsFetchingRate,
    interval,       \* _getCurrencyRateInterval is running
    calls,          \* getCurrencyRate calls in flight: [cur, answer]
    failures,
    userSteps

vars == <<setupPc, activeRead, stored, currencyIsActive, currencySelected,
          listLoaded, listCall, currencyIsFetchingList, currencyRate, currencyIsAvailable,
          currencyIsFetchingRate, interval, calls, failures, userSteps>>

RateVars == <<currencyRate, currencyIsAvailable, currencyIsFetchingRate,
              interval, calls, failures>>

UserStep == userSteps < MaxUserActions /\ userSteps' = userSteps + 1

----
(* getCurrencyRate up to its await, for the currency then selected *)
GetCurrencyRate(cur) ==
    IF cur # Null
    THEN /\ currencyIsFetchingRate' = TRUE
         /\ calls' = Append(calls, [cur |-> cur, answer |-> "pending"])
    ELSE UNCHANGED <<currencyIsFetchingRate, calls>>

RateAnswer ==
    \E i \in 1..Len(calls) :
        /\ calls[i].answer = "pending"
        /\ \E a \in IF failures < MaxFailures THEN {"ok", "empty", "rejected"}
                                               ELSE {"ok"} :
              /\ calls' = [calls EXCEPT ![i].answer = a]
              /\ failures' = IF a = "ok" THEN failures ELSE failures + 1
        /\ UNCHANGED <<setupPc, activeRead, stored, currencyIsActive,
                       currencySelected, listLoaded, listCall, currencyIsFetchingList,
                       currencyRate, currencyIsAvailable,
                       currencyIsFetchingRate, interval, userSteps>>

RateAppliedStoresAnswer ==
    \E i \in 1..Len(calls) :
        /\ calls[i].answer = "ok"
        /\ currencyIsFetchingRate' = FALSE
        /\ currencyRate' = calls[i].answer
        /\ currencyIsAvailable' = TRUE
        /\ calls' = RemoveAt(calls, i)
        /\ UNCHANGED <<interval, failures>>
        /\ UNCHANGED <<setupPc, activeRead, stored, currencyIsActive,
                       currencySelected, listLoaded, listCall, currencyIsFetchingList,
                       userSteps>>

\* getCurrencyRate after its await: a rate is stored for the currency it
\* was fetched for.  An empty answer resets currencyIsFetchingRate and then
\* throws; a rejection goes to the catch directly.  The catch clears the
\* rate and stops the interval, and leaves currencyIsFetchingRate as it is.
RateApplied ==
    \E i \in 1..Len(calls) :
        /\ calls[i].answer # "pending"
        /\ calls' = RemoveAt(calls, i)
        /\ IF calls[i].answer = "ok"
           THEN /\ currencyIsFetchingRate' = FALSE
                /\ currencyRate' = calls[i].cur
                /\ currencyIsAvailable' = TRUE
                /\ UNCHANGED interval
           ELSE /\ currencyRate' = Null
                /\ currencyIsAvailable' = FALSE
                /\ interval' = FALSE
                /\ currencyIsFetchingRate' =
                       (currencyIsFetchingRate /\ calls[i].answer = "rejected")
        /\ UNCHANGED failures
        /\ UNCHANGED <<setupPc, activeRead, stored, currencyIsActive,
                       currencySelected, listLoaded, listCall, currencyIsFetchingList,
                       userSteps>>

IntervalTickShownCurrency ==
    /\ interval /\ Len(calls) < MaxCalls
    /\ GetCurrencyRate(IF currencyRate # Null THEN currencyRate
                                           ELSE currencySelected)
    /\ UNCHANGED <<setupPc, activeRead, stored, currencyIsActive,
                   currencySelected, listLoaded, listCall, currencyIsFetchingList,
                   currencyRate, currencyIsAvailable, interval, failures,
                   userSteps>>

\* The interval fires getCurrencyRate.
IntervalTick ==
    /\ interval /\ Len(calls) < MaxCalls
    /\ GetCurrencyRate(currencySelected)
    /\ UNCHANGED <<setupPc, activeRead, stored, currencyIsActive,
                   currencySelected, listLoaded, listCall, currencyIsFetchingList,
                   currencyRate, currencyIsAvailable, interval, failures,
                   userSteps>>

----
(* setupCurrency and the currency list *)

ReadIsActive ==
    /\ setupPc = "readActive"
    /\ setupPc' = "readSelected"
    /\ activeRead' = stored.active
    /\ UNCHANGED <<stored, currencyIsActive, currencySelected, listLoaded,
                   listCall, currencyIsFetchingList, userSteps>>
    /\ UNCHANGED RateVars

\* The stored code is read, the preferences are applied, the interval is
\* (re)started, and the list and the rate are fetched.
SetupEnd ==
    /\ setupPc = "readSelected"
    /\ setupPc' = "done"
    /\ currencyIsActive' = activeRead
    /\ currencySelected' = stored.selected
    /\ interval' = TRUE
    /\ currencyIsFetchingList' = TRUE
    /\ listCall' = TRUE
    /\ GetCurrencyRate(stored.selected)
    /\ UNCHANGED <<activeRead, stored, listLoaded, userSteps, currencyRate,
                   currencyIsAvailable, failures>>

\* getCurrencyList after its await.  It has no catch: a rejection leaves
\* the list empty and currencyIsFetchingList set.
ListLoaded ==
    /\ listCall
    /\ listCall' = FALSE
    /\ \/ /\ listLoaded' = TRUE
          /\ currencyIsFetchingList' = FALSE
          /\ UNCHANGED failures
       \/ /\ failures < MaxFailures
          /\ failures' = failures + 1
          /\ UNCHANGED <<listLoaded, currencyIsFetchingList>>
    /\ UNCHANGED <<setupPc, activeRead, stored, currencyIsActive,
                   currencySelected, userSteps>>
    /\ UNCHANGED <<currencyRate, currencyIsAvailable, currencyIsFetchingRate,
                   interval, calls>>

----
(* User actions *)

\* _setCurrencySelected: a code found in the list is selected, its rate is
\* fetched and the choice is stored.
SetCurrencySelected(c) ==
    /\ UserStep
    /\ listLoaded
    /\ currencySelected' = c
    /\ GetCurrencyRate(c)
    /\ stored' = [stored EXCEPT !.selected = c]
    /\ UNCHANGED <<setupPc, activeRead, currencyIsActive, listLoaded,
                   listCall, currencyIsFetchingList, currencyRate, currencyIsAvailable,
                   interval, failures>>

ToggleCurrencyIsActive ==
    /\ UserStep
    /\ currencyIsActive' = ~currencyIsActive
    /\ stored' = [stored EXCEPT !.active = ~currencyIsActive]
    /\ UNCHANGED <<setupPc, activeRead, currencySelected, listLoaded,
                   listCall, currencyIsFetchingList>>
    /\ UNCHANGED RateVars

----
(* Specification *)

Init ==
    /\ setupPc = "readActive"
    /\ activeRead = FALSE
    /\ stored \in [active : BOOLEAN, selected : Currencies]
    /\ currencyIsActive = FALSE
    /\ currencySelected = Null
    /\ listLoaded = FALSE
    /\ listCall = FALSE
    /\ currencyIsFetchingList = FALSE
    /\ currencyRate = Null
    /\ currencyIsAvailable = FALSE
    /\ currencyIsFetchingRate = FALSE
    /\ interval = FALSE
    /\ calls = <<>>
    /\ failures = 0
    /\ userSteps = 0

Next ==
    \/ ReadIsActive \/ SetupEnd \/ ListLoaded
    \/ IntervalTick \/ RateAnswer \/ RateApplied
    \/ \E c \in Currencies : SetCurrencySelected(c)
    \/ ToggleCurrencyIsActive

\* Storage reads, backend answers and the interval are run by the event
\* loop; the user may stop at any point.
Fairness ==
    /\ WF_vars(ReadIsActive) /\ WF_vars(SetupEnd) /\ WF_vars(ListLoaded)
    /\ WF_vars(IntervalTick) /\ WF_vars(RateAnswer) /\ WF_vars(RateApplied)

Spec == Init /\ [][Next]_vars /\ Fairness

----
(* Properties *)

TypeOK ==
    /\ setupPc \in {"readActive", "readSelected", "done"}
    /\ stored \in [active : BOOLEAN, selected : Currencies]
    /\ currencySelected \in Currencies \cup {Null}
    /\ currencyRate \in Currencies \cup {Null}
    /\ calls \in Seq([cur : Currencies,
                      answer : {"pending", "ok", "empty", "rejected"}])
    /\ failures \in 0..MaxFailures
    /\ listCall => currencyIsFetchingList

\* The rate of the selected currency is eventually shown: the interval
\* refetches it whatever order the answers arrived in.
RateConverges ==
    currencySelected # Null ~> currencyRate = currencySelected

----
(* Refinement: the store implements CurrencySpec.  The shown rate is       *)
(* currencyRate, the spinners are the two fetching flags.                  *)

ListPhase ==
    IF listLoaded THEN "loaded"
    ELSE IF currencyIsFetchingList THEN "loading" ELSE "none"

Currency == INSTANCE CurrencySpec
    WITH NoCurrency <- Null, active <- currencyIsActive,
         selected <- currencySelected, shown <- currencyRate,
         fetching <- currencyIsFetchingRate, list <- ListPhase

\* The store implements CurrencySpec: a rate is only replaced by the rate of
\* the currency now selected (getCurrencyRate stores whatever answer comes
\* back, 396), a failure ends the rate fetch (its catch, 403), and both
\* spinners go off (getCurrencyList, 377, has no catch).
CurrencyRefinement == Currency!CSpec

====
