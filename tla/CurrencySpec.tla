---------------------------- MODULE CurrencySpec ----------------------------
(***************************************************************************)
(* What the currency-rate feature promises the wallet screens.  The stored *)
(* preferences are applied once, the currency list is loaded, and the user *)
(* may then select a currency.  The rate shown is always the rate of the   *)
(* selected currency, fetched for it: a rate is only ever replaced by the  *)
(* selected currency's rate or cleared by a failure.  The rate spinner is  *)
(* on while a rate is being fetched and goes off when the fetch shows a    *)
(* rate or fails, and the list spinner goes off once the list is loaded.   *)
(***************************************************************************)

CONSTANTS Currencies, NoCurrency

VARIABLES
    active,     \* the feature is switched on
    selected,   \* the selected currency, or NoCurrency before setup
    shown,      \* the currency whose rate is shown, or NoCurrency
    fetching,   \* the rate spinner
    list        \* "none", "loading" or "loaded"

cvars == <<active, selected, shown, fetching, list>>

CInit ==
    /\ active = FALSE /\ selected = NoCurrency /\ shown = NoCurrency
    /\ fetching = FALSE /\ list = "none"

\* The stored preferences are applied and the list and a rate are fetched.
Setup ==
    /\ list = "none"
    /\ list' = "loading" /\ fetching' = TRUE
    /\ selected' \in Currencies /\ active' \in BOOLEAN
    /\ UNCHANGED shown

ListDone ==
    /\ list = "loading" /\ list' = "loaded"
    /\ UNCHANGED <<active, selected, shown, fetching>>

Select(c) ==
    /\ list = "loaded"
    /\ selected' = c /\ fetching' = TRUE
    /\ UNCHANGED <<active, shown, list>>

\* A periodic refetch of the selected currency's rate.
Refresh ==
    /\ selected # NoCurrency /\ fetching' = TRUE
    /\ UNCHANGED <<active, selected, shown, list>>

Show ==
    /\ shown' = selected /\ fetching' = FALSE
    /\ UNCHANGED <<active, selected, list>>

Fail ==
    /\ shown' = NoCurrency /\ fetching' = FALSE
    /\ UNCHANGED <<active, selected, list>>

Toggle ==
    /\ active' = ~active
    /\ UNCHANGED <<selected, shown, fetching, list>>

FetchEnd == fetching /\ (Show \/ Fail)

CNext ==
    \/ Setup \/ ListDone \/ \E c \in Currencies : Select(c)
    \/ Refresh \/ Show \/ Fail \/ Toggle

CSpec == CInit /\ [][CNext]_cvars /\ WF_cvars(ListDone) /\ WF_cvars(FetchEnd)

====
