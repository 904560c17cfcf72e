-------------------------- MODULE MC_CurrencyRates --------------------------
EXTENDS CurrencyRates

CONSTANTS c1, c2

\* Two currencies: enough for an answer of the previous one to arrive last.
MCCurrencies == {c1, c2}

====
