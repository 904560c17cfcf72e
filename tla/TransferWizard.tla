--------------------------- MODULE TransferWizard ---------------------------
(***************************************************************************)
(* The transfer-funds wizard as the user sees it: closed (0), choosing the *)
(* target (1) or confirming with the fee (2).  The wizard reaches the      *)
(* confirmation only from the target step and only with the fee of the    *)
(* wallet being transferred from; once closed it opens only when a source  *)
(* wallet is chosen.                                                       *)
(***************************************************************************)
EXTENDS Naturals

CONSTANTS Sources, NoWallet, NoFee

VARIABLES step, source, fee

wvars == <<step, source, fee>>

WInit == step = 0 /\ source = NoWallet /\ fee = NoFee

\* A legacy wallet's "transfer funds" opens the wizard.
Choose(w) ==
    /\ step = 0
    /\ step' = 1 /\ source' = w
    /\ UNCHANGED fee

\* "Next" on a closed wizard whose source is still set reopens it.
Reopen ==
    /\ step = 0 /\ source # NoWallet
    /\ step' = 1
    /\ UNCHANGED <<source, fee>>

\* The fee of the source is known and the confirmation shows.
Confirm ==
    /\ step = 1
    /\ step' = 2 /\ fee' = source
    /\ UNCHANGED source

\* The fee is recomputed for the current source.
Recompute ==
    /\ fee' = source
    /\ UNCHANGED <<step, source>>

Back ==
    /\ step > 0
    /\ step' = step - 1
    /\ UNCHANGED <<source, fee>>

\* Leaving the wizard, with or without clearing the fee.
Leave ==
    /\ step' = 0
    /\ fee' \in {fee, NoFee}
    /\ UNCHANGED source

WNext ==
    \/ \E w \in Sources : Choose(w)
    \/ Reopen \/ Confirm \/ Recompute \/ Back \/ Leave

WSpec == WInit /\ [][WNext]_wvars

====
