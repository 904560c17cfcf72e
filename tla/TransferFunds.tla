--------------------------- MODULE TransferFunds ---------------------------
(***************************************************************************)
(* The "transfer funds" wizard of WalletsStore: moving the funds of a      *)
(* legacy wallet to a rewards wallet.  transferFundsStep is 0 (closed),    *)
(* 1 (choose target) or 2 (confirm with the fee).  The fee is abstracted   *)
(* to the source wallet it was calculated for.                             *)
(*                                                                         *)
(* Calls of transferFundsCalculateFeeRequest are a sequence: reset() in    *)
(* _transferFundsClose forgets a call that is still in flight, a later     *)
(* execute starts another, and their answers arrive in any order.          *)
(***************************************************************************)
EXTENDS Naturals, Sequences, SequencesExt

CONSTANTS
    LegacyWallets,     \* possible sources
    RewardsOrder,      \* allWallets: the rewards wallets, in list order
    Empty,             \* the empty wallet id ''
    Null,              \* no fee
    MaxUserActions,
    BackendMayFail

RewardsWallets == ToSet(RewardsOrder)

ASSUME /\ Empty \notin LegacyWallets \cup RewardsWallets
       /\ MaxUserActions \in Nat /\ BackendMayFail \in BOOLEAN

VARIABLES
    step,          \* transferFundsStep
    source,        \* transferFundsSourceWalletId
    target,        \* transferFundsTargetWalletId
    fee,           \* transferFundsFee (with transferFundsLeftovers)
    feeWaiting,    \* transferFundsCalculateFeeRequest._isWaitingForResponse
    calls,         \* fee calls in flight: [src, next, answer]
    tfPc,          \* _transferFunds: "idle", "addresses", "transfer"
    userSteps

vars == <<step, source, target, fee, feeWaiting, calls, tfPc, userSteps>>

Answers == IF BackendMayFail THEN {"ok", "failed"} ELSE {"ok"}

UserStep == userSteps < MaxUserActions /\ userSteps' = userSteps + 1

----
(* transferFundsCalculateFeeRequest *)

\* execute: joins the awaited call, or starts a new one.  nNext counts the
\* _transferFundsNextStep continuations suspended on it.
ExecuteFee(w, nNext) ==
    IF feeWaiting /\ calls # <<>>
    THEN /\ calls' = [calls EXCEPT ![Len(calls)].next = @ + nNext]
         /\ UNCHANGED feeWaiting
    ELSE /\ calls' = Append(calls, [src |-> w, next |-> nNext,
                                    answer |-> "pending"])
         /\ feeWaiting' = TRUE

FeeAnswer ==
    \E i \in 1..Len(calls), a \in Answers :
        /\ calls[i].answer = "pending"
        /\ calls' = [calls EXCEPT ![i].answer = a]
        /\ UNCHANGED <<step, source, target, fee, feeWaiting, tfPc, userSteps>>

\* A call resolves: _transferFundsCalculateFee sets the fee and leftovers,
\* and each suspended _transferFundsNextStep then sets the step to 2.
FeeResolved ==
    \E i \in 1..Len(calls) :
        /\ calls[i].answer = "ok"
        /\ fee' = calls[i].src
        /\ step' = IF calls[i].next > 0 THEN 2 ELSE step
        /\ calls' = RemoveAt(calls, i)
        /\ feeWaiting' = FALSE
        /\ UNCHANGED <<source, target, tfPc, userSteps>>

\* A call is rejected: the suspended handlers throw, nothing is set.
FeeRejected ==
    \E i \in 1..Len(calls) :
        /\ calls[i].answer = "failed"
        /\ calls' = RemoveAt(calls, i)
        /\ feeWaiting' = FALSE
        /\ UNCHANGED <<step, source, target, fee, tfPc,
                       userSteps>>

----
(* The wizard's handlers *)

\* _transferFundsSetSourceWalletId: the target defaults to the first
\* rewards wallet, and the wizard opens at step 1.  It is triggered from
\* the legacy wallet's page, which the open wizard covers.
SetSourceWalletId(w) ==
    /\ UserStep
    /\ step = 0
    /\ source' = w
    /\ target' = IF RewardsOrder = <<>> THEN Empty ELSE Head(RewardsOrder)
    /\ step' = 1
    /\ UNCHANGED <<fee, feeWaiting, calls, tfPc>>

SetTargetWalletId(w) ==
    /\ UserStep
    /\ target' = w
    /\ UNCHANGED <<step, source, fee, feeWaiting, calls, tfPc>>

NextStepEager ==
    /\ UserStep
    /\ IF step = 1 /\ source # Empty /\ target # Empty
       THEN ExecuteFee(source, 1) /\ step' = 2
       ELSE /\ step' = IF step = 0 /\ source # Empty THEN 1 ELSE 0
            /\ UNCHANGED <<feeWaiting, calls>>
    /\ UNCHANGED <<source, target, fee, tfPc>>

\* _transferFundsNextStep: from step 1 with both wallets set it awaits the
\* fee and continues to step 2; otherwise it goes to 1 from a step 0 with
\* a source, and to 0 from anywhere else.
NextStep ==
    /\ UserStep
    /\ IF step = 1 /\ source # Empty /\ target # Empty
       THEN ExecuteFee(source, 1) /\ UNCHANGED step
       ELSE /\ step' = IF step = 0 /\ source # Empty THEN 1 ELSE 0
            /\ UNCHANGED <<feeWaiting, calls>>
    /\ UNCHANGED <<source, target, fee, tfPc>>

PrevStepUnclamped ==
    /\ UserStep
    /\ step' = step - 1
    /\ UNCHANGED <<source, target, fee, feeWaiting, calls, tfPc>>

PrevStep ==
    /\ UserStep
    /\ step' = IF step > 0 THEN step - 1 ELSE 0
    /\ UNCHANGED <<source, target, fee, feeWaiting, calls, tfPc>>

\* _transferFundsRedeem (its API call is still a TODO in the code).
Redeem ==
    /\ UserStep
    /\ step' = 0
    /\ UNCHANGED <<source, target, fee, feeWaiting, calls, tfPc>>

\* _transferFundsClose: the request's reset forgets a call in flight.
CloseState ==
    /\ step' = 0
    /\ fee' = Null
    /\ feeWaiting' = FALSE

Close ==
    /\ UserStep
    /\ CloseState
    /\ UNCHANGED <<source, target, calls, tfPc>>

\* The transferFundsCalculateFee action, triggered on its own.
CalculateFee ==
    /\ UserStep
    /\ source # Empty
    /\ ExecuteFee(source, 0)
    /\ UNCHANGED <<step, source, target, fee, tfPc>>

----
(* _transferFunds *)

\* Confirming at step 2: the handler reads both wallets (data the model
\* abstracts) and awaits the unused addresses of the target.  The dialog
\* submits one transfer at a time.
TransferFunds ==
    /\ UserStep
    /\ step = 2 /\ tfPc = "idle"
    /\ tfPc' = "addresses"
    /\ UNCHANGED <<step, source, target, fee, feeWaiting, calls>>

\* The addresses arrive and transferFundsRequest is executed, or the
\* address request fails and the handler throws.
AddressesAnswer ==
    /\ tfPc = "addresses"
    /\ \E a \in Answers : tfPc' = IF a = "ok" THEN "transfer" ELSE "idle"
    /\ UNCHANGED <<step, source, target, fee, feeWaiting, calls, userSteps>>

\* The transfer is answered: on success the wallets are refreshed and the
\* wizard is closed; on failure the handler throws.
TransferAnswer ==
    /\ tfPc = "transfer"
    /\ tfPc' = "idle"
    /\ \/ CloseState
       \/ BackendMayFail /\ UNCHANGED <<step, fee, feeWaiting>>
    /\ UNCHANGED <<source, target, calls, userSteps>>

----
(* Specification *)

Init ==
    /\ step = 0
    /\ source = Empty
    /\ target = Empty
    /\ fee = Null
    /\ feeWaiting = FALSE
    /\ calls = <<>>
    /\ tfPc = "idle"
    /\ userSteps = 0

Next ==
    \/ \E w \in LegacyWallets : SetSourceWalletId(w)
    \/ \E w \in RewardsWallets : SetTargetWalletId(w)
    \/ NextStep \/ PrevStep \/ Redeem \/ Close \/ CalculateFee
    \/ TransferFunds
    \/ FeeAnswer \/ FeeResolved \/ FeeRejected
    \/ AddressesAnswer \/ TransferAnswer

\* Backend answers and the timers that apply them are eventually run; the
\* user may stop at any point.
Fairness ==
    /\ WF_vars(FeeAnswer) /\ WF_vars(FeeResolved) /\ WF_vars(FeeRejected)
    /\ WF_vars(AddressesAnswer) /\ WF_vars(TransferAnswer)

Spec == Init /\ [][Next]_vars /\ Fairness

----
(* Properties *)

TypeOK ==
    /\ step \in 0..2
    /\ source \in LegacyWallets \cup {Empty}
    /\ target \in RewardsWallets \cup {Empty}
    /\ fee \in LegacyWallets \cup {Null}
    /\ feeWaiting \in BOOLEAN
    /\ calls \in Seq([src : LegacyWallets, next : Nat,
                      answer : {"pending", "ok", "failed"}])
    /\ tfPc \in {"idle", "addresses", "transfer"}

\* The confirmation step always has a fee to show: _transferFundsNextStep
\* moves to step 2 only after the fee of its call has been set, and every
\* way out of step 2 that clears the fee also leaves step 2.
StepTwoHasFee == step = 2 => fee # Null

\* TransferWizard seen through the store's transferFunds* fields.
Wizard == INSTANCE TransferWizard
    WITH Sources <- LegacyWallets, NoWallet <- Empty, NoFee <- Null

\* The store implements the wizard the user sees: the confirmation step is
\* reached only from the target step, with the fee of the current source.
\* A _transferFundsNextStep that resumes after the fee arrives sets step 2
\* whether or not the user has since gone back or closed the wizard.
WizardRefinement == Wizard!WSpec
====
