------------------------- MODULE SendConfirmation -------------------------
(***************************************************************************)
(* The "Confirm transaction" dialog (WalletSendAssetsConfirmationDialog)   *)
(* composed with WalletsStore._sendMoney and its sendMoneyRequest.         *)
(*                                                                         *)
(* A step is one macrotask of the renderer: a user event, the form's       *)
(* debounced validation timer, or a backend answer, together with the      *)
(* synchronous code and microtasks it triggers.  The passphrase is either  *)
(* empty or not; the hardware device status is abstracted to whether the   *)
(* device has confirmed the transaction.                                   *)
(***************************************************************************)
EXTENDS Naturals

CONSTANTS
    MaxSessions,        \* how many times the dialog is opened
    MaxUserActions,     \* bound on user events
    BackendMayFail,     \* sendMoney may be rejected by the backend
    ExecutingFlagLags   \* Request sets isExecuting in a setTimeout

ASSUME /\ MaxSessions \in Nat \ {0}
       /\ MaxUserActions \in Nat
       /\ BackendMayFail \in BOOLEAN
       /\ ExecutingFlagLags \in BOOLEAN

VARIABLES
    isFlight,       \* build is a flight candidate (fixed for the app's run)
    open,           \* the dialog is mounted
    hw,             \* props.isHardwareWallet of the mounted dialog
    passphrase,     \* form.$('passphrase').value: "" or "pw"
    passphraseValid,\* form.$('passphrase').isValid, the last validation result
    validating,     \* a debounced validation is scheduled
    areTermsAccepted,
    device,         \* hwDeviceStatus: "none", "verifying", "succeeded", "failed"
    req,            \* sendMoneyRequest
    awaiting,       \* _sendMoney calls suspended on sendMoneyRequest
    sessions,
    userSteps,
    \* history variables for the properties
    unconfirmedSend,   \* a transaction reached the backend unconfirmed
    sessionSends       \* backend sends in this session that were not rejected

vars == <<isFlight, open, hw, passphrase, passphraseValid, validating,
          areTermsAccepted, device, req, awaiting, sessions,
          userSteps, unconfirmedSend, sessionSends>>

ReqIdle == [waiting |-> FALSE, executing |-> FALSE, answer |-> "none"]

UserStep == userSteps < MaxUserActions /\ userSteps' = userSteps + 1

----
(* Form and rendering *)

\* The passphrase validator of the form: always valid for hardware wallets.
PassphraseValidator(v) == hw \/ v # ""

\* disabled of the "Send" action in render().
SendButtonDisabled ==
    \/ ~hw /\ ~passphraseValid
    \/ hw /\ device # "succeeded"
    \/ ~areTermsAccepted /\ isFlight

\* The passphrase Input is rendered only for software wallets, and on a
\* flight build only once the terms are accepted.
InputRendered == ~hw /\ (~isFlight \/ areTermsAccepted)

\* isSubmitting as the send page passes it: sendMoneyRequest.isExecuting.
IsSubmitting == req.executing

----
(* sendMoneyRequest *)

\* Request.execute: a call while a response is awaited returns the pending
\* request and sends nothing; otherwise the transaction goes to the backend.
ExecuteFresh ==
    /\ req' = [waiting |-> TRUE, executing |-> ~ExecutingFlagLags,
               answer |-> "pending"]
    /\ sessionSends' = sessionSends + 1

ExecuteAlways == ExecuteFresh

Execute ==
    IF req.waiting THEN UNCHANGED <<req, sessionSends>> ELSE ExecuteFresh

MarkExecuting ==
    /\ req.waiting /\ ~req.executing
    /\ req' = [req EXCEPT !.executing = TRUE]
    /\ UNCHANGED <<isFlight, open, hw, passphrase, passphraseValid, validating,
                   areTermsAccepted, device, awaiting, sessions,
                   userSteps, unconfirmedSend, sessionSends>>

BackendAnswer ==
    /\ req.answer = "pending"
    /\ \E a \in IF BackendMayFail THEN {"ok", "failed"} ELSE {"ok"} :
          req' = [req EXCEPT !.answer = a]
    /\ UNCHANGED <<isFlight, open, hw, passphrase, passphraseValid, validating,
                   areTermsAccepted, device, awaiting, sessions,
                   userSteps, unconfirmedSend, sessionSends>>

----
(* _sendMoney *)

\* _sendMoney up to its await: executes sendMoneyRequest (a no-op if one is
\* already awaited).  Its throw without an active wallet cannot happen here:
\* the dialog is opened from the active wallet's send page.
SendMoney ==
    /\ Execute
    /\ awaiting' = awaiting + 1
    /\ unconfirmedSend' = (unconfirmedSend \/ (sessionSends' > sessionSends /\
          (passphrase = "" \/ (isFlight /\ ~areTermsAccepted))))

SendMoneyResolvedKeepsOpen ==
    /\ req.executing /\ req.answer = "ok"
    /\ awaiting > 0
    /\ req' = ReqIdle
    /\ awaiting' = 0
    /\ UNCHANGED <<isFlight, open, hw, passphrase, passphraseValid, validating,
                   areTermsAccepted, device, sessions, userSteps,
                   unconfirmedSend, sessionSends>>

\* The request resolves: every suspended _sendMoney refreshes the wallets,
\* closes the active dialog, resets the request and routes to the wallet.
SendMoneyResolved ==
    /\ req.executing /\ req.answer = "ok"
    /\ awaiting > 0
    /\ req' = ReqIdle
    /\ awaiting' = 0
    /\ open' = FALSE
    /\ UNCHANGED <<isFlight, hw, passphrase, passphraseValid, validating,
                   areTermsAccepted, device, sessions, userSteps,
                   unconfirmedSend, sessionSends>>

SendMoneyRejectedStoresError ==
    /\ req.executing /\ req.answer = "failed"
    /\ req' = [req EXCEPT !.waiting = FALSE, !.executing = FALSE,
                          !.answer = "error"]
    /\ awaiting' = 0
    /\ sessionSends' = 0
    /\ UNCHANGED <<isFlight, open, hw, passphrase, passphraseValid, validating,
                   areTermsAccepted, device, sessions, userSteps,
                   unconfirmedSend>>

\* The request is rejected: every suspended _sendMoney throws; the dialog
\* stays open and shows the error.
SendMoneyRejected ==
    /\ req.executing /\ req.answer = "failed"
    /\ req' = ReqIdle
    /\ awaiting' = 0
    /\ sessionSends' = 0
    /\ UNCHANGED <<isFlight, open, hw, passphrase, passphraseValid, validating,
                   areTermsAccepted, device, sessions, userSteps,
                   unconfirmedSend>>

----
(* The dialog's handlers *)

UI == <<passphrase, passphraseValid, validating, areTermsAccepted, device>>

\* The send page mounts the dialog: initial state and form, and the form's
\* validation on init.  For a hardware wallet on a normal build the page
\* starts the device signing at once (onInitiateTransaction).
Open(isHardwareWallet) ==
    /\ ~open /\ sessions < MaxSessions
    /\ sessions' = sessions + 1
    /\ open' = TRUE
    /\ hw' = isHardwareWallet
    /\ passphrase' = ""
    /\ passphraseValid' = isHardwareWallet
    /\ validating' = FALSE
    /\ areTermsAccepted' = FALSE
    /\ device' = IF isHardwareWallet /\ ~isFlight THEN "verifying" ELSE "none"
    /\ sessionSends' = 0
    /\ UNCHANGED <<isFlight, req, awaiting, userSteps, unconfirmedSend>>

\* Typing into the passphrase Input; validation is debounced.
TypePassphrase(v) ==
    /\ open /\ InputRendered /\ v # passphrase
    /\ UserStep
    /\ passphrase' = v
    /\ validating' = TRUE
    /\ UNCHANGED <<isFlight, open, hw, passphraseValid, areTermsAccepted,
                   device, req, awaiting, sessions, unconfirmedSend,
                   sessionSends>>

\* The debounce timer fires and the validator runs on the current value.
ValidateDebounced ==
    /\ open /\ validating
    /\ passphraseValid' = PassphraseValidator(passphrase)
    /\ validating' = FALSE
    /\ UNCHANGED <<isFlight, open, hw, passphrase, areTermsAccepted, device,
                   req, awaiting, sessions, userSteps, unconfirmedSend,
                   sessionSends>>

\* onCheckboxClick: the checkbox is shown on flight builds and disabled once
\* checked; for a hardware wallet it starts the device signing.
OnCheckboxClick ==
    /\ open /\ isFlight /\ ~areTermsAccepted
    /\ UserStep
    /\ areTermsAccepted' = TRUE
    /\ device' = IF hw THEN "verifying" ELSE device
    /\ UNCHANGED <<isFlight, open, hw, passphrase, passphraseValid, validating,
                   req, awaiting, sessions, unconfirmedSend, sessionSends>>

\* The user confirms or rejects the transaction on the device.
DeviceResult ==
    /\ open /\ device = "verifying"
    /\ \E d \in {"succeeded", "failed"} : device' = d
    /\ UNCHANGED <<isFlight, open, hw, passphrase, passphraseValid, validating,
                   areTermsAccepted, req, awaiting, sessions, userSteps,
                   unconfirmedSend, sessionSends>>

\* props.onSubmit(transactionData).  A hardware wallet's transaction goes
\* to the device flow of the send page, outside these sources: it is
\* recorded, with whether it was confirmed.
OnSubmit ==
    IF hw
    THEN /\ unconfirmedSend' = (unconfirmedSend \/ device # "succeeded"
                                \/ (isFlight /\ ~areTermsAccepted))
         /\ UNCHANGED <<req, awaiting, sessionSends>>
    ELSE SendMoney

SubmitNoRevalidate == OnSubmit

\* submit: form.submit validates every field again and calls onSuccess
\* (onSubmit) only if they are valid; onError does nothing.
Submit ==
    IF PassphraseValidator(passphrase)
    THEN OnSubmit
    ELSE UNCHANGED <<req, awaiting, sessionSends, unconfirmedSend>>

\* The "Send" action: enabled unless disabled, and not disabled while
\* submitting.
ClickSend ==
    /\ open /\ ~SendButtonDisabled
    /\ UserStep
    /\ Submit
    /\ UNCHANGED <<isFlight, open, hw, sessions>>
    /\ UNCHANGED UI

\* handleSubmitOnEnter: Enter in the passphrase Input submits if the
\* field's last validation passed.
HandleSubmitOnEnter ==
    /\ open /\ InputRendered /\ (hw \/ passphraseValid)
    /\ UserStep
    /\ Submit
    /\ UNCHANGED <<isFlight, open, hw, sessions>>
    /\ UNCHANGED UI

\* "Back" and the dialog's onClose call onCancel unless isSubmitting.
Cancel ==
    /\ open /\ ~IsSubmitting
    /\ UserStep
    /\ open' = FALSE
    /\ UNCHANGED <<isFlight, hw, req, awaiting, sessions, unconfirmedSend,
                   sessionSends>>
    /\ UNCHANGED UI

----
(* Specification *)

Init ==
    /\ isFlight \in BOOLEAN
    /\ open = FALSE
    /\ hw = FALSE
    /\ passphrase = ""
    /\ passphraseValid = FALSE
    /\ validating = FALSE
    /\ areTermsAccepted = FALSE
    /\ device = "none"
    /\ req = ReqIdle
    /\ awaiting = 0
    /\ sessions = 0
    /\ userSteps = 0
    /\ unconfirmedSend = FALSE
    /\ sessionSends = 0

SystemStep ==
    \/ ValidateDebounced
    \/ MarkExecuting
    \/ BackendAnswer
    \/ SendMoneyResolved
    \/ SendMoneyRejected

Next ==
    \/ \E h \in BOOLEAN : Open(h)
    \/ \E v \in {"", "pw"} : TypePassphrase(v)
    \/ OnCheckboxClick
    \/ DeviceResult
    \/ ClickSend
    \/ HandleSubmitOnEnter
    \/ Cancel
    \/ SystemStep

\* Timers and backend answers are run by the event loop; the user and the
\* device owner may stop at any point.
Fairness ==
    /\ WF_vars(ValidateDebounced)
    /\ WF_vars(MarkExecuting)
    /\ WF_vars(BackendAnswer)
    /\ WF_vars(SendMoneyResolved)
    /\ WF_vars(SendMoneyRejected)

Spec == Init /\ [][Next]_vars /\ Fairness

----
(* Properties *)

TypeOK ==
    /\ isFlight \in BOOLEAN /\ open \in BOOLEAN /\ hw \in BOOLEAN
    /\ passphrase \in {"", "pw"} /\ passphraseValid \in BOOLEAN
    /\ validating \in BOOLEAN /\ areTermsAccepted \in BOOLEAN
    /\ device \in {"none", "verifying", "succeeded", "failed"}
    /\ req \in [waiting : BOOLEAN, executing : BOOLEAN,
                answer : {"none", "pending", "ok", "failed"}]
    /\ awaiting \in Nat /\ sessions \in 0..MaxSessions
    /\ userSteps \in 0..MaxUserActions
    /\ sessionSends \in Nat

\* No transaction reaches the backend (or the device flow) unless the user
\* confirmed it: a non-empty passphrase for a software wallet, a device
\* that verified it for a hardware wallet, and the accepted terms on a
\* flight build.  The Send button and Enter key read the debounced
\* isValid, so this rests on form.submit validating again.
SentOnlyWhenConfirmed == ~unconfirmedSend

\* One confirmation dialog sends at most one transaction: the Send button
\* stays enabled while submitting, so a second click or Enter calls
\* _sendMoney again, and only Request.execute returning the pending request
\* keeps it from sending twice.
OneSendPerSession == sessionSends <= 1

\* The confirmation the dialog asks for: the device's approval for a
\* hardware wallet, a passphrase otherwise, and the terms on a flight build.
Confirmed ==
    /\ IF hw THEN device = "succeeded" ELSE passphrase # ""
    /\ ~isFlight \/ areTermsAccepted

\* SendMoneySpec seen through the dialog: the request's awaited response is
\* the pending transaction, and the sends of the session are its sends.
Abstract == INSTANCE SendMoneySpec
    WITH dialogOpen <- open, confirmed <- Confirmed,
         pending <- req.waiting, sends <- sessionSends

\* The dialog with _sendMoney implements SendMoneySpec: every send comes
\* from an open, confirmed dialog with nothing pending, and every send is
\* eventually answered.
SendMoneyRefinement == Abstract!ASpec

====
