--------------------------- MODULE RestoreWallet ---------------------------
(***************************************************************************)
(* The restore wizard of WalletsStore.js and the _restore handler it       *)
(* triggers.  The wizard's fields are restoreWalletStep, the abort alert,  *)
(* the wallet kind, the mnemonics and the configuration; _restore pauses   *)
(* polling, reads those fields, and awaits the backend.  The wallet list   *)
(* and the poller are WalletsPolling's; here polling is only the flag      *)
(* _pollingBlocked that _pausePolling sets and _resumePolling clears.      *)
(*                                                                         *)
(* A mnemonic is abstracted to the wallet it denotes (Null: none entered), *)
(* the configuration to whether walletName and spendingPassword are        *)
(* non-empty.  Every started _restore is a record of `runs`: nothing       *)
(* cancels it, so several may be in flight after a close and a reopen.     *)
(***************************************************************************)
EXTENDS Naturals, Sequences, SequencesExt

CONSTANTS
    Wallets,          \* wallets a mnemonic may denote
    Null,
    RestoreSteps,     \* RESTORE_WALLET_STEPS.length
    MaxRuns,          \* bound on _restore calls in flight
    MaxUserActions,
    BackendMayFail

ASSUME /\ Null \notin Wallets /\ RestoreSteps \in Nat /\ RestoreSteps >= 3
       /\ MaxRuns \in Nat \ {0} /\ MaxUserActions \in Nat
       /\ BackendMayFail \in BOOLEAN

\* the last step, the success screen (the code also writes it as 3)
SuccessStep == RestoreSteps - 1

\* the configuration step, from which the user triggers restoreWallet
ConfigStep == RestoreSteps - 2

\* The dialog shows one field group per step: the kind on step 0, the
\* mnemonics on step 1, the name and password on the configuration step.
KindStep == 0
MnemonicsStep == 1

VARIABLES
    dialogOpen,        \* the restore dialog is the active dialog
    restoreWalletStep,
    restoreWalletShowAbortConfirmation,
    byron27,           \* walletKind DAEDALUS with kind BYRON_27_WORD
    mnemonics,         \* the wallet the entered mnemonics denote, or Null
    walletName,        \* walletName is non-empty
    spendingPassword,  \* spendingPassword is non-empty
    restoredWallet,
    pollingBlocked,    \* WalletsStore._pollingBlocked
    backend,           \* wallets the backend holds
    runs,              \* _restore calls in flight: [pc, wallet, byron27,
                       \* own: started from the dialog that is open]
    endPc,             \* _restoreWalletEnd: "idle" or awaiting the patch
    userSteps

wizard == <<restoreWalletStep, restoreWalletShowAbortConfirmation, byron27,
            mnemonics, walletName, spendingPassword, restoredWallet>>

vars == <<dialogOpen, wizard, pollingBlocked, backend, runs, endPc,
          userSteps>>

UserStep == userSteps < MaxUserActions /\ userSteps' = userSteps + 1

\* The open dialog is restoring: while it is, it offers only close.
Submitting == \E i \in 1..Len(runs) : runs[i].own

----
(* The wizard's handlers *)

\* _restoreWalletResetData but for its first line, restoreWalletStep = null
\* (the request resets beside it change nothing modelled: a reset
\* request's promise still settles)
ResetEntries ==
    /\ restoreWalletShowAbortConfirmation' = FALSE
    /\ restoredWallet' = Null
    /\ byron27' = FALSE
    /\ mnemonics' = Null
    /\ walletName' = FALSE
    /\ spendingPassword' = FALSE

\* _restoreWalletResetData
ResetData == restoreWalletStep' = Null /\ ResetEntries

\* The dialog opens and _restoreWalletBegin starts the wizard at step 0.
RestoreWalletBegin ==
    /\ UserStep
    /\ ~dialogOpen
    /\ dialogOpen' = TRUE
    /\ restoreWalletStep' = 0
    /\ restoreWalletShowAbortConfirmation' = FALSE
    /\ UNCHANGED <<byron27, mnemonics, walletName, spendingPassword,
                   restoredWallet, pollingBlocked, backend, runs, endPc>>

\* _restoreWalletChangeStep: the dialog offers "back" after the first step
\* and "next" up to the configuration step, past the mnemonics step only
\* with a phrase entered.
RestoreWalletChangeStep(isBack) ==
    LET cur == IF restoreWalletStep = Null THEN 0 ELSE restoreWalletStep
    IN
    /\ UserStep
    /\ dialogOpen /\ ~Submitting
    /\ IF isBack THEN cur \in 1..ConfigStep
                  ELSE cur < ConfigStep /\ (cur = MnemonicsStep => mnemonics # Null)
    /\ IF restoreWalletStep = Null
       THEN ResetEntries
       ELSE /\ restoreWalletShowAbortConfirmation' = FALSE
            /\ UNCHANGED <<byron27, mnemonics, walletName, spendingPassword,
                           restoredWallet>>
    /\ restoreWalletStep' = IF isBack THEN cur - 1 ELSE cur + 1
    /\ UNCHANGED <<dialogOpen, pollingBlocked, backend, runs, endPc>>

\* _restoreWalletClose: with data entered before the last step the first
\* close only shows the abort alert; otherwise the wizard is reset and the
\* dialog closed.
RestoreWalletClose ==
    LET shouldDisplayAbortAlert ==
            /\ mnemonics # Null \/ walletName \/ spendingPassword
            /\ restoreWalletStep # Null
            /\ restoreWalletStep < SuccessStep
    IN
    /\ UserStep
    /\ dialogOpen
    /\ IF shouldDisplayAbortAlert /\ ~restoreWalletShowAbortConfirmation
       THEN /\ restoreWalletShowAbortConfirmation' = TRUE
            /\ UNCHANGED <<dialogOpen, restoreWalletStep, byron27, mnemonics,
                           walletName, spendingPassword, restoredWallet, runs>>
       ELSE /\ ResetData /\ dialogOpen' = FALSE
            /\ runs' = [i \in 1..Len(runs) |-> [runs[i] EXCEPT !.own = FALSE]]
    /\ UNCHANGED <<pollingBlocked, backend, endPc>>

RestoreWalletCancelClose ==
    /\ UserStep
    /\ dialogOpen
    /\ restoreWalletShowAbortConfirmation' = FALSE
    /\ UNCHANGED <<dialogOpen, restoreWalletStep, byron27, mnemonics,
                   walletName, spendingPassword, restoredWallet,
                   pollingBlocked, backend, runs, endPc>>

\* _restoreWalletSetKind clears the mnemonics.
RestoreWalletSetKind(is27) ==
    /\ UserStep
    /\ dialogOpen /\ restoreWalletStep = KindStep /\ ~Submitting
    /\ byron27' = is27
    /\ mnemonics' = Null
    /\ UNCHANGED <<dialogOpen, restoreWalletStep,
                   restoreWalletShowAbortConfirmation, walletName,
                   spendingPassword, restoredWallet, pollingBlocked, backend,
                   runs, endPc>>

RestoreWalletSetMnemonics(w) ==
    /\ UserStep
    /\ dialogOpen /\ restoreWalletStep = MnemonicsStep /\ ~Submitting
    /\ mnemonics' = w
    /\ UNCHANGED <<dialogOpen, restoreWalletStep,
                   restoreWalletShowAbortConfirmation, byron27, walletName,
                   spendingPassword, restoredWallet, pollingBlocked, backend,
                   runs, endPc>>

\* _restoreWalletSetConfig for walletName or spendingPassword; a value is
\* empty or not (repeatPassword changes nothing modelled).
RestoreWalletSetConfig(param, nonEmpty) ==
    /\ UserStep
    /\ dialogOpen /\ restoreWalletStep = ConfigStep /\ ~Submitting
    /\ walletName' = IF param = "walletName" THEN nonEmpty ELSE walletName
    /\ spendingPassword' =
           IF param = "spendingPassword" THEN nonEmpty ELSE spendingPassword
    /\ UNCHANGED <<dialogOpen, restoreWalletStep,
                   restoreWalletShowAbortConfirmation, byron27, mnemonics,
                   restoredWallet, pollingBlocked, backend, runs, endPc>>

----
(* _restore *)

\* What _restore reads after its pause: the data it sends and whether it
\* unscrambles a certificate mnemonic first.
AfterPause(own) ==
    [pc |-> IF byron27 THEN "unscramble" ELSE "request",
     wallet |-> mnemonics, byron27 |-> byron27, own |-> own]

\* restoreWallet from the configuration step.  _pausePolling first awaits
\* walletsRequest if a getWallets call is executing, and sets the flag
\* after; if none is, the flag is set at once and _restore goes on before
\* any other event.
Restore ==
    /\ UserStep
    /\ dialogOpen /\ restoreWalletStep = ConfigStep /\ ~Submitting
    /\ Len(runs) < MaxRuns
    /\ \E getWalletsExecuting \in BOOLEAN :
          IF getWalletsExecuting
          THEN /\ runs' = Append(runs, [pc |-> "awaitPause", wallet |-> Null,
                                        byron27 |-> FALSE, own |-> TRUE])
               /\ UNCHANGED pollingBlocked
          ELSE /\ runs' = Append(runs, AfterPause(TRUE))
               /\ pollingBlocked' = TRUE
    /\ UNCHANGED <<dialogOpen, wizard, backend, endPc>>

\* The getWallets call _pausePolling awaited settles: the flag is set and
\* _restore reads the wizard's fields as they are now.
RestoreAfterPause ==
    \E i \in 1..Len(runs) :
        /\ runs[i].pc = "awaitPause"
        /\ pollingBlocked' = TRUE
        /\ runs' = [runs EXCEPT ![i] = AfterPause(runs[i].own)]
        /\ UNCHANGED <<dialogOpen, wizard, backend, endPc, userSteps>>

\* _getUnscrambledMnemonics answers.  It is awaited outside the try, so a
\* rejection (an empty phrase is rejected) escapes _restore with polling
\* paused.
RestoreUnscramble ==
    \E i \in 1..Len(runs) :
        /\ runs[i].pc = "unscramble"
        /\ \/ /\ runs[i].wallet # Null
              /\ runs' = [runs EXCEPT ![i].pc = "request"]
           \/ /\ runs[i].wallet = Null \/ BackendMayFail
              /\ runs' = RemoveAt(runs, i)
        /\ UNCHANGED <<dialogOpen, wizard, pollingBlocked, backend, endPc,
                       userSteps>>

\* mutant: the success step written as the number of steps
RestoreReplyPastLastStep ==
    \E i \in 1..Len(runs) :
        LET w == runs[i].wallet IN
        /\ runs[i].pc = "request"
        /\ runs' = RemoveAt(runs, i)
        /\ \/ /\ w # Null /\ w \notin backend
              /\ backend' = backend \cup {w}
              /\ restoredWallet' = w
              /\ restoreWalletStep' = RestoreSteps
              /\ UNCHANGED pollingBlocked
           \/ /\ w = Null \/ w \in backend \/ BackendMayFail
              /\ pollingBlocked' = FALSE
              /\ UNCHANGED <<backend, restoredWallet, restoreWalletStep>>
        /\ UNCHANGED <<dialogOpen, restoreWalletShowAbortConfirmation,
                       byron27, mnemonics, walletName, spendingPassword,
                       endPc, userSteps>>

\* The restore request answers.  A wallet is stored and the wizard moves to
\* the success step, with polling still paused, whatever the wizard shows
\* now; a rejection (an empty phrase, a wallet the backend has) resumes
\* polling.
RestoreReply ==
    \E i \in 1..Len(runs) :
        LET w == runs[i].wallet IN
        /\ runs[i].pc = "request"
        /\ runs' = RemoveAt(runs, i)
        /\ \/ /\ w # Null /\ w \notin backend
              /\ backend' = backend \cup {w}
              /\ restoredWallet' = w
              /\ restoreWalletStep' = SuccessStep
              /\ UNCHANGED pollingBlocked
           \/ /\ w = Null \/ w \in backend \/ BackendMayFail
              /\ pollingBlocked' = FALSE
              /\ UNCHANGED <<backend, restoredWallet, restoreWalletStep>>
        /\ UNCHANGED <<dialogOpen, restoreWalletShowAbortConfirmation,
                       byron27, mnemonics, walletName, spendingPassword,
                       endPc, userSteps>>

----
(* _restoreWalletEnd *)

\* The success screen's button: _restoreWalletEnd resumes polling and, with
\* a restored wallet, awaits the patch of the list; the dialog closes.
RestoreWalletEnd ==
    /\ UserStep
    /\ dialogOpen /\ restoreWalletStep = SuccessStep /\ endPc = "idle"
    /\ dialogOpen' = FALSE
    /\ pollingBlocked' = FALSE
    /\ endPc' = IF restoredWallet # Null THEN "patch" ELSE "idle"
    /\ UNCHANGED <<wizard, backend, runs>>

\* After the patch: route, refresh, and the wizard's requests and data are
\* reset.
RestoreEndPatch ==
    /\ endPc = "patch"
    /\ endPc' = "idle"
    /\ ResetData
    /\ UNCHANGED <<dialogOpen, pollingBlocked, backend, runs, userSteps>>

----
(* Specification *)

Init ==
    /\ dialogOpen = FALSE
    /\ restoreWalletStep = Null
    /\ restoreWalletShowAbortConfirmation = FALSE
    /\ byron27 = FALSE
    /\ mnemonics = Null
    /\ walletName = FALSE
    /\ spendingPassword = FALSE
    /\ restoredWallet = Null
    /\ pollingBlocked = FALSE
    /\ backend = {}
    /\ runs = <<>>
    /\ endPc = "idle"
    /\ userSteps = 0

Next ==
    \/ RestoreWalletBegin
    \/ \E b \in BOOLEAN : RestoreWalletChangeStep(b)
    \/ RestoreWalletClose \/ RestoreWalletCancelClose
    \/ \E b \in BOOLEAN : RestoreWalletSetKind(b)
    \/ \E w \in Wallets \cup {Null} : RestoreWalletSetMnemonics(w)
    \/ \E p \in {"walletName", "spendingPassword"}, b \in BOOLEAN :
          RestoreWalletSetConfig(p, b)
    \/ Restore \/ RestoreWalletEnd
    \/ RestoreAfterPause \/ RestoreUnscramble \/ RestoreReply
    \/ RestoreEndPatch

\* Backend answers and timers are run by the event loop; the user may stop
\* at any point.
Fairness ==
    /\ WF_vars(RestoreAfterPause) /\ WF_vars(RestoreUnscramble)
    /\ WF_vars(RestoreReply) /\ WF_vars(RestoreEndPatch)

Spec == Init /\ [][Next]_vars /\ Fairness

----
(* Properties *)

TypeOK ==
    /\ dialogOpen \in BOOLEAN
    /\ restoreWalletStep \in {Null} \cup 0..SuccessStep
    /\ mnemonics \in Wallets \cup {Null}
    /\ restoredWallet \in Wallets \cup {Null}
    /\ backend \in SUBSET Wallets
    /\ runs \in Seq([pc : {"awaitPause", "unscramble", "request"},
                     wallet : Wallets \cup {Null}, byron27 : BOOLEAN,
                     own : BOOLEAN])
    /\ endPc \in {"idle", "patch"}

\* The wizard the user sees, read off the store's fields.  The open
\* dialog's restore reads the phrase after its pause; the dialog cannot
\* change it meanwhile.
ShownPhase ==
    IF ~dialogOpen THEN "closed"
    ELSE IF restoreWalletStep = SuccessStep THEN "success"
    ELSE IF Submitting THEN "restoring"
    ELSE "entry"

OwnTarget ==
    IF ~Submitting THEN Null
    ELSE LET r == runs[CHOOSE i \in 1..Len(runs) : runs[i].own]
         IN  IF r.pc = "awaitPause" THEN mnemonics ELSE r.wallet

Wizard == INSTANCE RestoreWizard
    WITH NoWallet <- Null,
         shown <- ShownPhase,
         entered <- IF dialogOpen THEN mnemonics ELSE Null,
         target <- OwnTarget,
         result <- IF ShownPhase = "success" THEN restoredWallet ELSE Null,
         paused <- pollingBlocked,
         background <- \E i \in 1..Len(runs) : ~runs[i].own

\* The store implements the wizard of RestoreWizard: _restore pauses
\* polling "so that we remain on the Add wallet screen until user closes
\* the TADA screen", the success screen shows the wallet restored, and a
\* restore the user walked away from neither moves the wizard nor keeps
\* polling paused.
RestoreRefinement == Wizard!RSpec

====
