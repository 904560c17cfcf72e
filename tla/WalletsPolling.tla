--------------------------- MODULE WalletsPolling ---------------------------
(***************************************************************************)
(* The wallet list of WalletsStore.js (walletsRequest.result), the 5 s     *)
(* poller that refreshes it, and the handlers that pause polling while     *)
(* they change the wallets on the backend: _deleteWallet, _restore with    *)
(* _restoreWalletEnd, _generateCsv, and _importWalletFromFile, which       *)
(* patches the list without pausing.                                       *)
(*                                                                         *)
(* The renderer is one JavaScript thread.  A step of this module is one    *)
(* event-loop task (a user event, a timer or an I/O completion) together   *)
(* with the synchronous code that follows it up to the next await on I/O   *)
(* or on a timer.  The one place where several continuations are queued    *)
(* at once is the resolution of a shared promise: a handler that is in     *)
(* pc "paused" has a microtask pending, and no macrotask runs before it.   *)
(***************************************************************************)
EXTENDS Naturals, Sequences, FiniteSets, SequencesExt

CONSTANTS
    Wallets,            \* wallet ids (model values)
    Legacy,             \* the legacy (Byron) wallets among them
    WalletOrder,        \* the order in which the backend stores wallets
    Null,               \* JavaScript null
    MaxFlows,           \* handlers the dialogs let run at the same time
    MaxUserActions,     \* bound on user and network events
    BackendMayFail,     \* whether a backend call may fail
    ExecutingFlagLags   \* Request.execute sets isExecuting in a timer

ASSUME
    /\ Legacy \subseteq Wallets
    /\ WalletOrder \in Seq(Wallets) /\ ToSet(WalletOrder) = Wallets
    /\ Null \notin Wallets
    /\ MaxFlows \in Nat \ {0} /\ MaxUserActions \in Nat
    /\ BackendMayFail \in BOOLEAN /\ ExecutingFlagLags \in BOOLEAN

VARIABLES
    backend,          \* the wallets the wallet backend holds
    result,           \* walletsRequest.result: Null or the list shown
    req,              \* walletsRequest: the getWallets call in flight
    pollingBlocked,   \* WalletsStore._pollingBlocked
    isDeleting,       \* WalletsStore.isDeleting
    isConnected,      \* networkStatus.isConnected
    pc,               \* where each handler is suspended
    delWallet,        \* _deleteWallet: params.walletId
    delIndex,         \* _deleteWallet: indexOfWalletToDelete (1-based)
    impWallet,        \* _importWalletFromFile: the wallet in the file
    rstTarget,        \* _restore: the wallet the mnemonic denotes
    restoredWallet,   \* WalletsStore.restoredWallet
    csvInProgress,    \* WalletsStore.generatingRewardsCsvInProgress
    removed,          \* history: wallets _deleteWallet has patched away
    userSteps,        \* user and network events so far
    hwWallet,         \* _createHardwareWallet: the wallet of the device
    certWallet,       \* _generateCertificate: the temporary paper wallet
    paperWallets      \* history: temporary wallets not restored since

vars == <<backend, result, req, pollingBlocked, isDeleting, isConnected, pc,
          delWallet, delIndex, impWallet, rstTarget, restoredWallet,
          csvInProgress, removed, userSteps, hwWallet, certWallet,
          paperWallets>>

\* the locals of the two handlers that create wallets, and their history
CreateVars == <<hwWallet, certWallet, paperWallets>>

Flows == {"delete", "import", "csv", "restore", "hw", "cert"}

PcValues ==
    {"idle", "awaitPause", "paused", "request", "patch", "unsetHw",
     "download", "unscramble", "restored", "localData", "mnemonics",
     "create", "addresses", "deleteTmp"}

----
(* The wallet list                                                         *)
----

\* getter `all`: the non-legacy wallets of the result, then the legacy ones
AllWallets(r) ==
    IF r = Null THEN <<>>
    ELSE SelectSeq(r, LAMBDA w : w \notin Legacy)
           \o SelectSeq(r, LAMBDA w : w \in Legacy)

\* the answer of api.ada.getWallets: wallets first, legacy wallets after
Listing(b) == AllWallets(SelectSeq(WalletOrder, LAMBDA w : w \in b))

InResult(w) == result # Null /\ w \in ToSet(result)

\* mutant: the wallet is added without looking it up in the list first
PatchNewWalletNoFind(r, w) ==
    LET firstLegacy == SelectInSeq(r, LAMBDA x : x \in Legacy)
    IN  IF w \in Legacy THEN Append(r, w)
        ELSE IF firstLegacy > 0 THEN InsertAt(r, firstLegacy, w)
        ELSE Append(r, w)

\* _patchWalletRequestWithNewWallet: add a wallet the list lacks; a legacy
\* one at the end, any other before the first legacy wallet
PatchNewWallet(r, w) ==
    LET firstLegacy == SelectInSeq(r, LAMBDA x : x \in Legacy)
    IN  IF w \in ToSet(r) THEN r
        ELSE IF w \in Legacy THEN Append(r, w)
        ELSE IF firstLegacy > 0 THEN InsertAt(r, firstLegacy, w)
        ELSE Append(r, w)

\* Array.prototype.splice(i, 1) with a 1-based index; no-op past the end
Splice(r, i) == IF i \in 1..Len(r) THEN RemoveAt(r, i) ELSE r

----
(* walletsRequest (stores/lib/Request.js)                                  *)
----

ReqIdle == [waiting |-> FALSE, executing |-> FALSE,
            answer |-> "none", listing |-> <<>>]

\* Request.execute: a call while one is awaited returns the pending one
Execute ==
    IF req.waiting THEN UNCHANGED req
    ELSE req' = [waiting |-> TRUE, executing |-> ~ExecutingFlagLags,
                 answer |-> "pending", listing |-> <<>>]

\* refreshWalletsData, given the value _pollingBlocked has when it is called
RefreshWalletsData(blocked) ==
    IF ~blocked /\ isConnected THEN Execute ELSE UNCHANGED req

\* the setTimeout(0) in Request.execute that sets isExecuting
MarkExecuting ==
    /\ req.waiting /\ ~req.executing
    /\ req' = [req EXCEPT !.executing = TRUE]
    /\ UNCHANGED <<backend, result, pollingBlocked, isDeleting, isConnected,
                   pc, delWallet, delIndex, impWallet, rstTarget,
                   restoredWallet, csvInProgress, removed, userSteps>>
    /\ UNCHANGED CreateVars

\* the backend computes its answer to getWallets
BackendAnswer ==
    /\ req.answer = "pending"
    /\ \/ req' = [req EXCEPT !.answer = "ok", !.listing = Listing(backend)]
       \/ BackendMayFail /\ req' = [req EXCEPT !.answer = "failed"]
    /\ UNCHANGED <<backend, result, pollingBlocked, isDeleting, isConnected,
                   pc, delWallet, delIndex, impWallet, rstTarget,
                   restoredWallet, csvInProgress, removed, userSteps>>
    /\ UNCHANGED CreateVars

\* handlers whose `finally` resumes polling when _pausePolling rejects
ResumeInFinally == {"csv", "hw", "cert"}

\* _pausePolling (after its await, if any): block polling
Waiters == {f \in Flows : pc[f] = "awaitPause"}

\* Request.execute/then, in its setTimeout: the result replaces the list and
\* the promise resolves; every handler awaiting it in _pausePolling goes on
\* to block polling and has its continuation queued
Deliver ==
    /\ req.executing /\ req.answer = "ok"
    /\ result' = req.listing
    /\ req' = ReqIdle
    /\ pc' = [f \in Flows |-> IF f \in Waiters THEN "paused" ELSE pc[f]]
    /\ pollingBlocked' = (pollingBlocked \/ Waiters # {})
    /\ UNCHANGED <<backend, isDeleting, isConnected, delWallet, delIndex,
                   impWallet, rstTarget, restoredWallet, csvInProgress,
                   removed, userSteps>>
    /\ UNCHANGED CreateVars

\* mutant: the error is stored as the result
DeliverFailedStoresError ==
    /\ req.executing /\ req.answer = "failed"
    /\ result' = req.answer
    /\ req' = ReqIdle
    /\ pc' = [f \in Flows |-> IF f \in Waiters THEN "idle" ELSE pc[f]]
    /\ pollingBlocked' = IF Waiters \cap ResumeInFinally # {} THEN FALSE
                      ELSE pollingBlocked
    /\ UNCHANGED <<backend, isDeleting, isConnected, delWallet, delIndex,
                   impWallet, rstTarget, restoredWallet, csvInProgress,
                   removed, userSteps>>
    /\ UNCHANGED CreateVars

\* Request.execute/catch: the result is kept and the promise rejects; every
\* handler awaiting it throws, and _generateCsv, _createHardwareWallet and
\* _generateCertificate resume polling in `finally`
DeliverFailed ==
    /\ req.executing /\ req.answer = "failed"
    /\ req' = ReqIdle
    /\ pc' = [f \in Flows |-> IF f \in Waiters THEN "idle" ELSE pc[f]]
    /\ pollingBlocked' = IF Waiters \cap ResumeInFinally # {} THEN FALSE
                      ELSE pollingBlocked
    /\ UNCHANGED <<backend, result, isDeleting, isConnected, delWallet,
                   delIndex, impWallet, rstTarget, restoredWallet,
                   csvInProgress, removed, userSteps>>
    /\ UNCHANGED CreateVars

\* setInterval(this._pollRefresh, WALLET_REFRESH_INTERVAL)
PollRefresh ==
    /\ RefreshWalletsData(pollingBlocked)
    /\ UNCHANGED <<backend, result, pollingBlocked, isDeleting, isConnected,
                   pc, delWallet, delIndex, impWallet, rstTarget,
                   restoredWallet, csvInProgress, removed, userSteps>>
    /\ UNCHANGED CreateVars

----
(* Handlers                                                                *)
----

\* a dialog lets the user start handler f
CanStart(f) ==
    /\ pc[f] = "idle"
    /\ result # Null
    /\ userSteps < MaxUserActions
    /\ Cardinality({g \in Flows : pc[g] # "idle"}) < MaxFlows

\* `await this._pausePolling()`: wait for a request that is executing, else
\* block polling at once
PausePolling(f) ==
    IF req.executing
    THEN /\ pc' = [pc EXCEPT ![f] = "awaitPause"]
         /\ UNCHANGED pollingBlocked
    ELSE /\ pc' = [pc EXCEPT ![f] = "paused"]
         /\ pollingBlocked' = TRUE

\* a handler's continuation is queued: no task may run before it
NoMicrotask == \A f \in Flows : pc[f] # "paused"

DeleteWallet(w) ==
    /\ CanStart("delete")
    /\ w \in ToSet(AllWallets(result))
    /\ isDeleting' = TRUE
    /\ delWallet' = w
    /\ userSteps' = userSteps + 1
    /\ PausePolling("delete")
    /\ UNCHANGED <<backend, result, req, isConnected, delIndex, impWallet,
                   rstTarget, restoredWallet, csvInProgress, removed>>
    /\ UNCHANGED CreateVars

\* getWallet by id; without it the handler returns, polling still paused
DeleteAfterPause ==
    /\ pc["delete"] = "paused"
    /\ IF delWallet \in ToSet(AllWallets(result))
       THEN /\ delIndex' = SelectInSeq(AllWallets(result),
                                       LAMBDA x : x = delWallet)
            /\ pc' = [pc EXCEPT !["delete"] = "request"]
            /\ UNCHANGED isDeleting
       ELSE /\ isDeleting' = FALSE
            /\ pc' = [pc EXCEPT !["delete"] = "idle"]
            /\ UNCHANGED delIndex
    /\ UNCHANGED <<backend, result, req, pollingBlocked, isConnected,
                   delWallet, impWallet, rstTarget, restoredWallet,
                   csvInProgress, removed, userSteps>>
    /\ UNCHANGED CreateVars

\* deleteWalletRequest answers; a failure escapes the handler
DeleteReply ==
    /\ pc["delete"] = "request"
    /\ \/ /\ backend' = backend \ {delWallet}
          /\ pc' = [pc EXCEPT !["delete"] = "patch"]
       \/ /\ BackendMayFail
          /\ pc' = [pc EXCEPT !["delete"] = "idle"]
          /\ UNCHANGED backend
    /\ UNCHANGED <<result, req, pollingBlocked, isDeleting, isConnected,
                   delWallet, delIndex, impWallet, rstTarget, restoredWallet,
                   csvInProgress, removed, userSteps>>
    /\ UNCHANGED CreateVars

\* the walletsRequest.patch timer splices out the index found before the
\* awaits; then isDeleting is reset and the hardware data is unset
DeletePatch ==
    /\ pc["delete"] = "patch"
    /\ result' = Splice(result, delIndex)
    /\ removed' = IF delWallet \in backend THEN removed   \* re-created since
                  ELSE removed \cup {delWallet}
    /\ isDeleting' = FALSE
    /\ pc' = [pc EXCEPT !["delete"] = "unsetHw"]
    /\ UNCHANGED <<backend, req, pollingBlocked, isConnected, delWallet,
                   delIndex, impWallet, rstTarget, restoredWallet,
                   csvInProgress, userSteps>>
    /\ UNCHANGED CreateVars

\* _unsetHardwareWalletLocalData returns: resume polling and refresh
DeleteUnsetHw ==
    /\ pc["delete"] = "unsetHw"
    /\ pollingBlocked' = FALSE
    /\ RefreshWalletsData(FALSE)
    /\ pc' = [pc EXCEPT !["delete"] = "idle"]
    /\ UNCHANGED <<backend, result, isDeleting, isConnected, delWallet,
                   delIndex, impWallet, rstTarget, restoredWallet,
                   csvInProgress, removed, userSteps>>
    /\ UNCHANGED CreateVars

\* _importWalletFromFile: importFromFileRequest is sent
ImportWalletFromFile(w) ==
    /\ CanStart("import")
    /\ impWallet' = w
    /\ pc' = [pc EXCEPT !["import"] = "request"]
    /\ userSteps' = userSteps + 1
    /\ UNCHANGED <<backend, result, req, pollingBlocked, isDeleting,
                   isConnected, delWallet, delIndex, rstTarget,
                   restoredWallet, csvInProgress, removed>>
    /\ UNCHANGED CreateVars

\* the backend imports the wallet, or refuses one it holds already; a
\* refusal escapes the handler
ImportReply ==
    /\ pc["import"] = "request"
    /\ \/ /\ impWallet \notin backend
          /\ backend' = backend \cup {impWallet}
          /\ removed' = removed \ {impWallet}
          /\ paperWallets' = paperWallets \ {impWallet}
          /\ pc' = [pc EXCEPT !["import"] = "patch"]
       \/ /\ impWallet \in backend \/ BackendMayFail
          /\ pc' = [pc EXCEPT !["import"] = "idle"]
          /\ UNCHANGED <<backend, removed, paperWallets>>
    /\ UNCHANGED <<result, req, pollingBlocked, isDeleting, isConnected,
                   delWallet, delIndex, impWallet, rstTarget, restoredWallet,
                   csvInProgress, userSteps, hwWallet, certWallet>>

\* the patch timer adds the wallet; the dialog closes and the list refreshes
ImportPatch ==
    /\ pc["import"] = "patch"
    /\ result' = PatchNewWallet(result, impWallet)
    /\ RefreshWalletsData(pollingBlocked)
    /\ pc' = [pc EXCEPT !["import"] = "idle"]
    /\ UNCHANGED <<backend, pollingBlocked, isDeleting, isConnected,
                   delWallet, delIndex, impWallet, rstTarget, restoredWallet,
                   csvInProgress, removed, userSteps>>
    /\ UNCHANGED CreateVars

\* _generateCsv: pause polling
GenerateCsv ==
    /\ CanStart("csv")
    /\ userSteps' = userSteps + 1
    /\ PausePolling("csv")
    /\ UNCHANGED <<backend, result, req, isDeleting, isConnected, delWallet,
                   delIndex, impWallet, rstTarget, restoredWallet,
                   csvInProgress, removed>>
    /\ UNCHANGED CreateVars

\* show the spinner and start downloadCsv
CsvAfterPause ==
    /\ pc["csv"] = "paused"
    /\ csvInProgress' = TRUE
    /\ pc' = [pc EXCEPT !["csv"] = "download"]
    /\ UNCHANGED <<backend, result, req, pollingBlocked, isDeleting,
                   isConnected, delWallet, delIndex, impWallet, rstTarget,
                   restoredWallet, removed, userSteps>>
    /\ UNCHANGED CreateVars

\* downloadCsv settles (a failure is caught and only sets the error); the
\* spinner stops and `finally` resumes polling
CsvDownloaded ==
    /\ pc["csv"] = "download"
    /\ csvInProgress' = FALSE
    /\ pollingBlocked' = FALSE
    /\ pc' = [pc EXCEPT !["csv"] = "idle"]
    /\ UNCHANGED <<backend, result, req, isDeleting, isConnected, delWallet,
                   delIndex, impWallet, rstTarget, restoredWallet, removed,
                   userSteps>>
    /\ UNCHANGED CreateVars

\* _restore with the wallet w; byron27: a 27-word certificate mnemonic
Restore(w, byron27) ==
    /\ CanStart("restore")
    /\ rstTarget' = [wallet |-> w, byron27 |-> byron27]
    /\ userSteps' = userSteps + 1
    /\ PausePolling("restore")
    /\ UNCHANGED <<backend, result, req, isDeleting, isConnected, delWallet,
                   delIndex, impWallet, restoredWallet, csvInProgress,
                   removed>>
    /\ UNCHANGED CreateVars

\* reset the restore requests; unscramble a certificate mnemonic first
RestoreAfterPause ==
    /\ pc["restore"] = "paused"
    /\ pc' = [pc EXCEPT !["restore"] =
                 IF rstTarget.byron27 THEN "unscramble" ELSE "request"]
    /\ UNCHANGED <<backend, result, req, pollingBlocked, isDeleting,
                   isConnected, delWallet, delIndex, impWallet, rstTarget,
                   restoredWallet, csvInProgress, removed, userSteps>>
    /\ UNCHANGED CreateVars

\* _getUnscrambledMnemonics answers; it is awaited outside the try, so a
\* failure escapes _restore with polling paused
RestoreUnscramble ==
    /\ pc["restore"] = "unscramble"
    /\ \/ pc' = [pc EXCEPT !["restore"] = "request"]
       \/ BackendMayFail /\ pc' = [pc EXCEPT !["restore"] = "idle"]
    /\ UNCHANGED <<backend, result, req, pollingBlocked, isDeleting,
                   isConnected, delWallet, delIndex, impWallet, rstTarget,
                   restoredWallet, csvInProgress, removed, userSteps>>
    /\ UNCHANGED CreateVars

\* the restore request answers: the wallet is kept with polling paused for
\* the success screen; a failure (also: the wallet exists) resumes polling
RestoreReply ==
    LET w == rstTarget.wallet IN
    /\ pc["restore"] = "request"
    /\ \/ /\ w \notin backend
          /\ backend' = backend \cup {w}
          /\ removed' = removed \ {w}
          /\ paperWallets' = paperWallets \ {w}
          /\ restoredWallet' = w
          /\ pc' = [pc EXCEPT !["restore"] = "restored"]
          /\ UNCHANGED pollingBlocked
       \/ /\ w \in backend \/ BackendMayFail
          /\ pollingBlocked' = FALSE
          /\ pc' = [pc EXCEPT !["restore"] = "idle"]
          /\ UNCHANGED <<backend, removed, restoredWallet, paperWallets>>
    /\ UNCHANGED <<result, req, isDeleting, isConnected, delWallet, delIndex,
                   impWallet, rstTarget, csvInProgress, userSteps, hwWallet,
                   certWallet>>

\* _restoreWalletEnd: the user leaves the success screen
RestoreWalletEnd ==
    /\ pc["restore"] = "restored"
    /\ pollingBlocked' = FALSE
    /\ pc' = [pc EXCEPT !["restore"] = "patch"]
    /\ UNCHANGED <<backend, result, req, isDeleting, isConnected, delWallet,
                   delIndex, impWallet, rstTarget, restoredWallet,
                   csvInProgress, removed, userSteps>>
    /\ UNCHANGED CreateVars

\* the patch timer adds the wallet; refresh, reset requests and data
RestorePatch ==
    /\ pc["restore"] = "patch"
    /\ result' = PatchNewWallet(result, restoredWallet)
    /\ RefreshWalletsData(pollingBlocked)
    /\ restoredWallet' = Null
    /\ pc' = [pc EXCEPT !["restore"] = "idle"]
    /\ UNCHANGED <<backend, pollingBlocked, isDeleting, isConnected,
                   delWallet, delIndex, impWallet, rstTarget, csvInProgress,
                   removed, userSteps>>
    /\ UNCHANGED CreateVars

\* _createHardwareWallet for the device's wallet w
CreateHardwareWallet(w) ==
    /\ CanStart("hw")
    /\ hwWallet' = w
    /\ userSteps' = userSteps + 1
    /\ PausePolling("hw")
    /\ UNCHANGED <<backend, result, req, isDeleting, isConnected, delWallet,
                   delIndex, impWallet, rstTarget, restoredWallet,
                   csvInProgress, removed, certWallet, paperWallets>>

\* createHardwareWalletRequest is sent
HwAfterPause ==
    /\ pc["hw"] = "paused"
    /\ pc' = [pc EXCEPT !["hw"] = "request"]
    /\ UNCHANGED <<backend, result, req, pollingBlocked, isDeleting,
                   isConnected, delWallet, delIndex, impWallet, rstTarget,
                   restoredWallet, csvInProgress, removed, userSteps>>
    /\ UNCHANGED CreateVars

\* the backend creates the wallet, or refuses one it holds; a failure is
\* rethrown and `finally` resumes polling
HwReply ==
    /\ pc["hw"] = "request"
    /\ \/ /\ hwWallet \notin backend
          /\ backend' = backend \cup {hwWallet}
          /\ removed' = removed \ {hwWallet}
          /\ paperWallets' = paperWallets \ {hwWallet}
          /\ pc' = [pc EXCEPT !["hw"] = "localData"]
          /\ UNCHANGED pollingBlocked
       \/ /\ hwWallet \in backend \/ BackendMayFail
          /\ pollingBlocked' = FALSE
          /\ pc' = [pc EXCEPT !["hw"] = "idle"]
          /\ UNCHANGED <<backend, removed, paperWallets>>
    /\ UNCHANGED <<result, req, isDeleting, isConnected, delWallet, delIndex,
                   impWallet, rstTarget, restoredWallet, csvInProgress,
                   userSteps, hwWallet, certWallet>>

\* _setHardwareWalletLocalData and _setHardwareWalletDevice are awaited
HwLocalData ==
    /\ pc["hw"] = "localData"
    /\ pc' = [pc EXCEPT !["hw"] = "patch"]
    /\ UNCHANGED <<backend, result, req, pollingBlocked, isDeleting,
                   isConnected, delWallet, delIndex, impWallet, rstTarget,
                   restoredWallet, csvInProgress, removed, userSteps>>
    /\ UNCHANGED CreateVars

\* the patch timer adds the wallet; refreshWalletsData is called while
\* polling is still blocked, so it returns at once; `finally` resumes
HwPatch ==
    /\ pc["hw"] = "patch"
    /\ result' = PatchNewWallet(result, hwWallet)
    /\ RefreshWalletsData(pollingBlocked)
    /\ pollingBlocked' = FALSE
    /\ pc' = [pc EXCEPT !["hw"] = "idle"]
    /\ UNCHANGED <<backend, isDeleting, isConnected, delWallet, delIndex,
                   impWallet, rstTarget, restoredWallet, csvInProgress,
                   removed, userSteps>>
    /\ UNCHANGED CreateVars

\* _generateCertificate: the recovery phrase it generates denotes a wallet
\* w the backend does not hold
GenerateCertificate(w) ==
    /\ CanStart("cert")
    /\ w \notin backend
    /\ certWallet' = w
    /\ userSteps' = userSteps + 1
    /\ PausePolling("cert")
    /\ UNCHANGED <<backend, result, req, isDeleting, isConnected, delWallet,
                   delIndex, impWallet, rstTarget, restoredWallet,
                   csvInProgress, removed, hwWallet, paperWallets>>

\* the spinner is shown and getWalletRecoveryPhraseRequest is sent
CertAfterPause ==
    /\ pc["cert"] = "paused"
    /\ pc' = [pc EXCEPT !["cert"] = "mnemonics"]
    /\ UNCHANGED <<backend, result, req, pollingBlocked, isDeleting,
                   isConnected, delWallet, delIndex, impWallet, rstTarget,
                   restoredWallet, csvInProgress, removed, userSteps>>
    /\ UNCHANGED CreateVars

\* a step of _generateCertificate that ends in pc `next`, or fails: the
\* error is rethrown and `finally` resumes polling
CertStep(from, next) ==
    /\ pc["cert"] = from
    /\ \/ pc' = [pc EXCEPT !["cert"] = next] /\ UNCHANGED pollingBlocked
       \/ /\ BackendMayFail
          /\ pc' = [pc EXCEPT !["cert"] = "idle"]
          /\ pollingBlocked' = FALSE

\* the recovery phrase, the 9 additional words and the scrambled phrase
\* are fetched one after the other
CertMnemonics ==
    /\ CertStep("mnemonics", "create")
    /\ UNCHANGED <<backend, result, req, isDeleting, isConnected, delWallet,
                   delIndex, impWallet, rstTarget, restoredWallet,
                   csvInProgress, removed, userSteps>>
    /\ UNCHANGED CreateVars

\* createWalletRequest creates the temporary wallet (refused if the
\* backend holds it by now)
CertCreate ==
    /\ pc["cert"] = "create"
    /\ \/ /\ certWallet \notin backend
          /\ backend' = backend \cup {certWallet}
          /\ removed' = removed \ {certWallet}
          /\ paperWallets' = paperWallets \cup {certWallet}
          /\ pc' = [pc EXCEPT !["cert"] = "addresses"]
          /\ UNCHANGED pollingBlocked
       \/ /\ certWallet \in backend \/ BackendMayFail
          /\ pollingBlocked' = FALSE
          /\ pc' = [pc EXCEPT !["cert"] = "idle"]
          /\ UNCHANGED <<backend, removed, paperWallets>>
    /\ UNCHANGED <<result, req, isDeleting, isConnected, delWallet, delIndex,
                   impWallet, rstTarget, restoredWallet, csvInProgress,
                   userSteps, hwWallet, certWallet>>

\* getWalletAddressesRequest answers with the temporary wallet's address
CertAddresses ==
    /\ CertStep("addresses", "deleteTmp")
    /\ UNCHANGED <<backend, result, req, isDeleting, isConnected, delWallet,
                   delIndex, impWallet, rstTarget, restoredWallet,
                   csvInProgress, removed, userSteps>>
    /\ UNCHANGED CreateVars

\* deleteWalletRequest removes the temporary wallet
CertDeleteTmp ==
    /\ CertStep("deleteTmp", "download")
    /\ backend' = IF pc'["cert"] = "download" THEN backend \ {certWallet}
                  ELSE backend
    /\ UNCHANGED <<result, req, isDeleting, isConnected, delWallet,
                   delIndex, impWallet, rstTarget, restoredWallet,
                   csvInProgress, removed, userSteps>>
    /\ UNCHANGED CreateVars

\* _downloadCertificate writes the PDF (its errors are caught); `finally`
\* resumes polling
CertDownloaded ==
    /\ pc["cert"] = "download"
    /\ pc' = [pc EXCEPT !["cert"] = "idle"]
    /\ pollingBlocked' = FALSE
    /\ UNCHANGED <<backend, result, req, isDeleting, isConnected, delWallet,
                   delIndex, impWallet, rstTarget, restoredWallet,
                   csvInProgress, removed, userSteps>>
    /\ UNCHANGED CreateVars

\* networkStatus.isConnected changes
ToggleConnected ==
    /\ userSteps < MaxUserActions
    /\ isConnected' = ~isConnected
    /\ userSteps' = userSteps + 1
    /\ UNCHANGED <<backend, result, req, pollingBlocked, isDeleting, pc,
                   delWallet, delIndex, impWallet, rstTarget, restoredWallet,
                   csvInProgress, removed>>
    /\ UNCHANGED CreateVars

----
(* Specification                                                           *)
----

Init ==
    /\ backend \in SUBSET Wallets
    /\ result = Null
    /\ req = ReqIdle
    /\ pollingBlocked = FALSE
    /\ isDeleting = FALSE
    /\ isConnected = TRUE
    /\ pc = [f \in Flows |-> "idle"]
    /\ delWallet = Null
    /\ delIndex = 0
    /\ impWallet = Null
    /\ rstTarget = Null
    /\ restoredWallet = Null
    /\ csvInProgress = FALSE
    /\ removed = {}
    /\ userSteps = 0
    /\ hwWallet = Null
    /\ certWallet = Null
    /\ paperWallets = {}

\* continuations queued by a resolved promise
Microtask ==
    \/ DeleteAfterPause \/ CsvAfterPause \/ RestoreAfterPause
    \/ HwAfterPause \/ CertAfterPause

\* tasks the event loop runs: timers and I/O completions
SystemTask ==
    \/ PollRefresh \/ MarkExecuting \/ BackendAnswer
    \/ Deliver \/ DeliverFailed
    \/ DeleteReply \/ DeletePatch \/ DeleteUnsetHw
    \/ ImportReply \/ ImportPatch
    \/ CsvDownloaded
    \/ RestoreUnscramble \/ RestoreReply \/ RestorePatch
    \/ HwReply \/ HwLocalData \/ HwPatch
    \/ CertMnemonics \/ CertCreate \/ CertAddresses \/ CertDeleteTmp
    \/ CertDownloaded

\* events of the user and of the network
UserTask ==
    \/ \E w \in Wallets : DeleteWallet(w)
    \/ \E w \in Wallets : ImportWalletFromFile(w)
    \/ GenerateCsv
    \/ \E w \in Wallets, b \in BOOLEAN : Restore(w, b)
    \/ RestoreWalletEnd
    \/ \E w \in Wallets : CreateHardwareWallet(w)
    \/ \E w \in Wallets : GenerateCertificate(w)
    \/ ToggleConnected

Next ==
    \/ Microtask
    \/ NoMicrotask /\ (SystemTask \/ UserTask)

\* Timers fire and the backend answers: every system step is weakly fair.
\* User and network events are not.
Fairness ==
    /\ WF_vars(Microtask)
    /\ WF_vars(NoMicrotask /\ PollRefresh)
    /\ WF_vars(NoMicrotask /\ MarkExecuting)
    /\ WF_vars(NoMicrotask /\ BackendAnswer)
    /\ WF_vars(NoMicrotask /\ (Deliver \/ DeliverFailed))
    /\ WF_vars(NoMicrotask /\ (DeleteReply \/ DeletePatch \/ DeleteUnsetHw))
    /\ WF_vars(NoMicrotask /\ (ImportReply \/ ImportPatch))
    /\ WF_vars(NoMicrotask /\ CsvDownloaded)
    /\ WF_vars(NoMicrotask /\ (RestoreUnscramble \/ RestoreReply
                                 \/ RestorePatch))
    /\ WF_vars(NoMicrotask /\ (HwReply \/ HwLocalData \/ HwPatch))
    /\ WF_vars(NoMicrotask /\ (CertMnemonics \/ CertCreate \/ CertAddresses
                                 \/ CertDeleteTmp \/ CertDownloaded))

Spec == Init /\ [][Next]_vars /\ Fairness

----
(* Properties                                                              *)
----

WalletSeq == {s \in Seq(Wallets) : Len(s) <= Cardinality(Wallets)}

TypeOK ==
    /\ backend \in SUBSET Wallets
    /\ result = Null \/ result \in WalletSeq
    /\ req \in [waiting : BOOLEAN, executing : BOOLEAN,
                answer : {"none", "pending", "ok", "failed"},
                listing : WalletSeq]
    /\ pollingBlocked \in BOOLEAN /\ isDeleting \in BOOLEAN
    /\ isConnected \in BOOLEAN /\ csvInProgress \in BOOLEAN
    /\ pc \in [Flows -> PcValues]
    /\ delWallet \in Wallets \cup {Null}
    /\ delIndex \in 0..Cardinality(Wallets)
    /\ impWallet \in Wallets \cup {Null}
    /\ rstTarget \in {Null} \cup [wallet : Wallets, byron27 : BOOLEAN]
    /\ restoredWallet \in Wallets \cup {Null}
    /\ removed \in SUBSET Wallets
    /\ userSteps \in 0..MaxUserActions
    /\ hwWallet \in Wallets \cup {Null}
    /\ certWallet \in Wallets \cup {Null}
    /\ paperWallets \in SUBSET Wallets

\* A wallet _deleteWallet has spliced out of the list stays out of it (until
\* it is imported or restored again): the pause in _pausePolling must keep
\* every getWallets answer taken before the deletion from landing after it.
NoResurrection == \A w \in removed : ~InResult(w)

\* While the restore success screen shows, the restored wallet is not in the
\* list: _restore pauses polling so that the user "remains on the Add
\* wallet screen until user closes the TADA screen".
RestoredWalletHiddenUntilEnd ==
    pc["restore"] = "restored" => ~InResult(restoredWallet)

\* Polling is blocked only while a handler that paused it has not yet
\* reached the code that resumes it (or the restore success screen shows):
\* no path through _deleteWallet, _restore, _generateCsv,
\* _createHardwareWallet or _generateCertificate leaves the list frozen.
Holding(f) ==
    CASE f = "delete"  -> pc[f] \in {"paused", "request", "patch", "unsetHw"}
      [] f = "csv"     -> pc[f] \in {"paused", "download"}
      [] f = "restore" -> pc[f] \in {"paused", "unscramble", "request",
                                     "restored"}
      [] f = "hw"      -> pc[f] \in {"paused", "request", "localData", "patch"}
      [] f = "cert"    -> pc[f] \in {"paused", "mnemonics", "create",
                                     "addresses", "deleteTmp", "download"}
      [] OTHER         -> FALSE

DeleteRemovesTarget ==
    [][pc["delete"] = "patch" /\ pc'["delete"] # "patch"
         => ToSet(result') = ToSet(result) \ {delWallet}]_vars

\* The temporary wallet _generateCertificate creates never shows in the
\* list: it pauses polling "in order not to show Paper wallet in the UI"
\* and deletes the wallet before `finally` resumes polling.
NoPaperWalletShown == \A w \in paperWallets : ~InResult(w)

\* The list never shows a wallet twice.  _importWalletFromFile does not
\* pause polling, and _restoreWalletEnd and _createHardwareWallet resume it
\* or refresh before their patch lands, so a getWallets answer that already
\* lists the new wallet may be applied before the patch; only the lookup in
\* _patchWalletRequestWithNewWallet keeps the wallet from being added again.
NoDuplicateWallet == result # Null => IsInjective(result)

\* What the pause of polling is taken for, in the handlers' own comments:
\* while a handler holds it, no getWallets answer shows the list a change
\* the handler makes on the backend.  A deleted wallet does not come back,
\* the restored wallet stays out of the list until the success screen is
\* left, the temporary paper wallet never shows, and the delete splice
\* removes its target.  _pausePolling reads walletsRequest.isExecuting,
\* which Request.execute sets one timer tick after the call is sent.
PauseShieldsList ==
    /\ [](NoResurrection /\ RestoredWalletHiddenUntilEnd /\ NoPaperWalletShown)
    /\ DeleteRemovesTarget

=============================================================================
