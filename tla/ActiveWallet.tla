---------------------------- MODULE ActiveWallet ----------------------------
(***************************************************************************)
(* The active wallet of WalletsStore and the route reaction that keeps it  *)
(* in step with the route (_updateActiveWalletOnRouteChanges), together    *)
(* with the steps that move the route or the list under it: user           *)
(* navigation, the 5 s poll and its "refresh active wallet", the tail of   *)
(* _deleteWallet, and resetWalletsData.  isValidAddress, which compares a  *)
(* typed address with the active wallet's addresses, runs on the send      *)
(* page of the active wallet.                                              *)
(*                                                                         *)
(* The reaction is a MobX autorun.  It runs again, synchronously, when     *)
(* currentRoute or hasAnyLoaded has changed: the rest of its body is in    *)
(* runInAction, which MobX does not track.  While it is due (dirty), no    *)
(* other step runs.  The list is walletsRequest.result, in the order of    *)
(* `all`; a wallet object is its id and its isNotResponding flag.          *)
(***************************************************************************)
EXTENDS Naturals, Sequences, FiniteSets, SequencesExt

CONSTANTS
    Wallets,          \* wallet ids (model values)
    WalletOrder,      \* the order of `all`
    Addresses,        \* addresses that may be typed on the send page
    Owner,            \* the wallet each address belongs to
    Null,
    MaxUserActions,
    MaxCalls          \* isValidAddress calls in flight at once

ASSUME
    /\ WalletOrder \in Seq(Wallets) /\ ToSet(WalletOrder) = Wallets
    /\ Owner \in [Addresses -> Wallets] /\ Null \notin Wallets \cup Addresses
    /\ MaxUserActions \in Nat /\ MaxCalls \in Nat \ {0}

VARIABLES
    backend,                 \* the wallets the backend holds
    list,                    \* walletsRequest.result, as `all`
    notResponding,           \* wallets of the last answer that are not responding
    active,                  \* WalletsStore.active: Null or a wallet object
    route,                   \* stores.app.currentRoute
    dirty,                   \* the route autorun is due to run again
    refreshPending,          \* refreshWalletsData awaits the local data
    delPc,                   \* _deleteWallet: "idle", "patch", "navigate", "resume"
    delIndex,                \* its indexOfWalletToDelete (1-based)
    address,                 \* the address field of the send form, or Null
    calls,                   \* isValidAddress calls awaiting introspectAddress
    isAddressFromSameWallet,
    userSteps

vars == <<backend, list, notResponding, active, route, dirty, refreshPending,
          delPc, delIndex, address, calls, isAddressFromSameWallet, userSteps>>

----
(* Routes and the computed values of the store *)

RouteRec(n, w, p) == [name |-> n, id |-> w, page |-> p]
Root == RouteRec("root", Null, Null)
Add == RouteRec("add", Null, Null)
Other == RouteRec("other", Null, Null)    \* a route outside /wallets
Pages == {"summary", "send", "settings"}
Page(w, p) == RouteRec("page", w, p)      \* getWalletRoute(w, p)
Routes == {Root, Add, Other} \cup {Page(w, p) : w \in Wallets, p \in Pages}

IsSend(r) == r.name = "page" /\ r.page = "send"

HasAnyLoaded == list # <<>>
WalletObj(w) == [id |-> w, isNotResponding |-> w \in notResponding]
\* this.all.find((w) => w.id === id)
Find(w) == IF w \in ToSet(list) THEN WalletObj(w) ELSE Null
IdOf(a) == IF a = Null THEN Null ELSE a.id

\* A route change: the MobX autorun is due, and the send form of the page
\* left is unmounted.
RouteTo(r) ==
    /\ route' = r
    /\ dirty' = (r # route)
    /\ address' = IF r = route THEN address ELSE Null

----
(* _setActiveWallet and _unsetActiveWallet *)

\* Mutant: the in-place update of the same wallet is missing.
SetActiveNoUpdate(a, w) ==
    IF ~HasAnyLoaded THEN a
    ELSE IF IdOf(a) # w THEN Find(w)
    ELSE a

\* The active wallet _setActiveWallet leaves: a new id replaces the object
\* (by Null when the id is not listed); the same id updates it in place,
\* and an id no longer listed leaves the old object.
SetActive(a, w) ==
    IF ~HasAnyLoaded THEN a
    ELSE IF IdOf(a) # w THEN Find(w)
    ELSE IF a # Null /\ Find(w) # Null THEN Find(w)
    ELSE a

\* The route after _setActiveWallet: a wallet that stops responding is
\* shown on its summary page.
RouteAfterSetActive(a, w) ==
    IF /\ HasAnyLoaded
       /\ a = Null \/ ~a.isNotResponding
       /\ Find(w) # Null /\ Find(w).isNotResponding
    THEN Page(w, "summary") ELSE route

\* The autorun: _unsetActiveWallet on the add page or with no wallet;
\* a listed route wallet becomes active; an unknown one or the root gives
\* way to the first wallet (goToWalletRoute wins over the redirect of
\* _setActiveWallet, to the same summary page).
UpdateActiveWalletOnRouteChanges ==
    /\ dirty
    /\ CASE route.name = "add" \/ ~HasAnyLoaded ->
              active' = Null /\ RouteTo(route)
         [] route.name = "page" /\ Find(route.id) # Null ->
              /\ active' = SetActive(active, route.id)
              /\ RouteTo(RouteAfterSetActive(active, route.id))
         [] route.name = "page" ->
              /\ active' = SetActive(active, list[1])
              /\ RouteTo(Page(list[1], "summary"))
         [] route.name = "root" ->
              LET a == IF active = Null THEN SetActive(active, list[1])
                       ELSE active
              IN  active' = a /\ RouteTo(Page(a.id, "summary"))
         [] OTHER -> active' = active /\ RouteTo(route)
    /\ UNCHANGED <<backend, list, notResponding, refreshPending, delPc,
                   delIndex, calls, isAddressFromSameWallet, userSteps>>

----
(* Steps of the user and of the event loop *)

\* No macrotask runs while the autorun is due or _deleteWallet has a
\* microtask queued.
Quiet == ~dirty /\ delPc # "navigate"

UserStep ==
    /\ Quiet /\ userSteps < MaxUserActions
    /\ userSteps' = userSteps + 1

\* router.goToRoute: _onRouteChange resets the flag on the send page.
GoToRoute(r) ==
    /\ UserStep
    /\ RouteTo(r)
    /\ isAddressFromSameWallet' = (isAddressFromSameWallet /\ ~IsSend(r))
    /\ UNCHANGED <<backend, list, notResponding, active, refreshPending,
                   delPc, delIndex, calls>>

\* The send form, shown for the active wallet, validates each address
\* typed with isValidAddress, which clears the flag and awaits
\* introspectAddressChannel.
IsValidAddress(x) ==
    /\ UserStep /\ IsSend(route) /\ Len(calls) < MaxCalls
    /\ IdOf(active) = route.id
    /\ address' = x
    /\ isAddressFromSameWallet' = FALSE
    /\ calls' = Append(calls, x)
    /\ UNCHANGED <<backend, list, notResponding, active, route, dirty,
                   refreshPending, delPc, delIndex>>

\* An introspection answer, in any order.  "Invalid" and an error return
\* without touching the flag; a valid address sets it by the addresses of
\* the wallet active when the answer arrives.
IsValidAddressAnswer ==
    /\ Quiet
    /\ \E i \in 1..Len(calls) :
          /\ calls' = RemoveAt(calls, i)
          /\ \/ isAddressFromSameWallet' =
                    (active # Null /\ Owner[calls[i]] = active.id)
             \/ UNCHANGED isAddressFromSameWallet
    /\ UNCHANGED <<backend, list, notResponding, active, route, dirty,
                   refreshPending, delPc, delIndex, address, userSteps>>

\* Mutant: the index is taken 0-based, as Array.indexOf gives it.
DeleteWalletZeroBased ==
    /\ UserStep /\ delPc = "idle"
    /\ route.name = "page" /\ route.page = "settings"
    /\ active # Null /\ route.id = active.id
    /\ Find(active.id) # Null
    /\ delIndex' = CHOOSE i \in 0..Len(list) - 1 : list[i + 1] = active.id
    /\ backend' = backend \ {active.id}
    /\ delPc' = "patch"
    /\ UNCHANGED <<list, notResponding, active, route, dirty, refreshPending,
                   address, calls, isAddressFromSameWallet>>

\* _deleteWallet from the settings page of the active wallet, up to the
\* patch: polling is paused, the wallet is found, its index is taken and
\* the backend deletes it.
DeleteWallet ==
    /\ UserStep /\ delPc = "idle"
    /\ route.name = "page" /\ route.page = "settings"
    /\ active # Null /\ route.id = active.id
    /\ Find(active.id) # Null
    /\ delIndex' = CHOOSE i \in 1..Len(list) : list[i] = active.id
    /\ backend' = backend \ {active.id}
    /\ delPc' = "patch"
    /\ UNCHANGED <<list, notResponding, active, route, dirty, refreshPending,
                   address, calls, isAddressFromSameWallet>>

\* walletsRequest.patch splices the list in a timer; the autorun runs if
\* hasAnyLoaded changed, before the continuation.
DeletePatch ==
    /\ Quiet /\ delPc = "patch"
    /\ list' = RemoveAt(list, delIndex)
    /\ dirty' = (list' = <<>>)
    /\ delPc' = "navigate"
    /\ UNCHANGED <<backend, notResponding, active, route, refreshPending,
                   delIndex, address, calls, isAddressFromSameWallet,
                   userSteps>>

\* Mutant: with wallets left, the continuation does not navigate.
DeleteNavigateStays ==
    /\ ~dirty /\ delPc = "navigate"
    /\ IF HasAnyLoaded
       THEN active' = active /\ RouteTo(route)
       ELSE active' = Null /\ RouteTo(Add)
    /\ delPc' = "resume"
    /\ UNCHANGED <<backend, list, notResponding, refreshPending, delIndex,
                   calls, isAddressFromSameWallet, userSteps>>

\* The continuation: go to the wallet before the deleted one, or to the
\* add page with no active wallet.
DeleteNavigate ==
    /\ ~dirty /\ delPc = "navigate"
    /\ IF HasAnyLoaded
       THEN LET next == IF delIndex > 1 THEN delIndex - 1 ELSE 1
            IN  active' = active /\ RouteTo(Page(list[next], "summary"))
       ELSE active' = Null /\ RouteTo(Add)
    /\ delPc' = "resume"
    /\ UNCHANGED <<backend, list, notResponding, refreshPending, delIndex,
                   calls, isAddressFromSameWallet, userSteps>>

\* After the local data are unset, polling resumes.
DeleteResume ==
    /\ Quiet /\ delPc = "resume"
    /\ delPc' = "idle"
    /\ UNCHANGED <<backend, list, notResponding, active, route, dirty,
                   refreshPending, delIndex, address, calls,
                   isAddressFromSameWallet, userSteps>>

\* A getWallets answer of refreshWalletsData (blocked from the pause of
\* _deleteWallet to its resume): the list is replaced and the handler
\* awaits the local data.
PollAnswer ==
    /\ Quiet /\ delPc = "idle" /\ ~refreshPending
    /\ list' = SelectSeq(WalletOrder, LAMBDA w : w \in backend)
    /\ notResponding' \in SUBSET backend
    /\ dirty' = (HasAnyLoaded # (list' # <<>>))
    /\ refreshPending' = TRUE
    /\ UNCHANGED <<backend, active, route, delPc, delIndex, address, calls,
                   isAddressFromSameWallet, userSteps>>

\* "refresh active wallet": _setActiveWallet with the active wallet's id.
RefreshActiveWallet ==
    /\ Quiet /\ refreshPending
    /\ refreshPending' = FALSE
    /\ IF active # Null
       THEN /\ active' = SetActive(active, active.id)
            /\ RouteTo(RouteAfterSetActive(active, active.id))
       ELSE UNCHANGED <<active, route, dirty, address>>
    /\ UNCHANGED <<backend, list, notResponding, delPc, delIndex, calls,
                   isAddressFromSameWallet, userSteps>>

\* resetWalletsData: walletsRequest.reset() empties the list.  Its callers
\* are outside the store; it is taken not to run while _deleteWallet waits
\* for its patch, which would then run on a null result.
ResetWalletsData ==
    /\ UserStep /\ delPc = "idle"
    /\ list' = <<>>
    /\ dirty' = HasAnyLoaded
    /\ isAddressFromSameWallet' = FALSE
    /\ UNCHANGED <<backend, notResponding, active, route, refreshPending,
                   delPc, delIndex, address, calls>>

----
Init ==
    /\ backend = Wallets
    /\ list = <<>>
    /\ notResponding = {}
    /\ active = Null
    /\ route = Root
    /\ dirty = TRUE
    /\ refreshPending = FALSE
    /\ delPc = "idle"
    /\ delIndex = 1
    /\ address = Null
    /\ calls = <<>>
    /\ isAddressFromSameWallet = FALSE
    /\ userSteps = 0

Next ==
    \/ UpdateActiveWalletOnRouteChanges
    \/ \E r \in Routes : GoToRoute(r)
    \/ \E x \in Addresses : IsValidAddress(x)
    \/ IsValidAddressAnswer
    \/ DeleteWallet \/ DeletePatch \/ DeleteNavigate \/ DeleteResume
    \/ PollAnswer \/ RefreshActiveWallet \/ ResetWalletsData

\* MobX runs the autorun and the microtask at once, the event loop runs the
\* timers and the answers; the user may stop.
Fairness ==
    /\ WF_vars(UpdateActiveWalletOnRouteChanges)
    /\ WF_vars(DeletePatch) /\ WF_vars(DeleteNavigate)
    /\ WF_vars(DeleteResume) /\ WF_vars(PollAnswer)
    /\ WF_vars(RefreshActiveWallet) /\ WF_vars(IsValidAddressAnswer)

Spec == Init /\ [][Next]_vars /\ Fairness

----
(* Properties *)

WalletObjs == [id : Wallets, isNotResponding : BOOLEAN]

TypeOK ==
    /\ backend \subseteq Wallets /\ notResponding \subseteq Wallets
    /\ list \in Seq(Wallets) /\ Len(list) <= Cardinality(Wallets)
    /\ active \in WalletObjs \cup {Null}
    /\ route \in Routes
    /\ delPc \in {"idle", "patch", "navigate", "resume"}
    /\ delIndex \in 1..Cardinality(Wallets)
    /\ address \in Addresses \cup {Null}
    /\ calls \in Seq(Addresses) /\ Len(calls) <= MaxCalls
    /\ isAddressFromSameWallet \in BOOLEAN

\* Once the autorun and the microtasks have run, with wallets loaded, the
\* wallet screens show the active wallet: the root route has given way to
\* a wallet page, and a wallet page names the active wallet, which is in
\* the list.  It takes the poll, resetWalletsData, _deleteWallet's patch
\* and navigation and the autorun, which reruns only when the route or
\* hasAnyLoaded changes, to keep this.
RouteShowsActiveWallet ==
    (Quiet /\ HasAnyLoaded /\ route.name \in {"root", "page"})
        => /\ route.name = "page" /\ active # Null
           /\ active.id = route.id /\ route.id \in ToSet(list)

\* The active wallet object catches up with the list: when a poll answer
\* changes the listed wallet (here, whether it responds), the "refresh
\* active wallet" step of refreshWalletsData eventually updates it.
Stale == active # Null /\ Find(active.id) \notin {Null, active}

ActiveWalletRefreshed == Stale ~> ~Stale

\* On the send page, the "address of the same wallet" warning is only on
\* for an address of the active wallet that is in the address field:
\* each isValidAddress call stores its own answer when it arrives.
SameWalletFlagCurrent ==
    (IsSend(route) /\ isAddressFromSameWallet)
        => address # Null /\ Owner[address] = IdOf(active)

====
