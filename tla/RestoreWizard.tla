--------------------------- MODULE RestoreWizard ---------------------------
(***************************************************************************)
(* The restore wizard as the user sees it.  It is closed, taking entries,  *)
(* restoring the wallet entered, or showing the success ("TADA") screen    *)
(* for the wallet it restored.  Polling is paused while it restores and    *)
(* while the success screen shows, and not otherwise, except that a        *)
(* restore left running by a closed wizard may hold the pause until it     *)
(* ends.  Such a background restore never changes what the wizard shows.  *)
(***************************************************************************)

CONSTANTS Wallets, NoWallet

VARIABLES
    shown,       \* "closed", "entry", "restoring" or "success"
    entered,     \* the wallet the entered phrase denotes, or NoWallet
    target,      \* the wallet being restored
    result,      \* the wallet the success screen shows
    paused,      \* polling is paused
    background   \* a restore of a closed wizard is still running

rvars == <<shown, entered, target, result, paused, background>>

RInit ==
    /\ shown = "closed"
    /\ entered = NoWallet /\ target = NoWallet /\ result = NoWallet
    /\ paused = FALSE /\ background = FALSE

\* What a reopened wizard shows of earlier entries is left open.
Open ==
    /\ shown = "closed"
    /\ shown' = "entry" /\ entered' \in Wallets \cup {NoWallet}
    /\ UNCHANGED <<target, result, paused, background>>

Edit(w) ==
    /\ shown = "entry"
    /\ entered' = w
    /\ UNCHANGED <<shown, target, result, paused, background>>

\* Restoring starts for the wallet entered; the pause may follow later.
Start ==
    /\ shown = "entry" /\ entered # NoWallet
    /\ shown' = "restoring" /\ target' = entered
    /\ paused' \in {paused, TRUE}
    /\ UNCHANGED <<entered, result, background>>

Pause ==
    /\ shown = "restoring" \/ background
    /\ paused' = TRUE
    /\ UNCHANGED <<shown, entered, target, result, background>>

\* The success screen shows the wallet restored, with polling paused.
Succeed ==
    /\ shown = "restoring" /\ paused
    /\ shown' = "success" /\ result' = target /\ target' = NoWallet
    /\ UNCHANGED <<entered, paused, background>>

Fail ==
    /\ shown = "restoring"
    /\ shown' = "entry" /\ target' = NoWallet /\ paused' = FALSE
    /\ UNCHANGED <<entered, result, background>>

\* Leaving the success screen resumes polling.
End ==
    /\ shown = "success"
    /\ shown' = "closed" /\ result' = NoWallet /\ paused' = FALSE
    /\ entered' = NoWallet
    /\ UNCHANGED <<target, background>>

\* Closing leaves a running restore in the background; polling stays
\* paused only for it.
Close ==
    /\ shown # "closed"
    /\ shown' = "closed"
    /\ background' = (background \/ shown = "restoring")
    /\ paused' = (paused /\ background')
    /\ entered' = NoWallet /\ target' = NoWallet /\ result' = NoWallet

\* A background restore ends (another may still run): it leaves the
\* wizard as it is, and the pause only if something still needs it.
BackgroundDone ==
    /\ background
    /\ background' \in {TRUE, FALSE}
    /\ paused' = IF background' THEN paused
                 ELSE paused /\ shown \in {"restoring", "success"}
    /\ UNCHANGED <<shown, entered, target, result>>

RNext ==
    \/ Open \/ \E w \in Wallets \cup {NoWallet} : Edit(w)
    \/ Start \/ Pause \/ Succeed \/ Fail \/ End \/ Close \/ BackgroundDone

RSpec == RInit /\ [][RNext]_rvars

====
