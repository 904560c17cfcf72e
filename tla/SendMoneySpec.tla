--------------------------- MODULE SendMoneySpec ---------------------------
(***************************************************************************)
(* What the confirmation dialog and _sendMoney promise, without the form,  *)
(* the request object or the event loop: a transaction is sent only from   *)
(* an open dialog whose confirmation is complete, at most once per dialog  *)
(* unless the backend rejected it, and every send is eventually answered.  *)
(* A successful answer closes the dialog; a rejection leaves it open so    *)
(* that the user may try again.                                            *)
(***************************************************************************)

VARIABLES
    dialogOpen,   \* the dialog is shown
    confirmed,    \* the user has completed the confirmation it asks for
    pending,      \* a transaction is with the backend
    sends         \* transactions this dialog sent that were not rejected

avars == <<dialogOpen, confirmed, pending, sends>>

AInit ==
    /\ dialogOpen = FALSE
    /\ confirmed = FALSE
    /\ pending = FALSE
    /\ sends = 0

\* A new dialog starts unconfirmed and with nothing sent.
OpenDialog ==
    /\ ~dialogOpen
    /\ dialogOpen' = TRUE /\ confirmed' = FALSE /\ sends' = 0
    /\ UNCHANGED pending

\* Typing, ticking the terms or answering on the device.
Edit ==
    /\ dialogOpen
    /\ confirmed' \in BOOLEAN
    /\ UNCHANGED <<dialogOpen, pending, sends>>

Send ==
    /\ dialogOpen /\ confirmed /\ ~pending /\ sends = 0
    /\ pending' = TRUE /\ sends' = 1
    /\ UNCHANGED <<dialogOpen, confirmed>>

Resolve ==
    /\ pending
    /\ pending' = FALSE /\ dialogOpen' = FALSE
    /\ UNCHANGED <<confirmed, sends>>

Reject ==
    /\ pending
    /\ pending' = FALSE /\ sends' = 0
    /\ UNCHANGED <<dialogOpen, confirmed>>

\* The dialog may be dismissed; whether that can happen while a send is
\* pending is left open here.
CloseDialog ==
    /\ dialogOpen
    /\ dialogOpen' = FALSE
    /\ UNCHANGED <<confirmed, pending, sends>>

ANext == OpenDialog \/ Edit \/ Send \/ Resolve \/ Reject \/ CloseDialog

ASpec == AInit /\ [][ANext]_avars /\ WF_avars(Resolve \/ Reject)

====
