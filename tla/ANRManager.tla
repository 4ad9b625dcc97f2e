----------------------------- MODULE ANRManager -----------------------------
(***************************************************************************)
(* The watch for applications that do not respond (CANRManager,            *)
(* managers/ANRManager.cpp): every tick pings each client that has a       *)
(* mapped window; a client that has missed enough pings gets a dialog that *)
(* offers to terminate it or to wait.  Each client is one SANRData, which  *)
(* is never erased and does nothing before its first window.               *)
(*                                                                         *)
(* A dialog counts as running from runDialog until killDialog, whether the *)
(* process lives or not: m_readEventSource is never cleared.  A killed     *)
(* box's hangup is still to come when the next one opens, so a client has  *)
(* up to MaxDialogs boxes.  XWayland clients without pings and             *)
(* misc:enable_anr_dialog = false are left out.                            *)
(***************************************************************************)
EXTENDS AsyncDialogBox, Naturals

CONSTANTS
    Clients,
    Thresholds,     \* the values of misc:anr_missed_pings
    MaxWindows,     \* bound: windows of a client
    MaxMissed,      \* bound: missedResponses counts no further
    MaxDialogs      \* bound: boxes of a client that are not closed

ASSUME ANRAssumption ==
    /\ {"terminate", "wait"} \subseteq Buttons
    /\ Thresholds \subseteq Nat \ {0} /\ Thresholds # {}
    /\ MaxWindows \in Nat /\ MaxDialogs \in Nat
    /\ MaxMissed \in Nat \ {0}

VARIABLES
    anr,                \* each client's SANRData, windows and boxes
    anr_missed_pings

anrVars == <<anr, anr_missed_pings>>

None == 0
Boxes == 1..MaxDialogs
SANRData ==
    [alive : BOOLEAN, windows : 0..MaxWindows, missedResponses : 0..MaxMissed,
     dialogSaidWait : BOOLEAN, dialogBox : Boxes \cup {None}, boxes : [Boxes -> BoxState]]

ANRTypeOK ==
    /\ anr \in [Clients -> SANRData]
    /\ anr_missed_pings \in Thresholds

ANRInit ==
    /\ anr = [c \in Clients |->
         [alive |-> TRUE, windows |-> 0, missedResponses |-> 0, dialogSaidWait |-> FALSE,
          dialogBox |-> None, boxes |-> [b \in Boxes |-> Closed]]]
    /\ anr_missed_pings \in Thresholds

isRunning(data) == data.dialogBox # None

killDialog(data) ==
    IF isRunning(data)
    THEN [data EXCEPT !.boxes[data.dialogBox] = kill(@), !.dialogBox = None]
    ELSE data

\* Boxes that runDialog may use for a new process.
Free(data) == {b \in Boxes : data.boxes[b] = Closed /\ b # data.dialogBox}

\* runDialog is only called while no dialog runs.
runDialog(data, box) == [data EXCEPT !.dialogBox = box, !.boxes[box] = Open]

-----------------------------------------------------------------------------
\* The listener of window.open: a client's data is made with its first window.
OpenWindow(c) ==
    /\ anr[c].alive
    /\ anr[c].windows < MaxWindows
    /\ anr' = [anr EXCEPT ![c].windows = @ + 1]
    /\ UNCHANGED anr_missed_pings

\* -- variant: the dialog stays when a window closes
ForgetsDialog(data) ==
    [data EXCEPT !.windows = @ - 1, !.missedResponses = 0, !.dialogSaidWait = FALSE]

\* The listener of window.close acts as if the client had answered.
WindowClosed(data) ==
    [killDialog(data) EXCEPT !.windows = @ - 1, !.missedResponses = 0,
                             !.dialogSaidWait = FALSE]

CloseWindow(c) ==
    /\ anr[c].windows > 0
    /\ anr' = [anr EXCEPT ![c] = WindowClosed(@)]
    /\ UNCHANGED anr_missed_pings

NeedsDialog(data) ==
    /\ data.missedResponses >= anr_missed_pings
    /\ ~isRunning(data) /\ ~data.dialogSaidWait

\* What a tick counts for a client, before it pings it.
Missed(data) ==
    [data EXCEPT !.dialogSaidWait = @ /\ data.missedResponses # 0,
                 !.missedResponses = IF @ < MaxMissed THEN @ + 1 ELSE @]

Ticked(data) ==
    IF data.windows = 0 THEN data
    ELSE IF NeedsDialog(data) THEN Missed(runDialog(data, CHOOSE b \in Free(data) : TRUE))
    ELSE IF data.missedResponses < anr_missed_pings THEN Missed(killDialog(data))
    ELSE Missed(data)

onTick ==
    /\ \A c \in Clients : anr[c].windows > 0 /\ NeedsDialog(anr[c]) => Free(anr[c]) # {}
    /\ anr' = [c \in Clients |-> Ticked(anr[c])]
    /\ UNCHANGED anr_missed_pings

\* A pong, asked for or not.
onResponse(c) ==
    /\ anr[c].alive
    /\ anr' = [anr EXCEPT ![c] = [killDialog(@) EXCEPT !.missedResponses = 0]]
    /\ UNCHANGED anr_missed_pings

\* The user presses a button of a box, or closes it.
ChooseANR(c, b) ==
    /\ anr[c].boxes[b] = Open
    /\ \E result \in {"terminate", "wait", Nothing} :
         anr' = [anr EXCEPT ![c].boxes[b] = result]
    /\ UNCHANGED anr_missed_pings

\* A box's hangup resolves the promise runDialog waits for.  It is not looked
\* at whether the box is still the client's dialog.
Said(data, b) ==
    [data EXCEPT !.boxes[b] = Closed,
                 !.alive = @ /\ data.boxes[b] # "terminate",
                 !.dialogSaidWait = @ \/ data.boxes[b] = "wait"]

HangUpANR(c, b) ==
    /\ HungUp(anr[c].boxes[b])
    /\ anr' = [anr EXCEPT ![c] = Said(@, b)]
    /\ UNCHANGED anr_missed_pings

ANRNext ==
    \/ onTick
    \/ \E c \in Clients : OpenWindow(c) \/ CloseWindow(c) \/ onResponse(c)
    \/ \E c \in Clients, b \in Boxes : ChooseANR(c, b) \/ HangUpANR(c, b)

\* The compositor's event loop ticks and reads hangups, and closes the windows
\* of a client that was killed.
ANRFairness ==
    /\ WF_anrVars(onTick)
    /\ \A c \in Clients, b \in Boxes : WF_anrVars(HangUpANR(c, b))
    /\ \A c \in Clients : WF_anrVars(~anr[c].alive /\ CloseWindow(c))
-----------------------------------------------------------------------------
\* A dialog is only on the screen for a client that has a window and has missed
\* a ping since it last answered, and it is the one that killDialog would kill:
\* no race of pongs, closing windows, hangups and reloads leaves one behind
\* (onTick, onResponse, killDialog).
NoStrayANR ==
    \A c \in Clients, b \in Boxes : anr[c].boxes[b] = Open =>
        anr[c].dialogBox = b /\ anr[c].missedResponses > 0 /\ anr[c].windows > 0

Silent(c) == anr[c].windows > 0 /\ anr[c].missedResponses > 0

\* A client that stays silent gets a dialog, unless the user said to wait (onTick).
SilentNoticed(c) == Silent(c) ~> ~Silent(c) \/ isRunning(anr[c]) \/ anr[c].dialogSaidWait
=============================================================================
