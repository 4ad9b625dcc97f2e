------------------------------ MODULE Dialogs -------------------------------
(***************************************************************************)
(* Everything in the compositor that opens a dialog box and acts on its    *)
(* answer: the ANR manager and the permission manager, both on the event   *)
(* loop's thread, and a reload of the configuration, which reaches both.   *)
(***************************************************************************)
EXTENDS ANRManager, DynamicPermissionManager

vars == <<anrVars, permVars>>

TypeOK == ANRTypeOK /\ PermTypeOK

Init == ANRInit /\ PermInit

\* CConfigManager::postConfigReload: misc:anr_missed_pings has its new value
\* and every keyboard is configured again.
postConfigReload ==
    /\ anr_missed_pings' \in Thresholds
    /\ setKeyboardLayout
    /\ UNCHANGED anr

Next ==
    \/ ANRNext /\ UNCHANGED permVars
    \/ PermNext /\ UNCHANGED anrVars
    \/ postConfigReload

Spec == Init /\ [][Next]_vars /\ ANRFairness /\ PermFairness

-----------------------------------------------------------------------------
\* No dialog outlives its reason: CANRManager kills its dialogs when the client
\* answers or a window closes, and a permission is asked for once.
NoStrayDialog == NoStrayANR /\ NoStrayQuestion

\* Every dialog that is needed is shown, and every answer that was promised is
\* given (CANRManager::onTick, the lambda of askForPermission).
Answered ==
    /\ \A c \in Clients : SilentNoticed(c)
    /\ \A a \in Askers : PromiseKept(a)
=============================================================================
