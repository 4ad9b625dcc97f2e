---------------------- MODULE DynamicPermissionManager ----------------------
(***************************************************************************)
(* The permissions that are asked for by a string                          *)
(* (CDynamicPermissionManager, managers/permissions/) and the two that ask *)
(* for one: a keyboard, when its configuration is applied                  *)
(* (InputManager.cpp), and `hyprctl plugin load` (PluginSystem.cpp).       *)
(*                                                                         *)
(* An asker is a keyboard's name or a plugin's path with the process that  *)
(* asks to load it.  It has the mode of the configuration's rule that fits *)
(* it, set once at the first launch (without one a keyboard is allowed and *)
(* a plugin asked for), and a rule of its own once it was asked for.       *)
(* Permissions are enforced (ecosystem:enforce_permissions).               *)
(***************************************************************************)
EXTENDS AsyncDialogBox

CONSTANTS
    Keyboards,          \* the names of keyboards
    Plugins             \* the requests to load a plugin

ASSUME PermissionAssumption ==
    /\ {"allow", "deny"} \subseteq Buttons
    /\ Keyboards \cap Plugins = {}

VARIABLES
    config,     \* each asker's mode without a rule of its own
    rule,       \* each asker's own rule
    keyboard,   \* each keyboard: plugged in, and m_allowed
    request     \* each plugin request

permVars == <<config, rule, keyboard, request>>

Askers == Keyboards \cup Plugins
Modes == {"deny", "ask", "allow"}

\* external is the promise handed out: to the keyboard that is plugged in, to
\* one that is gone, or to a plugin request.
CDynamicPermissionRule ==
    [m_allowMode : {"none", "deny", "allow", "pending"}, m_promise : BOOLEAN,
     external : {"none", "current", "stale"},
     m_dialogBox : {Closed, Open, "allow", "deny", Nothing}]

PermTypeOK ==
    /\ config \in [Askers -> Modes]
    /\ rule \in [Askers -> CDynamicPermissionRule]
    /\ keyboard \in [Keyboards -> [present : BOOLEAN, m_allowed : BOOLEAN]]
    /\ request \in [Plugins -> {"none", "waiting", "loaded", "rejected"}]

NoRule == [m_allowMode |-> "none", m_promise |-> FALSE, external |-> "none",
           m_dialogBox |-> Closed]

PermInit ==
    /\ config \in [Askers -> Modes]
    /\ rule = [a \in Askers |-> NoRule]
    /\ keyboard = [k \in Keyboards |-> [present |-> FALSE, m_allowed |-> FALSE]]
    /\ request = [p \in Plugins |-> "none"]

\* What clientPermissionModeWithString finds.
Found(a) == IF rule[a].m_allowMode = "none" THEN config[a] ELSE rule[a].m_allowMode

askForPermission(a) ==
    [m_allowMode |-> "pending", m_promise |-> TRUE, external |-> "none",
     m_dialogBox |-> Open]

\* The asker's rule and the mode returned.
Rule(a) == IF Found(a) = "ask" THEN askForPermission(a) ELSE rule[a]
clientPermissionModeWithString(a) == IF Found(a) = "ask" THEN "pending" ELSE Found(a)

\* Null if nothing is asked any more, or if somebody waits already.
HasPromise(r) == r.m_promise /\ r.external = "none"
promiseFor(r) == IF HasPromise(r) THEN [r EXCEPT !.external = "current"] ELSE r

-----------------------------------------------------------------------------
(* Keyboards                                                               *)

\* -- variant: a keyboard stays allowed while the question is open
AllowedMeanwhile(k) ==
    clientPermissionModeWithString(k) \in {"allow", "pending"}

\* m_allowed as applyConfigToKeyboard sets it: not while pending.
AllowedNow(k) == clientPermissionModeWithString(k) = "allow"

AppliedRule(k) ==
    IF clientPermissionModeWithString(k) = "pending" THEN promiseFor(Rule(k)) ELSE rule[k]

\* setupKeyboard.
PlugKeyboard(k) ==
    /\ ~keyboard[k].present
    /\ rule' = [rule EXCEPT ![k] = AppliedRule(k)]
    /\ keyboard' = [keyboard EXCEPT ![k] = [present |-> TRUE, m_allowed |-> AllowedNow(k)]]
    /\ UNCHANGED <<config, request>>

\* The lambda that waits holds a weak pointer to the keyboard.
UnplugKeyboard(k) ==
    /\ keyboard[k].present
    /\ keyboard' = [keyboard EXCEPT ![k] = [present |-> FALSE, m_allowed |-> FALSE]]
    /\ rule' = [rule EXCEPT ![k].external = IF @ = "current" THEN "stale" ELSE @]
    /\ UNCHANGED <<config, request>>

\* setKeyboardLayout, after a reload: every keyboard's configuration is applied
\* again.
setKeyboardLayout ==
    /\ rule' = [a \in Askers |->
         IF a \in Keyboards /\ keyboard[a].present THEN AppliedRule(a) ELSE rule[a]]
    /\ keyboard' = [k \in Keyboards |->
         IF keyboard[k].present THEN [keyboard[k] EXCEPT !.m_allowed = AllowedNow(k)]
         ELSE keyboard[k]]
    /\ UNCHANGED <<config, request>>

-----------------------------------------------------------------------------
(* Plugins                                                                 *)

\* loadPluginInternal loads it or fails.
loadPluginInternal == {"loaded", "rejected"}

loadPlugin(p) ==
    /\ request[p] \in {"none", "rejected"}
    /\ rule' = [rule EXCEPT ![p] = promiseFor(Rule(p))]
    /\ \E reply \in CASE clientPermissionModeWithString(p) = "allow" -> loadPluginInternal
                      [] clientPermissionModeWithString(p) = "deny" -> {"rejected"}
                      [] OTHER -> IF HasPromise(Rule(p)) THEN {"waiting"} ELSE {"rejected"} :
         request' = [request EXCEPT ![p] = reply]
    /\ UNCHANGED <<config, keyboard>>

-----------------------------------------------------------------------------
(* The dialog                                                              *)

\* The user presses a button, or closes the dialog.
ChoosePermission(a) ==
    /\ rule[a].m_dialogBox = Open
    /\ \E result \in {"allow", "deny", Nothing} :
         rule' = [rule EXCEPT ![a].m_dialogBox = result]
    /\ UNCHANGED <<config, keyboard, request>>

\* -- variant: whatever the dialog wrote becomes the mode
AnyAnswer(r) == r.m_dialogBox

\* The mode after a hangup: a dialog that was closed leaves it pending.
Decided(r) == IF r.m_dialogBox = Nothing THEN r.m_allowMode ELSE r.m_dialogBox

\* What the promise that was handed out does when it is resolved.
ResolvedKeyboard(k) ==
    IF k \in Keyboards /\ rule[k].external = "current"
    THEN [keyboard EXCEPT ![k].m_allowed = Decided(rule[k]) = "allow"]
    ELSE keyboard

ResolvedRequest(p) ==
    IF p \in Plugins /\ rule[p].external # "none"
    THEN {[request EXCEPT ![p] = reply] :
             reply \in IF Decided(rule[p]) = "allow" THEN loadPluginInternal ELSE {"rejected"}}
    ELSE {request}

\* -- variant: a dialog that was closed answers nobody
AnswersOnly(a) ==
    /\ HungUp(rule[a].m_dialogBox)
    /\ IF rule[a].m_dialogBox = Nothing
       THEN /\ rule' = [rule EXCEPT ![a].m_dialogBox = Closed]
            /\ UNCHANGED <<keyboard, request>>
       ELSE /\ rule' = [rule EXCEPT ![a] =
                 [NoRule EXCEPT !.m_allowMode = Decided(rule[a])]]
            /\ keyboard' = ResolvedKeyboard(a)
            /\ request' \in ResolvedRequest(a)
    /\ UNCHANGED config

HangUpPermission(a) ==
    /\ HungUp(rule[a].m_dialogBox)
    /\ rule' = [rule EXCEPT ![a] = [NoRule EXCEPT !.m_allowMode = Decided(rule[a])]]
    /\ keyboard' = ResolvedKeyboard(a)
    /\ request' \in ResolvedRequest(a)
    /\ UNCHANGED config

PermNext ==
    \/ \E k \in Keyboards : PlugKeyboard(k) \/ UnplugKeyboard(k)
    \/ \E p \in Plugins : loadPlugin(p)
    \/ \E a \in Askers : ChoosePermission(a) \/ HangUpPermission(a)

\* The event loop reads hangups, and a user who is asked answers or closes the
\* dialog some time.
PermFairness ==
    \A a \in Askers :
        WF_permVars(HangUpPermission(a)) /\ WF_permVars(ChoosePermission(a))

-----------------------------------------------------------------------------
\* A permission's dialog is only open while its answer decides something
\* (askForPermission and its lambda).
NoStrayQuestion ==
    \A a \in Askers : rule[a].m_dialogBox # Closed =>
        rule[a].m_allowMode = "pending" /\ rule[a].m_promise

\* A keyboard is heard, and a plugin was loaded, only if the user or the
\* configuration allows it, whatever was unplugged, plugged in again or reloaded
\* while the question was open (applyConfigToKeyboard, loadPlugin).
AllowedByRule ==
    /\ \A k \in Keyboards : keyboard[k].m_allowed => keyboard[k].present /\ Found(k) = "allow"
    /\ \A p \in Plugins : request[p] = "loaded" => Found(p) = "allow"

\* Whoever was promised an answer gets one, also when the dialog is closed
\* (promiseFor).
PromiseKept(a) == rule[a].external # "none" ~> rule[a].external = "none"
=============================================================================
