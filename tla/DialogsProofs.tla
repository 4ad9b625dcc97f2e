--------------------------- MODULE DialogsProofs ----------------------------
(***************************************************************************)
(* Proofs about Dialogs, for any number of clients, keyboards, plugins,    *)
(* windows and boxes.                                                      *)
(***************************************************************************)
EXTENDS Dialogs, TLAPS

-----------------------------------------------------------------------------
(* The ANR manager                                                         *)

(* A client's data keeps its type when its dialog is killed.                *)
LEMMA KillType ==
  ASSUME NEW data \in SANRData
  PROVE  /\ killDialog(data) \in SANRData
         /\ killDialog(data).dialogBox = None
         /\ killDialog(data).windows = data.windows
         /\ killDialog(data).missedResponses = data.missedResponses
         /\ \A b \in Boxes : killDialog(data).boxes[b] = Open =>
              data.boxes[b] = Open /\ b # data.dialogBox
<1>1. CASE isRunning(data)
  <2>1. data.dialogBox \in Boxes /\ data.boxes \in [Boxes -> BoxState]
    BY <1>1 DEF isRunning, SANRData
  <2>2. kill(data.boxes[data.dialogBox]) \in BoxState \ {Open}
    BY <2>1, ButtonsAssumption DEF kill, BoxState, Results, Open, Closed, Nothing
  <2> QED
    BY <1>1, <2>1, <2>2 DEF killDialog, SANRData
<1>2. CASE ~isRunning(data)
  <2>1. data.dialogBox = None /\ \A b \in Boxes : b # None
    BY <1>2 DEF isRunning, Boxes, None
  <2> QED
    BY <1>2, <2>1 DEF killDialog, SANRData
<1> QED
  BY <1>1, <1>2

(* What holds of one client's data whenever its dialogs are all wanted.     *)
Wanted(data) ==
    \A b \in Boxes : data.boxes[b] = Open =>
        data.dialogBox = b /\ data.missedResponses > 0 /\ data.windows > 0

(* A client that killDialog has dealt with has no open box.                 *)
LEMMA KillLeavesNone ==
  ASSUME NEW data \in SANRData, Wanted(data)
  PROVE  \A b \in Boxes : killDialog(data).boxes[b] # Open
BY KillType DEF Wanted

(* A tick keeps a client's data well typed and its dialogs wanted.          *)
LEMMA TickKeeps ==
  ASSUME NEW data \in SANRData, Wanted(data), anr_missed_pings \in Thresholds,
         data.windows > 0 /\ NeedsDialog(data) => Free(data) # {}
  PROVE  Ticked(data) \in SANRData /\ Wanted(Ticked(data))
<1> USE ANRAssumption
<1>1. ASSUME NEW d \in SANRData
      PROVE  /\ Missed(d) \in SANRData
             /\ Missed(d).missedResponses > 0
             /\ Missed(d).windows = d.windows /\ Missed(d).dialogBox = d.dialogBox
             /\ Missed(d).boxes = d.boxes
  <2> DEFINE w == d.dialogSaidWait /\ d.missedResponses # 0
             m == IF d.missedResponses < MaxMissed THEN d.missedResponses + 1
                  ELSE d.missedResponses
  <2>1. m \in 0..MaxMissed /\ m > 0
    BY <1>1 DEF SANRData
  <2>2. w \in BOOLEAN
    OBVIOUS
  <2>3. Missed(d) = [d EXCEPT !.dialogSaidWait = w, !.missedResponses = m]
    BY Zenon DEF Missed
  <2> HIDE DEF w, m
  <2> QED
    BY <1>1, <2>1, <2>2, <2>3 DEF SANRData
<1>2. CASE data.windows = 0
  BY <1>2 DEF Ticked
<1>3. CASE data.windows # 0 /\ NeedsDialog(data)
  <2> DEFINE box == CHOOSE b \in Free(data) : TRUE
             opened == runDialog(data, box)
  <2>1. data.windows > 0 /\ box \in Boxes
    BY <1>3 DEF Free, SANRData
  <2>2. opened \in SANRData
    BY <2>1 DEF runDialog, SANRData, BoxState
  <2>3. data.dialogBox = None /\ \A b \in Boxes : b # None
    BY <1>3 DEF NeedsDialog, isRunning, Boxes, None
  <2>4. \A b \in Boxes : opened.boxes[b] = Open => b = box
    BY <2>1, <2>3 DEF runDialog, Wanted, SANRData
  <2>5. opened.dialogBox = box /\ opened.windows = data.windows
    BY DEF runDialog, SANRData
  <2>6. Ticked(data) = Missed(opened)
    BY <1>3 DEF Ticked
  <2> HIDE DEF opened, box
  <2> QED
    BY <1>1, <2>1, <2>2, <2>4, <2>5, <2>6 DEF Wanted
<1>4. CASE data.windows # 0 /\ ~NeedsDialog(data) /\ data.missedResponses < anr_missed_pings
  BY <1>1, <1>4, KillType, KillLeavesNone DEF Ticked, Wanted
<1>5. CASE data.windows # 0 /\ ~NeedsDialog(data) /\ ~(data.missedResponses < anr_missed_pings)
  BY <1>1, <1>5 DEF Ticked, Wanted, SANRData
<1> QED
  BY <1>2, <1>3, <1>4, <1>5

ANRInv == ANRTypeOK /\ \A c \in Clients : Wanted(anr[c])

(* Every step of the ANR manager keeps its types and its dialogs wanted.    *)
LEMMA ANRStep == ANRInv /\ [ANRNext]_anrVars => ANRInv'
<1> SUFFICES ASSUME ANRInv, [ANRNext]_anrVars PROVE ANRInv'
  OBVIOUS
<1>0. /\ anr \in [Clients -> SANRData] /\ anr_missed_pings \in Thresholds
      /\ \A c \in Clients : anr[c] \in SANRData /\ Wanted(anr[c])
  BY DEF ANRInv, ANRTypeOK
<1>a. ASSUME NEW c \in Clients, NEW data \in SANRData, Wanted(data),
             anr' = [anr EXCEPT ![c] = data], UNCHANGED anr_missed_pings
      PROVE  ANRInv'
  BY <1>0, <1>a DEF ANRInv, ANRTypeOK, Wanted
<1>1. CASE onTick
  BY <1>0, <1>1, TickKeeps DEF onTick, ANRInv, ANRTypeOK, Wanted
<1>2. ASSUME NEW c \in Clients, OpenWindow(c) PROVE ANRInv'
  <2> DEFINE data == [anr[c] EXCEPT !.windows = @ + 1]
  <2>1. data \in SANRData
    BY <1>0, <1>2, ANRAssumption DEF OpenWindow, SANRData
  <2>2. Wanted(data)
    BY <1>0 DEF Wanted, SANRData
  <2>3. anr' = [anr EXCEPT ![c] = data] /\ UNCHANGED anr_missed_pings
    BY <1>2 DEF OpenWindow
  <2> QED
    BY <1>a, <2>1, <2>2, <2>3
<1>3. ASSUME NEW c \in Clients, CloseWindow(c) PROVE ANRInv'
  <2> DEFINE killed == killDialog(anr[c])
             data == WindowClosed(anr[c])
  <2>1. killed \in SANRData /\ killed.windows > 0 /\ \A b \in Boxes : killed.boxes[b] # Open
    BY <1>0, <1>3, KillType, KillLeavesNone DEF CloseWindow
  <2>2. anr' = [anr EXCEPT ![c] = data] /\ UNCHANGED anr_missed_pings
    BY <1>3 DEF CloseWindow
  <2>5. data = [killed EXCEPT !.windows = @ - 1, !.missedResponses = 0,
                              !.dialogSaidWait = FALSE]
    BY DEF WindowClosed
  <2> HIDE DEF killed, data
  <2>3. data \in SANRData
    <3>1. killed.windows - 1 \in 0..MaxWindows /\ 0 \in 0..MaxMissed
      BY <2>1, ANRAssumption DEF SANRData
    <3>2. \A w \in BOOLEAN : [killed EXCEPT !.windows = @ - 1, !.missedResponses = 0,
                                            !.dialogSaidWait = w] \in SANRData
      BY <2>1, <3>1 DEF SANRData
    <3> QED
      BY <2>5, <3>2
  <2>4. Wanted(data)
    BY <2>1, <2>5 DEF Wanted, SANRData
  <2> QED
    BY <1>a, <2>2, <2>3, <2>4
<1>4. ASSUME NEW c \in Clients, onResponse(c) PROVE ANRInv'
  <2> DEFINE killed == killDialog(anr[c])
             data == [killed EXCEPT !.missedResponses = 0]
  <2>1. killed \in SANRData /\ \A b \in Boxes : killed.boxes[b] # Open
    BY <1>0, KillType, KillLeavesNone
  <2>2. anr' = [anr EXCEPT ![c] = data] /\ UNCHANGED anr_missed_pings
    BY <1>4 DEF onResponse
  <2> HIDE DEF killed
  <2>3. data \in SANRData
    BY <2>1, ANRAssumption DEF SANRData
  <2>4. Wanted(data)
    BY <2>1 DEF Wanted, SANRData
  <2> QED
    BY <1>a, <2>2, <2>3, <2>4
<1>5. ASSUME NEW c \in Clients, NEW b \in Boxes, ChooseANR(c, b) PROVE ANRInv'
  <2>1. PICK result \in {"terminate", "wait", Nothing} :
          anr' = [anr EXCEPT ![c].boxes[b] = result]
    BY <1>5 DEF ChooseANR
  <2> DEFINE data == [anr[c] EXCEPT !.boxes[b] = result]
  <2>2. result \in BoxState \ {Open}
    BY ButtonsAssumption, ANRAssumption DEF BoxState, Results, Open, Closed, Nothing
  <2>3. data \in SANRData
    BY <1>0, <2>2 DEF SANRData
  <2>4. Wanted(data)
    BY <1>0, <2>2 DEF Wanted, SANRData
  <2>5. anr' = [anr EXCEPT ![c] = data] /\ UNCHANGED anr_missed_pings
    BY <1>5, <2>1 DEF ChooseANR
  <2> QED
    BY <1>a, <2>3, <2>4, <2>5
<1>6. ASSUME NEW c \in Clients, NEW b \in Boxes, HangUpANR(c, b) PROVE ANRInv'
  <2> DEFINE alive == anr[c].alive /\ anr[c].boxes[b] # "terminate"
             wait == anr[c].dialogSaidWait \/ anr[c].boxes[b] = "wait"
             data == Said(anr[c], b)
  <2>1. Closed \in BoxState \ {Open} /\ alive \in BOOLEAN /\ wait \in BOOLEAN
    BY DEF BoxState, Open, Closed
  <2>4. anr' = [anr EXCEPT ![c] = data] /\ UNCHANGED anr_missed_pings
    BY <1>6 DEF HangUpANR
  <2>5. data = [anr[c] EXCEPT !.boxes[b] = Closed, !.alive = alive,
                              !.dialogSaidWait = wait]
    BY DEF Said
  <2> HIDE DEF alive, wait, data
  <2>2. data \in SANRData
    BY <1>0, <2>1, <2>5 DEF SANRData
  <2>3. Wanted(data)
    BY <1>0, <2>1, <2>5 DEF Wanted, SANRData
  <2> QED
    BY <1>a, <2>2, <2>3, <2>4
<1>7. CASE UNCHANGED anrVars
  BY <1>7 DEF anrVars, ANRInv, ANRTypeOK, Wanted
<1> QED
  BY <1>1, <1>2, <1>3, <1>4, <1>5, <1>6, <1>7 DEF ANRNext

-----------------------------------------------------------------------------
(* The permission manager                                                  *)

(* A promise is only with the keyboard that is plugged in.                  *)
HeldByPresent == \A k \in Keyboards : rule[k].external = "current" => keyboard[k].present

PermInv == PermTypeOK /\ NoStrayQuestion /\ HeldByPresent /\ AllowedByRule

(* Every mode is one of the strings the manager tells apart, and asking for *)
(* a permission opens a box that is waited for.                             *)
LEMMA RuleType ==
  ASSUME PermTypeOK, NoStrayQuestion, NEW a \in Askers
  PROVE  /\ Rule(a) \in CDynamicPermissionRule /\ promiseFor(Rule(a)) \in CDynamicPermissionRule
         /\ Rule(a).m_dialogBox # Closed => Rule(a).m_allowMode = "pending" /\ Rule(a).m_promise
         /\ promiseFor(Rule(a)).m_dialogBox = Rule(a).m_dialogBox
         /\ promiseFor(Rule(a)).m_allowMode = Rule(a).m_allowMode
         /\ promiseFor(Rule(a)).m_promise = Rule(a).m_promise
         /\ Found(a) = "allow" => Rule(a) = rule[a]
<1>1. rule[a] \in CDynamicPermissionRule
  BY DEF PermTypeOK
<1>2. askForPermission(a) \in CDynamicPermissionRule
  BY DEF askForPermission, CDynamicPermissionRule
<1>3. Rule(a) \in CDynamicPermissionRule
  BY <1>1, <1>2 DEF Rule
<1>4. \A r \in CDynamicPermissionRule :
        /\ promiseFor(r) \in CDynamicPermissionRule
        /\ promiseFor(r).m_dialogBox = r.m_dialogBox
        /\ promiseFor(r).m_allowMode = r.m_allowMode
        /\ promiseFor(r).m_promise = r.m_promise
  BY DEF promiseFor, CDynamicPermissionRule
<1>5. Rule(a).m_dialogBox # Closed => Rule(a).m_allowMode = "pending" /\ Rule(a).m_promise
  BY DEF Rule, askForPermission, NoStrayQuestion
<1> QED
  BY <1>3, <1>4, <1>5 DEF Rule

(* Applying a keyboard's configuration, to it alone or to all that are      *)
(* plugged in, keeps the invariant.                                         *)
LEMMA ApplyKeeps ==
  ASSUME PermInv, NEW K \in SUBSET Keyboards,
         \A a \in Askers : rule'[a] = IF a \in K THEN AppliedRule(a) ELSE rule[a],
         rule' \in [Askers -> CDynamicPermissionRule],
         keyboard' \in [Keyboards -> [present : BOOLEAN, m_allowed : BOOLEAN]],
         \A k \in Keyboards : IF k \in K THEN keyboard'[k].present /\ (keyboard'[k].m_allowed => AllowedNow(k))
                              ELSE keyboard'[k] = keyboard[k],
         UNCHANGED <<config, request>>
  PROVE  PermInv'
<1> USE DEF PermInv
<1>1. PermTypeOK'
  BY DEF PermTypeOK
<1>2. \A k \in K : /\ AllowedNow(k) => Found(k) = "allow" /\ AppliedRule(k) = rule[k]
                   /\ AppliedRule(k).m_dialogBox # Closed =>
                        AppliedRule(k).m_allowMode = "pending" /\ AppliedRule(k).m_promise
  <2> TAKE k \in K
  <2>1. k \in Askers
    BY DEF Askers
  <2>2. AllowedNow(k) => Found(k) = "allow" /\ AppliedRule(k) = rule[k]
    BY DEF AllowedNow, clientPermissionModeWithString, AppliedRule
  <2> QED
    BY <2>1, <2>2, RuleType DEF AppliedRule, NoStrayQuestion
<1>3. NoStrayQuestion'
  BY <1>2 DEF NoStrayQuestion
<1>4. HeldByPresent'
  BY DEF HeldByPresent, Askers
<1>5. \A p \in Plugins : rule'[p] = rule[p]
  BY PermissionAssumption DEF Askers
<1>6. AllowedByRule'
  <2>1. ASSUME NEW k \in Keyboards, keyboard'[k].m_allowed
        PROVE  keyboard'[k].present /\ Found(k)' = "allow"
    BY <1>2, <2>1 DEF AllowedByRule, Found, Askers
  <2>2. \A p \in Plugins : request'[p] = "loaded" => Found(p)' = "allow"
    BY <1>5 DEF AllowedByRule, Found
  <2> QED
    BY <2>1, <2>2 DEF AllowedByRule
<1> QED
  BY <1>1, <1>3, <1>4, <1>6

(* A reload keeps the invariant.                                            *)
LEMMA ReloadKeeps == PermInv /\ setKeyboardLayout => PermInv'
<1> SUFFICES ASSUME PermInv, setKeyboardLayout PROVE PermInv'
  OBVIOUS
<1> DEFINE K == {k \in Keyboards : keyboard[k].present}
<1>0. PermTypeOK /\ NoStrayQuestion
  BY DEF PermInv
<1>1. \A a \in Askers : rule'[a] = IF a \in K THEN AppliedRule(a) ELSE rule[a]
  BY DEF setKeyboardLayout
<1>2. \A k \in Keyboards : AppliedRule(k) \in CDynamicPermissionRule
  BY <1>0, RuleType DEF AppliedRule, PermTypeOK, Askers
<1>3. rule' \in [Askers -> CDynamicPermissionRule]
  BY <1>0, <1>2 DEF setKeyboardLayout, PermTypeOK
<1>4. \A k \in Keyboards : AllowedNow(k) \in BOOLEAN
  BY DEF AllowedNow
<1>5. /\ keyboard' \in [Keyboards -> [present : BOOLEAN, m_allowed : BOOLEAN]]
      /\ \A k \in Keyboards : IF k \in K
           THEN keyboard'[k].present /\ (keyboard'[k].m_allowed => AllowedNow(k))
           ELSE keyboard'[k] = keyboard[k]
  <2> DEFINE allowed == [k \in Keyboards |-> AllowedNow(k)]
  <2>1. keyboard' = [k \in Keyboards |->
          IF keyboard[k].present THEN [keyboard[k] EXCEPT !.m_allowed = allowed[k]]
          ELSE keyboard[k]]
    BY DEF setKeyboardLayout
  <2>2. \A k \in Keyboards : allowed[k] \in BOOLEAN /\ (allowed[k] => AllowedNow(k))
    BY <1>4
  <2> HIDE DEF allowed
  <2> QED
    BY <1>0, <2>1, <2>2 DEF PermTypeOK
<1>6. UNCHANGED <<config, request>> /\ K \in SUBSET Keyboards
  BY DEF setKeyboardLayout
<1> HIDE DEF K
<1> QED
  BY <1>1, <1>3, <1>5, <1>6, ApplyKeeps

(* Every step of the permission manager keeps the invariant.                *)
LEMMA PermStep == PermInv /\ [PermNext]_permVars => PermInv'
<1> SUFFICES ASSUME PermInv, [PermNext]_permVars PROVE PermInv'
  OBVIOUS
<1>0. PermTypeOK /\ NoStrayQuestion /\ HeldByPresent /\ AllowedByRule
  BY DEF PermInv
<1>1. ASSUME NEW k \in Keyboards, PlugKeyboard(k) PROVE PermInv'
  <2>1. \A a \in Askers : rule'[a] = IF a \in {k} THEN AppliedRule(a) ELSE rule[a]
    BY <1>0, <1>1 DEF PlugKeyboard, PermTypeOK, Askers
  <2>2. AppliedRule(k) \in CDynamicPermissionRule
    BY <1>0, RuleType DEF AppliedRule, PermTypeOK, Askers
  <2>3. rule' \in [Askers -> CDynamicPermissionRule]
    BY <1>0, <1>1, <2>2 DEF PlugKeyboard, PermTypeOK
  <2>4. PICK allowed \in BOOLEAN : allowed = AllowedNow(k)
    BY DEF AllowedNow
  <2>5. keyboard' = [keyboard EXCEPT ![k] = [present |-> TRUE, m_allowed |-> allowed]]
    BY <1>1, <2>4 DEF PlugKeyboard
  <2>6. /\ keyboard' \in [Keyboards -> [present : BOOLEAN, m_allowed : BOOLEAN]]
        /\ \A j \in Keyboards : IF j \in {k}
             THEN keyboard'[j].present /\ (keyboard'[j].m_allowed => AllowedNow(j))
             ELSE keyboard'[j] = keyboard[j]
    BY <1>0, <2>4, <2>5 DEF PermTypeOK
  <2> DEFINE K == {k}
  <2>7. UNCHANGED <<config, request>> /\ K \in SUBSET Keyboards
    BY <1>1 DEF PlugKeyboard
  <2>8. /\ \A a \in Askers : rule'[a] = IF a \in K THEN AppliedRule(a) ELSE rule[a]
        /\ \A j \in Keyboards : IF j \in K
             THEN keyboard'[j].present /\ (keyboard'[j].m_allowed => AllowedNow(j))
             ELSE keyboard'[j] = keyboard[j]
    BY <2>1, <2>6
  <2> HIDE DEF K
  <2> QED
    BY <2>3, <2>6, <2>7, <2>8, ApplyKeeps
<1>2. ASSUME NEW k \in Keyboards, UnplugKeyboard(k) PROVE PermInv'
  <2>1. /\ \A a \in Askers : /\ rule'[a] \in CDynamicPermissionRule
                            /\ rule'[a].m_allowMode = rule[a].m_allowMode
                            /\ rule'[a].m_promise = rule[a].m_promise
                            /\ rule'[a].m_dialogBox = rule[a].m_dialogBox
        /\ rule'[k].external # "current"
        /\ \A a \in Askers \ {k} : rule'[a] = rule[a]
    BY <1>0, <1>2 DEF UnplugKeyboard, PermTypeOK, CDynamicPermissionRule, Askers
  <2>2. /\ ~keyboard'[k].m_allowed
        /\ \A j \in Keyboards \ {k} : keyboard'[j] = keyboard[j]
    BY <1>0, <1>2 DEF UnplugKeyboard, PermTypeOK
  <2>3. PermTypeOK'
    BY <1>0, <1>2, <2>1 DEF UnplugKeyboard, PermTypeOK
  <2>4. UNCHANGED <<config, request>>
    BY <1>2 DEF UnplugKeyboard
  <2>5. \A a \in Askers : Found(a)' = Found(a)
    BY <2>1, <2>4 DEF Found
  <2>6. NoStrayQuestion' /\ HeldByPresent'
    BY <1>0, <2>1, <2>2 DEF NoStrayQuestion, HeldByPresent, Askers
  <2>7. AllowedByRule'
    BY <1>0, <2>2, <2>4, <2>5 DEF AllowedByRule, Askers
  <2> QED
    BY <2>3, <2>6, <2>7 DEF PermInv
<1>3. ASSUME NEW p \in Plugins, loadPlugin(p) PROVE PermInv'
  <2>1. p \in Askers /\ p \notin Keyboards
    BY PermissionAssumption DEF Askers
  <2>2. PICK reply \in {"loaded", "rejected", "waiting"} :
          /\ request' = [request EXCEPT ![p] = reply]
          /\ reply = "loaded" => clientPermissionModeWithString(p) = "allow"
    BY <1>3 DEF loadPlugin, loadPluginInternal
  <2>3. /\ rule' = [rule EXCEPT ![p] = promiseFor(Rule(p))]
        /\ UNCHANGED <<config, keyboard>>
    BY <1>3 DEF loadPlugin
  <2>4. PermTypeOK'
    BY <1>0, <2>1, <2>2, <2>3, RuleType DEF PermTypeOK
  <2>5. \A a \in Askers \ {p} : rule'[a] = rule[a]
    BY <1>0, <2>3 DEF PermTypeOK
  <2>6. rule'[p] = promiseFor(Rule(p))
    BY <1>0, <2>1, <2>3 DEF PermTypeOK
  <2>7. NoStrayQuestion' /\ HeldByPresent'
    BY <1>0, <2>1, <2>3, <2>5, <2>6, RuleType DEF NoStrayQuestion, HeldByPresent, Askers
  <2>8. Found(p) = "allow" => Found(p)' = "allow"
    BY <1>0, <2>1, <2>3, <2>6, RuleType DEF Found
  <2>9. \A a \in Askers \ {p} : Found(a)' = Found(a)
    BY <2>3, <2>5 DEF Found
  <2>10. \A q \in Plugins : request'[q] = "loaded" => Found(q)' = "allow"
    BY <1>0, <2>2, <2>8, <2>9
       DEF AllowedByRule, PermTypeOK, Askers, clientPermissionModeWithString
  <2>11. AllowedByRule'
    BY <1>0, <2>1, <2>3, <2>9, <2>10 DEF AllowedByRule, Askers
  <2> QED
    BY <2>4, <2>7, <2>11 DEF PermInv
<1>4. ASSUME NEW a \in Askers, ChoosePermission(a) PROVE PermInv'
  <2>1. PICK result \in {"allow", "deny", Nothing} :
          rule' = [rule EXCEPT ![a].m_dialogBox = result]
    BY <1>4 DEF ChoosePermission
  <2>2. UNCHANGED <<config, keyboard, request>> /\ rule[a].m_dialogBox # Closed
    BY <1>4 DEF ChoosePermission, Open, Closed
  <2>3. \A o \in Askers : /\ rule'[o] \in CDynamicPermissionRule
                          /\ rule'[o].m_allowMode = rule[o].m_allowMode
                          /\ rule'[o].m_promise = rule[o].m_promise
                          /\ rule'[o].external = rule[o].external
                          /\ o # a => rule'[o] = rule[o]
    BY <1>0, <2>1 DEF PermTypeOK, CDynamicPermissionRule
  <2>4. PermTypeOK'
    BY <1>0, <2>1, <2>2, <2>3 DEF PermTypeOK
  <2>5. NoStrayQuestion' /\ HeldByPresent'
    BY <1>0, <2>2, <2>3 DEF NoStrayQuestion, HeldByPresent, Askers
  <2>6. \A o \in Askers : Found(o)' = Found(o)
    BY <2>2, <2>3 DEF Found
  <2>7. AllowedByRule'
    BY <1>0, <2>2, <2>6 DEF AllowedByRule, Askers
  <2> QED
    BY <2>4, <2>5, <2>7 DEF PermInv
<1>5. ASSUME NEW a \in Askers, HangUpPermission(a) PROVE PermInv'
  <2>1. /\ rule' = [rule EXCEPT ![a] = [NoRule EXCEPT !.m_allowMode = Decided(rule[a])]]
        /\ keyboard' = ResolvedKeyboard(a) /\ request' \in ResolvedRequest(a)
        /\ UNCHANGED config
    BY <1>5 DEF HangUpPermission
  <2>2. rule[a].m_dialogBox \in {"allow", "deny", Nothing} /\ rule[a].m_dialogBox # Closed
    BY <1>0, <1>5, ButtonsAssumption
       DEF HangUpPermission, HungUp, Results, PermTypeOK, CDynamicPermissionRule, Nothing, Closed, Open
  <2>3. rule[a].m_allowMode = "pending" /\ Found(a) = "pending"
    BY <1>0, <2>2 DEF NoStrayQuestion, Found
  <2>4. Decided(rule[a]) \in {"allow", "deny", "pending"}
    BY <2>2, <2>3 DEF Decided
  <2>5. /\ rule'[a] = [m_allowMode |-> Decided(rule[a]), m_promise |-> FALSE,
                       external |-> "none", m_dialogBox |-> Closed]
        /\ \A o \in Askers \ {a} : rule'[o] = rule[o]
    BY <1>0, <2>1 DEF NoRule, PermTypeOK
  <2>6. rule' \in [Askers -> CDynamicPermissionRule]
    BY <1>0, <2>1, <2>4 DEF NoRule, PermTypeOK, CDynamicPermissionRule
  <2>7. Found(a)' = Decided(rule[a]) /\ \A o \in Askers \ {a} : Found(o)' = Found(o)
    BY <2>1, <2>4, <2>5 DEF Found
  <2>8. /\ keyboard' \in [Keyboards -> [present : BOOLEAN, m_allowed : BOOLEAN]]
        /\ \A k \in Keyboards :
             /\ keyboard'[k].present = keyboard[k].present
             /\ keyboard'[k].m_allowed => keyboard'[k].present /\ Found(k)' = "allow"
    <3>1. CASE a \in Keyboards /\ rule[a].external = "current"
      <4>1. PICK allowed \in BOOLEAN : allowed = (Decided(rule[a]) = "allow")
        OBVIOUS
      <4>2. keyboard' = [keyboard EXCEPT ![a].m_allowed = allowed] /\ keyboard[a].present
        BY <1>0, <2>1, <3>1, <4>1 DEF ResolvedKeyboard, HeldByPresent
      <4> QED
        BY <1>0, <2>7, <3>1, <4>1, <4>2 DEF PermTypeOK, AllowedByRule, Askers
    <3>2. CASE ~(a \in Keyboards /\ rule[a].external = "current")
      <4>1. keyboard' = keyboard
        BY <2>1, <3>2 DEF ResolvedKeyboard
      <4> QED
        BY <1>0, <2>3, <2>7, <4>1 DEF PermTypeOK, AllowedByRule, Askers
    <3> QED
      BY <3>1, <3>2
  <2>9. /\ request' \in [Plugins -> {"none", "waiting", "loaded", "rejected"}]
        /\ \A p \in Plugins : request'[p] = "loaded" => Found(p)' = "allow"
    <3>1. CASE a \in Plugins /\ rule[a].external # "none"
      <4>1. PICK reply \in {"loaded", "rejected"} :
              /\ request' = [request EXCEPT ![a] = reply]
              /\ reply = "loaded" => Decided(rule[a]) = "allow"
        BY <2>1, <3>1 DEF ResolvedRequest, loadPluginInternal
      <4> QED
        BY <1>0, <2>7, <3>1, <4>1 DEF PermTypeOK, AllowedByRule, Askers
    <3>2. CASE ~(a \in Plugins /\ rule[a].external # "none")
      <4>1. request' = request
        BY <2>1, <3>2 DEF ResolvedRequest
      <4> QED
        BY <1>0, <2>3, <2>7, <4>1 DEF PermTypeOK, AllowedByRule, Askers
    <3> QED
      BY <3>1, <3>2
  <2>10. PermTypeOK' /\ AllowedByRule'
    BY <1>0, <2>1, <2>6, <2>8, <2>9 DEF PermTypeOK, AllowedByRule
  <2>11. NoStrayQuestion' /\ HeldByPresent'
    BY <1>0, <2>5, <2>8 DEF NoStrayQuestion, HeldByPresent, Askers
  <2> QED
    BY <2>10, <2>11 DEF PermInv
<1>6. CASE UNCHANGED permVars
  BY <1>0, <1>6 DEF permVars, PermInv, PermTypeOK, NoStrayQuestion, HeldByPresent,
                    AllowedByRule, Found
<1> QED
  BY <1>1, <1>2, <1>3, <1>4, <1>5, <1>6 DEF PermNext

-----------------------------------------------------------------------------
(* Both together                                                           *)

Inv == ANRInv /\ PermInv

(* The invariant holds at the start.                                        *)
LEMMA InvInit == Init => Inv
<1> SUFFICES ASSUME Init PROVE Inv
  OBVIOUS
<1>1. ANRInv
  BY ANRAssumption DEF Init, ANRInit, ANRInv, ANRTypeOK, SANRData, Wanted, None, BoxState,
                       Open, Closed
<1>2. PermInv
  <2>1. PermTypeOK
    BY DEF Init, PermInit, PermTypeOK, NoRule, CDynamicPermissionRule
  <2>2. NoStrayQuestion /\ HeldByPresent /\ AllowedByRule
    BY DEF Init, PermInit, NoStrayQuestion, HeldByPresent, AllowedByRule, NoRule, Askers
  <2> QED
    BY <2>1, <2>2 DEF PermInv
<1> QED
  BY <1>1, <1>2 DEF Inv

(* Every step of either manager, and every reload, keeps the invariant.     *)
LEMMA InvStep == Inv /\ [Next]_vars => Inv'
<1> SUFFICES ASSUME Inv, [Next]_vars PROVE Inv'
  OBVIOUS
<1>1. CASE ANRNext /\ UNCHANGED permVars
  BY <1>1, ANRStep, PermStep DEF Inv
<1>2. CASE PermNext /\ UNCHANGED anrVars
  BY <1>2, ANRStep, PermStep DEF Inv
<1>3. CASE postConfigReload
  <2>1. ANRInv'
    BY <1>3 DEF Inv, postConfigReload, ANRInv, ANRTypeOK, Wanted
  <2> QED
    BY <1>3, <2>1, ReloadKeeps DEF Inv, postConfigReload
<1>4. CASE UNCHANGED vars
  BY <1>4, ANRStep, PermStep DEF Inv, vars
<1> QED
  BY <1>1, <1>2, <1>3, <1>4 DEF Next

(* Every variable of both managers keeps its type.                          *)
THEOREM TypeCorrect == Spec => []TypeOK
<1>1. Inv => TypeOK
  BY DEF Inv, ANRInv, PermInv, TypeOK
<1> QED
  BY <1>1, InvInit, InvStep, PTL DEF Spec

(* A dialog is only on the screen while there is a reason for it: an        *)
(* unresponsive client with a window, or a permission not yet decided.      *)
THEOREM DialogsWanted == Spec => []NoStrayDialog
<1>1. Inv => NoStrayDialog
  BY DEF Inv, ANRInv, PermInv, NoStrayDialog, NoStrayANR, Wanted
<1> QED
  BY <1>1, InvInit, InvStep, PTL DEF Spec

(* No keyboard is heard and no plugin is loaded without the permission of   *)
(* the user or the configuration.                                           *)
THEOREM PermissionRespected == Spec => []AllowedByRule
<1>1. Inv => AllowedByRule
  BY DEF Inv, PermInv
<1> QED
  BY <1>1, InvInit, InvStep, PTL DEF Spec
=============================================================================
