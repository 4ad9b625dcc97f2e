---------------------------- MODULE ShareSession ----------------------------
(***************************************************************************)
(* The screen-sharing sessions of xdg-desktop-portal-hyprland              *)
(* (src/portals/Screencopy.cpp): a session asks the compositor for one     *)
(* frame after the other, copies each into a buffer of its PipeWire stream *)
(* and arms a timer for the next.  The handlers below are what the main    *)
(* thread runs for a D-Bus call, a Wayland event, a PipeWire event or a    *)
(* timer; each maps the session's record to the records it may leave.      *)
(* PortalLoop composes them with the threads that wake the main thread.    *)
(*                                                                         *)
(* A session's record:                                                     *)
(*   phase    how far the D-Bus conversation got                           *)
(*   active   sharingData.active          status   sharingData.status      *)
(*   frame    the frame callback: "none", "asked" (the compositor owes a   *)
(*            buffer_done), "copying" (it owes a ready), "ended" (failed,  *)
(*            and never reset)                                             *)
(*   stream   the PipeWire stream: "none", or its streamState              *)
(*   buf      the stream has a current buffer                              *)
(*   retries  sharingData.copyRetries, MAX_RETRIES + 1 standing for more   *)
(*   armed, passed   the timers of this session that are running, and that *)
(*            have run out without being called yet                        *)
(*   call, answer, event   what waits to be read on the D-Bus, Wayland and *)
(*            PipeWire connections; one of each at most (bound)            *)
(***************************************************************************)
EXTENDS Naturals

CONSTANTS
    Sessions,       \* the sessions front ends ask for
    MAX_RETRIES,    \* copies retried without a buffer (10 in the code)
    MaxTimers       \* bound: the stream restarts only below so many timers

ASSUME ShareAssumption == MAX_RETRIES \in Nat /\ MaxTimers \in Nat \ {0}

VARIABLE sess

None == "none"
Calls == {"CreateSession", "SelectSources", "Start", "Close"}
Answers == {"bufferDone", "ready", "failed"}
StreamEvents == {"streaming", "paused", "unconnected", "removeBuffer"}

SessionState ==
    [phase  : {None, "created", "selected", "started", "closed"},
     active : BOOLEAN, buf : BOOLEAN,
     status : {"NONE", "QUEUED", "READY", "FAILED"},
     frame  : {None, "asked", "copying", "ended"},
     stream : {None, "off", "on"},
     retries : 0..(MAX_RETRIES + 1),
     armed  : Nat, passed : Nat,
     call   : Calls \cup {None},
     answer : Answers \cup {None},
     event  : StreamEvents \cup {None}]

NoSession ==
    [phase |-> None, active |-> FALSE, buf |-> FALSE,
     status |-> "NONE", frame |-> None, stream |-> None, retries |-> 0,
     armed |-> 0, passed |-> 0, call |-> None, answer |-> None, event |-> None]

-----------------------------------------------------------------------------
(* Frames                                                                  *)

\* Destroying the callback drops what the compositor had to say about it.
ResetFrame(x) == [x EXCEPT !.frame = None, !.answer = None]

\* Bound: an output or window that is being shared stays.
startCopy(x) ==
    IF x.active /\ x.frame = None
    THEN [x EXCEPT !.status = "QUEUED", !.frame = "asked"]
    ELSE x

\* addTimer, unless the stream is there and not streaming.
queueNextShareFrame(x) ==
    IF x.stream = "off" THEN x ELSE [x EXCEPT !.armed = @ + 1]

removeSessionFrameCallbacks(x) == [ResetFrame(x) EXCEPT !.status = "NONE"]

\* The buffer goes back to PipeWire if there is one to give.
enqueue(x) == [x EXCEPT !.buf = FALSE]

\* -- variant: the callback is kept, as after a frame that failed
KeepsCallback(x) ==
    LET ready == enqueue([x EXCEPT !.status = "READY", !.frame = "ended", !.answer = None])
    IN  IF x.stream = None THEN ready ELSE queueNextShareFrame(ready)

onReady(x) ==
    LET ready == enqueue([x EXCEPT !.status = "READY"])
    IN  ResetFrame(IF x.stream = None THEN ready ELSE queueNextShareFrame(ready))

\* Nothing is queued and the callback stays: only a new stream state helps.
onFailed(x) == [x EXCEPT !.status = "FAILED", !.frame = "ended", !.answer = None]

OutOfBuffers(x) ==
    LET counted == [x EXCEPT !.status = "NONE",
                             !.retries = IF @ > MAX_RETRIES THEN @ ELSE @ + 1]
    IN  ResetFrame(IF x.retries < MAX_RETRIES
                   THEN queueNextShareFrame(counted) ELSE counted)

Renegotiate(x) ==
    ResetFrame([queueNextShareFrame(x) EXCEPT !.status = "NONE"])

sendCopy(x) ==
    [x EXCEPT !.frame = "copying", !.answer = None, !.buf = TRUE, !.retries = 0]

\* The formats may disagree, and dequeue may find a buffer or none.
onBufferDone(x) ==
    IF x.stream = None
    THEN {ResetFrame([x EXCEPT !.status = "NONE"])}
    ELSE {Renegotiate(x), sendCopy(x)} \cup
         (IF x.buf THEN {} ELSE {OutOfBuffers(x)})

-----------------------------------------------------------------------------
(* The stream                                                              *)

\* Disconnecting enters pwStreamStateChange again, which drops the frame and
\* comes back to a destroyStream that finds the session inactive.
destroyStream(x) ==
    IF ~x.active THEN x
    ELSE IF x.stream = None THEN [x EXCEPT !.active = FALSE]
    ELSE [removeSessionFrameCallbacks(x) EXCEPT
              !.active = FALSE, !.stream = None, !.buf = FALSE, !.event = None]

StreamOn(x) ==
    LET on == [x EXCEPT !.stream = "on", !.event = None]
    IN  startCopy(IF x.status = "NONE" THEN on ELSE removeSessionFrameCallbacks(on))

StreamOff(x) ==
    removeSessionFrameCallbacks([x EXCEPT !.stream = "off", !.event = None])

pwStreamStateChange(x, state) ==
    CASE state = "streaming" -> StreamOn(x)
      [] state = "paused" -> StreamOff(x)
      [] state = "unconnected" -> destroyStream(StreamOff(x))

pwStreamRemoveBuffer(x) == [x EXCEPT !.buf = FALSE, !.event = None]

-----------------------------------------------------------------------------
(* Calls                                                                   *)

\* The first frame only tells the formats: there is no stream to copy it to.
\* The output may be gone by now, or the frame fail, and there is no stream then;
\* otherwise the stream is paused, or streaming already, when its node is known.
startSharing(x) ==
    LET started == [x EXCEPT !.active = TRUE]
        asked   == startCopy(started)
        paused  == StreamOff([asked EXCEPT !.stream = "off"])
    IN  {started, onFailed(asked), queueNextShareFrame(paused),
         queueNextShareFrame(StreamOn(paused))}

Answered(x, phase) == [x EXCEPT !.call = None, !.phase = phase]

\* The user may refuse to select a source; the front end then only closes.
HandleCall(x) ==
    CASE x.call = "CreateSession" -> {Answered(x, "created")}
      [] x.call = "SelectSources" -> {Answered(x, "created"), Answered(x, "selected")}
      [] x.call = "Start" -> {Answered(y, "started") : y \in startSharing(x)}
      [] x.call = "Close" -> {Answered(destroyStream(x), "closed")}

HandleAnswer(x) ==
    CASE x.answer = "bufferDone" -> onBufferDone(x)
      [] x.answer = "ready" -> {onReady(x)}
      [] x.answer = "failed" -> {onFailed(x)}

HandleEvent(x) ==
    IF x.event = "removeBuffer" THEN {pwStreamRemoveBuffer(x)}
    ELSE {pwStreamStateChange(x, x.event)}

\* Every timer that has run out calls startFrameCopy; the first may start a
\* frame, and the others then find it scheduled.
HandleTimers(x) ==
    IF x.passed = 0 THEN x ELSE [startCopy(x) EXCEPT !.passed = 0]

-----------------------------------------------------------------------------
(* What comes from outside: the front end, the compositor, PipeWire, time  *)

Arrives(s, field, what) ==
    /\ sess[s][field] = None
    /\ sess' = [sess EXCEPT ![s][field] = what]

FrontendCalls(s) ==
    \/ sess[s].phase = None /\ Arrives(s, "call", "CreateSession")
    \/ sess[s].phase = "created" /\ Arrives(s, "call", "SelectSources")
    \/ sess[s].phase = "selected" /\ Arrives(s, "call", "Start")
    \/ sess[s].phase \in {"created", "selected", "started"} /\ Arrives(s, "call", "Close")

CompositorAnswers(s) ==
    \/ sess[s].frame = "asked" /\ Arrives(s, "answer", "bufferDone")
    \/ sess[s].frame = "copying" /\ Arrives(s, "answer", "ready")
    \/ sess[s].frame \in {"asked", "copying"} /\ Arrives(s, "answer", "failed")

PipewireSends(s) ==
    \/ /\ sess[s].armed + sess[s].passed < MaxTimers
       /\ sess[s].stream = "off"
       /\ Arrives(s, "event", "streaming")
    \/ sess[s].stream = "on" /\ Arrives(s, "event", "paused")
    \/ sess[s].stream # None /\ Arrives(s, "event", "unconnected")
    \/ sess[s].buf /\ Arrives(s, "event", "removeBuffer")

\* -- variant: a timer that was called and erased passes again
PassesAgain(s) ==
    /\ sess[s].passed = 0
    /\ sess' = [sess EXCEPT ![s].armed = @ - 1, ![s].passed = @ + 1]

TimerPasses(s) ==
    /\ sess[s].armed > 0
    /\ sess' = [sess EXCEPT ![s].armed = @ - 1, ![s].passed = @ + 1]

ShareInit == sess = [s \in Sessions |-> NoSession]

-----------------------------------------------------------------------------
\* A session that is streaming always has its next frame coming: one is being
\* copied, or a timer will ask for it - unless the compositor refused a frame or
\* the stream ran out of buffers too often, after which only a new state of the
\* stream starts it again (Screencopy.cpp:388-413, 437-488, 607-623, 712-741).
NeverStalls ==
    \A s \in Sessions : sess[s].stream = "on" =>
        \/ sess[s].frame \in {"asked", "copying"}
        \/ sess[s].armed + sess[s].passed > 0
        \/ sess[s].status = "FAILED"
        \/ sess[s].retries > MAX_RETRIES
=============================================================================
