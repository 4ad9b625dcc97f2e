-------------------------- MODULE PortalLoopProofs --------------------------
(***************************************************************************)
(* Proofs about PortalLoop, for any number of sessions, retries and timers.*)
(***************************************************************************)
EXTENDS PortalLoop, TLAPS

(* The conjuncts that make NeverStalls inductive: a stream belongs to an    *)
(* active session, and what a session's status says of its frame is so.     *)
Moving(x) ==
    x.stream = "on" =>
        \/ x.frame \in {"asked", "copying"}
        \/ x.armed + x.passed > 0
        \/ x.status = "FAILED"
        \/ x.retries > MAX_RETRIES

Sound(x) ==
    /\ x.stream # None => x.active
    /\ x.event # None \/ x.buf => x.stream # None
    /\ x.status = "NONE" => x.frame = None
    /\ x.frame = "ended" => x.status = "FAILED"
    /\ x.answer = "bufferDone" => x.frame = "asked"

Good(x) == x \in SessionState /\ Sound(x) /\ Moving(x)

-----------------------------------------------------------------------------
(* The parts handlers are made of                                          *)

(* Arming a timer keeps a session good, and keeps a streaming one moving.   *)
LEMMA QueueGood ==
  ASSUME NEW x \in SessionState, Sound(x), x.stream = "on" \/ Moving(x)
  PROVE  Good(queueNextShareFrame(x))
BY ShareAssumption DEF Good, Sound, Moving, queueNextShareFrame, SessionState, None

(* Arming a timer changes nothing else, and gives a streaming session one.  *)
LEMMA QueueArms ==
  ASSUME NEW x \in SessionState
  PROVE  \E y \in SessionState :
            /\ y = queueNextShareFrame(x)
            /\ y.active = x.active /\ y.buf = x.buf /\ y.event = x.event
            /\ y.stream = x.stream /\ y.frame = x.frame /\ y.status = x.status
            /\ y.retries = x.retries /\ y.answer = x.answer
            /\ y.stream = "on" => y.armed + y.passed > 0
<1>1. CASE x.stream = "off"
  BY <1>1 DEF queueNextShareFrame
<1>2. CASE x.stream # "off"
  <2> DEFINE y == [x EXCEPT !.armed = @ + 1]
  <2>1. queueNextShareFrame(x) = y
    BY <1>2 DEF queueNextShareFrame
  <2>2. y \in SessionState
    BY DEF SessionState
  <2>3. /\ y.active = x.active /\ y.buf = x.buf /\ y.event = x.event
        /\ y.stream = x.stream /\ y.frame = x.frame /\ y.status = x.status
        /\ y.retries = x.retries /\ y.answer = x.answer
        /\ y.armed = x.armed + 1 /\ y.passed = x.passed
    BY DEF SessionState
  <2>4. y.armed + y.passed > 0
    BY <2>3 DEF SessionState
  <2> QED
    BY <2>1, <2>2, <2>3, <2>4
<1> QED
  BY <1>1, <1>2

(* Dropping the frame is sound, and good if something else keeps a          *)
(* streaming session moving.                                                *)
LEMMA ResetGood ==
  ASSUME NEW x \in SessionState,
         x.stream # None => x.active,
         x.event # None \/ x.buf => x.stream # None,
         x.stream = "on" => \/ x.armed + x.passed > 0
                            \/ x.retries > MAX_RETRIES
  PROVE  Good(ResetFrame(x))
<1> DEFINE y == [x EXCEPT !.frame = None, !.answer = None]
<1>1. /\ y \in SessionState
      /\ y.active = x.active /\ y.buf = x.buf /\ y.event = x.event
      /\ y.stream = x.stream /\ y.frame = None /\ y.answer = None
      /\ y.retries = x.retries /\ y.armed = x.armed /\ y.passed = x.passed
  BY DEF SessionState, None
<1>2. ResetFrame(x) = y
  BY DEF ResetFrame
<1> HIDE DEF y
<1> QED
  BY <1>1, <1>2 DEF Good, Sound, Moving, None

(* Dropping the frame keeps everything but the frame; it may stop a stream. *)
LEMMA RemoveSound ==
  ASSUME NEW x \in SessionState, Sound(x)
  PROVE  /\ removeSessionFrameCallbacks(x) \in SessionState
         /\ Sound(removeSessionFrameCallbacks(x))
         /\ removeSessionFrameCallbacks(x).frame = None
         /\ removeSessionFrameCallbacks(x).active = x.active
         /\ removeSessionFrameCallbacks(x).stream = x.stream
         /\ removeSessionFrameCallbacks(x).event = x.event
         /\ removeSessionFrameCallbacks(x).buf = x.buf
         /\ removeSessionFrameCallbacks(x).answer = None
<1> DEFINE y == [x EXCEPT !.frame = None, !.answer = None]
           z == [y EXCEPT !.status = "NONE"]
<1>1. /\ y \in SessionState
      /\ y.active = x.active /\ y.buf = x.buf /\ y.event = x.event
      /\ y.stream = x.stream /\ y.frame = None /\ y.answer = None
  BY DEF SessionState, None
<1>2. removeSessionFrameCallbacks(x) = z
  BY DEF removeSessionFrameCallbacks, ResetFrame
<1> HIDE DEF y
<1>3. /\ z \in SessionState
      /\ z.active = y.active /\ z.buf = y.buf /\ z.event = y.event
      /\ z.stream = y.stream /\ z.frame = y.frame /\ z.answer = y.answer
  BY <1>1 DEF SessionState
<1> HIDE DEF z
<1> QED
  BY <1>1, <1>2, <1>3 DEF Sound, None

(* Starting a frame: afterwards an active session whose frame did not end   *)
(* has one.                                                                 *)
LEMMA CopyGood ==
  ASSUME NEW x \in SessionState, Sound(x)
  PROVE  /\ startCopy(x) \in SessionState /\ Sound(startCopy(x))
         /\ Moving(startCopy(x)) /\ startCopy(x).active = x.active
<1>1. CASE x.active /\ x.frame = None
  <2> DEFINE y == [x EXCEPT !.status = "QUEUED", !.frame = "asked"]
  <2>1. startCopy(x) = y
    BY <1>1 DEF startCopy
  <2>2. y \in SessionState
    BY DEF SessionState
  <2>3. /\ y.status = "QUEUED" /\ y.frame = "asked"
        /\ y.active = x.active /\ y.stream = x.stream
        /\ y.event = x.event /\ y.buf = x.buf /\ y.answer = x.answer
    BY DEF SessionState
  <2> HIDE DEF y
  <2> QED
    BY <2>1, <2>2, <2>3 DEF Sound, Moving, None
<1>2. CASE ~(x.active /\ x.frame = None)
  <2>1. startCopy(x) = x
    BY <1>2 DEF startCopy
  <2>2. x.frame = None => ~x.active
    BY <1>2
  <2>3. x.frame \in {None, "asked", "copying", "ended"}
    BY DEF SessionState
  <2> QED
    BY <2>1, <2>2, <2>3 DEF Sound, Moving, None
<1> QED
  BY <1>1, <1>2

(* An active session has a frame once it started one.                       *)
LEMMA Started ==
  ASSUME NEW x \in SessionState
  PROVE  startCopy(x).frame = None => ~startCopy(x).active
<1>1. CASE x.active /\ x.frame = None
  BY <1>1 DEF startCopy, SessionState, None
<1>2. CASE ~(x.active /\ x.frame = None)
  BY <1>2 DEF startCopy
<1> QED
  BY <1>1, <1>2

(* The stream's states keep a session good.                                 *)
LEMMA StreamGood ==
  ASSUME NEW x \in SessionState, Sound(x), x.active
  PROVE  Good(StreamOn(x)) /\ Good(StreamOff(x)) /\ StreamOff(x).stream = "off"
<1>1. Good(StreamOn(x))
  <2> DEFINE on == [x EXCEPT !.stream = "on", !.event = None]
  <2>0. /\ on \in SessionState /\ on.stream = "on" /\ on.event = None
        /\ on.active = x.active /\ on.buf = x.buf /\ on.status = x.status
        /\ on.frame = x.frame /\ on.answer = x.answer
    BY DEF SessionState, None
  <2>2. StreamOn(x) = startCopy(IF x.status = "NONE" THEN on ELSE removeSessionFrameCallbacks(on))
    BY DEF StreamOn
  <2> HIDE DEF on
  <2>1. Sound(on)
    BY <2>0 DEF Sound, None
  <2> QED
    BY <2>0, <2>1, <2>2, CopyGood, RemoveSound DEF Good
<1>2. Good(StreamOff(x)) /\ StreamOff(x).stream = "off"
  <2> DEFINE off == [x EXCEPT !.stream = "off", !.event = None]
  <2>0. /\ off \in SessionState /\ off.stream = "off" /\ off.event = None
        /\ off.active = x.active /\ off.buf = x.buf /\ off.status = x.status
        /\ off.frame = x.frame /\ off.answer = x.answer
    BY DEF SessionState, None
  <2>2. StreamOff(x) = removeSessionFrameCallbacks(off)
    BY DEF StreamOff
  <2> HIDE DEF off
  <2>1. Sound(off)
    BY <2>0 DEF Sound, None
  <2> QED
    BY <2>0, <2>1, <2>2, RemoveSound DEF Good, Moving
<1> QED
  BY <1>1, <1>2

(* Destroying the stream keeps a session good.                              *)
LEMMA DestroyGood ==
  ASSUME NEW x, Good(x)
  PROVE  Good(destroyStream(x))
<1>0. x \in SessionState /\ Sound(x)
  BY DEF Good
<1>1. CASE ~x.active
  BY <1>1 DEF destroyStream
<1>2. CASE x.active /\ x.stream = None
  <2> DEFINE y == [x EXCEPT !.active = FALSE]
  <2>1. /\ y \in SessionState /\ y.active = FALSE
        /\ y.buf = x.buf /\ y.event = x.event /\ y.stream = x.stream
        /\ y.status = x.status /\ y.frame = x.frame /\ y.answer = x.answer
    BY <1>0 DEF SessionState
  <2>2. destroyStream(x) = y
    BY <1>2 DEF destroyStream
  <2> HIDE DEF y
  <2> QED
    BY <1>0, <1>2, <2>1, <2>2 DEF Good, Sound, Moving, None
<1>3. CASE x.active /\ x.stream # None
  <2> DEFINE r == removeSessionFrameCallbacks(x)
             y == [r EXCEPT !.active = FALSE, !.stream = None, !.buf = FALSE,
                            !.event = None]
  <2>1. r \in SessionState /\ Sound(r) /\ r.frame = None /\ r.answer = None
    BY <1>0, RemoveSound
  <2>2. destroyStream(x) = y
    BY <1>3 DEF destroyStream
  <2> HIDE DEF r
  <2>3. /\ y \in SessionState /\ y.active = FALSE /\ y.buf = FALSE
        /\ y.event = None /\ y.stream = None /\ y.frame = r.frame
        /\ y.answer = r.answer
    BY <2>1 DEF SessionState, None
  <2> HIDE DEF y
  <2> QED
    BY <2>1, <2>2, <2>3 DEF Good, Sound, Moving, None
<1> QED
  BY <1>1, <1>2, <1>3

(* A frame that failed keeps a session good.                                *)
LEMMA FailedGood ==
  ASSUME NEW x \in SessionState, Sound(x)
  PROVE  Good(onFailed(x))
<1> DEFINE y == [x EXCEPT !.status = "FAILED", !.frame = "ended", !.answer = None]
<1>1. /\ y \in SessionState /\ y.status = "FAILED" /\ y.frame = "ended"
      /\ y.active = x.active /\ y.buf = x.buf /\ y.event = x.event
      /\ y.stream = x.stream /\ y.answer = None
  BY DEF SessionState, None
<1>2. onFailed(x) = y
  BY DEF onFailed
<1> HIDE DEF y
<1> QED
  BY <1>1, <1>2 DEF Good, Sound, Moving, None

-----------------------------------------------------------------------------
(* The handlers                                                            *)

(* A call keeps a session good.                                             *)
LEMMA CallGood ==
  ASSUME NEW x, Good(x), x.call # None, NEW y \in HandleCall(x)
  PROVE  Good(y)
<1>0. x \in SessionState /\ Sound(x) /\ x.call \in Calls
  BY DEF Good, SessionState
<1>1. ASSUME NEW z \in SessionState, Good(z),
             NEW phase \in {"created", "selected", "started", "closed"}
      PROVE  Good(Answered(z, phase))
  <2>1. Answered(z, phase) \in SessionState
    BY DEF Answered, SessionState
  <2>2. \E w \in SessionState : w = Answered(z, phase)
    BY <2>1
  <2>3. PICK w \in SessionState : w = Answered(z, phase)
    BY <2>2
  <2>4. /\ w.active = z.active /\ w.buf = z.buf /\ w.status = z.status
        /\ w.frame = z.frame /\ w.stream = z.stream /\ w.event = z.event
        /\ w.armed = z.armed /\ w.passed = z.passed /\ w.retries = z.retries
        /\ w.answer = z.answer
    BY <2>3 DEF Answered, SessionState
  <2>5. Good(w)
    BY <1>1, <2>4 DEF Good, Sound, Moving
  <2> QED
    BY <2>3, <2>5
<1>2. \A z \in startSharing(x) : Good(z)
  <2> DEFINE started == [x EXCEPT !.active = TRUE]
             asked == startCopy(started)
             shown == [asked EXCEPT !.stream = "off"]
             paused == StreamOff(shown)
  <2>0. /\ started \in SessionState /\ started.active
        /\ started.stream = x.stream /\ started.event = x.event
        /\ started.buf = x.buf /\ started.status = x.status
        /\ started.frame = x.frame /\ started.answer = x.answer
        /\ started.armed = x.armed /\ started.passed = x.passed
        /\ started.retries = x.retries
    BY <1>0 DEF SessionState
  <2>1. Good(started) /\ started.active
    <3> HIDE DEF started
    <3> QED
      BY <1>0, <2>0 DEF Good, Sound, Moving, None
  <2>2. asked \in SessionState /\ Sound(asked) /\ asked.active
    <3> HIDE DEF started
    <3> QED
      BY <2>1, CopyGood DEF Good
  <2> HIDE DEF asked
  <2>3. shown \in SessionState /\ Sound(shown) /\ shown.active
    BY <2>2 DEF Sound, SessionState, None
  <2> HIDE DEF shown
  <2>4. Good(paused) /\ paused.active
    BY <2>3, StreamGood DEF Good, Sound, None
  <2>5. startSharing(x) = {started, onFailed(asked), queueNextShareFrame(paused),
                           queueNextShareFrame(StreamOn(paused))}
    BY DEF startSharing, asked, shown
  <2> HIDE DEF started, paused
  <2> QED
    BY <2>1, <2>2, <2>4, <2>5, FailedGood, QueueGood, StreamGood DEF Good
<1>3. Good(destroyStream(x))
  BY DestroyGood
<1>4. CASE x.call = "CreateSession"
  BY <1>0, <1>1, <1>4 DEF HandleCall
<1>5. CASE x.call = "SelectSources"
  BY <1>0, <1>1, <1>5 DEF HandleCall
<1>6. CASE x.call = "Start"
  <2>1. PICK z \in startSharing(x) : y = Answered(z, "started")
    BY <1>6 DEF HandleCall
  <2> QED
    BY <1>1, <1>2, <2>1 DEF Good
<1>7. CASE x.call = "Close"
  BY <1>1, <1>3, <1>7 DEF HandleCall, Good
<1> QED
  BY <1>0, <1>4, <1>5, <1>6, <1>7 DEF Calls

(* An answer of the compositor keeps a session good.                        *)
LEMMA AnswerGood ==
  ASSUME NEW x, Good(x), x.answer # None, NEW y \in HandleAnswer(x)
  PROVE  Good(y)
<1>0. x \in SessionState /\ Sound(x) /\ x.answer \in Answers
  BY DEF Good, SessionState
<1>1. Good(onReady(x))
  <2> DEFINE w == enqueue([x EXCEPT !.status = "READY"])
  <2>1. /\ w \in SessionState
        /\ w.active = x.active /\ w.buf = FALSE /\ w.event = x.event
        /\ w.stream = x.stream
    BY <1>0 DEF enqueue, SessionState
  <2>2. onReady(x) = ResetFrame(IF x.stream = None THEN w ELSE queueNextShareFrame(w))
    BY DEF onReady
  <2> HIDE DEF w
  <2>3. CASE x.stream = None
    BY <1>0, <2>1, <2>2, <2>3, ResetGood DEF Sound, None
  <2>4. CASE x.stream # None
    BY <1>0, <2>1, <2>2, <2>4, QueueArms, ResetGood DEF Sound
  <2> QED
    BY <2>3, <2>4
<1>2. Good(onFailed(x))
  BY <1>0, FailedGood
<1>3. ASSUME x.stream # None, x.answer = "bufferDone" PROVE Good(sendCopy(x))
  <2> DEFINE z == [x EXCEPT !.frame = "copying", !.answer = None, !.buf = TRUE,
                            !.retries = 0]
  <2>0. 0 \in 0..(MAX_RETRIES + 1)
    BY ShareAssumption
  <2>1. /\ z \in SessionState
        /\ z.frame = "copying" /\ z.status = x.status /\ z.answer = None
        /\ z.active = x.active /\ z.event = x.event /\ z.stream = x.stream
    BY <1>0, <2>0 DEF SessionState, None
  <2>2. sendCopy(x) = z
    BY DEF sendCopy
  <2> HIDE DEF z
  <2> QED
    BY <1>0, <1>3, <2>1, <2>2 DEF Good, Sound, Moving, None
<1>4. Good(Renegotiate(x))
  <2>1. PICK q \in SessionState :
          /\ q = queueNextShareFrame(x)
          /\ q.active = x.active /\ q.buf = x.buf /\ q.event = x.event
          /\ q.stream = x.stream
          /\ q.stream = "on" => q.armed + q.passed > 0
    BY <1>0, QueueArms
  <2> DEFINE w == [q EXCEPT !.status = "NONE"]
  <2>2. /\ w \in SessionState
        /\ w.active = q.active /\ w.buf = q.buf /\ w.event = q.event
        /\ w.stream = q.stream /\ w.armed = q.armed /\ w.passed = q.passed
    BY DEF SessionState
  <2>3. Renegotiate(x) = ResetFrame(w)
    BY <2>1 DEF Renegotiate
  <2> HIDE DEF w
  <2> QED
    BY <1>0, <2>1, <2>2, <2>3, ResetGood DEF Sound
<1>5. Good(OutOfBuffers(x))
  <2> DEFINE n == IF x.retries > MAX_RETRIES THEN x.retries ELSE x.retries + 1
             w == [x EXCEPT !.status = "NONE", !.retries = n]
  <2>0. n \in 0..(MAX_RETRIES + 1) /\ (x.retries >= MAX_RETRIES => n > MAX_RETRIES)
    BY <1>0, ShareAssumption DEF SessionState
  <2>2. OutOfBuffers(x) = ResetFrame(IF x.retries < MAX_RETRIES
                                     THEN queueNextShareFrame(w) ELSE w)
    BY DEF OutOfBuffers
  <2> HIDE DEF n
  <2>1. /\ w \in SessionState
        /\ w.active = x.active /\ w.buf = x.buf /\ w.event = x.event
        /\ w.stream = x.stream
        /\ w.retries = n
    BY <1>0, <2>0 DEF SessionState
  <2> HIDE DEF w
  <2>3. CASE x.retries < MAX_RETRIES
    BY <1>0, <2>1, <2>2, <2>3, QueueArms, ResetGood DEF Sound
  <2>4. CASE ~(x.retries < MAX_RETRIES)
    <3>1. w.retries > MAX_RETRIES
      BY <1>0, <2>0, <2>1, <2>4, ShareAssumption DEF SessionState
    <3> QED
      BY <1>0, <2>1, <2>2, <2>4, <3>1, ResetGood DEF Sound
  <2> QED
    BY <2>3, <2>4
<1>6. ASSUME x.stream = None PROVE Good(ResetFrame([x EXCEPT !.status = "NONE"]))
  <2> DEFINE w == [x EXCEPT !.status = "NONE"]
  <2>1. /\ w \in SessionState
        /\ w.active = x.active /\ w.buf = x.buf /\ w.event = x.event
        /\ w.stream = x.stream
    BY <1>0 DEF SessionState
  <2>2. ResetFrame([x EXCEPT !.status = "NONE"]) = ResetFrame(w)
    OBVIOUS
  <2> HIDE DEF w
  <2> QED
    BY <1>0, <1>6, <2>1, <2>2, ResetGood DEF Sound, None
<1> QED
  BY <1>0, <1>1, <1>2, <1>3, <1>4, <1>5, <1>6 DEF HandleAnswer, onBufferDone, Answers

(* An event of the stream keeps a session good.                             *)
LEMMA EventGood ==
  ASSUME NEW x, Good(x), x.event # None, NEW y \in HandleEvent(x)
  PROVE  Good(y)
<1>0. x \in SessionState /\ Sound(x) /\ x.active /\ x.event \in StreamEvents
  BY DEF Good, Sound, SessionState
<1>1. Good(pwStreamRemoveBuffer(x))
  <2> DEFINE w == [x EXCEPT !.buf = FALSE, !.event = None]
  <2>1. /\ w \in SessionState /\ w.buf = FALSE /\ w.event = None
        /\ w.active = x.active /\ w.stream = x.stream /\ w.status = x.status
        /\ w.frame = x.frame /\ w.answer = x.answer /\ w.armed = x.armed
        /\ w.passed = x.passed /\ w.retries = x.retries
    BY <1>0 DEF SessionState, None
  <2>2. pwStreamRemoveBuffer(x) = w
    BY DEF pwStreamRemoveBuffer
  <2> HIDE DEF w
  <2> QED
    BY <1>0, <2>1, <2>2 DEF Good, Sound, Moving
<1>2. Good(StreamOn(x)) /\ Good(StreamOff(x))
  BY <1>0, StreamGood
<1>3. Good(destroyStream(StreamOff(x)))
  BY <1>2, DestroyGood
<1> QED
  BY <1>0, <1>1, <1>2, <1>3 DEF HandleEvent, pwStreamStateChange, StreamEvents

(* Calling the timers keeps a session good.                                 *)
LEMMA TimersGood ==
  ASSUME NEW x, Good(x)
  PROVE  Good(HandleTimers(x))
<1>0. x \in SessionState /\ Sound(x)
  BY DEF Good
<1>1. CASE x.passed = 0
  BY <1>1 DEF HandleTimers
<1>2. CASE x.passed # 0
  <2>1. PICK z \in SessionState : z = startCopy(x) /\ Sound(z) /\ z.active = x.active
    BY <1>0, CopyGood
  <2> DEFINE y == [z EXCEPT !.passed = 0]
  <2>2. /\ y \in SessionState
        /\ y.active = z.active /\ y.buf = z.buf /\ y.event = z.event
        /\ y.stream = z.stream /\ y.frame = z.frame /\ y.status = z.status
        /\ y.answer = z.answer
    BY DEF SessionState
  <2>3. z.frame = None => ~z.active
    BY <2>1, <1>0, Started
  <2>4. z.frame \in {None, "asked", "copying", "ended"}
    BY DEF SessionState
  <2>5. HandleTimers(x) = y
    BY <1>2, <2>1 DEF HandleTimers
  <2> HIDE DEF y
  <2> QED
    BY <2>1, <2>2, <2>3, <2>4, <2>5 DEF Good, Sound, Moving, None
<1> QED
  BY <1>1, <1>2

-----------------------------------------------------------------------------
(* The invariant                                                           *)

GoodSessions ==
    /\ sess \in [Sessions -> SessionState]
    /\ \A s \in Sessions : Good(sess[s])

(* What arrives for a session keeps it good, when it may arrive.            *)
LEMMA ArrivalGood ==
  ASSUME GoodSessions, NEW s \in Sessions,
         FrontendCalls(s) \/ CompositorAnswers(s) \/ PipewireSends(s)
  PROVE  GoodSessions'
<1>0. sess[s] \in SessionState /\ Good(sess[s]) /\ Sound(sess[s])
  BY DEF GoodSessions, Good
<1>1. ASSUME NEW c \in Calls, Arrives(s, "call", c)
      PROVE  GoodSessions'
  <2> DEFINE y == [sess[s] EXCEPT !.call = c]
  <2>1. sess' = [sess EXCEPT ![s] = y]
    BY <1>1 DEF Arrives
  <2>2. /\ y \in SessionState
        /\ y.active = sess[s].active /\ y.buf = sess[s].buf
        /\ y.status = sess[s].status /\ y.frame = sess[s].frame
        /\ y.stream = sess[s].stream /\ y.event = sess[s].event
        /\ y.answer = sess[s].answer /\ y.retries = sess[s].retries
        /\ y.armed = sess[s].armed /\ y.passed = sess[s].passed
    BY <1>0 DEF SessionState
  <2> HIDE DEF y
  <2>3. Good(y)
    BY <1>0, <2>2 DEF Good, Sound, Moving
  <2> QED
    BY <2>1, <2>2, <2>3 DEF GoodSessions
<1>2. ASSUME NEW a \in Answers, Arrives(s, "answer", a),
             a = "bufferDone" => sess[s].frame = "asked"
      PROVE  GoodSessions'
  <2> DEFINE y == [sess[s] EXCEPT !.answer = a]
  <2>1. sess' = [sess EXCEPT ![s] = y]
    BY <1>2 DEF Arrives
  <2>2. /\ y \in SessionState
        /\ y.active = sess[s].active /\ y.buf = sess[s].buf
        /\ y.status = sess[s].status /\ y.frame = sess[s].frame
        /\ y.stream = sess[s].stream /\ y.event = sess[s].event
        /\ y.answer = a /\ y.retries = sess[s].retries
        /\ y.armed = sess[s].armed /\ y.passed = sess[s].passed
    BY <1>0 DEF SessionState
  <2> HIDE DEF y
  <2>3. Good(y)
    BY <1>0, <1>2, <2>2 DEF Good, Sound, Moving
  <2> QED
    BY <2>1, <2>2, <2>3 DEF GoodSessions
<1>3. ASSUME NEW e \in StreamEvents, Arrives(s, "event", e), sess[s].stream # None
      PROVE  GoodSessions'
  <2> DEFINE y == [sess[s] EXCEPT !.event = e]
  <2>1. sess' = [sess EXCEPT ![s] = y]
    BY <1>3 DEF Arrives
  <2>2. /\ y \in SessionState
        /\ y.active = sess[s].active /\ y.buf = sess[s].buf
        /\ y.status = sess[s].status /\ y.frame = sess[s].frame
        /\ y.stream = sess[s].stream
        /\ y.answer = sess[s].answer /\ y.retries = sess[s].retries
        /\ y.armed = sess[s].armed /\ y.passed = sess[s].passed
    BY <1>0 DEF SessionState
  <2> HIDE DEF y
  <2>3. Good(y)
    BY <1>0, <1>3, <2>2 DEF Good, Sound, Moving
  <2> QED
    BY <2>1, <2>2, <2>3 DEF GoodSessions
<1>4. CASE FrontendCalls(s)
  BY <1>1, <1>4 DEF FrontendCalls, Calls
<1>5. CASE CompositorAnswers(s)
  BY <1>2, <1>5 DEF CompositorAnswers, Answers
<1>6. CASE PipewireSends(s)
  <2>1. sess[s].buf => sess[s].stream # None
    BY <1>0 DEF Sound
  <2>2. PICK e \in StreamEvents : Arrives(s, "event", e) /\ sess[s].stream # None
    BY <1>6, <2>1 DEF PipewireSends, StreamEvents, None
  <2> QED
    BY <1>3, <2>2
<1> QED
  BY <1>4, <1>5, <1>6

(* A timer that runs out is still one that will call its session.           *)
LEMMA PassingGood ==
  ASSUME GoodSessions, NEW s \in Sessions, TimerPasses(s)
  PROVE  GoodSessions'
<1>0. sess[s] \in SessionState /\ Good(sess[s])
  BY DEF GoodSessions
<1> DEFINE y == [sess[s] EXCEPT !.armed = @ - 1, !.passed = @ + 1]
<1>1. sess' = [sess EXCEPT ![s] = y] /\ sess[s].armed > 0
  BY DEF TimerPasses, GoodSessions
<1>2. sess[s].armed - 1 \in Nat /\ sess[s].passed + 1 \in Nat
  BY <1>0, <1>1 DEF SessionState
<1>3. /\ y \in SessionState
      /\ y.active = sess[s].active /\ y.buf = sess[s].buf
      /\ y.status = sess[s].status /\ y.frame = sess[s].frame
      /\ y.stream = sess[s].stream /\ y.event = sess[s].event
      /\ y.answer = sess[s].answer /\ y.retries = sess[s].retries
      /\ y.passed = sess[s].passed + 1
  BY <1>0, <1>2 DEF SessionState
<1> HIDE DEF y
<1>4. y.armed + y.passed > 0
  BY <1>0, <1>3 DEF SessionState
<1>5. Good(y)
  BY <1>0, <1>3, <1>4 DEF Good, Sound, Moving
<1> QED
  BY <1>1, <1>3, <1>5 DEF GoodSessions

(* Every step keeps the sessions good.                                      *)
LEMMA SessionsStep ==
  ASSUME GoodSessions, [Next]_vars
  PROVE  GoodSessions'
<1>1. CASE UNCHANGED sess
  BY <1>1 DEF GoodSessions
<1>2. CASE ReadDBus
  BY <1>2, CallGood DEF ReadDBus, Reads, Waiting, GoodSessions, Good
<1>3. CASE ReadWayland
  BY <1>3, AnswerGood DEF ReadWayland, Reads, Waiting, GoodSessions, Good
<1>4. CASE ReadPipewire
  BY <1>4, EventGood DEF ReadPipewire, Reads, Waiting, GoodSessions, Good
<1>5. CASE CallTimers
  BY <1>5, TimersGood DEF CallTimers, GoodSessions, Good
<1>6. CASE Outside
  BY <1>6, ArrivalGood DEF Outside
<1>7. CASE TimePasses
  BY <1>7, PassingGood DEF TimePasses
<1> QED
  BY <1>1, <1>2, <1>3, <1>4, <1>5, <1>6, <1>7
  DEF Next, PollThread, TimerThread, MainThread, PollReturns, PollTimesOut, PollWakes,
      PollTerminates, PollNotifies, FindNearest, TimerTests, TimerBlocks,
      TimerTimesOut, TimerClears, CheckPassed, TimerWakes, MainTests, MainBlocks,
      MainTimesOut, MainLocks, MainClears, Hangup, Ended, vars

(* Every step keeps the threads, flags and locks in their types.            *)
LEMMA TypeStep ==
  ASSUME TypeOK, (sess \in [Sessions -> SessionState])', [Next]_vars
  PROVE  TypeOK'
<1> USE DEF TypeOK
<1>1. CASE PollThread
  <2>1. CASE PollReturns \/ PollTimesOut \/ PollNotifies
    BY <2>1 DEF PollReturns, PollTimesOut, PollNotifies, Notified, threads, locks, flags,
        Readable
  <2>2. CASE PollWakes \/ PollTerminates
    BY <2>2 DEF PollWakes, PollTerminates, Notified, threads, locks, flags
  <2> QED
    BY <1>1, <2>1, <2>2 DEF PollThread
<1>2. CASE TimerThread
  BY <1>2 DEF TimerThread, TimerGoes, FindNearest, TimerTests, TimerBlocks,
      TimerTimesOut, TimerClears, CheckPassed, TimerWakes, Notified, locks, flags
<1>3. CASE MainTests \/ MainBlocks \/ MainTimesOut \/ MainLocks \/ MainClears
  BY <1>3 DEF MainTests, MainBlocks, MainTimesOut, MainLocks, MainClears, locks, flags,
      Free
<1>4. CASE ReadDBus \/ ReadWayland \/ ReadPipewire \/ CallTimers
  <2>1. WakesTimer /\ timerShouldProcess' \in BOOLEAN
    BY <1>4 DEF ReadDBus, ReadWayland, ReadPipewire, CallTimers, Reads, WakesTimer
  <2>2. timer' \in {"nearest", "test", "block", "waiting", "clear", "passed", "wake",
                    "ended"}
    BY <2>1 DEF WakesTimer, Notified
  <2>3. main' \in {"wayland", "pipewire", "timers", "test"}
    BY <1>4 DEF ReadDBus, ReadWayland, ReadPipewire, CallTimers, Reads
  <2>4. UNCHANGED <<poll, shouldProcess, m_bTerminate, revents, hangup, nearest>>
    BY <1>4 DEF ReadDBus, ReadWayland, ReadPipewire, CallTimers, Reads
  <2>5. loopRequestMutex' \in {Free, "main"} /\ m_mEventLock' \in {Free, "main"}
    BY <1>4 DEF ReadDBus, ReadWayland, ReadPipewire, CallTimers, Reads, locks
  <2> QED
    BY <2>1, <2>2, <2>3, <2>4, <2>5
<1>5. CASE Hangup \/ Outside \/ TimePasses \/ Ended \/ UNCHANGED vars
  <2>1. CASE Hangup
    BY <2>1 DEF Hangup, threads, locks, flags
  <2>2. CASE Outside
    BY <2>2 DEF Outside, threads, locks, flags
  <2>3. CASE TimePasses
    BY <2>3 DEF TimePasses, threads, locks, flags
  <2>4. CASE Ended \/ UNCHANGED vars
    BY <2>4 DEF Ended, vars, threads, locks, flags
  <2> QED
    BY <1>5, <2>1, <2>2, <2>3, <2>4
<1> QED
  BY <1>1, <1>2, <1>3, <1>4, <1>5 DEF Next, MainThread

(* Nothing is shared at first.                                              *)
LEMMA InitGood ==
  ASSUME Init
  PROVE  TypeOK /\ GoodSessions
<1>1. NoSession \in SessionState
  BY ShareAssumption DEF NoSession, SessionState
<1>2. Good(NoSession)
  BY <1>1 DEF NoSession, Good, Sound, Moving, None
<1>3. GoodSessions
  BY <1>1, <1>2 DEF Init, ShareInit, GoodSessions
<1> QED
  BY <1>3 DEF Init, TypeOK, GoodSessions, Free

-----------------------------------------------------------------------------
LEMMA Invariant == Spec => [](TypeOK /\ GoodSessions)
<1>1. Init => TypeOK /\ GoodSessions
  BY InitGood
<1>2. TypeOK /\ GoodSessions /\ [Next]_vars => (TypeOK /\ GoodSessions)'
  <2> SUFFICES ASSUME TypeOK, GoodSessions, [Next]_vars
               PROVE  (TypeOK /\ GoodSessions)'
    OBVIOUS
  <2>1. GoodSessions'
    BY SessionsStep
  <2>2. TypeOK'
    BY <2>1, TypeStep DEF GoodSessions
  <2> QED
    BY <2>1, <2>2
<1> QED
  BY <1>1, <1>2, PTL DEF Spec

(* The threads, locks and sessions of the portal keep their types.          *)
THEOREM TypeCorrect == Spec => []TypeOK
BY Invariant, PTL

(* A session that streams always has its next frame coming, whatever calls, *)
(* answers, stream events and timers the main thread handles in one turn    *)
(* (Screencopy.cpp:388-413, 437-488, 607-623, 712-741).                     *)
THEOREM SessionsNeverStall == Spec => []NeverStalls
<1>1. GoodSessions => NeverStalls
  BY DEF GoodSessions, Good, Moving, NeverStalls
<1> QED
  BY <1>1, Invariant, PTL
=============================================================================
