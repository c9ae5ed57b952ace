--------------------------- MODULE H3StreamProofs ---------------------------
(***************************************************************************)
(* Proofs about H3Stream and the TimedBody under it, for any read timeout, *)
(* any number of frames and any pace of the client, the backend and the    *)
(* clock.                                                                  *)
(***************************************************************************)
EXTENDS H3Stream, TLAPS

\* Every frame of the body is with the client, dropped, in the hands of
\* drive_request or still to be polled, unless the request failed; until the
\* handler has answered nothing has moved; trailers were the last frame; only the
\* clean end of a body that is empty leads to finish(); and a stream ends when
\* drive_request returns, by a FIN only between two frames.
FramesInv ==
  /\ stream # "failed" =>
       sent + dropped + ready + (IF stream = "sending" THEN 1 ELSE 0) = frames
  /\ stream \in {"none", "resolve", "collect", "handle"} =>
       ready = 0 /\ frames = 0 /\ inner = "open" /\ sleep = Unarmed
  /\ stream = "head" => sent = 0
  /\ dropped = 1 => ready = 0 /\ inner = "end"
  /\ stream \in {"finish", "done"} => state = "end" /\ ready = 0
  /\ stream \notin {"done", "failed"} => ending = "none"
  /\ stream = "done" => ending = "fin"
  /\ ending = "fin" => sent = 0 \/ sent + dropped = frames

\* An armed Sleep that no frame has made stale measures the backend's silence.
SilenceInv == ready = 0 /\ sleep # Unarmed => silent + sleep >= Timeout

\* The types, FramesInv and SilenceInv are inductive together: the bounds on
\* sent and dropped come from FramesInv.
H3Inv == H3TypeOK /\ FramesInv /\ SilenceInv

\* H3Inv without the two flags of the task.
Rest ==
  /\ ready \in 0..Queue /\ inner \in {"open", "end", "error"} /\ sleep \in 0..Unarmed
  /\ state \in {"open", "end", "error", "timeout"} /\ silent \in 0..Timeout
  /\ conn \in {"open", "closed"}
  /\ stream \in {"none", "resolve", "collect", "handle", "head", "body", "sending", "finish",
                 "done", "failed"}
  /\ ending \in {"none", "fin", "cut"}
  /\ sent \in 0..MaxFrames /\ dropped \in 0..1 /\ frames \in 0..MaxFrames
  /\ body \in {"none", "Synthetic", "Streaming"}
  /\ FramesInv /\ SilenceInv

\* The two flags of the task are Booleans.
LEMMA FlagsStep ==
  ASSUME waits \in BOOLEAN, woken \in BOOLEAN, [H3Next]_allVars
  PROVE  waits' \in BOOLEAN /\ woken' \in BOOLEAN
<1>1. ASSUME UNCHANGED <<waits, woken>> PROVE waits' \in BOOLEAN /\ woken' \in BOOLEAN
  BY <1>1, Zenon
<1>2. ASSUME UNCHANGED waits, woken' = TRUE PROVE waits' \in BOOLEAN /\ woken' \in BOOLEAN
  BY <1>2, Zenon
<1>3. ASSUME waits' = FALSE, UNCHANGED woken PROVE waits' \in BOOLEAN /\ woken' \in BOOLEAN
  BY <1>3, Zenon
<1>4. CASE Tick
  BY <1>4, Zenon DEF Tick
<1>5. CASE BodyPending
  BY <1>5, Zenon DEF BodyPending, PollPending
<1>6. CASE DataFrame \/ Trailers \/ BodyOver
  BY <1>3, <1>6, Zenon DEF DataFrame, Trailers, BodyOver, PollFrame, PollEnd, PollTimeout, Clear
<1>7. CASE SendResponse \/ SendData \/ BackendFrame \/ BackendEnds \/ Wake
  BY <1>2, <1>7, Zenon
  DEF SendResponse, SendData, Wakes, BackendFrame, Frame, BackendEnds, InnerEnds, Wake
<1>8. CASE AcceptStream \/ ConnectionEnds \/ ResolveRequest \/ BodyCollected \/ Synthetic \/ FromUpstream \/ FinishStream
           \/ StreamError \/ Over \/ UNCHANGED allVars
  <2>1. UNCHANGED <<waits, woken>>
    BY <1>8 DEF AcceptStream, ConnectionEnds, ResolveRequest, BodyCollected, Synthetic, FromUpstream, FinishStream,
       StreamError, Over, allVars, vars
  <2> QED
    BY <1>1, <2>1
<1> QED
  BY <1>4, <1>5, <1>6, <1>7, <1>8, Zenon DEF H3Next

\* H3Inv is inductive.
LEMMA H3Step == H3Inv /\ [H3Next]_allVars => H3Inv'
<1> SUFFICES ASSUME H3Inv, [H3Next]_allVars PROVE H3Inv'
  OBVIOUS
<1>a. Rest /\ waits \in BOOLEAN /\ woken \in BOOLEAN
  BY DEF H3Inv, H3TypeOK, TypeOK, Rest
<1>b. SUFFICES Rest'
  BY <1>a, FlagsStep DEF H3Inv, H3TypeOK, TypeOK, Rest
<1> USE <1>a, TimedBodyAssumption, H3StreamAssumption
    DEF Rest, FramesInv, SilenceInv, Unarmed, Moves, Stream, vars, h3Vars, copied
<1>1. CASE ResolveRequest
  BY <1>1 DEF ResolveRequest
<1>2. CASE BodyCollected
  BY <1>2 DEF BodyCollected
<1>3. CASE Synthetic
  BY <1>3 DEF Synthetic
<1>4. CASE FromUpstream
  BY <1>4 DEF FromUpstream
<1>5. CASE SendResponse
  BY <1>5 DEF SendResponse, Wakes
<1>6. CASE SendData
  BY <1>6 DEF SendData, Wakes
<1>7. CASE DataFrame
  BY <1>7 DEF DataFrame, PollFrame, Clear
<1>8. CASE Trailers
  BY <1>8 DEF Trailers, PollFrame, Clear
<1>9. CASE BodyOver
  BY <1>9 DEF BodyOver, PollEnd, PollTimeout, AfterBody, DropStream, Clear
<1>10. CASE BodyPending
  BY <1>10 DEF BodyPending, PollPending
<1>11. CASE FinishStream
  BY <1>11 DEF FinishStream
<1>12. CASE StreamError
  BY <1>12 DEF StreamError, DropStream
<1>13. CASE BackendFrame
  BY <1>13 DEF BackendFrame, Streaming, Frame
<1>14. CASE BackendEnds
  BY <1>14 DEF BackendEnds, Streaming, InnerEnds
<1>15. CASE Wake /\ UNCHANGED h3Vars
  BY <1>15 DEF Wake
<1>16. CASE Tick /\ UNCHANGED h3Vars
  BY <1>16 DEF Tick
<1>17. CASE Over \/ UNCHANGED allVars
  BY <1>17 DEF Over, allVars
<1>18. CASE AcceptStream
  BY <1>18 DEF AcceptStream
<1>19. CASE ConnectionEnds
  BY <1>19 DEF ConnectionEnds
<1> QED
  BY Zenon, <1>1, <1>2, <1>3, <1>4, <1>5, <1>6, <1>7, <1>8, <1>9, <1>10, <1>11, <1>12, <1>13,
     <1>14, <1>15, <1>16, <1>17, <1>18, <1>19 DEF H3Next

\* H3Inv holds in every state.
LEMMA H3InvCorrect == H3Spec => []H3Inv
<1>1. H3Init => H3Inv
  <2>1. H3Init => Rest
    BY TimedBodyAssumption, H3StreamAssumption
    DEF H3Init, Init, Rest, FramesInv, SilenceInv, Unarmed
  <2>2. H3Init => waits \in BOOLEAN /\ woken \in BOOLEAN
    BY Zenon DEF H3Init, Init
  <2> QED
    BY <2>1, <2>2 DEF H3Inv, H3TypeOK, TypeOK, Rest
<1> QED
  BY <1>1, H3Step, PTL DEF H3Spec

\* The stream's and the body's state keep their types; in particular no more
\* frames are sent than the body produced and at most one is dropped.
THEOREM H3TypeCorrect == H3Spec => []H3TypeOK
<1>1. H3Inv => H3TypeOK
  BY DEF H3Inv
<1> QED
  BY <1>1, H3InvCorrect, PTL

\* drive_request returns Ok only for a whole response, and whatever ends a stream
\* by a FIN, finish() or the drop of a stream whose body failed, the client has
\* every frame that came before or no data at all.
THEOREM FinishCorrect == H3Spec => []FinAfterAllFrames
<1>1. H3Inv => FinAfterAllFrames
  BY TimedBodyAssumption, H3StreamAssumption
  DEF H3Inv, H3TypeOK, TypeOK, FramesInv, FinAfterAllFrames
<1> QED
  BY <1>1, H3InvCorrect, PTL

\* poll_frame reports ReadTimeout only after the backend was silent for the
\* whole timeout, however long the client took over each frame.
THEOREM TimeoutCorrect == H3Spec => TimeoutMeansSilence
<1> DEFINE Silent == state' = "timeout" /\ state = "open" => silent = Timeout /\ ready = 0
<1>1. H3Inv /\ [H3Next]_allVars => [Silent]_allVars
  <2> SUFFICES ASSUME H3Inv, H3Next, state' = "timeout", state = "open"
               PROVE  silent = Timeout /\ ready = 0
    OBVIOUS
  <2>1. PollTimeout
    BY DEF H3Next, AcceptStream, ConnectionEnds, ResolveRequest, BodyCollected, Synthetic, FromUpstream, SendResponse, Wakes,
       SendData, DataFrame, Trailers, PollFrame, BodyOver, PollEnd, BodyPending, PollPending,
       FinishStream, StreamError, Over, BackendFrame, Frame, BackendEnds, InnerEnds, Wake, Tick,
       vars, h3Vars, allVars, H3Inv, H3TypeOK, TypeOK
  <2> QED
    BY <2>1, TimedBodyAssumption DEF PollTimeout, H3Inv, H3TypeOK, TypeOK, SilenceInv, Unarmed
<1> QED
  BY <1>1, H3InvCorrect, PTL DEF H3Spec, TimeoutMeansSilence

-----------------------------------------------------------------------------
(* What the wait for a frame rests on *)

\* No wakeup is lost: a stream whose task has gone to sleep over the next frame
\* has nothing to poll, and a timer that has been polled and is still running, so
\* it is woken by the frame, by the end of the body or by the timer.
NoLostWakeup ==
  stream = "body" /\ ~woken =>
    /\ ready = 0 /\ inner = "open" /\ state = "open"
    /\ waits /\ sleep \in 1..Timeout

\* poll_frame has returned nothing for good while the loop over the body runs.
OpenInv ==
  stream \in {"none", "resolve", "collect", "handle", "head", "body", "sending"} => state = "open"

\* The two hold in every state.  This is the part of SilenceEnds that does not
\* depend on fairness: poll_frame arms the Sleep and polls it before it returns
\* Pending, and every frame that clears it is polled by a task that is awake.
THEOREM WakeupCorrect == H3Spec => []NoLostWakeup
<1>1. H3Init => OpenInv /\ NoLostWakeup
  BY DEF H3Init, Init, OpenInv, NoLostWakeup
<1>2. ASSUME H3Inv, OpenInv, [H3Next]_allVars PROVE OpenInv'
  <2> USE <1>2 DEF OpenInv, Moves, Stream, vars, h3Vars, copied
  <2>1. CASE BodyOver
    BY <2>1, TimedBodyAssumption DEF BodyOver, AfterBody
  <2>2. CASE ~BodyOver
    BY <2>2 DEF H3Next, AcceptStream, ConnectionEnds, ResolveRequest, BodyCollected, Synthetic, FromUpstream, SendResponse, Wakes,
       SendData, DataFrame, Trailers, PollFrame, BodyPending, PollPending,
       FinishStream, StreamError, Over, BackendFrame, Frame, BackendEnds, InnerEnds, Wake, Tick, allVars
  <2> QED
    BY <2>1, <2>2
<1>3. ASSUME H3Inv, OpenInv, NoLostWakeup, [H3Next]_allVars PROVE NoLostWakeup'
  <2> SUFFICES ASSUME stream' = "body", ~woken'
               PROVE  /\ ready' = 0 /\ inner' = "open" /\ state' = "open"
                      /\ waits' /\ sleep' \in 1..Timeout
    BY DEF NoLostWakeup
  <2>1. CASE BodyPending
    <3>1. /\ ready' = 0 /\ inner' = "open" /\ state' = "open"
          /\ sleep' = IF sleep = Unarmed THEN Timeout ELSE sleep
          /\ sleep # 0 /\ sleep \in 0..Unarmed
      BY <1>3, <2>1 DEF BodyPending, PollPending, Polled, H3Inv, H3TypeOK, TypeOK
    <3>2. waits'
      BY Zenon, <2>1 DEF BodyPending, PollPending
    <3>3. sleep' \in 1..Timeout
      BY <3>1, TimedBodyAssumption DEF Unarmed
    <3> QED
      BY <3>1, <3>2, <3>3
  <2>2. CASE Tick /\ UNCHANGED h3Vars
    <3>1. ~woken /\ ~(waits /\ sleep = 1) /\ stream = "body"
      BY Zenon, <2>2 DEF Tick, h3Vars
    <3>2. /\ ready = 0 /\ inner = "open" /\ state = "open"
          /\ waits /\ sleep \in 1..Timeout
      BY Zenon, <1>3, <3>1 DEF NoLostWakeup
    <3>3. sleep # 1
      BY Zenon, <3>1, <3>2
    <3>4. sleep' = sleep - 1
      BY <2>2, <3>2 DEF Tick
    <3>5. sleep' \in 1..Timeout
      BY <3>2, <3>3, <3>4, TimedBodyAssumption
    <3>6. UNCHANGED <<ready, inner, waits, state>>
      BY <2>2 DEF Tick
    <3> QED
      BY Zenon, <3>2, <3>5, <3>6
  <2>3. CASE UNCHANGED allVars \/ Over \/ ConnectionEnds
    <3>1. UNCHANGED <<ready, inner, sleep, waits, woken, state, stream>>
      BY <2>3 DEF Over, ConnectionEnds, allVars, vars, h3Vars
    <3> QED
      BY Zenon, <1>3, <3>1 DEF NoLostWakeup
  <2>4. ~(SendResponse \/ SendData \/ BackendFrame \/ BackendEnds \/ Wake)
    BY Zenon DEF SendResponse, SendData, Wakes, BackendFrame, Frame, BackendEnds, InnerEnds, Wake
  <2>5. ~Trailers
    <3>1. Trailers => woken
      BY Zenon DEF Trailers, PollFrame, Polled
    <3>2. Trailers => UNCHANGED woken
      BY DEF Trailers, PollFrame
    <3> QED
      BY Zenon, <3>1, <3>2
  <2>6. ~(AcceptStream \/ ResolveRequest \/ BodyCollected \/ Synthetic \/ FromUpstream \/ DataFrame
          \/ BodyOver \/ FinishStream \/ StreamError)
    BY DEF AcceptStream, ResolveRequest, BodyCollected, Synthetic, FromUpstream, DataFrame,
       BodyOver, AfterBody, FinishStream, StreamError, Stream, Moves
  <2> QED
    BY Zenon, <1>3, <2>1, <2>2, <2>3, <2>4, <2>5, <2>6 DEF H3Next
<1> QED
  BY <1>1, <1>2, <1>3, H3InvCorrect, PTL DEF H3Spec
=============================================================================
