------------------------------ MODULE H3Stream ------------------------------
(***************************************************************************)
(* An HTTP/3 connection and one request stream of it (serve_connection and *)
(* drive_request of crates/conduit-h3).  The accept loop spawns a task for *)
(* the stream, which outlives the loop: the task collects the request      *)
(* body, calls the handler and copies its response to the client frame by  *)
(* frame.  The response is either a synthetic one or streams from the      *)
(* backend through TimedBody, whose poll_frame runs only while the task    *)
(* waits for a frame: never while it waits for the client to take the      *)
(* previous one.                                                           *)
(***************************************************************************)
EXTENDS TimedBody

CONSTANT MaxFrames  \* bound on the frames of a response

ASSUME H3StreamAssumption == MaxFrames \in Nat \ {0}

VARIABLES
  conn,     \* whether serve_connection still accepts streams
  stream,   \* what drive_request awaits
  ending,   \* how the client sees the stream end: by a FIN, or cut (a reset,
            \* or with its connection)
  sent,     \* data frames handed to send_data
  dropped,  \* frames that are not data
  frames,   \* history: frames the response body has produced
  body      \* the variant of ProxyBody the handler answered with

h3Vars == <<conn, stream, ending, sent, dropped, frames, body>>
copied == <<sent, dropped, frames, body>>
allVars == <<vars, h3Vars>>

H3Init ==
  /\ Init
  /\ conn = "open"
  /\ stream = "none"
  /\ ending = "none"
  /\ sent = 0 /\ dropped = 0 /\ frames = 0 /\ body = "none"

Moves(from, to) == stream = from /\ stream' = to /\ UNCHANGED <<conn, ending>>

-----------------------------------------------------------------------------
(* serve_connection *)

\* accept() returns a stream, and a task is spawned for it.
AcceptStream == conn = "open" /\ Moves("none", "resolve") /\ UNCHANGED <<vars, copied>>

\* accept() returns None or an error: the loop ends and its h3 connection is
\* dropped.  The stream's task is not told; it finds out at its next await.
ConnectionEnds ==
  /\ conn = "open" /\ conn' = "closed"
  /\ UNCHANGED <<vars, stream, ending, copied>>

-----------------------------------------------------------------------------
(* drive_request, from one await to the next *)

\* An await of the h3 stream succeeds.
Stream(from, to) == conn = "open" /\ Moves(from, to)

ResolveRequest == Stream("resolve", "collect") /\ UNCHANGED <<vars, copied>>

\* recv_data has returned None; until then a chunk changes nothing but the buffer.
BodyCollected == Stream("collect", "handle") /\ UNCHANGED <<vars, copied>>

\* The handler answers with an error page: one frame, all there.
Synthetic ==
  /\ Moves("handle", "head")
  /\ ready' = 1 /\ inner' = "end" /\ frames' = 1 /\ body' = "Synthetic"
  /\ UNCHANGED <<sleep, waits, woken, state, silent, sent, dropped>>

\* The handler answers with a response of the backend, whose body is now awaited.
FromUpstream ==
  /\ Moves("handle", "head")
  /\ silent' = 0 /\ body' = "Streaming"
  /\ UNCHANGED <<ready, inner, sleep, waits, woken, state, sent, dropped, frames>>

\* send_response, or send_data, is done: the loop polls the body.
Wakes == woken' = TRUE /\ UNCHANGED <<ready, inner, sleep, waits, state, silent>>

SendResponse == Stream("head", "body") /\ Wakes /\ UNCHANGED copied

SendData ==
  /\ Stream("sending", "body")
  /\ sent' = sent + 1
  /\ Wakes
  /\ UNCHANGED <<dropped, frames, body>>

DataFrame == PollFrame /\ Moves("body", "sending") /\ UNCHANGED copied

\* The last frame of a backend's body may be trailers, which are dropped.
Trailers ==
  /\ PollFrame /\ ready = 1 /\ inner = "end"
  /\ stream = "body" /\ body = "Streaming"
  /\ dropped' = dropped + 1
  /\ UNCHANGED <<conn, stream, ending, sent, frames, body>>

\* Mutant: an error of the body ends the loop as its end does.
AfterBodyMut(how) == "finish"

\* `frame.map_err(Into::into)?`: an error returns before finish().
AfterBody(how) == IF how = "end" THEN "finish" ELSE "failed"

\* drive_request returns and drops its stream.  quinn finishes a stream that is
\* dropped as finish() does, if it still has its connection.
DropStream == ending' = IF conn = "open" THEN "fin" ELSE "cut"

BodyOver ==
  /\ PollEnd \/ PollTimeout
  /\ stream = "body" /\ stream' = AfterBody(state')
  /\ IF stream' = "failed" THEN DropStream ELSE UNCHANGED ending
  /\ UNCHANGED <<conn, copied>>

BodyPending == PollPending /\ stream = "body" /\ UNCHANGED h3Vars

FinishStream ==
  /\ conn = "open"
  /\ stream = "finish" /\ stream' = "done"
  /\ ending' = "fin"
  /\ UNCHANGED <<vars, conn, copied>>

\* Mutant: an error of recv_data does not end the request.
StreamErrorMut ==
  /\ stream \in {"resolve", "head", "sending", "finish"}
  /\ stream' = "failed"
  /\ ending' = "cut" \/ (stream # "sending" /\ DropStream)
  /\ UNCHANGED <<vars, conn, copied>>

\* An await of the h3 stream fails, and drive_request returns.  send_data fails
\* only for a client that is gone or has stopped the stream, which resets it.
StreamError ==
  /\ stream \in {"resolve", "collect", "head", "sending", "finish"}
  /\ stream' = "failed"
  /\ ending' = "cut" \/ (stream # "sending" /\ DropStream)
  /\ UNCHANGED <<vars, conn, copied>>

-----------------------------------------------------------------------------
(* The backend and the clock *)

Streaming == stream \in {"head", "body", "sending"}

BackendFrame ==
  /\ Streaming /\ frames < MaxFrames
  /\ Frame
  /\ frames' = frames + 1
  /\ UNCHANGED <<conn, stream, ending, sent, dropped, body>>

BackendEnds == Streaming /\ (\E how \in {"end", "error"} : InnerEnds(how)) /\ UNCHANGED h3Vars

Idle == stream \in {"none", "done", "failed"}

Over == conn = "closed" /\ Idle /\ UNCHANGED allVars

H3Next ==
  \/ AcceptStream \/ ConnectionEnds
  \/ ResolveRequest \/ BodyCollected \/ Synthetic \/ FromUpstream \/ SendResponse
  \/ DataFrame \/ Trailers \/ SendData \/ BodyOver \/ BodyPending \/ FinishStream
  \/ StreamError \/ Over
  \/ BackendFrame \/ BackendEnds
  \/ Wake /\ UNCHANGED h3Vars
  \/ Tick /\ UNCHANGED h3Vars

PollBody == DataFrame \/ Trailers \/ BodyOver \/ BodyPending

\* Time passes, a task that is woken polls, the handler answers (module Upstream:
\* EveryRequestEnds) and quinn fails the awaits on a connection that is gone;
\* nothing is assumed of the client or the backend.
H3Spec ==
  /\ H3Init /\ [][H3Next]_allVars
  /\ WF_allVars(Tick /\ UNCHANGED h3Vars) /\ WF_allVars(PollBody)
  /\ WF_allVars(Synthetic \/ FromUpstream)
  /\ WF_allVars(conn = "closed" /\ StreamError)

-----------------------------------------------------------------------------
H3TypeOK ==
  /\ TypeOK
  /\ conn \in {"open", "closed"}
  /\ stream \in {"none", "resolve", "collect", "handle", "head", "body", "sending", "finish",
                 "done", "failed"}
  /\ ending \in {"none", "fin", "cut"}
  /\ sent \in 0..MaxFrames /\ dropped \in 0..1 /\ frames \in 0..MaxFrames
  /\ body \in {"none", "Synthetic", "Streaming"}

\* What a FIN tells the client.  drive_request returns Ok only for a whole
\* response: the body came to its clean end and every frame of it was taken, but
\* for trailers.  A FIN says less: the stream that drive_request drops on the read
\* timeout or an error of the backend is finished too, so a response cut short
\* ends like a whole one.  Even then nothing is missing in the middle: the client
\* has every frame that came before, or no data at all.
FinAfterAllFrames ==
  /\ stream = "done" => ending = "fin" /\ state = "end" /\ sent + dropped = frames
  /\ ending = "fin" => sent = 0 \/ sent + dropped = frames

\* poll_frame fails with ReadTimeout only when the backend has sent nothing for
\* the whole timeout: never when frames keep coming, however long the client
\* takes over each of them, and never with a frame waiting.
TimeoutMeansSilence ==
  [][state' = "timeout" /\ state = "open" => silent = Timeout /\ ready = 0]_allVars

\* No wakeup is lost: a stream that waits for a frame of a silent backend
\* fails, unless the backend comes back.
SilenceEnds == (stream = "body" /\ silent = Timeout) ~> (stream # "body" \/ silent < Timeout)

\* The task of a stream outlives the accept loop, which neither waits for it nor
\* aborts it, yet it does not run for ever: once the connection is gone the task
\* ends, whether it waits for the request body, the handler, a silent backend or
\* the client.
OrphanEnds == (conn = "closed") ~> Idle
=============================================================================
