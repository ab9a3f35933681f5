------------------------------- MODULE Channel -------------------------------
(***************************************************************************)
(* One request over the control channel: Task.Request, SendObject,         *)
(* ReceiveObject and the completion signal of task/task.go, and the loop   *)
(* of handler/handler.go that serves it.                                   *)
(*                                                                         *)
(* A request travels on a stream of its own as type, length and body.  A   *)
(* write arrives as one frame, but for a body larger than the stream's     *)
(* window, which arrives in several.  The reader makes one Read per field, *)
(* which returns what has arrived.                                         *)
(***************************************************************************)
EXTENDS Integers, Sequences, FiniteSets

CONSTANT MaxFrames   \* frames of the largest body or reply

ASSUME FramesAssumption == MaxFrames \in Nat \ {0}

VARIABLES body,      \* frames of the request's body, 0 for none
          reply,     \* frames of the handler's reply
          toHandler, \* frames on their way: fields of the request
          arrived,   \* frames the handler has yet to read
          requester, \* place of the requester
          handler,   \* place of the handler's goroutine
          got,       \* frames of the body the handler was called with
          back,      \* frames of the reply on their way
          received,  \* frames of the reply the requester took for the whole
          session    \* the session is up

channelVars == <<body, reply, toHandler, arrived, requester, handler, got, back,
                 received, session>>

Frames(field, n) == [k \in 1..n |-> field]

ChannelInit ==
  /\ body \in 0..MaxFrames /\ reply \in 1..MaxFrames
  /\ toHandler = <<>> /\ arrived = <<>> /\ back = <<>>
  /\ requester = "open" /\ handler = "none"
  /\ got = 0 /\ received = 0 /\ session = TRUE

\* Mutant: the length is not sent for an empty body.
MutRequest ==
  /\ requester = "open" /\ session
  /\ toHandler' = <<"type">> \o Frames("body", body)
  /\ requester' = "length"
  /\ UNCHANGED <<body, reply, arrived, handler, got, back, received, session>>

\* Task.Request: the stream is opened and the fields are written.
Request ==
  /\ requester = "open" /\ session
  /\ toHandler' = <<"type", "length">> \o Frames("body", body)
  /\ requester' = "length"
  /\ UNCHANGED <<body, reply, arrived, handler, got, back, received, session>>

\* The next frame arrives, in order.
Arrive ==
  /\ session /\ toHandler # <<>>
  /\ arrived' = Append(arrived, Head(toHandler))
  /\ toHandler' = Tail(toHandler)
  /\ handler' = IF handler = "none" THEN "type" ELSE handler
  /\ UNCHANGED <<body, reply, requester, got, back, received, session>>

\* One Read for the type and one for the length.  A handler function is called
\* at once when there is no body.
ReadField ==
  /\ handler \in {"type", "length"} /\ arrived # <<>>
  /\ arrived' = Tail(arrived)
  /\ handler' = IF Head(arrived) # handler THEN "misread"
                ELSE IF handler = "type" THEN "length"
                ELSE IF body > 0 THEN "body" ELSE "call"
  /\ UNCHANGED <<body, reply, toHandler, requester, got, back, received, session>>

\* One Read for the body, without a deadline: what has arrived of it.
ReadBody ==
  /\ handler = "body" /\ arrived # <<>>
  /\ arrived' = <<>> /\ got' = Len(arrived)
  /\ handler' = "call"
  /\ UNCHANGED <<body, reply, toHandler, requester, back, received, session>>

\* The deadline of a read passes or the session fails: the goroutine returns.
HandlerGivesUp ==
  /\ handler \in {"type", "length"} \/ (handler = "body" /\ ~session)
  /\ arrived = <<>>
  /\ handler' = "ended"
  /\ UNCHANGED <<body, reply, toHandler, arrived, requester, got, back, received, session>>

\* The handler function: it sends its object, or confirms, or fails; without
\* one for the type nothing is sent.  The stream is closed.
Handle ==
  /\ handler = "call"
  /\ handler' = "ended"
  /\ \/ session /\ back' = <<"length">> \o Frames("body", reply)
     \/ UNCHANGED back
  /\ UNCHANGED <<body, reply, toHandler, arrived, requester, got, received, session>>

\* ReceiveObject: the length first.
ReceiveLength ==
  /\ requester = "length" /\ back # <<>>
  /\ back' = Tail(back)
  /\ requester' = "body"
  /\ UNCHANGED <<body, reply, toHandler, arrived, handler, got, received, session>>

\* ... then one Read for the body, which takes the frames there are.
ReceiveObject ==
  /\ requester = "body"
  /\ \E n \in 1..Len(back) :
       received' = n /\ back' = SubSeq(back, n + 1, Len(back))
  /\ requester' = "done"
  /\ UNCHANGED <<body, reply, toHandler, arrived, handler, got, session>>

\* A deadline of the requester's passes: it gives up, while the handler may
\* still be at work; so it does when the session is gone.
RequesterGivesUp ==
  /\ requester \in {"length", "body"} \/ (requester = "open" /\ ~session)
  /\ requester' = "failed"
  /\ UNCHANGED <<body, reply, toHandler, arrived, handler, got, back, received, session>>

SessionEnds ==
  /\ session
  /\ session' = FALSE
  /\ toHandler' = <<>> /\ back' = <<>>
  /\ UNCHANGED <<body, reply, arrived, requester, handler, got, received>>

ChannelNext ==
  \/ Request \/ Arrive \/ ReadField \/ ReadBody \/ HandlerGivesUp \/ Handle
  \/ ReceiveLength \/ ReceiveObject \/ RequesterGivesUp \/ SessionEnds

ChannelSpec == ChannelInit /\ [][ChannelNext]_channelVars

ChannelTypeOK ==
  /\ body \in 0..MaxFrames /\ reply \in 1..MaxFrames
  /\ requester \in {"open", "length", "body", "done", "failed"}
  /\ handler \in {"none", "type", "length", "body", "call", "misread", "ended"}
  /\ got \in 0..MaxFrames /\ received \in 0..MaxFrames /\ session \in BOOLEAN

\* One Read per field is enough for what fits a window: the handler is called
\* with the whole body and the requester takes the whole reply, whatever the
\* delivery; only of a larger one the end may be missing (handler.go:98).
WholeWithinWindow ==
  /\ handler # "misread"
  /\ handler = "call" /\ got < body => body > 1
  /\ requester = "done" /\ received < reply => reply > 1
=============================================================================
