-------------------------------- MODULE GostProxy --------------------------------
(***************************************************************************)
(* One request at a proxy's handler: HTTP (http.go), HTTP/2 (http2.go),    *)
(* SNI (sni.go), relay (relay.go), shadowsocks (ss.go), the channels of    *)
(* SSH port forwarding (ssh.go) and the transparent proxy (redirect.go).   *)
(* The handler reads the request, checks it, opens a connection on the     *)
(* client's behalf, in several attempts, answers, and lets two goroutines  *)
(* copy (server.go).  Headers cached by relay and shadowsocks are in       *)
(* GostHeaders, the choice of a route is in GostRoute.                     *)
(***************************************************************************)
EXTENDS Integers, Sequences, SequencesExt

CONSTANTS MaxFollowing,   \* what the client sends behind its request
          ProxyTries,     \* Retries of the handler or its chain
          MaxBytes        \* what the other end sends back

ASSUME ProxyAssumption == {MaxFollowing, MaxBytes} \subseteq Nat /\ ProxyTries \in Nat \ {0}

VARIABLES psetup,      \* the handler, the request, and what the rules say of it
          pstage,      \* where the handler is
          tries,       \* attempts made
          other,       \* the connection it opened: to the target, an HTTP hop, or a decoy
          clientSide,  \* the client's connection
          sentItems,   \* how much the client sent: 1 is the request
          onWire,      \* what is under way to the handler
          toOther,     \* what the other end received
          fromOther,   \* how much the other end sent
          toClient     \* what the client received

proxyVars == <<psetup, pstage, tries, other, clientSide, sentItems, onWire, toOther, fromOther, toClient>>

\* What a handler refuses, whether it answers for itself, what it does once the
\* connection is there, and whether its reader takes more than the request.
HttpHandler == [refuses |-> {"forbidden", "unauthorized", "bad"}, answers |-> TRUE, first |-> "answer", buffers |-> TRUE]
Http2Handler == [refuses |-> {"forbidden", "unauthorized"}, answers |-> TRUE, first |-> "answer", buffers |-> FALSE]
SniHandler == [refuses |-> {"forbidden"}, answers |-> FALSE, first |-> "request", buffers |-> FALSE]
RelayHandler == [refuses |-> {"forbidden", "unauthorized", "bad"}, answers |-> TRUE, first |-> "with data", buffers |-> FALSE]
ShadowHandler == [refuses |-> {"forbidden"}, answers |-> FALSE, first |-> "nothing", buffers |-> FALSE]
DirectForward == [refuses |-> {"forbidden"}, answers |-> FALSE, first |-> "nothing", buffers |-> FALSE]
RedirectHandler == [refuses |-> {}, answers |-> FALSE, first |-> "nothing", buffers |-> FALSE]
Handler == [http |-> HttpHandler, http2 |-> Http2Handler, sni |-> SniHandler, relay |-> RelayHandler,
            ss |-> ShadowHandler, ssh |-> DirectForward, red |-> RedirectHandler]
This == Handler[psetup.kind]

Request == 1
Closed == [role |-> "none", open |-> FALSE]

\* Only the HTTP handlers distinguish methods, know decoys against probing and
\* send what is not a CONNECT to an HTTP proxy as it is; a client that does not
\* wait sends on before it has an answer, to an HTTP proxy to its last request.
Setups ==
  {s \in [kind : DOMAIN Handler, connect : BOOLEAN, verdict : {"pass", "forbidden", "unauthorized", "bad"},
          decoy : {"none", "answer", "host"}, httpHop : BOOLEAN, waits : BOOLEAN] :
     /\ s.verdict \in {"pass"} \cup Handler[s.kind].refuses
     /\ s.kind \notin {"http", "http2"} => s.connect /\ s.decoy = "none"
     /\ s.verdict # "unauthorized" => s.decoy = "none"
     /\ s.httpHop => s.kind = "http" /\ ~s.connect /\ s.verdict = "pass"}

ProxyInit ==
  /\ psetup \in Setups
  /\ pstage = "read" /\ tries = 0 /\ other = Closed /\ clientSide = "open"
  /\ sentItems = 0 /\ onWire = <<>> /\ toOther = <<>> /\ fromOther = 0 /\ toClient = <<>>

--------------------------------------------------------------------------------
(* The two ends. *)

ClientSends ==
  /\ clientSide = "open" /\ sentItems < 1 + MaxFollowing
  /\ sentItems >= Request => (psetup.waits => toClient # <<>> /\ (psetup.httpHop => onWire = <<>>))
  /\ sentItems' = sentItems + 1 /\ onWire' = Append(onWire, sentItems')
  /\ UNCHANGED <<psetup, pstage, tries, other, clientSide, toOther, fromOther, toClient>>
ClientCloses ==
  /\ clientSide = "open" /\ clientSide' = "gone"
  /\ UNCHANGED <<psetup, pstage, tries, other, sentItems, onWire, toOther, fromOther, toClient>>

--------------------------------------------------------------------------------
(* Handle. *)

Own(a) == toClient' = Append(toClient, a)
\* The deferred closing of whatever is open.
ProxyReturns ==
  /\ pstage' = "over" /\ other' = [other EXCEPT !.open = FALSE]
  /\ clientSide' = IF clientSide = "open" THEN "closed" ELSE clientSide
AnswerAndReturn == ProxyReturns /\ (IF clientSide = "gone" THEN UNCHANGED toClient ELSE Own("answer"))

\* The reader that parsed an HTTP request is dropped with what it had buffered;
\* the other handlers read no further than their request.
Dropping == IF This.buffers THEN 0 .. Len(onWire) - 1 ELSE {0}
ReadRequest ==
  /\ pstage = "read" /\ onWire # <<>>
  /\ \E n \in Dropping : onWire' = SubSeq(onWire, n + 2, Len(onWire))
  /\ pstage' = "check"
  /\ UNCHANGED <<psetup, tries, other, clientSide, sentItems, toOther, fromOther, toClient>>
RequestFails ==
  /\ pstage = "read" /\ clientSide = "gone" /\ onWire = <<>>
  /\ ProxyReturns /\ UNCHANGED <<psetup, tries, sentItems, onWire, toOther, fromOther, toClient>>

\* Whitelist, blacklist and bypass, then the authentication with its decoys,
\* then the method: a refusal is answered where the protocol has an answer.
Check ==
  /\ pstage = "check"
  /\ CASE psetup.verdict = "pass" -> pstage' = "dial" /\ UNCHANGED <<other, clientSide, toClient>>
       [] psetup.verdict = "unauthorized" /\ psetup.decoy = "host" ->
            pstage' = "decoy" /\ UNCHANGED <<other, clientSide, toClient>>
       [] OTHER -> IF This.answers THEN AnswerAndReturn ELSE ProxyReturns /\ UNCHANGED toClient
  /\ UNCHANGED <<psetup, tries, sentItems, onWire, toOther, fromOther>>
\* The request goes to the decoy, and what comes back to the client; a decoy
\* that cannot be reached leaves the prepared answer.
DialDecoy ==
  /\ pstage = "decoy"
  /\ \/ /\ other' = [role |-> "decoy", open |-> TRUE]
        /\ pstage' = "copy" /\ toOther' = <<Request>> /\ UNCHANGED <<clientSide, toClient>>
     \/ AnswerAndReturn /\ UNCHANGED toOther
  /\ UNCHANGED <<psetup, tries, sentItems, onWire, fromOther>>

\* An attempt: the route, then the connection.  The channel of SSH and the
\* transparent proxy leave the attempts to the chain.
Dial ==
  /\ pstage = "dial"
  /\ \/ /\ other' = [role |-> IF psetup.httpHop THEN "hop" ELSE "target", open |-> TRUE]
        /\ pstage' = IF psetup.httpHop THEN "forward" ELSE "opened"
        /\ UNCHANGED <<tries, clientSide, toClient>>
     \/ /\ tries' = tries + 1
        /\ IF tries' < ProxyTries THEN UNCHANGED <<pstage, other, clientSide, toClient>>
           ELSE IF This.answers THEN AnswerAndReturn ELSE ProxyReturns /\ UNCHANGED toClient
  /\ UNCHANGED <<psetup, sentItems, onWire, toOther, fromOther>>

\* A CONNECT is answered, any other request written to the target; SNI writes
\* the client's hello.  The relay's answer waits for the first data.
Opened ==
  /\ pstage = "opened"
  /\ \/ /\ This.first = "answer" /\ psetup.connect
        /\ pstage' = "copy" /\ Own("answer") /\ UNCHANGED <<toOther, other, clientSide>>
     \/ /\ This.first \in {"with data", "nothing"}
        /\ pstage' = "copy" /\ UNCHANGED <<toOther, other, clientSide, toClient>>
     \/ /\ This.first = "request" \/ ~psetup.connect
        /\ pstage' = "copy" /\ toOther' = <<Request>> /\ UNCHANGED <<other, clientSide, toClient>>
     \/ /\ ~psetup.connect /\ ProxyReturns /\ UNCHANGED <<toOther, toClient>>
  /\ UNCHANGED <<psetup, tries, sentItems, onWire, fromOther>>

\* forwardRequest: a goroutine copies the answers back, another writes the
\* request and reads the next ones; the first to end ends it, as a success.
WriteFirst ==
  /\ pstage = "forward" /\ toOther' = <<Request>> /\ pstage' = "copy"
  /\ UNCHANGED <<psetup, tries, other, clientSide, sentItems, onWire, fromOther, toClient>>

--------------------------------------------------------------------------------
(* Two goroutines copy. *)

Reads == psetup.kind # "http2" \/ psetup.connect   \* of HTTP/2, one request and its answer
CopyUp ==
  /\ pstage = "copy" /\ onWire # <<>> /\ Reads
  /\ \E n \in IF other.role = "hop" THEN Dropping ELSE {0} :
       onWire' = SubSeq(onWire, n + 2, Len(onWire))
  /\ toOther' = Append(toOther, Head(onWire))
  /\ UNCHANGED <<psetup, pstage, tries, other, clientSide, sentItems, fromOther, toClient>>
CopyDown ==
  /\ pstage = "copy" /\ clientSide = "open" /\ fromOther < MaxBytes
  /\ fromOther' = fromOther + 1
  /\ toClient' = toClient \o (IF This.first = "with data" /\ fromOther = 0 THEN <<"answer", "bytes">> ELSE <<"bytes">>)
  /\ UNCHANGED <<psetup, pstage, tries, other, clientSide, sentItems, onWire, toOther>>
\* Either end closes or fails: the first error ends the handler.
CopyEnds ==
  /\ pstage = "copy" /\ ProxyReturns
  /\ UNCHANGED <<psetup, tries, sentItems, onWire, toOther, fromOther, toClient>>

ProxyNext ==
  \/ ClientSends \/ ClientCloses \/ ReadRequest \/ RequestFails \/ Check \/ DialDecoy \/ Dial
  \/ Opened \/ WriteFirst \/ CopyUp \/ CopyDown \/ CopyEnds

ProxySpec == ProxyInit /\ [][ProxyNext]_proxyVars

--------------------------------------------------------------------------------
ProxyTypeOK ==
  /\ pstage \in {"read", "check", "decoy", "dial", "opened", "forward", "copy", "over"}
  /\ tries \in 0 .. ProxyTries
  /\ other \in [role : {"none", "target", "hop", "decoy"}, open : BOOLEAN]
  /\ clientSide \in {"open", "gone", "closed"}
  /\ Len(onWire) <= 1 + MaxFollowing /\ fromOther \in 0 .. MaxBytes
  /\ Len(toClient) <= MaxBytes + 1

\* The handler speaks for itself once at most, and never after the other end
\* spoke (http.go:265 retries and answers 503 only while nothing was copied,
\* http.go:450); a request reaches one other end once; and what follows it
\* arrives in order, unless an HTTP client did not wait for the answer:
\* http.go:130 and 437 drop what their readers buffered.
RelayedFaithfully ==
  /\ \A i, j \in 1 .. Len(toClient) : toClient[i] = "answer" /\ i # j => toClient[j] = "bytes" /\ i < j
  /\ \A i, j \in 1 .. Len(toOther) : i < j => toOther[i] < toOther[j]
  /\ psetup.waits \/ ~This.buffers
       => LET skipped == IF toOther # <<>> /\ Head(toOther) # Request THEN 1 ELSE 0
          IN toOther = [i \in 1 .. Len(toOther) |-> i + skipped]
================================================================================
