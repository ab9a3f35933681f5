------------------------------- MODULE GostHeaders -------------------------------
(***************************************************************************)
(* Connections that put a header before the stream: the relay protocol     *)
(* (relay.go), shadowsocks (ss.go) and the HTTP obfuscation (obfs.go).     *)
(* Each side caches its header and writes it together with the first data, *)
(* and takes the other's off the stream at its first read, while one       *)
(* goroutine of transport (server.go) reads and another writes.            *)
(***************************************************************************)
EXTENDS Integers, Sequences, SequencesExt

CONSTANT MaxChunks   \* chunks each end has to say

ASSUME HeadersAssumption == MaxChunks \in Nat

VARIABLES hsetup,     \* the protocol, NoDelay, and which end speaks first
          said,       \* per end, how many chunks it wrote
          got,        \* per end, the chunks it read
          wire,       \* per end, what is under way to it
          cachedHeader, \* per side, wbuf
          drained,    \* per side, the other's header was taken off
          extra,      \* per side, rbuf: what came along with the header
          headerSent, \* relayConn.headerSent of the client
          phase       \* the server: its handler reads the request, relays, or is done

headerVars == <<hsetup, said, got, wire, cachedHeader, drained, extra, headerSent, phase>>

Ends == {"client", "server"}
Peer(e) == IF e = "client" THEN "server" ELSE "client"
Data(e, i) == <<e, i>>
Empty == <<"empty", 0>>
Header(e) == <<"header", e>>
Refusal == <<"refusal", "server">>
Udp == hsetup.kind = "relayudp"
Relay == hsetup.kind \in {"relay", "relayudp"}

\* With NoDelay the connector writes the header at once: through Write, which
\* puts two bytes behind it in UDP mode, an empty datagram.  Otherwise it is cached.
ConnectHeader ==
  IF hsetup.noDelay
  THEN [sent |-> IF Udp THEN <<Header("client"), Empty>> ELSE <<Header("client")>>, kept |-> <<>>]
  ELSE [sent |-> <<>>, kept |-> <<Header("client")>>]

HeadersInit ==
  /\ hsetup \in [kind : {"relay", "relayudp", "ss", "ohttp"}, noDelay : BOOLEAN, first : Ends]
  /\ hsetup.kind = "ohttp" => ~hsetup.noDelay
  /\ said = [e \in Ends |-> 0]
  /\ got = [e \in Ends |-> <<>>]
  /\ wire = [e \in Ends |-> IF e = "server" THEN ConnectHeader.sent ELSE <<>>]
  /\ cachedHeader = [e \in Ends |-> IF e = "client" /\ hsetup.kind # "ohttp" THEN ConnectHeader.kept ELSE <<>>]
  /\ drained = [e \in Ends |-> e = "client" /\ hsetup.kind = "ss"]
  /\ extra = [e \in Ends |-> <<>>]
  /\ headerSent = (Udp /\ hsetup.noDelay)
  /\ phase = "handle"

\* The obfuscating client makes its header at its first Read or Write.
Handshaked(e) == e = "client" => hsetup.kind # "ohttp" \/ said["client"] > 0 \/ cachedHeader["client"] # <<>>
ClientHandshake ==
  /\ ~Handshaked("client") /\ cachedHeader' = [cachedHeader EXCEPT !["client"] = <<Header("client")>>]
  /\ UNCHANGED <<hsetup, said, got, wire, drained, extra, headerSent, phase>>

\* An end has something to say when it speaks first or was spoken to.
Speaks(e) == said[e] < MaxChunks /\ (hsetup.first = e \/ got[e] # <<>>)

\* Write: the cached header goes along with the first data.
MutWriteChunk(e) ==
  /\ Speaks(e) /\ Handshaked(e) /\ (e = "server" => phase = "relay")
  /\ said' = [said EXCEPT ![e] = @ + 1]
  /\ wire' = [wire EXCEPT ![Peer(e)] = @ \o cachedHeader[e] \o <<Data(e, said'[e])>>]
  /\ UNCHANGED <<hsetup, got, drained, extra, headerSent, phase, cachedHeader>>
WriteChunk(e) ==
  /\ Speaks(e) /\ Handshaked(e) /\ (e = "server" => phase = "relay")
  /\ said' = [said EXCEPT ![e] = @ + 1]
  /\ wire' = [wire EXCEPT ![Peer(e)] = @ \o cachedHeader[e] \o <<Data(e, said'[e])>>]
  /\ cachedHeader' = [cachedHeader EXCEPT ![e] = <<>>]
  /\ headerSent' = (headerSent \/ (Udp /\ e = "client"))
  /\ UNCHANGED <<hsetup, got, drained, extra, phase>>

\* The server takes the request off: the relay's handler refuses it or caches
\* its answer; shadowsocks answers nothing; the obfuscating server answers at
\* once, or with its first data when data came along with the request.
ServerHandshake ==
  /\ phase = "handle" /\ wire["server"] # <<>> /\ Head(wire["server"]) = Header("client")
  /\ drained' = [drained EXCEPT !["server"] = TRUE]
  /\ \/ /\ hsetup.kind = "ss"
        /\ wire' = [wire EXCEPT !["server"] = Tail(@)]
        /\ phase' = "relay" /\ UNCHANGED <<cachedHeader, extra>>
     \/ /\ Relay
        /\ wire' = [wire EXCEPT !["server"] = Tail(@)]
        /\ cachedHeader' = [cachedHeader EXCEPT !["server"] = <<Header("server")>>]
        /\ phase' = "relay" /\ UNCHANGED extra
     \/ /\ Relay
        /\ wire' = [wire EXCEPT !["server"] = Tail(@), !["client"] = @ \o <<Refusal>>]
        /\ phase' = "refused" /\ UNCHANGED <<cachedHeader, extra>>
     \/ /\ hsetup.kind = "ohttp" /\ phase' = "relay"
        /\ \E n \in 1 .. Len(wire["server"]) :
             LET along == SubSeq(wire["server"], 2, n)
                 rest == SubSeq(wire["server"], n + 1, Len(wire["server"]))
             IN /\ extra' = [extra EXCEPT !["server"] = along]
                /\ IF along # <<>>
                   THEN /\ cachedHeader' = [cachedHeader EXCEPT !["server"] = <<Header("server")>>]
                        /\ wire' = [wire EXCEPT !["server"] = rest]
                   ELSE /\ wire' = [wire EXCEPT !["server"] = rest, !["client"] = @ \o <<Header("server")>>]
                        /\ UNCHANGED cachedHeader
  /\ UNCHANGED <<hsetup, said, got, headerSent>>

\* The client's first Read: the answer's status, or the obfuscating header
\* with what came along.  A refusal ends the connection.
DrainHeader ==
  /\ ~drained["client"] /\ Handshaked("client") /\ wire["client"] # <<>>
  /\ drained' = [drained EXCEPT !["client"] = TRUE]
  /\ IF Head(wire["client"]) = Refusal \/ hsetup.kind # "ohttp"
     THEN wire' = [wire EXCEPT !["client"] = Tail(@)] /\ UNCHANGED extra
     ELSE \E n \in 1 .. Len(wire["client"]) :
            /\ extra' = [extra EXCEPT !["client"] = SubSeq(wire["client"], 2, n)]
            /\ wire' = [wire EXCEPT !["client"] = SubSeq(@, n + 1, Len(@))]
  /\ phase' = IF Head(wire["client"]) = Refusal THEN "over" ELSE phase
  /\ UNCHANGED <<hsetup, said, got, cachedHeader, headerSent>>

\* Read: what came along first.  An empty datagram is no data for io.Copy.
ReadChunk(e) ==
  /\ drained[e] /\ phase = "relay"
  /\ \/ extra[e] # <<>> /\ extra' = [extra EXCEPT ![e] = Tail(@)]
        /\ got' = [got EXCEPT ![e] = Append(@, Head(extra[e]))] /\ UNCHANGED wire
     \/ /\ extra[e] = <<>> /\ wire[e] # <<>> /\ wire' = [wire EXCEPT ![e] = Tail(@)]
        /\ got' = IF Head(wire[e]) = Empty THEN got ELSE [got EXCEPT ![e] = Append(@, Head(wire[e]))]
        /\ UNCHANGED extra
  /\ UNCHANGED <<hsetup, said, cachedHeader, drained, headerSent, phase>>

HeadersNext ==
  \/ ClientHandshake \/ ServerHandshake \/ DrainHeader
  \/ \E e \in Ends : WriteChunk(e) \/ ReadChunk(e)

HeadersSpec == HeadersInit /\ [][HeadersNext]_headerVars

--------------------------------------------------------------------------------
HeadersTypeOK ==
  /\ said \in [Ends -> 0 .. MaxChunks]
  /\ \A e \in Ends : /\ Len(got[e]) <= 2 * MaxChunks /\ Len(extra[e]) <= 2 * MaxChunks
                     /\ cachedHeader[e] \in {<<>>, <<Header(e)>>}
  /\ {drained["client"], drained["server"], headerSent} \subseteq BOOLEAN
  /\ phase \in {"handle", "relay", "refused", "over"}

\* What an end read is the beginning of what the other wrote: a header is
\* never taken for data, sent twice or lost, however the two goroutines of
\* each side interleave (relay.go:328, ss.go:436, obfs.go:197 and 232).
HeadersInOrder ==
  \A e \in Ends : IsPrefix(got[e], [i \in 1 .. said[Peer(e)] |-> Data(Peer(e), i)])
================================================================================
