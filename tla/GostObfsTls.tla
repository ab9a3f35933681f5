------------------------------- MODULE GostObfsTls -------------------------------
(***************************************************************************)
(* The TLS obfuscation (obfs.go): the client's first data travels in its   *)
(* hello, the server's first in a record behind its own hello, everything  *)
(* else in records of bounded length.  The client reads the server's       *)
(* stream as it arrives and strips the records with an incremental parser. *)
(* A record's header, five bytes, is two symbols here: its type and length.*)
(***************************************************************************)
EXTENDS Integers, Sequences, SequencesExt

CONSTANTS MaxRecord,   \* maxTLSDataLen, in units of data
          MaxWrite,    \* the largest Write, in units: at most two records
          MaxUnits,    \* units each side writes in all
          MaxRead      \* the client's buffer, in symbols

ASSUME ObfsAssumption ==
  /\ MaxRecord \in Nat \ {0} /\ MaxWrite \in 1 .. 2 * MaxRecord
  /\ MaxUnits \in Nat /\ MaxRead \in Nat

VARIABLES unitsUp, unitsDown,   \* units the client and the server were given to write
          readUp, readDown,     \* what the server and the client read
          hello,                \* what the client's hello carries, or "none"
          serverShook,          \* the server's handshake is done, and its hello cached or sent
          upWire, downWire,     \* records to the server, symbols to the client
          parser,               \* obfsTLSParser: step, symbols of a header seen, data left
          mishaps,              \* what happened that the stream does not survive
          parseError            \* the parser gave up

obfsVars == <<unitsUp, unitsDown, readUp, readDown, hello, serverShook, upWire, downWire, parser,
              mishaps, parseError>>

Steps == 0 .. 3
HelloLength == 2   \* 91 bytes whatever the record says
NoData == 0

\* The symbols of a record of some step with some units of data.
Record(step, units) ==
  <<<<"type", step>>, <<"length", Len(units)>>>> \o [i \in 1 .. Len(units) |-> <<"data", units[i]>>]
Units(from, to) == [i \in 1 .. (to - from + 1) |-> from + i - 1]

ObfsInit ==
  /\ unitsUp = 0 /\ unitsDown = 0 /\ readUp = <<>> /\ readDown = <<>>
  /\ hello = <<>> /\ serverShook = "no" /\ upWire = <<>> /\ downWire = <<>>
  /\ parser = [step |-> 0, seen |-> 0, left |-> 0]
  /\ mishaps = {} /\ parseError = FALSE

\* Write of the client: the first is its handshake.
ClientWrite(n) ==
  /\ unitsUp + n <= MaxUnits
  /\ unitsUp' = unitsUp + n
  /\ IF unitsUp = 0 THEN hello' = Units(1, n) /\ UNCHANGED upWire
     ELSE upWire' = Append(upWire, Units(unitsUp + 1, unitsUp + n)) /\ UNCHANGED hello
  /\ UNCHANGED <<unitsDown, readUp, readDown, serverShook, downWire, parser, mishaps, parseError>>

\* The server's handshake, in the first Read or Write: its answer is cached.
ServerShakes ==
  /\ serverShook = "no" /\ hello # <<>>
  /\ serverShook' = "cached"
  /\ upWire' = <<hello>> \o upWire
  /\ UNCHANGED <<unitsUp, unitsDown, readUp, readDown, hello, downWire, parser, mishaps, parseError>>

\* Write of the server: the first record goes along with the cached hello, and
\* that write returns as if the rest had been written too.
FirstRecord(n) == IF n > MaxRecord THEN MaxRecord ELSE n
ServerWrite(n) ==
  /\ serverShook # "no" /\ unitsDown + n <= MaxUnits
  /\ unitsDown' = unitsDown + n
  /\ IF serverShook = "cached"
     THEN /\ downWire' = Record(0, [i \in 1 .. HelloLength |-> NoData]) \o Record(1, <<NoData>>)
                          \o Record(2, Units(1, FirstRecord(n)))
          /\ mishaps' = IF n > MaxRecord THEN mishaps \cup {"long first write"} ELSE mishaps
     ELSE /\ downWire' = downWire \o Record(3, Units(unitsDown + 1, unitsDown + FirstRecord(n)))
                \o (IF n > MaxRecord THEN Record(3, Units(unitsDown + MaxRecord + 1, unitsDown + n)) ELSE <<>>)
          /\ UNCHANGED mishaps
  /\ serverShook' = "sent"
  /\ UNCHANGED <<unitsUp, readUp, readDown, hello, upWire, parser, parseError>>

\* Read of the server, after its handshake: a record, or what rbuf kept of one.
ServerRead(n) ==
  /\ serverShook # "no" /\ upWire # <<>> /\ n \in 1 .. Len(Head(upWire))
  /\ readUp' = readUp \o SubSeq(Head(upWire), 1, n)
  /\ upWire' = IF n = Len(Head(upWire)) THEN Tail(upWire)
               ELSE <<SubSeq(Head(upWire), n + 1, Len(Head(upWire)))>> \o Tail(upWire)
  /\ UNCHANGED <<unitsUp, unitsDown, readDown, hello, serverShook, downWire, parser, mishaps, parseError>>

\* Parse, one symbol: the data of the last two steps is moved to the front of
\* the buffer, over the headers before it.
Expected(p) == IF p.step = 0 THEN HelloLength ELSE 1
AfterRecord(p) == [p EXCEPT !.step = IF @ < 3 THEN @ + 1 ELSE @, !.seen = 0, !.left = 0]
ParseSymbol(p, s) ==
  CASE p.seen = 0 -> IF s = <<"type", p.step>> THEN [p EXCEPT !.seen = 1, !.behind = @ + 1]
                     ELSE [p EXCEPT !.bad = TRUE]
    [] p.seen = 1 -> [p EXCEPT !.seen = 2, !.behind = @ + 1,
                               !.left = IF p.step < 2 THEN Expected(p) ELSE s[2]]
    [] OTHER -> LET q == IF p.left = 1 THEN AfterRecord(p) ELSE [p EXCEPT !.left = @ - 1]
                IN IF p.step < 2 THEN [q EXCEPT !.behind = @ + 1]
                   ELSE [q EXCEPT !.kept = Append(@, s), !.behind = 0]

\* The parser after each symbol of a buffer.
Passes(start, symbols) ==
  LET after[i \in 0 .. Len(symbols)] == IF i = 0 THEN start ELSE ParseSymbol(after[i - 1], symbols[i])
  IN after

\* What Parse returns of a buffer: when symbols of a header are left behind
\* the data, their number is taken for that of the data.
Parsed(symbols) ==
  LET start == [step |-> parser.step, seen |-> parser.seen, left |-> parser.left,
                kept |-> <<>>, behind |-> 0, bad |-> FALSE]
      end == Passes(start, symbols)[Len(symbols)]
      header == SubSeq(symbols, Len(symbols) - end.behind + 1, Len(symbols))
      count == IF end.kept = <<>> THEN 0 ELSE IF end.behind > 0 THEN end.behind ELSE Len(end.kept)
  IN [parser |-> [step |-> end.step, seen |-> end.seen, left |-> end.left], bad |-> end.bad,
      returned |-> IF end.bad THEN <<>> ELSE SubSeq(end.kept \o header, 1, count),
      cut |-> end.kept # <<>> /\ end.behind > 0]

\* Read of the client: what has arrived, up to the length of its buffer.
ClientRead(n) ==
  LET r == Parsed(SubSeq(downWire, 1, n)) IN
  /\ hello # <<>> /\ ~parseError /\ n \in 1 .. Len(downWire)
  /\ downWire' = SubSeq(downWire, n + 1, Len(downWire))
  /\ parser' = r.parser /\ parseError' = r.bad
  /\ readDown' = readDown \o r.returned
  /\ mishaps' = IF r.cut THEN mishaps \cup {"read ends in a header"} ELSE mishaps
  /\ UNCHANGED <<unitsUp, unitsDown, readUp, hello, serverShook, upWire>>

ObfsNext ==
  \/ ServerShakes
  \/ \E n \in 1 .. MaxWrite : ClientWrite(n) \/ ServerWrite(n) \/ ServerRead(n)
  \/ \E n \in 1 .. MaxRead : ClientRead(n)

ObfsSpec == ObfsInit /\ [][ObfsNext]_obfsVars

--------------------------------------------------------------------------------
ObfsTypeOK ==
  /\ unitsUp \in 0 .. MaxUnits /\ unitsDown \in 0 .. MaxUnits
  /\ serverShook \in {"no", "cached", "sent"} /\ parseError \in BOOLEAN
  /\ parser \in [step : Steps, seen : 0 .. 2, left : 0 .. MaxWrite + HelloLength]
  /\ mishaps \subseteq {"long first write", "read ends in a header"}
  /\ Len(readUp) <= MaxUnits

\* However the stream is cut into reads, the server reads what the client
\* wrote, and the client what the server wrote, but for two cases: a first
\* write longer than a record, whose rest is dropped (obfs.go:658), and a read
\* that ends in a header behind data, whose symbols are counted in place of
\* the data (obfs.go:425).
ParsedExactly ==
  /\ IsPrefix(readUp, Units(1, unitsUp))
  /\ mishaps = {} => ~parseError /\ IsPrefix(readDown, [i \in 1 .. unitsDown |-> <<"data", i>>])
================================================================================
