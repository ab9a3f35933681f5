----------------------------- MODULE AddressRange -----------------------------
(***************************************************************************)
(* How sshconnect/cfg.go expands what a user writes into addresses: a      *)
(* single one, "first-last", or a network with its mask.  An address is a  *)
(* number of Width bits, held in a signed integer of that width; 32 in the *)
(* code.                                                                   *)
(***************************************************************************)
EXTENDS Integers, Sequences

CONSTANTS Width,
          MaxOut    \* bound of the output: a range that ends at MaxInt never does

\* The powers of two, as a function that proofs can unfold.
Pow[n \in Nat] == IF n = 0 THEN 1 ELSE 2 * Pow[n - 1]

\* The bound lies beyond the whole address space.
ASSUME WidthAssumption ==
  Width \in Nat \ {0, 1} /\ MaxOut \in Nat /\ MaxOut > Pow[Width]

VARIABLES input,    \* what is expanded
          num,      \* newNum of the range, pos of the network
          out,      \* availableIPs, as unsigned addresses
          expanded  \* the loop is over

rangeVars == <<input, num, out, expanded>>

Size == Pow[Width]
MaxInt == Pow[Width - 1] - 1
Addrs == 0..(Size - 1)
Signed(n) == IF (n % Size) > MaxInt THEN (n % Size) - Size ELSE n % Size

\* Mutant: the address is read as an unsigned number.
MutIpToInt(a) == a

\* ipToInt and intToIP: the same bits.
ipToInt(a) == Signed(a)
intToIP(n) == n % Size

\* IPMaskStringToCIDR: the number of leading ones, 0 for a mask with ones
\* after a zero.
IPMaskStringToCIDR(m) ==
  IF \E p \in 0..Width : m = Size - Pow[Width - p]
  THEN CHOOSE p \in 0..Width : m = Size - Pow[Width - p] ELSE 0

\* ParseIp: what is written.  "/" followed by the full length stands for the
\* address itself; a dotted mask becomes a length first.
Inputs ==
  [form : {"one"}, first : Addrs]
    \cup [form : {"range"}, first : Addrs, last : Addrs]
    \cup [form : {"network"}, first : Addrs, length : 0..(Width - 1)]
    \cup [form : {"masked"}, first : Addrs, mask : Addrs]

Length(i) == IF i.form = "masked" THEN IPMaskStringToCIDR(i.mask) ELSE i.length

\* The addresses the mask of a network leaves.
Left(i) == Pow[Width - Length(i)]

\* networkRange: the first address of the network; networkSize: the addresses
\* its mask leaves, in the signed integer.
networkRange(i) == i.first - (i.first % Left(i))
networkSize(i) == Signed(Signed(Left(i) - 1) + 1)

\* size - 2, which wraps too.
MaxHosts(i) == Signed(networkSize(i) - 2)

RangeInit ==
  /\ input \in Inputs
  /\ num = IF input.form \in {"one", "range"} THEN ipToInt(input.first) ELSE 1
  /\ out = <<>> /\ expanded = FALSE

\* A single address.
ParseIp ==
  /\ input.form = "one" /\ ~expanded
  /\ out' = <<input.first>> /\ expanded' = TRUE
  /\ UNCHANGED <<input, num>>

\* A turn of GetAvailableIPRange; newNum wraps.
GetAvailableIPRange ==
  /\ input.form = "range" /\ ~expanded
  /\ IF num <= ipToInt(input.last)
     THEN /\ Len(out) < MaxOut
          /\ out' = Append(out, intToIP(num))
          /\ num' = Signed(num + 1)
          /\ UNCHANGED expanded
     ELSE expanded' = TRUE /\ UNCHANGED <<num, out>>
  /\ UNCHANGED input

\* A turn of GetAvailableIP: pos goes through 1..max.
GetAvailableIP ==
  /\ input.form \in {"network", "masked"} /\ ~expanded
  /\ IF Len(out) < MaxHosts(input)
     THEN /\ out' = Append(out, intToIP(Signed(ipToInt(networkRange(input)) + num)))
          /\ num' = (num % MaxHosts(input)) + 1
          /\ UNCHANGED expanded
     ELSE expanded' = TRUE /\ UNCHANGED <<num, out>>
  /\ UNCHANGED input

RangeNext == ParseIp \/ GetAvailableIPRange \/ GetAvailableIP

RangeSpec == RangeInit /\ [][RangeNext]_rangeVars

RangeTypeOK ==
  /\ input \in Inputs /\ expanded \in BOOLEAN
  /\ num \in (-MaxInt - 1)..MaxInt
  /\ out \in Seq(Addrs) /\ Len(out) <= MaxOut

\* The addresses from a to b, in order.
Ascending(a, b) == [n \in 1..(b - a + 1) |-> a + n - 1]

\* What the expansion should be, for reference: all addresses of the range, or
\* those of the network but its first and its last.  The code falls short for
\* a range that crosses the middle of the address space, which it takes for
\* empty, and one that ends at either half's last address: the lower half's
\* never ends, while the upper half's is right.  Networks of one or two
\* addresses and of all of them are taken for empty; that of half of them is
\* right although its size wraps (cfg.go:180, cfg.go:259).
Reference(i) ==
  CASE i.form = "one" -> <<i.first>>
    [] i.form = "range" -> Ascending(i.first, i.last)
    [] OTHER -> IF Length(i) = 0 THEN <<>>
                ELSE Ascending(networkRange(i) + 1, networkRange(i) + Left(i) - 2)
SameHalf(i) == i.first > MaxInt <=> i.last > MaxInt

\* Every expansion that ends is the reference's, except a range over the
\* middle, and only the range up to the largest signed number goes on for ever.
ExpansionExact ==
  /\ expanded => \/ out = Reference(input)
                 \/ input.form = "range" /\ ~SameHalf(input)
  /\ ~expanded /\ Len(out) > Size => input.form = "range" /\ input.last = MaxInt
=============================================================================
