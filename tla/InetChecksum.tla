---------------------------- MODULE InetChecksum ----------------------------
(***************************************************************************)
(* The checksum of BCMP messages: lwip_standard_chksum adds a buffer up in *)
(* 16-bit words wherever it starts, ip6_chksum_pseudo adds the IPv6 pseudo *)
(* header and complements the sum.  Checked against the Internet checksum: *)
(* the sum of the words modulo 2^16 - 1.                                   *)
(*                                                                         *)
(* A byte has Base values (256 in the source), so that a u16_t has Base^2  *)
(* and a u32_t Base^4.  The host is little-endian.                         *)
(***************************************************************************)
EXTENDS Integers, Sequences

CONSTANTS
  Base,       \* values of a byte
  MaxLen,     \* bound: bytes of a message
  Protos,     \* next-header values of the pseudo header
  Addresses   \* source and destination addresses, as sequences of words

Byte   == 0 .. Base - 1
U16Mod == Base * Base
U32Mod == U16Mod * U16Mod
Word   == 0 .. U16Mod - 1

ASSUME ChecksumConstants ==
  /\ Base \in Nat /\ Base > 1
  /\ MaxLen \in Nat /\ MaxLen <= 2 * U16Mod
  /\ Protos \subseteq Byte
  /\ Addresses \subseteq Seq(Word)
  /\ \A a \in Addresses : 2 * Len(a) <= U16Mod

VARIABLES
  data,   \* the message
  odd,    \* it starts at an odd address
  proto, src, dest

messageVars == <<data, odd, proto, src, dest>>

\* The sum of a sequence of numbers.
Total(s) ==
  LET upTo[n \in 0 .. Len(s)] == IF n = 0 THEN 0 ELSE upTo[n - 1] + s[n]
  IN  upTo[Len(s)]

-----------------------------------------------------------------------------
(* Definitions with a suffix are plausible mistakes in the one they are     *)
(* named for; they are part of no specification.                           *)

\* The carry is dropped.
Fold_NoCarry(u) == u % U16Mod
\* FOLD_U32T
Fold(u) == (u \div U16Mod) + (u % U16Mod)

\* The bytes are left as they are.
SwapBytes_Not(w) == w % U16Mod
\* SWAP_BYTES_IN_WORD, of the lower 16 bits
SwapBytes(w) == Base * (w % Base) + ((w \div Base) % Base)

Htons(w) == SwapBytes(w)

\* lwip_standard_chksum: at an odd address the first byte is the high half
\* of the word t, a left-over last byte the low half.
StandardSum(s, atOdd) ==
  LET skip  == IF atOdd /\ Len(s) > 0 THEN 1 ELSE 0
      rest  == SubSeq(s, skip + 1, Len(s))
      words == [i \in 1 .. Len(rest) \div 2 |->
                  rest[2 * i - 1] + Base * rest[2 * i]]
      t     == (IF skip = 1 THEN Base * s[1] ELSE 0)
               + (IF Len(rest) % 2 = 1 THEN rest[Len(rest)] ELSE 0)
      sum   == Fold(Fold((Total(words) + t) % U32Mod))
  IN  IF atOdd THEN SwapBytes(sum) ELSE sum % U16Mod

\* The length is left out of the pseudo header.
PseudoBase_NoLength(s, atOdd, nextHeader, acc) ==
  LET sum == Fold((acc + StandardSum(s, atOdd)) % U32Mod)
  IN  (U16Mod - 1) - (Fold(Fold(sum + Htons(nextHeader))) % U16Mod)
\* inet_cksum_pseudo_base: for an odd length the sum is swapped twice.
PseudoBase(s, atOdd, nextHeader, acc) ==
  LET sum   == Fold((acc + StandardSum(s, atOdd)) % U32Mod)
      even  == IF Len(s) % 2 = 1 THEN SwapBytes(SwapBytes(sum)) ELSE sum
      total == (even + Htons(nextHeader) + Htons(Len(s) % U16Mod)) % U32Mod
  IN  (U16Mod - 1) - (Fold(Fold(total)) % U16Mod)

Ip6Chksum(s, atOdd, nextHeader, from, to) ==
  LET acc == (Total(from) + Total(to)) % U32Mod
  IN  PseudoBase(s, atOdd, nextHeader, Fold(Fold(acc)))

-----------------------------------------------------------------------------
FirstMessage ==
  /\ data = <<>>
  /\ odd \in BOOLEAN
  /\ proto \in Protos /\ src \in Addresses /\ dest \in Addresses

\* The messages are built byte by byte, to reach all of them.
Extend ==
  /\ Len(data) < MaxLen
  /\ \E b \in Byte : data' = Append(data, b)
  /\ UNCHANGED <<odd, proto, src, dest>>

\* Another message is begun.
Restart ==
  /\ Len(data) = MaxLen
  /\ data' = <<>>
  /\ UNCHANGED <<odd, proto, src, dest>>

NextMessage == Extend \/ Restart

Messages == FirstMessage /\ [][NextMessage]_messageVars
-----------------------------------------------------------------------------
(* The reference: words in memory order, the last one padded with zero.    *)

Words(s) == [i \in 1 .. (Len(s) + 1) \div 2 |->
               s[2 * i - 1] + (IF 2 * i <= Len(s) THEN Base * s[2 * i] ELSE 0)]

\* One's complement addition: modulo 2^16 - 1, and zero only for nothing.
OnesSum(n) == IF n = 0 THEN 0 ELSE ((n - 1) % (U16Mod - 1)) + 1

PseudoTotal ==
  Total(src) + Total(dest) + Htons(proto) + Htons(Len(data))

\* The message with its checksum stored in the second word, as
\* send_bcmp_heartbeat stores it.
Stamped ==
  LET blank == [data EXCEPT ![3] = 0, ![4] = 0]
      sum   == Ip6Chksum(blank, odd, proto, src, dest)
  IN  [data EXCEPT ![3] = sum % Base, ![4] = sum \div Base]

\* lwip_standard_chksum gives the Internet sum of a buffer of any length at
\* any address.
SumIsInternetSum == StandardSum(data, odd) = OnesSum(Total(Words(data)))

\* The checksum of a message is the complement of the Internet sum of the
\* message and its pseudo header, for odd lengths too.  proto_len is a u16_t.
ChecksumIsComplement ==
  Len(data) < U16Mod =>
    Ip6Chksum(data, odd, proto, src, dest)
      = (U16Mod - 1) - OnesSum(Total(Words(data)) + PseudoTotal)

\* A receiver that sums a message with its checksum over the same pseudo
\* header finds all ones, whatever the alignment of its own copy.
ReceiverAccepts ==
  Len(data) \in 4 .. U16Mod - 1 =>
    \A at \in BOOLEAN : Ip6Chksum(Stamped, at, proto, src, dest) = 0
=============================================================================
