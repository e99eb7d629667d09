------------------------------ MODULE FrameRx -------------------------------
(***************************************************************************)
(* What the reader thread makes of the frames it reads: read_frame copies  *)
(* a frame over the start of input_buffer_, process_frame and parse_packet *)
(* then look at fixed offsets of the buffer, and recv_bcmp_message trusts  *)
(* the payload length the IPv6 header declares.  The buffer is never       *)
(* cleared: bytes after a frame's end are those of earlier frames.         *)
(*                                                                         *)
(* The buffer is a record of the fields the code looks at; a frame shorter *)
(* than a field's end leaves the field as it was, or mixes both when the   *)
(* frame ends inside it.  Offsets and sizes are those of the structs.      *)
(***************************************************************************)
EXTENDS Naturals

CONSTANTS
  Lengths,   \* lengths of the frames the socket delivers
  Plens,     \* payload lengths their IPv6 headers declare
  Stamps,    \* times and leases heartbeats carry
  Absent,    \* a field past the end of a frame
  Mixed      \* a field of which a frame overwrote only a part

MaxFrameSize == 1518   \* BM_MAX_FRAME_SIZE
MaxPlen == 65535       \* ip6_plen is 16 bits wide

ASSUME FrameConstants ==
  /\ Lengths \subseteq 1 .. MaxFrameSize
  /\ Plens \subseteq 0 .. MaxPlen

ASSUME Markers ==
  /\ Absent # Mixed
  /\ {Absent, Mixed, "none"} \cap Stamps = {}
  /\ {Absent, Mixed} \cap (Plens \cup {0, 1}) = {}
  /\ {Absent, Mixed} \cap {"ip6", "bcmp", "udp", "other"} = {}

\* sizeof of ethhdr, ip6_hdr, udphdr, bcmp_header_t and bcmp_heartbeat_t.
EthSize == 14
Ip6Size == 40
UdpSize == 8
HeaderSize == 6
HeartbeatSize == 12
PayloadAt == EthSize + Ip6Size

VARIABLES
  input,    \* input_buffer_, the fields the code reads
  frame,    \* the frame read last, as it was sent
  verdict,  \* what became of it: "drop", "heartbeat" or "udp"
  heard     \* the heartbeat recv_bcmp_message filled in

rxVars == <<input, frame, verdict, heard>>

\* Where each field starts and ends.  type is two bytes, the low one first.
Starts == [proto |-> 12, plen |-> 18, next |-> 20, low |-> 54, high |-> 55,
           time |-> 60, lease |-> 68]
Ends   == [proto |-> 14, plen |-> 20, next |-> 21, low |-> 55, high |-> 56,
           time |-> 68, lease |-> 72]
Fields == {"proto", "plen", "next", "low", "high", "time", "lease"}

\* The values of each field the code tells apart.
Values == [proto |-> {"ip6", "other"}, plen |-> Plens,
           next |-> {"bcmp", "udp", "other"}, low |-> {0, 1},
           high |-> {0, 1}, time |-> Stamps, lease |-> Stamps]

\* A frame carries the fields that start before its end.
Frames ==
  {f \in [len: Lengths,
          content: [proto: Values.proto \cup {Absent},
                    plen: Values.plen \cup {Absent},
                    next: Values.next \cup {Absent},
                    low: Values.low \cup {Absent},
                    high: Values.high \cup {Absent},
                    time: Values.time \cup {Absent},
                    lease: Values.lease \cup {Absent}]] :
     \A x \in Fields : f.content[x] = Absent <=> f.len <= Starts[x]}

NoFrame == [len |-> 0, content |-> [x \in Fields |-> Absent]]
NoHeartbeat == [time |-> "none", lease |-> "none"]

\* The buffer starts with whatever the memory held.
FirstBuffer ==
  /\ input \in [proto: Values.proto, plen: Values.plen, next: Values.next,
                low: Values.low, high: Values.high, time: Values.time,
                lease: Values.lease]
  /\ frame = NoFrame
  /\ verdict = "drop"
  /\ heard = NoHeartbeat

-----------------------------------------------------------------------------
(* Definitions with a suffix are plausible mistakes in the one they are     *)
(* named for; they are part of no specification.                           *)

\* Ethernet and IPv6 headers that fit in the n bytes read.
IsIpv6_NoLength(b, n) == b.proto = "ip6"
IsIpv6(b, n) ==
  /\ n >= EthSize /\ b.proto = "ip6"
  /\ n >= EthSize + Ip6Size

\* recv_bcmp_message, given the payload length of the IPv6 header.
IsHeartbeat_Longer(b) ==
  /\ b.low = 1 /\ b.high = 0
  /\ b.plen > HeaderSize + HeartbeatSize
IsHeartbeat_HeaderOnly(b) ==
  /\ b.plen >= HeaderSize
  /\ b.low = 1 /\ b.high = 0
IsHeartbeat(b) ==
  /\ b.plen >= HeaderSize
  /\ b.low = 1 /\ b.high = 0
  /\ b.plen >= HeaderSize + HeartbeatSize

Overlay_Cleared(b, f) ==
  [x \in Fields |-> IF f.len >= Ends[x] THEN f.content[x]
                    ELSE IF f.len > Starts[x] THEN Mixed ELSE Absent]

\* The bytes of frame f over those of buffer b.
Overlay(b, f) ==
  [x \in Fields |-> IF f.len >= Ends[x] THEN f.content[x]
                    ELSE IF f.len > Starts[x] THEN Mixed ELSE b[x]]

\* read_frame: recvfrom fills the buffer up to the length of the frame.
ReadFrame(f) ==
  /\ frame' = f
  /\ input' = Overlay(input, f)

AcceptHeartbeat(f) ==
  /\ ReadFrame(f)
  /\ IsIpv6(input', f.len)
  /\ input'.next = "bcmp" /\ IsHeartbeat(input')
  /\ verdict' = "heartbeat"
  /\ heard' = [time |-> input'.time, lease |-> input'.lease]

AcceptUdp(f) ==
  /\ ReadFrame(f)
  /\ IsIpv6(input', f.len)
  /\ input'.next = "udp"
  /\ f.len >= EthSize + Ip6Size + UdpSize
  /\ verdict' = "udp"
  /\ heard' = NoHeartbeat

Drop(f) ==
  /\ ReadFrame(f)
  /\ \/ ~IsIpv6(input', f.len)
     \/ input'.next = "bcmp" /\ ~IsHeartbeat(input')
     \/ input'.next = "udp" /\ f.len < EthSize + Ip6Size + UdpSize
     \/ input'.next \notin {"bcmp", "udp"}
  /\ verdict' = "drop"
  /\ heard' = NoHeartbeat

NextFrame == \E f \in Frames : AcceptHeartbeat(f) \/ AcceptUdp(f) \/ Drop(f)

Reception == FirstBuffer /\ [][NextFrame]_rxVars

-----------------------------------------------------------------------------
(* The sender.                                                             *)

\* The frame send_bcmp_heartbeat builds, with a time and a lease.
OwnFrame(time, lease) ==
  [len |-> EthSize + Ip6Size + HeaderSize + HeartbeatSize,
   content |-> [proto |-> "ip6", plen |-> HeaderSize + HeartbeatSize,
                next |-> "bcmp", low |-> 1, high |-> 0,
                time |-> time, lease |-> lease]]

-----------------------------------------------------------------------------
(* Properties.                                                             *)

ReceptionType ==
  /\ \A x \in Fields : input[x] \in Values[x] \cup {Mixed}
  /\ frame \in Frames \cup {NoFrame}
  /\ verdict \in {"drop", "heartbeat", "udp"}
  /\ heard.time \in Stamps \cup {Mixed, "none"}
  /\ heard.lease \in Stamps \cup {Mixed, "none"}

\* The payload the IPv6 header declares was received.
Whole(f) == PayloadAt + f.content.plen <= f.len

\* A frame that is as long as it says is judged by its own bytes alone,
\* whatever earlier frames left in the buffer: the heartbeat taken from it
\* is the one its sender wrote.
WholeFrameIsItself ==
  verdict = "heartbeat" /\ Whole(frame) =>
    /\ frame.content.low = 1 /\ frame.content.high = 0
    /\ heard = [time |-> frame.content.time, lease |-> frame.content.lease]

\* No frame is accepted for headers an earlier frame left behind: the
\* Ethernet and IPv6 headers that were looked at are those of the frame.
HeadersAreItsOwn ==
  verdict # "drop" =>
    /\ frame.content.proto = "ip6"
    /\ frame.content.next = IF verdict = "udp" THEN "udp" ELSE "bcmp"

\* Nodes understand each other: the frame send_bcmp_heartbeat writes is
\* heard, with its time and lease, by process_frame, after any history.
OwnHeartbeatHeard ==
  \A time, lease \in Stamps :
    frame = OwnFrame(time, lease) =>
      verdict = "heartbeat" /\ heard = [time |-> time, lease |-> lease]

\* What the code does not keep: "Make sure the buffer is large enough for the
\* entire heartbeat message", an accepted heartbeat was received entirely.  It
\* is the declared length that is compared.
HeartbeatIsEntire ==
  verdict = "heartbeat" =>
    heard = [time |-> frame.content.time, lease |-> frame.content.lease]
=============================================================================
