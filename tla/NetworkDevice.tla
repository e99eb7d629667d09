---------------------------- MODULE NetworkDevice ----------------------------
(***************************************************************************)
(* The packet sockets of a node: NetworkInterface constructs a device for  *)
(* each interface it is given, every call of the constructor may fail and  *)
(* undo what was done, the reader thread takes frames from the first       *)
(* device, and the node's destruction closes the sockets.                  *)
(*                                                                         *)
(* Descriptors are numbers of the process: what one part closes, another   *)
(* part may be given next.  A packet socket hears every interface until it *)
(* is bound, and bind() does not empty its receive buffer.  A frame is the *)
(* interface it came in on and whether its device was complete by then.    *)
(* The kernel and the rest of the process are external; the receive        *)
(* timeout is modelled in AppLifecycle.                                    *)
(***************************************************************************)
EXTENDS Naturals, Sequences

CONSTANTS
  Fds,        \* descriptor numbers
  Links,      \* network interfaces of the host
  Interface,  \* the names the node is given, in order
  None,       \* no descriptor, no socket, no frame
  AnyLink,    \* interface index 0
  MaxQueue    \* bound: frames in a receive buffer

Devs   == 1 .. Len(Interface)
Frames == [link : Links, complete : BOOLEAN]

ASSUME DeviceConstants ==
  /\ None \notin Fds \cup Links \cup Frames \cup {AnyLink}
  /\ AnyLink \notin Links
  /\ Interface \in Seq(Links) /\ Len(Interface) > 0
  /\ MaxQueue \in Nat

VARIABLES
  holder,   \* for each descriptor, the part of the process it was given to
  others,   \* the descriptors the rest of the process believes it has
  main,     \* where the main thread is
  cur,      \* the device under construction
  devices,  \* the devices in _net_devices
  sockFd,   \* for each device, _sock_fd
  promFd,   \* fd of set_promiscuous_mode
  ifindex,  \* for each device, sll_ifindex
  hears,    \* for each device, the interface its socket hears
  queue,    \* the receive buffer of the first device; nobody reads another
  reader,   \* where the reader thread is
  last      \* the frame it read last

fdVars   == <<holder, others>>
devVars  == <<cur, devices, sockFd, ifindex, hears>>
readVars == <<queue, reader, last>>
vars     == <<fdVars, main, devVars, promFd, readVars>>

Init ==
  /\ holder = [f \in Fds |-> "free"] /\ others = {}
  /\ main = "socket" /\ cur = 1 /\ devices = {}
  /\ sockFd = [d \in Devs |-> None] /\ promFd = None
  /\ ifindex = [d \in Devs |-> None] /\ hears = [d \in Devs |-> None]
  /\ queue = <<>> /\ reader = "out" /\ last = None

\* The kernel gives out a free descriptor, and takes any back.
Give(f, part) == holder[f] = "free" /\ holder' = [holder EXCEPT ![f] = part]
Close(f)      == holder' = [holder EXCEPT ![f] = "free"]

\* The socket of device d is gone, with what it had received.
CloseSocket(d) ==
  /\ Close(sockFd[d])
  /\ sockFd' = [sockFd EXCEPT ![d] = None]
  /\ hears' = [hears EXCEPT ![d] = None]
  /\ queue' = IF d = 1 THEN <<>> ELSE queue
  /\ UNCHANGED <<others, cur, ifindex, promFd, reader, last>>

-----------------------------------------------------------------------------
(* The constructor of a device.  Definitions with a suffix are plausible    *)
(* mistakes in the one they are named for; they are part of no             *)
(* specification.                                                          *)

\* The socket hears every interface from here on.
OpenSocket ==
  /\ main = "socket" /\ main' = "index"
  /\ \E f \in Fds : Give(f, "device") /\ sockFd' = [sockFd EXCEPT ![cur] = f]
  /\ hears' = [hears EXCEPT ![cur] = AnyLink]
  /\ UNCHANGED <<others, cur, devices, ifindex, promFd, readVars>>

\* "Failed to create socket"; the devices made before are destroyed.
SocketFails ==
  /\ main = "socket" /\ main' = "unwind"
  /\ UNCHANGED <<fdVars, devVars, promFd, readVars>>

FindInterface ==
  /\ main = "index" /\ main' = "mac"
  /\ ifindex' = [ifindex EXCEPT ![cur] = Interface[cur]]
  /\ UNCHANGED <<fdVars, cur, devices, sockFd, hears, promFd, readVars>>

\* if_nametoindex's 0 is not looked at.
InterfaceMissing_Unchecked ==
  /\ main = "index" /\ main' = "mac"
  /\ ifindex' = [ifindex EXCEPT ![cur] = AnyLink]
  /\ UNCHANGED <<fdVars, cur, devices, sockFd, hears, promFd, readVars>>
\* "Failed to find network interface"
InterfaceMissing ==
  /\ main = "index" /\ main' = "unwind"
  /\ CloseSocket(cur) /\ UNCHANGED devices

ReadMac ==
  /\ main = "mac" /\ main' = "promisc"
  /\ UNCHANGED <<fdVars, devVars, promFd, readVars>>

\* "ioctl SIOCGIFHWADDR failed"
MacFails ==
  /\ main = "mac" /\ main' = "unwind"
  /\ CloseSocket(cur) /\ UNCHANGED devices

\* set_promiscuous_mode: the constructor goes on whatever it returns.
PromiscSocket ==
  /\ main = "promisc" /\ main' = "getFlags"
  /\ \E f \in Fds : Give(f, "promisc") /\ promFd' = f
  /\ UNCHANGED <<others, devVars, readVars>>

PromiscSocketFails ==
  /\ main = "promisc" /\ main' = "bind"
  /\ UNCHANGED <<fdVars, devVars, promFd, readVars>>

GetFlags ==
  /\ main = "getFlags" /\ main' = "setFlags"
  /\ UNCHANGED <<fdVars, devVars, promFd, readVars>>

\* An error return forgets the descriptor.
PromiscReturns_Leaks ==
  /\ main \in {"getFlags", "setFlags"} /\ main' = "bind"
  /\ IF main = "getFlags" THEN UNCHANGED holder ELSE Close(promFd)
  /\ promFd' = None
  /\ UNCHANGED <<others, devVars, readVars>>
\* The flags could not be read, or were written, or not.
PromiscReturns ==
  /\ main \in {"getFlags", "setFlags"} /\ main' = "bind"
  /\ Close(promFd) /\ promFd' = None
  /\ UNCHANGED <<others, devVars, readVars>>

\* The loop over the interfaces goes one too far.
Bind_OneMore ==
  /\ main = "bind"
  /\ hears' = [hears EXCEPT ![cur] = ifindex[cur]]
  /\ devices' = devices \cup {cur}
  /\ IF cur <= Len(Interface) THEN main' = "socket" /\ cur' = cur + 1
                              ELSE main' = "up" /\ UNCHANGED cur
  /\ UNCHANGED <<fdVars, sockFd, ifindex, promFd, readVars>>
\* The device is complete; the next one is begun, or the node is.
Bind ==
  /\ main = "bind"
  /\ hears' = [hears EXCEPT ![cur] = ifindex[cur]]
  /\ devices' = devices \cup {cur}
  /\ IF cur < Len(Interface) THEN main' = "socket" /\ cur' = cur + 1
                             ELSE main' = "up" /\ UNCHANGED cur
  /\ UNCHANGED <<fdVars, sockFd, ifindex, promFd, readVars>>

\* The socket is closed and the device is kept.
BindFails_KeepsDevice ==
  /\ main = "bind" /\ main' = "up"
  /\ Close(sockFd[cur]) /\ devices' = devices \cup {cur}
  /\ UNCHANGED <<others, cur, sockFd, ifindex, hears, promFd, readVars>>
\* The last call of the constructor that may fail.
BindFails ==
  /\ main = "bind" /\ main' = "unwind"
  /\ CloseSocket(cur) /\ UNCHANGED devices

-----------------------------------------------------------------------------
(* The life of the node: run() starts the reader, the application's        *)
(* destructor joins it and then destroys the node.                         *)

StartReader ==
  /\ main = "up" /\ reader = "out" /\ reader' = "test"
  /\ UNCHANGED <<fdVars, main, devVars, promFd, queue, last>>

\* run() is over and exit_ is set.
Stop ==
  /\ main = "up" /\ main' = "stopping"
  /\ UNCHANGED <<fdVars, devVars, promFd, readVars>>

\* The reader is not waited for.
Join_Detached ==
  /\ main = "stopping" /\ main' = "down"
  /\ UNCHANGED <<fdVars, devVars, promFd, readVars>>
Join ==
  /\ main = "stopping" /\ reader \in {"out", "left"} /\ main' = "down"
  /\ UNCHANGED <<fdVars, devVars, promFd, readVars>>

\* ~NetworkDevice, of one device after the other: of the node that goes
\* down, or of the devices complete when a later one failed.
DestroyDevice(d) ==
  /\ main \in {"unwind", "down"} /\ d \in devices
  /\ CloseSocket(d) /\ devices' = devices \ {d}
  /\ UNCHANGED main

Destroyed ==
  /\ main \in {"unwind", "down"} /\ devices = {} /\ main' = "gone"
  /\ UNCHANGED <<fdVars, devVars, promFd, readVars>>

ReaderTests ==
  /\ reader = "test"
  /\ reader' = IF main = "up" THEN "recv" ELSE "left"
  /\ UNCHANGED <<fdVars, main, devVars, promFd, queue, last>>

ReadFrame ==
  /\ reader = "recv" /\ queue # <<>>
  /\ last' = Head(queue) /\ queue' = Tail(queue) /\ reader' = "test"
  /\ UNCHANGED <<fdVars, main, devVars, promFd>>

\* The timeout or an error; the loop asks again.
ReadNothing ==
  /\ reader = "recv" /\ reader' = "test"
  /\ UNCHANGED <<fdVars, main, devVars, promFd, queue, last>>

-----------------------------------------------------------------------------
(* The surroundings.                                                       *)

\* A full receive buffer drops the frame.
FrameArrives(l) ==
  /\ hears[1] \in {l, AnyLink} /\ Len(queue) < MaxQueue
  /\ queue' = Append(queue, [link |-> l, complete |-> 1 \in devices])
  /\ UNCHANGED <<fdVars, main, devVars, promFd, reader, last>>

OtherOpens(f) ==
  /\ Give(f, "other") /\ others' = others \cup {f}
  /\ UNCHANGED <<main, devVars, promFd, readVars>>

OtherCloses(f) ==
  /\ f \in others /\ others' = others \ {f} /\ Close(f)
  /\ UNCHANGED <<main, devVars, promFd, readVars>>

ConstructorStep ==
  \/ OpenSocket \/ SocketFails \/ FindInterface \/ InterfaceMissing
  \/ ReadMac \/ MacFails \/ PromiscSocket \/ PromiscSocketFails
  \/ GetFlags \/ PromiscReturns \/ Bind \/ BindFails

NodeStep ==
  \/ StartReader \/ Stop \/ Join \/ Destroyed
  \/ \E d \in Devs : DestroyDevice(d)

ReaderStep == ReaderTests \/ ReadFrame \/ ReadNothing

Surroundings ==
  \/ \E l \in Links : FrameArrives(l)
  \/ \E f \in Fds : OtherOpens(f) \/ OtherCloses(f)

Next == ConstructorStep \/ NodeStep \/ ReaderStep \/ Surroundings

Spec == Init /\ [][Next]_vars
-----------------------------------------------------------------------------
(* Properties.                                                             *)

\* Every variable has its type.
TypeOK ==
  /\ holder \in [Fds -> {"free", "device", "promisc", "other"}]
  /\ others \subseteq Fds
  /\ main \in {"socket", "index", "mac", "promisc", "getFlags", "setFlags",
               "bind", "unwind", "up", "stopping", "down", "gone"}
  /\ cur \in Devs /\ devices \subseteq Devs
  /\ sockFd \in [Devs -> Fds \cup {None}] /\ promFd \in Fds \cup {None}
  /\ ifindex \in [Devs -> Links \cup {AnyLink, None}]
  /\ hears \in [Devs -> Links \cup {AnyLink, None}]
  /\ queue \in Seq(Frames) /\ reader \in {"out", "test", "recv", "left"}
  /\ last \in Frames \cup {None}

\* Whichever call of whichever constructor failed, and when the node was
\* destroyed as it should, every descriptor taken was given back.
AllReturned ==
  main = "gone" => \A f \in Fds : holder[f] \in {"free", "other"}

\* Nothing is closed twice: a descriptor the rest of the process has been
\* given since is not taken from it.
OthersUndisturbed == \A f \in others : holder[f] = "other"

\* The reader waits on the socket its device opened, never on a descriptor
\* that was closed or is somebody else's by now.
ReceivesOnOwnSocket ==
  reader = "recv" => sockFd[1] \in Fds /\ holder[sockFd[1]] = "device"

\* A frame that comes in once the device is complete is a frame of the
\* interface the device was made for.
HearsNamedInterface ==
  \A i \in 1 .. Len(queue) :
    queue[i].complete => queue[i].link = Interface[1]

\* What the code does not keep: the reader is only given frames of the
\* interface the socket was to be created on.  Frames of others may have been
\* queued before bind().
ReadsNamedInterface == last # None => last.link = Interface[1]
=============================================================================
