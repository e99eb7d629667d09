------------------------- MODULE NetworkDeviceProof -------------------------
(***************************************************************************)
(* Proofs about NetworkDevice, for any descriptors, any interfaces and any *)
(* number of devices: what every failing call of a constructor gives back. *)
(***************************************************************************)
EXTENDS NetworkDevice, TLAPS

\* The constructor of device cur has opened its socket and not returned.
HasSocket == {"index", "mac", "promisc", "getFlags", "setFlags", "bind"}

\* The devices whose socket is open.
Open == devices \cup (IF main \in HasSocket THEN {cur} ELSE {})

\* Devices are made in order, all are there while the node runs, none at the
\* end.
DevicesFollowMain ==
  /\ main \in HasSocket \cup {"socket"} =>
       \A d \in Devs : d \in devices <=> d < cur
  /\ main \in {"up", "stopping"} => 1 \in devices
  /\ main = "gone" => devices = {}

\* A device has a descriptor of its own exactly while its socket is open.
SocketsAreOwn ==
  /\ \A d \in Devs : sockFd[d] # None <=> d \in Open
  /\ \A d \in Devs : sockFd[d] # None => holder[sockFd[d]] = "device"
  /\ \A d, e \in Devs : sockFd[d] # None /\ sockFd[d] = sockFd[e] => d = e

\* set_promiscuous_mode has one only between its own first and last step.
PromiscIsOwn ==
  /\ promFd # None <=> main \in {"getFlags", "setFlags"}
  /\ promFd # None => holder[promFd] = "promisc"

\* Every descriptor of the program is remembered by someone.
HeldIsKnown ==
  \A f \in Fds :
    /\ holder[f] = "device" => \E d \in Devs : sockFd[d] = f
    /\ holder[f] = "promisc" => promFd = f

\* A reader that has not left is joined before the devices go.
ReaderIsJoined == reader \in {"test", "recv"} => main \in {"up", "stopping"}

\* A complete device is bound to the interface it was made for.
BoundToNamed ==
  /\ main \in HasSocket \ {"index"} => ifindex[cur] = Interface[cur]
  /\ 1 \in devices => hears[1] = Interface[1]

FdInv == SocketsAreOwn /\ PromiscIsOwn /\ HeldIsKnown /\ OthersUndisturbed
IInv  == /\ TypeOK /\ DevicesFollowMain /\ FdInv /\ ReaderIsJoined
         /\ BoundToNamed /\ HearsNamedInterface

-----------------------------------------------------------------------------
\* The first device is the interface named first.
LEMMA FirstDevice ==
  /\ 1 \in Devs /\ Len(Interface) \in Nat
  /\ \A d \in Devs : Interface[d] \in Links /\ d \in Nat /\ d <= Len(Interface)
BY DeviceConstants DEF DeviceConstants, Devs

LEMMA NoneIsNothing ==
  None \notin Fds /\ None \notin Links /\ None \notin Frames /\ None # AnyLink
  /\ AnyLink \notin Links
BY DeviceConstants DEF DeviceConstants

\* All parts of the invariant hold before the first socket.
LEMMA InitIInv == Init => IInv
<1> SUFFICES ASSUME Init PROVE IInv
  OBVIOUS
<1> USE FirstDevice, NoneIsNothing DEF Init
<1>1. TypeOK BY DEF TypeOK
<1>2. DevicesFollowMain
  BY DEF DevicesFollowMain, Devs
<1>3. FdInv
  BY DEF FdInv, SocketsAreOwn, PromiscIsOwn, HeldIsKnown, OthersUndisturbed,
         Open, HasSocket
<1>4. ReaderIsJoined /\ BoundToNamed /\ HearsNamedInterface
  BY DEF ReaderIsJoined, BoundToNamed, HearsNamedInterface, HasSocket
<1> QED BY <1>1, <1>2, <1>3, <1>4 DEF IInv

\* The types in parts.
TypeFds  == /\ holder \in [Fds -> {"free", "device", "promisc", "other"}]
            /\ others \subseteq Fds
TypePcs  == /\ main \in {"socket", "index", "mac", "promisc", "getFlags",
                         "setFlags", "bind", "unwind", "up", "stopping",
                         "down", "gone"}
            /\ reader \in {"out", "test", "recv", "left"}
TypeDevs == /\ cur \in Devs /\ devices \subseteq Devs
            /\ sockFd \in [Devs -> Fds \cup {None}]
            /\ promFd \in Fds \cup {None}
            /\ ifindex \in [Devs -> Links \cup {AnyLink, None}]
            /\ hears \in [Devs -> Links \cup {AnyLink, None}]
TypeRead == queue \in Seq(Frames) /\ last \in Frames \cup {None}

LEMMA TypeParts == TypeOK <=> TypeFds /\ TypePcs /\ TypeDevs /\ TypeRead
BY DEF TypeOK, TypeFds, TypePcs, TypeDevs, TypeRead

\* The program's locations keep their types.
LEMMA PcsKeep == ASSUME TypePcs, [Next]_vars PROVE TypePcs'
<1> USE DEF TypePcs
<1>1. CASE UNCHANGED vars BY <1>1 DEF vars, readVars
<1>2. CASE ConstructorStep
  <2>1. reader' = reader
    BY <1>2 DEF ConstructorStep, OpenSocket, SocketFails, FindInterface,
         InterfaceMissing, ReadMac, MacFails, PromiscSocket,
         PromiscSocketFails, GetFlags, PromiscReturns, Bind, BindFails,
         CloseSocket, readVars
  <2>2. main' \in {"socket", "index", "mac", "promisc", "getFlags",
                   "setFlags", "bind", "unwind", "up"}
    BY <1>2 DEF ConstructorStep, OpenSocket, SocketFails, FindInterface,
         InterfaceMissing, ReadMac, MacFails, PromiscSocket,
         PromiscSocketFails, GetFlags, PromiscReturns, Bind, BindFails
  <2> QED BY <2>1, <2>2
<1>3. CASE NodeStep
  BY <1>3 DEF NodeStep, StartReader, Stop, Join, Destroyed, DestroyDevice,
       CloseSocket, readVars
<1>4. CASE ReaderStep
  BY <1>4 DEF ReaderStep, ReaderTests, ReadFrame, ReadNothing
<1>5. CASE Surroundings
  BY <1>5 DEF Surroundings, FrameArrives, OtherOpens, OtherCloses, readVars
<1> QED BY <1>1, <1>2, <1>3, <1>4, <1>5 DEF Next

\* Descriptors are given and taken, nothing else is done to them.
LEMMA FdsKeep == ASSUME TypeFds, TypeDevs, [Next]_vars PROVE TypeFds'
<1>1. ASSUME NEW f, NEW part \in {"free", "device", "promisc", "other"},
             holder' = [holder EXCEPT ![f] = part]
      PROVE  holder' \in [Fds -> {"free", "device", "promisc", "other"}]
  BY <1>1 DEF TypeFds
<1>2. CASE UNCHANGED fdVars BY <1>2 DEF fdVars, TypeFds
<1>3. CASE ConstructorStep /\ ~ UNCHANGED fdVars
  <2>1. others' = others
    BY <1>3 DEF ConstructorStep, OpenSocket, SocketFails, FindInterface,
         InterfaceMissing, ReadMac, MacFails, PromiscSocket,
         PromiscSocketFails, GetFlags, PromiscReturns, Bind, BindFails,
         CloseSocket, fdVars
  <2>2. \E f, part : /\ part \in {"free", "device", "promisc", "other"}
                     /\ holder' = [holder EXCEPT ![f] = part]
    <3>1. CASE OpenSocket BY <3>1 DEF OpenSocket, Give
    <3>2. CASE InterfaceMissing \/ MacFails \/ BindFails
      BY <3>2 DEF InterfaceMissing, MacFails, BindFails, CloseSocket, Close
    <3>3. CASE PromiscSocket BY <3>3 DEF PromiscSocket, Give
    <3>4. CASE PromiscReturns BY <3>4 DEF PromiscReturns, Close
    <3> QED BY <1>3, <3>1, <3>2, <3>3, <3>4 DEF ConstructorStep, SocketFails,
              FindInterface, ReadMac, PromiscSocketFails, GetFlags, Bind
  <2> QED BY <1>1, <2>1, <2>2 DEF TypeFds
<1>4. CASE NodeStep /\ ~ UNCHANGED fdVars
  <2>1. PICK d \in Devs : DestroyDevice(d)
    BY <1>4 DEF NodeStep, StartReader, Stop, Join, Destroyed
  <2> QED BY <1>1, <2>1 DEF DestroyDevice, CloseSocket, Close, TypeFds
<1>5. CASE ReaderStep
  BY <1>2, <1>5 DEF ReaderStep, ReaderTests, ReadFrame, ReadNothing
<1>6. CASE Surroundings /\ ~ UNCHANGED fdVars
  <2>1. PICK f \in Fds : OtherOpens(f) \/ OtherCloses(f)
    BY <1>6 DEF Surroundings, FrameArrives
  <2>2. others' \subseteq Fds
    BY <2>1 DEF OtherOpens, OtherCloses, TypeFds
  <2> QED BY <1>1, <2>1, <2>2 DEF OtherOpens, OtherCloses, Give, Close, TypeFds
<1> QED BY <1>2, <1>3, <1>4, <1>5, <1>6 DEF Next, vars

\* The devices keep their types.
LEMMA DevsKeep == ASSUME TypeDevs, TypeFds, [Next]_vars PROVE TypeDevs'
<1> USE FirstDevice DEF TypeDevs
<1>1. CASE UNCHANGED <<devVars, promFd>> BY <1>1 DEF devVars
<1>2. CASE ConstructorStep
  <2>1. CASE OpenSocket \/ FindInterface
    BY <2>1 DEF OpenSocket, FindInterface, Give
  <2>2. CASE InterfaceMissing \/ MacFails \/ BindFails
    BY <2>2 DEF InterfaceMissing, MacFails, BindFails, CloseSocket
  <2>3. CASE PromiscSocket \/ PromiscReturns
    BY <2>3 DEF PromiscSocket, PromiscReturns, devVars
  <2>4. CASE Bind
    <3>1. cur' \in Devs BY <2>4 DEF Bind, Devs
    <3> QED BY <2>4, <3>1 DEF Bind
  <2> QED BY <1>1, <1>2, <2>1, <2>2, <2>3, <2>4 DEF ConstructorStep,
            SocketFails, ReadMac, PromiscSocketFails, GetFlags
<1>3. CASE NodeStep
  <2>1. ASSUME NEW d \in Devs, DestroyDevice(d) PROVE TypeDevs'
    BY <2>1 DEF DestroyDevice, CloseSocket
  <2> QED BY <1>1, <1>3, <2>1 DEF NodeStep, StartReader, Stop, Join, Destroyed
<1>4. CASE ReaderStep
  BY <1>1, <1>4 DEF ReaderStep, ReaderTests, ReadFrame, ReadNothing
<1>5. CASE Surroundings
  BY <1>1, <1>5 DEF Surroundings, FrameArrives, OtherOpens, OtherCloses
<1> QED BY <1>1, <1>2, <1>3, <1>4, <1>5 DEF Next, vars

\* The receive buffer and the frame read keep their types.
LEMMA ReadKeep == ASSUME TypeRead, [Next]_vars PROVE TypeRead'
<1> USE DEF TypeRead
<1>1. CASE UNCHANGED <<queue, last>> BY <1>1
<1>2. CASE queue' = <<>> /\ UNCHANGED last BY <1>2
<1>3. CASE ConstructorStep
  BY <1>1, <1>2, <1>3 DEF ConstructorStep, OpenSocket, SocketFails,
       FindInterface, InterfaceMissing, ReadMac, MacFails, PromiscSocket,
       PromiscSocketFails, GetFlags, PromiscReturns, Bind, BindFails,
       CloseSocket, readVars
<1>4. CASE NodeStep
  BY <1>1, <1>2, <1>4 DEF NodeStep, StartReader, Stop, Join, Destroyed,
       DestroyDevice, CloseSocket, readVars
<1>5. CASE ReaderStep
  BY <1>1, <1>5 DEF ReaderStep, ReaderTests, ReadFrame, ReadNothing
<1>6. CASE Surroundings
  <2>1. ASSUME NEW l \in Links, FrameArrives(l) PROVE TypeRead'
    <3>1. [link |-> l, complete |-> 1 \in devices] \in Frames
      BY DEF Frames
    <3> QED BY <2>1, <3>1 DEF FrameArrives
  <2> QED BY <1>1, <1>6, <2>1 DEF Surroundings, OtherOpens, OtherCloses,
            readVars
<1> QED BY <1>1, <1>3, <1>4, <1>5, <1>6 DEF Next, vars, readVars

LEMMA TypeKeeps == ASSUME TypeOK, [Next]_vars PROVE TypeOK'
<1>1. TypeOK' <=> TypeFds' /\ TypePcs' /\ TypeDevs' /\ TypeRead'
  BY DEF TypeOK, TypeFds, TypePcs, TypeDevs, TypeRead
<1> QED BY <1>1, TypeParts, FdsKeep, PcsKeep, DevsKeep, ReadKeep

-----------------------------------------------------------------------------
\* Constructing goes through the devices in order; destruction is for all.
LEMMA DevicesKeep ==
  ASSUME TypeOK, DevicesFollowMain, [Next]_vars PROVE DevicesFollowMain'
<1> USE FirstDevice, TypeParts DEF DevicesFollowMain, TypeDevs
<1>1. CASE UNCHANGED <<main, cur, devices>> BY <1>1
<1>2. CASE ConstructorStep
  <2>1. CASE SocketFails \/ InterfaceMissing \/ MacFails \/ BindFails
    BY <2>1 DEF SocketFails, InterfaceMissing, MacFails, BindFails, HasSocket
  <2>2. CASE \/ OpenSocket \/ FindInterface \/ ReadMac \/ PromiscSocket
             \/ PromiscSocketFails \/ GetFlags \/ PromiscReturns
    <3>1. /\ main \in HasSocket \cup {"socket"} /\ main' \in HasSocket
          /\ UNCHANGED <<cur, devices>>
      BY <2>2 DEF OpenSocket, FindInterface, ReadMac, PromiscSocket,
           PromiscSocketFails, GetFlags, PromiscReturns, HasSocket, devVars
    <3> QED BY <3>1 DEF HasSocket
  <2>3. CASE Bind
    <3>1. \A d \in Devs : d \in devices <=> d < cur
      BY <2>3 DEF Bind, HasSocket
    <3>2. CASE cur < Len(Interface)
      BY <2>3, <3>1, <3>2 DEF Bind, HasSocket
    <3>3. CASE ~ (cur < Len(Interface))
      BY <2>3, <3>1, <3>3 DEF Bind, HasSocket, Devs
    <3> QED BY <3>2, <3>3
  <2> QED BY <1>2, <2>1, <2>2, <2>3 DEF ConstructorStep
<1>3. CASE NodeStep
  BY <1>3 DEF NodeStep, StartReader, Stop, Join, Destroyed, DestroyDevice,
       HasSocket, devVars
<1>4. CASE ReaderStep
  BY <1>1, <1>4 DEF ReaderStep, ReaderTests, ReadFrame, ReadNothing, devVars
<1>5. CASE Surroundings
  BY <1>1, <1>5 DEF Surroundings, FrameArrives, OtherOpens, OtherCloses,
       devVars
<1> QED BY <1>1, <1>2, <1>3, <1>4, <1>5 DEF Next, vars, devVars

\* Closing the socket of an open device leaves the other descriptors alone.
LEMMA CloseKeeps ==
  ASSUME TypeOK, FdInv, NEW d \in Devs, d \in Open, CloseSocket(d),
         Open' = Open \ {d}, main \notin {"getFlags", "setFlags"},
         main' \notin {"getFlags", "setFlags"}
  PROVE  FdInv'
<1> USE NoneIsNothing, TypeParts DEF TypeFds, TypeDevs, FdInv, CloseSocket, Close
<1>1. sockFd[d] \in Fds /\ holder[sockFd[d]] = "device"
  BY DEF SocketsAreOwn
<1>2. SocketsAreOwn'
  BY <1>1 DEF SocketsAreOwn
<1>3. promFd = None /\ PromiscIsOwn'
  BY DEF PromiscIsOwn
<1>4. HeldIsKnown'
  <2>1. ASSUME NEW f \in Fds, holder'[f] \in {"device", "promisc"}
        PROVE  f # sockFd[d] /\ holder[f] = holder'[f]
    BY <1>1, <2>1
  <2> QED BY <1>3, <2>1 DEF HeldIsKnown
<1>5. OthersUndisturbed'
  BY <1>1 DEF OthersUndisturbed
<1> QED BY <1>2, <1>3, <1>4, <1>5

\* A step that changes neither descriptors nor who knows them.
LEMMA StayKeeps ==
  ASSUME FdInv, UNCHANGED <<holder, others, sockFd, promFd>>, Open' = Open,
         main' \in {"getFlags", "setFlags"} <=> main \in {"getFlags", "setFlags"}
  PROVE  FdInv'
BY DEF FdInv, SocketsAreOwn, PromiscIsOwn, HeldIsKnown, OthersUndisturbed

\* The constructor keeps account of its descriptors.
LEMMA ConstructorKeepsFds ==
  ASSUME TypeOK, DevicesFollowMain, FdInv, ConstructorStep PROVE FdInv'
<1> USE FirstDevice, NoneIsNothing, TypeParts DEF TypeFds, TypeDevs
<1>1. main \in HasSocket \cup {"socket"} => cur \notin devices
  BY DEF DevicesFollowMain
<1>2. CASE OpenSocket
  <2> USE <1>2 DEF OpenSocket, Give
  <2>1. PICK f \in Fds : /\ holder[f] = "free"
                         /\ holder' = [holder EXCEPT ![f] = "device"]
                         /\ sockFd' = [sockFd EXCEPT ![cur] = f]
    OBVIOUS
  <2>2. Open = devices /\ Open' = devices \cup {cur}
    BY DEF Open, HasSocket
  <2>3. sockFd[cur] = None /\ \A d \in Devs : sockFd[d] # f
    BY <1>1, <2>1, <2>2 DEF FdInv, SocketsAreOwn, HasSocket
  <2>4. SocketsAreOwn'
    BY <2>1, <2>2, <2>3 DEF FdInv, SocketsAreOwn
  <2>5. PromiscIsOwn' BY <2>1 DEF FdInv, PromiscIsOwn
  <2>6. HeldIsKnown'
    BY <2>1, <2>3 DEF FdInv, HeldIsKnown
  <2>7. OthersUndisturbed' BY <2>1 DEF FdInv, OthersUndisturbed
  <2> QED BY <2>4, <2>5, <2>6, <2>7 DEF FdInv
<1>3. CASE InterfaceMissing \/ MacFails \/ BindFails
  <2> USE <1>3 DEF InterfaceMissing, MacFails, BindFails
  <2>1. cur \in Open /\ Open' = Open \ {cur}
    BY <1>1 DEF Open, HasSocket, CloseSocket
  <2> QED BY <2>1, CloseKeeps
<1>4. CASE PromiscSocket
  <2> USE <1>4 DEF PromiscSocket, Give, devVars
  <2>1. holder[promFd'] = "free" /\ promFd' \in Fds
        /\ holder' = [holder EXCEPT ![promFd'] = "promisc"]
    OBVIOUS
  <2>2. Open' = Open BY DEF Open, HasSocket
  <2>3. SocketsAreOwn' BY <2>1, <2>2 DEF FdInv, SocketsAreOwn
  <2>4. PromiscIsOwn' BY <2>1 DEF PromiscIsOwn
  <2>5. HeldIsKnown'
    BY <2>1 DEF FdInv, HeldIsKnown, PromiscIsOwn
  <2>6. OthersUndisturbed' BY <2>1 DEF FdInv, OthersUndisturbed
  <2> QED BY <2>3, <2>4, <2>5, <2>6 DEF FdInv
<1>5. CASE PromiscReturns
  <2> USE <1>5 DEF PromiscReturns, Close, devVars
  <2>1. promFd \in Fds /\ holder[promFd] = "promisc"
        /\ holder' = [holder EXCEPT ![promFd] = "free"]
    BY DEF FdInv, PromiscIsOwn
  <2>2. Open' = Open BY DEF Open, HasSocket
  <2>3. SocketsAreOwn' BY <2>1, <2>2 DEF FdInv, SocketsAreOwn
  <2>4. PromiscIsOwn' BY DEF PromiscIsOwn
  <2>5. HeldIsKnown' BY <2>1 DEF FdInv, HeldIsKnown
  <2>6. OthersUndisturbed' BY <2>1 DEF FdInv, OthersUndisturbed
  <2> QED BY <2>3, <2>4, <2>5, <2>6 DEF FdInv
<1>6. CASE Bind
  <2> USE <1>6 DEF Bind, fdVars
  <2>1. Open' = Open BY DEF Open, HasSocket
  <2> QED BY <2>1, StayKeeps
<1>7. CASE \/ SocketFails \/ FindInterface \/ ReadMac
           \/ PromiscSocketFails \/ GetFlags
  <2> USE <1>7 DEF SocketFails, FindInterface, ReadMac, PromiscSocketFails,
                   GetFlags, fdVars, devVars
  <2>1. Open' = Open BY DEF Open, HasSocket
  <2> QED BY <2>1, StayKeeps
<1> QED BY <1>2, <1>3, <1>4, <1>5, <1>6, <1>7 DEF ConstructorStep

\* So do the node, its reader and the rest of the process.
LEMMA OthersKeepFds ==
  ASSUME TypeOK, FdInv, NodeStep \/ ReaderStep \/ Surroundings
  PROVE  FdInv'
<1> USE NoneIsNothing, TypeParts DEF TypeFds, TypeDevs
<1>1. ASSUME NEW d \in Devs, DestroyDevice(d) PROVE FdInv'
  <2> USE <1>1 DEF DestroyDevice
  <2>1. d \in Open /\ Open' = Open \ {d}
    BY DEF Open, HasSocket, CloseSocket
  <2> QED BY <2>1, CloseKeeps
<1>2. CASE StartReader \/ Stop \/ Join \/ Destroyed
  <2> USE <1>2 DEF StartReader, Stop, Join, Destroyed, fdVars, devVars
  <2>1. Open' = Open BY DEF Open, HasSocket
  <2> QED BY <2>1, StayKeeps
<1>3. CASE ReaderStep \/ \E l \in Links : FrameArrives(l)
  <2> USE <1>3 DEF ReaderStep, ReaderTests, ReadFrame, ReadNothing,
                   FrameArrives, fdVars, devVars
  <2>1. Open' = Open BY DEF Open, HasSocket
  <2> QED BY <2>1, StayKeeps
<1>4. ASSUME NEW f \in Fds, OtherOpens(f) \/ OtherCloses(f) PROVE FdInv'
  <2> USE <1>4 DEF OtherOpens, OtherCloses, Give, Close, devVars
  <2>1. Open' = Open BY DEF Open
  <2>2. holder[f] \in {"free", "other"} /\ holder'[f] \in {"free", "other"}
        /\ \A g \in Fds \ {f} : holder'[g] = holder[g]
    BY DEF FdInv, OthersUndisturbed
  <2>3. SocketsAreOwn' BY <2>1, <2>2 DEF FdInv, SocketsAreOwn
  <2>4. PromiscIsOwn' BY <2>2 DEF FdInv, PromiscIsOwn
  <2>5. HeldIsKnown' BY <2>2 DEF FdInv, HeldIsKnown
  <2>6. OthersUndisturbed' BY DEF FdInv, OthersUndisturbed
  <2> QED BY <2>3, <2>4, <2>5, <2>6 DEF FdInv
<1> QED BY <1>1, <1>2, <1>3, <1>4 DEF NodeStep, Surroundings

\* The reader is where the main thread lets it be.
LEMMA ReaderKeeps ==
  ASSUME ReaderIsJoined, TypeOK, Next PROVE ReaderIsJoined'
<1> USE DEF ReaderIsJoined
<1>1. CASE ConstructorStep
  BY <1>1 DEF ConstructorStep, OpenSocket, SocketFails, FindInterface,
       InterfaceMissing, ReadMac, MacFails, PromiscSocket,
       PromiscSocketFails, GetFlags, PromiscReturns, Bind, BindFails,
       CloseSocket, readVars
<1>2. CASE NodeStep
  BY <1>2 DEF NodeStep, StartReader, Stop, Join, Destroyed, DestroyDevice,
       CloseSocket, readVars
<1>3. CASE ReaderStep
  BY <1>3 DEF ReaderStep, ReaderTests, ReadFrame, ReadNothing
<1>4. CASE Surroundings
  BY <1>4 DEF Surroundings, FrameArrives, OtherOpens, OtherCloses, readVars
<1> QED BY <1>1, <1>2, <1>3, <1>4 DEF Next

\* A device is complete only once its socket is bound to its interface.
LEMMA BoundKeeps ==
  ASSUME TypeOK, DevicesFollowMain, BoundToNamed, Next PROVE BoundToNamed'
<1> USE FirstDevice, TypeParts DEF TypeDevs, BoundToNamed
<1>1. CASE UNCHANGED <<main, cur, devices, ifindex, hears>>
  BY <1>1 DEF HasSocket
<1>2. CASE ConstructorStep
  <2>1. CASE OpenSocket
    BY <2>1 DEF OpenSocket, DevicesFollowMain, HasSocket
  <2>2. CASE FindInterface
    BY <2>2 DEF FindInterface, HasSocket
  <2>3. CASE InterfaceMissing \/ MacFails \/ BindFails
    BY <2>3 DEF InterfaceMissing, MacFails, BindFails, CloseSocket,
         DevicesFollowMain, HasSocket
  <2>4. CASE Bind
    <3>1. cur = 1 => hears'[1] = Interface[1]
      BY <2>4 DEF Bind, HasSocket
    <3>2. cur # 1 => hears'[1] = hears[1]
      BY <2>4 DEF Bind
    <3> QED BY <2>4, <3>1, <3>2 DEF Bind, HasSocket
  <2>5. CASE \/ SocketFails \/ ReadMac \/ PromiscSocket
             \/ PromiscSocketFails \/ GetFlags \/ PromiscReturns
    BY <2>5 DEF SocketFails, ReadMac, PromiscSocket, PromiscSocketFails,
         GetFlags, PromiscReturns, HasSocket, devVars
  <2> QED BY <1>2, <2>1, <2>2, <2>3, <2>4, <2>5 DEF ConstructorStep
<1>3. CASE NodeStep
  <2>1. ASSUME NEW d \in Devs, DestroyDevice(d) PROVE BoundToNamed'
    BY <2>1 DEF DestroyDevice, CloseSocket, HasSocket
  <2> QED BY <1>3, <2>1 DEF NodeStep, StartReader, Stop, Join, Destroyed,
            HasSocket, devVars
<1>4. CASE ReaderStep \/ Surroundings
  BY <1>1, <1>4 DEF ReaderStep, ReaderTests, ReadFrame, ReadNothing,
       Surroundings, FrameArrives, OtherOpens, OtherCloses, devVars
<1> QED BY <1>2, <1>3, <1>4 DEF Next

\* Frames are marked when they arrive, by what the socket is bound to then.
LEMMA HearsKeep ==
  ASSUME TypeOK, BoundToNamed, HearsNamedInterface, Next
  PROVE  HearsNamedInterface'
<1> USE FirstDevice, NoneIsNothing, TypeParts DEF TypeRead, HearsNamedInterface
<1>1. CASE UNCHANGED queue BY <1>1
<1>2. CASE queue' = <<>> BY <1>2
<1>3. CASE ConstructorStep
  BY <1>1, <1>2, <1>3 DEF ConstructorStep, OpenSocket, SocketFails,
       FindInterface, InterfaceMissing, ReadMac, MacFails, PromiscSocket,
       PromiscSocketFails, GetFlags, PromiscReturns, Bind, BindFails,
       CloseSocket, readVars
<1>4. CASE NodeStep
  BY <1>1, <1>2, <1>4 DEF NodeStep, StartReader, Stop, Join, Destroyed,
       DestroyDevice, CloseSocket, readVars
<1>5. CASE ReaderStep
  <2>1. CASE ReadFrame
    <3>1. /\ queue \in Seq(Frames) /\ queue # <<>> /\ queue' = Tail(queue)
      BY <2>1 DEF ReadFrame
    <3>2. \A i \in 1 .. Len(queue') :
            i + 1 \in 1 .. Len(queue) /\ queue'[i] = queue[i + 1]
      BY <3>1
    <3> QED BY <3>2
  <2> QED BY <1>1, <1>5, <2>1 DEF ReaderStep, ReaderTests, ReadNothing
<1>6. CASE Surroundings
  <2>1. ASSUME NEW l \in Links, FrameArrives(l) PROVE HearsNamedInterface'
    <3> DEFINE new == [link |-> l, complete |-> 1 \in devices]
    <3>1. new.complete => l = Interface[1]
      BY <2>1 DEF FrameArrives, BoundToNamed
    <3>2. queue' = Append(queue, new) BY <2>1 DEF FrameArrives
    <3>3. \A i \in 1 .. Len(queue') :
            \/ i \in 1 .. Len(queue) /\ queue'[i] = queue[i]
            \/ queue'[i] = new
      <4> HIDE DEF new
      <4> QED BY <3>2
    <3> QED BY <3>1, <3>3
  <2> QED BY <1>1, <1>6, <2>1 DEF Surroundings, OtherOpens, OtherCloses,
            readVars
<1> QED BY <1>3, <1>4, <1>5, <1>6 DEF Next

\* The inductive invariant is an invariant of the specification.
LEMMA IInvHolds == Spec => []IInv
<1>1. ASSUME IInv, UNCHANGED vars PROVE IInv'
  BY <1>1 DEF IInv, TypeOK, DevicesFollowMain, FdInv, SocketsAreOwn, Open,
       PromiscIsOwn, HeldIsKnown, OthersUndisturbed, ReaderIsJoined,
       BoundToNamed, HearsNamedInterface, vars, fdVars, devVars, readVars
<1>2. ASSUME IInv, Next PROVE IInv'
  <2>1. TypeOK' /\ DevicesFollowMain'
    BY <1>2, TypeKeeps, DevicesKeep DEF IInv
  <2>2. FdInv'
    BY <1>2, ConstructorKeepsFds, OthersKeepFds DEF IInv, Next
  <2>3. ReaderIsJoined' /\ BoundToNamed' /\ HearsNamedInterface'
    BY <1>2, ReaderKeeps, BoundKeeps, HearsKeep DEF IInv
  <2> QED BY <2>1, <2>2, <2>3 DEF IInv
<1>3. IInv /\ [Next]_vars => IInv'
  BY <1>1, <1>2
<1> QED BY <1>3, InitIInv, PTL DEF Spec
-----------------------------------------------------------------------------
\* Every variable has its type.
THEOREM TypeCorrect == Spec => []TypeOK
<1>1. IInv => TypeOK BY DEF IInv
<1> QED BY <1>1, IInvHolds, PTL

\* However many devices, whichever call fails: no descriptor is leaked.
THEOREM NothingLeaks == Spec => []AllReturned
<1>1. ASSUME IInv PROVE AllReturned
  <2> SUFFICES ASSUME main = "gone", NEW f \in Fds
               PROVE  holder[f] \in {"free", "other"}
    BY DEF AllReturned
  <2>1. Open = {} /\ promFd = None
    BY <1>1 DEF IInv, DevicesFollowMain, Open, HasSocket, FdInv, PromiscIsOwn
  <2>2. \A d \in Devs : sockFd[d] = None
    BY <1>1, <2>1 DEF IInv, FdInv, SocketsAreOwn
  <2>3. holder[f] # "device" /\ holder[f] # "promisc"
    BY <1>1, <2>1, <2>2, NoneIsNothing DEF IInv, FdInv, HeldIsKnown
  <2> QED BY <1>1, <2>3 DEF IInv, TypeOK
<1> QED BY <1>1, IInvHolds, PTL

\* No descriptor of another part of the process is ever closed.
THEOREM NothingClosedTwice == Spec => []OthersUndisturbed
<1>1. IInv => OthersUndisturbed BY DEF IInv, FdInv
<1> QED BY <1>1, IInvHolds, PTL

\* The reader never waits on a descriptor that is not its device's socket.
THEOREM ReaderHasSocket == Spec => []ReceivesOnOwnSocket
<1>1. ASSUME IInv PROVE ReceivesOnOwnSocket
  <2> SUFFICES ASSUME reader = "recv"
               PROVE  sockFd[1] \in Fds /\ holder[sockFd[1]] = "device"
    BY DEF ReceivesOnOwnSocket
  <2>1. 1 \in Open
    BY <1>1 DEF IInv, ReaderIsJoined, DevicesFollowMain, Open
  <2> QED BY <1>1, <2>1, FirstDevice DEF IInv, TypeOK, FdInv, SocketsAreOwn
<1> QED BY <1>1, IInvHolds, PTL

\* A complete device is given frames of its own interface only.
THEOREM HearsOnlyNamed == Spec => []HearsNamedInterface
<1>1. IInv => HearsNamedInterface BY DEF IInv
<1> QED BY <1>1, IInvHolds, PTL
=============================================================================
