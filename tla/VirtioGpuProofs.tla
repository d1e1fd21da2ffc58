-------------------------- MODULE VirtioGpuProofs ---------------------------
(***************************************************************************)
(* Proofs about the driver of the VirtIO GPU.                              *)
(*                                                                         *)
(* VirtioGpu, for every width of the ring indices and any device: the      *)
(* chain is not touched while the device owns it, the response a caller    *)
(* reads is its own, and the handshake keeps its order.                    *)
(*                                                                         *)
(* PciWalk, for a bus, BARs and capabilities of any number: the GPU and    *)
(* its structures are found.                                               *)
(***************************************************************************)
EXTENDS VirtioGpu, PciWalk, TLAPS

(***************************************************************************)
(* The list of commands a call has still to send, when it has none.        *)
(***************************************************************************)
LEMMA EmptyList ==
    ASSUME NEW S
    PROVE  <<>> \in Seq(S) /\ Len(<<>>) = 0
OBVIOUS

(***************************************************************************)
(* Joining two lists of commands, as ClearCommands and InitCommands do.    *)
(***************************************************************************)
LEMMA Joined ==
    ASSUME NEW S, NEW s \in Seq(S), NEW t \in Seq(S)
    PROVE  s \o t \in Seq(S) /\ Len(s \o t) = Len(s) + Len(t)
OBVIOUS

(***************************************************************************)
(* The command being sent, and those after it.                             *)
(***************************************************************************)
LEMMA FirstAndRest ==
    ASSUME NEW S, NEW s \in Seq(S), s # <<>>
    PROVE  Head(s) \in S /\ Tail(s) \in Seq(S)
OBVIOUS

------------------------------------------------------------------------------
(* The GPU's virtqueue.                                                    *)

Indices == 0 .. IndexMod - 1
Succ(n) == (n + 1) % IndexMod

(***************************************************************************)
(* The indices wrap, and one step never leads back to the same index.      *)
(***************************************************************************)
LEMMA SuccFacts ==
    ASSUME NEW n \in Indices
    PROVE  Succ(n) \in Indices /\ Succ(n) # n
<1>1. CASE n + 1 < IndexMod
  <2>1. (n + 1) % IndexMod = n + 1
    BY <1>1, IndexAssumption, SMT DEF Indices
  <2> QED
    BY <1>1, <2>1, IndexAssumption, SMT DEF Succ, Indices
<1>2. CASE n + 1 = IndexMod
  <2>1. (n + 1) % IndexMod = 0
    BY <1>2, IndexAssumption, SMT DEF Indices
  <2> QED
    BY <1>2, <2>1, IndexAssumption, SMT DEF Succ, Indices
<1> QED
  BY <1>1, <1>2, IndexAssumption, SMT DEF Indices

(***************************************************************************)
(* What the six functions pass to vgp_send_command: a command that chains  *)
(* a response descriptor has its answer in VIRTQUEUE_RESP.                 *)
(***************************************************************************)
LEMMA CommandFacts ==
    ASSUME NEW c \in Commands
    PROVE  /\ c.type \in Types /\ c.type # "zero"
           /\ c.next \in BOOLEAN /\ c.resp \in Buffers
           /\ c.next => c.resp = "RESP"
<1>1. c.type \in Types
  BY DEF Types
<1>2. c.type # "zero" /\ c.resp \in Buffers /\ (c.next => c.resp = "RESP")
  BY DEF Commands, Command, Buffers, vgp_get_display_info, vgp_create_2d_resource,
         vgp_attach_backing, vgp_set_scanout, vgp_transfer_to_host, resource_flush
<1>3. c.next \in BOOLEAN
  <2>1. \/ c = Command("GET_DISPLAY_INFO", "DISP_INFO", FALSE)
        \/ \E t \in Types : c = Command(t, "RESP", TRUE)
    BY <1>1 DEF Commands, Command, vgp_get_display_info, vgp_create_2d_resource,
       vgp_attach_backing, vgp_set_scanout, vgp_transfer_to_host, resource_flush
  <2>2. c.next = FALSE \/ c.next = TRUE
    BY <2>1 DEF Command
  <2> QED
    BY <2>2, Zenon
<1> QED
  BY <1>1, <1>2, <1>3

(***************************************************************************)
(* A list of a length is not empty.                                        *)
(***************************************************************************)
LEMMA NonEmpty ==
    ASSUME NEW s, Len(s) # 0
    PROVE  s # <<>>
<1>1. Len(<<>>) = 0
  BY EmptyList
<1> QED
  BY <1>1, Zenon

(***************************************************************************)
(* The lists of commands the driver works through.                         *)
(***************************************************************************)
LEMMA ListFacts ==
    /\ FlushCommands \in Seq(Commands) /\ FlushCommands # <<>>
    /\ ClearCommands \in Seq(Commands) /\ ClearCommands # <<>>
    /\ InitCommands \in Seq(Commands) /\ InitCommands # <<>>
    /\ <<vgp_set_scanout>> \in Seq(Commands) /\ <<vgp_set_scanout>> # <<>>
<1>1. /\ vgp_get_display_info \in Commands /\ vgp_create_2d_resource \in Commands
      /\ vgp_attach_backing \in Commands /\ vgp_set_scanout \in Commands
      /\ vgp_transfer_to_host \in Commands /\ resource_flush \in Commands
  BY DEF Commands
<1>2. FlushCommands \in Seq(Commands) /\ Len(FlushCommands) = 2
  BY <1>1 DEF FlushCommands
<1>3. ClearCommands \in Seq(Commands) /\ Len(ClearCommands) = 3
  <2> DEFINE first == <<vgp_transfer_to_host>>
  <2>1. first \in Seq(Commands) /\ Len(first) = 1
    BY <1>1
  <2> HIDE DEF first
  <2>2. /\ first \o FlushCommands \in Seq(Commands)
        /\ Len(first \o FlushCommands) = Len(first) + Len(FlushCommands)
    BY <1>2, <2>1, Joined, Zenon
  <2> QED
    BY <1>2, <2>1, <2>2 DEF ClearCommands, first
<1>4. InitCommands \in Seq(Commands) /\ Len(InitCommands) = 6
  <2> DEFINE first == <<vgp_get_display_info, vgp_create_2d_resource, vgp_attach_backing,
                        vgp_transfer_to_host>>
  <2>1. first \in Seq(Commands) /\ Len(first) = 4
    BY <1>1
  <2> HIDE DEF first
  <2>2. /\ first \o FlushCommands \in Seq(Commands)
        /\ Len(first \o FlushCommands) = Len(first) + Len(FlushCommands)
    BY <1>2, <2>1, Joined, Zenon
  <2> QED
    BY <1>2, <2>1, <2>2 DEF InitCommands, first
<1>5. <<vgp_set_scanout>> \in Seq(Commands) /\ Len(<<vgp_set_scanout>>) = 1
  BY <1>1
<1>6. /\ Len(FlushCommands) # 0 /\ Len(ClearCommands) # 0 /\ Len(InitCommands) # 0
      /\ Len(<<vgp_set_scanout>>) # 0
  BY <1>2, <1>3, <1>4, <1>5
<1> QED
  BY <1>2, <1>3, <1>4, <1>5, <1>6, NonEmpty, Zenon

------------------------------------------------------------------------------
(* The inductive invariant.                                                *)

InCommand == phase \in {"publish", "notify", "sample", "poll", "inspect"}

\* What the driver is working on, and what it wrote for the device to read.
Working ==
    /\ InCommand \/ phase = "prepare" => todo # <<>>
    /\ InCommand => /\ cmd = Head(todo).type
                    /\ desc = [next |-> Head(todo).next, resp |-> Head(todo).resp]

\* The device has nothing to do, or exactly one chain.
Quiet == avail_idx = used_idx /\ serving = Nothing /\ ~notified
Pending == avail_idx = Succ(used_idx)

Answered == Head(todo).next => memory["RESP"] \in {cmd, "error"}

\* Whose turn it is, by the place in vgp_send_command.
Turn ==
    /\ phase \in {"boot", "reset", "features", "enable", "driver_ok", "prepare",
                  "publish", Idle} => Quiet
    /\ phase = "notify" => Pending /\ serving = Nothing /\ ~notified
    /\ phase = "sample" => Pending \/ (Quiet /\ Answered)
    /\ phase = "poll" => (Pending /\ last_used_idx = used_idx) \/ (Quiet /\ Answered)
    /\ phase = "inspect" => Quiet /\ Answered
    /\ serving # Nothing =>
         serving = [cmd |-> cmd, resp |-> IF desc.next THEN desc.resp ELSE "none"]

\* The status bits, by the place in vgp_start: DRIVER_OK comes after the rest,
\* and the device starts after DRIVER_OK.
Starting == {"boot", "reset", "features", "enable", "driver_ok"}

Handshake ==
    /\ "RESETTING" \in status => phase = "reset"
    /\ "OFFERED" \in status => phase = "features"
    /\ phase \in {"enable", "driver_ok"} => "FEATURES_OK" \in status
    /\ phase = "driver_ok" => queue = "enabled"
    /\ "DRIVER_OK" \in status =>
         phase \notin Starting /\ queue = "enabled" /\ "FEATURES_OK" \in status
    /\ live # "no" => "DRIVER_OK" \in status

QueueInv == TypeOK /\ Working /\ Turn /\ Handshake /\ HandshakeOrder

(***************************************************************************)
(* Every step keeps the types.                                             *)
(***************************************************************************)
LEMMA NextType ==
    ASSUME TypeOK, Working, Turn, [Next]_vars
    PROVE  TypeOK'
<1> USE DEF TypeOK, Idle
<1>h. todo # <<>> => Head(todo) \in Commands /\ Tail(todo) \in Seq(Commands)
  BY FirstAndRest
<1>1. ASSUME NEW found \in Found, vgp_init(found) PROVE TypeOK'
  BY <1>1, Zenon DEF vgp_init, device
<1>2. CASE Negotiate
  BY <1>2 DEF Negotiate, device
<1>3. CASE SetupQueue
  BY <1>3, ListFacts, Zenon DEF SetupQueue, device
<1>a. CASE EnableQueue \/ DriverOk
  BY <1>a, ListFacts, Zenon DEF EnableQueue, DriverOk, device
<1>b. CASE Start
  BY <1>b DEF Start, driver, shared
<1>4. CASE Prepare
  <2>1. Head(todo) \in Commands
    BY <1>4, <1>h DEF Prepare
  <2>2. cmd' \in Types /\ desc' \in [next : BOOLEAN, resp : Buffers]
    BY <1>4, <2>1, CommandFacts DEF Prepare
  <2> QED
    BY <1>4, <2>2 DEF Prepare, shared, device
<1>5. CASE Publish
  BY <1>5, SuccFacts, Zenon DEF Publish, Succ, Indices, shared, device
<1>6. CASE Notify
  BY <1>6 DEF Notify, device
<1>7. CASE Sample
  BY <1>7 DEF Sample, shared, device
<1>8. CASE Poll
  BY <1>8 DEF Poll, shared, device
<1>9. CASE Inspect
  <2>1. todo # <<>>
    BY <1>9 DEF Inspect, Working, InCommand
  <2>2. todo' \in Seq(Commands)
    BY <1>9, <1>h, <2>1, ListFacts DEF Inspect
  <2>3. scanout_found' \in BOOLEAN
    BY <1>9, Zenon DEF Inspect
  <2> QED
    BY <1>9, <2>2, <2>3, Zenon DEF Inspect, shared, device
<1>10. ASSUME NEW commands \in Seq(Commands), Call(commands) PROVE TypeOK'
  BY <1>10 DEF Call, shared, device
<1>11. CASE Reset
  BY <1>11, ZenonT(40) DEF Reset, driver, device
<1>12. ASSUME NEW accept \in Accepts, Answer(accept) PROVE TypeOK'
  BY <1>12 DEF Answer, driver, device
<1>13. CASE Fetch
  BY <1>13 DEF Fetch, driver, shared
<1>14. ASSUME NEW ok \in BOOLEAN, Complete(ok) PROVE TypeOK'
  <2>1. used_idx' \in 0 .. IndexMod - 1
    BY <1>14, SuccFacts DEF Complete, Succ, Indices
  <2>2. serving' \in [cmd : {"zero"} \cup Types, resp : Buffers \cup {"none"}]
    BY <1>14 DEF Complete, Nothing
  <2>3. memory' \in [Buffers -> Contents]
    <3>1. serving.cmd \in Contents /\ "error" \in Contents
      BY DEF Contents
    <3>2. \A b \in Buffers : memory[b] \in Contents
      OBVIOUS
    <3> HIDE DEF TypeOK
    <3>3. memory' = [b \in Buffers |-> IF b = serving.resp
                                       THEN IF ok THEN serving.cmd ELSE "error"
                                       ELSE memory[b]]
      BY <1>14 DEF Complete
    <3> QED
      BY <3>1, <3>2, <3>3, Zenon
  <2>4. notified' \in BOOLEAN
    BY <1>14, Zenon DEF Complete
  <2> QED
    BY <1>14, <2>1, <2>2, <2>3, <2>4 DEF Complete, driver
<1>15. CASE UNCHANGED vars
  BY <1>15 DEF vars, driver, shared, device
<1>16. vgp_flush \/ vgp_clear => TypeOK'
  BY <1>10, ListFacts, Zenon DEF vgp_flush, vgp_clear
<1> QED
  BY <1>1, <1>2, <1>3, <1>4, <1>5, <1>6, <1>7, <1>8, <1>9, <1>11, <1>12, <1>13, <1>14,
     <1>15, <1>16, <1>a, <1>b, Zenon
  DEF Next, StartInit, DriverStep, DeviceStep, Clients, Spin

(***************************************************************************)
(* Every step keeps what the driver is working on.                         *)
(***************************************************************************)
LEMMA NextWorking ==
    ASSUME TypeOK, Working, [Next]_vars
    PROVE  Working'
<1> USE DEF Working, InCommand, Idle
<1>1. ASSUME NEW found \in Found, vgp_init(found) PROVE Working'
  BY <1>1 DEF vgp_init
<1>2. CASE Negotiate
  BY <1>2 DEF Negotiate
<1>3. CASE SetupQueue \/ EnableQueue \/ DriverOk
  BY <1>3, ListFacts DEF SetupQueue, EnableQueue, DriverOk
<1>4. CASE Prepare
  BY <1>4 DEF Prepare
<1>5. CASE Publish
  BY <1>5 DEF Publish
<1>6. CASE Notify
  BY <1>6 DEF Notify
<1>7. CASE Sample
  BY <1>7 DEF Sample
<1>8. CASE Poll
  BY <1>8 DEF Poll
<1>9. CASE Inspect
  BY <1>9 DEF Inspect
<1>10. CASE vgp_flush \/ vgp_clear
  BY <1>10, ListFacts DEF vgp_flush, vgp_clear, Call
<1>11. CASE UNCHANGED driver
  BY <1>11 DEF driver
<1> QED
  BY <1>1, <1>2, <1>3, <1>4, <1>5, <1>6, <1>7, <1>8, <1>9, <1>10, <1>11, Zenon
  DEF Next, StartInit, DriverStep, DeviceStep, Clients, Spin, Reset, Answer, Start, Fetch, Complete, vars

(***************************************************************************)
(* Every step keeps the order of the handshake of vgp_start.               *)
(***************************************************************************)
LEMMA NextHandshake ==
    ASSUME TypeOK, Handshake, HandshakeOrder, [Next]_vars
    PROVE  Handshake' /\ HandshakeOrder'
<1> USE DEF Handshake, HandshakeOrder, Starting, Idle
<1>1. ASSUME NEW found \in Found, vgp_init(found) PROVE Handshake' /\ HandshakeOrder'
  BY <1>1 DEF vgp_init, device
<1>2. CASE Negotiate
  BY <1>2 DEF Negotiate, device
<1>3. CASE SetupQueue \/ EnableQueue \/ DriverOk
  BY <1>3 DEF SetupQueue, EnableQueue, DriverOk, device
<1>4. CASE Reset
  BY <1>4 DEF Reset, driver
<1>5. ASSUME NEW accept \in Accepts, Answer(accept) PROVE Handshake' /\ HandshakeOrder'
  BY <1>5 DEF Answer, driver, device
<1>a. CASE Start
  BY <1>a DEF Start, driver, shared
<1>6. ASSUME UNCHANGED <<status, queue, live>>,
             UNCHANGED phase \/ (phase \notin Starting /\ phase' \notin Starting)
      PROVE Handshake' /\ HandshakeOrder'
  BY <1>6
<1>7. CASE Prepare \/ Publish \/ Notify \/ Sample \/ Poll \/ Inspect
  BY <1>6, <1>7, Zenon DEF Prepare, Publish, Notify, Sample, Poll, Inspect, shared, device
<1>8. CASE vgp_flush \/ vgp_clear
  BY <1>6, <1>8 DEF vgp_flush, vgp_clear, Call, shared, device
<1>9. CASE Fetch \/ (\E ok \in BOOLEAN : Complete(ok)) \/ UNCHANGED vars
  BY <1>6, <1>9 DEF Fetch, Complete, vars, driver, shared, device
<1> QED
  BY <1>1, <1>2, <1>3, <1>4, <1>5, <1>7, <1>8, <1>9, <1>a, Zenon
  DEF Next, StartInit, DriverStep, DeviceStep, Clients, Spin

(***************************************************************************)
(* Every step keeps whose turn it is: the driver touches the chain only    *)
(* when the device is quiet, the device answers only a published chain.    *)
(***************************************************************************)
LEMMA NextTurn ==
    ASSUME TypeOK, Working, Turn, Handshake, [Next]_vars
    PROVE  Turn'
<1> USE DEF Turn, Quiet, Idle
<1>p. used_idx \in Indices /\ avail_idx \in Indices
  BY DEF TypeOK, Indices
<1>q. Pending => avail_idx # used_idx
  BY <1>p, SuccFacts DEF Pending
<1>1. ASSUME NEW found \in Found, vgp_init(found) PROVE Turn'
  BY <1>1 DEF vgp_init, device
<1>2. CASE Negotiate \/ SetupQueue \/ EnableQueue \/ DriverOk
  BY <1>2 DEF Negotiate, SetupQueue, EnableQueue, DriverOk, device
<1>a. CASE Start
  BY <1>a, Zenon DEF Start, Pending, Succ, Answered, driver, shared
<1>3. CASE Prepare
  BY <1>3 DEF Prepare, shared, device
<1>4. CASE Publish
  BY <1>4 DEF Publish, Pending, Succ, shared, device
<1>5. CASE Notify
  BY <1>5 DEF Notify, Pending, Succ, device
<1>6. CASE Sample
  BY <1>6 DEF Sample, Pending, Succ, Answered, shared, device
<1>7. CASE Poll
  BY <1>7 DEF Poll, Answered, shared, device
<1>8. CASE Inspect
  BY <1>8 DEF Inspect, shared, device
<1>9. CASE vgp_flush \/ vgp_clear
  BY <1>9 DEF vgp_flush, vgp_clear, Call, shared, device
<1>10. CASE Reset
  BY <1>10 DEF Reset, Handshake, driver, device
<1>11. ASSUME NEW accept \in Accepts, Answer(accept) PROVE Turn'
  BY <1>11, Zenon DEF Answer, Pending, Succ, Answered, driver, device
<1>12. CASE Fetch
  <2>1. phase \in {"sample", "poll"} /\ Pending
    BY <1>12 DEF Fetch, TypeOK
  <2> QED
    BY <1>12, <2>1 DEF Fetch, Pending, Succ, driver, shared
<1>13. ASSUME NEW ok \in BOOLEAN, Complete(ok) PROVE Turn'
  <2>1. phase \in {"sample", "poll"} /\ Pending
    BY <1>13 DEF Complete, TypeOK
  <2>2. Quiet'
    BY <1>13, <2>1 DEF Complete, Pending, Succ, driver
  <2>3. Answered'
    <3> SUFFICES ASSUME Head(todo).next
                 PROVE  memory'["RESP"] \in {cmd, "error"}
      BY <1>13 DEF Answered, Complete, driver
    <3>1. todo # <<>> /\ Head(todo) \in Commands
      BY <2>1, FirstAndRest DEF Working, InCommand, TypeOK
    <3>2. Head(todo).resp = "RESP"
      BY <3>1, CommandFacts
    <3>3. desc.next /\ desc.resp = "RESP"
      BY <2>1, <3>2 DEF Working, InCommand
    <3>4. serving.cmd = cmd /\ serving.resp = "RESP"
      BY <1>13, <3>3 DEF Complete
    <3> QED
      BY <1>13, <3>4 DEF Complete, Buffers
  <2> QED
    BY <1>13, <2>1, <2>2, <2>3 DEF Complete, driver
<1>14. CASE UNCHANGED vars
  BY <1>14, Zenon DEF vars, Pending, Succ, Answered, driver, shared, device
<1> QED
  BY <1>1, <1>2, <1>3, <1>4, <1>5, <1>6, <1>7, <1>8, <1>9, <1>10, <1>11, <1>12, <1>13, <1>14,
     <1>a, Zenon
  DEF Next, StartInit, DriverStep, DeviceStep, Clients, Spin

------------------------------------------------------------------------------
(* The theorems.                                                           *)

(***************************************************************************)
(* The invariant holds from the boot on.                                   *)
(***************************************************************************)
LEMMA InitQueue == Init => QueueInv
<1> SUFFICES ASSUME Init PROVE QueueInv
  OBVIOUS
<1>1. TypeOK
  <2>1. todo \in Seq(Commands)
    BY EmptyList DEF Init
  <2>2. memory \in [Buffers -> Contents] /\ serving \in [cmd : {"zero"} \cup Types,
                                                         resp : Buffers \cup {"none"}]
    BY DEF Init, Contents, Nothing
  <2>3. desc \in [next : BOOLEAN, resp : Buffers]
    BY DEF Init, Buffers
  <2> QED
    <3>1. scanout_found \in BOOLEAN /\ notified \in BOOLEAN
      BY Zenon DEF Init
    <3>2. 0 \in 0 .. IndexMod - 1
      BY IndexAssumption
    <3> QED
      BY <2>1, <2>2, <2>3, <3>1, <3>2 DEF Init, TypeOK
<1>2. Working /\ Turn
  BY DEF Init, Working, InCommand, Turn, Quiet
<1>3. Handshake /\ HandshakeOrder
  BY DEF Init, Handshake, HandshakeOrder
<1> QED
  BY <1>1, <1>2, <1>3 DEF QueueInv

(***************************************************************************)
(* The driver and the device take turns with the one chain, however the    *)
(* steps of vgp_send_command and of the device interleave, wherever the    *)
(* indices wrap and whatever the device answers.                           *)
(***************************************************************************)
THEOREM QueueInvariant == Spec => []QueueInv
<1>1. QueueInv /\ [Next]_vars => QueueInv'
  BY NextType, NextWorking, NextTurn, NextHandshake DEF QueueInv
<1> QED
  BY <1>1, InitQueue, PTL DEF Spec

(***************************************************************************)
(* The state of the driver and the device keeps its shape.                 *)
(***************************************************************************)
THEOREM QueueTypeCorrect == Spec => []TypeOK
<1>1. QueueInv => TypeOK
  BY DEF QueueInv
<1> QED
  BY <1>1, QueueInvariant, PTL

(***************************************************************************)
(* The caller of vgp_send_command reads the answer to its own command, and *)
(* the device has nothing left of it to serve.                             *)
(***************************************************************************)
THEOREM ResponsesOwn == Spec => []ResponseIsMine
<1>1. QueueInv => ResponseIsMine
  BY DEF QueueInv, Turn, Quiet, Answered, ResponseIsMine
<1> QED
  BY <1>1, QueueInvariant, PTL

(***************************************************************************)
(* However the device's start falls between the writes of vgp_start, the   *)
(* device finds its queue placed and enabled and the features agreed: the  *)
(* bit that lets it start is the last one written.                         *)
(***************************************************************************)
THEOREM HandshakeKept == Spec => []HandshakeOrder
<1>1. QueueInv => HandshakeOrder
  BY SMTT(30) DEF QueueInv
<1> QED
  BY <1>1, QueueInvariant, PTL

(***************************************************************************)
(* From avail->idx++ until used->idx moves no step of the driver writes    *)
(* the descriptors, VIRTQUEUE_CMD or avail->idx.                           *)
(***************************************************************************)
THEOREM ChainOwned == Spec => ChainStable
<1>1. ASSUME QueueInv, [Next]_vars, avail_idx # used_idx
      PROVE  UNCHANGED <<cmd, desc, avail_idx>>
  <2>1. phase \in {"notify", "sample", "poll"}
    BY <1>1 DEF QueueInv, TypeOK, Turn, Quiet
  <2>2. ~Prepare /\ ~Publish /\ phase \notin {"boot", "reset", "features", Idle}
    BY <2>1 DEF Prepare, Publish, Idle
  <2> QED
    BY <1>1, <2>2
   , Zenon DEF Next, StartInit, DriverStep, DeviceStep, Clients, vgp_init, Negotiate,
        SetupQueue, EnableQueue, DriverOk, Start, Notify, Sample, Spin, Poll, Inspect, vgp_flush, vgp_clear, Call, Reset, Answer, Fetch,
        Complete, vars, driver
<1>2. QueueInv /\ [Next]_vars => [avail_idx # used_idx => UNCHANGED <<cmd, desc, avail_idx>>]_vars
  BY <1>1
<1> QED
  BY <1>2, QueueInvariant, PTL DEF Spec, ChainStable

------------------------------------------------------------------------------
(* Between the turns of the PCI walks.                                     *)

(***************************************************************************)
(* A quotient is not 0 when the dividend is no smaller than the divisor.   *)
(***************************************************************************)
LEMMA QuotientPositive ==
    ASSUME NEW m \in Nat \ {0}, NEW a \in Nat, m <= a
    PROVE  a \div m # 0
OBVIOUS

\* A function, or the end of the loops.
Turns == [bus : 0 .. PCI_BUS_MAX, slot : 0 .. PCI_SLOT_MAX - 1, func : 0 .. PCI_FUNC_MAX - 1]

Searches == [place : Turns, found : BOOLEAN, address : Nat]

\* The search has passed no GPU, and has stopped at one if it has found one.
Searched(space, search) ==
    /\ search \in Searches
    /\ \A a \in Addresses : a < AddressOf(search.place) => space[a] # gpu_id
    /\ search.found => /\ search.place \in Places /\ search.address = AddressOf(search.place)
                       /\ space[search.address] = gpu_id

\* Each BAR that can be probed is where it was or where it is put.
BarsKept(given, bars) ==
    /\ bars \in [BarNumbers -> BarValues]
    /\ \A b \in BarNumbers : /\ bars[b].size = given[b].size
                             /\ Probes(given[b])
                                  => bars[b].address \in {given[b].address, Home(given[b])}

\* No such BAR has got an address without the memory bit being set.
Decoded(given, walk) ==
    \A b \in BarNumbers :
        Probes(given[b]) /\ given[b].address = 0 /\ walk.bars[b].address # 0 => walk.decodes

\* The BARs that a capability has named are where they are put; the last
\* structure of a kind so far is located.
Walked(unit, next, walk) ==
    /\ next \in 1 .. Len(unit.caps) + 1
    /\ BarsKept(unit.bars, walk.bars) /\ Decoded(unit.bars, walk) /\ walk.cfg \in [Located -> Nat]
    /\ \A n \in Structures(unit.caps) :
         LET cap == unit.caps[n]
             bar == unit.bars[cap.bar]
         IN  n < next /\ Probes(bar) =>
               /\ walk.bars[cap.bar].address = Home(bar)
               /\ (\A m \in Structures(unit.caps) :
                     m < next /\ unit.caps[m].cfg_type = cap.cfg_type => m <= n)
                  => walk.cfg[cap.cfg_type] = Home(bar) + cap.offset

\* The inductive invariant of PciSpec.
PciInv ==
    /\ call.over \in BOOLEAN
    /\ call.fn = "find" =>
         in \in Spaces /\ Searched(in, out) /\ call.over = ~Searching(out)
    /\ call.fn = "capabilities" =>
         in \in Devices /\ Walked(in, out.next, out.walk)
           /\ (call.over => out.next > Len(in.caps))

------------------------------------------------------------------------------
(* The search for the GPU.                                                 *)

(***************************************************************************)
(* An address below the first function of the next slot is at most the     *)
(* last function of this one, and one below the next bus at most the last  *)
(* function of this bus.                                                   *)
(***************************************************************************)
LEMMA NextSlot ==
    ASSUME NEW b \in Nat, NEW s \in Nat, NEW c \in Nat, NEW t \in Nat,
           NEW m \in 1 .. 8, NEW g \in 0 .. m - 1,
           pci_make_addr(c, t, g) < pci_make_addr(b, s + 1, 0)
    PROVE  pci_make_addr(c, t, g) <= pci_make_addr(b, s, m - 1)
BY DEF pci_make_addr

LEMMA NextBus ==
    ASSUME NEW b \in Nat, NEW c \in Nat, NEW n \in 1 .. 32, NEW t \in 0 .. n - 1,
           NEW m \in 1 .. 8, NEW g \in 0 .. m - 1,
           pci_make_addr(c, t, g) < pci_make_addr(b + 1, 0, 0)
    PROVE  pci_make_addr(c, t, g) <= pci_make_addr(b, n - 1, m - 1)
BY DEF pci_make_addr

(***************************************************************************)
(* The addresses of the functions increase along the three loops, and the  *)
(* loops leave none out.                                                   *)
(***************************************************************************)
LEMMA AddressAfter ==
    ASSUME NEW p \in Places
    PROVE  /\ After(p) \in Turns
           /\ \A q \in Places : AddressOf(q) < AddressOf(After(p)) => AddressOf(q) <= AddressOf(p)
           /\ AddressOf(p) \in Nat
<1>0. /\ PCI_BUS_MAX \in Nat \ {0} /\ PCI_SLOT_MAX \in 1 .. 32 /\ PCI_FUNC_MAX \in 1 .. 8
      /\ p.bus \in 0 .. PCI_BUS_MAX - 1 /\ p.slot \in 0 .. PCI_SLOT_MAX - 1
      /\ p.func \in 0 .. PCI_FUNC_MAX - 1
  BY BusAssumption DEF Places
<1>1. After(p) \in Turns
  <2>1. CASE p.func + 1 < PCI_FUNC_MAX
    BY <1>0, <2>1 DEF After, Places, Turns
  <2>2. CASE ~(p.func + 1 < PCI_FUNC_MAX) /\ p.slot + 1 < PCI_SLOT_MAX
    <3>1. After(p) = [bus |-> p.bus, slot |-> p.slot + 1, func |-> 0]
      BY <2>2, Zenon DEF After, Places
    <3> QED
      BY <1>0, <2>2, <3>1 DEF Turns
  <2>3. CASE ~(p.func + 1 < PCI_FUNC_MAX) /\ ~(p.slot + 1 < PCI_SLOT_MAX)
    BY <1>0, <2>3 DEF After, Turns
  <2> QED
    BY <2>1, <2>2, <2>3
<1>2. ASSUME NEW q \in Places, AddressOf(q) < AddressOf(After(p))
      PROVE  AddressOf(q) <= AddressOf(p)
  <2>1. /\ q.bus \in 0 .. PCI_BUS_MAX - 1 /\ q.slot \in 0 .. PCI_SLOT_MAX - 1
        /\ q.func \in 0 .. PCI_FUNC_MAX - 1
    BY DEF Places
  <2>2. CASE p.func + 1 < PCI_FUNC_MAX
    <3>1. After(p).bus = p.bus /\ After(p).slot = p.slot /\ After(p).func = p.func + 1
      BY <2>2 DEF After, Places
    <3> QED
      BY <1>0, <1>2, <2>1, <3>1 DEF AddressOf, pci_make_addr
  <2>3. CASE ~(p.func + 1 < PCI_FUNC_MAX) /\ p.slot + 1 < PCI_SLOT_MAX
    <3>1. /\ After(p).bus = p.bus /\ After(p).slot = p.slot + 1 /\ After(p).func = 0
          /\ p.func = PCI_FUNC_MAX - 1
      BY <1>0, <2>3 DEF After, Places
    <3>2. p.bus \in Nat /\ p.slot \in Nat /\ q.bus \in Nat /\ q.slot \in Nat
      BY <1>0, <2>1
    <3> QED
      BY <1>0, <1>2, <2>1, <3>1, <3>2, NextSlot, Zenon DEF AddressOf
  <2>4. CASE ~(p.func + 1 < PCI_FUNC_MAX) /\ ~(p.slot + 1 < PCI_SLOT_MAX)
    <3>1. /\ After(p).bus = p.bus + 1 /\ After(p).slot = 0 /\ After(p).func = 0
          /\ p.func = PCI_FUNC_MAX - 1 /\ p.slot = PCI_SLOT_MAX - 1
      BY <1>0, <2>4 DEF After, Places
    <3>2. p.bus \in Nat /\ q.bus \in Nat
      BY <1>0, <2>1
    <3> QED
      BY <1>0, <1>2, <2>1, <3>1, <3>2, NextBus, Zenon DEF AddressOf
  <2> QED
    BY <2>2, <2>3, <2>4
<1>3. AddressOf(p) \in Nat
  BY <1>0 DEF AddressOf, pci_make_addr
<1> QED
  BY <1>1, <1>2, <1>3

(***************************************************************************)
(* A turn of find_pci_device passes only what is not a GPU.                *)
(***************************************************************************)
LEMMA SearchTurn ==
    ASSUME NEW space \in Spaces, NEW s, Searched(space, s), Searching(s)
    PROVE  Searched(space, find_pci_device(s, space, gpu_id.vendor, gpu_id.device))
<1>0. PICK n : n = find_pci_device(s, space, gpu_id.vendor, gpu_id.device)
  OBVIOUS
<1>1. PICK p, here : p = s.place /\ here = AddressOf(p)
  OBVIOUS
<1>2. p \in Places /\ s.found = FALSE
  BY <1>1, BusAssumption DEF Searched, Searching, Searches, Turns, Places
<1>3. here \in Addresses /\ here \in Nat
  BY <1>1, <1>2, AddressAfter DEF Addresses
<1>4. space[here] \in [vendor : Nat, device : Nat]
  BY <1>3, SpacesAssumption
<1>5. Matches(space[here], gpu_id.vendor, gpu_id.device) <=> space[here] = gpu_id
  BY <1>4 DEF Matches, gpu_id
<1>6. CASE space[here] = gpu_id
  <2>1. n = [s EXCEPT !.found = TRUE, !.address = here]
    BY <1>0, <1>1, <1>5, <1>6 DEF find_pci_device
  <2>2. n \in Searches /\ n.place = p /\ n.address = here
    <3>1. s \in Searches
      BY Zenon DEF Searched
    <3> QED
      BY <1>1, <1>3, <2>1, <3>1, Zenon DEF Searches
  <2>3. \A a \in Addresses : a < AddressOf(n.place) => space[a] # gpu_id
    BY <1>1, <2>2, Zenon DEF Searched
  <2> QED
    <3>1. n.place \in Places /\ n.address = AddressOf(n.place) /\ space[n.address] = gpu_id
      BY <1>1, <1>2, <1>6, <2>2, Zenon
    <3> QED
      BY <1>0, <2>2, <2>3, <3>1, Zenon DEF Searched
<1>7. CASE space[here] # gpu_id
  <2>1. n = [s EXCEPT !.place = After(p)]
    BY <1>0, <1>1, <1>5, <1>7 DEF find_pci_device
  <2>2. After(p) \in Turns
    BY <1>2, AddressAfter
  <2>3. n \in Searches /\ n.place = After(p) /\ n.found = FALSE
    BY <1>2, <2>1, <2>2 DEF Searched, Searches
  <2>4. ASSUME NEW q \in Places, AddressOf(q) < AddressOf(After(p))
        PROVE  space[AddressOf(q)] # gpu_id
    <3>1. AddressOf(q) <= here /\ AddressOf(q) \in Nat /\ AddressOf(q) \in Addresses
      BY <1>1, <1>2, <2>4, AddressAfter DEF Addresses
    <3>2. CASE AddressOf(q) = here
      BY <1>7, <3>2
    <3>3. CASE AddressOf(q) < here
      BY <1>1, <3>1, <3>3 DEF Searched
    <3> QED
      BY <1>3, <3>1, <3>2, <3>3
  <2>5. \A a \in Addresses : a < AddressOf(n.place) => space[a] # gpu_id
    BY <2>3, <2>4, Zenon DEF Addresses
  <2> QED
    <3>1. ~n.found
      BY <2>3
    <3> QED
      BY <1>0, <2>3, <2>5, <3>1, Zenon DEF Searched
<1> QED
  BY <1>6, <1>7

(***************************************************************************)
(* When the loops of find_pci_device are over they have passed every       *)
(* function of the bus.                                                    *)
(***************************************************************************)
LEMMA SearchRight ==
    ASSUME PciInv
    PROVE  PciDeviceFound
<1> SUFFICES ASSUME Returned("find")
             PROVE  LET gpus == {a \in Addresses : in[a] = gpu_id} IN
                    /\ out.found = (gpus # {})
                    /\ out.found => out.address \in gpus /\ \A a \in gpus : out.address <= a
  BY DEF PciDeviceFound
<1>1. Searched(in, out) /\ ~Searching(out)
  BY Zenon DEF PciInv, Returned
<1>2. PICK here : here = AddressOf(out.place)
  OBVIOUS
<1>3. \A a \in Addresses : a \in Nat
  BY AddressAfter, Zenon DEF Addresses
<1>4. CASE out.found = TRUE
  <2>1. /\ out.place \in Places /\ out.address = here /\ in[here] = gpu_id
        /\ \A a \in Addresses : a < here => in[a] # gpu_id
    BY <1>1, <1>2, <1>4, Zenon DEF Searched
  <2>2. here \in Addresses /\ here \in Nat
    BY <1>2, <2>1, AddressAfter DEF Addresses
  <2>3. \A a \in Addresses : in[a] = gpu_id => here <= a
    BY <1>3, <2>1, <2>2
  <2> QED
    BY <1>4, <2>1, <2>2, <2>3, Zenon
<1>5. CASE out.found = FALSE
  <2>1. /\ out.place.bus = PCI_BUS_MAX /\ out.place.slot \in Nat /\ out.place.func \in Nat
        /\ PCI_BUS_MAX \in Nat /\ PCI_SLOT_MAX \in 1 .. 32 /\ PCI_FUNC_MAX \in 1 .. 8
    BY <1>1, <1>5, BusAssumption DEF Searched, Searching, Searches, Turns
  <2>2. ASSUME NEW q \in Places
        PROVE  AddressOf(q) < here
    BY <1>2, <2>1 DEF AddressOf, pci_make_addr, Places
  <2>3. \A a \in Addresses : in[a] # gpu_id
    BY <1>1, <1>2, <2>2, Zenon DEF Searched, Addresses
  <2> QED
    BY <1>5, <2>3, Zenon
<1> QED
  <2>1. out.found \in BOOLEAN
    BY <1>1 DEF Searched, Searches
  <2> QED
    BY <1>4, <1>5, <2>1, Zenon

(***************************************************************************)
(* Before the first turn of find_pci_device and of vgp_get_capabilities.   *)
(***************************************************************************)
LEMMA SearchStart ==
    ASSUME NEW space \in Spaces
    PROVE  Searched(space, FirstPlace) /\ Searching(FirstPlace)
<1>1. FirstPlace \in Searches /\ FirstPlace.found = FALSE /\ FirstPlace.place.bus = 0
      /\ AddressOf(FirstPlace.place) = 0
  BY BusAssumption DEF FirstPlace, Searches, Turns, AddressOf, pci_make_addr
<1>2. \A a \in Addresses : ~(a < 0)
  BY BusAssumption DEF Addresses, AddressOf, pci_make_addr, Places
<1> QED
  BY <1>1, <1>2, BusAssumption DEF Searched, Searching

------------------------------------------------------------------------------
(* The walk over its capabilities.                                         *)

(***************************************************************************)
(* Where a BAR is in the end: a BAR that has a size gets an address.       *)
(***************************************************************************)
LEMMA HomeFacts ==
    ASSUME NEW bar \in BarValues
    PROVE  /\ Home(bar) \in Nat
           /\ Probes(bar) => Home(bar) # 0
           /\ bar.address # 0 => Home(bar) = bar.address
           /\ bar.address = 0 => Home(bar) = Write(bar, config_base).address
<1>1. bar.address \in Nat /\ bar.size \in 0 .. config_base /\ config_base \in Nat
  BY BusAssumption DEF BarValues
<1>2. Write(bar, config_base).address
        = IF bar.size = 0 THEN 0 ELSE (config_base \div bar.size) * bar.size
  BY DEF Write, BarValues
<1>3. ASSUME bar.size # 0
      PROVE  (config_base \div bar.size) * bar.size \in Nat \ {0}
  <2>1. PICK q, z : z = bar.size /\ q = config_base \div z
    OBVIOUS
  <2>2. z \in Nat \ {0} /\ z <= config_base
    BY <1>1, <1>3, <2>1
  <2>3. q \in Nat
    BY <1>1, <2>1, <2>2
  <2>4. q # 0
    BY <1>1, <2>1, <2>2, QuotientPositive, Zenon
  <2>5. q * z \in Nat \ {0}
    BY <2>2, <2>3, <2>4, SMTT(30)
  <2> QED
    BY <2>1, <2>5
<1> QED
  BY <1>1, <1>2, <1>3 DEF Home, Probes

(***************************************************************************)
(* A BAR that is written keeps its size, and forgets what was written      *)
(* before.                                                                 *)
(***************************************************************************)
LEMMA WriteFacts ==
    ASSUME NEW bar \in BarValues, NEW v \in Nat
    PROVE  /\ Write(bar, v) \in BarValues /\ Write(bar, v).size = bar.size
           /\ \A w : Write(Write(bar, v), w) = Write(bar, w)
<1>1. PICK a, z : a = bar.address /\ z = bar.size
  OBVIOUS
<1>2. bar = [address |-> a, size |-> z] /\ a \in Nat /\ z \in 0 .. config_base /\ z \in Nat
  BY <1>1, BusAssumption DEF BarValues
<1>3. \A w : Write(bar, w) = [address |-> IF z = 0 THEN 0 ELSE (w \div z) * z, size |-> z]
  BY <1>2 DEF Write
<1>4. (IF z = 0 THEN 0 ELSE (v \div z) * z) \in Nat
  <2>1. CASE z # 0
    <3>1. PICK q : q = v \div z
      OBVIOUS
    <3>2. q \in Nat
      BY <1>2, <2>1, <3>1
    <3>3. q * z \in Nat
      BY <1>2, <3>2
    <3> QED
      BY <2>1, <3>1, <3>3
  <2> QED
    BY <2>1
<1>5. PICK u : u = IF z = 0 THEN 0 ELSE (v \div z) * z
  OBVIOUS
<1>6. Write(bar, v) = [address |-> u, size |-> z] /\ u \in Nat
  BY <1>3, <1>4, <1>5, Zenon
<1>7. \A w : Write([address |-> u, size |-> z], w)
               = [address |-> IF z = 0 THEN 0 ELSE (w \div z) * z, size |-> z]
  BY <1>2, <1>6 DEF Write
<1>8. \A w : Write(Write(bar, v), w) = Write(bar, w)
  BY <1>3, <1>6, <1>7, Zenon
<1>9. Write(bar, v) \in BarValues /\ Write(bar, v).size = bar.size
  BY <1>1, <1>2, <1>6 DEF BarValues
<1> QED
  BY <1>8, <1>9, Zenon

(***************************************************************************)
(* What vgp_get_capabilities' first part does to the BARs: only the        *)
(* capability's own may change, and then only if it has no address yet;    *)
(* if the probe succeeds, the memory bit is set with it.                   *)
(***************************************************************************)
LEMMA BarsSetUp ==
    ASSUME NEW given \in [BarNumbers -> BarValues], NEW bars, BarsKept(given, bars),
           NEW cap \in Capabilities, NEW new, new = SetUp(bars, cap), NEW val, val = Val(bars, cap)
    PROVE  /\ BarsKept(given, new) /\ val \in Nat
           /\ \A b \in BarNumbers : Probes(given[b]) /\ bars[b].address = Home(given[b])
                                      => new[b].address = Home(given[b])
           /\ \A b \in BarNumbers :
                Probes(given[b]) /\ new[b].address # 0
                  => bars[b].address # 0 \/ (NeedsSetup(bars, cap) /\ Probes(bars[cap.bar]))
           /\ cap.cfg_type < VIRTIO_PCI_CAP_PCI_CFG /\ Probes(given[cap.bar])
                => new[cap.bar].address = Home(given[cap.bar]) /\ val = Home(given[cap.bar])
<1>0. /\ bars \in [BarNumbers -> BarValues]
      /\ \A b \in BarNumbers : /\ bars[b].size = given[b].size
                               /\ Probes(given[b])
                                    => bars[b].address \in {given[b].address, Home(given[b])}
  BY Zenon DEF BarsKept
<1>1. PICK c, old, orig : c = cap.bar /\ old = bars[c] /\ orig = given[c]
  OBVIOUS
<1>2. c \in BarNumbers /\ old \in BarValues /\ orig \in BarValues
  BY <1>0, <1>1 DEF Capabilities
<1>3. /\ old.size = orig.size /\ (Probes(orig) <=> Probes(old))
      /\ Probes(orig) => old.address \in {orig.address, Home(orig)}
  BY <1>0, <1>1, <1>2, Zenon DEF Probes
<1>4. /\ Home(orig) \in Nat /\ (Probes(orig) => Home(orig) # 0)
      /\ (orig.address # 0 => Home(orig) = orig.address)
      /\ (orig.address = 0 => Home(orig) = Write(orig, config_base).address)
  BY <1>2, HomeFacts
<1>5. CASE NeedsSetup(bars, cap)
  <2>1. cap.cfg_type < VIRTIO_PCI_CAP_PCI_CFG /\ old.address = 0
    BY <1>1, <1>5, Zenon DEF NeedsSetup
  <2>2. PICK w : w = IF Probes(Write(old, AllOnes)) THEN Write(Write(old, AllOnes), config_base)
                                                    ELSE Write(old, AllOnes)
    OBVIOUS
  <2>3. new = [bars EXCEPT ![c] = w]
    BY <1>1, <1>5, <2>2, Zenon DEF SetUp, vgp_setup_bars
  <2>4. /\ w \in BarValues /\ w.size = orig.size
        /\ Probes(orig) => w = Write(old, config_base)
    <3>1. AllOnes \in Nat /\ config_base \in Nat
      BY BusAssumption
    <3>2. /\ Write(old, AllOnes) \in BarValues /\ Write(old, AllOnes).size = orig.size
          /\ Write(Write(old, AllOnes), config_base) = Write(old, config_base)
          /\ Write(old, config_base) \in BarValues /\ Write(old, config_base).size = orig.size
      BY <1>2, <1>3, <3>1, WriteFacts, Zenon
    <3>3. Probes(Write(old, AllOnes)) <=> Probes(orig)
      BY <3>2, Zenon DEF Probes
    <3> QED
      BY <2>2, <3>2, <3>3, Zenon
  <2>5. Probes(orig) => w.address = Home(orig)
    <3>1. ASSUME Probes(orig) PROVE w.address = Home(orig)
      <4>1. orig.address = 0 /\ orig = old
        BY <1>2, <1>3, <1>4, <2>1, <3>1 DEF BarValues
      <4> QED
        BY <1>4, <2>4, <3>1, <4>1, Zenon
    <3> QED
      BY <3>1, Zenon
  <2>6. new \in [BarNumbers -> BarValues] /\ new[c] = w
        /\ \A b \in BarNumbers : b # c => new[b] = bars[b]
    BY <1>0, <1>2, <2>3, <2>4, SMTT(30)
  <2>7. ASSUME NEW b \in BarNumbers
        PROVE  /\ new[b].size = given[b].size
               /\ Probes(given[b]) => new[b].address \in {given[b].address, Home(given[b])}
               /\ Probes(given[b]) /\ bars[b].address = Home(given[b])
                    => new[b].address = Home(given[b])
               /\ Probes(given[b]) /\ new[b].address # 0
                    => bars[b].address # 0 \/ (NeedsSetup(bars, cap) /\ Probes(bars[cap.bar]))
    <3>1. CASE b = c
      BY <1>1, <1>3, <1>5, <2>4, <2>5, <2>6, <3>1, Zenon
    <3>2. CASE b # c
      BY <1>0, <2>6, <3>2, Zenon
    <3> QED
      BY <3>1, <3>2, Zenon
  <2>8. BarsKept(given, new)
    BY <2>6, <2>7, Zenon DEF BarsKept
  <2>9. /\ Probes(orig) => val = w.address
        /\ ~Probes(orig) => val = 0
    BY <1>1, <1>3, <1>5, <2>6, Zenon DEF Val
  <2>10. val \in Nat
    BY <1>4, <2>5, <2>9
  <2> QED
    BY <1>1, <2>5, <2>6, <2>7, <2>8, <2>9, <2>10, Zenon
<1>6. CASE ~NeedsSetup(bars, cap)
  <2>1. new = bars /\ val = old.address
    BY <1>1, <1>6, Zenon DEF SetUp, Val
  <2>2. cap.cfg_type < VIRTIO_PCI_CAP_PCI_CFG => old.address # 0
    BY <1>1, <1>6, Zenon DEF NeedsSetup
  <2>3. cap.cfg_type < VIRTIO_PCI_CAP_PCI_CFG /\ Probes(orig) => old.address = Home(orig)
    BY <1>3, <1>4, <2>2
  <2>4. val \in Nat
    BY <1>2, <2>1 DEF BarValues
  <2> QED
    BY <1>1, <2>1, <2>3, <2>4, Zenon
<1> QED
  BY <1>5, <1>6, Zenon

(***************************************************************************)
(* A turn of vgp_get_capabilities keeps what the walk has located, unless  *)
(* the capability is a later one of the same kind.                         *)
(***************************************************************************)
LEMMA WalkTurn ==
    ASSUME NEW d \in Devices, NEW k, NEW w, Walked(d, k, w), k <= Len(d.caps)
    PROVE  Walked(d, k + 1, vgp_get_capabilities(w, d.caps[k]))
<1>0. PICK new, cap : cap = d.caps[k] /\ new = vgp_get_capabilities(w, cap)
  OBVIOUS
<1>1. /\ d.bars \in [BarNumbers -> BarValues] /\ d.caps \in Seq(Capabilities)
      /\ k \in 1 .. Len(d.caps) /\ k + 1 \in 1 .. Len(d.caps) + 1 /\ cap \in Capabilities
  <2>1. d.bars \in [BarNumbers -> BarValues] /\ d.caps \in Seq(Capabilities)
    BY DevicesAssumption
  <2>2. k \in 1 .. Len(d.caps) + 1
    BY Zenon DEF Walked
  <2> QED
    BY <1>0, <2>1, <2>2
<1>2. BarsKept(d.bars, w.bars) /\ Decoded(d.bars, w) /\ w.cfg \in [Located -> Nat]
  BY Zenon DEF Walked
<1>3. \A n \in Structures(d.caps) : /\ n \in 1 .. Len(d.caps) /\ n \in Nat
                                    /\ d.caps[n] \in Capabilities /\ d.caps[n].cfg_type \in Located
                                    /\ d.caps[n].bar \in BarNumbers /\ d.caps[n].cap_vndr = 9
  <2>1. ASSUME NEW n \in Structures(d.caps)
        PROVE  n \in 1 .. Len(d.caps) /\ d.caps[n].cfg_type \in Located /\ d.caps[n].cap_vndr = 9
    BY Zenon DEF Structures
  <2>2. ASSUME NEW n \in 1 .. Len(d.caps)
        PROVE  n \in Nat /\ d.caps[n] \in Capabilities
    BY <1>1
  <2>3. \A c \in Capabilities : c.bar \in BarNumbers
    BY DEF Capabilities
  <2> QED
    BY <2>1, <2>2, <2>3, Zenon
<1>4. \A n \in Structures(d.caps) : n < k + 1 <=> n < k \/ n = k
  <2>1. \A n \in Nat : n < k + 1 <=> n < k \/ n = k
    BY <1>1
  <2> QED
    BY <1>3, <2>1, Zenon
<1>5. CASE cap.cap_vndr # 9
  <2>1. new = w
    BY <1>0, <1>5, Zenon DEF vgp_get_capabilities
  <2>2. \A n \in Structures(d.caps) : n < k + 1 <=> n < k
    BY <1>0, <1>3, <1>4, <1>5, Zenon
  <2>3. ASSUME NEW n \in Structures(d.caps), n < k + 1, Probes(d.bars[d.caps[n].bar])
        PROVE  /\ w.bars[d.caps[n].bar].address = Home(d.bars[d.caps[n].bar])
               /\ (\A m \in Structures(d.caps) :
                     m < k + 1 /\ d.caps[m].cfg_type = d.caps[n].cfg_type => m <= n)
                  => w.cfg[d.caps[n].cfg_type] = Home(d.bars[d.caps[n].bar]) + d.caps[n].offset
    BY <2>2, <2>3, Zenon DEF Walked
  <2> QED
    BY <1>0, <1>1, <1>2, <2>1, <2>3, Zenon DEF Walked
<1>6. CASE cap.cap_vndr = 9
  <2>1. PICK bars, val : bars = SetUp(w.bars, cap) /\ val = Val(w.bars, cap)
    BY SMTT(30)
  <2>2. /\ new.bars = bars
        /\ new.decodes = (w.decodes \/ (NeedsSetup(w.bars, cap) /\ Probes(w.bars[cap.bar])))
        /\ new.cfg = [t \in Located |-> IF t = cap.cfg_type THEN val + cap.offset ELSE w.cfg[t]]
    BY <1>0, <1>6, <2>1, Zenon DEF vgp_get_capabilities
  <2>3. /\ BarsKept(d.bars, bars) /\ val \in Nat
        /\ \A b \in BarNumbers : Probes(d.bars[b]) /\ w.bars[b].address = Home(d.bars[b])
                                   => bars[b].address = Home(d.bars[b])
        /\ \A b \in BarNumbers :
             Probes(d.bars[b]) /\ bars[b].address # 0
               => w.bars[b].address # 0 \/ (NeedsSetup(w.bars, cap) /\ Probes(w.bars[cap.bar]))
        /\ cap.cfg_type < VIRTIO_PCI_CAP_PCI_CFG /\ Probes(d.bars[cap.bar])
             => bars[cap.bar].address = Home(d.bars[cap.bar]) /\ val = Home(d.bars[cap.bar])
    <3>1. d.bars \in [BarNumbers -> BarValues] /\ BarsKept(d.bars, w.bars) /\ cap \in Capabilities
      BY <1>1, <1>2, Zenon
    <3> QED
      BY <2>1, <3>1, BarsSetUp, SMTT(30)
  <2>4. new.cfg \in [Located -> Nat] /\ Decoded(d.bars, new)
    <3>1. cap.offset \in Nat
      BY <1>1, Zenon DEF Capabilities
    <3>2. val + cap.offset \in Nat
      BY <2>3, <3>1
    <3>3. new.cfg \in [Located -> Nat]
      BY <1>2, <2>2, <3>2
    <3>4. Decoded(d.bars, new)
      BY <1>2, <2>2, <2>3, Zenon DEF Decoded
    <3> QED
      BY <3>3, <3>4, Zenon
  <2>5. \A t \in Located : /\ t < VIRTIO_PCI_CAP_PCI_CFG
                           /\ t # cap.cfg_type => new.cfg[t] = w.cfg[t]
                           /\ t = cap.cfg_type => new.cfg[t] = val + cap.offset
    BY <2>2 DEF Located, VIRTIO_PCI_CAP_COMMON_CFG, VIRTIO_PCI_CAP_NOTIFY_CFG,
         VIRTIO_PCI_CAP_ISR_CFG, VIRTIO_PCI_CAP_DEVICE_CFG, VIRTIO_PCI_CAP_PCI_CFG
  <2>6. ASSUME NEW n \in Structures(d.caps), n < k + 1, Probes(d.bars[d.caps[n].bar])
        PROVE  /\ bars[d.caps[n].bar].address = Home(d.bars[d.caps[n].bar])
               /\ (\A m \in Structures(d.caps) :
                     m < k + 1 /\ d.caps[m].cfg_type = d.caps[n].cfg_type => m <= n)
                  => new.cfg[d.caps[n].cfg_type] = Home(d.bars[d.caps[n].bar]) + d.caps[n].offset
    <3>1. CASE n = k
      <4>1. cap.cfg_type \in Located /\ d.caps[n] = cap
        BY <1>0, <1>3, <3>1, Zenon
      <4> QED
        BY <2>3, <2>5, <2>6, <4>1, Zenon
    <3>2. CASE n < k
      <4>1. w.bars[d.caps[n].bar].address = Home(d.bars[d.caps[n].bar])
        BY <2>6, <3>2, Zenon DEF Walked
      <4>2. bars[d.caps[n].bar].address = Home(d.bars[d.caps[n].bar])
        BY <1>3, <2>3, <2>6, <4>1, Zenon
      <4>3. ASSUME \A m \in Structures(d.caps) :
                     m < k + 1 /\ d.caps[m].cfg_type = d.caps[n].cfg_type => m <= n
            PROVE  new.cfg[d.caps[n].cfg_type] = Home(d.bars[d.caps[n].bar]) + d.caps[n].offset
        <5>1. w.cfg[d.caps[n].cfg_type] = Home(d.bars[d.caps[n].bar]) + d.caps[n].offset
          BY <1>4, <2>6, <3>2, <4>3, Zenon DEF Walked
        <5>2. d.caps[n].cfg_type # cap.cfg_type
          <6>1. SUFFICES ASSUME d.caps[n].cfg_type = cap.cfg_type PROVE FALSE
            BY SMTT(30)
          <6>2. k \in Structures(d.caps)
            BY <1>0, <1>1, <1>3, <1>6, <6>1, Zenon DEF Structures
          <6>3. k <= n
            BY <1>0, <1>4, <4>3, <6>1, <6>2, ZenonT(40)
          <6> QED
            BY <1>1, <1>3, <3>2, <6>3
        <5> QED
          BY <1>3, <2>5, <5>1, <5>2, Zenon
      <4> QED
        BY <4>2, <4>3, Zenon
    <3> QED
      BY <1>4, <2>6, <3>1, <3>2, ZenonT(40)
  <2> QED
    BY <1>0, <1>1, <2>2, <2>3, <2>4, <2>6, Zenon DEF Walked
<1> QED
  BY <1>5, <1>6

(***************************************************************************)
(* A place in a list of capabilities, or the one after its last, where     *)
(* vgp_get_capabilities stops.                                             *)
(***************************************************************************)
LEMMA InOrPast ==
    ASSUME NEW S, NEW s \in Seq(S), NEW i \in 1 .. Len(s) + 1
    PROVE  /\ i \in Nat /\ Len(s) \in Nat
           /\ i > Len(s) \/ i <= Len(s)
           /\ i > Len(s) => \A n \in 1 .. Len(s) : n < i
           /\ \A n \in 1 .. Len(s) : s[n] \in S
OBVIOUS

(***************************************************************************)
(* After the walk, each structure's pointer leads into its BAR.            *)
(***************************************************************************)
LEMMA StructureAt ==
    ASSUME PciInv, Returned("capabilities"), NEW n \in Structures(in.caps),
           LastOfKind(n), Usable(n), NEW cap, NEW bar,
           cap = in.caps[n], bar = in.bars[cap.bar]
    PROVE  /\ cap.bar \in BarNumbers /\ bar \in BarValues /\ Probes(bar) /\ cap.offset \in Nat
           /\ out.walk.bars[cap.bar].address = Home(bar) /\ Home(bar) \in Nat \ {0}
           /\ Pointer(n) = Home(bar) + cap.offset
           /\ bar.address = 0 => out.walk.decodes
<1>1. in \in Devices /\ Walked(in, out.next, out.walk) /\ out.next > Len(in.caps)
  BY ZenonT(40) DEF PciInv, Returned
<1>2. /\ in.bars \in [BarNumbers -> BarValues] /\ in.caps \in Seq(Capabilities)
      /\ out.next \in 1 .. Len(in.caps) + 1
  BY <1>1, DevicesAssumption, Zenon DEF Walked
<1>3. \A m \in Structures(in.caps) : m < out.next /\ m \in 1 .. Len(in.caps)
  BY <1>1, <1>2, InOrPast, Zenon DEF Structures
<1>4. cap \in Capabilities
  BY <1>2, <1>3, InOrPast, Zenon
<1>5. cap.bar \in BarNumbers /\ cap.offset \in Nat /\ bar \in BarValues /\ Probes(bar)
  BY <1>2, <1>4, Zenon DEF Capabilities, Usable
<1>6. Home(bar) \in Nat \ {0}
  BY <1>5, HomeFacts, Zenon
<1>7. \A m \in Structures(in.caps) :
        m < out.next /\ in.caps[m].cfg_type = cap.cfg_type => m <= n
  BY Zenon DEF LastOfKind
<1>8. /\ out.walk.bars[cap.bar].address = Home(bar)
      /\ out.walk.cfg[cap.cfg_type] = Home(bar) + cap.offset
  BY <1>1, <1>3, <1>5, <1>7, Zenon DEF Walked
<1>9. bar.address = 0 => out.walk.decodes
  <2>1. out.walk.bars[cap.bar].address # 0
    BY <1>6, <1>8, Zenon
  <2> QED
    BY <1>1, <1>5, <2>1, Zenon DEF Walked, Decoded
<1> QED
  BY <1>5, <1>6, <1>8, <1>9, Zenon DEF Pointer

(***************************************************************************)
(* The pointers to the structures, and that they are apart.                *)
(***************************************************************************)
LEMMA WalkRight ==
    ASSUME PciInv
    PROVE  CapabilitiesLocated
<1>1. ASSUME Returned("capabilities"), NEW n \in Structures(in.caps), LastOfKind(n), Usable(n)
      PROVE  /\ out.walk.bars[in.caps[n].bar].address # 0
             /\ Pointer(n) = out.walk.bars[in.caps[n].bar].address + in.caps[n].offset
             /\ in.bars[in.caps[n].bar].address = 0 => out.walk.decodes
  <2>1. PICK cap, bar : cap = in.caps[n] /\ bar = in.bars[cap.bar]
    OBVIOUS
  <2>2. /\ out.walk.bars[cap.bar].address = Home(bar) /\ Home(bar) \in Nat \ {0}
        /\ Pointer(n) = Home(bar) + cap.offset /\ (bar.address = 0 => out.walk.decodes)
    BY <1>1, <2>1, StructureAt, Zenon
  <2> QED
    BY <2>1, <2>2, Zenon
<1> QED
  BY <1>1, Zenon DEF CapabilitiesLocated

(***************************************************************************)
(* Two structures vgp_get_capabilities points to do not overlap: in one    *)
(* BAR they keep their offsets, two BARs are apart in the end.             *)
(***************************************************************************)
LEMMA StructuresApart ==
    ASSUME PciInv
    PROVE  StructuresDisjoint
<1>1. ASSUME Returned("capabilities"), WellPlaced(in),
             NEW n \in Structures(in.caps), NEW m \in Structures(in.caps),
             LastOfKind(n), LastOfKind(m), Usable(n), Usable(m),
             in.caps[n].bar = in.caps[m].bar
               => ~Overlap(in.caps[n].offset, 4, in.caps[m].offset, 4)
      PROVE  ~Overlap(Pointer(n), 4, Pointer(m), 4)
  <2>1. PICK a, b, p, q : /\ a = in.caps[n] /\ b = in.caps[m]
                          /\ p = in.bars[a.bar] /\ q = in.bars[b.bar]
    BY Zenon
  <2>2. /\ a.bar \in BarNumbers /\ p \in BarValues /\ Probes(p) /\ a.offset \in Nat
        /\ Home(p) \in Nat \ {0} /\ Pointer(n) = Home(p) + a.offset
    BY <1>1, <2>1, StructureAt, ZenonT(40)
  <2>3. /\ b.bar \in BarNumbers /\ q \in BarValues /\ Probes(q) /\ b.offset \in Nat
        /\ Home(q) \in Nat \ {0} /\ Pointer(m) = Home(q) + b.offset
    BY <1>1, <2>1, StructureAt, ZenonT(40)
  <2>4. CASE a.bar = b.bar
    <3>1. p = q /\ ~Overlap(a.offset, 4, b.offset, 4)
      BY <1>1, <2>1, <2>4, Zenon
    <3> QED
      BY <2>2, <2>3, <3>1 DEF Overlap
  <2>5. CASE a.bar # b.bar
    <3>1. ~Overlap(Home(p), p.size, Home(q), q.size)
      BY <1>1, <2>1, <2>2, <2>3, <2>5, Zenon DEF WellPlaced
    <3>2. a.offset + 4 <= p.size /\ b.offset + 4 <= q.size
      BY <1>1, <2>1, <2>2, <2>3, Zenon DEF WellPlaced
    <3>3. p.size \in Nat /\ q.size \in Nat
      BY <2>2, <2>3, BusAssumption DEF BarValues
    <3> QED
      BY <2>2, <2>3, <3>1, <3>2, <3>3 DEF Overlap
  <2> QED
    BY <2>4, <2>5, Zenon
<1> QED
  BY <1>1, Zenon DEF StructuresDisjoint

(***************************************************************************)
(* The walk before its first capability: no BAR written, no pointer set.   *)
(***************************************************************************)
LEMMA WalkStart ==
    ASSUME NEW d \in Devices
    PROVE  Walked(d, 1, NoPointers(d.bars))
<1>1. d.bars \in [BarNumbers -> BarValues] /\ d.caps \in Seq(Capabilities)
  BY DevicesAssumption, Zenon
<1>2. PICK w : w = NoPointers(d.bars)
  BY Zenon
<1>3. w.bars = d.bars /\ w.cfg \in [Located -> Nat]
  BY <1>2 DEF NoPointers
<1>4. BarsKept(d.bars, w.bars) /\ Decoded(d.bars, w)
  BY <1>1, <1>3, Zenon DEF BarsKept, Decoded
<1>5. 1 \in 1 .. Len(d.caps) + 1 /\ \A n \in 1 .. Len(d.caps) : ~(n < 1)
  BY <1>1
<1>6. \A n \in Structures(d.caps) : ~(n < 1)
  BY <1>5, Zenon DEF Structures
<1> QED
  BY <1>2, <1>3, <1>4, <1>5, <1>6, Zenon DEF Walked

------------------------------------------------------------------------------
(* The theorems.                                                           *)

(***************************************************************************)
(* A search or a walk in progress has passed no GPU and moved no BAR but to*)
(* where it is put, and has located what it has passed.                    *)
(***************************************************************************)
THEOREM PciInvariant == PciSpec => []PciInv
<1>1. CallsInit => PciInv
  <2>1. SUFFICES ASSUME call = [fn |-> "none", in |-> 0, out |-> 0, over |-> TRUE]
                 PROVE  PciInv
    BY Zenon DEF CallsInit, None
  <2>2. call.fn = "none" /\ call.over = TRUE
    BY <2>1, Zenon
  <2>3. call.fn \notin {"find", "capabilities"}
    BY <2>2, Zenon
  <2> QED
    BY <2>2, <2>3, Zenon DEF PciInv
<1>2. ASSUME PciInv, PciNext \/ Return
      PROVE  PciInv'
  <2>1. CASE FindDevice
    <3>1. PICK space \in Spaces : Begin("find", space, FirstPlace)
      BY <2>1, Zenon DEF FindDevice
    <3>2. call' = [fn |-> "find", in |-> space, out |-> FirstPlace, over |-> FALSE]
      BY <3>1, Zenon DEF Begin
    <3>3. call'.fn = "find" /\ in' = space /\ out' = FirstPlace /\ call'.over = FALSE
      BY <3>2, Zenon DEF in, out
    <3>4. Searched(space, FirstPlace) /\ FALSE = ~Searching(FirstPlace)
      BY SearchStart, Zenon
    <3> QED
      BY <3>2, <3>3, <3>4, Zenon DEF PciInv, in, out
  <2>2. CASE FindTurn
    <3>1. /\ call.fn = "find" /\ in \in Spaces /\ Searched(in, out) /\ Searching(out)
      <4>1. /\ call.fn = "find" /\ ~call.over /\ in \in Spaces /\ Searched(in, out)
            /\ call.over = ~Searching(out)
        BY <1>2, <2>2, Zenon DEF FindTurn, Running, PciInv
      <4> QED
        BY <4>1, Zenon
    <3>2. PICK s : s = find_pci_device(out, in, gpu_id.vendor, gpu_id.device)
      BY Zenon
    <3>3. PICK v : v = ~Searching(s)
      BY Zenon
    <3>4. call' = [fn |-> call.fn, in |-> call.in, out |-> s, over |-> v]
      BY <2>2, <3>2, <3>3, Zenon DEF FindTurn, Continue
    <3>5. call' = [fn |-> "find", in |-> in, out |-> s, over |-> v]
      BY <3>1, <3>4, Zenon DEF in
    <3>6. call'.fn = "find" /\ in' = in /\ out' = s /\ call'.over = v
      BY <3>5, Zenon DEF in, out
    <3>7. Searched(in, s)
      BY <3>1, <3>2, SearchTurn, Zenon
    <3>8. v \in BOOLEAN
      BY <3>3, Zenon
    <3> QED
      BY <3>1, <3>3, <3>5, <3>6, <3>7, <3>8, Zenon DEF PciInv, in, out
  <2>3. CASE GetCapabilities
    <3>1. PICK d \in Devices :
            Begin("capabilities", d, [next |-> 1, walk |-> NoPointers(d.bars)])
      BY <2>3, Zenon DEF GetCapabilities
    <3>2. PICK o : o = [next |-> 1, walk |-> NoPointers(d.bars)]
      BY Zenon
    <3>3. call' = [fn |-> "capabilities", in |-> d, out |-> o, over |-> FALSE]
      BY <3>1, <3>2, Zenon DEF Begin
    <3>4. call'.fn = "capabilities" /\ in' = d /\ out' = o /\ call'.over = FALSE
      BY <3>3, Zenon DEF in, out
    <3>5. Walked(d, o.next, o.walk)
      BY <3>2, WalkStart, Zenon
    <3> QED
      BY <3>3, <3>4, <3>5, Zenon DEF PciInv, in, out
  <2>4. CASE CapabilityTurn
    <3>1. call.fn = "capabilities" /\ in \in Devices /\ Walked(in, out.next, out.walk)
      BY <1>2, <2>4, Zenon DEF CapabilityTurn, Running, PciInv
    <3>2. CASE out.next > Len(in.caps)
      <4>1. call' = [fn |-> call.fn, in |-> call.in, out |-> out, over |-> TRUE]
        BY <2>4, <3>2, Zenon DEF CapabilityTurn, Continue
      <4>2. call' = [fn |-> "capabilities", in |-> in, out |-> out, over |-> TRUE]
        BY <3>1, <4>1, Zenon DEF in
      <4>3. call'.fn = "capabilities" /\ in' = in /\ out' = out /\ call'.over = TRUE
        BY <4>2, Zenon DEF in, out
      <4> QED
        BY <3>1, <3>2, <4>2, <4>3, Zenon DEF PciInv, in, out
    <3>3. CASE ~(out.next > Len(in.caps))
      <4>1. PICK o : o = [next |-> out.next + 1,
                          walk |-> vgp_get_capabilities(out.walk, in.caps[out.next])]
        BY Zenon
      <4>2. call' = [fn |-> call.fn, in |-> call.in, out |-> o, over |-> FALSE]
        BY <2>4, <3>3, <4>1, Zenon DEF CapabilityTurn, Continue
      <4>3. call' = [fn |-> "capabilities", in |-> in, out |-> o, over |-> FALSE]
        BY <3>1, <4>2, Zenon DEF in
      <4>4. call'.fn = "capabilities" /\ in' = in /\ out' = o /\ call'.over = FALSE
        BY <4>3, ZenonT(40) DEF in, out
      <4>5. out.next <= Len(in.caps)
        <5>1. in.caps \in Seq(Capabilities) /\ out.next \in 1 .. Len(in.caps) + 1
          BY <3>1, DevicesAssumption, Zenon DEF Walked
        <5> QED
          BY <3>3, <5>1, InOrPast, Zenon
      <4>6. Walked(in, o.next, o.walk)
        BY <3>1, <4>1, <4>5, WalkTurn, Zenon
      <4> QED
        BY <3>1, <4>3, <4>4, <4>6, Zenon DEF PciInv, in, out
    <3> QED
      BY <3>2, <3>3
  <2>5. CASE Return
    BY <2>5, Zenon DEF Return, PciInv, None
  <2> QED
    BY <1>2, <2>1, <2>2, <2>3, <2>4, <2>5, Zenon DEF PciNext
<1>3. ASSUME PciInv, UNCHANGED call
      PROVE  PciInv'
  BY <1>3, Zenon DEF PciInv, in, out
<1> QED
  BY <1>1, <1>2, <1>3, PTL DEF PciSpec

(***************************************************************************)
(* find_pci_device finds the first GPU of any bus, and nothing else.       *)
(***************************************************************************)
THEOREM GpuIsFound == PciSpec => []PciDeviceFound
<1>1. PciInv => PciDeviceFound
  BY SearchRight
<1> QED
  BY <1>1, PciInvariant, PTL

(***************************************************************************)
(* vgp_get_capabilities points to each structure in its BAR as that is in  *)
(* the end, for any list of capabilities.                                  *)
(***************************************************************************)
THEOREM StructuresAreLocated == PciSpec => []CapabilitiesLocated
<1>1. PciInv => CapabilitiesLocated
  BY WalkRight
<1> QED
  BY <1>1, PciInvariant, PTL

(***************************************************************************)
(* ... and the structures it points to are apart, if the BARs are.         *)
(***************************************************************************)
THEOREM StructuresAreApart == PciSpec => []StructuresDisjoint
<1>1. PciInv => StructuresDisjoint
  BY StructuresApart
<1> QED
  BY <1>1, PciInvariant, PTL
=============================================================================
