----------------------------- MODULE VirtioGpu -----------------------------
(***************************************************************************)
(* The VirtIO GPU driver (virtio_gpu_pci_driver.c): vgp_init with its      *)
(* status handshake, and commands sent one at a time over descriptors 0    *)
(* and 1 of one virtqueue, against a device that runs beside it.  The      *)
(* device is external: it resets, accepts or refuses the features, takes   *)
(* the queue over as it finds it some time after DRIVER_OK was set, and    *)
(* serves it when it has been notified.                                    *)
(*                                                                         *)
(* Every available-ring entry is 0, the head of the only chain, so the     *)
(* rings are left to their indices.  A command is its type: identifiers    *)
(* and sizes are left out.  A buffer holds what was last written to it.    *)
(***************************************************************************)
EXTENDS Integers, Sequences, FiniteSets

CONSTANTS
    IndexMod,        \* 2^16: avail->idx and used->idx wrap
    Found,           \* what find_pci_device may answer
    Accepts,         \* whether the device may accept the features
    DisplayEnabled   \* the device has an enabled scanout

ASSUME IndexAssumption == IndexMod \in Nat /\ IndexMod > 1
ASSUME DeviceAssumption ==
    /\ Found \subseteq BOOLEAN /\ Accepts \subseteq BOOLEAN
    /\ DisplayEnabled \in BOOLEAN

VARIABLES
    phase,          \* where the driver is
    todo,           \* commands the current call has still to send
    last_used_idx,  \* the local of vgp_send_command
    avail_idx,      \* avail->idx
    cmd,            \* VIRTQUEUE_CMD
    desc,           \* descriptors 0 (flags) and 1 (addr)
    scanout_found,
    result,         \* what vgp_init returned, "none" before
    status,         \* device_status, as the set of its bits
    queue,          \* "placed": its addresses are set, "enabled": queue_enable too
    notified,       \* a notification the device has not seen
    live,           \* the device has started, with or without a queue
    serving,        \* chain the device has fetched
    used_idx,       \* used->idx, which is also how far the device has come
    memory          \* VIRTQUEUE_RESP and VIRTQUEUE_DISP_INFO

driver == <<phase, todo, last_used_idx, avail_idx, cmd, desc, scanout_found, result>>
shared == <<status, queue, notified>>
device == <<live, serving, used_idx, memory>>
vars == <<driver, shared, device>>

Command(type, resp, next) == [type |-> type, resp |-> resp, next |-> next]

\* What each function passes to vgp_send_command: the command it writes to
\* VIRTQUEUE_CMD, the buffer for the answer, and the flags of descriptor 0.
vgp_get_display_info == Command("GET_DISPLAY_INFO", "DISP_INFO", FALSE)
vgp_create_2d_resource == Command("RESOURCE_CREATE_2D", "RESP", TRUE)
vgp_attach_backing == Command("RESOURCE_ATTACH_BACKING", "RESP", TRUE)
vgp_set_scanout == Command("SET_SCANOUT", "RESP", TRUE)
vgp_transfer_to_host == Command("TRANSFER_TO_HOST_2D", "RESP", TRUE)
resource_flush == Command("RESOURCE_FLUSH", "RESP", TRUE)

Commands == {vgp_get_display_info, vgp_create_2d_resource, vgp_attach_backing,
             vgp_set_scanout, vgp_transfer_to_host, resource_flush}
Types == {c.type : c \in Commands}
Buffers == {"RESP", "DISP_INFO"}
Contents == {"zero", "error"} \cup Types         \* a type: the OK answer to it
Idle == "idle"
Nothing == [cmd |-> "zero", resp |-> "none"]

Init ==
    /\ phase = "boot" /\ todo = <<>> /\ last_used_idx = 0
    /\ avail_idx = 0 /\ cmd = "zero" /\ desc = [next |-> FALSE, resp |-> "RESP"]
    /\ scanout_found = FALSE /\ result = "none"
    /\ status \in {{}, {"ACKNOWLEDGE", "DRIVER"}}    \* firmware may have used it
    /\ queue = "none" /\ notified = FALSE
    /\ live = "no" /\ serving = Nothing /\ used_idx = 0
    /\ memory = [b \in Buffers |-> "zero"]

------------------------------------------------------------------------------
(* vgp_init: detection, and the handshake of vgp_start.                    *)

\* find_pci_device, and vgp_start up to the reset; PciWalk has the walk over
\* the PCI capabilities between them.
vgp_init(found) ==
    /\ phase = "boot"
    /\ IF found THEN phase' = "reset" /\ status' = status \cup {"RESETTING"} /\ UNCHANGED result
                ELSE phase' = Idle /\ result' = "false" /\ UNCHANGED status
    /\ UNCHANGED <<todo, last_used_idx, avail_idx, cmd, desc, scanout_found,
                   queue, notified, device>>

\* The wait for 0, then ACKNOWLEDGE, DRIVER, the features and FEATURES_OK.
Negotiate ==
    /\ phase = "reset" /\ status = {}
    /\ status' = {"ACKNOWLEDGE", "DRIVER", "OFFERED"}
    /\ phase' = "features"
    /\ UNCHANGED <<todo, last_used_idx, avail_idx, cmd, desc, scanout_found, result,
                   queue, notified, device>>

\* vgp_flush transfers first; vgp_clear transfers and then calls vgp_flush.
FlushCommands == <<vgp_transfer_to_host, resource_flush>>
ClearCommands == <<vgp_transfer_to_host>> \o FlushCommands
InitCommands == <<vgp_get_display_info, vgp_create_2d_resource, vgp_attach_backing,
                  vgp_transfer_to_host>> \o FlushCommands

\* The check of FEATURES_OK and the queue's addresses: when FEATURES_OK does
\* not stick vgp_start returns, and vgp_init goes on to its commands all the same.
SetupQueue ==
    /\ phase = "features" /\ "OFFERED" \notin status
    /\ IF "FEATURES_OK" \in status
       THEN queue' = "placed" /\ phase' = "enable" /\ UNCHANGED todo
       ELSE phase' = "prepare" /\ todo' = InitCommands /\ UNCHANGED queue
    /\ UNCHANGED <<last_used_idx, avail_idx, cmd, desc, scanout_found, result,
                   status, notified, device>>

\* Mutant: DRIVER_OK is set before queue_enable.
EnableQueue_Late ==
    /\ phase = "enable"
    /\ IF "DRIVER_OK" \in status
       THEN queue' = "enabled" /\ phase' = "driver_ok" /\ UNCHANGED status
       ELSE status' = status \cup {"DRIVER_OK"} /\ UNCHANGED <<queue, phase>>
    /\ UNCHANGED <<todo, last_used_idx, avail_idx, cmd, desc, scanout_found, result,
                   notified, device>>

EnableQueue ==
    /\ phase = "enable"
    /\ queue' = "enabled" /\ phase' = "driver_ok"
    /\ UNCHANGED <<todo, last_used_idx, avail_idx, cmd, desc, scanout_found, result,
                   status, notified, device>>

DriverOk ==
    /\ phase = "driver_ok"
    /\ status' = status \cup {"DRIVER_OK"}
    /\ phase' = "prepare" /\ todo' = InitCommands
    /\ UNCHANGED <<last_used_idx, avail_idx, cmd, desc, scanout_found, result,
                   queue, notified, device>>

------------------------------------------------------------------------------
(* vgp_send_command, and the six functions that call it.                   *)

\* Mutant: no command passes VIRTQ_DESC_F_NEXT.
Prepare_NoNext ==
    /\ phase = "prepare" /\ todo # <<>>
    /\ cmd' = Head(todo).type
    /\ desc' = [next |-> FALSE, resp |-> Head(todo).resp]
    /\ phase' = "publish"
    /\ UNCHANGED <<todo, last_used_idx, avail_idx, scanout_found, result, shared, device>>

\* The caller fills VIRTQUEUE_CMD; descriptors 0 and 1 are written.
Prepare ==
    /\ phase = "prepare" /\ todo # <<>>
    /\ cmd' = Head(todo).type
    /\ desc' = [next |-> Head(todo).next, resp |-> Head(todo).resp]
    /\ phase' = "publish"
    /\ UNCHANGED <<todo, last_used_idx, avail_idx, scanout_found, result, shared, device>>

Publish ==
    /\ phase = "publish"
    /\ avail_idx' = (avail_idx + 1) % IndexMod
    /\ phase' = "notify"
    /\ UNCHANGED <<todo, last_used_idx, cmd, desc, scanout_found, result, shared, device>>

\* Mutant: the doorbell is not written.
Notify_Dropped ==
    /\ phase = "notify"
    /\ phase' = "sample"
    /\ UNCHANGED <<todo, last_used_idx, avail_idx, cmd, desc, scanout_found, result,
                   shared, device>>

Notify ==
    /\ phase = "notify"
    /\ notified' = TRUE
    /\ phase' = "sample"
    /\ UNCHANGED <<todo, last_used_idx, avail_idx, cmd, desc, scanout_found, result,
                   status, queue, device>>

\* used->idx is read after the notification.
Sample ==
    /\ phase = "sample"
    /\ last_used_idx' = used_idx
    /\ phase' = "poll"
    /\ UNCHANGED <<todo, avail_idx, cmd, desc, scanout_found, result, shared, device>>

\* Mutant: the wait ends when the index is still the same.
Poll_Inverted ==
    /\ phase = "poll" /\ last_used_idx = used_idx
    /\ phase' = "inspect"
    /\ UNCHANGED <<todo, last_used_idx, avail_idx, cmd, desc, scanout_found, result, shared, device>>

\* The body of the loop.
Spin ==
    /\ phase = "poll" /\ last_used_idx = used_idx
    /\ UNCHANGED vars

Poll ==
    /\ phase = "poll" /\ last_used_idx # used_idx
    /\ phase' = "inspect"
    /\ UNCHANGED <<todo, last_used_idx, avail_idx, cmd, desc, scanout_found, result, shared, device>>

\* The caller reads its response.  A refused command is only logged.
\* The end of vgp_init sends SET_SCANOUT when a display was found.
Inspect ==
    /\ phase = "inspect"
    /\ scanout_found' = IF Head(todo) = vgp_get_display_info
                        THEN memory["DISP_INFO"] = cmd /\ DisplayEnabled
                        ELSE scanout_found
    /\ LET scanout == result = "none" /\ todo = <<resource_flush>> /\ scanout_found
       IN todo' = IF scanout THEN <<vgp_set_scanout>> ELSE Tail(todo)
    /\ IF todo' = <<>> THEN phase' = Idle /\ result' = "true"
                       ELSE phase' = "prepare" /\ UNCHANGED result
    /\ UNCHANGED <<last_used_idx, avail_idx, cmd, desc, shared, device>>

Call(commands) ==
    /\ phase = Idle /\ result = "true"
    /\ phase' = "prepare" /\ todo' = commands
    /\ UNCHANGED <<last_used_idx, avail_idx, cmd, desc, scanout_found, result, shared, device>>

vgp_flush == Call(FlushCommands)
vgp_clear == Call(ClearCommands)

------------------------------------------------------------------------------
(* The device.                                                             *)

Reset ==
    /\ "RESETTING" \in status
    /\ status' = {} /\ queue' = "none" /\ notified' = FALSE /\ live' = "no"
    /\ UNCHANGED <<driver, serving, used_idx, memory>>

Answer(accept) ==
    /\ "OFFERED" \in status
    /\ status' = (status \ {"OFFERED"}) \cup (IF accept THEN {"FEATURES_OK"} ELSE {})
    /\ UNCHANGED <<queue, notified, driver, device>>

\* The device starts, and does not look for a queue a second time.
Start ==
    /\ "DRIVER_OK" \in status /\ live = "no"
    /\ live' = IF queue = "enabled" THEN "queue" ELSE "queueless"
    /\ UNCHANGED <<driver, shared, serving, used_idx, memory>>

\* The device reads the chain: the command, and where its answer goes.
Fetch ==
    /\ live = "queue" /\ notified /\ serving = Nothing
    /\ used_idx # avail_idx
    /\ serving' = [cmd |-> cmd, resp |-> IF desc.next THEN desc.resp ELSE "none"]
    /\ UNCHANGED <<driver, shared, live, used_idx, memory>>

\* It answers OK or an error, and moves used->idx.
Complete(ok) ==
    /\ serving # Nothing
    /\ memory' = [b \in Buffers |-> IF b = serving.resp
                                    THEN IF ok THEN serving.cmd ELSE "error"
                                    ELSE memory[b]]
    /\ used_idx' = (used_idx + 1) % IndexMod
    /\ notified' = FALSE
    /\ serving' = Nothing
    /\ UNCHANGED <<driver, status, queue, live>>

------------------------------------------------------------------------------
StartInit == \E found \in Found : vgp_init(found)
DriverStep == \/ Negotiate \/ SetupQueue \/ EnableQueue \/ DriverOk
              \/ Prepare \/ Publish \/ Notify \/ Sample \/ Spin \/ Poll \/ Inspect
DeviceStep == \/ Reset \/ Start \/ Fetch
              \/ \E accept \in Accepts : Answer(accept)
              \/ \E ok \in BOOLEAN : Complete(ok)
Clients == vgp_flush \/ vgp_clear

Next == StartInit \/ DriverStep \/ DeviceStep \/ Clients

Spec == Init /\ [][Next]_vars

\* The boot processor runs the driver to its end, and a device that has been
\* told of work does it.
FairSpec == Spec /\ WF_vars(StartInit) /\ WF_vars(DriverStep) /\ WF_vars(DeviceStep)

------------------------------------------------------------------------------
(* Properties.                                                             *)

(***************************************************************************)
(* Shape of the driver and device state.                                   *)
(***************************************************************************)
TypeOK ==
    /\ phase \in {"boot", "reset", "features", "enable", "driver_ok", "prepare",
                  "publish", "notify", "sample", "poll", "inspect", Idle}
    /\ todo \in Seq(Commands)
    /\ last_used_idx \in 0 .. IndexMod - 1
    /\ avail_idx \in 0 .. IndexMod - 1
    /\ used_idx \in 0 .. IndexMod - 1
    /\ cmd \in {"zero"} \cup Types
    /\ desc \in [next : BOOLEAN, resp : Buffers]
    /\ scanout_found \in BOOLEAN
    /\ result \in {"none", "false", "true"}
    /\ status \subseteq {"ACKNOWLEDGE", "DRIVER", "OFFERED", "FEATURES_OK", "DRIVER_OK", "RESETTING"}
    /\ queue \in {"none", "placed", "enabled"} /\ notified \in BOOLEAN
    /\ live \in {"no", "queue", "queueless"}
    /\ serving \in [cmd : {"zero"} \cup Types, resp : Buffers \cup {"none"}]
    /\ memory \in [Buffers -> Contents]

(***************************************************************************)
(* The device owns a chain from avail->idx++ until used->idx moves; in     *)
(* between the driver rewrites neither the descriptors nor the command,    *)
(* though every command reuses descriptors 0 and 1 and VIRTQUEUE_CMD.      *)
(***************************************************************************)
ChainStable == [][avail_idx # used_idx => UNCHANGED <<cmd, desc, avail_idx>>]_vars

(***************************************************************************)
(* When a caller reads its response, the device has served exactly what    *)
(* was published, and (but for vgp_get_display_info) VIRTQUEUE_RESP is the *)
(* answer to this command, not a stale one.                                *)
(***************************************************************************)
ResponseIsMine ==
    phase = "inspect" =>
        /\ avail_idx = used_idx
        /\ Head(todo).next => memory["RESP"] \in {cmd, "error"}

(***************************************************************************)
(* Whenever the device looks for its queue, it finds it: however soon it   *)
(* starts after a write of vgp_start, the features were agreed and the     *)
(* queue's addresses and queue_enable written before (order of the writes  *)
(* of vgp_start).                                                          *)
(***************************************************************************)
HandshakeOrder == live # "no" => live = "queue" /\ "FEATURES_OK" \in status

\* The two ways in which the wait for used->idx can have become hopeless: the
\* device completed before the index was sampled, or it was never started.
Hopeless ==
    phase = "poll" /\ (last_used_idx = avail_idx \/ "FEATURES_OK" \notin status)

(***************************************************************************)
(* vgp_init, vgp_flush and vgp_clear return with any device that serves    *)
(* its queue, unless it completed a command before vgp_send_command        *)
(* sampled used->idx or had refused the features: the driver has no other  *)
(* way to get stuck, whatever is answered and wherever the indices wrap.   *)
(***************************************************************************)
CallReturns == phase # Idle ~> (phase = Idle \/ Hopeless)

(***************************************************************************)
(* vgp_send_command "then waits for the device to process the command and  *)
(* provide a response": with a device that does, a call always returns.    *)
(***************************************************************************)
AlwaysReturns == phase # Idle ~> phase = Idle
=============================================================================
