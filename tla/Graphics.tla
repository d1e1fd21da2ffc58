------------------------------ MODULE Graphics ------------------------------
(***************************************************************************)
(* graphics.c over its two drivers: gpu_init tries the VirtIO GPU first    *)
(* and falls back to the RAM framebuffer when vgp_init returns false, and  *)
(* gpu_flush and gpu_clear go to the driver that was chosen.  rfb_flush    *)
(* does nothing, and rfb_clear is in Framebuffer.                          *)
(***************************************************************************)
EXTENDS VirtioGpu, FwCfg

gpuvars == <<vars, fwvars>>

GpuInit == Init /\ FwInit

\* gpu_init inside vgp_init, and inside rfb_init.
Virtio(step) == step /\ UNCHANGED fwvars
Fallback(step) == result = "false" /\ step /\ UNCHANGED vars

\* Mutant: gpu_init does not keep the choice.
gpu_init_Forgets ==
    /\ phase = Idle /\ result = "true" /\ chosen_GPU = "NONE"
    /\ UNCHANGED gpuvars

\* The choice when vgp_init returned true; the other one is ChooseRamfb.
gpu_init ==
    /\ phase = Idle /\ result = "true" /\ chosen_GPU = "NONE"
    /\ chosen_GPU' = "VIRTIO_GPU_PCI"
    /\ UNCHANGED <<vars, pc, count, i, file, found, fwdevice, dir, present>>

gpu_flush == chosen_GPU = "VIRTIO_GPU_PCI" /\ Virtio(vgp_flush)
gpu_clear == chosen_GPU = "VIRTIO_GPU_PCI" /\ Virtio(vgp_clear)

DriverSteps ==
    Virtio(StartInit) \/ Virtio(DriverStep) \/ gpu_init \/ Fallback(RamfbDriver)

GpuNext ==
    \/ DriverSteps \/ gpu_flush \/ gpu_clear
    \/ Virtio(DeviceStep) \/ Fallback(Firmware) \/ Fallback(Done)

\* The boot processor runs the drivers to their end; a GPU that has been told
\* of work does it, and the firmware ends every transfer.
GpuSpec ==
    /\ GpuInit /\ [][GpuNext]_gpuvars
    /\ WF_gpuvars(DriverSteps)
    /\ WF_gpuvars(Virtio(DeviceStep)) /\ WF_gpuvars(Fallback(Firmware))

(***************************************************************************)
(* gpu_init ends with a driver chosen or with the search for ramfb over,   *)
(* unless the VirtIO driver waits for a completion that cannot come, which *)
(* is then never followed by the fall-back.                                *)
(***************************************************************************)
DetectionEnds ==
    <>(chosen_GPU = "VIRTIO_GPU_PCI" \/ pc = "done" \/ []Hopeless)
=============================================================================
