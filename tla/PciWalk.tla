------------------------------ MODULE PciWalk ------------------------------
(***************************************************************************)
(* Finding the VirtIO GPU on the PCI bus, giving its BARs an address and   *)
(* locating the configuration structures its capabilities describe.  A BAR *)
(* is its address, without the type bits that every use masks off, and the *)
(* size it decodes: 0 if it is not implemented, and 1 if it keeps every    *)
(* bit written to it, as a bus does that answers with what it was given.   *)
(* The upper half of a 64-bit BAR, which the driver neither reads nor      *)
(* writes, is 0 as after a reset.                                          *)
(***************************************************************************)
EXTENDS Calls, Integers, Sequences

CONSTANTS
    config_base,     \* 0x10010000
    AllOnes,         \* 0xFFFFFFFF, less the type bits
    PCI_BUS_MAX,     \* 256
    PCI_SLOT_MAX,    \* 32
    PCI_FUNC_MAX,    \* 8
    BarNumbers,      \* 0 .. 5
    Spaces,          \* what the configuration spaces on the bus answer
    Devices          \* BARs and capabilities of a GPU

ASSUME BusAssumption ==
    /\ config_base \in Nat /\ AllOnes \in Nat /\ PCI_BUS_MAX \in Nat \ {0}
    /\ PCI_SLOT_MAX \in 1 .. 32 /\ PCI_FUNC_MAX \in 1 .. 8

VIRTIO_PCI_CAP_COMMON_CFG == 1
VIRTIO_PCI_CAP_NOTIFY_CFG == 2
VIRTIO_PCI_CAP_ISR_CFG == 3
VIRTIO_PCI_CAP_DEVICE_CFG == 4
VIRTIO_PCI_CAP_PCI_CFG == 5
Located == {VIRTIO_PCI_CAP_COMMON_CFG, VIRTIO_PCI_CAP_NOTIFY_CFG,
            VIRTIO_PCI_CAP_ISR_CFG, VIRTIO_PCI_CAP_DEVICE_CFG}

------------------------------------------------------------------------------
\* Offset of a function's configuration space from pci_base.
pci_make_addr(bus, slot, func) == ((bus * 32 + slot) * 8 + func) * 4096

\* A function of a device, and the turn of the three loops after it.
Places == [bus : 0 .. PCI_BUS_MAX - 1, slot : 0 .. PCI_SLOT_MAX - 1,
           func : 0 .. PCI_FUNC_MAX - 1]
AddressOf(place) == pci_make_addr(place.bus, place.slot, place.func)
After(place) ==
    IF place.func + 1 < PCI_FUNC_MAX THEN [place EXCEPT !.func = @ + 1]
    ELSE IF place.slot + 1 < PCI_SLOT_MAX THEN [place EXCEPT !.slot = @ + 1, !.func = 0]
    ELSE [bus |-> place.bus + 1, slot |-> 0, func |-> 0]

\* Mutant: a device that matches in one of its two ids is taken.
Matches_Either(id, vendor_id, device_id) ==
    id.vendor = vendor_id \/ id.device = device_id

Matches(id, vendor_id, device_id) ==
    id.vendor = vendor_id /\ id.device = device_id

\* find_pci_device, turn by turn.  space: the ids found at each address.
FirstPlace == [place |-> [bus |-> 0, slot |-> 0, func |-> 0], found |-> FALSE, address |-> 0]
Searching(search) == ~search.found /\ search.place.bus < PCI_BUS_MAX
find_pci_device(search, space, vendor_id, device_id) ==
    LET address == AddressOf(search.place) IN
    IF Matches(space[address], vendor_id, device_id)
    THEN [search EXCEPT !.found = TRUE, !.address = address]
    ELSE [search EXCEPT !.place = After(@)]

------------------------------------------------------------------------------
\* A BAR ignores the address bits below its size, and all if it has none.
Write(bar, value) ==
    [bar EXCEPT !.address = IF bar.size = 0 THEN 0 ELSE (value \div bar.size) * bar.size]

\* The probe of a BAR fails if it reads back no bit or every bit.
Probes(bar) == bar.size > 1

\* A BAR whose probe fails is left as the probe made it.
vgp_setup_bars(bars, bar) ==
    LET probed == Write(bars[bar], AllOnes)
    IN  [bars EXCEPT ![bar] = IF Probes(probed) THEN Write(probed, config_base) ELSE probed]

\* Mutant: the BAR is set up whether or not it has an address.
NeedsSetup_Always(bars, cap) == cap.cfg_type < VIRTIO_PCI_CAP_PCI_CFG

NeedsSetup(bars, cap) ==
    cap.cfg_type < VIRTIO_PCI_CAP_PCI_CFG /\ bars[cap.bar].address = 0

SetUp(bars, cap) == IF NeedsSetup(bars, cap) THEN vgp_setup_bars(bars, cap.bar) ELSE bars

\* Mutant: the address the BAR had before it was set up.
Val_Stale(bars, cap) == bars[cap.bar].address

\* val: the BAR's address as it is now, or 0 from a probe that failed.
Val(bars, cap) ==
    IF NeedsSetup(bars, cap) /\ ~Probes(bars[cap.bar]) THEN 0 ELSE SetUp(bars, cap)[cap.bar].address

\* What the walk has made of the BARs, of the command register's memory bit
\* and of the pointers to the structures.
NoPointers(bars) == [bars |-> bars, decodes |-> FALSE, cfg |-> [t \in Located |-> 0]]

\* A turn of vgp_get_capabilities.
vgp_get_capabilities(walk, cap) ==
    IF cap.cap_vndr # 9 THEN walk
    ELSE [bars    |-> SetUp(walk.bars, cap),
          decodes |-> walk.decodes
                        \/ (NeedsSetup(walk.bars, cap) /\ Probes(walk.bars[cap.bar])),
          cfg     |-> [t \in Located |-> IF t = cap.cfg_type THEN Val(walk.bars, cap) + cap.offset
                                                             ELSE walk.cfg[t]]]

------------------------------------------------------------------------------
(* What the walk is for.                                                   *)

\* Positions of the capabilities that locate a structure.
Structures(caps) ==
    {n \in 1 .. Len(caps) : caps[n].cap_vndr = 9 /\ caps[n].cfg_type \in Located}

Overlap(a, lena, b, lenb) == a < b + lenb /\ b < a + lena

------------------------------------------------------------------------------
(* Calls.                                                                  *)

gpu_id == [vendor |-> 1, device |-> 2]
Addresses == {AddressOf(p) : p \in Places}

ASSUME SpacesAssumption == \A s \in Spaces : s \in [Addresses -> [vendor : Nat, device : Nat]]

FindDevice == Free /\ \E space \in Spaces : Begin("find", space, FirstPlace)

FindTurn ==
    LET search == find_pci_device(out, in, gpu_id.vendor, gpu_id.device) IN
    Running("find") /\ Continue(search, ~Searching(search))

(***************************************************************************)
(* find_pci_device finds the GPU wherever on the bus it is, takes no other *)
(* device for it, and of two the first.                                    *)
(***************************************************************************)
PciDeviceFound ==
    Returned("find") =>
        LET gpus == {a \in Addresses : in[a] = gpu_id} IN
        /\ out.found = (gpus # {})
        /\ out.found => out.address \in gpus /\ \A a \in gpus : out.address <= a

\* No BAR is larger than the address it is given, which it would round to 0.
BarValues == [address : Nat, size : 0 .. config_base]
Capabilities == [cap_vndr : Nat, cfg_type : Nat, bar : BarNumbers, offset : Nat]

ASSUME DevicesAssumption ==
    \A d \in Devices : d.bars \in [BarNumbers -> BarValues] /\ d.caps \in Seq(Capabilities)

GetCapabilities ==
    Free /\ \E d \in Devices : Begin("capabilities", d, [next |-> 1, walk |-> NoPointers(d.bars)])

CapabilityTurn ==
    /\ Running("capabilities")
    /\ IF out.next > Len(in.caps) THEN Continue(out, TRUE)
       ELSE Continue([next |-> out.next + 1,
                      walk |-> vgp_get_capabilities(out.walk, in.caps[out.next])], FALSE)

\* The structures whose BAR can be given an address, and the last of a kind.
Usable(n) == Probes(in.bars[in.caps[n].bar])
LastOfKind(n) ==
    \A m \in Structures(in.caps) : in.caps[m].cfg_type = in.caps[n].cfg_type => m <= n
Pointer(n) == out.walk.cfg[in.caps[n].cfg_type]

(***************************************************************************)
(* Once the walk is over, the pointer to a configuration structure is      *)
(* where its BAR is then, also when the BAR had no address before or got   *)
(* it through another capability; and a device that was given an address   *)
(* has been told to decode it.                                             *)
(***************************************************************************)
CapabilitiesLocated ==
    Returned("capabilities") =>
        \A n \in Structures(in.caps) :
            LastOfKind(n) /\ Usable(n) =>
                LET bar == out.walk.bars[in.caps[n].bar] IN
                /\ bar.address # 0 /\ Pointer(n) = bar.address + in.caps[n].offset
                /\ in.bars[in.caps[n].bar].address = 0 => out.walk.decodes

\* Where a BAR is in the end, and a device whose BARs are then apart and have
\* room for its structures.  Two BARs without an address are never apart: both
\* get config_base.
Home(bar) == IF bar.address = 0 THEN Write(bar, config_base).address ELSE bar.address
WellPlaced(device) ==
    /\ \A b \in BarNumbers, c \in BarNumbers :
         LET p == device.bars[b]
             q == device.bars[c]
         IN  b # c /\ Probes(p) /\ Probes(q) => ~Overlap(Home(p), p.size, Home(q), q.size)
    /\ \A n \in Structures(device.caps) :
         LET bar == device.bars[device.caps[n].bar]
         IN  Probes(bar) => device.caps[n].offset + 4 <= bar.size

(***************************************************************************)
(* Structures that are apart in the device are apart in memory, as long as *)
(* the BARs are, of which no more than one may be without an address.      *)
(***************************************************************************)
StructuresDisjoint ==
    Returned("capabilities") /\ WellPlaced(in) =>
        \A n \in Structures(in.caps), m \in Structures(in.caps) :
            LET a == in.caps[n]
                b == in.caps[m]
            IN  (/\ n # m /\ LastOfKind(n) /\ LastOfKind(m) /\ Usable(n) /\ Usable(m)
                 /\ a.bar = b.bar => ~Overlap(a.offset, 4, b.offset, 4))
                => ~Overlap(Pointer(n), 4, Pointer(m), 4)

PciNext == FindDevice \/ FindTurn \/ GetCapabilities \/ CapabilityTurn
PciSpec == CallsInit /\ [][PciNext \/ Return]_call
=============================================================================
