# craybond-os in TLA+

A verification project for craybond-os, a bare-metal AArch64 kernel for the
QEMU `virt` board (`src/`, C with a little C++ and assembly). It holds TLA+
modules for the parts of the kernel whose correctness depends on state and on
the order of steps, modules for its pure functions, TLC configurations that
check them on small instances, and TLAPS proofs of the main safety properties
for every value of the constants. `PROJECT.json` lists the components, runs,
mutants, findings, hazards and theorems, and maps every definition to the
source lines it stands for.

## The system and its parts

One CPU, one address space, no persistence. `kernel_main` (`kernel/kernel.c`)
brings the devices up in a fixed order (UART, RAM size, GPU, exception vectors,
GIC, disk, MMU), creates a process, and hands the CPU to the scheduler, which
never gives it back. Output goes through `kprintf` to the UART and to a console
drawn on the GPU. Only one process is created today, the boot screen; the call
of `default_processes`, which would load the user process of `user/`, is
commented out.

| Part | Source (under `src/`) | Module |
|---|---|---|
| Process table, round robin, `start_scheduler` | `kernel/process/scheduler.c` | `Scheduler` (proved) |
| Interrupt stub, save and restore of contexts | `kernel/exception_vectors_as.S`, `kernel/process/context_switch.S` | `ContextSwitch` (proved) |
| Interrupt handler, timer, mask | `kernel/gic.c` | `Scheduler` |
| Loaders | `kernel/process/kprocess_loader.c`, `shared/process_loader.c` | `Scheduler`, `Boot`, `Relocate` (proved) |
| System call, exceptions, panic | `kernel/process/syscall.c`, `kernel/exception_handler.c` | `Scheduler`, `Boot` |
| Kernel heap | `kernel/ram_e.c` 118-194 | `TempHeap` (proved) |
| RAM size | `kernel/ram_e.c` 212-282 | `DeviceTree`, `Boot` (proved), `ProcMemory` |
| Process memory, MMU tables, layout | `kernel/process/proc_allocator.c`, `kernel/mmu.c`, `kernel/linker.ld` | `ProcMemory` (proved), `Boot` |
| VirtIO GPU | `kernel/graph/drivers/virtio_gpu_pci` | `VirtioGpu`, `PciWalk` (proved), `PrintNesting` |
| fw_cfg, ramfb | `kernel/fw/fw_cfg.c`, `ramfb_driver.c` | `FwCfg`, `Framebuffer` (proved) |
| `gpu_init` and the choice of a driver | `kernel/graph/graphics.c` | `Graphics`, which composes `VirtioGpu` and `FwCfg` |
| Console | `kernel/console/kconsole` | `KConsole`, which refines `Terminal` (proved) |
| Printing | `kernel/console/kio.c` | `PrintNesting`, composed in `Boot` (proved) |
| Device tree, disk | `kernel/dtb.c`, `kernel/filesystem/disk.c` | `DeviceTree`, composed in `Boot` (proved) |
| PCI | `kernel/pci.c` | `PciWalk` (proved) |
| Strings | `kernel/kstring.c` | `KString` (proved), `KFormat` |
| Boot order, boot screen | `kernel/kernel.c`, `kernel/kernel_processes/bootscreen.c` | `Boot` (proved); `Scheduler` from the first process on |
| UART | `kernel/console/serial/uart.c` | its unmasking, in `Scheduler` and `Boot` |
| Text windows, `dma.c`, user process and its library | | not modelled, see the end |

## The modules

Throughout, a C function that nothing can interrupt is one action, and one that
waits for a device, or in which an interrupt can be taken, is several. The
build is `-O0` (the Makefiles), which `ContextSwitch` relies on for the
registers compiled C uses. Operators whose name has a suffix such as `_NoSpsr`
are mutants: plausible bugs that the runs must detect and that nothing else
uses.

### State machines

**ContextSwitch** has the interrupt stub, `save_context`, `save_pc_interrupt`
and `restore_context` as operators on a register file. Registers that the code
moves alike share a name (`x2` for x2-x9 and x16-x18, `x19` for x19-x28).

**Scheduler**: `processes`, `proc_count`, `current_proc` are the globals of
`scheduler.c`, `cpu` the machine, `tick` the pending timer interrupt, `phase`
the place in `kernel_main`, `spin` the processes in `panic_with_info`'s loop.
`view`, `kind`, `loaded` and `dropped` are history: what a process computed
itself, what its loader did, and which processes an interrupt without a switch
has returned to since they last computed. Actions: both loaders, their failure
after `init_process`, a load into the full table, the three calls of `start_scheduler` one by one, the
timer, the timer interrupt (stub, saves, switch, restore), any other interrupt,
and what a process does: compute, print, panic, make a system call, fault. A
slot whose loader failed runs with pc and sp 0; whatever exception comes first,
its handler's prologue aborts, and so does the handler of that abort, for ever
(`sync_el1_handler`, phase "aborting").
Two simplifications: loading into a full table is a data abort (when no disk is
found, `mmu_init` maps page 0 and the write is silent instead; the table is the
same either way), and a process makes no more system calls between two
preemptions than its stack page has room for frames.

**TempHeap**: the free list from its head, the two bump pointers, and as history
the blocks callers own (`held`, `perm`), the greatest number of one-page blocks
owned at once (`peak`) and the bytes of the larger ones, which are never freed
(`wide`). A call is one step: the header says why this holds for today's callers, and
`NotPreempted` of `Boot` checks the reason.

**ProcMemory**: the map `mmu_init` builds over the layout of `linker.ld`, and
`alloc_proc_mem`. Addresses are page numbers; a four-level table is the set of
its lower tables, blocks and leaves. `shift22` is the compiler's choice for the
undefined shift of `mmu.c:116`. `given` is history. The assumption on devices
(UART, GIC, device tree and disk lie below the kernel) is that of the board.

**VirtioGpu**: driver and device run side by side and share status register,
descriptors, indices and buffers. Each of the steps of `vgp_send_command` that
the device can observe is an action, and so are the writes of `vgp_start` to
the queue's addresses, to `queue_enable` and to the status: the device starts
some time after DRIVER_OK (`Start`), with the queue as it is then (`live`).
`IndexMod` stands for 2^16.

**FwCfg**: `fw_find_file`, `rfb_init` and the choice of ramfb, against a
device that ends DMA transfers some time after they were started, completely or
with the error bit, which the driver does not read. Numbers cross the interface
in the other byte order; `Swap` is what `__builtin_bswap16` and its like do,
on numbers of two digits.

**Graphics** is `gpu_init` over both: `vgp_init` first, `rfb_init` when it
returns false, and `gpu_flush` and `gpu_clear` on the driver chosen. A VirtIO
driver that never returns keeps `gpu_init` from ever falling back.

**KConsole** computes whole methods of `KernelConsole` on a record; the
framebuffer holds the glyphs drawn into each cell since it was cleared, since
the font is transparent. A print is a step per character, as the loop of
`put_string` goes; `str` is what is left of it. **Terminal** is what a console
promises: a list of lines, of which the last `rows` are visible, typed into
character by character. `KConsole` implements it under the mapping that reads
the ring of rows from `scroll_row_offset` on.

**Boot** is the composition. `line` walks through the statements of
`kernel_main`, with the prints of what they call, on a `machine`: a device tree
and the GPU it has. It extends **PrintNesting**, which has the call stack of a
print as a variable (`kprintf_args` with its mask, the console's first clear and
its scroll, the print of `vgp_clear`; `StackFrames` bounds the stack), and
**DeviceTree**, which has `dtb_scan` with both of its handlers over the words of
a flattened tree: `Turn` is one turn of its loop, and `Boot` takes one per step
(`Walk`), with the walk's locals in `scan`. A tree (`IsTree`) is the list of its
items, the beginnings and ends of nodes and the properties, and the words they
are written in; nothing bounds its size. `Boot` assumes that `mmu_init` prints
at least as many lines for the tree as the screen has rows: the tree's megabyte
is mapped in 4KB pages by an inclusive loop, 257 lines, on a screen of 48. What
the composition is about: the tree is read through `hdr`
before and after it is set, its results are cached by `ram_e.c`, the MMU then
restricts what a statement may touch, and the memory left decides whether the
first process runs. A loader that fails leaves a process at address 0 without a
stack, which `Boot` follows into the aborts described under `Scheduler`: no
panic is printed.

### Routines without state of their own

`Calls` has one variable, the last call of such a routine: the function, its
input, what it has computed and whether it has returned. The modules below add
the routines of a component to it, each called with any input of a set, and a
property that compares what was returned with a reference definition. A routine
whose loop carries something from one turn to the next takes one step per turn,
so that what it has done so far can be stated, and proved, as an invariant.
`MCAlgorithms` gives the sets of inputs for TLC and joins the modules in one run.

**KString**: `strcmp`, `string_equals`, `strcont`, `string_ca_max`. **KFormat**:
`string_from_hex`, `string_format_args`, with a reference text for a format given
by its pieces. **Relocate**: `relocate_code` on instructions with unsigned fields
of their width. **PciWalk**: `find_pci_device` function by function of the bus,
`vgp_get_capabilities` with `vgp_setup_bars` capability by capability: the probe
with all ones, which fails on a BAR that reads back no bit or every bit and
leaves it so, the address, and the memory bit of the command register. The size
the code computes from the probe is only logged, and the upper half of a 64-bit
BAR is 0 throughout: the code does not touch it.
**Framebuffer**: `rfb_fill_rect`, `rfb_draw_line` pixel by pixel and
`rfb_draw_string` character by character, on unsigned coordinates that wrap.
**DeviceTree** as above, its walk turn by turn over trees of up to three nodes
below the root.

## The runs

Passing runs:

| Run | Shows | Instance |
|---|---|---|
| `scheduler_contexts` | `ContextIntegrity`, `SavedContextIntact`, `LevelKept`, `EveryProcessRuns` | 2 slots, both kinds, 2 register files, other interrupts; 56762 states |
| `tempheap_kernel` | `NoByteOwnedTwice`, `NothingLost`, `FootprintBounded` | 8-byte pages, 5 temporary, 2 permanent; requests that are freed of up to a page, kept ones of up to two |
| `procmemory_alloc` | `PagesOwnedOnce`, `GivenMapped`, `BootMapKept`, `FailsOnlyWhenFull` | 3-page blocks, 6 pages of user RAM; 92756 states |
| `graphics_init` | of the VirtIO queue `ResponseIsMine`, `ChainStable`, `HandshakeOrder`, `CallReturns`; of ramfb `RamfbConfigured`, `FoundIsRamfb`, `OneTransfer`; of `gpu_init` `DetectionEnds` | a VirtIO GPU or none, any device, indices modulo 4; directories of 0 to 5 files, up to 2 failed transfers; 79988 states |
| `kconsole_ring` | `ScreenShowsBuffer`, `IsTerminal` (refinement) | 4 rows of 3 columns, 8 texts |
| `boot` | `StackInRam`, `BootScreenIffMemory`, `NotPreempted`, `PrintReturns`, `BootEnds` | 84 machines, all 48 rows; 137253 states |
| `algorithms` | one property per function: `StringsCompared`, `FormatText`, `RelocatedTargets`, `PciDeviceFound`, `CapabilitiesLocated`, `StructuresDisjoint`, `RectClipped`, `LineDrawn`, `TextDrawn`, `TreeLookup` | 451830 states, most of them turns of a call |

The runs of `TempHeap`, `ProcMemory` and `KConsole` also check `TypeOK`; those of
`Scheduler`, `VirtioGpu` and `FwCfg` are proved.

Why the bounds suffice: two slots and two images make every register of a
process differ from every register of another, and the switch looks at slots
only through `current_proc` and its successor. Five temporary pages allow
blocks to be freed and reused out of order next to a kept block of two pages, and
both regions to fill; freed blocks of mixed sizes are left to the proof, which
covers every size. Four rows
let the ring wrap more than once, and the texts are shorter than, as long as and
longer than a row. Indices modulo 4 wrap within one `vgp_init`. Six pages of two
blocks let a range cross a block. Two failed transfers are enough to spoil the
count and an entry, or an entry and the configuration. The machines of `boot`
have every relation of the end of RAM to the image and to a block (below, at,
inside, above), the memory node before and after others, twice and missing, values
that read as tokens in front of it, and a property of 9 bytes, whose length reads
as the end of the tree, in front of it and, as in `src/virt.dtb`, behind it.
In `algorithms` the widths are small, and the inputs
reach across each of them: past the buffer's end at every column, across the
sign column, out of every branch's range, off every edge of the screen.

Runs that end in a violation each confirm a disagreement between the code and
what a comment in the repository says; `findings` quotes the line.

| Run | The code |
|---|---|
| `scheduler_registers` | loses x10-x15 and x29 of a user process the timer preempts and resumes it on SP_EL1's value |
| `virtio_lost_completion` | waits for ever when the device is faster than the sample of `used->idx` |
| `ramfb_not_found` | writes the framebuffer structure to the last file of a directory without ramfb, and chooses RAMFB |
| `boot_masked` | unmasks IRQs in the middle of a print when the VirtIO driver, called by the console, prints too |
| `boot_disk` | looks for the disk before `hdr` is set, and finds none |

Some properties are stated with a restriction, and are false without it. The
models contain the steps in question:

- `ContextIntegrity` and `SavedContextIntact` leave out the registers the code
  reserves for itself and, after an interrupt other than the timer's, x0, x1 and
  x30, with which the handler returns through `eret` (`SpuriousIrq`), until the
  process computes them again.
- `EveryProcessRuns` names the kernel process that never prints: it starts with
  IRQs masked and is never preempted.
- `PrintReturns` with the VirtIO GPU: once the console is full each scroll prints
  and scrolls again until the stack is full. This happens among the lines
  `mmu_init` logs, before the MMU is on (`BootEnds`).
- `RamfbConfigured` is about runs in which every transfer succeeds: ramfb is found
  if and only if it is listed, and the structure then goes to its first entry.
  Without one it goes elsewhere (`ramfb_not_found`, above). After a failed
  transfer it may be a selector swapped twice or never read; `FoundIsRamfb` says that even then no
  other file is taken for ramfb.
- `CallReturns` names the two ways in which a VirtIO command waits for ever: a
  completion before the sample, and a device that refuses the features, after
  which `vgp_init` goes on and `gpu_init` never falls back.
- `TreeLookup`, `BootScreenIffMemory` and the second half of `StackInRam` are
  about trees `dtb_scan` can read (`Readable`): it skips the payload of a property
  by its length only in nodes it looks at, so elsewhere a value or a length may
  read as a token. Only what comes before the node looked for matters
  (`Reached`). The memory node of `src/virt.dtb` is reached in this sense, its
  16th item; the lengths of 9 bytes that read as its end (`clock-names` and
  `clock-output-names`) are behind it. A search for a disk, which goes through
  the whole of that tree, is not.
- `RelocatedTargets` excepts backward conditional branches, whose 19-bit field
  is not sign-extended (`process_loader.c:56`), and an ADRP beyond the 1MB its
  decoding keeps (`:71`).
- `CapabilitiesLocated` and `StructuresDisjoint` are about BARs that answer the
  probe; after a failed one the pointer is the offset alone. The latter allows
  one BAR without an address: every such BAR gets 0x10010000.
- `FormatText` has the rules of the code for a sign from column 20 on, which is
  dropped, and for an unknown specifier at the end of the buffer, which moves the
  final 0 by one.

Further facts the models contain and no property speaks of: after
`panic_with_info` the timer goes on switching, since `uart_puthex` has unmasked
IRQs; the display query has no response buffer, so no scanout is ever found; UXN
is never set on a kernel page, and the undefined shift may change its address
instead (`shift22`), which is why `GivenMapped` asks for a one-to-one map of EL0
pages only; `strcmp` returns 0 for equal strings, as its callers need and its
comment denies; and the size of RAM cached by the first, unreadable scan is
repaired only because `calculated_ram_end` is still 0 when it is asked for.

Deadlock checking is off where the system may really stop: in `Scheduler`
(`kernel_main` returns, or the kernel has panicked).

### Fairness

- `Scheduler`: the timer expires again (it counts in hardware and `timer_reset`
  rearms it), a pending unmasked interrupt is taken, a fetch from address 0
  aborts, and `start_scheduler` runs on. Nothing is assumed of processes.
- `Graphics`: the drivers run on (`gpu_init` runs before the scheduler), a
  notified GPU eventually serves, nothing being assumed of when, and the firmware
  ends every transfer, possibly with an error. `CallReturns` and `DetectionEnds`
  allow for the two ways in which the wait for the GPU can have become hopeless,
  `AlwaysReturns` for none.
- `Boot`: the one CPU executes its next instruction.

## What is proved

The theorems hold for every value of the constants that satisfies the named
assumptions of the modules; TLC evaluates these on every instance.

**SchedulerProofs**

- `TypeCorrect`: `proc_count` and `current_proc` always index `processes[]`.
- `ContextsKept`, `SlotsKept`, `LevelsKept`: `ContextIntegrity`,
  `SavedContextIntact`, `LevelKept`, with and without interrupts that lead to no
  switch. The invariant is
  `TypeOK /\ Control /\ ProcContexts`. `Control` says that IRQs are masked from
  `start_scheduler` to the first switch and that no tick is pending before
  `timer_init`: without it an interrupt could be saved over process 0.
  `ProcContexts` joins the two context properties, which need each other (a
  switch moves a context from slot to CPU and back), with the untouched slots
  beyond `proc_count`. Its core is the lemma `RestoreOfSave`: restoring what
  the stub saved gives back everything outside the reserved registers.
- `TargetsAreKept`: `RelocatedTargets` of `Relocate`, for every program, data and
  place and for fields and pages of any width (`FieldAssumption`: the window of
  an ADRP is even and divides its field's range, and an `int32_t` holds a
  conditional branch's field). A lemma per kind of instruction does the modular
  arithmetic: a distance the field reaches survives being cut to the field and
  sign-extended again (`SignedBack`), and a distance between pages is a whole
  number of pages (`PagesReached`).

**TempHeapProofs**

- `HeapTypeCorrect`, `BlocksDisjoint`: `TypeOK` and `NoByteOwnedTwice`, from
  `HeapInv`: every free or owned block has a whole number of pages, lies below
  its bump pointer, and no two overlap. Needed since a block is handed out
  again by its address alone, with the size it was freed with.
- `NoByteLost`: `NothingLost`, if the freed requests fit in a page, which is so
  for all of the kernel's (2, 18 and 256 bytes). A larger freed block could be
  reused for a smaller request, freed with its size, and the rest be lost.
- `FootprintByPeak`: `FootprintBounded`, under the same condition on the freed
  requests and none on those that are kept. The bump pointer is exactly the wide
  blocks, the pages owned and the free list (`FootInv`), and it moves only when
  the list is empty or the request is wide.
- `StringsAreCompared`: `StringsCompared` of `KString`, for strings of any length
  (the heap holds the kernel's strings). Two strings that differ have a first
  place at which they do, which is where the loop of `strcmp` stops, the 0 at the
  end included; the inner loop of `strcont` comes to the end of the part exactly
  if the part stands there (`StopsAt`).

**ProcMemoryProofs**

- `MemTypeCorrect`, `PagesApart`, `PagesMapped`, `RefusedOnlyWhenFull`,
  `BootMapStays`: all five properties of `procmemory_alloc`, from `MemInv`. Its
  core is `Dense`: the pages in `mem_table` are always the first n of user RAM,
  without a hole, so that the lowest fit is the next page (`Search`) and a
  refusal means that too few are left. With it goes that every page held is in
  `mem_table`, so that a new range meets no old one, and that after `mmu_init`
  the blocks are the kernel's, which user RAM does not meet by the layout
  (`Layout`, `OutsideBlocks`), so that `mmu_map_4kb` refuses no page.

**VirtioGpuProofs**

- `QueueTypeCorrect`, `ChainOwned`, `ResponsesOwn`, `HandshakeKept`: the safety
  properties of the VirtIO queue, for every width of the ring indices and any
  moment at which the device starts. `QueueInv`
  says by the place in `vgp_send_command` whose turn it is (`Turn`): the device
  is quiet, has exactly one published chain, or has answered the command in
  `VIRTQUEUE_CMD`; and that what a device has fetched is what is still in the
  descriptors. That one step never leads back to the same index (`SuccFacts`)
  is what makes "avail = used" mean "nothing to do" where the indices wrap.
- `GpuIsFound`: `PciDeviceFound` of `PciWalk`, for a bus of up to 32 slots and 8
  functions and any number of buses. The search has passed no GPU (`Searched`):
  the loops visit the addresses in ascending order and leave none out
  (`AddressAfter`), which is so since `pci_make_addr` gives slot and function 5
  and 3 bits.
- `StructuresAreLocated`, `StructuresAreApart`: `CapabilitiesLocated` and
  `StructuresDisjoint`, for any BARs and any list of capabilities. Each BAR that
  can be probed is where it was or where it is put (`BarsKept`), and decoded if it
  was put there (`Decoded`), each one a structure has named is
  in its last place, and the pointer to the last structure of each kind is into
  it (`Walked`). So a pointer never goes stale: no BAR with an address is moved.

**RamfbProofs**

- `OnlyRamfbFound`, `TransfersApart`, `SearchTypeCorrect`: `FoundIsRamfb`,
  `OneTransfer` and `FwTypeOK` for every directory and any number of failed
  transfers, from `SearchInvariant`.
- `StructureWritten`: `RamfbConfigured`. As long as no transfer has failed, the
  entries before the loop's counter are the ones read, none of them is ramfb,
  and the buffer holds the last of them, in the byte order of the place in the
  loop; at the end the counter says which entry the structure went to.
- `RectsAreClipped`, `LinesAreDrawn`, `TextIsDrawn`: `RectClipped`, `LineDrawn`
  and `TextDrawn` of `Framebuffer`, for every screen and everything drawn whose
  coordinates do not wrap all the way round to the screen (`Unwrapped`), and
  lines whose sides an `int` holds (`LinesAssumption`). A coordinate reaches the
  screen exactly if it is not negative and below its size (`Lands`). A line
  keeps `dx * b - dy * a = err - err0` for the a columns and b rows it has gone
  (`Along`): the error is the distance from the true line, its bounds are half a
  pixel, and when one side is complete they leave the other no choice
  (`SidesComplete`), which is why the loop, which has no other exit, comes to
  the second point. The pen of a text stands where the line ends before it and
  the characters since the last of them put it (`Lettered`).

**KConsoleProofs**, for every screen size, set of glyphs and set of texts

- `ConsoleTypeCorrect`, `BufferShown`: `TypeOK` and `ScreenShowsBuffer`, from
  `ConsoleInv`. It adds to them that each row is a text followed by zeros, that
  the text of the cursor's row ends at the cursor and that nothing stands below
  it (`Filled`). Without this `put_char` could draw over a glyph that is still
  there, since the font is transparent and `newline` draws nothing.
- `ConsoleIsTerminal`: `IsTerminal`, step by step. A character typed at the
  cursor is appended to the last line; a scroll moves every row of the ring to
  the line before and is what `Terminal` calls cutting off its first line; the
  first print, which clears, turns the terminal on. The lemmas about `Row` say
  that the ring is a permutation of the rows that a scroll rotates, and those
  about `TextOf` what a row filled up to a column reads as. One step per
  character is what makes this provable: what a whole text does would need
  induction over it.

**DeviceTreeProofs and BootProofs**, for every set of machines, with trees of
any size and any GPU, every number of rows, lines and stack frames

- `LookupsAgree`: what `TreeLookup` says of the walks in the algorithms run, for
  the walks `kernel_main` makes through `hdr` over any tree that is readable as far
  as the node looked for. The lemmas
  of `DeviceTreeProofs` follow a walk by item: it is at the first word of an
  item, or inside the payload of a property it skips word by word (`OnItem`);
  before the node it is in there is no node it looks for (`Passed`), and the
  match holds what the node's properties up to here say (`Reading`). An item is
  passed by one turn (an active property, the end of a node) or by several, each
  of which leaves the walk on the item or at the next (`TurnInItem`), so that no
  induction over the tree is needed but the one over the steps.
- `StackFromRam`, `BootScreenByMemory`: `StackInRam` and `BootScreenIffMemory`,
  from `BootInv == Place /\ WalkInv /\ MemoryInv`. `Place` says what holds at a
  line of `kernel_main`: `hdr` is set behind `dtb_addresses` and only there, the
  MMU maps what a statement touches, the stack page is mapped when a process has
  it. `WalkInv` is the walk above, or, through a null `hdr`, that the match is
  still zero: no property has a name. `MemoryInv` says that what was cached
  before `hdr` was set has an end of 0, and that from `get_user_ram_end` on the
  end is the one of the tree; this is the argument why the first, wrong reading
  does no harm.
- `ProcessNotPreempted`: `NotPreempted`, from `Place /\ NestInv`. Without the
  VirtIO GPU a print is alone on the stack but for the `gpu_clear` it calls
  (`Quiet`), and from the switch to the first process on nothing prints and
  nothing unmasks until the panic; only the switch to a slot that was never
  filled in unmasks, and nothing runs there. With it the invariant has to say how the
  kernel fails (`Doomed`): the cursor is at least as far down as the lines
  printed since `dtb_addresses`, so that the first scroll comes before `mmu_init`
  has printed them all; from there on every print on the stack scrolls again
  (`Sunk`) until the stack overflows. `timer_init` is never reached, which is why
  `NotPreempted` holds on such machines although their prints unmask.
- `VirtioStopsInMmuInit`: that such a machine never gets beyond those lines, nor
  to a stack for its first process. This is the safety half of `BootEnds`.

`DeviceTreeProofs` and `BootProofs` together have some 4500 obligations and take
about a quarter of an hour from nothing.

The invariants of the routines (`RelocationInv`, `StringsInv`, `PciInv`,
`DrawingInv`) are proved for the specification of each module, which has the
calls of that module alone; in `MCAlgorithms` calls of the others come between
them, which the invariants do not speak of. Likewise the theorems about
`VirtioGpu` and `FwCfg` are about each driver and its device, and `Graphics`
adds to `FwCfg` one step, the choice of the VirtIO GPU, after which ramfb is
never searched.

Only model-checked:

- all liveness (`EveryProcessRuns`, `CallReturns`, `DetectionEnds`,
  `PrintReturns`, `BootEnds`): liveness under fairness and `ENABLED` are out of
  the prover's reach. That `rfb_draw_line` ends is proved as a bound: it draws
  no more points than its longer side has;
- `FormatText`: the text of a number is a fold over its digits and the formatted
  text one over the format, and what such a definition computes for every input
  needs induction over data, which the prover does not have;
- `TreeLookup` for the scans `MCAlgorithms` makes; what it says is proved for
  those of `Boot` as `LookupsAgree`;
- that the trees `TreeOf` builds are trees (`IsTree`), which is a fact about a
  recursive definition too: an assumption of `Boot` on its machines, which TLC
  evaluates.

No module that is proved about uses a `RECURSIVE` operator; the one there is,
`Format`, has `KFormat` to itself for this reason.

## What is not modelled

- Fonts and colours, the wording of messages, cache, TLB and barrier
  instructions, the GIC beyond "this interrupt is enabled", the UART's wait for
  its flag.
- The drawing of the VirtIO driver, which has the loops of ramfb's, and the
  drawing calls of `graphics.c` that only forward. `gpu_get_char_size` returns
  nothing for the VirtIO driver; the console that asks is modelled over ramfb.
- A second sender on the VirtIO queue and a second process that prints: the
  kernel creates one process. `talloc` step by step would matter only then.
- A device tree with a bad magic number: the board passes a valid one.
- Overflow of the permanent heap while page tables are built (`palloc` itself is
  in `TempHeap`).
- Code that is never executed: `proc_map_2mb`, `proc_allocator_init`,
  `register_device_memory`, `dma_write`, and the ACPI search behind the early
  return of `find_pci`.
- The user process and its library, which are not linked in (`Scheduler` lets a
  user process do anything its level allows), and the text window, a stub.
