-------------------------------- MODULE Boot --------------------------------
(***************************************************************************)
(* kernel_main from its first statement to the boot screen's panic, as the *)
(* composition of the device tree walk (DeviceTree), the prints it makes   *)
(* (PrintNesting) and the start-up of GPU, exceptions, interrupts, disk,   *)
(* MMU, user memory and the first process.  One CPU, no interrupt source   *)
(* before timer_init: kernel_main is a sequence of statements, and line is *)
(* the one to execute next.                                                *)
(*                                                                         *)
(* Addresses are counted in pages; a region of the memory map is a name.   *)
(* machine is what the kernel is booted on and never changes.              *)
(***************************************************************************)
EXTENDS DeviceTree, PrintNesting

CONSTANTS
    Machines,    \* a set of [tree, gpu]
    WORD,        \* 2^64, in pages
    BLOCK,       \* pages of a 2MB block
    kfull_end,   \* page after the kernel image
    MapLines,    \* lines mmu_init prints for the image, UART, GIC and shared pages
    DtbLines,    \* lines it prints for the pages of the tree, 257
    LoadLimit,   \* 100: where the boot screen gives up
    Sweep        \* 180: steps of its drawing

ASSUME BootAssumption ==
    /\ WORD \in Nat /\ BLOCK \in Nat \ {0}
    /\ kfull_end \in Nat \ {0} /\ kfull_end % BLOCK = 0
    /\ LoadLimit \in Nat /\ Sweep \in Nat /\ LoadLimit < Sweep
    \* A tree of 1MB, mapped by 4KB pages, takes more lines than the screen has.
    /\ MapLines \in Nat /\ DtbLines \in Nat /\ rows <= DtbLines
    /\ \A m \in Machines : IsTree(m.tree)

VARIABLES
    machine,
    at, line,             \* where execution is, and the statement of kernel_main
    scan,                 \* the last walk of the tree
    vbar, gic, timer,     \* vectors installed, GIC enabled, timer enabled
    mmu, mapped,          \* MMU on, and the regions of its tables
    hdr,                  \* dtb.c's pointer is set
    ram,                  \* the five variables of ram_e.c
    disk,                 \* disk_device_address and disk_device_size
    stack_page, loaded,   \* the first process: its stack, and its slot filled in
    randomNumber, panic_triggered

cpuVars == <<vbar, gic, timer, mmu, mapped>>
dataVars == <<hdr, ram, disk, stack_page, loaded, randomNumber, panic_triggered>>
bootVars == <<machine, at, line, scan, cpuVars, dataVars>>
vars == <<bootVars, printVars>>

\* A walk that is over.
NoScan == [get_memory_region(<<>>, FALSE) EXCEPT !.ret = "false"]

Init ==
    /\ PrintInit
    /\ machine \in Machines
    /\ at = "kernel_main" /\ line = 1 /\ scan = NoScan
    /\ vbar = FALSE /\ gic = FALSE /\ timer = FALSE
    /\ mmu = FALSE /\ mapped = {}
    /\ hdr = FALSE
    /\ ram = [total_ram_start |-> 0, total_ram_size |-> 0, calculated_ram_start |-> 0,
              calculated_ram_end |-> 0, calculated_ram_size |-> 0]
    /\ disk = [address |-> 0, size |-> 0]
    /\ stack_page = 0 /\ loaded = FALSE
    /\ randomNumber = 0 /\ panic_triggered = FALSE

------------------------------------------------------------------------------
(* The statements of kernel_main, with the prints of what it calls.        *)

mmu_init ==
    [n \in 1 .. MapLines |-> "kprintf_raw"]
      \o <<"dtb_addresses">>
      \o [n \in 1 .. DtbLines |-> "kprintf_raw"]
      \o <<"kprintf", "kprintf_raw", "enable_mmu", "kprintf_raw">>

start_bootscreen ==
    <<"get_user_ram_start", "get_user_ram_end", "alloc_proc_mem", "kprintf_raw",
      "create_kernel_process">>

kernel_main ==
    <<"kprintf", "get_total_ram", "kprintf", "kprintf", "kprintf",
      "gpu_init", "kprintf", "kprintf", "kprintf",
      "kprintf", "set_exception_vectors", "kprintf", "kprintf",
      "gic_init", "kprintf", "kprintf", "init_disk">>
      \o mmu_init
      \o <<"kprintf", "kprintf", "kprintf", "get_total_user_ram", "kprintf", "kprintf">>
      \o start_bootscreen
      \o <<"kprintf", "start_scheduler">>

\* What a statement reads or writes besides registers of the CPU.
Touched(statement) ==
    {"image", "uart"} \cup
      IF statement \in {"get_total_ram", "get_total_user_ram", "get_user_ram_start",
                        "get_user_ram_end"}
      THEN {"dtb"} ELSE {}

Translated(regions) == mmu => regions \subseteq mapped

\* The next statement, which goes through, and the step to the one after it.
Statement(name) ==
    /\ Idle /\ at = "kernel_main"
    /\ kernel_main[line] = name
    /\ Translated(Touched(name))
    /\ line' = line + 1

kprintf ==
    /\ Statement("kprintf")
    /\ Enter(stack)
    /\ UNCHANGED <<machine, at, scan, cpuVars, dataVars>>

kprintf_raw ==
    /\ Statement("kprintf_raw")
    /\ EnterRaw(stack)
    /\ UNCHANGED <<machine, at, scan, cpuVars, dataVars>>

------------------------------------------------------------------------------
(* The size of RAM.                                                        *)

AlignDown(page) == (page \div BLOCK) * BLOCK

\* Mutant: the end is rounded up.
Region_RoundedUp(base, size) ==
    LET start == AlignDown(kfull_end)
        end == AlignDown(base + size + BLOCK - 1)
    IN  [total_ram_start |-> base, total_ram_size |-> size,
         calculated_ram_start |-> start, calculated_ram_end |-> end,
         calculated_ram_size |-> (end - start) % WORD]

\* What calc_ram makes of a memory node.
Region(base, size) ==
    LET start == AlignDown(kfull_end)
        end == AlignDown(base + size)
    IN  [total_ram_start |-> base, total_ram_size |-> size,
         calculated_ram_start |-> start, calculated_ram_end |-> end,
         calculated_ram_size |-> (end - start) % WORD]

\* Where the words of the tree are read, after the statement that asks for it.
Walk ==
    /\ at \in {"calc_ram", "init_disk"} /\ Scanning(scan)
    /\ scan' = Turn(scan)
    /\ UNCHANGED <<machine, at, line, cpuVars, dataVars, printVars>>

\* Mutant: calculated only once, for whichever variable is asked for first.
calcvar_Once(var) ==
    IF ram.calculated_ram_start = 0
    THEN at' = "calc_ram" /\ scan' = get_memory_region(machine.tree.words, hdr)
    ELSE UNCHANGED <<at, scan>>

\* A getter recalculates all of them only when its own variable is 0.
calcvar(var) ==
    IF ram[var] = 0
    THEN at' = "calc_ram" /\ scan' = get_memory_region(machine.tree.words, hdr)
    ELSE UNCHANGED <<at, scan>>

\* calc_ram prints when it found a region and leaves all as it is otherwise.
calc_ram ==
    /\ at = "calc_ram" /\ ~Scanning(scan)
    /\ at' = "kernel_main"
    /\ IF scan.ret = "true"
       THEN /\ ram' = Region(scan.match.reg_base, scan.match.reg_size)
            /\ Enter(stack)
       ELSE UNCHANGED <<ram, printVars>>
    /\ UNCHANGED <<machine, line, scan, cpuVars, hdr, disk, stack_page, loaded,
                   randomNumber, panic_triggered>>

Getter(name, var) ==
    /\ Statement(name)
    /\ calcvar(var)
    /\ UNCHANGED <<machine, cpuVars, dataVars, printVars>>

get_total_ram == Getter("get_total_ram", "total_ram_size")
get_total_user_ram == Getter("get_total_user_ram", "calculated_ram_size")
get_user_ram_start == Getter("get_user_ram_start", "calculated_ram_start")
get_user_ram_end == Getter("get_user_ram_end", "calculated_ram_end")

------------------------------------------------------------------------------
(* The other initialisations.                                              *)

gpu_init ==
    /\ Statement("gpu_init")
    /\ chosen_GPU' = machine.gpu
    /\ UNCHANGED <<machine, at, scan, cpuVars, dataVars, stack, masked, use_visual,
                   is_initialized, cursor_y, overflowed>>

set_exception_vectors ==
    /\ Statement("set_exception_vectors")
    /\ vbar' = TRUE
    /\ UNCHANGED <<machine, at, scan, gic, timer, mmu, mapped, dataVars, printVars>>

gic_init ==
    /\ Statement("gic_init")
    /\ gic' = TRUE
    /\ UNCHANGED <<machine, at, scan, vbar, timer, mmu, mapped, dataVars, printVars>>

init_disk ==
    /\ Statement("init_disk")
    /\ at' = "init_disk" /\ scan' = find_virtio_blk(machine.tree.words, hdr)
    /\ UNCHANGED <<machine, cpuVars, dataVars, printVars>>

\* The outputs keep their zeros when no block device is found.
find_virtio_blk_return ==
    /\ at = "init_disk" /\ ~Scanning(scan)
    /\ at' = "kernel_main"
    /\ disk' = IF scan.ret = "true"
               THEN [address |-> scan.match.reg_base, size |-> scan.match.reg_size]
               ELSE disk
    /\ UNCHANGED <<machine, line, scan, cpuVars, hdr, ram, stack_page, loaded, randomNumber,
                   panic_triggered, printVars>>

\* The only caller of dtb_get_header.
dtb_addresses ==
    /\ Statement("dtb_addresses")
    /\ hdr' = TRUE
    /\ UNCHANGED <<machine, at, scan, cpuVars, ram, disk, stack_page, loaded, randomNumber,
                   panic_triggered, printVars>>

\* The regions mmu_init maps.  Without a disk its loop maps page 0.
BootMap == {"image", "uart", "gic", "shared", "dtb",
            IF disk.address = 0 THEN "page 0" ELSE "disk"}

enable_mmu ==
    /\ Statement("enable_mmu")
    /\ mmu' = TRUE /\ mapped' = BootMap
    /\ UNCHANGED <<machine, at, scan, vbar, gic, timer, dataVars, printVars>>

\* One page for the stack, the first of user RAM; its mapping is logged.
alloc_proc_mem ==
    /\ Statement("alloc_proc_mem")
    /\ IF ram.calculated_ram_start + 1 <= ram.calculated_ram_end
       THEN /\ stack_page' = ram.calculated_ram_start
            /\ mapped' = mapped \cup {"stack page"}
            /\ EnterRaw(stack)
       ELSE UNCHANGED <<stack_page, mapped, printVars>>
    /\ UNCHANGED <<machine, at, scan, vbar, gic, timer, mmu, hdr, ram, disk, loaded,
                   randomNumber, panic_triggered>>

\* Without a stack it returns early: the slot is counted but stays zero.
create_kernel_process ==
    /\ Statement("create_kernel_process")
    /\ IF stack_page # 0 THEN loaded' = TRUE /\ EnterRaw(stack)
                         ELSE UNCHANGED <<loaded, printVars>>
    /\ UNCHANGED <<machine, at, scan, cpuVars, hdr, ram, disk, stack_page, randomNumber,
                   panic_triggered>>

\* Mutant: the process starts with the IRQ mask of start_scheduler's caller.
start_scheduler_Unmasked ==
    /\ Statement("start_scheduler")
    /\ timer' = TRUE /\ at' = "process"
    /\ UNCHANGED <<machine, scan, vbar, gic, mmu, mapped, dataVars, printVars>>

\* restore_context goes to the slot's pc with its spsr: IRQs stay masked in a
\* kernel process.  In a slot that stayed zero they are not masked, and sp is 0.
start_scheduler ==
    /\ Statement("start_scheduler")
    /\ timer' = TRUE /\ at' = "process" /\ masked' = loaded
    /\ UNCHANGED <<machine, scan, vbar, gic, mmu, mapped, dataVars, stack, screen,
                   is_initialized, cursor_y, overflowed>>

------------------------------------------------------------------------------
(* The boot screen, and panics.                                            *)

\* disable_visual and the first gpu_clear.
bootscreen ==
    /\ Idle /\ at = "process" /\ loaded
    /\ Translated({"image", "stack page"})
    /\ at' = "drawing" /\ use_visual' = FALSE
    /\ Push(stack, gpu_clear)
    /\ UNCHANGED <<machine, line, scan, cpuVars, dataVars, masked, chosen_GPU,
                   is_initialized, cursor_y>>

\* Mutant: the number wraps at the limit.
draw_step_Wrapped ==
    /\ Idle /\ at = "drawing"
    /\ randomNumber' = (randomNumber + 1) % LoadLimit
    /\ UNCHANGED <<machine, at, scan, line, cpuVars, hdr, ram, disk, stack_page, loaded,
                   panic_triggered, printVars>>

\* One step of the drawing.  After Sweep steps the pause would never end.
draw_step ==
    /\ Idle /\ at = "drawing"
    /\ randomNumber' = randomNumber + 1
    /\ at' = IF randomNumber + 1 > LoadLimit THEN "panic_with_info"
             ELSE IF randomNumber + 1 = Sweep THEN "pause" ELSE at
    /\ UNCHANGED <<machine, line, scan, cpuVars, hdr, ram, disk, stack_page, loaded,
                   panic_triggered, printVars>>

\* The zero slot is fetched from address 0 at EL0, or a tick comes first.  The
\* prologue of sync_el0_handler_c or irq_el1_handler stores below sp = 0 and
\* aborts, and so does that of sync_el1_handler, IRQs masked, for ever: no
\* handler reaches its first statement, and nothing is printed.
sync_el1_handler ==
    /\ Idle /\ vbar /\ at = "process" /\ ~loaded
    /\ at' = "aborting" /\ masked' = TRUE
    /\ UNCHANGED <<machine, line, scan, cpuVars, dataVars, stack, screen, is_initialized,
                   cursor_y, overflowed>>

\* panic_with_info draws once, whatever the drawing itself causes.
draw_panic_screen ==
    /\ Idle /\ at = "panic_with_info" /\ ~panic_triggered
    /\ panic_triggered' = TRUE
    /\ Push(stack, gpu_clear)
    /\ UNCHANGED <<machine, at, scan, line, cpuVars, hdr, ram, disk, stack_page, loaded,
                   randomNumber, masked, screen, is_initialized, cursor_y>>

\* The message on the serial line; uart_puthex ends with enable_interrupt.
halt ==
    /\ Idle /\ at = "panic_with_info" /\ panic_triggered
    /\ at' = "halted" /\ masked' = FALSE
    /\ UNCHANGED <<machine, line, scan, cpuVars, dataVars, stack, screen, is_initialized,
                   cursor_y, overflowed>>

\* while (1); an abort inside every abort; or a stack that ran over what lies
\* below it.
Spin == (at \in {"halted", "aborting"} \/ overflowed) /\ UNCHANGED vars

Step ==
    \/ kprintf \/ kprintf_raw
    \/ get_total_ram \/ get_total_user_ram \/ get_user_ram_start \/ get_user_ram_end
    \/ Walk \/ calc_ram \/ find_virtio_blk_return
    \/ gpu_init \/ set_exception_vectors \/ gic_init \/ init_disk
    \/ dtb_addresses \/ enable_mmu \/ alloc_proc_mem \/ create_kernel_process
    \/ start_scheduler
    \/ bootscreen \/ draw_step \/ sync_el1_handler \/ draw_panic_screen \/ halt
    \/ PrintStep /\ UNCHANGED bootVars

Next == Step \/ Spin

\* The one CPU executes its next instruction.
Spec == Init /\ [][Next]_vars /\ WF_vars(Step)

------------------------------------------------------------------------------
(* Properties.                                                             *)

\* The page after the last whole block of the tree's first memory node, or 0.
RamEnd(items) ==
    IF First(items, memory) = {} THEN 0
    ELSE LET reg_of == RegOf(items, CHOOSE n \in First(items, memory) : TRUE)
         IN  AlignDown(reg_of[1] + reg_of[2])

(***************************************************************************)
(* The first process gets its stack from the RAM the tree describes (if    *)
(* dtb_scan can read it), above the image and in whole blocks.             *)
(* get_total_ram reads the tree through a null hdr and caches a region of  *)
(* size 0; alloc_proc_mem sees the right bounds only because               *)
(* calculated_ram_end is still 0 by then and is calculated again, after    *)
(* mmu_init has set hdr and mapped the tree.                               *)
(***************************************************************************)
StackInRam ==
    stack_page # 0 =>
        /\ kfull_end <= stack_page /\ stack_page + 1 <= ram.calculated_ram_end
        /\ Readable(machine.tree.items, memory) =>
             ram.calculated_ram_end = RamEnd(machine.tree.items)

(***************************************************************************)
(* The memory of the machine decides alone how booting ends: if dtb_scan   *)
(* can read the tree as far as its memory node and the node leaves room    *)
(* above the image, the boot screen runs to its panic, on whatever there   *)
(* is to draw on; without room the half-made process aborts for ever and   *)
(* no panic says so.                                                       *)
(***************************************************************************)
BootScreenIffMemory ==
    at \in {"halted", "aborting"} /\ Readable(machine.tree.items, memory) =>
        (at = "halted" <=> RamEnd(machine.tree.items) > kfull_end)

(***************************************************************************)
(* boot_draw_name formats into a block from talloc and frees it, and the   *)
(* free list has no lock: from timer_init on IRQs stay masked (by          *)
(* start_scheduler, then by the spsr of create_kernel_process) until the   *)
(* panic of the boot screen, whose uart_puthex unmasks them.  Only a slot  *)
(* that was never filled in is entered with IRQs unmasked; it runs         *)
(* nothing.                                                                *)
(***************************************************************************)
NotPreempted == timer /\ ~masked => at = "halted" \/ (at = "process" /\ ~loaded)

(***************************************************************************)
(* Booting comes to an end on every machine: no tree sends the walk, and   *)
(* no print the console, round for ever.  It ends in the halt loop of the  *)
(* boot screen's panic, or in the half-made process; only with the VirtIO  *)
(* GPU it ends earlier, in the scroll that fills the stack.                *)
(***************************************************************************)
BootEnds ==
    <>(IF machine.gpu = "VIRTIO_GPU_PCI" THEN overflowed ELSE at \in {"halted", "aborting"})

(***************************************************************************)
(* find_virtio_blk "searches the DTB for a "virtio,mmio" node and          *)
(* retrieves its base address, size, and IRQ" and returns 1 "on success":  *)
(* a machine with a block device has its disk once it is initialised.      *)
(***************************************************************************)
DiskFound ==
    mmu => \A n \in First(machine.tree.items, virtio_mmio) :
               disk.address = RegOf(machine.tree.items, n)[1]
=============================================================================
