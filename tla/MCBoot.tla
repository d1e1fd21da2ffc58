------------------------------- MODULE MCBoot -------------------------------
(* Instances of Boot for TLC.  The trees follow src/virt.dtb: a root with   *)
(* two cells per address and per size, a memory node whose reg precedes its *)
(* device_type, virtio_mmio nodes whose interrupts precede their reg.       *)
EXTENDS Boot

Node(name, props) == <<Begin(name)>> \o props \o <<End>>
Root(nodes) ==
    TreeOf(<<Begin(Empty), Prop(other_prop, 4, <<2>>), Prop(other_prop, 4, <<2>>)>>
             \o nodes \o <<End>>)

Reg(base, size) == Prop(reg, 16, <<0, base, 0, size>>)
Type == Prop(device_type, 7, <<Memory, Filler>>)

\* Base of the block device, and of a virtio slot with nothing in it.
MCBlockDevices == {60}
Virtio(base) == Node(virtio_mmio, <<Prop(interrupts, 12, <<0, 16, 1>>), Reg(base, 5)>>)

RAM == 16                       \* first page of RAM
MCkfull_end == 24
Memories ==
    {Node(memory, <<Reg(RAM, size), Type>>) : size \in {4, 8, 11, 12, 14, 20}}
      \cup {Node(memory, <<Type, Reg(RAM, 20)>>),
            Node(memory, <<Reg(RAM, 16), Type>>) \o Node(memory, <<Reg(RAM, 20), Type>>),
            Node(memory, <<Reg(RAM, 16)>>), <<>>}

\* A property of 9 bytes: its length reads as FDT_END.
NineBytes == Node(other_node, <<Prop(other_prop, 9, <<Filler, Filler, Filler>>)>>)

\* Nodes in front of the memory: none, one that ends the walk, one with a value
\* whose words read as tokens, and reserved memory.
Fronts ==
    {<<>>,
     NineBytes,
     Node(other_node, <<Prop(other_prop, 12, <<1, 3, 2>>)>>),
     Node(reserved_memory, <<Reg(RAM, 2), Prop(other_prop, 0, <<>>)>>)}

\* Nodes behind the memory: virtio slots, with or without the clock-names that
\* ends the walk, as in src/virt.dtb.
Backs == {Virtio(60) \o Virtio(50), Virtio(60) \o NineBytes \o Virtio(50)}

Trees == {Root(Virtio(50) \o front \o mem \o back) :
          front \in Fronts, mem \in Memories, back \in Backs}

\* Every tree on a screen; the other GPUs with and without room in RAM.
MCMachines ==
    [tree : Trees, gpu : {"RAMFB"}]
      \cup [tree : {Root(Node(memory, <<Reg(RAM, size), Type>>)) : size \in {8, 12}},
            gpu : {"NONE", "VIRTIO_GPU_PCI"}]

DiskMachines == {[tree |-> Root(Virtio(50) \o Virtio(60) \o mem), gpu |-> "RAMFB"] :
                 mem \in Memories}
=============================================================================
