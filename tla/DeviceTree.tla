----------------------------- MODULE DeviceTree -----------------------------
(***************************************************************************)
(* dtb_scan and its two callers (the memory node for calc_ram, the block   *)
(* device for init_disk) over the words of the tree's structure block.  A  *)
(* scan is a record, and Turn takes it through one turn of the loop.       *)
(*                                                                         *)
(* A word is a number.  Strings are abstracted to one word each: a number  *)
(* of 100 or more stands for a node name, a property name (the offset the  *)
(* tree has for it) or the value "memory"; every smaller number has a zero *)
(* first byte, so that it reads as the empty name and takes one word too.  *)
(***************************************************************************)
EXTENDS Integers, Sequences

CONSTANTS
    HALF,          \* 2^32: a reg cell pair is high * HALF + low
    BlockDevices   \* register bases at which a virtio block device answers

ASSUME CellAssumption == HALF \in Nat

FDT_BEGIN_NODE == 1
FDT_END_NODE == 2
FDT_PROP == 3
FDT_END == 9

\* Node names.
Empty == 0
memory == 101            \* "memory@40000000"
reserved_memory == 102
virtio_mmio == 103       \* "virtio_mmio@a000000"
other_node == 104
\* Property names, and the value of a memory node's device_type.
reg == 111
device_type == 112
interrupts == 113
other_prop == 114
Memory == 121
Filler == 99             \* the rest of a string, or any word that is no token

NoMatch == [reg_base |-> 0, reg_size |-> 0, irq |-> 0, found |-> FALSE]

\* Whether the name contains the string searched for.
strcont(name, search) ==
    name \in IF search = memory THEN {memory, reserved_memory, Memory} ELSE {virtio_mmio}

Cell64(prop, n) == prop[n] * HALF + prop[n + 1]

IsReg(propname, len) == propname = reg /\ len >= 16

WithReg(match, prop) ==
    [match EXCEPT !.reg_base = Cell64(prop, 1), !.reg_size = Cell64(prop, 3)]

\* The comma operator drops the test of the property's name.
handle_mem_node(propname, prop, len, match) ==
    IF IsReg(propname, len) THEN WithReg(match, prop)
    ELSE [match EXCEPT !.found = @ \/ (prop # <<>> /\ prop[1] = Memory)]

handle_virito_node(propname, prop, len, match) ==
    IF IsReg(propname, len)
    THEN [WithReg(match, prop) EXCEPT !.found = Cell64(prop, 1) \in BlockDevices]
    ELSE IF match.found /\ propname = interrupts /\ len >= 4
         THEN [match EXCEPT !.irq = prop[1]]
         ELSE match

Handler(search, propname, prop, len, match) ==
    IF search = memory THEN handle_mem_node(propname, prop, len, match)
                       ELSE handle_virito_node(propname, prop, len, match)

\* The number of words of len bytes.
WordsOf(len) == (len + 3) \div 4

\* Mutant: what was read of a node outlives it.
EndNode_Kept(match) == match

\* What the end of a node leaves of a match that is not returned.
EndNode(match) == NoMatch

\* One turn of the loop of dtb_scan.
Turn(scan) ==
    LET p == scan.p
        token == scan.words[p]
        len == scan.words[p + 1]
        last == p + 2 + WordsOf(len)
    IN  CASE token = FDT_END -> [scan EXCEPT !.p = p + 1, !.ret = "false"]
          [] token = FDT_BEGIN_NODE ->
               [scan EXCEPT !.p = p + 2, !.active = strcont(scan.words[p + 1], scan.search)]
          [] token = FDT_PROP /\ scan.active ->
               [scan EXCEPT !.p = last + 1,
                            !.match = Handler(scan.search,
                                              IF scan.named THEN scan.words[p + 2] ELSE Empty,
                                              SubSeq(scan.words, p + 3, last), len, @)]
          [] token = FDT_END_NODE /\ scan.active /\ scan.match.found ->
               [scan EXCEPT !.p = p + 1, !.ret = "true"]
          [] token = FDT_END_NODE /\ ~(scan.active /\ scan.match.found) ->
               [scan EXCEPT !.p = p + 1, !.active = FALSE, !.match = EndNode(@)]
          [] OTHER -> [scan EXCEPT !.p = p + 1]

Scanning(scan) == scan.ret = "none"

\* The header and the memory reservations, none of which reads as a token.
Header == [n \in 1 .. 16 |-> Filler]

\* With hdr set the walk starts at the structure block.  With hdr = 0 both
\* offsets come from address 0, where there is only zeroed flash: the walk
\* starts at the header, and no property name is what it should be (named).
dtb_scan(words, hdr, search) ==
    [words |-> IF hdr THEN words ELSE Header \o words, p |-> 1, search |-> search,
     named |-> hdr, active |-> FALSE, match |-> NoMatch, ret |-> "none"]

get_memory_region(words, hdr) == dtb_scan(words, hdr, memory)
find_virtio_blk(words, hdr) == dtb_scan(words, hdr, virtio_mmio)

------------------------------------------------------------------------------
(* Trees, their structure blocks, and what looking a node up means.  The   *)
(* items of a tree are the beginnings and ends of its nodes, and the       *)
(* properties, which directly follow the beginning of their node.          *)

Begin(name) == [kind |-> "begin", name |-> name, len |-> 0, value |-> <<>>]
Prop(name, len, value) == [kind |-> "prop", name |-> name, len |-> len, value |-> value]
End == [kind |-> "end", name |-> Empty, len |-> 0, value |-> <<>>]

Words(item) ==
    CASE item.kind = "begin" -> <<FDT_BEGIN_NODE, item.name>>
      [] item.kind = "prop" -> <<FDT_PROP, item.len, item.name>> \o item.value
      [] item.kind = "end" -> <<FDT_END_NODE>>

Items == [kind : {"begin", "prop", "end"}, name : Nat, len : Nat, value : Seq(Nat)]

\* What a tree is: its items, and the structure block, in which item n has
\* its words from place[n] on.
IsTree(tree) ==
    LET size == Len(tree.items) IN
    /\ tree.items \in Seq(Items) /\ tree.words \in Seq(Nat)
    /\ size > 0 /\ tree.items[size].kind = "end"
    /\ tree.place \in [1 .. size + 1 -> 1 .. Len(tree.words)]
    /\ tree.place[1] = 1 /\ tree.words[tree.place[size + 1]] = FDT_END
    /\ \A n \in 1 .. size :
         LET item == tree.items[n]
             from == tree.place[n]
         IN  /\ item.kind = "prop" => Len(item.value) = WordsOf(item.len)
             /\ tree.place[n + 1] = from + Len(Words(item))
             /\ \A i \in 1 .. Len(Words(item)) : tree.words[from + i - 1] = Words(item)[i]

TreeOf(items) ==
    LET block[n \in 0 .. Len(items)] ==
            IF n = 0 THEN <<>> ELSE block[n - 1] \o Words(items[n])
    IN  [items |-> items, words |-> Append(block[Len(items)], FDT_END),
         place |-> [n \in 1 .. Len(items) + 1 |-> Len(block[n - 1]) + 1]]

\* The properties of the node that begins at n, and those that give its registers.
PropsOf(items, n) ==
    {k \in n + 1 .. Len(items) : \A m \in n + 1 .. k : items[m].kind = "prop"}
RegsOf(items, n) == {k \in PropsOf(items, n) : IsReg(items[k].name, items[k].len)}

\* Base and size a reg of full length gives, or zeros.
RegOf(items, n) ==
    IF RegsOf(items, n) = {} THEN <<0, 0>>
    ELSE LET value == items[CHOOSE k \in RegsOf(items, n) : TRUE].value
         IN  <<Cell64(value, 1), Cell64(value, 3)>>

IsNode(items, n, name) == items[n].kind = "begin" /\ items[n].name = name
SaysMemory(item) == item.value # <<>> /\ item.value[1] = Memory

IsMemory(items, n) ==
    /\ IsNode(items, n, memory)
    /\ \E k \in PropsOf(items, n) : items[k].name = device_type /\ SaysMemory(items[k])

IsBlockDevice(items, n) ==
    /\ IsNode(items, n, virtio_mmio)
    /\ \E k \in RegsOf(items, n) : Cell64(items[k].value, 1) \in BlockDevices

Wanted(items, search, n) ==
    IF search = memory THEN IsMemory(items, n) ELSE IsBlockDevice(items, n)

\* The beginning of the first node of its kind, as a set of at most one.
First(items, search) ==
    {n \in 1 .. Len(items) : /\ Wanted(items, search, n)
                             /\ \A m \in 1 .. n - 1 : ~Wanted(items, search, m)}

\* A scan that is over found what there is to find.
Agrees(scan, items) ==
    /\ scan.ret = "true" =>
         \E n \in First(items, scan.search) :
             <<scan.match.reg_base, scan.match.reg_size>> = RegOf(items, n)
    /\ scan.ret = "false" => First(items, scan.search) = {}

\* The beginnings of nodes whose properties are read, and all other properties.
Searched(items, search) ==
    {n \in 1 .. Len(items) : items[n].kind = "begin" /\ strcont(items[n].name, search)}
Skipped(items, search) ==
    {k \in 1 .. Len(items) : /\ items[k].kind = "prop"
                             /\ \A n \in Searched(items, search) : k \notin PropsOf(items, n)}

\* The items the walk comes to before the end of the node it returns at.
Reached(items, search) ==
    {k \in 1 .. Len(items) : \A n \in 1 .. k - 1 : ~Wanted(items, search, n)}

(***************************************************************************)
(* What the walk relies on, up to the node it returns at: nothing behind   *)
(* that node matters.  A node searched for has no child nodes and one reg, *)
(* and "memory" is the value of nothing in it but a memory node's          *)
(* device_type.  The properties of other nodes are read word by word as if *)
(* the words were tokens: none may be FDT_END, none an FDT_BEGIN_NODE with *)
(* a name searched for behind it or that takes the true one of a child     *)
(* node for its name.                                                      *)
(***************************************************************************)
Readable(items, search) ==
    /\ \A n \in Searched(items, search) \cap Reached(items, search) :
         /\ \A k \in {n} \cup PropsOf(items, n) : items[k + 1].kind # "begin"
         /\ \A k \in RegsOf(items, n), m \in RegsOf(items, n) : k = m
         /\ search = memory =>
              \A k \in PropsOf(items, n) :
                  SaysMemory(items[k]) => items[n].name = memory /\ items[k].name = device_type
    /\ \A k \in Skipped(items, search) \cap Reached(items, search) :
         LET words == Words(items[k]) IN
         \A i \in 1 .. Len(words) :
             /\ words[i] # FDT_END
             /\ words[i] = FDT_BEGIN_NODE =>
                  IF i < Len(words) THEN ~strcont(words[i + 1], search)
                                    ELSE items[k + 1].kind # "begin"
=============================================================================
