---------------------------- MODULE MCAlgorithms ----------------------------
(***************************************************************************)
(* The kernel's routines for TLC: the inputs of those that share a call,   *)
(* and beside them formatting and the scan of the device tree.             *)
(***************************************************************************)
EXTENDS KString, Relocate, PciWalk, Framebuffer, KFormat

DT == INSTANCE DeviceTree WITH HALF <- 1000, BlockDevices <- {60}

------------------------------------------------------------------------------
(* The inputs of the shared routines.                                      *)

MCTexts == UNION {[1 .. n -> {1, 2}] : n \in 0 .. 3}

MCLoads ==
    LET codes == {[n \in 1 .. 5 |-> IF n = at THEN i ELSE Instr("other", 0)] :
                    at \in 1 .. 5, i \in Instructions}
        data == {[src |-> 48, dst |-> 60, size |-> 6], [src |-> 32, dst |-> 80, size |-> 9],
                 [src |-> 50, dst |-> 61, size |-> 8]}
    IN  [code : codes, src : {41}, dst : {20, 52, 70}, data : data]

\* Two devices with an id like the GPU's or half like it.
MCSpaces ==
    LET ids == [vendor : {1, 3}, device : {2, 4}]
        none == [vendor |-> 0, device |-> 0]
    IN  {[a \in Addresses |-> IF a = p THEN i ELSE IF a = q THEN j ELSE none] :
           p \in Addresses, q \in Addresses, i \in ids, j \in ids}

MCBars(n) == [address : {0, 128 + 32 * n}, size : {16, 32}] \cup [address : {0}, size : {0, 1}]
MCDevices ==
    LET caps == [cap_vndr : {5, 9}, cfg_type : 1 .. 5, bar : BarNumbers, offset : {0, 4}]
    IN  [bars : {[n \in BarNumbers |-> IF n = 0 THEN p ELSE q] : p \in MCBars(0), q \in MCBars(1)},
         caps : caps \X caps]

MCRects == [x : -4 .. 6, y : -4 .. 6, w : 0 .. 6, h : 0 .. 6]
MCLines == [x0 : 0 .. 6, y0 : 0 .. 6, x1 : 0 .. 6, y1 : 0 .. 6]
MCCaptions ==
    [s : UNION {[1 .. n -> {<<>>, <<{<<0, 0>>, <<1, 0>>}>>, <<{<<0, 1>>}>>}] : n \in 0 .. 3},
     x : -2 .. 2, y : -2 .. 1, scale : 1 .. 2]

------------------------------------------------------------------------------
(* Formatting.                                                             *)

\* Numbers around every border: digits, the sign of an int, the int's width.
Numbers == {0, 1, 7, 8, 9, 10, 15, 16, 24, 31, 99, 100, 128, 247, 248, 255}
Piece(kind, specifier, arg) == [kind |-> kind, specifier |-> specifier, arg |-> arg]
Pieces ==
    {Piece("plain", plain, 0), Piece("unknown", plain, 0)}
      \cup {Piece("conversion", s, n) : s \in {hex, int}, n \in Numbers}
      \cup {Piece("conversion", char, n) : n \in {0, 3, 67}}
      \cup {Piece("conversion", string, t) : t \in {<<>>, <<plain, percent, int>>}}
Ends == {<<>>, <<Piece("end", percent, 0)>>, <<Piece("conversion", int, 15)>>}

Formats ==
    {[n \in 1 .. lead |-> Piece("plain", plain, 0)] \o <<p, q>> \o end :
       lead \in 0 .. BufferEnd, p \in Pieces, q \in {r \in Pieces : r.kind # "conversion"
                                                      \/ r.specifier # hex}, end \in Ends}

StringFormat ==
    Free /\ \E pieces \in Formats, missing \in 0 .. 1, widens \in BOOLEAN :
        LET args == ArgsOf(pieces)
            given == UpTo(args, Len(args) - missing)
        IN  /\ missing <= Len(args)
            /\ widens \/ \E p \in Range(pieces) : p.specifier = int /\ p.arg = 8
            /\ Compute("format", [pieces |-> pieces, count |-> Len(given), widens |-> widens],
                       string_format_args(FmtOf(pieces), given, widens))

\* A number whose negation overflows, in a build that negates first.
Overflows(pieces, widens) ==
    ~widens /\ \E p \in Range(pieces) : p.specifier = int
                                        /\ p.arg % IntRange = IntRange \div 2

(***************************************************************************)
(* string_format_args gives the text its pieces stand for, cut at the end  *)
(* of the buffer, with three peculiarities: a number is negative when its  *)
(* low half is, its sign is dropped from column 20 on, and the text ends   *)
(* at the first '%' after the last argument, whatever follows.  Nothing is *)
(* written past the place of the final 0; only an unknown specifier,       *)
(* copied as two characters after one check of the length, moves it by one.*)
(***************************************************************************)
FormatText ==
    Returned("format") =>
        /\ ~Overflows(in.pieces, in.widens) =>
             UpTo(out, BufferEnd) = UpTo(FullText(in.pieces, in.count), BufferEnd)
        /\ \/ Len(out) <= BufferEnd
           \/ /\ Len(out) = BufferEnd + 1
              /\ SubSeq(out, BufferEnd, BufferEnd + 1) = <<percent, plain>>

------------------------------------------------------------------------------
(* The device tree.                                                        *)

Node(name, props) == <<DT!Begin(name)>> \o props \o <<DT!End>>
Reg(base, size) == DT!Prop(DT!reg, 16, <<0, base, 0, size>>)
ShortReg == DT!Prop(DT!reg, 8, <<0, 40>>)
Type == DT!Prop(DT!device_type, 7, <<DT!Memory, DT!Filler>>)
Irq == DT!Prop(DT!interrupts, 12, <<0, 16, 1>>)

Nodes ==
    {Node(DT!memory, props) : props \in {<<Reg(40, 30), Type>>, <<Type, Reg(41, 31)>>,
                                         <<ShortReg, Type>>, <<Reg(42, 32)>>}}
      \cup {Node(DT!reserved_memory, <<Reg(43, 33)>>)}
      \cup {Node(DT!virtio_mmio, props) : props \in {<<Irq, Reg(50, 5)>>, <<Irq, Reg(60, 5)>>,
                                                     <<Reg(60, 6), Irq>>, <<Irq>>}}
      \cup {Node(DT!other_node, props) :
              props \in {<<Reg(60, 7), Type>>, <<DT!Prop(DT!other_prop, 12, <<3, 2, 1>>)>>,
                         <<DT!Prop(DT!other_prop, 9, <<99, 99, 99>>)>>}}

\* A root with two nodes, the second with or without a child node.
Trees ==
    {DT!TreeOf(<<DT!Begin(DT!Empty), DT!Prop(DT!other_prop, 4, <<cells>>)>>
                 \o a \o Front(b) \o kids \o <<DT!End, DT!End>>) :
        a \in Nodes, b \in Nodes, cells \in 1 .. 2, kids \in {<<>>} \cup Nodes}

ScanTree ==
    Free /\ \E tree \in Trees :
        Begin("tree", tree.items, [memory |-> DT!get_memory_region(tree.words, TRUE),
                                   disk |-> DT!find_virtio_blk(tree.words, TRUE)])

\* A turn of the loop, in both scans.
ScanTurn ==
    LET Turned(scan) == IF DT!Scanning(scan) THEN DT!Turn(scan) ELSE scan
        scans == [memory |-> Turned(out.memory), disk |-> Turned(out.disk)]
    IN  /\ Running("tree")
        /\ Continue(scans, ~DT!Scanning(scans.memory) /\ ~DT!Scanning(scans.disk))

(***************************************************************************)
(* In a tree that dtb_scan can read, where no value of a skipped property  *)
(* looks like a token that matters, both lookups find the first node of    *)
(* their kind with its own reg, whatever nodes surround it.                *)
(***************************************************************************)
TreeLookup ==
    call.fn = "tree" =>
        /\ DT!Readable(in, DT!memory) => DT!Agrees(out.memory, in)
        /\ DT!Readable(in, DT!virtio_mmio) => DT!Agrees(out.disk, in)

------------------------------------------------------------------------------
Next ==
    \/ Compare \/ Relocation \/ PciNext \/ DrawingNext \/ StringFormat \/ ScanTree \/ ScanTurn
    \/ Return

Spec == CallsInit /\ [][Next]_call
=============================================================================
