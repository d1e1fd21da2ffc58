----------------------------- MODULE DeviceTreeProofs --------------------------
(***************************************************************************)
(* What a walk of dtb_scan does on every tree of any size: turn by turn,   *)
(* where in the tree it is and what it has read of the node it is in.      *)
(***************************************************************************)
EXTENDS DeviceTree, TLAPS

(***************************************************************************)
(* Sequences: their elements, when two are the same, and joined ones.      *)
(***************************************************************************)
LEMMA ElementOf ==
    ASSUME NEW S, NEW s \in Seq(S), NEW n \in 1 .. Len(s)
    PROVE  s[n] \in S
OBVIOUS

(* Two sequences with the same elements in the same places are the same.   *)
LEMMA SameSequence ==
    ASSUME NEW S, NEW s \in Seq(S), NEW t \in Seq(S), Len(s) = Len(t),
           \A i \in 1 .. Len(s) : s[i] = t[i]
    PROVE  s = t
OBVIOUS

(* The elements of a joined sequence are those of its parts.               *)
LEMMA Concatenated ==
    ASSUME NEW S, NEW s \in Seq(S), NEW t \in Seq(S)
    PROVE  /\ s \o t \in Seq(S) /\ Len(s \o t) = Len(s) + Len(t)
           /\ \A i \in 1 .. Len(s) : (s \o t)[i] = s[i]
           /\ \A i \in 1 .. Len(t) : (s \o t)[Len(s) + i] = t[i]
BY SMTT(30)

Searches == {memory, virtio_mmio}

(***************************************************************************)
(* What one turn of the loop of dtb_scan does on each token.               *)
(***************************************************************************)
LEMMA TurnOn ==
    ASSUME NEW s, NEW t, t = s.words[s.p]
    PROVE  /\ t = FDT_END => Turn(s) = [s EXCEPT !.p = s.p + 1, !.ret = "false"]
           /\ t = FDT_BEGIN_NODE =>
                Turn(s) = [s EXCEPT !.p = s.p + 2,
                                    !.active = strcont(s.words[s.p + 1], s.search)]
           /\ t = FDT_PROP /\ s.active =>
                Turn(s) = [s EXCEPT
                  !.p = s.p + 2 + WordsOf(s.words[s.p + 1]) + 1,
                  !.match = Handler(s.search, IF s.named THEN s.words[s.p + 2] ELSE Empty,
                                    SubSeq(s.words, s.p + 3, s.p + 2 + WordsOf(s.words[s.p + 1])),
                                    s.words[s.p + 1], @)]
           /\ t = FDT_END_NODE /\ s.active /\ s.match.found =>
                Turn(s) = [s EXCEPT !.p = s.p + 1, !.ret = "true"]
           /\ t = FDT_END_NODE /\ ~(s.active /\ s.match.found) =>
                Turn(s) = [s EXCEPT !.p = s.p + 1, !.active = FALSE, !.match = NoMatch]
           /\ t \notin {FDT_END, FDT_BEGIN_NODE, FDT_END_NODE} /\ ~(t = FDT_PROP /\ s.active) =>
                Turn(s) = [s EXCEPT !.p = s.p + 1]
BY DEF Turn, FDT_END, FDT_BEGIN_NODE, FDT_PROP, FDT_END_NODE, EndNode

(***************************************************************************)
(* The words of an item that stands at p.                                  *)
(***************************************************************************)
LEMMA ItemWords ==
    ASSUME NEW W \in Seq(Nat), NEW item \in Items, NEW p \in Nat \ {0},
           item.kind = "prop" => Len(item.value) = WordsOf(item.len),
           p + Len(Words(item)) <= Len(W),
           \A i \in 1 .. Len(Words(item)) : W[p + i - 1] = Words(item)[i]
    PROVE  /\ item.kind = "begin" =>
                W[p] = FDT_BEGIN_NODE /\ W[p + 1] = item.name /\ Len(Words(item)) = 2
           /\ item.kind = "prop" =>
                /\ W[p] = FDT_PROP /\ W[p + 1] = item.len /\ W[p + 2] = item.name
                /\ SubSeq(W, p + 3, p + 2 + WordsOf(item.len)) = item.value
                /\ Len(Words(item)) = 3 + WordsOf(item.len)
                /\ WordsOf(item.len) \in Nat
           /\ item.kind = "end" => W[p] = FDT_END_NODE /\ Len(Words(item)) = 1
<1>1. p + 1 - 1 = p /\ p + 2 - 1 = p + 1 /\ p + 3 - 1 = p + 2
  OBVIOUS
<1>2. ASSUME item.kind = "begin"
      PROVE  W[p] = FDT_BEGIN_NODE /\ W[p + 1] = item.name /\ Len(Words(item)) = 2
  <2>1. Words(item) = <<FDT_BEGIN_NODE, item.name>>
    BY <1>2 DEF Words
  <2>2. Len(Words(item)) = 2 /\ Words(item)[1] = FDT_BEGIN_NODE /\ Words(item)[2] = item.name
    BY <2>1
  <2>3. W[p + 1 - 1] = FDT_BEGIN_NODE /\ W[p + 2 - 1] = item.name
    BY <2>2
  <2> QED
    BY <1>1, <2>2, <2>3, Zenon
<1>3. ASSUME item.kind = "prop"
      PROVE  /\ W[p] = FDT_PROP /\ W[p + 1] = item.len /\ W[p + 2] = item.name
             /\ SubSeq(W, p + 3, p + 2 + WordsOf(item.len)) = item.value
             /\ Len(Words(item)) = 3 + WordsOf(item.len)
             /\ WordsOf(item.len) \in Nat
  <2> DEFINE v == item.value
             w == WordsOf(item.len)
             first == <<FDT_PROP, item.len, item.name>>
  <2>1. Words(item) = first \o v
    BY <1>3, Zenon DEF Words
  <2>2. v \in Seq(Nat) /\ item.len \in Nat /\ item.name \in Nat /\ Len(v) = w
    BY <1>3 DEF Items
  <2>3. first \in Seq(Nat) /\ Len(first) = 3
    BY <2>2 DEF FDT_PROP
  <2>4. /\ Len(first \o v) = 3 + w
        /\ \A i \in 1 .. 3 + w : (first \o v)[i] = IF i <= 3 THEN first[i] ELSE v[i - 3]
    BY <2>2, <2>3, SMTT(30)
  <2>5. first[1] = FDT_PROP /\ first[2] = item.len /\ first[3] = item.name
    OBVIOUS
  <2>6. w \in Nat
    BY <2>2
  <2> HIDE DEF first, v, w
  <2>7. \A i \in 1 .. 3 + w : W[p + i - 1] = IF i <= 3 THEN first[i] ELSE v[i - 3]
    <3> TAKE i \in 1 .. 3 + w
    <3>1. i \in 1 .. Len(Words(item)) /\ Words(item)[i] = (first \o v)[i]
      BY <2>1, <2>4, Zenon
    <3>2. W[p + i - 1] = Words(item)[i]
      BY <3>1, Zenon
    <3>3. (first \o v)[i] = IF i <= 3 THEN first[i] ELSE v[i - 3]
      BY <2>4, Zenon
    <3> QED
      BY <3>1, <3>2, <3>3, Zenon
  <2>8. W[p + 1 - 1] = first[1] /\ W[p + 2 - 1] = first[2] /\ W[p + 3 - 1] = first[3]
    BY <2>6, <2>7
  <2>9. SubSeq(W, p + 3, p + 2 + w) = v
    <3>1. \A i \in 1 .. w : W[p + 3 + i - 1] = v[i]
      <4> TAKE i \in 1 .. w
      <4>1. i + 3 \in 1 .. 3 + w /\ ~(i + 3 <= 3) /\ (i + 3) - 3 = i
            /\ p + (i + 3) - 1 = p + 3 + i - 1
        BY <2>6
      <4> QED
        BY <2>7, <4>1
    <3>2. p + 2 + w <= Len(W)
      BY <2>1, <2>4, <2>6
    <3>3. SubSeq(W, p + 3, p + 2 + w) = [i \in 1 .. w |-> W[p + 3 + i - 1]]
      BY <2>6, <3>2
    <3>4. v = [i \in 1 .. w |-> v[i]]
      BY <2>2
    <3> QED
      BY <3>1, <3>3, <3>4, Zenon
  <2> QED
    BY <1>1, <2>1, <2>4, <2>5, <2>6, <2>8, <2>9 DEF v, w
<1>4. ASSUME item.kind = "end"
      PROVE  W[p] = FDT_END_NODE /\ Len(Words(item)) = 1
  <2>1. Words(item) = <<FDT_END_NODE>>
    BY <1>4 DEF Words
  <2>2. Len(Words(item)) = 1 /\ Words(item)[1] = FDT_END_NODE
    BY <2>1
  <2> QED
    BY <1>1, <2>2
<1> QED
  BY <1>2, <1>3, <1>4
(***************************************************************************)
(* Where the items of a tree stand.                                        *)
(***************************************************************************)
ItemAt(tree, n) ==
    /\ tree.items[n] \in Items
    /\ tree.place[n] \in Nat \ {0}
    /\ tree.items[n].kind = "begin" =>
         /\ tree.words[tree.place[n]] = FDT_BEGIN_NODE
         /\ tree.words[tree.place[n] + 1] = tree.items[n].name
         /\ tree.place[n + 1] = tree.place[n] + 2
    /\ tree.items[n].kind = "prop" =>
         /\ tree.words[tree.place[n]] = FDT_PROP
         /\ tree.words[tree.place[n] + 1] = tree.items[n].len
         /\ tree.words[tree.place[n] + 2] = tree.items[n].name
         /\ SubSeq(tree.words, tree.place[n] + 3, tree.place[n] + 2 + WordsOf(tree.items[n].len))
              = tree.items[n].value
         /\ tree.place[n + 1] = tree.place[n] + 3 + WordsOf(tree.items[n].len)
         /\ WordsOf(tree.items[n].len) \in Nat
    /\ tree.items[n].kind = "end" =>
         /\ tree.words[tree.place[n]] = FDT_END_NODE
         /\ tree.place[n + 1] = tree.place[n] + 1

(* The parts of IsTree, named: a tree ends in an end node, FDT_END follows *)
(* its last item, and every item lies at its place in the words.           *)
LEMMA TreeShape ==
    ASSUME NEW tree, IsTree(tree)
    PROVE  /\ tree.items \in Seq(Items) /\ tree.words \in Seq(Nat) /\ Len(tree.items) \in Nat \ {0}
           /\ tree.items[Len(tree.items)].kind = "end"
           /\ tree.place[1] = 1 /\ tree.words[tree.place[Len(tree.items) + 1]] = FDT_END
           /\ \A n \in 1 .. Len(tree.items) : ItemAt(tree, n)
<1>1. PICK items, words, place : items = tree.items /\ words = tree.words /\ place = tree.place
  OBVIOUS
<1>2. /\ items \in Seq(Items) /\ words \in Seq(Nat) /\ Len(items) > 0
      /\ items[Len(items)].kind = "end"
      /\ place \in [1 .. Len(items) + 1 -> 1 .. Len(words)]
      /\ place[1] = 1 /\ words[place[Len(items) + 1]] = FDT_END
      /\ \A n \in 1 .. Len(items) :
           /\ items[n].kind = "prop" => Len(items[n].value) = WordsOf(items[n].len)
           /\ place[n + 1] = place[n] + Len(Words(items[n]))
           /\ \A i \in 1 .. Len(Words(items[n])) : words[place[n] + i - 1] = Words(items[n])[i]
  BY <1>1, Zenon DEF IsTree
<1>3. Len(items) \in Nat \ {0} /\ Len(words) \in Nat
  BY <1>2
<1>4. ASSUME NEW n \in 1 .. Len(items)
      PROVE  /\ items[n] \in Items /\ place[n] \in Nat \ {0}
             /\ items[n].kind = "begin" =>
                  /\ words[place[n]] = FDT_BEGIN_NODE /\ words[place[n] + 1] = items[n].name
                  /\ place[n + 1] = place[n] + 2
             /\ items[n].kind = "prop" =>
                  /\ words[place[n]] = FDT_PROP /\ words[place[n] + 1] = items[n].len
                  /\ words[place[n] + 2] = items[n].name
                  /\ SubSeq(words, place[n] + 3, place[n] + 2 + WordsOf(items[n].len))
                       = items[n].value
                  /\ place[n + 1] = place[n] + 3 + WordsOf(items[n].len)
                  /\ WordsOf(items[n].len) \in Nat
             /\ items[n].kind = "end" =>
                  words[place[n]] = FDT_END_NODE /\ place[n + 1] = place[n] + 1
  <2>1. items[n] \in Items
    BY <1>2, ElementOf
  <2>2. place[n] \in Nat \ {0} /\ place[n + 1] \in Nat /\ place[n + 1] <= Len(words)
    <3>1. n \in 1 .. Len(items) + 1 /\ n + 1 \in 1 .. Len(items) + 1
      BY <1>3
    <3>2. place[n] \in 1 .. Len(words) /\ place[n + 1] \in 1 .. Len(words)
      BY <1>2, <3>1, Zenon
    <3> QED
      BY <1>3, <3>2
  <2>3. /\ items[n].kind = "prop" => Len(items[n].value) = WordsOf(items[n].len)
        /\ place[n + 1] = place[n] + Len(Words(items[n]))
        /\ \A i \in 1 .. Len(Words(items[n])) : words[place[n] + i - 1] = Words(items[n])[i]
    BY <1>2, Zenon
  <2>4. place[n] + Len(Words(items[n])) <= Len(words)
    BY <2>2, <2>3, Zenon
  <2>5. PICK item, p : item = items[n] /\ p = place[n]
    OBVIOUS
  <2>6. /\ item \in Items /\ p \in Nat \ {0} /\ words \in Seq(Nat)
        /\ item.kind = "prop" => Len(item.value) = WordsOf(item.len)
        /\ p + Len(Words(item)) <= Len(words)
        /\ \A i \in 1 .. Len(Words(item)) : words[p + i - 1] = Words(item)[i]
    BY <1>2, <2>1, <2>2, <2>3, <2>4, <2>5, Zenon
  <2>7. /\ item.kind = "begin" =>
             words[p] = FDT_BEGIN_NODE /\ words[p + 1] = item.name /\ Len(Words(item)) = 2
        /\ item.kind = "prop" =>
             /\ words[p] = FDT_PROP /\ words[p + 1] = item.len /\ words[p + 2] = item.name
             /\ SubSeq(words, p + 3, p + 2 + WordsOf(item.len)) = item.value
             /\ Len(Words(item)) = 3 + WordsOf(item.len)
             /\ WordsOf(item.len) \in Nat
        /\ item.kind = "end" => words[p] = FDT_END_NODE /\ Len(Words(item)) = 1
    BY <2>6, ItemWords, Zenon
  <2>8. \A w \in Nat : place[n] + (3 + w) = place[n] + 3 + w
    BY <2>2, SMTT(30)
  <2> QED
    BY <2>1, <2>2, <2>3, <2>5, <2>7, <2>8, Zenon
<1>5. \A n \in 1 .. Len(items) : ItemAt(tree, n)
  BY <1>1, <1>4, ZenonT(40) DEF ItemAt
<1> QED
  BY <1>1, <1>2, <1>3, <1>5, Zenon
(***************************************************************************)
(* The loop invariant of the walk.  Item j comes next: either no node      *)
(* wanted begins before it and it stands in no node whose properties are   *)
(* read, or it follows the properties b + 1 .. j - 1 of such a node b, and *)
(* match has what they say.                                                *)
(***************************************************************************)
Within(items, search, b, j) ==
    b \in Searched(items, search) /\ b < j /\ \A k \in b + 1 .. j - 1 : items[k].kind = "prop"

Passed(items, search, j) ==
    /\ \A m \in 1 .. j - 1 : ~Wanted(items, search, m)
    /\ \A b \in Searched(items, search) : ~Within(items, search, b, j)

RegsTo(items, b, j) == {k \in b + 1 .. j - 1 : IsReg(items[k].name, items[k].len)}

Says(items, search, b, j) ==
    IF search = memory
    THEN \E k \in b + 1 .. j - 1 : k \notin RegsTo(items, b, j) /\ SaysMemory(items[k])
    ELSE \E k \in RegsTo(items, b, j) : Cell64(items[k].value, 1) \in BlockDevices

Matches == [reg_base : Nat, reg_size : Nat, irq : Nat, found : BOOLEAN]

Reading(items, search, b, j, match) ==
    /\ Within(items, search, b, j)
    /\ \A m \in 1 .. b - 1 : ~Wanted(items, search, m)
    /\ match \in Matches
    /\ RegsTo(items, b, j) = {} => match.reg_base = 0 /\ match.reg_size = 0
    /\ \A k \in RegsTo(items, b, j) :
         /\ match.reg_base = Cell64(items[k].value, 1)
         /\ match.reg_size = Cell64(items[k].value, 3)
    /\ (match.found <=> Says(items, search, b, j))

(* The names and values dtb_scan compares are told apart, and its zeroed   *)
(* match is a match.                                                       *)
LEMMA Constants == /\ memory # virtio_mmio /\ reg # device_type /\ reg # Empty
                   /\ reg # interrupts
                   /\ NoMatch \in Matches
BY DEF memory, virtio_mmio, reg, device_type, Empty, interrupts, NoMatch, Matches

(***************************************************************************)
(* A node that is wanted is one whose properties are read.                 *)
(***************************************************************************)
LEMMA WantedSearched ==
    ASSUME NEW items, NEW search \in Searches, NEW n \in 1 .. Len(items),
           Wanted(items, search, n)
    PROVE  n \in Searched(items, search) /\ items[n].kind = "begin"
<1>1. CASE search = memory
  BY <1>1 DEF Wanted, IsMemory, IsNode, Searched, strcont
<1>2. CASE search = virtio_mmio
  BY <1>2, Constants DEF Wanted, IsBlockDevice, IsNode, Searched, strcont
<1> QED
  BY <1>1, <1>2 DEF Searches

(***************************************************************************)
(* Past an item outside of the nodes whose properties are read.            *)
(***************************************************************************)
LEMMA PassItem ==
    ASSUME NEW items \in Seq(Items), NEW search \in Searches, NEW j \in 1 .. Len(items),
           Passed(items, search, j)
    PROVE  /\ j \notin Searched(items, search) => Passed(items, search, j + 1)
           /\ items[j].kind = "prop" => j \in Skipped(items, search)
<1>1. Len(items) \in Nat /\ j \in Nat \ {0} /\ j + 1 - 1 = j
  OBVIOUS
<1>2. ASSUME j \notin Searched(items, search)
      PROVE  Passed(items, search, j + 1)
  <2>1. ASSUME NEW m \in 1 .. j
        PROVE  ~Wanted(items, search, m)
    <3>1. CASE m = j
      BY <1>2, <3>1, WantedSearched
    <3>2. CASE m \in 1 .. j - 1
      BY <3>2 DEF Passed
    <3> QED
      BY <3>1, <3>2, <1>1
  <2>2. ASSUME NEW b \in Searched(items, search), Within(items, search, b, j + 1)
        PROVE  FALSE
    <3>1. b \in Nat /\ b < j + 1 /\ b # j
      BY <1>2, <2>2 DEF Within, Searched
    <3>2. b < j /\ j \in b + 1 .. j
      BY <1>1, <3>1
    <3>3. \A k \in b + 1 .. j - 1 : k \in b + 1 .. j
      BY <1>1, <3>1
    <3> QED
      BY <1>1, <2>2, <3>2, <3>3 DEF Within, Passed
  <2> QED
    BY <1>1, <2>1, <2>2 DEF Passed
<1>3. ASSUME items[j].kind = "prop"
      PROVE  j \in Skipped(items, search)
  <2>1. SUFFICES ASSUME NEW n \in Searched(items, search), j \in PropsOf(items, n)
                 PROVE  FALSE
    BY <1>3 DEF Skipped
  <2>2. n \in Nat /\ n < j
    BY <1>1, <2>1 DEF Searched, PropsOf
  <2>3. \A k \in n + 1 .. j - 1 : items[k].kind = "prop"
    BY <1>1, <2>1, <2>2 DEF PropsOf
  <2> QED
    BY <2>1, <2>2, <2>3 DEF Within, Passed
<1> QED
  BY <1>2, <1>3

(***************************************************************************)
(* Into a node whose properties are read.                                  *)
(***************************************************************************)
LEMMA EnterNode ==
    ASSUME NEW items \in Seq(Items), NEW search \in Searches, NEW j \in 1 .. Len(items),
           Passed(items, search, j), j \in Searched(items, search)
    PROVE  Reading(items, search, j, j + 1, NoMatch)
<1>1. j \in Nat /\ j + 1 .. j + 1 - 1 = {} /\ j < j + 1
  OBVIOUS
<1>2. RegsTo(items, j, j + 1) = {}
  BY <1>1 DEF RegsTo
<1>3. ~Says(items, search, j, j + 1)
  BY <1>1, <1>2 DEF Says
<1>4. NoMatch.reg_base = 0 /\ NoMatch.reg_size = 0 /\ ~NoMatch.found
  BY DEF NoMatch
<1>5. Within(items, search, j, j + 1)
  BY <1>1 DEF Within
<1> QED
  BY <1>2, <1>3, <1>4, <1>5, Constants, Zenon DEF Reading, Passed
(***************************************************************************)
(* The registers of an item have the cells the handlers read.              *)
(***************************************************************************)
LEMMA CellsRead ==
    ASSUME NEW items \in Seq(Items), NEW k \in 1 .. Len(items),
           Len(items[k].value) = WordsOf(items[k].len)
    PROVE  /\ items[k].len >= 16 => Cell64(items[k].value, 1) \in Nat
                                     /\ Cell64(items[k].value, 3) \in Nat
           /\ items[k].len >= 4 => items[k].value[1] \in Nat
<1>1. PICK len, value : len = items[k].len /\ value = items[k].value
  BY Zenon
<1>2. items[k] \in Items
  BY ElementOf
<1>3. len \in Nat /\ value \in Seq(Nat) /\ Len(value) = (len + 3) \div 4
  BY <1>1, <1>2 DEF Items, WordsOf
<1>4. len >= 4 => Len(value) >= 1
  BY <1>3
<1>5. len >= 16 => Len(value) >= 4
  BY <1>3
<1>6. \A n \in 1 .. Len(value) : value[n] \in Nat
  BY <1>3, ElementOf
<1>7. Len(value) \in Nat
  BY <1>3
<1>8. len >= 4 => value[1] \in Nat
  BY <1>4, <1>6, <1>7
<1>9. len >= 16 => value[1] \in Nat /\ value[2] \in Nat /\ value[3] \in Nat /\ value[4] \in Nat
  BY <1>5, <1>6, <1>7
<1>10. len >= 16 => Cell64(value, 1) \in Nat /\ Cell64(value, 3) \in Nat
  <2>1. \A a, c \in Nat : a * HALF + c \in Nat
    BY CellAssumption
  <2>2. 1 + 1 = 2 /\ 3 + 1 = 4
    OBVIOUS
  <2> QED
    BY <1>9, <2>1, <2>2, Zenon DEF Cell64
<1> QED
  BY <1>1, <1>8, <1>10, Zenon

(***************************************************************************)
(* What the handlers make of a match.                                      *)
(***************************************************************************)
LEMMA Handled ==
    ASSUME NEW search \in Searches, NEW name, NEW value, NEW len, NEW match \in Matches,
           len >= 16 => Cell64(value, 1) \in Nat /\ Cell64(value, 3) \in Nat,
           len >= 4 => value[1] \in Nat
    PROVE  LET after == Handler(search, name, value, len, match) IN
           /\ after \in Matches
           /\ IF IsReg(name, len)
              THEN after.reg_base = Cell64(value, 1) /\ after.reg_size = Cell64(value, 3)
              ELSE after.reg_base = match.reg_base /\ after.reg_size = match.reg_size
           /\ search = memory =>
                (after.found <=> match.found \/ (~IsReg(name, len) /\ value # <<>> /\ value[1] = Memory))
           /\ search # memory =>
                (after.found <=> IF IsReg(name, len) THEN Cell64(value, 1) \in BlockDevices
                                                     ELSE match.found)
<1> DEFINE after == Handler(search, name, value, len, match)
           says == value # <<>> /\ value[1] = Memory
           there == Cell64(value, 1) \in BlockDevices
<1>1. CASE IsReg(name, len)
  <2>1. Cell64(value, 1) \in Nat /\ Cell64(value, 3) \in Nat
    BY <1>1 DEF IsReg
  <2>2. CASE search = memory
    <3>1. after = WithReg(match, value)
      BY <1>1, <2>2 DEF Handler, handle_mem_node
    <3> HIDE DEF after
    <3> QED
      BY <1>1, <2>1, <2>2, <3>1, Zenon DEF WithReg, Matches, after
  <2>3. CASE search # memory
    <3>1. after = [WithReg(match, value) EXCEPT !.found = there]
      BY <1>1, <2>3 DEF Handler, handle_virito_node
    <3> HIDE DEF after
    <3>2. there \in BOOLEAN
      OBVIOUS
    <3>3. PICK f \in BOOLEAN : f = there
      BY <3>2, Zenon
    <3>4. after = [WithReg(match, value) EXCEPT !.found = f]
      BY <3>1, <3>3, Zenon
    <3> HIDE DEF there
    <3>5. /\ after \in Matches /\ after.reg_base = Cell64(value, 1)
          /\ after.reg_size = Cell64(value, 3) /\ after.found = f
      BY <2>1, <3>4, Zenon DEF WithReg, Matches
    <3> QED
      BY <1>1, <2>3, <3>3, <3>5, Zenon DEF after, there
  <2> QED
    BY <2>2, <2>3
<1>2. CASE ~IsReg(name, len)
  <2>1. CASE search = memory
    <3>1. after = [match EXCEPT !.found = match.found \/ says]
      BY <1>2, <2>1 DEF Handler, handle_mem_node
    <3> HIDE DEF after
    <3>2. (match.found \/ says) \in BOOLEAN
      OBVIOUS
    <3>3. PICK f \in BOOLEAN : f = (match.found \/ says)
      BY <3>2, Zenon
    <3>4. after = [match EXCEPT !.found = f]
      BY <3>1, <3>3, Zenon
    <3> HIDE DEF says
    <3>5. /\ after \in Matches /\ after.reg_base = match.reg_base
          /\ after.reg_size = match.reg_size /\ after.found = f
      BY <3>4 DEF Matches
    <3> QED
      BY <1>2, <2>1, <3>3, <3>5, Zenon DEF after, says
  <2>2. CASE search # memory
    <3>1. after = match \/ (after = [match EXCEPT !.irq = value[1]] /\ value[1] \in Nat)
      <4>1. after = IF match.found /\ name = interrupts /\ len >= 4
                    THEN [match EXCEPT !.irq = value[1]] ELSE match
        BY <1>2, <2>2 DEF Handler, handle_virito_node
      <4> DEFINE listed == match.found /\ name = interrupts /\ len >= 4
      <4>2. after = IF listed THEN [match EXCEPT !.irq = value[1]] ELSE match
        BY <4>1, Zenon
      <4>3. listed => value[1] \in Nat
        OBVIOUS
      <4> HIDE DEF after, listed
      <4>4. listed => after = [match EXCEPT !.irq = value[1]]
        BY <4>2
      <4>5. ~listed => after = match
        BY <4>2
      <4> QED
        BY <4>3, <4>4, <4>5
    <3> HIDE DEF after
    <3>2. /\ after \in Matches /\ after.reg_base = match.reg_base
          /\ after.reg_size = match.reg_size /\ after.found = match.found
      BY <3>1 DEF Matches
    <3> QED
      BY <1>2, <2>2, <3>2, Zenon DEF after
  <2> QED
    BY <2>1, <2>2
<1> QED
  BY <1>1, <1>2
Sized(items) ==
    \A k \in 1 .. Len(items) :
        items[k].kind = "prop" => Len(items[k].value) = WordsOf(items[k].len)

(***************************************************************************)
(* The properties passed in a node are all its properties when something   *)
(* else comes next.                                                        *)
(***************************************************************************)
LEMMA PropsPassed ==
    ASSUME NEW items \in Seq(Items), NEW search \in Searches, NEW b, NEW j \in 1 .. Len(items) + 1,
           Within(items, search, b, j)
    PROVE  /\ b \in 1 .. Len(items) /\ b < j /\ items[b].kind = "begin"
           /\ b + 1 .. j - 1 \subseteq PropsOf(items, b)
           /\ j <= Len(items) /\ items[j].kind # "prop" => PropsOf(items, b) = b + 1 .. j - 1
           /\ j <= Len(items) /\ items[j].kind = "prop" => j \in PropsOf(items, b)
<1>1. Len(items) \in Nat /\ b \in 1 .. Len(items) /\ b < j /\ items[b].kind = "begin"
  BY DEF Within, Searched
<1>2. \A k \in b + 1 .. j - 1 : items[k].kind = "prop"
  BY DEF Within
<1>3. ASSUME NEW k \in b + 1 .. j - 1
      PROVE  k \in PropsOf(items, b)
  <2>1. k \in b + 1 .. Len(items) /\ b + 1 .. k \subseteq b + 1 .. j - 1
    BY <1>1
  <2> QED
    BY <1>2, <2>1, Zenon DEF PropsOf
<1>4. ASSUME j <= Len(items), items[j].kind # "prop", NEW k \in PropsOf(items, b)
      PROVE  k \in b + 1 .. j - 1
  <2>1. k \in b + 1 .. Len(items) /\ \A m \in b + 1 .. k : items[m].kind = "prop"
    BY DEF PropsOf
  <2>2. j \notin b + 1 .. k
    BY <1>4, <2>1
  <2> QED
    BY <1>1, <2>1, <2>2
<1>5. ASSUME j <= Len(items), items[j].kind = "prop"
      PROVE  j \in PropsOf(items, b)
  <2>1. j \in b + 1 .. Len(items) /\ \A m \in b + 1 .. j : m = j \/ m \in b + 1 .. j - 1
    BY <1>1, <1>5
  <2> QED
    BY <1>2, <1>5, <2>1, Zenon DEF PropsOf
<1> QED
  BY <1>1, <1>3, <1>4, <1>5, Zenon

(* The walk comes to the items no wanted node begins before.               *)
LEMMA ReachedBefore ==
    ASSUME NEW items, NEW search, NEW k \in 1 .. Len(items),
           \A m \in 1 .. k - 1 : ~Wanted(items, search, m)
    PROVE  k \in Reached(items, search)
BY Zenon DEF Reached

(***************************************************************************)
(* A node whose properties are read ends after them.                       *)
(***************************************************************************)
LEMMA NoChild ==
    ASSUME NEW items \in Seq(Items), NEW search \in Searches, NEW b, NEW j \in 1 .. Len(items),
           Within(items, search, b, j), b \in Reached(items, search), Readable(items, search)
    PROVE  items[j].kind # "begin"
<1>1. j \in 1 .. Len(items) + 1 /\ Len(items) \in Nat
  OBVIOUS
<1>2. b \in 1 .. Len(items) /\ b < j /\ b + 1 .. j - 1 \subseteq PropsOf(items, b)
  BY <1>1, PropsPassed
<1>3. j - 1 = b \/ j - 1 \in b + 1 .. j - 1
  BY <1>1, <1>2
<1>4. j - 1 \in {b} \cup PropsOf(items, b) /\ (j - 1) + 1 = j
  BY <1>2, <1>3
<1>5. \A k \in {b} \cup PropsOf(items, b) : items[k + 1].kind # "begin"
  BY Zenon DEF Within, Readable
<1> QED
  BY <1>4, <1>5, Zenon

(***************************************************************************)
(* A property of a node whose properties are read goes to the handler.     *)
(***************************************************************************)
LEMMA ReadProperty ==
    ASSUME NEW items \in Seq(Items), NEW search \in Searches, NEW b, NEW j \in 1 .. Len(items),
           NEW match, Reading(items, search, b, j, match), items[j].kind = "prop",
           Sized(items), Readable(items, search)
    PROVE  Reading(items, search, b, j + 1,
                   Handler(search, items[j].name, items[j].value, items[j].len, match))
<1>1. /\ Within(items, search, b, j) /\ match \in Matches
      /\ \A m \in 1 .. b - 1 : ~Wanted(items, search, m)
      /\ RegsTo(items, b, j) = {} => match.reg_base = 0 /\ match.reg_size = 0
      /\ \A k \in RegsTo(items, b, j) :
           /\ match.reg_base = Cell64(items[k].value, 1)
           /\ match.reg_size = Cell64(items[k].value, 3)
      /\ match.found <=> Says(items, search, b, j)
  BY Zenon DEF Reading
<1>2. /\ Len(items) \in Nat /\ j \in Nat /\ j \in 1 .. Len(items) + 1 /\ j + 1 - 1 = j
  OBVIOUS
<1>3. /\ b \in 1 .. Len(items) /\ b < j /\ b + 1 .. j - 1 \subseteq PropsOf(items, b)
      /\ j \in PropsOf(items, b)
  BY <1>1, <1>2, PropsPassed
<1>4. b + 1 .. j = (b + 1 .. j - 1) \cup {j} /\ j \notin b + 1 .. j - 1 /\ b < j + 1
  BY <1>2, <1>3
<1>5. Within(items, search, b, j + 1)
  BY <1>1, <1>2, <1>4 DEF Within
<1> DEFINE isReg == IsReg(items[j].name, items[j].len)
           after == Handler(search, items[j].name, items[j].value, items[j].len, match)
<1>6. /\ items[j].len >= 16 =>
           Cell64(items[j].value, 1) \in Nat /\ Cell64(items[j].value, 3) \in Nat
      /\ items[j].len >= 4 => items[j].value[1] \in Nat
  BY CellsRead, Zenon DEF Sized
<1>7. /\ after \in Matches
      /\ IF isReg
         THEN after.reg_base = Cell64(items[j].value, 1) /\ after.reg_size = Cell64(items[j].value, 3)
         ELSE after.reg_base = match.reg_base /\ after.reg_size = match.reg_size
      /\ search = memory =>
           (after.found <=> match.found \/ (~isReg /\ SaysMemory(items[j])))
      /\ search # memory =>
           (after.found <=> IF isReg THEN Cell64(items[j].value, 1) \in BlockDevices
                                     ELSE match.found)
  BY <1>1, <1>6, Handled, ZenonT(40) DEF SaysMemory
<1>8. RegsTo(items, b, j + 1) = IF isReg THEN RegsTo(items, b, j) \cup {j} ELSE RegsTo(items, b, j)
  BY <1>2, <1>4 DEF RegsTo
<1>9. isReg => RegsTo(items, b, j) = {}
  <2>1. ASSUME isReg, NEW k \in RegsTo(items, b, j)
        PROVE  FALSE
    <3>1. k \in RegsOf(items, b) /\ j \in RegsOf(items, b) /\ k # j
      BY <1>3, <1>4, <2>1 DEF RegsTo, RegsOf
    <3>2. b \in Searched(items, search) \cap Reached(items, search)
      BY <1>1, <1>3, ReachedBefore, Zenon DEF Within
    <3> QED
      BY <3>1, <3>2, Zenon DEF Readable
  <2> QED
    BY <2>1
<1> HIDE DEF after, isReg
<1>10. /\ RegsTo(items, b, j + 1) = {} => after.reg_base = 0 /\ after.reg_size = 0
       /\ \A k \in RegsTo(items, b, j + 1) :
            /\ after.reg_base = Cell64(items[k].value, 1)
            /\ after.reg_size = Cell64(items[k].value, 3)
  <2>1. CASE isReg
    <3>1. RegsTo(items, b, j + 1) = {j}
      BY <1>8, <1>9, <2>1
    <3> QED
      BY <1>7, <2>1, <3>1, Zenon
  <2>2. CASE ~isReg
    BY <1>1, <1>7, <1>8, <2>2, Zenon
  <2> QED
    BY <2>1, <2>2
<1>11. after.found <=> Says(items, search, b, j + 1)
  <2>1. CASE search = memory
    <3>1. Says(items, search, b, j + 1) <=>
            \E k \in b + 1 .. j : k \notin RegsTo(items, b, j + 1) /\ SaysMemory(items[k])
      BY <1>2, <2>1 DEF Says
    <3>2. Says(items, search, b, j) <=>
            \E k \in b + 1 .. j - 1 : k \notin RegsTo(items, b, j) /\ SaysMemory(items[k])
      BY <2>1, Zenon DEF Says
    <3>3. \A k \in b + 1 .. j - 1 : k \in RegsTo(items, b, j + 1) <=> k \in RegsTo(items, b, j)
      BY <1>4, <1>8
    <3>4. j \in RegsTo(items, b, j + 1) <=> isReg
      BY <1>4, <1>8 DEF RegsTo
    <3> QED
      BY <1>1, <1>4, <1>7, <2>1, <3>1, <3>2, <3>3, <3>4, Zenon
  <2>2. CASE search # memory
    BY <1>1, <1>7, <1>8, <1>9, <2>2, Zenon DEF Says
  <2> QED
    BY <2>1, <2>2
<1> QED
  BY <1>1, <1>5, <1>7, <1>10, <1>11, Zenon DEF Reading, after
(***************************************************************************)
(* At the end of a node whose properties are read, match has found it if   *)
(* and only if it is wanted.                                               *)
(***************************************************************************)
LEMMA SaysWanted ==
    ASSUME NEW items \in Seq(Items), NEW search \in Searches, NEW b, NEW j \in 1 .. Len(items),
           Within(items, search, b, j), items[j].kind = "end",
           b \in Reached(items, search), Readable(items, search)
    PROVE  Says(items, search, b, j) <=> Wanted(items, search, b)
<1>1. Len(items) \in Nat /\ j \in 1 .. Len(items) + 1 /\ j <= Len(items)
  OBVIOUS
<1>2. /\ b \in 1 .. Len(items) /\ items[b].kind = "begin" /\ PropsOf(items, b) = b + 1 .. j - 1
  BY <1>1, PropsPassed
<1>3. RegsOf(items, b) = RegsTo(items, b, j)
  BY <1>2 DEF RegsOf, RegsTo
<1>4. b \in Searched(items, search)
  BY DEF Within
<1>5. CASE search = memory
  <2>1. Says(items, search, b, j) <=>
          \E k \in PropsOf(items, b) : k \notin RegsOf(items, b) /\ SaysMemory(items[k])
    BY <1>2, <1>3, <1>5, Zenon DEF Says
  <2>2. \A k \in PropsOf(items, b) :
            SaysMemory(items[k]) => items[b].name = memory /\ items[k].name = device_type
    BY <1>4, <1>5, Zenon DEF Readable
  <2>3. \A k \in RegsOf(items, b) : items[k].name # device_type
    BY Constants DEF RegsOf, IsReg
  <2>4. Wanted(items, search, b) <=>
          /\ items[b].name = memory
          /\ \E k \in PropsOf(items, b) : items[k].name = device_type /\ SaysMemory(items[k])
    BY <1>2, <1>5, Zenon DEF Wanted, IsMemory, IsNode
  <2> QED
    BY <2>1, <2>2, <2>3, <2>4, Zenon
<1>6. CASE search = virtio_mmio
  <2>1. search # memory
    BY <1>6, Constants
  <2>2. items[b].name = virtio_mmio
    BY <1>4, <2>1 DEF Searched, strcont
  <2> QED
    BY <1>2, <1>3, <2>1, <2>2, Zenon DEF Says, Wanted, IsBlockDevice, IsNode
<1> QED
  BY <1>5, <1>6 DEF Searches

(* At an end node the handler returns what was read of the node: found     *)
(* only for the first node it looks for, with the two words of its reg     *)
(* property.                                                               *)
LEMMA ReadEnd ==
    ASSUME NEW items \in Seq(Items), NEW search \in Searches, NEW b, NEW j \in 1 .. Len(items),
           NEW match, Reading(items, search, b, j, match), items[j].kind = "end",
           Readable(items, search)
    PROVE  /\ match.found => /\ b \in First(items, search)
                             /\ <<match.reg_base, match.reg_size>> = RegOf(items, b)
           /\ ~match.found => Passed(items, search, j + 1)
<1>1. /\ Within(items, search, b, j)
      /\ \A m \in 1 .. b - 1 : ~Wanted(items, search, m)
      /\ RegsTo(items, b, j) = {} => match.reg_base = 0 /\ match.reg_size = 0
      /\ \A k \in RegsTo(items, b, j) :
           /\ match.reg_base = Cell64(items[k].value, 1)
           /\ match.reg_size = Cell64(items[k].value, 3)
      /\ match.found <=> Says(items, search, b, j)
  BY Zenon DEF Reading
<1>2. Len(items) \in Nat /\ j \in 1 .. Len(items) + 1 /\ j <= Len(items) /\ j + 1 - 1 = j
  OBVIOUS
<1>3. /\ b \in 1 .. Len(items) /\ b < j /\ items[b].kind = "begin"
      /\ PropsOf(items, b) = b + 1 .. j - 1
  BY <1>1, <1>2, PropsPassed, SMTT(30)
<1>4. match.found <=> Wanted(items, search, b)
  <2>1. b \in Reached(items, search)
    BY <1>1, <1>3, ReachedBefore, Zenon
  <2> QED
    BY <1>1, <2>1, SaysWanted, Zenon
<1>5. ASSUME match.found
      PROVE  /\ b \in First(items, search)
             /\ <<match.reg_base, match.reg_size>> = RegOf(items, b)
  <2>1. b \in First(items, search)
    BY <1>1, <1>3, <1>4, <1>5, Zenon DEF First
  <2>2. RegsOf(items, b) = RegsTo(items, b, j)
    BY <1>3 DEF RegsOf, RegsTo
  <2>3. CASE RegsOf(items, b) = {}
    <3>1. RegOf(items, b) = <<0, 0>>
      BY <2>3, Zenon DEF RegOf
    <3>2. match.reg_base = 0 /\ match.reg_size = 0
      BY <1>1, <2>2, <2>3, Zenon
    <3> QED
      BY <2>1, <3>1, <3>2, Zenon
  <2>4. CASE RegsOf(items, b) # {}
    <3>1. PICK k \in RegsOf(items, b) : k = CHOOSE r \in RegsOf(items, b) : TRUE
      BY <2>4
    <3>2. RegOf(items, b) = <<Cell64(items[k].value, 1), Cell64(items[k].value, 3)>>
      BY <2>4, <3>1 DEF RegOf
    <3> QED
      BY <1>1, <2>1, <2>2, <3>1, <3>2, Zenon
  <2> QED
    BY <2>1, <2>3, <2>4
<1>6. ASSUME ~match.found
      PROVE  Passed(items, search, j + 1)
  <2>1. ASSUME NEW m \in 1 .. j, Wanted(items, search, m)
        PROVE  FALSE
    <3>0. m \in 1 .. Len(items)
      BY <1>2
    <3>1. items[m].kind = "begin"
      BY <2>1, <3>0, WantedSearched, Zenon
    <3>2. m # j /\ m # b
      BY <1>4, <1>6, <2>1, <3>1
    <3>3. m \notin b + 1 .. j - 1
      BY <1>1, <3>1 DEF Within
    <3>4. m \in 1 .. b - 1
      BY <1>2, <1>3, <3>0, <3>2, <3>3, SMTT(30)
    <3> QED
      BY <1>1, <2>1, <3>4, Zenon
  <2>2. ASSUME NEW c \in Searched(items, search), Within(items, search, c, j + 1)
        PROVE  FALSE
    <3>1. c \in 1 .. Len(items) /\ items[c].kind = "begin" /\ c < j + 1
      BY <2>2 DEF Within, Searched
    <3>2. c # j
      BY <3>1
    <3>3. j \in c + 1 .. j
      BY <1>2, <3>1, <3>2
    <3> QED
      BY <1>2, <2>2, <3>3 DEF Within
  <2> QED
    BY <1>2, <2>1, <2>2 DEF Passed
<1> QED
  BY <1>5, <1>6, Zenon

(***************************************************************************)
(* After the last item, the end of the root, the walk is in no node and    *)
(* has passed whatever it could find.                                      *)
(***************************************************************************)
LEMMA AllPassed ==
    ASSUME NEW items \in Seq(Items), NEW search \in Searches, Len(items) > 0,
           items[Len(items)].kind = "end"
    PROVE  /\ Passed(items, search, Len(items) + 1) => First(items, search) = {}
           /\ \A b : ~Within(items, search, b, Len(items) + 1)
<1>1. Len(items) \in Nat /\ Len(items) + 1 - 1 = Len(items)
  OBVIOUS
<1>2. Passed(items, search, Len(items) + 1) => First(items, search) = {}
  BY <1>1 DEF Passed, First
<1>3. ASSUME NEW b, Within(items, search, b, Len(items) + 1)
      PROVE  FALSE
  <2>1. b \in 1 .. Len(items) /\ items[b].kind = "begin"
    BY <1>3 DEF Within, Searched
  <2>2. Len(items) \in b + 1 .. Len(items)
    BY <1>1, <2>1
  <2> QED
    BY <1>1, <1>3, <2>2 DEF Within
<1> QED
  BY <1>2, <1>3
(***************************************************************************)
(* A word of a property that is not read is no end of the tree, and no     *)
(* beginning of a node that is searched for.                               *)
(***************************************************************************)
LEMMA SkippedWords ==
    ASSUME NEW tree, IsTree(tree), NEW search, Readable(tree.items, search),
           NEW k \in Skipped(tree.items, search), k \in Reached(tree.items, search),
           NEW p \in Nat,
           tree.place[k] <= p, p < tree.place[k + 1]
    PROVE  /\ tree.words[p] # FDT_END
           /\ tree.words[p] = FDT_BEGIN_NODE =>
                /\ p + 1 < tree.place[k + 1] => ~strcont(tree.words[p + 1], search)
                /\ p + 1 = tree.place[k + 1] => tree.items[k + 1].kind # "begin"
<1>1. PICK W, q, words, next : /\ W = Words(tree.items[k]) /\ q = tree.place[k]
                               /\ words = tree.words /\ next = tree.place[k + 1]
  OBVIOUS
<1>2. k \in 1 .. Len(tree.items)
  BY DEF Skipped
<1>3. next = q + Len(W) /\ \A i \in 1 .. Len(W) : words[q + i - 1] = W[i]
  BY <1>1, <1>2, Zenon DEF IsTree
<1>4. q \in Nat /\ next \in Nat
  <2>1. Len(tree.items) \in Nat /\ Len(tree.words) \in Nat
    BY SMTT(30) DEF IsTree
  <2>2. k \in 1 .. Len(tree.items) + 1 /\ k + 1 \in 1 .. Len(tree.items) + 1
    BY <1>2, <2>1
  <2>3. q \in 1 .. Len(tree.words) /\ next \in 1 .. Len(tree.words)
    BY <1>1, <2>2, Zenon DEF IsTree
  <2> QED
    BY <2>1, <2>3
<1>5. \A i \in 1 .. Len(W) :
        /\ W[i] # FDT_END
        /\ W[i] = FDT_BEGIN_NODE =>
             IF i < Len(W) THEN ~strcont(W[i + 1], search) ELSE tree.items[k + 1].kind # "begin"
  BY <1>1, Zenon DEF Readable
<1>6. q <= p /\ p < next
  BY <1>1, Zenon
<1>7. PICK w : w = Len(W)
  BY Zenon
<1>8. w \in Nat
  <2>1. tree.items[k] \in Items
    BY <1>2, ElementOf, Zenon DEF IsTree
  <2>2. tree.items[k].kind = "prop"
    BY DEF Skipped
  <2>3. tree.items[k].value \in Seq(Nat) /\ <<FDT_PROP, tree.items[k].len, tree.items[k].name>> \in Seq(Nat)
    BY <2>1 DEF Items, FDT_PROP
  <2>4. W \in Seq(Nat)
    BY <1>1, <2>2, <2>3 DEF Words
  <2> QED
    BY <1>7, <2>4
<1>9. PICK i : i = p - q + 1
  OBVIOUS
<1>10. /\ i \in 1 .. w /\ q + i - 1 = p /\ q + (i + 1) - 1 = p + 1
       /\ p + 1 < next => i < w /\ i + 1 \in 1 .. w
       /\ p + 1 = next => ~(i < w)
  <2>1. next = q + w
    BY <1>3, <1>7, Zenon
  <2> QED
    BY <1>4, <1>6, <1>8, <1>9, <2>1
<1>11. words[p] = W[i] /\ (p + 1 < next => words[p + 1] = W[i + 1])
  BY <1>3, <1>7, <1>10, Zenon
<1>12. /\ words[p] # FDT_END
       /\ words[p] = FDT_BEGIN_NODE =>
            /\ p + 1 < next => ~strcont(words[p + 1], search)
            /\ p + 1 = next => tree.items[k + 1].kind # "begin"
  BY <1>5, <1>7, <1>10, <1>11, Zenon
<1> QED
  BY <1>1, <1>12, Zenon

(* The four tokens of the switch in dtb_scan are distinct, and no search   *)
(* word occurs in one.                                                     *)
LEMMA Tokens == /\ FDT_END \notin {FDT_BEGIN_NODE, FDT_PROP, FDT_END_NODE}
                /\ FDT_BEGIN_NODE \notin {FDT_PROP, FDT_END_NODE} /\ FDT_PROP # FDT_END_NODE
                /\ \A search : ~strcont(FDT_PROP, search) /\ ~strcont(FDT_END_NODE, search)
BY DEF FDT_END, FDT_BEGIN_NODE, FDT_PROP, FDT_END_NODE, strcont, memory, reserved_memory,
       Memory, virtio_mmio

(***************************************************************************)
(* The fields of a scan after a turn.                                      *)
(***************************************************************************)
IsMatch(m) == m = [reg_base |-> m.reg_base, reg_size |-> m.reg_size, irq |-> m.irq,
                   found |-> m.found]

IsScan(s) == s = [words |-> s.words, p |-> s.p, search |-> s.search, named |-> s.named,
                  active |-> s.active, match |-> s.match, ret |-> s.ret]

PropertyIn(s) ==
    Handler(s.search, IF s.named THEN s.words[s.p + 2] ELSE Empty,
            SubSeq(s.words, s.p + 3, s.p + 2 + WordsOf(s.words[s.p + 1])),
            s.words[s.p + 1], s.match)

TurnsTo(s, t, n) ==
    /\ IsScan(n) /\ n.words = s.words /\ n.search = s.search /\ n.named = s.named
    /\ t = FDT_END => n.ret = "false" /\ n.match = s.match
    /\ t = FDT_BEGIN_NODE =>
         /\ n.p = s.p + 2 /\ n.match = s.match /\ n.ret = s.ret
         /\ n.active = strcont(s.words[s.p + 1], s.search)
    /\ t = FDT_PROP /\ s.active =>
         /\ n.p = s.p + 2 + WordsOf(s.words[s.p + 1]) + 1 /\ n.match = PropertyIn(s)
         /\ n.ret = s.ret /\ n.active = s.active
    /\ t = FDT_END_NODE /\ s.active /\ s.match.found => n.ret = "true" /\ n.match = s.match
    /\ t = FDT_END_NODE /\ ~(s.active /\ s.match.found) =>
         n.p = s.p + 1 /\ n.active = FALSE /\ n.match = NoMatch /\ n.ret = s.ret
    /\ t \notin {FDT_END, FDT_BEGIN_NODE, FDT_END_NODE} /\ ~(t = FDT_PROP /\ s.active) =>
         n.p = s.p + 1 /\ n.active = s.active /\ n.match = s.match /\ n.ret = s.ret

(* One turn of the loop of dtb_scan, field by field.                       *)
LEMMA TurnFields ==
    ASSUME NEW s, IsScan(s)
    PROVE  TurnsTo(s, s.words[s.p], Turn(s))
<1> DEFINE t == s.words[s.p]
           n == Turn(s)
<1>0. SUFFICES TurnsTo(s, t, n)
  OBVIOUS
<1> HIDE DEF n
<1>1. PICK w, p, se, na, ac, ma, re :
        s = [words |-> w, p |-> p, search |-> se, named |-> na, active |-> ac, match |-> ma,
             ret |-> re]
  BY DEF IsScan
<1>2. /\ s.words = w /\ s.p = p /\ s.search = se /\ s.named = na /\ s.active = ac
      /\ s.match = ma /\ s.ret = re /\ t = w[p]
  BY <1>1
<1> DEFINE ha == Handler(se, IF na THEN w[p + 2] ELSE Empty,
                         SubSeq(w, p + 3, p + 2 + WordsOf(w[p + 1])), w[p + 1], ma)
<1>3. PropertyIn(s) = ha
  BY <1>2, Zenon DEF PropertyIn
<1>4. CASE t = FDT_END
  <2>1. n = [words |-> w, p |-> p + 1, search |-> se, named |-> na,
            active |-> ac, match |-> ma, ret |-> "false"]
    <3>1. n = [s EXCEPT !.p = s.p + 1, !.ret = "false"]
      BY <1>2, <1>4, TurnOn, Zenon DEF n
    <3>2. n = [s EXCEPT !.p = p + 1, !.ret = "false"]
      BY <1>2, <3>1, Zenon
    <3> QED
      BY <1>1, <3>2, Zenon
  <2>2. /\ IsScan(n) /\ n.words = w /\ n.search = se /\ n.named = na
        /\ n.p = p + 1 /\ n.active = ac /\ n.match = ma /\ n.ret = "false"
    BY <2>1 DEF IsScan
  <2> QED
    BY <1>2, <1>4, <2>2, Tokens, Zenon DEF TurnsTo
<1>5. CASE t = FDT_BEGIN_NODE
  <2>1. n = [words |-> w, p |-> p + 2, search |-> se, named |-> na,
            active |-> strcont(w[p + 1], se), match |-> ma, ret |-> re]
    <3>1. n = [s EXCEPT !.p = s.p + 2,
                                    !.active = strcont(s.words[s.p + 1], s.search)]
      BY <1>2, <1>5, TurnOn, Zenon DEF n
    <3>2. n = [s EXCEPT !.p = p + 2, !.active = strcont(w[p + 1], se)]
      BY <1>2, <3>1, Zenon
    <3> QED
      BY <1>1, <3>2, Zenon
  <2>2. /\ IsScan(n) /\ n.words = w /\ n.search = se /\ n.named = na
        /\ n.p = p + 2 /\ n.active = strcont(w[p + 1], se) /\ n.match = ma /\ n.ret = re
    BY <2>1 DEF IsScan
  <2> QED
    BY <1>2, <1>5, <2>2, Tokens, Zenon DEF TurnsTo
<1>6. CASE t = FDT_PROP /\ ac
  <2>1. n = [words |-> w, p |-> p + 2 + WordsOf(w[p + 1]) + 1, search |-> se, named |-> na,
            active |-> ac, match |-> ha, ret |-> re]
    <3>1. n = [s EXCEPT !.p = s.p + 2 + WordsOf(s.words[s.p + 1]) + 1,
                                !.match = PropertyIn(s)]
      BY <1>2, <1>6, TurnOn, Zenon DEF n, PropertyIn
    <3>2. n = [s EXCEPT !.p = p + 2 + WordsOf(w[p + 1]) + 1, !.match = ha]
      BY <1>2, <1>3, <3>1, Zenon
    <3> QED
      BY <1>1, <3>2, Zenon
  <2> HIDE DEF ha
  <2>2. /\ IsScan(n) /\ n.words = w /\ n.search = se /\ n.named = na
        /\ n.p = p + 2 + WordsOf(w[p + 1]) + 1 /\ n.active = ac /\ n.match = ha /\ n.ret = re
    BY <2>1 DEF IsScan
  <2> QED
    BY <1>2, <1>6, <2>2, <1>3, Tokens, Zenon DEF TurnsTo
<1>7. CASE t = FDT_END_NODE /\ ac /\ ma.found
  <2>1. n = [words |-> w, p |-> p + 1, search |-> se, named |-> na,
            active |-> ac, match |-> ma, ret |-> "true"]
    <3>1. n = [s EXCEPT !.p = s.p + 1, !.ret = "true"]
      BY <1>2, <1>7, TurnOn, Zenon DEF n
    <3>2. n = [s EXCEPT !.p = p + 1, !.ret = "true"]
      BY <1>2, <3>1, Zenon
    <3> QED
      BY <1>1, <3>2, Zenon
  <2>2. /\ IsScan(n) /\ n.words = w /\ n.search = se /\ n.named = na
        /\ n.p = p + 1 /\ n.active = ac /\ n.match = ma /\ n.ret = "true"
    BY <2>1 DEF IsScan
  <2> QED
    BY <1>2, <1>7, <2>2, Tokens, Zenon DEF TurnsTo
<1>8. CASE t = FDT_END_NODE /\ ~(ac /\ ma.found)
  <2>1. n = [words |-> w, p |-> p + 1, search |-> se, named |-> na,
            active |-> FALSE, match |-> NoMatch, ret |-> re]
    <3>1. n = [s EXCEPT !.p = s.p + 1, !.active = FALSE, !.match = NoMatch]
      BY <1>2, <1>8, TurnOn, Zenon DEF n
    <3>2. n = [s EXCEPT !.p = p + 1, !.active = FALSE, !.match = NoMatch]
      BY <1>2, <3>1, Zenon
    <3> QED
      BY <1>1, <3>2, Zenon
  <2>2. /\ IsScan(n) /\ n.words = w /\ n.search = se /\ n.named = na
        /\ n.p = p + 1 /\ n.active = FALSE /\ n.match = NoMatch /\ n.ret = re
    BY <2>1 DEF IsScan
  <2> QED
    BY <1>2, <1>8, <2>2, Tokens, Zenon DEF TurnsTo
<1>9. CASE t \notin {FDT_END, FDT_BEGIN_NODE, FDT_END_NODE} /\ ~(t = FDT_PROP /\ ac)
  <2>1. n = [words |-> w, p |-> p + 1, search |-> se, named |-> na,
            active |-> ac, match |-> ma, ret |-> re]
    <3>1. n = [s EXCEPT !.p = s.p + 1]
      BY <1>2, <1>9, TurnOn, Zenon DEF n
    <3>2. n = [s EXCEPT !.p = p + 1]
      BY <1>2, <3>1, Zenon
    <3> QED
      BY <1>1, <3>2
  <2>2. /\ IsScan(n) /\ n.words = w /\ n.search = se /\ n.named = na
        /\ n.p = p + 1 /\ n.active = ac /\ n.match = ma /\ n.ret = re
    BY <2>1 DEF IsScan
  <2> QED
    BY <1>2, <1>9, <2>2, Tokens, Zenon DEF TurnsTo
<1> QED
  BY <1>2, <1>4, <1>5, <1>6, <1>7, <1>8, <1>9, Zenon

AtItem(s, tree, j) ==
    /\ j \in 1 .. Len(tree.items) + 1 /\ s.p = tree.place[j]
    /\ \/ ~s.active /\ s.match = NoMatch /\ Passed(tree.items, s.search, j)
       \/ s.active /\ \E b : Reading(tree.items, s.search, b, j, s.match)

InItem(s, tree, j) ==
    /\ j \in Skipped(tree.items, s.search)
    /\ s.p \in Nat /\ tree.place[j] < s.p /\ s.p < tree.place[j + 1]
    /\ ~s.active /\ s.match = NoMatch /\ Passed(tree.items, s.search, j)

OnItem(s, tree) == \E j : AtItem(s, tree, j) \/ InItem(s, tree, j)

(* The items of a tree are as long as the words they are written in.       *)
LEMMA TreeSized ==
    ASSUME NEW tree, IsTree(tree)
    PROVE  Sized(tree.items)
BY Zenon DEF IsTree, Sized

(***************************************************************************)
(* A turn at the beginning of an item.                                     *)
(***************************************************************************)
LEMMA TurnAtItem ==
    ASSUME NEW tree, IsTree(tree), NEW s, IsScan(s), s.words = tree.words,
           s.search \in Searches, s.named = TRUE, s.active \in BOOLEAN, s.ret = "none",
           Readable(tree.items, s.search), NEW j, AtItem(s, tree, j), NEW n, n = Turn(s)
    PROVE  \/ n.ret = "none" /\ n.active \in BOOLEAN /\ OnItem(n, tree)
           \/ n.ret # "none" /\ Agrees(n, tree.items)
<1>1. PICK items, search, t : items = tree.items /\ search = s.search /\ t = s.words[s.p]
  OBVIOUS
<1>2. /\ items \in Seq(Items) /\ search \in Searches /\ Readable(items, search)
      /\ Len(items) \in Nat \ {0} /\ Len(items) > 0 /\ items[Len(items)].kind = "end"
  BY <1>1, TreeShape
<1>3. /\ j \in 1 .. Len(items) + 1 /\ s.p = tree.place[j]
      /\ \/ ~s.active /\ s.match = NoMatch /\ Passed(items, search, j)
         \/ s.active /\ \E b : Reading(items, search, b, j, s.match)
  BY <1>1, Zenon DEF AtItem
<1>4. /\ IsScan(n) /\ n.words = s.words /\ n.search = s.search /\ n.named = s.named
      /\ t = FDT_END => n.ret = "false" /\ n.match = s.match
      /\ t = FDT_BEGIN_NODE =>
           /\ n.p = s.p + 2 /\ n.match = s.match /\ n.ret = s.ret
           /\ n.active = strcont(s.words[s.p + 1], s.search)
      /\ t = FDT_PROP /\ s.active =>
           /\ n.p = s.p + 2 + WordsOf(s.words[s.p + 1]) + 1 /\ n.match = PropertyIn(s)
           /\ n.ret = s.ret /\ n.active = s.active
      /\ t = FDT_END_NODE /\ s.active /\ s.match.found => n.ret = "true" /\ n.match = s.match
      /\ t = FDT_END_NODE /\ ~(s.active /\ s.match.found) =>
           n.p = s.p + 1 /\ n.active = FALSE /\ n.match = NoMatch /\ n.ret = s.ret
      /\ t \notin {FDT_END, FDT_BEGIN_NODE, FDT_END_NODE} /\ ~(t = FDT_PROP /\ s.active) =>
           n.p = s.p + 1 /\ n.active = s.active /\ n.match = s.match /\ n.ret = s.ret
  <2>1. TurnsTo(s, t, n)
    BY <1>1, TurnFields, Zenon
  <2> QED
    BY <2>1, Zenon DEF TurnsTo
<1> DEFINE here == tree.place[j]
<1>5. t = tree.words[here] /\ s.p = here
  BY <1>1, <1>3, Zenon
<1>6. CASE j = Len(items) + 1
  <2>1. t = FDT_END
    BY <1>1, <1>6, <1>5, TreeShape, Zenon
  <2>2. Passed(items, search, Len(items) + 1)
    BY <1>2, <1>3, <1>6, AllPassed, Zenon DEF Reading
  <2>3. First(items, search) = {}
    BY <1>2, <2>2, AllPassed, Zenon
  <2>4. n.ret = "false" /\ "false" # "none" /\ "false" # "true"
    BY <1>4, <2>1
  <2> QED
    BY <1>1, <1>4, <2>3, <2>4, Zenon DEF Agrees
<1>7. CASE j # Len(items) + 1
  <2>1. j \in 1 .. Len(items) /\ j \in Nat /\ j + 1 \in 1 .. Len(items) + 1
    BY <1>2, <1>3, <1>7
  <2>2. ItemAt(tree, j)
    BY <1>1, <2>1, TreeShape, Zenon
  <2>3. items[j] \in Items /\ tree.place[j] \in Nat
    BY <1>1, <2>2, Zenon DEF ItemAt
  <2>4. items[j].kind \in {"begin", "prop", "end"}
    BY <2>3 DEF Items
  <2>5. CASE items[j].kind = "begin"
    <3>0. /\ tree.words[here] = FDT_BEGIN_NODE /\ tree.words[here + 1] = items[j].name
          /\ tree.place[j + 1] = here + 2
      BY <1>1, <2>2, <2>5, Zenon DEF ItemAt
    <3>1. /\ t = FDT_BEGIN_NODE /\ s.words[s.p + 1] = items[j].name
          /\ tree.place[j + 1] = s.p + 2
      BY <1>5, <3>0, Zenon
    <3>2. /\ n.p = tree.place[j + 1] /\ n.match = s.match /\ n.ret = s.ret
          /\ n.active = strcont(items[j].name, search)
      BY <1>1, <1>4, <3>1, Zenon
    <3>3. ~s.active /\ s.match = NoMatch /\ Passed(items, search, j)
      <4>1. ASSUME NEW b, Reading(items, search, b, j, s.match)
            PROVE  FALSE
        <5>1. Within(items, search, b, j) /\ \A m \in 1 .. b - 1 : ~Wanted(items, search, m)
          BY <4>1, Zenon DEF Reading
        <5>2. b \in 1 .. Len(items)
          BY <5>1 DEF Within, Searched
        <5>3. b \in Reached(items, search)
          BY <5>1, <5>2, ReachedBefore, Zenon
        <5> QED
          BY <1>2, <2>1, <2>5, <5>1, <5>3, NoChild, Zenon
      <4> QED
        BY <1>3, <4>1, Zenon
    <3>4. j \in Searched(items, search) <=> strcont(items[j].name, search)
      BY <2>1, <2>5, Zenon DEF Searched
    <3>5. n.active \in BOOLEAN
      BY <3>2 DEF strcont
    <3>6. CASE j \in Searched(items, search)
      <4>1. Reading(items, search, j, j + 1, NoMatch)
        BY <1>2, <2>1, <3>3, <3>6, EnterNode, Zenon
      <4>2. n.active
        BY <3>2, <3>4, <3>6, Zenon
      <4> QED
        BY <1>1, <1>4, <2>1, <3>2, <3>3, <3>5, <4>1, <4>2, Zenon DEF OnItem, AtItem
    <3>7. CASE j \notin Searched(items, search)
      <4>1. Passed(items, search, j + 1)
        BY <1>2, <2>1, <3>3, <3>7, PassItem, Zenon
      <4>2. ~n.active
        BY <3>2, <3>4, <3>7, Zenon
      <4> QED
        BY <1>1, <1>4, <2>1, <3>2, <3>3, <3>5, <4>1, <4>2, Zenon DEF OnItem, AtItem
    <3> QED
      BY <3>6, <3>7, Zenon
  <2>6. CASE items[j].kind = "prop"
    <3>1. /\ t = FDT_PROP /\ s.words[s.p + 1] = items[j].len
          /\ s.words[s.p + 2] = items[j].name
          /\ SubSeq(s.words, s.p + 3, s.p + 2 + WordsOf(items[j].len)) = items[j].value
          /\ tree.place[j + 1] = s.p + 3 + WordsOf(items[j].len)
          /\ WordsOf(items[j].len) \in Nat /\ s.p \in Nat
      <4>1. /\ tree.words[here] = FDT_PROP /\ tree.words[here + 1] = items[j].len
            /\ tree.words[here + 2] = items[j].name
            /\ SubSeq(tree.words, here + 3, here + 2 + WordsOf(items[j].len)) = items[j].value
            /\ tree.place[j + 1] = here + 3 + WordsOf(items[j].len)
            /\ WordsOf(items[j].len) \in Nat
        BY <1>1, <2>2, <2>6, Zenon DEF ItemAt
      <4> QED
        BY <1>5, <2>3, <4>1, Zenon
    <3>2. CASE s.active
      <4>1. PICK b : Reading(items, search, b, j, s.match)
        BY <1>3, <3>2, Zenon
      <4>2. Reading(items, search, b, j + 1,
                    Handler(search, items[j].name, items[j].value, items[j].len, s.match))
        BY <1>1, <1>2, <2>1, <2>6, <4>1, ReadProperty, TreeSized, Zenon
      <4>3. PropertyIn(s) = Handler(search, items[j].name, items[j].value, items[j].len, s.match)
        BY <1>1, <3>1, Zenon DEF PropertyIn
      <4>4. \A w \in Nat : s.p + 2 + w + 1 = s.p + 3 + w
        BY <3>1
      <4>5. /\ n.p = tree.place[j + 1] /\ n.match = PropertyIn(s) /\ n.ret = "none"
            /\ n.active = s.active
        BY <1>4, <3>1, <3>2, <4>4, Zenon
      <4> QED
        BY <1>1, <1>4, <2>1, <3>2, <4>2, <4>3, <4>5, Zenon DEF OnItem, AtItem
    <3>3. CASE ~s.active
      <4>1. s.match = NoMatch /\ Passed(items, search, j)
        BY <1>3, <3>3, Zenon
      <4>2. j \in Skipped(items, search)
        BY <1>2, <2>1, <2>6, <4>1, PassItem, Zenon
      <4>3. n.p = s.p + 1 /\ n.active = s.active /\ n.match = s.match /\ n.ret = "none"
        BY <1>4, <3>1, <3>3, Tokens, Zenon
      <4>4. \A w \in Nat : s.p + 1 \in Nat /\ s.p < s.p + 1 /\ s.p + 1 < s.p + 3 + w
        BY <3>1, SMTT(30)
      <4>5. n.p \in Nat /\ tree.place[j] < n.p /\ n.p < tree.place[j + 1]
        BY <1>3, <3>1, <4>3, <4>4, Zenon
      <4> QED
        BY <1>1, <1>4, <3>3, <4>1, <4>2, <4>3, <4>5, Zenon DEF OnItem, InItem
    <3> QED
      BY <3>2, <3>3
  <2>7. CASE items[j].kind = "end"
    <3>1. t = FDT_END_NODE /\ tree.place[j + 1] = s.p + 1
      <4>1. tree.words[here] = FDT_END_NODE /\ tree.place[j + 1] = here + 1
        BY <1>1, <2>2, <2>7, Zenon DEF ItemAt
      <4> QED
        BY <1>5, <4>1, Zenon
    <3>2. CASE s.active /\ s.match.found
      <4>1. PICK b : Reading(items, search, b, j, s.match)
        BY <1>3, <3>2, Zenon
      <4>2. /\ b \in First(items, search)
            /\ <<s.match.reg_base, s.match.reg_size>> = RegOf(items, b)
        BY <1>2, <2>1, <2>7, <3>2, <4>1, ReadEnd, Zenon
      <4>3. n.ret = "true" /\ "true" # "none" /\ "true" # "false" /\ n.match = s.match
        BY <1>4, <3>1, <3>2, Zenon
      <4> QED
        BY <1>1, <1>4, <4>2, <4>3, Zenon DEF Agrees
    <3>3. CASE ~(s.active /\ s.match.found)
      <4>1. n.p = tree.place[j + 1] /\ n.active = FALSE /\ n.match = NoMatch /\ n.ret = "none"
        BY <1>4, <3>1, <3>3, Zenon
      <4>2. Passed(items, search, j + 1)
        <5>1. CASE s.active
          BY <1>2, <1>3, <2>1, <2>7, <3>3, <5>1, ReadEnd, Zenon
        <5>2. CASE ~s.active
          <6>1. j \notin Searched(items, search)
            BY <2>7 DEF Searched
          <6> QED
            BY <1>2, <1>3, <2>1, <5>2, <6>1, PassItem, Zenon
        <5> QED
          BY <5>1, <5>2
      <4> QED
        BY <1>1, <1>4, <2>1, <4>1, <4>2, Zenon DEF OnItem, AtItem
    <3> QED
      BY <3>2, <3>3
  <2> QED
    BY <2>4, <2>5, <2>6, <2>7
<1> QED
  BY <1>6, <1>7
(***************************************************************************)
(* A turn inside a property that is not read.  A last word that looks like *)
(* the beginning of a node takes the first word of the next item with it.  *)
(***************************************************************************)
LEMMA TurnInItem ==
    ASSUME NEW tree, IsTree(tree), NEW s, IsScan(s), s.words = tree.words,
           s.search \in Searches, s.ret = "none",
           Readable(tree.items, s.search), NEW j, InItem(s, tree, j), NEW n, n = Turn(s)
    PROVE  n.ret = "none" /\ n.active \in BOOLEAN /\ OnItem(n, tree)
<1>1. PICK items, search, p, t, next :
        /\ items = tree.items /\ search = s.search /\ p = s.p /\ t = s.words[s.p]
        /\ next = tree.place[j + 1]
  OBVIOUS
<1>2. /\ items \in Seq(Items) /\ search \in Searches /\ Readable(items, search)
      /\ Len(items) \in Nat /\ items[Len(items)].kind = "end"
  BY <1>1, TreeShape
<1>3. /\ j \in Skipped(items, search) /\ p \in Nat /\ tree.place[j] < p /\ p < next
      /\ ~s.active /\ s.match = NoMatch /\ Passed(items, search, j)
  BY <1>1, Zenon DEF InItem
<1>4. j \in 1 .. Len(items) /\ items[j].kind = "prop" /\ j \notin Searched(items, search)
  BY <1>3 DEF Skipped, Searched
<1>5. j \in 1 .. Len(items) - 1 /\ j + 1 \in 1 .. Len(items) /\ j + 1 \in 1 .. Len(items) + 1
  BY <1>2, <1>4
<1>6. ItemAt(tree, j) /\ ItemAt(tree, j + 1)
  BY <1>1, <1>4, <1>5, TreeShape, Zenon
<1>7. Passed(items, search, j + 1)
  BY <1>2, <1>3, <1>4, PassItem, Zenon
<1>8. next \in Nat /\ tree.place[j] \in Nat /\ tree.place[j] <= p
  <2>1. /\ tree.place[j] \in Nat /\ tree.place[j + 1] \in Nat
    BY <1>6, Zenon DEF ItemAt
  <2>2. next \in Nat /\ tree.place[j] \in Int
    BY <1>1, <2>1
  <2> QED
    BY <1>3, <2>1, <2>2
<1>9. /\ t # FDT_END
      /\ t = FDT_BEGIN_NODE =>
           /\ p + 1 < next => ~strcont(s.words[p + 1], search)
           /\ p + 1 = next => items[j + 1].kind # "begin"
  <2>1. j \in Reached(items, search)
    BY <1>3, <1>4, ReachedBefore, Zenon DEF Passed
  <2> QED
    BY <1>1, <1>2, <1>3, <1>8, <2>1, SkippedWords, Zenon
<1>10. TurnsTo(s, t, n)
  BY <1>1, TurnFields, Zenon
<1>11. n.search = search /\ n.words = s.words
  BY <1>1, <1>10, Zenon DEF TurnsTo
<1>12. ASSUME n.ret = "none", n.match = NoMatch, n.active = FALSE, n.p = p + 1
       PROVE  n.active \in BOOLEAN /\ OnItem(n, tree)
  <2>1. CASE p + 1 = next
    BY <1>1, <1>5, <1>7, <1>11, <1>12, <2>1, Zenon DEF OnItem, AtItem
  <2>2. CASE p + 1 # next
    <3>1. p + 1 \in Nat /\ tree.place[j] < p + 1 /\ p + 1 < next
      BY <1>3, <1>8, <2>2
    <3> QED
      BY <1>1, <1>3, <1>11, <1>12, <3>1, Zenon DEF OnItem, InItem
  <2> QED
    BY <2>1, <2>2
<1>13. CASE t = FDT_BEGIN_NODE
  <2>1. n.p = p + 2 /\ n.match = s.match /\ n.ret = s.ret /\ n.active = strcont(s.words[p + 1], search)
    BY <1>1, <1>10, <1>13, Zenon DEF TurnsTo
  <2>2. n.active \in BOOLEAN
    BY <2>1 DEF strcont
  <2>3. CASE p + 1 < next
    <3>1. ~n.active
      BY <1>9, <1>13, <2>1, <2>3, Zenon
    <3>2. CASE p + 2 = next
      BY <1>1, <1>3, <1>5, <1>7, <1>11, <2>2, <2>1, <3>1, <3>2, Zenon DEF OnItem, AtItem
    <3>3. CASE p + 2 # next
      <4>1. p + 2 \in Nat /\ tree.place[j] < p + 2 /\ p + 2 < next
        BY <1>3, <1>8, <2>3, <3>3
      <4> QED
        BY <1>1, <1>3, <1>11, <2>2, <2>1, <3>1, <4>1, Zenon DEF OnItem, InItem
    <3> QED
      BY <3>2, <3>3
  <2>4. CASE ~(p + 1 < next)
    <3>1. p + 1 = next /\ p + 2 = next + 1
      BY <1>3, <1>8, <2>4, SMTT(30)
    <3>2. items[j + 1].kind \in {"prop", "end"}
      BY <1>1, <1>6, <1>9, <1>13, <3>1, Zenon DEF ItemAt, Items
    <3>3. s.words[p + 1] = tree.words[tree.place[j + 1]]
      BY <1>1, <3>1, Zenon
    <3>4. j + 1 \notin Searched(items, search)
      BY <3>2 DEF Searched
    <3>5. CASE items[j + 1].kind = "prop"
      <4>1. s.words[p + 1] = FDT_PROP
        BY <1>1, <1>6, <3>3, <3>5, Zenon DEF ItemAt
      <4>2. ~n.active
        BY <2>1, <4>1, Tokens, Zenon
      <4>3. j + 1 \in Skipped(items, search)
        BY <1>2, <1>5, <1>7, <3>5, PassItem, Zenon
      <4>4. next \in Nat /\ tree.place[j + 1 + 1] = next + 3 + WordsOf(items[j + 1].len)
            /\ WordsOf(items[j + 1].len) \in Nat
        BY <1>1, <1>6, <1>8, <3>5, Zenon DEF ItemAt
      <4>5. \A w \in Nat : next + 1 \in Nat /\ next < next + 1 /\ next + 1 < next + 3 + w
        BY <4>4
      <4>6. n.p \in Nat /\ tree.place[j + 1] < n.p /\ n.p < tree.place[j + 1 + 1]
        BY <1>1, <2>1, <3>1, <4>4, <4>5, Zenon
      <4> QED
        BY <1>1, <1>3, <1>7, <1>11, <2>2, <2>1, <4>2, <4>3, <4>6, Zenon DEF OnItem, InItem
    <3>6. CASE items[j + 1].kind = "end"
      <4>1. s.words[p + 1] = FDT_END_NODE /\ tree.place[j + 1 + 1] = next + 1
        BY <1>1, <1>6, <3>3, <3>6, Zenon DEF ItemAt
      <4>2. ~n.active
        BY <2>1, <4>1, Tokens, Zenon
      <4>3. Passed(items, search, j + 1 + 1)
        BY <1>2, <1>5, <1>7, <3>4, PassItem, Zenon
      <4>4. j + 1 + 1 \in 1 .. Len(items) + 1
        BY <1>2, <1>5
      <4> QED
        BY <1>1, <1>3, <1>11, <2>2, <2>1, <3>1, <4>1, <4>2, <4>3, <4>4, Zenon DEF OnItem, AtItem
    <3> QED
      BY <3>2, <3>5, <3>6
  <2> QED
    BY <2>3, <2>4
<1>14. CASE t = FDT_END_NODE
  BY <1>1, <1>3, <1>10, <1>12, <1>14, Zenon DEF TurnsTo
<1>15. CASE t \notin {FDT_BEGIN_NODE, FDT_END_NODE}
  <2>1. s.active = FALSE
    BY <1>3
  <2> QED
    BY <1>1, <1>3, <1>9, <1>10, <1>12, <1>15, <2>1, Zenon DEF TurnsTo
<1> QED
  BY <1>13, <1>14, <1>15
------------------------------------------------------------------------------
(* The walks of the tree.                                                  *)

\* A walk through a null hdr reads no reg: no property has a name.
Zeroed(match) == IsMatch(match) /\ match.reg_base = 0 /\ match.reg_size = 0

\* A walk through hdr is on an item of the tree, or over with the right answer.
Reads(s, tree) ==
    /\ s.words = tree.words
    /\ Readable(tree.items, s.search) =>
         \/ s.ret = "none" /\ s.active \in BOOLEAN /\ OnItem(s, tree)
         \/ s.ret # "none" /\ Agrees(s, tree.items)

Walks(s, tree) ==
    /\ IsScan(s) /\ s.search \in Searches /\ s.ret \in {"none", "true", "false"}
    /\ \/ s.named = TRUE /\ Reads(s, tree)
       \/ s.named = FALSE /\ Zeroed(s.match)

(* dtb_scan starts from a zeroed match.                                    *)
LEMMA NoMatchZeroed == Zeroed(NoMatch)
BY DEF Zeroed, IsMatch, NoMatch

(***************************************************************************)
(* dtb_scan starts at the first item of the tree.                          *)
(***************************************************************************)
LEMMA WalkStarts ==
    ASSUME NEW tree, IsTree(tree), NEW h \in BOOLEAN, NEW search \in Searches, NEW s,
           s = dtb_scan(tree.words, h, search)
    PROVE  Walks(s, tree) /\ s.search = search /\ s.named = h
<1>1. /\ IsScan(s) /\ s.search = search /\ s.named = h /\ s.p = 1 /\ s.active = FALSE
      /\ s.match = NoMatch /\ s.ret = "none" /\ (h = TRUE => s.words = tree.words)
  BY DEF dtb_scan, IsScan
<1>2. CASE h = TRUE
  <2>1. 1 \in 1 .. Len(tree.items) + 1 /\ tree.place[1] = 1
    BY DEF IsTree
  <2>2. Passed(tree.items, search, 1)
    BY DEF Passed, Within, Searched
  <2>3. AtItem(s, tree, 1)
    BY <1>1, <2>1, <2>2, Zenon DEF AtItem
  <2>4. OnItem(s, tree)
    BY <2>3, Zenon DEF OnItem
  <2>5. Reads(s, tree)
    BY <1>1, <1>2, <2>4, Zenon DEF Reads
  <2> QED
    BY <1>1, <1>2, <2>5 DEF Walks
<1>3. CASE h = FALSE
  BY <1>1, <1>3, NoMatchZeroed DEF Walks
<1> QED
  BY <1>2, <1>3, Zenon

(***************************************************************************)
(* A property without its name changes neither base nor size.              *)
(***************************************************************************)
LEMMA UnnamedZeroed ==
    ASSUME NEW s, s.search \in Searches, s.named = FALSE, Zeroed(s.match)
    PROVE  Zeroed(PropertyIn(s))
<1>1. PICK prop, len, match, search :
        /\ prop = SubSeq(s.words, s.p + 3, s.p + 2 + WordsOf(s.words[s.p + 1]))
        /\ len = s.words[s.p + 1] /\ match = s.match /\ search = s.search
  BY Zenon
<1>2. PropertyIn(s) = Handler(search, Empty, prop, len, match)
  BY <1>1 DEF PropertyIn
<1>3. ~IsReg(Empty, len)
  BY Constants DEF IsReg
<1>4. PICK irq, found :
        match = [reg_base |-> 0, reg_size |-> 0, irq |-> irq, found |-> found]
  BY <1>1, Zenon DEF Zeroed, IsMatch
<1>5. \E i, f : Handler(search, Empty, prop, len, match)
                  = [reg_base |-> 0, reg_size |-> 0, irq |-> i, found |-> f]
  BY <1>3, <1>4, Zenon DEF Handler, handle_mem_node, handle_virito_node
<1> QED
  BY <1>2, <1>5 DEF Zeroed, IsMatch

(***************************************************************************)
(* Every turn of dtb_scan keeps what is known of the walk.                 *)
(***************************************************************************)
LEMMA TurnWalks ==
    ASSUME NEW tree, IsTree(tree), NEW s, Walks(s, tree), s.ret = "none", NEW n, n = Turn(s)
    PROVE  Walks(n, tree) /\ n.search = s.search /\ n.named = s.named
<1>1. IsScan(s) /\ s.search \in Searches
  BY DEF Walks
<1>2. TurnsTo(s, s.words[s.p], n)
  BY <1>1, TurnFields
<1>3. IsScan(n) /\ n.words = s.words /\ n.search = s.search /\ n.named = s.named
  BY <1>2, Zenon DEF TurnsTo
<1>4. n.ret \in {"none", "true", "false"}
  BY <1>2, Zenon DEF TurnsTo
<1>5. CASE s.named = TRUE
  <2>1. s.words = tree.words /\ Reads(s, tree)
    BY <1>5 DEF Walks, Reads
  <2>2. ASSUME Readable(tree.items, s.search)
        PROVE  \/ n.ret = "none" /\ n.active \in BOOLEAN /\ OnItem(n, tree)
               \/ n.ret # "none" /\ Agrees(n, tree.items)
    <3>1. s.active \in BOOLEAN /\ OnItem(s, tree)
      BY <2>1, <2>2 DEF Reads
    <3>2. PICK j : AtItem(s, tree, j) \/ InItem(s, tree, j)
      BY <3>1 DEF OnItem
    <3>3. CASE AtItem(s, tree, j)
      BY <1>1, <1>5, <2>1, <2>2, <3>1, <3>3, TurnAtItem, Zenon
    <3>4. CASE InItem(s, tree, j)
      BY <1>1, <2>1, <2>2, <3>4, TurnInItem, Zenon
    <3> QED
      BY <3>2, <3>3, <3>4
  <2>3. Reads(n, tree)
    BY <1>3, <2>1, <2>2, Zenon DEF Reads
  <2> QED
    BY <1>1, <1>3, <1>5, <1>4, <2>3 DEF Walks
<1>6. CASE s.named = FALSE
  <2>1. Zeroed(s.match)
    BY <1>6, SMTT(30) DEF Walks
  <2>2. n.match \in {s.match, NoMatch, PropertyIn(s)}
    BY <1>2, Zenon DEF TurnsTo
  <2>3. Zeroed(n.match)
    BY <1>1, <1>6, <2>1, <2>2, NoMatchZeroed, UnnamedZeroed, Zenon
  <2> QED
    BY <1>1, <1>3, <1>6, <1>4, <2>3 DEF Walks
<1> QED
  BY <1>5, <1>6, Zenon DEF Walks
=============================================================================
