------------------------------ MODULE StoreProofs ------------------------------
(***************************************************************************)
(* Proofs that a drive that is never cleaned is a store of files           *)
(* (FileStore), for every size of the drive and every sequence of          *)
(* commands, mounts and crashes, when the names of files are words that    *)
(* are no numbers: a name leads to the inode that bears it, an inode to    *)
(* its own blocks, a checkpoint to what was saved, and the blocks that a   *)
(* command still has to write to what is wanted of its file.               *)
(***************************************************************************)
EXTENDS DriveProofs

-----------------------------------------------------------------------------
(* NAME_MAP and what a mount reads of it.                                  *)

(* The names of files are words that are no numbers.  Then what a mount    *)
(* reads amiss in NAME_MAP never is the name of a file.                    *)
PlainNames == \A n \in FileNames : n # "" /\ ~IsNumeral(n)

(* An inode number is read as it was written.                              *)
LEMMA NumberSpelt ==
  ASSUME NEW i \in Inodes
  PROVE  IsNumeral(Spelling(i)) /\ NumberOf(Spelling(i)) = i
<1>1. i \in Int /\ i + 1 \in DOMAIN Numerals /\ DOMAIN Numerals = 1..NumFiles
  BY NumeralsAre, LayoutIs DEF Inodes
<1>2. \A j, k \in DOMAIN Numerals : Numerals[j] = Numerals[k] => j = k
  BY NameAssumption DEF NameAssumption
<1>3. IsNumeral(Spelling(i))
  BY <1>1 DEF IsNumeral, Spelling
<1> DEFINE j == CHOOSE k \in DOMAIN Numerals : Numerals[k] = Spelling(i)
<1>4. j = i + 1
  BY <1>1, <1>2 DEF Spelling
<1>5. NumberOf(Spelling(i)) = j - 1
  BY DEF NumberOf
<1> HIDE DEF j
<1>6. QED
  BY <1>1, <1>3, <1>4, <1>5

(* In words that are written, a file's name is followed by its number, and *)
(* each of the first names in order is there.                              *)
Follow(words, nm) ==
  \A p \in 1..Len(words) : words[p] \in FileNames =>
    /\ words[p] \in DOMAIN nm /\ p + 1 \in 1..Len(words)
    /\ words[p + 1] = Spelling(nm[words[p]])

There(words, n) == \E p \in 1..Len(words) : words[p] = n

(* Words put behind others leave both as they were.                        *)
LEMMA FollowBoth ==
  ASSUME NEW a \in Seq(Names), NEW b \in Seq(Names), NEW nm,
         Follow(a, nm), Follow(b, nm)
  PROVE  /\ Follow(a \o b, nm)
         /\ \A n : There(a, n) \/ There(b, n) => There(a \o b, n)
<1> DEFINE c == a \o b
<1>1. /\ c \in Seq(Names) /\ Len(c) = Len(a) + Len(b) /\ Len(a) \in Nat /\ Len(b) \in Nat
      /\ \A p \in 1..Len(a) : c[p] = a[p]
      /\ \A p \in 1..Len(b) : c[Len(a) + p] = b[p]
  OBVIOUS
<1> HIDE DEF c
<1>2. ASSUME NEW p \in 1..Len(c), c[p] \in FileNames
      PROVE  /\ c[p] \in DOMAIN nm /\ p + 1 \in 1..Len(c)
             /\ c[p + 1] = Spelling(nm[c[p]])
  <2>1. CASE p <= Len(a)
    <3>1. p \in 1..Len(a) /\ c[p] = a[p]
      BY <1>1, <2>1
    <3>2. /\ a[p] \in DOMAIN nm /\ p + 1 \in 1..Len(a) /\ a[p + 1] = Spelling(nm[a[p]])
      BY <1>2, <3>1 DEF Follow
    <3>3. p + 1 \in 1..Len(c) /\ c[p + 1] = a[p + 1]
      BY <1>1, <3>2
    <3>4. QED
      BY <3>1, <3>2, <3>3
  <2>2. CASE ~(p <= Len(a))
    <3>1. PICK q \in 1..Len(b) : p = Len(a) + q
      <4>1. p - Len(a) \in 1..Len(b) /\ p = Len(a) + (p - Len(a))
        BY <1>1, <2>2
      <4>2. QED
        BY <4>1
    <3>2. c[p] = b[q]
      BY <1>1, <3>1
    <3>3. /\ b[q] \in DOMAIN nm /\ q + 1 \in 1..Len(b) /\ b[q + 1] = Spelling(nm[b[q]])
      BY <1>2, <3>2 DEF Follow
    <3>4. p + 1 = Len(a) + (q + 1) /\ p + 1 \in 1..Len(c)
      BY <1>1, <3>1, <3>3
    <3>5. c[p + 1] = b[q + 1]
      BY <1>1, <3>3, <3>4
    <3>6. QED
      BY <3>2, <3>3, <3>4, <3>5
  <2>3. QED
    BY <2>1, <2>2
<1>3. ASSUME NEW n, There(a, n) \/ There(b, n)
      PROVE  There(c, n)
  <2>1. CASE There(a, n)
    <3>1. PICK p \in 1..Len(a) : a[p] = n
      BY <2>1 DEF There
    <3>2. p \in 1..Len(c) /\ c[p] = n
      BY <1>1, <3>1
    <3>3. QED
      BY <3>2 DEF There
  <2>2. CASE There(b, n)
    <3>1. PICK p \in 1..Len(b) : b[p] = n
      BY <2>2 DEF There
    <3>2. Len(a) + p \in 1..Len(c) /\ c[Len(a) + p] = n
      BY <1>1, <3>1
    <3>3. QED
      BY <3>2 DEF There
  <2>3. QED
    BY <1>3, <2>1, <2>2
<1>4. QED
  BY <1>2, <1>3 DEF Follow, c

(* A line is like that.                                                    *)
LEMMA LineFollows ==
  ASSUME PlainNames, NEW nm, NameMaps(nm), NEW n
  PROVE  /\ LineOf(nm, n) \in Seq(Names) /\ Follow(LineOf(nm, n), nm)
         /\ n \in DOMAIN nm \cap FileNames => There(LineOf(nm, n), n)
<1>1. CASE n \notin DOMAIN nm
  BY <1>1 DEF LineOf, Follow
<1>2. CASE n \in DOMAIN nm
  <2>1. nm[n] \in Inodes /\ n \in Names
    BY <1>2 DEF NameMaps
  <2>2. Spelling(nm[n]) \in Names /\ Spelling(nm[n]) \notin FileNames
    <3>1. nm[n] + 1 \in 1..NumFiles
      BY <2>1, LayoutIs DEF Inodes
    <3>2. Spelling(nm[n]) \in Names
      BY <3>1, NumeralsAre DEF Spelling
    <3>3. QED
      BY <2>1, <3>2, NumberSpelt DEF PlainNames
  <2> DEFINE w == Spelling(nm[n])
  <2>3. CASE n = ""
    <3>1. LineOf(nm, n) = <<w>>
      BY <1>2, <2>3 DEF LineOf
    <3>2. n \notin FileNames
      BY <2>3 DEF PlainNames
    <3> HIDE DEF w
    <3>3. <<w>> \in Seq(Names) /\ Len(<<w>>) = 1 /\ \A p \in 1..1 : <<w>>[p] = w
      BY <2>2 DEF w
    <3>4. Follow(<<w>>, nm)
      BY <2>2, <3>3 DEF Follow, w
    <3>5. QED
      BY <3>1, <3>2, <3>3, <3>4
  <2>4. CASE n # ""
    <3>1. LineOf(nm, n) = <<n, w>>
      BY <1>2, <2>4 DEF LineOf
    <3> DEFINE l == <<n, w>>
    <3>2. w = Spelling(nm[n])
      OBVIOUS
    <3> HIDE DEF w
    <3>3. l \in Seq(Names) /\ Len(l) = 2 /\ l[1] = n /\ l[2] = w
      BY <2>1, <2>2, <3>2
    <3> HIDE DEF l
    <3>4. ASSUME NEW p \in 1..Len(l), l[p] \in FileNames
          PROVE  /\ l[p] \in DOMAIN nm /\ p + 1 \in 1..Len(l) /\ l[p + 1] = Spelling(nm[l[p]])
      <4>1. p = 1 \/ p = 2
        BY <3>3
      <4>2. p = 1
        BY <2>2, <3>2, <3>3, <3>4, <4>1
      <4>3. QED
        BY <1>2, <3>2, <3>3, <4>2
    <3>5. Follow(l, nm)
      BY <3>4 DEF Follow
    <3>6. There(l, n)
      BY <3>3 DEF There
    <3>7. QED
      BY <3>1, <3>3, <3>5, <3>6 DEF l
  <2>5. QED
    BY <2>3, <2>4
<1>3. QED
  BY <1>1, <1>2

(* So is NAME_MAP.                                                         *)
LEMMA SavedFollows ==
  ASSUME PlainNames, NEW nm, NameMaps(nm)
  PROVE  /\ Follow(SavedNames(nm), nm)
         /\ \A n \in DOMAIN nm \cap FileNames : There(SavedNames(nm), n)
<1> DEFINE ss == [k \in DOMAIN NameOrder |-> LineOf(nm, NameOrder[k])]
<1>1. NameOrder \in Seq(STRING) /\ DOMAIN NameOrder = 1..Len(NameOrder) /\ Len(NameOrder) \in Nat
  BY NameAssumption DEF NameAssumption
<1>2. SavedNames(nm) = SeqsExt!FlattenSeq(ss)
  BY DEF SavedNames
<1>3. \A k \in 1..Len(NameOrder) : ss[k] = LineOf(nm, NameOrder[k])
  BY <1>1
<1>4. ss \in Seq(Seq(Names)) /\ Len(ss) = Len(NameOrder)
  <2>1. ss \in [1..Len(NameOrder) -> Seq(Names)]
    BY <1>1, LineFollows
  <2> HIDE DEF ss
  <2>2. QED
    BY <1>1, <2>1
<1> HIDE DEF ss
<1>5. ASSUME NEW n \in DOMAIN nm \cap FileNames
      PROVE  \E k \in 1..Len(ss) : n = NameOrder[k]
  BY <1>1, <1>4, <1>5 DEF NameMaps, Names
<1>6. CASE ss = << >>
  <2>1. SeqsExt!FlattenSeq(ss) = << >>
    BY <1>6 DEF SeqsExt!FlattenSeq
  <2>2. Follow(<< >>, nm)
    BY DEF Follow
  <2>3. Len(ss) = 0
    BY <1>6
  <2>4. QED
    BY <1>2, <1>5, <2>1, <2>2, <2>3
<1>7. CASE ss # << >>
  <2>1. PICK g \in [0..Len(ss) -> Seq(Names)] :
          Appends(g, ss) /\ SeqsExt!FlattenSeq(ss) = g[Len(ss)]
    BY <1>4, <1>7, FlattenIs
  <2> DEFINE Fine(k) == Follow(g[k], nm) /\ \A j \in 1..k :
                          NameOrder[j] \in DOMAIN nm \cap FileNames => There(g[k], NameOrder[j])
             S == {k \in 0..Len(ss) : Fine(k)}
  <2>2. Len(ss) \in Nat
    BY <1>4
  <2>3. 0 \in S
    <3>1. g[0] = << >>
      BY <2>1 DEF Appends
    <3>2. Fine(0)
      BY <3>1 DEF Follow
    <3>3. QED
      BY <2>2, <3>2
  <2>4. ASSUME NEW k \in 0..(Len(ss) - 1), k \in S
        PROVE  k + 1 \in S
    <3>1. k + 1 \in 1..Len(ss) /\ k \in 0..Len(ss) /\ (k + 1) - 1 = k
      BY <2>2
    <3>2. g[k + 1] = g[k] \o ss[k + 1] /\ g[k] \in Seq(Names) /\ ss[k + 1] \in Seq(Names)
      <4>1. g[k + 1] = g[(k + 1) - 1] \o ss[k + 1]
        BY <2>1, <3>1 DEF Appends
      <4>2. ss[k + 1] \in Seq(Names)
        BY <1>4, <3>1
      <4>3. QED
        BY <2>1, <3>1, <4>1, <4>2
    <3>3. Fine(k)
      BY <2>4
    <3>4. /\ Follow(ss[k + 1], nm)
          /\ NameOrder[k + 1] \in DOMAIN nm \cap FileNames => There(ss[k + 1], NameOrder[k + 1])
      <4>1. ss[k + 1] = LineOf(nm, NameOrder[k + 1])
        BY <1>3, <1>4, <3>1
      <4>2. QED
        BY <4>1, LineFollows
    <3>5. /\ Follow(g[k + 1], nm)
          /\ \A n : There(g[k], n) \/ There(ss[k + 1], n) => There(g[k + 1], n)
      BY <3>2, <3>3, <3>4, FollowBoth
    <3>6. ASSUME NEW j \in 1..(k + 1), NameOrder[j] \in DOMAIN nm \cap FileNames
          PROVE  There(g[k + 1], NameOrder[j])
      <4>1. CASE j = k + 1
        BY <3>4, <3>5, <3>6, <4>1
      <4>2. CASE j # k + 1
        <5>1. j \in 1..k
          BY <3>1, <4>2
        <5>2. QED
          BY <3>3, <3>5, <3>6, <5>1
      <4>3. QED
        BY <4>1, <4>2
    <3>7. QED
      BY <3>1, <3>5, <3>6
  <2>5. Len(ss) \in S
    <3> HIDE DEF S
    <3>1. \A k \in 0..Len(ss) : k \in S
      BY <2>2, <2>3, <2>4, UpTo
    <3>2. QED
      BY <2>2, <3>1
  <2>6. Fine(Len(ss))
    BY <2>5
  <2>7. QED
    BY <1>2, <1>5, <2>1, <2>6
<1>8. QED
  BY <1>6, <1>7

(* A mount finds each file under its name, and no other under one.         *)
LEMMA NamesReturn ==
  ASSUME PlainNames, NEW nm, NameMaps(nm), NamesLoad(SavedNames(nm))
  PROVE  /\ DOMAIN LoadedNames(SavedNames(nm)) \cap FileNames = DOMAIN nm \cap FileNames
         /\ \A n \in DOMAIN nm \cap FileNames : LoadedNames(SavedNames(nm))[n] = nm[n]
<1> DEFINE words == SavedNames(nm)
<1>1. words \in Seq(Names) /\ Follow(words, nm) /\ NamesLoad(words)
      /\ \A n \in DOMAIN nm \cap FileNames : There(words, n)
  BY SavedNamesAre, SavedFollows
<1> HIDE DEF words
<1>2. DOMAIN words = 1..Len(words) /\ Len(words) \in Nat
  BY <1>1
<1>3. ASSUME NEW p \in 1..Len(words), words[p] \in FileNames
      PROVE  p % 2 = 1
  <2>1. ~IsNumeral(words[p])
    BY <1>3 DEF PlainNames
  <2>2. p % 2 # 0
    BY <1>1, <1>2, <2>1 DEF NamesLoad
  <2>3. QED
    BY <1>2, <2>2
<1>4. CASE words = << >>
  <2>1. LoadedNames(words) = [n \in {""} |-> 0]
    BY <1>4 DEF LoadedNames
  <2>2. "" \notin FileNames
    BY DEF PlainNames
  <2>3. Len(words) = 0
    BY <1>4
  <2>4. DOMAIN nm \cap FileNames = {}
    BY <1>1, <2>3 DEF There
  <2>5. QED
    BY <2>1, <2>2, <2>4 DEF words
<1>5. CASE words # << >>
  <2> DEFINE at == {k \in DOMAIN words : k % 2 = 1}
             after(k) == IF k + 1 <= Len(words) THEN NumberOf(words[k + 1])
                         ELSE IF k = 1 THEN 0 ELSE NumberOf(words[k - 1])
             first(n) == CHOOSE k \in at :
                           words[k] = n /\ \A j \in at : words[j] = n => k <= j
             lm == [n \in {words[k] : k \in at} |-> after(first(n))]
  <2>1. LoadedNames(words) = lm
    BY <1>5 DEF LoadedNames
  <2>2. DOMAIN lm \cap FileNames = DOMAIN nm \cap FileNames
    <3>1. ASSUME NEW k \in at, words[k] \in FileNames
          PROVE  words[k] \in DOMAIN nm
      BY <1>1, <1>2, <3>1 DEF Follow
    <3>2. ASSUME NEW n \in DOMAIN nm \cap FileNames
          PROVE  \E k \in at : words[k] = n
      <4>1. PICK p \in 1..Len(words) : words[p] = n
        BY <1>1 DEF There
      <4>2. QED
        BY <1>2, <1>3, <4>1
    <3>3. DOMAIN lm = {words[k] : k \in at}
      OBVIOUS
    <3>4. QED
      BY <3>1, <3>2, <3>3
  <2>3. ASSUME NEW n \in DOMAIN nm \cap FileNames
        PROVE  lm[n] = nm[n]
    <3>1. n \in {words[k] : k \in at}
      BY <2>2
    <3>2. first(n) \in at /\ words[first(n)] = n
      <4> DEFINE M == {k \in at : words[k] = n}
      <4>1. M \in SUBSET Nat /\ M # {}
        BY <1>2, <3>1
      <4>2. \E k \in M : \A j \in M : k <= j
        <5> HIDE DEF M
        <5>1. QED
          BY <4>1, LeastNumber
      <4>3. \E k \in at : words[k] = n /\ \A j \in at : words[j] = n => k <= j
        BY <4>2
      <4>4. QED
        BY <4>3
    <3>3. lm[n] = after(first(n))
      BY <3>1
    <3> HIDE DEF first
    <3>4. first(n) \in 1..Len(words)
      BY <1>2, <3>2
    <3>5. first(n) + 1 \in 1..Len(words) /\ words[first(n) + 1] = Spelling(nm[n])
      BY <1>1, <3>2, <3>4 DEF Follow
    <3>6. after(first(n)) = NumberOf(Spelling(nm[n]))
      BY <1>2, <3>5
    <3>7. nm[n] \in Inodes
      BY DEF NameMaps
    <3>8. QED
      BY <3>3, <3>6, <3>7, NumberSpelt
  <2>4. QED
    BY <2>1, <2>2, <2>3 DEF words
<1>6. QED
  BY <1>4, <1>5

-----------------------------------------------------------------------------
(* The files of a drive that is not cleaned, when the names of files are   *)
(* words that are no numbers.                                              *)

HoldsData(a, i, k, m, d, g) ==
  Holds(a, m, d, g, "DATA", i) /\ CellOf(a, m, d).index = k

(* An inode's pointers lead to its own blocks.                             *)
OwnBlocks(b, i, m, d, g) ==
  \A k \in 0..(MaxData - 1) : BlockSize * k < FileSize(b) =>
    HoldsData(b.ptrs[k], i, k, m, d, g)

AllOwn(im, m, d, g) ==
  \A i \in Inodes : im[i] # Nil => OwnBlocks(CellOf(im[i], m, d).block, i, m, d, g)

ToDo(todo, k) == \E j \in 1..Len(todo) : todo[j][1] = k

(* So do those of the inode being made, but for what is still to be        *)
(* written.                                                                *)
MadeOwn(b, i, todo, m, d, g) ==
  \A k \in 0..(MaxData - 1) : BlockSize * k < FileSize(b) =>
    ToDo(todo, k) \/ HoldsData(b.ptrs[k], i, k, m, d, g)

NamesHold(nm, im, w, m, d) ==
  \A n \in DOMAIN nm \cap FileNames : NameHolds(nm, n, im, w, m, d)

WorkHolds(w, m, d, g) ==
  /\ w # Idle => w.entry = w.ino
  /\ w.pc = "inode" => w.todo = << >>
  /\ Making(w) => MadeOwn(w.node, w.ino, w.todo, m, d, g)

FilesHold ==
  /\ ImapHolds /\ AllOwn(imap, mem, disk, dirty)
  /\ NamesHold(nameMap, imap, work, mem, disk)
  /\ WorkHolds(work, mem, disk, dirty)

FilesInv == status \in Open => FilesHold

(* What a block number given to a block leads to is a cell.                *)
LEMMA PlacedCell ==
  ASSUME SegmentTyped, NEW a \in Addr, Placed(a, mem, dirty)
  PROVE  CellOf(a, mem, disk) \in Cells /\ CellOf(a, mem, disk).block \in Block
<1>1. a[2] \in Slots /\ a[1] \in Segs
  BY DEF Placed, Addr
<1>2. mem.cells \in Image /\ disk \in [Segs -> Image]
  BY MemoryFields DEF SegmentTyped
<1>3. mem.cells[a[2]] \in Cells /\ disk[a[1]][a[2]] \in Cells
  BY <1>1, <1>2, ImageSet
<1>4. QED
  BY <1>3 DEF CellOf, Cells

(* The blocks of an inode stay its own when nothing is lost.               *)
LEMMA DataKept ==
  ASSUME Keeps, NEW a \in Addr, NEW i, NEW k, HoldsData(a, i, k, mem, disk, dirty)
  PROVE  /\ HoldsData(a, i, k, mem', disk', dirty')
         /\ CellOf(a, mem', disk') = CellOf(a, mem, disk)
BY DEF HoldsData, Holds, Keeps

(* All the blocks of an inode.                                            *)
LEMMA OwnKept ==
  ASSUME Keeps, NEW b \in Block, NEW i, OwnBlocks(b, i, mem, disk, dirty)
  PROVE  OwnBlocks(b, i, mem', disk', dirty')
<1>1. \A k \in 0..(MaxData - 1) : b.ptrs[k] \in Addr
  BY BlockFields DEF Pointers
<1>2. QED
  BY <1>1, DataKept DEF OwnBlocks

(* So do all inodes, but for one that changes.                             *)
LEMMA InodeKept ==
  ASSUME SegmentTyped, ImapHolds, AllOwn(imap, mem, disk, dirty), Keeps,
         NEW i \in Inodes, imap[i] # Nil
  PROVE  /\ imap[i] \in Addr /\ Placed(imap[i], mem, dirty)
         /\ CellOf(imap[i], mem, disk).block \in Block
         /\ CellOf(imap[i], mem', disk') = CellOf(imap[i], mem, disk)
         /\ OwnBlocks(CellOf(imap[i], mem', disk').block, i, mem', disk', dirty')
<1>1. imap[i] \in Addr /\ Placed(imap[i], mem, dirty)
  <2>1. imap \in [Inodes -> Addr]
    BY DEF SegmentTyped
  <2>2. QED
    BY <2>1 DEF ImapHolds, Sound, Holds
<1>2. CellOf(imap[i], mem, disk).block \in Block
  BY <1>1, PlacedCell
<1>3. CellOf(imap[i], mem', disk') = CellOf(imap[i], mem, disk)
  BY <1>1 DEF Keeps
<1>4. OwnBlocks(CellOf(imap[i], mem, disk).block, i, mem', disk', dirty')
  BY <1>2, OwnKept DEF AllOwn
<1>5. QED
  BY <1>1, <1>2, <1>3, <1>4

(* The inode at hand keeps the blocks it has.                              *)
LEMMA MadeKept ==
  ASSUME Keeps, NEW b \in Block, NEW i, NEW todo, NEW rest,
         MadeOwn(b, i, todo, mem, disk, dirty), \A k : ToDo(todo, k) => ToDo(rest, k)
  PROVE  MadeOwn(b, i, rest, mem', disk', dirty')
<1>1. \A k \in 0..(MaxData - 1) : b.ptrs[k] \in Addr
  BY BlockFields DEF Pointers
<1>2. QED
  BY <1>1, DataKept DEF MadeOwn

(* A block that is written is the inode's own.                             *)
LEMMA MadeSet ==
  ASSUME SegmentTyped, NEW c \in Cells, Put(c), NEW b \in Block, NEW i, NEW k \in 0..(MaxData - 1),
         NEW todo, NEW rest, NEW new, new = [b EXCEPT !.ptrs[k] = Here],
         c.type = "DATA", c.id = i, c.index = k,
         MadeOwn(b, i, todo, mem, disk, dirty), \A j : ToDo(todo, j) /\ j # k => ToDo(rest, j)
  PROVE  MadeOwn(new, i, rest, mem', disk', dirty')
<1>1. /\ Keeps /\ Here \in Addr /\ Placed(Here, mem', dirty') /\ CellOf(Here, mem', disk') = c
  BY PutKeeps
<1>2. /\ b.ptrs \in Pointers /\ new.ptrs = [b.ptrs EXCEPT ![k] = Here]
      /\ new.complete = b.complete /\ new.incomplete = b.incomplete
  BY BlockFields
<1>3. FileSize(new) = FileSize(b)
  BY <1>2 DEF FileSize
<1>4. ASSUME NEW j \in 0..(MaxData - 1), BlockSize * j < FileSize(b)
      PROVE  ToDo(rest, j) \/ HoldsData(new.ptrs[j], i, j, mem', disk', dirty')
  <2>1. CASE j = k
    <3>1. new.ptrs[j] = Here
      BY <1>2, <2>1 DEF Pointers
    <3>2. QED
      BY <1>1, <2>1, <3>1 DEF HoldsData, Holds
  <2>2. CASE j # k
    <3>1. new.ptrs[j] = b.ptrs[j] /\ b.ptrs[j] \in Addr
      BY <1>2, <2>2 DEF Pointers
    <3>2. ToDo(todo, j) \/ HoldsData(b.ptrs[j], i, j, mem, disk, dirty)
      BY <1>4 DEF MadeOwn
    <3>3. QED
      BY <1>1, <2>2, <3>1, <3>2, DataKept
  <2>3. QED
    BY <2>1, <2>2
<1>5. QED
  BY <1>3, <1>4 DEF MadeOwn

(* The size of a file that is imported.                                    *)
LEMMA NewSize ==
  ASSUME NEW name \in Names, NEW src \in Seq(Nat)
  PROVE  /\ FileSize(NewNode(name, src)) =
              IF Len(src) >= MaxSize THEN MaxSize
              ELSE IF Len(src) % BlockSize = 0 THEN Len(src) + BlockSize ELSE Len(src)
         /\ FileSize(NewNode(name, src)) <= BlockSize * BlocksRead(src)
<1> DEFINE len  == Len(src)
           n    == BlocksRead(src)
           q    == len \div BlockSize
           r    == len % BlockSize
           short == IF len >= MaxSize THEN 0 ELSE r
           full == IF short = 0 THEN n ELSE n - 1
           size == FileSize(NewNode(name, src))
<1>1. /\ len \in Nat /\ q \in Nat /\ r \in 0..(BlockSize - 1) /\ len = BlockSize * q + r
  <2>1. len \in Nat
    OBVIOUS
  <2> HIDE DEF len
  <2>2. QED
    BY <2>1, Blocks
<1>2. BlockSize \in Nat \ {0} /\ MaxData \in Nat \ {0} /\ MaxSize = BlockSize * MaxData
      /\ MaxSize \in Nat
  BY LayoutIs, MaxSizeIs
<1>3. n = IF MaxData <= q + 1 THEN MaxData ELSE q + 1
  BY DEF BlocksRead, SmallerOf
<1>4. size = full * BlockSize + short
  BY DEF NewNode, FileSize, ZeroBlock
<1> HIDE DEF len, n, q, size
<1>5. len < MaxSize => q < MaxData
  <2>1. len < MaxSize => BlockSize * q < BlockSize * MaxData
    <3>1. BlockSize * q \in Nat
      BY <1>1, <1>2
    <3>2. QED
      BY <1>1, <1>2, <3>1
  <2>2. QED
    BY <1>1, <1>2, <2>1, Factors
<1>6. len >= MaxSize => q >= MaxData
  <2>1. ASSUME q < MaxData PROVE len < MaxSize
    <3>1. BlockSize * (q + 1) <= BlockSize * MaxData
      BY <1>1, <1>2, <2>1
    <3>2. BlockSize * (q + 1) = BlockSize * q + BlockSize /\ BlockSize * q \in Nat
      BY <1>1, <1>2, Factors
    <3>3. QED
      BY <1>1, <1>2, <3>1, <3>2
  <2>2. QED
    BY <1>1, <1>2, <2>1
<1> HIDE DEF r
<1>7. CASE len >= MaxSize
  <2>1. n = MaxData /\ short = 0 /\ full = n
    BY <1>1, <1>2, <1>3, <1>6, <1>7
  <2>2. size = MaxData * BlockSize
    <3> HIDE DEF full, short
    <3>1. QED
      BY <1>2, <1>4, <2>1
  <2>3. MaxData * BlockSize = BlockSize * MaxData
    BY <1>2
  <2>4. QED
    BY <1>2, <1>7, <2>1, <2>2, <2>3 DEF len, n, size
<1>8. CASE ~(len >= MaxSize)
  <2>1. n = q + 1 /\ short = r
    BY <1>1, <1>2, <1>3, <1>5, <1>8
  <2>2. BlockSize * (q + 1) = BlockSize * q + BlockSize /\ BlockSize * q \in Nat
        /\ q * BlockSize = BlockSize * q /\ (q + 1) * BlockSize = BlockSize * (q + 1)
    BY <1>1, <1>2, Factors
  <2>3. CASE r = 0
    <3>1. full = q + 1
      BY <1>1, <2>1, <2>3
    <3> HIDE DEF full, short
    <3>2. size = len + BlockSize
      BY <1>1, <1>2, <1>4, <2>1, <2>2, <2>3, <3>1
    <3>3. size <= BlockSize * n
      BY <1>1, <1>2, <2>1, <2>2, <2>3, <3>2
    <3>4. QED
      BY <1>8, <2>3, <3>2, <3>3 DEF len, n, r, size
  <2>4. CASE r # 0
    <3>1. full = q
      BY <1>1, <2>1, <2>4
    <3> HIDE DEF full, short
    <3>2. size = len
      BY <1>1, <1>2, <1>4, <2>1, <2>2, <2>4, <3>1
    <3>3. size <= BlockSize * n
      BY <1>1, <1>2, <2>1, <2>2, <2>4, <3>2
    <3>4. QED
      BY <1>8, <2>4, <3>2, <3>3 DEF len, n, r, size
  <2>5. QED
    BY <2>3, <2>4
<1>9. QED
  BY <1>7, <1>8

(* import has every block of its file to write.                            *)
LEMMA ImportCovers ==
  ASSUME NEW name \in Names, NEW src \in Seq(Nat), NEW k \in Nat,
         BlockSize * k < FileSize(NewNode(name, src))
  PROVE  /\ k + 1 \in 1..BlocksRead(src)
         /\ ImportTasks(src)[k + 1] = <<k, SourceBlock(src, k)>>
         /\ ToDo(ImportTasks(src), k)
<1> DEFINE n == BlocksRead(src)
           size == FileSize(NewNode(name, src))
<1>1. n \in Nat /\ BlockSize \in Nat \ {0}
  BY BlocksReadIs, LayoutIs
<1>2. size \in Nat
  BY NewNodeIs, BlockFields
<1>3. size <= BlockSize * n /\ BlockSize * k < size
  BY NewSize
<1> HIDE DEF n, size
<1>4. BlockSize * k < BlockSize * n
  <2>1. BlockSize * k \in Nat /\ BlockSize * n \in Nat
    BY <1>1
  <2>2. QED
    BY <1>2, <1>3, <2>1
<1>5. k < n
  BY <1>1, <1>4, Factors
<1>6. k + 1 \in 1..n /\ (k + 1) - 1 = k
  BY <1>1, <1>5
<1>7. ImportTasks(src)[k + 1] = <<k, SourceBlock(src, k)>>
  BY <1>6 DEF ImportTasks, n
<1>8. Len(ImportTasks(src)) = n
  BY ImportTasksAre DEF n
<1>9. QED
  BY <1>6, <1>7, <1>8 DEF ToDo, n

-----------------------------------------------------------------------------
(* What a checkpoint has of them.                                          *)

(* A checkpoint whose files are in the segment files.                      *)
SavedBlocks(b, i, k, d) ==
  \A j \in 0..(MaxData - 1) : BlockSize * j < FileSize(b) =>
    Saved(b.ptrs[j], k, d, "DATA", i) /\ InFile(b.ptrs[j], d).index = j

SavedFiles(k, d) ==
  \A i \in Inodes : SavedAt(k, d, i) # Nil =>
    /\ Saved(SavedAt(k, d, i), k, d, "INODE", i)
    /\ SavedBlocks(InFile(SavedAt(k, d, i), d).block, i, k, d)

SavedNamed(k, nm, d) ==
  \A n \in DOMAIN nm \cap FileNames :
    SavedAt(k, d, nm[n]) # Nil /\ InFile(SavedAt(k, d, nm[n]), d).block.name = n

Closing == Checkpoint("full", leaveOff, dirty, cr)

SavedInv ==
  /\ status \in {"named", "flushed"} => nameFile = SavedNames(nameMap)
  /\ status = "flushed" =>
       /\ \A i \in Inodes : SavedAt(Closing, disk, i) = imap[i]
       /\ SavedFiles(Closing, disk) /\ SavedNamed(Closing, nameMap, disk)
  /\ ckpt.kind = "full" => SavedFiles(ckpt, disk)
  /\ ckpt.kind = "full" /\ NamesLoad(nameFile) =>
       SavedNamed(ckpt, LoadedNames(nameFile), disk)
  /\ status = "up" /\ ckpt.kind = "full" => Mountable

(* What a checkpoint needs is a cell.                                      *)
LEMMA InFileIs ==
  ASSUME SegmentTyped, NEW a \in Addr, a[2] \in Slots
  PROVE  InFile(a, disk) \in Cells /\ InFile(a, disk).block \in Block
         /\ DiskBlock(a) = InFile(a, disk).block
<1>1. a[1] \in Segs /\ disk \in [Segs -> Image]
  BY DEF Addr, SegmentTyped
<1>2. disk[a[1]] \in Image
  BY <1>1
<1>3. QED
  BY <1>2, ImageSet DEF InFile, DiskBlock

(* A mount finds the files that were saved.                                *)
LEMMA FilesMount ==
  ASSUME TypeInv, SavedInv, CkptInv(TRUE), Mount
  PROVE  FilesHold'
<1>1. /\ SegmentTyped /\ cl.pc = "off" /\ cl' = cl /\ work' = Idle /\ ckpt.kind = "full"
      /\ imap' = SavedImap /\ NamesLoad(nameFile) /\ nameMap' = LoadedNames(nameFile)
      /\ \A n \in DOMAIN nameMap' : nameMap'[n] \in Inodes
  <2>1. nameFile \in Seq(Names)
    BY DEF TypeInv, FilesTyped
  <2>2. NameMaps(LoadedNames(nameFile))
    BY <2>1, LoadedNamesAre, MountIs
  <2>3. QED
    BY <2>2, MountIs DEF TypeInv, NameMaps
<1>2. SavedSound(ckpt, disk) /\ SavedFiles(ckpt, disk) /\ SavedNamed(ckpt, nameMap', disk)
  BY <1>1 DEF CkptInv, SavedInv
<1>3. ASSUME NEW i \in Inodes
      PROVE  imap'[i] = SavedAt(ckpt, disk, i) /\ imap'[i] \in Addr
  BY <1>1, <1>2, SavedImapAt
<1>4. ASSUME NEW a \in Addr, NEW t, NEW i, Saved(a, ckpt, disk, t, i)
      PROVE  /\ Holds(a, mem', disk', dirty', t, i) /\ CellOf(a, mem', disk') = InFile(a, disk)
             /\ InFile(a, disk).block \in Block
  <2>1. Behind(a, ckpt) /\ a[2] \in Slots
    BY <1>4 DEF Saved, Behind
  <2>2. Placed(a, mem', dirty') /\ CellOf(a, mem', disk') = InFile(a, disk)
    BY <2>1, MountReads
  <2>3. QED
    BY <1>1, <1>4, <2>1, <2>2, InFileIs DEF Holds, Saved
<1>5. ASSUME NEW i \in Inodes, imap'[i] # Nil
      PROVE  /\ Holds(imap'[i], mem', disk', dirty', "INODE", i)
             /\ OwnBlocks(CellOf(imap'[i], mem', disk').block, i, mem', disk', dirty')
  <2>1. PICK a \in Addr : a = imap'[i] /\ a = SavedAt(ckpt, disk, i) /\ a # Nil
    BY <1>3, <1>5
  <2> DEFINE b == InFile(a, disk).block
  <2>2. Saved(a, ckpt, disk, "INODE", i) /\ SavedBlocks(b, i, ckpt, disk)
    BY <1>2, <2>1 DEF SavedFiles
  <2>3. /\ Holds(a, mem', disk', dirty', "INODE", i) /\ CellOf(a, mem', disk').block = b
        /\ b \in Block
    BY <1>4, <2>2
  <2> HIDE DEF b
  <2>4. ASSUME NEW j \in 0..(MaxData - 1), BlockSize * j < FileSize(b)
        PROVE  HoldsData(b.ptrs[j], i, j, mem', disk', dirty')
    <3>1. PICK p \in Addr : p = b.ptrs[j]
      BY <2>3, BlockFields DEF Pointers
    <3>2. Saved(p, ckpt, disk, "DATA", i) /\ InFile(p, disk).index = j
      BY <2>2, <2>4, <3>1 DEF SavedBlocks
    <3>3. QED
      BY <1>4, <3>1, <3>2 DEF HoldsData
  <2>5. QED
    BY <2>1, <2>3, <2>4 DEF OwnBlocks
<1>6. DOMAIN imap' = Inodes
  BY <1>1 DEF SavedImap
<1>7. ImapHolds' /\ AllOwn(imap', mem', disk', dirty')
  BY <1>1, <1>5, <1>6 DEF ImapHolds, Sound, AllOwn
<1>8. ASSUME NEW n \in DOMAIN nameMap' \cap FileNames
      PROVE  NameHolds(nameMap', n, imap', work', mem', disk')
  <2>1. PICK i \in Inodes : i = nameMap'[n]
    BY <1>1
  <2>2. PICK a \in Addr : a = imap'[i] /\ a = SavedAt(ckpt, disk, i)
    BY <1>3
  <2>3. a # Nil /\ InFile(a, disk).block.name = n
    BY <1>2, <2>1, <2>2 DEF SavedNamed
  <2>4. Saved(a, ckpt, disk, "INODE", i)
    BY <1>2, <2>2, <2>3 DEF SavedFiles
  <2>5. CellOf(a, mem', disk').block.name = n
    BY <1>4, <2>3, <2>4
  <2>6. ~Making(work')
    BY <1>1, IdleIs DEF Making
  <2>7. QED
    BY <2>1, <2>2, <2>3, <2>5, <2>6 DEF NameHolds
<1>9. WorkHolds(work', mem', disk', dirty')
  BY <1>1, IdleIs DEF WorkHolds, Making
<1>10. QED
  BY <1>7, <1>8, <1>9 DEF FilesHold, NamesHold

-----------------------------------------------------------------------------
(* The files through the steps.                                            *)

(* The files, and what each name leads to, when no inode is written.       *)
LEMMA FilesStay ==
  ASSUME TypeInv, FilesHold, Keeps, cl' = cl \/ cl'.pc # "move", UNCHANGED <<imap, nameMap>>,
         \/ ~Making(work) /\ ~Making(work')
         \/ Making(work) /\ Making(work') /\ work'.ino = work.ino
            /\ work'.node.name = work.node.name,
         WorkHolds(work', mem', disk', dirty')
  PROVE  FilesHold'
<1>0. imap \in [Inodes -> Addr] /\ SegmentTyped /\ \A n \in DOMAIN nameMap : nameMap[n] \in Inodes
  BY DEF TypeInv, SegmentTyped, FilesTyped, NameMaps
<1>1. ImapHolds'
  <2>1. Sound(imap, "INODE", cl'.inos, mem', disk', dirty', cl')
    BY <1>0, SoundKept DEF ImapHolds, FilesHold
  <2>2. QED
    BY <2>1 DEF ImapHolds
<1>2. AllOwn(imap', mem', disk', dirty')
  BY <1>0, InodeKept DEF FilesHold, AllOwn
<1>3. ASSUME NEW n \in DOMAIN nameMap \cap FileNames
      PROVE  NameHolds(nameMap', n, imap', work', mem', disk')
  <2>1. NameHolds(nameMap, n, imap, work, mem, disk)
    BY DEF FilesHold, NamesHold
  <2>2. CASE Making(work) /\ work.ino = nameMap[n]
    BY <2>1, <2>2 DEF NameHolds
  <2>3. CASE ~(Making(work) /\ work.ino = nameMap[n])
    <3>1. imap[nameMap[n]] # Nil /\ CellOf(imap[nameMap[n]], mem, disk).block.name = n
      BY <2>1, <2>3 DEF NameHolds
    <3>2. CellOf(imap[nameMap[n]], mem', disk') = CellOf(imap[nameMap[n]], mem, disk)
      BY <1>0, <3>1, InodeKept DEF FilesHold
    <3>3. ~(Making(work') /\ work'.ino = nameMap'[n])
      BY <2>3
    <3>4. QED
      BY <3>1, <3>2, <3>3 DEF NameHolds
  <2>4. QED
    BY <2>2, <2>3
<1>4. QED
  BY <1>1, <1>2, <1>3 DEF FilesHold, NamesHold

(* Between commands a file's inode bears its name, and has its blocks.     *)
LEMMA FileRead ==
  ASSUME TypeInv, FilesHold, ~Making(work), NEW n \in DOMAIN nameMap \cap FileNames
  PROVE  /\ nameMap[n] \in Inodes /\ imap[nameMap[n]] # Nil /\ imap[nameMap[n]] \in Addr
         /\ Placed(imap[nameMap[n]], mem, dirty)
         /\ BlockAt(imap[nameMap[n]]) = CellOf(imap[nameMap[n]], mem, disk).block
         /\ BlockAt(imap[nameMap[n]]) \in Block
         /\ BlockAt(imap[nameMap[n]]).name = n
         /\ OwnBlocks(BlockAt(imap[nameMap[n]]), nameMap[n], mem, disk, dirty)
<1>1. NameHolds(nameMap, n, imap, work, mem, disk)
  BY DEF FilesHold, NamesHold
<1>2. nameMap[n] \in Inodes /\ SegmentTyped /\ imap \in [Inodes -> Addr]
  BY DEF TypeInv, FilesTyped, NameMaps, SegmentTyped
<1>3. imap[nameMap[n]] # Nil /\ CellOf(imap[nameMap[n]], mem, disk).block.name = n
  BY <1>1 DEF NameHolds
<1>4. imap[nameMap[n]] \in Addr /\ Placed(imap[nameMap[n]], mem, dirty)
  BY <1>2, <1>3 DEF FilesHold, ImapHolds, Sound, Holds
<1>5. BlockAt(imap[nameMap[n]]) = CellOf(imap[nameMap[n]], mem, disk).block
  BY <1>4, ReadPlaced
<1>6. BlockAt(imap[nameMap[n]]) \in Block
  BY <1>2, <1>4, BlocksAre
<1>7. OwnBlocks(BlockAt(imap[nameMap[n]]), nameMap[n], mem, disk, dirty)
  BY <1>2, <1>3, <1>5 DEF FilesHold, AllOwn
<1>8. QED
  BY <1>2, <1>3, <1>4, <1>5, <1>6, <1>7

(* An overwrite finds the file of the name it was given.                   *)
LEMMA OverwriteFindsFile ==
  ASSUME TypeInv, FilesHold,
         NEW n \in FileNames, NEW howMany \in Nat, NEW start \in Nat, NEW c \in Nat,
         Overwrite(n, howMany, start, c)
  PROVE  /\ n \in DOMAIN nameMap /\ DOMAIN nameMap' = DOMAIN nameMap
         /\ \A m \in DOMAIN nameMap : nameMap'[m] = nameMap[m]
         /\ work' # Idle /\ work'.pc = "data"
         /\ work'.ino = nameMap[n] /\ work'.entry = nameMap[n] /\ work'.node.name = n
         /\ MadeOwn(work'.node, nameMap[n], work'.todo, mem, disk, dirty)
<1> DEFINE node == BlockAt(imap[nameMap[n]])
<1>1. /\ n \in DOMAIN nameMap /\ node \in Block
      /\ work' # Idle /\ work'.pc = "data" /\ work'.ino = nameMap[n]
      /\ work'.entry = IF node.name \in DOMAIN nameMap THEN nameMap[node.name] ELSE 0
      /\ nameMap' = [m \in DOMAIN nameMap \cup {node.name} |->
                       IF m \in DOMAIN nameMap THEN nameMap[m] ELSE 0]
      /\ \E end \in 0..MaxSize :
           /\ work'.node = Resized(node, end)
           /\ \A k \in 0..(MaxData - 1) :
                BlockSize * k < end /\ FileSize(node) <= BlockSize * k =>
                  \E j \in 1..Len(work'.todo) : work'.todo[j][1] = k
  BY OverwriteIs
<1>2. ~Making(work)
  BY DEF Overwrite, Ready, Making
<1>3. node.name = n /\ OwnBlocks(node, nameMap[n], mem, disk, dirty)
  BY <1>1, <1>2, FileRead
<1> HIDE DEF node
<1>4. PICK end \in 0..MaxSize :
           /\ work'.node = Resized(node, end)
           /\ \A k \in 0..(MaxData - 1) :
                BlockSize * k < end /\ FileSize(node) <= BlockSize * k =>
                  \E j \in 1..Len(work'.todo) : work'.todo[j][1] = k
  BY <1>1
<1>5. end \in Nat /\ end <= MaxSize
  BY MaxSizeIs
<1>6. /\ work'.node.name = n /\ work'.node.ptrs = node.ptrs
      /\ FileSize(work'.node) = IF end > FileSize(node) THEN end ELSE FileSize(node)
  BY <1>1, <1>3, <1>4, <1>5, ResizedIs
<1>7. DOMAIN nameMap \cup {node.name} = DOMAIN nameMap
  BY <1>1, <1>3
<1>8. /\ DOMAIN nameMap' = DOMAIN nameMap
      /\ \A m \in DOMAIN nameMap : nameMap'[m] = nameMap[m]
  BY <1>1, <1>7
<1>9. ASSUME NEW k \in 0..(MaxData - 1), BlockSize * k < FileSize(work'.node)
      PROVE  ToDo(work'.todo, k) \/ HoldsData(work'.node.ptrs[k], nameMap[n], k, mem, disk, dirty)
  <2>1. BlockSize * k \in Nat /\ FileSize(node) \in Nat
    BY <1>1, LayoutIs, BlockFields
  <2>2. CASE BlockSize * k < FileSize(node)
    BY <1>3, <1>6, <2>2 DEF OwnBlocks
  <2>3. CASE ~(BlockSize * k < FileSize(node))
    <3>1. BlockSize * k < end /\ FileSize(node) <= BlockSize * k
      BY <1>5, <1>6, <1>9, <2>1, <2>3
    <3>2. QED
      BY <1>4, <3>1 DEF ToDo
  <2>4. QED
    BY <2>2, <2>3
<1>10. QED
  BY <1>1, <1>3, <1>6, <1>8, <1>9 DEF MadeOwn

(* A command that begins keeps the files.                                  *)
LEMMA FilesCommand ==
  ASSUME TypeInv, FilesHold, Command, status' = "up"
  PROVE  FilesHold'
<1>0. imap \in [Inodes -> Addr] /\ SegmentTyped /\ \A n \in DOMAIN nameMap : nameMap[n] \in Inodes
  BY DEF TypeInv, SegmentTyped, FilesTyped, NameMaps
<1>1. ~OutOfInodes
  BY DEF OutOfInodes, ProcessEnds
<1>2. /\ UNCHANGED <<disk, mem, dirty, cl>> /\ ~Making(work)
  BY <1>1 DEF Command, Import, Remove, Overwrite, Ready, CountCommand, segVars, Making
<1>3. CASE \E n \in FileNames, src \in Sources : Import(n, src)
  <2>1. PICK n \in FileNames, src \in Sources : Import(n, src)
    BY <1>3
  <2> DEFINE i == Least(FreeInodes)
  <2>2. /\ i \in Inodes /\ imap[i] = Nil /\ work'.pc = "data" /\ work'.ino = i /\ work'.entry = i
        /\ work'.node = NewNode(n, src) /\ work'.todo = ImportTasks(src)
        /\ nameMap' = [m \in DOMAIN nameMap \cup {n} |-> IF m = n THEN i ELSE nameMap[m]]
        /\ n \in Names /\ src \in Seq(Nat)
    BY <2>1, ImportIs
  <2>3. imap' = imap
    BY <2>1 DEF Import, segVars
  <2> HIDE DEF i
  <2>4. ImapHolds' /\ AllOwn(imap', mem', disk', dirty')
    BY <1>2, <2>3 DEF FilesHold, ImapHolds
  <2>5. ASSUME NEW m \in DOMAIN nameMap' \cap FileNames
        PROVE  NameHolds(nameMap', m, imap', work', mem', disk')
    <3>1. CASE m = n
      <4>1. Making(work') /\ work'.node.name = n
        BY <2>2, NewNodeIs DEF Making
      <4>2. QED
        BY <2>2, <3>1, <4>1 DEF NameHolds
    <3>2. CASE m # n
      <4>1. m \in DOMAIN nameMap \cap FileNames /\ nameMap'[m] = nameMap[m]
        BY <2>2, <3>2
      <4>2. imap[nameMap[m]] # Nil /\ CellOf(imap[nameMap[m]], mem, disk).block.name = m
        BY <1>2, <4>1, FileRead
      <4>3. nameMap[m] # i
        BY <2>2, <4>2
      <4>4. QED
        BY <1>2, <2>2, <2>3, <4>1, <4>2, <4>3 DEF NameHolds
    <3>3. QED
      BY <3>1, <3>2
  <2>6. MadeOwn(work'.node, work'.ino, work'.todo, mem', disk', dirty')
    <3>1. \A k \in 0..(MaxData - 1) : k \in Nat
      BY LayoutIs
    <3>2. \A k \in 0..(MaxData - 1) : BlockSize * k < FileSize(work'.node) => ToDo(work'.todo, k)
      BY <2>2, <3>1, ImportCovers
    <3>3. QED
      BY <3>2 DEF MadeOwn
  <2>7. WorkHolds(work', mem', disk', dirty')
    BY <2>2, <2>6 DEF WorkHolds
  <2>8. QED
    BY <2>4, <2>5, <2>7 DEF FilesHold, NamesHold
<1>4. CASE \E n \in FileNames : Remove(n)
  <2>1. PICK n \in FileNames : Remove(n)
    BY <1>4
  <2> DEFINE i == nameMap[n]
  <2>2. /\ n \in DOMAIN nameMap /\ i \in Inodes
        /\ nameMap' = [m \in DOMAIN nameMap \ {n} |-> nameMap[m]]
        /\ imap' = [imap EXCEPT ![i] = Nil] /\ work'.pc = "chunk"
        /\ work'.ino = i /\ work'.entry = i
    BY <2>1, RemoveIs
  <2>3. BlockAt(imap[i]).name = n
    BY <1>2, <2>2, FileRead
  <2> HIDE DEF i
  <2>4. ImapHolds'
    <3>1. Dropped(imap', imap, i)
      BY <2>2 DEF Dropped
    <3>2. Sound(imap', "INODE", cl.inos, mem, disk, dirty, cl)
      BY <1>0, <2>2, <3>1, SoundUnset DEF ImapHolds, FilesHold
    <3>3. QED
      BY <1>2, <3>2 DEF ImapHolds
  <2>5. AllOwn(imap', mem', disk', dirty')
    <3>1. ASSUME NEW j \in Inodes, imap'[j] # Nil PROVE imap'[j] = imap[j]
      BY <1>0, <2>2, <3>1
    <3>2. QED
      BY <1>2, <3>1 DEF AllOwn, FilesHold
  <2>6. ASSUME NEW m \in DOMAIN nameMap' \cap FileNames
        PROVE  NameHolds(nameMap', m, imap', work', mem', disk')
    <3>1. m \in DOMAIN nameMap \cap FileNames /\ m # n /\ nameMap'[m] = nameMap[m]
      BY <2>2
    <3>2. /\ imap[nameMap[m]] # Nil /\ CellOf(imap[nameMap[m]], mem, disk).block.name = m
          /\ BlockAt(imap[nameMap[m]]).name = m
      BY <1>2, <3>1, FileRead
    <3>3. nameMap[m] # i
      BY <2>3, <3>1, <3>2
    <3>4. imap'[nameMap[m]] = imap[nameMap[m]]
      BY <1>0, <2>2, <3>1, <3>3
    <3>5. QED
      BY <1>2, <2>2, <3>1, <3>2, <3>4 DEF NameHolds, Making
  <2>7. WorkHolds(work', mem', disk', dirty')
    BY <2>2 DEF WorkHolds, Making
  <2>8. QED
    BY <2>4, <2>5, <2>6, <2>7 DEF FilesHold, NamesHold
<1>5. CASE \E n \in FileNames, o \in Overwrites : Overwrite(n, o[1], o[2], o[3])
  <2>1. PICK n \in FileNames, o \in Overwrites : Overwrite(n, o[1], o[2], o[3])
    BY <1>5
  <2>2. o[1] \in Nat /\ o[2] \in Nat /\ o[3] \in Nat
    BY CommandAssumption
  <2>3. /\ n \in DOMAIN nameMap /\ DOMAIN nameMap' = DOMAIN nameMap
        /\ \A m \in DOMAIN nameMap : nameMap'[m] = nameMap[m]
        /\ work' # Idle /\ work'.pc = "data"
        /\ work'.ino = nameMap[n] /\ work'.entry = nameMap[n] /\ work'.node.name = n
        /\ MadeOwn(work'.node, nameMap[n], work'.todo, mem, disk, dirty)
    BY <2>1, <2>2, OverwriteFindsFile
  <2>4. imap' = imap
    BY <2>1 DEF Overwrite, segVars
  <2>5. ImapHolds' /\ AllOwn(imap', mem', disk', dirty')
    BY <1>2, <2>4 DEF FilesHold, ImapHolds
  <2>6. ASSUME NEW m \in DOMAIN nameMap' \cap FileNames
        PROVE  NameHolds(nameMap', m, imap', work', mem', disk')
    <3>1. /\ imap[nameMap[m]] # Nil /\ CellOf(imap[nameMap[m]], mem, disk).block.name = m
      BY <1>2, <2>3, FileRead
    <3>2. CellOf(imap[nameMap[n]], mem, disk).block.name = n
      BY <1>2, <2>3, FileRead
    <3>3. nameMap[m] = nameMap[n] => m = n
      BY <3>1, <3>2
    <3>4. QED
      BY <1>2, <2>3, <2>4, <3>1, <3>3 DEF NameHolds
  <2>7. WorkHolds(work', mem', disk', dirty')
    BY <1>2, <2>3 DEF WorkHolds
  <2>8. QED
    BY <2>5, <2>6, <2>7 DEF FilesHold, NamesHold
<1>6. QED
  BY <1>1, <1>3, <1>4, <1>5 DEF Command

(* What is to be done is the same after a read, and less after a write.    *)
LEMMA ToDoRead ==
  ASSUME TypeInv, ReadLast
  PROVE  \A k : ToDo(work.todo, k) => ToDo(work'.todo, k)
<1> DEFINE h == Head(work.todo)[1]
<1>1. PICK x \in Content : work'.todo = [work.todo EXCEPT ![1] = <<h, x>>]
  BY ReadLastIs
<1>2. work.todo \in Seq(Tasks) /\ Head(work.todo) = work.todo[1]
  BY HeadTask, ReadLastIs
<1>3. h = work.todo[1][1]
  BY <1>2
<1> HIDE DEF h
<1>4. ASSUME NEW j \in 1..Len(work.todo)
      PROVE  j \in 1..Len(work'.todo) /\ work'.todo[j][1] = work.todo[j][1]
  BY <1>1, <1>2, <1>3
<1>5. QED
  BY <1>4 DEF ToDo

(* A write leaves the other blocks to do, and the last one none.           *)
LEMMA ToDoWritten ==
  ASSUME TypeInv, WriteData
  PROVE  /\ work'.pc = "inode" => work'.todo = << >>
         /\ \A k : ToDo(work.todo, k) /\ k # Head(work.todo)[1] => ToDo(work'.todo, k)
<1>1. /\ work.todo \in Seq(Tasks) /\ Len(work.todo) \in Nat \ {0}
      /\ Head(work.todo) = work.todo[1]
  BY HeadTask, WriteDataIs
<1>2. /\ work'.todo = Tail(work.todo)
      /\ work'.pc = IF Len(work.todo) = 1 THEN "inode" ELSE "data"
  BY WriteDataIs
<1>3. Len(Tail(work.todo)) = Len(work.todo) - 1
      /\ \A j \in 1..(Len(work.todo) - 1) : Tail(work.todo)[j] = work.todo[j + 1]
  BY <1>1
<1>4. work'.pc = "inode" => work'.todo = << >>
  <2>1. work'.pc = "inode" => Len(work'.todo) = 0 /\ work'.todo \in Seq(Tasks)
    BY <1>1, <1>2, <1>3
  <2>2. QED
    BY <2>1
<1>5. ASSUME NEW k, NEW j \in 1..Len(work.todo), work.todo[j][1] = k, k # Head(work.todo)[1]
      PROVE  ToDo(work'.todo, k)
  <2>1. j # 1
    BY <1>1, <1>5
  <2>2. j - 1 \in 1..(Len(work.todo) - 1) /\ (j - 1) + 1 = j
    BY <1>1, <2>1
  <2>3. work'.todo[j - 1] = work.todo[j] /\ j - 1 \in 1..Len(work'.todo)
    BY <1>2, <1>3, <2>2
  <2>4. QED
    BY <1>5, <2>3 DEF ToDo
<1>6. QED
  BY <1>4, <1>5 DEF ToDo

(* The writes of a command keep the files.                                 *)
LEMMA FilesWork ==
  ASSUME TypeInv, FilesHold, status = "up",
         ReadLast \/ WriteData \/ WriteInode \/ WriteImapChunk \/ TurnSegment
  PROVE  FilesHold'
<1>0. imap \in [Inodes -> Addr] /\ SegmentTyped /\ \A n \in DOMAIN nameMap : nameMap[n] \in Inodes
  BY DEF TypeInv, SegmentTyped, FilesTyped, NameMaps
<1>1. CASE ReadLast
  <2>1. /\ work # Idle /\ Busy(work) /\ work.pc = "data" /\ work'.pc = work.pc
        /\ work'.ino = work.ino /\ work'.entry = work.entry /\ work'.node = work.node
    BY <1>1, ReadLastIs, IdleIs DEF WorkFields
  <2>2. Keeps /\ UNCHANGED <<cl, imap, nameMap>>
    BY <1>1, SameKeeps DEF ReadLast, segVars
  <2>3. work.node \in Block /\ \A k : ToDo(work.todo, k) => ToDo(work'.todo, k)
    BY <1>1, <2>1, ToDoRead DEF Busy
  <2>4. MadeOwn(work.node, work.ino, work.todo, mem, disk, dirty)
    BY <2>1 DEF FilesHold, WorkHolds, Making
  <2>5. MadeOwn(work'.node, work'.ino, work'.todo, mem', disk', dirty')
    BY <2>1, <2>2, <2>3, <2>4, MadeKept
  <2>6. WorkHolds(work', mem', disk', dirty')
    BY <2>1, <2>5 DEF WorkHolds, FilesHold
  <2>7. QED
    BY <2>1, <2>2, <2>6, FilesStay DEF Making
<1>2. CASE WriteData
  <2> DEFINE k == Head(work.todo)[1]
             c == Cell("DATA", work.ino, k, [ZeroBlock EXCEPT !.bytes = Head(work.todo)[2]])
  <2>1. /\ work # Idle /\ Busy(work) /\ work.pc = "data" /\ work'.pc \in {"data", "inode"}
        /\ work'.ino = work.ino /\ work'.entry = work.entry
        /\ work'.node = [work.node EXCEPT !.ptrs[k] = Here]
        /\ k \in 0..(MaxData - 1) /\ c \in Cells /\ Put(c)
    BY <1>2, WriteDataIs, IdleIs DEF WorkFields
  <2>2. c.type = "DATA" /\ c.id = work.ino /\ c.index = k
    BY DEF Cell
  <2>3. /\ work'.pc = "inode" => work'.todo = << >>
        /\ \A j : ToDo(work.todo, j) /\ j # k => ToDo(work'.todo, j)
    BY <1>2, ToDoWritten
  <2> HIDE DEF c, k
  <2>4. Keeps /\ UNCHANGED <<cl, imap, nameMap>>
    BY <1>0, <1>2, <2>1, PutKeeps DEF WriteData
  <2>5. MadeOwn(work.node, work.ino, work.todo, mem, disk, dirty) /\ work.node \in Block
    BY <2>1 DEF FilesHold, WorkHolds, Making, Busy
  <2>6. MadeOwn(work'.node, work'.ino, work'.todo, mem', disk', dirty')
    BY <1>0, <2>1, <2>2, <2>3, <2>5, MadeSet
  <2>7. WorkHolds(work', mem', disk', dirty')
    BY <2>1, <2>3, <2>6 DEF WorkHolds, FilesHold
  <2>8. work'.node.name = work.node.name
    BY <2>1, <2>5, BlockFields
  <2>9. QED
    BY <2>1, <2>4, <2>7, <2>8, FilesStay DEF Making
<1>3. CASE WriteInode
  <2> DEFINE i == work.entry
             c == Cell("INODE", work.ino, 0, work.node)
  <2>1. /\ work.pc = "inode" /\ Busy(work) /\ work # Idle
        /\ c \in Cells /\ Put(c)
        /\ imap' = [imap EXCEPT ![i] = Here] /\ work'.pc = "chunk"
        /\ work'.ino = work.ino /\ work'.entry = i
    BY <1>3, WriteInodeIs, IdleIs DEF WorkFields
  <2>2. c.type = "INODE" /\ c.id = work.ino /\ c.block = work.node
        /\ i \in Inodes /\ work.node \in Block
    BY <2>1 DEF Cell, Busy
  <2>3. i = work.ino /\ work.todo = << >>
        /\ MadeOwn(work.node, work.ino, work.todo, mem, disk, dirty)
    BY <2>1 DEF FilesHold, WorkHolds, Making
  <2> HIDE DEF c
  <2>4. UNCHANGED <<cl, nameMap>>
    BY <1>3 DEF WriteInode
  <2> HIDE DEF i
  <2>5. /\ Keeps /\ Here \in Addr /\ Here # Nil /\ CellOf(Here, mem', disk') = c
    BY <1>0, <2>1, PutKeeps
  <2>6. ImapHolds'
    <3>1. Written(c, "INODE", i) /\ StaysBut(i, cl.inos, cl'.inos) /\ Entered(imap', imap, i)
      <4>1. cl'.pc = "off"
        BY <1>3, <2>4, WriteInodeIs
      <4>2. QED
        BY <2>1, <2>2, <2>3, <4>1 DEF Written, StaysBut, Entered
    <3>2. Sound(imap', "INODE", cl'.inos, mem', disk', dirty', cl')
      BY <1>0, <2>2, <3>1, SoundSet DEF ImapHolds, FilesHold
    <3>3. QED
      BY <3>2 DEF ImapHolds
  <2>7. OwnBlocks(work.node, i, mem', disk', dirty')
    <3>1. OwnBlocks(work.node, i, mem, disk, dirty)
      BY <2>3 DEF MadeOwn, OwnBlocks, ToDo
    <3>2. QED
      BY <2>2, <2>5, <3>1, OwnKept
  <2>8. AllOwn(imap', mem', disk', dirty')
    <3>1. ASSUME NEW j \in Inodes, imap'[j] # Nil
          PROVE  OwnBlocks(CellOf(imap'[j], mem', disk').block, j, mem', disk', dirty')
      <4>1. CASE j = i
        BY <1>0, <2>1, <2>2, <2>5, <2>7, <4>1
      <4>2. CASE j # i
        <5>1. imap'[j] = imap[j]
          BY <1>0, <2>1, <4>2
        <5>2. QED
          BY <1>0, <2>5, <3>1, <5>1, InodeKept DEF FilesHold
      <4>3. QED
        BY <4>1, <4>2
    <3>2. QED
      BY <3>1 DEF AllOwn
  <2>9. ASSUME NEW n \in DOMAIN nameMap' \cap FileNames
        PROVE  NameHolds(nameMap', n, imap', work', mem', disk')
    <3>1. NameHolds(nameMap, n, imap, work, mem, disk) /\ nameMap[n] \in Inodes
      BY <1>0, <2>4 DEF FilesHold, NamesHold
    <3>2. CASE nameMap[n] = i
      <4>1. work.node.name = n
        BY <2>1, <2>3, <3>1, <3>2 DEF NameHolds, Making
      <4>2. imap'[nameMap[n]] = Here
        BY <1>0, <2>1, <2>2, <3>2
      <4>3. QED
        BY <2>1, <2>2, <2>4, <2>5, <4>1, <4>2 DEF NameHolds, Making
    <3>3. CASE nameMap[n] # i
      <4>1. imap[nameMap[n]] # Nil /\ CellOf(imap[nameMap[n]], mem, disk).block.name = n
        BY <2>3, <3>1, <3>3 DEF NameHolds
      <4>2. imap'[nameMap[n]] = imap[nameMap[n]]
        BY <1>0, <2>1, <3>1, <3>3
      <4>3. CellOf(imap[nameMap[n]], mem', disk') = CellOf(imap[nameMap[n]], mem, disk)
        BY <1>0, <2>5, <3>1, <4>1, InodeKept DEF FilesHold
      <4>4. QED
        BY <2>1, <2>4, <4>1, <4>2, <4>3 DEF NameHolds, Making
    <3>4. QED
      BY <3>2, <3>3
  <2>10. WorkHolds(work', mem', disk', dirty')
    BY <2>1, <2>3 DEF WorkHolds, Making
  <2>11. QED
    BY <2>6, <2>8, <2>9, <2>10 DEF FilesHold, NamesHold
<1>4. CASE WriteImapChunk
  <2>1. work.pc = "chunk" /\ work' = Idle /\ \E c \in Cells : Put(c)
    BY <1>4, WriteImapChunkIs
  <2>2. Keeps /\ UNCHANGED <<cl, imap, nameMap>>
    BY <1>0, <1>4, <2>1, PutKeeps DEF WriteImapChunk
  <2>3. ~Making(work) /\ ~Making(work') /\ WorkHolds(work', mem', disk', dirty')
    BY <2>1, IdleIs DEF Making, WorkHolds
  <2>4. QED
    BY <2>2, <2>3, FilesStay
<1>5. CASE TurnSegment
  <2>1. /\ Turn /\ cl'.pc # "move" /\ work # Idle /\ Busy(work) /\ work'.pc = work.pc
        /\ work'.ino = work.ino /\ work'.entry = work.entry /\ work'.node = work.node
        /\ work'.todo = work.todo
    BY <1>5, TurnSegmentIs DEF WorkFields
  <2>2. Keeps /\ UNCHANGED <<imap, nameMap>>
    BY <1>0, <1>5, <2>1, TurnKeeps DEF TurnSegment, TurnAndClean, Turn
  <2>3. Making(work) => MadeOwn(work'.node, work'.ino, work'.todo, mem', disk', dirty')
    <3>1. ASSUME Making(work)
          PROVE  MadeOwn(work'.node, work'.ino, work'.todo, mem', disk', dirty')
      <4>1. MadeOwn(work.node, work.ino, work.todo, mem, disk, dirty) /\ work.node \in Block
        BY <2>1, <3>1 DEF FilesHold, WorkHolds, Busy
      <4>2. QED
        BY <2>1, <2>2, <4>1, MadeKept
    <3>2. QED
      BY <3>1
  <2>4. WorkHolds(work', mem', disk', dirty')
    BY <2>1, <2>3 DEF WorkHolds, FilesHold, Making
  <2>5. QED
    BY <2>1, <2>2, <2>4, FilesStay DEF Making
<1>6. QED
  BY <1>1, <1>2, <1>3, <1>4, <1>5

(* Every step keeps the files.                                             *)
LEMMA FilesNext ==
  ASSUME TypeInv, StartInv(TRUE), CkptInv(TRUE), FilesInv, SavedInv, [Next]_vars
  PROVE  FilesInv'
<1> SUFFICES ASSUME status' \in Open PROVE FilesHold'
  BY DEF FilesInv
<1>1. CASE Format
  <2>1. imap' = NoImap /\ work' = Idle /\ nameMap' = << >>
    BY <1>1 DEF Format, StartProcess, StartInv, TypeInv, ControlTyped
  <2>2. ImapHolds' /\ AllOwn(imap', mem', disk', dirty')
    BY <2>1 DEF ImapHolds, Sound, NoImap, AllOwn
  <2>3. WorkHolds(work', mem', disk', dirty')
    BY <2>1, IdleIs DEF WorkHolds, Making
  <2>4. QED
    BY <2>1, <2>2, <2>3 DEF FilesHold, NamesHold
<1>2. CASE Mount
  BY <1>2, FilesMount
<1>3. CASE Command
  <2>1. status = "up" /\ status' = "up"
    BY <1>3 DEF Command, Import, Remove, Overwrite, OutOfInodes, ProcessEnds, Ready, Up, Open
  <2>2. QED
    BY <1>3, <2>1, FilesCommand DEF FilesInv, Open
<1>4. CASE ReadLast \/ WriteData \/ WriteInode \/ WriteImapChunk \/ TurnSegment
  <2>1. status = "up"
    BY <1>4 DEF ReadLast, WriteData, WriteInode, WriteImapChunk, Writing, TurnSegment,
       WantsToWrite, Up
  <2>2. QED
    BY <1>4, <2>1, FilesWork DEF FilesInv, Open
<1>5. CASE Cleaning
  BY <1>5 DEF StartInv, Cleaning, CleanStep, ScanSegment, MoveData, MoveInode, MoveChunk,
     CleanTurn, Release, CleanEnds, Moving
<1>6. CASE Stopped \/ UNCHANGED vars \/ BeginShutdown \/ TruncateCheckpoint \/ WriteNames
  <2>1. UNCHANGED <<disk, mem, dirty, imap, cl, nameMap, work>>
    BY <1>6 DEF Stopped, vars, segVars, driveVars, bounds, BeginShutdown, TruncateCheckpoint,
       WriteNames
  <2>2. status \in Open
    BY <1>6 DEF Stopped, vars, driveVars, BeginShutdown, TruncateCheckpoint, WriteNames, Open,
       Up
  <2>3. FilesHold
    BY <2>2 DEF FilesInv
  <2>4. QED
    BY <2>1, <2>3 DEF FilesHold, ImapHolds
<1>7. CASE RefuseMount \/ Overrun \/ Spin \/ FlushLast \/ WriteCheckpoint \/ Crash
  BY <1>7 DEF RefuseMount, Overrun, Spin, FlushLast, WriteCheckpoint, Crash, ProcessEnds, Open
<1>8. QED
  BY <1>1, <1>2, <1>3, <1>4, <1>5, <1>6, <1>7 DEF Next, WorkStep, Shutdown

(* NAME_MAP changes when a drive is shut down.                             *)
LEMMA NameFileSteps ==
  ASSUME [Next]_vars
  PROVE  nameFile' = nameFile \/ BeginShutdown \/ WriteNames
<1>1. CASE UNCHANGED vars \/ Stopped
  BY <1>1 DEF Stopped, vars, driveVars
<1>2. CASE Command
  BY <1>2 DEF Command, Import, Remove, Overwrite, OutOfInodes
<1>3. CASE WorkStep
  BY <1>3 DEF WorkStep, ReadLast, WriteData, WriteInode, WriteImapChunk, TurnSegment, Cleaning,
     Overrun, Spin, driveVars
<1>4. CASE \/ Format \/ Mount \/ RefuseMount \/ TruncateCheckpoint \/ FlushLast
           \/ WriteCheckpoint \/ Crash
  BY <1>4 DEF Format, Mount, RefuseMount, TruncateCheckpoint, FlushLast, WriteCheckpoint, Crash
<1>5. QED
  BY <1>1, <1>2, <1>3, <1>4 DEF Next, Shutdown

(* A process begins with a mount of a checkpoint, or with a new drive.     *)
LEMMA StillUp ==
  ASSUME TypeInv, [Next]_vars, status' = "up", ckpt'.kind = "full", ~Mount
  PROVE  status = "up" /\ ckpt' = ckpt
<1>1. CASE Quiet
  <2>1. mounts' = mounts /\ mounts \in Nat /\ status # "down"
    BY <1>1 DEF Quiet, Open, TypeInv, ControlTyped
  <2>2. QED
    BY <2>1, StepProcess DEF Process, ProcessEnds
<1>2. CASE Format
  BY <1>2, EmptyIs DEF Format
<1>3. CASE WriteData \/ WriteInode \/ WriteImapChunk \/ TurnSegment \/ Cleaning
  <2>1. status = "up"
    BY <1>3 DEF WriteData, WriteInode, WriteImapChunk, Writing, TurnSegment, WantsToWrite,
       Cleaning, Up
  <2>2. QED
    BY <2>1, StepProcess DEF Process, ProcessEnds
<1>4. QED
  BY <1>1, <1>2, <1>3, StepKinds DEF Open

(* Two steps lead to the names, or stay there.                             *)
LEMMA NamedSteps ==
  ASSUME [Next]_vars, status' = "named"
  PROVE  WriteNames \/ UNCHANGED vars
<1>1. CASE Stopped
  BY <1>1 DEF Stopped
<1>2. CASE Command
  BY <1>2 DEF Command, Import, Remove, Overwrite, OutOfInodes, ProcessEnds, Ready, Up
<1>3. CASE WorkStep
  BY <1>3 DEF WorkStep, ReadLast, WriteData, WriteInode, WriteImapChunk, Writing, TurnSegment,
     WantsToWrite, Cleaning, Overrun, Spin, driveVars, Up
<1>4. CASE \/ Format \/ Mount \/ RefuseMount \/ BeginShutdown \/ TruncateCheckpoint
           \/ FlushLast \/ WriteCheckpoint \/ Crash
  BY <1>4 DEF Format, Mount, RefuseMount, BeginShutdown, TruncateCheckpoint, FlushLast,
     WriteCheckpoint, Crash, ProcessEnds
<1>5. QED
  BY <1>1, <1>2, <1>3, <1>4 DEF Next, Shutdown

(* The last flush leaves the files in the segment files.                   *)
LEMMA FlushSavesFiles ==
  ASSUME TypeInv, PlaceInv, ChunkInv(TRUE), CurrentInv(TRUE), FilesInv, FlushLast, NEW k,
         k.leaveOff = leaveOff, k.dirty = dirty, k.cr = cr
  PROVE  /\ \A i \in Inodes : SavedAt(k, disk', i) = imap[i]
         /\ SavedFiles(k, disk') /\ SavedNamed(k, nameMap, disk')
<1>1. status = "named" /\ FilesHold /\ ~Making(work)
  BY IdleIs DEF FlushLast, FilesInv, Open, Making, TypeInv, ControlTyped
<1>2. imap \in [Inodes -> Addr] /\ SegmentTyped /\ ImapHolds
  BY <1>1 DEF TypeInv, SegmentTyped, FilesHold
<1>3. \A i \in Inodes : SavedAt(k, disk', i) = imap[i]
  BY FlushSavesAt
<1>4. ASSUME NEW i \in Inodes, imap[i] # Nil
      PROVE  /\ Saved(imap[i], k, disk', "INODE", i)
             /\ InFile(imap[i], disk') = CellOf(imap[i], mem, disk)
             /\ SavedBlocks(CellOf(imap[i], mem, disk).block, i, k, disk')
  <2> DEFINE b == CellOf(imap[i], mem, disk).block
  <2>1. /\ Saved(imap[i], k, disk', "INODE", i)
        /\ InFile(imap[i], disk') = CellOf(imap[i], mem, disk)
    BY <1>2, <1>4, FlushSavesInode
  <2>2. OwnBlocks(b, i, mem, disk, dirty)
    BY <1>1, <1>4 DEF FilesHold, AllOwn
  <2>3. b \in Block
    <3>1. imap[i] \in Addr /\ Placed(imap[i], mem, dirty)
      BY <1>2, <1>4 DEF ImapHolds, Sound, Holds
    <3>2. QED
      BY <1>2, <3>1, PlacedCell
  <2> HIDE DEF b
  <2>4. ASSUME NEW j \in 0..(MaxData - 1), BlockSize * j < FileSize(b)
        PROVE  Saved(b.ptrs[j], k, disk', "DATA", i) /\ InFile(b.ptrs[j], disk').index = j
    <3>1. PICK p \in Addr : p = b.ptrs[j]
      BY <2>3, BlockFields DEF Pointers
    <3>2. HoldsData(p, i, j, mem, disk, dirty)
      BY <2>2, <2>4, <3>1 DEF OwnBlocks
    <3>3. Behind(p, k) /\ InFile(p, disk') = CellOf(p, mem, disk)
      BY <3>2, FlushSaves DEF HoldsData, Holds
    <3>4. QED
      BY <3>1, <3>2, <3>3 DEF HoldsData, Holds, Saved
  <2>5. SavedBlocks(b, i, k, disk')
    BY <2>4 DEF SavedBlocks
  <2>6. QED
    BY <2>1, <2>5 DEF b
<1>5. SavedFiles(k, disk')
  BY <1>3, <1>4 DEF SavedFiles
<1>6. SavedNamed(k, nameMap, disk')
  <2>1. ASSUME NEW n \in DOMAIN nameMap \cap FileNames
        PROVE  /\ nameMap[n] \in Inodes /\ imap[nameMap[n]] # Nil
               /\ CellOf(imap[nameMap[n]], mem, disk).block.name = n
    BY <1>1, FileRead
  <2>2. QED
    BY <1>3, <1>4, <2>1 DEF SavedNamed
<1>7. QED
  BY <1>3, <1>5, <1>6

(* What is left alone of the segment files are the files of a checkpoint.  *)
LEMMA SavedKept ==
  ASSUME TypeInv, NEW e, SavedSound(ckpt, disk), SavedFiles(ckpt, disk),
         \A a \in Addr : Behind(a, ckpt) => InFile(a, e) = InFile(a, disk), NEW i \in Inodes
  PROVE  /\ SavedAt(ckpt, e, i) = SavedAt(ckpt, disk, i) /\ SavedAt(ckpt, disk, i) \in Addr
         /\ SavedAt(ckpt, disk, i) # Nil =>
              LET b == InFile(SavedAt(ckpt, disk, i), disk).block
              IN /\ InFile(SavedAt(ckpt, e, i), e) = InFile(SavedAt(ckpt, disk, i), disk)
                 /\ b \in Block
                 /\ Saved(SavedAt(ckpt, e, i), ckpt, e, "INODE", i) /\ SavedBlocks(b, i, ckpt, e)
                 /\ \A j \in 0..(MaxData - 1) : BlockSize * j < FileSize(b) =>
                      /\ b.ptrs[j] \in Addr /\ b.ptrs[j][2] \in Slots
                      /\ InFile(b.ptrs[j], e) = InFile(b.ptrs[j], disk)
<1>1. ckpt.cr \in [Chunks -> Addr] /\ SegmentTyped
  BY DEF TypeInv, FilesTyped, CheckpointRecord
<1>2. SavedAt(ckpt, e, i) = SavedAt(ckpt, disk, i)
  BY <1>1, SavedAtKept
<1>3. PICK a \in Addr : a = SavedAt(ckpt, disk, i)
  BY SavedImapAt
<1>4. ASSUME a # Nil
      PROVE  LET b == InFile(a, disk).block
             IN /\ InFile(a, e) = InFile(a, disk) /\ b \in Block
                /\ Saved(a, ckpt, e, "INODE", i) /\ SavedBlocks(b, i, ckpt, e)
                /\ \A j \in 0..(MaxData - 1) : BlockSize * j < FileSize(b) =>
                     /\ b.ptrs[j] \in Addr /\ b.ptrs[j][2] \in Slots
                     /\ InFile(b.ptrs[j], e) = InFile(b.ptrs[j], disk)
  <2> DEFINE b == InFile(a, disk).block
  <2>1. Saved(a, ckpt, disk, "INODE", i) /\ SavedBlocks(b, i, ckpt, disk)
    BY <1>3, <1>4 DEF SavedFiles
  <2>2. InFile(a, e) = InFile(a, disk) /\ b \in Block /\ Saved(a, ckpt, e, "INODE", i)
    BY <1>1, <2>1, InFileIs DEF Saved, Behind
  <2> HIDE DEF b
  <2>3. ASSUME NEW j \in 0..(MaxData - 1), BlockSize * j < FileSize(b)
        PROVE  /\ b.ptrs[j] \in Addr /\ b.ptrs[j][2] \in Slots
               /\ InFile(b.ptrs[j], e) = InFile(b.ptrs[j], disk)
               /\ Saved(b.ptrs[j], ckpt, e, "DATA", i) /\ InFile(b.ptrs[j], e).index = j
    <3>1. PICK p \in Addr : p = b.ptrs[j]
      BY <2>2, BlockFields DEF Pointers
    <3>2. Saved(p, ckpt, disk, "DATA", i) /\ InFile(p, disk).index = j
      BY <2>1, <2>3, <3>1 DEF SavedBlocks
    <3>3. InFile(p, e) = InFile(p, disk) /\ p[2] \in Slots
      BY <3>2 DEF Saved, Behind
    <3>4. QED
      BY <3>1, <3>2, <3>3 DEF Saved
  <2>4. SavedBlocks(b, i, ckpt, e)
    BY <2>3 DEF SavedBlocks
  <2>5. QED
    BY <2>2, <2>3, <2>4 DEF b
<1>5. QED
  BY <1>2, <1>3, <1>4

(* From an emptied NAME_MAP a mount reads the name "" only.                *)
LEMMA EmptyNames ==
  ASSUME PlainNames
  PROVE  /\ NamesLoad(<< >>)
         /\ DOMAIN LoadedNames(<< >>) \cap FileNames = {}
<1>1. DOMAIN LoadedNames(<< >>) = {""}
  BY DEF LoadedNames
<1>2. NamesLoad(<< >>)
  <2>1. Len(Numerals) \in Nat /\ Len(Numerals) > 0
    <3>1. Len(Numerals) = NumFiles
      BY CommandAssumption DEF CommandAssumption
    <3>2. QED
      BY <3>1, LayoutIs
  <2>2. Len(<< >>) \div 2 = 0 /\ DOMAIN << >> = {}
    OBVIOUS
  <2>3. QED
    BY <2>1, <2>2 DEF NamesLoad
<1>3. QED
  BY <1>1, <1>2 DEF PlainNames

(* Every step keeps the files of the checkpoint.                           *)
LEMMA SavedNext ==
  ASSUME PlainNames, TypeInv, StartInv(TRUE), PlaceInv, ChunkInv(TRUE), CkptInv(TRUE),
         KeptInv(TRUE), CurrentInv(TRUE), FilesInv, SavedInv, [Next]_vars
  PROVE  SavedInv'
<1>1. ASSUME status' \in {"named", "flushed"}
      PROVE  nameFile' = SavedNames(nameMap')
  <2>1. CASE WriteNames
    BY <2>1 DEF WriteNames
  <2>2. CASE FlushLast
    BY <2>2 DEF FlushLast, SavedInv
  <2>3. CASE UNCHANGED vars
    BY <1>1, <2>3 DEF vars, driveVars, SavedInv
  <2>4. QED
    BY <1>1, <2>1, <2>2, <2>3, NamedSteps, FlushSteps
<1>2. ASSUME status' = "flushed"
      PROVE  /\ \A i \in Inodes : SavedAt(Closing', disk', i) = imap'[i]
             /\ SavedFiles(Closing', disk') /\ SavedNamed(Closing', nameMap', disk')
  <2>1. CASE FlushLast
    <3>1. Closing.leaveOff = leaveOff /\ Closing.dirty = dirty /\ Closing.cr = cr
      BY DEF Closing, Checkpoint
    <3>2. UNCHANGED <<dirty, leaveOff, cr, imap, nameMap>> /\ Closing' = Closing
      BY <2>1 DEF FlushLast, Closing
    <3> HIDE DEF Closing
    <3>3. QED
      BY <2>1, <3>1, <3>2, FlushSavesFiles
  <2>2. CASE UNCHANGED vars
    BY <1>2, <2>2 DEF vars, segVars, driveVars, SavedInv, Closing
  <2>3. QED
    BY <1>2, <2>1, <2>2, FlushSteps
<1>3. ASSUME ckpt'.kind = "full"
      PROVE  /\ SavedFiles(ckpt', disk')
             /\ NamesLoad(nameFile') => SavedNamed(ckpt', LoadedNames(nameFile'), disk')
  <2>1. CASE WriteCheckpoint
    <3>1. /\ status = "flushed" /\ ckpt' = Closing /\ disk' = disk /\ nameFile' = nameFile
      BY <2>1 DEF WriteCheckpoint, Closing
    <3>2. nameFile = SavedNames(nameMap) /\ NameMaps(nameMap)
      BY <3>1 DEF SavedInv, TypeInv, FilesTyped
    <3>3. SavedFiles(Closing, disk) /\ SavedNamed(Closing, nameMap, disk)
      BY <3>1 DEF SavedInv
    <3>4. ASSUME NamesLoad(nameFile) PROVE SavedNamed(Closing, LoadedNames(nameFile), disk)
      <4>1. /\ DOMAIN LoadedNames(nameFile) \cap FileNames = DOMAIN nameMap \cap FileNames
            /\ \A n \in DOMAIN nameMap \cap FileNames : LoadedNames(nameFile)[n] = nameMap[n]
        BY <3>2, <3>4, NamesReturn
      <4>2. QED
        BY <3>3, <4>1 DEF SavedNamed
    <3>5. QED
      BY <3>1, <3>3, <3>4
  <2>2. CASE ckpt' = ckpt
    <3>1. /\ SavedFiles(ckpt, disk) /\ SavedSound(ckpt, disk)
          /\ NamesLoad(nameFile) => SavedNamed(ckpt, LoadedNames(nameFile), disk)
      BY <1>3, <2>2 DEF SavedInv, CkptInv
    <3>2. ASSUME NEW a \in Addr, Behind(a, ckpt)
          PROVE  InFile(a, disk') = InFile(a, disk)
      BY <1>3, <2>2, <3>2, FilesKept
    <3>3. nameFile' = nameFile \/ nameFile' = << >>
      <4>1. CASE BeginShutdown
        BY <4>1 DEF BeginShutdown
      <4>2. CASE WriteNames
        BY <1>3, <2>2, <4>2 DEF WriteNames, StartInv
      <4>3. QED
        BY <4>1, <4>2, NameFileSteps
    <3>4. ASSUME NEW i \in Inodes
          PROVE  /\ SavedAt(ckpt, disk', i) = SavedAt(ckpt, disk, i)
                 /\ SavedAt(ckpt, disk, i) # Nil =>
                      LET b == InFile(SavedAt(ckpt, disk, i), disk).block
                      IN /\ InFile(SavedAt(ckpt, disk', i), disk') =
                              InFile(SavedAt(ckpt, disk, i), disk)
                         /\ Saved(SavedAt(ckpt, disk', i), ckpt, disk', "INODE", i)
                         /\ SavedBlocks(b, i, ckpt, disk')
      BY <3>1, <3>2, SavedKept
    <3>5. SavedFiles(ckpt, disk')
      BY <3>4 DEF SavedFiles
    <3>6. ASSUME NamesLoad(nameFile)
          PROVE  SavedNamed(ckpt, LoadedNames(nameFile), disk')
      <4>1. nameFile \in Seq(Names)
        BY DEF TypeInv, FilesTyped
      <4>2. \A n \in DOMAIN LoadedNames(nameFile) : LoadedNames(nameFile)[n] \in Inodes
        BY <3>6, <4>1, LoadedNamesAre DEF NameMaps
      <4>3. QED
        BY <3>1, <3>4, <3>6, <4>2 DEF SavedNamed
    <3>7. SavedNamed(ckpt, LoadedNames(<< >>), disk')
      BY EmptyNames DEF SavedNamed
    <3>8. QED
      BY <2>2, <3>3, <3>5, <3>6, <3>7
  <2>3. QED
    BY <1>3, <2>1, <2>2, CkptSteps
<1>4. ASSUME status' = "up", ckpt'.kind = "full"
      PROVE  Mountable'
  <2>1. CASE Mount
    <3>1. Mountable /\ UNCHANGED <<nameFile, ckpt>>
      BY <2>1 DEF Mount
    <3>2. QED
      BY <3>1 DEF Mountable, LeaveOffValid
  <2>2. CASE ~Mount
    <3>1. status = "up" /\ ckpt' = ckpt
      BY <1>4, <2>2, StillUp
    <3>2. nameFile' = nameFile
      BY <1>4, NameFileSteps DEF BeginShutdown, WriteNames
    <3>3. QED
      BY <1>4, <3>1, <3>2 DEF SavedInv, Mountable, LeaveOffValid
  <2>3. QED
    BY <2>1, <2>2
<1>5. QED
  BY <1>1, <1>2, <1>3, <1>4 DEF SavedInv

-----------------------------------------------------------------------------
(* The bytes of the files.                                                 *)

(* The bytes of a file by its pointers.                                    *)
BlockNo(k) == (k - 1) \div BlockSize
Offset(k)  == ((k - 1) % BlockSize) + 1

FileByte(b, k, m, d) == CellOf(b.ptrs[BlockNo(k)], m, d).block.bytes[Offset(k)]
SavedByte(b, k, d)   == InFile(b.ptrs[BlockNo(k)], d).block.bytes[Offset(k)]

Held(b, m, d)   == [k \in 1..FileSize(b) |-> FileByte(b, k, m, d)]
HeldSaved(b, d) == [k \in 1..FileSize(b) |-> SavedByte(b, k, d)]

InodeOf(nm, im, n, m, d) == CellOf(im[nm[n]], m, d).block

LiveFiles(nm, im, m, d) ==
  [n \in DOMAIN nm \cap FileNames |-> Held(InodeOf(nm, im, n, m, d), m, d)]
FilesOf(nm, k, d) ==
  [n \in DOMAIN nm \cap FileNames |-> HeldSaved(InFile(SavedAt(k, d, nm[n]), d).block, d)]

(* Where a byte lies.                                                      *)
LEMMA ByteLies ==
  ASSUME NEW k \in Nat \ {0}
  PROVE  /\ BlockNo(k) \in Nat /\ Offset(k) \in 1..BlockSize
         /\ k = BlockSize * BlockNo(k) + Offset(k)
         /\ BlockSize * BlockNo(k) \in Nat /\ BlockSize * BlockNo(k) < k
         /\ k <= BlockSize * (BlockNo(k) + 1)
         /\ BlockSize * (BlockNo(k) + 1) = BlockSize * BlockNo(k) + BlockSize
<1> DEFINE n == k - 1
           q == n \div BlockSize
           r == n % BlockSize
<1>1. n \in Nat /\ k = n + 1
  OBVIOUS
<1>2. BlockNo(k) = q /\ Offset(k) = r + 1
  BY DEF BlockNo, Offset
<1> HIDE DEF n
<1>3. q \in Nat /\ r \in 0..(BlockSize - 1) /\ n = BlockSize * q + r
  BY <1>1, Blocks
<1>4. BlockSize \in Nat \ {0}
  BY LayoutIs
<1> HIDE DEF q, r
<1>5. BlockSize * q \in Nat /\ BlockSize * (q + 1) = BlockSize * q + BlockSize
  BY <1>3, <1>4, Factors
<1>6. QED
  BY <1>1, <1>2, <1>3, <1>4, <1>5

(* A byte of a file lies in a block that has a pointer.                    *)
LEMMA ByteOfFile ==
  ASSUME NEW b \in Block, NEW k \in 1..FileSize(b)
  PROVE  /\ k \in Nat \ {0} /\ k - 1 \in Nat
         /\ BlockNo(k) \in 0..(MaxData - 1) /\ BlockSize * BlockNo(k) < FileSize(b)
         /\ b.ptrs[BlockNo(k)] \in Addr
<1>1. FileSize(b) \in Nat /\ FileSize(b) <= MaxSize /\ MaxSize \in Nat
  BY BlockFields, MaxSizeIs
<1>2. k \in Nat \ {0} /\ k - 1 \in Nat /\ k - 1 < MaxSize /\ k <= FileSize(b)
  BY <1>1
<1>3. BlockNo(k) \in 0..(MaxData - 1)
  BY <1>2, BlockOfByte DEF BlockNo
<1>4. BlockSize * BlockNo(k) < k /\ BlockSize * BlockNo(k) \in Nat
  BY <1>2, ByteLies
<1>5. b.ptrs[BlockNo(k)] \in Addr
  BY <1>3, BlockFields DEF Pointers
<1>6. BlockSize * BlockNo(k) < FileSize(b)
  BY <1>1, <1>2, <1>4
<1>7. QED
  BY <1>2, <1>3, <1>5, <1>6

(* cat shows what the pointers lead to, in the segment in memory too.      *)
LEMMA CatShows ==
  ASSUME TypeInv, NEW b \in Block, NEW i, OwnBlocks(b, i, mem, disk, dirty)
  PROVE  /\ Bytes(b, TRUE) = Held(b, mem, disk)
         /\ Bytes(b, TRUE) \in Seq(Nat) /\ Len(Bytes(b, TRUE)) = FileSize(b)
<1>1. /\ Bytes(b, TRUE) = [k \in 1..FileSize(b) |-> ByteAt(b, k - 1, TRUE)]
      /\ Bytes(b, TRUE) \in Seq(Nat) /\ Len(Bytes(b, TRUE)) = FileSize(b)
  BY BytesAre
<1>2. ASSUME NEW k \in 1..FileSize(b)
      PROVE  ByteAt(b, k - 1, TRUE) = FileByte(b, k, mem, disk)
  <2>1. /\ BlockNo(k) \in 0..(MaxData - 1) /\ BlockSize * BlockNo(k) < FileSize(b)
    BY ByteOfFile
  <2> DEFINE a == b.ptrs[BlockNo(k)]
  <2>2. Placed(a, mem, dirty)
    BY <2>1 DEF OwnBlocks, HoldsData, Holds
  <2>3. ByteAt(b, k - 1, TRUE) = BlockAt(a).bytes[Offset(k)]
    BY DEF ByteAt, BlockSeen, BlockNo, Offset
  <2>4. FileByte(b, k, mem, disk) = CellOf(a, mem, disk).block.bytes[Offset(k)]
    BY DEF FileByte
  <2> HIDE DEF a
  <2>5. QED
    BY <2>2, <2>3, <2>4, ReadPlaced
<1>3. QED
  BY <1>1, <1>2 DEF Held

(* And from the segment files alone.                                       *)
LEMMA CatShowsSaved ==
  ASSUME TypeInv, NEW b \in Block, NEW i, NEW k, SavedBlocks(b, i, k, disk)
  PROVE  Bytes(b, FALSE) = HeldSaved(b, disk)
<1>1. Bytes(b, FALSE) = [p \in 1..FileSize(b) |-> ByteAt(b, p - 1, FALSE)]
  BY BytesAre
<1>2. ASSUME NEW p \in 1..FileSize(b)
      PROVE  ByteAt(b, p - 1, FALSE) = SavedByte(b, p, disk)
  <2>1. /\ BlockNo(p) \in 0..(MaxData - 1) /\ BlockSize * BlockNo(p) < FileSize(b)
    BY ByteOfFile
  <2> DEFINE a == b.ptrs[BlockNo(p)]
  <2>2. a[2] \in Slots
    BY <2>1 DEF SavedBlocks, Saved, Behind
  <2>3. ByteAt(b, p - 1, FALSE) = DiskBlock(a).bytes[Offset(p)]
    BY DEF ByteAt, BlockSeen, BlockNo, Offset
  <2>4. SavedByte(b, p, disk) = InFile(a, disk).block.bytes[Offset(p)]
    BY DEF SavedByte
  <2> HIDE DEF a
  <2>5. DiskBlock(a) = InFile(a, disk).block
    BY <2>2 DEF DiskBlock, InFile
  <2>6. QED
    BY <2>3, <2>4, <2>5
<1>3. QED
  BY <1>1, <1>2 DEF HeldSaved

(* Between commands, and while one only has its chunk to write, cat shows  *)
(* what the imap leads to.                                                 *)
LEMMA LiveShows ==
  TypeInv /\ FilesInv =>
    (status \in Open /\ ~Making(work) =>
       Contents(nameMap, imap, TRUE) = LiveFiles(nameMap, imap, mem, disk))
<1> SUFFICES ASSUME TypeInv, FilesInv, status \in Open, ~Making(work)
             PROVE  Contents(nameMap, imap, TRUE) = LiveFiles(nameMap, imap, mem, disk)
  OBVIOUS
<1>1. ASSUME NEW n \in DOMAIN nameMap \cap FileNames
      PROVE  Bytes(BlockSeen(imap[nameMap[n]], TRUE), TRUE) =
               Held(InodeOf(nameMap, imap, n, mem, disk), mem, disk)
  <2> DEFINE b == BlockAt(imap[nameMap[n]])
  <2>1. /\ b = InodeOf(nameMap, imap, n, mem, disk) /\ b \in Block
        /\ OwnBlocks(b, nameMap[n], mem, disk, dirty)
    BY FileRead DEF FilesInv, InodeOf
  <2>2. BlockSeen(imap[nameMap[n]], TRUE) = b
    BY DEF BlockSeen
  <2> HIDE DEF b
  <2>3. Bytes(b, TRUE) = Held(b, mem, disk)
    BY <2>1, CatShows
  <2>4. QED
    BY <2>1, <2>2, <2>3
<1>2. QED
  BY <1>1 DEF Contents, LiveFiles

(* What a checkpoint leads to is what cat shows from the segment files.    *)
LEMMA FilesShow ==
  ASSUME TypeInv, NEW nm, NEW im, NEW k, SavedFiles(k, disk), SavedNamed(k, nm, disk),
         \A n \in DOMAIN nm : nm[n] \in Inodes,
         \A i \in Inodes : im[i] = SavedAt(k, disk, i) /\ im[i] \in Addr
  PROVE  Contents(nm, im, FALSE) = FilesOf(nm, k, disk)
<1>0. SegmentTyped
  BY DEF TypeInv
<1>1. ASSUME NEW n \in DOMAIN nm \cap FileNames
      PROVE  Bytes(BlockSeen(im[nm[n]], FALSE), FALSE) =
               HeldSaved(InFile(SavedAt(k, disk, nm[n]), disk).block, disk)
  <2>1. PICK a \in Addr : a = im[nm[n]] /\ a = SavedAt(k, disk, nm[n]) /\ nm[n] \in Inodes
    OBVIOUS
  <2>2. a # Nil
    BY <2>1 DEF SavedNamed
  <2> DEFINE b == InFile(a, disk).block
  <2>3. Saved(a, k, disk, "INODE", nm[n]) /\ SavedBlocks(b, nm[n], k, disk)
    BY <2>1, <2>2 DEF SavedFiles
  <2>4. DiskBlock(a) = b /\ b \in Block
    BY <1>0, <2>3, InFileIs DEF Saved, Behind
  <2>5. BlockSeen(im[nm[n]], FALSE) = DiskBlock(a)
    BY <2>1 DEF BlockSeen
  <2> HIDE DEF b
  <2>6. Bytes(b, FALSE) = HeldSaved(b, disk)
    BY <2>3, <2>4, CatShowsSaved
  <2>7. QED
    BY <2>1, <2>4, <2>5, <2>6 DEF b
<1>2. QED
  BY <1>1 DEF Contents, FilesOf

(* Of the checkpoint that a mount would read.                              *)
LEMMA SavedShows ==
  TypeInv /\ CkptInv(TRUE) /\ SavedInv =>
    (ckpt.kind = "full" /\ NamesLoad(nameFile) =>
       Contents(LoadedNames(nameFile), SavedImap, FALSE) =
         FilesOf(LoadedNames(nameFile), ckpt, disk))
<1> SUFFICES ASSUME TypeInv, CkptInv(TRUE), SavedInv, ckpt.kind = "full", NamesLoad(nameFile)
             PROVE  Contents(LoadedNames(nameFile), SavedImap, FALSE) =
                      FilesOf(LoadedNames(nameFile), ckpt, disk)
  OBVIOUS
<1>1. SavedSound(ckpt, disk) /\ nameFile \in Seq(Names)
  BY DEF CkptInv, TypeInv, FilesTyped
<1>2. SavedFiles(ckpt, disk) /\ SavedNamed(ckpt, LoadedNames(nameFile), disk)
  BY DEF SavedInv
<1>3. \A n \in DOMAIN LoadedNames(nameFile) : LoadedNames(nameFile)[n] \in Inodes
  BY <1>1, LoadedNamesAre DEF NameMaps
<1>4. \A i \in Inodes : SavedImap[i] = SavedAt(ckpt, disk, i) /\ SavedImap[i] \in Addr
  BY <1>1, SavedImapAt
<1>5. QED
  BY <1>2, <1>3, <1>4, FilesShow

(* And of the one that is about to be written.                             *)
LEMMA FlushedShows ==
  TypeInv /\ SavedInv =>
    (status = "flushed" => Contents(nameMap, imap, FALSE) = FilesOf(nameMap, Closing, disk))
<1> SUFFICES ASSUME TypeInv, SavedInv, status = "flushed"
             PROVE  Contents(nameMap, imap, FALSE) = FilesOf(nameMap, Closing, disk)
  OBVIOUS
<1>1. /\ SavedFiles(Closing, disk) /\ SavedNamed(Closing, nameMap, disk)
      /\ \A i \in Inodes : imap[i] = SavedAt(Closing, disk, i) /\ imap[i] \in Addr
  BY DEF SavedInv, TypeInv, SegmentTyped
<1>2. \A n \in DOMAIN nameMap : nameMap[n] \in Inodes
  BY DEF TypeInv, FilesTyped, NameMaps
<1>3. QED
  BY <1>1, <1>2, FilesShow

(* What is promised of an import: as many bytes as its blocks hold.        *)
LEMMA ImportedIs ==
  ASSUME NEW name \in Names, NEW src \in Seq(Nat)
  PROVE  /\ DOMAIN Store!Imported(src) = 1..FileSize(NewNode(name, src))
         /\ \A k \in 1..FileSize(NewNode(name, src)) :
              SourceBlock(src, BlockNo(k))[Offset(k)] = Store!Imported(src)[k]
<1> DEFINE len  == Len(src)
           m    == Store!LesserOf(len, MaxSize)
           s    == SubSeq(src, 1, m)
           pad  == len < MaxSize /\ len % BlockSize = 0
           z    == IF pad THEN [k \in 1..BlockSize |-> 0] ELSE << >>
           size == FileSize(NewNode(name, src))
<1>1. len \in Nat /\ MaxSize \in Nat /\ BlockSize \in Nat \ {0}
  BY LayoutIs, MaxSizeIs
<1>2. m \in Nat /\ m <= len /\ m = IF len <= MaxSize THEN len ELSE MaxSize
  <2> HIDE DEF len
  <2>1. QED
    BY <1>1 DEF Store!LesserOf
<1>3. size = IF len >= MaxSize THEN MaxSize
             ELSE IF len % BlockSize = 0 THEN len + BlockSize ELSE len
  BY NewSize
<1>4. Store!Imported(src) = s \o z
  BY DEF Store!Imported
<1>5. \A k \in 1..len : src[k] \in Nat
  OBVIOUS
<1> HIDE DEF len, m, size
<1>6. /\ s \in Seq(Nat) /\ Len(s) = m /\ \A k \in 1..m : s[k] = src[k]
  <2>1. \A k \in 1..m : src[k] \in Nat
    BY <1>1, <1>2, <1>5
  <2>2. /\ s \in Seq(Nat) /\ Len(s) = IF 1 <= m THEN m - 1 + 1 ELSE 0
        /\ \A k \in 1..(m - 1 + 1) : s[k] = src[1 + k - 1]
    BY <1>2, <2>1, SubSeqProperties
  <2> HIDE DEF s
  <2>3. m - 1 + 1 = m /\ \A k \in 1..m : 1 + k - 1 = k
    BY <1>2
  <2>4. Len(s) = m
    BY <1>2, <2>2, <2>3
  <2>5. QED
    BY <2>2, <2>3, <2>4
<1>7. /\ z \in Seq(Nat) /\ Len(z) = (IF pad THEN BlockSize ELSE 0)
      /\ pad => \A k \in 1..BlockSize : z[k] = 0
  <2> HIDE DEF pad
  <2>1. CASE pad
    <3> DEFINE y == [k \in 1..BlockSize |-> 0]
    <3>1. y \in [1..BlockSize -> Nat] /\ \A k \in 1..BlockSize : y[k] = 0
      OBVIOUS
    <3> HIDE DEF y
    <3>2. y \in Seq(Nat) /\ Len(y) = BlockSize
      BY <1>1, <3>1
    <3>3. z = y
      BY <2>1 DEF y
    <3>4. QED
      BY <2>1, <3>1, <3>2, <3>3
  <2>2. CASE ~pad
    BY <2>2
  <2>3. QED
    BY <2>1, <2>2
<1> HIDE DEF s, z
<1> DEFINE t == s \o z
<1>8. /\ t \in Seq(Nat) /\ Len(t) = Len(s) + Len(z)
      /\ \A k \in 1..(Len(s) + Len(z)) : t[k] = IF k <= Len(s) THEN s[k] ELSE z[k - Len(s)]
  BY <1>6, <1>7, ConcatProperties
<1> HIDE DEF t
<1>9. pad => m = len
  BY <1>1, <1>2
<1>10. Len(s) + Len(z) = size /\ size \in Nat
  BY <1>1, <1>2, <1>3, <1>6, <1>7
<1>11. ASSUME NEW k \in 1..size
       PROVE  t[k] = IF k <= len THEN src[k] ELSE 0
  <2>1. CASE k <= m
    <3> HIDE DEF pad
    <3>1. Len(z) \in Nat
      BY <1>1, <1>7
    <3>2. k \in 1..m /\ k \in 1..(Len(s) + Len(z)) /\ k <= Len(s) /\ k <= len
      BY <1>2, <1>6, <1>10, <2>1
    <3>3. t[k] = s[k]
      BY <1>8, <3>2
    <3>4. s[k] = src[k]
      BY <1>6, <3>2
    <3>5. QED
      BY <3>2, <3>3, <3>4
  <2>2. CASE ~(k <= m)
    <3>1. pad /\ m = len /\ size = m + BlockSize
      BY <1>1, <1>2, <1>3, <1>10, <2>2
    <3>2. k - m \in 1..BlockSize
      BY <1>1, <1>2, <2>2, <3>1
    <3>3. t[k] = z[k - m]
      BY <1>2, <1>6, <1>8, <1>10, <2>2
    <3>4. QED
      BY <1>1, <1>2, <1>7, <2>2, <3>1, <3>2, <3>3
  <2>3. QED
    BY <2>1, <2>2
<1>12. DOMAIN t = 1..size
  BY <1>8, <1>10
<1>13. ASSUME NEW k \in 1..size
       PROVE  SourceBlock(src, BlockNo(k))[Offset(k)] = t[k]
  <2>1. k \in Nat \ {0}
    BY <1>10
  <2>2. /\ Offset(k) \in 1..BlockSize /\ BlockNo(k) \in Nat
        /\ k = BlockSize * BlockNo(k) + Offset(k)
    BY <2>1, ByteLies
  <2>3. BlockNo(k) * BlockSize = BlockSize * BlockNo(k)
    BY <1>1, <2>2
  <2>4. BlockNo(k) * BlockSize + Offset(k) = k
    BY <2>2, <2>3
  <2>5. SourceBlock(src, BlockNo(k))[Offset(k)] = IF k <= len THEN src[k] ELSE 0
    BY <2>2, <2>4 DEF SourceBlock, len
  <2>6. QED
    BY <1>11, <2>5
<1>14. QED
  BY <1>4, <1>12, <1>13 DEF t, size

-----------------------------------------------------------------------------
(* What the command at hand is to make of its file.                        *)

(* What the file at hand is to become.                                     *)
Wanted(w) ==
  IF w.request[1] = "import" THEN Store!Imported(w.request[3])
  ELSE Store!Overwritten(w.before[w.request[2]], w.request[3], w.request[4], w.request[5])

(* A block still to be written agrees with it, where the request says.     *)
Gives(t, k, v, r) ==
  t[1] = BlockNo(k) => IF t[2] = Unread THEN v = r[5] ELSE t[2][Offset(k)] = v

Meets(w, k, v, m, d) ==
  /\ \A j \in 1..Len(w.todo) : Gives(w.todo[j], k, v, w.request)
  /\ ToDo(w.todo, BlockNo(k)) \/ FileByte(w.node, k, m, d) = v

(* The block still to be read is the one in which the range ends.          *)
LastIs(t, r) ==
  LET end == r[3] + r[4] IN
  /\ end <= MaxSize /\ end % BlockSize # 0
  /\ t[1] = end \div BlockSize /\ t[1] # r[4] \div BlockSize

Promised(w, m, d) ==
  /\ DOMAIN Wanted(w) = 1..FileSize(w.node)
  /\ \A k \in 1..FileSize(w.node) :
       k \in Store!LeftOpen(w.request) \/ Meets(w, k, Wanted(w)[k], m, d)
  /\ \A j \in 1..Len(w.todo) : w.todo[j][2] = Unread => LastIs(w.todo[j], w.request)

Reads(b, s, open, m, d) ==
  /\ DOMAIN s = 1..FileSize(b)
  /\ \A k \in 1..FileSize(b) : k \in open \/ FileByte(b, k, m, d) = s[k]

RequestIs(w, nm) ==
  LET r == w.request
      n == r[2]
  IN /\ r # << >> /\ n \in FileNames /\ r[1] \in {"import", "remove", "overwrite"}
     /\ r[1] = "remove" => w.pc = "chunk" /\ n \notin DOMAIN nm
     /\ r[1] # "remove" => n \in DOMAIN nm /\ nm[n] = w.ino
     /\ r[1] = "import" => r[3] \in Seq(Nat)
     /\ r[1] = "overwrite" => /\ r \in OverwriteRequests
                              /\ n \in DOMAIN w.before /\ w.before[n] \in Seq(Nat)

OthersAs(w, nm, im, m, d) ==
  /\ DOMAIN w.before \subseteq FileNames
  /\ \A n \in FileNames : n # w.request[2] =>
       /\ n \in DOMAIN nm <=> n \in DOMAIN w.before
       /\ n \in DOMAIN nm => Reads(InodeOf(nm, im, n, m, d), w.before[n], {}, m, d)

(* The command at hand leads to what is wanted of its file, and leaves the *)
(* others alone.                                                           *)
ContentHolds ==
  /\ RequestIs(work, nameMap)
  /\ OthersAs(work, nameMap, imap, mem, disk)
  /\ Making(work) => Promised(work, mem, disk)
  /\ work.pc = "chunk" /\ work.request[1] # "remove" =>
       Reads(InodeOf(nameMap, imap, work.request[2], mem, disk), Wanted(work),
             Store!LeftOpen(work.request), mem, disk)

ContentInv == status = "up" /\ work # Idle => ContentHolds

(* Whole blocks and a part of one.                                         *)
LEMMA BlocksAndPart ==
  ASSUME NEW q \in Nat, NEW r \in 0..(BlockSize - 1)
  PROVE  /\ (BlockSize * q + r) \div BlockSize = q
         /\ (BlockSize * q + r) % BlockSize = r
<1>1. BlockSize \in Nat \ {0} /\ r \in Nat
  BY LayoutIs
<1>2. q * BlockSize = BlockSize * q
  BY <1>1
<1>3. /\ (BlockSize * q + r) \div BlockSize = q + (r \div BlockSize)
      /\ (BlockSize * q + r) % BlockSize = r % BlockSize
  BY <1>1, <1>2, BlocksInFront
<1>4. r \div BlockSize = 0 /\ r % BlockSize = r
  <2> DEFINE d == r \div BlockSize
             e == r % BlockSize
  <2>1. d \in Nat /\ e \in 0..(BlockSize - 1) /\ r = BlockSize * d + e
    BY <1>1, Blocks
  <2> HIDE DEF d, e
  <2>2. BlockSize * d < BlockSize * 1
    <3>1. BlockSize * d \in Int
      BY <1>1, <2>1
    <3>2. QED
      BY <1>1, <2>1, <3>1
  <2>3. d < 1
    BY <1>1, <2>1, <2>2, Factors
  <2>4. d = 0
    BY <2>1, <2>3
  <2>5. e = r
    BY <1>1, <2>1, <2>4
  <2>6. QED
    BY <2>4, <2>5 DEF d, e
<1>5. QED
  BY <1>3, <1>4

(* The range that overwrite writes, and how it falls on the blocks.        *)
Spans(start, end, first, rel, head, whole, over) ==
  /\ {start, end, first, rel, head, whole} \subseteq Nat
  /\ rel \in 0..(BlockSize - 1) /\ over \in 0..(BlockSize - 1)
  /\ start < end /\ start = BlockSize * first + rel
  /\ \/ /\ whole = 0 /\ over = 0
        /\ head = end - start /\ end <= BlockSize * (first + 1)
     \/ /\ head = BlockSize - rel /\ end > BlockSize * (first + 1)
        /\ end = BlockSize * (first + 1) + (BlockSize * whole + over)

(* Which bytes of its blocks lie in the range.                             *)
LEMMA SpanBytes ==
  ASSUME NEW start, NEW end, NEW first, NEW rel, NEW head, NEW whole, NEW over,
         Spans(start, end, first, rel, head, whole, over), NEW k \in Nat \ {0}
  PROVE  /\ BlockNo(k) = first =>
              (rel < Offset(k) /\ Offset(k) <= rel + head <=> start < k /\ k <= end)
         /\ BlockNo(k) - first \in 1..whole => start < k /\ k <= end
         /\ over # 0 /\ BlockNo(k) = first + whole + 1 =>
              start < k /\ k <= BlockSize * (first + whole + 2)
         /\ start < k /\ k <= end =>
              \/ BlockNo(k) = first
              \/ BlockNo(k) - first \in 1..whole
              \/ over # 0 /\ BlockNo(k) = first + whole + 1
<1> DEFINE b == BlockNo(k)
           o == Offset(k)
           q == BlockSize * b
           p == BlockSize * first
           z == BlockSize * whole
<1>0. /\ b \in Nat /\ o \in 1..BlockSize /\ k = q + o /\ q \in Nat
  BY ByteLies
<1>1. BlockSize \in Nat \ {0}
  BY LayoutIs
<1>2. /\ start \in Nat /\ end \in Nat /\ first \in Nat /\ rel \in Nat /\ head \in Nat /\ whole \in Nat
      /\ rel \in 0..(BlockSize - 1) /\ over \in 0..(BlockSize - 1)
      /\ start < end /\ start = p + rel
      /\ \/ /\ whole = 0 /\ over = 0
            /\ head = end - start /\ end <= BlockSize * (first + 1)
         \/ /\ head = BlockSize - rel /\ end > BlockSize * (first + 1)
            /\ end = BlockSize * (first + 1) + (z + over)
  BY DEF Spans
<1>3. p \in Nat /\ z \in Nat /\ BlockSize * (first + 1) = p + BlockSize
  BY <1>1, <1>2, Factors
<1>4. /\ BlockSize * (first + whole) = p + z
      /\ BlockSize * (first + whole + 1) = p + z + BlockSize
      /\ BlockSize * (first + whole + 2) = p + z + BlockSize + BlockSize
  BY <1>1, <1>2
<1>5. b = first => q = p
  OBVIOUS
<1>6. b >= first + 1 => q >= p + BlockSize
  <2>1. b >= first + 1 => BlockSize * b >= BlockSize * (first + 1)
    BY <1>0, <1>1, <1>2
  <2>2. QED
    BY <1>3, <2>1
<1>7. b <= first + whole => q <= p + z
  <2>1. b <= first + whole => BlockSize * b <= BlockSize * (first + whole)
    BY <1>0, <1>1, <1>2
  <2>2. QED
    BY <1>4, <2>1
<1>8. b = first + whole + 1 => q = p + z + BlockSize
  BY <1>4
<1>9. k > start => b >= first
  <2>1. BlockSize * (b + 1) = q + BlockSize
    BY <1>0, <1>1, Factors
  <2>2. k > start => BlockSize * first < BlockSize * (b + 1)
    <3> HIDE DEF q, b, o
    <3>1. k > start => p < q + BlockSize
      BY <1>0, <1>1, <1>2, <1>3
    <3>2. QED
      BY <2>1, <3>1
  <2>3. BlockSize * first < BlockSize * (b + 1) => first < b + 1
    BY <1>0, <1>1, <1>2, Factors
  <2>4. QED
    BY <1>0, <1>2, <2>2, <2>3
<1>10. ASSUME b # first, start < k, k <= end
       PROVE  b - first \in 1..whole \/ (over # 0 /\ b = first + whole + 1)
  <2>1. b >= first + 1
    BY <1>0, <1>2, <1>9, <1>10
  <2>2. start + 1 <= q /\ q < end
    <3> HIDE DEF p, q, b, o
    <3>1. QED
      BY <1>0, <1>1, <1>2, <1>3, <1>6, <1>10, <2>1
  <2>3. /\ {start + 1, start, first, whole, end, b} \subseteq Nat
        /\ p <= start /\ start < start + 1
    BY <1>0, <1>2, <1>3
  <2>4. \/ end <= BlockSize * (first + 1)
        \/ end = BlockSize * (first + 1) + (BlockSize * whole + over)
    BY <1>2
  <2>5. Added(start + 1, start, first, whole, over, end, b)
    BY <1>2, <2>2, <2>3, <2>4 DEF Added
  <2>6. QED
    BY <2>5, OverwriteCovers
<1>11. b - first \in 1..whole => b >= first + 1 /\ b <= first + whole /\ whole # 0
  BY <1>0, <1>2
<1> HIDE DEF b, o, q, p, z
<1>12. b = first => (rel < o /\ o <= rel + head <=> start < k /\ k <= end)
  BY <1>0, <1>1, <1>2, <1>3, <1>5
<1>13. b - first \in 1..whole => start < k /\ k <= end
  BY <1>0, <1>1, <1>2, <1>3, <1>6, <1>7, <1>11
<1>14. over # 0 /\ b = first + whole + 1 => start < k /\ k <= BlockSize * (first + whole + 2)
  BY <1>0, <1>1, <1>2, <1>3, <1>4, <1>8
<1>15. QED
  BY <1>10, <1>12, <1>13, <1>14 DEF b, o

(* How an overwrite falls on the blocks, what it leaves open, and what it  *)
(* still has to read.                                                      *)
LEMMA OverwriteSpans ==
  ASSUME NEW start \in Nat, NEW howMany \in Nat, start < MaxSize, NEW n, NEW c
  PROVE  LET many  == SmallerOf(howMany, MaxSize - start)
             first == start \div BlockSize
             rel   == start % BlockSize
             head  == SmallerOf(many, BlockSize - rel)
             rest  == many - head
             end   == start + many
             whole == rest \div BlockSize
             over  == rest % BlockSize
             last  == first + whole + 1
             r     == <<"overwrite", n, howMany, start, c>>
         IN many > 0 =>
            /\ Spans(start, end, first, rel, head, whole, over)
            /\ end = Store!LesserOf(howMany + start, MaxSize)
            /\ over # 0 => /\ Store!LeftOpen(r) = (end + 1)..(BlockSize * (last + 1))
                           /\ LastIs(<<last, Unread>>, r)
<1> DEFINE many  == SmallerOf(howMany, MaxSize - start)
           first == start \div BlockSize
           rel   == start % BlockSize
           head  == SmallerOf(many, BlockSize - rel)
           rest  == many - head
           end   == start + many
           whole == rest \div BlockSize
           over  == rest % BlockSize
           last  == first + whole + 1
           r     == <<"overwrite", n, howMany, start, c>>
<1> SUFFICES ASSUME many > 0
             PROVE  /\ Spans(start, end, first, rel, head, whole, over)
                    /\ end = Store!LesserOf(howMany + start, MaxSize)
                    /\ over # 0 => /\ Store!LeftOpen(r) = (end + 1)..(BlockSize * (last + 1))
                                   /\ LastIs(<<last, Unread>>, r)
  OBVIOUS
<1>1. /\ many \in Nat /\ end \in Nat /\ end <= MaxSize
      /\ first \in Nat /\ rel \in 0..(BlockSize - 1) /\ head \in Nat
      /\ rest \in Nat /\ whole \in Nat
      /\ rest = 0 => whole = 0 /\ end <= BlockSize * (first + 1)
      /\ rest > 0 => end = BlockSize * (first + 1) + rest
  <2>1. /\ many \in Nat /\ end \in Nat /\ end <= MaxSize
        /\ first \in 0..(MaxData - 1) /\ rel \in 0..(BlockSize - 1) /\ head \in Nat
        /\ rest \in Nat /\ whole \in Nat
        /\ rest = 0 => whole = 0 /\ end <= BlockSize * (first + 1)
        /\ rest > 0 => end = BlockSize * (first + 1) + rest
    BY OverwriteReaches
  <2> HIDE DEF many, first, rel, head, rest, end, whole
  <2>2. first \in Nat
    BY <2>1, LayoutIs
  <2>3. QED
    BY <2>1, <2>2
<1>2. over \in 0..(BlockSize - 1) /\ rest = BlockSize * whole + over
  <2> HIDE DEF rest
  <2>1. QED
    BY <1>1, Blocks
<1>3. start = BlockSize * first + rel
  BY Blocks
<1>4. BlockSize \in Nat \ {0} /\ MaxSize \in Nat /\ MaxSize = BlockSize * MaxData /\ MaxData \in Nat
  BY LayoutIs, MaxSizeIs
<1>5. many = IF howMany <= MaxSize - start THEN howMany ELSE MaxSize - start
  BY DEF SmallerOf
<1>6. head = IF many <= BlockSize - rel THEN many ELSE BlockSize - rel
  BY DEF SmallerOf
<1>7. rest = many - head /\ end = start + many /\ last = first + whole + 1
  OBVIOUS
<1> HIDE DEF many, first, rel, head, rest, end, whole, over, last
<1>8. Spans(start, end, first, rel, head, whole, over)
  <2>1. start < end
    BY <1>1, <1>7
  <2>2. BlockSize * (first + 1) = BlockSize * first + BlockSize /\ BlockSize * first \in Nat
    BY <1>1, <1>4, Factors
  <2>3. CASE rest = 0
    <3>1. whole = 0 /\ end <= BlockSize * (first + 1) /\ head = end - start
      BY <1>1, <1>7, <2>3
    <3>2. over = 0
      BY <1>2, <1>4, <2>3, <3>1
    <3>3. QED
      BY <1>1, <1>2, <1>3, <2>1, <3>1, <3>2 DEF Spans
  <2>4. CASE rest # 0
    <3>1. head = BlockSize - rel
      BY <1>1, <1>4, <1>6, <1>7, <2>4
    <3>2. end = BlockSize * (first + 1) + (BlockSize * whole + over)
      BY <1>1, <1>2, <2>4
    <3>3. end > BlockSize * (first + 1)
      BY <1>1, <1>4, <2>2, <2>4
    <3>4. QED
      BY <1>1, <1>2, <1>3, <2>1, <3>1, <3>2, <3>3 DEF Spans
  <2>5. QED
    BY <2>3, <2>4
<1>9. end = Store!LesserOf(howMany + start, MaxSize)
  BY <1>1, <1>4, <1>5, <1>7 DEF Store!LesserOf
<1>10. ASSUME over # 0
       PROVE  /\ end \div BlockSize = last /\ end % BlockSize = over
              /\ end = howMany + start /\ last # first
  <2>1. rest # 0
    <3>1. BlockSize * whole \in Nat
      BY <1>1, <1>4
    <3>2. QED
      BY <1>2, <1>4, <1>10, <3>1
  <2>2. end = BlockSize * (first + 1) + (BlockSize * whole + over)
    BY <1>1, <1>2, <2>1
  <2>3. BlockSize * last = BlockSize * (first + 1) + BlockSize * whole
    BY <1>1, <1>4, <1>7
  <2>4. end = BlockSize * last + over
    <3>1. BlockSize * (first + 1) \in Int /\ BlockSize * whole \in Int
      BY <1>1, <1>4
    <3>2. QED
      BY <1>2, <1>4, <2>2, <2>3, <3>1
  <2>5. last \in Nat /\ last # first
    BY <1>1, <1>7
  <2>6. end \div BlockSize = last /\ end % BlockSize = over
    BY <1>2, <2>4, <2>5, BlocksAndPart
  <2>7. end # MaxSize
    <3>1. 0 \in 0..(BlockSize - 1) /\ BlockSize * MaxData + 0 = MaxSize
      BY <1>4
    <3>2. MaxSize % BlockSize = 0
      BY <1>4, <3>1, BlocksAndPart
    <3>3. QED
      BY <1>10, <2>6, <3>2
  <2>8. end = howMany + start
    BY <1>1, <1>4, <1>5, <1>7, <2>7
  <2>9. QED
    BY <2>5, <2>6, <2>8
<1>11. r[1] = "overwrite" /\ r[3] = howMany /\ r[4] = start
  OBVIOUS
<1> HIDE DEF r
<1>12. ASSUME over # 0
       PROVE  /\ Store!LeftOpen(r) = (end + 1)..(BlockSize * (last + 1))
              /\ LastIs(<<last, Unread>>, r)
  <2>1. /\ end \div BlockSize = last /\ end % BlockSize # 0 /\ start \div BlockSize = first
        /\ end = howMany + start /\ last # first
    BY <1>10, <1>12 DEF first
  <2>2. (last + 1) * BlockSize = BlockSize * (last + 1)
    BY <1>1, <1>4, <1>7
  <2>3. Store!LeftOpen(r) = (end + 1)..((last + 1) * BlockSize)
    BY <1>9, <1>11, <2>1 DEF Store!LeftOpen
  <2>4. LastIs(<<last, Unread>>, r)
    BY <1>1, <1>11, <2>1 DEF LastIs
  <2>5. QED
    BY <2>2, <2>3, <2>4
<1>13. QED
  BY <1>8, <1>9, <1>12 DEF many, first, rel, head, rest, end, whole, over, last, r

(* What a command keeps of what cat showed.                                *)
LEMMA BeforeReads ==
  ASSUME TypeInv, FilesHold, ~Making(work), NEW before, before = Contents(nameMap, imap, TRUE)
  PROVE  /\ DOMAIN before = DOMAIN nameMap \cap FileNames
         /\ \A n \in DOMAIN nameMap \cap FileNames :
              /\ before[n] \in Seq(Nat)
              /\ Len(before[n]) = FileSize(InodeOf(nameMap, imap, n, mem, disk))
              /\ Reads(InodeOf(nameMap, imap, n, mem, disk), before[n], {}, mem, disk)
<1>1. ASSUME NEW n \in DOMAIN nameMap \cap FileNames
      PROVE  /\ before[n] \in Seq(Nat)
             /\ Len(before[n]) = FileSize(InodeOf(nameMap, imap, n, mem, disk))
             /\ Reads(InodeOf(nameMap, imap, n, mem, disk), before[n], {}, mem, disk)
  <2> DEFINE b == BlockAt(imap[nameMap[n]])
  <2>1. /\ b = InodeOf(nameMap, imap, n, mem, disk) /\ b \in Block
        /\ OwnBlocks(b, nameMap[n], mem, disk, dirty)
    BY FileRead DEF InodeOf
  <2>2. before[n] = Bytes(b, TRUE)
    BY DEF Contents, BlockSeen
  <2> HIDE DEF b
  <2>3. /\ before[n] = Held(b, mem, disk)
        /\ before[n] \in Seq(Nat) /\ Len(before[n]) = FileSize(b)
    BY <2>1, <2>2, CatShows
  <2>4. Reads(b, before[n], {}, mem, disk)
    BY <2>3 DEF Held, Reads
  <2>5. QED
    BY <2>1, <2>3, <2>4
<1>2. QED
  BY <1>1 DEF Contents

(* overwrite has to write what it is asked for, and leaves the rest.       *)
LEMMA OverwritePromises ==
  ASSUME TypeInv, FilesHold,
         NEW n \in FileNames, NEW howMany \in Nat, NEW start \in Nat, NEW c \in Nat,
         Overwrite(n, howMany, start, c)
  PROVE  /\ work'.request = <<"overwrite", n, howMany, start, c>>
         /\ work'.before = Contents(nameMap, imap, TRUE)
         /\ howMany > 0 /\ start < Len(work'.before[n])
         /\ Promised(work', mem, disk)
<1> DEFINE ino   == nameMap[n]
           node  == BlockAt(imap[ino])
           many  == SmallerOf(howMany, MaxSize - start)
           first == start \div BlockSize
           rel   == start % BlockSize
           head  == SmallerOf(many, BlockSize - rel)
           rest  == many - head
           end   == start + many
           whole == rest \div BlockSize
           over  == rest % BlockSize
           last  == first + whole + 1
           old   == BlockAt(node.ptrs[first]).bytes
           block == Filled(old, rel, rel + head, c)
           t     == OverwriteTasks(first, block, whole, c, over, last)
           r     == <<"overwrite", n, howMany, start, c>>
           s     == work'.before[n]
           size  == FileSize(work'.node)
<1>1. n \in DOMAIN nameMap /\ ~Making(work)
  BY DEF Overwrite, Ready, Making
<1>2. /\ node \in Block /\ OwnBlocks(node, ino, mem, disk, dirty)
      /\ node = InodeOf(nameMap, imap, n, mem, disk)
  BY <1>1, FileRead DEF InodeOf
<1>3. start < MaxSize /\ start < FileSize(node) /\ many > 0
  BY DEF Overwrite
<1>4. /\ work'.request = r /\ work'.before = Contents(nameMap, imap, TRUE)
      /\ work'.node = Resized(node, end) /\ work'.todo = t
  BY DEF Overwrite, Working, Resized, OverwriteTasks
<1>5. /\ s \in Seq(Nat) /\ Len(s) = FileSize(node) /\ Reads(node, s, {}, mem, disk)
  BY <1>1, <1>2, <1>4, BeforeReads
<1>6. /\ end \in Nat /\ end <= MaxSize
      /\ first \in 0..(MaxData - 1) /\ whole \in Nat /\ rel \in Nat /\ rel + head \in Nat
      /\ \A b \in 1..whole : first + b \in 0..(MaxData - 1)
      /\ over # 0 => last \in 0..(MaxData - 1)
  <2>1. /\ end \in Nat /\ end <= MaxSize
        /\ first \in 0..(MaxData - 1) /\ whole \in Nat /\ rel \in 0..(BlockSize - 1) /\ head \in Nat
        /\ \A b \in 1..whole : first + b \in 0..(MaxData - 1)
        /\ over # 0 => last \in 0..(MaxData - 1)
    BY <1>3, OverwriteReaches
  <2> HIDE DEF end, first, whole, rel, head, over, last
  <2>2. rel \in Nat
    BY <2>1, LayoutIs
  <2>3. QED
    BY <2>1, <2>2
<1>7. /\ Spans(start, end, first, rel, head, whole, over)
      /\ end = Store!LesserOf(howMany + start, MaxSize)
      /\ over # 0 => /\ Store!LeftOpen(r) = (end + 1)..(BlockSize * (last + 1))
                     /\ LastIs(<<last, Unread>>, r)
  BY <1>3, OverwriteSpans
<1>8. howMany > 0
  <2>1. many <= howMany
    BY <1>3, MaxSizeIs DEF SmallerOf
  <2>2. many \in Nat
    BY <1>3, MaxSizeIs DEF SmallerOf
  <2> HIDE DEF many
  <2>3. QED
    BY <1>3, <2>1, <2>2
<1> HIDE DEF node, many, first, rel, head, rest, end, whole, over, old, s, size
<1>9. over \in 0..(BlockSize - 1) /\ over \in Nat /\ BlockSize \in Nat \ {0} /\ first \in Nat
  BY <1>6, <1>7, LayoutIs DEF Spans
<1>10. old \in Content
  <2>1. node.ptrs[first] \in Addr /\ SegmentTyped
    BY <1>2, <1>6, BlockFields DEF Pointers, TypeInv
  <2>2. QED
    BY <2>1, BlocksAre, BlockFields DEF old
<1>11. block \in Content
  BY <1>6, <1>10, FilledIs
<1>12. \A o \in 1..BlockSize : block[o] = IF rel < o /\ o <= rel + head THEN c ELSE old[o]
  BY DEF Filled
<1> HIDE DEF block, last
<1>13. /\ Len(t) = whole + (IF over = 0 THEN 1 ELSE 2)
       /\ t[1] = <<first, block>>
       /\ \A b \in 1..whole : t[b + 1] = <<first + b, [k \in 1..BlockSize |-> c]>>
       /\ over # 0 => t[whole + 2] = <<last, Unread>>
  <2>1. WithinFile(first, block, whole, c, over, last)
    BY <1>6, <1>9, <1>11 DEF WithinFile
  <2>2. TasksAre(t, first, block, whole, c, over, last)
    BY <2>1, OverwriteTasksAre
  <2> HIDE DEF t
  <2>3. QED
    BY <2>2 DEF TasksAre
<1>14. last = first + whole + 1
  BY DEF last
<1> HIDE DEF t, r
<1>15. /\ size = IF end > FileSize(node) THEN end ELSE FileSize(node)
       /\ size \in Nat /\ FileSize(node) \in Nat /\ work'.node.ptrs = node.ptrs
  <2>1. FileSize(node) \in Nat
    BY <1>2, BlockFields
  <2>2. /\ FileSize(Resized(node, end)) = IF end > FileSize(node) THEN end ELSE FileSize(node)
        /\ Resized(node, end).ptrs = node.ptrs
    BY <1>2, <1>6, ResizedIs
  <2>3. QED
    BY <1>4, <1>6, <2>1, <2>2 DEF size
<1>16. /\ DOMAIN Wanted(work') = 1..size
       /\ \A k \in 1..size : Wanted(work')[k] = IF start < k /\ k <= end THEN c ELSE s[k]
  <2>1. r[1] = "overwrite" /\ r[2] = n /\ r[3] = howMany /\ r[4] = start /\ r[5] = c
    BY DEF r
  <2>2. Wanted(work') = Store!Overwritten(s, howMany, start, c)
    BY <1>4, <2>1 DEF Wanted, s
  <2>3. start + howMany = howMany + start
    OBVIOUS
  <2>4. Store!GreaterOf(Len(s), end) = size
    BY <1>5, <1>6, <1>15 DEF Store!GreaterOf
  <2>5. Store!Overwritten(s, howMany, start, c) =
          [k \in 1..size |-> IF start < k /\ k <= end THEN c ELSE s[k]]
    BY <1>7, <2>3, <2>4 DEF Store!Overwritten
  <2>6. QED
    BY <2>2, <2>5
<1>17. ASSUME NEW k \in 1..size, k \notin Store!LeftOpen(r)
       PROVE  Meets(work', k, Wanted(work')[k], mem, disk)
  <2> DEFINE v == Wanted(work')[k]
             b == BlockNo(k)
             o == Offset(k)
  <2>1. k \in Nat \ {0} /\ k \in Nat /\ b \in Nat /\ o \in 1..BlockSize
    BY <1>15, ByteLies
  <2>2. /\ b = first => (rel < o /\ o <= rel + head <=> start < k /\ k <= end)
        /\ b - first \in 1..whole => start < k /\ k <= end
        /\ over # 0 /\ b = last => start < k /\ k <= BlockSize * (first + whole + 2)
        /\ start < k /\ k <= end =>
             \/ b = first
             \/ b - first \in 1..whole
             \/ over # 0 /\ b = last
    BY <1>7, <1>14, <2>1, SpanBytes
  <2>3. v = IF start < k /\ k <= end THEN c ELSE s[k]
    BY <1>16
  <2>4. ~(start < k /\ k <= end) => k \in 1..FileSize(node)
    BY <1>3, <1>6, <1>15, <2>1
  <2>5. k \in 1..FileSize(node) => FileByte(node, k, mem, disk) = s[k]
    BY <1>5 DEF Reads
  <2>6. FileByte(work'.node, k, mem, disk) = FileByte(node, k, mem, disk)
    BY <1>15 DEF FileByte
  <2>7. ASSUME b = first, k \in 1..FileSize(node)
        PROVE  old[o] = s[k]
    <3>1. b \in 0..(MaxData - 1) /\ BlockSize * b < FileSize(node)
      BY <1>2, <2>7, ByteOfFile
    <3>2. Placed(node.ptrs[first], mem, dirty)
      BY <1>2, <2>7, <3>1 DEF OwnBlocks, HoldsData, Holds
    <3>3. BlockAt(node.ptrs[first]) = CellOf(node.ptrs[first], mem, disk).block
      BY <3>2, ReadPlaced
    <3>4. FileByte(node, k, mem, disk) = old[o]
      BY <2>7, <3>3 DEF FileByte, old
    <3>5. QED
      BY <2>5, <2>7, <3>4
  <2> HIDE DEF v, b, o
  <2>8. ASSUME NEW j \in 1..Len(t), t[j][1] = b
        PROVE  IF t[j][2] = Unread THEN v = c ELSE t[j][2][o] = v
    <3>1. \/ j = 1
          \/ j - 1 \in 1..whole /\ (j - 1) + 1 = j
          \/ j = whole + 2 /\ over # 0
      BY <1>6, <1>9, <1>13
    <3>2. CASE j = 1
      <4>1. t[j][1] = first /\ t[j][2] = block /\ b = first
        BY <1>13, <2>8, <3>2
      <4>2. block # Unread
        BY <1>11, UnreadIs
      <4>3. block[o] = v
        <5>1. CASE start < k /\ k <= end
          BY <1>12, <2>1, <2>2, <2>3, <4>1, <5>1
        <5>2. CASE ~(start < k /\ k <= end)
          BY <1>12, <2>1, <2>2, <2>3, <2>4, <2>7, <4>1, <5>2
        <5>3. QED
          BY <5>1, <5>2
      <4>4. QED
        BY <4>1, <4>2, <4>3
    <3>3. CASE j - 1 \in 1..whole /\ (j - 1) + 1 = j
      <4> DEFINE z == [i \in 1..BlockSize |-> c]
      <4>1. t[j] = <<first + (j - 1), z>>
        BY <1>13, <3>3
      <4>2. z \in Content /\ z[o] = c
        BY <2>1 DEF Content
      <4> HIDE DEF z
      <4>3. z # Unread
        BY <4>2, UnreadIs
      <4>4. b = first + (j - 1) /\ t[j][2] = z
        BY <2>8, <4>1
      <4>5. b - first = j - 1
        BY <1>9, <4>4
      <4>6. start < k /\ k <= end
        BY <2>2, <3>3, <4>5
      <4>7. QED
        BY <2>3, <4>2, <4>3, <4>4, <4>6
    <3>4. CASE j = whole + 2 /\ over # 0
      <4>1. t[j][1] = last /\ t[j][2] = Unread /\ b = last
        BY <1>13, <2>8, <3>4
      <4>2. BlockSize * (last + 1) = BlockSize * (first + whole + 2)
        BY <1>6, <1>9, <1>14
      <4>3. start < k /\ k <= BlockSize * (last + 1)
        BY <2>2, <3>4, <4>1, <4>2
      <4>4. k <= end
        <5>1. k \notin (end + 1)..(BlockSize * (last + 1))
          BY <1>7, <1>17, <3>4
        <5>2. BlockSize * (last + 1) \in Int
          BY <1>6, <1>9, <1>14
        <5>3. QED
          BY <1>6, <2>1, <4>3, <5>1, <5>2
      <4>5. QED
        BY <2>3, <4>1, <4>3, <4>4
    <3>5. QED
      BY <3>1, <3>2, <3>3, <3>4
  <2>9. ASSUME ~ToDo(t, b)
        PROVE  FileByte(work'.node, k, mem, disk) = v
    <3>1. ~(start < k /\ k <= end)
      <4>1. ASSUME start < k /\ k <= end PROVE ToDo(t, b)
        <5>1. CASE b = first
          <6>1. 1 \in 1..Len(t) /\ t[1][1] = b
            BY <1>6, <1>13, <5>1
          <6>2. QED
            BY <6>1 DEF ToDo
        <5>2. CASE b - first \in 1..whole
          <6>1. (b - first) + 1 \in 1..Len(t) /\ first + (b - first) = b
            BY <1>6, <1>9, <1>13, <2>1, <5>2
          <6>2. t[(b - first) + 1][1] = b
            BY <1>13, <5>2, <6>1
          <6>3. QED
            BY <6>1, <6>2 DEF ToDo
        <5>3. CASE over # 0 /\ b = last
          <6>1. whole + 2 \in 1..Len(t) /\ t[whole + 2][1] = b
            BY <1>6, <1>13, <5>3
          <6>2. QED
            BY <6>1 DEF ToDo
        <5>4. QED
          BY <2>2, <4>1, <5>1, <5>2, <5>3
      <4>2. QED
        BY <2>9, <4>1
    <3>2. QED
      BY <2>3, <2>4, <2>5, <2>6, <3>1
  <2>10. r[5] = c
    BY DEF r
  <2>11. \A j \in 1..Len(work'.todo) : Gives(work'.todo[j], k, v, work'.request)
    BY <1>4, <2>8, <2>10 DEF Gives, b, o
  <2>12. ToDo(work'.todo, BlockNo(k)) \/ FileByte(work'.node, k, mem, disk) = v
    BY <1>4, <2>9 DEF b
  <2>13. QED
    BY <2>11, <2>12 DEF Meets, v
<1>18. ASSUME NEW j \in 1..Len(t), t[j][2] = Unread
       PROVE  LastIs(t[j], r)
  <2>1. \/ j = 1
        \/ j - 1 \in 1..whole /\ (j - 1) + 1 = j
        \/ j = whole + 2 /\ over # 0
    BY <1>6, <1>9, <1>13
  <2>2. j # 1
    BY <1>11, <1>13, <1>18, UnreadIs
  <2>3. ~(j - 1 \in 1..whole /\ (j - 1) + 1 = j)
    <3> DEFINE z == [i \in 1..BlockSize |-> c]
    <3>1. z \in Content
      BY DEF Content
    <3> HIDE DEF z
    <3>2. ASSUME j - 1 \in 1..whole, (j - 1) + 1 = j
          PROVE  t[j] = <<first + (j - 1), z>>
      BY <1>13, <3>2 DEF z
    <3>3. QED
      BY <1>18, <3>1, <3>2, UnreadIs
  <2>4. QED
    BY <1>7, <1>13, <2>1, <2>2, <2>3
<1>19. Promised(work', mem, disk)
  BY <1>4, <1>16, <1>17, <1>18 DEF Promised, size
<1>20. QED
  BY <1>3, <1>4, <1>5, <1>8, <1>19 DEF r, s

(* The bytes of a file stay when nothing is lost.                          *)
LEMMA ReadsKept ==
  ASSUME Keeps, NEW b \in Block, NEW i, OwnBlocks(b, i, mem, disk, dirty),
         NEW s, NEW open, Reads(b, s, open, mem, disk)
  PROVE  Reads(b, s, open, mem', disk')
<1>1. ASSUME NEW k \in 1..FileSize(b)
      PROVE  FileByte(b, k, mem', disk') = FileByte(b, k, mem, disk)
  <2>1. /\ BlockNo(k) \in 0..(MaxData - 1) /\ BlockSize * BlockNo(k) < FileSize(b)
        /\ b.ptrs[BlockNo(k)] \in Addr
    BY ByteOfFile
  <2>2. HoldsData(b.ptrs[BlockNo(k)], i, BlockNo(k), mem, disk, dirty)
    BY <2>1 DEF OwnBlocks
  <2>3. CellOf(b.ptrs[BlockNo(k)], mem', disk') = CellOf(b.ptrs[BlockNo(k)], mem, disk)
    BY <2>1, <2>2, DataKept
  <2>4. QED
    BY <2>3 DEF FileByte
<1>2. QED
  BY <1>1 DEF Reads

(* Another file than that of the command has an inode of its own.          *)
LEMMA OtherFile ==
  ASSUME TypeInv, FilesHold, RequestIs(work, nameMap),
         NEW n \in DOMAIN nameMap \cap FileNames, n # work.request[2]
  PROVE  /\ nameMap[n] \in Inodes /\ imap[nameMap[n]] # Nil
         /\ Making(work) => nameMap[n] # work.ino
         /\ InodeOf(nameMap, imap, n, mem, disk) \in Block
         /\ OwnBlocks(InodeOf(nameMap, imap, n, mem, disk), nameMap[n], mem, disk, dirty)
<1>1. nameMap[n] \in Inodes /\ SegmentTyped /\ imap \in [Inodes -> Addr]
  BY DEF TypeInv, FilesTyped, NameMaps, SegmentTyped
<1>2. NameHolds(nameMap, n, imap, work, mem, disk)
  BY DEF FilesHold, NamesHold
<1>3. ASSUME Making(work) PROVE nameMap[n] # work.ino
  <2>1. work.request[2] \in DOMAIN nameMap \cap FileNames /\ nameMap[work.request[2]] = work.ino
    BY <1>3 DEF RequestIs, Making
  <2>2. NameHolds(nameMap, work.request[2], imap, work, mem, disk)
    BY <2>1 DEF FilesHold, NamesHold
  <2>3. QED
    BY <1>2, <1>3, <2>1, <2>2 DEF NameHolds
<1>4. imap[nameMap[n]] # Nil
  BY <1>2, <1>3 DEF NameHolds
<1>5. imap[nameMap[n]] \in Addr /\ Placed(imap[nameMap[n]], mem, dirty)
  BY <1>1, <1>4 DEF FilesHold, ImapHolds, Sound, Holds
<1>6. InodeOf(nameMap, imap, n, mem, disk) \in Block
  BY <1>1, <1>5, PlacedCell DEF InodeOf
<1>7. OwnBlocks(InodeOf(nameMap, imap, n, mem, disk), nameMap[n], mem, disk, dirty)
  BY <1>1, <1>4 DEF FilesHold, AllOwn, InodeOf
<1>8. QED
  BY <1>1, <1>3, <1>4, <1>6, <1>7

(* The other files stay as they were when the command began.               *)
LEMMA OthersStay ==
  ASSUME TypeInv, FilesHold, RequestIs(work, nameMap), OthersAs(work, nameMap, imap, mem, disk),
         Keeps, UNCHANGED nameMap, NEW w, w.request = work.request, w.before = work.before,
         \A i \in Inodes : (Making(work) => i # work.ino) => imap'[i] = imap[i]
  PROVE  OthersAs(w, nameMap', imap', mem', disk')
<1>1. ASSUME NEW n \in FileNames, n # work.request[2], n \in DOMAIN nameMap
      PROVE  Reads(InodeOf(nameMap', imap', n, mem', disk'), work.before[n], {}, mem', disk')
  <2> DEFINE b == InodeOf(nameMap, imap, n, mem, disk)
  <2>1. /\ nameMap[n] \in Inodes /\ imap[nameMap[n]] # Nil
        /\ Making(work) => nameMap[n] # work.ino
        /\ b \in Block /\ OwnBlocks(b, nameMap[n], mem, disk, dirty)
    BY <1>1, OtherFile
  <2>2. CellOf(imap[nameMap[n]], mem', disk') = CellOf(imap[nameMap[n]], mem, disk)
    BY <2>1, InodeKept DEF TypeInv, FilesHold
  <2>3. InodeOf(nameMap', imap', n, mem', disk') = b
    BY <2>1, <2>2 DEF InodeOf
  <2>4. Reads(b, work.before[n], {}, mem, disk)
    BY <1>1 DEF OthersAs
  <2> HIDE DEF b
  <2>5. QED
    BY <2>1, <2>3, <2>4, ReadsKept
<1>2. QED
  BY <1>1 DEF OthersAs

(* What is promised stays promised.                                        *)
LEMMA PromisedKept ==
  ASSUME Keeps, NEW i, Promised(work, mem, disk), work.node \in Block,
         MadeOwn(work.node, i, work.todo, mem, disk, dirty),
         NEW w, w.request = work.request, w.before = work.before, w.node = work.node,
         w.todo = work.todo
  PROVE  Promised(w, mem', disk')
<1>1. Wanted(w) = Wanted(work)
  BY DEF Wanted
<1>2. ASSUME NEW k \in 1..FileSize(work.node), ~ToDo(work.todo, BlockNo(k))
      PROVE  FileByte(work.node, k, mem', disk') = FileByte(work.node, k, mem, disk)
  <2>1. /\ BlockNo(k) \in 0..(MaxData - 1) /\ BlockSize * BlockNo(k) < FileSize(work.node)
        /\ work.node.ptrs[BlockNo(k)] \in Addr
    BY ByteOfFile
  <2>2. HoldsData(work.node.ptrs[BlockNo(k)], i, BlockNo(k), mem, disk, dirty)
    BY <1>2, <2>1 DEF MadeOwn
  <2>3. CellOf(work.node.ptrs[BlockNo(k)], mem', disk') = CellOf(work.node.ptrs[BlockNo(k)], mem, disk)
    BY <2>1, <2>2, DataKept
  <2>4. QED
    BY <2>3 DEF FileByte
<1>3. ASSUME NEW k \in 1..FileSize(work.node), NEW v, Meets(work, k, v, mem, disk)
      PROVE  Meets(w, k, v, mem', disk')
  BY <1>2, <1>3 DEF Meets
<1>4. QED
  BY <1>1, <1>3 DEF Promised

(* The last block becomes what is wanted of it.                            *)
LEMMA ReadPromises ==
  ASSUME TypeInv, ReadLast, Promised(work, mem, disk)
  PROVE  Promised(work', mem, disk)
<1> DEFINE h    == Head(work.todo)[1]
           a    == work.node.ptrs[h]
           old  == IF a[1] = work.memSeg THEN MemBlock(a) ELSE DiskBlock(a)
           r    == work.request
           upto == (r[3] + r[4]) % BlockSize
           x    == Filled(old.bytes, 0, upto, r[5])
<1>1. /\ Busy(work) /\ work.pc = "data" /\ h \in 0..(MaxData - 1)
      /\ work'.request = work.request /\ work'.before = work.before /\ work'.node = work.node
      /\ \E y \in Content : work'.todo = [work.todo EXCEPT ![1] = <<h, y>>]
  BY ReadLastIs DEF WorkFields
<1>2. /\ work.todo \in Seq(Tasks) /\ Len(work.todo) \in Nat \ {0}
      /\ Head(work.todo) = work.todo[1] /\ Head(work.todo)[2] = Unread
      /\ r \in OverwriteRequests
  <2>1. /\ work.todo \in Seq(Tasks) /\ Len(work.todo) \in Nat \ {0}
        /\ Head(work.todo) = work.todo[1] /\ Head(work.todo)[2] = Unread
    BY <1>1, HeadTask DEF ReadLast, NextUnread
  <2>2. Waits(work.todo)
    BY <2>1 DEF Waits
  <2>3. QED
    BY <1>1, <2>1, <2>2 DEF Busy
<1>3. work'.todo = [work.todo EXCEPT ![1] = <<h, x>>]
  <2>1. work' = [work EXCEPT !.todo[1] = <<h, x>>]
    BY DEF ReadLast
  <2>2. "todo" \in DOMAIN work
    BY <1>1 DEF Busy, WorkFields
  <2> HIDE DEF x, h
  <2>3. QED
    BY <2>1, <2>2
<1> HIDE DEF h, x, r
<1>4. /\ Len(work'.todo) = Len(work.todo) /\ work'.todo[1] = <<h, x>>
      /\ \A j \in 1..Len(work.todo) : j # 1 => work'.todo[j] = work.todo[j]
  BY <1>2, <1>3
<1>5. x # Unread
  <2>1. PICK y \in Content : work'.todo = [work.todo EXCEPT ![1] = <<h, y>>]
    BY <1>1
  <2>2. work'.todo[1] = <<h, y>>
    BY <1>2, <2>1
  <2>3. x = y
    BY <1>4, <2>2
  <2>4. QED
    BY <2>3, UnreadIs
<1>6. LastIs(work.todo[1], r) /\ h = work.todo[1][1]
  BY <1>2 DEF Promised, r, h
<1>7. ASSUME NEW k \in 1..FileSize(work.node), k \notin Store!LeftOpen(r), BlockNo(k) = h
      PROVE  x[Offset(k)] = r[5]
  <2> DEFINE end == r[3] + r[4]
             b   == BlockNo(k)
             o   == Offset(k)
  <2>0. FileSize(work.node) \in Nat
    BY <1>1, BlockFields DEF Busy
  <2>1. k \in Nat \ {0} /\ k \in Nat
    BY <2>0
  <2>2. /\ b \in Nat /\ o \in 1..BlockSize /\ k = BlockSize * b + o
        /\ k <= BlockSize * (b + 1) /\ BlockSize * b \in Nat
    BY <2>1, ByteLies
  <2>3. r[1] = "overwrite" /\ r[3] \in Nat /\ r[4] \in Nat
    BY <1>2 DEF OverwriteRequests
  <2>4. /\ end <= MaxSize /\ end % BlockSize # 0
        /\ h = end \div BlockSize /\ h # r[4] \div BlockSize
    BY <1>6 DEF LastIs
  <2>5. Store!LesserOf(r[3] + r[4], MaxSize) = end
    BY <2>4 DEF Store!LesserOf
  <2>6. Store!LeftOpen(r) = (end + 1)..((h + 1) * BlockSize)
    BY <2>3, <2>4, <2>5 DEF Store!LeftOpen
  <2>7. end \in Nat
    BY <2>3
  <2>8. end = BlockSize * h + upto /\ upto \in 0..(BlockSize - 1)
    <3> HIDE DEF end
    <3>1. QED
      BY <2>4, <2>7, Blocks DEF end
  <2> HIDE DEF end, b, o, upto
  <2>9. b = h /\ h \in Nat /\ BlockSize \in Nat
    BY <1>7, <2>2, LayoutIs DEF b
  <2>10. (h + 1) * BlockSize = BlockSize * (b + 1)
    BY <2>9
  <2>11. k <= end
    <3>1. BlockSize * (b + 1) \in Int
      BY <2>9
    <3>2. QED
      BY <1>7, <2>1, <2>2, <2>6, <2>7, <2>10, <3>1
  <2>12. 0 < o /\ o <= upto
    BY <2>2, <2>7, <2>8, <2>9, <2>11
  <2>13. x[o] = r[5]
    BY <2>2, <2>12 DEF x, Filled, upto
  <2>14. QED
    BY <2>13 DEF o
<1>8. Wanted(work') = Wanted(work)
  BY <1>1 DEF Wanted
<1>9. ASSUME NEW k \in 1..FileSize(work.node), k \notin Store!LeftOpen(r), NEW v,
             Meets(work, k, v, mem, disk)
      PROVE  Meets(work', k, v, mem, disk)
  <2>1. ASSUME NEW j \in 1..Len(work'.todo)
        PROVE  Gives(work'.todo[j], k, v, r)
    <3>1. j \in 1..Len(work.todo)
      BY <1>4
    <3>2. Gives(work.todo[j], k, v, r)
      BY <1>9, <3>1 DEF Meets, r
    <3>3. CASE j = 1
      BY <1>2, <1>4, <1>5, <1>6, <1>7, <1>9, <3>2, <3>3 DEF Gives
    <3>4. CASE j # 1
      BY <1>4, <3>1, <3>2, <3>4
    <3>5. QED
      BY <3>3, <3>4
  <2>2. ToDo(work'.todo, BlockNo(k)) \/ FileByte(work'.node, k, mem, disk) = v
    BY <1>1, <1>9, ToDoRead DEF Meets
  <2>3. QED
    BY <1>1, <2>1, <2>2 DEF Meets, r
<1>10. ASSUME NEW j \in 1..Len(work'.todo), work'.todo[j][2] = Unread
       PROVE  LastIs(work'.todo[j], r)
  <2>1. j # 1 /\ j \in 1..Len(work.todo)
    BY <1>4, <1>5, <1>10
  <2>2. QED
    BY <1>4, <1>10, <2>1 DEF Promised, r
<1>11. QED
  BY <1>1, <1>8, <1>9, <1>10 DEF Promised, r

(* A block that is written is what is wanted of it.                        *)
LEMMA WritePromises ==
  ASSUME TypeInv, WriteData, Promised(work, mem, disk),
         MadeOwn(work.node, work.ino, work.todo, mem, disk, dirty)
  PROVE  Promised(work', mem', disk')
<1> DEFINE h == Head(work.todo)[1]
           x == Head(work.todo)[2]
           z == [ZeroBlock EXCEPT !.bytes = x]
           c == Cell("DATA", work.ino, h, z)
<1>1. /\ Busy(work) /\ work.pc = "data" /\ h \in 0..(MaxData - 1) /\ c \in Cells /\ Put(c)
      /\ work'.request = work.request /\ work'.before = work.before
      /\ work'.node = [work.node EXCEPT !.ptrs[h] = Here] /\ work'.todo = Tail(work.todo)
  BY WriteDataIs DEF WorkFields
<1>2. /\ work.todo \in Seq(Tasks) /\ Len(work.todo) \in Nat \ {0}
      /\ Head(work.todo) = work.todo[1] /\ x # Unread
      /\ work.node \in Block /\ SegmentTyped
  BY <1>1, HeadTask DEF WriteData, NextUnread, Busy, TypeInv
<1>3. c.block.bytes = x
  BY DEF Cell, ZeroBlock
<1> HIDE DEF c, z
<1>4. /\ Keeps /\ CellOf(Here, mem', disk') = c
  BY <1>1, <1>2, PutKeeps
<1>5. h = work.todo[1][1] /\ x = work.todo[1][2]
  BY <1>2
<1> HIDE DEF h, x
<1>6. /\ work.node.ptrs \in Pointers /\ work'.node.ptrs = [work.node.ptrs EXCEPT ![h] = Here]
      /\ work'.node.complete = work.node.complete /\ work'.node.incomplete = work.node.incomplete
  BY <1>1, <1>2, BlockFields
<1>7. FileSize(work'.node) = FileSize(work.node)
  BY <1>6 DEF FileSize
<1>8. /\ Len(work'.todo) = Len(work.todo) - 1
      /\ \A j \in 1..Len(work'.todo) : j + 1 \in 1..Len(work.todo) /\ work'.todo[j] = work.todo[j + 1]
  BY <1>1, <1>2
<1>9. Wanted(work') = Wanted(work)
  BY <1>1 DEF Wanted
<1>10. ASSUME NEW k \in 1..FileSize(work.node), NEW v, Meets(work, k, v, mem, disk)
       PROVE  Meets(work', k, v, mem', disk')
  <2>1. \A j \in 1..Len(work'.todo) : Gives(work'.todo[j], k, v, work'.request)
    BY <1>1, <1>8, <1>10 DEF Meets
  <2> DEFINE b == BlockNo(k)
  <2>2. /\ b \in 0..(MaxData - 1) /\ BlockSize * b < FileSize(work.node)
        /\ work.node.ptrs[b] \in Addr
    BY <1>2, ByteOfFile
  <2>3. CASE b = h
    <3>1. 1 \in 1..Len(work.todo)
      BY <1>2
    <3>2. Gives(work.todo[1], k, v, work.request)
      BY <1>10, <3>1 DEF Meets
    <3>3. x[Offset(k)] = v
      BY <1>2, <1>5, <2>3, <3>2 DEF Gives
    <3>4. work'.node.ptrs[b] = Here
      BY <1>6, <2>2, <2>3 DEF Pointers
    <3>5. FileByte(work'.node, k, mem', disk') = v
      BY <1>3, <1>4, <3>3, <3>4 DEF FileByte
    <3>6. QED
      BY <2>1, <3>5 DEF Meets
  <2>4. CASE b # h
    <3>1. ASSUME ~ToDo(work'.todo, b)
          PROVE  FileByte(work'.node, k, mem', disk') = v
      <4>1. ~ToDo(work.todo, b)
        BY <2>4, <3>1, ToDoWritten DEF h
      <4>2. FileByte(work.node, k, mem, disk) = v
        BY <1>10, <4>1 DEF Meets
      <4>3. HoldsData(work.node.ptrs[b], work.ino, b, mem, disk, dirty)
        BY <2>2, <4>1 DEF MadeOwn
      <4>4. CellOf(work.node.ptrs[b], mem', disk') = CellOf(work.node.ptrs[b], mem, disk)
        BY <1>4, <2>2, <4>3, DataKept
      <4>5. work'.node.ptrs[b] = work.node.ptrs[b]
        BY <1>6, <2>2, <2>4 DEF Pointers
      <4>6. QED
        BY <4>2, <4>4, <4>5 DEF FileByte
    <3>2. QED
      BY <2>1, <3>1 DEF Meets
  <2>5. QED
    BY <2>3, <2>4
<1>11. QED
  BY <1>1, <1>7, <1>8, <1>9, <1>10 DEF Promised

(* The writes of a command lead to what is wanted of its file.             *)
LEMMA ContentWork ==
  ASSUME TypeInv, FilesHold, ContentHolds, ReadLast \/ WriteData \/ WriteInode \/ TurnSegment
  PROVE  ContentHolds'
<1>0. /\ RequestIs(work, nameMap) /\ OthersAs(work, nameMap, imap, mem, disk)
      /\ imap \in [Inodes -> Addr] /\ SegmentTyped
  BY DEF ContentHolds, TypeInv, SegmentTyped
<1>1. CASE ReadLast
  <2>1. /\ work.pc = "data" /\ work'.pc = "data" /\ work'.ino = work.ino
        /\ work'.request = work.request /\ work'.before = work.before
    BY <1>1, ReadLastIs DEF WorkFields
  <2>2. UNCHANGED <<mem, disk, imap, nameMap>> /\ Keeps
    BY <1>1, SameKeeps DEF ReadLast, segVars
  <2>3. Promised(work', mem', disk')
    BY <1>1, <2>1, <2>2, ReadPromises DEF ContentHolds, Making
  <2>4. RequestIs(work', nameMap')
    BY <1>0, <2>1, <2>2 DEF RequestIs
  <2>5. OthersAs(work', nameMap', imap', mem', disk')
    BY <1>0, <2>1, <2>2, OthersStay
  <2>6. QED
    BY <2>1, <2>3, <2>4, <2>5 DEF ContentHolds
<1>2. CASE WriteData
  <2>1. /\ Busy(work) /\ work.pc = "data" /\ work'.pc \in {"data", "inode"} /\ work'.ino = work.ino
        /\ work'.request = work.request /\ work'.before = work.before
        /\ \E c \in Cells : Put(c)
    BY <1>2, WriteDataIs DEF WorkFields
  <2>2. UNCHANGED <<imap, nameMap>> /\ Keeps
    BY <1>0, <1>2, <2>1, PutKeeps DEF WriteData
  <2>3. Promised(work', mem', disk')
    BY <1>2, <2>1, WritePromises DEF ContentHolds, Making, FilesHold, WorkHolds
  <2>4. RequestIs(work', nameMap')
    BY <1>0, <2>1, <2>2 DEF RequestIs
  <2>5. OthersAs(work', nameMap', imap', mem', disk')
    BY <1>0, <2>1, <2>2, OthersStay
  <2>6. QED
    BY <2>1, <2>3, <2>4, <2>5 DEF ContentHolds
<1>3. CASE WriteInode
  <2> DEFINE c == Cell("INODE", work.ino, 0, work.node)
             n == work.request[2]
  <2>1. /\ Busy(work) /\ work # Idle /\ work.pc = "inode" /\ work'.pc = "chunk"
        /\ c \in Cells /\ Put(c) /\ imap' = [imap EXCEPT ![work.entry] = Here]
        /\ work'.ino = work.ino /\ work'.request = work.request /\ work'.before = work.before
    BY <1>3, WriteInodeIs, IdleIs DEF WorkFields
  <2>2. c.block = work.node
    BY DEF Cell
  <2> HIDE DEF c
  <2>3. Keeps /\ CellOf(Here, mem', disk') = c /\ UNCHANGED nameMap
    BY <1>0, <1>3, <2>1, PutKeeps DEF WriteInode
  <2>4. /\ work.entry = work.ino /\ work.ino \in Inodes /\ work.todo = << >> /\ work.node \in Block
        /\ MadeOwn(work.node, work.ino, work.todo, mem, disk, dirty)
        /\ Promised(work, mem, disk) /\ Making(work)
    BY <2>1 DEF FilesHold, WorkHolds, ContentHolds, Making, Busy
  <2>5. RequestIs(work', nameMap')
    BY <1>0, <2>1, <2>3 DEF RequestIs
  <2>6. OthersAs(work', nameMap', imap', mem', disk')
    <3>1. \A i \in Inodes : i # work.ino => imap'[i] = imap[i]
      BY <1>0, <2>1, <2>4
    <3>2. QED
      BY <1>0, <2>1, <2>3, <2>4, <3>1, OthersStay
  <2>7. ~Making(work')
    BY <2>1 DEF Making
  <2>8. ASSUME work'.request[1] # "remove"
        PROVE  Reads(InodeOf(nameMap', imap', n, mem', disk'), Wanted(work'),
                     Store!LeftOpen(work'.request), mem', disk')
    <3>1. n \in DOMAIN nameMap /\ nameMap[n] = work.ino
      BY <1>0, <2>1, <2>8 DEF RequestIs
    <3>2. imap'[work.ino] = Here
      BY <1>0, <2>1, <2>4
    <3>3. InodeOf(nameMap', imap', n, mem', disk') = work.node
      BY <2>2, <2>3, <3>1, <3>2 DEF InodeOf
    <3>4. \A k : ~ToDo(work.todo, k)
      BY <2>4 DEF ToDo
    <3>5. OwnBlocks(work.node, work.ino, mem, disk, dirty)
      BY <2>4, <3>4 DEF MadeOwn, OwnBlocks
    <3>6. Reads(work.node, Wanted(work), Store!LeftOpen(work.request), mem, disk)
      BY <2>4, <3>4 DEF Promised, Meets, Reads
    <3>7. Reads(work.node, Wanted(work), Store!LeftOpen(work.request), mem', disk')
      BY <2>3, <2>4, <3>5, <3>6, ReadsKept
    <3>8. Wanted(work') = Wanted(work)
      BY <2>1 DEF Wanted
    <3>9. QED
      BY <2>1, <3>3, <3>7, <3>8
  <2>9. QED
    BY <2>1, <2>5, <2>6, <2>7, <2>8 DEF ContentHolds
<1>4. CASE TurnSegment
  <2> DEFINE n == work.request[2]
  <2>1. /\ Busy(work) /\ Turn /\ work # Idle
        /\ work'.pc = work.pc /\ work'.ino = work.ino /\ work'.node = work.node
        /\ work'.todo = work.todo
        /\ work'.request = work.request /\ work'.before = work.before
    BY <1>4, TurnSegmentIs DEF WorkFields
  <2>2. UNCHANGED <<imap, nameMap>> /\ Keeps
    BY <1>0, <1>4, <2>1, TurnKeeps DEF TurnSegment, TurnAndClean, Turn
  <2>3. RequestIs(work', nameMap')
    BY <1>0, <2>1, <2>2 DEF RequestIs
  <2>4. OthersAs(work', nameMap', imap', mem', disk')
    BY <1>0, <2>1, <2>2, OthersStay
  <2>5. ASSUME Making(work') PROVE Promised(work', mem', disk')
    <3>1. Making(work)
      BY <2>1, <2>5 DEF Making
    <3>2. /\ Promised(work, mem, disk) /\ work.node \in Block
          /\ MadeOwn(work.node, work.ino, work.todo, mem, disk, dirty)
      BY <2>1, <3>1 DEF ContentHolds, FilesHold, WorkHolds, Busy
    <3>3. QED
      BY <2>1, <2>2, <3>2, PromisedKept
  <2>6. ASSUME work'.pc = "chunk", work'.request[1] # "remove"
        PROVE  Reads(InodeOf(nameMap', imap', n, mem', disk'), Wanted(work'),
                     Store!LeftOpen(work'.request), mem', disk')
    <3> DEFINE b == InodeOf(nameMap, imap, n, mem, disk)
    <3>1. /\ n \in DOMAIN nameMap \cap FileNames /\ ~Making(work)
          /\ Reads(b, Wanted(work), Store!LeftOpen(work.request), mem, disk)
      BY <1>0, <2>1, <2>6 DEF RequestIs, Making, ContentHolds
    <3>2. /\ nameMap[n] \in Inodes /\ imap[nameMap[n]] # Nil /\ imap[nameMap[n]] \in Addr
          /\ Placed(imap[nameMap[n]], mem, dirty)
          /\ b \in Block /\ OwnBlocks(b, nameMap[n], mem, disk, dirty)
      BY <3>1, FileRead DEF InodeOf
    <3>3. InodeOf(nameMap', imap', n, mem', disk') = b
      BY <2>2, <3>2 DEF InodeOf, Keeps
    <3>4. Wanted(work') = Wanted(work)
      BY <2>1 DEF Wanted
    <3> HIDE DEF b
    <3>5. Reads(b, Wanted(work), Store!LeftOpen(work.request), mem', disk')
      BY <2>2, <3>1, <3>2, ReadsKept
    <3>6. QED
      BY <2>1, <3>3, <3>4, <3>5
  <2>7. QED
    BY <2>1, <2>3, <2>4, <2>5, <2>6 DEF ContentHolds
<1>5. QED
  BY <1>1, <1>2, <1>3, <1>4

(* A command begins with what is wanted of its file still to be written.   *)
LEMMA ContentBegins ==
  ASSUME TypeInv, FilesHold, status = "up", Command, status' = "up"
  PROVE  ContentHolds'
<1>0. ~OutOfInodes /\ ~Making(work)
  BY DEF OutOfInodes, ProcessEnds, Command, Import, Remove, Overwrite, Ready, Making
<1>1. CASE \E n \in FileNames, src \in Sources : Import(n, src)
  <2>1. PICK n \in FileNames, src \in Sources : Import(n, src)
    BY <1>1
  <2> DEFINE i == Least(FreeInodes)
  <2>2. /\ work'.pc = "data" /\ work'.ino = i
        /\ work'.node = NewNode(n, src) /\ work'.todo = ImportTasks(src)
        /\ nameMap' = [m \in DOMAIN nameMap \cup {n} |-> IF m = n THEN i ELSE nameMap[m]]
        /\ n \in Names /\ src \in Seq(Nat)
    BY <2>1, ImportIs
  <2> HIDE DEF i
  <2>3. /\ work'.request = <<"import", n, src>> /\ work'.before = Contents(nameMap, imap, TRUE)
        /\ UNCHANGED <<mem, disk, imap>>
    BY <2>1 DEF Import, Working, segVars
  <2>4. /\ work'.request[1] = "import" /\ work'.request[2] = n /\ work'.request[3] = src
        /\ work'.request # << >>
    BY <2>3
  <2>5. RequestIs(work', nameMap')
    BY <2>2, <2>4 DEF RequestIs
  <2>6. OthersAs(work', nameMap', imap', mem', disk')
    <3>1. /\ DOMAIN work'.before = DOMAIN nameMap \cap FileNames
          /\ \A m \in DOMAIN nameMap \cap FileNames :
               Reads(InodeOf(nameMap, imap, m, mem, disk), work'.before[m], {}, mem, disk)
      BY <1>0, <2>3, BeforeReads
    <3>2. ASSUME NEW m \in FileNames, m # n
          PROVE  /\ m \in DOMAIN nameMap' <=> m \in DOMAIN nameMap
                 /\ m \in DOMAIN nameMap => nameMap'[m] = nameMap[m]
      BY <2>2, <3>2
    <3>3. QED
      BY <2>3, <2>4, <3>1, <3>2 DEF OthersAs, InodeOf
  <2>7. Promised(work', mem', disk')
    <3> DEFINE size == FileSize(NewNode(n, src))
    <3>1. /\ DOMAIN Store!Imported(src) = 1..size
          /\ \A k \in 1..size : SourceBlock(src, BlockNo(k))[Offset(k)] = Store!Imported(src)[k]
      BY <2>2, ImportedIs
    <3>2. Wanted(work') = Store!Imported(src)
      BY <2>4 DEF Wanted
    <3>3. NewNode(n, src) \in Block
      BY <2>2, NewNodeIs
    <3>4. Len(work'.todo) = BlocksRead(src)
          /\ \A j \in 1..BlocksRead(src) : work'.todo[j] = <<j - 1, SourceBlock(src, j - 1)>>
      BY <2>2, ImportTasksAre DEF ImportTasks
    <3>5. \A j \in 1..BlocksRead(src) : j - 1 \in Nat
      BY <2>2, BlocksReadIs, LayoutIs
    <3>6. \A j \in 1..BlocksRead(src) : SourceBlock(src, j - 1) # Unread
      BY <2>2, <3>5, SourceBlockIs, UnreadIs
    <3>7. ASSUME NEW k \in 1..size
          PROVE  Meets(work', k, Wanted(work')[k], mem', disk')
      <4>1. BlockNo(k) \in Nat /\ BlockSize * BlockNo(k) < size
        <5>1. BlockNo(k) \in 0..(MaxData - 1) /\ BlockSize * BlockNo(k) < size
          BY <3>3, ByteOfFile
        <5> HIDE DEF size
        <5>2. QED
          BY <5>1, LayoutIs
      <4>2. ToDo(work'.todo, BlockNo(k))
        BY <2>2, <4>1, ImportCovers
      <4>3. ASSUME NEW j \in 1..Len(work'.todo)
            PROVE  Gives(work'.todo[j], k, Wanted(work')[k], work'.request)
        <5>1. work'.todo[j][1] = j - 1 /\ work'.todo[j][2] = SourceBlock(src, j - 1)
              /\ work'.todo[j][2] # Unread
          BY <3>4, <3>6
        <5>2. QED
          BY <3>1, <3>2, <5>1 DEF Gives
      <4>4. QED
        BY <4>2, <4>3 DEF Meets
    <3>8. \A j \in 1..Len(work'.todo) : work'.todo[j][2] # Unread
      BY <3>4, <3>6
    <3>9. QED
      BY <2>2, <3>1, <3>2, <3>7, <3>8 DEF Promised
  <2>8. QED
    BY <2>2, <2>5, <2>6, <2>7 DEF ContentHolds
<1>2. CASE \E n \in FileNames : Remove(n)
  <2>1. PICK n \in FileNames : Remove(n)
    BY <1>2
  <2> DEFINE i == nameMap[n]
  <2>2. /\ n \in DOMAIN nameMap /\ i \in Inodes
        /\ nameMap' = [m \in DOMAIN nameMap \ {n} |-> nameMap[m]]
        /\ imap' = [imap EXCEPT ![i] = Nil] /\ work'.pc = "chunk"
        /\ UNCHANGED <<disk, mem>>
    BY <2>1, RemoveIs
  <2>3. work'.request = <<"remove", n>> /\ work'.before = Contents(nameMap, imap, TRUE)
    BY <2>1 DEF Remove, Working
  <2>4. work'.request[1] = "remove" /\ work'.request[2] = n /\ work'.request # << >>
    BY <2>3
  <2>5. BlockAt(imap[i]).name = n /\ imap \in [Inodes -> Addr]
    BY <1>0, <2>2, FileRead DEF TypeInv, SegmentTyped
  <2> HIDE DEF i
  <2>6. RequestIs(work', nameMap')
    BY <2>2, <2>4 DEF RequestIs
  <2>7. OthersAs(work', nameMap', imap', mem', disk')
    <3>1. /\ DOMAIN work'.before = DOMAIN nameMap \cap FileNames
          /\ \A m \in DOMAIN nameMap \cap FileNames :
               Reads(InodeOf(nameMap, imap, m, mem, disk), work'.before[m], {}, mem, disk)
      BY <1>0, <2>3, BeforeReads
    <3>2. ASSUME NEW m \in FileNames, m # n
          PROVE  /\ m \in DOMAIN nameMap' <=> m \in DOMAIN nameMap
                 /\ m \in DOMAIN nameMap => InodeOf(nameMap', imap', m, mem', disk')
                                              = InodeOf(nameMap, imap, m, mem, disk)
      <4>1. m \in DOMAIN nameMap' <=> m \in DOMAIN nameMap
        BY <2>2, <3>2
      <4>2. ASSUME m \in DOMAIN nameMap
            PROVE  InodeOf(nameMap', imap', m, mem', disk') = InodeOf(nameMap, imap, m, mem, disk)
        <5>1. BlockAt(imap[nameMap[m]]).name = m /\ nameMap[m] \in Inodes
          BY <1>0, <4>2, FileRead
        <5>2. nameMap[m] # i
          BY <2>5, <3>2, <5>1
        <5>3. nameMap'[m] = nameMap[m]
          BY <2>2, <3>2, <4>2
        <5>4. imap'[nameMap[m]] = imap[nameMap[m]]
          BY <2>2, <2>5, <5>1, <5>2
        <5>5. QED
          BY <2>2, <5>3, <5>4 DEF InodeOf
      <4>3. QED
        BY <4>1, <4>2
    <3>3. QED
      BY <2>2, <2>4, <3>1, <3>2 DEF OthersAs
  <2>8. QED
    BY <2>2, <2>4, <2>6, <2>7 DEF ContentHolds, Making
<1>3. CASE \E n \in FileNames, o \in Overwrites : Overwrite(n, o[1], o[2], o[3])
  <2>1. PICK n \in FileNames, o \in Overwrites : Overwrite(n, o[1], o[2], o[3])
    BY <1>3
  <2>2. o[1] \in Nat /\ o[2] \in Nat /\ o[3] \in Nat
    BY CommandAssumption
  <2>3. /\ n \in DOMAIN nameMap /\ DOMAIN nameMap' = DOMAIN nameMap
        /\ \A m \in DOMAIN nameMap : nameMap'[m] = nameMap[m]
        /\ work'.pc = "data" /\ work'.ino = nameMap[n]
    BY <2>1, <2>2, OverwriteFindsFile
  <2>4. /\ work'.request = <<"overwrite", n, o[1], o[2], o[3]>>
        /\ work'.before = Contents(nameMap, imap, TRUE) /\ Promised(work', mem, disk)
    BY <2>1, <2>2, OverwritePromises
  <2>5. UNCHANGED <<mem, disk, imap>>
    BY <2>1 DEF Overwrite, segVars
  <2>6. /\ work'.request[1] = "overwrite" /\ work'.request[2] = n /\ work'.request # << >>
        /\ work'.request \in OverwriteRequests
    BY <2>2, <2>4 DEF OverwriteRequests
  <2>7. /\ DOMAIN work'.before = DOMAIN nameMap \cap FileNames
        /\ \A m \in DOMAIN nameMap \cap FileNames :
             /\ work'.before[m] \in Seq(Nat)
             /\ Reads(InodeOf(nameMap, imap, m, mem, disk), work'.before[m], {}, mem, disk)
    BY <1>0, <2>4, BeforeReads
  <2>8. RequestIs(work', nameMap')
    BY <2>3, <2>6, <2>7 DEF RequestIs
  <2>9. OthersAs(work', nameMap', imap', mem', disk')
    BY <2>3, <2>5, <2>6, <2>7 DEF OthersAs, InodeOf
  <2>10. QED
    BY <2>3, <2>4, <2>5, <2>8, <2>9 DEF ContentHolds
<1>4. QED
  BY <1>0, <1>1, <1>2, <1>3 DEF Command

(* Every step keeps the command to what is wanted.                         *)
LEMMA ContentNext ==
  ASSUME TypeInv, StartInv(TRUE), FilesInv, ContentInv, [Next]_vars
  PROVE  ContentInv'
<1> SUFFICES ASSUME status' = "up", work' # Idle PROVE ContentHolds'
  BY DEF ContentInv
<1>1. CASE Command
  <2>1. status = "up"
    BY <1>1 DEF Command, Import, Remove, Overwrite, OutOfInodes, Ready, Up
  <2>2. QED
    BY <1>1, <2>1, ContentBegins DEF FilesInv, Open
<1>2. CASE ReadLast \/ WriteData \/ WriteInode \/ TurnSegment
  <2>1. status = "up" /\ work # Idle
    BY <1>2, IdleIs DEF ReadLast, WriteData, WriteInode, Writing, TurnSegment, WantsToWrite, Up
  <2>2. QED
    BY <1>2, <2>1, ContentWork DEF FilesInv, ContentInv, Open
<1>3. CASE UNCHANGED vars
  <2>1. UNCHANGED <<status, work, nameMap, imap, mem, disk>>
    BY <1>3 DEF vars, segVars, driveVars
  <2>2. ContentHolds
    BY <2>1 DEF ContentInv
  <2>3. RequestIs(work', nameMap') /\ OthersAs(work', nameMap', imap', mem', disk')
    BY <2>1, <2>2 DEF ContentHolds
  <2>4. Making(work') => Promised(work', mem', disk')
    BY <2>1, <2>2 DEF ContentHolds
  <2>5. ASSUME work'.pc = "chunk", work'.request[1] # "remove"
        PROVE  Reads(InodeOf(nameMap', imap', work'.request[2], mem', disk'), Wanted(work'),
                     Store!LeftOpen(work'.request), mem', disk')
    BY <2>1, <2>2, <2>5 DEF ContentHolds
  <2>6. QED
    BY <2>3, <2>4, <2>5 DEF ContentHolds
<1>4. CASE WriteImapChunk
  BY <1>4 DEF WriteImapChunk
<1>5. CASE Cleaning
  BY <1>5 DEF StartInv, Cleaning, CleanStep, ScanSegment, MoveData, MoveInode, MoveChunk,
     CleanTurn, Release, CleanEnds, Moving
<1>6. CASE Format \/ Mount
  BY <1>6 DEF Format, Mount, StartProcess, TypeInv, ControlTyped
<1>7. CASE RefuseMount \/ Overrun \/ Spin \/ Shutdown \/ Crash \/ Stopped
  BY <1>7 DEF RefuseMount, Overrun, Spin, Shutdown, BeginShutdown, TruncateCheckpoint,
     WriteNames, FlushLast, WriteCheckpoint, Crash, ProcessEnds, Stopped, vars, driveVars
<1>8. QED
  BY <1>1, <1>2, <1>3, <1>4, <1>5, <1>6, <1>7 DEF Next, WorkStep

-----------------------------------------------------------------------------
(* The drive as a store of files.                                          *)

(* What the refinement rests on.                                           *)
StoreInv == DriveInv(TRUE, FALSE) /\ FilesInv /\ SavedInv /\ ContentInv

(* The one element of a set of one.                                        *)
LEMMA OnlyOne ==
  ASSUME NEW x
  PROVE  (CHOOSE v \in {x} : TRUE) = x
OBVIOUS

(* No names, no files.                                                     *)
LEMMA NoFiles ==
  ASSUME NEW nm, DOMAIN nm = {}, NEW im, NEW m, NEW d
  PROVE  LiveFiles(nm, im, m, d) = << >>
<1>1. DOMAIN nm \cap FileNames = {}
  OBVIOUS
<1>2. \A f : f = [n \in {} |-> f[n]] => f = << >>
  OBVIOUS
<1>3. QED
  BY <1>1, <1>2 DEF LiveFiles

(* The same of what is saved.                                              *)
LEMMA NoFilesSaved ==
  ASSUME NEW nm, DOMAIN nm \cap FileNames = {}, NEW k, NEW d
  PROVE  FilesOf(nm, k, d) = << >>
<1>1. \A f : f = [n \in {} |-> f[n]] => f = << >>
  OBVIOUS
<1>2. QED
  BY <1>1 DEF FilesOf

(* What a mount would show, by the pointers.                               *)
SavedShown ==
  IF ckpt.kind = "none" THEN {<< >>}
  ELSE IF Mountable THEN {FilesOf(LoadedNames(nameFile), ckpt, disk)}
  ELSE {}

(* A mount would show that.                                                *)
LEMMA SavedViewIs ==
  StoreInv => SavedView = SavedShown
<1> SUFFICES ASSUME StoreInv PROVE SavedView = SavedShown
  OBVIOUS
<1> DEFINE x == Contents(LoadedNames(nameFile), SavedImap, FALSE)
<1>1. Mountable => ckpt.kind = "full" /\ NamesLoad(nameFile)
  BY DEF Mountable
<1>2. Mountable => x = FilesOf(LoadedNames(nameFile), ckpt, disk)
  BY <1>1, SavedShows DEF StoreInv, DriveInv
<1>3. {Contents(nm, im, FALSE) : nm \in {LoadedNames(nameFile)}, im \in {SavedImap}} = {x}
  OBVIOUS
<1>4. SavedView = IF ckpt.kind = "none" THEN {<< >>} ELSE IF Mountable THEN {x} ELSE {}
  <2> DEFINE all == {Contents(nm, im, FALSE) : nm \in {LoadedNames(nameFile)}, im \in {SavedImap}}
  <2>1. SavedView = IF ckpt.kind = "none" THEN {<< >>} ELSE IF Mountable THEN all ELSE {}
    BY DEF SavedView
  <2>2. all = {x}
    BY <1>3
  <2> HIDE DEF all, x
  <2>3. QED
    BY <2>1, <2>2
<1> HIDE DEF x
<1>5. QED
  BY <1>2, <1>4 DEF SavedShown

(* What is left of it when no process runs.                                *)
LeftView == IF SavedView = {} THEN << >> ELSE CHOOSE v \in SavedView : TRUE

(* What the drive shows, by the pointers.                                  *)
LEMMA StoreViewIs ==
  StoreInv =>
    /\ status \in Open /\ work.pc = "idle" =>
         StoreView = LiveFiles(nameMap, imap, mem, disk)
    /\ status = "flushed" => StoreView = FilesOf(nameMap, Closing, disk)
    /\ work.pc # "idle" => StoreView = work.before /\ Running
    /\ ~Running => StoreView = LeftView
    /\ status \notin {"up", "spinning", "corrupt"} => work.pc = "idle"
<1> SUFFICES ASSUME StoreInv
             PROVE  /\ status \in Open /\ work.pc = "idle" =>
                         StoreView = LiveFiles(nameMap, imap, mem, disk)
                    /\ status = "flushed" => StoreView = FilesOf(nameMap, Closing, disk)
                    /\ work.pc # "idle" => StoreView = work.before /\ Running
                    /\ ~Running => StoreView = LeftView
                    /\ status \notin {"up", "spinning", "corrupt"} => work.pc = "idle"
  OBVIOUS
<1>0. TypeInv /\ FilesInv /\ SavedInv
  BY DEF StoreInv, DriveInv
<1>1. status \notin {"up", "spinning", "corrupt"} => work.pc = "idle"
  BY <1>0, BusyIs
<1>2. ASSUME status \in Open, work.pc = "idle"
      PROVE  StoreView = LiveFiles(nameMap, imap, mem, disk)
  <2>1. ~Making(work)
    BY <1>2 DEF Making
  <2>2. Contents(nameMap, imap, TRUE) = LiveFiles(nameMap, imap, mem, disk)
    BY <1>0, <1>2, <2>1, LiveShows
  <2>3. QED
    BY <1>2, <2>2 DEF StoreView, Running, Open
<1>3. ASSUME status = "flushed"
      PROVE  StoreView = FilesOf(nameMap, Closing, disk)
  <2>1. Contents(nameMap, imap, FALSE) = FilesOf(nameMap, Closing, disk)
    BY <1>0, <1>3, FlushedShows
  <2>2. work.pc = "idle"
    BY <1>1, <1>3
  <2>3. QED
    BY <1>3, <2>1, <2>2 DEF StoreView, Running
<1>4. work.pc # "idle" => StoreView = work.before /\ Running
  BY <1>1 DEF StoreView, Running
<1>5. ~Running => StoreView = LeftView
  BY DEF StoreView, LeftView
<1>6. QED
  BY <1>1, <1>2, <1>3, <1>4, <1>5

(* A checkpoint that stays shows what it showed.                           *)
LEMMA FilesOfKept ==
  ASSUME TypeInv, SavedSound(ckpt, disk), SavedFiles(ckpt, disk), NEW nm,
         SavedNamed(ckpt, nm, disk), \A n \in DOMAIN nm : nm[n] \in Inodes, NEW e,
         \A a \in Addr : Behind(a, ckpt) => InFile(a, e) = InFile(a, disk)
  PROVE  FilesOf(nm, ckpt, e) = FilesOf(nm, ckpt, disk)
<1>1. ASSUME NEW n \in DOMAIN nm \cap FileNames
      PROVE  HeldSaved(InFile(SavedAt(ckpt, e, nm[n]), e).block, e)
               = HeldSaved(InFile(SavedAt(ckpt, disk, nm[n]), disk).block, disk)
  <2>1. PICK i \in Inodes : i = nm[n]
    OBVIOUS
  <2> DEFINE b == InFile(SavedAt(ckpt, disk, i), disk).block
  <2>2. SavedAt(ckpt, disk, i) # Nil
    BY <2>1 DEF SavedNamed
  <2>3. /\ InFile(SavedAt(ckpt, e, i), e) = InFile(SavedAt(ckpt, disk, i), disk)
        /\ b \in Block
        /\ \A j \in 0..(MaxData - 1) : BlockSize * j < FileSize(b) =>
             InFile(b.ptrs[j], e) = InFile(b.ptrs[j], disk)
    BY <2>2, SavedKept
  <2> HIDE DEF b
  <2>4. \A k \in 1..FileSize(b) : SavedByte(b, k, e) = SavedByte(b, k, disk)
    <3> SUFFICES ASSUME NEW k \in 1..FileSize(b)
                 PROVE  SavedByte(b, k, e) = SavedByte(b, k, disk)
      OBVIOUS
    <3>1. BlockNo(k) \in 0..(MaxData - 1) /\ BlockSize * BlockNo(k) < FileSize(b)
      BY <2>3, ByteOfFile
    <3>2. QED
      BY <2>3, <3>1 DEF SavedByte
  <2>5. HeldSaved(b, e) = HeldSaved(b, disk)
    BY <2>4 DEF HeldSaved
  <2>6. QED
    BY <2>1, <2>3, <2>5 DEF b
<1>2. QED
  BY <1>1 DEF FilesOf

(* NAME_MAP stays as long as a checkpoint does, until a shutdown begins.   *)
LEMMA NameFileKept ==
  ASSUME StartInv(TRUE), [Next]_vars, ckpt' = ckpt, ckpt.kind = "full", status' # "closing"
  PROVE  nameFile' = nameFile
<1>1. CASE BeginShutdown
  BY <1>1 DEF BeginShutdown
<1>2. CASE WriteNames
  BY <1>2 DEF WriteNames, StartInv
<1>3. QED
  BY <1>1, <1>2, NameFileSteps

(* No write touches what the last checkpoint needs, nor does a shutdown    *)
(* once NAME_MAP is truncated.                                             *)
LEMMA SavedSame ==
  ASSUME StoreInv, StoreInv', [Next]_vars, ckpt' = ckpt, status' # "closing"
  PROVE  SavedView' = SavedView
<1>0. /\ TypeInv /\ StartInv(TRUE) /\ CkptInv(TRUE) /\ KeptInv(TRUE) /\ SavedInv
  BY DEF StoreInv, DriveInv
<1>1. SavedView = SavedShown
  BY SavedViewIs
<1>2. (SavedView = SavedShown)'
  BY SavedViewIs, PTL
<1>3. CASE ckpt.kind # "full"
  <2>1. ~Mountable /\ ~Mountable'
    BY <1>3 DEF Mountable
  <2>2. QED
    BY <1>1, <1>2, <2>1 DEF SavedShown
<1>4. CASE ckpt.kind = "full"
  <2>1. nameFile' = nameFile
    BY <1>0, <1>4, NameFileKept
  <2>2. Mountable' <=> Mountable
    BY <2>1 DEF Mountable, LeaveOffValid
  <2>3. ASSUME Mountable
        PROVE  FilesOf(LoadedNames(nameFile), ckpt, disk')
                 = FilesOf(LoadedNames(nameFile), ckpt, disk)
    <3>1. NamesLoad(nameFile)
      BY <2>3 DEF Mountable
    <3>2. /\ SavedSound(ckpt, disk) /\ SavedFiles(ckpt, disk)
          /\ SavedNamed(ckpt, LoadedNames(nameFile), disk)
      BY <1>0, <1>4, <3>1 DEF SavedInv, CkptInv
    <3>3. nameFile \in Seq(Names)
      BY <1>0 DEF TypeInv, FilesTyped
    <3>4. \A n \in DOMAIN LoadedNames(nameFile) : LoadedNames(nameFile)[n] \in Inodes
      BY <3>1, <3>3, LoadedNamesAre DEF NameMaps
    <3>5. \A a \in Addr : Behind(a, ckpt) => InFile(a, disk') = InFile(a, disk)
      BY <1>0, <1>4, FilesKept
    <3>6. QED
      BY <1>0, <3>2, <3>4, <3>5, FilesOfKept
  <2>4. QED
    BY <1>1, <1>2, <1>4, <2>1, <2>2, <2>3 DEF SavedShown
<1>5. QED
  BY <1>3, <1>4

(* A mount shows what the checkpoint has of the files.                     *)
LEMMA MountShows ==
  ASSUME TypeInv, CkptInv(TRUE), SavedInv, Mount
  PROVE  LiveFiles(nameMap', imap', mem', disk') = FilesOf(LoadedNames(nameFile), ckpt, disk)
<1> DEFINE nm == LoadedNames(nameFile)
<1>1. /\ nameMap' = nm /\ imap' = SavedImap /\ NamesLoad(nameFile) /\ ckpt.kind = "full"
  BY MountIs
<1>2. SavedSound(ckpt, disk) /\ SavedFiles(ckpt, disk) /\ SavedNamed(ckpt, nm, disk)
  BY <1>1 DEF CkptInv, SavedInv
<1>3. nameFile \in Seq(Names) /\ SegmentTyped
  BY DEF TypeInv, FilesTyped
<1>4. \A n \in DOMAIN nm : nm[n] \in Inodes
  BY <1>1, <1>3, LoadedNamesAre DEF NameMaps
<1> HIDE DEF nm
<1>5. ASSUME NEW n \in DOMAIN nm \cap FileNames
      PROVE  Held(InodeOf(nm, imap', n, mem', disk'), mem', disk')
               = HeldSaved(InFile(SavedAt(ckpt, disk, nm[n]), disk).block, disk)
  <2>1. PICK i \in Inodes : i = nm[n]
    BY <1>4
  <2>2. PICK a \in Addr : a = SavedAt(ckpt, disk, i) /\ a = imap'[i]
    BY <1>1, <1>2, SavedImapAt
  <2>3. a # Nil
    BY <1>2, <2>1, <2>2 DEF SavedNamed
  <2> DEFINE b == InFile(a, disk).block
  <2>4. Saved(a, ckpt, disk, "INODE", i) /\ SavedBlocks(b, i, ckpt, disk)
    BY <1>2, <2>2, <2>3 DEF SavedFiles
  <2>5. CellOf(a, mem', disk') = InFile(a, disk)
    BY <2>4, MountReads DEF Saved
  <2>6. b \in Block
    BY <1>3, <2>4, InFileIs DEF Saved, Behind
  <2>7. InodeOf(nm, imap', n, mem', disk') = b
    BY <2>1, <2>2, <2>5 DEF InodeOf
  <2>8. InFile(SavedAt(ckpt, disk, nm[n]), disk).block = b
    BY <2>1, <2>2
  <2> HIDE DEF b
  <2>9. ASSUME NEW k \in 1..FileSize(b)
        PROVE  FileByte(b, k, mem', disk') = SavedByte(b, k, disk)
    <3>1. /\ BlockNo(k) \in 0..(MaxData - 1) /\ BlockSize * BlockNo(k) < FileSize(b)
          /\ b.ptrs[BlockNo(k)] \in Addr
      BY <2>6, ByteOfFile
    <3>2. Behind(b.ptrs[BlockNo(k)], ckpt)
      BY <2>4, <3>1 DEF SavedBlocks, Saved
    <3>3. CellOf(b.ptrs[BlockNo(k)], mem', disk') = InFile(b.ptrs[BlockNo(k)], disk)
      BY <3>1, <3>2, MountReads
    <3>4. QED
      BY <3>3 DEF FileByte, SavedByte
  <2>10. Held(b, mem', disk') = HeldSaved(b, disk)
    BY <2>9 DEF Held, HeldSaved
  <2>11. QED
    BY <2>7, <2>8, <2>10
<1>6. QED
  BY <1>1, <1>5 DEF LiveFiles, FilesOf, nm

(* The first mount, and one of a checkpoint.                               *)
LEMMA OpenStep ==
  ASSUME StoreInv, StoreInv', [Next]_vars, Format \/ Mount
  PROVE  Store!Open
<1>0. /\ TypeInv /\ StartInv(TRUE) /\ CkptInv(TRUE) /\ SavedInv
  BY DEF StoreInv, DriveInv
<1>1. /\ status = "down" /\ status' = "up" /\ work' = work
  BY DEF Format, Mount, StartProcess
<1>2. Phase = "closed" /\ Phase' = "open"
  BY <1>1 DEF Phase
<1>3. work = Idle /\ work.pc = "idle" /\ work'.pc = "idle"
  BY <1>0, <1>1, IdleIs DEF TypeInv, ControlTyped
<1>4. ~Running
  BY <1>1 DEF Running
<1>5. StoreView = LeftView
  BY <1>4, StoreViewIs
<1>6. (status \in Open /\ work.pc = "idle" => StoreView = LiveFiles(nameMap, imap, mem, disk))'
  BY StoreViewIs, PTL
<1>7. StoreView' = LiveFiles(nameMap', imap', mem', disk')
  BY <1>1, <1>3, <1>6 DEF Open
<1>8. SavedView = SavedShown
  BY SavedViewIs
<1>9. (SavedView = SavedShown)'
  BY SavedViewIs, PTL
<1>10. CASE Format
  <2>1. ckpt.kind = "none" /\ ckpt'.kind = "short" /\ nameMap' = << >>
    BY <1>0, <1>1, <1>10 DEF Format, NoCheckpoint, Checkpoint, StartInv
  <2>2. SavedView = {<< >>} /\ SavedView' = {}
    BY <1>8, <1>9, <2>1 DEF SavedShown, Mountable
  <2>3. StoreView = << >>
    BY <1>5, <2>2, OnlyOne DEF LeftView
  <2>4. StoreView' = << >>
    BY <1>7, <2>1, NoFiles
  <2>5. QED
    BY <1>2, <1>3, <2>2, <2>3, <2>4 DEF Store!Open
<1>11. CASE Mount
  <2> DEFINE v == FilesOf(LoadedNames(nameFile), ckpt, disk)
  <2>1. Mountable /\ ckpt' = ckpt /\ ckpt.kind = "full"
    BY <1>11 DEF Mount, Mountable
  <2>2. StoreView' = v
    BY <1>0, <1>7, <1>11, MountShows
  <2> HIDE DEF v
  <2>3. SavedView = {v}
    BY <1>8, <2>1 DEF SavedShown, v
  <2>4. SavedView' = SavedView
    <3>1. status' # "closing"
      BY <1>11 DEF Mount
    <3>2. QED
      BY <2>1, <3>1, SavedSame
  <2>5. StoreView = v
    BY <1>5, <2>3, OnlyOne DEF LeftView
  <2>6. QED
    BY <1>1, <1>2, <1>3, <2>2, <2>3, <2>4, <2>5 DEF Store!Open
<1>12. QED
  BY <1>10, <1>11

(* A mount that is refused.                                                *)
LEMMA RefuseStep ==
  ASSUME StoreInv, StoreInv', [Next]_vars, RefuseMount
  PROVE  Store!Refuse
<1>1. /\ status = "down" /\ status' = "refused" /\ ckpt' = ckpt /\ work' = work
      /\ ckpt.kind # "none" /\ ~Mountable
  BY DEF RefuseMount, StartProcess
<1>2. SavedView = {}
  BY <1>1, SavedViewIs DEF SavedShown
<1>3. SavedView' = SavedView
  BY <1>1, SavedSame
<1>4. StoreView = LeftView
  BY <1>1, StoreViewIs DEF Running
<1>5. (~Running => StoreView = LeftView)'
  BY StoreViewIs, PTL
<1>6. StoreView' = StoreView
  BY <1>1, <1>2, <1>3, <1>4, <1>5 DEF Running, LeftView
<1>7. Phase = "closed" /\ Phase' = "refused"
  BY <1>1 DEF Phase
<1>8. QED
  BY <1>1, <1>2, <1>3, <1>6, <1>7 DEF Store!Refuse

(* A command that is begun.                                                *)
LEMMA BeginStep ==
  ASSUME StoreInv, StoreInv', [Next]_vars, Command, status' = "up"
  PROVE  Store!Begin
<1>0. TypeInv /\ FilesInv /\ TypeInv'
  BY DEF StoreInv, DriveInv
<1>1. ~OutOfInodes
  BY DEF OutOfInodes, ProcessEnds
<1>2. /\ status = "up" /\ work.pc = "idle" /\ ckpt' = ckpt
  BY <1>1 DEF Command, Import, Remove, Overwrite, Ready, Up
<1>3. Phase = "open" /\ Phase' = "open"
  BY <1>2 DEF Phase
<1>4. SavedView' = SavedView
  BY <1>2, SavedSame
<1>5. FilesHold /\ ~Making(work)
  BY <1>0, <1>2 DEF FilesInv, Open, Making
<1>6. StoreView = Contents(nameMap, imap, TRUE)
  BY <1>2 DEF StoreView, Running
<1>7. DOMAIN StoreView = DOMAIN nameMap \cap FileNames
  BY <1>6 DEF Contents
<1>8. /\ work'.pc # "idle" /\ work'.request # << >> /\ Store!Accepted(work'.request)
      /\ work'.before = Contents(nameMap, imap, TRUE)
  <2>1. CASE \E n \in FileNames, src \in Sources : Import(n, src)
    <3>1. PICK n \in FileNames, src \in Sources : Import(n, src)
      BY <2>1
    <3>2. work'.pc = "data"
      BY <1>0, <3>1, ImportIs
    <3>3. work'.request = <<"import", n, src>> /\ work'.before = Contents(nameMap, imap, TRUE)
      BY <3>1 DEF Import, Working
    <3>4. work'.request[1] = "import" /\ work'.request[2] = n /\ work'.request # << >>
      BY <3>3
    <3>5. QED
      BY <3>2, <3>3, <3>4 DEF Store!Accepted
  <2>2. CASE \E n \in FileNames : Remove(n)
    <3>1. PICK n \in FileNames : Remove(n)
      BY <2>2
    <3>2. work'.pc = "chunk" /\ n \in DOMAIN nameMap
      BY <1>0, <3>1, RemoveIs
    <3>3. work'.request = <<"remove", n>> /\ work'.before = Contents(nameMap, imap, TRUE)
      BY <3>1 DEF Remove, Working
    <3>4. work'.request[1] = "remove" /\ work'.request[2] = n /\ work'.request # << >>
      BY <3>3
    <3>5. QED
      BY <1>7, <3>2, <3>3, <3>4 DEF Store!Accepted
  <2>3. CASE \E n \in FileNames, o \in Overwrites : Overwrite(n, o[1], o[2], o[3])
    <3>1. PICK n \in FileNames, o \in Overwrites : Overwrite(n, o[1], o[2], o[3])
      BY <2>3
    <3>2. o[1] \in Nat /\ o[2] \in Nat /\ o[3] \in Nat
      BY CommandAssumption
    <3>3. n \in DOMAIN nameMap /\ work'.pc = "data"
      BY <1>0, <1>5, <3>1, <3>2, OverwriteFindsFile
    <3>4. /\ work'.request = <<"overwrite", n, o[1], o[2], o[3]>>
          /\ work'.before = Contents(nameMap, imap, TRUE)
          /\ o[1] > 0 /\ o[2] < Len(work'.before[n])
      BY <1>0, <1>5, <3>1, <3>2, OverwritePromises
    <3>5. /\ work'.request[1] = "overwrite" /\ work'.request[2] = n /\ work'.request # << >>
          /\ work'.request[3] = o[1] /\ work'.request[4] = o[2]
      BY <3>4
    <3>6. QED
      BY <1>6, <1>7, <3>3, <3>4, <3>5 DEF Store!Accepted
  <2>4. QED
    BY <1>1, <2>1, <2>2, <2>3 DEF Command
<1>9. (work.pc # "idle" => StoreView = work.before /\ Running)'
  BY StoreViewIs, PTL
<1>10. StoreView' = StoreView
  BY <1>6, <1>8, <1>9
<1>11. QED
  BY <1>2, <1>3, <1>4, <1>8, <1>10 DEF Store!Begin, Store!None

(* What is read of a file is what it is to be.                             *)
LEMMA HeldIs ==
  ASSUME NEW b, NEW s, NEW open, NEW m, NEW d, Reads(b, s, open, m, d)
  PROVE  /\ DOMAIN Held(b, m, d) = DOMAIN s
         /\ \A k \in DOMAIN s : Held(b, m, d)[k] = s[k] \/ k \in open
BY DEF Reads, Held

(* The files after the last write of a command.                            *)
LEMMA FilesAfter ==
  ASSUME TypeInv, FilesHold, ContentHolds, WriteImapChunk
  PROVE  LET after == LiveFiles(nameMap', imap', mem', disk')
             r     == work.request
         IN /\ DOMAIN after = DOMAIN nameMap \cap FileNames
            /\ RequestIs(work, nameMap) /\ DOMAIN work.before \subseteq FileNames
            /\ \A n \in FileNames : n # r[2] =>
                 /\ n \in DOMAIN nameMap <=> n \in DOMAIN work.before
                 /\ n \in DOMAIN nameMap =>
                      /\ DOMAIN after[n] = DOMAIN work.before[n]
                      /\ \A k \in DOMAIN work.before[n] : after[n][k] = work.before[n][k]
            /\ r[1] # "remove" =>
                 /\ DOMAIN after[r[2]] = DOMAIN Wanted(work)
                 /\ \A k \in DOMAIN Wanted(work) :
                      after[r[2]][k] = Wanted(work)[k] \/ k \in Store!LeftOpen(r)
<1> DEFINE after == LiveFiles(nameMap', imap', mem', disk')
           r     == work.request
           n0    == r[2]
<1>1. /\ work.pc = "chunk" /\ Put(ChunkCell(ChunkOf(work.entry), work.chunk))
      /\ ChunkCell(ChunkOf(work.entry), work.chunk) \in Cells
  BY WriteImapChunkIs
<1>2. UNCHANGED <<imap, nameMap>>
  BY DEF WriteImapChunk
<1>3. Keeps
  BY <1>1, PutKeeps DEF TypeInv
<1>4. RequestIs(work, nameMap) /\ OthersAs(work, nameMap, imap, mem, disk) /\ ~Making(work)
  BY <1>1 DEF ContentHolds, Making
<1>5. OthersAs(work, nameMap', imap', mem', disk')
  BY <1>2, <1>3, <1>4, OthersStay
<1>6. \A n \in DOMAIN nameMap \cap FileNames :
        after[n] = Held(InodeOf(nameMap', imap', n, mem', disk'), mem', disk')
  BY <1>2 DEF LiveFiles
<1>7. DOMAIN after = DOMAIN nameMap \cap FileNames
  BY <1>2 DEF LiveFiles
<1> HIDE DEF after
<1>8. ASSUME NEW n \in FileNames, n # n0
      PROVE  /\ n \in DOMAIN nameMap <=> n \in DOMAIN work.before
             /\ n \in DOMAIN nameMap =>
                  /\ DOMAIN after[n] = DOMAIN work.before[n]
                  /\ \A k \in DOMAIN work.before[n] : after[n][k] = work.before[n][k]
  <2>1. n \in DOMAIN nameMap <=> n \in DOMAIN work.before
    BY <1>4, <1>8 DEF OthersAs
  <2>2. ASSUME n \in DOMAIN nameMap
        PROVE  Reads(InodeOf(nameMap', imap', n, mem', disk'), work.before[n], {}, mem', disk')
    BY <1>2, <1>5, <1>8, <2>2 DEF OthersAs
  <2>3. QED
    BY <1>6, <2>1, <2>2, HeldIs
<1>9. ASSUME r[1] # "remove"
      PROVE  /\ DOMAIN after[n0] = DOMAIN Wanted(work)
             /\ \A k \in DOMAIN Wanted(work) :
                  after[n0][k] = Wanted(work)[k] \/ k \in Store!LeftOpen(r)
  <2>1. n0 \in DOMAIN nameMap \cap FileNames
    BY <1>4, <1>9 DEF RequestIs
  <2>2. Reads(InodeOf(nameMap, imap, n0, mem, disk), Wanted(work), Store!LeftOpen(r), mem, disk)
    BY <1>1, <1>9 DEF ContentHolds
  <2> DEFINE b == BlockAt(imap[nameMap[n0]])
  <2>3. /\ b \in Block /\ OwnBlocks(b, nameMap[n0], mem, disk, dirty)
        /\ b = CellOf(imap[nameMap[n0]], mem, disk).block
        /\ imap[nameMap[n0]] \in Addr /\ Placed(imap[nameMap[n0]], mem, dirty)
    BY <1>4, <2>1, FileRead
  <2> HIDE DEF b
  <2>4. InodeOf(nameMap, imap, n0, mem, disk) = b
        /\ InodeOf(nameMap', imap', n0, mem', disk') = b
    BY <1>2, <1>3, <2>3 DEF InodeOf, Keeps
  <2>5. Reads(b, Wanted(work), Store!LeftOpen(r), mem', disk')
    BY <1>3, <2>2, <2>3, <2>4, ReadsKept
  <2>6. QED
    BY <1>6, <2>1, <2>4, <2>5, HeldIs
<1>10. DOMAIN work.before \subseteq FileNames
  BY <1>4 DEF OthersAs
<1>11. QED
  BY <1>4, <1>7, <1>8, <1>9, <1>10 DEF after

(* What the store is to become, by what is wanted of the file.             *)
LEMMA ResultIs ==
  ASSUME StoreView = work.before, RequestIs(work, nameMap)
  PROVE  LET r == work.request
             result == Store!Result(r)
         IN /\ r[1] = "remove" =>
                 /\ DOMAIN result = DOMAIN work.before \ {r[2]}
                 /\ \A n \in DOMAIN result : result[n] = work.before[n]
            /\ r[1] # "remove" =>
                 /\ DOMAIN result = DOMAIN work.before \cup {r[2]}
                 /\ \A n \in DOMAIN result :
                      result[n] = IF n = r[2] THEN Wanted(work) ELSE work.before[n]
<1> DEFINE r == work.request
<1>1. r[1] \in {"import", "remove", "overwrite"}
  BY DEF RequestIs
<1>2. CASE r[1] = "import"
  <2>1. /\ Store!Result(r) = Store!With(r[2], Store!Imported(r[3]))
        /\ Wanted(work) = Store!Imported(r[3])
    BY <1>2 DEF Store!Result, Wanted
  <2>2. Store!Result(r) = [m \in DOMAIN work.before \cup {r[2]} |->
                             IF m = r[2] THEN Wanted(work) ELSE work.before[m]]
    BY <2>1 DEF Store!With
  <2>3. QED
    BY <1>2, <2>2
<1>3. CASE r[1] = "remove"
  <2>1. Store!Result(r) = [m \in DOMAIN work.before \ {r[2]} |-> work.before[m]]
    BY <1>3 DEF Store!Result
  <2>2. QED
    BY <1>3, <2>1
<1>4. CASE r[1] = "overwrite"
  <2>1. /\ Store!Result(r) =
             Store!With(r[2], Store!Overwritten(work.before[r[2]], r[3], r[4], r[5]))
        /\ Wanted(work) = Store!Overwritten(work.before[r[2]], r[3], r[4], r[5])
    BY <1>4 DEF Store!Result, Wanted
  <2>2. Store!Result(r) = [m \in DOMAIN work.before \cup {r[2]} |->
                             IF m = r[2] THEN Wanted(work) ELSE work.before[m]]
    BY <2>1 DEF Store!With
  <2>3. QED
    BY <1>4, <2>2
<1>5. QED
  BY <1>1, <1>2, <1>3, <1>4

(* A command ends.                                                         *)
LEMMA FinishStep ==
  ASSUME StoreInv, StoreInv', [Next]_vars, WriteImapChunk
  PROVE  Store!Finish
<1>0. TypeInv /\ FilesInv /\ ContentInv
  BY DEF StoreInv, DriveInv
<1>1. /\ Up /\ work.pc = "chunk" /\ Busy(work) /\ work' = Idle /\ work # Idle
  BY <1>0, WriteImapChunkIs, IdleIs
<1>2. /\ ckpt' = ckpt /\ status' = "up" /\ status = "up"
  BY <1>1 DEF WriteImapChunk, Up
<1>3. FilesHold /\ ContentHolds
  BY <1>0, <1>1, <1>2 DEF FilesInv, ContentInv, Open
<1>4. Phase = "open" /\ Phase' = "open" /\ SavedView' = SavedView
  BY <1>2, SavedSame DEF Phase
<1>5. StoreView = work.before
  BY <1>1, StoreViewIs
<1>6. (status \in Open /\ work.pc = "idle" => StoreView = LiveFiles(nameMap, imap, mem, disk))'
  BY StoreViewIs, PTL
<1> DEFINE after == LiveFiles(nameMap', imap', mem', disk')
           r == work.request
           result == Store!Result(r)
<1>7. StoreView' = after /\ work'.pc = "idle"
  BY <1>1, <1>2, <1>6, IdleIs DEF Open
<1>8. /\ DOMAIN after = DOMAIN nameMap \cap FileNames
      /\ RequestIs(work, nameMap) /\ DOMAIN work.before \subseteq FileNames
      /\ \A n \in FileNames : n # r[2] =>
           /\ n \in DOMAIN nameMap <=> n \in DOMAIN work.before
           /\ n \in DOMAIN nameMap =>
                /\ DOMAIN after[n] = DOMAIN work.before[n]
                /\ \A k \in DOMAIN work.before[n] : after[n][k] = work.before[n][k]
      /\ r[1] # "remove" =>
           /\ DOMAIN after[r[2]] = DOMAIN Wanted(work)
           /\ \A k \in DOMAIN Wanted(work) :
                after[r[2]][k] = Wanted(work)[k] \/ k \in Store!LeftOpen(r)
  BY <1>0, <1>3, FilesAfter
<1>9. /\ r[1] = "remove" =>
           /\ DOMAIN result = DOMAIN work.before \ {r[2]}
           /\ \A n \in DOMAIN result : result[n] = work.before[n]
      /\ r[1] # "remove" =>
           /\ DOMAIN result = DOMAIN work.before \cup {r[2]}
           /\ \A n \in DOMAIN result :
                result[n] = IF n = r[2] THEN Wanted(work) ELSE work.before[n]
  BY <1>5, <1>8, ResultIs
<1>10. /\ r # << >> /\ r[2] \in FileNames
       /\ r[1] = "remove" => r[2] \notin DOMAIN nameMap
       /\ r[1] # "remove" => r[2] \in DOMAIN nameMap
  BY <1>8 DEF RequestIs
<1> HIDE DEF after, r, result
<1>11. DOMAIN after = DOMAIN result
  <2>1. \A n \in FileNames : n # r[2] => (n \in DOMAIN nameMap <=> n \in DOMAIN work.before)
    BY <1>8
  <2>2. CASE r[1] = "remove"
    BY <1>8, <1>9, <1>10, <2>1, <2>2
  <2>3. CASE r[1] # "remove"
    BY <1>8, <1>9, <1>10, <2>1, <2>3
  <2>4. QED
    BY <2>2, <2>3
<1>12. ASSUME NEW n \in DOMAIN result
       PROVE  /\ DOMAIN after[n] = DOMAIN result[n]
              /\ \A k \in DOMAIN result[n] :
                   \/ after[n][k] = result[n][k]
                   \/ n = r[2] /\ k \in Store!LeftOpen(r)
  <2>1. n \in DOMAIN nameMap /\ n \in FileNames
    BY <1>8, <1>11
  <2>2. CASE n # r[2]
    <3>1. result[n] = work.before[n]
      BY <1>9, <2>2
    <3>2. QED
      BY <1>8, <2>1, <2>2, <3>1
  <2>3. CASE n = r[2]
    <3>1. r[1] # "remove"
      BY <1>10, <2>1, <2>3
    <3>2. result[n] = Wanted(work)
      BY <1>9, <2>3, <3>1
    <3>3. QED
      BY <1>8, <2>3, <3>1, <3>2
  <2>4. QED
    BY <2>2, <2>3
<1>13. Store!Follows(after, r)
  BY <1>11, <1>12 DEF Store!Follows, result
<1>14. QED
  BY <1>1, <1>4, <1>7, <1>10, <1>13 DEF Store!Finish, Store!None, r

(* A process that dies.                                                    *)
LEMMA DieStep ==
  ASSUME StoreInv, StoreInv', [Next]_vars, Crash \/ OutOfInodes
  PROVE  Store!Die
<1>0. TypeInv
  BY DEF StoreInv, DriveInv
<1>1. /\ status \notin {"down", "refused"} /\ status' = "down" /\ ckpt' = ckpt /\ work' = Idle
  BY DEF Crash, OutOfInodes, ProcessEnds, Running, Ready, Up
<1>2. SavedView' = SavedView
  BY <1>1, SavedSame
<1>3. (~Running => StoreView = LeftView)'
  BY StoreViewIs, PTL
<1>4. StoreView' = LeftView'
  BY <1>1, <1>3 DEF Running
<1>5. Phase \in {"open", "saving"} /\ Phase' = "closed"
  BY <1>0, <1>1 DEF Phase, TypeInv, ControlTyped
<1>6. QED
  BY <1>1, <1>2, <1>4, <1>5, IdleIs DEF LeftView, Store!Die, Store!Close, Store!None, Store!Empty

(* NAME_MAP is truncated: beside the checkpoint, it gives no file back.    *)
LEMMA BeginSaveStep ==
  ASSUME PlainNames, StoreInv, StoreInv', BeginShutdown
  PROVE  Store!BeginSave
<1>1. /\ status = "up" /\ work.pc = "idle" /\ status' = "closing" /\ nameFile' = << >>
      /\ UNCHANGED <<work, nameMap, imap, mem, disk, ckpt>>
  BY DEF BeginShutdown, Up, segVars
<1>2. SavedView = SavedShown
  BY SavedViewIs
<1>8. (SavedView = SavedShown)'
  BY SavedViewIs, PTL
<1>3. SavedView' = {Store!Empty : s \in SavedView}
  <2>1. CASE ckpt.kind = "none"
    BY <1>1, <1>2, <1>8, <2>1 DEF SavedShown, Store!Empty
  <2>2. CASE ckpt.kind = "full"
    <3>1. Mountable
      BY <1>1, <2>2 DEF StoreInv, SavedInv
    <3>2. Mountable'
      BY <1>1, <3>1, EmptyNames DEF Mountable, LeaveOffValid
    <3>3. FilesOf(LoadedNames(<< >>), ckpt, disk) = << >>
      BY EmptyNames, NoFilesSaved
    <3>4. SavedView' = {<< >>}
      BY <1>1, <1>8, <2>2, <3>2, <3>3 DEF SavedShown
    <3>5. SavedView = {FilesOf(LoadedNames(nameFile), ckpt, disk)}
      BY <1>2, <2>2, <3>1 DEF SavedShown
    <3>6. QED
      BY <3>4, <3>5 DEF Store!Empty
  <2>3. CASE ckpt.kind \notin {"none", "full"}
    <3>1. ~Mountable /\ ~Mountable'
      BY <1>1, <2>3 DEF Mountable
    <3>2. QED
      BY <1>1, <1>2, <1>8, <2>3, <3>1 DEF SavedShown
  <2>4. QED
    BY <2>1, <2>2, <2>3
<1>4. StoreView = LiveFiles(nameMap, imap, mem, disk)
  BY <1>1, StoreViewIs DEF Open
<1>5. (status \in Open /\ work.pc = "idle" => StoreView = LiveFiles(nameMap, imap, mem, disk))'
  BY StoreViewIs, PTL
<1>6. StoreView' = StoreView
  BY <1>1, <1>4, <1>5 DEF Open
<1>7. QED
  BY <1>1, <1>3, <1>6 DEF Store!BeginSave, Store!None, Phase

(* CHECKPOINT_REGION is truncated: there is nothing to mount.              *)
LEMMA GiveUpStep ==
  ASSUME StoreInv, StoreInv', TruncateCheckpoint
  PROVE  Store!GiveUpSaved
<1>1. /\ status = "closing" /\ status' = "truncated" /\ ckpt'.kind = "empty"
      /\ UNCHANGED <<work, nameMap, imap, mem, disk>>
  BY DEF TruncateCheckpoint, NoCheckpoint, Checkpoint, segVars
<1>2. (SavedView = SavedShown)'
  BY SavedViewIs, PTL
<1>3. SavedView' = {}
  BY <1>1, <1>2 DEF SavedShown, Mountable
<1>4. work.pc = "idle" /\ StoreView = LiveFiles(nameMap, imap, mem, disk)
  BY <1>1, StoreViewIs DEF Open
<1>5. (status \in Open /\ work.pc = "idle" => StoreView = LiveFiles(nameMap, imap, mem, disk))'
  BY StoreViewIs, PTL
<1>6. StoreView' = StoreView
  BY <1>1, <1>4, <1>5 DEF Open
<1>7. QED
  BY <1>1, <1>3, <1>6 DEF Store!GiveUpSaved, Phase

(* The checkpoint is there, and gives back the files by their names, or    *)
(* nothing.                                                                *)
LEMMA EndSaveStep ==
  ASSUME PlainNames, StoreInv, StoreInv', WriteCheckpoint
  PROVE  Store!EndSave
<1>0. TypeInv /\ SavedInv
  BY DEF StoreInv, DriveInv
<1>1. /\ status = "flushed" /\ status' = "down" /\ ckpt' = Closing /\ Closing.kind = "full"
      /\ UNCHANGED <<disk, nameFile>> /\ work' = Idle
  BY DEF WriteCheckpoint, ProcessEnds, Closing, Checkpoint
<1>2. nameFile = SavedNames(nameMap) /\ NameMaps(nameMap)
  BY <1>0, <1>1 DEF SavedInv, TypeInv, FilesTyped
<1>3. StoreView = FilesOf(nameMap, Closing, disk)
  BY <1>1, StoreViewIs
<1> DEFINE files == FilesOf(LoadedNames(nameFile), Closing, disk)
<1>4. ASSUME NamesLoad(nameFile) PROVE files = StoreView
  <2>1. /\ DOMAIN LoadedNames(nameFile) \cap FileNames = DOMAIN nameMap \cap FileNames
        /\ \A n \in DOMAIN nameMap \cap FileNames : LoadedNames(nameFile)[n] = nameMap[n]
    BY <1>2, <1>4, NamesReturn
  <2>2. QED
    BY <1>3, <2>1 DEF FilesOf
<1>5. (SavedView = SavedShown)'
  BY SavedViewIs, PTL
<1>6. SavedView' = IF Mountable' THEN {files} ELSE {}
  BY <1>1, <1>5 DEF SavedShown
<1>7. Mountable' => NamesLoad(nameFile)
  BY <1>1 DEF Mountable
<1> HIDE DEF files
<1>8. SavedView' \in {{StoreView}, {}}
  BY <1>4, <1>6, <1>7
<1>9. (~Running => StoreView = LeftView)'
  BY StoreViewIs, PTL
<1>10. StoreView' = IF SavedView' = {} THEN << >> ELSE CHOOSE v \in SavedView' : TRUE
  BY <1>1, <1>9 DEF Running, LeftView
<1>11. Phase = "saving" /\ Phase' = "closed"
  BY <1>1 DEF Phase
<1>12. QED
  BY <1>1, <1>8, <1>10, <1>11, IdleIs DEF Store!EndSave, Store!Close, Store!None, Store!Empty

(* The last flush leaves in the segment files what cat showed.             *)
LEMMA FlushShows ==
  ASSUME TypeInv, PlaceInv, ChunkInv(TRUE), CurrentInv(TRUE), FilesInv, FlushLast
  PROVE  FilesOf(nameMap, Closing, disk') = LiveFiles(nameMap, imap, mem, disk)
<1>1. Closing.leaveOff = leaveOff /\ Closing.dirty = dirty /\ Closing.cr = cr
  BY DEF Closing, Checkpoint
<1>2. FilesHold /\ ~Making(work)
  <2>1. status = "named"
    BY DEF FlushLast
  <2>2. work = Idle
    BY <2>1 DEF TypeInv, ControlTyped
  <2>3. QED
    BY <2>1, <2>2, IdleIs DEF FilesInv, Open, Making
<1> HIDE DEF Closing
<1>3. ASSUME NEW n \in DOMAIN nameMap \cap FileNames
      PROVE  HeldSaved(InFile(SavedAt(Closing, disk', nameMap[n]), disk').block, disk')
               = Held(InodeOf(nameMap, imap, n, mem, disk), mem, disk)
  <2> DEFINE i == nameMap[n]
             b == BlockAt(imap[i])
  <2>1. /\ i \in Inodes /\ imap[i] \in Addr /\ Placed(imap[i], mem, dirty)
        /\ b = CellOf(imap[i], mem, disk).block /\ b \in Block
        /\ OwnBlocks(b, i, mem, disk, dirty)
    BY <1>2, FileRead
  <2>2. SavedAt(Closing, disk', i) = imap[i]
    BY <1>1, <2>1, FlushSavesFiles
  <2>3. InFile(imap[i], disk') = CellOf(imap[i], mem, disk)
    BY <1>1, <2>1, FlushSaves
  <2> HIDE DEF b
  <2>4. ASSUME NEW k \in 1..FileSize(b)
        PROVE  SavedByte(b, k, disk') = FileByte(b, k, mem, disk)
    <3>1. /\ BlockNo(k) \in 0..(MaxData - 1) /\ BlockSize * BlockNo(k) < FileSize(b)
          /\ b.ptrs[BlockNo(k)] \in Addr
      BY <2>1, ByteOfFile
    <3>2. Placed(b.ptrs[BlockNo(k)], mem, dirty)
      BY <2>1, <3>1 DEF OwnBlocks, HoldsData, Holds
    <3>3. InFile(b.ptrs[BlockNo(k)], disk') = CellOf(b.ptrs[BlockNo(k)], mem, disk)
      BY <1>1, <3>1, <3>2, FlushSaves
    <3>4. QED
      BY <3>3 DEF FileByte, SavedByte
  <2>5. HeldSaved(b, disk') = Held(b, mem, disk)
    BY <2>4 DEF Held, HeldSaved
  <2>6. QED
    BY <2>1, <2>2, <2>3, <2>5 DEF InodeOf
<1>4. QED
  BY <1>3 DEF FilesOf, LiveFiles

(* The steps that the store does not see.                                  *)
LEMMA HiddenStep ==
  ASSUME StoreInv, StoreInv', [Next]_vars,
         ReadLast \/ WriteData \/ WriteInode \/ TurnSegment \/ Overrun \/ Spin
  PROVE  UNCHANGED <<Phase, StoreView, SavedView, (IF work.pc = "idle" THEN << >> ELSE work.request)>>
<1>0. TypeInv /\ TypeInv' /\ cl.pc = "off"
  BY DEF StoreInv, DriveInv, StartInv
<1>1. /\ status = "up" /\ work.pc # "idle" /\ ckpt' = ckpt
      /\ status' \in {"up", "spinning", "corrupt"}
  BY <1>0 DEF ReadLast, WriteData, WriteInode, TurnSegment, Overrun, Spin, Writing, WantsToWrite,
     Moving, Up
<1>2. Busy(work)
  BY <1>0, <1>1, BusyIs
<1>3. work'.pc # "idle" /\ work'.request = work.request /\ work'.before = work.before
  <2>1. DOMAIN work = WorkFields
    BY <1>2 DEF Busy
  <2>2. CASE ReadLast \/ TurnSegment
    BY <1>1, <2>1, <2>2 DEF ReadLast, TurnSegment, WorkFields
  <2>3. CASE WriteData
    BY <1>1, <2>1, <2>3 DEF WriteData, WorkFields
  <2>4. CASE WriteInode
    BY <1>1, <2>1, <2>4 DEF WriteInode, WorkFields
  <2>5. CASE Overrun \/ Spin
    BY <1>1, <2>5 DEF Overrun, Spin
  <2>6. QED
    BY <2>2, <2>3, <2>4, <2>5
<1>4. SavedView' = SavedView
  BY <1>1, SavedSame
<1>5. StoreView = work.before
  BY <1>1, StoreViewIs
<1>6. (work.pc # "idle" => StoreView = work.before /\ Running)'
  BY StoreViewIs, PTL
<1>7. Phase = "open" /\ Phase' = "open"
  BY <1>1 DEF Phase
<1>8. QED
  BY <1>1, <1>3, <1>4, <1>5, <1>6, <1>7

(* Nor does it see that the names and the last segment are written.        *)
LEMMA SavingStep ==
  ASSUME StoreInv, StoreInv', [Next]_vars, WriteNames \/ FlushLast
  PROVE  UNCHANGED <<Phase, StoreView, SavedView, (IF work.pc = "idle" THEN << >> ELSE work.request)>>
<1>0. /\ TypeInv /\ PlaceInv /\ ChunkInv(TRUE) /\ CurrentInv(TRUE) /\ FilesInv
  BY DEF StoreInv, DriveInv
<1>1. /\ status \in {"truncated", "named"} /\ status' \in {"named", "flushed"}
      /\ UNCHANGED <<work, ckpt, nameMap, imap>>
  BY DEF WriteNames, FlushLast
<1>2. work.pc = "idle" /\ work'.pc = "idle"
  BY <1>1, StoreViewIs
<1>3. SavedView' = SavedView
  BY <1>1, SavedSame
<1>4. StoreView = LiveFiles(nameMap, imap, mem, disk)
  BY <1>1, <1>2, StoreViewIs DEF Open
<1>5. StoreView' = StoreView
  <2>1. CASE WriteNames
    <3>1. (status \in Open /\ work.pc = "idle" => StoreView = LiveFiles(nameMap, imap, mem, disk))'
      BY StoreViewIs, PTL
    <3>2. UNCHANGED <<mem, disk>> /\ status' = "named"
      BY <2>1 DEF WriteNames
    <3>3. QED
      BY <1>1, <1>2, <1>4, <3>1, <3>2 DEF Open
  <2>2. CASE FlushLast
    <3>1. (status = "flushed" => StoreView = FilesOf(nameMap, Closing, disk))'
      BY StoreViewIs, PTL
    <3>2. status' = "flushed" /\ Closing' = Closing
      BY <2>2 DEF FlushLast, Closing
    <3>3. StoreView' = FilesOf(nameMap, Closing, disk')
      BY <1>1, <3>1, <3>2
    <3>4. FilesOf(nameMap, Closing, disk') = LiveFiles(nameMap, imap, mem, disk)
      BY <1>0, <2>2, FlushShows
    <3>5. QED
      BY <1>4, <3>3, <3>4
  <2>3. QED
    BY <2>1, <2>2
<1>6. Phase = "saving" /\ Phase' = "saving"
  BY <1>1 DEF Phase
<1>7. QED
  BY <1>2, <1>3, <1>5, <1>6

(* Nothing that changes, nothing that is seen.                             *)
LEMMA StandStill ==
  ASSUME UNCHANGED vars
  PROVE  UNCHANGED Store!vars
<1>1. UNCHANGED <<disk, mem, imap, nameMap, nameFile, ckpt, status, work>>
  BY DEF vars, segVars, driveVars
<1>2. UNCHANGED <<Phase, Mountable, SavedImap>>
  BY <1>1 DEF Phase, Mountable, LeaveOffValid, SavedImap, DiskBlock
<1>3. SavedView' = SavedView
  BY <1>1, <1>2 DEF SavedView, Contents, Bytes, Shown, BlockSeen, DiskBlock, BlockAt, MemBlock
<1>4. StoreView' = StoreView
  BY <1>1, <1>3 DEF StoreView, Running, Contents, Bytes, Shown, BlockSeen, DiskBlock, BlockAt,
     MemBlock
<1>5. QED
  BY <1>1, <1>2, <1>3, <1>4 DEF Store!vars

(* Every step of the drive is one of the store, or is not seen.            *)
LEMMA StoreStep ==
  ASSUME PlainNames, StoreInv, StoreInv', [Next]_vars
  PROVE  [Store!Next]_(Store!vars)
<1>1. CASE Format \/ Mount
  BY <1>1, OpenStep DEF Store!Next
<1>2. CASE RefuseMount
  BY <1>2, RefuseStep DEF Store!Next
<1>3. CASE Command
  <2>1. OutOfInodes \/ status' = "up"
    BY <1>3 DEF Command, Import, Remove, Overwrite, Ready, Up
  <2>2. QED
    BY <1>3, <2>1, BeginStep, DieStep DEF Store!Next
<1>4. CASE WriteImapChunk
  BY <1>4, FinishStep DEF Store!Next
<1>5. CASE ReadLast \/ WriteData \/ WriteInode \/ TurnSegment \/ Overrun \/ Spin
  BY <1>5, HiddenStep DEF Store!vars
<1>6. CASE Cleaning
  BY <1>6 DEF StoreInv, DriveInv, StartInv, Cleaning, CleanStep, ScanSegment, MoveData,
     MoveInode, MoveChunk, CleanTurn, Release, CleanEnds, Moving
<1>7. CASE BeginShutdown \/ TruncateCheckpoint
  BY <1>7, BeginSaveStep, GiveUpStep DEF Store!Next
<1>8. CASE WriteNames \/ FlushLast
  BY <1>8, SavingStep DEF Store!vars
<1>9. CASE WriteCheckpoint
  BY <1>9, EndSaveStep DEF Store!Next
<1>10. CASE Crash
  BY <1>10, DieStep DEF Store!Next
<1>11. CASE Stopped \/ UNCHANGED vars
  BY <1>11, StandStill DEF Stopped
<1>12. QED
  BY <1>1, <1>2, <1>3, <1>4, <1>5, <1>6, <1>7, <1>8, <1>9, <1>10, <1>11
     DEF Next, WorkStep, Shutdown

(* The files, and what the commands make of them, with the invariant of    *)
(* the drive.                                                              *)
LEMMA StoreInvInit ==
  ASSUME Init
  PROVE  StoreInv
<1>1. DriveInv(TRUE, FALSE)
  BY DriveInit
<1>2. status = "down" /\ ckpt.kind = "none"
  BY DEF Init, NoCheckpoint, Checkpoint
<1>3. QED
  BY <1>1, <1>2 DEF StoreInv, FilesInv, SavedInv, ContentInv, Open

(* Every step keeps them.                                                  *)
LEMMA StoreInvStep ==
  ASSUME PlainNames, StoreInv, [Next]_vars, NotCleaning'
  PROVE  StoreInv'
<1>1. DriveInv(TRUE, FALSE)'
  BY DriveStep DEF StoreInv
<1>2. FilesInv'
  BY FilesNext DEF StoreInv, DriveInv
<1>3. SavedInv'
  BY SavedNext DEF StoreInv, DriveInv
<1>4. ContentInv'
  BY ContentNext DEF StoreInv, DriveInv
<1>5. QED
  BY <1>1, <1>2, <1>3, <1>4 DEF StoreInv

(* The invariant of a drive that is never cleaned, with its files.         *)
LEMMA StoreInvariant ==
  ASSUME PlainNames
  PROVE  Spec /\ []NotCleaning => []StoreInv
<1>1. Init => StoreInv
  BY StoreInvInit
<1>2. StoreInv /\ NotCleaning' /\ [Next]_vars => StoreInv'
  BY StoreInvStep
<1>3. QED
  BY <1>1, <1>2, PTL DEF Spec

(* A drive on which nothing is yet is an empty store.                      *)
LEMMA StoreBegins ==
  ASSUME Init
  PROVE  Store!Init
<1>1. /\ status = "down" /\ ckpt.kind = "none" /\ work = Idle
  BY DEF Init, NoCheckpoint, Checkpoint
<1>2. SavedView = {<< >>}
  BY <1>1 DEF SavedView
<1>3. StoreView = << >>
  BY <1>1, <1>2, OnlyOne DEF StoreView, Running
<1>4. QED
  BY <1>1, <1>2, <1>3, IdleIs DEF Store!Init, Store!None, Store!Empty, Phase

(* A drive that is never cleaned keeps a store of files, when the names it *)
(* is given are words that are no numbers: what cat shows after a command, *)
(* a shutdown and a mount, or a crash is what the commands make of it, but *)
(* for the bytes that an overwrite leaves open; and what the last shutdown *)
(* saved stays as it is until the next begins, which leaves of it a store  *)
(* without files, then nothing, then what it saves itself.                 *)
THEOREM DriveIsStore ==
  ASSUME PlainNames
  PROVE  Spec /\ []NotCleaning => StoreSpec
<1>1. Init => Store!Init
  BY StoreBegins
<1>2. StoreInv /\ StoreInv' /\ [Next]_vars => [Store!Next]_(Store!vars)
  BY StoreStep
<1>3. QED
  BY <1>1, <1>2, StoreInvariant, PTL DEF Spec, StoreSpec, Store!Spec

(* Every data block of a named file is where its inode says.               *)
THEOREM FilesAreWhole ==
  ASSUME PlainNames
  PROVE  Spec /\ []NotCleaning => []FilesWhole
<1>1. StoreInv => FilesWhole
  <2> SUFFICES ASSUME StoreInv, Up, work.pc = "idle", NEW n \in DOMAIN nameMap,
                      NEW k \in 0..(MaxData - 1),
                      k * BlockSize < FileSize(BlockAt(imap[nameMap[n]]))
               PROVE  LET a == BlockAt(imap[nameMap[n]]).ptrs[k]
                      IN /\ a[2] \in Slots
                         /\ CellAt(a).type = "DATA" /\ CellAt(a).id = nameMap[n]
                         /\ CellAt(a).index = k
    BY DEF FilesWhole
  <2>1. TypeInv /\ FilesHold
    BY DEF StoreInv, DriveInv, FilesInv, Open, Up
  <2> DEFINE i == nameMap[n]
             b == BlockAt(imap[i])
  <2>2. i \in Inodes /\ imap[i] \in Addr /\ DOMAIN imap = Inodes
    BY <2>1, NameIsKnown DEF TypeInv, SegmentTyped
  <2>3. k \in Nat /\ BlockSize \in Nat \ {0} /\ BlockSize * k = k * BlockSize
    BY LayoutIs
  <2>4. imap[i] # Nil
    <3>1. BlockAt(Nil) = ZeroBlock
      BY LayoutIs DEF BlockAt, MemBlock, DiskBlock, Nil
    <3>2. FileSize(ZeroBlock) = 0
      BY LayoutIs DEF ZeroBlock, FileSize
    <3>3. k * BlockSize \in Nat
      BY <2>3
    <3>4. QED
      BY <3>1, <3>2, <3>3
  <2>5. Placed(imap[i], mem, dirty)
    BY <2>1, <2>2, <2>4 DEF FilesHold, ImapHolds, Sound, Holds
  <2>6. b = CellOf(imap[i], mem, disk).block
    BY <2>5, ReadPlaced
  <2>7. OwnBlocks(b, i, mem, disk, dirty)
    BY <2>1, <2>2, <2>4, <2>6 DEF FilesHold, AllOwn
  <2>8. HoldsData(b.ptrs[k], i, k, mem, disk, dirty)
    BY <2>3, <2>7 DEF OwnBlocks
  <2>9. QED
    BY <2>8 DEF HoldsData, Holds, Placed, CellOf, CellAt
<1>2. QED
  BY <1>1, StoreInvariant, PTL

(* The imap is never wrong about an inode on a drive that is never         *)
(* cleaned, overwrites and mounts included, when no mount can take a word  *)
(* of NAME_MAP for the name of a file.                                     *)
THEOREM PlainImapIsSound ==
  ASSUME PlainNames
  PROVE  Spec /\ []NotCleaning => []ImapSound
<1>1. StoreInv => ImapSound
  <2>1. status = "up" /\ StoreInv => TypeInv /\ ImapHolds
    BY DEF StoreInv, DriveInv, FilesInv, FilesHold, Open
  <2>2. QED
    BY <2>1, ImapMeans DEF ImapSound, Up
<1>2. QED
  BY <1>1, StoreInvariant, PTL

(* So are the names: on such a drive the name of a file is the way to its  *)
(* own file through any number of shutdowns, crashes and mounts, whatever  *)
(* was imported over, removed and overwritten.                             *)
THEOREM PlainNamesAreSound ==
  ASSUME PlainNames
  PROVE  Spec /\ []NotCleaning => []NamesSound
<1>1. StoreInv => NamesSound
  <2> SUFFICES ASSUME StoreInv, status = "up", work.pc = "idle"
               PROVE  \A n \in DOMAIN nameMap \cap FileNames :
                        /\ imap[nameMap[n]] # Nil
                        /\ BlockAt(imap[nameMap[n]]).name = n
                        /\ \A m \in DOMAIN nameMap \cap FileNames :
                             nameMap[m] = nameMap[n] => m = n
    BY DEF NamesSound, Up
  <2>1. TypeInv /\ FilesHold /\ ~Making(work)
    BY DEF StoreInv, DriveInv, FilesInv, Open, Making
  <2>2. \A n \in DOMAIN nameMap \cap FileNames :
          imap[nameMap[n]] # Nil /\ BlockAt(imap[nameMap[n]]).name = n
    BY <2>1, FileRead
  <2>3. QED
    BY <2>2
<1>2. QED
  BY <1>1, StoreInvariant, PTL

=============================================================================
